---------------------------- MODULE EnrollProofs ----------------------------
(***************************************************************************)
(* Proofs about auto discovery and auto enrollment (AutoEnrollment), for   *)
(* every set of agents and attributes, every finite set of rule sets, any  *)
(* names that collide and any number of failed calls and edits.  The       *)
(* properties follow from the inductive invariant EnrollInv.               *)
(***************************************************************************)
EXTENDS AutoEnrollment, FiniteSetTheorems, TLAPS

-----------------------------------------------------------------------------
(* The inductive invariant.                                                *)

\* What a Hardware object says of enrollment stays what it is.
Alike(g, h) == g.name = h.name /\ g.agent = h.agent /\ g.enabled = h.enabled

\* The namespaces an agent may be enrolled in, and those it has a Workflow in.
NamespacesFor(a) == {rs.ns : rs \in BestRuleSets(AttrsOf(a))}
NamespacesOf(a) == {w.ns : w \in OfAgent(awf, a)}

Workflows ==
  [name : {WorkflowName(a) : a \in AgentIds}, ns : {rs.ns : rs \in RuleSets}, agent : AgentIds,
   hwRef : {h.name : h \in HardwareObjects} \cup {ENil}, rendered : BOOLEAN]

EnrollTyped ==
  /\ aconf \in AutoConfigs
  /\ ahw \subseteq HardwareObjects /\ ahwCache \subseteq HardwareObjects
  /\ awf \subseteq Workflows /\ awfCache \subseteq Workflows
  /\ acall \in [AgentIds ->
       [at : {"idle", "discover", "createHardware", "list", "createWorkflow", "wait"},
        hw : HardwareObjects \cup {ENil}]]
  /\ DOMAIN answer = AgentIds /\ enrolled \in [AgentIds -> Nat]
  /\ atroubles \in 0 .. MaxTroubles /\ edits \in 0 .. MaxEdits

\* An agent has one object: a person's, which the cache has had from the
\* start, or the one that discovery made.
OneObject ==
  /\ \A h \in ahw :
       \/ h.name = PersonsName
       \/ /\ h.name = HardwareName(h.agent) /\ HardwareName(h.agent) # ENil
          /\ h.agent \in aconf.agents => aconf.discovery /\ h.enabled = aconf.persist
  /\ \A g, h \in ahw : g.agent = h.agent => g = h
  /\ \A g, h \in ahwCache : g.agent = h.agent => g = h
  /\ \A h \in ahwCache : \E g \in ahw : Alike(g, h)
  /\ \A h \in ahw : h.name = PersonsName => \E g \in ahwCache : g.agent = h.agent

\* A call, by how far it is.
CallOK(a) ==
  /\ acall[a].at # "idle" => a \in aconf.agents
  /\ answer[a] = "served" => acall[a].at = "idle" /\ a \in aconf.agents
  /\ acall[a].at \in {"discover", "createHardware"} => aconf.discovery
  /\ acall[a].at = "createHardware" =>
       HardwareName(a) # ENil /\ \A h \in ahw : h.agent = a => h.name # PersonsName
  /\ acall[a].at = "createWorkflow" => WorkflowName(a) # ENil
  /\ acall[a].hw # ENil /\ ~acall[a].hw.enabled => \E g \in ahw : g.agent = a /\ ~g.enabled

CallsOK == \A a \in AgentIds : CallOK(a)

\* A Workflow has its agent's name, and an agent that calls has one only after
\* it was enrolled.
WorkflowsOK ==
  /\ \A w \in awf : /\ w.name = WorkflowName(w.agent) /\ w.name # ENil
                    /\ w.ns \in NamespacesFor(w.agent)
  /\ \A w \in awf \cup awfCache : w.agent \in aconf.agents => enrolled[w.agent] >= 1
  /\ \A w \in awfCache : w.name = WorkflowName(w.agent) /\ w.name # ENil

\* Everyone who asks for the agent finds its object, which refuses it.
Refused(a) ==
  /\ \E h \in ahwCache : h.agent = a
  /\ acall[a].at \notin {"createHardware", "createWorkflow"}
  /\ acall[a].at = "list" => acall[a].hw # ENil /\ ~acall[a].hw.enabled

\* Its Hardware can be named, no other agent's object has the name, and no
\* person's permits the agent.
Single(a) ==
  /\ HardwareName(a) # ENil
  /\ \A h \in ahw : h.name = HardwareName(a) => h.agent = a
  /\ \A h \in ahw : h.agent = a /\ h.name = PersonsName => ~h.enabled

\* Each enrollment left a Workflow in a namespace of its own, until a person
\* removed one, after which the agent is refused.
Budget(a) ==
  /\ enrolled[a] <= Cardinality(NamespacesFor(a))
  /\ WorkflowName(a) = ENil => enrolled[a] = 0
  /\ WorkflowName(a) # ENil => Refused(a) \/ enrolled[a] <= Cardinality(NamespacesOf(a))
  /\ enrolled[a] >= 1 \/ acall[a].at \in {"list", "createWorkflow", "wait"} =>
       \E h \in ahw : h.agent = a

Budgets ==
  (aconf.discovery /\ ~aconf.persist /\ atroubles = 0) =>
    \A a \in AgentIds : Single(a) => Budget(a)

\* The object discovery made refuses the agent only after it was enrolled, or
\* while the call that made it still has the permission.
FirstUsed ==
  (atroubles = 0 /\ aconf.enrollment) =>
    \A a \in aconf.agents :
      /\ NameWasOwn(a) /\ WorkflowName(a) # ENil /\ BestRuleSets(AttrsOf(a)) # {}
      /\ \E h \in ahw : h.agent = a /\ h.name # PersonsName /\ ~h.enabled
      => \/ enrolled[a] >= 1
         \/ /\ acall[a].at \in {"list", "createWorkflow"}
            /\ acall[a].hw # ENil /\ acall[a].hw.enabled

EnrollInv ==
  /\ EnrollTyped /\ OneObject /\ CallsOK /\ WorkflowsOK /\ Budgets /\ FirstUsed
  /\ FirstContactEnrolls

-----------------------------------------------------------------------------

\* A name that could be made is valid, and so none that a person gave.
LEMMA NameIsValid ==
  ASSUME NEW a
  PROVE /\ WorkflowName(a) # ENil => isValid(WorkflowName(a))
        /\ HardwareName(a) # ENil => HardwareName(a) # PersonsName
<1>1. PICK r : WorkflowName(a) = IF TrimChar(a, {" "}) = << >> \/ ~isValid(r) THEN ENil ELSE r
  BY DEF WorkflowName, makeValidName
<1>2. PICK q : HardwareName(a) = IF TrimChar(a, {" "}) = << >> \/ ~isValid(q) THEN ENil ELSE q
  BY DEF HardwareName, makeValidName
<1>3. Len(PersonsName) = 2 /\ PersonsName[2] = "A"
  BY DEF PersonsName
<1>4. ~isValid(PersonsName)
  BY <1>3 DEF isValid
<1> QED BY <1>1, <1>2, <1>4

\* The fields of the objects there can be.
LEMMA ObjectFields ==
  ASSUME NEW h \in HardwareObjects
  PROVE /\ h # ENil /\ h.agent \in AgentIds /\ h.enabled \in BOOLEAN
        /\ [h EXCEPT !.annotated = TRUE] \in HardwareObjects
        /\ Alike([h EXCEPT !.annotated = TRUE], h)
BY NilAssumption DEF HardwareObjects, Alike

\* The objects that discovery and people make.
LEMMA MadeObjects ==
  ASSUME NEW a \in AgentIds, NEW b \in BOOLEAN
  PROVE /\ Discovered(a, b) \in HardwareObjects
        /\ Discovered(a, b).name = HardwareName(a) /\ Discovered(a, b).agent = a
        /\ Discovered(a, b).enabled = b
        /\ [Discovered(a, b) EXCEPT !.enabled = TRUE] \in HardwareObjects
        /\ [Discovered(a, b) EXCEPT !.enabled = TRUE].enabled = TRUE
        /\ Described(a, b) \in HardwareObjects
        /\ Described(a, b).name = PersonsName /\ Described(a, b).agent = a
        /\ Described(a, b).enabled = b
<1>1. updateHardware(AttrsOf(a)).annotated \in BOOLEAN
  BY DEF updateHardware
<1>2. PICK n \in {HardwareName(x) : x \in AgentIds} \cup {PersonsName} : n = HardwareName(a)
  OBVIOUS
<1>3. PICK d \in {updateHardware(AttrsOf(x)).disks : x \in AgentIds} \cup {{}} :
        d = updateHardware(AttrsOf(a)).disks
  OBVIOUS
<1>4. PICK m \in {updateHardware(AttrsOf(x)).macs : x \in AgentIds} \cup {{}} :
        m = updateHardware(AttrsOf(a)).macs
  OBVIOUS
<1>5. PICK t \in BOOLEAN : t = updateHardware(AttrsOf(a)).annotated
  BY <1>1
<1>6. Discovered(a, b) = [name |-> n, agent |-> a, enabled |-> b, disks |-> d, macs |-> m,
                          annotated |-> t]
  BY <1>2, <1>3, <1>4, <1>5 DEF Discovered
<1>7. PICK h : h = Discovered(a, b)
  OBVIOUS
<1>8. h \in HardwareObjects /\ h.name = n /\ h.agent = a /\ h.enabled = b
  BY <1>6, <1>7 DEF HardwareObjects
<1>9. [h EXCEPT !.enabled = TRUE] \in HardwareObjects /\ [h EXCEPT !.enabled = TRUE].enabled = TRUE
  BY <1>8 DEF HardwareObjects
<1>10. /\ Described(a, b) \in HardwareObjects
       /\ Described(a, b).name = PersonsName /\ Described(a, b).agent = a
       /\ Described(a, b).enabled = b
  BY DEF Described, HardwareObjects
<1> QED BY <1>2, <1>7, <1>8, <1>9, <1>10

\* The one that discovery makes has the configured permission.
LEMMA StoredObject ==
  ASSUME EnrollTyped, NEW a \in AgentIds
  PROVE /\ Discovered(a, aconf.persist) \in HardwareObjects
        /\ Discovered(a, aconf.persist).name = HardwareName(a)
        /\ Discovered(a, aconf.persist).agent = a
        /\ Discovered(a, aconf.persist).enabled = aconf.persist
<1>1. PICK b \in BOOLEAN : b = aconf.persist
  BY EnrollAssumption DEF EnrollTyped
<1>2. /\ Discovered(a, b) \in HardwareObjects /\ Discovered(a, b).name = HardwareName(a)
      /\ Discovered(a, b).agent = a /\ Discovered(a, b).enabled = b
  BY MadeObjects
<1> QED BY <1>1, <1>2

-----------------------------------------------------------------------------
(* What a step does to the Hardware objects.                               *)

\* Their names, agents and permissions are what they were.
HardwareKept ==
  /\ ahw' \subseteq HardwareObjects
  /\ \A g \in ahw' : \E h \in ahw : Alike(g, h)
  /\ \A h \in ahw : \E g \in ahw' : Alike(g, h)
  /\ \A g, h \in ahw' : g.agent = h.agent => g = h

\* Discovery makes one; without a failure its call has the permission.
HardwareMade(a) ==
  /\ acall[a].at = "createHardware" /\ ahwCache' = ahwCache
  /\ ahw' = ahw \cup {Discovered(a, aconf.persist)} /\ \A o \in ahw : o.name # HardwareName(a)
  /\ \/ atroubles' # 0
     \/ /\ acall'[a].at = "list" /\ acall'[a].hw # ENil
        /\ acall'[a].hw.enabled = TRUE

\* A step that leaves the objects alone keeps them.
LEMMA UnchangedKept ==
  ASSUME EnrollTyped, OneObject, ahw' = ahw
  PROVE HardwareKept
BY DEF HardwareKept, EnrollTyped, OneObject, Alike

\* The annotation that a served call leaves changes none of this.
LEMMA ServeKeeps ==
  ASSUME EnrollTyped, OneObject, NEW a, NEW hw, Serve(a, hw)
  PROVE HardwareKept
<1>1. PICK ref :
        ahw' = IF AttrsOf(a) = ENil \/ AttrsOf(a).large THEN ahw
               ELSE {IF h.name = ref THEN [h EXCEPT !.annotated = TRUE] ELSE h : h \in ahw}
  <2> DEFINE named == IF hw # ENil THEN hw.name ELSE (CHOOSE w \in ListWorkflows(a) : TRUE).hwRef
  <2>1. ahw' = IF AttrsOf(a) = ENil \/ AttrsOf(a).large THEN ahw
               ELSE {IF h.name = named THEN [h EXCEPT !.annotated = TRUE] ELSE h : h \in ahw}
    BY DEF Serve
  <2> HIDE DEF named
  <2> QED BY <2>1
<1>2. CASE ahw' = ahw
  BY <1>2, UnchangedKept
<1>3. CASE ahw' # ahw
  <2> DEFINE F(h) == IF h.name = ref THEN [h EXCEPT !.annotated = TRUE] ELSE h
  <2>1. ahw' = {F(h) : h \in ahw}
    BY <1>1, <1>3
  <2>2. \A h \in ahw : F(h) \in HardwareObjects /\ Alike(F(h), h)
    BY ObjectFields DEF EnrollTyped, Alike
  <2> HIDE DEF F
  <2>3. \A h \in ahw : F(h) \in ahw'
    BY <2>1
  <2>4. \A g \in ahw' : \E h \in ahw : g = F(h)
    BY <2>1
  <2>5. ahw' \subseteq HardwareObjects
    BY <2>2, <2>4
  <2>6. \A g \in ahw' : \E h \in ahw : Alike(g, h)
    BY <2>2, <2>4
  <2>7. \A h \in ahw : \E g \in ahw' : Alike(g, h)
    BY <2>2, <2>3
  <2>8. ASSUME NEW g \in ahw', NEW h \in ahw', g.agent = h.agent PROVE g = h
    <3>1. PICK x \in ahw : g = F(x)
      BY <2>4
    <3>2. PICK y \in ahw : h = F(y)
      BY <2>4
    <3>3. x.agent = y.agent
      BY <2>2, <2>8, <3>1, <3>2 DEF Alike
    <3> QED BY <3>1, <3>2, <3>3 DEF OneObject
  <2> QED BY <2>5, <2>6, <2>7, <2>8 DEF HardwareKept
<1> QED BY <1>2, <1>3

\* Every step does one of the two, and an informer lags behind the objects.
LEMMA HardwareStep ==
  ASSUME EnrollTyped, OneObject, CallsOK, EnrollNext
  PROVE /\ aconf' = aconf
        /\ HardwareKept \/ \E a \in AgentIds : HardwareMade(a)
        /\ ahwCache' = ahwCache \/ (ahwCache' = ahw /\ ahw' = ahw)
<1>1. ASSUME NEW a \in AgentIds,
             \/ doGetAction(a) \/ Discover(a) \/ List(a) \/ enroll(a) \/ getActionNoAuto(a)
      PROVE aconf' = aconf /\ ahwCache' = ahwCache /\ HardwareKept
  <2>1. CASE doGetAction(a) \/ Discover(a) \/ enroll(a)
    BY <2>1, UnchangedKept DEF doGetAction, Discover, enroll
  <2>2. CASE List(a)
    <3>1. ahw' = ahw \/ \E hw : Serve(a, hw)
      BY <2>2 DEF List
    <3> QED BY <2>2, <3>1, UnchangedKept, ServeKeeps DEF List
  <2>3. CASE getActionNoAuto(a)
    BY <2>3, UnchangedKept, ServeKeeps DEF getActionNoAuto
  <2> QED BY <1>1, <2>1, <2>2, <2>3
<1>2. ASSUME NEW a \in AgentIds, CreateHardware(a)
      PROVE /\ aconf' = aconf /\ ahwCache' = ahwCache
            /\ HardwareKept \/ HardwareMade(a)
  <2> DEFINE h == Discovered(a, aconf.persist)
  <2>1. h \in HardwareObjects /\ h.name = HardwareName(a) /\ [h EXCEPT !.enabled = TRUE] \in HardwareObjects
        /\ [h EXCEPT !.enabled = TRUE].enabled = TRUE
    BY MadeObjects, EnrollAssumption DEF EnrollTyped
  <2>2. acall[a].at = "createHardware" /\ aconf' = aconf /\ ahwCache' = ahwCache
    BY <1>2 DEF CreateHardware
  <2>3. CASE \E o \in ahw : o.name = h.name
    <3>1. ahw' = ahw
      BY <1>2, <2>3 DEF CreateHardware
    <3> QED BY <2>2, <3>1, UnchangedKept
  <2>4. CASE ~\E o \in ahw : o.name = h.name
    <3>1. ahw' = ahw \cup {h} /\ Go(a, "list", [h EXCEPT !.enabled = TRUE])
      BY <1>2, <2>4 DEF CreateHardware
    <3>2. PICK e \in HardwareObjects : e = [h EXCEPT !.enabled = TRUE] /\ e.enabled = TRUE
      BY <2>1, Zenon
    <3>3. e # ENil /\ e.enabled = TRUE
      <4>1. e # ENil
        BY ObjectFields
      <4> QED BY <3>2, <4>1, Zenon
    <3> HIDE DEF h
    <3>4. Go(a, "list", e)
      BY <3>1, <3>2, Zenon
    <3>5. acall'[a] = [at |-> "list", hw |-> e]
      BY <3>4 DEF Go, EnrollTyped
    <3>6. acall'[a].at = "list" /\ acall'[a].hw # ENil /\ acall'[a].hw.enabled = TRUE
      BY <3>3, <3>5
    <3> QED BY <2>1, <2>2, <2>4, <3>1, <3>6 DEF HardwareMade, h
  <2> QED BY <2>3, <2>4
<1>3. ASSUME NEW a \in AgentIds, CallFails(a)
      PROVE /\ aconf' = aconf /\ ahwCache' = ahwCache
            /\ HardwareKept \/ HardwareMade(a)
  <2>1. aconf' = aconf /\ ahwCache' = ahwCache /\ atroubles' # 0
    BY <1>3, EnrollAssumption DEF CallFails, EnrollTyped
  <2>2. CASE ahw' = ahw
    BY <2>1, <2>2, UnchangedKept
  <2>3. CASE ahw' # ahw
    <3>1. /\ acall[a].at = "createHardware" /\ ahw' = ahw \cup {Discovered(a, aconf.persist)}
          /\ \A o \in ahw : o.name # Discovered(a, aconf.persist).name
      BY <1>3, <2>3 DEF CallFails
    <3>2. Discovered(a, aconf.persist).name = HardwareName(a)
      BY StoredObject
    <3> QED BY <2>1, <3>1, <3>2 DEF HardwareMade
  <2> QED BY <2>2, <2>3
<1>4. ASSUME HardwareSync \/ WorkflowSync \/ \E w \in awf : Render(w) \/ RemoveWorkflow(w)
      PROVE /\ aconf' = aconf /\ HardwareKept
            /\ ahwCache' = ahwCache \/ (ahwCache' = ahw /\ ahw' = ahw)
  BY <1>4, UnchangedKept DEF HardwareSync, WorkflowSync, Render, RemoveWorkflow
<1> QED BY <1>1, <1>2, <1>3, <1>4 DEF EnrollNext

\* An agent still has one object.
LEMMA OneObjectStep ==
  ASSUME EnrollTyped, OneObject, CallsOK, EnrollNext
  PROVE OneObject' /\ ahw' \subseteq HardwareObjects /\ ahwCache' \subseteq HardwareObjects
<1>0. /\ aconf' = aconf
      /\ ahwCache' = ahwCache \/ (ahwCache' = ahw /\ ahw' = ahw)
  BY HardwareStep
<1>1. CASE HardwareKept
  <2>1. ahw' \subseteq HardwareObjects /\ ahwCache' \subseteq HardwareObjects
    BY <1>0, <1>1 DEF HardwareKept, EnrollTyped
  <2>2. \A h \in ahw' :
          \/ h.name = PersonsName
          \/ /\ h.name = HardwareName(h.agent) /\ HardwareName(h.agent) # ENil
             /\ h.agent \in aconf.agents => aconf.discovery /\ h.enabled = aconf.persist
    BY <1>1 DEF HardwareKept, OneObject, Alike
  <2>3. \A g, h \in ahwCache' : g.agent = h.agent => g = h
    BY <1>0 DEF OneObject
  <2>4. \A h \in ahwCache' : \E g \in ahw' : Alike(g, h)
    <3>1. \A h \in ahwCache : \E g \in ahw' : Alike(g, h)
      BY <1>1 DEF HardwareKept, OneObject, Alike
    <3>2. \A h \in ahw : Alike(h, h)
      BY DEF Alike
    <3> QED BY <1>0, <3>1, <3>2
  <2>5. \A h \in ahw' : h.name = PersonsName => \E g \in ahwCache' : g.agent = h.agent
    <3>1. \A h \in ahw' : h.name = PersonsName => \E g \in ahwCache : g.agent = h.agent
      BY <1>1 DEF HardwareKept, OneObject, Alike
    <3> QED BY <1>0, <3>1
  <2> QED BY <1>0, <1>1, <2>1, <2>2, <2>3, <2>4, <2>5 DEF OneObject, HardwareKept
<1>2. CASE \E a \in AgentIds : HardwareMade(a)
  <2>1. PICK a \in AgentIds : HardwareMade(a)
    BY <1>2
  <2>2. PICK h : h = Discovered(a, aconf.persist)
    OBVIOUS
  <2>3. h \in HardwareObjects /\ h.name = HardwareName(a) /\ h.agent = a /\ h.enabled = aconf.persist
    BY <2>2, StoredObject
  <2>4. ahw' = ahw \cup {h} /\ ahwCache' = ahwCache /\ acall[a].at = "createHardware"
    BY <2>1, <2>2 DEF HardwareMade
  <2>5. /\ HardwareName(a) # ENil /\ aconf.discovery
        /\ \A g \in ahw : g.agent = a => g.name # PersonsName
    BY <2>4 DEF CallsOK, CallOK
  <2>6. \A g \in ahw : g.agent # a
    BY <2>1, <2>5 DEF HardwareMade, OneObject
  <2>7. h.name # PersonsName
    BY <2>3, <2>5, NameIsValid
  <2>8. \A g, k \in ahw' : g.agent = k.agent => g = k
    BY <2>3, <2>4, <2>6 DEF OneObject
  <2>9. \A g \in ahw' :
          \/ g.name = PersonsName
          \/ /\ g.name = HardwareName(g.agent) /\ HardwareName(g.agent) # ENil
             /\ g.agent \in aconf.agents => aconf.discovery /\ g.enabled = aconf.persist
    BY <2>3, <2>4, <2>5 DEF OneObject
  <2>10. \A g \in ahwCache' : \E k \in ahw' : Alike(k, g)
    BY <2>4 DEF OneObject
  <2>11. \A g \in ahw' : g.name = PersonsName => \E k \in ahwCache' : k.agent = g.agent
    BY <2>4, <2>7 DEF OneObject
  <2>12. ahw' \subseteq HardwareObjects /\ ahwCache' \subseteq HardwareObjects
    BY <2>3, <2>4 DEF EnrollTyped
  <2>13. \A g, k \in ahwCache' : g.agent = k.agent => g = k
    BY <2>4 DEF OneObject
  <2> QED BY <1>0, <2>8, <2>9, <2>10, <2>11, <2>12, <2>13 DEF OneObject
<1> QED BY <1>1, <1>2, HardwareStep

-----------------------------------------------------------------------------
(* What a step does to the calls.                                          *)

\* The cache has one object of an agent, which is the one found, or none.
LEMMA FoundOne ==
  ASSUME OneObject, NEW a
  PROVE /\ OfAgent(ahwCache, a) = {} => Only(OfAgent(ahwCache, a)) = ENil
        /\ OfAgent(ahwCache, a) # {} =>
             Only(OfAgent(ahwCache, a)) \in ahwCache /\ Only(OfAgent(ahwCache, a)).agent = a
<1> DEFINE S == OfAgent(ahwCache, a)
<1>1. CASE S = {}
  BY <1>1, FS_EmptySet DEF Only
<1>2. CASE S # {}
  <2>1. PICK h \in ahwCache : h.agent = a
    BY <1>2 DEF OfAgent
  <2>2. S = {h}
    BY <2>1 DEF OneObject, OfAgent
  <2>3. Cardinality(S) = 1
    BY <2>2, FS_Singleton
  <2>4. Only(S) = h
    BY <2>2, <2>3 DEF Only
  <2> QED BY <1>2, <2>1, <2>4
<1> QED BY <1>1, <1>2

\* No step gives an agent a person's object, and none takes a refusal away.
LEMMA HardwareCarries ==
  ASSUME EnrollTyped, OneObject, CallsOK, EnrollNext, NEW b \in AgentIds
  PROVE /\ (\A h \in ahw : h.agent = b => h.name # PersonsName)
             => \A h \in ahw' : h.agent = b => h.name # PersonsName
        /\ (\E g \in ahw : g.agent = b /\ ~g.enabled) => \E g \in ahw' : g.agent = b /\ ~g.enabled
        /\ (\E g \in ahw : g.agent = b) => \E g \in ahw' : g.agent = b
        /\ \A g \in ahw : \E h \in ahw' : Alike(h, g)
<1>1. CASE HardwareKept
  BY <1>1 DEF HardwareKept, Alike
<1>2. CASE \E a \in AgentIds : HardwareMade(a)
  <2>1. PICK a \in AgentIds : HardwareMade(a)
    BY <1>2
  <2>2. Discovered(a, aconf.persist).name = HardwareName(a)
    BY StoredObject
  <2>3. HardwareName(a) # ENil
    BY <2>1 DEF CallsOK, CallOK, HardwareMade
  <2>4. (\A h \in ahw : h.agent = b => h.name # PersonsName)
          => \A h \in ahw' : h.agent = b => h.name # PersonsName
    BY <2>1, <2>2, <2>3, NameIsValid DEF HardwareMade
  <2>5. ahw \subseteq ahw'
    BY <2>1 DEF HardwareMade
  <2> QED BY <2>4, <2>5 DEF Alike
<1> QED BY <1>1, <1>2, HardwareStep

\* A call that a step leaves alone.
LEMMA OtherCall ==
  ASSUME EnrollTyped, OneObject, CallsOK, EnrollNext,
         NEW b \in AgentIds, acall'[b] = acall[b], answer'[b] = "served" => answer[b] = "served"
  PROVE CallOK(b)'
<1>1. CallOK(b) /\ aconf' = aconf
  BY HardwareStep DEF CallsOK
<1> QED BY <1>1, HardwareCarries DEF CallOK

\* What a call may become.
CallTo(a, at, hw) ==
  /\ acall'[a] = [at |-> at, hw |-> hw] /\ hw \in HardwareObjects \cup {ENil}
  /\ \A b \in AgentIds \ {a} : acall'[b] = acall[b] /\ answer'[b] = answer[b]
  /\ DOMAIN acall' = AgentIds /\ DOMAIN answer' = AgentIds
  /\ acall' = [b \in AgentIds |-> acall'[b]]

\* A call that goes on.
LEMMA GoTo ==
  ASSUME EnrollTyped, NEW a \in AgentIds, NEW at, NEW hw \in HardwareObjects \cup {ENil},
         Go(a, at, hw), answer' = answer
  PROVE CallTo(a, at, hw) /\ answer'[a] = answer[a]
BY DEF Go, CallTo, EnrollTyped

\* An answer leaves no call behind.
LEMMA AnsweredTo ==
  ASSUME EnrollTyped, NEW a \in AgentIds, NEW what, Answered(a, what)
  PROVE CallTo(a, "idle", ENil) /\ answer'[a] = what
BY DEF Answered, NoCallYet, CallTo, EnrollTyped

\* The steps of GetAction, by where they leave the call.
CallGoes(a) ==
  \/ /\ acall[a].at = "idle" /\ a \in aconf.agents /\ answer[a] # "served"
     /\ CallTo(a, IF aconf.discovery THEN "discover" ELSE "list", ENil)
     /\ answer' = answer
  \/ /\ acall[a].at = "discover" /\ answer' = answer
     /\ \/ (HardwareName(a) = ENil \/ atroubles' # 0) /\ CallTo(a, "list", ENil)
        \/ /\ HardwareName(a) # ENil /\ (\A h \in ahwCache : h.agent # a)
           /\ CallTo(a, "createHardware", ENil)
        \/ \E h \in ahwCache : h.agent = a /\ CallTo(a, "list", h)
  \/ /\ acall[a].at = "createHardware" /\ answer' = answer
     /\ \/ /\ atroubles' # 0 \/ (ahw' = ahw /\ \E h \in ahw : h.name = HardwareName(a))
           /\ CallTo(a, "list", ENil)
        \/ \E h \in HardwareObjects : h.enabled /\ HardwareMade(a) /\ CallTo(a, "list", h)
  \/ /\ acall[a].at = "list" /\ answer' = answer
     /\ LET hw == IF aconf.discovery THEN acall[a].hw ELSE Only(OfAgent(ahwCache, a))
        IN /\ hw = ENil \/ hw.enabled
           /\ WorkflowName(a) # ENil /\ CallTo(a, "createWorkflow", hw)
  \/ /\ acall[a].at = "createWorkflow" /\ answer' = answer
     /\ enrolled'[a] = enrolled[a] + 1 /\ CallTo(a, "wait", acall[a].hw)

\* The answers of GetAction, by why they are given.
CallEnds(a) ==
  /\ acall[a].at # "idle" /\ CallTo(a, "idle", ENil)
  /\ \/ /\ acall[a].at \in {"list", "wait"} /\ ListWorkflows(a) # {}
        /\ answer'[a] = "served"
     \/ LET hw == IF aconf.discovery THEN acall[a].hw ELSE Only(OfAgent(ahwCache, a))
        IN /\ acall[a].at = "list" /\ answer'[a] = "disabled"
           /\ aconf.enrollment /\ hw # ENil /\ ~hw.enabled
     \/ /\ acall[a].at = "list" /\ answer'[a] \in {"notFound", "badName", "noMatch"}
        /\ ~aconf.enrollment \/ WorkflowName(a) = ENil \/ BestRuleSets(AttrsOf(a)) = {}
     \/ /\ acall[a].at = "createWorkflow" /\ answer'[a] = "existing"
        /\ \E o \in awf : o.name = WorkflowName(a)
     \/ acall[a].at = "wait" /\ answer'[a] = "notFound"
     \/ atroubles' # 0 /\ answer'[a] = "internal"

\* Every step of GetAction is one of these.
LEMMA CallStep ==
  ASSUME EnrollTyped, OneObject, CallsOK, NEW a \in AgentIds,
         \/ doGetAction(a) \/ Discover(a) \/ CreateHardware(a) \/ List(a) \/ enroll(a)
         \/ getActionNoAuto(a) \/ CallFails(a)
  PROVE CallGoes(a) \/ CallEnds(a)
<1>0. acall[a].hw \in HardwareObjects \cup {ENil}
  BY DEF EnrollTyped
<1>1. CASE doGetAction(a)
  <2>1. CallTo(a, IF aconf.discovery THEN "discover" ELSE "list", ENil)
    BY <1>1, GoTo DEF doGetAction
  <2> QED BY <1>1, <2>1 DEF doGetAction, CallGoes
<1>2. CASE Discover(a)
  <2>1. acall[a].at = "discover" /\ answer' = answer
    BY <1>2 DEF Discover
  <2>2. CASE HardwareName(a) = ENil
    <3>1. CallTo(a, "list", ENil)
      BY <1>2, <2>2, GoTo DEF Discover
    <3> QED BY <2>1, <2>2, <3>1 DEF CallGoes
  <2>3. CASE HardwareName(a) # ENil /\ OfAgent(ahwCache, a) = {}
    <3>1. CallTo(a, "createHardware", ENil)
      BY <1>2, <2>3, GoTo DEF Discover
    <3>2. \A h \in ahwCache : h.agent # a
      BY <2>3 DEF OfAgent
    <3> QED BY <2>1, <2>3, <3>1, <3>2 DEF CallGoes
  <2>4. CASE HardwareName(a) # ENil /\ OfAgent(ahwCache, a) # {}
    <3>1. PICK h \in ahwCache : h = Only(OfAgent(ahwCache, a)) /\ h.agent = a
      BY <2>4, FoundOne
    <3>2. Go(a, "list", h)
      BY <1>2, <2>4, <3>1 DEF Discover
    <3>3. CallTo(a, "list", h)
      BY <2>1, <3>2, GoTo DEF EnrollTyped
    <3> QED BY <2>1, <3>1, <3>3 DEF CallGoes
  <2> QED BY <2>2, <2>3, <2>4
<1>3. CASE CreateHardware(a)
  <2> DEFINE h == Discovered(a, aconf.persist)
  <2>1. /\ h.name = HardwareName(a) /\ [h EXCEPT !.enabled = TRUE] \in HardwareObjects
        /\ [h EXCEPT !.enabled = TRUE].enabled = TRUE
    BY MadeObjects, EnrollAssumption DEF EnrollTyped
  <2>2. acall[a].at = "createHardware" /\ answer' = answer /\ ahwCache' = ahwCache
    BY <1>3 DEF CreateHardware
  <2>3. CASE \E o \in ahw : o.name = h.name
    <3>1. Go(a, "list", ENil) /\ ahw' = ahw
      BY <1>3, <2>3 DEF CreateHardware
    <3>2. CallTo(a, "list", ENil)
      BY <2>2, <3>1, GoTo
    <3> QED BY <2>1, <2>2, <2>3, <3>1, <3>2 DEF CallGoes
  <2>4. CASE ~\E o \in ahw : o.name = h.name
    <3>1. ahw' = ahw \cup {h} /\ Go(a, "list", [h EXCEPT !.enabled = TRUE])
      BY <1>3, <2>4 DEF CreateHardware
    <3>2. PICK e \in HardwareObjects : e = [h EXCEPT !.enabled = TRUE] /\ e.enabled = TRUE
      BY <2>1, Zenon
    <3>3. e # ENil /\ e.enabled = TRUE
      <4>1. e # ENil
        BY ObjectFields
      <4> QED BY <3>2, <4>1, Zenon
    <3> HIDE DEF h
    <3>4. Go(a, "list", e)
      BY <3>1, <3>2, Zenon
    <3>5. CallTo(a, "list", e)
      BY <2>2, <3>4, GoTo
    <3>6. acall'[a].at = "list" /\ acall'[a].hw # ENil /\ acall'[a].hw.enabled = TRUE
      BY <3>3, <3>5 DEF CallTo
    <3>7. HardwareMade(a)
      BY <2>1, <2>2, <2>4, <3>1, <3>6 DEF HardwareMade, h
    <3> QED BY <2>2, <3>3, <3>5, <3>7 DEF CallGoes
  <2> QED BY <2>3, <2>4
<1>4. CASE List(a)
  <2> DEFINE hw == IF aconf.discovery THEN acall[a].hw ELSE Only(OfAgent(ahwCache, a))
  <2>1. acall[a].at = "list"
    BY <1>4 DEF List
  <2>2. hw \in HardwareObjects \cup {ENil}
    BY <1>0, FoundOne DEF EnrollTyped
  <2>3. CASE ListWorkflows(a) # {}
    <3>1. Answered(a, "served")
      BY <1>4, <2>3 DEF List, Serve
    <3> QED BY <2>1, <2>3, <3>1, AnsweredTo DEF CallEnds
  <2>4. CASE ListWorkflows(a) = {}
    <3>1. \/ ~aconf.enrollment /\ Answered(a, "notFound")
          \/ aconf.enrollment /\ hw # ENil /\ ~hw.enabled /\ Answered(a, "disabled")
          \/ WorkflowName(a) = ENil /\ Answered(a, "badName")
          \/ BestRuleSets(AttrsOf(a)) = {} /\ Answered(a, "noMatch")
          \/ /\ hw = ENil \/ hw.enabled
             /\ WorkflowName(a) # ENil /\ Go(a, "createWorkflow", hw) /\ answer' = answer
      BY <1>4, <2>4 DEF List
    <3>2. CASE Go(a, "createWorkflow", hw) /\ answer' = answer /\ WorkflowName(a) # ENil
                 /\ (hw = ENil \/ hw.enabled)
      BY <2>1, <2>2, <3>2, GoTo DEF CallGoes
    <3>3. CASE aconf.enrollment /\ hw # ENil /\ ~hw.enabled /\ Answered(a, "disabled")
      BY <2>1, <3>3, AnsweredTo DEF CallEnds
    <3>4. CASE ~aconf.enrollment /\ Answered(a, "notFound")
      BY <2>1, <3>4, AnsweredTo DEF CallEnds
    <3>5. CASE WorkflowName(a) = ENil /\ Answered(a, "badName")
      BY <2>1, <3>5, AnsweredTo DEF CallEnds
    <3>6. CASE BestRuleSets(AttrsOf(a)) = {} /\ Answered(a, "noMatch")
      BY <2>1, <3>6, AnsweredTo DEF CallEnds
    <3> QED BY <3>1, <3>2, <3>3, <3>4, <3>5, <3>6
  <2> QED BY <2>3, <2>4
<1>5. CASE enroll(a)
  <2>1. /\ acall[a].at = "createWorkflow"
        /\ \/ Answered(a, "existing") /\ \E o \in awf : o.name = WorkflowName(a)
           \/ /\ Go(a, "wait", acall[a].hw) /\ answer' = answer
              /\ enrolled' = [enrolled EXCEPT ![a] = @ + 1]
    BY <1>5 DEF enroll, Taken, CreateWorkflow
  <2>2. CASE Answered(a, "existing") /\ \E o \in awf : o.name = WorkflowName(a)
    BY <2>1, <2>2, AnsweredTo DEF CallEnds
  <2>3. CASE /\ Go(a, "wait", acall[a].hw) /\ answer' = answer
             /\ enrolled' = [enrolled EXCEPT ![a] = @ + 1]
    <3>1. CallTo(a, "wait", acall[a].hw)
      BY <1>0, <2>3, GoTo
    <3>2. enrolled'[a] = enrolled[a] + 1
      BY <2>3 DEF EnrollTyped
    <3> QED BY <2>1, <2>3, <3>1, <3>2 DEF CallGoes
  <2> QED BY <2>1, <2>2, <2>3
<1>6. CASE getActionNoAuto(a)
  <2>1. /\ acall[a].at = "wait"
        /\ \/ ListWorkflows(a) # {} /\ Answered(a, "served")
           \/ Answered(a, "notFound")
    BY <1>6 DEF getActionNoAuto, Serve
  <2> QED BY <2>1, AnsweredTo DEF CallEnds
<1>7. CASE CallFails(a)
  <2>1. atroubles' # 0
    BY <1>7, EnrollAssumption DEF CallFails, EnrollTyped
  <2>2. CASE acall[a].at \in {"discover", "createHardware"}
    <3>1. CallTo(a, "list", ENil) /\ answer' = answer
      BY <1>7, <2>2, GoTo DEF CallFails
    <3> QED BY <2>1, <2>2, <3>1 DEF CallGoes
  <2>3. CASE acall[a].at \in {"list", "createWorkflow"}
    <3>1. CallTo(a, "idle", ENil) /\ answer'[a] = "internal"
      BY <1>7, <2>3, AnsweredTo DEF CallFails
    <3> QED BY <2>1, <2>3, <3>1 DEF CallEnds
  <2> QED BY <1>7, <2>2, <2>3 DEF CallFails
<1> QED BY <1>1, <1>2, <1>3, <1>4, <1>5, <1>6, <1>7

\* The calls after a step.
LEMMA CallsOKStep ==
  ASSUME EnrollTyped, OneObject, CallsOK, EnrollNext
  PROVE CallsOK'
<1>0. aconf' = aconf
  BY HardwareStep
<1>1. ASSUME NEW a \in AgentIds,
             \/ doGetAction(a) \/ Discover(a) \/ CreateHardware(a) \/ List(a) \/ enroll(a)
             \/ getActionNoAuto(a) \/ CallFails(a)
      PROVE CallsOK'
  <2>1. CallGoes(a) \/ CallEnds(a)
    BY <1>1, CallStep
  <2>2. CallOK(a)
    BY DEF CallsOK
  <2>3. PICK at, hw : CallTo(a, at, hw)
    BY <2>1, Zenon DEF CallGoes, CallEnds
  <2>4. \A at2, h : CallTo(a, at2, h) => acall'[a].at = at2 /\ acall'[a].hw = h
    BY DEF CallTo
  <2>5. \A b \in AgentIds \ {a} : CallOK(b)'
    BY <2>3, OtherCall DEF CallTo
  <2>6. CallOK(a)'
    <3>1. CASE acall[a].at = "idle" /\ CallGoes(a)
      <4>1. /\ a \in aconf.agents /\ answer'[a] # "served" /\ acall'[a].hw = ENil
            /\ acall'[a].at = IF aconf.discovery THEN "discover" ELSE "list"
        BY <3>1 DEF CallGoes, CallTo
      <4> QED BY <1>0, <4>1 DEF CallOK
    <3>2. CASE acall[a].at = "discover" /\ CallGoes(a)
      <4>1. a \in aconf.agents /\ aconf.discovery /\ answer'[a] # "served"
        BY <2>2, <3>2 DEF CallOK, CallGoes
      <4>2. CASE acall'[a].at = "list" /\ acall'[a].hw = ENil
        BY <1>0, <4>1, <4>2 DEF CallOK
      <4>3. CASE /\ acall'[a].at = "createHardware" /\ acall'[a].hw = ENil
                 /\ HardwareName(a) # ENil /\ \A h \in ahwCache : h.agent # a
        <5>1. \A h \in ahw : h.agent = a => h.name # PersonsName
          BY <4>3 DEF OneObject
        <5>2. \A h \in ahw' : h.agent = a => h.name # PersonsName
          BY <5>1, HardwareCarries
        <5> QED BY <1>0, <4>1, <4>3, <5>2 DEF CallOK
      <4>4. CASE \E h \in ahwCache : h.agent = a /\ acall'[a].at = "list" /\ acall'[a].hw = h
        <5>1. PICK h \in ahwCache : h.agent = a /\ acall'[a].at = "list" /\ acall'[a].hw = h
          BY <4>4
        <5>2. \E g \in ahw : g.agent = a /\ g.enabled = h.enabled
          BY <5>1 DEF OneObject, Alike
        <5>3. ~h.enabled => \E g \in ahw' : g.agent = a /\ ~g.enabled
          BY <5>2, HardwareCarries
        <5> QED BY <1>0, <4>1, <5>1, <5>3 DEF CallOK
      <4>5. \/ CallTo(a, "list", ENil)
            \/ /\ HardwareName(a) # ENil /\ (\A h \in ahwCache : h.agent # a)
               /\ CallTo(a, "createHardware", ENil)
            \/ \E h \in ahwCache : h.agent = a /\ CallTo(a, "list", h)
        BY <3>2 DEF CallGoes
      <4> QED BY <2>4, <4>2, <4>3, <4>4, <4>5
    <3>3. CASE acall[a].at = "createHardware" /\ CallGoes(a)
      <4>1. a \in aconf.agents /\ aconf.discovery /\ answer'[a] # "served"
        BY <2>2, <3>3 DEF CallOK, CallGoes
      <4>2. \/ CallTo(a, "list", ENil)
            \/ \E h \in HardwareObjects : h.enabled /\ CallTo(a, "list", h)
        BY <3>3 DEF CallGoes
      <4>3. acall'[a].at = "list" /\ (acall'[a].hw = ENil \/ acall'[a].hw.enabled)
        BY <2>4, <4>2
      <4> QED BY <1>0, <4>1, <4>3 DEF CallOK
    <3>4. CASE acall[a].at = "list" /\ CallGoes(a)
      <4>1. a \in aconf.agents /\ answer'[a] # "served"
        BY <2>2, <3>4 DEF CallOK, CallGoes
      <4>2. /\ acall'[a].at = "createWorkflow" /\ WorkflowName(a) # ENil
            /\ acall'[a].hw = ENil \/ acall'[a].hw.enabled
        BY <3>4 DEF CallGoes, CallTo
      <4> QED BY <1>0, <4>1, <4>2 DEF CallOK
    <3>5. CASE acall[a].at = "createWorkflow" /\ CallGoes(a)
      <4>1. a \in aconf.agents /\ answer'[a] # "served"
        BY <2>2, <3>5 DEF CallOK, CallGoes
      <4>2. acall'[a].at = "wait" /\ acall'[a].hw = acall[a].hw
        BY <3>5 DEF CallGoes, CallTo
      <4>3. acall[a].hw # ENil /\ ~acall[a].hw.enabled => \E g \in ahw' : g.agent = a /\ ~g.enabled
        BY <2>2, HardwareCarries DEF CallOK
      <4> QED BY <1>0, <4>1, <4>2, <4>3 DEF CallOK
    <3>6. CASE CallEnds(a)
      <4>1. acall'[a].at = "idle" /\ acall'[a].hw = ENil /\ a \in aconf.agents
        BY <2>2, <3>6 DEF CallEnds, CallTo, CallOK
      <4> QED BY <1>0, <4>1 DEF CallOK
    <3> QED BY <2>1, <3>1, <3>2, <3>3, <3>4, <3>5, <3>6 DEF CallGoes
  <2> QED BY <2>5, <2>6 DEF CallsOK
<1>2. ASSUME HardwareSync \/ WorkflowSync \/ \E w \in awf : Render(w) \/ RemoveWorkflow(w)
      PROVE CallsOK'
  <2>1. acall' = acall /\ \A b \in AgentIds : answer'[b] = "served" => answer[b] = "served"
    BY <1>2 DEF HardwareSync, WorkflowSync, Render, RemoveWorkflow, EnrollTyped
  <2> QED BY <2>1, OtherCall DEF CallsOK
<1> QED BY <1>1, <1>2 DEF EnrollNext

-----------------------------------------------------------------------------
(* What a step does to the Workflows.                                      *)

WorkflowsKept ==
  /\ awf' = awf /\ enrolled' = enrolled /\ edits' = edits /\ awfCache' \in {awf, awfCache}

WorkflowMade(a) ==
  \E ns \in NamespacesFor(a) :
    /\ acall[a].at = "createWorkflow"
    /\ \A o \in awf : o.name # WorkflowName(a) \/ o.ns # ns
    /\ awf' = awf \cup {NewWorkflow(a, ns)} /\ awfCache' = awfCache
    /\ enrolled' = [enrolled EXCEPT ![a] = @ + 1]
    /\ UNCHANGED <<edits, ahw, ahwCache>>

\* A step makes a Workflow, renders one, removes one or leaves all alone.
LEMMA WorkflowStep ==
  ASSUME EnrollTyped, EnrollNext
  PROVE \/ WorkflowsKept
        \/ \E a \in AgentIds : WorkflowMade(a)
        \/ \E w \in awf : Render(w) \/ RemoveWorkflow(w)
<1>1. ASSUME NEW a \in AgentIds,
             \/ doGetAction(a) \/ Discover(a) \/ CreateHardware(a) \/ List(a)
             \/ getActionNoAuto(a)
      PROVE WorkflowsKept
  BY <1>1 DEF doGetAction, Discover, CreateHardware, List, getActionNoAuto, WorkflowsKept
<1>2. ASSUME NEW a \in AgentIds, enroll(a) \/ CallFails(a)
      PROVE WorkflowsKept \/ WorkflowMade(a)
  <2>1. CASE awf' = awf /\ enrolled' = enrolled
    BY <1>2, <2>1 DEF enroll, CallFails, WorkflowsKept
  <2>2. CASE ~(awf' = awf /\ enrolled' = enrolled)
    <3>1. /\ acall[a].at = "createWorkflow"
          /\ \E rs \in BestRuleSets(AttrsOf(a)) : CreateWorkflow(a, rs.ns)
          /\ UNCHANGED <<ahw, ahwCache, awfCache, edits>>
      BY <1>2, <2>2 DEF enroll, CallFails
    <3>2. PICK ns \in NamespacesFor(a) : CreateWorkflow(a, ns)
      BY <3>1 DEF NamespacesFor
    <3> QED BY <3>1, <3>2 DEF CreateWorkflow, Taken, WorkflowMade
  <2> QED BY <2>1, <2>2
<1>3. ASSUME HardwareSync \/ WorkflowSync
      PROVE WorkflowsKept
  BY <1>3 DEF HardwareSync, WorkflowSync, WorkflowsKept
<1> QED BY <1>1, <1>2, <1>3 DEF EnrollNext

\* What rendering does to a Workflow.
LEMMA RenderedWorkflow ==
  ASSUME NEW w \in Workflows
  PROVE /\ [w EXCEPT !.rendered = TRUE] \in Workflows
        /\ [w EXCEPT !.rendered = TRUE].name = w.name /\ [w EXCEPT !.rendered = TRUE].ns = w.ns
        /\ [w EXCEPT !.rendered = TRUE].agent = w.agent
BY DEF Workflows

\* What enroll writes.
LEMMA NewWorkflowFields ==
  ASSUME EnrollTyped, NEW a \in AgentIds, NEW ns \in NamespacesFor(a)
  PROVE /\ NewWorkflow(a, ns) \in Workflows
        /\ NewWorkflow(a, ns).name = WorkflowName(a) /\ NewWorkflow(a, ns).ns = ns
        /\ NewWorkflow(a, ns).agent = a
<1>1. PICK n \in {WorkflowName(x) : x \in AgentIds} : n = WorkflowName(a)
  OBVIOUS
<1>2. ns \in {rs.ns : rs \in RuleSets}
  BY DEF NamespacesFor, BestRuleSets
<1>3. acall[a].hw \in HardwareObjects \cup {ENil}
  BY DEF EnrollTyped
<1>4. PICK ref \in {h.name : h \in HardwareObjects} \cup {ENil} :
        ref = IF acall[a].hw = ENil THEN ENil ELSE acall[a].hw.name
  BY <1>3
<1>5. NewWorkflow(a, ns) = [name |-> n, ns |-> ns, agent |-> a, hwRef |-> ref, rendered |-> FALSE]
  BY <1>1, <1>4 DEF NewWorkflow
<1> QED BY <1>1, <1>2, <1>5 DEF Workflows

\* An agent's call, wherever it is, is a call.
LEMMA CallsTyped ==
  ASSUME EnrollTyped, OneObject, CallsOK, EnrollNext
  PROVE /\ acall' \in [AgentIds ->
             [at : {"idle", "discover", "createHardware", "list", "createWorkflow", "wait"},
              hw : HardwareObjects \cup {ENil}]]
        /\ DOMAIN answer' = AgentIds
<1> DEFINE At == {"idle", "discover", "createHardware", "list", "createWorkflow", "wait"}
           Call == [at : At, hw : HardwareObjects \cup {ENil}]
<1>0. acall \in [AgentIds -> Call] /\ DOMAIN answer = AgentIds
  BY DEF EnrollTyped
<1>1. ASSUME NEW a \in AgentIds,
             \/ doGetAction(a) \/ Discover(a) \/ CreateHardware(a) \/ List(a) \/ enroll(a)
             \/ getActionNoAuto(a) \/ CallFails(a)
      PROVE acall' \in [AgentIds -> Call] /\ DOMAIN answer' = AgentIds
  <2>1. CallGoes(a) \/ CallEnds(a)
    BY <1>1, CallStep
  <2>2. \E at \in At : \E hw : CallTo(a, at, hw)
    BY <2>1 DEF CallGoes, CallEnds
  <2>3. PICK at \in At : \E hw : CallTo(a, at, hw)
    BY <2>2
  <2>4. acall'[a] \in Call
    BY <2>3 DEF CallTo
  <2>5. \A b \in AgentIds : acall'[b] \in Call
    <3> HIDE DEF Call
    <3> QED BY <1>0, <2>3, <2>4 DEF CallTo
  <2>6. acall' = [b \in AgentIds |-> acall'[b]] /\ DOMAIN answer' = AgentIds
    BY <2>3 DEF CallTo
  <2> HIDE DEF Call
  <2> QED BY <2>5, <2>6
<1>2. ASSUME HardwareSync \/ WorkflowSync \/ \E w \in awf : Render(w) \/ RemoveWorkflow(w)
      PROVE acall' \in [AgentIds -> Call] /\ DOMAIN answer' = AgentIds
  <2>1. acall' = acall /\ DOMAIN answer' = DOMAIN answer
    BY <1>2 DEF HardwareSync, WorkflowSync, Render, RemoveWorkflow
  <2> QED BY <1>0, <2>1
<1> QED BY <1>1, <1>2 DEF EnrollNext

\* The bounded counters.
LEMMA CountersTyped ==
  ASSUME EnrollTyped, EnrollNext
  PROVE atroubles' \in 0 .. MaxTroubles /\ edits' \in 0 .. MaxEdits
<1>0. MaxTroubles \in Nat /\ MaxEdits \in Nat /\ atroubles \in 0 .. MaxTroubles
      /\ edits \in 0 .. MaxEdits
  BY EnrollAssumption DEF EnrollTyped
<1>1. \/ atroubles' = atroubles
      \/ atroubles < MaxTroubles /\ atroubles' = atroubles + 1
  BY DEF EnrollNext, doGetAction, Discover, CreateHardware, List, enroll, getActionNoAuto,
         CallFails, HardwareSync, WorkflowSync, Render, RemoveWorkflow
<1>2. edits' = edits \/ (edits < MaxEdits /\ edits' = edits + 1)
  BY DEF EnrollNext, doGetAction, Discover, CreateHardware, List, enroll, getActionNoAuto,
         CallFails, HardwareSync, WorkflowSync, Render, RemoveWorkflow
<1> QED BY <1>0, <1>1, <1>2

\* The types after a step.
LEMMA TypedStep ==
  ASSUME EnrollTyped, OneObject, CallsOK, EnrollNext
  PROVE EnrollTyped'
<1>1. aconf' \in AutoConfigs
  BY HardwareStep DEF EnrollTyped
<1>2. /\ awf' \subseteq Workflows /\ awfCache' \subseteq Workflows
      /\ enrolled' \in [AgentIds -> Nat]
  <2>1. CASE WorkflowsKept
    BY <2>1 DEF WorkflowsKept, EnrollTyped
  <2>2. CASE \E a \in AgentIds : WorkflowMade(a)
    <3>0. PICK a \in AgentIds : WorkflowMade(a)
      BY <2>2
    <3>1. PICK ns \in NamespacesFor(a) :
            /\ awf' = awf \cup {NewWorkflow(a, ns)} /\ awfCache' = awfCache
            /\ enrolled' = [enrolled EXCEPT ![a] = @ + 1]
      BY <3>0 DEF WorkflowMade
    <3>2. enrolled' \in [AgentIds -> Nat]
      BY <3>1 DEF EnrollTyped
    <3> QED BY <3>1, <3>2, NewWorkflowFields DEF EnrollTyped
  <2>3. CASE \E w \in awf : Render(w) \/ RemoveWorkflow(w)
    BY <2>3, RenderedWorkflow DEF Render, RemoveWorkflow, EnrollTyped
  <2> QED BY <2>1, <2>2, <2>3, WorkflowStep
<1> QED BY <1>1, <1>2, OneObjectStep, CallsTyped, CountersTyped DEF EnrollTyped

\* The Workflows after a step.
LEMMA WorkflowsOKStep ==
  ASSUME EnrollTyped, OneObject, CallsOK, WorkflowsOK, EnrollNext
  PROVE WorkflowsOK'
<1>0. aconf' = aconf
  BY HardwareStep
<1>1. CASE WorkflowsKept
  BY <1>0, <1>1 DEF WorkflowsKept, WorkflowsOK, NamespacesFor
<1>2. CASE \E a \in AgentIds : WorkflowMade(a)
  <2>0. PICK a \in AgentIds : WorkflowMade(a)
    BY <1>2
  <2>1. PICK ns \in NamespacesFor(a) :
          /\ acall[a].at = "createWorkflow"
          /\ awf' = awf \cup {NewWorkflow(a, ns)} /\ awfCache' = awfCache
          /\ enrolled' = [enrolled EXCEPT ![a] = @ + 1]
    BY <2>0 DEF WorkflowMade
  <2>2. PICK w : w = NewWorkflow(a, ns)
    OBVIOUS
  <2>3. w.name = WorkflowName(a) /\ w.ns = ns /\ w.agent = a /\ WorkflowName(a) # ENil
    BY <2>1, <2>2, NewWorkflowFields DEF CallsOK, CallOK
  <2>4. enrolled'[a] >= 1 /\ \A b \in AgentIds : enrolled'[b] >= enrolled[b]
    BY <2>1 DEF EnrollTyped
  <2>5. \A o \in awf \cup awfCache : o.agent \in aconf.agents => enrolled'[o.agent] >= 1
    <3>1. \A o \in awf \cup awfCache : o.agent \in AgentIds
      BY DEF EnrollTyped, Workflows
    <3>2. \A b \in AgentIds : enrolled[b] \in Nat /\ enrolled'[b] \in Nat
      BY <2>1 DEF EnrollTyped
    <3> QED BY <2>4, <3>1, <3>2 DEF WorkflowsOK
  <2>6. awf' = awf \cup {w}
    BY <2>1, <2>2
  <2>7. \A o \in awf' : o.name = WorkflowName(o.agent) /\ o.name # ENil /\ o.ns \in NamespacesFor(o.agent)
    BY <2>3, <2>6 DEF WorkflowsOK
  <2>8. \A o \in awf' \cup awfCache' : o.agent \in aconf.agents => enrolled'[o.agent] >= 1
    BY <2>1, <2>3, <2>4, <2>5, <2>6
  <2> QED BY <1>0, <2>1, <2>7, <2>8 DEF WorkflowsOK, NamespacesFor
<1>3. CASE \E w \in awf : Render(w)
  <2>1. PICK w \in awf : Render(w)
    BY <1>3
  <2>2. PICK v : v = [w EXCEPT !.rendered = TRUE]
    OBVIOUS
  <2>3. v.name = w.name /\ v.ns = w.ns /\ v.agent = w.agent
    BY <2>2, RenderedWorkflow DEF EnrollTyped
  <2>4. awf' = (awf \ {w}) \cup {v} /\ awfCache' = awfCache /\ enrolled' = enrolled
    BY <2>1, <2>2 DEF Render
  <2>5. \A o \in awf' : o.name = WorkflowName(o.agent) /\ o.name # ENil /\ o.ns \in NamespacesFor(o.agent)
    BY <2>3, <2>4 DEF WorkflowsOK
  <2>6. \A o \in awf' \cup awfCache' : o.agent \in aconf.agents => enrolled'[o.agent] >= 1
    BY <2>3, <2>4 DEF WorkflowsOK
  <2> QED BY <1>0, <2>4, <2>5, <2>6 DEF WorkflowsOK, NamespacesFor
<1>4. CASE \E w \in awf : RemoveWorkflow(w)
  <2>1. awf' \subseteq awf /\ awfCache' \subseteq awfCache /\ enrolled' = enrolled
    BY <1>4 DEF RemoveWorkflow
  <2> QED BY <1>0, <2>1 DEF WorkflowsOK, NamespacesFor
<1> QED BY <1>1, <1>2, <1>3, <1>4, WorkflowStep

-----------------------------------------------------------------------------
(* How often an agent is enrolled.                                         *)

\* Where a call is.
LEMMA CallToIs ==
  ASSUME NEW a, NEW at, NEW hw, CallTo(a, at, hw)
  PROVE acall'[a].at = at /\ acall'[a].hw = hw
BY DEF CallTo

\* What a step does to the call of one agent.
LEMMA OneCallMoves ==
  ASSUME EnrollTyped, OneObject, CallsOK, EnrollNext, NEW b \in AgentIds
  PROVE \/ acall'[b] = acall[b] /\ answer'[b] \in {answer[b], "none"}
        \/ CallGoes(b)
        \/ CallEnds(b)
<1>1. ASSUME NEW a \in AgentIds,
             \/ doGetAction(a) \/ Discover(a) \/ CreateHardware(a) \/ List(a) \/ enroll(a)
             \/ getActionNoAuto(a) \/ CallFails(a)
      PROVE \/ acall'[b] = acall[b] /\ answer'[b] = answer[b]
            \/ CallGoes(b)
            \/ CallEnds(b)
  <2>1. CallGoes(a) \/ CallEnds(a)
    BY <1>1, CallStep
  <2>2. PICK at, hw : CallTo(a, at, hw)
    BY <2>1, Zenon DEF CallGoes, CallEnds
  <2>3. b # a => acall'[b] = acall[b] /\ answer'[b] = answer[b]
    BY <2>2 DEF CallTo
  <2> QED BY <2>1, <2>3
<1>2. ASSUME HardwareSync \/ WorkflowSync \/ \E w \in awf : Render(w) \/ RemoveWorkflow(w)
      PROVE acall'[b] = acall[b] /\ answer'[b] \in {answer[b], "none"}
  BY <1>2 DEF HardwareSync, WorkflowSync, Render, RemoveWorkflow, EnrollTyped
<1> QED BY <1>1, <1>2 DEF EnrollNext

\* No step forgets a failed call, a person's edit or an enrollment.
LEMMA CountersGrow ==
  ASSUME EnrollTyped, EnrollNext
  PROVE /\ atroubles' = 0 => atroubles = 0
        /\ edits' = 0 => edits = 0 /\ \A w \in awf : \E v \in awf' : v.name = w.name /\ v.agent = w.agent
        /\ \A a \in AgentIds : enrolled[a] >= 1 => enrolled'[a] >= 1
<1>1. atroubles' = 0 => atroubles = 0
  <2>1. \/ atroubles' = atroubles
        \/ atroubles' = atroubles + 1
    BY DEF EnrollNext, doGetAction, Discover, CreateHardware, List, enroll, getActionNoAuto,
           CallFails, HardwareSync, WorkflowSync, Render, RemoveWorkflow
  <2> QED BY <2>1, EnrollAssumption DEF EnrollTyped
<1>2. CASE WorkflowsKept
  BY <1>1, <1>2 DEF WorkflowsKept
<1>3. CASE \E a \in AgentIds : WorkflowMade(a)
  <2>1. PICK a \in AgentIds : WorkflowMade(a)
    BY <1>3
  <2>2. edits' = edits /\ awf \subseteq awf' /\ enrolled' = [enrolled EXCEPT ![a] = @ + 1]
    BY <2>1 DEF WorkflowMade
  <2>3. \A b \in AgentIds : enrolled[b] >= 1 => enrolled'[b] >= 1
    BY <2>2 DEF EnrollTyped
  <2> QED BY <1>1, <2>2, <2>3
<1>4. CASE \E w \in awf : Render(w)
  <2>1. PICK w \in awf : Render(w)
    BY <1>4
  <2>2. PICK v : v = [w EXCEPT !.rendered = TRUE]
    OBVIOUS
  <2>3. v.name = w.name /\ v.agent = w.agent
    BY <2>2, RenderedWorkflow DEF EnrollTyped
  <2>4. awf' = (awf \ {w}) \cup {v} /\ edits' = edits /\ enrolled' = enrolled
    BY <2>1, <2>2 DEF Render
  <2> QED BY <1>1, <2>3, <2>4
<1>5. CASE \E w \in awf : RemoveWorkflow(w)
  <2>1. edits' = edits + 1 /\ enrolled' = enrolled
    BY <1>5 DEF RemoveWorkflow
  <2>2. edits' # 0
    BY <2>1, EnrollAssumption DEF EnrollTyped
  <2> QED BY <1>1, <2>1, <2>2
<1> QED BY <1>2, <1>3, <1>4, <1>5, WorkflowStep

\* An agent that has a Workflow has it in a namespace of its own.
LEMMA NamespacesFinite ==
  ASSUME NEW a
  PROVE /\ IsFiniteSet(NamespacesFor(a)) /\ Cardinality(NamespacesFor(a)) \in Nat
        /\ \A S \in SUBSET NamespacesFor(a) :
             /\ IsFiniteSet(S) /\ Cardinality(S) \in Nat
             /\ Cardinality(S) <= Cardinality(NamespacesFor(a))
<1>1. IsFiniteSet(BestRuleSets(AttrsOf(a)))
  BY EnrollAssumption, FS_Subset DEF BestRuleSets
<1>2. IsFiniteSet(NamespacesFor(a))
  <2>1. PICK f : f = [rs \in BestRuleSets(AttrsOf(a)) |-> rs.ns]
    OBVIOUS
  <2>2. f \in Surjection(BestRuleSets(AttrsOf(a)), NamespacesFor(a))
    BY <2>1 DEF Surjection, NamespacesFor
  <2> QED BY <1>1, <2>2, FS_Surjection
<1>3. Cardinality(NamespacesFor(a)) \in Nat
  BY <1>2, FS_CardinalityType
<1>4. ASSUME NEW S \in SUBSET NamespacesFor(a)
      PROVE /\ IsFiniteSet(S) /\ Cardinality(S) \in Nat
            /\ Cardinality(S) <= Cardinality(NamespacesFor(a))
  BY <1>2, <1>4, FS_Subset, FS_CardinalityType
<1> QED BY <1>2, <1>3, <1>4

\* The permission of an agent's object, when nobody else has its name and it
\* is to be enrolled once.
LEMMA ObjectRefuses ==
  ASSUME OneObject, NEW a, a \in aconf.agents, Single(a), ~aconf.persist,
         NEW h \in ahwCache, h.agent = a
  PROVE ~h.enabled /\ \E g \in ahw : g.agent = a
<1>1. PICK g \in ahw : Alike(g, h)
  BY DEF OneObject
<1> QED BY <1>1 DEF OneObject, Single, Alike

\* Once refused, an agent remains so.
LEMMA RefusedStep ==
  ASSUME EnrollTyped, OneObject, CallsOK, EnrollNext, NEW a \in AgentIds,
         Single(a), Refused(a), aconf.discovery, ~aconf.persist, atroubles' = 0
  PROVE Refused(a)'
<1>1. \E h \in ahwCache' : h.agent = a
  <2>1. \E h \in ahw : h.agent = a
    BY DEF Refused, OneObject, Alike
  <2> QED BY <2>1, HardwareStep DEF Refused
<1>2. CASE acall'[a] = acall[a]
  BY <1>1, <1>2 DEF Refused
<1>3. CASE CallEnds(a)
  <2>1. acall'[a].at = "idle"
    BY <1>3, CallToIs DEF CallEnds
  <2> QED BY <1>1, <2>1 DEF Refused
<1>4. CASE CallGoes(a)
  <2>1. CASE acall[a].at = "idle"
    <3>1. CallTo(a, "discover", ENil)
      BY <1>4, <2>1 DEF CallGoes
    <3>2. acall'[a].at = "discover"
      BY <3>1, CallToIs
    <3> QED BY <1>1, <3>2 DEF Refused
  <2>2. CASE acall[a].at = "discover"
    <3>1. PICK h \in ahwCache : h.agent = a /\ CallTo(a, "list", h)
      BY <1>4, <2>2 DEF CallGoes, Refused, Single
    <3>2. acall'[a].at = "list" /\ acall'[a].hw = h
      BY <3>1, CallToIs
    <3>3. a \in aconf.agents
      BY <2>2 DEF CallsOK, CallOK
    <3>4. ~h.enabled
      BY <3>1, <3>3, ObjectRefuses
    <3>5. h # ENil
      BY ObjectFields DEF EnrollTyped
    <3> QED BY <1>1, <3>2, <3>4, <3>5 DEF Refused
  <2>3. CASE acall[a].at = "list"
    <3>1. acall[a].hw = ENil \/ acall[a].hw.enabled
      BY <1>4, <2>3 DEF CallGoes
    <3> QED BY <2>3, <3>1 DEF Refused
  <2> QED BY <1>4, <2>1, <2>2, <2>3 DEF CallGoes, Refused
<1> QED BY <1>2, <1>3, <1>4, OneCallMoves

\* An agent that got past discovery has an object.
LEMMA HasObjectStep ==
  ASSUME EnrollTyped, OneObject, CallsOK, EnrollNext, NEW a \in AgentIds,
         Single(a), aconf.discovery, atroubles' = 0,
         acall'[a].at \in {"list", "createWorkflow", "wait"},
         acall[a].at \in {"list", "createWorkflow", "wait"} => \E h \in ahw : h.agent = a
  PROVE \E h \in ahw' : h.agent = a
<1>1. CASE acall[a].at \in {"list", "createWorkflow", "wait"}
  BY <1>1, HardwareCarries
<1>2. CASE acall'[a] = acall[a]
  BY <1>1, <1>2
<1>3. CASE CallEnds(a)
  BY <1>3, CallToIs DEF CallEnds
<1>4. CASE CallGoes(a) /\ acall[a].at = "idle"
  <2>1. CallTo(a, "discover", ENil)
    BY <1>4 DEF CallGoes
  <2> QED BY <2>1, CallToIs
<1>5. CASE CallGoes(a) /\ acall[a].at = "discover"
  <2>1. \/ CallTo(a, "createHardware", ENil)
        \/ \E h \in ahwCache : h.agent = a
    BY <1>5 DEF CallGoes, Single
  <2>2. PICK h \in ahwCache : h.agent = a
    BY <2>1, CallToIs
  <2>3. \E g \in ahw : g.agent = a
    BY <2>2 DEF OneObject, Alike
  <2> QED BY <2>3, HardwareCarries
<1>6. CASE CallGoes(a) /\ acall[a].at = "createHardware"
  <2>1. (\E h \in ahw : h.name = HardwareName(a)) \/ HardwareMade(a)
    BY <1>6 DEF CallGoes
  <2>2. CASE \E h \in ahw : h.name = HardwareName(a)
    BY <2>2, HardwareCarries DEF Single
  <2>3. CASE HardwareMade(a)
    <3>1. Discovered(a, aconf.persist).agent = a
      BY StoredObject
    <3> QED BY <2>3, <3>1 DEF HardwareMade
  <2> QED BY <2>1, <2>2, <2>3
<1> QED BY <1>1, <1>2, <1>3, <1>4, <1>5, <1>6, OneCallMoves DEF CallGoes

\* The namespaces an agent has a Workflow in, after a step that makes and
\* removes none of its Workflows.
LEMMA NamespacesStay ==
  ASSUME EnrollTyped, NEW a \in AgentIds,
         \/ WorkflowsKept
         \/ \E b \in AgentIds \ {a} : WorkflowMade(b)
         \/ \E w \in awf : Render(w) \/ (w.agent # a /\ RemoveWorkflow(w))
  PROVE NamespacesOf(a)' = NamespacesOf(a) /\ enrolled'[a] = enrolled[a]
<1>0. NamespacesOf(a)' = {w.ns : w \in {w \in awf' : w.agent = a}}
      /\ NamespacesOf(a) = {w.ns : w \in {w \in awf : w.agent = a}}
  BY DEF NamespacesOf, OfAgent
<1>1. CASE WorkflowsKept
  BY <1>0, <1>1 DEF WorkflowsKept
<1>2. CASE \E b \in AgentIds \ {a} : WorkflowMade(b)
  <2>1. PICK b \in AgentIds \ {a} : WorkflowMade(b)
    BY <1>2
  <2>2. PICK ns \in NamespacesFor(b) :
          /\ awf' = awf \cup {NewWorkflow(b, ns)}
          /\ enrolled' = [enrolled EXCEPT ![b] = @ + 1]
    BY <2>1 DEF WorkflowMade
  <2>3. NewWorkflow(b, ns).agent # a
    BY NewWorkflowFields
  <2>4. {w \in awf' : w.agent = a} = {w \in awf : w.agent = a}
    BY <2>2, <2>3
  <2>5. enrolled'[a] = enrolled[a]
    BY <2>2 DEF EnrollTyped
  <2> QED BY <1>0, <2>4, <2>5
<1>3. CASE \E w \in awf : Render(w)
  <2>1. PICK w \in awf : Render(w)
    BY <1>3
  <2>2. PICK v : v = [w EXCEPT !.rendered = TRUE]
    OBVIOUS
  <2>3. v.ns = w.ns /\ v.agent = w.agent
    BY <2>2, RenderedWorkflow DEF EnrollTyped
  <2>4. awf' = (awf \ {w}) \cup {v} /\ enrolled' = enrolled
    BY <2>1, <2>2 DEF Render
  <2>5. \A o \in awf : o.agent = a => \E p \in awf' : p.agent = a /\ p.ns = o.ns
    BY <2>3, <2>4
  <2>6. \A o \in awf' : o.agent = a => \E p \in awf : p.agent = a /\ p.ns = o.ns
    BY <2>3, <2>4
  <2> QED BY <1>0, <2>4, <2>5, <2>6
<1>4. CASE \E w \in awf : w.agent # a /\ RemoveWorkflow(w)
  <2>1. PICK w \in awf : w.agent # a /\ awf' = awf \ {w} /\ enrolled' = enrolled
    BY <1>4 DEF RemoveWorkflow
  <2>2. {o \in awf' : o.agent = a} = {o \in awf : o.agent = a}
    BY <2>1
  <2> QED BY <1>0, <2>1, <2>2
<1> QED BY <1>1, <1>2, <1>3, <1>4

\* The budgets after a step.
LEMMA BudgetsStep ==
  ASSUME EnrollTyped, OneObject, CallsOK, WorkflowsOK, Budgets, EnrollNext
  PROVE Budgets'
<1> SUFFICES ASSUME aconf.discovery, ~aconf.persist, atroubles' = 0,
                    NEW a \in AgentIds, Single(a)'
             PROVE Budget(a)'
  BY HardwareStep DEF Budgets
<1>1. Single(a)
  BY HardwareCarries DEF Single, Alike
<1>2. Budget(a)
  BY <1>1, CountersGrow DEF Budgets
<1>3. /\ enrolled[a] \in Nat /\ enrolled'[a] \in Nat
      /\ NamespacesOf(a) \subseteq NamespacesFor(a) /\ NamespacesOf(a)' \subseteq NamespacesFor(a)
  <2>1. EnrollTyped' /\ WorkflowsOK'
    BY TypedStep, WorkflowsOKStep
  <2>2. NamespacesOf(a) \subseteq NamespacesFor(a)
    BY DEF WorkflowsOK, NamespacesOf, OfAgent
  <2>3. NamespacesOf(a)' \subseteq NamespacesFor(a)
    BY <2>1 DEF WorkflowsOK, NamespacesOf, OfAgent, NamespacesFor
  <2> QED BY <2>1, <2>2, <2>3 DEF EnrollTyped
<1>4. NamespacesFor(a)' = NamespacesFor(a)
  BY DEF NamespacesFor
<1> DEFINE All == Cardinality(NamespacesFor(a))
<1>5. All \in Nat /\ \A S \in SUBSET NamespacesFor(a) :
                       IsFiniteSet(S) /\ Cardinality(S) \in Nat /\ Cardinality(S) <= All
  BY NamespacesFinite
\* Its object.
<1>6. enrolled'[a] >= 1 \/ acall'[a].at \in {"list", "createWorkflow", "wait"}
        => \E h \in ahw' : h.agent = a
  <2>1. CASE acall'[a].at \in {"list", "createWorkflow", "wait"}
    BY <1>1, <1>2, <2>1, HasObjectStep DEF Budget
  <2>2. CASE enrolled'[a] >= 1
    <3>1. enrolled[a] >= 1 \/ WorkflowMade(a)
      BY <1>3, <2>2, NamespacesStay, WorkflowStep DEF RemoveWorkflow
    <3>2. WorkflowMade(a) => acall[a].at = "createWorkflow"
      BY DEF WorkflowMade
    <3>3. \E h \in ahw : h.agent = a
      BY <1>2, <3>1, <3>2 DEF Budget
    <3> QED BY <3>3, HardwareCarries
  <2> QED BY <2>1, <2>2
\* The budget.
<1>7. CASE \/ WorkflowsKept
           \/ \E b \in AgentIds \ {a} : WorkflowMade(b)
           \/ \E w \in awf : Render(w) \/ (w.agent # a /\ RemoveWorkflow(w))
  <2>1. NamespacesOf(a)' = NamespacesOf(a) /\ enrolled'[a] = enrolled[a]
    BY <1>7, NamespacesStay
  <2>2. /\ enrolled'[a] <= All
        /\ WorkflowName(a) = ENil => enrolled'[a] = 0
    BY <1>2, <2>1 DEF Budget
  <2>3. WorkflowName(a) # ENil => Refused(a)' \/ enrolled'[a] <= Cardinality(NamespacesOf(a)')
    BY <1>1, <1>2, <2>1, RefusedStep DEF Budget
  <2> QED BY <1>4, <1>6, <2>2, <2>3 DEF Budget
<1>8. CASE WorkflowMade(a)
  <2>1. PICK ns \in NamespacesFor(a) :
          /\ acall[a].at = "createWorkflow"
          /\ \A o \in awf : o.name # WorkflowName(a) \/ o.ns # ns
          /\ awf' = awf \cup {NewWorkflow(a, ns)}
          /\ enrolled' = [enrolled EXCEPT ![a] = @ + 1]
    BY <1>8 DEF WorkflowMade
  <2>2. PICK w : w = NewWorkflow(a, ns)
    OBVIOUS
  <2>3. w.ns = ns /\ w.agent = a
    BY <2>2, NewWorkflowFields
  <2>4. awf' = awf \cup {w}
    BY <2>1, <2>2
  <2>5. NamespacesOf(a)' = NamespacesOf(a) \cup {ns}
    BY <2>3, <2>4 DEF NamespacesOf, OfAgent
  <2>6. ns \notin NamespacesOf(a)
    BY <2>1 DEF NamespacesOf, OfAgent, WorkflowsOK
  <2>7. Cardinality(NamespacesOf(a)') = Cardinality(NamespacesOf(a)) + 1
    BY <1>3, <1>5, <2>5, <2>6, FS_AddElement
  <2>8. WorkflowName(a) # ENil
    BY <2>1 DEF CallsOK, CallOK
  <2>9. enrolled[a] <= Cardinality(NamespacesOf(a))
    BY <1>2, <2>1, <2>8 DEF Budget, Refused
  <2>10. enrolled'[a] = enrolled[a] + 1
    BY <2>1 DEF EnrollTyped
  <2>11. enrolled'[a] <= Cardinality(NamespacesOf(a)') /\ enrolled'[a] <= All
    <3>1. Cardinality(NamespacesOf(a)) \in Nat /\ Cardinality(NamespacesOf(a)') <= All
      BY <1>3, <1>5
    <3> QED BY <1>3, <1>5, <2>7, <2>9, <2>10, <3>1
  <2> QED BY <1>4, <1>6, <2>8, <2>11 DEF Budget
<1>9. CASE \E w \in awf : w.agent = a /\ RemoveWorkflow(w)
  <2>1. PICK w \in awf : w.agent = a /\ RemoveWorkflow(w)
    BY <1>9
  <2>2. /\ answer[a] = "served" /\ ahwCache = ahw /\ ahwCache' = ahwCache
        /\ enrolled' = enrolled /\ acall' = acall
    BY <2>1 DEF RemoveWorkflow
  <2>3. acall[a].at = "idle" /\ a \in aconf.agents
    BY <2>2 DEF CallsOK, CallOK
  <2>4. enrolled[a] >= 1
    BY <2>1, <2>3 DEF WorkflowsOK
  <2>5. \E h \in ahwCache' : h.agent = a
    BY <1>2, <2>2, <2>4 DEF Budget
  <2>6. Refused(a)'
    BY <2>2, <2>3, <2>5 DEF Refused
  <2>7. /\ enrolled'[a] <= All
        /\ WorkflowName(a) = ENil => enrolled'[a] = 0
    BY <1>2, <2>2 DEF Budget
  <2> QED BY <1>4, <1>6, <2>6, <2>7 DEF Budget
<1> QED BY <1>7, <1>8, <1>9, WorkflowStep

-----------------------------------------------------------------------------
(* That it is enrolled at all.                                             *)

\* A name that is an agent's own after a step was so before it, and then no
\* other agent's Workflow has it.
LEMMA OwnNameStep ==
  ASSUME EnrollTyped, OneObject, CallsOK, WorkflowsOK, EnrollNext, NEW a \in AgentIds
  PROVE /\ NameWasOwn(a)' => NameWasOwn(a)
        /\ NameWasOwn(a) => \A o \in awf : o.name = WorkflowName(a) => o.agent = a
<1>1. ASSUME \A b \in AgentIds :
               HardwareName(b) = HardwareName(a) \/ WorkflowName(b) = WorkflowName(a) => b = a
      PROVE NameIsOwn(a)
  <2>1. HardwareName(a) # PersonsName
    BY NameIsValid, NilAssumption
  <2>2. \A o \in awf : o.agent \in AgentIds /\ o.name = WorkflowName(o.agent)
    BY DEF EnrollTyped, Workflows, WorkflowsOK
  <2>3. \A o \in ahw : o.agent \in AgentIds /\ (o.name = PersonsName \/ o.name = HardwareName(o.agent))
    BY ObjectFields DEF EnrollTyped, OneObject
  <2> QED BY <1>1, <2>1, <2>2, <2>3 DEF NameIsOwn
<1>2. ASSUME edits' = 0, NameIsOwn(a)'
      PROVE edits = 0 /\ NameIsOwn(a)
  <2>1. edits = 0 /\ \A w \in awf : \E v \in awf' : v.name = w.name /\ v.agent = w.agent
    BY <1>2, CountersGrow
  <2>2. \A h \in ahw : \E g \in ahw' : g.name = h.name /\ g.agent = h.agent
    BY HardwareCarries DEF Alike
  <2> QED BY <1>2, <2>1, <2>2 DEF NameIsOwn
<1>3. NameWasOwn(a) => \A o \in awf : o.name = WorkflowName(a) => o.agent = a
  BY <1>1 DEF NameWasOwn, NameIsOwn
<1>4. NameWasOwn(a)' => NameWasOwn(a)
  BY <1>1, <1>2 DEF NameWasOwn
<1> QED BY <1>3, <1>4

\* The one permission is used, also by the call that is still on its way.
LEMMA FirstUsedStep ==
  ASSUME EnrollTyped, OneObject, CallsOK, WorkflowsOK, FirstUsed, EnrollNext
  PROVE FirstUsed'
<1>0. aconf' = aconf
  BY HardwareStep
<1> SUFFICES ASSUME atroubles' = 0, aconf.enrollment, NEW a \in aconf.agents,
                    NameWasOwn(a)', WorkflowName(a) # ENil, BestRuleSets(AttrsOf(a)) # {},
                    NEW h \in ahw', h.agent = a, h.name # PersonsName, ~h.enabled
             PROVE \/ enrolled'[a] >= 1
                   \/ /\ acall'[a].at \in {"list", "createWorkflow"}
                      /\ acall'[a].hw # ENil /\ acall'[a].hw.enabled
  BY <1>0 DEF FirstUsed
<1>1. a \in AgentIds /\ atroubles = 0 /\ NameWasOwn(a)
  BY EnrollAssumption, CountersGrow, OwnNameStep DEF EnrollTyped
<1>2. CASE \E g \in ahw : g.agent = a /\ g.name # PersonsName /\ ~g.enabled
  <2>1. PICK g \in ahw : g.agent = a /\ g.name # PersonsName /\ ~g.enabled
    BY <1>2
  <2>2. aconf.discovery /\ HardwareName(a) # ENil
    BY <2>1 DEF OneObject
  <2>3. \/ enrolled[a] >= 1
        \/ /\ acall[a].at \in {"list", "createWorkflow"}
           /\ acall[a].hw # ENil /\ acall[a].hw.enabled
    BY <1>1, <1>2 DEF FirstUsed
  <2>4. CASE enrolled[a] >= 1
    BY <1>1, <2>4, CountersGrow
  <2>5. CASE /\ acall[a].at \in {"list", "createWorkflow"}
             /\ acall[a].hw # ENil /\ acall[a].hw.enabled
    <3>1. CASE acall'[a] = acall[a]
      BY <2>5, <3>1
    <3>2. CASE CallGoes(a) /\ acall[a].at = "list"
      <4>1. CallTo(a, "createWorkflow", acall[a].hw)
        BY <2>2, <3>2 DEF CallGoes
      <4> QED BY <2>5, <4>1, CallToIs
    <3>3. CASE CallGoes(a) /\ acall[a].at = "createWorkflow"
      <4>1. enrolled'[a] = enrolled[a] + 1
        BY <3>3 DEF CallGoes
      <4> QED BY <1>1, <4>1 DEF EnrollTyped
    <3>4. CASE CallEnds(a)
      <4>1. ListWorkflows(a) # {} \/ \E o \in awf : o.name = WorkflowName(a)
        BY <2>2, <2>5, <3>4 DEF CallEnds
      <4>2. \E o \in awf \cup awfCache : o.agent = a
        BY <1>1, <4>1, OwnNameStep DEF ListWorkflows
      <4>3. enrolled[a] >= 1
        BY <4>2 DEF WorkflowsOK
      <4> QED BY <1>1, <4>3, CountersGrow
    <3> QED BY <1>1, <2>5, <3>1, <3>2, <3>3, <3>4, OneCallMoves
  <2> QED BY <2>3, <2>4, <2>5
<1>3. CASE ~\E g \in ahw : g.agent = a /\ g.name # PersonsName /\ ~g.enabled
  <2>1. ~HardwareKept
    BY <1>3 DEF HardwareKept, Alike
  <2>2. PICK b \in AgentIds : HardwareMade(b)
    BY <2>1, HardwareStep
  <2>3. Discovered(b, aconf.persist).agent = b
    BY StoredObject
  <2>4. h = Discovered(b, aconf.persist)
    BY <1>3, <2>2 DEF HardwareMade
  <2>5. b = a
    BY <2>3, <2>4
  <2> QED BY <2>2, <2>5 DEF HardwareMade
<1> QED BY <1>2, <1>3

\* So nobody is told "disabled" too early.
LEMMA FirstContactStep ==
  ASSUME EnrollTyped, OneObject, CallsOK, WorkflowsOK, FirstUsed, FirstContactEnrolls, EnrollNext
  PROVE FirstContactEnrolls'
<1> SUFFICES ASSUME NEW a \in AgentIds, answer'[a] = "disabled", atroubles' = 0,
                    NameWasOwn(a)', WorkflowName(a) # ENil, BestRuleSets(AttrsOf(a)) # {}
             PROVE enrolled'[a] >= 1 \/ \E h \in ahw' : h.name = PersonsName /\ h.agent = a /\ ~h.enabled
  BY DEF FirstContactEnrolls, Persons
<1>1. atroubles = 0 /\ NameWasOwn(a)
  BY CountersGrow, OwnNameStep
<1>2. ASSUME enrolled[a] >= 1 \/ \E h \in ahw : h.name = PersonsName /\ h.agent = a /\ ~h.enabled
      PROVE enrolled'[a] >= 1 \/ \E h \in ahw' : h.name = PersonsName /\ h.agent = a /\ ~h.enabled
  BY <1>2, CountersGrow, HardwareCarries DEF Alike
<1>3. CASE answer[a] = "disabled"
  <2>1. enrolled[a] >= 1 \/ \E h \in ahw : h.name = PersonsName /\ h.agent = a /\ ~h.enabled
    BY <1>1, <1>3 DEF FirstContactEnrolls, Persons
  <2> QED BY <1>2, <2>1
<1>4. CASE answer[a] # "disabled"
  <2> DEFINE hw == IF aconf.discovery THEN acall[a].hw ELSE Only(OfAgent(ahwCache, a))
  <2>1. CallEnds(a)
    BY <1>4, OneCallMoves DEF CallGoes
  <2>2. acall[a].at = "list" /\ aconf.enrollment /\ hw # ENil /\ ~hw.enabled
    BY <2>1 DEF CallEnds
  <2>3. a \in aconf.agents
    BY <2>2 DEF CallsOK, CallOK
  <2>4. PICK g \in ahw : g.agent = a /\ ~g.enabled
    <3>1. CASE aconf.discovery
      BY <2>2, <3>1 DEF CallsOK, CallOK
    <3>2. CASE ~aconf.discovery
      <4>1. hw \in ahwCache /\ hw.agent = a
        BY <2>2, <3>2, FoundOne
      <4> QED BY <2>2, <4>1 DEF OneObject, Alike
    <3> QED BY <3>1, <3>2
  <2>5. CASE g.name = PersonsName
    BY <1>2, <2>4, <2>5
  <2>6. CASE g.name # PersonsName
    <3>1. aconf.discovery
      BY <2>3, <2>4, <2>6 DEF OneObject
    <3>2. enrolled[a] >= 1
      BY <1>1, <2>2, <2>3, <2>4, <2>6, <3>1 DEF FirstUsed
    <3> QED BY <1>2, <3>2
  <2> QED BY <2>5, <2>6
<1> QED BY <1>3, <1>4

-----------------------------------------------------------------------------

\* The invariant holds at first.
LEMMA EnrollInitInv ==
  ASSUME EnrollInit
  PROVE EnrollInv
<1>1. /\ aconf \in AutoConfigs /\ ahwCache = ahw /\ awfCache = awf
      /\ acall = [a \in AgentIds |-> NoCallYet]
      /\ answer = [a \in AgentIds |-> "none"]
      /\ enrolled = [a \in AgentIds |-> 0]
      /\ atroubles = 0 /\ edits = 0
  BY DEF EnrollInit
<1>2. aconf.agents \subseteq AgentIds /\ MaxTroubles \in Nat /\ MaxEdits \in Nat
  BY <1>1, EnrollAssumption
<1>3. \A a \in AgentIds : /\ acall[a].at = "idle" /\ acall[a].hw = ENil
                          /\ answer[a] = "none" /\ enrolled[a] = 0
  BY <1>1 DEF NoCallYet
\* What is there: nothing, a person's object, or an agent that does not call.
<1>4. /\ ahw \subseteq HardwareObjects /\ \A g, h \in ahw : g = h
      /\ \A h \in ahw : \/ h.name = PersonsName
                        \/ /\ h.name = HardwareName(h.agent) /\ HardwareName(h.agent) # ENil
                           /\ h.agent \notin aconf.agents
      /\ awf \subseteq Workflows
      /\ \A w \in awf : /\ w.name = WorkflowName(w.agent) /\ w.name # ENil
                        /\ w.ns \in NamespacesFor(w.agent) /\ w.agent \notin aconf.agents
  <2>1. CASE ahw = {} /\ awf = {}
    BY <2>1
  <2>2. CASE \E a \in aconf.agents, b \in BOOLEAN : ahw = {Described(a, b)} /\ awf = {}
    <3>1. PICK a \in aconf.agents, b \in BOOLEAN : ahw = {Described(a, b)} /\ awf = {}
      BY <2>2
    <3>2. Described(a, b) \in HardwareObjects /\ Described(a, b).name = PersonsName
      BY <1>2, MadeObjects
    <3> QED BY <3>1, <3>2
  <2>3. CASE \E o \in AgentIds \ aconf.agents :
               /\ HardwareName(o) # ENil /\ WorkflowName(o) # ENil
               /\ ahw = {Discovered(o, FALSE)}
               /\ awf = {[name |-> WorkflowName(o), ns |-> rs.ns, agent |-> o,
                          hwRef |-> HardwareName(o), rendered |-> TRUE] : rs \in BestRuleSets(AttrsOf(o))}
    <3>1. PICK o \in AgentIds \ aconf.agents :
               /\ HardwareName(o) # ENil /\ WorkflowName(o) # ENil
               /\ ahw = {Discovered(o, FALSE)}
               /\ awf = {[name |-> WorkflowName(o), ns |-> rs.ns, agent |-> o,
                          hwRef |-> HardwareName(o), rendered |-> TRUE] : rs \in BestRuleSets(AttrsOf(o))}
      BY <2>3
    <3>2. PICK h : h = Discovered(o, FALSE)
      OBVIOUS
    <3>3. h \in HardwareObjects /\ h.name = HardwareName(o) /\ h.agent = o
      BY <3>2, MadeObjects
    <3>4. PICK n, m : n = WorkflowName(o) /\ m = HardwareName(o)
      OBVIOUS
    <3>5. n \in {WorkflowName(x) : x \in AgentIds} /\ m \in {g.name : g \in HardwareObjects}
      BY <3>3, <3>4
    <3>6. \A w \in awf : \E rs \in BestRuleSets(AttrsOf(o)) :
            w = [name |-> n, ns |-> rs.ns, agent |-> o, hwRef |-> m, rendered |-> TRUE]
      BY <3>1, <3>4
    <3>7. ASSUME NEW w \in awf
          PROVE w \in Workflows /\ w.name = n /\ w.agent = o /\ w.ns \in NamespacesFor(o)
      <4>1. PICK rs \in BestRuleSets(AttrsOf(o)) :
              w = [name |-> n, ns |-> rs.ns, agent |-> o, hwRef |-> m, rendered |-> TRUE]
        BY <3>6
      <4>2. rs.ns \in NamespacesFor(o) /\ rs.ns \in {r.ns : r \in RuleSets}
        BY DEF NamespacesFor, BestRuleSets
      <4> QED BY <3>5, <4>1, <4>2 DEF Workflows
    <3>8. ahw = {h}
      BY <3>1, <3>2
    <3> QED BY <3>1, <3>3, <3>4, <3>7, <3>8
  <2> QED BY <2>1, <2>2, <2>3 DEF EnrollInit
<1>5. EnrollTyped
  BY <1>1, <1>2, <1>4 DEF EnrollTyped, NoCallYet
<1>6. OneObject
  <2>1. \A h \in ahw : Alike(h, h)
    BY DEF Alike
  <2> QED BY <1>1, <1>4, <2>1 DEF OneObject
<1>7. CallsOK
  BY <1>3 DEF CallsOK, CallOK
<1>8. WorkflowsOK
  BY <1>1, <1>4 DEF WorkflowsOK
<1>9. Budgets
  <2>1. ASSUME NEW a \in AgentIds PROVE Budget(a)
    <3>1. NamespacesOf(a) \subseteq NamespacesFor(a)
      BY <1>4 DEF NamespacesOf, OfAgent
    <3>2. Cardinality(NamespacesOf(a)) \in Nat /\ Cardinality(NamespacesFor(a)) \in Nat
      BY <3>1, NamespacesFinite
    <3>3. enrolled[a] = 0 /\ acall[a].at = "idle"
      BY <1>3
    <3> QED BY <3>2, <3>3 DEF Budget
  <2> QED BY <2>1 DEF Budgets
<1>10. FirstUsed
  BY <1>4 DEF FirstUsed
<1>11. FirstContactEnrolls
  BY <1>3 DEF FirstContactEnrolls
<1> QED BY <1>5, <1>6, <1>7, <1>8, <1>9, <1>10, <1>11 DEF EnrollInv

\* What an agent that calls for an Action has, in every state: one Hardware
\* object at most, a Workflow only after it was enrolled, and, when enrolled
\* once, as many enrollments as it has namespaces with a Workflow, or an object
\* in the cache that refuses it.
THEOREM EnrollInvariance == EnrollSpec => []EnrollInv
<1>1. EnrollInit => EnrollInv
  BY EnrollInitInv
<1>2. EnrollInv /\ [EnrollNext]_enrollVars => EnrollInv'
  <2>1. ASSUME EnrollInv, EnrollNext PROVE EnrollInv'
    BY <2>1, TypedStep, OneObjectStep, CallsOKStep, WorkflowsOKStep, BudgetsStep, FirstUsedStep,
       FirstContactStep DEF EnrollInv
  <2>2. ASSUME EnrollInv, UNCHANGED enrollVars PROVE EnrollInv'
    <3>1. EnrollTyped' /\ OneObject' /\ CallsOK' /\ WorkflowsOK'
      BY <2>2 DEF EnrollInv, enrollVars, EnrollTyped, OneObject, CallsOK, CallOK, WorkflowsOK,
                  NamespacesFor
    <3>2. Budgets'
      BY <2>2 DEF EnrollInv, enrollVars, Budgets, Budget, Single, Refused, NamespacesFor,
                  NamespacesOf, OfAgent
    <3>3. FirstUsed' /\ FirstContactEnrolls'
      BY <2>2 DEF EnrollInv, enrollVars, FirstUsed, FirstContactEnrolls, NameWasOwn, NameIsOwn,
                  Persons
    <3> QED BY <3>1, <3>2, <3>3 DEF EnrollInv
  <2> QED BY <2>1, <2>2
<1> QED BY <1>1, <1>2, PTL DEF EnrollSpec

\* Objects belong to agents, Workflows have names the API server accepts, and a
\* call creates a Workflow only for an agent whose name can be made.
THEOREM EnrollTypeCorrect == EnrollSpec => []EnrollTypeOK
<1>1. EnrollInv => EnrollTypeOK
  <2> SUFFICES ASSUME EnrollInv PROVE EnrollTypeOK
    OBVIOUS
  <2>1. EnrollTyped /\ WorkflowsOK /\ CallsOK
    BY DEF EnrollInv
  <2>2. \A h \in ahw \cup ahwCache : h.agent \in AgentIds /\ h.enabled \in BOOLEAN
    BY <2>1, ObjectFields DEF EnrollTyped
  <2>3. \A w \in awf \cup awfCache : w.agent \in AgentIds /\ isValid(w.name)
    <3>1. \A w \in awf \cup awfCache : w.agent \in AgentIds /\ w.name = WorkflowName(w.agent) /\ w.name # ENil
      BY <2>1 DEF EnrollTyped, Workflows, WorkflowsOK
    <3> QED BY <3>1, NameIsValid
  <2>4. \A a \in AgentIds :
          /\ acall[a].at \in {"idle", "discover", "createHardware", "list", "createWorkflow", "wait"}
          /\ acall[a].at = "createWorkflow" => WorkflowName(a) # ENil
          /\ enrolled[a] \in Nat
    BY <2>1 DEF EnrollTyped, CallsOK, CallOK
  <2> QED BY <2>1, <2>2, <2>3, <2>4 DEF EnrollTypeOK, EnrollTyped
<1> QED BY <1>1, EnrollInvariance, PTL

\* AUTO_DISCOVERY.md: with enrollmentEnabled false a new Hardware object runs an
\* enrollment Workflow once.  Whatever the rule sets, the agents and the pace of
\* the informers, no agent whose two names can be made is enrolled more often than
\* there are namespaces for it, or told that enrollment is disabled before it was
\* enrolled.
THEOREM AgentIsEnrolledOnce == EnrollSpec => []EnrolledOnce
<1>1. EnrollInv => EnrolledOnce
  <2> SUFFICES ASSUME EnrollInv PROVE EnrolledOnce
    OBVIOUS
  <2>1. ASSUME NEW a \in AgentIds, HardwareName(a) # ENil, NameIsOwn(a),
               \A h \in Persons : h.agent = a => ~h.enabled
        PROVE Single(a)
    BY <2>1 DEF NameIsOwn, Persons, Single
  <2>2. ASSUME aconf.discovery, ~aconf.persist, atroubles = 0, NEW a \in AgentIds, Single(a)
        PROVE enrolled[a] <= Cardinality({rs.ns : rs \in BestRuleSets(AttrsOf(a))})
    BY <2>2 DEF EnrollInv, Budgets, Budget, NamespacesFor
  <2>3. OneTimeEnrollment
    BY <2>1, <2>2 DEF OneTimeEnrollment
  <2> QED BY <2>3 DEF EnrolledOnce, EnrollInv
<1> QED BY <1>1, EnrollInvariance, PTL

=============================================================================
