--------------------------- MODULE AutoEnrollment ---------------------------
(***************************************************************************)
(* Auto discovery and auto enrollment in Tink Server: the branches of      *)
(* GetAction that give an unknown machine a Hardware object and a Workflow *)
(* (tink/server/internal/grpc/discovery.go, enrollment.go, hardware.go,    *)
(* kube.go).  GetAction reads informer caches and writes to the API        *)
(* server; the Tink Controller renders a new Workflow, and only a rendered *)
(* one is found by its agent's id.  What GetAction serves from there on is *)
(* TinkServer's subject; here "served" ends the story.                     *)
(*                                                                         *)
(* An agent id is a sequence of characters, of which the naming code tells *)
(* apart lower and upper case letters or digits ("a", "A"), hyphens,       *)
(* blanks and all others (":").                                            *)
(***************************************************************************)
EXTENDS Integers, Sequences, FiniteSets, SequencesExt

CONSTANTS ENil,
          AgentIds,       \* ids of agents, sequences of characters
          AttrsOf(_),     \* id -> [facts, disks, macs, large], or ENil
          RuleSets,       \* WorkflowRuleSets: [ns, rules], a rule is a set of facts or "bad"
          AutoConfigs,    \* [discovery, enrollment, persist, agents]: agents call
          MaxName,        \* 63 in the code
          GoodMAC,        \* MACs that net.ParseMAC accepts
          MaxTroubles,    \* bound: failed API calls
          MaxEdits        \* bound: changes by people

ASSUME EnrollAssumption ==
  /\ {MaxName, MaxTroubles, MaxEdits} \subseteq Nat
  /\ IsFiniteSet(RuleSets)
  /\ \A c \in AutoConfigs : c.agents \subseteq AgentIds /\ c.persist \in BOOLEAN

VARIABLES
  aconf,      \* AutoCapabilities
  ahw,        \* Hardware objects in the API server
  ahwCache,   \* the informer's copy
  awf,        \* Workflows in the API server
  awfCache,   \* the informer's copy
  acall,      \* agent -> its GetAction call: [at, hw]
  answer,     \* agent -> the last answer
  enrolled,   \* history: agent -> Workflows created for it
  atroubles, edits

enrollVars == <<aconf, ahw, ahwCache, awf, awfCache, acall, answer, enrolled,
                atroubles, edits>>

-----------------------------------------------------------------------------
(* kube.go: names                                                          *)

Alnum == {"a", "A"}

\* "enrollment-" is a character longer than "discovery-".
workflowPrefix == <<"a", "a", "-">>
discoveryPrefix == <<"a", "-">>

TrimChar(s, chars) ==
  LET keep == {i \in 1..Len(s) : s[i] \notin chars}
      first == CHOOSE i \in keep : \A j \in keep : i <= j
      last == CHOOSE i \in keep : \A j \in keep : i >= j
  IN IF keep = {} THEN <<>> ELSE SubSeq(s, first, last)

\* A run of hyphens becomes one.
SqueezeHyphens(s) ==
  FoldLeft(LAMBDA r, c : IF c = "-" /\ r # <<>> /\ r[Len(r)] = "-" THEN r ELSE Append(r, c),
           <<>>, s)

isValid(s) ==
  /\ s # <<>> /\ Len(s) <= MaxName
  /\ s[1] # "-" /\ s[Len(s)] # "-"
  /\ \A i \in 1..(Len(s) - 1) : ~(s[i] = "-" /\ s[i + 1] = "-")
  /\ \A i \in 1..Len(s) : s[i] \in {"a", "-"}

\* Prefix, ends, characters, hyphens, case and length, in this order, and
\* the error of isValid when the cut leaves a hyphen at the end.
makeValidName(name, prefix) ==
  LET trimmed == TrimChar(name, {" "})
      r0 == prefix \o trimmed
      r1 == (IF r0[1] \notin Alnum THEN <<"a">> ELSE <<>>) \o r0
            \o (IF r0[Len(r0)] \notin Alnum THEN <<"a">> ELSE <<>>)
      r2 == [i \in DOMAIN r1 |-> IF r1[i] \in Alnum THEN r1[i] ELSE "-"]
      r3 == TrimChar(SqueezeHyphens(r2), {"-"})
      r4 == [i \in DOMAIN r3 |-> IF r3[i] = "A" THEN "a" ELSE r3[i]]
      r5 == IF Len(r4) > MaxName THEN SubSeq(r4, 1, MaxName) ELSE r4
  IN IF trimmed = <<>> \/ ~isValid(r5) THEN ENil ELSE r5

\* An id is cut at different places for its two names, and one of them may end
\* in a hyphen where the other does not.
HardwareName(a) == makeValidName(a, discoveryPrefix)
WorkflowName(a) == makeValidName(a, workflowPrefix)

-----------------------------------------------------------------------------
(* Which rule set is for an agent                                          *)

\* The number of patterns that match; a pattern that does not parse, or an
\* agent without attributes, makes the rule set match nothing.
findMatch(rs, attrs) ==
  IF attrs = ENil \/ \E i \in DOMAIN rs.rules : rs.rules[i] = "bad" THEN 0
  ELSE Cardinality({i \in DOMAIN rs.rules : rs.rules[i] \in attrs.facts})

\* The rule sets that enroll may choose: the list comes in no particular
\* order, and of those with the most matches the first one wins.
BestRuleSets(attrs) ==
  {rs \in RuleSets : /\ findMatch(rs, attrs) > 0
                     /\ \A o \in RuleSets : findMatch(o, attrs) <= findMatch(rs, attrs)}

\* What discovery copies from the attributes into the object.
updateHardware(attrs) ==
  IF attrs = ENil THEN [disks |-> {}, macs |-> {}, annotated |-> FALSE]
  ELSE [disks |-> {d.name : d \in {d \in attrs.disks : d.size # ENil}},
        macs |-> attrs.macs \cap GoodMAC,
        annotated |-> ~attrs.large]

Discovered(a, persist) ==
  LET seen == updateHardware(AttrsOf(a))
  IN [name |-> HardwareName(a), agent |-> a, enabled |-> persist,
      disks |-> seen.disks, macs |-> seen.macs, annotated |-> seen.annotated]

\* A Hardware object that a person made; no agent's name is like its name.
PersonsName == <<"a", "A">>
Described(a, enabled) ==
  [name |-> PersonsName, agent |-> a, enabled |-> enabled, disks |-> {}, macs |-> {},
   annotated |-> FALSE]

\* The Hardware objects there can be: none of them is nil.
HardwareObjects ==
  [name : {HardwareName(a) : a \in AgentIds} \cup {PersonsName}, agent : AgentIds,
   enabled : BOOLEAN,
   disks : {updateHardware(AttrsOf(a)).disks : a \in AgentIds} \cup {{}},
   macs : {updateHardware(AttrsOf(a)).macs : a \in AgentIds} \cup {{}}, annotated : BOOLEAN]

ASSUME NilAssumption == ENil \notin HardwareObjects /\ ENil # PersonsName

OfAgent(objects, a) == {h \in objects : h.agent = a}
Only(S) == IF Cardinality(S) = 1 THEN CHOOSE x \in S : TRUE ELSE ENil

-----------------------------------------------------------------------------
(* GetAction                                                               *)

NoCallYet == [at |-> "idle", hw |-> ENil]

EnrollInit ==
  /\ aconf \in AutoConfigs
  /\ \/ ahw = {} /\ awf = {}
     \/ \E a \in aconf.agents, b \in BOOLEAN : ahw = {Described(a, b)} /\ awf = {}
     \/ \E o \in AgentIds \ aconf.agents :   \* an agent that was there before
          /\ HardwareName(o) # ENil /\ WorkflowName(o) # ENil
          /\ ahw = {Discovered(o, FALSE)}
          /\ awf = {[name |-> WorkflowName(o), ns |-> rs.ns, agent |-> o,
                     hwRef |-> HardwareName(o), rendered |-> TRUE] : rs \in BestRuleSets(AttrsOf(o))}
  /\ ahwCache = ahw /\ awfCache = awf
  /\ acall = [a \in AgentIds |-> NoCallYet]
  /\ answer = [a \in AgentIds |-> "none"]
  /\ enrolled = [a \in AgentIds |-> 0]
  /\ atroubles = 0 /\ edits = 0

Go(a, at, hw) == acall' = [acall EXCEPT ![a] = [at |-> at, hw |-> hw]]

\* The attempt ends with an error; the retry loop of GetAction and then the
\* agent start again from the beginning.
Answered(a, what) ==
  /\ acall' = [acall EXCEPT ![a] = NoCallYet]
  /\ answer' = [answer EXCEPT ![a] = what]

doGetAction(a) ==
  /\ a \in aconf.agents /\ acall[a].at = "idle" /\ answer[a] # "served"
  /\ Go(a, IF aconf.discovery THEN "discover" ELSE "list", ENil)
  /\ UNCHANGED <<aconf, ahw, ahwCache, awf, awfCache, answer, enrolled, atroubles, edits>>

\* Discover looks the agent up in the cache, across all namespaces.  An error,
\* several objects or a name that cannot be made leave GetAction without one.
Discover(a) ==
  /\ acall[a].at = "discover"
  /\ LET found == OfAgent(ahwCache, a)
     IN IF HardwareName(a) = ENil THEN Go(a, "list", ENil)
        ELSE IF found = {} THEN Go(a, "createHardware", ENil)
        ELSE Go(a, "list", Only(found))
  /\ UNCHANGED <<aconf, ahw, ahwCache, awf, awfCache, answer, enrolled, atroubles, edits>>

\* Mutant of CreateHardware: the one-time permission is stored as well.
CreateEnabled(a) ==
  /\ acall[a].at = "createHardware"
  /\ LET h == Discovered(a, TRUE)
     IN IF \E o \in ahw : o.name = h.name
        THEN Go(a, "list", ENil) /\ UNCHANGED ahw
        ELSE Go(a, "list", h) /\ ahw' = ahw \cup {h}
  /\ UNCHANGED <<aconf, ahwCache, awf, awfCache, answer, enrolled, atroubles, edits>>

\* Mutant of CreateHardware: the call goes on with what was stored.
CreateUnpermitted(a) ==
  /\ acall[a].at = "createHardware"
  /\ LET h == Discovered(a, aconf.persist)
     IN IF \E o \in ahw : o.name = h.name
        THEN Go(a, "list", ENil) /\ UNCHANGED ahw
        ELSE Go(a, "list", h) /\ ahw' = ahw \cup {h}
  /\ UNCHANGED <<aconf, ahwCache, awf, awfCache, answer, enrolled, atroubles, edits>>

\* The object is created with the configured permission, and is used with
\* the permission to enroll, once.
CreateHardware(a) ==
  /\ acall[a].at = "createHardware"
  /\ LET h == Discovered(a, aconf.persist)
     IN IF \E o \in ahw : o.name = h.name
        THEN Go(a, "list", ENil) /\ UNCHANGED ahw
        ELSE /\ Go(a, "list", [h EXCEPT !.enabled = TRUE])
             /\ ahw' = ahw \cup {h}
  /\ UNCHANGED <<aconf, ahwCache, awf, awfCache, answer, enrolled, atroubles, edits>>

\* The Workflows the cache lists for the agent: those whose rendering put
\* its id into status.agentID.
ListWorkflows(a) == {w \in awfCache : w.rendered /\ w.agent = a}

\* The first Action is served, and the attributes go into the Hardware as an
\* annotation by a merge patch if there is none yet.
Serve(a, hw) ==
  /\ Answered(a, "served")
  /\ LET ref == IF hw # ENil THEN hw.name
                ELSE (CHOOSE w \in ListWorkflows(a) : TRUE).hwRef
     IN ahw' = IF AttrsOf(a) = ENil \/ AttrsOf(a).large THEN ahw
               ELSE {IF h.name = ref THEN [h EXCEPT !.annotated = TRUE] ELSE h : h \in ahw}

\* A Workflow is served; otherwise enroll checks the Hardware, which is
\* looked up here if there is no discovery, and chooses a rule set.
List(a) ==
  /\ acall[a].at = "list"
  /\ LET hw == IF aconf.discovery THEN acall[a].hw ELSE Only(OfAgent(ahwCache, a))
     IN CASE ListWorkflows(a) # {} -> Serve(a, acall[a].hw)
          [] OTHER ->
               /\ UNCHANGED ahw
               /\ CASE ~aconf.enrollment -> Answered(a, "notFound")
                    [] aconf.enrollment /\ hw # ENil /\ ~hw.enabled -> Answered(a, "disabled")
                    [] aconf.enrollment /\ (hw = ENil \/ hw.enabled)
                         /\ WorkflowName(a) = ENil ->
                         Answered(a, "badName")
                    [] OTHER -> IF BestRuleSets(AttrsOf(a)) = {} THEN Answered(a, "noMatch")
                                ELSE Go(a, "createWorkflow", hw) /\ UNCHANGED answer
  /\ UNCHANGED <<aconf, ahwCache, awf, awfCache, enrolled, atroubles, edits>>

NewWorkflow(a, ns) ==
  [name |-> WorkflowName(a), ns |-> ns, agent |-> a,
   hwRef |-> IF acall[a].hw = ENil THEN ENil ELSE acall[a].hw.name, rendered |-> FALSE]

Taken(a, ns) == \E o \in awf : o.name = WorkflowName(a) /\ o.ns = ns

CreateWorkflow(a, ns) ==
  /\ ~Taken(a, ns)
  /\ awf' = awf \cup {NewWorkflow(a, ns)}
  /\ enrolled' = [enrolled EXCEPT ![a] = @ + 1]

\* The Workflow is created under the agent's name, or exists already.
enroll(a) ==
  /\ acall[a].at = "createWorkflow"
  /\ \E rs \in BestRuleSets(AttrsOf(a)) :
       \/ Taken(a, rs.ns) /\ Answered(a, "existing") /\ UNCHANGED <<awf, enrolled>>
       \/ CreateWorkflow(a, rs.ns) /\ Go(a, "wait", acall[a].hw) /\ UNCHANGED answer
  /\ UNCHANGED <<aconf, ahw, ahwCache, awfCache, atroubles, edits>>

\* getActionNoAuto is tried until the Workflow is rendered and in the cache,
\* or the retries are used up; its request has no attributes to annotate with.
getActionNoAuto(a) ==
  /\ acall[a].at = "wait"
  /\ Answered(a, IF ListWorkflows(a) # {} THEN "served" ELSE "notFound")
  /\ UNCHANGED <<aconf, ahw, ahwCache, awf, awfCache, enrolled, atroubles, edits>>

\* An API call fails, and a create may have been carried out all the same:
\* without Hardware GetAction goes on, otherwise it ends.
CallFails(a) ==
  /\ atroubles < MaxTroubles
  /\ atroubles' = atroubles + 1
  /\ \/ /\ acall[a].at \in {"discover", "createHardware"}
        /\ Go(a, "list", ENil)
        /\ ahw' \in {ahw} \cup
             {ahw \cup {h} : h \in {h \in {Discovered(a, aconf.persist)} :
                acall[a].at = "createHardware" /\ \A o \in ahw : o.name # h.name}}
        /\ UNCHANGED <<answer, awf, enrolled>>
     \/ /\ acall[a].at \in {"list", "createWorkflow"}
        /\ Answered(a, "internal")
        /\ \/ UNCHANGED <<awf, enrolled>>
           \/ /\ acall[a].at = "createWorkflow"
              /\ \E rs \in BestRuleSets(AttrsOf(a)) : CreateWorkflow(a, rs.ns)
        /\ UNCHANGED ahw
  /\ UNCHANGED <<aconf, ahwCache, awfCache, edits>>

-----------------------------------------------------------------------------
(* The rest of the cluster                                                 *)

HardwareSync == ahwCache' = ahw /\ ahwCache # ahw
  /\ UNCHANGED <<aconf, ahw, awf, awfCache, acall, answer, enrolled, atroubles, edits>>

WorkflowSync == awfCache' = awf /\ awfCache # awf
  /\ UNCHANGED <<aconf, ahw, ahwCache, awf, acall, answer, enrolled, atroubles, edits>>

\* The Tink Controller renders the template with the agent's id in it.
Render(w) ==
  /\ w \in awf /\ ~w.rendered
  /\ awf' = (awf \ {w}) \cup {[w EXCEPT !.rendered = TRUE]}
  /\ UNCHANGED <<aconf, ahw, ahwCache, awfCache, acall, answer, enrolled, atroubles, edits>>

\* A person removes the Workflow of an agent that was served, when the
\* informers have settled, and the agent asks again.
RemoveWorkflow(w) ==
  /\ w \in awf /\ answer[w.agent] = "served"
  /\ ahwCache = ahw /\ awfCache = awf
  /\ edits < MaxEdits /\ edits' = edits + 1
  /\ awf' = awf \ {w} /\ awfCache' = awfCache \ {w}
  /\ answer' = [answer EXCEPT ![w.agent] = "none"]
  /\ UNCHANGED <<aconf, ahw, ahwCache, acall, enrolled, atroubles>>

EnrollNext ==
  \/ \E a \in AgentIds :
       \/ doGetAction(a) \/ Discover(a) \/ CreateHardware(a) \/ List(a) \/ enroll(a)
       \/ getActionNoAuto(a) \/ CallFails(a)
  \/ HardwareSync \/ WorkflowSync
  \/ \E w \in awf : Render(w) \/ RemoveWorkflow(w)

EnrollSpec == EnrollInit /\ [][EnrollNext]_enrollVars

-----------------------------------------------------------------------------

EnrollTypeOK ==
  /\ aconf \in AutoConfigs
  /\ \A h \in ahw \cup ahwCache : h.agent \in AgentIds /\ h.enabled \in BOOLEAN
  /\ \A w \in awf \cup awfCache : w.agent \in AgentIds /\ isValid(w.name)
  /\ \A a \in AgentIds :
       /\ acall[a].at \in {"idle", "discover", "createHardware", "list", "createWorkflow", "wait"}
       /\ acall[a].at = "createWorkflow" => WorkflowName(a) # ENil
       /\ enrolled[a] \in Nat
  /\ atroubles \in 0..MaxTroubles /\ edits \in 0..MaxEdits

\* Objects that people made.
Persons == {h \in ahw : h.name = PersonsName}
NameIsOwn(a) ==
  /\ \A h \in ahw : h.name = HardwareName(a) => h.agent = a
  /\ \A w \in awf : w.name = WorkflowName(a) => w.agent = a

\* Nor did another agent's Workflow have the name before a person removed it.
NameWasOwn(a) ==
  IF edits = 0 THEN NameIsOwn(a)
  ELSE \A b \in AgentIds :
         HardwareName(b) = HardwareName(a) \/ WorkflowName(b) = WorkflowName(a) => b = a

\* AUTO_DISCOVERY.md: with enrollmentEnabled false "a newly created Hardware
\* object will only run an enrollment Workflow once".  The permission is in
\* the memory of the call that created the object, and every other call,
\* retry or later boot must be refused, also while the informers lag: the
\* Workflow's name then stands in the way.  So it is once per namespace of
\* the rule sets that match best.  Agents whose names collide have no object
\* of their own and are enrolled whenever they ask, as is an agent whose
\* Hardware has no valid name (even where a person's object forbids it), and
\* every agent after a failed call.
OneTimeEnrollment ==
  (aconf.discovery /\ ~aconf.persist /\ atroubles = 0) =>
    \A a \in AgentIds :
      HardwareName(a) # ENil /\ NameIsOwn(a) /\ (\A h \in Persons : h.agent = a => ~h.enabled)
        => enrolled[a] <= Cardinality({rs.ns : rs \in BestRuleSets(AttrsOf(a))})

\* The one permission is not lost: an agent that discovery found is told
\* that enrollment is disabled only after it was enrolled, unless a call
\* failed in between, nothing matched, its name is or was taken by another
\* agent's Workflow, a person said so, or the id makes a name for Hardware and
\* none for a Workflow: such an agent uses its permission up without being
\* enrolled.
FirstContactEnrolls ==
  \A a \in AgentIds :
    (answer[a] = "disabled" /\ atroubles = 0 /\ NameWasOwn(a)
       /\ WorkflowName(a) # ENil /\ BestRuleSets(AttrsOf(a)) # {})
      => enrolled[a] >= 1 \/ \E h \in Persons : h.agent = a /\ ~h.enabled

\* An agent that nobody described, and both of whose names can be made, is
\* enrolled once: not more often, and not less.
EnrolledOnce == OneTimeEnrollment /\ FirstContactEnrolls
=============================================================================
