----------------------------- MODULE TinkProofs -----------------------------
(***************************************************************************)
(* Proofs about TinkSystem, for every set of agents and Workflows, every   *)
(* template and any number of faults.  Type correctness and the optimistic *)
(* concurrency of the gRPC handlers hold for handlers that outlive their   *)
(* clients too, so nothing is assumed of LateCalls.  The other safety      *)
(* properties hold as long as handlers do not (LateCalls is false); they   *)
(* follow from the inductive invariant IInv.                               *)
(***************************************************************************)
EXTENDS TinkSystem, TLAPS

\* Facts about templates, in the form the provers need.
LEMMA TemplateFacts ==
    ASSUME NEW w \in Workflow
    PROVE  /\ Actions(w) \subseteq Nat \ {0}
           /\ 0 \notin Actions(w)
           /\ Tasks(w) = 1..Len(Worker[w])
           /\ Len(Worker[w]) \in Nat \ {0}
           /\ \A k \in Actions(w) : TaskOf[w][k] \in Nat \ {0} /\ TaskOf[w][k] \in Tasks(w)
           /\ \A t \in Tasks(w) : Worker[w][t] \in Agent
           /\ \A i, j \in Actions(w) : i <= j => TaskOf[w][i] <= TaskOf[w][j]
           /\ \A i, j \in Actions(w) : i < j => j - 1 \in Actions(w)
  <1>1. Worker[w] \in Seq(Agent) /\ TaskOf[w] \in Seq(Nat) /\ Worker[w] # << >>
    BY TemplateAssumption
  <1>2. DOMAIN Worker[w] = 1..Len(Worker[w]) /\ DOMAIN TaskOf[w] = 1..Len(TaskOf[w])
    BY <1>1
  <1>3. Len(Worker[w]) \in Nat /\ Len(TaskOf[w]) \in Nat /\ Len(Worker[w]) # 0
    BY <1>1
  <1>4. \A t \in 1..Len(Worker[w]) : Worker[w][t] \in Agent
    BY <1>1
  <1>5. \A k \in Actions(w) : TaskOf[w][k] \in Tasks(w)
    BY TemplateAssumption
  <1>6. \A i, j \in Actions(w) : i <= j => TaskOf[w][i] <= TaskOf[w][j]
    BY TemplateAssumption
  <1> QED BY <1>2, <1>3, <1>4, <1>5, <1>6 DEF Actions, Tasks

\* A rendered template is a well-formed status.
LEMMA YAMLToStatusType ==
    ASSUME NEW w \in Workflow
    PROVE  YAMLToStatus(w) \in Status(w)
  <1>1. Worker[w][1] \in Agent
    BY TemplateFacts
  <1> QED BY <1>1 DEF YAMLToStatus, Status, NoCurrentState, WorkflowState, ActionState

\* The initial state is well-typed.
LEMMA InitType == Init => TypeOK
  <1> SUFFICES ASSUME Init PROVE TypeOK
    OBVIOUS
  <1>1. \A w \in Workflow : [rv |-> 0, status |-> YAMLToStatus(w)] \in Object(w)
    BY YAMLToStatusType DEF Object
  <1>2. ObjectsOK
    BY <1>1 DEF Init, ObjectsOK
  <1>3. CallsOK
    BY DEF Init, CallsOK, IsCall
  <1>4. AgentsOK
    BY DEF Init, AgentsOK, IsJob
  <1>5. patch \in [Workflow -> Patch]
    BY DEF Init, NoPatch, Patch
  <1>6. ControllerOK
    BY <1>5, BoundAssumption DEF Init, ControllerOK
  <1> QED BY <1>2, <1>3, <1>4, <1>6 DEF TypeOK

----------------------------------------------------------------------------
(* Type correctness of the operators *)

\* A write makes an object of an object and a status.
LEMMA WrittenType ==
    ASSUME NEW w \in Workflow, NEW o \in Object(w), NEW s \in Status(w)
    PROVE  Written(o, s) \in Object(w)
  BY DEF Written, Object

\* What GetAction writes is a status.
LEMMA ServeStatusType ==
    ASSUME NEW w \in Workflow, NEW s \in Status(w), NEW k \in Actions(w)
    PROVE  ServeStatus(s, k) \in Status(w)
  BY DEF ServeStatus, Status

\* What ReportActionStatus writes is a status.
LEMMA ReportStatusType ==
    ASSUME NEW w \in Workflow, NEW s \in Status(w), NEW k \in Actions(w), NEW st \in ActionState
    PROVE  ReportStatus(w, s, k, st) \in Status(w)
  BY DEF ReportStatus, Status, WorkflowState

\* A merge patch makes a status of a status.
LEMMA PatchedType ==
    ASSUME NEW w \in Workflow, NEW s \in Status(w), NEW p \in Patch
    PROVE  Patched(s, p) \in Status(w)
  BY NoneAssumption DEF Patched, Status, Patch

\* What a reconcile in RUNNING sends is a patch.
LEMMA RunningPatchType ==
    ASSUME NEW w \in Workflow, NEW s \in Status(w)
    PROVE  RunningPatch(w, s) \in Patch
  <1>1. updateAgentIDIfNeeded(w, s) \in Agent \cup {None}
    BY TemplateFacts DEF updateAgentIDIfNeeded, TaskIsOver, Status, NoCurrentState
  <1> QED BY <1>1 DEF RunningPatch, Patch, NoPatch, WorkflowState, ActionState

\* What a reconcile in POST sends is a patch.
LEMMA PostPatchType ==
    ASSUME NEW w \in Workflow, NEW s \in Status(w)
    PROVE  PostPatch(s) \in Patch
  <1>1. s.currentState.state \in ActionState \cup {None}
    BY DEF Status, NoCurrentState
  <1> QED BY <1>1 DEF PostPatch, Patch, NoPatch, WorkflowState

\* What the phase of a call says about its fields.
LEMMA CallFields ==
    ASSUME NEW c, IsCall(c)
    PROVE  /\ c.op \in {"none", "get", "report"}
           /\ c.phase \in {"idle", "sent", "failed", "writing", "done"}
           /\ c.op = "get" /\ c.phase = "sent" => c.agent \in Agent
           /\ c.phase \in {"writing", "done"} \/ c.op = "report" =>
                 /\ c.op \in {"get", "report"}
                 /\ c.agent \in Agent
                 /\ c.w \in Workflow
                 /\ c.id \in Actions(c.w)
                 /\ c.state \in Reported(c.op)
                 /\ c.phase = "writing" => c.upd \in Object(c.w)
  BY DEF IsCall, NoCall, GetCall, Refused, Call

\* The calls that agents make are calls.
LEMMA CallTypes ==
    ASSUME NEW a \in Agent
    PROVE  /\ IsCall(NoCall) /\ IsCall(GetCall(a)) /\ IsCall(Refused(a))
           /\ \A w \in Workflow, st \in ActionState :
                 \A k \in Actions(w) : IsCall(ReportCall(a, w, k, st))
  BY DEF IsCall, ReportCall, NoCall, GetCall, Reported, Call

\* A GetAction that found an Action is a call.
LEMMA ServingType ==
    ASSUME NEW c, IsCall(c), NEW w \in Workflow, NEW k \in Actions(w),
           ObjectsOK, CanServe(c, w, k)
    PROVE  IsCall(Serving(c, w, k))
  <1>1. c.agent \in Agent
    BY CallFields DEF CanServe
  <1>2. scache[w] \in Object(w)
    BY DEF ObjectsOK
  <1>3. [rv |-> scache[w].rv, status |-> ServeStatus(scache[w].status, k)] \in Object(w)
    BY <1>2, ServeStatusType DEF Object
  <1> QED BY <1>1, <1>3 DEF IsCall, Serving, Call, Reported

\* A ReportActionStatus that found its Action is a call.
LEMMA ReportingType ==
    ASSUME NEW c, IsCall(c), ObjectsOK, CanReport(c)
    PROVE  IsCall(Reporting(c))
  <1>1. c.agent \in Agent /\ c.w \in Workflow /\ c.id \in Actions(c.w) /\ c.state \in ActionState
    BY CallFields DEF CanReport, Reported
  <1>2. scache[c.w] \in Object(c.w)
    BY <1>1 DEF ObjectsOK
  <1>3. [rv |-> scache[c.w].rv,
         status |-> ReportStatus(c.w, scache[c.w].status, c.id, c.state)] \in Object(c.w)
    BY <1>1, <1>2, ReportStatusType DEF Object
  <1> QED BY <1>1, <1>3 DEF IsCall, Reporting, Call, Reported

\* A handler that starts over is a call.
LEMMA RetriedType ==
    ASSUME NEW c, IsCall(c), c.phase = "writing"
    PROVE  IsCall(Retried(c)) /\ IsCall(Answered(c))
  <1>1. /\ c.op \in {"get", "report"} /\ c.agent \in Agent
        /\ c.w \in Workflow /\ c.id \in Actions(c.w) /\ c.state \in Reported(c.op)
    BY CallFields
  <1>2. IsCall(Answered(c))
    BY <1>1 DEF IsCall, Answered, Call
  <1>3. IsCall(Retried(c))
    BY <1>1, CallTypes DEF Retried, Reported
  <1> QED BY <1>2, <1>3

\* A commit leaves well-typed objects.
LEMMA UpdateWorkflowType ==
    ASSUME ObjectsOK, NEW c, IsCall(c), CanCommit(c), UpdateWorkflow(c),
           UNCHANGED <<scache, ccache>>
    PROVE  ObjectsOK'
  <1>1. c.w \in Workflow /\ c.upd \in Object(c.w)
    BY CallFields DEF CanCommit
  <1>2. c.upd.status \in Status(c.w) /\ wf[c.w] \in Object(c.w)
    BY <1>1 DEF Object, ObjectsOK
  <1>3. Written(wf[c.w], c.upd.status) \in Object(c.w)
    BY <1>1, <1>2, WrittenType
  <1> QED BY <1>1, <1>3 DEF ObjectsOK, UpdateWorkflow

----------------------------------------------------------------------------
(* Every step keeps the types *)

\* A step that leaves a group of variables alone leaves it well-typed.
LEMMA UnchangedTypes ==
    /\ ObjectsOK /\ UNCHANGED <<wf, scache, ccache>> => ObjectsOK'
    /\ CallsOK /\ UNCHANGED <<call, late>> => CallsOK'
    /\ AgentsOK /\ UNCHANGED agentVars => AgentsOK'
    /\ ControllerOK /\ UNCHANGED <<queued, patch, timer, elapsed, faults>> => ControllerOK'
  BY DEF ObjectsOK, CallsOK, AgentsOK, ControllerOK, agentVars

\* An agent gets a well-typed call and the abandoned ones are left alone.
LEMMA CallUpdate ==
    ASSUME CallsOK, NEW a \in Agent, NEW c, IsCall(c),
           call' = [call EXCEPT ![a] = c], late' = late
    PROVE  CallsOK'
  BY DEF CallsOK

\* Tink Server keeps the types.
LEMMA ServerTypes == TypeOK /\ ServerNext => TypeOK'
  <1> SUFFICES ASSUME TypeOK, ServerNext PROVE TypeOK'
    OBVIOUS
  <1> USE DEF TypeOK
  <1>1. CASE \E w \in Workflow : ServerSync(w)
    <2>1. PICK w \in Workflow : ServerSync(w)
      BY <1>1
    <2>2. ObjectsOK'
      BY <2>1 DEF ServerSync, ObjectsOK, controllerVars
    <2> QED BY <2>1, <2>2, UnchangedTypes DEF ServerSync, controllerVars
  <1>2. ASSUME NEW a \in Agent, GetActionRead(a)
        PROVE  TypeOK'
    <2>1. PICK c : IsCall(c) /\ call' = [call EXCEPT ![a] = c]
      BY <1>2, ServingType DEF GetActionRead, CallsOK
    <2>3. CallsOK'
      BY <1>2, <2>1, CallUpdate DEF GetActionRead, serverVars
    <2> QED BY <1>2, <2>3, UnchangedTypes DEF GetActionRead, serverVars, controllerVars
  <1>3. ASSUME NEW a \in Agent, GetActionError(a)
        PROVE  TypeOK'
    <2>1. CallsOK'
      BY <1>3, CallTypes, CallUpdate DEF GetActionError, serverVars
    <2> QED BY <1>3, <2>1, UnchangedTypes DEF GetActionError, serverVars, controllerVars
  <1>4. ASSUME NEW a \in Agent, ReportActionStatusRead(a)
        PROVE  TypeOK'
    <2>1. IsCall(Reporting(call[a]))
      BY <1>4, ReportingType DEF CallsOK, ReportActionStatusRead
    <2>2. CallsOK'
      BY <1>4, <2>1, CallUpdate DEF ReportActionStatusRead, serverVars
    <2> QED BY <1>4, <2>2, UnchangedTypes DEF ReportActionStatusRead, serverVars, controllerVars
  <1>5. ASSUME NEW a \in Agent, HandlerCommit(a)
        PROVE  TypeOK'
    <2>1. IsCall(Answered(call[a])) /\ IsCall(call[a])
      BY <1>5, RetriedType DEF HandlerCommit, CanCommit, CallsOK
    <2>2. CallsOK'
      BY <1>5, <2>1, CallUpdate DEF HandlerCommit, serverVars
    <2>3. ObjectsOK'
      BY <1>5, <2>1, UpdateWorkflowType DEF HandlerCommit, serverVars, controllerVars
    <2> QED BY <1>5, <2>2, <2>3, UnchangedTypes DEF HandlerCommit, controllerVars
  <1>6. ASSUME NEW a \in Agent, HandlerConflict(a)
        PROVE  TypeOK'
    <2>1. IsCall(Retried(call[a]))
      BY <1>6, RetriedType DEF HandlerConflict, Conflicts, CallsOK
    <2>2. CallsOK'
      BY <1>6, <2>1, CallUpdate DEF HandlerConflict, serverVars
    <2> QED BY <1>6, <2>2, UnchangedTypes DEF HandlerConflict, serverVars, controllerVars
  <1>7. ASSUME NEW c \in late, LateRead(c)
        PROVE  TypeOK'
    <2>1. PICK d : late' = (late \ {c}) \cup {d} /\ IsCall(d)
      BY <1>7, ServingType, ReportingType DEF LateRead, CallsOK
    <2>2. CallsOK'
      BY <1>7, <2>1 DEF LateRead, CallsOK
    <2> QED BY <1>7, <2>2, UnchangedTypes DEF LateRead, controllerVars
  <1>8. ASSUME NEW c \in late, LateCommit(c)
        PROVE  TypeOK'
    <2>1. ObjectsOK'
      BY <1>8, UpdateWorkflowType DEF LateCommit, controllerVars, CallsOK
    <2>2. CallsOK'
      BY <1>8 DEF LateCommit, CallsOK
    <2> QED BY <1>8, <2>1, <2>2, UnchangedTypes DEF LateCommit, controllerVars
  <1>9. ASSUME NEW c \in late, LateConflict(c)
        PROVE  TypeOK'
    <2>1. IsCall(Retried(c))
      BY <1>9, RetriedType DEF LateConflict, Conflicts, CallsOK
    <2>2. CallsOK'
      BY <1>9, <2>1 DEF LateConflict, CallsOK
    <2> QED BY <1>9, <2>2, UnchangedTypes DEF LateConflict, controllerVars
  <1>10. ASSUME NEW c \in late, LateEnd(c)
         PROVE  TypeOK'
    <2>1. CallsOK'
      BY <1>10 DEF LateEnd, CallsOK
    <2> QED BY <1>10, <2>1, UnchangedTypes DEF LateEnd, controllerVars
  <1> QED BY <1>1, <1>2, <1>3, <1>4, <1>5, <1>6, <1>7, <1>8, <1>9, <1>10 DEF ServerNext

\* An agent that holds an Action holds one of the template.
LEMMA JobFields ==
    ASSUME AgentsOK, NEW a \in Agent, pc[a] \in {"announcing", "executing", "reporting"}
    PROVE  job[a].w \in Workflow /\ job[a].id \in Actions(job[a].w)
  BY DEF AgentsOK, IsJob

\* Losing an agent's call, whether or not its handler goes on.
LEMMA AbandonTypes ==
    ASSUME CallsOK, NEW a \in Agent, Abandon(call[a]), NEW c, IsCall(c),
           call' = [call EXCEPT ![a] = c]
    PROVE  CallsOK'
  BY DEF CallsOK, Abandon

\* Faults stay within their bound.
LEMMA FaultTypes == ControllerOK /\ Fault => faults' \in 0..MaxFaults
  BY BoundAssumption DEF ControllerOK, Fault

\* Agents keep the types.
LEMMA AgentTypes == TypeOK /\ AgentNext => TypeOK'
  <1> SUFFICES ASSUME TypeOK, NEW a \in Agent,
                      \/ AgentRead(a) \/ AgentReadError(a) \/ AgentReceive(a)
                      \/ AgentExecute(a) \/ AgentReported(a)
                      \/ \E st \in {"SUCCESS", "FAILED", "TIMEOUT"} : AgentExecuted(a, st)
                      \/ CallLost(a) \/ AgentCrash(a) \/ AgentRestart(a)
               PROVE  TypeOK'
    BY DEF AgentNext
  <1> USE DEF TypeOK
  <1>0. IsCall(NoCall) /\ IsCall(GetCall(a))
    BY CallTypes
  <1>1. CASE AgentRead(a)
    <2>1. CallsOK'
      BY <1>1, <1>0, CallUpdate DEF AgentRead, serverVars
    <2>2. AgentsOK'
      BY <1>1 DEF AgentRead, AgentsOK
    <2> QED BY <1>1, <2>1, <2>2, UnchangedTypes DEF AgentRead, serverVars, controllerVars
  <1>2. CASE AgentReadError(a)
    <2>1. CallsOK'
      BY <1>2, <1>0, CallUpdate DEF AgentReadError, serverVars
    <2>2. AgentsOK'
      BY <1>2 DEF AgentReadError, AgentsOK
    <2> QED BY <1>2, <2>1, <2>2, UnchangedTypes DEF AgentReadError, serverVars, controllerVars
  <1>3. CASE AgentReceive(a)
    <2>1. call[a].w \in Workflow /\ call[a].id \in Actions(call[a].w)
      BY <1>3, CallFields DEF AgentReceive, CallsOK
    <2>2. CallsOK'
      BY <1>3, <2>1, CallTypes, CallUpdate DEF AgentReceive, serverVars, ActionState
    <2>3. IsJob([w |-> call[a].w, id |-> call[a].id]) /\ [w |-> call[a].w, id |-> call[a].id] # NoJob
      BY <2>1, NoneAssumption DEF IsJob, NoJob
    <2>4. AgentsOK'
      BY <1>3, <2>3 DEF AgentReceive, AgentsOK
    <2> QED BY <1>3, <2>2, <2>4, UnchangedTypes DEF AgentReceive, serverVars, controllerVars
  <1>4. CASE AgentExecute(a)
    <2>1. CallsOK'
      BY <1>4, <1>0, CallUpdate DEF AgentExecute, serverVars
    <2>2. AgentsOK'
      BY <1>4 DEF AgentExecute, AgentsOK
    <2> QED BY <1>4, <2>1, <2>2, UnchangedTypes DEF AgentExecute, serverVars, controllerVars
  <1>5. CASE AgentReported(a)
    <2>1. CallsOK'
      BY <1>5, <1>0, CallUpdate DEF AgentReported, serverVars
    <2>2. AgentsOK'
      BY <1>5 DEF AgentReported, AgentsOK, IsJob
    <2> QED BY <1>5, <2>1, <2>2, UnchangedTypes DEF AgentReported, serverVars, controllerVars
  <1>6. ASSUME NEW st \in {"SUCCESS", "FAILED", "TIMEOUT"}, AgentExecuted(a, st)
        PROVE  TypeOK'
    <2>1. job[a].w \in Workflow /\ job[a].id \in Actions(job[a].w)
      BY <1>6, JobFields DEF AgentExecuted
    <2>2. CallsOK'
      BY <1>6, <2>1, CallTypes, CallUpdate DEF AgentExecuted, serverVars, ActionState
    <2>3. st # None /\ st \in ActionState
      BY NoneAssumption DEF ActionState
    <2>4. DOMAIN runs' = Workflow /\ \A w \in Workflow : runs'[w] \in [Actions(w) -> Nat]
      BY <1>6, <2>1 DEF AgentExecuted, AgentsOK
    <2>5. AgentsOK'
      BY <1>6, <2>3, <2>4 DEF AgentExecuted, AgentsOK
    <2> QED BY <1>6, <2>2, <2>5, UnchangedTypes DEF AgentExecuted, serverVars, controllerVars
  <1>7. CASE CallLost(a)
    <2>1. ASSUME pc[a] = "reporting"
          PROVE  CallsOK' /\ AgentsOK'
      <3>1. /\ job[a].w \in Workflow /\ job[a].id \in Actions(job[a].w)
            /\ result[a] \in ActionState
        BY <2>1, JobFields DEF AgentsOK
      <3>2. CallsOK'
        BY <1>7, <2>1, <3>1, CallTypes, AbandonTypes DEF CallLost
      <3> QED BY <1>7, <2>1, <3>2, UnchangedTypes DEF CallLost, agentVars, AgentsOK
    <2>2. ASSUME pc[a] # "reporting"
          PROVE  CallsOK' /\ AgentsOK'
      <3>1. CallsOK'
        BY <1>7, <2>2, <1>0, AbandonTypes DEF CallLost
      <3>2. AgentsOK'
        BY <1>7, <2>2 DEF CallLost, AgentsOK, IsJob
      <3> QED BY <3>1, <3>2
    <2>3. ControllerOK'
      BY <1>7, FaultTypes DEF CallLost, controllerVars, ControllerOK
    <2> QED BY <1>7, <2>1, <2>2, <2>3, UnchangedTypes DEF CallLost, controllerVars
  <1>8. CASE AgentCrash(a)
    <2>1. CallsOK'
      BY <1>8, <1>0, AbandonTypes DEF AgentCrash
    <2>2. AgentsOK'
      BY <1>8 DEF AgentCrash, AgentsOK, IsJob
    <2>3. ControllerOK'
      BY <1>8, FaultTypes DEF AgentCrash, controllerVars, ControllerOK
    <2> QED BY <1>8, <2>1, <2>2, <2>3, UnchangedTypes DEF AgentCrash, controllerVars
  <1>9. CASE AgentRestart(a)
    <2>1. AgentsOK'
      BY <1>9 DEF AgentRestart, AgentsOK
    <2> QED BY <1>9, <2>1, UnchangedTypes DEF AgentRestart, serverVars, controllerVars
  <1> QED BY <1>1, <1>2, <1>3, <1>4, <1>5, <1>6, <1>7, <1>8, <1>9

\* The Tink Controller keeps the types.
LEMMA ControllerTypes == TypeOK /\ ControllerNext => TypeOK'
  <1> SUFFICES ASSUME TypeOK, ControllerNext PROVE TypeOK'
    OBVIOUS
  <1> USE DEF TypeOK
  <1>1. ASSUME NEW w \in Workflow, ControllerSync(w)
        PROVE  TypeOK'
    <2>1. ObjectsOK'
      BY <1>1 DEF ControllerSync, ObjectsOK, serverVars
    <2>2. ControllerOK'
      BY <1>1 DEF ControllerSync, ControllerOK
    <2> QED BY <1>1, <2>1, <2>2, UnchangedTypes DEF ControllerSync, serverVars
  <1>2. ASSUME NEW w \in Workflow, Resync(w)
        PROVE  TypeOK'
    <2>1. ControllerOK'
      BY <1>2 DEF Resync, ControllerOK
    <2> QED BY <1>2, <2>1, UnchangedTypes DEF Resync, serverVars
  <1>3. ASSUME NEW w \in Workflow, ReconcileRunning(w) \/ ReconcilePost(w) \/ ReconcileNothing(w)
        PROVE  TypeOK'
    <2>1. ccache[w].status \in Status(w)
      BY DEF ObjectsOK, Object
    <2>2. RunningPatch(w, ccache[w].status) \in Patch /\ PostPatch(ccache[w].status) \in Patch
      BY <2>1, RunningPatchType, PostPatchType
    <2>3. patch' \in [Workflow -> Patch]
      BY <1>3, <2>2 DEF ReconcileRunning, ReconcilePost, ReconcileNothing, ControllerOK
    <2>4. Dequeue(w)
      BY <1>3 DEF ReconcileRunning, ReconcilePost, ReconcileNothing
    <2>5. ControllerOK'
      BY <2>3, <2>4 DEF Dequeue, ControllerOK
    <2> QED BY <2>4, <2>5, UnchangedTypes DEF Dequeue, serverVars
  <1>4. ASSUME NEW w \in Workflow, mergePatchStatus(w)
        PROVE  TypeOK'
    <2>1. wf[w] \in Object(w) /\ wf[w].status \in Status(w) /\ patch[w] \in Patch
      BY DEF ObjectsOK, Object, ControllerOK
    <2>2. Written(wf[w], Patched(wf[w].status, patch[w])) \in Object(w)
      BY <2>1, PatchedType, WrittenType
    <2>3. ObjectsOK'
      BY <1>4, <2>2 DEF mergePatchStatus, ObjectsOK, serverVars
    <2>4. NoPatch \in Patch /\ patch[w].stop \in BOOLEAN
      BY <2>1 DEF NoPatch, Patch
    <2>5. patch' \in [Workflow -> Patch]
      BY <1>4, <2>4 DEF mergePatchStatus, ControllerOK
    <2>6. timer' \in [Workflow -> BOOLEAN] /\ elapsed' \in [Workflow -> BOOLEAN]
      BY <1>4, <2>4, Zenon DEF mergePatchStatus, ControllerOK
    <2>7. ControllerOK'
      BY <1>4, <2>5, <2>6 DEF mergePatchStatus, ControllerOK
    <2> QED BY <1>4, <2>3, <2>7, UnchangedTypes DEF mergePatchStatus, serverVars
  <1>5. ASSUME NEW w \in Workflow, PatchFails(w)
        PROVE  TypeOK'
    <2>1. NoPatch \in Patch
      BY DEF NoPatch, Patch
    <2>2. ControllerOK'
      BY <1>5, <2>1, BoundAssumption DEF PatchFails, ControllerOK
    <2> QED BY <1>5, <2>2, UnchangedTypes DEF PatchFails, serverVars
  <1>6. ASSUME NEW w \in Workflow, TimerFires(w) \/ DeadlinePasses(w)
        PROVE  TypeOK'
    <2>1. ControllerOK'
      BY <1>6 DEF TimerFires, DeadlinePasses, ControllerOK
    <2> QED BY <1>6, <2>1, UnchangedTypes DEF TimerFires, DeadlinePasses, serverVars
  <1>7. CASE ControllerRestart
    <2>1. NoPatch \in Patch
      BY DEF NoPatch, Patch
    <2>2. ControllerOK'
      BY <1>7, <2>1, BoundAssumption DEF ControllerRestart, ControllerOK
    <2>3. ObjectsOK'
      BY <1>7 DEF ControllerRestart, ObjectsOK, serverVars
    <2> QED BY <1>7, <2>2, <2>3, UnchangedTypes DEF ControllerRestart, serverVars
  <1> QED BY <1>1, <1>2, <1>3, <1>4, <1>5, <1>6, <1>7 DEF ControllerNext

\* Every step keeps the types.
LEMMA NextTypes == TypeOK /\ [Next]_vars => TypeOK'
  <1>1. TypeOK /\ UNCHANGED vars => TypeOK'
    BY UnchangedTypes DEF vars, TypeOK, agentVars
  <1> QED BY <1>1, ServerTypes, AgentTypes, ControllerTypes DEF Next

\* Every handler, agent step and reconcile keeps the state well-typed, also
\* when handlers outlive their clients.
THEOREM TypeCorrect == Spec => []TypeOK
  BY InitType, NextTypes, PTL DEF Spec


----------------------------------------------------------------------------
(* An Update of a gRPC handler that the API server takes is computed from  *)
(* the status it replaces.                                                 *)

\* The server's cache is a copy of the object's present or of its past.
CacheLags ==
    \A w \in Workflow :
        /\ scache[w].rv <= wf[w].rv
        /\ scache[w].rv = wf[w].rv => scache[w] = wf[w]

\* So is what a handler has read.
HandlerOK(c) == Atomic(c) /\ (c.phase = "writing" => c.upd.rv <= wf[c.w].rv)

Handlers == late \cup {call[a] : a \in Agent}

HandlerInv == TypeOK /\ CacheLags /\ \A c \in Handlers : HandlerOK(c)

----------------------------------------------------------------------------

\* Only a handler that is writing is constrained.
LEMMA IdleOK == \A c : c.phase # "writing" => HandlerOK(c)
  BY DEF HandlerOK, Atomic, CanCommit

\* A cached copy is a version the object had, so a handler starts from one.
LEMMA ReadOK ==
    ASSUME TypeOK, CacheLags, NEW c, IsCall(c)
    PROVE  /\ \A w \in Workflow : \A k \in Actions(w) :
                 CanServe(c, w, k) => HandlerOK(Serving(c, w, k))
           /\ CanReport(c) => HandlerOK(Reporting(c))
  <1>1. ASSUME NEW w \in Workflow, NEW k \in Actions(w), CanServe(c, w, k)
        PROVE  HandlerOK(Serving(c, w, k))
    <2>1. PICK d : d = Serving(c, w, k)
      OBVIOUS
    <2>2. /\ d.op = "get" /\ d.agent = c.agent /\ d.w = w /\ d.id = k
          /\ d.upd.rv = scache[w].rv /\ d.upd.status = ServeStatus(scache[w].status, k)
      BY <2>1 DEF Serving, Call
    <2>3. HandlerOK(d)
      BY <1>1, <2>2 DEF HandlerOK, Atomic, CanCommit, CacheLags, CanServe
    <2> QED BY <2>1, <2>3
  <1>2. ASSUME CanReport(c)
        PROVE  HandlerOK(Reporting(c))
    <2>1. PICK d : d = Reporting(c)
      OBVIOUS
    <2>2. c.w \in Workflow
      BY <1>2, CallFields DEF CanReport
    <2>3. /\ d.op = "report" /\ d.w = c.w /\ d.id = c.id /\ d.state = c.state
          /\ d.upd.rv = scache[c.w].rv
          /\ d.upd.status = ReportStatus(c.w, scache[c.w].status, c.id, c.state)
      BY <2>1 DEF Reporting, Call
    <2>4. HandlerOK(d)
      BY <2>2, <2>3 DEF HandlerOK, Atomic, CanCommit, CacheLags
    <2> QED BY <2>1, <2>4
  <1> QED BY <1>1, <1>2

\* Calls that are new, answered, refused or to be retried are not writing.
LEMMA NewCallsOK ==
    /\ HandlerOK(NoCall)
    /\ \A a : HandlerOK(GetCall(a)) /\ HandlerOK(Refused(a))
    /\ \A a, w, k, st : HandlerOK(ReportCall(a, w, k, st))
    /\ \A c : HandlerOK(Retried(c)) /\ HandlerOK(Answered(c))
  <1>1. /\ NoCall.phase = "idle"
        /\ \A a : GetCall(a).phase = "sent" /\ Refused(a).phase = "failed"
        /\ \A a, w, k, st : ReportCall(a, w, k, st).phase = "sent"
        /\ \A c : Retried(c).phase = "sent" /\ Answered(c).phase = "done"
    BY DEF NoCall, GetCall, Refused, ReportCall, Retried, Answered, Call
  <1> QED BY <1>1, IdleOK

\* A step that writes nothing and adds only calls that are in order.
LEMMA QuietStep ==
    ASSUME HandlerInv, TypeOK', CacheLags', wf' = wf,
           \A c \in Handlers' : c \in Handlers \/ HandlerOK(c)
    PROVE  HandlerInv'
  <1>1. ASSUME NEW c, HandlerOK(c)
        PROVE  HandlerOK(c)'
    BY <1>1 DEF HandlerOK, Atomic, CanCommit
  <1> QED BY <1>1 DEF HandlerInv

\* A write makes every other handler's Update out of date.
LEMMA WriteStep ==
    ASSUME HandlerInv, TypeOK', scache' = scache,
           NEW w \in Workflow, NEW n \in Status(w),
           wf' = [wf EXCEPT ![w] = Written(wf[w], n)],
           \A c \in Handlers' : c \in Handlers \/ c.phase # "writing"
    PROVE  HandlerInv'
  <1>1. /\ DOMAIN wf = Workflow
        /\ \A v \in Workflow : wf[v] \in Object(v) /\ scache[v] \in Object(v)
    BY DEF HandlerInv, TypeOK, ObjectsOK
  <1>2. \A v \in Workflow : wf[v].rv \in Nat /\ scache[v].rv \in Nat
    BY <1>1 DEF Object
  <1>3. Written(wf[w], n) = wf[w] \/ Written(wf[w], n).rv = wf[w].rv + 1
    BY <1>1 DEF Written, Object
  <1>4. \A v \in Workflow : wf'[v] = wf[v] \/ wf'[v].rv = wf[v].rv + 1
    BY <1>1, <1>3
  <1>5. CacheLags'
    BY <1>2, <1>4 DEF HandlerInv, CacheLags
  <1>6. ASSUME NEW c, HandlerOK(c), IsCall(c)
        PROVE  HandlerOK(c)'
    <2>1. CASE c.phase # "writing"
      BY <2>1 DEF HandlerOK, Atomic, CanCommit
    <2>2. CASE c.phase = "writing"
      <3>1. c.w \in Workflow /\ c.upd \in Object(c.w)
        BY <1>6, <2>2, CallFields
      <3>2. c.upd.rv \in Nat /\ c.upd.rv <= wf[c.w].rv /\ wf[c.w].rv \in Nat
        BY <1>2, <1>6, <2>2, <3>1 DEF HandlerOK, Object
      <3>3. CASE wf'[c.w] = wf[c.w]
        BY <1>6, <3>2, <3>3 DEF HandlerOK, Atomic, CanCommit
      <3>4. CASE wf'[c.w].rv = wf[c.w].rv + 1
        BY <3>2, <3>4 DEF HandlerOK, Atomic, CanCommit
      <3> QED BY <1>4, <3>1, <3>3, <3>4
    <2> QED BY <2>1, <2>2
  <1>7. \A c \in Handlers' : HandlerOK(c)'
    <2> SUFFICES ASSUME NEW c \in Handlers' PROVE HandlerOK(c)'
      OBVIOUS
    <2>1. CASE c \in Handlers
      BY <1>6, <2>1 DEF HandlerInv, TypeOK, CallsOK, Handlers
    <2>2. CASE c.phase # "writing"
      BY <2>2 DEF HandlerOK, Atomic, CanCommit
    <2> QED BY <2>1, <2>2
  <1> QED BY <1>5, <1>7 DEF HandlerInv

\* A commit is such a write.
LEMMA CommitStep ==
    ASSUME HandlerInv, TypeOK', scache' = scache, NEW c \in Handlers,
           CanCommit(c), UpdateWorkflow(c),
           \A d \in Handlers' : d \in Handlers \/ d.phase # "writing"
    PROVE  HandlerInv'
  <1>1. IsCall(c)
    BY DEF HandlerInv, TypeOK, CallsOK, Handlers
  <1>2. c.w \in Workflow /\ c.upd.status \in Status(c.w)
    BY <1>1, CallFields DEF CanCommit, Object
  <1> QED BY <1>2, WriteStep DEF UpdateWorkflow

----------------------------------------------------------------------------

\* Agent a gets a call that is in order; late calls may be added.
LEMMA NewCall ==
    ASSUME HandlerInv, NEW a \in Agent, NEW d, HandlerOK(d), call' = [call EXCEPT ![a] = d],
           late' = late \/ late' = late \cup {call[a]}
    PROVE  \A c \in Handlers' : c \in Handlers \/ HandlerOK(c)
  <1>1. DOMAIN call = Agent
    BY DEF HandlerInv, TypeOK, CallsOK
  <1> QED BY <1>1 DEF Handlers

\* The handlers of Tink Server keep the invariant.
LEMMA ServerStep == HandlerInv /\ TypeOK' /\ ServerNext => HandlerInv'
  <1> SUFFICES ASSUME HandlerInv, TypeOK', ServerNext PROVE HandlerInv'
    OBVIOUS
  <1>0. /\ TypeOK /\ CacheLags
        /\ \A a \in Agent : IsCall(call[a]) /\ call[a] \in Handlers
        /\ \A c \in late : IsCall(c) /\ c \in Handlers
    BY DEF HandlerInv, TypeOK, CallsOK, Handlers
  <1>1. ASSUME NEW w \in Workflow, ServerSync(w)
        PROVE  HandlerInv'
    <2>1. wf[w].rv \in Nat /\ DOMAIN scache = Workflow
      BY DEF HandlerInv, TypeOK, ObjectsOK, Object
    <2>2. CacheLags'
      BY <1>0, <1>1, <2>1 DEF ServerSync, CacheLags
    <2>3. wf' = wf /\ Handlers' = Handlers
      BY <1>1 DEF ServerSync, Handlers
    <2> QED BY <2>2, <2>3, QuietStep
  <1> USE DEF serverVars
  <1>2. ASSUME NEW a \in Agent, GetActionRead(a)
        PROVE  HandlerInv'
    <2>1. PICK d : HandlerOK(d) /\ call' = [call EXCEPT ![a] = d]
      BY <1>0, <1>2, ReadOK DEF GetActionRead
    <2>2. CacheLags' /\ wf' = wf /\ late' = late
      BY <1>0, <1>2 DEF GetActionRead, CacheLags
    <2> QED BY <2>1, <2>2, NewCall, QuietStep
  <1>3. ASSUME NEW a \in Agent, GetActionError(a)
        PROVE  HandlerInv'
    <2>1. CacheLags' /\ wf' = wf /\ late' = late
      BY <1>0, <1>3 DEF GetActionError, CacheLags
    <2> QED BY <1>3, <2>1, NewCallsOK, NewCall, QuietStep DEF GetActionError
  <1>4. ASSUME NEW a \in Agent, ReportActionStatusRead(a)
        PROVE  HandlerInv'
    <2>1. HandlerOK(Reporting(call[a]))
      BY <1>0, <1>4, ReadOK DEF ReportActionStatusRead
    <2>2. CacheLags' /\ wf' = wf /\ late' = late
      BY <1>0, <1>4 DEF ReportActionStatusRead, CacheLags
    <2> QED BY <1>4, <2>1, <2>2, NewCall, QuietStep DEF ReportActionStatusRead
  <1>5. ASSUME NEW a \in Agent, HandlerCommit(a)
        PROVE  HandlerInv'
    <2>1. Answered(call[a]).phase = "done"
      BY DEF Answered, Call
    <2>2. \A d \in Handlers' : d \in Handlers \/ d.phase # "writing"
      BY <1>0, <1>5, <2>1 DEF HandlerCommit, Handlers, TypeOK, CallsOK
    <2> QED BY <1>0, <1>5, <2>2, CommitStep DEF HandlerCommit
  <1>6. ASSUME NEW a \in Agent, HandlerConflict(a)
        PROVE  HandlerInv'
    <2>1. CacheLags' /\ wf' = wf /\ late' = late
      BY <1>0, <1>6 DEF HandlerConflict, CacheLags
    <2> QED BY <1>6, <2>1, NewCallsOK, NewCall, QuietStep DEF HandlerConflict
  <1>7. ASSUME NEW c \in late, LateRead(c) \/ LateConflict(c) \/ LateEnd(c)
        PROVE  HandlerInv'
    <2>1. CacheLags' /\ wf' = wf /\ call' = call
      BY <1>0, <1>7 DEF LateRead, LateConflict, LateEnd, CacheLags
    <2>2. \A d \in late' : d \in late \/ HandlerOK(d)
      BY <1>0, <1>7, ReadOK, NewCallsOK DEF LateRead, LateConflict, LateEnd
    <2>3. \A d \in Handlers' : d \in Handlers \/ HandlerOK(d)
      BY <2>1, <2>2 DEF Handlers
    <2> QED BY <2>1, <2>3, QuietStep
  <1>8. ASSUME NEW c \in late, LateCommit(c)
        PROVE  HandlerInv'
    <2>1. \A d \in Handlers' : d \in Handlers
      BY <1>8 DEF LateCommit, Handlers
    <2> QED BY <1>0, <1>8, <2>1, CommitStep DEF LateCommit
  <1> QED BY <1>1, <1>2, <1>3, <1>4, <1>5, <1>6, <1>7, <1>8 DEF ServerNext

\* So do the agents, whose calls are new or given up.
LEMMA AgentHandlerStep == HandlerInv /\ TypeOK' /\ AgentNext => HandlerInv'
  <1> SUFFICES ASSUME HandlerInv, TypeOK', NEW a \in Agent,
                      \/ AgentRead(a) \/ AgentReadError(a) \/ AgentReceive(a)
                      \/ AgentExecute(a) \/ AgentReported(a)
                      \/ \E st \in {"SUCCESS", "FAILED", "TIMEOUT"} : AgentExecuted(a, st)
                      \/ CallLost(a) \/ AgentCrash(a) \/ AgentRestart(a)
               PROVE  HandlerInv'
    BY DEF AgentNext
  <1>1. wf' = wf /\ scache' = scache
    BY DEF AgentRead, AgentReadError, AgentReceive, AgentExecute, AgentReported,
           AgentExecuted, CallLost, AgentCrash, AgentRestart, serverVars
  <1>2. late' = late \/ late' = late \cup {call[a]}
    BY DEF AgentRead, AgentReadError, AgentReceive, AgentExecute, AgentReported,
           AgentExecuted, CallLost, AgentCrash, AgentRestart, serverVars, Abandon
  <1>3. CacheLags'
    BY <1>1 DEF HandlerInv, CacheLags
  <1>4. (\E d : HandlerOK(d) /\ call' = [call EXCEPT ![a] = d]) \/ (call' = call /\ late' = late)
    BY NewCallsOK DEF AgentRead, AgentReadError, AgentReceive, AgentExecute, AgentReported,
           AgentExecuted, CallLost, AgentCrash, AgentRestart, serverVars
  <1>5. \A c \in Handlers' : c \in Handlers \/ HandlerOK(c)
    BY <1>2, <1>4, NewCall DEF Handlers
  <1> QED BY <1>1, <1>3, <1>5, QuietStep

\* So do the controller's patches, each of which makes a new version.
LEMMA ControllerHandlerStep == HandlerInv /\ TypeOK' /\ ControllerNext => HandlerInv'
  <1> SUFFICES ASSUME HandlerInv, TypeOK', ControllerNext PROVE HandlerInv'
    OBVIOUS
  <1>1. scache' = scache /\ Handlers' = Handlers
    BY DEF ControllerNext, ControllerSync, Resync, ReconcileRunning, ReconcilePost,
           ReconcileNothing, Dequeue, mergePatchStatus, PatchFails, TimerFires,
           DeadlinePasses, ControllerRestart, serverVars, Handlers
  <1>2. CASE wf' = wf
    <2>1. CacheLags'
      BY <1>1, <1>2 DEF HandlerInv, CacheLags
    <2> QED BY <1>1, <1>2, <2>1, QuietStep
  <1>3. ASSUME NEW w \in Workflow, mergePatchStatus(w)
        PROVE  HandlerInv'
    <2>1. wf[w].status \in Status(w) /\ patch[w] \in Patch
      BY DEF HandlerInv, TypeOK, ObjectsOK, Object, ControllerOK
    <2>2. Patched(wf[w].status, patch[w]) \in Status(w)
      BY <2>1, PatchedType
    <2> QED BY <1>1, <1>3, <2>2, WriteStep DEF mergePatchStatus
  <1> QED BY <1>2, <1>3 DEF ControllerNext, ControllerSync, Resync, ReconcileRunning,
             ReconcilePost, ReconcileNothing, Dequeue, PatchFails, TimerFires,
             DeadlinePasses, ControllerRestart

\* Every Update the API server takes from a handler is computed from the
\* status it replaces, also when handlers outlive their clients.
THEOREM HandlersAreAtomic == Spec => []HandlerAtomic
  <1>1. Init => HandlerInv
    <2> SUFFICES ASSUME Init PROVE HandlerInv
      OBVIOUS
    <2>1. CacheLags
      BY DEF Init, CacheLags
    <2>2. \A c \in Handlers : HandlerOK(c)
      BY NewCallsOK DEF Init, Handlers
    <2> QED BY <2>1, <2>2, InitType DEF HandlerInv
  <1>2. HandlerInv /\ [Next]_vars => HandlerInv'
    <2> SUFFICES ASSUME HandlerInv, [Next]_vars PROVE HandlerInv'
      OBVIOUS
    <2>1. TypeOK'
      BY NextTypes DEF HandlerInv
    <2>2. CASE UNCHANGED vars
      <3>1. wf' = wf /\ Handlers' = Handlers /\ CacheLags'
        BY <2>2 DEF vars, Handlers, CacheLags, HandlerInv
      <3> QED BY <2>1, <3>1, QuietStep
    <2> QED BY <2>1, <2>2, ServerStep, AgentHandlerStep, ControllerHandlerStep DEF Next
  <1>3. HandlerInv => HandlerAtomic
    BY DEF HandlerInv, HandlerOK, HandlerAtomic, Handlers
  <1> QED BY <1>1, <1>2, <1>3, PTL DEF Spec

----------------------------------------------------------------------------
(* What the operators of the handlers and of the reconciler do to StatusInv *)

\* Action k is the one to execute next or now.
Frontier(w, s, k) ==
    /\ s.action[k].state \in {"PENDING", "RUNNING"}
    /\ \A i \in Actions(w) : i < k => s.action[i].state = "SUCCESS"
    /\ \A j \in Actions(w) : k < j => s.action[j].state = "PENDING"

\* The types of the parts of a status.
LEMMA StatusFields ==
    ASSUME NEW w \in Workflow, NEW s \in Status(w)
    PROVE  /\ \A k \in Actions(w) : s.action[k].state \in ActionState
           /\ s.currentState.actionID \in Nat
           /\ s.currentState.actionID # 0 => s.currentState.actionID \in Actions(w)
           /\ s.currentState.actionID = 0 => s.currentState.state = None
  BY TemplateFacts DEF Status, NoCurrentState

\* GetAction serves only the Action at the frontier, and to its worker.
LEMMA ServesFrontier ==
    ASSUME NEW w \in Workflow, NEW s \in Status(w), StatusInv(w, s),
           NEW a \in Agent, NEW k \in Actions(w), Serves(w, s, a, k)
    PROVE  Worker[w][TaskOf[w][k]] = a /\ Frontier(w, s, k)
  <1>1. PICK t \in Tasks(w) :
          PicksTask(w, s, t) /\ resolveAction(w, s, t, k) /\ Worker[w][t] = a
    BY DEF Serves
  <1>2. TaskOf[w][k] = t /\ k \in Nat \ {0} /\ t \in Nat \ {0}
    BY <1>1, TemplateFacts DEF resolveAction
  <1>3. ASSUME s.action[k].state \in {"PENDING", "RUNNING"}
        PROVE  \A j \in Actions(w) : k < j => s.action[j].state = "PENDING"
    BY <1>3 DEF StatusInv
  <1>4. CASE isFirstAction(w, s, t)
    <2>1. PICK f \in Actions(w) :
            TaskOf[w][f] = t /\ IsFirst(w, f) /\ s.action[f].state = "PENDING"
      BY <1>4 DEF isFirstAction
    <2>2. f = k
      BY <1>1, <1>2, <1>4, <2>1, TemplateFacts DEF resolveAction, IsFirst
    <2>3. ASSUME NEW i \in Actions(w), i < k
          PROVE  s.action[i].state = "SUCCESS"
      <3>1. TaskOf[w][i] < t /\ TaskOf[w][i] \in Nat \ {0} /\ k - 1 \in Actions(w)
        BY <2>1, <2>2, <2>3, TemplateFacts DEF IsFirst
      <3>2. ~isFirstAction(w, s, 1)
        BY <1>1, <3>1 DEF PicksTask
      <3>3. TaskOf[w][k - 1] < t /\ TaskOf[w][k - 1] \in Tasks(w)
        BY <1>2, <2>1, <2>2, <3>1, TemplateFacts DEF IsFirst
      <3>4. isTaskSuccessful(w, s, TaskOf[w][k - 1])
        BY <1>1, <3>2, <3>3 DEF PicksTask
      <3>5. IsLast(w, k - 1)
        <4> SUFFICES ASSUME NEW j \in Actions(w), k - 1 < j
                     PROVE  TaskOf[w][k - 1] < TaskOf[w][j]
          BY DEF IsLast
        <4>3. j \in Nat
          BY TemplateFacts
        <4>4. k <= j
          BY <1>2, <4>3
        <4>1. k <= j /\ TaskOf[w][k] <= TaskOf[w][j]
          BY <4>4, TemplateFacts
        <4>2. TaskOf[w][j] \in Nat /\ TaskOf[w][k - 1] \in Nat
          BY <3>1, TemplateFacts
        <4> QED BY <1>2, <3>3, <4>1, <4>2
      <3>6. s.action[k - 1].state = "SUCCESS"
        BY <3>1, <3>4, <3>5 DEF isTaskSuccessful
      <3>7. i = k - 1 \/ i < k - 1
        BY <1>2, <2>3, TemplateFacts
      <3> QED BY <3>1, <3>6, <3>7 DEF StatusInv
    <2> QED BY <1>1, <1>2, <1>3, <2>1, <2>2, <2>3 DEF Frontier
  <1>5. CASE ~isFirstAction(w, s, t) /\ s.currentState.state \in {"PENDING", "RUNNING"}
    <2>1. k = s.currentState.actionID /\ k # 0
      BY <1>1, <1>2, <1>5 DEF resolveAction
    <2>2. s.action[k].state \in {"PENDING", "RUNNING"}
      BY <1>5, <2>1 DEF StatusInv
    <2>3. \A i \in Actions(w) : i < k => s.action[i].state = "SUCCESS"
      BY <2>1 DEF StatusInv
    <2> QED BY <1>1, <1>2, <1>3, <2>2, <2>3 DEF Frontier
  <1>6. CASE ~isFirstAction(w, s, t) /\ s.currentState.state \notin {"PENDING", "RUNNING"}
    <2> DEFINE h == s.currentState.actionID
    <2>1. /\ s.currentState.state = "SUCCESS"
          /\ k = h + 1 /\ TaskOf[w][h] = t
      BY <1>1, <1>6 DEF resolveAction
    <2>2. h # 0 /\ h \in Actions(w) /\ h \in Nat
      BY <2>1, StatusFields, NoneAssumption
    <2>3. s.action[h].state = "SUCCESS"
      BY <2>1, <2>2 DEF StatusInv
    <2>4. s.action[k].state = "PENDING"
      BY <1>2, <2>1, <2>2, <2>3 DEF StatusInv
    <2>5. ASSUME NEW i \in Actions(w), i < k
          PROVE  s.action[i].state = "SUCCESS"
      <3>1. i = h \/ i < h
        BY <2>1, <2>2, <2>5, TemplateFacts
      <3> QED BY <2>2, <2>3, <3>1 DEF StatusInv
    <2> QED BY <1>1, <1>2, <1>3, <2>4, <2>5 DEF Frontier
  <1> QED BY <1>4, <1>5, <1>6

\* What GetAction writes.
LEMMA ServeStatusInv ==
    ASSUME NEW w \in Workflow, NEW s \in Status(w), StatusInv(w, s),
           NEW k \in Actions(w), Frontier(w, s, k)
    PROVE  /\ StatusInv(w, ServeStatus(s, k))
           /\ ServeStatus(s, k).action = s.action
  <1> DEFINE n == ServeStatus(s, k)
  <1>1. /\ n.state = s.state /\ n.action = s.action
        /\ n.currentState.actionID = k /\ n.currentState.state = s.action[k].state
    BY DEF ServeStatus, Status
  <1> HIDE DEF n
  <1>2. StatusInv(w, n)
    BY <1>1 DEF StatusInv, Frontier
  <1> QED BY <1>1, <1>2 DEF n

\* What ReportActionStatus writes.
LEMMA ReportStatusFields ==
    ASSUME NEW w \in Workflow, NEW s \in Status(w), NEW k \in Actions(w), NEW st \in ActionState
    PROVE  LET n == ReportStatus(w, s, k, st)
           IN  /\ n.action[k].state = st
               /\ \A i \in Actions(w) : i # k => n.action[i].state = s.action[i].state
               /\ n.currentState.actionID = k /\ n.currentState.state = st
               /\ n.state \in {"POST", "SUCCESS"} =>
                     /\ st = "SUCCESS"
                     /\ \/ n.state = s.state
                        \/ TaskOf[w][k] = Len(Worker[w]) /\ IsLast(w, k)
  <1> DEFINE n == ReportStatus(w, s, k, st)
  <1>1. /\ n.action = [s.action EXCEPT ![k] = [state |-> st, executionStart |-> st # "RUNNING"]]
        /\ n.currentState = [actionID |-> k, state |-> st]
        /\ n.state = IF st # "SUCCESS" THEN st
                     ELSE IF TaskOf[w][k] = Len(Worker[w]) /\ IsLast(w, k) THEN "POST"
                     ELSE s.state
    BY DEF ReportStatus, Status
  <1> HIDE DEF n
  <1>2. s.action \in [Actions(w) -> [state: ActionState, executionStart: BOOLEAN]]
    BY DEF Status
  <1>3. /\ n.action[k].state = st
        /\ \A i \in Actions(w) : i # k => n.action[i].state = s.action[i].state
    BY <1>1, <1>2
  <1>4. n.currentState.actionID = k /\ n.currentState.state = st
    BY <1>1
  <1>5. n.state \in {"POST", "SUCCESS"} =>
           /\ st = "SUCCESS"
           /\ \/ n.state = s.state
              \/ TaskOf[w][k] = Len(Worker[w]) /\ IsLast(w, k)
    BY <1>1 DEF ActionState
  <1> QED BY <1>3, <1>4, <1>5 DEF n

\* The RUNNING report of the Action at the frontier.
LEMMA ReportRunningInv ==
    ASSUME NEW w \in Workflow, NEW s \in Status(w), StatusInv(w, s),
           NEW k \in Actions(w), Frontier(w, s, k)
    PROVE  StatusInv(w, ReportStatus(w, s, k, "RUNNING"))
  <1> DEFINE n == ReportStatus(w, s, k, "RUNNING")
  <1>1. /\ n.action[k].state = "RUNNING"
        /\ \A i \in Actions(w) : i # k => n.action[i].state = s.action[i].state
        /\ n.currentState.actionID = k /\ n.currentState.state = "RUNNING"
        /\ n.state \notin {"POST", "SUCCESS"}
    BY ReportStatusFields DEF ActionState
  <1> HIDE DEF n
  <1>2. \A i \in Actions(w) : i \in Nat
    BY TemplateFacts
  <1>3. StatusInv(w, n)
    BY <1>1, <1>2 DEF StatusInv, Frontier
  <1> QED BY <1>3 DEF n

\* The final report of an Action, sent for the first time or repeated.
LEMMA ReportEndInv ==
    ASSUME NEW w \in Workflow, NEW s \in Status(w), StatusInv(w, s), NEW k \in Actions(w),
           NEW st \in {"SUCCESS", "FAILED", "TIMEOUT"},
           s.action[k].state \in {"RUNNING", st},
           \A i \in Actions(w) : i < k => s.action[i].state = "SUCCESS",
           \A j \in Actions(w) :
               k < j /\ Worker[w][TaskOf[w][j]] = Worker[w][TaskOf[w][k]] =>
                   s.action[j].state = "PENDING"
    PROVE  StatusInv(w, ReportStatus(w, s, k, st))
  <1> DEFINE n == ReportStatus(w, s, k, st)
  <1>1. /\ n.action[k].state = st
        /\ \A i \in Actions(w) : i # k => n.action[i].state = s.action[i].state
        /\ n.currentState.actionID = k /\ n.currentState.state = st
        /\ n.state \in {"POST", "SUCCESS"} =>
              /\ st = "SUCCESS"
              /\ \/ n.state = s.state
                 \/ TaskOf[w][k] = Len(Worker[w]) /\ IsLast(w, k)
    BY ReportStatusFields DEF ActionState
  <1> HIDE DEF n
  <1>2. \A i \in Actions(w) : i \in Nat /\ TaskOf[w][i] \in Nat /\ TaskOf[w][i] <= Len(Worker[w])
    BY TemplateFacts
  <1>3. ASSUME NEW i \in Actions(w), NEW j \in Actions(w), i < j, n.action[j].state # "PENDING"
        PROVE  n.action[i].state = "SUCCESS"
    <2>1. CASE i = k
      <3>1. s.action[j].state # "PENDING"
        BY <1>1, <1>2, <1>3, <2>1
      <3> QED BY <1>1, <1>3, <2>1, <3>1 DEF StatusInv
    <2>2. CASE i # k /\ j = k
      BY <1>1, <1>3, <2>2
    <2>3. CASE i # k /\ j # k
      BY <1>1, <1>3, <2>3 DEF StatusInv
    <2> QED BY <2>1, <2>2, <2>3
  <1>4. ASSUME n.state \in {"POST", "SUCCESS"}, NEW i \in Actions(w)
        PROVE  n.action[i].state = "SUCCESS"
    <2>1. CASE n.state = s.state
      BY <1>1, <1>4, <2>1 DEF StatusInv
    <2>2. CASE TaskOf[w][k] = Len(Worker[w]) /\ IsLast(w, k)
      <3>1. ~(k < i)
        BY <1>2, <2>2, TemplateFacts DEF IsLast
      <3>2. i = k \/ i < k
        BY <1>2, <3>1
      <3> QED BY <1>1, <1>2, <1>4, <3>2
    <2> QED BY <1>1, <1>4, <2>1, <2>2
  <1>5. \A i \in Actions(w) : i < k => n.action[i].state = "SUCCESS"
    BY <1>1, <1>2
  <1>6. ASSUME NEW j \in Actions(w), j = k + 1, TaskOf[w][j] = TaskOf[w][k]
        PROVE  n.action[j].state = "PENDING"
    <2>3. k \in Nat
      BY <1>2
    <2>1. k < j /\ j # k
      BY <1>6, <2>3
    <2>2. s.action[j].state = "PENDING"
      BY <1>6, <2>1
    <2> QED BY <1>1, <2>1, <2>2
  <1>7. StatusInv(w, n)
    BY <1>1, <1>3, <1>4, <1>5, <1>6 DEF StatusInv
  <1> QED BY <1>7 DEF n

\* What the controller's merge patch makes of a status.
LEMMA PatchedInv ==
    ASSUME NEW w \in Workflow, NEW s \in Status(w), StatusInv(w, s), NEW p \in Patch,
           p.state \in {None, "TIMEOUT", "SUCCESS"},
           p.state = "SUCCESS" => \A k \in Actions(w) : s.action[k].state = "SUCCESS"
    PROVE  StatusInv(w, Patched(s, p)) /\ Patched(s, p).action = s.action
  <1> DEFINE n == Patched(s, p)
  <1>1. /\ n.action = s.action /\ n.currentState = s.currentState
        /\ n.state \in {s.state, "TIMEOUT", "SUCCESS"}
        /\ n.state = "SUCCESS" => n.state = s.state \/ p.state = "SUCCESS"
        /\ n.state = "POST" => s.state = "POST"
    BY DEF Patched, Status
  <1> HIDE DEF n
  <1>2. StatusInv(w, n)
    BY <1>1 DEF StatusInv
  <1> QED BY <1>1, <1>2 DEF n

\* A write moves the resourceVersion if and only if it changes the object.
LEMMA WrittenFacts ==
    ASSUME NEW w \in Workflow, NEW o \in Object(w), NEW s \in Status(w)
    PROVE  /\ Written(o, s).status = s
           /\ Written(o, s).rv \in Nat /\ Written(o, s).rv >= o.rv
           /\ Written(o, s) = o \/ Written(o, s).rv = o.rv + 1
  BY DEF Written, Object

----------------------------------------------------------------------------
(* What a step leaves alone *)

\* A step that leaves the object, its copies and its patch alone keeps CacheOK.
LEMMA CacheFrame ==
    ASSUME NEW w \in Workflow, CacheOK(w), wf'[w] = wf[w], scache'[w] = scache[w],
           ccache'[w] = ccache[w], patch'[w] = patch[w]
    PROVE  CacheOK(w)'
  <1>1. StatusInv(w, wf[w].status)' /\ StatusInv(w, ccache[w].status)'
    <2>1. StatusInv(w, wf'[w].status) /\ StatusInv(w, ccache'[w].status)
      BY DEF CacheOK
    <2> QED BY <2>1 DEF StatusInv
  <1>2. \A k \in Actions(w) : StateOf(w, k)' = StateOf(w, k)
    BY DEF StateOf
  <1> QED BY <1>1, <1>2 DEF CacheOK

\* A step that leaves the objects and an agent's part alone keeps AgentOK.
LEMMA AgentFrame ==
    ASSUME NEW a \in Agent, AgentOK(a), Atomic(call[a]), wf' = wf, pc'[a] = pc[a],
           job'[a] = job[a], result'[a] = result[a], call'[a] = call[a]
    PROVE  AgentOK(a)' /\ Atomic(call[a])'
  <1>1. AgentOK(a)'
    BY ZenonT(60) DEF AgentOK, Holds, Reports, StateOf
  <1>2. Atomic(call[a])'
    BY DEF Atomic, CanCommit
  <1> QED BY <1>1, <1>2

\* A step of agent a, or of the handler it waits for, that writes nothing.
LEMMA AgentStep ==
    ASSUME IInv, TypeOK', NEW a \in Agent,
           UNCHANGED <<wf, scache, ccache, patch, late>>,
           \A b \in Agent \ {a} : /\ pc'[b] = pc[b] /\ job'[b] = job[b]
                                  /\ result'[b] = result[b] /\ call'[b] = call[b],
           AgentOK(a)', Atomic(call[a])'
    PROVE  IInv'
  <1>1. \A w \in Workflow : CacheOK(w)'
    BY CacheFrame DEF IInv
  <1>2. ASSUME NEW b \in Agent
        PROVE  AgentOK(b)' /\ Atomic(call[b])'
    <2>1. AgentOK(b) /\ Atomic(call[b])
      BY DEF IInv, HandlerAtomic
    <2> QED BY <2>1, AgentFrame
  <1>3. HandlerAtomic'
    BY <1>2 DEF HandlerAtomic, IInv
  <1> QED BY <1>1, <1>2, <1>3 DEF IInv

\* A step of the controller that writes nothing.
LEMMA ControllerStep ==
    ASSUME IInv, TypeOK', UNCHANGED <<wf, agentVars, call, late>>,
           \A w \in Workflow : CacheOK(w)'
    PROVE  IInv'
  <1>1. ASSUME NEW b \in Agent
        PROVE  AgentOK(b)' /\ Atomic(call[b])'
    <2>1. AgentOK(b) /\ Atomic(call[b])
      BY DEF IInv, HandlerAtomic
    <2> QED BY <2>1, AgentFrame DEF agentVars
  <1>2. HandlerAtomic'
    BY <1>1 DEF HandlerAtomic, IInv
  <1> QED BY <1>1, <1>2 DEF IInv

----------------------------------------------------------------------------
(* The steps of a handler that write nothing *)

\* An agent that is not writing cannot commit.
LEMMA NotWriting == \A c : c.phase # "writing" => Atomic(c)
  BY DEF Atomic, CanCommit

\* The read of GetAction computes an Update and writes nothing.
LEMMA GetActionReadInv ==
    ASSUME IInv, TypeOK', NEW a \in Agent, GetActionRead(a)
    PROVE  IInv'
  <1>1. PICK w \in Workflow : \E k \in Actions(w) :
          /\ CanServe(call[a], w, k)
          /\ call' = [call EXCEPT ![a] = Serving(call[a], w, k)]
    BY DEF GetActionRead
  <1>2. PICK k \in Actions(w) :
          /\ CanServe(call[a], w, k)
          /\ call' = [call EXCEPT ![a] = Serving(call[a], w, k)]
    BY <1>1
  <1>3. /\ UNCHANGED <<wf, scache, ccache, patch, late, pc, job, result>>
        /\ DOMAIN call = Agent /\ AgentOK(a) /\ CacheOK(w)
    BY DEF GetActionRead, serverVars, agentVars, controllerVars, IInv, TypeOK, CallsOK
  <1>4. pc[a] = "reading" /\ call[a].agent = a
    <2>1. call[a].op = "get" /\ call[a] # NoCall
      BY <1>2 DEF CanServe, NoCall, Call
    <2>2. pc[a] \in {"down", "ready", "reading", "announcing", "executing", "reporting"}
      BY DEF IInv, TypeOK, AgentsOK
    <2> QED BY <1>3, <2>1, <2>2 DEF AgentOK, Reports
  <1>5. call'[a] = Serving(call[a], w, k)
    BY <1>2, <1>3
  <1>6. /\ call'[a].op = "get" /\ call'[a].agent = a /\ call'[a].phase = "writing"
        /\ call'[a].w = w /\ call'[a].id = k /\ call'[a].upd.rv = scache[w].rv
        /\ call'[a].upd.status = ServeStatus(scache[w].status, k)
    BY <1>4, <1>5 DEF Serving, Call
  <1>7. AgentOK(a)'
    BY <1>3, <1>4, <1>6 DEF AgentOK, CacheOK
  <1>8. Atomic(call[a])'
    <2> SUFFICES ASSUME scache[w].rv = wf[w].rv
                 PROVE  /\ Serves(w, wf[w].status, a, k)
                        /\ ServeStatus(scache[w].status, k) = ServeStatus(wf[w].status, k)
      BY <1>3, <1>6 DEF Atomic, CanCommit
    <2>1. scache[w] = wf[w]
      BY <1>3 DEF CacheOK
    <2> QED BY <1>2, <1>4, <2>1 DEF CanServe
  <1> QED BY <1>2, <1>3, <1>7, <1>8, AgentStep

\* A refused GetAction changes only the call.
LEMMA GetActionErrorInv ==
    ASSUME IInv, TypeOK', NEW a \in Agent, GetActionError(a)
    PROVE  IInv'
  <1>1. /\ UNCHANGED <<wf, scache, ccache, patch, late, pc, job, result>>
        /\ call' = [call EXCEPT ![a] = Refused(a)]
        /\ DOMAIN call = Agent /\ AgentOK(a)
    BY DEF GetActionError, serverVars, agentVars, controllerVars, IInv, TypeOK, CallsOK
  <1>2. pc[a] = "reading"
    <2>1. call[a].op = "get" /\ call[a] # NoCall
      BY DEF GetActionError, NothingToServe, NoCall, Call
    <2>2. pc[a] \in {"down", "ready", "reading", "announcing", "executing", "reporting"}
      BY DEF IInv, TypeOK, AgentsOK
    <2> QED BY <1>1, <2>1, <2>2 DEF AgentOK, Reports
  <1>3. call'[a].op = "get" /\ call'[a].agent = a /\ call'[a].phase = "failed"
    BY <1>1 DEF Refused, Call
  <1>4. AgentOK(a)'
    BY <1>1, <1>2, <1>3 DEF AgentOK
  <1>5. Atomic(call[a])'
    BY <1>3 DEF Atomic, CanCommit
  <1> QED BY <1>1, <1>4, <1>5, AgentStep

\* A report is on its way only from an agent that holds its Action.
LEMMA ReportingAgent ==
    ASSUME IInv, NEW a \in Agent, call[a].op = "report"
    PROVE  /\ pc[a] \in {"announcing", "reporting"}
           /\ Reports(a, call[a], job[a].w, job[a].id,
                      IF pc[a] = "announcing" THEN "RUNNING" ELSE result[a])
  <1>1. call[a] # NoCall /\ AgentOK(a)
    BY DEF IInv, NoCall, Call
  <1>2. pc[a] \in {"down", "ready", "reading", "announcing", "executing", "reporting"}
    BY DEF IInv, TypeOK, AgentsOK
  <1> QED BY <1>1, <1>2 DEF AgentOK

\* The report an agent waits for is replaced by one at another stage.
LEMMA ReportStep ==
    ASSUME IInv, TypeOK', NEW a \in Agent, call[a].op = "report", NEW c,
           UNCHANGED <<wf, scache, ccache, patch, late, pc, job, result>>,
           call' = [call EXCEPT ![a] = c],
           c.op = "report", c.agent = call[a].agent, c.w = call[a].w, c.id = call[a].id,
           c.state = call[a].state, c.phase # "done",
           c.phase = "writing" =>
               /\ c.upd.rv = scache[c.w].rv
               /\ c.upd.status = ReportStatus(c.w, scache[c.w].status, c.id, c.state)
    PROVE  IInv'
  <1>1. DOMAIN call = Agent /\ AgentOK(a) /\ IsCall(call[a])
    BY DEF IInv, TypeOK, CallsOK
  <1>2. call'[a] = c
    BY <1>1
  <1>3. c.w \in Workflow /\ CacheOK(c.w)
    BY <1>1, CallFields DEF IInv
  <1>4. AgentOK(a)'
    <2>1. pc[a] \in {"announcing", "reporting"}
      BY ReportingAgent
    <2>2. c.phase = "writing" => c.upd.rv <= wf[c.w].rv
      BY <1>3 DEF CacheOK
    <2>3. CASE pc[a] = "announcing"
      BY <1>1, <1>2, <2>2, <2>3 DEF AgentOK, Reports, Holds, StateOf
    <2>4. CASE pc[a] = "reporting"
      BY <1>1, <1>2, <2>2, <2>4 DEF AgentOK, Reports, Holds, StateOf
    <2> QED BY <2>1, <2>3, <2>4
  <1>5. Atomic(call[a])'
    BY <1>2, <1>3 DEF Atomic, CanCommit, CacheOK
  <1> QED BY <1>1, <1>4, <1>5, AgentStep

\* The read of ReportActionStatus computes an Update and writes nothing.
LEMMA ReportActionStatusReadInv ==
    ASSUME IInv, TypeOK', NEW a \in Agent, ReportActionStatusRead(a)
    PROVE  IInv'
  <1>1. /\ UNCHANGED <<wf, scache, ccache, patch, late, pc, job, result>>
        /\ call[a].op = "report" /\ call' = [call EXCEPT ![a] = Reporting(call[a])]
    BY DEF ReportActionStatusRead, CanReport, serverVars, agentVars, controllerVars
  <1>2. PICK d : d = Reporting(call[a])
    OBVIOUS
  <1>3. /\ d.op = "report" /\ d.agent = call[a].agent /\ d.w = call[a].w /\ d.id = call[a].id
        /\ d.state = call[a].state /\ d.phase = "writing" /\ d.upd.rv = scache[d.w].rv
        /\ d.upd.status = ReportStatus(d.w, scache[d.w].status, d.id, d.state)
    BY <1>2 DEF Reporting, Call
  <1> QED BY <1>1, <1>2, <1>3, ReportStep

\* After a conflict the handler starts over from the cache.
LEMMA HandlerConflictInv ==
    ASSUME IInv, TypeOK', NEW a \in Agent, HandlerConflict(a)
    PROVE  IInv'
  <1>1. /\ UNCHANGED <<wf, scache, ccache, patch, late, pc, job, result>>
        /\ call[a].phase = "writing" /\ call' = [call EXCEPT ![a] = Retried(call[a])]
        /\ DOMAIN call = Agent /\ AgentOK(a) /\ IsCall(call[a])
    BY DEF HandlerConflict, Conflicts, serverVars, agentVars, controllerVars,
           IInv, TypeOK, CallsOK
  <1>2. CASE call[a].op = "report"
    <2>1. PICK d : d = Retried(call[a])
      OBVIOUS
    <2>2. /\ d.op = "report" /\ d.agent = call[a].agent /\ d.w = call[a].w /\ d.id = call[a].id
          /\ d.state = call[a].state /\ d.phase = "sent"
      BY <1>2, <2>1 DEF Retried, ReportCall, Call
    <2> QED BY <1>1, <1>2, <2>1, <2>2, ReportStep
  <1>3. CASE call[a].op = "get"
    <2>1. pc[a] = "reading" /\ call[a].agent = a
      <3>1. call[a] # NoCall
        BY <1>3 DEF NoCall, Call
      <3>2. pc[a] \in {"down", "ready", "reading", "announcing", "executing", "reporting"}
        BY DEF IInv, TypeOK, AgentsOK
      <3> QED BY <1>1, <1>3, <3>1, <3>2 DEF AgentOK, Reports
    <2>2. call'[a].op = "get" /\ call'[a].agent = a /\ call'[a].phase = "sent"
      BY <1>1, <1>3, <2>1 DEF Retried, GetCall, Call
    <2>3. AgentOK(a)'
      BY <1>1, <2>1, <2>2 DEF AgentOK
    <2>4. Atomic(call[a])'
      BY <2>2 DEF Atomic, CanCommit
    <2> QED BY <1>1, <2>3, <2>4, AgentStep
  <1> QED BY <1>1, <1>2, <1>3, CallFields

----------------------------------------------------------------------------
(* Writes: only HandlerCommit and mergePatchStatus change an object *)

\* A new status n for w reaches the API server.
Writes(w, n) == wf' = [wf EXCEPT ![w] = Written(wf[w], n)]

\* A write changes one object, and its version if it changes anything.
LEMMA WriteFacts ==
    ASSUME IInv, NEW w \in Workflow, NEW n \in Status(w), Writes(w, n)
    PROVE  /\ wf'[w].status = n
           /\ \A v \in Workflow :
                 /\ v # w => wf'[v] = wf[v]
                 /\ wf'[v] = wf[v] \/ wf'[v].rv = wf[v].rv + 1
                 /\ wf[v].rv \in Nat /\ scache[v].rv \in Nat
  <1>1. /\ DOMAIN wf = Workflow
        /\ \A v \in Workflow : wf[v] \in Object(v) /\ scache[v] \in Object(v)
    BY DEF IInv, TypeOK, ObjectsOK
  <1>2. wf'[w] = Written(wf[w], n) /\ \A v \in Workflow : v # w => wf'[v] = wf[v]
    BY <1>1 DEF Writes
  <1>3. \A v \in Workflow : wf[v].rv \in Nat /\ scache[v].rv \in Nat
    BY <1>1 DEF Object
  <1> QED BY <1>1, <1>2, <1>3, WrittenFacts

\* Any other handler's Update is out of date once the object has changed.
LEMMA WriteAtomic ==
    ASSUME IInv, NEW w \in Workflow, NEW n \in Status(w), Writes(w, n),
           NEW b \in Agent, call'[b] = call[b]
    PROVE  /\ Atomic(call[b])'
           /\ call[b].phase = "writing" => call[b].upd.rv <= wf'[call[b].w].rv
  <1>1. AgentOK(b) /\ Atomic(call[b]) /\ IsCall(call[b])
    BY DEF IInv, HandlerAtomic, TypeOK, CallsOK
  <1>2. CASE call[b].phase # "writing"
    BY <1>2 DEF Atomic, CanCommit
  <1>3. CASE call[b].phase = "writing"
    <2>1. call[b].w \in Workflow /\ call[b].upd \in Object(call[b].w)
      BY <1>1, <1>3, CallFields
    <2>2. call[b].upd.rv \in Nat /\ call[b].upd.rv <= wf[call[b].w].rv
      BY <1>1, <1>3, <2>1 DEF AgentOK, Object
    <2>3. \/ wf'[call[b].w] = wf[call[b].w]
          \/ wf'[call[b].w].rv = wf[call[b].w].rv + 1 /\ wf[call[b].w].rv \in Nat
      BY <2>1, WriteFacts
    <2>4. CASE wf'[call[b].w] = wf[call[b].w]
      BY <1>1, <2>2, <2>4 DEF Atomic, CanCommit
    <2>5. CASE wf'[call[b].w].rv = wf[call[b].w].rv + 1 /\ wf[call[b].w].rv \in Nat
      BY <2>2, <2>5 DEF Atomic, CanCommit
    <2> QED BY <2>3, <2>4, <2>5
  <1> QED BY <1>2, <1>3

\* The caches stay behind; no success that they know of is taken back.
LEMMA WriteCache ==
    ASSUME IInv, NEW w \in Workflow, NEW n \in Status(w), Writes(w, n), StatusInv(w, n),
           UNCHANGED <<scache, ccache>>,
           \A v \in Workflow : patch'[v] = patch[v] \/ patch'[v] = NoPatch,
           \A k \in Actions(w) : StateOf(w, k) = "SUCCESS" => n.action[k].state = "SUCCESS"
    PROVE  \A v \in Workflow : CacheOK(v)'
  <1> SUFFICES ASSUME NEW v \in Workflow PROVE CacheOK(v)'
    OBVIOUS
  <1>1. CacheOK(v)
    BY DEF IInv
  <1>2. StatusInv(v, wf'[v].status)
    BY <1>1, WriteFacts DEF CacheOK
  <1>3. \A k \in Actions(v) : StateOf(v, k) = "SUCCESS" => StateOf(v, k)' = "SUCCESS"
    BY WriteFacts DEF StateOf
  <1>4. scache[v].rv <= wf'[v].rv /\ (scache[v].rv = wf'[v].rv => scache[v] = wf'[v])
    BY <1>1, WriteFacts DEF CacheOK
  <1>5. /\ patch'[v].state \in {None, "TIMEOUT", "SUCCESS"}
        /\ patch'[v].state = "SUCCESS" => patch[v].state = "SUCCESS"
    BY <1>1, NoneAssumption DEF CacheOK, NoPatch
  <1> QED BY <1>1, <1>2, <1>3, <1>4, <1>5 DEF CacheOK

\* Whatever Action agent b may hold keeps the state it is in.
Undisturbed(b) ==
    \A v \in Workflow : \A k \in Actions(v) :
        /\ Worker[v][TaskOf[v][k]] = b
        /\ \A i \in Actions(v) : i < k => StateOf(v, i) = "SUCCESS"
        => /\ StateOf(v, k)' = StateOf(v, k)
           /\ \A i \in Actions(v) : i < k => StateOf(v, i)' = "SUCCESS"
           /\ \A j \in Actions(v) : k < j /\ Worker[v][TaskOf[v][j]] = b =>
                 StateOf(v, j)' = StateOf(v, j)

\* An accepted Update leaves every agent holding what it held.
LEMMA WriteAgent ==
    ASSUME IInv, NEW b \in Agent, Undisturbed(b), pc'[b] = pc[b], job'[b] = job[b],
           result'[b] = result[b], call'[b] = call[b],
           call[b].phase = "writing" => call[b].upd.rv <= wf'[call[b].w].rv
    PROVE  AgentOK(b)'
  <1>1. AgentOK(b) /\ IsCall(call[b])
    BY DEF IInv, TypeOK, CallsOK
  <1>2. pc[b] \in {"down", "ready", "reading", "announcing", "executing", "reporting"}
    BY DEF IInv, TypeOK, AgentsOK
  <1>4. CASE pc[b] \in {"down", "ready"}
    BY <1>1, <1>4 DEF AgentOK
  <1>5. CASE pc[b] = "reading"
    <2>1. call[b].phase = "done" => call[b].w \in Workflow /\ call[b].id \in Actions(call[b].w)
      BY <1>1, CallFields
    <2>2. call[b].phase = "done" => Holds(b, call[b].w, call[b].id, {"PENDING", "RUNNING"})'
      BY <1>1, <1>5, <2>1 DEF AgentOK, Holds, Undisturbed
    <2> QED BY <1>1, <1>5, <2>2 DEF AgentOK
  <1>6. CASE pc[b] \in {"announcing", "executing", "reporting"}
    <2>1. job[b].w \in Workflow /\ job[b].id \in Actions(job[b].w)
      BY <1>6, JobFields DEF IInv, TypeOK
    <2>2. CASE pc[b] = "announcing"
      <3>1. Holds(b, job[b].w, job[b].id,
                  IF call[b].phase = "done" THEN {"RUNNING"} ELSE {"PENDING", "RUNNING"})'
        BY <1>1, <2>1, <2>2 DEF AgentOK, Holds, Undisturbed
      <3> QED BY <1>1, <2>2, <3>1 DEF AgentOK, Reports
    <2>3. CASE pc[b] = "executing"
      <3>1. Holds(b, job[b].w, job[b].id, {"RUNNING"})'
        BY <1>1, <2>1, <2>3 DEF AgentOK, Holds, Undisturbed
      <3> QED BY <1>1, <2>3, <3>1 DEF AgentOK
    <2>4. CASE pc[b] = "reporting"
      <3>1. Holds(b, job[b].w, job[b].id, {"RUNNING", result[b]})'
        BY <1>1, <2>1, <2>4 DEF AgentOK, Holds, Undisturbed
      <3> QED BY <1>1, <2>4, <3>1 DEF AgentOK, Reports
    <2> QED BY <1>6, <2>2, <2>3, <2>4
  <1> QED BY <1>2, <1>4, <1>5, <1>6

\* What the Update that agent a's handler commits does to the Actions.
LEMMA CommitFacts ==
    ASSUME IInv, NEW a \in Agent, HandlerCommit(a)
    PROVE  LET c == call[a]  w == call[a].w  k == call[a].id  n == call[a].upd.status
           IN  /\ w \in Workflow /\ k \in Actions(w) /\ n \in Status(w)
               /\ Writes(w, n) /\ StatusInv(w, n)
               /\ Worker[w][TaskOf[w][k]] = a
               /\ \A i \in Actions(w) : i < k => StateOf(w, i) = "SUCCESS"
               /\ \A j \in Actions(w) :
                     k < j /\ Worker[w][TaskOf[w][j]] = a => StateOf(w, j) = "PENDING"
               /\ \A i \in Actions(w) : i # k => n.action[i].state = StateOf(w, i)
               /\ \/ /\ pc[a] = "reading" /\ c.op = "get" /\ c.agent = a
                     /\ StateOf(w, k) \in {"PENDING", "RUNNING"}
                     /\ n.action[k].state = StateOf(w, k)
                  \/ /\ pc[a] = "announcing" /\ Reports(a, c, job[a].w, job[a].id, "RUNNING")
                     /\ StateOf(w, k) \in {"PENDING", "RUNNING"}
                     /\ n.action[k].state = "RUNNING"
                  \/ /\ pc[a] = "reporting" /\ Reports(a, c, job[a].w, job[a].id, result[a])
                     /\ result[a] \in {"SUCCESS", "FAILED", "TIMEOUT"}
                     /\ StateOf(w, k) \in {"RUNNING", result[a]}
                     /\ n.action[k].state = result[a]
  <1> DEFINE c == call[a]
             w == call[a].w
             k == call[a].id
             n == call[a].upd.status
             s == wf[w].status
  <1>1. CanCommit(c) /\ c.phase = "writing" /\ IsCall(c) /\ Atomic(c) /\ AgentOK(a)
    BY DEF HandlerCommit, CanCommit, IInv, TypeOK, CallsOK, HandlerAtomic
  <1>2. /\ c.op \in {"get", "report"} /\ c.agent \in Agent
        /\ w \in Workflow /\ k \in Actions(w) /\ c.upd \in Object(w)
    BY <1>1, CallFields
  <1>3. n \in Status(w) /\ s \in Status(w) /\ StatusInv(w, s)
    BY <1>2 DEF IInv, TypeOK, ObjectsOK, Object, CacheOK
  <1>4. Writes(w, n)
    BY DEF HandlerCommit, UpdateWorkflow, Writes
  <1>5. CASE c.op = "get"
    <2>1. pc[a] = "reading" /\ c.agent = a
      <3>1. c # NoCall
        BY <1>5 DEF NoCall, Call
      <3>2. pc[a] \in {"down", "ready", "reading", "announcing", "executing", "reporting"}
        BY DEF IInv, TypeOK, AgentsOK
      <3> QED BY <1>1, <1>5, <3>1, <3>2 DEF AgentOK, Reports
    <2>2. Serves(w, s, a, k) /\ n = ServeStatus(s, k)
      BY <1>1, <1>5, <2>1 DEF Atomic
    <2>3. Worker[w][TaskOf[w][k]] = a /\ Frontier(w, s, k)
      BY <1>2, <1>3, <2>2, ServesFrontier
    <2>4. StatusInv(w, n) /\ n.action = s.action
      BY <1>2, <1>3, <2>2, <2>3, ServeStatusInv
    <2>5. \A i \in Actions(w) : n.action[i].state = StateOf(w, i) /\ s.action[i].state = StateOf(w, i)
      BY <2>4 DEF StateOf
    <2> HIDE DEF c, w, k, n, s
    <2>6. /\ \A i \in Actions(w) : i < k => StateOf(w, i) = "SUCCESS"
          /\ \A j \in Actions(w) : k < j => StateOf(w, j) = "PENDING"
          /\ StateOf(w, k) \in {"PENDING", "RUNNING"}
      BY <1>2, <2>3, <2>5 DEF Frontier
    <2> QED BY <1>2, <1>3, <1>4, <1>5, <2>1, <2>3, <2>4, <2>5, <2>6 DEF c, w, k, n
  <1>6. CASE c.op = "report"
    <2>1. n = ReportStatus(w, s, k, c.state)
      BY <1>1, <1>6 DEF Atomic
    <2>2. /\ pc[a] \in {"announcing", "reporting"}
          /\ Reports(a, c, job[a].w, job[a].id,
                     IF pc[a] = "announcing" THEN "RUNNING" ELSE result[a])
      BY <1>6, ReportingAgent
    <2>3. w = job[a].w /\ k = job[a].id
      BY <2>2 DEF Reports
    <2>4. /\ Worker[w][TaskOf[w][k]] = a
          /\ \A i \in Actions(w) : i < k => StateOf(w, i) = "SUCCESS"
          /\ \A j \in Actions(w) :
                k < j /\ Worker[w][TaskOf[w][j]] = a => StateOf(w, j) = "PENDING"
          /\ pc[a] = "announcing" => StateOf(w, k) \in {"PENDING", "RUNNING"}
          /\ pc[a] = "reporting" => /\ StateOf(w, k) \in {"RUNNING", result[a]}
                                    /\ result[a] \in {"SUCCESS", "FAILED", "TIMEOUT"}
      BY <1>1, <2>2, <2>3 DEF AgentOK, Holds
    <2>5. c.state \in ActionState
      BY <2>2, <2>4 DEF Reports, ActionState
    <2>6. \A i \in Actions(w) : s.action[i].state = StateOf(w, i)
      BY DEF StateOf
    <2> HIDE DEF c, w, k, n, s
    <2>7. n.action[k].state = c.state /\ \A i \in Actions(w) : i # k => n.action[i].state = StateOf(w, i)
      BY <1>2, <1>3, <2>1, <2>5, <2>6, ReportStatusFields
    <2>8. StatusInv(w, n)
      <3>1. CASE pc[a] = "announcing"
        <4>1. c.state = "RUNNING"
          BY <2>2, <3>1 DEF Reports
        <4>2. \A j \in Actions(w) : k < j => s.action[j].state = "PENDING"
          BY <1>2, <1>3, <2>4, <2>6, <3>1 DEF StatusInv
        <4>3. Frontier(w, s, k)
          BY <1>2, <2>4, <2>6, <3>1, <4>2 DEF Frontier
        <4> QED BY <1>2, <1>3, <2>1, <4>1, <4>3, ReportRunningInv
      <3>2. CASE pc[a] = "reporting"
        <4>1. c.state = result[a] /\ c.state \in {"SUCCESS", "FAILED", "TIMEOUT"}
          BY <2>2, <2>4, <3>2 DEF Reports
        <4>2. s.action[k].state \in {"RUNNING", c.state}
          BY <1>2, <2>4, <2>6, <3>2, <4>1
        <4> QED BY <1>2, <1>3, <2>1, <2>4, <2>6, <4>1, <4>2, ReportEndInv
      <3> QED BY <2>2, <3>1, <3>2
    <2>9. \/ pc[a] = "announcing" /\ Reports(a, c, job[a].w, job[a].id, "RUNNING") /\ c.state = "RUNNING"
          \/ pc[a] = "reporting" /\ Reports(a, c, job[a].w, job[a].id, result[a]) /\ c.state = result[a]
      BY <2>2 DEF Reports
    <2> QED BY <1>2, <1>3, <1>4, <2>4, <2>7, <2>8, <2>9 DEF c, w, k, n
  <1> QED BY <1>2, <1>5, <1>6

\* An accepted Update keeps the invariant: the one step that changes Actions.
LEMMA HandlerCommitInv ==
    ASSUME IInv, TypeOK', NEW a \in Agent, HandlerCommit(a)
    PROVE  IInv'
  <1>0. PICK w, k, n : w = call[a].w /\ k = call[a].id /\ n = call[a].upd.status
    OBVIOUS
  <1>1. /\ w \in Workflow /\ k \in Actions(w) /\ n \in Status(w)
        /\ Writes(w, n) /\ StatusInv(w, n) /\ Worker[w][TaskOf[w][k]] = a
        /\ \A i \in Actions(w) : i < k => StateOf(w, i) = "SUCCESS"
        /\ \A j \in Actions(w) :
              k < j /\ Worker[w][TaskOf[w][j]] = a => StateOf(w, j) = "PENDING"
        /\ \A i \in Actions(w) : i # k => n.action[i].state = StateOf(w, i)
        /\ StateOf(w, k) = "SUCCESS" => n.action[k].state = "SUCCESS"
    BY <1>0, CommitFacts
  <1>2. /\ UNCHANGED <<scache, ccache, patch, late, pc, job, result>>
        /\ call' = [call EXCEPT ![a] = Answered(call[a])]
        /\ DOMAIN call = Agent
    BY DEF HandlerCommit, serverVars, agentVars, controllerVars, IInv, TypeOK, CallsOK
  <1>3. \A i \in Actions(w) : StateOf(w, i)' = n.action[i].state
    BY <1>1, WriteFacts DEF StateOf
  <1>4. \A v \in Workflow : v # w => \A i \in Actions(v) : StateOf(v, i)' = StateOf(v, i)
    BY <1>1, WriteFacts DEF StateOf
  <1>5. \A v \in Workflow : CacheOK(v)'
    BY <1>1, <1>2, WriteCache
  <1>6. call'[a] = Answered(call[a])
    BY <1>2
  <1>7. /\ call'[a].op = call[a].op /\ call'[a].agent = call[a].agent /\ call'[a].w = w
        /\ call'[a].id = k /\ call'[a].state = call[a].state /\ call'[a].phase = "done"
    BY <1>0, <1>6 DEF Answered, Call
  <1>8. AgentOK(a)'
    <2>1. /\ \A i \in Actions(w) : i < k => StateOf(w, i)' = "SUCCESS"
          /\ \A j \in Actions(w) :
                k < j /\ Worker[w][TaskOf[w][j]] = a => StateOf(w, j)' = "PENDING"
      <3>1. \A i \in Actions(w) : i \in Nat
        BY <1>1, TemplateFacts
      <3> QED BY <1>1, <1>3, <3>1
    <2>3. CASE /\ pc[a] = "reading" /\ call[a].op = "get" /\ call[a].agent = a
               /\ n.action[k].state \in {"PENDING", "RUNNING"}
      <3>1. Holds(a, call[a].w, call[a].id, {"PENDING", "RUNNING"})'
        BY <1>1, <1>3, <1>7, <2>1, <2>3 DEF Holds
      <3> QED BY <1>2, <1>7, <2>3, <3>1 DEF AgentOK
    <2>4. CASE /\ pc[a] = "announcing" /\ Reports(a, call[a], job[a].w, job[a].id, "RUNNING")
               /\ n.action[k].state = "RUNNING"
      <3>1. job[a].w = w /\ job[a].id = k
        BY <1>0, <2>4 DEF Reports
      <3>2. Holds(a, job[a].w, job[a].id, {"RUNNING"})'
        BY <1>1, <1>2, <1>3, <2>1, <2>4, <3>1 DEF Holds
      <3>3. Reports(a, call[a], job[a].w, job[a].id, "RUNNING")'
        BY <1>2, <1>7, <2>4, <3>1 DEF Reports
      <3> QED BY <1>2, <1>7, <2>4, <3>2, <3>3 DEF AgentOK
    <2>5. CASE /\ pc[a] = "reporting" /\ Reports(a, call[a], job[a].w, job[a].id, result[a])
               /\ result[a] \in {"SUCCESS", "FAILED", "TIMEOUT"}
               /\ n.action[k].state = result[a]
      <3>1. job[a].w = w /\ job[a].id = k
        BY <1>0, <2>5 DEF Reports
      <3>2. Holds(a, job[a].w, job[a].id, {"RUNNING", result[a]})'
        BY <1>1, <1>2, <1>3, <2>1, <2>5, <3>1 DEF Holds
      <3>3. Reports(a, call[a], job[a].w, job[a].id, result[a])'
        BY <1>2, <1>7, <2>5, <3>1 DEF Reports
      <3> QED BY <1>2, <1>7, <2>5, <3>2, <3>3 DEF AgentOK
    <2> QED BY <1>0, <2>3, <2>4, <2>5, CommitFacts
  <1>9. Atomic(call[a])'
    BY <1>7 DEF Atomic, CanCommit
  <1>10. ASSUME NEW b \in Agent, b # a
         PROVE  AgentOK(b)' /\ Atomic(call[b])'
    <2>1. call'[b] = call[b] /\ pc'[b] = pc[b] /\ job'[b] = job[b] /\ result'[b] = result[b]
      BY <1>2, <1>10
    <2>2. Undisturbed(b)
      BY <1>1, <1>3, <1>4, <1>10 DEF Undisturbed
    <2> QED BY <1>1, <2>1, <2>2, WriteAtomic, WriteAgent
  <1>11. HandlerAtomic'
    BY <1>2, <1>9, <1>10 DEF HandlerAtomic, IInv
  <1> QED BY <1>2, <1>5, <1>8, <1>10, <1>11 DEF IInv

\* The controller's patch touches no Action, so every agent keeps what it
\* holds; a handler that read before it will conflict.
LEMMA mergePatchStatusInv ==
    ASSUME IInv, TypeOK', NEW w \in Workflow, mergePatchStatus(w)
    PROVE  IInv'
  <1> DEFINE n == Patched(wf[w].status, patch[w])
  <1>1. /\ wf[w].status \in Status(w) /\ patch[w] \in Patch /\ CacheOK(w)
        /\ patch \in [Workflow -> Patch]
    BY DEF IInv, TypeOK, ObjectsOK, Object, ControllerOK
  <1>2. Writes(w, n)
    BY DEF mergePatchStatus, Writes
  <1>3. n \in Status(w)
    BY <1>1, PatchedType
  <1>4. StatusInv(w, n) /\ n.action = wf[w].status.action
    BY <1>1, PatchedInv DEF CacheOK, StateOf
  <1>5. /\ UNCHANGED <<scache, ccache, late, call, pc, job, result>>
        /\ patch' = [patch EXCEPT ![w] = NoPatch]
    BY DEF mergePatchStatus, serverVars, agentVars
  <1> HIDE DEF n
  <1>6. \A v \in Workflow : \A i \in Actions(v) : StateOf(v, i)' = StateOf(v, i)
    BY <1>2, <1>3, <1>4, WriteFacts DEF StateOf
  <1>7. \A v \in Workflow : CacheOK(v)'
    <2>1. \A v \in Workflow : patch'[v] = patch[v] \/ patch'[v] = NoPatch
      BY <1>1, <1>5
    <2>2. \A k \in Actions(w) : StateOf(w, k) = "SUCCESS" => n.action[k].state = "SUCCESS"
      BY <1>4 DEF StateOf
    <2> QED BY <1>2, <1>3, <1>4, <1>5, <2>1, <2>2, WriteCache
  <1>8. ASSUME NEW b \in Agent
        PROVE  AgentOK(b)' /\ Atomic(call[b])'
    <2>1. Undisturbed(b)
      BY <1>6 DEF Undisturbed
    <2> QED BY <1>2, <1>3, <1>5, <2>1, WriteAtomic, WriteAgent
  <1>9. HandlerAtomic'
    BY <1>5, <1>8 DEF HandlerAtomic, IInv
  <1> QED BY <1>5, <1>7, <1>8, <1>9 DEF IInv

----------------------------------------------------------------------------
(* The steps of an agent *)

\* Agent a is left without a call and without an Action.
LEMMA AgentIdle ==
    ASSUME IInv, TypeOK', NEW a \in Agent,
           UNCHANGED <<wf, scache, ccache, patch, late>>,
           \A b \in Agent \ {a} : /\ pc'[b] = pc[b] /\ job'[b] = job[b]
                                  /\ result'[b] = result[b] /\ call'[b] = call[b],
           pc'[a] \in {"down", "ready"}, call'[a] = NoCall
    PROVE  IInv'
  <1>1. call'[a].phase = "idle"
    BY DEF NoCall, Call
  <1>2. AgentOK(a)'
    BY <1>1 DEF AgentOK
  <1>3. Atomic(call[a])'
    BY <1>1 DEF Atomic, CanCommit
  <1> QED BY <1>2, <1>3, AgentStep

\* The steps of agents keep the invariant.
LEMMA AgentNextInv == IInv /\ ~LateCalls /\ TypeOK' /\ AgentNext => IInv'
  <1> SUFFICES ASSUME IInv, ~LateCalls, TypeOK', NEW a \in Agent,
                      \/ AgentRead(a) \/ AgentReadError(a) \/ AgentReceive(a)
                      \/ AgentExecute(a) \/ AgentReported(a)
                      \/ \E st \in {"SUCCESS", "FAILED", "TIMEOUT"} : AgentExecuted(a, st)
                      \/ CallLost(a) \/ AgentCrash(a) \/ AgentRestart(a)
               PROVE  IInv'
    BY DEF AgentNext
  <1>0. /\ DOMAIN call = Agent /\ DOMAIN job = Agent /\ AgentOK(a) /\ IsCall(call[a])
        /\ DOMAIN pc = Agent /\ DOMAIN result = Agent
        /\ pc[a] \in {"down", "ready", "reading", "announcing", "executing", "reporting"}
    BY DEF IInv, TypeOK, CallsOK, AgentsOK
  <1> USE DEF serverVars, controllerVars
  <1>1. CASE AgentRead(a)
    <2>1. /\ call'[a].op = "get" /\ call'[a].agent = a /\ call'[a].phase = "sent"
          /\ pc'[a] = "reading"
      BY <1>0, <1>1 DEF AgentRead, GetCall, Call
    <2>2. AgentOK(a)' /\ Atomic(call[a])'
      BY <2>1 DEF AgentOK, Atomic, CanCommit
    <2> QED BY <1>0, <1>1, <2>2, AgentStep DEF AgentRead
  <1>2. CASE AgentReadError(a)
    BY <1>0, <1>2, AgentIdle DEF AgentReadError
  <1>3. CASE AgentReceive(a)
    <2>1. /\ pc'[a] = "announcing" /\ call'[a] = ReportCall(a, call[a].w, call[a].id, "RUNNING")
          /\ job'[a] = [w |-> call[a].w, id |-> call[a].id] /\ wf' = wf
      BY <1>0, <1>3 DEF AgentReceive
    <2>2. /\ call'[a].op = "report" /\ call'[a].agent = a /\ call'[a].w = job'[a].w
          /\ call'[a].id = job'[a].id /\ call'[a].state = "RUNNING" /\ call'[a].phase = "sent"
          /\ job'[a].w = call[a].w /\ job'[a].id = call[a].id
      BY <2>1 DEF ReportCall, Call
    <2>3. Holds(a, call[a].w, call[a].id, {"PENDING", "RUNNING"})
      BY <1>0, <1>3 DEF AgentReceive, AgentOK
    <2>4. Holds(a, job[a].w, job[a].id, {"PENDING", "RUNNING"})'
      BY <2>1, <2>2, <2>3 DEF Holds, StateOf
    <2>5. Reports(a, call[a], job[a].w, job[a].id, "RUNNING")'
      BY <2>2 DEF Reports
    <2>6. AgentOK(a)' /\ Atomic(call[a])'
      BY <2>1, <2>2, <2>4, <2>5 DEF AgentOK, Atomic, CanCommit
    <2> QED BY <1>0, <1>3, <2>6, AgentStep DEF AgentReceive
  <1>4. CASE AgentExecute(a)
    <2>1. pc'[a] = "executing" /\ call'[a] = NoCall /\ UNCHANGED <<wf, job>>
      BY <1>0, <1>4 DEF AgentExecute
    <2>2. Holds(a, job[a].w, job[a].id, {"RUNNING"})
      BY <1>0, <1>4 DEF AgentExecute, AgentOK
    <2>3. Holds(a, job[a].w, job[a].id, {"RUNNING"})'
      BY <2>1, <2>2 DEF Holds, StateOf
    <2>4. call'[a].phase = "idle"
      BY <2>1 DEF NoCall, Call
    <2>5. AgentOK(a)' /\ Atomic(call[a])'
      BY <2>1, <2>3, <2>4 DEF AgentOK, Atomic, CanCommit
    <2> QED BY <1>0, <1>4, <2>5, AgentStep DEF AgentExecute
  <1>5. CASE AgentReported(a)
    BY <1>0, <1>5, AgentIdle DEF AgentReported
  <1>6. ASSUME NEW st \in {"SUCCESS", "FAILED", "TIMEOUT"}, AgentExecuted(a, st)
        PROVE  IInv'
    <2>1. /\ pc'[a] = "reporting" /\ call'[a] = ReportCall(a, job[a].w, job[a].id, st)
          /\ result'[a] = st /\ UNCHANGED <<wf, job>>
      BY <1>0, <1>6 DEF AgentExecuted
    <2>2. Holds(a, job[a].w, job[a].id, {"RUNNING"})
      BY <1>0, <1>6 DEF AgentExecuted, AgentOK
    <2>3. Holds(a, job[a].w, job[a].id, {"RUNNING", result[a]})'
      BY <2>1, <2>2 DEF Holds, StateOf
    <2>4. Reports(a, call[a], job[a].w, job[a].id, result[a])' /\ call'[a].phase = "sent"
      BY <2>1 DEF Reports, ReportCall, Call
    <2>5. AgentOK(a)' /\ Atomic(call[a])'
      BY <2>1, <2>3, <2>4 DEF AgentOK, Atomic, CanCommit
    <2> QED BY <1>0, <1>6, <2>5, AgentStep DEF AgentExecuted
  <1>7. CASE CallLost(a)
    <2>0. late' = late
      BY <1>7 DEF CallLost, Abandon
    <2>1. CASE pc[a] = "reporting"
      <3>1. /\ pc' = pc /\ job' = job /\ result' = result /\ wf' = wf
            /\ call'[a] = ReportCall(a, job[a].w, job[a].id, result[a])
        BY <1>0, <1>7, <2>1 DEF CallLost
      <3>2. /\ Holds(a, job[a].w, job[a].id, {"RUNNING", result[a]})
            /\ result[a] \in {"SUCCESS", "FAILED", "TIMEOUT"}
        BY <1>0, <2>1 DEF AgentOK
      <3>3. Holds(a, job[a].w, job[a].id, {"RUNNING", result[a]})'
        BY <3>1, <3>2 DEF Holds, StateOf
      <3>4. Reports(a, call[a], job[a].w, job[a].id, result[a])' /\ call'[a].phase = "sent"
        BY <3>1 DEF Reports, ReportCall, Call
      <3>5. AgentOK(a)' /\ Atomic(call[a])'
        BY <2>1, <3>1, <3>2, <3>3, <3>4 DEF AgentOK, Atomic, CanCommit
      <3> QED BY <1>0, <1>7, <2>0, <2>1, <3>5, AgentStep DEF CallLost
    <2>2. CASE pc[a] # "reporting"
      BY <1>0, <1>7, <2>0, <2>2, AgentIdle DEF CallLost
    <2> QED BY <2>1, <2>2
  <1>8. CASE AgentCrash(a)
    <2>1. late' = late
      BY <1>8 DEF AgentCrash, Abandon
    <2> QED BY <1>0, <1>8, <2>1, AgentIdle DEF AgentCrash
  <1>9. CASE AgentRestart(a)
    <2>1. call[a] = NoCall
      BY <1>0, <1>9 DEF AgentRestart, AgentOK
    <2> QED BY <1>0, <1>9, <2>1, AgentIdle DEF AgentRestart
  <1> QED BY <1>1, <1>2, <1>3, <1>4, <1>5, <1>6, <1>7, <1>8, <1>9

----------------------------------------------------------------------------
(* The steps of the controller *)

\* Only a Workflow whose Actions have all succeeded in the cache, and so in
\* the API server, gets a patch that says SUCCESS.
LEMMA ReconcileInv ==
    ASSUME IInv, TypeOK', NEW w \in Workflow,
           ReconcileRunning(w) \/ ReconcilePost(w) \/ ReconcileNothing(w)
    PROVE  IInv'
  <1>1. /\ UNCHANGED <<wf, scache, ccache, call, late, agentVars>>
        /\ patch \in [Workflow -> Patch]
        /\ CacheOK(w) /\ ccache[w].status \in Status(w)
    BY DEF ReconcileRunning, ReconcilePost, ReconcileNothing, Dequeue, serverVars,
           IInv, TypeOK, ControllerOK, ObjectsOK, Object
  <1>2. \A v \in Workflow : v # w => patch'[v] = patch[v]
    BY <1>1 DEF ReconcileRunning, ReconcilePost, ReconcileNothing
  <1>3. /\ patch'[w].state \in {None, "TIMEOUT", "SUCCESS"}
        /\ patch'[w].state = "SUCCESS" => \A k \in Actions(w) : StateOf(w, k) = "SUCCESS"
    <2>1. CASE ReconcileRunning(w)
      <3>1. patch'[w] = RunningPatch(w, ccache[w].status)
        BY <1>1, <2>1 DEF ReconcileRunning
      <3>2. patch'[w].state \in {None, "TIMEOUT"}
        BY <3>1 DEF RunningPatch, NoPatch
      <3> QED BY <3>2, NoneAssumption
    <2>2. CASE ReconcilePost(w)
      <3> DEFINE s == ccache[w].status
      <3>1. patch'[w] = PostPatch(s) /\ s.state = "POST"
        BY <1>1, <2>2 DEF ReconcilePost
      <3>2. \A k \in Actions(w) : s.action[k].state = "SUCCESS" /\ StateOf(w, k) = "SUCCESS"
        BY <1>1, <3>1 DEF CacheOK, StatusInv
      <3>3. s.currentState.actionID # 0 => s.currentState.state = "SUCCESS"
        BY <1>1, <3>2, StatusFields DEF CacheOK, StatusInv
      <3>4. patch'[w].state \in {None, "SUCCESS"}
        BY <3>1, <3>3 DEF PostPatch, NoPatch
      <3> QED BY <3>2, <3>4
    <2>3. CASE ReconcileNothing(w)
      BY <1>1, <2>3 DEF ReconcileNothing, CacheOK
    <2> QED BY <2>1, <2>2, <2>3
  <1>4. CacheOK(w)'
    BY <1>1, <1>3 DEF CacheOK, StateOf, StatusInv
  <1>5. \A v \in Workflow : CacheOK(v)'
    BY <1>1, <1>2, <1>4, CacheFrame DEF IInv
  <1> QED BY <1>1, <1>5, ControllerStep

\* The steps of the controller keep the invariant.
LEMMA ControllerNextInv == IInv /\ TypeOK' /\ ControllerNext => IInv'
  <1> SUFFICES ASSUME IInv, TypeOK', ControllerNext PROVE IInv'
    OBVIOUS
  <1>0. /\ \A v \in Workflow : CacheOK(v)
        /\ DOMAIN ccache = Workflow /\ patch \in [Workflow -> Patch]
    BY DEF IInv, TypeOK, ObjectsOK, ControllerOK
  <1>1. ASSUME NEW w \in Workflow, ControllerSync(w)
        PROVE  IInv'
    <2>1. /\ ccache'[w] = wf[w] /\ \A v \in Workflow : v # w => ccache'[v] = ccache[v]
          /\ UNCHANGED <<wf, scache, patch, call, late, agentVars>>
      BY <1>0, <1>1 DEF ControllerSync, serverVars
    <2>2. CacheOK(w)'
      <3>1. StatusInv(w, wf[w].status)' /\ StatusInv(w, ccache[w].status)'
        <4>1. StatusInv(w, wf'[w].status) /\ StatusInv(w, ccache'[w].status)
          BY <1>0, <2>1 DEF CacheOK
        <4> QED BY <4>1 DEF StatusInv
      <3>2. \A k \in Actions(w) : StateOf(w, k)' = StateOf(w, k)
        BY <2>1 DEF StateOf
      <3> QED BY <1>0, <2>1, <3>1, <3>2 DEF CacheOK, StateOf
    <2>3. \A v \in Workflow : CacheOK(v)'
      BY <1>0, <2>1, <2>2, CacheFrame
    <2> QED BY <2>1, <2>3, ControllerStep
  <1>2. ASSUME NEW w \in Workflow, Resync(w) \/ TimerFires(w) \/ DeadlinePasses(w)
        PROVE  IInv'
    <2>1. UNCHANGED <<wf, scache, ccache, patch, call, late, agentVars>>
      BY <1>2 DEF Resync, TimerFires, DeadlinePasses, serverVars
    <2>2. \A v \in Workflow : CacheOK(v)'
      BY <1>0, <2>1, CacheFrame
    <2> QED BY <2>1, <2>2, ControllerStep
  <1>3. ASSUME NEW w \in Workflow, PatchFails(w)
        PROVE  IInv'
    <2>1. /\ patch'[w] = NoPatch /\ \A v \in Workflow : v # w => patch'[v] = patch[v]
          /\ UNCHANGED <<wf, scache, ccache, call, late, agentVars>>
      BY <1>0, <1>3 DEF PatchFails, serverVars
    <2>2. CacheOK(w)'
      <3>1. StatusInv(w, wf[w].status)' /\ StatusInv(w, ccache[w].status)'
        <4>1. StatusInv(w, wf'[w].status) /\ StatusInv(w, ccache'[w].status)
          BY <1>0, <2>1 DEF CacheOK
        <4> QED BY <4>1 DEF StatusInv
      <3>2. \A k \in Actions(w) : StateOf(w, k)' = StateOf(w, k)
        BY <2>1 DEF StateOf
      <3> QED BY <1>0, <2>1, <3>1, <3>2, NoneAssumption DEF CacheOK, NoPatch
    <2>3. \A v \in Workflow : CacheOK(v)'
      BY <1>0, <2>1, <2>2, CacheFrame
    <2> QED BY <2>1, <2>3, ControllerStep
  <1>4. CASE ControllerRestart
    <2>1. /\ ccache' = wf /\ \A v \in Workflow : patch'[v] = NoPatch
          /\ UNCHANGED <<wf, scache, call, late, agentVars>>
      BY <1>4 DEF ControllerRestart, serverVars
    <2>2. ASSUME NEW v \in Workflow
          PROVE  CacheOK(v)'
      <3>1. CacheOK(v) /\ patch'[v] = NoPatch /\ ccache'[v] = wf[v]
        BY <1>0, <2>1
      <3>2. /\ StatusInv(v, wf[v].status)' /\ StatusInv(v, ccache[v].status)'
            /\ \A k \in Actions(v) : StateOf(v, k)' = StateOf(v, k)
        <4>1. StatusInv(v, wf'[v].status) /\ StatusInv(v, ccache'[v].status)
          BY <2>1, <3>1 DEF CacheOK
        <4>2. \A k \in Actions(v) : StateOf(v, k)' = StateOf(v, k)
          BY <2>1 DEF StateOf
        <4> QED BY <4>1, <4>2 DEF StatusInv
      <3> QED BY <2>1, <3>1, <3>2, NoneAssumption DEF CacheOK, StateOf, NoPatch
    <2> QED BY <2>1, <2>2, ControllerStep
  <1> QED BY <1>1, <1>2, <1>3, <1>4, ReconcileInv, mergePatchStatusInv DEF ControllerNext

----------------------------------------------------------------------------
(* The invariant *)

\* The invariant holds initially.
LEMMA InitInv == Init => IInv
  <1> SUFFICES ASSUME Init PROVE IInv
    OBVIOUS
  <1>1. ASSUME NEW w \in Workflow
        PROVE  CacheOK(w)
    <2>1. /\ wf[w].status = YAMLToStatus(w) /\ ccache[w] = wf[w] /\ scache[w] = wf[w]
          /\ wf[w].rv = 0 /\ patch[w] = NoPatch
      BY DEF Init
    <2>2. StatusInv(w, YAMLToStatus(w))
      BY DEF StatusInv, YAMLToStatus, NoCurrentState
    <2> QED BY <2>1, <2>2, NoneAssumption DEF CacheOK, NoPatch, StateOf
  <1>2. ASSUME NEW a \in Agent
        PROVE  AgentOK(a) /\ Atomic(call[a])
    <2>1. pc[a] = "ready" /\ call[a] = NoCall /\ call[a].phase = "idle"
      BY DEF Init, NoCall, Call
    <2> QED BY <2>1 DEF AgentOK, Atomic, CanCommit
  <1>3. late = {}
    BY DEF Init
  <1> QED BY <1>1, <1>2, <1>3, InitType DEF IInv, HandlerAtomic

\* The steps of Tink Server keep the invariant.
LEMMA ServerNextInv == IInv /\ TypeOK' /\ ServerNext => IInv'
  <1> SUFFICES ASSUME IInv, TypeOK', ServerNext PROVE IInv'
    OBVIOUS
  <1>1. ASSUME NEW w \in Workflow, ServerSync(w)
        PROVE  IInv'
    <2>0. /\ \A v \in Workflow : CacheOK(v)
          /\ DOMAIN scache = Workflow /\ wf[w].rv \in Nat
      BY DEF IInv, TypeOK, ObjectsOK, Object
    <2>1. /\ scache'[w] = wf[w] /\ \A v \in Workflow : v # w => scache'[v] = scache[v]
          /\ UNCHANGED <<wf, ccache, patch, call, late, agentVars>>
      BY <1>1, <2>0 DEF ServerSync, controllerVars
    <2>2. CacheOK(w)'
      <3>1. StatusInv(w, wf[w].status)' /\ StatusInv(w, ccache[w].status)'
        <4>1. StatusInv(w, wf'[w].status) /\ StatusInv(w, ccache'[w].status)
          BY <2>0, <2>1 DEF CacheOK
        <4> QED BY <4>1 DEF StatusInv
      <3>2. \A k \in Actions(w) : StateOf(w, k)' = StateOf(w, k)
        BY <2>1 DEF StateOf
      <3> QED BY <2>0, <2>1, <3>1, <3>2 DEF CacheOK
    <2>3. \A v \in Workflow : CacheOK(v)'
      BY <2>0, <2>1, <2>2, CacheFrame
    <2> QED BY <2>1, <2>3, ControllerStep
  <1>2. late = {}
    BY DEF IInv
  <1> QED BY <1>1, <1>2, GetActionReadInv, GetActionErrorInv, ReportActionStatusReadInv,
             HandlerCommitInv, HandlerConflictInv DEF ServerNext

\* The invariant is inductive when handlers do not outlive their clients.
LEMMA NextInv == IInv /\ ~LateCalls /\ [Next]_vars => IInv'
  <1> SUFFICES ASSUME IInv, ~LateCalls, [Next]_vars PROVE IInv'
    OBVIOUS
  <1>1. TypeOK'
    BY NextTypes DEF IInv
  <1>2. CASE UNCHANGED vars
    <2>1. \A w \in Workflow : CacheOK(w)'
      BY <1>2, CacheFrame DEF vars, IInv
    <2> QED BY <1>1, <1>2, <2>1, ControllerStep DEF vars, agentVars
  <1> QED BY <1>1, <1>2, ServerNextInv, AgentNextInv, ControllerNextInv DEF Next

\* The inductive invariant holds throughout, whatever is lost or crashes.
THEOREM Invariance == ASSUME ~LateCalls PROVE Spec => []IInv
  <1>1. IInv /\ [Next]_vars => IInv'
    BY NextInv
  <1> QED BY <1>1, InitInv, PTL DEF Spec

----------------------------------------------------------------------------
(* The theorems *)

\* The invariant implies the safety properties.
LEMMA InvImplies == IInv => ActionOrder /\ PostMeansDone /\ ExecutesFrontier /\ OneExecutor
  <1> SUFFICES ASSUME IInv PROVE ActionOrder /\ PostMeansDone /\ ExecutesFrontier /\ OneExecutor
    OBVIOUS
  <1>1. ActionOrder /\ PostMeansDone
    BY DEF IInv, CacheOK, StatusInv, ActionOrder, PostMeansDone, StateOf
  <1>2. ExecutesFrontier
    BY DEF IInv, AgentOK, Holds, ExecutesFrontier
  <1>3. ASSUME NEW a \in Agent, NEW b \in Agent, a # b, pc[a] = "executing",
               pc[b] = "executing", job[a].w = job[b].w
        PROVE  FALSE
    <2> DEFINE w == job[a].w
               i == job[a].id
               j == job[b].id
    <2>1. w \in Workflow /\ i \in Actions(w) /\ j \in Actions(w)
      BY <1>3, JobFields DEF IInv, TypeOK
    <2>2. /\ Worker[w][TaskOf[w][i]] = a /\ Worker[w][TaskOf[w][j]] = b
          /\ StateOf(w, i) = "RUNNING" /\ StateOf(w, j) = "RUNNING"
          /\ i < j => StateOf(w, i) = "SUCCESS"
          /\ j < i => StateOf(w, j) = "SUCCESS"
      BY <1>2, <1>3, <2>1 DEF ExecutesFrontier
    <2>3. i \in Nat /\ j \in Nat
      BY <2>1, TemplateFacts
    <2> QED BY <1>3, <2>2, <2>3
  <1> QED BY <1>1, <1>2, <1>3 DEF OneExecutor

\* Actions run in the order of the template, across Tasks and agents.
THEOREM ActionsInOrder == ASSUME ~LateCalls PROVE Spec => []ActionOrder
  BY Invariance, InvImplies, PTL

\* An agent executes only the Action its Workflow has in progress.
THEOREM ExecutionAtFrontier == ASSUME ~LateCalls PROVE Spec => []ExecutesFrontier
  BY Invariance, InvImplies, PTL

\* No two agents execute Actions of one Workflow at the same time.
THEOREM MutualExclusion == ASSUME ~LateCalls PROVE Spec => []OneExecutor
  BY Invariance, InvImplies, PTL

\* A Workflow enters POST and SUCCESS only with every Action successful.
THEOREM SuccessIsEarned == ASSUME ~LateCalls PROVE Spec => []PostMeansDone
  BY Invariance, InvImplies, PTL

\* A patch of the controller leaves all Actions as they are.
LEMMA PatchKeepsActions ==
    ASSUME IInv, NEW w \in Workflow, mergePatchStatus(w)
    PROVE  \A v \in Workflow : \A k \in Actions(v) : StateOf(v, k)' = StateOf(v, k)
  <1> DEFINE n == Patched(wf[w].status, patch[w])
  <1>1. wf[w].status \in Status(w) /\ patch[w] \in Patch /\ CacheOK(w)
    BY DEF IInv, TypeOK, ObjectsOK, Object, ControllerOK
  <1>2. Writes(w, n) /\ n \in Status(w) /\ n.action = wf[w].status.action
    BY <1>1, PatchedType, PatchedInv DEF mergePatchStatus, Writes, CacheOK, StateOf
  <1> HIDE DEF n
  <1> QED BY <1>2, WriteFacts DEF StateOf

\* A step leaves all Actions as they are, starts the Action at the frontier
\* or ends the running one.
LEMMA StepOutcome ==
    ASSUME IInv, [Next]_vars
    PROVE  \/ \A w \in Workflow : \A k \in Actions(w) : StateOf(w, k)' = StateOf(w, k)
           \/ \E w \in Workflow : \E k \in Actions(w) :
                 /\ \A v \in Workflow : v # w => \A i \in Actions(v) : StateOf(v, i)' = StateOf(v, i)
                 /\ \A i \in Actions(w) : i # k => StateOf(w, i)' = StateOf(w, i)
                 /\ \/ /\ StateOf(w, k) = "PENDING" /\ StateOf(w, k)' = "RUNNING"
                       /\ \A i \in Actions(w) : i < k => StateOf(w, i) = "SUCCESS"
                    \/ /\ StateOf(w, k) = "RUNNING"
                       /\ StateOf(w, k)' \in {"SUCCESS", "FAILED", "TIMEOUT"}
  <1>1. CASE wf' = wf
    BY <1>1 DEF StateOf
  <1>2. ASSUME NEW a \in Agent, HandlerCommit(a), wf' # wf
        PROVE  \/ \A w \in Workflow : \A k \in Actions(w) : StateOf(w, k)' = StateOf(w, k)
               \/ \E w \in Workflow : \E k \in Actions(w) :
                     /\ \A v \in Workflow : v # w => \A i \in Actions(v) : StateOf(v, i)' = StateOf(v, i)
                     /\ \A i \in Actions(w) : i # k => StateOf(w, i)' = StateOf(w, i)
                     /\ \/ /\ StateOf(w, k) = "PENDING" /\ StateOf(w, k)' = "RUNNING"
                           /\ \A i \in Actions(w) : i < k => StateOf(w, i) = "SUCCESS"
                        \/ /\ StateOf(w, k) = "RUNNING"
                           /\ StateOf(w, k)' \in {"SUCCESS", "FAILED", "TIMEOUT"}
    <2>0. PICK w, k, n : w = call[a].w /\ k = call[a].id /\ n = call[a].upd.status
      OBVIOUS
    <2>1. /\ w \in Workflow /\ k \in Actions(w) /\ n \in Status(w) /\ Writes(w, n)
          /\ \A i \in Actions(w) : i < k => StateOf(w, i) = "SUCCESS"
          /\ \A i \in Actions(w) : i # k => n.action[i].state = StateOf(w, i)
          /\ \/ n.action[k].state = StateOf(w, k)
             \/ StateOf(w, k) = "PENDING" /\ n.action[k].state = "RUNNING"
             \/ StateOf(w, k) = "RUNNING" /\ n.action[k].state \in {"SUCCESS", "FAILED", "TIMEOUT"}
      BY <1>2, <2>0, CommitFacts
    <2>2. \A i \in Actions(w) : StateOf(w, i)' = n.action[i].state
      BY <2>1, WriteFacts DEF StateOf
    <2>3. \A v \in Workflow : v # w => \A i \in Actions(v) : StateOf(v, i)' = StateOf(v, i)
      BY <2>1, WriteFacts DEF StateOf
    <2> QED BY <2>1, <2>2, <2>3
  <1>3. ASSUME NEW w \in Workflow, mergePatchStatus(w)
        PROVE  \A v \in Workflow : \A k \in Actions(v) : StateOf(v, k)' = StateOf(v, k)
    BY <1>3, PatchKeepsActions
  <1>4. late = {}
    BY DEF IInv
  <1>5. CASE UNCHANGED vars
    BY <1>1, <1>5 DEF vars
  <1>6. CASE AgentNext
    BY <1>1, <1>6 DEF AgentNext, AgentRead, AgentReadError, AgentReceive, AgentExecute,
        AgentExecuted, AgentReported, CallLost, AgentCrash, AgentRestart
  <1>7. CASE ServerNext
    BY <1>1, <1>2, <1>4, <1>7 DEF ServerNext, ServerSync, GetActionRead, GetActionError,
        ReportActionStatusRead, HandlerConflict
  <1>8. CASE ControllerNext
    BY <1>1, <1>3, <1>8 DEF ControllerNext, ControllerSync, Resync, ReconcileRunning,
        ReconcilePost, ReconcileNothing, Dequeue, PatchFails, TimerFires, DeadlinePasses,
        ControllerRestart
  <1> QED BY <1>5, <1>6, <1>7, <1>8 DEF Next

\* A recorded outcome of an Action is final.
THEOREM OutcomesAreFinal == ASSUME ~LateCalls PROVE Spec => OutcomeKept
  <1>1. IInv /\ [Next]_vars =>
          [\A w \in Workflow : \A k \in Actions(w) :
             StateOf(w, k) \in {"SUCCESS", "FAILED", "TIMEOUT"} => StateOf(w, k)' = StateOf(w, k)]_vars
    BY StepOutcome
  <1> QED BY <1>1, Invariance, PTL DEF Spec, OutcomeKept

\* The agents, the server and the controller together implement the
\* sequential execution of SequentialWorkflow.
THEOREM ImplementsSequential == ASSUME ~LateCalls PROVE Spec => RunsSequentially
  <1>1. Init => Sequential!Init
    BY DEF Init, Sequential!Init, StateOf, YAMLToStatus
  <1>2. IInv /\ [Next]_vars =>
          [Sequential!Next]_([w \in Workflow |-> [k \in Actions(w) |-> StateOf(w, k)]])
    <2> SUFFICES ASSUME IInv, [Next]_vars
                 PROVE  [Sequential!Next]_([w \in Workflow |-> [k \in Actions(w) |-> StateOf(w, k)]])
      OBVIOUS
    <2> DEFINE o == [w \in Workflow |-> [k \in Actions(w) |-> StateOf(w, k)]]
    <2>1. CASE \A w \in Workflow : \A k \in Actions(w) : StateOf(w, k)' = StateOf(w, k)
      BY <2>1
    <2>2. ASSUME NEW w \in Workflow, NEW k \in Actions(w),
                 \A v \in Workflow : v # w => \A i \in Actions(v) : StateOf(v, i)' = StateOf(v, i),
                 \A i \in Actions(w) : i # k => StateOf(w, i)' = StateOf(w, i)
          PROVE  o' = [o EXCEPT ![w][k] = StateOf(w, k)']
      BY <2>2
    <2>3. ASSUME NEW w \in Workflow, NEW k \in Actions(w),
                 o' = [o EXCEPT ![w][k] = StateOf(w, k)'],
                 \/ /\ StateOf(w, k) = "PENDING" /\ StateOf(w, k)' = "RUNNING"
                    /\ \A i \in Actions(w) : i < k => StateOf(w, i) = "SUCCESS"
                 \/ /\ StateOf(w, k) = "RUNNING"
                    /\ StateOf(w, k)' \in {"SUCCESS", "FAILED", "TIMEOUT"}
          PROVE  Sequential!Next
      <3>1. /\ o[w][k] = StateOf(w, k)
            /\ \A i \in Actions(w) : o[w][i] = StateOf(w, i)
            /\ [v \in Workflow |-> Actions(v)][w] = Actions(w)
        OBVIOUS
      <3>2. CASE /\ StateOf(w, k) = "PENDING" /\ StateOf(w, k)' = "RUNNING"
                 /\ \A i \in Actions(w) : i < k => StateOf(w, i) = "SUCCESS"
        <4>1. o' = [o EXCEPT ![w][k] = "RUNNING"]
          BY <2>3, <3>2
        <4>2. Sequential!Begin(w, k)
          BY <3>1, <3>2, <4>1 DEF Sequential!Begin
        <4> QED BY <3>1, <4>2 DEF Sequential!Next
      <3>3. ASSUME NEW st \in {"SUCCESS", "FAILED", "TIMEOUT"},
                   StateOf(w, k) = "RUNNING", StateOf(w, k)' = st
            PROVE  Sequential!Next
        <4>1. o' = [o EXCEPT ![w][k] = st]
          BY <2>3, <3>3
        <4>2. Sequential!End(w, k, st)
          BY <3>1, <3>3, <4>1 DEF Sequential!End
        <4> QED BY <3>1, <4>2 DEF Sequential!Next
      <3> QED BY <2>3, <3>2, <3>3
    <2> QED BY <2>1, <2>2, <2>3, StepOutcome
  <1> QED BY <1>1, <1>2, Invariance, PTL DEF Spec, RunsSequentially, Sequential!Spec

----------------------------------------------------------------------------
(* How often an Action is executed *)

\* Agent a has executed Action k of w and is reporting how it ended.
Reporter(a, w, k) == pc[a] = "reporting" /\ job[a].w = w /\ job[a].id = k

\* An Action that may be executed once more, because it has not ended and
\* nobody reports it, was executed at most once for each fault.
CountOK(w, k) ==
    /\ StateOf(w, k) = "SUCCESS" => runs[w][k] >= 1
    /\ runs[w][k] <= 1 + faults
    /\ StateOf(w, k) \in {"PENDING", "RUNNING"} /\ (\A a \in Agent : ~Reporter(a, w, k)) =>
          runs[w][k] <= faults

\* What is reported was executed, and is recorded when the call is answered.
ReporterOK(a) ==
    pc[a] = "reporting" =>
        /\ runs[job[a].w][job[a].id] >= 1
        /\ call[a].phase = "done" => StateOf(job[a].w, job[a].id) = result[a]

\* With IInv, an inductive invariant of the executions.
RunsInv ==
    /\ \A w \in Workflow : \A k \in Actions(w) : CountOK(w, k)
    /\ \A a \in Agent : ReporterOK(a)

\* Executions are counted in natural numbers, and so are faults.
LEMMA CountTypes ==
    ASSUME TypeOK
    PROVE  faults \in Nat /\ \A w \in Workflow : \A k \in Actions(w) : runs[w][k] \in Nat
  BY BoundAssumption DEF TypeOK, AgentsOK, ControllerOK

\* Nothing is executed, and the same agents report or there is one fault more.
LEMMA CountFrame ==
    ASSUME TypeOK, RunsInv, UNCHANGED runs,
           \A w \in Workflow : \A k \in Actions(w) : StateOf(w, k)' = StateOf(w, k),
           \/ faults' = faults + 1
           \/ /\ faults' = faults
              /\ \A w \in Workflow : \A k \in Actions(w) : \A a \in Agent :
                    Reporter(a, w, k) /\ StateOf(w, k) \in {"PENDING", "RUNNING"} => Reporter(a, w, k)'
    PROVE  \A w \in Workflow : \A k \in Actions(w) : CountOK(w, k)'
  <1> SUFFICES ASSUME NEW w \in Workflow, NEW k \in Actions(w) PROVE CountOK(w, k)'
    OBVIOUS
  <1>1. runs[w][k] \in Nat /\ faults \in Nat /\ CountOK(w, k)
    BY CountTypes DEF RunsInv
  <1>2. CASE faults' = faults + 1
    BY <1>1, <1>2 DEF CountOK
  <1>3. CASE /\ faults' = faults
             /\ \A a \in Agent :
                  Reporter(a, w, k) /\ StateOf(w, k) \in {"PENDING", "RUNNING"} => Reporter(a, w, k)'
    BY <1>1, <1>3 DEF CountOK
  <1> QED BY <1>2, <1>3

\* The agents, their calls and the Actions are the same.
LEMMA RunsSame ==
    ASSUME TypeOK, RunsInv, UNCHANGED agentVars, UNCHANGED call, faults' \in {faults, faults + 1},
           \A w \in Workflow : \A k \in Actions(w) : StateOf(w, k)' = StateOf(w, k)
    PROVE  RunsInv'
  <1>1. \A w \in Workflow : \A k \in Actions(w) : CountOK(w, k)'
    BY CountFrame DEF Reporter, agentVars
  <1>2. \A a \in Agent : pc[a] = "reporting" => job[a].w \in Workflow /\ job[a].id \in Actions(job[a].w)
    BY JobFields DEF TypeOK
  <1>3. \A a \in Agent : ReporterOK(a)'
    BY <1>2 DEF ReporterOK, RunsInv, agentVars
  <1> QED BY <1>1, <1>3 DEF RunsInv

\* One agent goes on, executing nothing.
LEMMA RunsAgent ==
    ASSUME TypeOK, RunsInv, NEW a \in Agent, UNCHANGED <<wf, runs>>,
           \A b \in Agent : b # a =>
               pc'[b] = pc[b] /\ job'[b] = job[b] /\ result'[b] = result[b] /\ call'[b] = call[b],
           \/ faults' = faults + 1
           \/ /\ faults' = faults
              /\ \A w \in Workflow : \A k \in Actions(w) :
                    Reporter(a, w, k) /\ StateOf(w, k) \in {"PENDING", "RUNNING"} => Reporter(a, w, k)',
           ReporterOK(a)'
    PROVE  RunsInv'
  <1>1. \A w \in Workflow : \A k \in Actions(w) : StateOf(w, k)' = StateOf(w, k)
    BY DEF StateOf
  <1>2. \A b \in Agent : b # a => \A w \in Workflow : \A k \in Actions(w) :
          Reporter(b, w, k) => Reporter(b, w, k)'
    BY DEF Reporter
  <1>3. \A w \in Workflow : \A k \in Actions(w) : CountOK(w, k)'
    BY <1>1, <1>2, CountFrame
  <1>4. ASSUME NEW b \in Agent, b # a PROVE ReporterOK(b)'
    <2>1. ReporterOK(b)
      BY DEF RunsInv
    <2> QED BY <1>4, <2>1 DEF ReporterOK, StateOf
  <1> QED BY <1>3, <1>4 DEF RunsInv

\* Agents: an execution, a report, a lost call, a crash.
LEMMA AgentNextRuns == IInv /\ RunsInv /\ AgentNext => RunsInv'
  <1> SUFFICES ASSUME IInv, RunsInv, NEW a \in Agent,
                      \/ AgentRead(a) \/ AgentReadError(a) \/ AgentReceive(a)
                      \/ AgentExecute(a) \/ AgentReported(a)
                      \/ \E st \in {"SUCCESS", "FAILED", "TIMEOUT"} : AgentExecuted(a, st)
                      \/ CallLost(a) \/ AgentCrash(a) \/ AgentRestart(a)
               PROVE  RunsInv'
    BY DEF AgentNext
  <1>1. TypeOK /\ AgentOK(a) /\ ReporterOK(a)
    BY DEF IInv, RunsInv
  <1>2. /\ DOMAIN pc = Agent /\ DOMAIN job = Agent /\ DOMAIN result = Agent /\ DOMAIN call = Agent
    BY <1>1 DEF TypeOK, AgentsOK, CallsOK
  <1>3. CASE AgentRead(a) \/ AgentReadError(a) \/ AgentReceive(a) \/ AgentExecute(a) \/ AgentRestart(a)
    <2>1. pc[a] # "reporting" /\ pc'[a] # "reporting"
      BY <1>2, <1>3 DEF AgentRead, AgentReadError, AgentReceive, AgentExecute, AgentRestart
    <2>2. ReporterOK(a)'
      BY <2>1 DEF ReporterOK
    <2>3. /\ UNCHANGED <<wf, runs, faults>>
          /\ \A b \in Agent : b # a =>
               pc'[b] = pc[b] /\ job'[b] = job[b] /\ result'[b] = result[b] /\ call'[b] = call[b]
      BY <1>2, <1>3 DEF AgentRead, AgentReadError, AgentReceive, AgentExecute, AgentRestart
    <2> QED BY <1>1, <2>1, <2>2, <2>3, RunsAgent DEF Reporter
  <1>4. CASE AgentReported(a)
    <2>1. pc[a] = "reporting" /\ call[a].phase = "done" /\ pc'[a] = "ready"
      BY <1>2, <1>4 DEF AgentReported
    <2>2. ReporterOK(a)'
      BY <2>1 DEF ReporterOK
    <2>3. StateOf(job[a].w, job[a].id) \in {"SUCCESS", "FAILED", "TIMEOUT"}
      BY <1>1, <2>1 DEF ReporterOK, AgentOK
    <2>4. \A w \in Workflow : \A k \in Actions(w) :
             Reporter(a, w, k) => StateOf(w, k) \notin {"PENDING", "RUNNING"}
      BY <2>3 DEF Reporter
    <2>5. /\ UNCHANGED <<wf, runs, faults>>
          /\ \A b \in Agent : b # a =>
               pc'[b] = pc[b] /\ job'[b] = job[b] /\ result'[b] = result[b] /\ call'[b] = call[b]
      BY <1>2, <1>4 DEF AgentReported
    <2> QED BY <1>1, <2>2, <2>4, <2>5, RunsAgent
  <1>5. CASE CallLost(a) \/ AgentCrash(a)
    <2>1. ReporterOK(a)'
      <3>1. pc'[a] = "reporting" => pc[a] = "reporting" /\ job'[a] = job[a] /\ call'[a].phase = "sent"
        BY <1>2, <1>5 DEF CallLost, AgentCrash, ReportCall, Call
      <3> QED BY <1>1, <1>5, <3>1 DEF ReporterOK, CallLost, AgentCrash
    <2>2. /\ UNCHANGED <<wf, runs>> /\ faults' = faults + 1
          /\ \A b \in Agent : b # a =>
               pc'[b] = pc[b] /\ job'[b] = job[b] /\ result'[b] = result[b] /\ call'[b] = call[b]
      BY <1>2, <1>5 DEF CallLost, AgentCrash, Fault
    <2> QED BY <1>1, <2>1, <2>2, RunsAgent
  <1>6. ASSUME NEW st \in {"SUCCESS", "FAILED", "TIMEOUT"}, AgentExecuted(a, st)
        PROVE  RunsInv'
    <2>0. PICK w, k : w = job[a].w /\ k = job[a].id
      OBVIOUS
    <2>1. /\ pc[a] = "executing" /\ pc'[a] = "reporting" /\ call'[a].phase = "sent"
          /\ UNCHANGED <<wf, job, faults>>
          /\ \A b \in Agent : b # a => pc'[b] = pc[b] /\ result'[b] = result[b] /\ call'[b] = call[b]
      BY <1>2, <1>6 DEF AgentExecuted, ReportCall, Call
    <2>2. w \in Workflow /\ k \in Actions(w)
      BY <1>1, <2>0, <2>1, JobFields DEF TypeOK
    <2>3. /\ runs'[w][k] = runs[w][k] + 1
          /\ \A v \in Workflow : \A i \in Actions(v) :
                v # w \/ i # k => runs'[v][i] = runs[v][i]
      BY <1>1, <1>6, <2>0, <2>2 DEF AgentExecuted, TypeOK, AgentsOK
    <2>4. Worker[w][TaskOf[w][k]] = a /\ StateOf(w, k) = "RUNNING"
      BY <1>1, <2>0, <2>1 DEF AgentOK, Holds
    <2>5. \A b \in Agent : ~Reporter(b, w, k)
      <3> SUFFICES ASSUME NEW b \in Agent, Reporter(b, w, k) PROVE FALSE
        OBVIOUS
      <3>1. AgentOK(b)
        BY DEF IInv
      <3>2. Worker[w][TaskOf[w][k]] = b
        BY <3>1 DEF Reporter, AgentOK, Holds
      <3> QED BY <2>1, <2>4, <3>2 DEF Reporter
    <2>6. runs[w][k] \in Nat /\ faults \in Nat /\ runs[w][k] <= faults
      BY <1>1, <2>2, <2>4, <2>5, CountTypes DEF RunsInv, CountOK
    <2>7. ASSUME NEW v \in Workflow, NEW i \in Actions(v) PROVE CountOK(v, i)'
      <3>1. StateOf(v, i)' = StateOf(v, i) /\ CountOK(v, i)
        BY <2>1 DEF StateOf, RunsInv
      <3>2. CASE v = w /\ i = k
        <4>1. Reporter(a, w, k)'
          BY <2>0, <2>1 DEF Reporter
        <4> QED BY <2>1, <2>3, <2>6, <3>2, <4>1 DEF CountOK
      <3>3. CASE ~(v = w /\ i = k)
        <4>1. runs'[v][i] = runs[v][i]
          BY <2>3, <3>3
        <4>2. \A b \in Agent : Reporter(b, v, i) => Reporter(b, v, i)'
          BY <2>1 DEF Reporter
        <4> QED BY <2>1, <3>1, <4>1, <4>2 DEF CountOK
      <3> QED BY <3>2, <3>3
    <2>8. ASSUME NEW b \in Agent PROVE ReporterOK(b)'
      <3>1. CASE b = a
        BY <2>0, <2>1, <2>3, <2>6, <3>1 DEF ReporterOK
      <3>2. CASE b # a /\ pc[b] = "reporting"
        <4>1. job[b].w \in Workflow /\ job[b].id \in Actions(job[b].w) /\ ReporterOK(b)
          BY <1>1, <3>2, JobFields DEF TypeOK, RunsInv
        <4>2. ~(job[b].w = w /\ job[b].id = k)
          BY <2>5, <3>2 DEF Reporter
        <4>3. runs'[job[b].w][job[b].id] = runs[job[b].w][job[b].id]
          BY <2>3, <4>1, <4>2
        <4> QED BY <2>1, <3>2, <4>1, <4>3 DEF ReporterOK, StateOf
      <3>3. CASE b # a /\ pc[b] # "reporting"
        BY <2>1, <3>3 DEF ReporterOK
      <3> QED BY <3>1, <3>2, <3>3
    <2> QED BY <2>7, <2>8 DEF RunsInv
  <1> QED BY <1>3, <1>4, <1>5, <1>6

\* An accepted Update records the end of an Action that was executed.
LEMMA HandlerCommitRuns ==
    ASSUME IInv, RunsInv, NEW a \in Agent, HandlerCommit(a)
    PROVE  RunsInv'
  <1>0. PICK w, k, n : w = call[a].w /\ k = call[a].id /\ n = call[a].upd.status
    OBVIOUS
  <1>1. /\ w \in Workflow /\ k \in Actions(w) /\ n \in Status(w) /\ Writes(w, n)
        /\ \A i \in Actions(w) : i # k => n.action[i].state = StateOf(w, i)
        /\ \/ pc[a] # "reporting" /\ StateOf(w, k) \in {"PENDING", "RUNNING"}
              /\ n.action[k].state \in {"PENDING", "RUNNING"}
           \/ /\ pc[a] = "reporting" /\ Reports(a, call[a], job[a].w, job[a].id, result[a])
              /\ n.action[k].state = result[a]
              /\ StateOf(w, k) \in {"RUNNING", result[a]}
              /\ result[a] \in {"SUCCESS", "FAILED", "TIMEOUT"}
    BY <1>0, CommitFacts
  <1>2. /\ \A i \in Actions(w) : StateOf(w, i)' = n.action[i].state
        /\ \A v \in Workflow : v # w => \A i \in Actions(v) : StateOf(v, i)' = StateOf(v, i)
    BY <1>1, WriteFacts DEF StateOf
  <1>3. /\ UNCHANGED <<pc, job, result, runs, faults>> /\ DOMAIN call = Agent
        /\ call' = [call EXCEPT ![a] = Answered(call[a])]
    BY DEF HandlerCommit, agentVars, IInv, TypeOK, CallsOK
  <1>4. \A b \in Agent : \A v, i : Reporter(b, v, i)' <=> Reporter(b, v, i)
    BY <1>3 DEF Reporter
  <1>5. pc[a] = "reporting" => w = job[a].w /\ k = job[a].id /\ runs[w][k] >= 1
    BY <1>0, <1>1 DEF Reports, RunsInv, ReporterOK
  <1>6. ASSUME NEW v \in Workflow, NEW i \in Actions(v) PROVE CountOK(v, i)'
    <2>1. CountOK(v, i)
      BY DEF RunsInv
    <2>2. CASE v = w /\ i = k
      BY <1>1, <1>2, <1>3, <1>4, <1>5, <2>1, <2>2 DEF CountOK
    <2>3. CASE ~(v = w /\ i = k)
      <3>1. StateOf(v, i)' = StateOf(v, i)
        BY <1>1, <1>2, <2>3
      <3> QED BY <1>3, <1>4, <2>1, <3>1 DEF CountOK
    <2> QED BY <2>2, <2>3
  <1>7. ASSUME NEW b \in Agent, pc[b] = "reporting" PROVE ReporterOK(b)'
    <2>1. /\ job[b].w \in Workflow /\ job[b].id \in Actions(job[b].w) /\ ReporterOK(b) /\ AgentOK(b)
      BY <1>7, JobFields DEF IInv, TypeOK, RunsInv
    <2>2. CASE b = a
      BY <1>1, <1>2, <1>3, <1>5, <1>7, <2>2 DEF ReporterOK
    <2>3. CASE b # a
      <3>1. call'[b] = call[b]
        BY <1>3, <2>3
      <3>2. ~(job[b].w = w /\ job[b].id = k)
        <4>1. Worker[job[b].w][TaskOf[job[b].w][job[b].id]] = b
          BY <1>7, <2>1 DEF AgentOK, Holds
        <4>2. Worker[w][TaskOf[w][k]] = a
          BY <1>0, CommitFacts
        <4> QED BY <2>3, <4>1, <4>2
      <3>3. StateOf(job[b].w, job[b].id)' = StateOf(job[b].w, job[b].id)
        <4>1. \A v \in Workflow : \A i \in Actions(v) :
                 ~(v = w /\ i = k) => StateOf(v, i)' = StateOf(v, i)
          BY <1>1, <1>2
        <4>2. PICK v \in Workflow : v = job[b].w
          BY <2>1
        <4>3. PICK i \in Actions(v) : i = job[b].id
          BY <2>1, <4>2
        <4>4. StateOf(v, i)' = StateOf(v, i)
          BY <3>2, <4>1, <4>2, <4>3
        <4> QED BY <1>3, <4>2, <4>3, <4>4 DEF StateOf
      <3> QED BY <1>3, <1>7, <2>1, <3>1, <3>3 DEF ReporterOK
    <2> QED BY <2>2, <2>3
  <1>8. \A b \in Agent : ReporterOK(b)'
    BY <1>3, <1>7 DEF ReporterOK
  <1> QED BY <1>6, <1>8 DEF RunsInv

\* Tink Server.
LEMMA ServerNextRuns == IInv /\ RunsInv /\ ServerNext => RunsInv'
  <1> SUFFICES ASSUME IInv, RunsInv, ServerNext PROVE RunsInv'
    OBVIOUS
  <1>1. TypeOK /\ late = {} /\ DOMAIN call = Agent
    BY DEF IInv, TypeOK, CallsOK
  <1>2. ASSUME NEW w \in Workflow, ServerSync(w) PROVE RunsInv'
    BY <1>1, <1>2, RunsSame DEF ServerSync, StateOf
  <1>3. ASSUME NEW a \in Agent, \/ GetActionRead(a) \/ GetActionError(a)
                                \/ ReportActionStatusRead(a) \/ HandlerConflict(a)
        PROVE  RunsInv'
    <2>1. call'[a].phase # "done"
      BY <1>1, <1>3 DEF GetActionRead, GetActionError, ReportActionStatusRead, HandlerConflict,
         Serving, Refused, Reporting, Retried, GetCall, ReportCall, Call
    <2>2. /\ UNCHANGED <<wf, pc, job, result, runs, faults>>
          /\ \A b \in Agent : b # a => call'[b] = call[b]
      BY <1>1, <1>3 DEF GetActionRead, GetActionError, ReportActionStatusRead, HandlerConflict,
         agentVars
    <2>3. ReporterOK(a)'
      BY <2>1, <2>2 DEF RunsInv, ReporterOK
    <2> QED BY <1>1, <2>2, <2>3, RunsAgent DEF Reporter
  <1> QED BY <1>1, <1>2, <1>3, HandlerCommitRuns DEF ServerNext

\* The Tink Controller.
LEMMA ControllerNextRuns == IInv /\ RunsInv /\ ControllerNext => RunsInv'
  <1> SUFFICES ASSUME IInv, RunsInv, ControllerNext PROVE RunsInv'
    OBVIOUS
  <1>1. UNCHANGED agentVars /\ UNCHANGED call /\ faults' \in {faults, faults + 1}
    BY DEF ControllerNext, ControllerSync, Resync, ReconcileRunning, ReconcilePost,
       ReconcileNothing, Dequeue, mergePatchStatus, PatchFails, TimerFires, DeadlinePasses,
       ControllerRestart
  <1>2. CASE UNCHANGED wf
    BY <1>1, <1>2, RunsSame DEF StateOf, IInv
  <1>3. CASE \E w \in Workflow : mergePatchStatus(w)
    BY <1>1, <1>3, PatchKeepsActions, RunsSame DEF IInv
  <1> QED BY <1>2, <1>3 DEF ControllerNext, ControllerSync, Resync, ReconcileRunning,
       ReconcilePost, ReconcileNothing, Dequeue, PatchFails, TimerFires, DeadlinePasses,
       ControllerRestart

\* What is recorded as a success was executed, and an Action is executed
\* again only after a fault: AgentExecuted runs an Action that has not ended,
\* and an agent forgets that it executed one only when a fault makes it.
THEOREM ExecutionsAreAccounted == ASSUME ~LateCalls PROVE Spec => []ExecutionsAccounted
  <1>1. Init => RunsInv
    <2> SUFFICES ASSUME Init PROVE RunsInv
      OBVIOUS
    <2>1. ASSUME NEW w \in Workflow, NEW k \in Actions(w) PROVE CountOK(w, k)
      <3>1. runs[w][k] = 0 /\ faults = 0 /\ StateOf(w, k) = "PENDING"
        BY DEF Init, StateOf, YAMLToStatus
      <3> QED BY <3>1 DEF CountOK
    <2>2. \A a \in Agent : ReporterOK(a)
      BY DEF Init, ReporterOK
    <2> QED BY <2>1, <2>2 DEF RunsInv
  <1>2. IInv /\ RunsInv /\ [Next]_vars => RunsInv'
    <2> SUFFICES ASSUME IInv, RunsInv, [Next]_vars PROVE RunsInv'
      OBVIOUS
    <2>1. CASE UNCHANGED vars
      BY <2>1, RunsSame DEF vars, agentVars, StateOf, IInv
    <2> QED BY <2>1, ServerNextRuns, AgentNextRuns, ControllerNextRuns DEF Next
  <1>3. RunsInv => ExecutionsAccounted
    BY DEF RunsInv, CountOK, ExecutionsAccounted
  <1> QED BY <1>1, <1>2, <1>3, Invariance, PTL DEF Spec

=============================================================================
