--------------------------- MODULE TinkController ---------------------------
(***************************************************************************)
(* The Tink Controller's reconciler for Workflows that have been rendered  *)
(* and have no boot options.  A reconcile reads the Workflow from the      *)
(* informer cache, computes a new status and sends the difference as a     *)
(* merge patch: only the fields it changed, without a resourceVersion.     *)
(***************************************************************************)
EXTENDS TinkState

\* All Actions of Task t, where currentState is, are done; the next Task is
\* not empty and has not started.
TaskIsOver(w, s, t) ==
    /\ t < Len(Worker[w])
    /\ \A k \in Actions(w) : TaskOf[w][k] = t => s.action[k].state = "SUCCESS"
    /\ \E k \in Actions(w) :
          TaskOf[w][k] = t + 1 /\ IsFirst(w, k) /\ s.action[k].state = "PENDING"

\* The agent of the next Task, patched into status.agentID if it differs.
updateAgentIDIfNeeded(w, s) ==
    IF s.currentState.actionID = 0
    THEN None
    ELSE LET t == TaskOf[w][s.currentState.actionID]
         IN  IF TaskIsOver(w, s, t) /\ Worker[w][t + 1] # s.agentID
             THEN Worker[w][t + 1]
             ELSE None

\* firstAction: the first Action of the first Task, which may be empty.
AtFirstAction(w, s) ==
    /\ s.currentState.actionID = 1
    /\ TaskOf[w][1] = 1

\* Mutant of RunningPatch: the global timeout is armed but not checked.
RunningPatchNoTimeout(w, s) ==
    IF ~s.globalExecutionStop /\ AtFirstAction(w, s)
    THEN IF s.action[1].executionStart
         THEN [NoPatch EXCEPT !.agentID = updateAgentIDIfNeeded(w, s), !.stop = TRUE]
         ELSE NoPatch
    ELSE [NoPatch EXCEPT !.agentID = updateAgentIDIfNeeded(w, s)]

\* The patch of the RUNNING branch of Reconcile.
RunningPatch(w, s) ==
    IF s.globalExecutionStop /\ elapsed[w]
    THEN [NoPatch EXCEPT !.state = "TIMEOUT"]
    ELSE IF ~s.globalExecutionStop /\ AtFirstAction(w, s)
    THEN IF s.action[1].executionStart
         THEN [NoPatch EXCEPT !.agentID = updateAgentIDIfNeeded(w, s), !.stop = TRUE]
         ELSE NoPatch
    ELSE [NoPatch EXCEPT !.agentID = updateAgentIDIfNeeded(w, s)]

\* The patch of the POST branch: postActions without boot options.
PostPatch(s) ==
    IF s.currentState.actionID # 0
    THEN [NoPatch EXCEPT !.state = s.currentState.state]
    ELSE NoPatch

\* Mutant of Patched: every field is written, also the ones left out.
PatchedWhole(s, p) ==
    [s EXCEPT !.state = p.state, !.agentID = p.agentID,
              !.globalExecutionStop = @ \/ p.stop]

\* The API server merges a patch into the object as it is now.
Patched(s, p) ==
    [s EXCEPT !.state = IF p.state = None THEN @ ELSE p.state,
              !.agentID = IF p.agentID = None THEN @ ELSE p.agentID,
              !.globalExecutionStop = @ \/ p.stop]

----------------------------------------------------------------------------
(* Actions *)

\* A watch event: the cache takes the object and the key is queued.
ControllerSync(w) ==
    /\ ccache[w] # wf[w]
    /\ ccache' = [ccache EXCEPT ![w] = wf[w]]
    /\ queued' = [queued EXCEPT ![w] = TRUE]
    /\ UNCHANGED <<wf, serverVars, call, agentVars, patch, timer, elapsed, faults>>

\* The informer's periodic resync (every ten hours by default) queues the
\* key although nothing changed.
Resync(w) ==
    /\ ~queued[w]
    /\ queued' = [queued EXCEPT ![w] = TRUE]
    /\ UNCHANGED <<wf, serverVars, call, agentVars, ccache, patch, timer, elapsed, faults>>

\* The work queue hands a key to one worker at a time.
Dequeue(w) ==
    /\ queued[w] /\ patch[w] = NoPatch
    /\ queued' = [queued EXCEPT ![w] = FALSE]
    /\ UNCHANGED <<wf, serverVars, call, agentVars, ccache, timer, elapsed, faults>>

ReconcileRunning(w) ==
    /\ ccache[w].status.state = "RUNNING"
    /\ Dequeue(w)
    /\ patch' = [patch EXCEPT ![w] = RunningPatch(w, ccache[w].status)]

ReconcilePost(w) ==
    /\ ccache[w].status.state = "POST"
    /\ Dequeue(w)
    /\ patch' = [patch EXCEPT ![w] = PostPatch(ccache[w].status)]

\* PENDING, TIMEOUT, FAILED and SUCCESS: nothing to do.
ReconcileNothing(w) ==
    /\ ccache[w].status.state \in {"PENDING", "TIMEOUT", "FAILED", "SUCCESS"}
    /\ Dequeue(w)
    /\ UNCHANGED patch

\* The patch reaches the API server.  Setting globalExecutionStop moves the
\* deadline into the future and returns RequeueAfter.
mergePatchStatus(w) ==
    /\ patch[w] # NoPatch
    /\ wf' = [wf EXCEPT ![w] = Written(wf[w], Patched(wf[w].status, patch[w]))]
    /\ timer' = [timer EXCEPT ![w] = @ \/ patch[w].stop]
    /\ elapsed' = [elapsed EXCEPT ![w] = @ /\ ~patch[w].stop]
    /\ patch' = [patch EXCEPT ![w] = NoPatch]
    /\ UNCHANGED <<serverVars, call, agentVars, ccache, queued, faults>>

\* The patch fails; the returned error puts the key back on the queue.
PatchFails(w) ==
    /\ faults < MaxFaults /\ faults' = faults + 1
    /\ patch[w] # NoPatch
    /\ patch' = [patch EXCEPT ![w] = NoPatch]
    /\ queued' = [queued EXCEPT ![w] = TRUE]
    /\ UNCHANGED <<wf, serverVars, call, agentVars, ccache, timer, elapsed>>

\* RequeueAfter expires.
TimerFires(w) ==
    /\ timer[w] /\ elapsed[w]
    /\ timer' = [timer EXCEPT ![w] = FALSE]
    /\ queued' = [queued EXCEPT ![w] = TRUE]
    /\ UNCHANGED <<wf, serverVars, call, agentVars, ccache, patch, elapsed, faults>>

\* The clock passes the stored globalExecutionStop.
DeadlinePasses(w) ==
    /\ wf[w].status.globalExecutionStop /\ ~elapsed[w]
    /\ elapsed' = [elapsed EXCEPT ![w] = TRUE]
    /\ UNCHANGED <<wf, serverVars, call, agentVars, ccache, queued, patch, timer, faults>>

\* The controller dies and starts again: its queue and its timers are lost,
\* the new cache is listed afresh and every object in it is queued.
ControllerRestart ==
    /\ faults < MaxFaults /\ faults' = faults + 1
    /\ ccache' = wf
    /\ queued' = [w \in Workflow |-> TRUE]
    /\ patch' = [w \in Workflow |-> NoPatch]
    /\ timer' = [w \in Workflow |-> FALSE]
    /\ UNCHANGED <<wf, serverVars, call, agentVars, elapsed>>

ControllerNext ==
    \/ \E w \in Workflow :
          \/ ControllerSync(w) \/ Resync(w)
          \/ ReconcileRunning(w) \/ ReconcilePost(w) \/ ReconcileNothing(w)
          \/ mergePatchStatus(w) \/ PatchFails(w)
          \/ TimerFires(w) \/ DeadlinePasses(w)
    \/ ControllerRestart

=============================================================================
