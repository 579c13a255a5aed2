----------------------------- MODULE TinkServer -----------------------------
(***************************************************************************)
(* Tink Server's gRPC handlers GetAction and ReportActionStatus.  Each is  *)
(* a read of the Workflow from the informer cache followed by an Update of *)
(* its status under the resourceVersion that was read; a failed attempt is *)
(* repeated by backoff.Retry.  The two halves are separate actions, so any *)
(* other party may step between them.                                      *)
(***************************************************************************)
EXTENDS TinkState

----------------------------------------------------------------------------
(* Choosing the Action to serve *)

\* The Task has Actions and the first one is pending.
isFirstAction(w, s, t) ==
    \E k \in Actions(w) :
        TaskOf[w][k] = t /\ IsFirst(w, k) /\ s.action[k].state = "PENDING"

\* An empty Task counts as successful, another when its last Action does.
isTaskSuccessful(w, s, t) ==
    \A k \in Actions(w) :
        TaskOf[w][k] = t /\ IsLast(w, k) => s.action[k].state = "SUCCESS"

\* The Task doGetAction picks: the first one if it has not started, else the
\* first one that is not successful.
PicksTask(w, s, t) ==
    IF isFirstAction(w, s, 1)
    THEN t = 1
    ELSE /\ t \in Tasks(w)
         /\ ~isTaskSuccessful(w, s, t)
         /\ \A u \in Tasks(w) : u < t => isTaskSuccessful(w, s, u)

\* Mutant of resolveAction: an Action in progress is not served again.
ResolveOnlyNext(w, s, t, k) ==
    /\ TaskOf[w][k] = t
    /\ IF isFirstAction(w, s, t)
       THEN IsFirst(w, k)
       ELSE /\ s.currentState.state = "SUCCESS"
            /\ k = s.currentState.actionID + 1
            /\ TaskOf[w][s.currentState.actionID] = t

\* The Action resolveAction picks in Task t: its first one if that is
\* pending, else the one in progress, else the one after the last success.
resolveAction(w, s, t, k) ==
    /\ TaskOf[w][k] = t
    /\ IF isFirstAction(w, s, t)
       THEN IsFirst(w, k)
       ELSE \/ s.currentState.state \in {"PENDING", "RUNNING"} /\ k = s.currentState.actionID
            \/ /\ s.currentState.state = "SUCCESS"
               /\ k = s.currentState.actionID + 1
               /\ TaskOf[w][s.currentState.actionID] = t

\* doGetAction, for one listed Workflow: Action k of w is served to agent a.
Serves(w, s, a, k) ==
    /\ s.state \in {"PENDING", "RUNNING"}
    /\ \E t \in Tasks(w) :
          PicksTask(w, s, t) /\ resolveAction(w, s, t, k) /\ Worker[w][t] = a

\* The status GetAction writes before it answers.
ServeStatus(s, k) ==
    [s EXCEPT !.currentState = [actionID |-> k, state |-> s.action[k].state]]

\* Mutant of ReportStatus: POST at the end of any Task.
ReportPostEarly(w, s, k, st) ==
    [s EXCEPT
        !.action[k] = [state |-> st, executionStart |-> st # "RUNNING"],
        !.state = IF st # "SUCCESS" THEN st
                  ELSE IF IsLast(w, k) THEN "POST"
                  ELSE @,
        !.currentState = [actionID |-> k, state |-> st]]

\* The status ReportActionStatus writes.  The agent sets ExecutionStart only
\* after the RUNNING report; the zero time that report carries is null in
\* the stored object.
ReportStatus(w, s, k, st) ==
    [s EXCEPT
        !.action[k] = [state |-> st, executionStart |-> st # "RUNNING"],
        !.state = IF st # "SUCCESS" THEN st
                  ELSE IF TaskOf[w][k] = Len(Worker[w]) /\ IsLast(w, k) THEN "POST"
                  ELSE @,
        !.currentState = [actionID |-> k, state |-> st]]

----------------------------------------------------------------------------
(* The steps of the handler of a call c *)

\* GetAction lists the Workflows whose status.agentID is the caller's, in no
\* particular order, and looks no further than the first it meets.
Listed(c) == {w \in Workflow : scache[w].status.agentID = c.agent}

CanServe(c, w, k) ==
    /\ c.op = "get" /\ c.phase = "sent"
    /\ w \in Listed(c)
    /\ Serves(w, scache[w].status, c.agent, k)

Serving(c, w, k) ==
    Call("get", c.agent, "writing", w, k, None,
         [rv |-> scache[w].rv, status |-> ServeStatus(scache[w].status, k)])

\* No Workflow is listed, or the first one listed has nothing for this agent.
\* Retries that end the same way change nothing; the last one is answered.
NothingToServe(c) ==
    /\ c.op = "get" /\ c.phase = "sent"
    /\ \/ Listed(c) = {}
       \/ \E w \in Listed(c) : \A k \in Actions(w) :
             ~Serves(w, scache[w].status, c.agent, k)

\* ReportActionStatus reads the Workflow and finds the Action by its ID and
\* its Task's agent.  It looks neither at the Workflow's state nor at the
\* state the Action is in.
CanReport(c) ==
    /\ c.op = "report" /\ c.phase = "sent"
    /\ Worker[c.w][TaskOf[c.w][c.id]] = c.agent

Reporting(c) ==
    Call("report", c.agent, "writing", c.w, c.id, c.state,
         [rv |-> scache[c.w].rv,
          status |-> ReportStatus(c.w, scache[c.w].status, c.id, c.state)])

\* Mutant of CanCommit: the Update is sent without a resourceVersion.
CommitAnyVersion(c) == c.phase = "writing"

\* The API server takes an Update whose resourceVersion is still current ...
CanCommit(c) == c.phase = "writing" /\ c.upd.rv = wf[c.w].rv

\* ... and refuses any other; backoff.Retry starts over from the read.
Conflicts(c) == c.phase = "writing" /\ c.upd.rv # wf[c.w].rv

UpdateWorkflow(c) == wf' = [wf EXCEPT ![c.w] = Written(wf[c.w], c.upd.status)]

Answered(c) == Call(c.op, c.agent, "done", c.w, c.id, c.state, None)

Refused(a) == Call("get", a, "failed", None, 0, None, None)

\* Mutant of Retried: the status computed before the conflict is sent again
\* under the new resourceVersion.
RetriedStale(c) ==
    Call(c.op, c.agent, "writing", c.w, c.id, c.state,
         [rv |-> wf[c.w].rv, status |-> c.upd.status])

Retried(c) ==
    IF c.op = "get" THEN GetCall(c.agent) ELSE ReportCall(c.agent, c.w, c.id, c.state)

----------------------------------------------------------------------------
(* Actions *)

\* A watch event brings the server's cache up to date.
ServerSync(w) ==
    /\ scache[w] # wf[w]
    /\ scache' = [scache EXCEPT ![w] = wf[w]]
    /\ UNCHANGED <<wf, call, late, agentVars, controllerVars, faults>>

GetActionRead(a) ==
    /\ \E w \in Workflow : \E k \in Actions(w) :
          /\ CanServe(call[a], w, k)
          /\ call' = [call EXCEPT ![a] = Serving(call[a], w, k)]
    /\ UNCHANGED <<wf, serverVars, agentVars, controllerVars, faults>>

GetActionError(a) ==
    /\ NothingToServe(call[a])
    /\ call' = [call EXCEPT ![a] = Refused(a)]
    /\ UNCHANGED <<wf, serverVars, agentVars, controllerVars, faults>>

ReportActionStatusRead(a) ==
    /\ CanReport(call[a])
    /\ call' = [call EXCEPT ![a] = Reporting(call[a])]
    /\ UNCHANGED <<wf, serverVars, agentVars, controllerVars, faults>>

HandlerCommit(a) ==
    /\ CanCommit(call[a])
    /\ UpdateWorkflow(call[a])
    /\ call' = [call EXCEPT ![a] = Answered(call[a])]
    /\ UNCHANGED <<serverVars, agentVars, controllerVars, faults>>

HandlerConflict(a) ==
    /\ Conflicts(call[a])
    /\ call' = [call EXCEPT ![a] = Retried(call[a])]
    /\ UNCHANGED <<wf, serverVars, agentVars, controllerVars, faults>>

\* The handler of an abandoned call goes on as if its client were there,
\* until it has written or its context is cancelled.
LateRead(c) ==
    /\ \/ \E w \in Workflow : \E k \in Actions(w) :
             CanServe(c, w, k) /\ late' = (late \ {c}) \cup {Serving(c, w, k)}
       \/ CanReport(c) /\ late' = (late \ {c}) \cup {Reporting(c)}
    /\ UNCHANGED <<wf, scache, call, agentVars, controllerVars, faults>>

LateCommit(c) ==
    /\ CanCommit(c)
    /\ UpdateWorkflow(c)
    /\ late' = late \ {c}
    /\ UNCHANGED <<scache, call, agentVars, controllerVars, faults>>

LateConflict(c) ==
    /\ Conflicts(c)
    /\ late' = (late \ {c}) \cup {Retried(c)}
    /\ UNCHANGED <<wf, scache, call, agentVars, controllerVars, faults>>

LateEnd(c) ==
    /\ late' = late \ {c}
    /\ UNCHANGED <<wf, scache, call, agentVars, controllerVars, faults>>

ServerNext ==
    \/ \E w \in Workflow : ServerSync(w)
    \/ \E a \in Agent : \/ GetActionRead(a) \/ GetActionError(a)
                        \/ ReportActionStatusRead(a)
                        \/ HandlerCommit(a) \/ HandlerConflict(a)
    \/ \E c \in late : LateRead(c) \/ LateCommit(c) \/ LateConflict(c) \/ LateEnd(c)

=============================================================================
