----------------------------- MODULE TinkAgent -----------------------------
(***************************************************************************)
(* The loop of tink agent with the gRPC transport: read an Action, report  *)
(* it RUNNING, execute it, report how it ended.  An error on the first two *)
(* steps sends the agent back to reading, an error on the last report is   *)
(* retried without end.  Connections fail and agents crash and restart.    *)
(***************************************************************************)
EXTENDS TinkState

\* What becomes of the handler when the client of call c is gone: cancelled
\* with its context, or, when the server does not notice, left running.
Abandon(c) ==
    late' = IF LateCalls /\ c.phase \in {"sent", "writing"} THEN late \cup {c} ELSE late

Fault == faults < MaxFaults /\ faults' = faults + 1

AgentRead(a) ==
    /\ pc[a] = "ready"
    /\ pc' = [pc EXCEPT ![a] = "reading"]
    /\ call' = [call EXCEPT ![a] = GetCall(a)]
    /\ UNCHANGED <<wf, serverVars, job, result, runs, controllerVars, faults>>

\* Read failed: back off and read again.
AgentReadError(a) ==
    /\ pc[a] = "reading" /\ call[a].phase = "failed"
    /\ pc' = [pc EXCEPT ![a] = "ready"]
    /\ call' = [call EXCEPT ![a] = NoCall]
    /\ UNCHANGED <<wf, serverVars, job, result, runs, controllerVars, faults>>

\* The Action arrives; the agent reports that it is running.
AgentReceive(a) ==
    /\ pc[a] = "reading" /\ call[a].phase = "done"
    /\ pc' = [pc EXCEPT ![a] = "announcing"]
    /\ job' = [job EXCEPT ![a] = [w |-> call[a].w, id |-> call[a].id]]
    /\ call' = [call EXCEPT ![a] = ReportCall(a, call[a].w, call[a].id, "RUNNING")]
    /\ UNCHANGED <<wf, serverVars, result, runs, controllerVars, faults>>

\* The RUNNING report is answered; the Action is handed to the runtime.
AgentExecute(a) ==
    /\ pc[a] = "announcing" /\ call[a].phase = "done"
    /\ pc' = [pc EXCEPT ![a] = "executing"]
    /\ call' = [call EXCEPT ![a] = NoCall]
    /\ UNCHANGED <<wf, serverVars, job, result, runs, controllerVars, faults>>

\* The runtime is done.  The transport asks for no retries, so it ran once.
AgentExecuted(a, st) ==
    /\ pc[a] = "executing"
    /\ pc' = [pc EXCEPT ![a] = "reporting"]
    /\ result' = [result EXCEPT ![a] = st]
    /\ call' = [call EXCEPT ![a] = ReportCall(a, job[a].w, job[a].id, st)]
    /\ runs' = [runs EXCEPT ![job[a].w][job[a].id] = @ + 1]
    /\ UNCHANGED <<wf, serverVars, job, controllerVars, faults>>

AgentReported(a) ==
    /\ pc[a] = "reporting" /\ call[a].phase = "done"
    /\ pc' = [pc EXCEPT ![a] = "ready"]
    /\ job' = [job EXCEPT ![a] = NoJob]
    /\ result' = [result EXCEPT ![a] = None]
    /\ call' = [call EXCEPT ![a] = NoCall]
    /\ UNCHANGED <<wf, serverVars, runs, controllerVars, faults>>

\* The connection breaks during a call: before the handler read, between its
\* read and its write, or after the write, when only the answer is lost.
CallLost(a) ==
    /\ Fault
    /\ call[a].phase \in {"sent", "writing", "done"}
    /\ Abandon(call[a])
    /\ IF pc[a] = "reporting"
       THEN /\ call' = [call EXCEPT ![a] = ReportCall(a, job[a].w, job[a].id, result[a])]
            /\ UNCHANGED <<pc, job>>
       ELSE /\ call' = [call EXCEPT ![a] = NoCall]
            /\ pc' = [pc EXCEPT ![a] = "ready"]
            /\ job' = [job EXCEPT ![a] = NoJob]
    /\ UNCHANGED <<wf, scache, result, runs, controllerVars>>

\* The agent, or its machine, dies; what it was doing is forgotten.
AgentCrash(a) ==
    /\ Fault
    /\ pc[a] # "down"
    /\ Abandon(call[a])
    /\ pc' = [pc EXCEPT ![a] = "down"]
    /\ job' = [job EXCEPT ![a] = NoJob]
    /\ result' = [result EXCEPT ![a] = None]
    /\ call' = [call EXCEPT ![a] = NoCall]
    /\ UNCHANGED <<wf, scache, runs, controllerVars>>

AgentRestart(a) ==
    /\ pc[a] = "down"
    /\ pc' = [pc EXCEPT ![a] = "ready"]
    /\ UNCHANGED <<wf, serverVars, call, job, result, runs, controllerVars, faults>>

AgentNext ==
    \E a \in Agent :
        \/ AgentRead(a) \/ AgentReadError(a) \/ AgentReceive(a)
        \/ AgentExecute(a) \/ AgentReported(a)
        \/ \E st \in {"SUCCESS", "FAILED", "TIMEOUT"} : AgentExecuted(a, st)
        \/ CallLost(a) \/ AgentCrash(a) \/ AgentRestart(a)

=============================================================================
