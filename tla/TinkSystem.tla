----------------------------- MODULE TinkSystem -----------------------------
(***************************************************************************)
(* Agents, Tink Server and the Tink Controller executing Workflows         *)
(* together, and what their interplay guarantees.                          *)
(***************************************************************************)
EXTENDS TinkServer, TinkAgent, TinkController

Next == ServerNext \/ AgentNext \/ ControllerNext

Spec == Init /\ [][Next]_vars

(***************************************************************************)
(* Fairness.  Informers deliver watch events, the work queue runs what is  *)
(* queued, timers fire, and Tink Server runs the handlers it accepted: all *)
(* weakly fair.  So are the steps of a running agent; an Action ends at    *)
(* the latest by its timeout.  A crashed agent is started again (HookOS    *)
(* restarts the agent container, the machine is powered on again) in       *)
(* FairSpec.  FairServices has only the services run: agents may stall or  *)
(* stay down for good, and the clock need not pass a deadline.             *)
(***************************************************************************)
ServiceFairness ==
    /\ \A w \in Workflow :
          /\ WF_vars(ServerSync(w))
          /\ WF_vars(ControllerSync(w))
          /\ WF_vars(ReconcileRunning(w) \/ ReconcilePost(w) \/ ReconcileNothing(w))
          /\ WF_vars(mergePatchStatus(w))
          /\ WF_vars(Resync(w))
          /\ WF_vars(TimerFires(w))
    /\ \A a \in Agent :
          WF_vars(\/ GetActionRead(a) \/ GetActionError(a) \/ ReportActionStatusRead(a)
                  \/ HandlerCommit(a) \/ HandlerConflict(a))

AgentFairness ==
    \A a \in Agent :
        WF_vars(\/ AgentRead(a) \/ AgentReadError(a) \/ AgentReceive(a)
                \/ AgentExecute(a) \/ AgentReported(a) \/ AgentRestart(a)
                \/ \E st \in {"SUCCESS", "FAILED", "TIMEOUT"} : AgentExecuted(a, st))

ClockFairness == \A w \in Workflow : WF_vars(DeadlinePasses(w))

FairServices == Spec /\ ServiceFairness
FairSpec == FairServices /\ AgentFairness

----------------------------------------------------------------------------
(* Types *)

\* The fields of a call follow its phase: an Update exists only while the
\* handler is writing, and then it is one of the Workflow the call is for.
Reported(op) == IF op = "get" THEN {None} ELSE ActionState

IsCall(c) ==
    \/ c = NoCall
    \/ \E a \in Agent : c = GetCall(a) \/ c = Refused(a)
    \/ \E w \in Workflow : \E op \in {"get", "report"} :
          \/ /\ op = "report"
             /\ c \in [op: {op}, agent: Agent, phase: {"sent"}, w: {w}, id: Actions(w),
                       state: Reported(op), upd: {None}]
          \/ c \in [op: {op}, agent: Agent, phase: {"writing"}, w: {w}, id: Actions(w),
                    state: Reported(op), upd: Object(w)]
          \/ c \in [op: {op}, agent: Agent, phase: {"done"}, w: {w}, id: Actions(w),
                    state: Reported(op), upd: {None}]

IsJob(j) == j = NoJob \/ \E w \in Workflow : j \in [w: {w}, id: Actions(w)]

Patch == [state: WorkflowState \cup {None}, agentID: Agent \cup {None}, stop: BOOLEAN]

ObjectsOK ==
    /\ DOMAIN wf = Workflow /\ DOMAIN scache = Workflow /\ DOMAIN ccache = Workflow
    /\ \A w \in Workflow :
          wf[w] \in Object(w) /\ scache[w] \in Object(w) /\ ccache[w] \in Object(w)

CallsOK ==
    /\ DOMAIN call = Agent
    /\ \A a \in Agent : IsCall(call[a])
    /\ \A c \in late : IsCall(c)

AgentsOK ==
    /\ pc \in [Agent -> {"down", "ready", "reading", "announcing", "executing", "reporting"}]
    /\ DOMAIN job = Agent
    /\ result \in [Agent -> ActionState \cup {None}]
    /\ \A a \in Agent :
          /\ IsJob(job[a])
          /\ pc[a] \in {"announcing", "executing", "reporting"} <=> job[a] # NoJob
          /\ pc[a] = "reporting" <=> result[a] # None
    /\ DOMAIN runs = Workflow
    /\ \A w \in Workflow : runs[w] \in [Actions(w) -> Nat]

ControllerOK ==
    /\ queued \in [Workflow -> BOOLEAN]
    /\ patch \in [Workflow -> Patch]
    /\ timer \in [Workflow -> BOOLEAN]
    /\ elapsed \in [Workflow -> BOOLEAN]
    /\ faults \in 0..MaxFaults

\* Every variable keeps its type: in particular no handler and no reconcile
\* reaches outside the Tasks and Actions that were rendered, and an agent
\* holds an Action exactly from GetAction's answer to the final report's.
TypeOK == ObjectsOK /\ CallsOK /\ AgentsOK /\ ControllerOK

----------------------------------------------------------------------------
(* Safety *)

StateOf(w, k) == wf[w].status.action[k].state

\* The Actions of a Workflow run in the order of the template, across Tasks
\* and agents: an Action that has left PENDING has only successful ones
\* before it.
ActionOrder ==
    \A w \in Workflow : \A i, j \in Actions(w) :
        i < j /\ StateOf(w, j) # "PENDING" => StateOf(w, i) = "SUCCESS"

\* The Action in an agent's runtime is the one the Workflow has in progress:
\* recorded as RUNNING, assigned to this agent, every earlier one done.
ExecutesFrontier ==
    \A a \in Agent : pc[a] = "executing" =>
        LET w == job[a].w  k == job[a].id
        IN  /\ Worker[w][TaskOf[w][k]] = a
            /\ StateOf(w, k) = "RUNNING"
            /\ \A i \in Actions(w) : i < k => StateOf(w, i) = "SUCCESS"

\* Two machines never execute Actions of one Workflow at the same time.
OneExecutor ==
    \A a, b \in Agent :
        a # b /\ pc[a] = "executing" /\ pc[b] = "executing" => job[a].w # job[b].w

\* POST, and with it the SUCCESS of the Workflow and the post actions, is
\* reached only when every Action has succeeded.
PostMeansDone ==
    \A w \in Workflow : wf[w].status.state \in {"POST", "SUCCESS"} =>
        \A k \in Actions(w) : StateOf(w, k) = "SUCCESS"

\* Executions are counted: what is recorded as a success was executed, and
\* an Action is executed again only after a fault (an agent that died before
\* its report), never because of a stale cache or a repeated report.
ExecutionsAccounted ==
    \A w \in Workflow : \A k \in Actions(w) :
        /\ StateOf(w, k) = "SUCCESS" => runs[w][k] >= 1
        /\ runs[w][k] <= 1 + faults

\* An Action whose end is recorded keeps that outcome: no late, repeated or
\* conflicting report takes a success back or runs a failed Action again.
OutcomeKept ==
    [][\A w \in Workflow : \A k \in Actions(w) :
         StateOf(w, k) \in {"SUCCESS", "FAILED", "TIMEOUT"} => StateOf(w, k)' = StateOf(w, k)]_vars

\* Writing under a resourceVersion makes the read and the write of a handler
\* one step: an Update the API server takes is computed from the very status
\* it replaces, also for a handler whose client is gone.
Atomic(c) ==
    CanCommit(c) =>
        LET s == wf[c.w].status
        IN  IF c.op = "get"
            THEN Serves(c.w, s, c.agent, c.id) /\ c.upd.status = ServeStatus(s, c.id)
            ELSE c.upd.status = ReportStatus(c.w, s, c.id, c.state)

HandlerAtomic == \A c \in late \cup {call[a] : a \in Agent} : Atomic(c)

\* The detailed system implements SequentialWorkflow: seen through the
\* states of its Actions, every step of every party starts the next Action,
\* ends the running one, or changes nothing.
Sequential == INSTANCE SequentialWorkflow WITH
    Position <- [w \in Workflow |-> Actions(w)],
    outcome <- [w \in Workflow |-> [k \in Actions(w) |-> StateOf(w, k)]]

RunsSequentially == Sequential!Spec

----------------------------------------------------------------------------
(***************************************************************************)
(* The inductive invariant behind the safety properties, for handlers that *)
(* do not outlive their clients.                                           *)
(***************************************************************************)

\* A status the parties can produce, whoever holds a copy of it.
StatusInv(w, s) ==
    /\ \A i, j \in Actions(w) :
          i < j /\ s.action[j].state # "PENDING" => s.action[i].state = "SUCCESS"
    /\ s.state \in {"POST", "SUCCESS"} =>
          \A k \in Actions(w) : s.action[k].state = "SUCCESS"
    /\ s.currentState.actionID # 0 =>
          LET k == s.currentState.actionID
          IN  /\ s.currentState.state = s.action[k].state
              /\ \A i \in Actions(w) : i < k => s.action[i].state = "SUCCESS"
              /\ s.action[k].state = "SUCCESS" =>
                    \A j \in Actions(w) : j = k + 1 /\ TaskOf[w][j] = TaskOf[w][k] =>
                        s.action[j].state = "PENDING"

\* The caches lag behind the API server but never contradict it, and a patch
\* on its way to the API server cannot announce a success that is not there.
CacheOK(w) ==
    /\ StatusInv(w, wf[w].status)
    /\ StatusInv(w, ccache[w].status)
    /\ scache[w].rv <= wf[w].rv
    /\ scache[w].rv = wf[w].rv => scache[w] = wf[w]
    /\ \A k \in Actions(w) :
          ccache[w].status.action[k].state = "SUCCESS" => StateOf(w, k) = "SUCCESS"
    /\ patch[w].state \in {None, "TIMEOUT", "SUCCESS"}
    /\ patch[w].state = "SUCCESS" => \A k \in Actions(w) : StateOf(w, k) = "SUCCESS"

\* Agent a has been served Action k of w and has not reported its end.
Holds(a, w, k, states) ==
    /\ Worker[w][TaskOf[w][k]] = a
    /\ StateOf(w, k) \in states
    /\ \A i \in Actions(w) : i < k => StateOf(w, i) = "SUCCESS"
    /\ \A j \in Actions(w) : k < j /\ Worker[w][TaskOf[w][j]] = a => StateOf(w, j) = "PENDING"

\* The call c that agent a waits for reports Action k of w, which it holds.
Reports(a, c, w, k, st) ==
    c.op = "report" /\ c.agent = a /\ c.w = w /\ c.id = k /\ c.state = st

\* An agent, the call it waits for and the Action it holds agree.
AgentOK(a) ==
    LET c == call[a]  w == job[a].w  k == job[a].id
    IN  /\ pc[a] \in {"down", "ready", "executing"} => c = NoCall
        /\ pc[a] = "reading" =>
              /\ c.op = "get" /\ c.agent = a
              /\ c.phase = "done" => Holds(a, c.w, c.id, {"PENDING", "RUNNING"})
        /\ pc[a] = "announcing" =>
              /\ Reports(a, c, w, k, "RUNNING")
              /\ Holds(a, w, k, IF c.phase = "done" THEN {"RUNNING"} ELSE {"PENDING", "RUNNING"})
        /\ pc[a] = "executing" => Holds(a, w, k, {"RUNNING"})
        /\ pc[a] = "reporting" =>
              /\ Reports(a, c, w, k, result[a])
              /\ result[a] \in {"SUCCESS", "FAILED", "TIMEOUT"}
              /\ Holds(a, w, k, {"RUNNING", result[a]})
        /\ c.phase = "writing" => c.upd.rv <= wf[c.w].rv

\* The inductive invariant.
IInv ==
    /\ TypeOK
    /\ late = {}
    /\ HandlerAtomic
    /\ \A w \in Workflow : CacheOK(w)
    /\ \A a \in Agent : AgentOK(a)

----------------------------------------------------------------------------
(* Claims of comments that the code does not keep *)

\* "Post Action handling must only change the Status.State if the
\* status.State was not a failure state" (post.go).
PostKeepsFailure ==
    [][\A w \in Workflow :
         wf[w].status.state \in {"FAILED", "TIMEOUT"} => wf'[w].status.state # "SUCCESS"]_vars

\* "Re-serve the current action. This handles two restart scenarios: [...]
\* 2. Server restarts while the agent is executing (currentState is RUNNING)."
\* (resolveAction): GetAction would serve the Action that an agent executes
\* again, were the agent to lose it now and ask.
ReServesExecuting ==
    \A a \in Agent :
        pc[a] = "executing" =>
            LET w == job[a].w
            IN  wf[w].status.state = "RUNNING" => Serves(w, wf[w].status, a, job[a].id)

----------------------------------------------------------------------------
(* Liveness *)

Terminal(w) == wf[w].status.state \in {"SUCCESS", "FAILED", "TIMEOUT"}

\* A Workflow that is running with a globalExecutionStop does not run for
\* ever once the clock passes the stop, even if its agents stall, the
\* controller restarts and its timer is lost with it.
StopEnforced ==
    ClockFairness =>
        \A w \in Workflow :
            wf[w].status.state = "RUNNING" /\ wf[w].status.globalExecutionStop
                ~> wf[w].status.state # "RUNNING"

\* "GlobalTimeout represents the max execution time."
\* (api/v1alpha1/tinkerbell/workflow.go): no Workflow runs for ever.
MaxExecutionTime ==
    ClockFairness =>
        \A w \in Workflow : wf[w].status.state = "RUNNING" ~> wf[w].status.state # "RUNNING"

\* Every Workflow comes to an end and stays there, whatever was lost on the
\* way, as long as crashed agents are started again.
Ends == \A w \in Workflow : <>[]Terminal(w)

\* The same where only the services are assumed to run: it is enough that
\* the agents run and are restarted after a crash (Agent.Run), whether or
\* not the clock ever passes a deadline.
EndsIfAgentsRun == AgentFairness => Ends

=============================================================================
