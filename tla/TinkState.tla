----------------------------- MODULE TinkState -----------------------------
(***************************************************************************)
(* The state shared by the three parties that execute a Workflow: the      *)
(* Workflow objects in the Kubernetes API server, the informer caches of   *)
(* Tink Server and of the Tink Controller, the gRPC calls between agents   *)
(* and Tink Server, and the agents.  TinkServer, TinkController and        *)
(* TinkAgent define the actions of the three parties; TinkSystem composes  *)
(* them.                                                                   *)
(*                                                                         *)
(* A rendered Workflow is a list of Tasks, each assigned to one Agent, each *)
(* a list of Actions.  Task and Action IDs are ULIDs made once when the    *)
(* template is rendered (YAMLToStatus), so an Action is named here by its  *)
(* position in the whole Workflow: 1 is the first Action of the first      *)
(* non-empty Task.  TaskOf[w][k] is the Task of Action k, Worker[w][t] the *)
(* Agent of Task t.  A Task no Action maps to is an empty Task, which the  *)
(* template validator accepts.                                             *)
(***************************************************************************)
EXTENDS Naturals, Sequences

CONSTANTS
    Agent,      \* agent IDs
    Workflow,   \* Workflow objects
    Worker,     \* Worker[w][t]: the agent Task t of w is assigned to
    TaskOf,     \* TaskOf[w][k]: the Task that Action k of w belongs to
    MaxFaults,  \* bound on lost connections, crashes and failed patches
    LateCalls,  \* may a handler outlive the client that called it?
    None        \* an absent value

Actions(w) == DOMAIN TaskOf[w]
Tasks(w) == DOMAIN Worker[w]

ASSUME TemplateAssumption ==
    /\ Worker \in [Workflow -> Seq(Agent)]
    /\ TaskOf \in [Workflow -> Seq(Nat)]
    /\ \A w \in Workflow :
          /\ Worker[w] # << >>
          /\ \A k \in Actions(w) : TaskOf[w][k] \in Tasks(w)
          /\ \A i, j \in Actions(w) : i <= j => TaskOf[w][i] <= TaskOf[w][j]

ASSUME BoundAssumption == MaxFaults \in Nat /\ LateCalls \in BOOLEAN

ASSUME NoneAssumption ==
    /\ None \notin Workflow
    /\ None \notin Agent
    /\ None \notin {"PENDING", "RUNNING", "POST", "SUCCESS", "FAILED", "TIMEOUT"}

VARIABLES
    wf,       \* wf[w]: the object in the API server
    scache,   \* scache[w]: the copy in Tink Server's informer cache
    ccache,   \* ccache[w]: the copy in the Tink Controller's informer cache
    call,     \* call[a]: the gRPC call agent a is waiting for
    late,     \* calls whose client is gone but whose handler still runs
    pc,       \* pc[a]: where agent a is in its loop
    job,      \* job[a]: the Action agent a holds
    result,   \* result[a]: how its execution ended
    runs,     \* runs[w][k]: how often a runtime has finished Action k
    queued,   \* queued[w]: w is in the controller's work queue
    patch,    \* patch[w]: the status patch a reconcile of w has sent
    timer,    \* timer[w]: a RequeueAfter is pending in the work queue
    elapsed,  \* elapsed[w]: the clock is past w's globalExecutionStop
    faults    \* lost connections, crashes and failed patches so far

serverVars == <<scache, late>>
agentVars == <<pc, job, result, runs>>
controllerVars == <<ccache, queued, patch, timer, elapsed>>
vars == <<wf, scache, ccache, call, late, pc, job, result, runs,
          queued, patch, timer, elapsed, faults>>

----------------------------------------------------------------------------
(* The Workflow object *)

ActionState == {"PENDING", "RUNNING", "SUCCESS", "FAILED", "TIMEOUT"}
WorkflowState == ActionState \cup {"POST"}

\* status.currentState; actionID 0 stands for the nil pointer.  The Task ID
\* it also holds is the one of its Action.
NoCurrentState == [actionID |-> 0, state |-> None]

Status(w) ==
    [state: WorkflowState,
     agentID: Agent,
     currentState: [actionID: Actions(w), state: ActionState] \cup {NoCurrentState},
     action: [Actions(w) -> [state: ActionState, executionStart: BOOLEAN]],
     globalExecutionStop: BOOLEAN]

\* An object as the API server keeps it, with its resourceVersion.
Object(w) == [rv: Nat, status: Status(w)]

\* What a write leaves: a write that changes nothing keeps the
\* resourceVersion (and so sends no watch event).
Written(o, status) ==
    [rv |-> IF status = o.status THEN o.rv ELSE o.rv + 1, status |-> status]

\* The status a rendered template gives a Workflow without boot options.
YAMLToStatus(w) ==
    [state |-> "PENDING",
     agentID |-> Worker[w][1],
     currentState |-> NoCurrentState,
     action |-> [k \in Actions(w) |-> [state |-> "PENDING", executionStart |-> FALSE]],
     globalExecutionStop |-> FALSE]

IsFirst(w, k) == \A i \in Actions(w) : i < k => TaskOf[w][i] < TaskOf[w][k]
IsLast(w, k) == \A i \in Actions(w) : k < i => TaskOf[w][k] < TaskOf[w][i]

----------------------------------------------------------------------------
(* Calls, jobs and patches *)

\* A call: the handler, its caller, how far it has come, the Action it serves
\* or reports, the state it reports and the Update it is about to send.
Call(op, a, phase, w, k, st, upd) ==
    [op |-> op, agent |-> a, phase |-> phase, w |-> w, id |-> k, state |-> st, upd |-> upd]

NoCall == Call("none", None, "idle", None, 0, None, None)
GetCall(a) == Call("get", a, "sent", None, 0, None, None)
ReportCall(a, w, k, st) == Call("report", a, "sent", w, k, st, None)

NoJob == [w |-> None, id |-> 0]

NoPatch == [state |-> None, agentID |-> None, stop |-> FALSE]

Init ==
    /\ wf = [w \in Workflow |-> [rv |-> 0, status |-> YAMLToStatus(w)]]
    /\ scache = wf
    /\ ccache = wf
    /\ call = [a \in Agent |-> NoCall]
    /\ late = {}
    /\ pc = [a \in Agent |-> "ready"]
    /\ job = [a \in Agent |-> NoJob]
    /\ result = [a \in Agent |-> None]
    /\ runs = [w \in Workflow |-> [k \in Actions(w) |-> 0]]
    /\ queued = [w \in Workflow |-> FALSE]
    /\ patch = [w \in Workflow |-> NoPatch]
    /\ timer = [w \in Workflow |-> FALSE]
    /\ elapsed = [w \in Workflow |-> FALSE]
    /\ faults = 0

=============================================================================
