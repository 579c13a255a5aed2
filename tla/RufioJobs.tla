----------------------------- MODULE RufioJobs -----------------------------
(***************************************************************************)
(* Rufio's reconcilers for Jobs and Tasks, and the machine behind the BMC. *)
(* A Job's Tasks are made one at a time; a Task performs its BMC action,   *)
(* records that it started, and is completed by a later reconcile.  Both   *)
(* reconcilers read from caches that lag behind the API server.  Tasks are *)
(* found by the name of their Job and patched by their own name, so what   *)
(* is left of a deleted Job can be taken for the work of the new one.  The *)
(* Tink Controller is here for what it does to Jobs: create one, delete    *)
(* its Tasks and then the Job, create another (BootJobs has the rest).     *)
(***************************************************************************)
EXTENDS Naturals, Sequences, FiniteSets

CONSTANTS
    Actions,     \* the Job's BMC actions; "on" and "off" change the power
    MaxTroubles, \* bound on deletions, failed calls, restarts and timeouts
    None         \* an absent object

ASSUME RufioAssumption ==
    /\ Actions \in Seq(STRING) /\ Actions # << >>
    /\ MaxTroubles \in Nat
    /\ None \notin {"Completed", "Failed"}
    /\ \A c \in SUBSET {"Running", "Completed", "Failed"} : None # c
    /\ None \notin [started : BOOLEAN, condition : {None, "Completed", "Failed"}]

VARIABLES
    job,       \* the conditions of the Job in the API server, if there is one
    rjob,      \* Rufio's cached copy of it
    jwatch,    \* the versions of it Rufio has yet to be told about
    jqueued,   \* the Job is in its work queue
    jrec,      \* the reconcile of the Job in progress
    task,      \* task[i]: the Task for action i in the API server
    rtask,     \* Rufio's cached copies of them
    twatch,    \* the versions of them Rufio has yet to be told about
    tqueued,   \* the Tasks in their work queue, by number
    trec,      \* the reconcile of a Task in progress
    power,     \* the machine's power: as it is, and as the BMC was told
    performed, \* the actions performed, by number
    own,       \* the ones performed since the Job there is now was created
    fresh,     \* Rufio held nothing of an earlier Job when this one was created
    bmcRefs,   \* which of the objects that lead to the BMC exist
    deleting,  \* the Tasks are deleted and the Job is about to be
    deletions, \* Jobs deleted so far
    troubles   \* deletions, failed calls, restarts and timeouts so far

jobVars == <<rjob, jwatch, jqueued, jrec>>
taskVars == <<rtask, twatch, tqueued, trec>>
machineVars == <<power, performed, own, bmcRefs>>
clientVars == <<deleting, deletions, fresh>>
vars == <<job, jobVars, task, taskVars, machineVars, clientVars, troubles>>

Steps == DOMAIN Actions

\* The Machine that a Job names and the Secret with the BMC's credentials.
BmcObjects == {"machine", "secret"}

\* The step of a reconciler at rest.
Idle == [step |-> "idle"]

Init ==
    /\ job = None /\ rjob = None /\ jwatch = << >>
    /\ jqueued = FALSE /\ jrec = Idle
    /\ task = [i \in Steps |-> None] /\ rtask = task /\ twatch = << >>
    /\ tqueued = {} /\ trec = Idle
    /\ power = [now |-> "on", told |-> "on"]
    /\ performed = {} /\ own = {}
    /\ bmcRefs \in SUBSET BmcObjects
    /\ deleting = FALSE /\ deletions = 0 /\ fresh = TRUE
    /\ troubles = 0

Trouble == troubles < MaxTroubles /\ troubles' = troubles + 1

\* Writes in the API server, of the Job and of Tasks.
SetJob(new) ==
    /\ job' = new
    /\ jwatch' = IF new = job THEN jwatch ELSE Append(jwatch, new)

SetTask(i, new) ==
    /\ task' = [task EXCEPT ![i] = new]
    /\ twatch' = IF new = task[i] THEN twatch ELSE Append(twatch, <<i, new>>)

----------------------------------------------------------------------------
(* What a reconcile decides *)

\* The Job's Tasks that have condition c, or with None the unfinished ones.
Having(tasks, c) == {i \in Steps : tasks[i] # None /\ tasks[i].condition = c}

Ended(j) == j \cap {"Completed", "Failed"} # {}

\* Mutant of JobWork: a Job that has ended is worked on as well.
EndedJobWork(j, tasks) ==
    /\ j # None
    /\ Having(tasks, None) = {} \/ Having(tasks, "Failed") # {}

\* Whether a reconcile of the Job may do something; a Task that is neither
\* completed nor failed ends it, unless it comes upon a failed one first.
JobWork(j, tasks) ==
    /\ j # None
    /\ j # None => ~Ended(j)
    /\ Having(tasks, None) = {} \/ Having(tasks, "Failed") # {}

TaskWork(tasks) == Having(tasks, None)

\* Mutant of allCompleted: off by one.
AllButOneCompleted == Cardinality(Having(rtask, "Completed")) + 1 = Len(Actions)

allCompleted == Cardinality(Having(rtask, "Completed")) = Len(Actions)

\* Mutant of nextTask: the last one first.
LastTaskFirst == Len(Actions) - Cardinality(Having(rtask, "Completed"))

\* The number of the Task to create: they are completed in order.
nextTask == Cardinality(Having(rtask, "Completed")) + 1

\* A reconcile that will patch the Job's conditions to these, after creating
\* the next Task if step says so.
JobRec(step, conditions) ==
    [step |-> step, next |-> nextTask, old |-> rjob,
     new |-> rjob \cup {"Running"} \cup conditions]

\* Mutant of checkTaskStatus: the power is not looked at.
PowerUnchecked(i) == i \in Steps

\* Only the two power states are looked at.
checkTaskStatus(i) == Actions[i] \in {"on", "off"} => power.now = Actions[i]

\* A reconcile that will patch these fields of Task i.
TaskRec(i, started, condition) ==
    [step |-> "patch", id |-> i, old |-> rtask[i],
     new |-> [started |-> started, condition |-> condition]]

----------------------------------------------------------------------------
(* The Tink Controller *)

\* Rufio holds nothing of a Job: no copy, no event, no reconcile, no Task.
NothingHeld ==
    /\ rjob = None /\ jwatch = << >> /\ jrec = Idle
    /\ \A i \in Steps : task[i] = None /\ rtask[i] = None
    /\ twatch = << >> /\ trec = Idle

CreateJob ==
    /\ job = None
    /\ SetJob({})
    /\ own' = {} /\ fresh' = NothingHeld
    /\ UNCHANGED <<rjob, jqueued, jrec, task, taskVars, power, performed, bmcRefs,
                   deleting, deletions, troubles>>

DeleteTasks ==
    /\ Trouble
    /\ job # None /\ ~deleting
    /\ deleting' = TRUE
    /\ task' = [i \in Steps |-> None]
    /\ LET n == Cardinality({i \in Steps : task[i] # None})
       IN  \E order \in [1..n -> {i \in Steps : task[i] # None}] :
              /\ \A k, l \in 1..n : order[k] = order[l] => k = l
              /\ twatch' = twatch \o [k \in 1..n |-> <<order[k], None>>]
    /\ UNCHANGED <<job, jobVars, rtask, tqueued, trec, machineVars, deletions, fresh>>

DeleteJob ==
    /\ deleting
    /\ deleting' = FALSE /\ deletions' = deletions + 1
    /\ SetJob(None)
    /\ UNCHANGED <<rjob, jqueued, jrec, task, taskVars, machineVars, fresh, troubles>>

----------------------------------------------------------------------------
(* The caches.  A key whose reconcile would do nothing is left off the     *)
(* queue, since it takes an event to give it something to do.              *)

JobEvent ==
    /\ jwatch # << >>
    /\ rjob' = Head(jwatch) /\ jwatch' = Tail(jwatch)
    /\ jqueued' = JobWork(rjob', rtask)
    /\ UNCHANGED <<job, jrec, task, taskVars, machineVars, clientVars, troubles>>

\* Mutant of TaskEvent: the Job does not watch its Tasks.
TaskEventForTask ==
    /\ twatch # << >>
    /\ rtask' = [rtask EXCEPT ![Head(twatch)[1]] = Head(twatch)[2]]
    /\ twatch' = Tail(twatch)
    /\ tqueued' = (tqueued \cup {Head(twatch)[1]}) \cap TaskWork(rtask')
    /\ UNCHANGED <<job, jobVars, task, trec, machineVars, clientVars, troubles>>

\* An event about a Task queues the Task and the Job that owns it.
TaskEvent ==
    /\ twatch # << >>
    /\ rtask' = [rtask EXCEPT ![Head(twatch)[1]] = Head(twatch)[2]]
    /\ twatch' = Tail(twatch)
    /\ tqueued' = (tqueued \cup {Head(twatch)[1]}) \cap TaskWork(rtask')
    /\ jqueued' = JobWork(rjob, rtask')
    /\ UNCHANGED <<job, rjob, jwatch, jrec, task, trec, machineVars, clientVars, troubles>>

----------------------------------------------------------------------------
(* Jobs *)

\* The Tasks are looked at in no particular order, and the first one that is
\* not completed decides.  Before that the Machine is looked up: without it
\* every reconcile ends with an error that queues the key again, having
\* changed nothing.
ReconcileJob ==
    /\ jqueued /\ jrec = Idle
    /\ "machine" \in bmcRefs
    /\ jqueued' = FALSE
    /\ \/ Having(rtask, None) # {} /\ jrec' = Idle
       \/ Having(rtask, "Failed") # {} /\ jrec' = JobRec("patch", {"Failed"})
       \/ /\ Having(rtask, None) \cup Having(rtask, "Failed") = {}
          /\ jrec' = IF allCompleted THEN JobRec("patch", {"Completed"}) ELSE JobRec("create", {})
    /\ UNCHANGED <<job, rjob, jwatch, task, taskVars, machineVars, clientVars, troubles>>

\* A Task of that name that the cache did not show fails the call, and with it
\* the Job.
createTaskWithOwner ==
    /\ jrec.step = "create"
    /\ IF task[jrec.next] = None
       THEN /\ SetTask(jrec.next, [started |-> FALSE, condition |-> None])
            /\ jrec' = [jrec EXCEPT !.step = "patch"]
       ELSE /\ jrec' = [jrec EXCEPT !.step = "patch", !.new = @ \cup {"Failed"}]
            /\ UNCHANGED <<task, twatch>>
    /\ UNCHANGED <<job, rjob, jwatch, jqueued, rtask, tqueued, trec, machineVars,
                   clientVars, troubles>>

\* The conditions are a list, which a merge patch replaces as a whole, on
\* whatever Job has the name now.  If there is none, or if the Job failed,
\* the reconcile ends with an error that queues the key again.
patchJobStatus ==
    /\ jrec.step = "patch"
    /\ IF job = None \/ jrec.new = jrec.old THEN UNCHANGED <<job, jwatch>> ELSE SetJob(jrec.new)
    /\ jqueued' = (jqueued \/ ((job = None \/ "Failed" \in jrec.new) /\ JobWork(rjob, rtask)))
    /\ jrec' = Idle
    /\ UNCHANGED <<rjob, task, taskVars, machineVars, clientVars, troubles>>

----------------------------------------------------------------------------
(* Tasks.  One is reconciled at a time, the default.                       *)

\* The credentials are read first: without the Secret every reconcile ends
\* with an error that queues the key again, having changed nothing.
ReconcileTask(i) ==
    /\ i \in tqueued /\ trec = Idle
    /\ "secret" \in bmcRefs
    /\ tqueued' = tqueued \ {i}
    /\ UNCHANGED <<job, jobVars, task, rtask, twatch, clientVars>>

\* The Task's action is performed: a call to the BMC, which changes the power
\* in its own time.  The start time is yet to be recorded.
runTask(i) ==
    /\ ReconcileTask(i)
    /\ ~rtask[i].started
    /\ performed' = performed \cup {i} /\ own' = own \cup {i}
    /\ power' = IF Actions[i] \in {"on", "off"} THEN [power EXCEPT !.told = Actions[i]] ELSE power
    /\ trec' = TaskRec(i, TRUE, None)
    /\ UNCHANGED <<bmcRefs, troubles>>

\* The action was performed earlier and has taken effect.  Until then the Task
\* is looked at again and again (RequeueAfter).
completeTask(i) ==
    /\ ReconcileTask(i)
    /\ rtask[i].started
    /\ checkTaskStatus(i)
    /\ trec' = TaskRec(i, TRUE, "Completed")
    /\ UNCHANGED <<machineVars, troubles>>

\* The BMC cannot be reached, refuses the action, or has not brought it about
\* within ten minutes.
failTask(i) ==
    /\ Trouble
    /\ ReconcileTask(i)
    /\ \E started \in {rtask[i].started, TRUE} : trec' = TaskRec(i, started, "Failed")
    /\ UNCHANGED machineVars

\* Mutant of timeOut: a condition of its own, which nobody looks for.
TimeoutCondition(i) ==
    /\ ReconcileTask(i)
    /\ rtask[i].started
    /\ ~checkTaskStatus(i) /\ power.now = power.told
    /\ trec' = TaskRec(i, TRUE, "Timeout")
    /\ UNCHANGED <<machineVars, troubles>>

\* The action has not taken effect and nothing is under way that will make it,
\* because another Task's action has undone it: the ten minutes pass.
timeOut(i) ==
    /\ ReconcileTask(i)
    /\ rtask[i].started
    /\ ~checkTaskStatus(i) /\ power.now = power.told
    /\ trec' = TaskRec(i, TRUE, "Failed")
    /\ UNCHANGED <<machineVars, troubles>>

\* What a merge patch leaves: only the fields that the reconcile changed are
\* sent.
Merged(stored, old, new) ==
    [f \in DOMAIN stored |-> IF new[f] = old[f] THEN stored[f] ELSE new[f]]

\* Merged into whatever Task has the name now.  If there is none, or if the
\* Task failed, the error queues the key again.
patchTaskStatus ==
    /\ trec.step = "patch"
    /\ LET i == trec.id
       IN  /\ IF task[i] = None THEN UNCHANGED <<task, twatch>>
              ELSE SetTask(i, Merged(task[i], trec.old, trec.new))
           /\ tqueued' = IF task[i] = None \/ trec.new.condition = "Failed"
                         THEN (tqueued \cup {i}) \cap TaskWork(rtask) ELSE tqueued
    /\ trec' = Idle
    /\ UNCHANGED <<job, jobVars, rtask, machineVars, clientVars, troubles>>

----------------------------------------------------------------------------
(* Failures and the machine *)

\* A status patch is lost; the error queues the key again.
PatchFails ==
    /\ Trouble
    /\ \/ /\ jrec.step = "patch"
          /\ jrec' = Idle /\ jqueued' = JobWork(rjob, rtask)
          /\ UNCHANGED <<tqueued, trec>>
       \/ /\ trec.step = "patch"
          /\ trec' = Idle /\ tqueued' = (tqueued \cup {trec.id}) \cap TaskWork(rtask)
          /\ UNCHANGED <<jqueued, jrec>>
    /\ UNCHANGED <<job, rjob, jwatch, task, rtask, twatch, machineVars, clientVars>>

\* The Create call of a Task fails, and with it the Job.
CreateFails ==
    /\ Trouble
    /\ jrec.step = "create"
    /\ jrec' = [jrec EXCEPT !.step = "patch", !.new = @ \cup {"Failed"}]
    /\ UNCHANGED <<job, rjob, jwatch, jqueued, task, taskVars, machineVars, clientVars>>

Restart ==
    /\ Trouble
    /\ rjob' = job /\ jwatch' = << >>
    /\ rtask' = task /\ twatch' = << >>
    /\ jqueued' = JobWork(job, task) /\ jrec' = Idle
    /\ tqueued' = TaskWork(task) /\ trec' = Idle
    /\ UNCHANGED <<job, task, machineVars, clientVars>>

PowerSettles ==
    /\ power.now # power.told
    /\ power' = [power EXCEPT !.now = power.told]
    /\ UNCHANGED <<job, jobVars, task, taskVars, performed, own, bmcRefs, clientVars, troubles>>

\* An operator adds the Machine or its Secret, or takes it away.
AddObject ==
    /\ \E o \in BmcObjects \ bmcRefs : bmcRefs' = bmcRefs \cup {o}
    /\ UNCHANGED <<job, jobVars, task, taskVars, power, performed, own, clientVars, troubles>>

RemoveObject ==
    /\ Trouble
    /\ \E o \in bmcRefs : bmcRefs' = bmcRefs \ {o}
    /\ UNCHANGED <<job, jobVars, task, taskVars, power, performed, own, clientVars>>

JobWorker == ReconcileJob \/ createTaskWithOwner \/ patchJobStatus

TaskRun(i) == runTask(i) \/ completeTask(i) \/ timeOut(i)

Next ==
    \/ CreateJob \/ DeleteTasks \/ DeleteJob
    \/ JobEvent \/ TaskEvent
    \/ JobWorker
    \/ \E i \in Steps : TaskRun(i) \/ failTask(i)
    \/ patchTaskStatus
    \/ PatchFails \/ CreateFails \/ Restart \/ PowerSettles
    \/ AddObject \/ RemoveObject

Spec == Init /\ [][Next]_vars

(***************************************************************************)
(* Watches deliver what was written, the workers keep taking keys off      *)
(* their queues (in order, so every key has its turn), and the power       *)
(* follows what the BMC was told or else the ten minutes pass.  The Tink   *)
(* Controller need do nothing but finish what it began.                    *)
(***************************************************************************)
FairSpec ==
    /\ Spec
    /\ WF_vars(JobEvent) /\ WF_vars(TaskEvent)
    /\ WF_vars(JobWorker)
    /\ WF_vars(patchTaskStatus) /\ \A i \in Steps : WF_vars(TaskRun(i))
    /\ WF_vars(PowerSettles)
    /\ WF_vars(DeleteJob)

----------------------------------------------------------------------------
(* Properties *)

\* The actions that change the power, by number.
PowerSteps == {i \in Steps : Actions[i] \in {"on", "off"}}

Is(j, c) == j # None /\ (j # None => c \in j)

\* The types of the variables; a Task has no condition but these two.
TypeOK ==
    /\ LET Job == (SUBSET {"Running", "Completed", "Failed"}) \cup {None}
           Task == [started : BOOLEAN, condition : {None, "Completed", "Failed"}] \cup {None}
       IN  /\ job \in Job /\ rjob \in Job /\ jwatch \in Seq(Job)
           /\ task \in [Steps -> Task] /\ rtask \in [Steps -> Task]
           /\ twatch \in Seq(Steps \X Task)
    /\ jqueued \in BOOLEAN /\ tqueued \subseteq Steps
    /\ performed \subseteq Steps /\ own \subseteq Steps
    /\ bmcRefs \subseteq BmcObjects
    /\ deleting \in BOOLEAN /\ deletions \in Nat /\ fresh \in BOOLEAN
    /\ troubles \in 0..MaxTroubles

(***************************************************************************)
(* A Job is completed only when each of its actions has been performed     *)
(* since it was created, though Tasks are counted from a cache, calls are  *)
(* lost and repeated and the Job's Tasks may be deleted under it.  The     *)
(* exception: a Job that was created while Rufio still held something of a *)
(* deleted one of its name, whose outcome it may be given.                 *)
(***************************************************************************)
CompletedPerformed == Is(job, "Completed") /\ fresh => own = Steps

(***************************************************************************)
(* No action is performed before the ones that come before it in the list: *)
(* the boot device is set on a machine that was told to power off.         *)
(***************************************************************************)
PerformedInOrder == \A j \in performed : \A i \in Steps : i < j => i \in performed

(***************************************************************************)
(* As long as no Job was deleted, a completed Job leaves the machine with  *)
(* the power state that its last power action asked for.                   *)
(***************************************************************************)
PowerAsAsked ==
    Is(job, "Completed") /\ ~deleting /\ deletions = 0 =>
        \A i \in PowerSteps :
            (\A k \in PowerSteps : k <= i) => power.now = Actions[i]

(***************************************************************************)
(* A Job never has both conditions, of which the Tink Controller would     *)
(* take the failure.                                                       *)
(***************************************************************************)
OneOutcome == ~(Is(job, "Completed") /\ Is(job, "Failed"))

(***************************************************************************)
(* Every Job ends, completed or failed, unless it is deleted, provided the *)
(* Machine and its Secret are there from some time on: without them it is  *)
(* retried for ever and never failed.  The Tink Controller waits for it    *)
(* without a timeout.                                                      *)
(***************************************************************************)
JobEnds ==
    <>[](bmcRefs = BmcObjects) =>
        (job # None ~> job = None \/ Is(job, "Completed") \/ Is(job, "Failed"))

=============================================================================
