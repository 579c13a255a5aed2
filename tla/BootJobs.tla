------------------------------ MODULE BootJobs ------------------------------
(***************************************************************************)
(* The Tink Controller in the PREPARING and POST states: toggling allowPXE *)
(* on the Hardware and running a BMC Job through Rufio, in the phases of   *)
(* handleJob.  A reconcile reads the Workflow and the Job from its caches  *)
(* and changes the Hardware, the Job and, last of all, the Workflow status;*)
(* each of these calls is an action of its own.  Rufio is here only for    *)
(* what it promises: it ends a Job, completed or failed (RufioJobs has the *)
(* rest).                                                                  *)
(*                                                                         *)
(* The Job of the PREPARING state and the one of the POST state have       *)
(* different names and are run by the same code, so a behaviour is about   *)
(* one of the two, phase.  With toggleAllowNetboot and the boot mode given *)
(* by opts, actions says whether the Job has BMC actions (customboot may   *)
(* have none) and valid whether the ISO URL, or the templates of a         *)
(* customboot's actions, are any good.                                     *)
(***************************************************************************)
EXTENDS Naturals, Sequences

CONSTANTS
    Phases,     \* the phases to consider, PREPARING and POST
    MaxFaults,  \* bound on failed calls and restarts
    None        \* an absent object

ASSUME BootAssumption ==
    /\ Phases \subseteq {"PREPARING", "POST"}
    /\ MaxFaults \in Nat
    /\ None \notin {"Completed", "Failed"}
    /\ None \notin [uid : Nat, condition : {None, "Completed", "Failed"}]

VARIABLES
    phase,     \* the state the Workflow starts in
    opts,      \* spec.bootOptions: toggle, mode, actions, valid
    status,    \* the Workflow status in the API server
    wcache,    \* the controller's cached copy of it
    wwatch,    \* the versions of it the controller has yet to be told about
    wqueued,   \* the Workflow is in the controller's work queue
    wrec,      \* the reconcile in progress
    allow,     \* the Hardware's allowPXE
    job,       \* the Job in the API server
    cjob,      \* the controller's cached copy of it
    jwatch,    \* the versions of it the controller has yet to be told about
    uids,      \* UIDs given to Jobs so far
    completed, \* UIDs of the Jobs that Rufio has completed
    faults     \* failed calls and restarts so far

inputVars == <<phase, opts>>
cacheVars == <<wcache, wwatch, cjob, jwatch>>
vars == <<inputVars, status, cacheVars, wqueued, wrec, allow, job, uids, completed, faults>>

\* status.bootOptions.jobs[name]: whether there is an entry, and its fields;
\* uid 0 is the empty string.
JobStatus == [found : BOOLEAN, existingJobDeleted : BOOLEAN, uid : Nat, complete : BOOLEAN]

NoJobStatus == [found |-> FALSE, existingJobDeleted |-> FALSE, uid |-> 0, complete |-> FALSE]

\* The state a Workflow goes to when its phase is done.  A Workflow in POST
\* has SUCCESS as the state of its last Action.
Done == IF phase = "PREPARING" THEN "PENDING" ELSE "SUCCESS"

\* The boot modes with a Job in this phase.
RunsJob == IF phase = "PREPARING" THEN {"netboot", "isoboot", "customboot"}
                                  ELSE {"isoboot", "customboot"}

Options ==
    {o \in [toggle : BOOLEAN, mode : {"none", "netboot", "isoboot", "customboot"},
            actions : BOOLEAN, valid : BOOLEAN] :
        /\ o.mode # "customboot" => o.actions
        /\ o.mode \in {"none", "netboot"} => o.valid}

\* No reconcile is running.
Idle == [step |-> "idle"]

Init ==
    /\ phase \in Phases
    /\ opts \in Options
    \* processNewWorkflow makes a Workflow PREPARING only for these, and one
    \* without a usable ISO URL does not get as far as POST.
    /\ phase = "PREPARING" => opts.toggle \/ opts.mode # "none"
    /\ phase = "POST" /\ opts.mode = "isoboot" => opts.valid
    /\ status = [state |-> phase, toggled |-> FALSE, job |-> NoJobStatus]
    /\ wcache = status /\ wwatch = << >>
    /\ wqueued = TRUE
    /\ wrec = Idle
    /\ allow = (phase = "POST")
    /\ job = None
    /\ cjob = None /\ jwatch = << >>
    /\ uids = 0
    /\ completed = {}
    /\ faults = 0

Fault == faults < MaxFaults /\ faults' = faults + 1

----------------------------------------------------------------------------
(* What a reconcile decides *)

\* The last step: patch the status to new.  again: the key goes back on the
\* work queue (Requeue, or an error).
Patch(new, again) == [step |-> "patch", old |-> wrec.old, new |-> new, again |-> again]

\* Mutant of Fail: the Workflow times out instead.
TimesOut == Patch([wrec.new EXCEPT !.state = "TIMEOUT"], TRUE)

Fail == Patch([wrec.new EXCEPT !.state = "FAILED"], TRUE)

Finish(new) == Patch([new EXCEPT !.state = Done], FALSE)

Call(step) == [wrec EXCEPT !.step = step]

\* Mutant of trackRunningJob: a Job that is still running is taken for complete.
TracksNoCondition ==
    IF cjob = None \/ cjob.condition = "Failed" THEN Fail
    ELSE Finish([wrec.new EXCEPT !.job.complete = TRUE])

\* The Job is looked up by its name.
trackRunningJob ==
    CASE cjob = None \/ cjob.condition = "Failed" -> Fail
      [] cjob # None /\ cjob.condition = "Completed" -> Finish([wrec.new EXCEPT !.job.complete = TRUE])
      [] OTHER -> Patch(wrec.new, TRUE)

\* Up to its Create call: a Job of that name is taken over.
createJob ==
    IF cjob = None THEN Call("create")
    ELSE Patch([wrec.new EXCEPT !.job.found = TRUE, !.job.uid = cjob.uid], TRUE)

\* Clean up, create, track.  Without actions there is no Job to make, which
\* ends the POST phase and leaves a Workflow in PREPARING as it is.
handleJob ==
    LET j == wrec.new.job
    IN  IF j.found /\ ~j.existingJobDeleted THEN Call("deleteTasks")
        ELSE CASE j.uid = 0 /\ opts.actions -> createJob
               [] j.uid = 0 /\ ~opts.actions ->
                     IF phase = "POST" THEN Finish(wrec.new) ELSE Patch(wrec.new, FALSE)
               [] OTHER -> trackRunningJob

\* The switch on the boot mode.  A Job that ran already is not run again; in
\* PREPARING the state is then left as it is.
bootModeSwitch ==
    LET j == wrec.new.job
    IN  CASE opts.mode \notin RunsJob -> Finish(wrec.new)
          [] opts.mode \in RunsJob /\ j.existingJobDeleted /\ j.uid # 0 /\ j.complete ->
                IF phase = "POST" THEN Finish(wrec.new) ELSE Patch(wrec.new, FALSE)
          [] OTHER -> IF opts.valid THEN handleJob ELSE Fail

----------------------------------------------------------------------------
(* The caches *)

\* The next change of the Workflow reaches the cache, and queues its key.
WorkflowEvent ==
    /\ wwatch # << >>
    /\ wcache' = Head(wwatch)
    /\ wwatch' = Tail(wwatch)
    /\ wqueued' = TRUE
    /\ UNCHANGED <<inputVars, status, cjob, jwatch, wrec, allow, job, uids, completed, faults>>

\* The Tink Controller reads Jobs from its cache and is not woken by them.
JobEvent ==
    /\ jwatch # << >>
    /\ cjob' = Head(jwatch)
    /\ jwatch' = Tail(jwatch)
    /\ UNCHANGED <<inputVars, status, wcache, wwatch, wqueued, wrec, allow, job, uids,
                   completed, faults>>

\* A write of the Job in the API server.
SetJob(new) ==
    /\ job' = new
    /\ jwatch' = IF new = job THEN jwatch ELSE Append(jwatch, new)

----------------------------------------------------------------------------
(* A reconcile *)

\* In any other state Reconcile does nothing that concerns the boot options.
Reconcile ==
    /\ wqueued /\ wrec = Idle
    /\ wqueued' = FALSE
    /\ wrec' = IF wcache.state # phase THEN Idle
               ELSE [step |-> IF opts.toggle /\ ~wcache.toggled THEN "toggle" ELSE "switch",
                     old |-> wcache, new |-> wcache, again |-> FALSE]
    /\ UNCHANGED <<inputVars, status, cacheVars, allow, job, uids, completed, faults>>

\* Mutant of toggleHardware: it is noted as toggled without the Update.
TogglesStatusOnly ==
    /\ wrec.step = "toggle"
    /\ wrec' = [wrec EXCEPT !.step = "switch", !.new.toggled = TRUE]
    /\ UNCHANGED <<inputVars, status, cacheVars, wqueued, allow, job, uids, completed, faults>>

\* The Hardware is updated, with the conflicts that setAllowPXE retries.
toggleHardware ==
    /\ wrec.step = "toggle"
    /\ allow' = (phase = "PREPARING")
    /\ wrec' = [wrec EXCEPT !.step = "switch", !.new.toggled = TRUE]
    /\ UNCHANGED <<inputVars, status, cacheVars, wqueued, job, uids, completed, faults>>

BootModeSwitch ==
    /\ wrec.step = "switch"
    /\ wrec' = bootModeSwitch
    /\ UNCHANGED <<inputVars, status, cacheVars, wqueued, allow, job, uids, completed, faults>>

\* deleteExisting: the Tasks of the Job, then the Job.
deleteTasks ==
    /\ wrec.step = "deleteTasks"
    /\ wrec' = Call("deleteJob")
    /\ UNCHANGED <<inputVars, status, cacheVars, wqueued, allow, job, uids, completed, faults>>

deleteJob ==
    /\ wrec.step = "deleteJob"
    /\ SetJob(None)
    /\ wrec' = Patch([wrec.new EXCEPT !.job = [NoJobStatus EXCEPT !.found = TRUE,
                                                  !.existingJobDeleted = TRUE]], TRUE)
    /\ UNCHANGED <<inputVars, status, wcache, wwatch, cjob, wqueued, allow, uids,
                   completed, faults>>

\* Mutant of create: the phase is over as soon as there is a Job.
CreateEndsPhase ==
    /\ wrec.step = "create"
    /\ IF job = None
       THEN /\ SetJob([uid |-> uids + 1, condition |-> None])
            /\ uids' = uids + 1
            /\ wrec' = Patch([wrec.new EXCEPT !.state = Done], TRUE)
       ELSE /\ wrec' = Fail
            /\ UNCHANGED <<job, jwatch, uids>>
    /\ UNCHANGED <<inputVars, status, wcache, wwatch, cjob, wqueued, allow, completed, faults>>

\* The Create call of createJob.  The new Job's UID is recorded by a later
\* reconcile, which finds the Job.  A Job that the cache did not show makes
\* the call fail.
create ==
    /\ wrec.step = "create"
    /\ IF job = None
       THEN /\ SetJob([uid |-> uids + 1, condition |-> None])
            /\ uids' = uids + 1
            /\ wrec' = Patch(wrec.new, TRUE)
       ELSE /\ wrec' = Fail
            /\ UNCHANGED <<job, jwatch, uids>>
    /\ UNCHANGED <<inputVars, status, wcache, wwatch, cjob, wqueued, allow, completed, faults>>

\* What a JSON merge patch leaves of a record: only the fields are sent that
\* differ between the copy the reconcile read and the one it made.
Merged(stored, old, new) ==
    [f \in DOMAIN stored |-> IF new[f] = old[f] THEN stored[f] ELSE new[f]]

\* Mutant of mergePatchStatus: Requeue is ignored.
PatchWithoutRequeue ==
    /\ wrec.step = "patch"
    /\ status' = [Merged(status, wrec.old, wrec.new) EXCEPT
                     !.job = Merged(status.job, wrec.old.job, wrec.new.job)]
    /\ wwatch' = IF status' = status THEN wwatch ELSE Append(wwatch, status')
    /\ wrec' = Idle
    /\ UNCHANGED <<inputVars, wcache, cjob, jwatch, wqueued, allow, job, uids, completed, faults>>

mergePatchStatus ==
    /\ wrec.step = "patch"
    /\ status' = [Merged(status, wrec.old, wrec.new) EXCEPT
                     !.job = Merged(status.job, wrec.old.job, wrec.new.job)]
    /\ wwatch' = IF status' = status THEN wwatch ELSE Append(wwatch, status')
    /\ wqueued' = (wqueued \/ wrec.again)
    /\ wrec' = Idle
    /\ UNCHANGED <<inputVars, wcache, cjob, jwatch, allow, job, uids, completed, faults>>

----------------------------------------------------------------------------
(* Failures and Rufio *)

\* A call to the API server fails, or the Hardware has no BMC.  What was done
\* before it stays done, and all of it is reported with the FAILED state;
\* except that a failed status patch reports nothing.
CallFails ==
    /\ Fault
    /\ \/ /\ wrec.step \in {"toggle", "switch", "deleteTasks", "deleteJob", "create"}
          /\ wrec' = Fail
          /\ UNCHANGED wqueued
       \/ /\ wrec.step = "patch" /\ wrec.new # wrec.old
          /\ wrec' = Idle
          /\ wqueued' = TRUE
    /\ UNCHANGED <<inputVars, status, cacheVars, allow, job, uids, completed>>

Restart ==
    /\ Fault
    /\ wcache' = status /\ wwatch' = << >>
    /\ cjob' = job /\ jwatch' = << >>
    /\ wqueued' = TRUE
    /\ wrec' = Idle
    /\ UNCHANGED <<inputVars, status, allow, job, uids, completed>>

RufioCompletes ==
    /\ job # None /\ job.condition = None
    /\ SetJob([job EXCEPT !.condition = "Completed"])
    /\ completed' = completed \cup {job.uid}
    /\ UNCHANGED <<inputVars, status, wcache, wwatch, cjob, wqueued, wrec, allow, uids, faults>>

RufioFails ==
    /\ Fault
    /\ job # None /\ job.condition = None
    /\ SetJob([job EXCEPT !.condition = "Failed"])
    /\ UNCHANGED <<inputVars, status, wcache, wwatch, cjob, wqueued, wrec, allow, uids, completed>>

\* The steps of the controller's worker that no failure interrupts.
Worker ==
    \/ Reconcile \/ toggleHardware \/ BootModeSwitch
    \/ deleteTasks \/ deleteJob \/ create
    \/ mergePatchStatus

Next ==
    \/ Worker
    \/ WorkflowEvent \/ JobEvent
    \/ CallFails \/ Restart
    \/ RufioCompletes \/ RufioFails

Spec == Init /\ [][Next]_vars

(***************************************************************************)
(* The worker keeps taking keys off the queue and its calls return, watches*)
(* deliver what was written, and Rufio ends every Job it is given (JobEnds *)
(* of RufioJobs).                                                          *)
(***************************************************************************)
FairSpec ==
    /\ Spec
    /\ WF_vars(Worker)
    /\ WF_vars(WorkflowEvent) /\ WF_vars(JobEvent)
    /\ WF_vars(RufioCompletes)

----------------------------------------------------------------------------
(* Properties *)

\* Whether this phase of this Workflow has a Job to run.
NeedsJob == opts.mode \in RunsJob /\ opts.actions

\* The types of the variables; no state but these five is written to a Workflow
\* with boot options.
TypeOK ==
    /\ phase \in Phases /\ opts \in Options
    /\ LET Status == [state : {"PREPARING", "PENDING", "POST", "SUCCESS", "FAILED"},
                      toggled : BOOLEAN, job : JobStatus]
           Job == [uid : Nat, condition : {None, "Completed", "Failed"}] \cup {None}
       IN  /\ status \in Status /\ wcache \in Status /\ wwatch \in Seq(Status)
           /\ job \in Job /\ cjob \in Job /\ jwatch \in Seq(Job)
           /\ wrec = Idle \/ (wrec.old \in Status /\ wrec.new \in Status)
    /\ wqueued \in BOOLEAN /\ allow \in BOOLEAN
    /\ uids \in Nat /\ completed \subseteq 1..uids
    /\ faults \in 0..MaxFaults

(***************************************************************************)
(* A Workflow leaves its phase only when the last BMC Job that was ever    *)
(* created for it has completed: a Job is created, deleted and created     *)
(* again, the controller tracks it by name through a cache, and may have   *)
(* recorded the UID of an earlier one.                                     *)
(***************************************************************************)
LastJobCompleted == status.state = Done /\ NeedsJob => uids \in completed

(***************************************************************************)
(* Once the Workflow has left its phase the controller touches its Job no  *)
(* more, although reconciles that read an old copy of the Workflow still   *)
(* run: a Job made now would power off the machine under the Agent.        *)
(***************************************************************************)
QuietWhenDone == status.state = Done => wrec.step \notin {"deleteTasks", "deleteJob", "create"}

(***************************************************************************)
(* A Workflow that asked for toggleAllowNetboot leaves PREPARING with      *)
(* network boot allowed and POST with it disallowed, whatever failed or    *)
(* was repeated on the way.                                                *)
(***************************************************************************)
NetbootToggled == status.state = Done /\ opts.toggle => allow = (phase = "PREPARING")

(***************************************************************************)
(* The phase ends, in its final state or in FAILED; except that PREPARING  *)
(* never ends for a customboot without preparing actions, which handleJob  *)
(* returns from with nothing changed and nothing queued.                   *)
(***************************************************************************)
PhaseEnds ==
    <>[](\/ status.state # phase
         \/ phase = "PREPARING" /\ opts.mode = "customboot" /\ ~opts.actions)

(***************************************************************************)
(* What createJob says of itself: "1. look up if there's an existing job   *)
(* with the same name, if so update the status with the UID and return"    *)
(* (job.go:145).  So a Job that exists is taken over and its Create call   *)
(* does not fail the Workflow: with no call failing the phase does not     *)
(* fail.                                                                   *)
(***************************************************************************)
ExistingJobAdopted == faults = 0 /\ opts.valid => status.state # "FAILED"

=============================================================================
