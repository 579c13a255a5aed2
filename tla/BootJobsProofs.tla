--------------------------- MODULE BootJobsProofs ---------------------------
(***************************************************************************)
(* The safety properties of BootJobs, for every bound on failed calls and  *)
(* restarts.  A Workflow's entry for its Job goes through four stages and  *)
(* never back; what the argument rests on is that the copy a reconcile     *)
(* works from is at most one stage behind the stored one, so that the      *)
(* Job of an earlier stage is not deleted or created again in a later one. *)
(***************************************************************************)
EXTENDS BootJobs, SequenceTheorems, TLAPS

----------------------------------------------------------------------------
(* The inductive invariant *)

Statuses == [state : {"PREPARING", "PENDING", "POST", "SUCCESS", "FAILED"},
             toggled : BOOLEAN, job : JobStatus]

Jobs == [uid : Nat, condition : {None, "Completed", "Failed"}]

Recs == [step : {"toggle", "switch", "deleteTasks", "deleteJob", "create", "patch"},
         old : Statuses, new : Statuses, again : BOOLEAN]

\* The types of the variables, with the reconcile in progress.
Typed ==
    /\ phase \in Phases /\ opts \in Options
    /\ status \in Statuses /\ wcache \in Statuses /\ wwatch \in Seq(Statuses)
    /\ job \in Jobs \cup {None} /\ cjob \in Jobs \cup {None} /\ jwatch \in Seq(Jobs \cup {None})
    /\ wrec = Idle \/ wrec \in Recs
    /\ wqueued \in BOOLEAN /\ allow \in BOOLEAN
    /\ uids \in Nat /\ completed \subseteq 1..uids
    /\ faults \in 0..MaxFaults

\* The stages of a status entry: none; the Job found; that Job deleted; the
\* Job that replaces it found.
Stage(j) ==
    CASE ~j.found -> 0
      [] j.found /\ ~j.existingJobDeleted -> 1
      [] j.found /\ j.existingJobDeleted /\ j.uid = 0 -> 2
      [] OTHER -> 3

\* The entries that occur in each stage.
Shape(j) ==
    /\ ~j.found => j = NoJobStatus
    /\ j.found /\ ~j.existingJobDeleted => j.uid # 0 /\ ~j.complete
    /\ j.found /\ j.uid = 0 => ~j.complete

\* The copy of the Workflow that the worker works from, or would.
lastRead == IF wrec = Idle THEN wcache ELSE wrec.old

\* What a reconcile may make of the entry it read.
Advances(j, new) ==
    \/ new = j
    \/ /\ Stage(j) \in {0, 2}
       /\ new.uid # 0 /\ new = [j EXCEPT !.found = TRUE, !.uid = new.uid]
    \/ /\ Stage(j) = 1
       /\ new = [NoJobStatus EXCEPT !.found = TRUE, !.existingJobDeleted = TRUE]
    \/ /\ Stage(j) = 3
       /\ new = [j EXCEPT !.complete = TRUE]

\* A version of the status tells the truth about the Hardware and the Job.
Truthful(s) ==
    /\ Shape(s.job)
    /\ s.toggled => allow = (phase = "PREPARING")
    /\ s.job.complete => Stage(lastRead.job) = 3 /\ uids \in completed

\* No copy is ahead of a later one, and none more than one stage behind.
Ordered ==
    /\ Stage(lastRead.job) <= Stage(wcache.job)
    /\ Stage(wcache.job) <= Stage(status.job)
    /\ \A i \in 1..Len(wwatch) :
          /\ Stage(wcache.job) <= Stage(wwatch[i].job)
          /\ Stage(wwatch[i].job) <= Stage(status.job)
          /\ \A k \in 1..Len(wwatch) : i <= k => Stage(wwatch[i].job) <= Stage(wwatch[k].job)
    /\ Stage(status.job) <= Stage(lastRead.job) + 1

\* The status and the copies of it.
StatusOK ==
    /\ Truthful(status) /\ Truthful(wcache)
    /\ \A i \in 1..Len(wwatch) : Truthful(wwatch[i])
    /\ status.state = Done =>
          /\ opts.toggle => allow = (phase = "PREPARING")
          /\ NeedsJob => Stage(lastRead.job) = 3 /\ uids \in completed
    /\ ~NeedsJob => Stage(status.job) = 0

\* The reconcile in progress.
RecOK ==
    wrec # Idle =>
        /\ Truthful(wrec.old) /\ Truthful(wrec.new)
        /\ wrec.old.state = phase
        /\ Advances(wrec.old.job, wrec.new.job)
        /\ wrec.step # "patch" => wrec.new.job = wrec.old.job /\ wrec.new.state = phase
        /\ wrec.step \notin {"toggle", "patch"} /\ opts.toggle => wrec.new.toggled
        /\ wrec.step \in {"deleteTasks", "deleteJob"} => Stage(wrec.old.job) = 1
        /\ wrec.step = "create" => NeedsJob /\ Stage(wrec.old.job) \in {0, 2}
        /\ wrec.step = "create" /\ Stage(wrec.old.job) = 2 /\ uids = 1 => cjob = None
        /\ Stage(wrec.new.job) >= 1 =>
              /\ NeedsJob /\ uids >= 1
              /\ uids = 1 /\ cjob = None => job = None /\ jwatch = << >>
        /\ wrec.new.state = Done =>
              /\ opts.toggle => wrec.new.toggled
              /\ NeedsJob => Stage(wrec.old.job) = 3 /\ uids \in completed

\* A version of the Job is one of the Job made last.
Current(v) == v # None => v.uid = uids /\ uids >= 1 /\ (v.condition = "Completed" => uids \in completed)

\* The Job and the copies of it.  There are at most two Jobs; the second is
\* made when the deletion of the first has reached the cache.
JobOK ==
    /\ Current(job) /\ Current(cjob)
    /\ \A i \in 1..Len(jwatch) :
          /\ Current(jwatch[i])
          /\ jwatch[i] = None => i = Len(jwatch) /\ job = None
    /\ IF jwatch = << >> THEN cjob = job ELSE jwatch[Len(jwatch)] = job
    /\ uids = 0 => job = None /\ cjob = None /\ jwatch = << >> /\ Stage(status.job) = 0
    /\ uids = 1 /\ Stage(lastRead.job) = 0 => job # None
    /\ uids = 1 /\ cjob = None /\ Stage(status.job) >= 1 => job = None /\ jwatch = << >>
    /\ uids = 2 => job # None /\ Stage(lastRead.job) >= 2
    /\ uids <= 2

IInv == Typed /\ Ordered /\ StatusOK /\ RecOK /\ JobOK

----------------------------------------------------------------------------
(* Facts about the queues of events *)

\* The first event of a queue and what is left.
LEMMA HeadTail ==
    ASSUME NEW S, NEW q \in Seq(S), q # << >>
    PROVE  /\ Head(q) = q[1] /\ Head(q) \in S
           /\ Len(q) \in Nat /\ Len(q) >= 1 /\ Len(Tail(q)) = Len(q) - 1
           /\ \A i \in 1..Len(Tail(q)) : Tail(q)[i] = q[i + 1] /\ i + 1 \in 1..Len(q)
           /\ Tail(q) = << >> <=> Len(q) = 1
  <1>1. Len(q) \in Nat /\ Len(q) >= 1 /\ Len(Tail(q)) = Len(q) - 1 /\ Tail(q) \in Seq(S)
    OBVIOUS
  <1>2. \A i \in 1..Len(Tail(q)) : Tail(q)[i] = q[i + 1] /\ i + 1 \in 1..Len(q)
    BY <1>1
  <1>3. Tail(q) = << >> <=> Len(q) = 1
    <2>1. Tail(q) # << >> => Len(Tail(q)) \in Nat \ {0}
      BY <1>1, EmptySeq
    <2>2. Tail(q) = << >> => Len(Tail(q)) = 0
      BY EmptySeq
    <2> QED BY <1>1, <2>1, <2>2
  <1>4. Head(q) = q[1] /\ Head(q) \in S
    OBVIOUS
  <1> QED BY <1>1, <1>2, <1>3, <1>4

\* One more event at the end of a queue.
LEMMA Appended ==
    ASSUME NEW S, NEW q \in Seq(S), NEW e \in S
    PROVE  /\ Append(q, e) # << >> /\ Len(q) \in Nat /\ Len(Append(q, e)) = Len(q) + 1
           /\ \A i \in 1..Len(q) : Append(q, e)[i] = q[i]
           /\ Append(q, e)[Len(q) + 1] = e
           /\ \A i \in 1..(Len(q) + 1) : i \in 1..Len(q) \/ i = Len(q) + 1
  <1>1. Len(q) \in Nat /\ Len(Append(q, e)) = Len(q) + 1 /\ Append(q, e)[Len(q) + 1] = e
    OBVIOUS
  <1>2. Append(q, e) # << >>
    <2>1. Len(Append(q, e)) # 0
      BY <1>1
    <2> QED BY <2>1, EmptySeq
  <1>3. \A i \in 1..Len(q) : Append(q, e)[i] = q[i]
    OBVIOUS
  <1> QED BY <1>1, <1>2, <1>3

----------------------------------------------------------------------------
(* Facts about the entries *)

\* What each stage says of an entry.
LEMMA StageFacts ==
    ASSUME NEW j \in JobStatus
    PROVE  /\ Stage(j) \in {0, 1, 2, 3}
           /\ Stage(j) = 0 <=> ~j.found
           /\ Stage(j) = 1 <=> j.found /\ ~j.existingJobDeleted
           /\ Stage(j) = 2 <=> j.found /\ j.existingJobDeleted /\ j.uid = 0
           /\ Stage(j) = 3 <=> j.found /\ j.existingJobDeleted /\ j.uid # 0
  BY DEF Stage, JobStatus

\* A merge patch of an entry that is at most one stage ahead of the copy the
\* patch was computed from takes it to no earlier stage and at most one on.
LEMMA MergedEntry ==
    ASSUME NEW s \in JobStatus, NEW o \in JobStatus, NEW n \in JobStatus,
           Shape(s), Shape(o), Shape(n), Advances(o, n),
           Stage(o) <= Stage(s), Stage(s) <= Stage(o) + 1,
           NEW m, m = Merged(s, o, n)
    PROVE  /\ m \in JobStatus /\ Shape(m)
           /\ Stage(s) <= Stage(m) /\ Stage(m) <= Stage(o) + 1
           /\ m.complete => s.complete \/ n.complete
           /\ Stage(m) = Stage(s) \/ Stage(m) <= Stage(n)
  <1>1. /\ m \in JobStatus
        /\ m.found = IF n.found = o.found THEN s.found ELSE n.found
        /\ m.existingJobDeleted = IF n.existingJobDeleted = o.existingJobDeleted
                                  THEN s.existingJobDeleted ELSE n.existingJobDeleted
        /\ m.uid = IF n.uid = o.uid THEN s.uid ELSE n.uid
        /\ m.complete = IF n.complete = o.complete THEN s.complete ELSE n.complete
    BY DEF Merged, JobStatus
  <1>2. \A j \in JobStatus : ~j.found /\ Shape(j) =>
          ~j.existingJobDeleted /\ j.uid = 0 /\ ~j.complete
    BY DEF Shape, NoJobStatus
  <1>3. ~m.found /\ ~m.existingJobDeleted /\ m.uid = 0 /\ ~m.complete => m = NoJobStatus
    BY <1>1 DEF JobStatus, NoJobStatus
  <1>4. CASE n = o
    BY <1>1, <1>2, <1>3, <1>4, StageFacts DEF Shape, NoJobStatus
  <1>5. CASE Stage(o) \in {0, 2} /\ n.uid # 0 /\ n = [o EXCEPT !.found = TRUE, !.uid = n.uid]
    <2>1. n.found /\ n.existingJobDeleted = o.existingJobDeleted /\ n.complete = o.complete
      BY <1>5 DEF JobStatus
    <2>2. o.uid = 0 /\ (o.found => s.found)
      BY <1>2, <1>5, StageFacts
    <2>3. m.found /\ m.existingJobDeleted = s.existingJobDeleted /\ m.uid = n.uid
          /\ m.complete = s.complete
      BY <1>1, <1>5, <2>1, <2>2 DEF JobStatus
    <2>4. CASE Stage(o) = 0
      <3>1. ~s.existingJobDeleted /\ ~s.complete
        BY <1>2, <2>4, StageFacts DEF Shape
      <3>2. Stage(m) = 1 /\ Stage(s) \in {0, 1} /\ Stage(n) = 1
        BY <1>1, <1>2, <2>1, <2>3, <2>4, <3>1, StageFacts
      <3> QED BY <1>1, <1>5, <2>3, <2>4, <3>1, <3>2 DEF Shape
    <2>5. CASE Stage(o) = 2
      <3>1. Stage(m) = 3 /\ Stage(n) = 3 /\ Stage(s) \in {2, 3}
        BY <1>1, <1>5, <2>1, <2>3, <2>5, StageFacts
      <3> QED BY <1>1, <1>5, <2>3, <2>5, <3>1, StageFacts DEF Shape
    <2> QED BY <1>5, <2>4, <2>5
  <1>6. CASE Stage(o) = 1 /\ n = [NoJobStatus EXCEPT !.found = TRUE, !.existingJobDeleted = TRUE]
    <2>1. n.found /\ n.existingJobDeleted /\ n.uid = 0 /\ ~n.complete
      BY <1>6 DEF NoJobStatus
    <2>2. s.found /\ o.found /\ ~o.existingJobDeleted /\ o.uid # 0 /\ ~o.complete
          /\ Stage(s) \in {1, 2}
      BY <1>6, StageFacts DEF Shape
    <2>3. m.found /\ m.existingJobDeleted /\ m.uid = 0 /\ m.complete = s.complete
      BY <1>1, <2>1, <2>2 DEF JobStatus
    <2>4. ~s.complete
      BY <2>2, StageFacts DEF Shape
    <2>5. Stage(m) = 2 /\ Stage(n) = 2
      BY <1>1, <2>1, <2>3, StageFacts
    <2>6. Shape(m)
      BY <2>2, <2>3, <2>4 DEF Shape
    <2>7. m.complete => s.complete
      BY <2>3
    <2> QED BY <1>1, <1>6, <2>2, <2>5, <2>6, <2>7
  <1>7. CASE Stage(o) = 3 /\ n = [o EXCEPT !.complete = TRUE]
    <2>1. /\ n.found = o.found /\ n.existingJobDeleted = o.existingJobDeleted /\ n.uid = o.uid
          /\ n.complete
      BY <1>7 DEF JobStatus
    <2>2. m.found = s.found /\ m.existingJobDeleted = s.existingJobDeleted /\ m.uid = s.uid
      BY <1>1, <2>1
    <2>3. Stage(s) = 3 /\ Stage(n) = 3 /\ Stage(m) = 3
      BY <1>1, <1>7, <2>1, <2>2, StageFacts DEF JobStatus
    <2> QED BY <1>1, <1>7, <2>1, <2>2, <2>3, StageFacts DEF Shape
  <1> QED BY <1>4, <1>5, <1>6, <1>7 DEF Advances

----------------------------------------------------------------------------
(* Types *)

\* No reconcile in progress means none of the steps of one.
LEMMA RecSteps == ASSUME Typed, wrec.step # "idle" PROVE wrec # Idle /\ wrec \in Recs
  BY DEF Typed, Idle

\* Patch makes a reconcile of the right type.
LEMMA PatchType ==
    ASSUME wrec \in Recs, NEW new \in Statuses, NEW again \in BOOLEAN
    PROVE  /\ Patch(new, again) \in Recs /\ Patch(new, again) # Idle
           /\ Patch(new, again).step = "patch" /\ Patch(new, again).old = wrec.old
           /\ Patch(new, again).new = new
  BY DEF Patch, Recs, Idle

\* The states the controller writes.
LEMMA NewStates ==
    ASSUME Typed, NEW s \in Statuses
    PROVE  /\ [s EXCEPT !.state = Done] \in Statuses /\ [s EXCEPT !.state = "FAILED"] \in Statuses
           /\ phase # Done /\ Done # "FAILED" /\ phase # "FAILED"
  <1>1. phase \in {"PREPARING", "POST"} /\ Done \in {"PENDING", "SUCCESS"}
    BY BootAssumption DEF Typed, Done
  <1> HIDE DEF Done
  <1> QED BY <1>1 DEF Statuses

\* The versions of the Job that the queue of events gets.
LEMMA SetJobType ==
    ASSUME Typed, NEW new \in Jobs \cup {None}, SetJob(new)
    PROVE  job' \in Jobs \cup {None} /\ jwatch' \in Seq(Jobs \cup {None})
  <1>1. Append(jwatch, new) \in Seq(Jobs \cup {None})
    BY DEF Typed
  <1> QED BY <1>1 DEF Typed, SetJob

\* What the switch on the boot mode decides.
LEMMA SwitchType == ASSUME Typed, wrec \in Recs PROVE bootModeSwitch \in Recs /\ bootModeSwitch # Idle
  <1> USE DEF Typed
  <1> DEFINE s == wrec.new
  <1>1. s \in Statuses /\ s.job \in JobStatus
    BY DEF Recs, Statuses
  <1>2. \A x \in Statuses : Finish(x) \in Recs /\ Finish(x) # Idle
    BY NewStates, PatchType DEF Finish
  <1>3. Fail \in Recs /\ Fail # Idle
    BY <1>1, NewStates, PatchType DEF Fail
  <1>4. \A b \in BOOLEAN : Patch(s, b) \in Recs /\ Patch(s, b) # Idle
    BY <1>1, PatchType
  <1>5. \A c \in {"deleteTasks", "create"} : Call(c) \in Recs /\ Call(c) # Idle
    BY DEF Call, Recs, Idle
  <1>6. [s EXCEPT !.job.complete = TRUE] \in Statuses
    BY <1>1 DEF Statuses, JobStatus
  <1>7. ASSUME cjob # None
        PROVE  Patch([s EXCEPT !.job.found = TRUE, !.job.uid = cjob.uid], TRUE) \in Recs \ {Idle}
    <2>1. cjob.uid \in Nat
      BY <1>7 DEF Jobs
    <2>2. [s EXCEPT !.job.found = TRUE, !.job.uid = cjob.uid] \in Statuses
      BY <1>1, <2>1 DEF Statuses, JobStatus
    <2> QED BY <2>2, PatchType
  <1>8. trackRunningJob \in Recs \ {Idle}
    BY <1>1, <1>2, <1>3, <1>4, <1>6 DEF trackRunningJob
  <1>9. createJob \in Recs \ {Idle}
    BY <1>5, <1>7 DEF createJob
  <1>10. handleJob \in Recs \ {Idle}
    BY <1>1, <1>2, <1>4, <1>5, <1>8, <1>9 DEF handleJob
  <1> QED BY <1>1, <1>2, <1>3, <1>4, <1>10 DEF bootModeSwitch

\* A merge patch keeps the types.
LEMMA MergedType ==
    ASSUME Typed, wrec \in Recs
    PROVE  LET m == [Merged(status, wrec.old, wrec.new) EXCEPT
                        !.job = Merged(status.job, wrec.old.job, wrec.new.job)]
           IN  /\ m \in Statuses
               /\ m.state = IF wrec.new.state = wrec.old.state THEN status.state ELSE wrec.new.state
               /\ m.toggled = IF wrec.new.toggled = wrec.old.toggled THEN status.toggled
                                                                     ELSE wrec.new.toggled
               /\ m.job = Merged(status.job, wrec.old.job, wrec.new.job)
  <1> DEFINE o == wrec.old
             n == wrec.new
             q == Merged(status.job, o.job, n.job)
             m == [Merged(status, o, n) EXCEPT !.job = q]
  <1>1. status \in Statuses /\ o \in Statuses /\ n \in Statuses
    BY DEF Typed, Recs
  <1>2. status.job \in JobStatus /\ o.job \in JobStatus /\ n.job \in JobStatus
    BY <1>1 DEF Statuses
  <1>3. q \in JobStatus
    BY <1>2 DEF Merged, JobStatus
  <1> HIDE DEF o, n, q
  <1>4. /\ m \in Statuses
        /\ m.state = IF n.state = o.state THEN status.state ELSE n.state
        /\ m.toggled = IF n.toggled = o.toggled THEN status.toggled ELSE n.toggled
        /\ m.job = q
    BY <1>1, <1>3 DEF Merged, Statuses
  <1> QED BY <1>4 DEF o, n, q

\* Every step keeps the types.
LEMMA TypedStep == Typed /\ JobOK /\ [Next]_vars => Typed'
  <1> SUFFICES ASSUME Typed, JobOK, [Next]_vars PROVE Typed'
    OBVIOUS
  <1> USE BootAssumption
  <1>0. CASE UNCHANGED vars
    BY <1>0 DEF Typed, vars, inputVars, cacheVars
  <1>1. CASE Reconcile
    <2>1. wrec' = Idle \/ wrec' \in Recs
      BY <1>1 DEF Typed, Reconcile, Recs
    <2> QED BY <1>1, <2>1 DEF Typed, Reconcile, inputVars, cacheVars
  <1>2. CASE toggleHardware
    <2>1. wrec \in Recs
      BY <1>2, RecSteps DEF toggleHardware
    <2>2. wrec' \in Recs /\ allow' \in BOOLEAN
      BY <1>2, <2>1 DEF toggleHardware, Recs, Statuses
    <2> QED BY <1>2, <2>2 DEF Typed, toggleHardware, inputVars, cacheVars
  <1>3. CASE BootModeSwitch
    <2>1. wrec' \in Recs
      BY <1>3, RecSteps, SwitchType DEF BootModeSwitch
    <2> QED BY <1>3, <2>1 DEF Typed, BootModeSwitch, inputVars, cacheVars
  <1>4. CASE deleteTasks
    <2>1. wrec' \in Recs
      BY <1>4, RecSteps DEF deleteTasks, Call, Recs
    <2> QED BY <1>4, <2>1 DEF Typed, deleteTasks, inputVars, cacheVars
  <1>5. CASE deleteJob
    <2>1. wrec \in Recs
      BY <1>5, RecSteps DEF deleteJob
    <2>2. [wrec.new EXCEPT !.job = [NoJobStatus EXCEPT !.found = TRUE, !.existingJobDeleted = TRUE]]
            \in Statuses
      BY <2>1 DEF Recs, Statuses, NoJobStatus, JobStatus
    <2>3. wrec' \in Recs
      BY <1>5, <2>1, <2>2, PatchType DEF deleteJob
    <2>4. job' \in Jobs \cup {None} /\ jwatch' \in Seq(Jobs \cup {None})
      BY <1>5, SetJobType DEF deleteJob
    <2> QED BY <1>5, <2>3, <2>4 DEF Typed, deleteJob, inputVars, cacheVars
  <1>6. CASE create
    <2>1. wrec \in Recs
      BY <1>6, RecSteps DEF create
    <2>2. wrec' \in Recs
      <3>1. wrec.new \in Statuses
        BY <2>1 DEF Recs
      <3>2. Patch(wrec.new, TRUE) \in Recs /\ Fail \in Recs
        BY <2>1, <3>1, PatchType, NewStates DEF Fail
      <3> QED BY <1>6, <3>2 DEF create
    <2>3. /\ job' \in Jobs \cup {None} /\ jwatch' \in Seq(Jobs \cup {None})
          /\ uids' \in Nat /\ uids' >= uids
      <3>1. [uid |-> uids + 1, condition |-> None] \in Jobs
        BY DEF Typed, Jobs
      <3>2. CASE job = None
        BY <1>6, <3>1, <3>2, SetJobType DEF create, Typed
      <3>3. CASE job # None
        BY <1>6, <3>3 DEF create, Typed
      <3> QED BY <3>2, <3>3
    <2>4. completed' \subseteq 1..uids'
      BY <1>6, <2>3 DEF create, Typed
    <2> QED BY <1>6, <2>2, <2>3, <2>4 DEF Typed, create, inputVars, cacheVars
  <1>7. CASE mergePatchStatus
    <2>1. wrec \in Recs
      BY <1>7, RecSteps DEF mergePatchStatus
    <2>2. status' \in Statuses
      BY <1>7, <2>1, MergedType DEF mergePatchStatus
    <2>3. wwatch' \in Seq(Statuses)
      <3>1. Append(wwatch, status') \in Seq(Statuses)
        BY <2>2 DEF Typed
      <3> QED BY <1>7, <3>1 DEF mergePatchStatus, Typed
    <2>4. wqueued' \in BOOLEAN
      BY <1>7 DEF mergePatchStatus, Typed
    <2> QED BY <1>7, <2>2, <2>3, <2>4 DEF Typed, mergePatchStatus, inputVars
  <1>8. CASE WorkflowEvent
    <2>1. wcache' \in Statuses /\ wwatch' \in Seq(Statuses)
      BY <1>8 DEF WorkflowEvent, Typed
    <2> QED BY <1>8, <2>1 DEF Typed, WorkflowEvent, inputVars
  <1>9. CASE JobEvent
    <2>1. cjob' \in Jobs \cup {None} /\ jwatch' \in Seq(Jobs \cup {None})
      BY <1>9 DEF JobEvent, Typed
    <2> QED BY <1>9, <2>1 DEF Typed, JobEvent, inputVars
  <1>10. CASE CallFails
    <2>1. wrec \in Recs
      BY <1>10, RecSteps DEF CallFails
    <2>2. (wrec' = Idle \/ wrec' \in Recs) /\ wqueued' \in BOOLEAN
      <3>1. Fail \in Recs
        BY <2>1, PatchType, NewStates DEF Fail, Recs
      <3> QED BY <1>10, <3>1 DEF CallFails, Typed
    <2>3. faults' \in 0..MaxFaults
      BY <1>10 DEF CallFails, Fault, Typed
    <2> QED BY <1>10, <2>2, <2>3 DEF Typed, CallFails, inputVars, cacheVars
  <1>11. CASE Restart
    <2>1. faults' \in 0..MaxFaults
      BY <1>11 DEF Restart, Fault, Typed
    <2> QED BY <1>11, <2>1 DEF Typed, Restart, inputVars
  <1>12. CASE RufioCompletes
    <2>1. [job EXCEPT !.condition = "Completed"] \in Jobs /\ job.uid \in 1..uids
      BY <1>12 DEF RufioCompletes, Typed, Jobs, JobOK, Current
    <2>2. job' \in Jobs \cup {None} /\ jwatch' \in Seq(Jobs \cup {None})
      BY <1>12, <2>1, SetJobType DEF RufioCompletes
    <2> QED BY <1>12, <2>1, <2>2 DEF Typed, RufioCompletes, inputVars
  <1>13. CASE RufioFails
    <2>1. [job EXCEPT !.condition = "Failed"] \in Jobs
      BY <1>13 DEF RufioFails, Typed, Jobs
    <2>2. job' \in Jobs \cup {None} /\ jwatch' \in Seq(Jobs \cup {None})
      BY <1>13, <2>1, SetJobType DEF RufioFails
    <2>3. faults' \in 0..MaxFaults
      BY <1>13 DEF RufioFails, Fault, Typed
    <2> QED BY <1>13, <2>2, <2>3 DEF Typed, RufioFails, inputVars
  <1> QED
    BY <1>0, <1>1, <1>2, <1>3, <1>4, <1>5, <1>6, <1>7, <1>8, <1>9, <1>10, <1>11, <1>12, <1>13
       DEF Next, Worker

----------------------------------------------------------------------------
(* The invariant, for the steps that change neither the status nor the Job *)

\* The entries are entries, and their stages numbers.
LEMMA Entries ==
    ASSUME Typed
    PROVE  /\ status.job \in JobStatus /\ wcache.job \in JobStatus /\ lastRead.job \in JobStatus
           /\ \A i \in 1..Len(wwatch) : wwatch[i] \in Statuses /\ wwatch[i].job \in JobStatus
           /\ wrec # Idle => /\ wrec.old \in Statuses /\ wrec.old.job \in JobStatus
                             /\ wrec.new \in Statuses /\ wrec.new.job \in JobStatus
                             /\ lastRead = wrec.old
           /\ Len(wwatch) \in Nat
  <1>1. \A x \in Statuses : x.job \in JobStatus
    BY DEF Statuses
  <1>2. Len(wwatch) \in Nat /\ \A i \in 1..Len(wwatch) : wwatch[i] \in Statuses
    BY DEF Typed
  <1>3. wrec # Idle => wrec.old \in Statuses /\ wrec.new \in Statuses /\ lastRead = wrec.old
    BY DEF Typed, Recs, lastRead
  <1>4. lastRead \in Statuses
    BY <1>3 DEF Typed, lastRead
  <1> QED BY <1>1, <1>2, <1>3, <1>4 DEF Typed

\* A version of the status stays truthful.
LEMMA TruthfulStep ==
    ASSUME NEW s, Truthful(s), phase' = phase, allow' = allow \/ allow' = (phase = "PREPARING"),
           Stage(lastRead.job) = 3 => Stage(lastRead'.job) = 3,
           Stage(lastRead.job) = 3 /\ uids \in completed => uids' \in completed'
    PROVE  Truthful(s)'
  BY DEF Truthful

\* A step that changes only the reconcile, and not what it has read, need be
\* looked at only for RecOK.
LEMMA OnlyRec ==
    ASSUME IInv, Typed', RecOK', lastRead' = lastRead,
           UNCHANGED <<inputVars, status, cacheVars, job, uids, completed>>,
           allow' = allow \/ allow' = (phase = "PREPARING")
    PROVE  IInv'
  <1> USE DEF inputVars, cacheVars
  <1>1. \A s : Truthful(s) => Truthful(s)'
    BY TruthfulStep
  <1>2. Ordered'
    BY DEF IInv, Ordered
  <1>3. StatusOK'
    BY <1>1 DEF IInv, StatusOK, Done, NeedsJob, RunsJob
  <1>4. JobOK'
    BY DEF IInv, JobOK, Current
  <1> QED BY <1>2, <1>3, <1>4 DEF IInv

\* Reconcile starts from the cached copy.
LEMMA ReconcileStep == IInv /\ Typed' /\ Reconcile => IInv'
  <1> SUFFICES ASSUME IInv, Typed', Reconcile PROVE IInv'
    OBVIOUS
  <1>1. lastRead' = lastRead
    BY DEF Reconcile, lastRead, Idle, cacheVars
  <1>2. ASSUME wrec' # Idle PROVE RecOK'
    <2>1. /\ wrec'.old = wcache /\ wrec'.new = wcache /\ wcache.state = phase
          /\ wrec'.step = IF opts.toggle /\ ~wcache.toggled THEN "toggle" ELSE "switch"
      BY <1>2 DEF Reconcile
    <2>2. Truthful(wcache)'
      <3>1. Truthful(wcache) /\ UNCHANGED <<wcache, phase, allow, uids, completed>>
        BY DEF IInv, StatusOK, Reconcile, inputVars, cacheVars
      <3> QED BY <1>1, <3>1, TruthfulStep DEF Truthful
    <2>3. Advances(wcache.job, wcache.job)
      BY DEF Advances
    <2>4. wcache.state # Done
      BY <2>1, NewStates DEF IInv, Typed
    <2>5. Stage(wcache.job) >= 1 =>
             /\ NeedsJob /\ uids >= 1
             /\ uids = 1 /\ cjob = None => job = None /\ jwatch = << >>
      <3>1. Stage(wcache.job) <= Stage(status.job) /\ (~NeedsJob => Stage(status.job) = 0)
        BY DEF IInv, Ordered, StatusOK
      <3>2. uids \in Nat /\ Stage(wcache.job) \in {0, 1, 2, 3} /\ Stage(status.job) \in {0, 1, 2, 3}
        BY Entries, StageFacts DEF IInv, Typed
      <3> QED BY <3>1, <3>2 DEF IInv, JobOK
    <2> QED BY <2>1, <2>2, <2>3, <2>4, <2>5
          DEF RecOK, Reconcile, inputVars, cacheVars, NeedsJob, RunsJob, Done, Truthful
  <1>3. ASSUME wrec' = Idle PROVE RecOK'
    BY <1>3 DEF RecOK
  <1> QED BY <1>1, <1>2, <1>3, OnlyRec DEF Reconcile

\* The Hardware is updated to what its status entry then says.
LEMMA ToggleStep == IInv /\ Typed' /\ toggleHardware => IInv'
  <1> SUFFICES ASSUME IInv, Typed', toggleHardware PROVE IInv'
    OBVIOUS
  <1>1. wrec # Idle /\ wrec \in Recs
    BY RecSteps DEF IInv, toggleHardware
  <1>2. /\ wrec' # Idle /\ wrec'.old = wrec.old /\ wrec'.step = "switch"
        /\ wrec'.new.toggled = TRUE /\ wrec'.new.job = wrec.new.job
        /\ wrec'.new.state = wrec.new.state
    BY <1>1 DEF toggleHardware, Recs, Statuses, Idle
  <1>3. lastRead' = lastRead
    BY <1>1, <1>2 DEF lastRead
  <1>4. /\ UNCHANGED <<inputVars, status, cacheVars, job, uids, completed>>
        /\ allow' = (phase = "PREPARING")
    BY DEF toggleHardware
  <1>5. \A s : Truthful(s) => Truthful(s)'
    BY <1>3, <1>4, TruthfulStep DEF inputVars
  <1>6. RecOK
    BY DEF IInv
  <1>7. Truthful(wrec.old)' /\ Truthful(wrec.new)'
    <2>1. Truthful(wrec.old) /\ Truthful(wrec.new)
      BY <1>1, <1>6 DEF RecOK
    <2> QED BY <1>2, <1>3, <1>4, <1>5, <2>1 DEF Truthful, inputVars
  <1>8. wrec.step = "toggle"
    BY DEF toggleHardware
  <1>9. wrec.new.state # Done
    BY <1>1, <1>6, <1>8, NewStates DEF RecOK, IInv, Typed
  <1>10. RecOK'
    BY <1>1, <1>2, <1>4, <1>6, <1>7, <1>8, <1>9
       DEF RecOK, inputVars, cacheVars, NeedsJob, RunsJob, Done
  <1> QED BY <1>3, <1>4, <1>10, OnlyRec

\* What the switch on the boot mode decides: to leave the phase or fail it with
\* nothing else changed, to leave it because the Job has completed, to take
\* over a Job, to delete one or to create one.
Decides(r) ==
    LET j == wrec.new.job
        Same == r.new.toggled = wrec.new.toggled /\ r.new.job = j
    IN  /\ r.old = wrec.old
        /\ \/ r.step = "patch" /\ Same /\ r.new.state \in {wrec.new.state, "FAILED"}
           \/ /\ r.step = "patch" /\ Same /\ r.new.state = Done
              /\ NeedsJob => Stage(j) = 3 /\ j.complete
           \/ /\ r.step = "patch" /\ r.new.toggled = wrec.new.toggled /\ r.new.state = Done
              /\ Stage(j) = 3 /\ r.new.job = [j EXCEPT !.complete = TRUE]
              /\ cjob # None /\ cjob.condition = "Completed"
           \/ /\ r.step = "patch" /\ r.new.toggled = wrec.new.toggled
              /\ r.new.state = wrec.new.state
              /\ NeedsJob /\ Stage(j) \in {0, 2} /\ cjob # None
              /\ r.new.job = [j EXCEPT !.found = TRUE, !.uid = cjob.uid]
           \/ r.step = "deleteTasks" /\ r.new = wrec.new /\ Stage(j) = 1
           \/ /\ r.step = "create" /\ r.new = wrec.new /\ cjob = None
              /\ NeedsJob /\ Stage(j) \in {0, 2}

\* The switch decides nothing else.
LEMMA SwitchDecides ==
    ASSUME Typed, wrec \in Recs, Shape(wrec.new.job)
    PROVE  Decides(bootModeSwitch)
  <1> DEFINE s == wrec.new
             j == s.job
  <1>1. s \in Statuses /\ j \in JobStatus
    BY DEF Recs, Statuses
  <1>2. \A x \in Statuses, b \in BOOLEAN :
          Patch(x, b).step = "patch" /\ Patch(x, b).old = wrec.old /\ Patch(x, b).new = x
    BY DEF Patch
  <1>3. Decides(Fail)
    <2>1. /\ [s EXCEPT !.state = "FAILED"].job = j
          /\ [s EXCEPT !.state = "FAILED"].toggled = s.toggled
          /\ [s EXCEPT !.state = "FAILED"].state = "FAILED"
      BY <1>1 DEF Statuses
    <2>2. Fail.step = "patch" /\ Fail.old = wrec.old /\ Fail.new = [s EXCEPT !.state = "FAILED"]
      BY <1>1, <1>2, NewStates DEF Fail
    <2> QED BY <2>1, <2>2 DEF Decides
  <1>4. \A b \in BOOLEAN : Decides(Patch(s, b))
    BY <1>1, <1>2 DEF Decides
  <1>5. ASSUME NEW x \in Statuses
        PROVE  /\ Finish(x).step = "patch" /\ Finish(x).old = wrec.old
               /\ Finish(x).new.job = x.job /\ Finish(x).new.toggled = x.toggled
               /\ Finish(x).new.state = Done
    <2>1. /\ [x EXCEPT !.state = Done].job = x.job /\ [x EXCEPT !.state = Done].state = Done
          /\ [x EXCEPT !.state = Done].toggled = x.toggled
      BY DEF Statuses
    <2> QED BY <1>2, <2>1, NewStates DEF Finish
  <1>6. (NeedsJob => Stage(j) = 3 /\ j.complete) => Decides(Finish(s))
    BY <1>1, <1>5 DEF Decides
  <1>7. ASSUME cjob # None, cjob.condition = "Completed", Stage(j) = 3
        PROVE  Decides(Finish([s EXCEPT !.job.complete = TRUE]))
    <2>1. /\ [s EXCEPT !.job.complete = TRUE] \in Statuses
          /\ [s EXCEPT !.job.complete = TRUE].job = [j EXCEPT !.complete = TRUE]
          /\ [s EXCEPT !.job.complete = TRUE].toggled = s.toggled
      BY <1>1 DEF Statuses, JobStatus
    <2> QED BY <1>5, <1>7, <2>1 DEF Decides
  <1>8. ASSUME Stage(j) = 3 PROVE Decides(trackRunningJob)
    <2>1. CASE cjob = None \/ cjob.condition = "Failed"
      BY <1>3, <2>1 DEF trackRunningJob
    <2>2. CASE cjob # None /\ cjob.condition = "Completed"
      <3>1. trackRunningJob = Finish([s EXCEPT !.job.complete = TRUE])
        BY <2>2 DEF trackRunningJob
      <3> QED BY <1>7, <1>8, <2>2, <3>1
    <2>3. CASE cjob # None /\ cjob.condition \notin {"Completed", "Failed"}
      BY <1>4, <2>3 DEF trackRunningJob
    <2> QED BY <2>1, <2>2, <2>3
  <1>9. ASSUME NeedsJob, Stage(j) \in {0, 2} PROVE Decides(createJob)
    <2>1. CASE cjob = None
      <3>1. Call("create").step = "create" /\ Call("create").new = s /\ Call("create").old = wrec.old
        BY DEF Call, Recs
      <3> QED BY <1>9, <2>1, <3>1 DEF Decides, createJob
    <2>2. CASE cjob # None
      <3> DEFINE a == [s EXCEPT !.job.found = TRUE, !.job.uid = cjob.uid]
      <3>1. cjob.uid \in Nat
        BY <2>2 DEF Typed, Jobs
      <3>2. /\ a \in Statuses /\ a.toggled = s.toggled /\ a.state = s.state
            /\ a.job = [j EXCEPT !.found = TRUE, !.uid = cjob.uid]
        BY <1>1, <3>1 DEF Statuses, JobStatus
      <3>3. /\ Patch(a, TRUE).step = "patch" /\ Patch(a, TRUE).old = wrec.old
            /\ Patch(a, TRUE).new = a
        BY <1>2, <3>2
      <3>4. createJob = Patch(a, TRUE)
        BY <2>2 DEF createJob
      <3> HIDE DEF a
      <3>5. Decides(Patch(a, TRUE))
        BY <1>9, <2>2, <3>2, <3>3 DEF Decides
      <3> QED BY <3>4, <3>5
    <2> QED BY <2>1, <2>2
  <1>10. ASSUME opts.mode \in RunsJob PROVE Decides(handleJob)
    <2>1. CASE j.found /\ ~j.existingJobDeleted
      <3>1. /\ Call("deleteTasks").step = "deleteTasks" /\ Call("deleteTasks").new = s
            /\ Call("deleteTasks").old = wrec.old
        BY DEF Call, Recs
      <3>2. handleJob = Call("deleteTasks")
        BY <2>1 DEF handleJob, Shape
      <3> QED BY <1>1, <2>1, <3>1, <3>2, StageFacts DEF Decides
    <2>2. CASE ~(j.found /\ ~j.existingJobDeleted) /\ j.uid = 0 /\ opts.actions
      <3>1. Stage(j) \in {0, 2}
        BY <1>1, <2>2, StageFacts
      <3>2. handleJob = createJob
        BY <2>2 DEF handleJob
      <3> QED BY <1>9, <1>10, <2>2, <3>1, <3>2 DEF NeedsJob
    <2>3. CASE ~(j.found /\ ~j.existingJobDeleted) /\ j.uid = 0 /\ ~opts.actions
      <3>1. handleJob = IF phase = "POST" THEN Finish(s) ELSE Patch(s, FALSE)
        BY <2>3 DEF handleJob
      <3> QED BY <1>4, <1>6, <2>3, <3>1 DEF NeedsJob
    <2>4. CASE ~(j.found /\ ~j.existingJobDeleted) /\ j.uid # 0
      <3>1. Stage(j) = 3
        BY <1>1, <2>4, StageFacts DEF Shape, NoJobStatus
      <3>2. handleJob = trackRunningJob
        BY <2>4 DEF handleJob
      <3> QED BY <1>8, <3>1, <3>2
    <2> QED BY <2>1, <2>2, <2>3, <2>4
  <1>11. CASE opts.mode \notin RunsJob
    BY <1>6, <1>11 DEF bootModeSwitch, NeedsJob
  <1>12. CASE opts.mode \in RunsJob /\ j.existingJobDeleted /\ j.uid # 0 /\ j.complete
    <2>1. Stage(j) = 3
      BY <1>1, <1>12, StageFacts DEF Shape, NoJobStatus
    <2> QED BY <1>4, <1>6, <1>12, <2>1 DEF bootModeSwitch
  <1>13. CASE opts.mode \in RunsJob /\ ~(j.existingJobDeleted /\ j.uid # 0 /\ j.complete)
    BY <1>3, <1>10, <1>13 DEF bootModeSwitch
  <1> QED BY <1>11, <1>12, <1>13

\* A reconcile that decides what to do next keeps the invariant.
LEMMA SwitchStep == IInv /\ Typed' /\ BootModeSwitch => IInv'
  <1> SUFFICES ASSUME IInv, Typed', BootModeSwitch PROVE IInv'
    OBVIOUS
  <1>1. wrec # Idle /\ wrec \in Recs /\ wrec.step = "switch"
    BY RecSteps DEF IInv, BootModeSwitch
  <1>2. RecOK /\ Typed
    BY DEF IInv
  <1> DEFINE j == wrec.old.job
  <1>3. /\ Truthful(wrec.old) /\ Truthful(wrec.new) /\ wrec.new.job = j
        /\ wrec.old.state = phase /\ wrec.new.state = phase
        /\ opts.toggle => wrec.new.toggled
        /\ Stage(j) >= 1 => /\ NeedsJob /\ uids >= 1
                            /\ uids = 1 /\ cjob = None => job = None /\ jwatch = << >>
    BY <1>1, <1>2 DEF RecOK
  <1>4. Decides(wrec')
    BY <1>1, <1>2, <1>3, SwitchDecides DEF BootModeSwitch, Truthful
  <1>5. wrec' # Idle /\ wrec'.old = wrec.old
    BY <1>1, <1>2, <1>4, SwitchType DEF Decides, BootModeSwitch
  <1>6. lastRead' = lastRead /\ lastRead = wrec.old
    BY <1>1, <1>5 DEF lastRead
  <1>7. UNCHANGED <<inputVars, status, cacheVars, allow, job, uids, completed>>
    BY DEF BootModeSwitch
  <1>8. \A x : Truthful(x) => Truthful(x)'
    BY <1>6, <1>7, TruthfulStep DEF inputVars
  <1>9. Truthful(wrec.old)'
    BY <1>3, <1>5, <1>6, <1>7, <1>8 DEF Truthful, inputVars
  <1>10. phase # Done /\ phase # "FAILED" /\ Done # "FAILED" /\ j \in JobStatus /\ Shape(j)
         /\ wrec'.new \in Statuses /\ wrec'.new.job \in JobStatus /\ uids \in Nat
    <2>1. wrec.new \in Statuses
      BY <1>1 DEF Recs
    <2>2. wrec' \in Recs
      BY <1>5 DEF Typed
    <2> QED BY <1>1, <1>2, <1>3, <2>1, <2>2, NewStates DEF Truthful, Recs, Statuses, Typed
  <1>11. cjob # None => /\ cjob.uid = uids /\ uids >= 1 /\ cjob.uid # 0
                        /\ cjob.condition = "Completed" => uids \in completed
    BY <1>10 DEF IInv, JobOK, Current
  <1>12. uids = 1 /\ cjob = None /\ Stage(j) = 2 => job = None /\ jwatch = << >>
    BY <1>3
  <1> DEFINE n == wrec'.new
  <1>13. CASE /\ wrec'.step = "patch" /\ n.toggled = wrec.new.toggled /\ n.job = j
              /\ n.state \in {phase, "FAILED"}
    <2>1. Truthful(wrec.new)'
      BY <1>3, <1>6, <1>7, <1>8, <1>13 DEF Truthful, inputVars
    <2> QED BY <1>3, <1>5, <1>6, <1>7, <1>9, <1>10, <1>13, <2>1, OnlyRec
          DEF RecOK, inputVars, cacheVars, NeedsJob, RunsJob, Done, Advances
  <1>14. CASE /\ wrec'.step = "patch" /\ n.toggled = wrec.new.toggled /\ n.job = j
              /\ n.state = Done
              /\ NeedsJob => Stage(j) = 3 /\ j.complete
    <2>1. Truthful(wrec.new)'
      BY <1>3, <1>6, <1>7, <1>8, <1>14 DEF Truthful, inputVars
    <2>2. NeedsJob => Stage(j) = 3 /\ uids \in completed
      BY <1>3, <1>14 DEF Truthful
    <2> QED BY <1>3, <1>5, <1>6, <1>7, <1>9, <1>10, <1>14, <2>1, <2>2, OnlyRec
          DEF RecOK, inputVars, cacheVars, NeedsJob, RunsJob, Done, Advances
  <1>15. CASE /\ wrec'.step = "patch" /\ n.toggled = wrec.new.toggled /\ n.state = Done
              /\ Stage(j) = 3 /\ n.job = [j EXCEPT !.complete = TRUE]
              /\ cjob # None /\ cjob.condition = "Completed"
    <2>1. /\ n.job.found = j.found /\ n.job.existingJobDeleted = j.existingJobDeleted
          /\ n.job.uid = j.uid /\ n.job.complete
      BY <1>10, <1>15 DEF JobStatus
    <2>2. Stage(n.job) = 3
      BY <1>10, <1>15, <2>1, StageFacts
    <2>3. Shape(n.job)
      BY <1>10, <1>15, <2>1, StageFacts DEF Shape
    <2>4. Truthful(wrec.new)'
      BY <1>3, <1>6, <1>7, <1>11, <1>15, <2>3 DEF Truthful, inputVars
    <2> QED BY <1>3, <1>5, <1>6, <1>7, <1>9, <1>10, <1>11, <1>15, <2>2, <2>4, OnlyRec
          DEF RecOK, inputVars, cacheVars, NeedsJob, RunsJob, Done, Advances
  <1>16. CASE /\ wrec'.step = "patch" /\ n.toggled = wrec.new.toggled /\ n.state = phase
              /\ NeedsJob /\ Stage(j) \in {0, 2} /\ cjob # None
              /\ n.job = [j EXCEPT !.found = TRUE, !.uid = cjob.uid]
    <2>1. /\ n.job.found /\ n.job.existingJobDeleted = j.existingJobDeleted
          /\ n.job.uid = cjob.uid /\ n.job.complete = j.complete
      BY <1>10, <1>16 DEF JobStatus
    <2>2. ~j.complete
      BY <1>10, <1>16, StageFacts DEF Shape, NoJobStatus
    <2>3. Shape(n.job)
      BY <1>10, <1>11, <1>16, <2>1, <2>2, StageFacts DEF Shape
    <2>4. Truthful(wrec.new)'
      BY <1>3, <1>6, <1>7, <1>16, <2>1, <2>2, <2>3 DEF Truthful, inputVars
    <2> QED BY <1>3, <1>5, <1>6, <1>7, <1>9, <1>10, <1>11, <1>16, <2>1, <2>4, OnlyRec
          DEF RecOK, inputVars, cacheVars, NeedsJob, RunsJob, Done, Advances
  <1>17. CASE /\ wrec'.step \in {"deleteTasks", "create"} /\ n = wrec.new
              /\ wrec'.step = "deleteTasks" => Stage(j) = 1
              /\ wrec'.step = "create" => cjob = None /\ NeedsJob /\ Stage(j) \in {0, 2}
    <2>1. Truthful(wrec.new)'
      BY <1>3, <1>6, <1>7, <1>8, <1>17 DEF Truthful, inputVars
    <2> QED BY <1>3, <1>5, <1>6, <1>7, <1>9, <1>10, <1>12, <1>17, <2>1, OnlyRec
          DEF RecOK, inputVars, cacheVars, NeedsJob, RunsJob, Done, Advances
  <1> QED BY <1>3, <1>4, <1>13, <1>14, <1>15, <1>16, <1>17 DEF Decides

\* deleteTasks and the failed calls keep what the reconcile has read and, but
\* for the FAILED state, what it will write.
LEMMA RecKept ==
    ASSUME IInv, Typed', wrec # Idle, wrec' # Idle, wrec'.old = wrec.old,
           wrec'.new.job = wrec.new.job, wrec'.new.toggled = wrec.new.toggled,
           wrec.step # "patch",
           \/ wrec'.step = "patch" /\ wrec'.new.state = "FAILED"
           \/ wrec.step = "deleteTasks" /\ wrec'.step = "deleteJob" /\ wrec'.new.state = wrec.new.state,
           UNCHANGED <<inputVars, status, cacheVars, allow, job, uids, completed>>
    PROVE  IInv'
  <1>1. RecOK /\ Typed
    BY DEF IInv
  <1>2. lastRead' = lastRead /\ lastRead = wrec.old
    BY DEF lastRead
  <1>3. \A x : Truthful(x) => Truthful(x)'
    BY <1>2, TruthfulStep DEF inputVars
  <1>4. Truthful(wrec.old)' /\ Truthful(wrec.new)'
    BY <1>1, <1>2, <1>3 DEF RecOK, Truthful, inputVars
  <1>5. phase # Done /\ Done # "FAILED"
    BY <1>1, NewStates DEF Typed
  <1>6. RecOK'
    BY <1>1, <1>2, <1>4, <1>5 DEF RecOK, inputVars, cacheVars, NeedsJob, RunsJob, Done, Advances
  <1> QED BY <1>2, <1>6, OnlyRec

\* The Tasks of the Job are deleted.
LEMMA DeleteTasksStep == IInv /\ Typed' /\ deleteTasks => IInv'
  <1> SUFFICES ASSUME IInv, Typed', deleteTasks PROVE IInv'
    OBVIOUS
  <1>1. wrec # Idle /\ wrec \in Recs /\ wrec.step = "deleteTasks"
    BY RecSteps DEF IInv, deleteTasks
  <1>2. wrec' # Idle /\ wrec'.old = wrec.old /\ wrec'.new = wrec.new /\ wrec'.step = "deleteJob"
    BY <1>1 DEF deleteTasks, Call, Recs, Idle
  <1> QED BY <1>1, <1>2, RecKept DEF deleteTasks

\* A reconcile that is over: what it had read is replaced by the cached copy,
\* which is no older.
LEMMA RecOver ==
    ASSUME IInv, Typed', wrec' = Idle,
           UNCHANGED <<inputVars, status, cacheVars, allow, job, uids, completed>>
    PROVE  IInv'
  <1> USE DEF inputVars, cacheVars
  <1>1. Typed /\ Ordered /\ lastRead' = wcache
    BY DEF IInv, lastRead
  <1>2. /\ Stage(lastRead.job) <= Stage(wcache.job) /\ Stage(wcache.job) <= Stage(status.job)
        /\ Stage(lastRead.job) \in {0, 1, 2, 3} /\ Stage(wcache.job) \in {0, 1, 2, 3}
        /\ Stage(status.job) \in {0, 1, 2, 3}
    BY <1>1, Entries, StageFacts DEF Ordered
  <1>3. Stage(lastRead'.job) = Stage(wcache.job)
    BY <1>1
  <1>4. \A x : Truthful(x) => Truthful(x)'
    BY <1>2, <1>3, TruthfulStep
  <1>5. Ordered'
    BY <1>1, <1>2, <1>3 DEF Ordered
  <1>6. StatusOK'
    BY <1>2, <1>3, <1>4 DEF IInv, StatusOK, Done, NeedsJob, RunsJob
  <1>7. RecOK'
    BY DEF RecOK
  <1>8. JobOK'
    BY <1>2, <1>3 DEF IInv, JobOK, Current
  <1> QED BY <1>5, <1>6, <1>7, <1>8 DEF IInv

\* Failed calls.
LEMMA CallFailsStep == IInv /\ Typed' /\ CallFails => IInv'
  <1> SUFFICES ASSUME IInv, Typed', CallFails PROVE IInv'
    OBVIOUS
  <1>1. wrec # Idle /\ wrec \in Recs
    BY RecSteps DEF IInv, CallFails
  <1>2. UNCHANGED <<inputVars, status, cacheVars, allow, job, uids, completed>>
    BY DEF CallFails
  <1>3. CASE wrec' = Idle
    BY <1>2, <1>3, RecOver
  <1>4. CASE wrec' = Fail /\ wrec.step # "patch"
    <2>1. /\ [wrec.new EXCEPT !.state = "FAILED"] \in Statuses
          /\ [wrec.new EXCEPT !.state = "FAILED"].job = wrec.new.job
          /\ [wrec.new EXCEPT !.state = "FAILED"].toggled = wrec.new.toggled
          /\ [wrec.new EXCEPT !.state = "FAILED"].state = "FAILED"
      BY <1>1 DEF Recs, Statuses
    <2>2. /\ wrec' # Idle /\ wrec'.old = wrec.old /\ wrec'.step = "patch"
          /\ wrec'.new = [wrec.new EXCEPT !.state = "FAILED"]
      BY <1>1, <1>4, <2>1, PatchType DEF Fail
    <2> QED BY <1>1, <1>2, <1>4, <2>1, <2>2, RecKept
  <1> QED BY <1>3, <1>4 DEF CallFails

----------------------------------------------------------------------------
(* The steps that change the Job or the copy of it *)

\* A step that changes only the Job and the copies of it.
LEMMA OnlyJob ==
    ASSUME IInv, Typed', JobOK', completed \subseteq completed',
           UNCHANGED <<inputVars, status, wcache, wwatch, wrec, allow, uids>>,
           uids = 1 /\ cjob' = None => \/ job' = None /\ jwatch' = << >>
                                       \/ /\ Stage(status.job) = 0
                                          /\ wrec # Idle => Stage(wrec.new.job) = 0,
           wrec.step = "create" /\ Stage(wrec.old.job) = 2 /\ uids = 1 => cjob' = None
    PROVE  IInv'
  <1> USE DEF inputVars
  <1>1. lastRead' = lastRead /\ Typed
    BY DEF lastRead, IInv
  <1>2. \A x : Truthful(x) => Truthful(x)'
    BY <1>1, TruthfulStep
  <1>3. Ordered'
    BY <1>1 DEF IInv, Ordered
  <1>4. StatusOK'
    BY <1>1, <1>2 DEF IInv, StatusOK, Done, NeedsJob, RunsJob
  <1>5. RecOK'
    <2>1. CASE wrec # Idle
      <3>1. Truthful(wrec.old)' /\ Truthful(wrec.new)'
        BY <1>2, <2>1 DEF IInv, RecOK, Truthful
      <3>2. wrec # Idle => Stage(wrec.new.job) \in {0, 1, 2, 3}
        BY <1>1, Entries, StageFacts
      <3> QED BY <2>1, <3>1, <3>2 DEF IInv, RecOK, NeedsJob, RunsJob, Done
    <2>2. CASE wrec = Idle
      BY <2>2 DEF RecOK
    <2> QED BY <2>1, <2>2
  <1> QED BY <1>3, <1>4, <1>5 DEF IInv

\* The next version of the Job reaches the cache.
LEMMA JobEventStep == IInv /\ Typed' /\ JobEvent => IInv'
  <1> SUFFICES ASSUME IInv, Typed', JobEvent PROVE IInv'
    OBVIOUS
  <1>1. Typed /\ JobOK /\ RecOK /\ Ordered
    BY DEF IInv
  <1>2. /\ jwatch # << >> /\ cjob' = jwatch[1] /\ Len(jwatch) \in Nat /\ Len(jwatch) >= 1
        /\ Len(jwatch') = Len(jwatch) - 1
        /\ \A i \in 1..Len(jwatch') : jwatch'[i] = jwatch[i + 1] /\ i + 1 \in 1..Len(jwatch)
        /\ jwatch' = << >> <=> Len(jwatch) = 1
    BY <1>1, HeadTail DEF JobEvent, Typed
  <1>3. UNCHANGED <<inputVars, status, wcache, wwatch, wrec, allow, job, uids, completed>>
    BY DEF JobEvent
  <1>4. lastRead' = lastRead
    BY <1>3 DEF lastRead
  <1>5. /\ Current(job) /\ Current(jwatch[1])
        /\ \A i \in 1..Len(jwatch) :
              Current(jwatch[i]) /\ (jwatch[i] = None => i = Len(jwatch) /\ job = None)
        /\ jwatch[Len(jwatch)] = job
    BY <1>1, <1>2 DEF JobOK
  <1>6. /\ Current(job)' /\ Current(cjob)'
        /\ \A i \in 1..Len(jwatch') : Current(jwatch[i])'
    <2>1. \A x : Current(x) => Current(x)'
      BY <1>3 DEF Current
    <2>2. \A i \in 1..Len(jwatch') : Current(jwatch[i + 1]) /\ jwatch'[i] = jwatch[i + 1]
      BY <1>2, <1>5
    <2> QED BY <1>2, <1>3, <1>5, <2>2 DEF Current
  <1>7. cjob' = None => job = None /\ jwatch' = << >>
    <2>1. 1 \in 1..Len(jwatch)
      BY <1>2
    <2> QED BY <1>2, <1>5, <2>1
  <1>8. IF jwatch' = << >> THEN cjob' = job ELSE jwatch'[Len(jwatch')] = job
    <2>1. CASE Len(jwatch) = 1
      BY <1>2, <1>5, <2>1
    <2>2. CASE Len(jwatch) > 1
      <3>1. Len(jwatch') \in 1..Len(jwatch') /\ Len(jwatch') + 1 = Len(jwatch)
        BY <1>2, <2>2
      <3> QED BY <1>2, <1>5, <2>2, <3>1
    <2> QED BY <1>2, <2>1, <2>2
  <1>9. \A i \in 1..Len(jwatch') : jwatch'[i] = None => i = Len(jwatch') /\ job = None
    BY <1>2, <1>5
  <1>10. uids # 0
    BY <1>1, <1>2 DEF JobOK
  <1>11. JobOK'
    BY <1>1, <1>3, <1>4, <1>6, <1>7, <1>8, <1>9, <1>10 DEF JobOK
  <1>12. ~(wrec.step = "create" /\ Stage(wrec.old.job) = 2 /\ uids = 1)
    <2> SUFFICES ASSUME wrec.step = "create", Stage(wrec.old.job) = 2, uids = 1
                 PROVE  FALSE
      OBVIOUS
    <2>1. wrec # Idle /\ cjob = None /\ lastRead = wrec.old
      BY <1>1 DEF RecOK, Idle, lastRead
    <2>2. Stage(status.job) >= 1
      BY <1>1, <2>1, Entries, StageFacts DEF Ordered
    <2> QED BY <1>1, <1>2, <2>1, <2>2 DEF JobOK
  <1> QED BY <1>3, <1>7, <1>11, <1>12, OnlyJob

\* Rufio ends the Job.
LEMMA JobEnded ==
    ASSUME IInv, Typed', NEW c \in {"Completed", "Failed"},
           job # None, job.condition = None, SetJob([job EXCEPT !.condition = c]),
           completed' = IF c = "Completed" THEN completed \cup {job.uid} ELSE completed,
           UNCHANGED <<inputVars, status, wcache, wwatch, cjob, wrec, allow, uids>>
    PROVE  IInv'
  <1>1. Typed /\ JobOK /\ RecOK /\ Ordered
    BY DEF IInv
  <1> DEFINE v == [job EXCEPT !.condition = c]
  <1>2. job \in Jobs /\ v \in Jobs /\ v # None /\ v # job /\ v.uid = job.uid /\ v.condition = c
    BY <1>1, BootAssumption DEF Typed, Jobs
  <1>3. job' = v /\ jwatch' = Append(jwatch, v)
    BY <1>2 DEF SetJob
  <1> HIDE DEF v
  <1>4. lastRead' = lastRead
    BY DEF lastRead
  <1>5. job.uid = uids /\ uids >= 1
    BY <1>1 DEF JobOK, Current
  <1>8. /\ Len(jwatch') = Len(jwatch) + 1 /\ jwatch' # << >> /\ Len(jwatch) \in Nat
        /\ \A i \in 1..Len(jwatch) : jwatch'[i] = jwatch[i]
        /\ jwatch'[Len(jwatch) + 1] = v
        /\ \A i \in 1..Len(jwatch') : i \in 1..Len(jwatch) \/ i = Len(jwatch) + 1
    BY <1>1, <1>2, <1>3, Appended DEF Typed
  <1>9. \A i \in 1..Len(jwatch') : Current(jwatch[i])' /\ jwatch'[i] # None
    <2> SUFFICES ASSUME NEW i \in 1..Len(jwatch') PROVE Current(jwatch[i])' /\ jwatch'[i] # None
      OBVIOUS
    <2>1. CASE i \in 1..Len(jwatch)
      BY <1>1, <1>8, <2>1 DEF JobOK, Current
    <2>2. CASE i = Len(jwatch) + 1
      BY <1>2, <1>5, <1>8, <2>2 DEF Current
    <2> QED BY <1>8, <2>1, <2>2
  <1>10. Current(job)' /\ Current(cjob)'
    BY <1>1, <1>2, <1>3, <1>5 DEF JobOK, Current
  <1>11. uids = 1 /\ cjob = None =>
           Stage(status.job) = 0 /\ (wrec # Idle => Stage(wrec.new.job) = 0)
    <2>1. Stage(status.job) \in {0, 1, 2, 3} /\ (wrec # Idle => Stage(wrec.new.job) \in {0, 1, 2, 3})
      BY <1>1, Entries, StageFacts
    <2> QED BY <1>1, <2>1 DEF JobOK, RecOK
  <1>12. JobOK'
    BY <1>1, <1>2, <1>3, <1>4, <1>5, <1>8, <1>9, <1>10, <1>11 DEF JobOK
  <1>13. wrec.step = "create" /\ Stage(wrec.old.job) = 2 /\ uids = 1 => cjob' = None
    BY <1>1 DEF RecOK, Idle
  <1> QED BY <1>11, <1>12, <1>13, OnlyJob

\* The Job is deleted; only the first one can be.
LEMMA DeleteJobStep == IInv /\ Typed' /\ deleteJob => IInv'
  <1> SUFFICES ASSUME IInv, Typed', deleteJob PROVE IInv'
    OBVIOUS
  <1>1. Typed /\ JobOK /\ RecOK /\ Ordered /\ StatusOK
    BY DEF IInv
  <1>2. wrec # Idle /\ wrec \in Recs /\ wrec.step = "deleteJob"
    BY <1>1, RecSteps DEF deleteJob
  <1> DEFINE d == [NoJobStatus EXCEPT !.found = TRUE, !.existingJobDeleted = TRUE]
  <1>3. d \in JobStatus /\ d.found /\ d.existingJobDeleted /\ d.uid = 0 /\ ~d.complete
    BY DEF NoJobStatus, JobStatus
  <1>4. Stage(d) = 2 /\ Shape(d)
    BY <1>3, StageFacts DEF Shape
  <1>5. /\ [wrec.new EXCEPT !.job = d] \in Statuses
        /\ [wrec.new EXCEPT !.job = d].job = d
        /\ [wrec.new EXCEPT !.job = d].state = wrec.new.state
        /\ [wrec.new EXCEPT !.job = d].toggled = wrec.new.toggled
    BY <1>2, <1>3 DEF Recs, Statuses
  <1>6. /\ wrec' # Idle /\ wrec'.old = wrec.old /\ wrec'.step = "patch" /\ wrec'.new.job = d
        /\ wrec'.new.state = wrec.new.state /\ wrec'.new.toggled = wrec.new.toggled
    BY <1>2, <1>5, PatchType DEF deleteJob
  <1>7. UNCHANGED <<inputVars, status, wcache, wwatch, cjob, allow, uids, completed>> /\ SetJob(None)
    BY DEF deleteJob
  <1> HIDE DEF d
  <1>8. lastRead' = lastRead /\ lastRead = wrec.old
    BY <1>2, <1>6 DEF lastRead
  <1>9. /\ Stage(lastRead.job) = 1 /\ NeedsJob /\ uids = 1 /\ Stage(status.job) >= 1
        /\ cjob = None => job = None /\ jwatch = << >>
        /\ wrec.new.state = phase /\ wrec.old.state = phase
        /\ Truthful(wrec.old) /\ Truthful(wrec.new)
    <2>1. /\ Stage(wrec.old.job) = 1 /\ wrec.new.job = wrec.old.job
          /\ Truthful(wrec.old) /\ Truthful(wrec.new)
          /\ wrec.new.state = phase /\ wrec.old.state = phase
      BY <1>1, <1>2 DEF RecOK
    <2>2. NeedsJob /\ uids >= 1
      BY <1>1, <1>2, <2>1 DEF RecOK
    <2>3. uids = 1
      BY <1>1, <1>8, <2>1, <2>2 DEF JobOK, Typed
    <2>4. Stage(status.job) >= 1
      BY <1>1, <1>8, <2>1, Entries, StageFacts DEF Ordered
    <2> QED BY <1>1, <1>8, <2>1, <2>2, <2>3, <2>4 DEF JobOK
  <1>10. \A x : Truthful(x) => Truthful(x)'
    BY <1>7, <1>8, TruthfulStep DEF inputVars
  <1>11. Ordered'
    BY <1>1, <1>7, <1>8 DEF Ordered
  <1>12. StatusOK'
    BY <1>1, <1>7, <1>8, <1>10 DEF StatusOK, Done, NeedsJob, RunsJob, inputVars
  <1>13. Truthful(wrec.old)' /\ Truthful(wrec.new)'
    BY <1>3, <1>4, <1>6, <1>7, <1>8, <1>9, <1>10 DEF Truthful, inputVars
  <1>14. Done # phase
    BY <1>1, NewStates DEF Typed
  <1>15. job' = None /\ (cjob = None => jwatch' = << >>)
    BY <1>7, <1>9 DEF SetJob
  <1>16. RecOK'
    BY <1>4, <1>6, <1>7, <1>8, <1>9, <1>13, <1>14, <1>15
       DEF RecOK, Advances, NeedsJob, RunsJob, Done, inputVars, d
  <1>17. CASE job = None
    <2>1. jwatch' = jwatch /\ job' = job
      BY <1>7, <1>17 DEF SetJob
    <2>2. JobOK'
      BY <1>1, <1>7, <1>8, <2>1 DEF JobOK, Current
    <2> QED BY <1>11, <1>12, <1>16, <2>2 DEF IInv
  <1>18. CASE job # None
    <2>1. jwatch' = Append(jwatch, None) /\ cjob # None
      BY <1>7, <1>9, <1>18 DEF SetJob
    <2>2. /\ Len(jwatch') = Len(jwatch) + 1 /\ jwatch' # << >> /\ Len(jwatch) \in Nat
          /\ \A i \in 1..Len(jwatch) : jwatch'[i] = jwatch[i]
          /\ jwatch'[Len(jwatch) + 1] = None
          /\ \A i \in 1..Len(jwatch') : i \in 1..Len(jwatch) \/ i = Len(jwatch) + 1
      <3>1. jwatch \in Seq(Jobs \cup {None}) /\ None \in Jobs \cup {None}
        BY <1>1 DEF Typed
      <3> QED BY <2>1, <3>1, Appended
    <2>3. ASSUME NEW i \in 1..Len(jwatch')
          PROVE  Current(jwatch[i])' /\ (jwatch'[i] = None => i = Len(jwatch') /\ job' = None)
      <3>1. CASE i \in 1..Len(jwatch)
        BY <1>1, <1>7, <1>18, <2>2, <3>1 DEF JobOK, Current
      <3>2. CASE i = Len(jwatch) + 1
        BY <1>15, <2>2, <3>2 DEF Current
      <3> QED BY <2>2, <3>1, <3>2
    <2>4. Current(job)' /\ Current(cjob)'
      BY <1>1, <1>7, <1>15 DEF JobOK, Current
    <2>5. JobOK'
      BY <1>1, <1>7, <1>8, <1>9, <1>15, <2>1, <2>2, <2>3, <2>4 DEF JobOK
    <2> QED BY <1>11, <1>12, <1>16, <2>5 DEF IInv
  <1> QED BY <1>17, <1>18

\* The Job is created: the first one, or the second one after the deletion of
\* the first has reached the cache.
LEMMA CreateStep == IInv /\ Typed' /\ create => IInv'
  <1> SUFFICES ASSUME IInv, Typed', create PROVE IInv'
    OBVIOUS
  <1>1. Typed /\ JobOK /\ RecOK /\ Ordered /\ StatusOK
    BY DEF IInv
  <1>2. wrec # Idle /\ wrec \in Recs /\ wrec.step = "create" /\ wrec.new \in Statuses
    BY <1>1, RecSteps DEF create, Recs
  <1>3. CASE job # None
    <2>1. /\ [wrec.new EXCEPT !.state = "FAILED"] \in Statuses
          /\ [wrec.new EXCEPT !.state = "FAILED"].job = wrec.new.job
          /\ [wrec.new EXCEPT !.state = "FAILED"].toggled = wrec.new.toggled
          /\ [wrec.new EXCEPT !.state = "FAILED"].state = "FAILED"
      BY <1>2 DEF Statuses
    <2>2. wrec' = Fail /\ UNCHANGED <<inputVars, status, cacheVars, allow, job, uids, completed>>
      BY <1>3 DEF create, cacheVars
    <2>3. /\ wrec' # Idle /\ wrec'.old = wrec.old /\ wrec'.step = "patch"
          /\ wrec'.new = [wrec.new EXCEPT !.state = "FAILED"]
      BY <1>2, <2>1, <2>2, PatchType DEF Fail
    <2> QED BY <1>2, <2>1, <2>2, <2>3, RecKept
  <1>4. CASE job = None
    <2> DEFINE v == [uid |-> uids + 1, condition |-> None]
    <2>1. v \in Jobs /\ v # None /\ v.uid = uids + 1 /\ v.condition # "Completed"
      BY <1>1, BootAssumption DEF Jobs, Typed
    <2>2. /\ job' = v /\ jwatch' = Append(jwatch, v) /\ uids' = uids + 1
          /\ wrec' = Patch(wrec.new, TRUE)
          /\ UNCHANGED <<inputVars, status, wcache, wwatch, cjob, allow, completed>>
      BY <1>4, <2>1 DEF create, SetJob
    <2> HIDE DEF v
    <2>3. wrec' # Idle /\ wrec'.old = wrec.old /\ wrec'.new = wrec.new /\ wrec'.step = "patch"
      BY <1>2, <2>2, PatchType
    <2>4. lastRead' = lastRead /\ lastRead = wrec.old
      BY <1>2, <2>3 DEF lastRead
    <2>5. /\ NeedsJob /\ Stage(lastRead.job) \in {0, 2} /\ wrec.new.job = wrec.old.job
          /\ wrec.new.state = phase /\ wrec.old.state = phase
          /\ Stage(lastRead.job) = 2 /\ uids = 1 => cjob = None
          /\ Truthful(wrec.old) /\ Truthful(wrec.new)
          /\ opts.toggle => wrec.new.toggled
      BY <1>1, <1>2, <2>4 DEF RecOK
    <2>6. /\ Stage(status.job) \in {0, 1, 2, 3} /\ Stage(lastRead.job) <= Stage(status.job)
          /\ uids \in Nat
      <3>1. /\ Stage(status.job) \in {0, 1, 2, 3} /\ Stage(wcache.job) \in {0, 1, 2, 3}
            /\ Stage(lastRead.job) \in {0, 1, 2, 3}
        BY <1>1, Entries, StageFacts
      <3> QED BY <1>1, <3>1 DEF Ordered, Typed
    <2>7. uids \in {0, 1}
      BY <1>1, <1>4, <2>6 DEF JobOK
    <2>8. /\ cjob = None /\ jwatch = << >>
          /\ uids = 0 => Stage(status.job) = 0 /\ Stage(lastRead.job) = 0
          /\ uids = 1 => Stage(lastRead.job) = 2
      <3>1. CASE uids = 0
        BY <1>1, <2>5, <2>6, <3>1 DEF JobOK
      <3>2. CASE uids = 1
        BY <1>1, <1>4, <2>5, <2>6, <3>2 DEF JobOK
      <3> QED BY <2>7, <3>1, <3>2
    <2>9. \A x : Truthful(x) => Truthful(x)'
      BY <2>2, <2>4, <2>5, TruthfulStep DEF inputVars
    <2>10. Ordered'
      BY <1>1, <2>2, <2>4 DEF Ordered
    <2>11. StatusOK'
      BY <1>1, <2>2, <2>4, <2>5, <2>9 DEF StatusOK, Done, NeedsJob, RunsJob, inputVars
    <2>12. Truthful(wrec.old)' /\ Truthful(wrec.new)'
      BY <2>2, <2>3, <2>4, <2>5, <2>9 DEF Truthful, inputVars
    <2>13. Done # phase
      BY <1>1, NewStates DEF Typed
    <2>14. RecOK'
      <3>1. wrec'.new.job = wrec'.old.job /\ wrec'.new.state = phase' /\ wrec'.old.state = phase'
        BY <2>2, <2>3, <2>5 DEF inputVars
      <3>2. phase' # Done' /\ NeedsJob' /\ uids' >= 1
        BY <2>2, <2>5, <2>7, <2>13 DEF inputVars, Done, NeedsJob, RunsJob
      <3>3. Advances(wrec.old.job, wrec.new.job)'
        BY <3>1 DEF Advances
      <3>4. uids' = 1 => ~(Stage(wrec'.new.job) >= 1)
        <4>1. wrec'.new.job = lastRead.job
          BY <2>3, <2>4, <2>5
        <4>2. uids' = 1 => uids = 0
          BY <2>2, <2>6
        <4>3. uids' = 1 => Stage(lastRead.job) = 0
          BY <2>8, <4>2
        <4> QED BY <4>1, <4>3
      <3> QED BY <2>2, <2>3, <2>12, <3>1, <3>2, <3>3, <3>4 DEF RecOK
    <2>15. /\ jwatch' # << >> /\ Len(jwatch') = 1 /\ jwatch'[1] = v
           /\ \A i \in 1..Len(jwatch') : i = 1
      <3>1. Len(jwatch) = 0 /\ jwatch \in Seq(Jobs \cup {None}) /\ v \in Jobs \cup {None}
        BY <1>1, <2>1, <2>8, EmptySeq DEF Typed
      <3>2. Len(Append(jwatch, v)) = 1 /\ Append(jwatch, v)[1] = v /\ Append(jwatch, v) # << >>
        <4>1. /\ Append(jwatch, v) # << >> /\ Len(Append(jwatch, v)) = Len(jwatch) + 1
              /\ Append(jwatch, v)[Len(jwatch) + 1] = v
          <5> DEFINE J == Jobs \cup {None}
          <5>1. jwatch \in Seq(J) /\ v \in J
            BY <3>1
          <5> HIDE DEF J
          <5> QED BY <5>1, AppendProperties
        <4>2. Len(jwatch) + 1 = 1
          BY <3>1
        <4> QED BY <4>1, <4>2
      <3> QED BY <2>2, <3>2
    <2>16. Current(job)' /\ Current(cjob)' /\ \A i \in 1..Len(jwatch') : Current(jwatch[i])'
      BY <2>1, <2>2, <2>7, <2>8, <2>15 DEF Current
    <2>17. JobOK'
      BY <1>1, <2>1, <2>2, <2>4, <2>6, <2>7, <2>8, <2>15, <2>16 DEF JobOK
    <2> QED BY <2>10, <2>11, <2>14, <2>17 DEF IInv
  <1> QED BY <1>3, <1>4

----------------------------------------------------------------------------
(* The steps that change the status or the copy of it *)

\* The next version of the Workflow reaches the cache.
LEMMA WorkflowEventStep == IInv /\ Typed' /\ WorkflowEvent => IInv'
  <1> SUFFICES ASSUME IInv, Typed', WorkflowEvent PROVE IInv'
    OBVIOUS
  <1>1. Typed /\ JobOK /\ RecOK /\ Ordered /\ StatusOK
    BY DEF IInv
  <1>2. /\ wcache' = wwatch[1] /\ Len(wwatch) \in Nat /\ Len(wwatch) >= 1
        /\ Len(wwatch') = Len(wwatch) - 1
        /\ \A i \in 1..Len(wwatch') : wwatch'[i] = wwatch[i + 1] /\ i + 1 \in 1..Len(wwatch)
        /\ 1 \in 1..Len(wwatch)
    BY <1>1, HeadTail DEF WorkflowEvent, Typed
  <1>3. UNCHANGED <<inputVars, status, cjob, jwatch, wrec, allow, job, uids, completed>>
    BY DEF WorkflowEvent
  <1>4. /\ \A i \in 1..Len(wwatch) : Stage(wwatch[i].job) \in {0, 1, 2, 3}
        /\ Stage(wcache.job) \in {0, 1, 2, 3} /\ Stage(status.job) \in {0, 1, 2, 3}
        /\ Stage(lastRead.job) \in {0, 1, 2, 3}
    BY <1>1, Entries, StageFacts
  <1>5. Stage(lastRead'.job) = IF wrec = Idle THEN Stage(wwatch[1].job) ELSE Stage(lastRead.job)
    BY <1>2, <1>3 DEF lastRead
  <1>6. Stage(lastRead'.job) >= Stage(lastRead.job) /\ Stage(lastRead'.job) \in {0, 1, 2, 3}
    <2>1. wrec = Idle => lastRead = wcache
      BY DEF lastRead
    <2> QED BY <1>1, <1>2, <1>4, <1>5, <2>1 DEF Ordered
  <1>7. \A x : Truthful(x) => Truthful(x)'
    BY <1>3, <1>4, <1>6, TruthfulStep DEF inputVars
  <1>8. Ordered'
    <2>1. Stage(lastRead'.job) <= Stage(wcache'.job)
      BY <1>1, <1>2, <1>4, <1>5 DEF Ordered
    <2>2. Stage(wcache'.job) <= Stage(status'.job)
      BY <1>1, <1>2, <1>3 DEF Ordered
    <2>3. Stage(status'.job) <= Stage(lastRead'.job) + 1
      BY <1>1, <1>3, <1>4, <1>6 DEF Ordered
    <2>4. ASSUME NEW i \in 1..Len(wwatch')
          PROVE  /\ Stage(wcache'.job) <= Stage(wwatch'[i].job)
                 /\ Stage(wwatch'[i].job) <= Stage(status'.job)
                 /\ \A k \in 1..Len(wwatch') : i <= k => Stage(wwatch'[i].job) <= Stage(wwatch'[k].job)
      <3>1. i + 1 \in 1..Len(wwatch) /\ wwatch'[i] = wwatch[i + 1] /\ 1 <= i + 1
        BY <1>2, <2>4
      <3>2. \A k \in 1..Len(wwatch') : i <= k => /\ i + 1 <= k + 1 /\ k + 1 \in 1..Len(wwatch)
                                                 /\ wwatch'[k] = wwatch[k + 1]
        BY <1>2, <2>4
      <3> QED BY <1>1, <1>2, <1>3, <3>1, <3>2 DEF Ordered
    <2> QED BY <2>1, <2>2, <2>3, <2>4 DEF Ordered
  <1>9. StatusOK'
    <2>1. Truthful(status)' /\ Truthful(wcache)'
      BY <1>1, <1>2, <1>3, <1>4, <1>6 DEF StatusOK, Truthful, inputVars
    <2>2. ASSUME NEW i \in 1..Len(wwatch') PROVE Truthful(wwatch[i])'
      <3>1. wwatch'[i] = wwatch[i + 1] /\ Truthful(wwatch[i + 1])
        BY <1>1, <1>2, <2>2 DEF StatusOK
      <3> QED BY <1>3, <1>4, <1>6, <3>1 DEF Truthful, inputVars
    <2> QED BY <1>1, <1>3, <1>4, <1>6, <2>1, <2>2 DEF StatusOK, Done, NeedsJob, RunsJob, inputVars
  <1>10. RecOK'
    <2>1. CASE wrec = Idle
      BY <1>3, <2>1 DEF RecOK
    <2>2. CASE wrec # Idle
      <3>1. Truthful(wrec.old)' /\ Truthful(wrec.new)'
        BY <1>1, <1>3, <1>4, <1>6, <2>2 DEF RecOK, Truthful, inputVars
      <3> QED BY <1>1, <1>3, <2>2, <3>1 DEF RecOK, Done, NeedsJob, RunsJob, inputVars
    <2> QED BY <2>1, <2>2
  <1>11. JobOK'
    BY <1>1, <1>3, <1>4, <1>6 DEF JobOK, Current
  <1> QED BY <1>8, <1>9, <1>10, <1>11 DEF IInv

\* A restart forgets everything but what is stored.
LEMMA RestartStep == IInv /\ Typed' /\ Restart => IInv'
  <1> SUFFICES ASSUME IInv, Typed', Restart PROVE IInv'
    OBVIOUS
  <1>1. Typed /\ JobOK /\ RecOK /\ Ordered /\ StatusOK
    BY DEF IInv
  <1>2. /\ wcache' = status /\ wwatch' = << >> /\ cjob' = job /\ jwatch' = << >> /\ wrec' = Idle
        /\ UNCHANGED <<inputVars, status, allow, job, uids, completed>>
    BY DEF Restart
  <1>3. Len(wwatch') = 0 /\ Len(jwatch') = 0 /\ lastRead' = status
    BY <1>2, EmptySeq DEF lastRead
  <1>4. /\ Stage(lastRead.job) \in {0, 1, 2, 3} /\ Stage(status.job) \in {0, 1, 2, 3}
        /\ Stage(lastRead.job) <= Stage(status.job) /\ Stage(lastRead'.job) = Stage(status.job)
    <2>1. Stage(lastRead.job) \in {0, 1, 2, 3} /\ Stage(status.job) \in {0, 1, 2, 3}
          /\ Stage(wcache.job) \in {0, 1, 2, 3}
      BY <1>1, Entries, StageFacts
    <2> QED BY <1>1, <1>3, <2>1 DEF Ordered
  <1>5. Truthful(status)' /\ Truthful(wcache)'
    BY <1>1, <1>2, <1>4 DEF StatusOK, Truthful, inputVars
  <1>6. Ordered'
    BY <1>2, <1>3, <1>4 DEF Ordered
  <1>7. StatusOK'
    BY <1>1, <1>2, <1>3, <1>4, <1>5 DEF StatusOK, Done, NeedsJob, RunsJob, inputVars
  <1>8. RecOK'
    BY <1>2 DEF RecOK
  <1>9. JobOK'
    BY <1>1, <1>2, <1>3, <1>4 DEF JobOK, Current
  <1> QED BY <1>6, <1>7, <1>8, <1>9 DEF IInv

\* The patch of the status.
LEMMA PatchStep == IInv /\ Typed' /\ mergePatchStatus => IInv'
  <1> SUFFICES ASSUME IInv, Typed', mergePatchStatus PROVE IInv'
    OBVIOUS
  <1>1. Typed /\ JobOK /\ RecOK /\ Ordered /\ StatusOK
    BY DEF IInv
  <1>2. wrec # Idle /\ wrec \in Recs
    BY <1>1, RecSteps DEF mergePatchStatus
  <1> DEFINE o == wrec.old
             n == wrec.new
  <1>3. /\ UNCHANGED <<inputVars, wcache, cjob, jwatch, allow, job, uids, completed>>
        /\ wrec' = Idle
        /\ wwatch' = IF status' = status THEN wwatch ELSE Append(wwatch, status')
    BY DEF mergePatchStatus
  <1>4. /\ status' \in Statuses
        /\ status'.state = IF n.state = o.state THEN status.state ELSE n.state
        /\ status'.toggled = IF n.toggled = o.toggled THEN status.toggled ELSE n.toggled
        /\ status'.job = Merged(status.job, o.job, n.job)
    BY <1>1, <1>2, MergedType DEF mergePatchStatus
  <1>5. lastRead = o /\ lastRead' = wcache
    BY <1>2, <1>3 DEF lastRead
  <1>6. /\ status.job \in JobStatus /\ o.job \in JobStatus /\ n.job \in JobStatus
        /\ Stage(status.job) \in {0, 1, 2, 3} /\ Stage(o.job) \in {0, 1, 2, 3}
        /\ Stage(n.job) \in {0, 1, 2, 3} /\ Stage(wcache.job) \in {0, 1, 2, 3}
        /\ status'.job \in JobStatus /\ Stage(status'.job) \in {0, 1, 2, 3}
        /\ \A i \in 1..Len(wwatch) : Stage(wwatch[i].job) \in {0, 1, 2, 3}
    <2>1. status'.job \in JobStatus
      BY <1>4 DEF Statuses
    <2> QED BY <1>1, <1>2, <2>1, Entries, StageFacts
  <1>7. /\ Stage(o.job) <= Stage(wcache.job) /\ Stage(wcache.job) <= Stage(status.job)
        /\ Stage(status.job) <= Stage(o.job) + 1 /\ Stage(o.job) <= Stage(status.job)
    BY <1>1, <1>5, <1>6 DEF Ordered
  <1>8. Truthful(o) /\ Truthful(n) /\ Truthful(status) /\ Advances(o.job, n.job)
    BY <1>1, <1>2 DEF RecOK, StatusOK
  <1>9. /\ Shape(status'.job)
        /\ Stage(status.job) <= Stage(status'.job) /\ Stage(status'.job) <= Stage(o.job) + 1
        /\ status'.job.complete => status.job.complete \/ n.job.complete
        /\ Stage(status'.job) = Stage(status.job) \/ Stage(status'.job) <= Stage(n.job)
    BY <1>4, <1>6, <1>7, <1>8, MergedEntry DEF Truthful
  <1>10. \A x : Truthful(x) => Truthful(x)'
    BY <1>3, <1>5, <1>6, <1>7, TruthfulStep DEF inputVars
  <1>11. Truthful(status)'
    <2>1. status'.toggled => allow = (phase = "PREPARING")
      BY <1>4, <1>8 DEF Truthful
    <2>2. status'.job.complete => Stage(wcache.job) = 3 /\ uids \in completed
      BY <1>5, <1>6, <1>7, <1>8, <1>9 DEF Truthful
    <2> QED BY <1>3, <1>5, <1>9, <2>1, <2>2 DEF Truthful, inputVars
  <1>12. \/ wwatch' = wwatch
         \/ /\ Len(wwatch') = Len(wwatch) + 1
            /\ \A i \in 1..Len(wwatch) : wwatch'[i] = wwatch[i]
            /\ wwatch'[Len(wwatch) + 1] = status'
            /\ \A i \in 1..Len(wwatch') : i \in 1..Len(wwatch) \/ i = Len(wwatch) + 1
    BY <1>1, <1>3, <1>4, Appended DEF Typed
  <1>13. Len(wwatch) \in Nat
    BY <1>1 DEF Typed
  <1>14. Ordered'
    <2>1. ASSUME NEW i \in 1..Len(wwatch')
          PROVE  /\ Stage(wcache.job) <= Stage(wwatch'[i].job)
                 /\ Stage(wwatch'[i].job) <= Stage(status'.job)
                 /\ \A k \in 1..Len(wwatch') : i <= k => Stage(wwatch'[i].job) <= Stage(wwatch'[k].job)
      <3>1. \A k \in 1..Len(wwatch) : /\ Stage(wcache.job) <= Stage(wwatch[k].job)
                                      /\ Stage(wwatch[k].job) <= Stage(status'.job)
        BY <1>1, <1>6, <1>9 DEF Ordered
      <3>2. \A k, l \in 1..Len(wwatch) : k <= l => Stage(wwatch[k].job) <= Stage(wwatch[l].job)
        BY <1>1 DEF Ordered
      <3>3. CASE i \in 1..Len(wwatch)
        BY <1>12, <1>13, <3>1, <3>2, <3>3
      <3>4. CASE i = Len(wwatch) + 1 /\ wwatch'[i] = status'
        <4>1. \A k \in 1..Len(wwatch') : i <= k => k = i
          BY <1>12, <1>13, <3>4
        <4> QED BY <1>6, <1>7, <1>9, <3>4, <4>1
      <3> QED BY <1>12, <1>13, <2>1, <3>3, <3>4
    <2>2. Stage(status'.job) <= Stage(wcache.job) + 1 /\ Stage(wcache.job) <= Stage(status'.job)
      BY <1>6, <1>7, <1>9
    <2> QED BY <1>3, <1>5, <1>6, <2>1, <2>2 DEF Ordered
  <1>15. StatusOK'
    <2>1. Truthful(wcache)'
      BY <1>1, <1>3, <1>10 DEF StatusOK, Truthful, inputVars
    <2>2. ASSUME NEW i \in 1..Len(wwatch') PROVE Truthful(wwatch[i])'
      <3>1. CASE i \in 1..Len(wwatch) /\ wwatch'[i] = wwatch[i]
        <4>1. Truthful(wwatch[i])
          BY <1>1, <3>1 DEF StatusOK
        <4> QED BY <1>3, <1>5, <1>6, <1>7, <3>1, <4>1 DEF Truthful, inputVars
      <3>2. CASE wwatch'[i] = status'
        BY <1>11, <3>2 DEF Truthful
      <3> QED BY <1>12, <2>2, <3>1, <3>2
    <2>3. status'.state = Done =>
            /\ opts.toggle => allow = (phase = "PREPARING")
            /\ NeedsJob => Stage(wcache.job) = 3 /\ uids \in completed
      <3>1. CASE status'.state = status.state
        BY <1>1, <1>5, <1>6, <1>7, <3>1 DEF StatusOK
      <3>2. CASE status'.state = n.state
        BY <1>1, <1>2, <1>5, <1>6, <1>7, <1>8, <3>2 DEF RecOK, Truthful
      <3> QED BY <1>4, <3>1, <3>2
    <2>4. ~NeedsJob => Stage(status'.job) = 0
      <3>1. ~NeedsJob => Stage(status.job) = 0 /\ ~(Stage(n.job) >= 1)
        BY <1>1, <1>2 DEF StatusOK, RecOK
      <3> QED BY <1>6, <1>9, <3>1
    <2> QED BY <1>3, <1>5, <1>11, <2>1, <2>2, <2>3, <2>4
          DEF StatusOK, Done, NeedsJob, RunsJob, inputVars
  <1>16. RecOK'
    BY <1>3 DEF RecOK
  <1>17. JobOK'
    <2>1. Stage(n.job) >= 1 =>
            /\ uids >= 1
            /\ uids = 1 /\ cjob = None => job = None /\ jwatch = << >>
      BY <1>1, <1>2 DEF RecOK
    <2>2. uids = 0 => Stage(status'.job) = 0
      BY <1>1, <1>6, <1>9, <2>1 DEF JobOK
    <2>3. uids = 1 /\ cjob = None /\ Stage(status'.job) >= 1 => job = None /\ jwatch = << >>
      BY <1>1, <1>6, <1>9, <2>1 DEF JobOK
    <2>4. /\ uids = 1 /\ Stage(wcache.job) = 0 => job # None
          /\ uids = 2 => job # None /\ Stage(wcache.job) >= 2
      BY <1>1, <1>5, <1>6, <1>7 DEF JobOK
    <2> QED BY <1>1, <1>3, <1>5, <2>2, <2>3, <2>4 DEF JobOK, Current
  <1> QED BY <1>14, <1>15, <1>16, <1>17 DEF IInv

----------------------------------------------------------------------------
(* The theorems *)

\* The invariant holds when the Workflow enters the phase.
LEMMA InitIInv == Init => IInv
  <1> SUFFICES ASSUME Init PROVE IInv
    OBVIOUS
  <1>1. /\ status.job = NoJobStatus /\ ~status.toggled /\ status.state = phase
        /\ phase \in {"PREPARING", "POST"} /\ status \in Statuses
    BY BootAssumption DEF Init, Statuses, JobStatus, NoJobStatus
  <1>2. Typed
    BY <1>1, BootAssumption DEF Init, Typed
  <1>3. lastRead = status /\ wcache = status /\ wrec = Idle /\ Len(wwatch) = 0 /\ Len(jwatch) = 0
    BY EmptySeq DEF Init, lastRead
  <1>4. Stage(status.job) = 0 /\ Shape(status.job) /\ ~status.job.complete
    BY <1>1 DEF Stage, Shape, NoJobStatus
  <1>5. Truthful(status)
    BY <1>1, <1>4 DEF Truthful
  <1>6. Done # phase
    BY <1>2, NewStates DEF Typed
  <1>7. Ordered /\ StatusOK /\ RecOK
    BY <1>1, <1>3, <1>4, <1>5, <1>6 DEF Ordered, StatusOK, RecOK
  <1>8. JobOK
    BY <1>3, <1>4 DEF Init, JobOK, Current
  <1> QED BY <1>2, <1>7, <1>8 DEF IInv

\* Every step keeps the invariant.
LEMMA NextIInv == IInv /\ [Next]_vars => IInv'
  <1> SUFFICES ASSUME IInv, [Next]_vars PROVE IInv'
    OBVIOUS
  <1>1. Typed'
    BY TypedStep DEF IInv
  <1>2. CASE UNCHANGED vars
    <2>1. lastRead' = lastRead
      BY <1>2 DEF vars, cacheVars, lastRead
    <2> QED BY <1>1, <1>2, <2>1
          DEF IInv, vars, inputVars, cacheVars, Ordered, StatusOK, RecOK, JobOK, Truthful, Current,
              NeedsJob, RunsJob, Done
  <1>3. CASE Worker
    BY <1>1, <1>3, ReconcileStep, ToggleStep, SwitchStep, DeleteTasksStep, DeleteJobStep,
       CreateStep, PatchStep DEF Worker
  <1>4. CASE RufioCompletes
    BY <1>1, <1>4, JobEnded DEF RufioCompletes
  <1>5. CASE RufioFails
    BY <1>1, <1>5, JobEnded DEF RufioFails
  <1> QED
    BY <1>1, <1>2, <1>3, <1>4, <1>5, WorkflowEventStep, JobEventStep, CallFailsStep, RestartStep
       DEF Next

\* The invariant holds in every state.
THEOREM BootInvariance == Spec => []IInv
  BY InitIInv, NextIInv, PTL DEF Spec

\* The variables have their types: no state but the five is ever written.
THEOREM BootTypeCorrect == Spec => []TypeOK
  <1>1. IInv => TypeOK
    BY DEF IInv, Typed, TypeOK, Recs, Statuses, Jobs
  <1> QED BY <1>1, BootInvariance, PTL

\* A Workflow leaves its phase only when the last Job created for it, by
\* createJob, has been completed by Rufio, whatever the caches showed.
THEOREM LastJobIsCompleted == Spec => []LastJobCompleted
  <1>1. IInv => LastJobCompleted
    BY DEF IInv, StatusOK, LastJobCompleted
  <1> QED BY <1>1, BootInvariance, PTL

\* Once the Workflow has left its phase no reconcile deletes or creates a Job,
\* not even one that works from an old copy.
THEOREM QuietAfterPhase == Spec => []QuietWhenDone
  <1>1. IInv => QuietWhenDone
    <2> SUFFICES ASSUME IInv, status.state = Done,
                        wrec.step \in {"deleteTasks", "deleteJob", "create"}
                 PROVE  FALSE
      BY DEF QuietWhenDone
    <2>1. wrec # Idle /\ lastRead = wrec.old
      BY DEF Idle, lastRead
    <2>2. Typed /\ RecOK /\ StatusOK
      BY DEF IInv
    <2>3. Stage(lastRead.job) \in {0, 1, 2} /\ wrec.new.job = wrec.old.job
      BY <2>1, <2>2 DEF RecOK
    <2>4. NeedsJob
      BY <2>1, <2>2, <2>3 DEF RecOK
    <2> QED BY <2>2, <2>3, <2>4 DEF StatusOK
  <1> QED BY <1>1, BootInvariance, PTL

\* A Workflow with toggleAllowNetboot leaves PREPARING with network boot
\* allowed and POST with it disallowed.
THEOREM NetbootIsToggled == Spec => []NetbootToggled
  <1>1. IInv => NetbootToggled
    BY DEF IInv, StatusOK, NetbootToggled
  <1> QED BY <1>1, BootInvariance, PTL

=============================================================================
