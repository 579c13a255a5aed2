-------------------------- MODULE RufioJobsProofs --------------------------
(***************************************************************************)
(* The safety properties of RufioJobs, for every list of actions and every *)
(* number of deletions, failed calls, restarts and timeouts.  What holds   *)
(* whatever is deleted rests on performed alone: a Task, or any version of *)
(* one, exists only if the actions before it were performed.  A Job of     *)
(* which Rufio held nothing when it was created is completed by its own    *)
(* Tasks (OwnOK), as every version of a Task was written since.  What holds*)
(* as long as nothing is deleted rests on Tasks that, once ended in        *)
(* Rufio's cache, stay ended, so that no action is performed behind the    *)
(* back of a later one.                                                    *)
(***************************************************************************)
EXTENDS RufioJobs, SequenceTheorems, FiniteSetTheorems, TLAPS

----------------------------------------------------------------------------
(* The inductive invariant *)

JobConditions == SUBSET {"Running", "Completed", "Failed"}

Tasks == [started : BOOLEAN, condition : {None, "Completed", "Failed"}]

JobRecs == [step : {"create", "patch"}, next : Nat, old : JobConditions, new : JobConditions]

TaskRecs == [step : {"patch"}, id : Steps, old : Tasks, new : Tasks]

\* The types of the variables, with the reconciles in progress.
Typed ==
    /\ job \in JobConditions \cup {None} /\ rjob \in JobConditions \cup {None}
    /\ jwatch \in Seq(JobConditions \cup {None})
    /\ task \in [Steps -> Tasks \cup {None}] /\ rtask \in [Steps -> Tasks \cup {None}]
    /\ twatch \in Seq(Steps \X (Tasks \cup {None}))
    /\ jqueued \in BOOLEAN /\ tqueued \subseteq Steps
    /\ jrec = Idle \/ jrec \in JobRecs
    /\ trec = Idle \/ trec \in TaskRecs
    /\ power \in [now : {"on", "off"}, told : {"on", "off"}]
    /\ performed \subseteq Steps /\ own \subseteq Steps
    /\ bmcRefs \subseteq BmcObjects
    /\ deleting \in BOOLEAN /\ deletions \in Nat /\ fresh \in BOOLEAN
    /\ troubles \in 0..MaxTroubles

\* Keys are queued only for work to do.
QueuesOK ==
    /\ jqueued => JobWork(rjob, rtask)
    /\ tqueued \subseteq TaskWork(rtask)

\* The actions before i have been performed.
Before(i) == \A k \in Steps : k < i => k \in performed

\* What a version of Task i says was done.
VersionOK(i, v) ==
    v # None =>
        /\ Before(i)
        /\ v.condition = "Completed" => i \in performed
        /\ v.started /\ v.condition # "Failed" => i \in performed

\* A set of conditions that was, or will be, those of the Job.
OutcomeOK(c) ==
    /\ "Completed" \in c => performed = Steps
    /\ ~("Completed" \in c /\ "Failed" \in c)

\* The versions of the Tasks: stored, cached and on their way.
VersionsOK ==
    /\ \A i \in Steps : VersionOK(i, task[i]) /\ VersionOK(i, rtask[i])
    /\ \A k \in 1..Len(twatch) : VersionOK(twatch[k][1], twatch[k][2])

\* The reconcile of a Task: it found the Task unfinished.
TaskRecOK ==
    trec # Idle =>
        /\ Before(trec.id)
        /\ trec.old.condition = None
        /\ trec.new.condition # "Failed" => trec.id \in performed

\* The reconcile of the Job: it found the Job unfinished.
JobRecOK ==
    jrec # Idle =>
        /\ OutcomeOK(jrec.new)
        /\ jrec.step = "create" => jrec.next \in Steps /\ Before(jrec.next) /\ ~Ended(jrec.new)

\* What holds whatever is deleted.
WorkOK ==
    /\ VersionsOK /\ TaskRecOK /\ JobRecOK
    /\ \A i \in performed : Before(i)
    /\ job # None => OutcomeOK(job)

\* What a version of Task i says was done since the Job was created.
OwnVersion(i, v) ==
    v # None =>
        /\ v.condition = "Completed" => i \in own
        /\ v.started /\ v.condition # "Failed" => i \in own

\* The same of the versions that are stored, cached and on their way.
OwnVersions ==
    /\ \A i \in Steps : OwnVersion(i, task[i]) /\ OwnVersion(i, rtask[i])
    /\ \A k \in 1..Len(twatch) : OwnVersion(twatch[k][1], twatch[k][2])

\* And of the reconciles and the Job.
OwnOutcomes ==
    /\ trec # Idle => (trec.new.condition # "Failed" => trec.id \in own)
    /\ jrec # Idle => ("Completed" \in jrec.new => own = Steps)
    /\ job # None => ("Completed" \in job => own = Steps)

\* What holds of a Job of which Rufio knew nothing when it was created.
OwnOK == OwnVersions /\ OwnOutcomes

\* Nothing was deleted yet.
Kept == ~deleting /\ deletions = 0

\* A version of a Task that has ended.
EndedTask(v) == v # None /\ (v # None => v.condition # None)

\* As long as nothing was deleted a Task that exists stays, one that ended
\* stays ended, and there is no later one before that is in the cache.
StoredKept ==
    /\ \A i \in Steps : EndedTask(rtask[i]) => EndedTask(task[i])
    /\ \A i \in Steps : rtask[i] # None \/ i \in performed => task[i] # None
    /\ \A j \in Steps : task[j] # None => \A i \in Steps : i < j => EndedTask(rtask[i])

\* The same of the versions on their way.
EventsKept ==
    \A k \in 1..Len(twatch) :
        /\ task[twatch[k][1]] # None
        /\ EndedTask(rtask[twatch[k][1]]) => EndedTask(twatch[k][2])
        /\ EndedTask(twatch[k][2]) => EndedTask(task[twatch[k][1]])
        /\ \A l \in 1..Len(twatch) :
              k < l /\ twatch[k][1] = twatch[l][1] /\ EndedTask(twatch[k][2]) => EndedTask(twatch[l][2])

\* And of the reconciles.
RecsKept ==
    /\ trec # Idle => task[trec.id] # None
    /\ jrec # Idle => (jrec.step = "create" => \A i \in Steps : i < jrec.next => EndedTask(rtask[i]))

TasksKept == StoredKept /\ EventsKept /\ RecsKept

\* Some version of Task i is completed, or is about to be.
SomeCompleted(i) ==
    \/ task[i] # None /\ task[i].condition = "Completed"
    \/ rtask[i] # None /\ rtask[i].condition = "Completed"
    \/ \E k \in 1..Len(twatch) :
          twatch[k][1] = i /\ twatch[k][2] # None /\ twatch[k][2].condition = "Completed"
    \/ trec # Idle /\ trec.id = i /\ trec.new.condition = "Completed"

\* i is the power action performed last.
LastPerformed(i) == i \in performed /\ \A k \in PowerSteps : k \in performed => k <= i

\* The Job is completed, or is about to be.
JobDone == Is(job, "Completed") \/ (jrec # Idle /\ "Completed" \in jrec.new)

\* The BMC was told what the power action performed last says, and the power
\* is like that when the Task is completed.
PowerKept ==
    /\ \A i \in PowerSteps : LastPerformed(i) =>
          /\ power.told = Actions[i]
          /\ SomeCompleted(i) => power.now = Actions[i]
    /\ JobDone =>
          /\ \A i \in Steps : EndedTask(rtask[i])
          /\ \A i \in PowerSteps : LastPerformed(i) => power.now = Actions[i]

IInv == Typed /\ QueuesOK /\ WorkOK /\ (fresh => OwnOK) /\ (Kept => TasksKept /\ PowerKept)

----------------------------------------------------------------------------
(* Facts about sequences, numbers and queues *)

\* The first event of a queue and what is left.
LEMMA HeadTail ==
    ASSUME NEW S, NEW q \in Seq(S), q # << >>
    PROVE  /\ Head(q) = q[1] /\ Head(q) \in S /\ Tail(q) \in Seq(S)
           /\ Len(q) \in Nat /\ 1 \in 1..Len(q) /\ Len(Tail(q)) \in Nat
           /\ \A i \in 1..Len(Tail(q)) : Tail(q)[i] = q[i + 1] /\ i + 1 \in 1..Len(q)
  <1>1. Len(q) \in Nat /\ Len(q) >= 1 /\ Len(Tail(q)) = Len(q) - 1 /\ Tail(q) \in Seq(S)
    OBVIOUS
  <1>2. \A i \in 1..Len(Tail(q)) : Tail(q)[i] = q[i + 1] /\ i + 1 \in 1..Len(q)
    BY <1>1
  <1>3. Head(q) = q[1] /\ Head(q) \in S
    OBVIOUS
  <1> QED BY <1>1, <1>2, <1>3

\* One more event at the end of a queue.
LEMMA Appended ==
    ASSUME NEW S, NEW q \in Seq(S), NEW e \in S
    PROVE  /\ Append(q, e) \in Seq(S) /\ Len(q) \in Nat /\ Len(Append(q, e)) = Len(q) + 1
           /\ \A i \in 1..Len(q) : Append(q, e)[i] = q[i]
           /\ Append(q, e)[Len(q) + 1] = e
           /\ \A i \in 1..(Len(q) + 1) : i \in 1..Len(q) \/ i = Len(q) + 1
  OBVIOUS

\* The numbers of the actions.
LEMMA StepsInterval ==
    /\ Len(Actions) \in Nat \ {0} /\ Steps = 1..Len(Actions)
    /\ IsFiniteSet(Steps) /\ Cardinality(Steps) = Len(Actions)
  <1>1. Len(Actions) \in Nat \ {0} /\ Steps = 1..Len(Actions)
    BY RufioAssumption, EmptySeq, LenProperties DEF Steps
  <1>2. IsFiniteSet(1..Len(Actions)) /\ Cardinality(1..Len(Actions)) = Len(Actions)
    BY <1>1, FS_Interval
  <1> QED BY <1>1, <1>2

\* A set of numbers that has with each the ones before it has every number up
\* to its size.
LEMMA DownClosed ==
    ASSUME NEW D \in SUBSET Steps, \A j \in D : \A i \in Steps : i < j => i \in D
    PROVE  \A i \in Steps : i <= Cardinality(D) => i \in D
  <1> SUFFICES ASSUME NEW i \in Steps, i <= Cardinality(D), i \notin D PROVE FALSE
    OBVIOUS
  <1>1. i \in Nat /\ i >= 1
    BY StepsInterval
  <1>2. D \subseteq 1..(i - 1)
    BY <1>1, StepsInterval
  <1>3. IsFiniteSet(1..(i - 1)) /\ Cardinality(1..(i - 1)) = i - 1
    BY <1>1, FS_Interval
  <1>4. Cardinality(D) <= i - 1 /\ IsFiniteSet(D)
    BY <1>2, <1>3, FS_Subset
  <1>5. Cardinality(D) \in Nat
    BY <1>4, FS_CardinalityType
  <1> QED BY <1>1, <1>4, <1>5

\* The Tasks that have a condition.
LEMMA HavingSize ==
    ASSUME NEW f, NEW c
    PROVE  /\ Having(f, c) \subseteq Steps /\ IsFiniteSet(Having(f, c))
           /\ Cardinality(Having(f, c)) \in 0..Len(Actions)
           /\ Cardinality(Having(f, c)) = Len(Actions) => Having(f, c) = Steps
  <1>1. Having(f, c) \in SUBSET Steps
    BY DEF Having
  <1>2. /\ IsFiniteSet(Having(f, c)) /\ Cardinality(Having(f, c)) <= Cardinality(Steps)
        /\ Cardinality(Steps) = Cardinality(Having(f, c)) => Steps = Having(f, c)
    BY <1>1, StepsInterval, FS_Subset
  <1>3. Cardinality(Having(f, c)) \in Nat
    BY <1>2, FS_CardinalityType
  <1> QED BY <1>1, <1>2, <1>3, StepsInterval

\* An absent object is no other, and an unfinished Task has no condition.
LEMMA NoneFacts == /\ None \notin JobConditions /\ None \notin Tasks
                   /\ None # "Completed" /\ None # "Failed"
  BY RufioAssumption DEF JobConditions, Tasks

----------------------------------------------------------------------------
(* Types *)

\* The step of a reconcile tells whether there is one.
LEMMA RecSteps ==
    ASSUME Typed
    PROVE  /\ jrec.step # "idle" <=> jrec # Idle
           /\ trec.step # "idle" <=> trec # Idle
           /\ jrec # Idle => jrec \in JobRecs
           /\ trec # Idle => trec \in TaskRecs
           /\ trec # Idle <=> trec.step = "patch"
  BY DEF Typed, Idle, JobRecs, TaskRecs

\* What a reconcile of the Job finds and will do.
LEMMA JobReconcile ==
    ASSUME Typed, QueuesOK, jqueued, NEW st \in {"create", "patch"},
           NEW c \in SUBSET {"Completed", "Failed"}
    PROVE  /\ JobRec(st, c) \in JobRecs /\ JobRec(st, c) # Idle
           /\ JobRec(st, c).step = st /\ JobRec(st, c).next = nextTask
           /\ JobRec(st, c).new = rjob \cup {"Running"} \cup c
           /\ rjob \in JobConditions /\ ~Ended(rjob)
  <1>1. rjob # None /\ ~Ended(rjob)
    BY DEF QueuesOK, JobWork
  <1>2. rjob \in JobConditions
    BY <1>1 DEF Typed
  <1>3. nextTask \in Nat
    BY HavingSize DEF nextTask
  <1>4. rjob \cup {"Running"} \cup c \in JobConditions
    BY <1>2 DEF JobConditions
  <1> HIDE DEF JobConditions
  <1> QED BY <1>1, <1>2, <1>3, <1>4 DEF JobRec, JobRecs, Idle

\* What a reconcile of a Task finds and will do.
LEMMA TaskReconcile ==
    ASSUME Typed, QueuesOK, NEW i \in Steps, i \in tqueued,
           NEW st \in BOOLEAN, NEW c \in {None, "Completed", "Failed"}
    PROVE  /\ TaskRec(i, st, c) \in TaskRecs /\ TaskRec(i, st, c) # Idle
           /\ TaskRec(i, st, c).id = i /\ TaskRec(i, st, c).old = rtask[i]
           /\ TaskRec(i, st, c).new.started = st /\ TaskRec(i, st, c).new.condition = c
           /\ rtask[i] \in Tasks /\ rtask[i] # None /\ rtask[i].condition = None
  <1>1. rtask[i] # None /\ rtask[i].condition = None
    BY DEF QueuesOK, TaskWork, Having
  <1>2. rtask[i] \in Tasks
    BY <1>1 DEF Typed
  <1>3. [started |-> st, condition |-> c] \in Tasks
    BY DEF Tasks
  <1>4. TaskRec(i, st, c) \in TaskRecs
    BY <1>2, <1>3 DEF TaskRec, TaskRecs
  <1> QED BY <1>1, <1>2, <1>4 DEF TaskRec, Idle

\* What a merge patch leaves of a Task.
LEMMA MergedTask ==
    ASSUME NEW s \in Tasks, NEW o \in Tasks, NEW n \in Tasks
    PROVE  /\ Merged(s, o, n) \in Tasks
           /\ Merged(s, o, n).started = IF n.started = o.started THEN s.started ELSE n.started
           /\ Merged(s, o, n).condition = IF n.condition = o.condition THEN s.condition ELSE n.condition
  BY DEF Merged, Tasks

\* Writes of the Job and of a Task keep the types.
LEMMA SetJobType ==
    ASSUME Typed, NEW new \in JobConditions \cup {None}, SetJob(new)
    PROVE  job' \in JobConditions \cup {None} /\ jwatch' \in Seq(JobConditions \cup {None})
  <1> DEFINE J == JobConditions \cup {None}
  <1> HIDE DEF J
  <1>1. jwatch \in Seq(J) /\ new \in J
    BY DEF Typed, J
  <1>2. Append(jwatch, new) \in Seq(J)
    BY <1>1, Appended
  <1>3. job' \in J /\ jwatch' \in Seq(J)
    BY <1>1, <1>2 DEF SetJob
  <1> QED BY <1>3 DEF J

\* A write of a Task changes this Task, and the watch tells of it.
LEMMA SetTaskType ==
    ASSUME Typed, NEW i \in Steps, NEW new \in Tasks \cup {None}, SetTask(i, new)
    PROVE  /\ task' \in [Steps -> Tasks \cup {None}]
           /\ twatch' \in Seq(Steps \X (Tasks \cup {None}))
           /\ \A j \in Steps : task'[j] = IF j = i THEN new ELSE task[j]
  <1> DEFINE V == Tasks \cup {None}
             E == Steps \X V
  <1>1. task \in [Steps -> V] /\ new \in V /\ twatch \in Seq(E) /\ <<i, new>> \in E
    BY DEF Typed
  <1> HIDE DEF V, E
  <1>2. Append(twatch, <<i, new>>) \in Seq(E)
    BY <1>1, Appended
  <1>3. task' \in [Steps -> V] /\ (\A j \in Steps : task'[j] = IF j = i THEN new ELSE task[j])
    BY <1>1 DEF SetTask
  <1>4. twatch' \in Seq(E)
    BY <1>1, <1>2 DEF SetTask
  <1> QED BY <1>3, <1>4 DEF V, E

\* The Tasks that are deleted, in any order.
LEMMA DeletedType ==
    ASSUME Typed, DeleteTasks
    PROVE  /\ twatch' \in Seq(Steps \X (Tasks \cup {None}))
           /\ Len(twatch) \in Nat
           /\ \A k \in 1..Len(twatch') : twatch'[k][2] = None \/ (k \in 1..Len(twatch) /\ twatch'[k] = twatch[k])
  <1> DEFINE live == {i \in Steps : task[i] # None}
             n == Cardinality(live)
             E == Steps \X (Tasks \cup {None})
  <1>1. n \in Nat
    <2>1. IsFiniteSet(live)
      BY StepsInterval, FS_Subset
    <2> QED BY <2>1, FS_CardinalityType
  <1>2. PICK order \in [1..n -> live] : twatch' = twatch \o [k \in 1..n |-> <<order[k], None>>]
    BY DEF DeleteTasks
  <1> DEFINE gone == [k \in 1..n |-> <<order[k], None>>]
  <1>3. \A k \in 1..n : <<order[k], None>> \in E
    BY <1>2
  <1>4. twatch \in Seq(E)
    BY DEF Typed
  <1>5. \A k \in 1..n : gone[k] = <<order[k], None>> /\ gone[k][2] = None
    OBVIOUS
  <1> HIDE DEF live, n, E
  <1>6. gone \in Seq(E) /\ Len(gone) = n
    BY <1>1, <1>3
  <1>7. twatch' = twatch \o gone
    BY <1>2
  <1> HIDE DEF gone
  <1>8. /\ twatch \o gone \in Seq(E) /\ Len(twatch \o gone) = Len(twatch) + n
        /\ \A k \in 1..(Len(twatch) + n) :
              (twatch \o gone)[k] = IF k <= Len(twatch) THEN twatch[k] ELSE gone[k - Len(twatch)]
    BY <1>4, <1>6, ConcatProperties
  <1>9. Len(twatch) \in Nat
    BY <1>4, LenProperties
  <1>10. ASSUME NEW k \in 1..Len(twatch'), ~(k \in 1..Len(twatch)) PROVE twatch'[k][2] = None
    <2>1. k - Len(twatch) \in 1..n
      BY <1>1, <1>7, <1>8, <1>9, <1>10
    <2>2. twatch'[k] = gone[k - Len(twatch)]
      BY <1>1, <1>7, <1>8, <1>9, <1>10
    <2> QED BY <1>5, <2>1, <2>2
  <1>11. \A k \in 1..Len(twatch) : twatch'[k] = twatch[k]
    BY <1>1, <1>7, <1>8, <1>9
  <1> QED BY <1>7, <1>8, <1>9, <1>10, <1>11 DEF E

\* The first event about a Task.
LEMMA TaskEventFacts ==
    ASSUME Typed, twatch # << >>
    PROVE  /\ Head(twatch) = twatch[1] /\ 1 \in 1..Len(twatch) /\ Len(twatch) \in Nat
           /\ twatch[1][1] \in Steps /\ twatch[1][2] \in Tasks \cup {None}
           /\ Tail(twatch) \in Seq(Steps \X (Tasks \cup {None})) /\ Len(Tail(twatch)) \in Nat
           /\ \A i \in 1..Len(Tail(twatch)) :
                 Tail(twatch)[i] = twatch[i + 1] /\ i + 1 \in 1..Len(twatch)
  <1> DEFINE E == Steps \X (Tasks \cup {None})
  <1>1. twatch \in Seq(E)
    BY DEF Typed
  <1>2. \A e \in E : e[1] \in Steps /\ e[2] \in Tasks \cup {None}
    OBVIOUS
  <1> HIDE DEF E
  <1>3. /\ Head(twatch) = twatch[1] /\ Head(twatch) \in E /\ Tail(twatch) \in Seq(E)
        /\ Len(twatch) \in Nat /\ 1 \in 1..Len(twatch) /\ Len(Tail(twatch)) \in Nat
        /\ \A i \in 1..Len(Tail(twatch)) :
                 Tail(twatch)[i] = twatch[i + 1] /\ i + 1 \in 1..Len(twatch)
    BY <1>1, HeadTail
  <1> QED BY <1>2, <1>3 DEF E

\* Every event about a Task.
LEMMA TaskEvents ==
    ASSUME twatch \in Seq(Steps \X (Tasks \cup {None}))
    PROVE  /\ Len(twatch) \in Nat
           /\ \A k \in 1..Len(twatch) : twatch[k][1] \in Steps /\ twatch[k][2] \in Tasks \cup {None}
  <1> DEFINE E == Steps \X (Tasks \cup {None})
  <1>1. \A e \in E : e[1] \in Steps /\ e[2] \in Tasks \cup {None}
    OBVIOUS
  <1>2. twatch \in Seq(E)
    OBVIOUS
  <1> HIDE DEF E
  <1>3. Len(twatch) \in Nat /\ \A k \in 1..Len(twatch) : twatch[k] \in E
    BY <1>2, LenProperties
  <1> QED BY <1>1, <1>3

\* Every step keeps the types.
LEMMA TypedStep == Typed /\ QueuesOK /\ WorkOK /\ [Next]_vars => Typed'
  <1> SUFFICES ASSUME Typed, QueuesOK, WorkOK, [Next]_vars PROVE Typed'
    OBVIOUS
  <1> USE DEF jobVars, taskVars, machineVars, clientVars
  <1>1. ASSUME Trouble PROVE troubles' \in 0..MaxTroubles
    BY <1>1, RufioAssumption DEF Trouble, Typed
  <1>2. CASE UNCHANGED vars
    BY <1>2 DEF Typed, vars
  <1>3. CASE CreateJob
    <2>1. job' \in JobConditions \cup {None} /\ jwatch' \in Seq(JobConditions \cup {None})
      BY <1>3, SetJobType DEF CreateJob, JobConditions
    <2> QED BY <1>3, <2>1 DEF CreateJob, NothingHeld, Typed
  <1>4. CASE DeleteTasks
    <2>1. task' \in [Steps -> Tasks \cup {None}]
      BY <1>4 DEF DeleteTasks
    <2> QED BY <1>1, <1>4, <2>1, DeletedType DEF DeleteTasks, Typed
  <1>5. CASE DeleteJob
    <2>1. job' \in JobConditions \cup {None} /\ jwatch' \in Seq(JobConditions \cup {None})
      BY <1>5, SetJobType DEF DeleteJob
    <2>2. deletions' \in Nat
      BY <1>5 DEF DeleteJob, Typed
    <2> QED BY <1>5, <2>1, <2>2 DEF DeleteJob, Typed
  <1>6. CASE JobEvent
    <2>1. Head(jwatch) \in JobConditions \cup {None} /\ Tail(jwatch) \in Seq(JobConditions \cup {None})
      BY <1>6, HeadTail DEF JobEvent, Typed
    <2> QED BY <1>6, <2>1 DEF JobEvent, JobWork, Typed
  <1>7. CASE TaskEvent
    <2>1. rtask' \in [Steps -> Tasks \cup {None}]
      BY <1>7, TaskEventFacts DEF TaskEvent, Typed
    <2>2. twatch' \in Seq(Steps \X (Tasks \cup {None}))
      BY <1>7, TaskEventFacts DEF TaskEvent
    <2>3. tqueued' \subseteq Steps /\ jqueued' \in BOOLEAN
      BY <1>7 DEF TaskEvent, TaskWork, Having, JobWork
    <2> QED BY <1>7, <2>1, <2>2, <2>3 DEF TaskEvent, Typed
  <1>8. CASE ReconcileJob
    <2>1. jrec' = Idle \/ jrec' \in JobRecs
      BY <1>8, JobReconcile DEF ReconcileJob
    <2>2. /\ jqueued' \in BOOLEAN
          /\ UNCHANGED <<job, rjob, jwatch, task, rtask, twatch, tqueued, trec, power,
                         performed, own, bmcRefs, deleting, deletions, fresh, troubles>>
      BY <1>8 DEF ReconcileJob
    <2> QED BY <2>1, <2>2 DEF Typed
  <1>9. CASE createTaskWithOwner
    <2>1. jrec \in JobRecs /\ jrec.next \in Steps
      BY <1>9, RecSteps DEF createTaskWithOwner, WorkOK, JobRecOK
    <2>2. jrec' \in JobRecs
      BY <1>9, <2>1 DEF createTaskWithOwner, JobRecs, JobConditions
    <2>3. task' \in [Steps -> Tasks \cup {None}] /\ twatch' \in Seq(Steps \X (Tasks \cup {None}))
      <3>1. [started |-> FALSE, condition |-> None] \in Tasks
        BY DEF Tasks
      <3>2. CASE task[jrec.next] = None
        BY <1>9, <2>1, <3>1, <3>2, SetTaskType DEF createTaskWithOwner
      <3>3. CASE task[jrec.next] # None
        BY <1>9, <3>3 DEF createTaskWithOwner, Typed
      <3> QED BY <3>2, <3>3
    <2> QED BY <1>9, <2>2, <2>3 DEF createTaskWithOwner, Typed
  <1>10. CASE patchJobStatus
    <2>1. jrec.new \in JobConditions
      BY <1>10, RecSteps DEF patchJobStatus, JobRecs
    <2>2. job' \in JobConditions \cup {None} /\ jwatch' \in Seq(JobConditions \cup {None})
      <3>1. CASE job = None \/ jrec.new = jrec.old
        BY <1>10, <3>1 DEF patchJobStatus, Typed
      <3>2. CASE ~(job = None \/ jrec.new = jrec.old)
        BY <1>10, <2>1, <3>2, SetJobType DEF patchJobStatus
      <3> QED BY <3>1, <3>2
    <2>3. jqueued' \in BOOLEAN
      BY <1>10 DEF patchJobStatus
    <2> QED BY <1>10, <2>2, <2>3 DEF patchJobStatus, Typed
  <1>11. ASSUME NEW i \in Steps, TaskRun(i) \/ failTask(i) PROVE Typed'
    <2>1. ReconcileTask(i)
      BY <1>11 DEF TaskRun, runTask, completeTask, timeOut, failTask
    <2>2. trec' \in TaskRecs
      <3>1. i \in tqueued /\ rtask[i] \in Tasks
        BY <2>1, TaskReconcile DEF ReconcileTask
      <3>2. rtask[i].started \in BOOLEAN
        BY <3>1 DEF Tasks
      <3>3. \E st \in BOOLEAN, c \in {None, "Completed", "Failed"} : trec' = TaskRec(i, st, c)
        BY <1>11, <3>2 DEF TaskRun, runTask, completeTask, timeOut, failTask
      <3> QED BY <3>1, <3>3, TaskReconcile
    <2>3. tqueued' \subseteq Steps
      BY <2>1 DEF ReconcileTask, Typed
    <2>4. CASE runTask(i)
      <3>1. power' \in [now : {"on", "off"}, told : {"on", "off"}]
            /\ performed' \subseteq Steps /\ own' \subseteq Steps
        BY <2>4 DEF runTask, Typed
      <3> QED BY <2>1, <2>2, <2>3, <2>4, <3>1 DEF ReconcileTask, runTask, Typed
    <2>5. CASE completeTask(i) \/ timeOut(i)
      BY <2>1, <2>2, <2>3, <2>5 DEF ReconcileTask, completeTask, timeOut, Typed
    <2>6. CASE failTask(i)
      BY <1>1, <2>1, <2>2, <2>3, <2>6 DEF ReconcileTask, failTask, Typed
    <2> QED BY <1>11, <2>4, <2>5, <2>6 DEF TaskRun
  <1>12. CASE patchTaskStatus
    <2>1. trec \in TaskRecs /\ trec.id \in Steps /\ trec.old \in Tasks /\ trec.new \in Tasks
      BY <1>12, RecSteps DEF patchTaskStatus, TaskRecs
    <2>2. task' \in [Steps -> Tasks \cup {None}] /\ twatch' \in Seq(Steps \X (Tasks \cup {None}))
      <3>1. CASE task[trec.id] = None
        BY <1>12, <3>1 DEF patchTaskStatus, Typed
      <3>2. CASE task[trec.id] # None
        <4>1. task[trec.id] \in Tasks
          BY <2>1, <3>2 DEF Typed
        <4>2. Merged(task[trec.id], trec.old, trec.new) \in Tasks
          BY <2>1, <4>1, MergedTask
        <4> QED BY <1>12, <2>1, <3>2, <4>2, SetTaskType DEF patchTaskStatus
      <3> QED BY <3>1, <3>2
    <2>3. tqueued' \subseteq Steps
      BY <1>12, <2>1 DEF patchTaskStatus, Typed
    <2> QED BY <1>12, <2>2, <2>3 DEF patchTaskStatus, Typed
  <1>13. CASE PatchFails
    <2>1. tqueued' \subseteq Steps /\ jqueued' \in BOOLEAN
      BY <1>13 DEF PatchFails, TaskWork, Having, JobWork, Typed
    <2>2. (jrec' = Idle \/ jrec' \in JobRecs) /\ (trec' = Idle \/ trec' \in TaskRecs)
      BY <1>13 DEF PatchFails, Typed
    <2> QED BY <1>1, <1>13, <2>1, <2>2 DEF PatchFails, Typed
  <1>14. CASE CreateFails
    <2>1. jrec' \in JobRecs
      BY <1>14, RecSteps DEF CreateFails, JobRecs, JobConditions
    <2> QED BY <1>1, <1>14, <2>1 DEF CreateFails, Typed
  <1>15. CASE Restart
    <2>1. tqueued' \subseteq Steps /\ jqueued' \in BOOLEAN
      BY <1>15 DEF Restart, TaskWork, Having, JobWork
    <2>2. jwatch' \in Seq(JobConditions \cup {None}) /\ twatch' \in Seq(Steps \X (Tasks \cup {None}))
      BY <1>15, EmptySeq DEF Restart
    <2> QED BY <1>1, <1>15, <2>1, <2>2 DEF Restart, Typed
  <1>16. CASE PowerSettles
    <2>1. power' \in [now : {"on", "off"}, told : {"on", "off"}]
      BY <1>16 DEF PowerSettles, Typed
    <2> QED BY <1>16, <2>1 DEF PowerSettles, Typed
  <1>17. CASE AddObject
    BY <1>17 DEF AddObject, Typed
  <1>18. CASE RemoveObject
    BY <1>1, <1>18 DEF RemoveObject, Typed
  <1> QED BY <1>2, <1>3, <1>4, <1>5, <1>6, <1>7, <1>8, <1>9, <1>10, <1>11, <1>12, <1>13,
             <1>14, <1>15, <1>16, <1>17, <1>18 DEF Next, JobWorker

\* Every step keeps keys off the queues that have nothing to do.
LEMMA QueuesStep == Typed /\ QueuesOK /\ [Next]_vars => QueuesOK'
  <1> SUFFICES ASSUME Typed, QueuesOK, [Next]_vars PROVE QueuesOK'
    OBVIOUS
  <1> USE DEF jobVars, taskVars, machineVars, clientVars
  <1>1. ASSUME UNCHANGED <<rjob, rtask>>, jqueued' => jqueued \/ JobWork(rjob, rtask),
               tqueued' \subseteq tqueued \cup TaskWork(rtask)
        PROVE  QueuesOK'
    BY <1>1 DEF QueuesOK, JobWork, TaskWork, Having
  <1>2. CASE UNCHANGED vars
    BY <1>1, <1>2 DEF vars
  <1>3. CASE \/ CreateJob \/ DeleteTasks \/ DeleteJob \/ PowerSettles \/ createTaskWithOwner
             \/ CreateFails \/ AddObject \/ RemoveObject
    BY <1>1, <1>3 DEF CreateJob, DeleteTasks, DeleteJob, PowerSettles, createTaskWithOwner,
                      CreateFails, AddObject, RemoveObject
  <1>4. CASE ReconcileJob \/ patchJobStatus
    BY <1>1, <1>4 DEF ReconcileJob, patchJobStatus
  <1>5. ASSUME NEW i \in Steps, TaskRun(i) \/ failTask(i) PROVE QueuesOK'
    BY <1>1, <1>5 DEF TaskRun, runTask, completeTask, timeOut, failTask, ReconcileTask
  <1>6. CASE patchTaskStatus
    <2>1. tqueued' \subseteq tqueued \cup TaskWork(rtask)
      BY <1>6 DEF patchTaskStatus
    <2> QED BY <1>1, <1>6, <2>1 DEF patchTaskStatus
  <1>7. CASE PatchFails
    <2>1. tqueued' \subseteq tqueued \cup TaskWork(rtask) /\ (jqueued' => jqueued \/ JobWork(rjob, rtask))
      BY <1>7 DEF PatchFails
    <2> QED BY <1>1, <1>7, <2>1 DEF PatchFails
  <1>8. CASE JobEvent
    <2>1. jqueued' => JobWork(rjob, rtask)'
      BY <1>8 DEF JobEvent, JobWork, Having
    <2>2. (tqueued \subseteq TaskWork(rtask))'
      BY <1>8 DEF JobEvent, QueuesOK, TaskWork, Having
    <2> QED BY <2>1, <2>2 DEF QueuesOK
  <1>9. CASE TaskEvent
    <2>1. jqueued' => JobWork(rjob, rtask)'
      BY <1>9 DEF TaskEvent, JobWork, Having
    <2>2. (tqueued \subseteq TaskWork(rtask))'
      BY <1>9 DEF TaskEvent, TaskWork, Having
    <2> QED BY <2>1, <2>2 DEF QueuesOK
  <1>10. CASE Restart
    <2>1. jqueued' => JobWork(rjob, rtask)'
      BY <1>10 DEF Restart, JobWork, Having
    <2>2. (tqueued \subseteq TaskWork(rtask))'
      BY <1>10 DEF Restart, TaskWork, Having
    <2> QED BY <2>1, <2>2 DEF QueuesOK
  <1> QED BY <1>2, <1>3, <1>4, <1>5, <1>6, <1>7, <1>8, <1>9, <1>10 DEF Next, JobWorker

----------------------------------------------------------------------------
(* What holds whatever is deleted *)

\* What was performed stays performed, so versions and reconciles that were
\* right stay right.
LEMMA VersionsKept ==
    ASSUME VersionsOK, performed \subseteq performed', UNCHANGED <<task, rtask, twatch>>
    PROVE  VersionsOK'
  BY DEF VersionsOK, VersionOK, Before

\* A reconcile of a Task that is left alone, or ends.
LEMMA TaskRecKept ==
    ASSUME TaskRecOK, performed \subseteq performed', trec' = trec \/ trec' = Idle
    PROVE  TaskRecOK'
  BY DEF TaskRecOK, Before, Idle

\* A reconcile of the Job that is left alone, or ends.
LEMMA JobRecKept ==
    ASSUME JobRecOK, performed \subseteq performed', performed' \subseteq Steps,
           jrec' = jrec \/ jrec' = Idle
    PROVE  JobRecOK'
  BY DEF JobRecOK, Before, OutcomeOK, Ended, Idle

\* A Job that is left alone, deleted or new.
LEMMA OutcomeKept ==
    ASSUME WorkOK, performed \subseteq performed', performed' \subseteq Steps,
           job' = job \/ job' = None \/ job' = {}
    PROVE  (job # None => OutcomeOK(job))'
  BY DEF WorkOK, OutcomeOK

\* The first Task that is not completed comes after actions performed.
LEMMA NextIsDue ==
    ASSUME Typed, WorkOK
    PROVE  /\ \A k \in Steps : k < nextTask => k \in performed
           /\ ~allCompleted => nextTask \in Steps
           /\ allCompleted => performed = Steps /\ Having(rtask, "Completed") = Steps
  <1> DEFINE H == Having(rtask, "Completed")
  <1>1. H \subseteq performed /\ performed \in SUBSET Steps
    BY DEF Typed, WorkOK, VersionsOK, VersionOK, Having
  <1>2. IsFiniteSet(performed) /\ Cardinality(performed) \in Nat
    BY <1>1, StepsInterval, FS_Subset, FS_CardinalityType
  <1>3. Cardinality(H) <= Cardinality(performed)
    BY <1>1, <1>2, FS_Subset
  <1>4. /\ Cardinality(H) \in 0..Len(Actions)
        /\ Cardinality(H) = Len(Actions) => H = Steps
    BY HavingSize
  <1>5. \A i \in Steps : i <= Cardinality(performed) => i \in performed
    BY <1>1, DownClosed DEF WorkOK, Before
  <1> HIDE DEF H
  <1>6. nextTask = Cardinality(H) + 1 /\ (allCompleted <=> Cardinality(H) = Len(Actions))
    BY DEF nextTask, allCompleted, H
  <1>7. ASSUME NEW k \in Steps, k < nextTask PROVE k \in performed
    <2>1. k \in Nat
      BY StepsInterval
    <2> QED BY <1>2, <1>3, <1>4, <1>5, <1>6, <1>7, <2>1
  <1>8. ~allCompleted => nextTask \in Steps
    BY <1>4, <1>6, StepsInterval
  <1>9. allCompleted => performed = Steps /\ H = Steps
    BY <1>1, <1>4, <1>6
  <1> QED BY <1>7, <1>8, <1>9 DEF H

\* A reconcile of the Job.
LEMMA ReconcileJobWork == Typed /\ QueuesOK /\ WorkOK /\ ReconcileJob => WorkOK'
  <1> SUFFICES ASSUME Typed, QueuesOK, WorkOK, ReconcileJob PROVE WorkOK'
    OBVIOUS
  <1> USE DEF taskVars, machineVars, clientVars
  <1>1. VersionsOK' /\ TaskRecOK' /\ (\A i \in performed : Before(i))' /\ (job # None => OutcomeOK(job))'
    BY VersionsKept, TaskRecKept, OutcomeKept DEF ReconcileJob, WorkOK, Before, Typed
  <1>2. rjob \in JobConditions /\ ~Ended(rjob)
    BY JobReconcile DEF ReconcileJob
  <1>3. ASSUME jrec' = Idle PROVE JobRecOK'
    BY <1>3 DEF JobRecOK
  <1>4. ASSUME jrec' = JobRec("patch", {"Failed"}) PROVE JobRecOK'
    <2>1. jrec'.new = rjob \cup {"Running"} \cup {"Failed"} /\ jrec'.step = "patch"
      BY <1>4, JobReconcile DEF ReconcileJob
    <2> QED BY <1>2, <2>1 DEF JobRecOK, OutcomeOK, Ended
  <1>5. ASSUME allCompleted /\ jrec' = JobRec("patch", {"Completed"}) PROVE JobRecOK'
    <2>1. jrec'.new = rjob \cup {"Running"} \cup {"Completed"} /\ jrec'.step = "patch"
      BY <1>5, JobReconcile DEF ReconcileJob
    <2>2. performed' = Steps
      BY <1>5, NextIsDue DEF ReconcileJob
    <2> QED BY <1>2, <2>1, <2>2 DEF JobRecOK, OutcomeOK, Ended
  <1>6. ASSUME ~allCompleted /\ jrec' = JobRec("create", {}) PROVE JobRecOK'
    <2>1. jrec'.new = rjob \cup {"Running"} \cup {} /\ jrec'.next = nextTask
      BY <1>6, JobReconcile DEF ReconcileJob
    <2>2. nextTask \in Steps /\ (\A k \in Steps : k < nextTask => k \in performed)
      BY <1>6, NextIsDue
    <2>3. performed' = performed
      BY DEF ReconcileJob
    <2> QED BY <1>2, <2>1, <2>2, <2>3 DEF JobRecOK, OutcomeOK, Ended, Before
  <1>7. JobRecOK'
    BY <1>3, <1>4, <1>5, <1>6 DEF ReconcileJob
  <1> QED BY <1>1, <1>7 DEF WorkOK

\* A write of a Task, if what is written is right.
LEMMA SetTaskVersions ==
    ASSUME Typed, VersionsOK, NEW i \in Steps, NEW v \in Tasks \cup {None}, SetTask(i, v),
           UNCHANGED <<rtask, performed>>, VersionOK(i, v)
    PROVE  VersionsOK'
  <1>1. \A j \in Steps : task'[j] = IF j = i THEN v ELSE task[j]
    BY SetTaskType
  <1>2. \A j \in Steps : (VersionOK(j, task[j]) /\ VersionOK(j, rtask[j]))'
    BY <1>1 DEF VersionsOK, VersionOK, Before
  <1>3. CASE twatch' = twatch
    BY <1>2, <1>3 DEF VersionsOK, VersionOK, Before
  <1>4. CASE twatch' = Append(twatch, <<i, v>>)
    <2> DEFINE E == Steps \X (Tasks \cup {None})
    <2>1. twatch \in Seq(E) /\ <<i, v>> \in E
      BY DEF Typed
    <2> HIDE DEF E
    <2>2. /\ Len(twatch) \in Nat /\ Len(twatch') = Len(twatch) + 1
          /\ \A k \in 1..Len(twatch) : twatch'[k] = twatch[k]
          /\ twatch'[Len(twatch) + 1] = <<i, v>>
          /\ \A k \in 1..(Len(twatch) + 1) : k \in 1..Len(twatch) \/ k = Len(twatch) + 1
      BY <1>4, <2>1, Appended
    <2>3. \A k \in 1..Len(twatch') :
            (k \in 1..Len(twatch) /\ twatch'[k] = twatch[k]) \/ (twatch'[k][1] = i /\ twatch'[k][2] = v)
      BY <2>2
    <2> QED BY <1>2, <2>3 DEF VersionsOK, VersionOK, Before
  <1> QED BY <1>3, <1>4 DEF SetTask

\* The next Task is made.
LEMMA CreateTaskWork == Typed /\ WorkOK /\ createTaskWithOwner => WorkOK'
  <1> SUFFICES ASSUME Typed, WorkOK, createTaskWithOwner PROVE WorkOK'
    OBVIOUS
  <1> USE DEF taskVars, machineVars, clientVars
  <1>1. TaskRecOK' /\ (\A i \in performed : Before(i))' /\ (job # None => OutcomeOK(job))'
    BY TaskRecKept, OutcomeKept DEF createTaskWithOwner, WorkOK, Before, Typed
  <1>2. /\ jrec \in JobRecs /\ jrec # Idle /\ jrec.next \in Steps
        /\ Before(jrec.next) /\ ~Ended(jrec.new) /\ OutcomeOK(jrec.new)
    BY RecSteps DEF createTaskWithOwner, WorkOK, JobRecOK
  <1>3. jrec'.step = "patch" /\ (jrec'.new = jrec.new \/ jrec'.new = jrec.new \cup {"Failed"})
    BY <1>2 DEF createTaskWithOwner, JobRecs
  <1>4. JobRecOK'
    BY <1>2, <1>3 DEF createTaskWithOwner, JobRecOK, OutcomeOK, Ended
  <1>5. VersionsOK'
    <2> DEFINE v == [started |-> FALSE, condition |-> None]
    <2>1. v \in Tasks
      BY DEF Tasks
    <2>2. v.started = FALSE /\ v.condition = None
      OBVIOUS
    <2> HIDE DEF v
    <2>3. VersionOK(jrec.next, v)
      BY <1>2, <2>2, NoneFacts DEF VersionOK
    <2>4. CASE task[jrec.next] = None
      <3>1. SetTask(jrec.next, v)
        BY <2>4 DEF createTaskWithOwner, v
      <3> QED BY <1>2, <2>1, <2>3, <3>1, SetTaskVersions DEF createTaskWithOwner, WorkOK
    <2>5. CASE task[jrec.next] # None
      BY <2>5, VersionsKept DEF createTaskWithOwner, WorkOK
    <2> QED BY <2>4, <2>5
  <1> QED BY <1>1, <1>4, <1>5 DEF WorkOK

\* The patch of a Task.
LEMMA PatchTaskWork == Typed /\ WorkOK /\ patchTaskStatus => WorkOK'
  <1> SUFFICES ASSUME Typed, WorkOK, patchTaskStatus PROVE WorkOK'
    OBVIOUS
  <1> USE DEF jobVars, machineVars, clientVars
  <1>1. TaskRecOK' /\ JobRecOK' /\ (\A i \in performed : Before(i))' /\ (job # None => OutcomeOK(job))'
    BY TaskRecKept, JobRecKept, OutcomeKept DEF patchTaskStatus, WorkOK, Before, Typed
  <1>2. /\ trec # Idle /\ trec.id \in Steps /\ trec.old \in Tasks /\ trec.new \in Tasks
        /\ Before(trec.id) /\ trec.old.condition = None
        /\ trec.new.condition # "Failed" => trec.id \in performed
    BY RecSteps DEF patchTaskStatus, TaskRecs, WorkOK, TaskRecOK
  <1>3. VersionsOK'
    <2>1. CASE task[trec.id] = None
      BY <2>1, VersionsKept DEF patchTaskStatus, WorkOK
    <2>2. CASE task[trec.id] # None
      <3> DEFINE v == Merged(task[trec.id], trec.old, trec.new)
      <3>1. task[trec.id] \in Tasks /\ VersionOK(trec.id, task[trec.id])
        BY <1>2, <2>2 DEF Typed, WorkOK, VersionsOK
      <3>2. /\ v \in Tasks
            /\ v.condition = IF trec.new.condition = None THEN task[trec.id].condition
                                                          ELSE trec.new.condition
        BY <1>2, <3>1, MergedTask
      <3>3. SetTask(trec.id, v)
        BY <2>2 DEF patchTaskStatus
      <3> HIDE DEF v
      <3>4. VersionOK(trec.id, v)
        BY <1>2, <2>2, <3>1, <3>2, NoneFacts DEF VersionOK
      <3> QED BY <1>2, <3>2, <3>3, <3>4, SetTaskVersions DEF patchTaskStatus, WorkOK
    <2> QED BY <2>1, <2>2
  <1> QED BY <1>1, <1>3 DEF WorkOK

\* A reconcile of a Task that may perform its action.
LEMMA TaskRunWork ==
    ASSUME Typed, QueuesOK, WorkOK, Typed', NEW i \in Steps, TaskRun(i) \/ failTask(i)
    PROVE  WorkOK'
  <1> USE DEF jobVars, machineVars, clientVars
  <1>1. /\ i \in tqueued /\ UNCHANGED <<job, jobVars, task, rtask, twatch>>
        /\ performed \subseteq performed' /\ performed' \subseteq performed \cup {i}
    BY DEF TaskRun, runTask, completeTask, timeOut, failTask, ReconcileTask
  <1>2. performed' \subseteq Steps
    BY DEF Typed
  <1>3. /\ rtask[i] \in Tasks /\ rtask[i].condition = None /\ Before(i)
        /\ rtask[i].started => i \in performed
    <2>1. rtask[i] \in Tasks /\ rtask[i] # None /\ rtask[i].condition = None
      BY <1>1, TaskReconcile
    <2>2. VersionOK(i, rtask[i])
      BY DEF WorkOK, VersionsOK
    <2> QED BY <2>1, <2>2, NoneFacts DEF VersionOK
  <1>4. VersionsOK' /\ JobRecOK' /\ (job # None => OutcomeOK(job))'
    BY <1>1, <1>2, VersionsKept, JobRecKept, OutcomeKept DEF WorkOK
  <1>5. (\A j \in performed : Before(j))'
    BY <1>1, <1>3 DEF WorkOK, Before
  <1>6. /\ trec'.id = i /\ trec'.old = rtask[i]
        /\ trec'.new.condition # "Failed" => i \in performed'
    <2>1. CASE runTask(i)
      <3>1. trec' = TaskRec(i, TRUE, None) /\ i \in performed'
        BY <2>1 DEF runTask
      <3> QED BY <1>1, <3>1, TaskReconcile
    <2>2. CASE completeTask(i)
      <3>1. trec' = TaskRec(i, TRUE, "Completed") /\ i \in performed
        BY <1>3, <2>2 DEF completeTask
      <3> QED BY <1>1, <3>1, TaskReconcile
    <2>3. CASE failTask(i) \/ timeOut(i)
      <3>1. \E st \in {rtask[i].started, TRUE} : trec' = TaskRec(i, st, "Failed")
        BY <2>3 DEF failTask, timeOut
      <3>2. rtask[i].started \in BOOLEAN
        BY <1>3 DEF Tasks
      <3>3. PICK st \in BOOLEAN : trec' = TaskRec(i, st, "Failed")
        BY <3>1, <3>2
      <3> QED BY <1>1, <3>3, TaskReconcile
    <2> QED BY <2>1, <2>2, <2>3 DEF TaskRun
  <1>7. TaskRecOK'
    BY <1>1, <1>3, <1>6 DEF TaskRecOK, Before
  <1> QED BY <1>4, <1>5, <1>7 DEF WorkOK

\* An event about a Task.
LEMMA TaskEventWork == Typed /\ WorkOK /\ TaskEvent => WorkOK'
  <1> SUFFICES ASSUME Typed, WorkOK, TaskEvent PROVE WorkOK'
    OBVIOUS
  <1> USE DEF machineVars, clientVars
  <1>1. /\ TaskRecOK' /\ JobRecOK' /\ (\A i \in performed : Before(i))'
        /\ (job # None => OutcomeOK(job))'
    BY TaskRecKept, JobRecKept, OutcomeKept DEF TaskEvent, WorkOK, Before, Typed
  <1>2. /\ twatch[1][1] \in Steps /\ VersionOK(twatch[1][1], twatch[1][2])
        /\ twatch' = Tail(twatch)
        /\ \A k \in 1..Len(twatch') : twatch'[k] = twatch[k + 1] /\ k + 1 \in 1..Len(twatch)
    BY TaskEventFacts DEF TaskEvent, WorkOK, VersionsOK
  <1>3. \A j \in Steps : rtask'[j] = IF j = twatch[1][1] THEN twatch[1][2] ELSE rtask[j]
    BY <1>2, TaskEventFacts DEF TaskEvent, Typed
  <1>4. UNCHANGED <<task, performed>>
    BY DEF TaskEvent
  <1>5. \A j \in Steps : (VersionOK(j, task[j]) /\ VersionOK(j, rtask[j]))'
    BY <1>2, <1>3, <1>4 DEF WorkOK, VersionsOK, VersionOK, Before
  <1>6. (\A k \in 1..Len(twatch) : VersionOK(twatch[k][1], twatch[k][2]))'
    BY <1>2, <1>4 DEF WorkOK, VersionsOK, VersionOK, Before
  <1> QED BY <1>1, <1>5, <1>6 DEF WorkOK, VersionsOK

\* The Tasks are deleted.
LEMMA DeleteTasksWork == Typed /\ WorkOK /\ DeleteTasks => WorkOK'
  <1> SUFFICES ASSUME Typed, WorkOK, DeleteTasks PROVE WorkOK'
    OBVIOUS
  <1> USE DEF jobVars, machineVars, clientVars
  <1>1. /\ TaskRecOK' /\ JobRecOK' /\ (\A i \in performed : Before(i))'
        /\ (job # None => OutcomeOK(job))'
    BY TaskRecKept, JobRecKept, OutcomeKept DEF DeleteTasks, WorkOK, Before, Typed
  <1>2. \A i \in Steps : task'[i] = None
    BY DEF DeleteTasks
  <1>3. UNCHANGED <<rtask, performed>>
    BY DEF DeleteTasks
  <1>4. \A k \in 1..Len(twatch') : twatch'[k][2] = None \/ (k \in 1..Len(twatch) /\ twatch'[k] = twatch[k])
    BY DeletedType
  <1>5. VersionsOK'
    BY <1>2, <1>3, <1>4 DEF WorkOK, VersionsOK, VersionOK, Before
  <1> QED BY <1>1, <1>5 DEF WorkOK

\* Every step keeps it.
LEMMA WorkStep == Typed /\ QueuesOK /\ WorkOK /\ Typed' /\ [Next]_vars => WorkOK'
  <1> SUFFICES ASSUME Typed, QueuesOK, WorkOK, Typed', [Next]_vars PROVE WorkOK'
    OBVIOUS
  <1> USE DEF jobVars, taskVars, machineVars, clientVars
  <1>1. ASSUME UNCHANGED <<task, rtask, twatch, performed>>, trec' = trec \/ trec' = Idle,
               jrec' = jrec \/ jrec' = Idle, job' = job \/ job' = None \/ job' = {}
        PROVE  WorkOK'
    <2>1. performed' \subseteq Steps
      BY DEF Typed
    <2>2. VersionsOK' /\ TaskRecOK' /\ JobRecOK' /\ (job # None => OutcomeOK(job))'
      BY <1>1, <2>1, VersionsKept, TaskRecKept, JobRecKept, OutcomeKept DEF WorkOK
    <2>3. (\A i \in performed : Before(i))'
      BY <1>1 DEF WorkOK, Before
    <2> QED BY <2>2, <2>3 DEF WorkOK
  <1>2. CASE UNCHANGED vars
    BY <1>1, <1>2 DEF vars
  <1>3. CASE CreateJob \/ DeleteJob \/ JobEvent \/ PowerSettles \/ AddObject \/ RemoveObject
    BY <1>1, <1>3 DEF CreateJob, DeleteJob, JobEvent, PowerSettles, AddObject, RemoveObject, SetJob
  <1>4. CASE PatchFails
    BY <1>1, <1>4 DEF PatchFails
  <1>5. CASE Restart
    <2>1. TaskRecOK' /\ JobRecOK' /\ (\A i \in performed : Before(i))' /\ (job # None => OutcomeOK(job))'
      BY <1>5, TaskRecKept, JobRecKept, OutcomeKept DEF Restart, WorkOK, Before, Typed
    <2>2. Len(<< >>) = 0
      BY EmptySeq
    <2>3. VersionsOK'
      BY <1>5, <2>2 DEF Restart, WorkOK, VersionsOK, VersionOK, Before
    <2> QED BY <2>1, <2>3 DEF WorkOK
  <1>6. CASE CreateFails
    <2>1. VersionsOK' /\ TaskRecOK' /\ (\A i \in performed : Before(i))' /\ (job # None => OutcomeOK(job))'
      BY <1>6, VersionsKept, TaskRecKept, OutcomeKept DEF CreateFails, WorkOK, Before, Typed
    <2>2. jrec # Idle /\ jrec \in JobRecs /\ ~Ended(jrec.new) /\ performed' = performed
      BY <1>6, RecSteps DEF CreateFails, WorkOK, JobRecOK
    <2>3. jrec'.step = "patch" /\ jrec'.new = jrec.new \cup {"Failed"}
      BY <1>6, <2>2 DEF CreateFails, JobRecs
    <2>4. JobRecOK'
      BY <2>2, <2>3 DEF JobRecOK, OutcomeOK, Ended
    <2> QED BY <2>1, <2>4 DEF WorkOK
  <1>7. CASE patchJobStatus
    <2>1. VersionsOK' /\ TaskRecOK' /\ JobRecOK' /\ (\A i \in performed : Before(i))'
      BY <1>7, VersionsKept, TaskRecKept, JobRecKept DEF patchJobStatus, WorkOK, Before, Typed
    <2>2. jrec # Idle /\ OutcomeOK(jrec.new) /\ performed' = performed
      BY <1>7, RecSteps DEF patchJobStatus, WorkOK, JobRecOK
    <2>3. job' = job \/ job' = jrec.new
      BY <1>7 DEF patchJobStatus, SetJob
    <2>4. (job # None => OutcomeOK(job))'
      BY <2>2, <2>3 DEF WorkOK, OutcomeOK
    <2> QED BY <2>1, <2>4 DEF WorkOK
  <1> QED BY <1>2, <1>3, <1>4, <1>5, <1>6, <1>7, ReconcileJobWork, CreateTaskWork, PatchTaskWork,
             TaskRunWork, TaskEventWork, DeleteTasksWork DEF Next, JobWorker

----------------------------------------------------------------------------
(* What holds of a Job of which Rufio knew nothing when it was created *)

\* Versions, reconciles and a Job that are left alone, end or are empty.
LEMMA OwnFrame ==
    ASSUME OwnOK, own \subseteq own', own' \subseteq Steps, UNCHANGED <<task, rtask, twatch>>,
           trec' = trec \/ trec' = Idle, jrec' = jrec \/ jrec' = Idle,
           job' = job \/ job' = None \/ job' = {}
    PROVE  OwnOK'
  <1>1. OwnVersions'
    BY DEF OwnOK, OwnVersions, OwnVersion
  <1>2. OwnOutcomes'
    BY DEF OwnOK, OwnOutcomes, Idle
  <1> QED BY <1>1, <1>2 DEF OwnOK

\* A write of a Task, if what is written is right.
LEMMA SetTaskOwn ==
    ASSUME Typed, OwnVersions, NEW i \in Steps, NEW v \in Tasks \cup {None}, SetTask(i, v),
           UNCHANGED <<rtask, own>>, OwnVersion(i, v)
    PROVE  OwnVersions'
  <1>1. \A j \in Steps : task'[j] = IF j = i THEN v ELSE task[j]
    BY SetTaskType
  <1>2. \A j \in Steps : (OwnVersion(j, task[j]) /\ OwnVersion(j, rtask[j]))'
    BY <1>1 DEF OwnVersions, OwnVersion
  <1>3. CASE twatch' = twatch
    BY <1>2, <1>3 DEF OwnVersions, OwnVersion
  <1>4. CASE twatch' = Append(twatch, <<i, v>>)
    <2> DEFINE E == Steps \X (Tasks \cup {None})
    <2>1. twatch \in Seq(E) /\ <<i, v>> \in E
      BY DEF Typed
    <2> HIDE DEF E
    <2>2. /\ Len(twatch) \in Nat /\ Len(twatch') = Len(twatch) + 1
          /\ \A k \in 1..Len(twatch) : twatch'[k] = twatch[k]
          /\ twatch'[Len(twatch) + 1] = <<i, v>>
          /\ \A k \in 1..(Len(twatch) + 1) : k \in 1..Len(twatch) \/ k = Len(twatch) + 1
      BY <1>4, <2>1, Appended
    <2>3. \A k \in 1..Len(twatch') :
            (k \in 1..Len(twatch) /\ twatch'[k] = twatch[k]) \/ (twatch'[k][1] = i /\ twatch'[k][2] = v)
      BY <2>2
    <2> QED BY <1>2, <2>3 DEF OwnVersions, OwnVersion
  <1> QED BY <1>3, <1>4 DEF SetTask

\* A reconcile of the Job completes it when the cache shows all Tasks completed.
LEMMA ReconcileJobOwn ==
    ASSUME Typed, QueuesOK, WorkOK, OwnOK, ReconcileJob
    PROVE  OwnOK'
  <1> USE DEF taskVars, machineVars, clientVars
  <1>1. UNCHANGED <<task, rtask, twatch, trec, own, job>>
    BY DEF ReconcileJob
  <1>2. OwnVersions'
    BY <1>1 DEF OwnOK, OwnVersions, OwnVersion
  <1>3. rjob \in JobConditions /\ ~Ended(rjob)
    BY JobReconcile DEF ReconcileJob
  <1>4. ASSUME allCompleted PROVE own = Steps
    <2>1. \A i \in Steps : i \in Having(rtask, "Completed")
      BY <1>4, NextIsDue
    <2>2. Steps \subseteq own
      BY <2>1 DEF OwnOK, OwnVersions, OwnVersion, Having
    <2> QED BY <2>2 DEF Typed
  <1>5. jrec' # Idle => ("Completed" \in jrec'.new => own = Steps)
    <2>1. CASE jrec' = Idle
      BY <2>1
    <2>2. CASE jrec' = JobRec("patch", {"Failed"})
      <3>1. jrec'.new = rjob \cup {"Running"} \cup {"Failed"}
        BY <2>2, JobReconcile DEF ReconcileJob
      <3> QED BY <1>3, <3>1 DEF Ended
    <2>3. CASE allCompleted
      BY <1>4, <2>3
    <2>4. CASE jrec' = JobRec("create", {})
      <3>1. jrec'.new = rjob \cup {"Running"} \cup {}
        BY <2>4, JobReconcile DEF ReconcileJob
      <3> QED BY <1>3, <3>1 DEF Ended
    <2> QED BY <2>1, <2>2, <2>3, <2>4 DEF ReconcileJob
  <1> QED BY <1>1, <1>2, <1>5 DEF OwnOK, OwnOutcomes

\* The next Task is made, not started.
LEMMA CreateTaskOwn ==
    ASSUME Typed, WorkOK, OwnOK, createTaskWithOwner
    PROVE  OwnOK'
  <1> USE DEF taskVars, machineVars, clientVars
  <1>1. UNCHANGED <<rtask, trec, own, job>>
    BY DEF createTaskWithOwner
  <1>2. jrec \in JobRecs /\ jrec # Idle /\ jrec.next \in Steps /\ ~Ended(jrec.new)
    BY RecSteps DEF createTaskWithOwner, WorkOK, JobRecOK
  <1>3. jrec'.new = jrec.new \/ jrec'.new = jrec.new \cup {"Failed"}
    BY <1>2 DEF createTaskWithOwner, JobRecs
  <1>4. OwnOutcomes'
    BY <1>1, <1>2, <1>3 DEF OwnOK, OwnOutcomes, Ended
  <1>5. OwnVersions'
    <2> DEFINE v == [started |-> FALSE, condition |-> None]
    <2>1. v \in Tasks
      BY DEF Tasks
    <2>2. v.started = FALSE /\ v.condition = None
      OBVIOUS
    <2> HIDE DEF v
    <2>3. OwnVersion(jrec.next, v)
      BY <2>2, NoneFacts DEF OwnVersion
    <2>4. CASE task[jrec.next] = None
      <3>1. SetTask(jrec.next, v)
        BY <2>4 DEF createTaskWithOwner, v
      <3> QED BY <1>1, <1>2, <2>1, <2>3, <3>1, SetTaskOwn DEF OwnOK
    <2>5. CASE task[jrec.next] # None
      BY <1>1, <2>5 DEF createTaskWithOwner, OwnOK, OwnVersions, OwnVersion
    <2> QED BY <2>4, <2>5
  <1> QED BY <1>4, <1>5 DEF OwnOK

\* The patch of a Task, which its reconcile found unfinished.
LEMMA PatchTaskOwn ==
    ASSUME Typed, WorkOK, OwnOK, patchTaskStatus
    PROVE  OwnOK'
  <1> USE DEF jobVars, machineVars, clientVars
  <1>1. UNCHANGED <<rtask, jrec, own, job>> /\ trec' = Idle
    BY DEF patchTaskStatus
  <1>2. OwnOutcomes'
    BY <1>1 DEF OwnOK, OwnOutcomes
  <1>3. /\ trec # Idle /\ trec.id \in Steps /\ trec.old \in Tasks /\ trec.new \in Tasks
        /\ trec.old.condition = None
        /\ trec.new.condition # "Failed" => trec.id \in own
    BY RecSteps DEF patchTaskStatus, TaskRecs, WorkOK, TaskRecOK, OwnOK, OwnOutcomes
  <1>4. CASE task[trec.id] = None
    <2>1. OwnVersions'
      BY <1>1, <1>4 DEF patchTaskStatus, OwnOK, OwnVersions, OwnVersion
    <2> QED BY <1>2, <2>1 DEF OwnOK
  <1>5. CASE task[trec.id] # None
    <2> DEFINE v == Merged(task[trec.id], trec.old, trec.new)
    <2>1. task[trec.id] \in Tasks /\ OwnVersion(trec.id, task[trec.id])
      BY <1>3, <1>5 DEF Typed, OwnOK, OwnVersions
    <2>2. /\ v \in Tasks
          /\ v.condition = IF trec.new.condition = None THEN task[trec.id].condition
                                                        ELSE trec.new.condition
      BY <1>3, <2>1, MergedTask
    <2>3. SetTask(trec.id, v)
      BY <1>5 DEF patchTaskStatus
    <2> HIDE DEF v
    <2>4. OwnVersion(trec.id, v)
      BY <1>3, <1>5, <2>1, <2>2, NoneFacts DEF OwnVersion
    <2>5. OwnVersions'
      BY <1>1, <1>3, <2>2, <2>3, <2>4, SetTaskOwn DEF OwnOK
    <2> QED BY <1>2, <2>5 DEF OwnOK
  <1> QED BY <1>4, <1>5

\* A reconcile of a Task that may perform its action.
LEMMA TaskRunOwn ==
    ASSUME Typed, QueuesOK, OwnOK, Typed', NEW i \in Steps, TaskRun(i) \/ failTask(i)
    PROVE  OwnOK'
  <1> USE DEF jobVars, machineVars, clientVars
  <1>1. /\ i \in tqueued /\ UNCHANGED <<job, jobVars, task, rtask, twatch>> /\ own \subseteq own'
    BY DEF TaskRun, runTask, completeTask, timeOut, failTask, ReconcileTask
  <1>2. own' \subseteq Steps
    BY DEF Typed
  <1>3. rtask[i] \in Tasks /\ (rtask[i].started => i \in own)
    <2>1. rtask[i] \in Tasks /\ rtask[i] # None /\ rtask[i].condition = None
      BY <1>1, TaskReconcile
    <2>2. OwnVersion(i, rtask[i])
      BY DEF OwnOK, OwnVersions
    <2> QED BY <2>1, <2>2, NoneFacts DEF OwnVersion
  <1>4. OwnVersions'
    BY <1>1 DEF OwnOK, OwnVersions, OwnVersion
  <1>5. trec'.id = i /\ (trec'.new.condition # "Failed" => i \in own')
    <2>1. CASE runTask(i)
      <3>1. trec' = TaskRec(i, TRUE, None) /\ i \in own'
        BY <2>1 DEF runTask
      <3> QED BY <1>1, <3>1, TaskReconcile
    <2>2. CASE completeTask(i)
      <3>1. trec' = TaskRec(i, TRUE, "Completed") /\ i \in own
        BY <1>3, <2>2 DEF completeTask
      <3> QED BY <1>1, <3>1, TaskReconcile
    <2>3. CASE failTask(i) \/ timeOut(i)
      <3>1. \E st \in {rtask[i].started, TRUE} : trec' = TaskRec(i, st, "Failed")
        BY <2>3 DEF failTask, timeOut
      <3>2. rtask[i].started \in BOOLEAN
        BY <1>3 DEF Tasks
      <3>3. PICK st \in BOOLEAN : trec' = TaskRec(i, st, "Failed")
        BY <3>1, <3>2
      <3> QED BY <1>1, <3>3, TaskReconcile
    <2> QED BY <2>1, <2>2, <2>3 DEF TaskRun
  <1>6. OwnOutcomes'
    BY <1>1, <1>2, <1>5 DEF OwnOK, OwnOutcomes
  <1> QED BY <1>4, <1>6 DEF OwnOK

\* An event about a Task.
LEMMA TaskEventOwn ==
    ASSUME Typed, OwnOK, TaskEvent
    PROVE  OwnOK'
  <1> USE DEF machineVars, clientVars
  <1>1. /\ twatch[1][1] \in Steps /\ OwnVersion(twatch[1][1], twatch[1][2])
        /\ twatch' = Tail(twatch)
        /\ \A k \in 1..Len(twatch') : twatch'[k] = twatch[k + 1] /\ k + 1 \in 1..Len(twatch)
    BY TaskEventFacts DEF TaskEvent, OwnOK, OwnVersions
  <1>2. \A j \in Steps : rtask'[j] = IF j = twatch[1][1] THEN twatch[1][2] ELSE rtask[j]
    BY <1>1, TaskEventFacts DEF TaskEvent, Typed
  <1>3. UNCHANGED <<task, own, job, jrec, trec>>
    BY DEF TaskEvent
  <1>4. \A j \in Steps : (OwnVersion(j, task[j]) /\ OwnVersion(j, rtask[j]))'
    BY <1>1, <1>2, <1>3 DEF OwnOK, OwnVersions, OwnVersion
  <1>5. (\A k \in 1..Len(twatch) : OwnVersion(twatch[k][1], twatch[k][2]))'
    BY <1>1, <1>3 DEF OwnOK, OwnVersions, OwnVersion
  <1>6. OwnOutcomes'
    BY <1>3 DEF OwnOK, OwnOutcomes
  <1> QED BY <1>4, <1>5, <1>6 DEF OwnOK, OwnVersions

\* Every step keeps it, and it holds when such a Job is created.
LEMMA OwnStep ==
    ASSUME Typed, QueuesOK, WorkOK, Typed', fresh => OwnOK, [Next]_vars, fresh'
    PROVE  OwnOK'
  <1> USE DEF jobVars, taskVars, machineVars, clientVars
  <1>1. own' \subseteq Steps
    BY DEF Typed
  <1>2. CASE CreateJob
    <2>1. /\ \A i \in Steps : task'[i] = None /\ rtask'[i] = None
          /\ jrec' = Idle /\ trec' = Idle /\ job' = {}
      BY <1>2 DEF CreateJob, SetJob, NothingHeld
    <2>2. twatch' = << >> /\ Len(<< >>) = 0
      BY <1>2, EmptySeq DEF CreateJob, NothingHeld
    <2> QED BY <2>1, <2>2 DEF OwnOK, OwnVersions, OwnVersion, OwnOutcomes
  <1>3. CASE ~CreateJob
    <2>1. fresh
      BY <1>3 DEF Next, vars, DeleteTasks, DeleteJob, JobEvent, TaskEvent, JobWorker, ReconcileJob,
         createTaskWithOwner, patchJobStatus, TaskRun, runTask, completeTask, timeOut, failTask,
         ReconcileTask, patchTaskStatus, PatchFails, CreateFails, Restart, PowerSettles,
         AddObject, RemoveObject
    <2>2. OwnOK
      BY <2>1
    <2>3. CASE UNCHANGED vars
      BY <1>1, <2>2, <2>3, OwnFrame DEF vars
    <2>4. CASE DeleteJob \/ JobEvent \/ PowerSettles \/ PatchFails \/ AddObject \/ RemoveObject
      BY <1>1, <2>2, <2>4, OwnFrame
         DEF DeleteJob, JobEvent, PowerSettles, PatchFails, AddObject, RemoveObject, SetJob
    <2>5. CASE DeleteTasks
      <3>1. (\A i \in Steps : task'[i] = None) /\ UNCHANGED <<rtask, own, job, jrec, trec>>
        BY <2>5 DEF DeleteTasks
      <3>2. \A k \in 1..Len(twatch') :
               twatch'[k][2] = None \/ (k \in 1..Len(twatch) /\ twatch'[k] = twatch[k])
        BY <2>5, DeletedType
      <3>3. OwnVersions'
        BY <2>2, <3>1, <3>2 DEF OwnOK, OwnVersions, OwnVersion
      <3>4. OwnOutcomes'
        BY <2>2, <3>1 DEF OwnOK, OwnOutcomes
      <3> QED BY <3>3, <3>4 DEF OwnOK
    <2>6. CASE Restart
      <3>1. Len(<< >>) = 0
        BY EmptySeq
      <3>2. OwnVersions'
        BY <2>2, <2>6, <3>1 DEF Restart, OwnOK, OwnVersions, OwnVersion
      <3>3. OwnOutcomes'
        BY <2>2, <2>6 DEF Restart, OwnOK, OwnOutcomes
      <3> QED BY <3>2, <3>3 DEF OwnOK
    <2>7. CASE CreateFails
      <3>1. UNCHANGED <<task, rtask, twatch, trec, own, job>>
        BY <2>7 DEF CreateFails
      <3>2. jrec # Idle /\ jrec \in JobRecs /\ ~Ended(jrec.new)
        BY <2>7, RecSteps DEF CreateFails, WorkOK, JobRecOK
      <3>3. jrec'.new = jrec.new \cup {"Failed"}
        BY <2>7, <3>2 DEF CreateFails, JobRecs
      <3>4. OwnVersions'
        BY <2>2, <3>1 DEF OwnOK, OwnVersions, OwnVersion
      <3>5. OwnOutcomes'
        BY <2>2, <3>1, <3>2, <3>3 DEF OwnOK, OwnOutcomes, Ended
      <3> QED BY <3>4, <3>5 DEF OwnOK
    <2>8. CASE patchJobStatus
      <3>1. UNCHANGED <<task, rtask, twatch, trec, own>> /\ jrec' = Idle
        BY <2>8 DEF patchJobStatus
      <3>2. jrec # Idle /\ (job' = job \/ job' = jrec.new)
        BY <2>8, RecSteps DEF patchJobStatus, SetJob
      <3>3. OwnVersions'
        BY <2>2, <3>1 DEF OwnOK, OwnVersions, OwnVersion
      <3>4. OwnOutcomes'
        BY <2>2, <3>1, <3>2 DEF OwnOK, OwnOutcomes
      <3> QED BY <3>3, <3>4 DEF OwnOK
    <2> QED BY <1>3, <2>2, <2>3, <2>4, <2>5, <2>6, <2>7, <2>8, ReconcileJobOwn, CreateTaskOwn,
               PatchTaskOwn, TaskRunOwn, TaskEventOwn DEF Next, JobWorker
  <1> QED BY <1>2, <1>3

----------------------------------------------------------------------------
(* What holds as long as nothing is deleted *)

\* Only the reconciles change.
LEMMA OnlyRecs ==
    ASSUME TasksKept, UNCHANGED <<task, rtask, twatch, performed>>, trec' = trec \/ trec' = Idle,
           jrec' = jrec \/ jrec' = Idle \/ jrec'.step # "create"
    PROVE  TasksKept'
  <1>1. StoredKept'
    BY DEF TasksKept, StoredKept, EndedTask
  <1>2. EventsKept'
    BY DEF TasksKept, EventsKept, EndedTask
  <1>3. RecsKept'
    BY DEF TasksKept, RecsKept, EndedTask, Idle
  <1> QED BY <1>1, <1>2, <1>3 DEF TasksKept

\* The Tasks before the next one have ended in the cache.
LEMMA EndedBeforeNext ==
    ASSUME Typed, StoredKept, Having(rtask, None) \cup Having(rtask, "Failed") = {}
    PROVE  \A i \in Steps : i < nextTask => EndedTask(rtask[i])
  <1> DEFINE D == Having(rtask, "Completed")
  <1>1. \A i \in Steps : rtask[i] # None => i \in D
    BY DEF Typed, Tasks, Having
  <1>2. \A j \in D : \A i \in Steps : i < j => i \in D
    <2> SUFFICES ASSUME NEW j \in D, NEW i \in Steps, i < j PROVE i \in D
      OBVIOUS
    <2>1. j \in Steps /\ rtask[j] # None
      BY DEF Having
    <2>2. rtask[i] # None
      BY <2>1 DEF StoredKept, EndedTask
    <2> QED BY <1>1, <2>2
  <1>3. D \in SUBSET Steps /\ Cardinality(D) \in Nat
    BY HavingSize
  <1>4. \A i \in D : EndedTask(rtask[i])
    BY NoneFacts DEF Having, EndedTask
  <1> HIDE DEF D
  <1>5. \A i \in Steps : i <= Cardinality(D) => i \in D
    BY <1>2, <1>3, DownClosed
  <1>6. nextTask = Cardinality(D) + 1
    BY DEF nextTask, D
  <1>7. \A i \in Steps : i < nextTask => i <= Cardinality(D)
    BY <1>3, <1>6, StepsInterval
  <1> QED BY <1>4, <1>5, <1>7

\* A write of a Task that does not undo its end.
LEMMA SetTaskKept ==
    ASSUME Typed, TasksKept, NEW i \in Steps, NEW v \in Tasks, SetTask(i, v),
           EndedTask(task[i]) => EndedTask(v),
           task[i] = None => \A j \in Steps : j < i => EndedTask(rtask[j]),
           UNCHANGED <<rtask, performed>>
    PROVE  StoredKept' /\ EventsKept' /\ (\A j \in Steps : task[j] # None => task'[j] # None)
  <1>1. \A j \in Steps : task'[j] = IF j = i THEN v ELSE task[j]
    BY SetTaskType
  <1>2. v # None
    BY NoneFacts
  <1>3. StoredKept'
    BY <1>1, <1>2 DEF TasksKept, StoredKept, EndedTask
  <1>4. \A k \in 1..Len(twatch) : twatch[k][1] \in Steps
    BY TaskEvents DEF Typed
  <1>5. CASE twatch' = twatch
    BY <1>1, <1>2, <1>3, <1>4, <1>5 DEF TasksKept, EventsKept, EndedTask
  <1>6. CASE twatch' = Append(twatch, <<i, v>>)
    <2> DEFINE E == Steps \X (Tasks \cup {None})
               n == Len(twatch)
    <2>1. twatch \in Seq(E) /\ <<i, v>> \in E
      BY DEF Typed
    <2> HIDE DEF E
    <2>2. /\ n \in Nat /\ Len(twatch') = n + 1
          /\ \A k \in 1..n : twatch'[k] = twatch[k]
          /\ twatch'[n + 1] = <<i, v>>
          /\ \A k \in 1..(n + 1) : k \in 1..n \/ k = n + 1
      BY <1>6, <2>1, Appended
    <2>3. twatch'[n + 1][1] = i /\ twatch'[n + 1][2] = v
      BY <2>2
    <2> SUFFICES ASSUME NEW k \in 1..Len(twatch')
                 PROVE  /\ task'[twatch'[k][1]] # None
                        /\ EndedTask(rtask[twatch[k][1]])' => EndedTask(twatch[k][2])'
                        /\ EndedTask(twatch[k][2])' => EndedTask(task[twatch[k][1]])'
                        /\ \A l \in 1..Len(twatch') :
                              k < l /\ twatch'[k][1] = twatch'[l][1] /\ EndedTask(twatch[k][2])'
                                => EndedTask(twatch[l][2])'
      BY <1>1, <1>2, <1>3 DEF EventsKept
    <2>4. CASE k = n + 1
      BY <1>1, <1>2, <2>2, <2>3, <2>4 DEF TasksKept, StoredKept, EndedTask
    <2>5. CASE k \in 1..n
      <3>1. twatch'[k] = twatch[k] /\ twatch[k][1] \in Steps
        BY <1>4, <2>2, <2>5
      <3>2. /\ task'[twatch'[k][1]] # None
            /\ EndedTask(rtask[twatch[k][1]])' => EndedTask(twatch[k][2])'
            /\ EndedTask(twatch[k][2])' => EndedTask(task[twatch[k][1]])'
        BY <1>1, <1>2, <2>5, <3>1 DEF TasksKept, EventsKept, EndedTask
      <3>3. ASSUME NEW l \in 1..Len(twatch'), k < l, twatch'[k][1] = twatch'[l][1],
                   EndedTask(twatch[k][2])'
            PROVE  EndedTask(twatch[l][2])'
        <4>1. CASE l = n + 1
          BY <1>2, <2>3, <2>5, <3>1, <3>3, <4>1 DEF TasksKept, EventsKept, EndedTask
        <4>2. CASE l \in 1..n
          BY <2>2, <2>5, <3>1, <3>3, <4>2 DEF TasksKept, EventsKept, EndedTask
        <4> QED BY <2>2, <3>3, <4>1, <4>2
      <3> QED BY <3>2, <3>3
    <2> QED BY <2>2, <2>4, <2>5
  <1> QED BY <1>1, <1>2, <1>3, <1>5, <1>6 DEF SetTask

\* An event about a Task.
LEMMA TaskEventKept ==
    ASSUME Typed, TasksKept, TaskEvent
    PROVE  TasksKept' /\ (\A i \in Steps : EndedTask(rtask[i]) => EndedTask(rtask[i])')
  <1> DEFINE h == twatch[1][1]
  <1>1. /\ h \in Steps /\ 1 \in 1..Len(twatch) /\ Len(twatch) \in Nat
        /\ twatch' = Tail(twatch)
        /\ \A k \in 1..Len(twatch') : twatch'[k] = twatch[k + 1] /\ k + 1 \in 1..Len(twatch)
    BY TaskEventFacts DEF TaskEvent
  <1>2. \A j \in Steps : rtask'[j] = IF j = h THEN twatch[1][2] ELSE rtask[j]
    BY <1>1, TaskEventFacts DEF TaskEvent, Typed
  <1>3. UNCHANGED <<task, performed, trec, jrec>>
    BY DEF TaskEvent, machineVars
  <1>4. /\ task[h] # None
        /\ EndedTask(rtask[h]) => EndedTask(twatch[1][2])
        /\ EndedTask(twatch[1][2]) => EndedTask(task[h])
        /\ \A l \in 1..Len(twatch) :
              1 < l /\ h = twatch[l][1] /\ EndedTask(twatch[1][2]) => EndedTask(twatch[l][2])
    BY <1>1 DEF TasksKept, EventsKept
  <1>5. \A k \in 1..Len(twatch) : twatch[k][1] \in Steps
    BY TaskEvents DEF Typed
  <1> HIDE DEF h
  <1>6. \A i \in Steps : EndedTask(rtask[i]) => EndedTask(rtask[i])'
    BY <1>2, <1>4 DEF EndedTask
  <1>7. StoredKept'
    BY <1>2, <1>3, <1>4 DEF TasksKept, StoredKept, EndedTask
  <1>8. RecsKept'
    BY <1>3, <1>6 DEF TasksKept, RecsKept
  <1>9. EventsKept'
    <2> SUFFICES ASSUME NEW k \in 1..Len(twatch')
                 PROVE  /\ task'[twatch'[k][1]] # None
                        /\ EndedTask(rtask[twatch[k][1]])' => EndedTask(twatch[k][2])'
                        /\ EndedTask(twatch[k][2])' => EndedTask(task[twatch[k][1]])'
                        /\ \A l \in 1..Len(twatch') :
                              k < l /\ twatch'[k][1] = twatch'[l][1] /\ EndedTask(twatch[k][2])'
                                => EndedTask(twatch[l][2])'
      BY DEF EventsKept
    <2>1. twatch'[k] = twatch[k + 1] /\ k + 1 \in 1..Len(twatch) /\ 1 < k + 1 /\ twatch[k + 1][1] \in Steps
      BY <1>1, <1>5
    <2>2. task'[twatch'[k][1]] # None /\ (EndedTask(twatch[k][2])' => EndedTask(task[twatch[k][1]])')
      BY <1>3, <2>1 DEF TasksKept, EventsKept, EndedTask
    <2>3. EndedTask(rtask[twatch[k][1]])' => EndedTask(twatch[k][2])'
      <3>1. EndedTask(rtask[twatch[k + 1][1]]) => EndedTask(twatch[k + 1][2])
        BY <2>1 DEF TasksKept, EventsKept
      <3> QED BY <1>2, <1>4, <2>1, <3>1 DEF EndedTask
    <2>4. ASSUME NEW l \in 1..Len(twatch'), k < l, twatch'[k][1] = twatch'[l][1],
                 EndedTask(twatch[k][2])'
          PROVE  EndedTask(twatch[l][2])'
      <3>1. twatch'[l] = twatch[l + 1] /\ l + 1 \in 1..Len(twatch) /\ k + 1 < l + 1
        BY <1>1, <2>4
      <3> QED BY <2>1, <2>4, <3>1 DEF TasksKept, EventsKept, EndedTask
    <2> QED BY <2>2, <2>3, <2>4
  <1> QED BY <1>6, <1>7, <1>8, <1>9 DEF TasksKept

\* A deletion is never undone.
LEMMA KeptBefore ==
    ASSUME Typed, [Next]_vars, Kept'
    PROVE  Kept /\ ~DeleteTasks /\ ~DeleteJob
  <1> USE DEF jobVars, taskVars, machineVars, clientVars
  <1>1. ~DeleteTasks /\ ~DeleteJob
    BY DEF DeleteTasks, DeleteJob, Kept, Typed
  <1>2. CASE UNCHANGED <<deleting, deletions>>
    BY <1>1, <1>2 DEF Kept
  <1>3. UNCHANGED <<deleting, deletions>>
    BY <1>1 DEF Next, vars, CreateJob, JobEvent, TaskEvent, JobWorker, ReconcileJob,
       createTaskWithOwner, patchJobStatus, TaskRun, runTask, completeTask, timeOut, failTask,
       ReconcileTask, patchTaskStatus, PatchFails, CreateFails, Restart, PowerSettles,
       AddObject, RemoveObject
  <1> QED BY <1>2, <1>3

\* The next Task is made, or the Job fails because there is one already.
LEMMA CreateTaskKept == Typed /\ WorkOK /\ TasksKept /\ createTaskWithOwner => TasksKept'
  <1> SUFFICES ASSUME Typed, WorkOK, TasksKept, createTaskWithOwner PROVE TasksKept'
    OBVIOUS
  <1> USE DEF taskVars, machineVars, clientVars
  <1>1. jrec # Idle /\ jrec \in JobRecs /\ jrec.next \in Steps
    BY RecSteps DEF createTaskWithOwner, WorkOK, JobRecOK
  <1>2. jrec'.step = "patch" /\ UNCHANGED <<rtask, performed, trec>>
    BY <1>1 DEF createTaskWithOwner, JobRecs
  <1>3. CASE task[jrec.next] # None
    BY <1>2, <1>3, OnlyRecs DEF createTaskWithOwner
  <1>4. CASE task[jrec.next] = None
    <2> DEFINE v == [started |-> FALSE, condition |-> None]
    <2>1. v \in Tasks
      BY DEF Tasks
    <2>2. SetTask(jrec.next, v)
      BY <1>4 DEF createTaskWithOwner
    <2>3. \A i \in Steps : i < jrec.next => EndedTask(rtask[i])
      BY <1>1 DEF TasksKept, RecsKept, createTaskWithOwner
    <2>4. ~EndedTask(task[jrec.next])
      BY <1>4 DEF EndedTask
    <2> HIDE DEF v
    <2>5. StoredKept' /\ EventsKept' /\ (\A j \in Steps : task[j] # None => task'[j] # None)
      BY <1>1, <1>2, <2>1, <2>2, <2>3, <2>4, SetTaskKept
    <2>6. trec # Idle => trec.id \in Steps
      BY RecSteps DEF TaskRecs
    <2>7. RecsKept'
      BY <1>2, <2>5, <2>6 DEF TasksKept, RecsKept
    <2> QED BY <2>5, <2>7 DEF TasksKept
  <1> QED BY <1>3, <1>4

\* The patch of a Task.
LEMMA PatchTaskKept == Typed /\ WorkOK /\ TasksKept /\ patchTaskStatus => TasksKept'
  <1> SUFFICES ASSUME Typed, WorkOK, TasksKept, patchTaskStatus PROVE TasksKept'
    OBVIOUS
  <1> USE DEF jobVars, machineVars, clientVars
  <1>1. /\ trec # Idle /\ trec.id \in Steps /\ trec.old \in Tasks /\ trec.new \in Tasks
        /\ trec.old.condition = None /\ task[trec.id] # None
    BY RecSteps DEF patchTaskStatus, TaskRecs, WorkOK, TaskRecOK, TasksKept, RecsKept
  <1> DEFINE v == Merged(task[trec.id], trec.old, trec.new)
  <1>2. task[trec.id] \in Tasks
    BY <1>1 DEF Typed
  <1>3. /\ v \in Tasks
        /\ v.condition = IF trec.new.condition = None THEN task[trec.id].condition
                                                      ELSE trec.new.condition
    BY <1>1, <1>2, MergedTask
  <1>4. SetTask(trec.id, v) /\ UNCHANGED <<rtask, performed, jrec>> /\ trec' = Idle
    BY <1>1 DEF patchTaskStatus
  <1> HIDE DEF v
  <1>5. EndedTask(task[trec.id]) => EndedTask(v)
    BY <1>3, NoneFacts DEF EndedTask
  <1>6. StoredKept' /\ EventsKept'
    BY <1>1, <1>3, <1>4, <1>5, SetTaskKept
  <1>7. RecsKept'
    BY <1>4 DEF TasksKept, RecsKept, EndedTask
  <1> QED BY <1>6, <1>7 DEF TasksKept

\* Every step that deletes nothing.
LEMMA TasksKeptStep ==
    ASSUME Typed, QueuesOK, WorkOK, TasksKept, [Next]_vars, ~DeleteTasks, ~DeleteJob
    PROVE  TasksKept'
  <1> USE DEF jobVars, taskVars, machineVars, clientVars
  <1>1. CASE UNCHANGED vars
    BY <1>1, OnlyRecs DEF vars
  <1>2. CASE \/ CreateJob \/ JobEvent \/ patchJobStatus \/ PatchFails \/ PowerSettles
             \/ AddObject \/ RemoveObject
    BY <1>2, OnlyRecs DEF CreateJob, JobEvent, patchJobStatus, PatchFails, PowerSettles,
                          AddObject, RemoveObject
  <1>3. CASE CreateFails
    <2>1. jrec'.step = "patch"
      BY <1>3, RecSteps DEF CreateFails, JobRecs
    <2> QED BY <1>3, <2>1, OnlyRecs DEF CreateFails
  <1>4. CASE ReconcileJob
    <2>1. UNCHANGED <<task, rtask, twatch, performed, trec>>
      BY <1>4 DEF ReconcileJob
    <2>2. CASE jrec' = Idle
      BY <2>1, <2>2, OnlyRecs
    <2>3. CASE \E c \in {{"Failed"}, {"Completed"}} : jrec' = JobRec("patch", c)
      BY <1>4, <2>1, <2>3, OnlyRecs, JobReconcile DEF ReconcileJob
    <2>4. CASE Having(rtask, None) \cup Having(rtask, "Failed") = {} /\ jrec' = JobRec("create", {})
      <3>1. jrec'.next = nextTask
        BY <1>4, <2>4, JobReconcile DEF ReconcileJob
      <3>2. StoredKept' /\ EventsKept'
        BY <2>1 DEF TasksKept, StoredKept, EventsKept, EndedTask
      <3>3. \A i \in Steps : i < nextTask => EndedTask(rtask[i])
        BY <2>4, EndedBeforeNext DEF TasksKept
      <3>4. RecsKept'
        BY <2>1, <3>1, <3>3 DEF TasksKept, RecsKept, EndedTask
      <3> QED BY <3>2, <3>4 DEF TasksKept
    <2> QED BY <1>4, <2>2, <2>3, <2>4 DEF ReconcileJob
  <1>5. ASSUME NEW i \in Steps, TaskRun(i) \/ failTask(i) PROVE TasksKept'
    <2>1. /\ i \in tqueued /\ UNCHANGED <<jrec, task, rtask, twatch>>
          /\ performed' \subseteq performed \cup {i}
      BY <1>5 DEF TaskRun, runTask, completeTask, timeOut, failTask, ReconcileTask
    <2>2. rtask[i] # None
      BY <2>1 DEF QueuesOK, TaskWork, Having
    <2>3. task[i] # None
      BY <2>2 DEF TasksKept, StoredKept
    <2>4. trec'.id = i
      BY <1>5 DEF TaskRun, runTask, completeTask, timeOut, failTask, TaskRec
    <2>5. StoredKept'
      BY <2>1, <2>3 DEF TasksKept, StoredKept, EndedTask
    <2>6. EventsKept'
      BY <2>1 DEF TasksKept, EventsKept, EndedTask
    <2>7. RecsKept'
      BY <2>1, <2>3, <2>4 DEF TasksKept, RecsKept, EndedTask
    <2> QED BY <2>5, <2>6, <2>7 DEF TasksKept
  <1>6. CASE Restart
    <2>1. StoredKept'
      BY <1>6 DEF Restart, TasksKept, StoredKept, EndedTask
    <2>2. Len(<< >>) = 0
      BY EmptySeq
    <2>3. EventsKept' /\ RecsKept'
      BY <1>6, <2>2 DEF Restart, EventsKept, RecsKept
    <2> QED BY <2>1, <2>3 DEF TasksKept
  <1> QED BY <1>1, <1>2, <1>3, <1>4, <1>5, <1>6, CreateTaskKept, PatchTaskKept, TaskEventKept
       DEF Next, JobWorker

\* Nothing is told to the BMC and nothing new is completed.
LEMMA PowerFrame ==
    ASSUME PowerKept, UNCHANGED <<power, performed>>, JobDone' => JobDone,
           \A i \in Steps : SomeCompleted(i)' => SomeCompleted(i),
           \A i \in Steps : EndedTask(rtask[i]) => EndedTask(rtask[i])'
    PROVE  PowerKept'
  <1>1. PowerSteps \subseteq Steps
    BY DEF PowerSteps
  <1>2. \A i \in PowerSteps : LastPerformed(i)' <=> LastPerformed(i)
    BY DEF LastPerformed
  <1>3. (\A i \in PowerSteps : LastPerformed(i) =>
            power.told = Actions[i] /\ (SomeCompleted(i) => power.now = Actions[i]))'
    BY <1>1, <1>2 DEF PowerKept
  <1>4. (JobDone => /\ \A i \in Steps : EndedTask(rtask[i])
                    /\ \A i \in PowerSteps : LastPerformed(i) => power.now = Actions[i])'
    BY <1>2 DEF PowerKept
  <1> QED BY <1>3, <1>4 DEF PowerKept

\* The Tasks and their versions are the same.
LEMMA CompletedSame ==
    ASSUME UNCHANGED <<task, rtask, twatch>>, trec' = trec \/ trec' = Idle
    PROVE  /\ \A i \in Steps : SomeCompleted(i)' => SomeCompleted(i)
           /\ \A i \in Steps : EndedTask(rtask[i]) => EndedTask(rtask[i])'
  BY DEF SomeCompleted, EndedTask

\* A write of a Task that was about to be what is written.
LEMMA SetTaskCompleted ==
    ASSUME Typed, NEW i \in Steps, NEW v \in Tasks, SetTask(i, v), UNCHANGED rtask,
           trec' = trec \/ trec' = Idle, v.condition = "Completed" => SomeCompleted(i)
    PROVE  /\ \A j \in Steps : SomeCompleted(j)' => SomeCompleted(j)
           /\ \A j \in Steps : EndedTask(rtask[j]) => EndedTask(rtask[j])'
  <1>1. \A j \in Steps : task'[j] = IF j = i THEN v ELSE task[j]
    BY SetTaskType
  <1>2. \A k \in 1..Len(twatch') :
            (k \in 1..Len(twatch) /\ twatch'[k] = twatch[k]) \/ (twatch'[k][1] = i /\ twatch'[k][2] = v)
    <2>1. CASE twatch' = twatch
      BY <2>1
    <2>2. CASE twatch' = Append(twatch, <<i, v>>)
      <3> DEFINE E == Steps \X (Tasks \cup {None})
      <3>1. twatch \in Seq(E) /\ <<i, v>> \in E
        BY DEF Typed
      <3> HIDE DEF E
      <3>2. /\ Len(twatch) \in Nat /\ Len(twatch') = Len(twatch) + 1
            /\ \A k \in 1..Len(twatch) : twatch'[k] = twatch[k]
            /\ twatch'[Len(twatch) + 1] = <<i, v>>
            /\ \A k \in 1..(Len(twatch) + 1) : k \in 1..Len(twatch) \/ k = Len(twatch) + 1
        BY <2>2, <3>1, Appended
      <3> QED BY <3>2
    <2> QED BY <2>1, <2>2 DEF SetTask
  <1>3. ASSUME NEW j \in Steps, SomeCompleted(j)' PROVE SomeCompleted(j)
    <2>1. CASE task'[j] # None /\ task'[j].condition = "Completed"
      BY <1>1, <2>1 DEF SomeCompleted
    <2>2. CASE rtask'[j] # None /\ rtask'[j].condition = "Completed"
      BY <2>2 DEF SomeCompleted
    <2>3. CASE trec' # Idle /\ trec'.id = j /\ trec'.new.condition = "Completed"
      BY <2>3 DEF SomeCompleted
    <2>4. ASSUME NEW k \in 1..Len(twatch'), twatch'[k][1] = j, twatch'[k][2] # None,
                 twatch'[k][2].condition = "Completed"
          PROVE  SomeCompleted(j)
      <3>1. CASE k \in 1..Len(twatch) /\ twatch'[k] = twatch[k]
        BY <2>4, <3>1 DEF SomeCompleted
      <3>2. CASE twatch'[k][1] = i /\ twatch'[k][2] = v
        BY <2>4, <3>2
      <3> QED BY <1>2, <2>4, <3>1, <3>2
    <2> QED BY <1>3, <2>1, <2>2, <2>3, <2>4 DEF SomeCompleted
  <1>4. \A j \in Steps : EndedTask(rtask[j]) => EndedTask(rtask[j])'
    BY DEF EndedTask
  <1> QED BY <1>3, <1>4

\* What is completed was performed.
LEMMA CompletedWasPerformed ==
    ASSUME Typed, WorkOK, trec = Idle, NEW i \in Steps, SomeCompleted(i)
    PROVE  i \in performed
  <1>1. CASE \E k \in 1..Len(twatch) :
                twatch[k][1] = i /\ twatch[k][2] # None /\ twatch[k][2].condition = "Completed"
    BY <1>1 DEF WorkOK, VersionsOK, VersionOK
  <1>2. CASE \/ task[i] # None /\ task[i].condition = "Completed"
             \/ rtask[i] # None /\ rtask[i].condition = "Completed"
    BY <1>2 DEF WorkOK, VersionsOK, VersionOK
  <1> QED BY <1>1, <1>2 DEF SomeCompleted

\* The action of a Task is performed.
LEMMA RunTaskPower ==
    ASSUME Typed, QueuesOK, WorkOK, TasksKept, PowerKept, NEW i \in Steps, runTask(i)
    PROVE  PowerKept'
  <1>1. /\ i \in tqueued /\ trec = Idle /\ UNCHANGED <<job, jrec, task, rtask, twatch>>
        /\ performed' = performed \cup {i} /\ trec' = TaskRec(i, TRUE, None)
    BY DEF runTask, ReconcileTask, jobVars
  <1>2. rtask[i] # None /\ rtask[i].condition = None /\ ~EndedTask(rtask[i])
    BY <1>1 DEF QueuesOK, TaskWork, Having, EndedTask
  <1>3. ~JobDone'
    <2>1. ~JobDone
      BY <1>2 DEF PowerKept
    <2> QED BY <1>1, <2>1 DEF JobDone, Is
  <1>4. \A j \in performed : j <= i
    <2> SUFFICES ASSUME NEW j \in performed, i < j PROVE FALSE
      BY StepsInterval DEF Typed
    <2>1. j \in Steps /\ task[j] # None
      BY DEF Typed, TasksKept, StoredKept
    <2> QED BY <1>2, <2>1 DEF TasksKept, StoredKept
  <1>5. \A j \in Steps : SomeCompleted(j)' => SomeCompleted(j)
    <2>1. trec'.new.condition = None
      BY <1>1, TaskReconcile
    <2> QED BY <1>1, <2>1, NoneFacts DEF SomeCompleted
  <1>6. power'.now = power.now
    BY DEF runTask, Typed
  <1>7. ASSUME NEW j \in PowerSteps, LastPerformed(j)'
        PROVE  power'.told = Actions[j] /\ (SomeCompleted(j)' => power'.now = Actions[j])
    <2>1. j \in Steps /\ j \in performed \cup {i} /\ (\A k \in PowerSteps : k \in performed \cup {i} => k <= j)
      BY <1>1, <1>7 DEF LastPerformed, PowerSteps
    <2>2. CASE i \in PowerSteps
      <3>1. j = i
        BY <1>4, <2>1, <2>2, StepsInterval
      <3>2. power'.told = Actions[i]
        BY <2>2 DEF runTask, PowerSteps, Typed
      <3>3. ASSUME SomeCompleted(i) PROVE power.now = Actions[i]
        <4>1. i \in performed
          BY <1>1, <3>3, CompletedWasPerformed
        <4>2. LastPerformed(i)
          BY <1>4, <4>1 DEF LastPerformed
        <4> QED BY <2>2, <3>3, <4>2 DEF PowerKept
      <3> QED BY <1>5, <1>6, <3>1, <3>2, <3>3
    <2>3. CASE i \notin PowerSteps
      <3>1. power' = power
        BY <2>3 DEF runTask, PowerSteps
      <3>2. LastPerformed(j)
        BY <1>7, <2>1, <2>3 DEF LastPerformed
      <3> QED BY <1>5, <1>7, <2>1, <3>1, <3>2 DEF PowerKept
    <2> QED BY <2>2, <2>3
  <1> QED BY <1>3, <1>7 DEF PowerKept

\* A Task is completed when the power is as its action says, or it fails.
LEMMA EndTaskPower ==
    ASSUME Typed, QueuesOK, PowerKept, NEW i \in Steps,
           completeTask(i) \/ timeOut(i) \/ failTask(i)
    PROVE  PowerKept'
  <1>1. /\ i \in tqueued /\ UNCHANGED <<job, jrec, task, rtask, twatch, power, performed>>
    BY DEF completeTask, timeOut, failTask, ReconcileTask, jobVars, machineVars
  <1>2. trec'.id = i /\ (trec'.new.condition = "Completed" => checkTaskStatus(i))
    <2>1. CASE completeTask(i)
      BY <2>1 DEF completeTask, TaskRec
    <2>2. CASE timeOut(i) \/ failTask(i)
      <3>1. PICK st : trec' = TaskRec(i, st, "Failed")
        BY <2>2 DEF timeOut, failTask
      <3>2. trec'.new.condition = "Failed" /\ trec'.id = i
        BY <3>1 DEF TaskRec
      <3> QED BY <3>2
    <2> QED BY <2>1, <2>2
  <1>3. JobDone' => JobDone
    BY <1>1 DEF JobDone, Is
  <1>4. ASSUME NEW j \in PowerSteps, LastPerformed(j)'
        PROVE  power'.told = Actions[j] /\ (SomeCompleted(j)' => power'.now = Actions[j])
    <2>1. j \in Steps /\ LastPerformed(j)
      BY <1>1, <1>4 DEF LastPerformed, PowerSteps
    <2>2. SomeCompleted(j)' => SomeCompleted(j) \/ (i = j /\ checkTaskStatus(i))
      BY <1>1, <1>2 DEF SomeCompleted
    <2>3. i = j /\ checkTaskStatus(i) => power.now = Actions[j]
      BY DEF checkTaskStatus, PowerSteps
    <2> QED BY <1>1, <1>4, <2>1, <2>2, <2>3 DEF PowerKept
  <1>5. (JobDone => /\ \A j \in Steps : EndedTask(rtask[j])
                    /\ \A j \in PowerSteps : LastPerformed(j) => power.now = Actions[j])'
    BY <1>1, <1>3 DEF PowerKept, EndedTask, LastPerformed
  <1> QED BY <1>4, <1>5 DEF PowerKept

\* A reconcile that finds every Task completed completes the Job.
LEMMA ReconcileJobPower ==
    ASSUME Typed, QueuesOK, WorkOK, PowerKept, ReconcileJob
    PROVE  PowerKept'
  <1>1. UNCHANGED <<job, task, rtask, twatch, trec, power, performed>>
    BY DEF ReconcileJob, taskVars, machineVars
  <1>2. rjob \in JobConditions /\ ~Ended(rjob)
    BY JobReconcile DEF ReconcileJob
  <1>3. /\ \A i \in Steps : SomeCompleted(i)' => SomeCompleted(i)
        /\ \A i \in Steps : EndedTask(rtask[i]) => EndedTask(rtask[i])'
    BY <1>1, CompletedSame
  <1>4. CASE jrec' # Idle /\ "Completed" \in jrec'.new
    <2>1. allCompleted
      <3>1. "Completed" \notin JobRec("patch", {"Failed"}).new
            /\ "Completed" \notin JobRec("create", {}).new
        BY <1>2, JobReconcile DEF ReconcileJob, Ended
      <3> QED BY <1>4, <3>1 DEF ReconcileJob
    <2>2. \A i \in Steps : rtask[i] # None /\ rtask[i].condition = "Completed"
      BY <2>1, NextIsDue DEF Having
    <2>3. \A i \in Steps : EndedTask(rtask[i]) /\ SomeCompleted(i)
      BY <2>2, NoneFacts DEF EndedTask, SomeCompleted
    <2>4. PowerSteps \subseteq Steps
      BY DEF PowerSteps
    <2>5. \A i \in PowerSteps : LastPerformed(i)' =>
             power'.told = Actions[i] /\ power'.now = Actions[i]
      BY <1>1, <2>3, <2>4 DEF PowerKept, LastPerformed
    <2>6. (\A i \in Steps : EndedTask(rtask[i]))'
      BY <1>3, <2>3
    <2> QED BY <2>5, <2>6 DEF PowerKept
  <1>5. CASE ~(jrec' # Idle /\ "Completed" \in jrec'.new)
    <2>1. JobDone' => JobDone
      BY <1>1, <1>5 DEF JobDone, Is
    <2> QED BY <1>1, <1>3, <2>1, PowerFrame
  <1> QED BY <1>4, <1>5

\* An event about a Task brings nothing new to the API server.
LEMMA TaskEventPower ==
    ASSUME Typed, TasksKept, PowerKept, TaskEvent
    PROVE  PowerKept'
  <1>1. /\ UNCHANGED <<job, jrec, task, trec, power, performed>>
    BY DEF TaskEvent, machineVars
  <1>2. /\ twatch[1][1] \in Steps /\ 1 \in 1..Len(twatch) /\ twatch' = Tail(twatch)
        /\ \A k \in 1..Len(twatch') : twatch'[k] = twatch[k + 1] /\ k + 1 \in 1..Len(twatch)
    BY TaskEventFacts DEF TaskEvent
  <1>3. \A j \in Steps : rtask'[j] = IF j = twatch[1][1] THEN twatch[1][2] ELSE rtask[j]
    BY <1>2, TaskEventFacts DEF TaskEvent, Typed
  <1>4. ASSUME NEW j \in Steps, SomeCompleted(j)' PROVE SomeCompleted(j)
    <2>1. CASE rtask'[j] # None /\ rtask'[j].condition = "Completed"
      BY <1>2, <1>3, <2>1 DEF SomeCompleted
    <2>2. CASE \E k \in 1..Len(twatch') :
                  twatch'[k][1] = j /\ twatch'[k][2] # None /\ twatch'[k][2].condition = "Completed"
      BY <1>2, <2>2 DEF SomeCompleted
    <2> QED BY <1>1, <1>4, <2>1, <2>2 DEF SomeCompleted
  <1>5. JobDone' => JobDone
    BY <1>1 DEF JobDone, Is
  <1>6. \A i \in Steps : EndedTask(rtask[i]) => EndedTask(rtask[i])'
    BY TaskEventKept
  <1> QED BY <1>1, <1>4, <1>5, <1>6, PowerFrame

\* A Task is made or patched.
LEMMA WriteTaskPower ==
    ASSUME Typed, WorkOK, TasksKept, PowerKept, createTaskWithOwner \/ patchTaskStatus
    PROVE  PowerKept'
  <1>1. UNCHANGED <<job, rtask, power, performed>> /\ (trec' = trec \/ trec' = Idle)
    BY DEF createTaskWithOwner, patchTaskStatus, machineVars, jobVars
  <1>2. JobDone' => JobDone
    <2>1. CASE createTaskWithOwner
      <3>1. jrec # Idle /\ jrec \in JobRecs
        BY <2>1, RecSteps DEF createTaskWithOwner
      <3>2. jrec'.new = jrec.new \/ jrec'.new = jrec.new \cup {"Failed"}
        BY <2>1, <3>1 DEF createTaskWithOwner, JobRecs
      <3> QED BY <1>1, <3>1, <3>2 DEF JobDone, Is
    <2>2. CASE patchTaskStatus
      BY <2>2 DEF patchTaskStatus, jobVars, JobDone, Is
    <2> QED BY <2>1, <2>2
  <1>3. /\ \A i \in Steps : SomeCompleted(i)' => SomeCompleted(i)
        /\ \A i \in Steps : EndedTask(rtask[i]) => EndedTask(rtask[i])'
    <2>1. CASE UNCHANGED <<task, twatch>>
      BY <1>1, <2>1, CompletedSame
    <2>2. CASE createTaskWithOwner /\ task[jrec.next] = None
      <3> DEFINE v == [started |-> FALSE, condition |-> None]
      <3>1. v \in Tasks /\ v.condition # "Completed"
        BY NoneFacts DEF Tasks
      <3>2. jrec.next \in Steps
        BY <2>2, RecSteps DEF createTaskWithOwner, WorkOK, JobRecOK
      <3>3. SetTask(jrec.next, v)
        BY <2>2 DEF createTaskWithOwner
      <3> HIDE DEF v
      <3> QED BY <1>1, <3>1, <3>2, <3>3, SetTaskCompleted
    <2>3. CASE patchTaskStatus
      <3>1. /\ trec # Idle /\ trec.id \in Steps /\ trec.old \in Tasks /\ trec.new \in Tasks
            /\ trec.old.condition = None /\ task[trec.id] # None
        BY <2>3, RecSteps DEF patchTaskStatus, TaskRecs, WorkOK, TaskRecOK, TasksKept, RecsKept
      <3> DEFINE v == Merged(task[trec.id], trec.old, trec.new)
      <3>2. task[trec.id] \in Tasks
        BY <3>1 DEF Typed
      <3>3. /\ v \in Tasks
            /\ v.condition = IF trec.new.condition = None THEN task[trec.id].condition
                                                          ELSE trec.new.condition
        BY <3>1, <3>2, MergedTask
      <3>4. SetTask(trec.id, v)
        BY <2>3, <3>1 DEF patchTaskStatus
      <3> HIDE DEF v
      <3>5. v.condition = "Completed" => SomeCompleted(trec.id)
        BY <3>1, <3>3 DEF SomeCompleted
      <3> QED BY <1>1, <3>1, <3>3, <3>4, <3>5, SetTaskCompleted
    <2>4. CASE createTaskWithOwner /\ task[jrec.next] # None
      BY <2>1, <2>4 DEF createTaskWithOwner
    <2> QED BY <2>2, <2>3, <2>4
  <1> QED BY <1>1, <1>2, <1>3, PowerFrame

\* Every step that deletes nothing.
LEMMA PowerKeptStep ==
    ASSUME Typed, QueuesOK, WorkOK, TasksKept, PowerKept, [Next]_vars, ~DeleteTasks, ~DeleteJob
    PROVE  PowerKept'
  <1> USE DEF jobVars, taskVars, machineVars, clientVars
  <1>1. ASSUME UNCHANGED <<task, rtask, twatch, power, performed>>, trec' = trec \/ trec' = Idle,
               JobDone' => JobDone
        PROVE  PowerKept'
    BY <1>1, CompletedSame, PowerFrame
  <1>2. CASE UNCHANGED vars
    <2>1. JobDone' => JobDone
      BY <1>2 DEF vars, JobDone, Is
    <2> QED BY <1>1, <1>2, <2>1 DEF vars
  <1>3. CASE CreateJob \/ JobEvent \/ AddObject \/ RemoveObject
    <2>1. JobDone' => JobDone
      BY <1>3 DEF CreateJob, JobEvent, AddObject, RemoveObject, SetJob, JobDone, Is
    <2> QED BY <1>1, <1>3, <2>1 DEF CreateJob, JobEvent, AddObject, RemoveObject
  <1>4. CASE patchJobStatus
    <2>1. jrec # Idle /\ jrec' = Idle
      BY <1>4, RecSteps DEF patchJobStatus
    <2>2. job' = job \/ job' = jrec.new
      BY <1>4 DEF patchJobStatus, SetJob
    <2>3. JobDone' => JobDone
      BY <2>1, <2>2 DEF JobDone, Is
    <2> QED BY <1>1, <1>4, <2>3 DEF patchJobStatus
  <1>5. CASE PatchFails
    <2>1. JobDone' => JobDone
      BY <1>5 DEF PatchFails, JobDone, Is
    <2> QED BY <1>1, <1>5, <2>1 DEF PatchFails
  <1>6. CASE CreateFails
    <2>1. jrec # Idle /\ jrec \in JobRecs
      BY <1>6, RecSteps DEF CreateFails
    <2>2. jrec'.new = jrec.new \cup {"Failed"}
      BY <1>6, <2>1 DEF CreateFails, JobRecs
    <2>3. JobDone' => JobDone
      BY <1>6, <2>1, <2>2 DEF CreateFails, JobDone, Is
    <2> QED BY <1>1, <1>6, <2>3 DEF CreateFails
  <1>7. CASE Restart
    <2>1. JobDone' => JobDone
      BY <1>7 DEF Restart, JobDone, Is
    <2>2. Len(<< >>) = 0
      BY EmptySeq
    <2>3. \A i \in Steps : SomeCompleted(i)' => SomeCompleted(i)
      BY <1>7, <2>2 DEF Restart, SomeCompleted
    <2>4. \A i \in Steps : EndedTask(rtask[i]) => EndedTask(rtask[i])'
      BY <1>7 DEF Restart, TasksKept, StoredKept, EndedTask
    <2> QED BY <1>7, <2>1, <2>3, <2>4, PowerFrame DEF Restart
  <1>8. CASE PowerSettles
    <2>1. UNCHANGED <<job, jrec, task, rtask, twatch, trec, performed>>
      BY <1>8 DEF PowerSettles
    <2>2. power'.told = power.told /\ power'.now = power.told
      BY <1>8 DEF PowerSettles, Typed
    <2>3. \A i \in PowerSteps : LastPerformed(i)' =>
             power'.told = Actions[i] /\ power'.now = Actions[i]
      BY <2>1, <2>2 DEF PowerKept, LastPerformed
    <2>4. JobDone' => (\A i \in Steps : EndedTask(rtask[i]))'
      BY <2>1 DEF PowerKept, JobDone, Is, EndedTask
    <2> QED BY <2>3, <2>4 DEF PowerKept
  <1>9. ASSUME NEW i \in Steps, TaskRun(i) \/ failTask(i) PROVE PowerKept'
    BY <1>9, RunTaskPower, EndTaskPower DEF TaskRun
  <1> QED BY <1>2, <1>3, <1>4, <1>5, <1>6, <1>7, <1>8, <1>9, ReconcileJobPower, TaskEventPower,
             WriteTaskPower DEF Next, JobWorker

----------------------------------------------------------------------------
(* The theorems *)

\* It holds at the start: there is no Job, no Task, and nothing was performed.
LEMMA InitIInv == Init => IInv
  <1> SUFFICES ASSUME Init PROVE IInv
    OBVIOUS
  <1>1. << >> \in Seq(JobConditions \cup {None}) /\ << >> \in Seq(Steps \X (Tasks \cup {None}))
        /\ Len(<< >>) = 0
    BY EmptySeq
  <1>2. Typed
    <2>1. job \in JobConditions \cup {None} /\ rjob \in JobConditions \cup {None}
          /\ jwatch \in Seq(JobConditions \cup {None})
      BY <1>1 DEF Init
    <2>2. task \in [Steps -> Tasks \cup {None}] /\ rtask \in [Steps -> Tasks \cup {None}]
          /\ twatch \in Seq(Steps \X (Tasks \cup {None}))
      BY <1>1 DEF Init
    <2>3. jqueued \in BOOLEAN /\ tqueued \subseteq Steps /\ performed \subseteq Steps
          /\ jrec = Idle /\ trec = Idle /\ deleting \in BOOLEAN /\ fresh \in BOOLEAN
          /\ own \subseteq Steps /\ bmcRefs \subseteq BmcObjects
      BY DEF Init
    <2>4. power \in [now : {"on", "off"}, told : {"on", "off"}]
      BY DEF Init
    <2>5. deletions \in Nat /\ troubles \in 0..MaxTroubles
      BY RufioAssumption DEF Init
    <2> QED BY <2>1, <2>2, <2>3, <2>4, <2>5 DEF Typed
  <1>3. QueuesOK
    BY DEF Init, QueuesOK
  <1>4. \A i \in Steps : task[i] = None /\ rtask[i] = None
    BY DEF Init
  <1>5. jrec = Idle /\ trec = Idle /\ Len(twatch) = 0 /\ performed = {} /\ job = None
    BY <1>1 DEF Init
  <1>6. WorkOK
    BY <1>4, <1>5 DEF WorkOK, VersionsOK, VersionOK, TaskRecOK, JobRecOK
  <1>7. TasksKept
    BY <1>4, <1>5 DEF TasksKept, StoredKept, EventsKept, RecsKept, EndedTask
  <1>8. PowerKept
    BY <1>5 DEF PowerKept, LastPerformed, JobDone, Is
  <1>9. OwnOK
    BY <1>4, <1>5 DEF OwnOK, OwnVersions, OwnVersion, OwnOutcomes
  <1> QED BY <1>2, <1>3, <1>6, <1>7, <1>8, <1>9 DEF IInv

\* Every step keeps it.
LEMMA NextIInv == IInv /\ [Next]_vars => IInv'
  <1> SUFFICES ASSUME IInv, [Next]_vars PROVE IInv'
    OBVIOUS
  <1>1. Typed' /\ QueuesOK'
    BY TypedStep, QueuesStep DEF IInv
  <1>2. WorkOK'
    BY <1>1, WorkStep DEF IInv
  <1>3. Kept' => TasksKept' /\ PowerKept'
    BY KeptBefore, TasksKeptStep, PowerKeptStep DEF IInv
  <1>4. fresh' => OwnOK'
    BY <1>1, OwnStep DEF IInv
  <1> QED BY <1>1, <1>2, <1>3, <1>4 DEF IInv

\* The inductive invariant holds in every state of Rufio's reconcilers.
THEOREM RufioInvariance == Spec => []IInv
  BY InitIInv, NextIInv, PTL DEF Spec

\* The variables keep their types, whatever a merge patch leaves of a Task
\* or a Job (createTaskWithOwner, patchStatus).
THEOREM RufioTypeCorrect == Spec => []TypeOK
  <1>1. ASSUME IInv PROVE TypeOK
    <2>1. /\ job \in JobConditions \cup {None} /\ rjob \in JobConditions \cup {None}
          /\ jwatch \in Seq(JobConditions \cup {None})
          /\ task \in [Steps -> Tasks \cup {None}] /\ rtask \in [Steps -> Tasks \cup {None}]
          /\ twatch \in Seq(Steps \X (Tasks \cup {None}))
      BY <1>1 DEF IInv, Typed
    <2>2. /\ jqueued \in BOOLEAN /\ tqueued \subseteq Steps /\ performed \subseteq Steps
          /\ own \subseteq Steps /\ bmcRefs \subseteq BmcObjects /\ fresh \in BOOLEAN
          /\ deleting \in BOOLEAN /\ deletions \in Nat /\ troubles \in 0..MaxTroubles
      BY <1>1 DEF IInv, Typed
    <2> QED BY <2>1, <2>2, Zenon DEF TypeOK, JobConditions, Tasks
  <1> QED BY <1>1, RufioInvariance, PTL

\* A Job becomes completed only when every action was performed since it was
\* created, though doReconcile counts the completed Tasks in a cache and the
\* Tasks may be deleted under it: if Rufio held nothing of an earlier Job, any
\* Task that a cache shows completed was run for this one.
THEOREM CompletedJobWasPerformed == Spec => []CompletedPerformed
  <1>1. IInv => CompletedPerformed
    BY DEF IInv, OwnOK, OwnOutcomes, CompletedPerformed, Is
  <1> QED BY <1>1, RufioInvariance, PTL

\* No action is performed before the ones ahead of it in the list, whatever
\* Tasks of a deleted Job the caches still show.
THEOREM ActionsPerformedInOrder == Spec => []PerformedInOrder
  <1>1. IInv => PerformedInOrder
    BY DEF IInv, WorkOK, Before, PerformedInOrder
  <1> QED BY <1>1, RufioInvariance, PTL

\* A Job is never both completed and failed: a reconcile adds one of the two
\* conditions, to a copy of the Job that has neither.
THEOREM JobHasOneOutcome == Spec => []OneOutcome
  <1>1. IInv => OneOutcome
    BY DEF IInv, WorkOK, OutcomeOK, OneOutcome, Is
  <1> QED BY <1>1, RufioInvariance, PTL

\* As long as no Job was deleted, the machine of a completed Job has the power
\* state that the Job's last power action asked for: runTask may repeat an
\* action, but never one that a later Task's action has overtaken.
THEOREM CompletedJobLeavesPower == Spec => []PowerAsAsked
  <1>1. ASSUME IInv PROVE PowerAsAsked
    <2> SUFFICES ASSUME Is(job, "Completed"), ~deleting, deletions = 0, NEW i \in PowerSteps,
                        \A k \in PowerSteps : k <= i
                 PROVE  power.now = Actions[i]
      BY DEF PowerAsAsked
    <2>1. PowerKept /\ JobDone
      BY <1>1 DEF IInv, Kept, JobDone
    <2>2. performed = Steps
      BY <1>1 DEF IInv, WorkOK, OutcomeOK, Is
    <2>3. LastPerformed(i)
      BY <2>2 DEF LastPerformed, PowerSteps
    <2> QED BY <2>1, <2>3 DEF PowerKept
  <1> QED BY <1>1, RufioInvariance, PTL

=============================================================================
