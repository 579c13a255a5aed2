---------------------------- MODULE AgentRuntime ----------------------------
(***************************************************************************)
(* How the Tink Agent executes one Action: the tries of agent.Config.Run   *)
(* under one deadline, and Execute of the three runtimes (Docker,          *)
(* containerd, Kubernetes Jobs) with what each acquires on the host, the   *)
(* deferred calls that release it, and the process or Pod it starts.  The  *)
(* agent can crash at any point and is then given the Action again.        *)
(***************************************************************************)
EXTENDS Naturals, Sequences, FiniteSets, SequencesExt

CONSTANTS RtActions,   \* Actions, with the facts of the host they run on
          MaxRuns,     \* calls of Execute
          MaxRtFaults  \* failing calls and crashes

ASSUME RtAssumption == MaxRuns \in Nat \ {0} /\ MaxRtFaults \in Nat

\* The public nameservers that are the fallback are no loopback addresses,
\* and the options of a volume are a list of strings.
ASSUME HostAssumption ==
  \A a \in RtActions :
    /\ "public" \notin a.host.loopback
    /\ \A v \in ToSet(a.volumes) : v.opts \in Seq(STRING)

VARIABLES rtAct,    \* the Action
          rtPc,     \* where the agent is
          rtTry,    \* try of Run's loop
          rtRun,    \* Execute calls so far
          rtCtx,    \* "live", "expired": the timeout of the Action
          rtDefer,  \* deferred calls of Execute, the next one first
          rtErr,    \* what Execute returns: "none", "ok", "fail", "timeout"
          rtHost,   \* what Execute calls acquired: <<kind, call>>
          rtProc,   \* the process or Pod of each call
          rtJob,    \* the Job that holds the name of the Action's Job
          rtSpec,   \* what the container was created with
          rtLeft,   \* left by a failed clean-up, a crash or a lost answer
          rtState,  \* the state reported for the Action
          rtFaults

rtVars == <<rtAct, rtPc, rtTry, rtRun, rtCtx, rtDefer, rtErr, rtHost, rtProc,
            rtJob, rtSpec, rtLeft, rtState, rtFaults>>

runVars  == <<rtAct, rtTry, rtRun, rtCtx, rtState>>
hostVars == <<rtHost, rtProc, rtJob, rtSpec, rtLeft>>

NoJobYet == [run |-> 0, st |-> "absent"]
NoSpec == [mounts |-> {}, dns |-> {}, args |-> <<>>]

RtInit ==
  /\ rtAct \in RtActions
  /\ rtPc = "announced" /\ rtTry = 0 /\ rtRun = 0 /\ rtCtx = "live"
  /\ rtDefer = <<>> /\ rtErr = "none" /\ rtState = "none" /\ rtFaults = 0
  /\ rtHost = {} /\ rtProc = [r \in 1..MaxRuns |-> "none"]
  /\ rtJob = [run |-> 0, st |-> IF rtAct.foreign THEN "foreign" ELSE "absent"]
  /\ rtSpec = NoSpec /\ rtLeft = {}

-----------------------------------------------------------------------------
(* What a container is created with (containerd): sets of nameservers and  *)
(* of mounts, whose order no property tells apart.                         *)

\* The nameservers a container gets: the host's, and for an isolated network
\* the ones that are not loopback, from the upstream file of
\* systemd-resolved if the host points at it, with public ones as fallback.
buildResolvConf(host, isolated) ==
  LET stub == "127.0.0.53" \in host.etc /\ host.upstream # {}
      file == IF isolated /\ host.readable /\ stub THEN host.upstream ELSE host.etc
      kept == file \ host.loopback
  IN IF ~host.readable \/ (isolated /\ kept = {}) THEN {"public"}
     ELSE IF isolated THEN kept ELSE file

Modes(opts) == {i \in DOMAIN opts : opts[i] \in {"ro", "rw"}}

FirstMode(opts) == IF Modes(opts) = {} THEN "rw" ELSE opts[Min(Modes(opts))]

\* The mode of a volume: the last of ro and rw, other options passed on.
VolumeMode(opts) == IF Modes(opts) = {} THEN "rw" ELSE opts[Max(Modes(opts))]

\* A volume is mounted if it names two paths, the destination absolute and
\* the source a path that exists or can be created.
ValidVolume(v) == v.parts >= 2 /\ v.dst = "absolute" /\ v.src = "path"

parseVolumes(volumes) ==
  {[src |-> v.name, mode |-> VolumeMode(v.opts)] :
     v \in {w \in ToSet(volumes) : ValidVolume(w) /\ w.creatable}}

\* Entrypoint and arguments: cmd replaces the image's entrypoint and keeps
\* its CMD, args replace its CMD.
ProcessArgs(a) ==
  <<IF a.cmd # "" THEN a.cmd ELSE "imageEntrypoint">>
    \o (IF a.args # <<>> THEN a.args ELSE <<"imageCmd">>)

-----------------------------------------------------------------------------
(* Steps that all runtimes take                                            *)

Fails == rtFaults < MaxRtFaults /\ rtFaults' = rtFaults + 1
Works == UNCHANGED rtFaults

\* Execute returns e after its deferred calls.
ReturnWith(e) == rtPc' = "unwind" /\ rtErr' = e

CtxError == IF rtCtx = "expired" THEN "timeout" ELSE "fail"

Mine(kind) == <<kind, rtRun>>

\* A call of Execute that needs the context works: it acquires the kinds
\* and registers the deferred calls.
Acquire(from, to, kinds, deferred) ==
  /\ rtPc = from /\ rtCtx = "live" /\ Works
  /\ rtPc' = to
  /\ rtHost' = rtHost \cup {Mine(k) : k \in kinds}
  /\ rtDefer' = deferred \o rtDefer
  /\ UNCHANGED <<runVars, rtErr, rtJob, rtLeft>>

\* The call fails, or the context has expired, and nothing was done.
CallError(from) ==
  /\ rtPc = from
  /\ \/ rtCtx = "expired" /\ Works
     \/ rtCtx = "live" /\ Fails
  /\ ReturnWith(CtxError)
  /\ UNCHANGED <<runVars, hostVars, rtDefer>>

\* A call on local files: it does not look at the context.
FileError(from) ==
  /\ rtPc = from /\ Fails
  /\ ReturnWith("fail")
  /\ UNCHANGED <<runVars, hostVars, rtDefer>>

Keep == UNCHANGED <<rtProc, rtSpec>>

-----------------------------------------------------------------------------
(* Run: the tries of an Action                                             *)

\* The next try, with what is left of the timeout; a timeout of zero, for an
\* Action that states none, has passed before the first.
Execute ==
  /\ \/ rtPc = "announced"
     \/ rtPc = "returned" /\ rtErr = "fail" /\ rtTry < rtAct.tries
  /\ rtRun < MaxRuns
  /\ rtRun' = rtRun + 1 /\ rtTry' = rtTry + 1
  /\ rtCtx' = IF rtPc = "returned" THEN rtCtx
              ELSE IF rtAct.timeout THEN "live" ELSE "expired"
  /\ rtPc' = IF rtAct.runtime = "kubernetes" THEN "jobFor" ELSE "image"
  /\ rtErr' = "none" /\ rtSpec' = NoSpec
  /\ UNCHANGED <<rtAct, rtDefer, rtHost, rtProc, rtJob, rtLeft, rtState, rtFaults>>

\* No try is left, or none is needed: the state that is reported.
RunEnds ==
  /\ rtPc = "returned"
  /\ rtErr = "fail" => rtTry = rtAct.tries
  /\ rtPc' = "reporting"
  /\ rtState' = CASE rtErr = "ok" -> "SUCCESS"
                  [] rtErr = "timeout" -> "TIMEOUT"
                  [] OTHER -> "FAILED"
  /\ UNCHANGED <<rtAct, rtTry, rtRun, rtCtx, rtDefer, rtErr, hostVars, rtFaults>>

DeadlinePasses ==
  /\ rtPc \notin {"announced", "reporting", "down"} /\ rtCtx = "live"
  /\ rtCtx' = "expired"
  /\ UNCHANGED <<rtAct, rtPc, rtTry, rtRun, rtDefer, rtErr, hostVars, rtState, rtFaults>>

\* The agent dies: nothing that was deferred runs.
AgentDies ==
  /\ rtPc \notin {"announced", "reporting", "down"} /\ Fails
  /\ rtPc' = "down"
  /\ rtDefer' = <<>>
  /\ rtLeft' = rtLeft \cup rtHost \cup {<<"job", r>> : r \in {rtJob.run} \ {0}}
  /\ UNCHANGED <<runVars, rtErr, rtHost, rtProc, rtJob, rtSpec>>

\* It comes back and is given the Action again.
AgentReturns ==
  /\ rtPc = "down"
  /\ rtPc' = "announced" /\ rtTry' = 0
  /\ UNCHANGED <<rtAct, rtRun, rtCtx, rtDefer, rtErr, hostVars, rtState, rtFaults>>

\* A process ends by itself, or dies of the signal it was sent.
ProcessEnds ==
  /\ \E r \in 1..MaxRuns :
       \/ /\ rtProc[r] = "running"
          /\ \E code \in {"zero", "nonzero"} : rtProc' = [rtProc EXCEPT ![r] = code]
       \/ rtProc[r] = "dying" /\ rtProc' = [rtProc EXCEPT ![r] = "nonzero"]
  /\ UNCHANGED <<runVars, rtPc, rtDefer, rtErr, rtHost, rtJob, rtSpec, rtLeft, rtFaults>>

-----------------------------------------------------------------------------
(* Docker                                                                  *)

Docker == rtAct.runtime = "docker"

\* The pull is tried five times; an image that is there already will do.
dockerPull == Docker /\ Acquire("image", "create", {}, <<>>) /\ Keep

DockerFreshName ==
  Docker /\ Acquire("create", "start", {"container"}, <<"container">>) /\ Keep

\* The name of the container comes from the Action: one left from an
\* earlier call is a conflict.
dockerCreate ==
  /\ Docker
  /\ \A r \in 1..MaxRuns : <<"container", r>> \notin rtHost
  /\ Acquire("create", "start", {"container"}, <<"container">>)
  /\ Keep

dockerConflict ==
  /\ Docker /\ rtPc = "create"
  /\ \E r \in 1..MaxRuns : <<"container", r>> \in rtHost
  /\ ReturnWith("fail")
  /\ UNCHANGED <<runVars, hostVars, rtDefer, rtFaults>>

\* The wait for the exit is asked for before the start.
dockerStart ==
  /\ Docker
  /\ Acquire("start", "attach", {}, <<>>)
  /\ rtProc' = [rtProc EXCEPT ![rtRun] = "running"]
  /\ UNCHANGED rtSpec

dockerAttach == Docker /\ Acquire("attach", "select", {"stream"}, <<"stream">>) /\ Keep

dockerCallError == Docker /\ \E at \in {"image", "create", "start", "attach"} : CallError(at)

\* The exit status, an error of the wait (the expiry of the context too), or
\* the expiry: then the container is stopped, if that works.
dockerSelect ==
  /\ Docker /\ rtPc = "select"
  /\ \/ rtProc[rtRun] = "zero" /\ ReturnWith("ok") /\ Works /\ UNCHANGED rtProc
     \/ rtProc[rtRun] = "nonzero" /\ ReturnWith("fail") /\ Works /\ UNCHANGED rtProc
     \/ rtCtx = "live" /\ Fails /\ ReturnWith("fail") /\ UNCHANGED rtProc
     \/ rtCtx = "expired" /\ Works /\ ReturnWith("timeout") /\ UNCHANGED rtProc
     \/ /\ rtCtx = "expired" /\ rtProc[rtRun] = "running" /\ Works
        /\ rtProc' = [rtProc EXCEPT ![rtRun] = "nonzero"]
        /\ ReturnWith("timeout")
  /\ UNCHANGED <<runVars, rtDefer, rtHost, rtJob, rtSpec, rtLeft>>

-----------------------------------------------------------------------------
(* containerd                                                              *)

Containerd == rtAct.runtime = "containerd"

Isolated == rtAct.network # "host"

containerdPull == Containerd /\ Acquire("image", "dns", {}, <<>>) /\ Keep

\* Files are written whether or not the context has expired.
FileStep(from, to, kinds, deferred) ==
  /\ rtPc = from /\ Works
  /\ rtPc' = to
  /\ rtHost' = rtHost \cup {Mine(k) : k \in kinds}
  /\ rtDefer' = deferred \o rtDefer
  /\ UNCHANGED <<runVars, rtErr, rtJob, rtLeft, rtProc>>

prepareDNSFiles ==
  /\ Containerd /\ FileStep("dns", "store", {"dns"}, <<"dns">>)
  /\ rtSpec' = [rtSpec EXCEPT !.dns = buildResolvConf(rtAct.host, Isolated)]

dataStoreDir == Containerd /\ FileStep("store", "create", {}, <<>>) /\ UNCHANGED rtSpec

\* A new random id: an earlier container is never in the way.
createContainer ==
  /\ Containerd /\ Acquire("create", "logs", {"container"}, <<"container">>)
  /\ rtSpec' = [rtSpec EXCEPT !.mounts = parseVolumes(rtAct.volumes),
                              !.args = ProcessArgs(rtAct)]
  /\ UNCHANGED rtProc

writeLogConfig == Containerd /\ FileStep("logs", "logfile", {"logs"}, <<>>) /\ UNCHANGED rtSpec

newJSONLogPair ==
  Containerd /\ FileStep("logfile", "task", {"logfile"}, <<"logs">>) /\ UNCHANGED rtSpec

NewTask == Containerd /\ Acquire("task", "net", {"task"}, <<"task">>) /\ Keep

\* The log file is closed before the error is returned.
NewTaskError ==
  /\ Containerd /\ rtPc = "task"
  /\ \/ rtCtx = "expired" /\ Works
     \/ rtCtx = "live" /\ Fails
  /\ ReturnWith(CtxError)
  /\ rtHost' = rtHost \ {Mine("logfile")}
  /\ UNCHANGED <<runVars, rtDefer, rtProc, rtJob, rtSpec, rtLeft>>

NetworkNotRemoved ==
  /\ Containerd
  /\ FileStep("net", "wait", IF Isolated /\ rtAct.cni THEN {"net"} ELSE {}, <<>>)
  /\ UNCHANGED rtSpec

\* An isolated network is set up if there is CNI; an error of the set-up is
\* not one of the Action, and what was set up is removed in any case.
SetupNetwork ==
  /\ Containerd
  /\ IF Isolated /\ rtAct.cni THEN FileStep("net", "wait", {"net"}, <<"net">>)
                              ELSE FileStep("net", "wait", {}, <<>>)
  /\ UNCHANGED rtSpec

taskWait == Containerd /\ Acquire("wait", "start", {}, <<>>) /\ Keep

taskStart ==
  /\ Containerd /\ Acquire("start", "select", {}, <<>>)
  /\ rtProc' = [rtProc EXCEPT ![rtRun] = "running"]
  /\ UNCHANGED rtSpec

containerdCallError ==
  /\ Containerd
  /\ \/ \E at \in {"image", "create", "wait", "start"} : CallError(at)
     \/ \E at \in {"dns", "store", "logs", "logfile"} : FileError(at)

\* The exit status, or the expiry.  An expired context also ends the wait
\* for the exit with an error, so that either branch can be taken: in the
\* first the process is not killed, in the second it is not waited for.
containerdSelect ==
  /\ Containerd /\ rtPc = "select"
  /\ \/ rtProc[rtRun] = "zero" /\ ReturnWith("ok") /\ Works /\ UNCHANGED rtProc
     \/ rtProc[rtRun] = "nonzero" /\ ReturnWith("fail") /\ Works /\ UNCHANGED rtProc
     \/ rtCtx = "expired" /\ ReturnWith("timeout") /\ Works /\ UNCHANGED rtProc
     \/ /\ rtCtx = "expired" /\ rtProc[rtRun] = "running" /\ Works
        /\ rtProc' = [rtProc EXCEPT ![rtRun] = "dying"]
        /\ ReturnWith("timeout")
  /\ UNCHANGED <<runVars, rtDefer, rtHost, rtJob, rtSpec, rtLeft>>

-----------------------------------------------------------------------------
(* Kubernetes                                                              *)

Kubernetes == rtAct.runtime = "kubernetes"

\* Host namespaces and volumes are refused.
jobFor ==
  /\ Kubernetes /\ rtPc = "jobFor"
  /\ IF rtAct.network = "" /\ rtAct.pid = "" /\ rtAct.volumes = <<>>
     THEN rtPc' = "create" /\ UNCHANGED rtErr
     ELSE ReturnWith("fail")
  /\ UNCHANGED <<runVars, hostVars, rtDefer, rtFaults>>

createJob ==
  /\ Kubernetes /\ rtPc = "create" /\ rtCtx = "live"
  /\ rtJob.st = "absent"
  /\ rtJob' = [run |-> rtRun, st |-> "active"]
  /\ rtProc' = [rtProc EXCEPT ![rtRun] = "pending"]
  /\ rtDefer' = <<"job">> \o rtDefer
  /\ rtPc' = "list"
  /\ UNCHANGED <<runVars, rtErr, rtHost, rtSpec, rtLeft, rtFaults>>

\* A Job of that name exists: one with the Action's label is adopted.
adoptExistingJob ==
  /\ Kubernetes /\ rtPc = "create" /\ rtCtx = "live"
  /\ rtJob.st # "absent"
  /\ IF rtJob.st = "foreign"
     THEN ReturnWith("fail") /\ UNCHANGED rtDefer
     ELSE /\ rtPc' = "list" /\ UNCHANGED rtErr
          /\ rtDefer' = <<"job">> \o rtDefer
  /\ UNCHANGED <<runVars, hostVars, rtFaults>>

kubernetesCallError ==
  Kubernetes /\ \E at \in {"create", "list"} : CallError(at)

PodOfAction == IF rtJob.run = 0 THEN "none" ELSE rtProc[rtJob.run]

podTerminated == PodOfAction \in {"zero", "nonzero", "podFailed"}

AnyTermination == IF podTerminated THEN "ok" ELSE "fail"

\* Only the exit code of the Action's own container counts.
exitError == IF PodOfAction = "zero" THEN "ok" ELSE "fail"

\* A list that shows no terminated Pod is followed by a watch from there.
waitForPod ==
  /\ Kubernetes /\ rtPc = "list" /\ rtCtx = "live"
  /\ IF podTerminated THEN ReturnWith(exitError)
                      ELSE rtPc' = "watch" /\ UNCHANGED rtErr
  /\ UNCHANGED <<runVars, hostVars, rtDefer, rtFaults>>

\* The Pod terminates, the context expires, or the watch closes and after a
\* pause Pods are listed again.
watchForTerminatedPod ==
  /\ Kubernetes /\ rtPc = "watch"
  /\ \/ podTerminated /\ ReturnWith(exitError) /\ Works
     \/ rtCtx = "expired" /\ ReturnWith("timeout") /\ Works
     \/ Fails /\ rtPc' = "list" /\ UNCHANGED rtErr
  /\ UNCHANGED <<runVars, hostVars, rtDefer>>

\* The cluster: the Pod starts, or fails without having started (the Job's
\* own deadline too); a Job that is being deleted takes its Pod along and
\* then frees its name.
PodStarts ==
  /\ \E r \in 1..MaxRuns : rtProc[r] = "pending" /\ rtJob = [run |-> r, st |-> "active"]
       /\ \E p \in {"running", "podFailed"} : rtProc' = [rtProc EXCEPT ![r] = p]
  /\ UNCHANGED <<runVars, rtPc, rtDefer, rtErr, rtHost, rtJob, rtSpec, rtLeft, rtFaults>>

JobDeadline ==
  /\ rtAct.timeout /\ rtJob.st = "active"
  /\ rtCtx = "expired" \/ rtJob.run # rtRun
  /\ PodOfAction = "running"
  /\ rtProc' = [rtProc EXCEPT ![rtJob.run] = "nonzero"]
  /\ UNCHANGED <<runVars, rtPc, rtDefer, rtErr, rtHost, rtJob, rtSpec, rtLeft, rtFaults>>

JobCollected ==
  /\ rtJob.st = "deleting"
  /\ \/ /\ PodOfAction \in {"pending", "running"}
        /\ rtProc' = [rtProc EXCEPT ![rtJob.run] = "nonzero"]
        /\ UNCHANGED rtJob
     \/ /\ PodOfAction \notin {"pending", "running"}
        /\ rtJob' = NoJobYet /\ UNCHANGED rtProc
  /\ UNCHANGED <<runVars, rtPc, rtDefer, rtErr, rtHost, rtSpec, rtLeft, rtFaults>>

-----------------------------------------------------------------------------
(* Lost answers                                                            *)

\* A create or a start was carried out and its answer does not arrive: the
\* connection breaks or the deadline passes.  What a create made has no deferred
\* call to remove it, and the container or the Job keeps its name.
LostContainer ==
  /\ rtPc = "create" /\ (Docker \/ Containerd)
  /\ Docker => \A r \in 1..MaxRuns : <<"container", r>> \notin rtHost
  /\ rtHost' = rtHost \cup {Mine("container")} /\ rtLeft' = rtLeft \cup {Mine("container")}
  /\ UNCHANGED <<rtProc, rtJob>>

LostJob ==
  /\ Kubernetes /\ rtPc = "create" /\ rtJob.st = "absent"
  /\ rtJob' = [run |-> rtRun, st |-> "active"]
  /\ rtProc' = [rtProc EXCEPT ![rtRun] = "pending"]
  /\ rtLeft' = rtLeft \cup {Mine("job")} /\ UNCHANGED rtHost

LostTask ==
  /\ Containerd /\ rtPc = "task"
  /\ rtHost' = (rtHost \ {Mine("logfile")}) \cup {Mine("task")}
  /\ rtLeft' = rtLeft \cup {Mine("task")}
  /\ UNCHANGED <<rtProc, rtJob>>

LostStart ==
  /\ rtPc = "start" /\ (Docker \/ Containerd)
  /\ rtProc' = [rtProc EXCEPT ![rtRun] = "running"]
  /\ UNCHANGED <<rtHost, rtLeft, rtJob>>

AnswerLost ==
  /\ rtCtx = "live"
  /\ LostContainer \/ LostJob \/ LostTask \/ LostStart
  /\ \/ Fails /\ ReturnWith("fail") /\ UNCHANGED rtCtx
     \/ Works /\ ReturnWith("timeout") /\ rtCtx' = "expired"
  /\ UNCHANGED <<rtAct, rtTry, rtRun, rtState, rtDefer, rtSpec>>

-----------------------------------------------------------------------------
(* The deferred calls                                                      *)

Deferred(what) == rtPc = "unwind" /\ rtDefer # <<>> /\ Head(rtDefer) = what

Popped == rtDefer' = Tail(rtDefer) /\ UNCHANGED <<runVars, rtPc, rtErr, rtSpec>>

\* A clean-up that fails is logged, and what it was for stays.
Release(kinds) ==
  \/ Works /\ rtHost' = rtHost \ {Mine(k) : k \in kinds} /\ UNCHANGED rtLeft
  \/ Fails /\ rtLeft' = rtLeft \cup {Mine(k) : k \in kinds} /\ UNCHANGED rtHost

cleanupScratch ==
  /\ \E what \in {"dns", "net", "stream"} : Deferred(what) /\ Release({what})
  /\ Popped /\ UNCHANGED <<rtProc, rtJob>>

\* docker: removed by force, a process in it is killed.
removeContainer ==
  /\ Docker /\ Deferred("container") /\ Release({"container"})
  /\ rtProc' = IF rtFaults' = rtFaults /\ rtProc[rtRun] = "running"
               THEN [rtProc EXCEPT ![rtRun] = "nonzero"] ELSE rtProc
  /\ Popped /\ UNCHANGED rtJob

\* containerd: a task that still runs cannot be deleted.  The log file is
\* flushed and closed in any case.
deleteTask ==
  /\ Containerd /\ Deferred("task")
  /\ LET rest == rtHost \ {Mine("logfile")}
     IN \/ /\ rtProc[rtRun] \notin {"running", "dying"} /\ Works
           /\ rtHost' = rest \ {Mine("task")} /\ UNCHANGED rtLeft
        \/ /\ IF rtProc[rtRun] \in {"running", "dying"} THEN Works ELSE Fails
           /\ rtHost' = rest
           /\ rtLeft' = rtLeft \cup {Mine("task")}
  /\ Popped /\ UNCHANGED <<rtProc, rtJob>>

\* containerd: container and log directory are kept for a person after a
\* failure.
deleteContainer ==
  /\ Containerd
  /\ \E what \in {"container", "logs"} :
       /\ Deferred(what)
       /\ IF rtErr = "ok" THEN Release({what}) ELSE Works /\ UNCHANGED <<rtHost, rtLeft>>
  /\ Popped /\ UNCHANGED <<rtProc, rtJob>>

\* kubernetes: the delete, which may fail; then the wait until the name is
\* free, which gives up after a while.
deleteJob ==
  /\ Deferred("job")
  /\ \/ /\ Works /\ rtJob.st = "active"
        /\ rtJob' = [rtJob EXCEPT !.st = "deleting"]
        /\ UNCHANGED <<runVars, rtPc, rtErr, rtSpec, rtDefer, rtLeft>>
     \/ /\ Works /\ rtJob.st = "absent"
        /\ Popped /\ UNCHANGED <<rtJob, rtLeft>>
     \/ /\ Fails /\ rtJob.st # "absent"
        /\ rtLeft' = rtLeft \cup {<<"job", rtJob.run>>}
        /\ Popped /\ UNCHANGED rtJob
  /\ UNCHANGED <<rtHost, rtProc>>

ExecuteReturns ==
  /\ rtPc = "unwind" /\ rtDefer = <<>>
  /\ rtPc' = "returned"
  /\ UNCHANGED <<runVars, rtDefer, rtErr, hostVars, rtFaults>>

RtNext ==
  \/ Execute \/ RunEnds \/ DeadlinePasses \/ AgentDies \/ AgentReturns
  \/ ProcessEnds \/ AnswerLost
  \/ dockerPull \/ dockerCreate \/ dockerConflict \/ dockerStart
  \/ dockerAttach \/ dockerCallError \/ dockerSelect
  \/ containerdPull \/ prepareDNSFiles \/ dataStoreDir \/ createContainer
  \/ writeLogConfig \/ newJSONLogPair \/ NewTask \/ NewTaskError
  \/ SetupNetwork \/ taskWait \/ taskStart \/ containerdCallError
  \/ containerdSelect
  \/ jobFor \/ createJob \/ adoptExistingJob \/ kubernetesCallError
  \/ waitForPod \/ watchForTerminatedPod \/ PodStarts \/ JobDeadline
  \/ JobCollected
  \/ cleanupScratch \/ removeContainer \/ deleteTask \/ deleteContainer
  \/ deleteJob \/ ExecuteReturns

RtSpec == RtInit /\ [][RtNext]_rtVars

-----------------------------------------------------------------------------

Kinds == {"dns", "container", "logs", "logfile", "task", "net", "stream", "job"}

RtTypeOK ==
  /\ rtAct \in RtActions
  /\ rtTry \in 0..MaxRuns /\ rtRun \in 0..MaxRuns /\ rtFaults \in 0..MaxRtFaults
  /\ rtCtx \in {"live", "expired"} /\ rtErr \in {"none", "ok", "fail", "timeout"}
  /\ rtDefer \in Seq(Kinds)
  /\ rtHost \subseteq Kinds \X (1..MaxRuns) /\ rtLeft \subseteq Kinds \X (1..MaxRuns)
  /\ rtProc \in [1..MaxRuns -> {"none", "pending", "running", "dying", "zero",
                                "nonzero", "podFailed"}]
  /\ rtJob \in [run : 0..MaxRuns, st : {"absent", "active", "deleting", "foreign"}]
  /\ rtState \in {"none", "SUCCESS", "FAILED", "TIMEOUT"}

KeptForDebugging(what) ==
  Containerd /\ rtErr # "ok" /\ what \in {Mine("container"), Mine("logs")}

RunsOn == rtProc[rtRun] \in {"pending", "running", "dying"}

\* When Execute has returned, by whatever path, nothing of that call is left
\* on the host but what a clean-up that failed or a create whose answer was
\* lost left there and, after a failure under containerd, the container with
\* its logs.  The process, or the Pod, runs on only where such a clean-up
\* failed or such an answer was lost; under containerd, where a task that
\* runs is not deleted, only after a timeout or a failing call, and never
\* when the Action succeeded.
ExecuteReleases ==
  rtPc = "returned" =>
    /\ \A what \in rtHost : what[2] = rtRun =>
         what \in rtLeft \/ KeptForDebugging(what)
    /\ RunsOn /\ ~Containerd => \E kind \in {"container", "job"} : Mine(kind) \in rtLeft
    /\ RunsOn /\ Containerd => rtErr # "ok" /\ (rtErr = "timeout" \/ rtFaults > 0)

\* Over tries, crashes and late deletions two processes of the same Action
\* never run at once under Docker, by the container's name, and under
\* Kubernetes, by the Job's name.  containerd, with its random ids, gives no
\* such guarantee after a crash.
OneInstance ==
  ~Containerd =>
    Cardinality({r \in 1..MaxRuns : rtProc[r] \in {"pending", "running"}}) <= 1

\* SUCCESS is reported only for an Action of which a process exited with
\* zero: the one of the last call, or under Kubernetes that of a Job which
\* an earlier, crashed agent or a create without an answer left behind.
SuccessRan ==
  rtState = "SUCCESS" =>
    \E r \in 1..MaxRuns : rtProc[r] = "zero" /\ (r = rtRun \/ Kubernetes)

\* A container in an isolated network is never sent to a nameserver on a
\* loopback address, and never left without any; a volume asked for
\* read-only is not mounted writable.
ContainerAsAsked ==
  /\ (Containerd /\ Isolated /\ <<"dns", rtRun>> \in rtHost) =>
       rtSpec.dns # {} /\ rtSpec.dns \cap rtAct.host.loopback = {}
  /\ \A m \in rtSpec.mounts : \E v \in ToSet(rtAct.volumes) :
       v.name = m.src /\ (m.mode = "rw" => v.opts = <<>> \/ Last(v.opts) # "ro")

\* What is reported and what runs is the Action that was asked for, once.
RunAsAsked == OneInstance /\ SuccessRan /\ ContainerAsAsked
=============================================================================
