# Tinkerbell in TLA+

A verification project for [Tinkerbell](../src/README.md), a bare metal
provisioning engine: TLA+ modules translated from the source, TLC runs on small
instances and TLAPS proofs for every instance.

## The system

Tinkerbell turns a *Workflow* object (a template of Tasks and Actions, a
Hardware reference and boot options) into a provisioned machine. Its state
lives in Kubernetes objects; every service reads them through an informer cache
that lags behind the API server.

| Part | State | Operations | Talks to |
|---|---|---|---|
| Tink Controller (`tink/controller`) | its work queue and cache | reconcile a Workflow: render, prepare, time out, hand over between Tasks, post actions | API server (cache reads, merge patches), Rufio through `Job` objects |
| Tink Server (`tink/server`) | its cache | gRPC `GetAction`, `ReportActionStatus`; auto discovery and enrollment | agents, API server (cache reads, `Update` with resourceVersion) |
| Tink Agent (`tink/agent`) | the Action it holds | read, announce, execute, report; gRPC, file and NATS transports; docker, containerd and kubernetes runtimes | Tink Server, a container runtime |
| Rufio (`rufio`) | its work queues and cache | reconcile `Job`, `Task`, `Machine`: BMC calls | API server, BMCs |
| Smee (`smee`) | open transfers, a pool of syslog messages | DHCP (reservation, proxy, auto-proxy), iPXE scripts and binaries over HTTP and TFTP, ISO patching, syslog | machines that boot, hardware data of the backend |
| Tootles (`tootles`) | none | EC2 and Hack metadata | machines, backend |
| SecondStar (`secondstar`) | consoles and the sessions that share them | serial-over-LAN by SSH | BMCs |
| Web UI (`ui`) | cookies in browsers | pages over the objects | API server as the user who logged in |
| Backends (`pkg/backend`) | the kube cache, the file's content | reads and writes of Hardware, Workflows, Templates | API server, a YAML file |
| Process (`cmd`, `crd`, `apiserver`, `pkg/http`, `pkg/xff`) | goroutines and their errors, request counters | start, migrate CRDs, serve, shut down; route, redirect, log and count requests | all of the above |

What is hard in it: three parties write the same Workflow status (two with a
resourceVersion, one with merge patches and without), all from caches; agents
lose connections, crash and come back; a final report is repeated until it is
answered; timeouts are measured by a controller that may restart; BMC jobs are
created, adopted, deleted and tracked over several reconciles, each of which may
read a stale cache. Around that core: a booting machine asks five services in
turn, each of which decides on its own from what it reads at that moment;
containers outlive agents; sessions share a console without a lock around the
decision to open it; a process starts and stops a dozen servers.
`PROJECT.json` lists these hazards with the line where each bites and the
properties aimed at it.

What makes each part correct:

- *Execution* (agents, Tink Server, Tink Controller): the Actions of a Workflow
  run in the order of its template, one at a time, on the agent they are
  assigned to; an outcome once recorded stays; POST and SUCCESS mean that every
  Action succeeded; a Workflow comes to an end although calls are lost, agents
  crash and patches fail; a Workflow past its stop time is ended.
- *Boot options*: a Workflow leaves PREPARING, or POST, only when its BMC Job has
  completed and `allowPXE` is as asked; after that the machine is left alone; the
  phase ends.
- *Rufio*: BMC actions are performed in order, a completed Job has performed
  them all and the machine has the power state it asked for; every Job ends.
  A Machine and its Hardware show what the BMC last said.
- *Network boot*: a machine that may boot comes up in the OSIE under its own
  identity, one that may not is kept out by DHCP, TFTP and HTTP (not by the ISO
  handler), and none loads iPXE in a loop.
- *Enrollment*: an agent nobody described gets its Workflow once.
- *Agent*: an Action runs once, as asked, is cleaned up, and is reported as it
  went; its log holds its output.
- *Backends and services*: both backends answer alike and lose no write; a
  request is answered from the Hardware of its sender and counted; users see what is
  theirs; consoles are shared and released; services start on a ready cluster
  and the process waits for them at its end.

## Modules and code

### The core

| Module | Models | State | Actions |
|---|---|---|---|
| `TinkState` | the objects and messages the three parties share (`api/v1alpha1/tinkerbell/workflow.go`, `convert.go`) | `wf` (API server object with resourceVersion), `scache`, `ccache` (informer caches), `call`, `late` (gRPC calls and handlers whose client is gone), `pc`, `job`, `result`, `runs` (agents), `queued`, `patch`, `timer`, `elapsed` (controller), `faults` | |
| `TinkServer` | `tink/server/internal/grpc/grpc.go`, `pkg/backend/kube/workflows.go` | | the cache read of `GetAction` and of `ReportActionStatus`, the refused call, the `Update` that commits or conflicts (and is retried from the cache), cache updates |
| `TinkAgent` | `tink/agent/agent.go`, `transport/grpc/grpc.go` | | read, receive, announce, execute, report, lost call, crash, restart |
| `TinkController` | `tink/controller/internal/workflow/reconciler.go`, `post.go` | | reconcile in RUNNING and in POST, the merge patch that lands later, timers, resync, failed patch, restart |
| `TinkSystem` | the composition | | `Next`; specifications with the fairness of "Fairness" below; all properties; the inductive invariant `IInv` |
| `SequentialWorkflow` | what the three promise together | `outcome[w][k]` | start the next Action, end the running one |
| `BootJobs` | `pre.go`, `post.go`, `job.go`, `hardware.go` of the controller | `status`, `wcache`, `wwatch` (undelivered versions), `wqueued`, `wrec` (the reconcile in progress), `allow`, `job`, `cjob`, `jwatch` | each API call of a reconcile, cache events, failed calls, restart, and Rufio ending the Job |
| `RufioJobs` | `rufio/internal/controller/job.go`, `task.go` | the Job and its Tasks in the API server, in Rufio's cache and under way to it, the two work queues and reconciles, the Machine and Secret they read, the machine's power | reconcile Job, create Task, perform, check, time out, patch; failed calls, restart; the Tink Controller's create and delete |

A reconcile or handler is split where another party can step in: at each call
to the API server, and between reading a cache and writing. In the execution
modules a cache is updated to the newest version at any time after a write; in
`BootJobs` and `RufioJobs`, where an object is deleted and created again under
the same name, it goes through the versions one by one.

`BootJobs` and `RufioJobs` are two sides of one protocol over `Job` objects.
Each has the other as its environment: `BootJobs` lets Rufio complete or fail an
open Job at any time and relies on it ending every Job, which is `JobEnds` of
`RufioJobs`, as long as the Machine and the Secret of the Job are there;
`RufioJobs` lets the Tink Controller delete the Tasks and the Job
and create the next one at any time, which covers what `BootJobs` does.

### From power-on to the Actions

| Module | Models | How |
|---|---|---|
| `SmeeDhcp` | `smee/internal/dhcp` (conversion, `Info`, reservation and proxy handlers), `smee/internal/hardware` | operators: what is answered to a packet, from which Hardware |
| `SmeeFiles` | `smee/internal/ipxe`, URL and kernel parameters of `smee/internal/iso` | operators: the TFTP and HTTP routes in their order, scripts, the ISO source |
| `NetworkBoot` | machines that boot through the two, composed | firmware and iPXE exchange DHCP packets that may be lost, fetch what they were told, follow the script with its retries; Hardware objects change meanwhile |
| `IsoStream` | `iso.go`, the reverse proxy under it, `Recovery` | one transfer: redirects, pieces of any size, patching, the flush timer, failures, the abort |
| `SyslogReceiver` | `smee/internal/syslog` | reader, bounded channel, parsers, pooled message objects with their stale bytes, cancellation |
| `HardwareBackend` | `pkg/backend/file`, hardware part of `pkg/backend/kube`, the annotation of `grpc.go` | the watcher against writers of the file; both backends' lookups compared; two writers of one Hardware |
| `AutoEnrollment` | `enrollment.go`, `discovery.go`, `kube.go`, `hardware.go` of Tink Server | concurrent first calls from lagging caches, failing calls, people who edit objects |
| `AgentRuntime` | the three runtimes | `Execute` call by call with its deferred clean-ups; the deadline, failing calls, creates whose answer is lost and the agent's death at every point |
| `AgentTransport` | `cmd/agent`, configuration in `agent.go`, NATS and file transports | flags and environment, the sender goroutine against the agent's loop |
| `ActionLog` | `containerd/jsonlog.go` | two streams cut anywhere, one encoder that writes nothing after its first failed write |

### What operators use

| Module | Models | How |
|---|---|---|
| `ProcessLife` | `cmd/tinkerbell`, `crd`, `apiserver`, `pkg/http/server`, the `Start` of every service | errgroups as trees of goroutines that start, fail, stop, and the work some leave behind; addresses; CRD migration; signals and panics |
| `HttpServices` | `cmd/tinkerbell/http.go`, `pkg/http`, `pkg/xff`, `tootles` | a request through proxies, mux, middleware and handler; Hardware that changes, and a backend's copy that lags behind |
| `WebUI` | `ui/ui.go`, `ui/internal/http` | a browser with its cookies: login, logout, lists, pages with their buttons as htmx reads them, details, search, permissions; a cluster that changes |
| `SecondStar` | `secondstar`, `pkg/backend/kube/secondstar.go` | sessions that open, join, watch, type into and leave one console, whose deactivation may fail |
| `RufioMachines` | `machine.go`, `inventory.go`, `client.go` of Rufio | one Machine and its Hardware: each call of a reconcile, two caches, time in ticks, a user who asks for a refresh |

The proofs are in modules of their own: `TinkProofs` (about `TinkSystem`),
`BootJobsProofs`, `RufioJobsProofs`, `EnrollProofs` (about `AutoEnrollment`),
`NetworkBootProofs` (about `NetworkBoot`, `SmeeDhcp` and `SmeeFiles`),
`ServiceProofs` (about `SyslogReceiver`, `HardwareBackend`, `IsoStream`,
`HttpServices` and `ProcessLife`), `AgentProofs` (about `AgentTransport` and
`AgentRuntime`) and `OperationsProofs`
(about `RufioMachines`, `SecondStar` and `WebUI`).

`MCTinkSystem`, `MCRufioJobs`, `MCNetworkBoot`, `MCSyslog`, `MCSecondStar`,
`MCProvisioning` and `MCOperations` only hold values of constants and, the last
two, the choice of a part.

What is abstracted: names, images and environment of Actions; log lines, events
and condition messages; times (a deadline has passed or has not, or ticks); IDs,
which are positions in the template; the kind of a BMC action unless it changes
the power; the layout of pages. Where a conversion decides something it is
modelled by what it does: names made of agent ids and the ISO's bytes are
sequences of characters, widths of integers are a constant.

## Runs

| Run | Instance | Shows |
|---|---|---|
| `execution` | two agents, a Workflow with a Task for each, one fault | types, `ActionOrder`, `ExecutesFrontier`, `OneExecutor`, `PostMeansDone`, `ExecutionsAccounted`, `OutcomeKept`, and that the system implements `SequentialWorkflow` |
| `late_handlers` | one agent, two Actions, one fault, handlers that outlive their clients | `HandlerAtomic` |
| `ends_and_stops` | one agent, two Actions, one fault; the services are fair | `EndsIfAgentsRun`: with agents that run and are restarted the Workflow ends. `StopEnforced`: with agents that may stall for good, a stop time that is set ends RUNNING |
| `boot_jobs` | both phases, every kind of boot options, two faults | `LastJobCompleted`, `QuietWhenDone`, `NetbootToggled`, `PhaseEnds` |
| `bmc_jobs` | a power cycle, one trouble (failed call, restart, unresponsive BMC, a Machine or Secret that is missing, or deletion of the Job) | `CompletedPerformed`, `PerformedInOrder`, `PowerAsAsked`, `OneOutcome`, `JobEnds` |
| `provisioning` | the parts between power-on and the Actions | one property per part, below |
| `operations` | the process and what operators use | one property per part, below |

`provisioning` and `operations` put parts that share no variable side by side:
the initial state chooses the part that runs and the others stay as they start.
Each part has properties of its own:

| Property | Says |
|---|---|
| `LoopFree` | since power-on a machine loads at most one iPXE binary of Smee |
| `BootableBoots` | nothing lost and the object left alone, a machine that may netboot ends up nowhere but in the OSIE, in every mode, with every firmware |
| `BootsAsTold` | a machine whose object denied netboot throughout is not let in by DHCP, TFTP or HTTP, and the agent comes up under the id its object gives it; from the ISO any machine with an object boots, under its MAC |
| `IsoServed` | the image has its length, every byte outside a magic string is the source's, the source's body is closed and the timer does not touch a finished response |
| `SyslogDrained` | at shutdown all that was queued is in the log, each datagram under one text |
| `BackendServes` | the file backend follows the file, both backends find the same Hardware, two writers of an object do not undo each other |
| `EnrolledOnce` | discovery's one-time permission is used once and not lost, for agents whose two names can be made |
| `ExecuteReleases` | however `Execute` returns, nothing of it is left on the host but what the code keeps on purpose, a failed clean-up left or a create made whose answer was lost |
| `RunAsAsked` | no two instances of an Action (docker, kubernetes), SUCCESS only after an exit with zero, nameservers and volume modes as asked |
| `BatchAbandoned` | with NATS nothing of a batch runs after its failed Action, and nothing twice |
| `LogFaithful` | file and buffers hold each stream's output in order, every byte once, until a write fails; ever after the file holds a beginning of each |
| `LifeInOrder` | services start only on migrated CRDs; at the end all servers have returned and only work they do not wait for, or waited for too long, is cut off; success only if told to end |
| `HttpServed` | metadata is that of the Hardware which owns the sender's address in the backend's copy, through any trusted proxies; every request is counted; redirects and listings lead somewhere |
| `UiServed` | turning the pages of one list shows all of it once; a user of one namespace is served; a logout lasts; the permissions page is true |
| `ConsoleShared` | when the last session is gone its State is too and the console is released, unless deactivating it failed; who joined sees all output since |
| `MachineShown` | Machine and Hardware show the power and inventory last read |

Six runs look for, and find, a violation of what a comment says:

| Run | Finding |
|---|---|
| `post_keeps_failure` | a POST reconcile from a stale cache overwrites TIMEOUT with SUCCESS (`post.go:50` says it must not) |
| `reserve_after_repeat` | a repeated report of the previous Task moves `currentState` back while the next agent executes: it would not be served its Action again after a restart, and the Workflow ends by its stop time (`grpc.go:321`) |
| `max_execution_time` | the stop time is never set if no reconcile sees the status between the first Action's end and the next `GetAction`; then nothing bounds the execution (`workflow.go:176`) |
| `existing_job` | a boot phase fails with nothing having gone wrong: the Job created by the last reconcile is not in the cache, and creating it again is answered AlreadyExists (`job.go:145`) |
| `all_told` | when the session that opened a console ends, one of the others is told; the rest stay, and it waits for them (`handler.go:22`) |

### Bounds

*Core.* Two agents with one Action each have a handover, the only place where
two agents can act on one Workflow; a second Action in the same Task is in the
single-agent runs. One fault is enough for each kind of fault at each point of
the protocol; `reserve_after_repeat` needs only a lost answer. The theorems
remove the bounds for the safety properties. The liveness run has one agent.
In `boot_jobs` two faults interrupt the create, adopt, delete, create, track
sequence twice. In `bmc_jobs` the two actions are the ones that undo each other,
so that work left over from a deleted Job is not harmless, and the deletion
alone leaves two generations of Tasks.

*Boot.* A PC and a Raspberry Pi, one lost packet or file, one change of an
object during the boot, three DHCP transactions; the configurations and objects
of `MCNetworkBoot` cover the modes, architectures, client types and the objects'
own boot file, script and interface without data. The ISO is read in pieces of
at most three bytes with a magic string of two, so that it falls inside, across
and at the edge of a piece, and parameters are shorter than, as long as and
longer than it. Syslog has a channel of one, two parsers and three objects, so
that the channel fills and an object is used again. Names are cut at six
characters so that ids collide and are cut within the instance; in one
configuration two agents that call have the same name.

*Agent.* Three calls of `Execute` with two faults: a crash, the retry and a
failing clean-up; batches of two, three and one Action with two events that fail.

*Operations.* Two attempts of the embedded servers, one fault and a signal at
any point; two requests (one that follows the first's redirect or listing)
through up to two proxies with an edit of the two Hardware objects (one goes, or
one comes with an address and an instance id they have), shown at once or later;
five objects on pages of two and three; three sessions on one console, numbered as
they come, and two that type with a failing call; two times with an interval that
is over at the second, one user's request and one fault.

### What the models show besides

Transitions of a Workflow that surprise: a late report takes it from TIMEOUT
back to RUNNING, POST or FAILED, the TIMEOUT patch may land on POST or FAILED,
and a repeated last report takes SUCCESS back to POST.

With handlers that outlive their clients (`LateCalls`: a client whose connection
died silently, while the handler still retries for up to a minute) `ActionOrder`,
`ExecutesFrontier`, `OutcomeKept`, `PostMeansDone` and `EndsIfAgentsRun` do not hold: the
agent starts over while its previous report is still being written. Each single
write is still atomic, which is `HandlerAtomic`. A handler that gives up after
its minute is, to the agent, a lost call.

The Job of a boot phase is always created twice, because the first pass has no
entry to clean up and the second deletes what the first made; a customboot
without preparing actions stays in PREPARING for ever (the exception in
`PhaseEnds`); and Rufio itself can fail a sound Job when its cache does not show
the Task it has just created. Rufio patches a Job by name, so that a reconcile
of a deleted Job can mark the new one Completed; `CompletedPerformed` is therefore
about a Job created when Rufio held nothing of an earlier one (`fresh`),
`PowerAsAsked` about Jobs before any deletion, and the Tink Controller's own order of
steps keeps it from deleting a Job whose completion it has acted on
(`QuietWhenDone`).

Three properties are stated in the modules and not among the runs; TLC refutes
each when it is given to it. `CutTransferSeen` (`IsoStream`): a transfer that
breaks is aborted by a panic which `Recovery` catches, so a client of a chunked
response sees a normal end. `NoStaleState` (`SyslogReceiver`): the priority is
parsed from five bytes whatever the size of the datagram, and after a longer
message in the same object a datagram of three bytes is cut out of range.
`RefreshKeepsInterval` (`RufioMachines`): an unchanged inventory does not advance
its time, so that it is collected at every power check once the interval is over.

Exceptions written into properties are behaviours of the code, too. A failed call loses the one-time
permission to enroll, and ids that make the same name share an object (`EnrolledOnce`); an agent
whose name another agent's Workflow had is refused without ever having been enrolled, even when a
person has removed that Workflow since (`NameWasOwn`). The two backends answer alike as long as no
two Hardware objects share a key (`OnePerKey` in `BackendsAgree`). A replaced file loses its watch
and a failed read is not repeated (`FileFollowed`). containerd's random ids let a second instance
run after a crash (`OneInstance`). Two sessions that both find no State both open the console and
the loser's wait dereferences a missing State (`ConsoleReleased` stops at that panic); a failed
deactivation is only logged and leaves the console active until the next session's end deactivates
it (`ssStuck`). An agent id may have a valid name for its Hardware and none for its Workflow, since
the two prefixes have different lengths and a name cut at a hyphen is refused: its permission is
used up without an enrollment; the other way round it is enrolled at every call (`EnrolledOnce`
names both). A Job whose Machine or Secret is missing is retried without end (`JobEnds`). The first
page turned from a loaded list of one namespace is a page of another list, since htmx has read where
the buttons lead before the script adds the namespace (`app.js:452`, `ButtonNamespace`); `UiServed`
is about the pages of one list. A create whose answer is lost leaves its container or Job behind,
and under containerd the task of a timed out Action runs on (`ExecuteReleases`). After an edit the
metadata of an address's previous owner are served until the cache follows (`MetadataOwn`). The
start of SSH and TFTP returns when they no longer listen, DHCP packets are answered in goroutines of
their own, and Tink Server, the HTTP server and the controllers wait for a limited time: such work
can be cut off by the end of the process, as can the servers of a Smee whose `Start` fails half-way
(`EndsInOrder`).

## Fairness

- `ServiceFairness`: informers deliver watch events; workers take keys off their
  queues and their calls return; timers fire; the server runs the handlers it
  accepted. Each is weakly fair. The resync of a cache (ten hours by default) is
  weakly fair too: it is all that looks at a Workflow whose timer died with the
  controller. `FairServices` has this and nothing of agents and clocks.
- `AgentFairness`: an agent keeps stepping, an execution ends at the latest by
  the Action's timeout, and a crashed agent is started again (the agent container
  is restarted, or the machine boots again). It is the premise of
  `EndsIfAgentsRun` and part of `FairSpec`.
- `ClockFairness`: a deadline that was set passes. It is the premise of
  `StopEnforced` and `MaxExecutionTime`.
- `BootJobs`: Rufio completes a Job it does not fail, from `JobEnds`.
- `RufioJobs`: the power follows what the BMC was told, or the ten minute limit
  of a Task passes.
- `SecondStar`, for `all_told`: a session's goroutine that can step does.

Faults are never fair. `CHECK_DEADLOCK FALSE` is set where the system really may
stop: a boot phase that is over, a process that has ended, requests answered.

## Proofs

TLAPS proves the following for every value of the constants that the named
assumptions of the modules allow, so for any number of agents, Workflows, Tasks,
sessions, objects, faults and edits. Every invariant below was checked by TLC on
an instance before it was proved.

| Module | Theorems | Property of a run |
|---|---|---|
| `TinkProofs` | `TypeCorrect`, `HandlersAreAtomic`; `Invariance`, `ActionsInOrder`, `ExecutionAtFrontier`, `MutualExclusion`, `SuccessIsEarned`, `OutcomesAreFinal`, `ImplementsSequential`, `ExecutionsAreAccounted` | `TypeOK`, `HandlerAtomic`, `ActionOrder`, `ExecutesFrontier`, `OneExecutor`, `PostMeansDone`, `OutcomeKept`, `RunsSequentially`, `ExecutionsAccounted` |
| `BootJobsProofs` | `BootInvariance`, `BootTypeCorrect`, `LastJobIsCompleted`, `QuietAfterPhase`, `NetbootIsToggled` | `TypeOK`, `LastJobCompleted`, `QuietWhenDone`, `NetbootToggled` |
| `RufioJobsProofs` | `RufioInvariance`, `RufioTypeCorrect`, `CompletedJobWasPerformed`, `ActionsPerformedInOrder`, `JobHasOneOutcome`, `CompletedJobLeavesPower` | `TypeOK`, `CompletedPerformed`, `PerformedInOrder`, `OneOutcome`, `PowerAsAsked` |
| `EnrollProofs` | `EnrollInvariance`, `EnrollTypeCorrect`, `AgentIsEnrolledOnce` | `EnrolledOnce` |
| `ServiceProofs` | `SyslogInvariance`, `SyslogTypeCorrect`, `SyslogIsDrained`; `BackendInvariance`, `BackendTypeCorrect`, `BackendsServe`; `IsoInvariance`, `IsoTypeCorrect`, `IsoIsServed`; `HttpInvariance`, `HttpTypeCorrect`, `HttpIsServed`; `LifeInvariance`, `ProcessTypeCorrect`, `LivesInOrder` | `SyslogDrained`, `BackendServes`, `IsoServed`, `HttpServed`, `LifeInOrder` |
| `AgentProofs` | `TransportInvariance`, `TransportTypeCorrect`, `BatchIsAbandoned`; `RuntimeInvariance`, `RuntimeTypeCorrect`, `ExecuteReleasesAll`, `AskedInvariance`, `RunsAsAsked` | `BatchAbandoned`, `ExecuteReleases`, `RunAsAsked` |
| `NetworkBootProofs` | `BootInvariance`, `NetworkBootTypeCorrect`, `NoBootLoop`, `BootableMachinesBoot`, `BootIsAsTold` | `LoopFree`, `BootableBoots`, `BootsAsTold` |
| `OperationsProofs` | `MachineInvariance`, `MachineTypeCorrect`, `MachineIsShown`; `ConsoleInvariance`, `SharingInvariance`, `TallyInvariance`, `SecondStarTypeCorrect`, `ConsoleIsShared`; `UiInvariance`, `WebUITypeCorrect`, `UsersAreServed` | `MachineShown`, `ConsoleShared`, `UiServed` |

*Execution.* `TypeCorrect` and `HandlersAreAtomic` hold with late handlers too.
For the second the invariant adds that a cache never holds a newer version than
the API server and that equal versions are equal objects; an `Update` that passes
the resourceVersion check was then computed from the status it replaces. The
theorems from `Invariance` on assume `~LateCalls`, without which they are false.

None of the safety properties is inductive. `ActionOrder` needs to know that the
Action a handler serves is still the next one when its `Update` lands
(`HandlerAtomic`), that the status it started from has the right shape
(`StatusInv`, for the object and for the controller's cache), and that whoever
reports an end holds that Action (`AgentOK`, with `Holds`: the Action is
assigned to the agent, all earlier ones succeeded, and no later one of this
agent has been started). `CacheOK` keeps a pending patch from announcing a
success that is not there. `IInv` is the conjunction. The proof has one lemma
per action; `WriteFacts` and `WriteAgent` say what a write leaves alone, and only
`HandlerCommit` and `mergePatchStatus` write. The refinement to
`SequentialWorkflow` follows from the invariant at the same two actions.
`ExecutionsAccounted` needs `RunsInv` on top: an Action that is open and that no
agent is about to report was executed at most as often as there were faults.

*Boot phases.* A Workflow's entry for its Job goes through four stages (none, the
Job found, that Job deleted, its successor found) and never back. The copy a
reconcile works from is at most one stage behind the stored one (`Ordered`), so
there are at most two Jobs and none is deleted or created again in a later stage
(`JobOK`); what any copy says of the Job and of allowPXE is true (`Truthful`).

*Rufio.* A Job that starts with nothing held of an earlier one has only Tasks of
its own, and a Task is completed only when its action was performed since
(`CompletedPerformed`). What holds whatever is deleted rests on the actions performed alone: a
Task, or any version of one on its way to the cache, exists only if the actions
before it were performed. `PowerAsAsked`, which needs that nothing was deleted,
rests on Tasks that stay ended once they are ended in the cache, so that no
action is performed behind the back of a later one.

*Enrollment.* An agent has one Hardware object at most, a person's or the one
that discovery made (`OneObject`), and a Workflow only after it was enrolled
(`WorkflowsOK`). Each enrollment left a Workflow in a namespace of its own, until
a person removed one; by then the object is in the cache and refuses the agent,
which stays so (`Budget`, `Refused`). That the permission is not lost needs the
converse: while the object refuses an agent that was never enrolled, the call
that made it is still on its way with the permission in hand (`FirstUsed`). The
attempt to prove the property in its earlier form, with `NameIsOwn` for
`NameWasOwn`, failed at the removal of another agent's Workflow; TLC has the
counterexample with two agents of one name. The assumptions: rule sets are
finitely many, the agents of a configuration are agents, nil is no object.

*Services.* Syslog: an object is in the pool, in the reader's hand, once in the channel or with one
parser, and every datagram that was read is logged or held by one of these, but for the one in hand
when the reader stops. Backends: while the watch is on the file, a content not yet stored is in the
events, in hand, or its read failed; a copy with the object's version is the object. ISO: what was
sent and what is not read yet make the image, and what differs lies in a magic string;
`IndexIsMagic` and `MagicOfPiece` carry a match from a piece to the image. HTTP (`HsInv`, about any
sequence of states the backend's copy goes through): a request comes from its client, or from a
trusted proxy with a list in which the client is followed by trusted proxies only (`Traced`), so
`parse` finds the client whatever header it sent itself (`RemoteIsClient`). A request that follows
an offer has a route in the multiplexer of its scheme, and below the metadata its path was asked for
or leads to data (`Routed`); what the answer says of it is `AnswerOf`. That a redirect leads to a
handler needs the table: a rewritten route is served over TLS (`RouteFacts`), and without a conflict
a pattern names one route (`RouteUnique`). The assumptions: a machine's address is not empty and
never a trusted proxy's, paths are sequences, and the addresses of a Hardware are a list. Process
(`LifeInv`): before the launch no service was started, past the migration the CRDs are established
(`Migrated`), a server runs only under its parent, but for Smee's when its `Start` gave up
(`UnderParents`), and a group ends for a reason, the signal or an error it keeps (`EndsForReason`).
From the last it follows that success is reported only when the process was told to end. Work goes
on after its server only where the server does not wait, or has failed (`WorkAccounted`, which needs
that the two web servers start once).

*Agent.* Transport: executed, in hand and queued Actions are ordered by batch and place, and with
NATS a batch with a failure is neither in hand nor, once the sender was told, queued. Runtimes: at
each call of `Execute`, what it holds on the host has a deferred clean-up, was left by one that
failed or by a create whose answer was lost, or is what containerd keeps on purpose (`Covered`), and
so for the process (`ProcCovered`). `RunAsAsked` needs three facts more (`AskedInv`): under Docker a
process runs only in a container on the host, and the fixed name admits one (`NamedOK`); a call that
returns without error has seen an exit with zero, of its own process or, where a Kubernetes Job is
taken over, of an earlier one (`OkRan`); the specification was made of the Action and the host
(`SpecOK`). That the mode of a volume is the last one asked for, and the fallback nameservers are
used only when the host's own are of no use, follows for any list of options. Nameservers and mounts
are sets, since only membership is asked of them; `HostAssumption` says that the public nameservers
are no loopback addresses.

*Network boot.* `BootInv` says of each machine: a request of its running
transaction is what its running program sends, a reply of it tells what that
program may be told (`RequestOK`, `ReplyOK`); what it fetches and loads is what it
was told (`FileOK`), so that our iPXE is told a script, never a binary, and the
loop ends (`ChainOK`). `seen` collects what the objects said since power-on:
each service decides by one of these views, and so does the worker id
(`ScriptOK`). A late answer is dropped by its transaction id, which the proof
needs in every step. For a bootable machine with nothing lost or changed there
is always a packet under way or a file that leads on (`WayOK`); the lemmas on
`SmeeDhcp` and `SmeeFiles` say what each handler answers to such a machine. The
properties name their exceptions. The ISO handler asks for an object and not for
allowPXE, and gives the MAC as the worker's id (`IsoByMac`). The others are of the
operator's making: a boot file or
script of the object's own (`OwnBootFile`), a script URL that names an iPXE
binary (`BinaryAsScript`), a script URL without the machine's address behind a
proxy that hides it (`Identifies`, `AddressesTell`). The assumptions
(`ShapeAssumption`, `FileAssumption`) say that a script URL is configured and
that `Nil` is none of the values in use; `MaxFaults` is at least one.

*Operations.* Machines: the last version on its way to the cache is the stored
one, and a reconcile from an older copy is followed by another (`Current`).
Consoles: a stored State and an active console have a session at a place from
which it will release them, but for a console whose last deactivation failed
(`ConsolesHeld`). That who joined sees everything since
rests on the writers being exactly the sessions that joined and are not gone
(`Roster`), on States that only a session which has stored its own can be found
with (`Standing`), and on a write that fails anywhere ending the copying for all;
then each piece of output reaches both or the claim ends (`Following`). `Tally`
ties the two counters to sets of sessions, which keeps them from going below
zero. `Without`, the removal of a writer, is defined by ranks instead of
`SelectSeq`; `Ranks` shows that ranks number a set without gaps.
Web UI: `UiInv` says what a request in a handler has from its session and which
namespace it took (`ReqOK`), what the page shown was made from (`PageOK`), and
that a walk has seen the first items up to the page shown (`WalkOK`). That the
last page ends the list is arithmetic on the quotient (`Quotient`,
`PagesFollow`, `LastPageEnds`), for any number of items and any page size. The
assumptions: the routes are those of `ui.go` (`RouteAssumption`), objects and
queries have the fields used (`DataAssumption`), no namespace is called `All`
(`NamespaceAssumption`: Kubernetes has them in lower case), a page holds at
least one item.

Only model-checked:

- liveness (`EndsIfAgentsRun`, `StopEnforced`, `PhaseEnds`, `JobEnds`), which is
  out of the prover's reach;
- `LogFaithful`: it says what `FlattenSeq` and `SelectSeq` compute on the records
  of the log, which takes induction over data;
- the type invariants of `provisioning` and `operations` as wholes; those of the
  parts above are theorems.

## Not modelled

- An empty Task in front of another agent's Task: the controller's look-ahead
  (`reconciler.go:512`) and the skip in `GetAction` disagree and the Workflow is
  never handed over. The constants allow such templates; the runs leave them out
  because `EndsIfAgentsRun` fails on them.
- Deletion of Workflows while they run, disabled Workflows, two Workflows of one
  agent, and the rendering of templates (one step, before `Init`).
- The race on `RetryOptions` (`grpc.go:118`), which stores equal values.
- Kubernetes' garbage collector, which could delete left-over Tasks. The code
  does not count on it (`job.go:104`).
- The dashboard of custom resource definitions (`ui/internal/http/crd.go`) and
  the layout of pages; the probing of hardware by the agent (`attribute`);
  declarations of flags; tracing; the API version `v1alpha2`, which no service
  reads; generated code.
- In the copied reverse proxy under the ISO handler, protocol upgrades and
  trailers.

`PROJECT.json` gives the status of every component.

## Plan

Every safety property of the runs but `LogFaithful` is a theorem. Next in the
model: deletion of a Workflow during its execution, added to `TinkSystem`.
