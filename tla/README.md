# Darkpanda in TLA+

Darkpanda is a headless browser written in Zig: a V8 isolate per page owner, a
DOM, an HTTP client, a CDP server and a C ABI, and a pipeline that builds,
tests and releases all of it for four platforms. This directory is its
verification project. It models the parts of the browser whose correctness
depends on the order in which threads, callbacks and shutdowns meet, and the
pipeline, whose correctness depends on what is left where when a job fails, is
lost or is run again. It checks them with TLC on small instances, and proves
the most important of the checked properties with TLAPS for instances of every
size.

The browser is under `src/src/`; a path such as `Server.zig` below is
`src/src/Server.zig`. The pipeline is `src/.github/workflows/prebuilt-binaries.yml`
and the scripts it runs, `src/tools/ci/*.py`, which are named by their file.

- [The system](#the-system): its parts, their state, how they interact
- [What is modelled](#what-is-modelled): modules, and how they follow the code
- [The runs](#the-runs): what each checks, with which bounds
- [Fairness](#fairness)
- [Findings](#findings)
- [The proofs](#the-proofs)
- [What is not modelled](#what-is-not-modelled)
- [The plan](#the-plan)

## The system

### Threads

| Thread | Runs | Ends when |
|---|---|---|
| main | `Network.run`: poll, accept, read every CDP connection; then `Server.deinit` | `Network.stop` was called |
| one per CDP connection | `Server.handleConnection`: a `Browser` with its isolate, `CDP.tick` | its client leaves, its tick fails, or the server stops |
| one per dedicated worker | `DedicatedWorkerRuntime.run`: an isolate of its own | `self.close()`, `Worker.terminate()`, or the end of its page |
| signal | `Sighandler`: waits for SIGINT/SIGTERM and calls its listeners in order | never |
| watchdog | `Watchdog.run`: terminates the script of a stalled connection | the process ends |
| FFI engine | `ffi/Runtime.zig`: executes the commands of foreign callers | the process ends |

An isolate, its DOM, its HTTP client and its scheduler belong to one thread.
Everything another thread wants from it goes through one of four doors: the
`OwnerMailbox` (tasks), the `Inbox` (CDP messages from the Network thread), the
queues of a worker runtime (messages between a worker and its creator), and
`Env.requestTerminate` (interrupt the script).

### Components, state and operations

| Component | State it keeps | Operations | Speaks to |
|---|---|---|---|
| Owner mailbox (`browser/OwnerMailbox.zig`) | a queue of owned payloads, `closed`, `active_posts`; per target a generation and an owner context; two levels of reference counts | post, deliver inline, drain; invalidate, renew, close, destroy | Window and Worker hosts, cookie change notifications, worker drain tokens |
| Dedicated worker runtime (`browser/worker_runtime/`) | inbound and outbound queues, lifecycle, stop flag, activity and quiescent epochs, a foreground wake | enqueue, drain, postMessage, close, terminate, join | its creator's `Worker`, mailbox and `Runner`; `Env` |
| CDP server (`Server.zig`, `Sighandler.zig`) | the list of CDPs, the count of connection threads | accept, handle a connection, shut down, deinit | Network, CDP |
| Network (`network/Network.zig`) | `cdp_links` with their states, the poll snapshot, dirty and accept flags, a wake pipe | register, unregister, drop, poll, stop, drain at shutdown | the server, the inboxes, every HTTP client's multi handle |
| CDP connection (`cdp/Connection.zig`, `Inbox.zig`, `cdp/CDP.zig`) | a frame buffer, a queue of messages, the `terminated` latch | push, pop, cherry-pick, disconnect | Network thread and worker thread |
| HTTP client (`browser/HttpClient.zig`) | transfers and their states, the queue of those that wait for a connection, ready and dirty connections | request, perform, abort, retire an owner, synchronous request | the layers, the inbox, the network's connection pool |
| Layers (`network/layer/`) and cache (`network/cache/`) | deferred contexts, intercepted requests, cache entries | request, flush, continue, fulfil, fail, cancel | wrap a transfer's callbacks |
| Watchdog (`Watchdog.zig`) | entries with a heartbeat and a `fired` flag | register, check, unregister | `Env.requestTerminate` |
| Script managers (`browser/ScriptManager*.zig`) | ready, deferred and imported scripts, `is_evaluating` | add, evaluate, wait for an import | HTTP client, parser |
| Scheduler and timers (`browser/js/Scheduler.zig`, `browser/webapi/Timers.zig`, `browser/js/Env.zig`) | two priority queues per context | add, cancel, run one, stop | every context of the isolate |
| IndexedDB (`browser/webapi/storage/idb/`) | per origin an engine with a transaction gate; per transaction two request queues | open, start, request, commit, abort, detach | SQLite, the scheduler |
| SQLite pool (`storage/sqlite/Pool.zig`) | the free connections | acquire with a timeout, release | IndexedDB, cache |
| Arena pool, slab (`ArenaPool.zig`, `slab.zig`) | free lists per size | acquire, release | all threads |
| Notification and events (`Notification.zig`, `browser/EventManager*.zig`) | listeners per event | register, unregister, dispatch | CDP domains, DOM |
| Session, page, frame, runner (`browser/{Session,Page,Frame,Runner}.zig`) | pages, frames, load states, what a caller waits for | navigate, close, wait | all of the above on one thread |
| Release workflow (`prebuilt-binaries.yml`) | the jobs of a run and their results, the outputs of `prepare`, the artifacts by name, the release of the run | resolve the sources, build, gate, upload, skip, re-run, publish | the scripts below, GitHub |
| Component reports (`aggregate_component_reports.py`) | none | judge the dist of every component on every target | dists uploaded by the component jobs |
| Packager (`package_prebuilt.py`, `runtime_artifact_attestation.py`) | a staging directory, an archive, its checksum, an attestation | inspect, stage, archive, attest | the dists of a target, the installed runtime |
| Final aggregate (`aggregate_darkpanda_reports.py`) | the release directory | judge the result of every platform, write SHA256SUMS | the archives and reports of the platform jobs |
| Wheels (`build_python_wheel.py`, `aggregate_python_wheels.py`) | a wheel and its report | bundle the libraries, build, test; judge, extend the release directory | the runtime archive, the toolchain bundle |
| FFI runtime (`ffi/`) | handle slots with generations, references, a command queue, cancel epochs | create, dispatch, cancel, destroy | foreign threads, one engine thread |

### What is hard

The code is careful, and its comments say where: callbacks that destroy what
called them (a payload that closes its own mailbox, a done callback that aborts
a transfer, a listener that unregisters), lists that are walked while
re-entrant code edits them, snapshots taken under a lock and used after it,
flags that say "idle" while another thread is about to add work, and a shutdown
that must reach a thread wherever it happens to be. In the pipeline: two scripts
that judge the same thing from different evidence and may disagree, artifacts of
an earlier attempt that nothing has replaced, conditions that look at some of
the results only, and a process that ends between two files that belong
together. The list, with lines and with the properties that cover each item, is
under `hazards` in `PROJECT.json`; what the components of the plan add to it is
in [The plan](#the-plan).

What makes each component correct:

- *Owner mailbox*: every payload is destroyed exactly once; none runs in a
  context other than the one it was posted for; a lifecycle call that has
  returned leaves no producer behind; nobody frees a core that is still in use;
  no wake-up is lost; no call waits for ever.
- *CDP server*: neither the Network thread nor a shutdown follows a CDP that was
  freed; the Server outlives its threads; a shutdown reaches every connection;
  a dead client ends its worker; the process can stop.
- *Dedicated worker*: an accepted command is received, an envelope is taken, a
  post is drained; a worker counted as idle is idle, and an idle worker is
  counted as idle in the end; terminate always ends with the thread joined.
- *Inbox and synchronous wait*: only commands are overtaken; no command runs
  under a script; a disconnect is seen once and for ever; a blocking fetch ends
  when a teardown waits behind it, and leaves nothing that points to its stack.
- *Transfers and layers*: each request ends with exactly one of done, error or
  shutdown; no callback after an abort; a connection is never in two places; a
  queued request is started when a connection frees up.
- *Watchdog*: one termination per stall, none for a worker that waits.
- *IndexedDB*: one writer per scope, requests in order, one final event.
- *Pools*: nothing is handed out twice, capacity is conserved.
- *FFI runtime*: a stale handle never reaches a new object; a cancel hits the
  operation it was meant for; destroy waits for every caller.
- *Job graph*: a job runs only under its condition, and its result never stands
  on one that is run again; every attempt ends.
- *Gates, packager, aggregates*: nothing untested is published; what is
  published runs where nothing was built; the scripts agree with one another, so
  that an attempt in which nothing goes wrong publishes.
- *Release*: archives, wheels and checksums belong together, also when assets
  of an earlier attempt are replaced one by one; assets change only when
  everything has passed.

## What is modelled

### `TaskDelivery`: what the mailbox promises

Tasks are offered, accepted in one global order, started in that order on one
thread, cancelled once they are revoked, and ended once. It has no producers'
sections, no generations, no reference counts and no batches.

### `OwnerMailbox`: `browser/OwnerMailbox.zig`

| Variable | In the code |
|---|---|
| `mailbox` | the `Mailbox` handle; `MailboxCore.closed`, `active_posts`, `queue` |
| `target[t]` | the `Target` handle; `TargetCore.closed`, `active_posts`, `generation`, `owner_context` |
| `mailboxRefs`, `targetRefs` | `refs` of both kinds of core; at 0 the core is freed |
| `thread[th]` | which `Sender` the thread holds and where it is in `postOwned` |
| `owner` | the lifecycle call in progress, the drain and its batch, the inline deliveries on the stack |
| `payload[p]` | the Sender it was posted with; as history, where it ran and how often it was destroyed |
| `host` | the wake edge (`Wake.notify`), and whether the host has seen it |

One action is one critical section. `postOwned` is five to six steps
(`PostEnterTarget`, `PostEnterMailbox`, `PostAppend` or `PostGiveUp`,
`PostNotify`, `PostLeaveMailbox`, `PostLeaveTarget`), so a close, a renew and
other posts fall between any two of them. The wait loops on `posts_done` are
modelled as the code has them: look, sleep, be woken by the last producer out,
look again. A callback of a payload may call everything the owner thread may:
`OwnerInCode` is true while one is on the stack. A node is its payload. A
second `close` of a closed target, which does nothing, is a stutter.

The producers may use a `Sender` concurrently only through their own
reference, as the code demands of its callers.

### `CdpServer`: `Server.zig`, `network/Network.zig`, `Sighandler.zig`, `main.zig`

Three kinds of threads: `main.pc` walks through `Network.run` and then
`Server.deinit`; `worker[w].pc` through `handleConnection`; `signal.pc` through
the listeners of one signal. `link[w]` is `CdpLink.state`; `network` holds
`cdp_links`, the poll snapshot, `cdp_dirty`, the wake pipe and the two flags of
the listener; `server` holds `cdps` and `active_threads`. The memory of a CDP
exists while its worker is at one of the places of `HasMemory`, which is how a
dangling pointer becomes visible.

What goes over a connection is left out, except that it ends: `ClientLeaves`
ends the socket, and `ProcessCdpEvents` chooses which readable links it drops
with notification (EOF, error, malformed frame) and which quietly (a close
frame, whose `.close` message is already in the inbox). A readable link that
neither ends nor is dropped had data. A script of the page may run for ever
(`EnterScript`, `ScriptEnds`) unless it is interrupted. `terminating` is the
sticky flag of `requestTerminate`, `interrupt` the one-shot interrupt that it
and the `Env.terminate` of `Server.shutdown` post, until a script takes it
(`ScriptInterrupted`).

Abstractions: a wake-up written right after an unlock belongs to the critical
section; freed memory is not reused; a failed `cdps.append` and a failed thread
spawn do not occur; the platform is one with a wake pipe and signals; the third
signal, which exits at once, and the deadline alarm are out; the Watchdog is
off, as `--watchdog-ms 0` makes it, since it would hide a connection whose
script is never interrupted.

`CDP.tick` looks at the flag at its head and when it is done (`TickFails`). What
`onMessage` asks within the tick, whether V8 is terminating, is no longer so
once a script has unwound, so scripts may still start, and the interrupt that
would have ended them is spent: see finding 5, which `CdpInbox` shows in detail.
`DeadConnectionEnds` therefore has the premise `LaterScriptsEnd`: a script that
starts after the interrupt was taken ends in the end. The script that was
running when the client left need not end by itself.

One assumption is about the system below. `EndAccept` leaves the accept loop;
`acceptConnections` retries an error of `accept` that it has no case for
(`Network.zig:636-639`, an exhausted file descriptor table among them) without
bound and without looking at `shutdown`, so the model assumes that no such error
lasts for ever. `NetworkStops` and `UnregisterReturns` depend on it, and with
them `DeadConnectionEnds`.

### `CdpInbox`: `Inbox.zig`, `cdp/Connection.zig`, `HttpClient.tick`, `drainInbox`, `syncRequest`

One connection: the Network thread, which pushes messages, and the worker, which
takes them in a nest of calls. The worker's state is its call stack, `stack`: a
tick performs transfers (whose callbacks run scripts), then drains the inbox
(whose commands run scripts); a script waits for a request, and a wait ticks. A
frame of a tick keeps its mode, `all` at the bottom and `sync` in a wait, which
is `DrainMode`. `transfer[r]` says where a request is, as far as a wait for it
can tell: `parked` ones need an answer of the client. `Fetches` are waited for
by `syncRequest`, `Imports` by `waitForImport` and `waitForPreload`, which do
not look for a teardown in the inbox. `env` is what a terminate leaves behind:
the sticky flag, an interrupt V8 has yet to run, and whether V8 is terminating.
`handled` is the history of what was dispatched.

`ReceiveFrame` and `ReceiveEnd` are one frame of `processMessages`; `DropLink`
and `PushDisconnect` are the two halves of `dropCdp`, between which the worker
may run. `ObserveEnd` is the branch of `drainInbox` with the return through the
tick into its caller. The rest of the worker's actions are one call, return or
round of a loop each.

Abstractions: what a command does, other than running a script; one callback per
tick; the end of a tick for lack of memory; which of the two ways of failing a
wait takes when a tick fails or the next one would. The Watchdog and the heap
limit may ask for a terminate whenever a script runs.

### `DedicatedWorker`: `DedicatedWorkerRuntime.zig`, `ForegroundWake.zig`, `webapi/Worker.zig`

From the end of the bootstrap to the join: the owner thread's loop (`owner.pc`
follows `ownerLoop` and then `ownerShutdown`), the creator thread, and other
threads that post to the worker's mailbox, which appears here as a queue with
the promises `OwnerMailbox` is shown to keep (`Teardown` waits for posts under
way: that is `NoWakeAfterMailboxClose`).

Commands and envelopes are counted. The activity epochs only matter by
equality, so `activity_epoch`, `quiescent_epoch` and the owner's
`observed_epoch` are replaced by two Booleans: has nothing happened since the
value was read, or stored. `publishQuiescentIfStable` is one step per read.
The wake is a coalesced bit, taken by either pump. A script may send envelopes,
start timers and requests, close the worker, end, fail, or run on. `terminate` is what
`Env.requestTerminate` leaves: the flag, and one interrupt, which one script
takes; the next listener of the same dispatch, or a callback of the
`client.tick` that follows the tasks, is not interrupted by it. The
dispatch of an envelope runs the creator's own script, which may send
commands and terminate the worker.

Between the failure of a callback (`"failed"`) and the defer of `ownerLoop` the
lifecycle is still running: a command sent then is accepted, and nobody will
take it (229-232 speak of a closed producer boundary, which is closed only
there). `Enqueue` is possible in that window, and `CommandsReceived` says what
the creator can rely on: the command is received, or the worker is stopped, or
the report of the failure, which follows it, is handed to the creator.

### The release pipeline

Two layers: what a job computes, as operators without state, and the run of the
workflow, as a state machine that applies them to the artifacts it finds.

| Module | Models |
|---|---|
| `BuildMatrix` | the two axes of the job matrix, as constants |
| `ArtifactFiles` | directories as functions from paths to contents, digests, SHA256SUMS and the check of one against the other that all scripts repeat |
| `ComponentReports` | a dist, the native gate over all of them (`NativeGate`) and what the packager asks of those of one target (`VerifiedComponent`), which is less |
| `DependencyContract` | what a binary may load on Linux, Windows and macOS: what the packager accepts of an image, the record it writes, and what the aggregate accepts of a record |
| `RuntimePackage` | the packager (`Package`, with a process that may end between its files), the attestation, the platform report the workflow writes (`PlatformResult`), and the final aggregate (`PlatformValid`, `NativeRelease`) |
| `PythonWheel` | the wheel build with its steps (`WheelResult`), and the wheels' half of the aggregate (`WheelValid`, `PythonRelease`) |
| `JobGraph` | the jobs, their `needs` and conditions, attempts and re-runs, with nothing of what a job does but whether it succeeds: the abstract specification |
| `ReleasePipeline` | the run itself: one action per job, `Skipped`, `RunnerLost`, the three ways to run jobs again; implements `JobGraph` |

| Variable of `ReleasePipeline` | In the workflow |
|---|---|
| `attempt`, `job` | `GITHUB_RUN_ATTEMPT`; the result of each job, matrix legs apart |
| `outputs` | the outputs of `prepare`, which later jobs read as `needs.prepare.outputs` |
| `artifacts` | what `upload-artifact` has stored in the run |
| `heads` | how far the main of each source repository had moved when it was last read |
| `release`, `uploads` | the assets of the release of the run; those that a `gh release upload --clobber` has still to replace |
| `faults`, `clean` | bookkeeping of what has gone wrong, for the bound and for `CleanAttemptPublishes` |

A job is one step, as its files become visible to others when they are uploaded;
where it can end half way, the step has an outcome for each half. The release is
several: assets that are there already are replaced one after the other, and the
runner may be lost in between. `gh release create` with all its assets is one
step. A fault is a dist with one defect, a step that fails, a binary that links
a library which happens to be on the machine of the build, a process that ends
before its time, or a lost runner.

Behaviour of GitHub that the repository relies on is external: the last upload
of a name wins and artifacts outlive an attempt; a job without a condition of
its own runs if no job of its dependency chain failed or was skipped; a re-run
of one job or of the failed ones takes all their dependents with it. The build
of a component (`tools/build.py` in the repositories of the components) is
external too: `Dist` is a dist as the gate's checks expect it.

Data is abstract: a binary is its name, the attempt that built it, the version
of its ABI and its image; an image is the sets of names in its tables; a digest
is as good as its content. Suite and library names are members of small sets.
JSON that does not parse, schema versions of single files, sizes, modes, times,
paths of tools and the summaries in Markdown are left out. The check that a
package's SHA256SUMS does not list itself before it exists
(`package_prebuilt.py:571`) cannot fail and is not modelled. "At least 17
assets" is `2 * |Targets| + 1` here, each file standing for itself and its
`.sha256`.

### MC modules

`MCOwnerMailbox` adds the symmetry sets of the safety run, `MCReleasePipeline`
values that a `.cfg` cannot write, the others nothing. Everything else a run
needs is in its `.cfg`.

## The runs

All bounds are constants: `MaxGeneration` and `MaxInline` (mailbox),
`MaxSignals` (server), `MaxCommands`, `MaxEnvelopes`, `MaxPosts` (worker),
`MaxAttempts`, `MaxFaults`, `MaxRevision`, `Moving`, `Variants` and `Faults`
(release); the sets of producers, targets, payloads, connections, posters,
components and platforms are the rest. Generations and attempts count from 1.
Each payload is posted at most once and each connection is accepted at most
once. Deadlock is not checked: every one of these systems may come to rest,
with all payloads ended, the Server freed, the worker joined, or the last
attempt over; that they do not come to rest too early is what the liveness
properties are for. Symmetry is used in `mailbox_safety` only, which
checks no liveness.

| Run | Instance | Distinct states | Question |
|---|---|---|---|
| `mailbox_safety` | 2 producers and the owner, 1 target, 2 payloads, 2 contexts, 2 generations, 1 inline delivery | 241,344 | Is every payload destroyed once, never run in a stale context, and is every section empty when a lifecycle call returns? Are the reference counts exact, whoever releases last? Does the mailbox implement `TaskDelivery`? |
| `mailbox_liveness` | 2 producers, 1 target, 2 payloads, 2 generations, no inline delivery | 345,580 | Does every payload end and every lifecycle call return? |
| `cdp_server_safety` | 2 connections, limit 1, 2 signals | 603,443 | Is memory followed only while it exists, does the snapshot have room, does a shutdown reach every worker and the Network loop? |
| `cdp_server_liveness` | 2 connections at once, no signal | 249,523 | Does a dead connection end if only the script that was running would not, does unregister return? |
| `cdp_inbox` | 1 blocking request, 1 module, 2 messages and the end | 290,225 | Does a drain within a wait keep order, free nothing under a script, leave nothing behind that points to its stack? Do a teardown, an answer and the end of the connection get through? |
| `worker` | 1 poster, 2 commands, 1 envelope, 1 post | 294,172 | Does a late terminate stay out of the teardown, is a quiescent worker dormant? Is everything received in the end, or its failure reported, does a dormant worker become quiescent, does a termination join? |
| `release_pipeline` | 2 components, 2 platforms, 2 attempts, 1 fault of any kind, the binding's main moves once | 29,688 | Is what is published tested, self-contained, from one build and in agreement with its checksums? Does an attempt in which nothing goes wrong publish, does every attempt end? Does the run implement `JobGraph`? |

Why these bounds are enough to meet the interesting cases: two producers are
needed for one to be inside a section while another is last out, and two
payloads for an order between them; two
generations for a node of each in one batch; one target for the mailbox core to
be released last by it, by a Sender or by the mailbox. A limit of one
connection with two connections makes
the second wait for, or be refused because of, the first, at the moment the
first leaves the list, the count and the snapshot; two signals let the second
handler run after the first has stopped everything. Two requests, one of each kind, let a wait
nest in a callback of the other's tick; with two messages and the end, one of
each class can be behind one of another. One poster is between its append and
its note while the creator and the owner act; two commands put one behind
another when a stop arrives. The safety of the inbox and the worker is proved for
any number of each. In the release, two components are
needed for a manifest to differ between them and are chosen so that one is a
library of its own and the other (BoringSSL) an archive that is linked in; the
two platforms are the one with an import table judged name by name and the one
whose packager leaves names to the aggregate. Two attempts with a re-run of
every, the failed or any one job put artifacts of two attempts beside each
other; a fault in either is what makes one stale, and one at a time keeps its
cause apart from others. Revisions move for the binding, whose version is part
of a file name (in `release_resolution` for a component). Where one thing of a kind cannot influence
another (a third connection, a third producer), more of them add nothing but
states.

The type invariants `TypeOK` are not among the invariants of the runs: each is
proved for every instance.

Each property of a passing run has been seen to fail when the definition it
guards is replaced by a plausible mistake: these are the definitions under a
`Mistake:` comment in the modules, listed under `mutants` in `PROJECT.json`.

Five further runs (`cdp_server_deinit`, `cdp_server_signal`,
`cdp_inbox_kill`, `worker_close_terminate`, `release_resolution`) are expected to find a
violation; they are the findings below.

## Fairness

Fairness is only on what the code, the operating system or V8 is bound to do,
and weak but for one action, the end of a tick:

- *mailbox*: a post that began goes on (it holds no lock between steps),
  lifecycle calls and drain loops go on, a callback returns, a host whose wake
  edge is set drains. Nobody is forced to post, release or close.
- *server*: threads are scheduled; `poll` returns when a byte or an EOF is
  there; a handshake ends (it polls for 5 s and reads a bounded request);
  V8 unwinds the script that takes an interrupt, and no other. A tick that comes
  out of script again and again ends (strong fairness): its wait lasts at most a
  second, its tasks half of one, and what it drains is what is in the inbox. No
  client, no script and no signal is forced to do anything. `NetworkStops` is
  checked with the fairness of the main and the signal thread alone
  (`LoopFairness`): it needs nothing of the workers.
- *inbox*: both threads are scheduled, V8 runs an interrupt while a script
  runs and unwinds a script it terminates. No client sends anything, no server
  answers, no transfer progresses. That scripts end by themselves is a premise
  of the three properties; `TeardownTaken` also has the premise `ImportsEnd`,
  since nothing interrupts the wait for a module.
- *worker*: threads are scheduled; a posted wake ends the blocking pump (the
  pump may also return at other times, for V8's own tasks); the creator runs
  the tasks of its mailbox; V8 unwinds the script that takes the interrupt. That
  scripts end by themselves is not assumed of the system: it is the premise
  `ScriptsEnd` of the three properties that need it. `TerminateJoins` needs it
  only of the scripts that start after the interrupt was taken
  (`LaterScriptsEnd`).
- *release*: the service runs every job that is due until it ends, which
  includes that a lost runner is noticed. It is stated on the graph,
  `WF_job(\E j \in Jobs : Serves(j))`; a step of the graph is possible exactly
  when one of `JobProceeds` is. Nobody is forced to run anything again.

## Findings

Five places where the code does something its own comments or documents rule
out. Each has a run whose counterexample shows the steps.

1. *A link registered too late* (`cdp_server_deinit`, `Server.zig:262`). A worker
   that calls `registerCdp` after `Network.run` has returned sees the stop, as
   the comment says it will, and then waits in `unregisterCdp` for a thread that
   no longer polls; `Server.deinit` waits for the worker.
2. *The signal thread outlives the Server* (`cdp_server_signal`, `main.zig:104`).
   The signal thread calls `Network.stop` and then `Server.shutdown`; in
   between the main thread may destroy the Server.
3. *close() and then a loop* (`worker_close_terminate`,
   `DedicatedWorkerRuntime.zig:591`). After `self.close()` the stop flag is set,
   so `requestStop` returns before it terminates the script, and the join waits
   for a script that need not end.
4. *Two revisions of a component in one release* (`release_resolution`,
   `prebuilt-binaries.yml:2766`). `BUILD-ACTIONS-PLAN.md:10` has the newest
   commits of the four components resolved when a run starts, never to drift
   within it. But running all jobs again runs `prepare` again, and the release
   is named after the run and its assets are replaced one by one. When a
   component has moved and the runner is lost between two uploads, the release
   of the run holds archives built from two revisions of the component.
5. *A killed worker dispatches* (`cdp_inbox_kill`, `CDP.zig:184`). `onMessage`
   asks whether V8 is terminating, not whether a terminate is pending. Once the
   killed script has unwound, the drain of the same tick dispatches the next
   command, whose script this terminate no longer interrupts; the Watchdog, if
   it is on, does so after its timeout.

Some observations next to them. `shutdownCdpLinks` (`network/Network.zig:536`)
drops only links that are `.live`: one whose worker asked to unregister after
the loop's last `processCdpEvents` is left behind with its worker waiting, a
second way to the first finding, which `DeinitReturns` sets apart by its
premise. And the activity of a post to a worker's mailbox is noted after the
mailbox mutex is released (`DedicatedWorkerRuntime.zig:490`), not under it as
the comment at line 126 has it: the worker does wake up, but a sample taken in
between calls it idle. `QuiescentIsDormant` states what does hold.

A close frame drops the link without interrupting the worker, so a script that
does not end keeps the connection until the Watchdog's timeout.
`DeadConnectionEnds` therefore speaks of links that are still live when the
socket ends. And when a wait inside a script observes the close of the
connection, the script unwinds into the outer tick, which has read the latch
already and drains (`HttpClient.zig:2055`): commands queued before the close are
dispatched after it was answered, where `CDP.zig:207` has the worker tear down
immediately.

Of the pipeline: the complete set is uploaded before the last step of the
aggregate tests the results of the other jobs, and a wheel's report says nothing
of the runtime archive it was made from. So when a wheel job is lost in a
re-run, `darkpanda-prebuilt-all` may hold an earlier attempt's wheel beside new
archives. It is never published, since the gate fails and the release needs it:
`ReleasedTogether` speaks of the release, `PrebuiltIsOneResolution` says what
holds of the uploaded set. And on macOS the packager accepts a library that is
neither in the package nor the system's, unless it lies in one of the runner's
own directories; only the aggregate refuses it. The binding is not one of the
four components of finding 4, but it is resolved again with them: when its
version has moved, the wheels of the earlier attempt stay beside the new ones
in the release of the run, and no SHA256SUMS lists them.

## The proofs

| Theorem | Of | States, for every value of the constants |
|---|---|---|
| `TypeCorrect`, `ActivePostsCorrect`, `TargetQuiesced`, `MailboxQuiesced`, `ContextsNeverStale` | `OwnerMailboxProofs` | `TypeOK`, `ActivePostsExact`, `TargetQuiescedAfterWait`, `NoWakeAfterMailboxClose`, `NeverAStaleContext` |
| `PayloadHasOneOwner`, `ReferencesExact`, `LastReleasesClean` | `MailboxDeliveryProofs` | `OneOwnerUntilDestroyed`, `RefsExact`, `LastReleaseAsserts` |
| `MailboxImplementsTaskDelivery` | `MailboxDeliveryProofs` | `ImplementsTaskDelivery`: every step is one of `TaskDelivery` or leaves it alone |
| `ServerTypeOK`, `NetworkFollowsMemory`, `ServerIsLast`, `SnapshotHasRoom`, `ShutdownReachesWorkers` | `CdpServerProofs` | `TypeOK`, `LinksInMemory`, `ServerOutlivesItsThreads`, `PollSnapshotFits`, `NoWorkerMissesShutdown` |
| `InboxTypeOK`, `ContextsOnTheStack`, `CommandsFreeNothing`, `CommandsAloneAreOvertaken` | `CdpInboxProofs` | `TypeOK`, `NoDanglingContext`, `NothingFreedUnderAScript`, `OnlyCommandsAreOvertaken` |
| `WorkerTypeOK`, `TeardownIsUndisturbed`, `QuiescentDormant` | `DedicatedWorkerProofs` | `TypeOK`, `TeardownUndisturbed`, `QuiescentIsDormant` |
| `GraphKeepsConditions` | `ReleasePipelineProofs` | in the graph alone, every result stands on the results its condition looks at |
| `PipelineTypeOK` | `ReleasePipelineProofs` | `TypeOK` |
| `PipelineImplementsJobGraph` | `ReleasePipelineProofs` | `ImplementsJobGraph`: every step is one of the graph or leaves it alone |
| `PipelineRanUnderCondition`, `PipelinePublishesOnlyWhatPassed` | `ReleasePipelineProofs` | `RanUnderCondition`, `PublishesOnlyWhatPassed` |
| `JudgesAgree`, `GateImpliesPackager` | `PackagingProofs` | what the packager accepts and records, the aggregate accepts (on macOS, given the names of the libraries); what passes the native gate, the packager accepts |
| `ReleasedIsTested`, `ReleasedIsPortable` | `ReleasedArchiveProofs` | `NothingUntested`, `ReleasedIsSelfContained` |
| `PrebuiltOfOneResolution`, `PublishedVerifies`, `PublishedTogether` | `ReleasedArchiveProofs` | `PrebuiltIsOneResolution`, `ReleaseVerifies`, `ReleasedTogether` |
| `CleanAttemptsPublish` | `ReleasedArchiveProofs` | `CleanAttemptPublishes` |

The assumptions are those the modules declare, and TLC evaluates them in the
runs. `MailboxAssumption`: the producers are finitely many, the owner is not one
of them, `None` is none of the other values, the bounds are natural numbers.
`ServerAssumption`: the connections that may come are finitely many, the limit is
positive, at most two signals are counted. `InboxAssumption`: a request is not
waited for in both ways, and the bound is a natural number. `DedicatedWorkerProofs` needs no
assumption.
`MatrixAssumption`: components and targets are among those of the workflow.
`AncestorsAssumption`: the listed chain of jobs is the transitive closure of
`needs`. `PipelineAssumption`: the bounds are natural numbers, the kinds of
fault finitely many. `CleanAssumption`, which only `CleanAttemptsPublish` uses:
the matrix is not empty, and the scripts allow what a build in which nothing is
wrong links. That is so by their tables: `libc` is among the system libraries of
Linux and `$ORIGIN` among the paths; `kernel32` is a Windows library by its name
and no part of the package; `libSystem` lies under the system's directories on
macOS; and neither these nor the names of the components are among the names the
scripts refuse.

### The mailbox

The invariant `IInv` is the conjunction of the four safety properties with
`TypeOK` and

- `WellFormed`: what the places of the threads say about the records (a thread
  inside a section holds a Sender, a payload is held between entering and
  appending only, the owner is in one lifecycle call with a target of its own,
  an open target has a context, what is queued or in a batch was posted);
- `SendersFresh`: of every Sender a thread holds, and of the one every payload
  was posted with: it is from no later generation than its target's; it is not
  current while a lifecycle call on its target is in progress; and as long as
  it is current, its context is the target's;
- `RanInItsContext`: the history variable behind `NeverAStaleContext`.

`SendersFresh` carries the argument for `NeverAStaleContext`: renew advances
the generation first and installs the context only when it returns, so between
the two no Sender can be current and acquired under the context to come; and
drain compares the generation at the moment it invokes. The exact counts carry
the argument for the two quiescence properties: a wait ends when the counter is
zero, and the counter is the cardinality of the set of producers inside.
`InvariantInit`, `InvariantStep` and `Invariance` are the three facts; there is
one lemma per action and conjunct that the action can disturb, and the
arithmetic of the counters is in lemmas of its own.

`MailboxDeliveryProofs` is about where the payloads are. What a step does to
the places a payload can be in, the hands of a producer, the queue, what a
closing mailbox has taken from it, the batch and the inline calls, is one of
eleven flows: nothing moves, or only handles of cores do; a payload is offered,
refused, given up, appended, dropped, started from the batch or returns from
there, is started inline or returns from there. One lemma for each action says
which flow it is, and everything else is shown once per flow. `DInv`, on top of `IInv`, says
that a payload is in one place and once in it (`PlacedOnce`), that what a thread
or a call holds is its own (`HeldAreTheirs`, `CallsWellFormed`), and that the
counts are exact (`RefsExact`), where the holders of a core are finite sets (`HoldersFinite`) that gain or lose
one member at a time. `OneOwnerUntilDestroyed` is the first of these;
`LastReleaseAsserts` follows from the counts: a core without references has no
payload left that could be queued and no Sender through which a producer could
be inside. For the refinement each flow is one action of `TaskDelivery` or a
stutter. The abstract queue is `Chain`, the places one behind another, what is in the
batch before what is queued: a drain that takes the whole queue as its batch
changes nothing there, and what is dropped because its target or the mailbox was
closed is taken out from wherever it stands.

### The server

The invariant of `CdpServerProofs` adds three parts to the types and
`NoWorkerMissesShutdown`:

- `LinksHeld`: the links of the Network are those of registered workers, none of
  them removed, and the link of a worker that is not registered is live;
- `SnapshotHeld`: from `prepareCdpPollFds` to `processCdpEvents`, or while
  `cdp_dirty` is unset, the snapshot that is polled holds no more than the
  links, and what is ready is among them;
- `ThreadsCounted`: `cdps` holds exactly the workers at a place where they are
  tracked (`Tracked`), `active_threads` is the number of threads that run and is
  within the limit, and a Server that was freed has none.

`SnapshotHeld` is what `LinksInMemory` needs: a link is taken out of the links
by the Network thread only, in `processCdpEvents` or in the drain after the last
poll, and `cdp_dirty` is then set, so the next snapshot is prepared before the
old one would be followed again. `PollSnapshotFits` and
`ServerOutlivesItsThreads` follow from the exact count, which is why it is
proved with the cardinality of the set of threads and not as a bound.

### The inbox

`TypeOK` is inductive only with the nesting of frames, `WellNested`, in it, and
with `RoomForTheEnd` (there is one more message to come as long as the link is
there). `WellNested` is also the argument for `NothingFreedUnderAScript`: what
takes commands is a tick of mode `all`, which is the only frame of its stack.
`NoDanglingContext` is inductive with it: a return pops either a frame that
waits for nothing, or a wait with its request ended; a failed drain pops two.
Each way of changing the stack has a lemma, and each step of the worker uses
one. `OnlyCommandsAreOvertaken` rests on `InOrder`, that the inbox is in the
order of arrival: what is taken is the first candidate, so what it overtakes is
none.

### The dedicated worker

`TeardownUndisturbed` rests on the order of two things on two threads: the owner
gives up the lifecycle before it clears the terminate, and the creator asks for
one only while the lifecycle is running. `StopBoundary` is the inductive form:
past the end of the loop the lifecycle is not running, and past `CloseWake` the
terminate is clear. A creator that read nothing yet when the owner left finds
the lifecycle closed; one that was faster has its terminate cleared.

`QuiescentIsDormant` is not inductive: between `Observe` and `Publish` the owner
reads the inbound queue, the mailbox, the outbound queue and the epoch one after
the other while others change them. `SampleHolds` says what each read is worth
later: as long as the epoch is the one observed, the queue a read found empty is
still empty, except that a post to the mailbox may have been appended by a
thread that has yet to note it. So every producer that notes its activity under
the mutex of its queue cannot slip in between the read and the comparison; the
mailbox, whose producers note it afterwards, is the exception the property
states. From the recheck on, no task or request is due. The steps fall into four
kinds, with one lemma each: away from the sample, noting activity, leaving what
was sampled alone, and the sample itself.

### The pipeline

The graph comes first: `RanUnderCondition` with the types and the gate is
inductive there, because a re-run takes every dependent with it and `Ancestors`
is transitively closed. `ReleasePipelineProofs` shows that every action of the
pipeline implements an action of the graph, so the graph's invariant holds of
the pipeline without being proved again. `PublishesOnlyWhatPassed` follows from
it: the release job is running or ready when assets change, and its condition is
the chain.

`PackagingProofs` is about the scripts as functions: which files an archive has
after staging, what the packager leaves wherever it ends, that an archive
attested with PASS has the ABI asked for, and that the two judges of a dependency
agree.

`ReleasedArchiveProofs` needs an invariant that follows the files through the
artifacts. `TestedInv` says: while the native gate's success stands, the dists
among the artifacts are those it has judged (`GateInv`); every archive a
platform job has left is made of tested dists, its binaries are ones the
packager accepted, and it is attested only with the ABI they should have
(`RuntimeInv`); a wheel is named as one (`WheelInv`), so none passes for an
archive; the uploaded set (`SetInv`) and the release (`FilesGood`) hold only
archives that are tested and portable; and what the release job has still to
upload is in that set (`PrebuiltInv`). `GateInv` is inductive because of the
graph's invariant: a component job that would replace a judged dist is an
ancestor of the gate, whose success has been taken back before it can run. And
`RuntimeInv` needs it at one moment only, when a platform job reads the dists:
its condition is that the gate has succeeded.

`TogetherInv` is about which attempt things are from. While a job stands as a
success, what it has uploaded is what its successors have read: the document of
the sources is the output of `prepare` (`ResolutionInv`), every platform and
wheel job has left its result (`StoredInv`), and the libraries of a wheel that
passed are those of the archive that is there (`LibrariesInv`). What holds
whatever stands is weaker: a wheel that passed was built from the revision in
its report (`WheelsFromInv`), and the uploaded set was accepted by both
validators under one resolution (`SetFromInv`). With the aggregate standing
(`AggregatedInv`) the set is of the present resolution; with the release
standing or running, every asset of the set is published or still to be
uploaded (`PublishedInv`), so at the end the checksums published last are over
files published with them or before.

`CleanAttemptsPublish` goes the other way: it is about what the scripts accept.
Of each kind of job there is a lemma that it makes something good of good
inputs, and of each check one that it accepts what is good: `GoodImage` passes
both judges of its dependencies, a good dist passes the gate and the packager,
the archive has the paths, the checksums and the metadata the aggregate asks
for, the wheel has its libraries, and both validators accept results that are
good one by one. The invariant `CleanInv` says that as long as the attempt is
clean no job has failed and what each success has left is good; it needs that
the jobs before one that has started stay ended (`StandsInv`, a property of the
graph), so that nothing an earlier attempt has left is read in place of it.

Only model-checked is the liveness: `EveryPayloadEnds` and
`LifecycleCallsReturn` of the mailbox, `NetworkStops`, `DeadConnectionEnds` and
`UnregisterReturns` of the server, the three properties of the inbox, the five of
the dedicated worker and `AttemptEnds` of the pipeline. Every invariant and every
action property the passing runs check, and both refinements, are proved.
Out of the prover's reach: liveness under fairness, ENABLED, and what a recursive
definition computes for every input (there is none in these modules).

## What is not modelled

Per component, with the reason, under `components` in `PROJECT.json`. In short:
what is sequential data (the DOM, CSS, parsers, selectors, canvas, streams'
contents, fingerprint tables, CDP domains), what belongs to V8, SQLite or the
HTTP transport, and what the plan has not reached.

Of the pipeline: the probes that drive a browser and compare its answers with a
recording (`tools/*_probe.py`, `tools/windows_cdp_smoke.py`), and the scripts
that check or fetch a toolchain in one pass (`verify_chromium_toolchain.py`,
`verify_official_chromium_deps.py`, `v8_bundle.py`, `materialize_*.py`,
`prune_gclient_payloads.py`): neither keeps state that another step reads, so
their outcome is one of the faults `toolchain`, `contracts` and `fingerprint`.
The recovery of the fingerprint job from an earlier run
(`fingerprint_source_run_id`), runs without `publish_release`, which end with
the aggregate, caches and concurrent runs of the workflow are left out too.

Within the modelled files: the bootstrap of a worker and its failure, the
allocation failure fallbacks of `signalCreatorDrain`, a creator realm that is
torn down while tokens are queued, HTTP inside a worker (one outstanding
request that may complete at any tick), author code run by V8's own foreground
tasks, and the two separate loads in `hasCreatorActivity`. Of the server: other
run modes, metrics and the handshake's bytes.

## The plan

In this order; each module with its MC module, runs, mutants and theorems.

| # | Module | Of | Main properties |
|---|---|---|---|
| 1 | `TaskDelivery`, `OwnerMailbox`, `OwnerMailboxProofs`, `MailboxDeliveryProofs` | `OwnerMailbox.zig` | done |
| 2 | `CdpServer`, `CdpServerProofs` | `Server.zig`, `Network.zig`, `Sighandler.zig` | done |
| 3 | `DedicatedWorker`, `DedicatedWorkerProofs` | `DedicatedWorkerRuntime.zig` | done |
| 4 | `JobGraph`, `ReleasePipeline` and the modules they use | `prebuilt-binaries.yml`, `tools/ci` | done |
| 5 | `CdpInbox`, `CdpInboxProofs` | `Inbox.zig`, `Connection.zig`, `HttpClient.drainInbox`, `syncRequest` | done |
| 6 | `HttpTransfer` | transfer states and the connection pool of `HttpClient.zig` | one final callback, connections conserved, queued requests start; composed with 5 in the synchronous wait |
| 7 | `DeferringLayer`, `InterceptionLayer` | `network/layer/` | callbacks once and in order through a layer, over the interface of 6 |
| 8 | `FfiRuntime` | `ffi/Runtime.zig` | handles, references, cancellation epochs |
| 9 | `Watchdog` | `Watchdog.zig` | one termination per stall |
| 10 | `IdbTransactions` | `idb/Engine.zig`, `IDBTransaction.zig` | the gate, request order, one final event |
| 11 | `ResourcePools` | `Pool.zig`, `ArenaPool.zig` | conservation, waiting |
| 12 | `Dispatch`, `Scheduler` | `Notification.zig`, `EventManager*.zig`, `Scheduler.zig` | edits during a walk, cancel and repeat |
| 13 | `ScriptOrder` | `ScriptManagerBase.zig` | order of scripts under re-entrant evaluation |

The modules still to be written have hazards of their own, which are not in
the list of `PROJECT.json`. They are: in `HttpClient.zig`, a request that
finds no free connection, or is made while the multi handle performs, and must
be started when one is released (1899), and an error returned for a transfer
that is freed already (1959); a page closed before or after the worker made
its command active (`ffi/Runtime.zig:1075`); a flush that re-enters itself
(`DeferringLayer.zig:92`); `destroy` against a call that has just taken its
reference (`ffi/Runtime.zig:233`); the termination of a worker that stalls
again (`Watchdog.zig:130`); an abort whose error events reach the transaction
again (`IDBTransaction.zig:319`); a waiter whose time runs out as a connection
is released (`Pool.zig:76`); a listener removed during its event
(`Notification.zig:420`); evaluation that re-enters itself
(`ScriptManagerBase.zig:491`); and a timer cancelled while it runs
(`Scheduler.zig:152`).

Abstract specifications worth stating: `TaskDelivery` and `JobGraph` (there), a
request that ends exactly once (6 and 7 implement it), a pool of
indistinguishable resources (11, and the connection pool of 6). Theorems next:
those of the modules still to be written.
