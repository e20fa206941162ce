-------------------------- MODULE DedicatedWorker --------------------------
(***************************************************************************)
(* One dedicated worker (browser/worker_runtime/DedicatedWorkerRuntime.zig) *)
(* between the end of its bootstrap and the join of its thread: the owner   *)
(* thread's loop, the creator thread that sends it commands, drains what it *)
(* sends back and stops it, and other threads that post to its mailbox.     *)
(*                                                                         *)
(* Commands and envelopes are counted, not named.  One action is one        *)
(* critical section or one atomic step between two.  The activity epochs    *)
(* only matter by their equality, so the counters are replaced by it.       *)
(***************************************************************************)
EXTENDS Integers, Sequences

CONSTANTS
    Posters,        \* the other threads with a Sender of the worker's mailbox
    MaxCommands,    \* bound: commands the creator sends
    MaxEnvelopes,   \* bound: envelopes the worker's scripts send
    MaxPosts        \* bound: posts to the worker's mailbox

ASSUME WorkerAssumption == {MaxCommands, MaxEnvelopes, MaxPosts} \subseteq Nat

VARIABLES
    owner,      \* pc; back: where it goes on after a script; due: the tasks and requests
                \* its scripts wait for
    creator,    \* pc, commands sent, drain tokens in its own mailbox
    poster,     \* per thread: its place in postOwned
    inbound,    \* the commands queued
    outbound,   \* the number of envelopes queued, and of those ever sent by a script;
                \* whether the last of all, the report of ownerLoop's failure, was sent
    mailbox,    \* the worker's OwnerMailbox: open, nodes queued, posts so far
    lifecycle,  \* Runtime.lifecycle
    shutdown,   \* Runtime.shutdown_requested
    terminate,  \* requested: Env.terminate_requested; interrupt: the one V8 is asked for
                \* with it: none, posted, or taken by a script
    epoch,      \* activity_epoch equals: quiescent_epoch, the owner's observed_epoch
    wake        \* the ForegroundWake: open, a no-op task posted and not yet pumped

vars == <<owner, creator, poster, inbound, outbound, mailbox, lifecycle, shutdown,
          terminate, epoch, wake>>

\* As Env.init and cancelTerminate leave it: an interrupt still posted does nothing.
NotTerminated == [requested |-> FALSE, interrupt |-> "none"]

Init ==
    /\ owner = [pc |-> "inbound", back |-> "inbound", due |-> {}]
    /\ creator = [pc |-> "running", sent |-> 0, tokens |-> 0]
    /\ poster = [p \in Posters |-> "idle"]
    /\ inbound = <<>>
    /\ outbound = [queued |-> 0, sent |-> 0, reported |-> FALSE]
    /\ mailbox = [open |-> TRUE, queued |-> 0, posts |-> 0]
    /\ lifecycle = "running"
    /\ shutdown = FALSE
    /\ terminate = NotTerminated
    /\ epoch = [quiescent |-> FALSE, observed |-> FALSE]
    /\ wake = [open |-> TRUE, posted |-> FALSE]

-----------------------------------------------------------------------------
(* Helpers, the ones that could plausibly be wrong preceded by a mistake.   *)

OwnerGoesTo(place) == owner' = [owner EXCEPT !.pc = place]
CreatorGoesTo(place) == creator' = [creator EXCEPT !.pc = place]

\* noteActivity: the epoch differs from every value read or stored before.
NoteActivity == epoch' = [quiescent |-> FALSE, observed |-> FALSE]

\* ForegroundWake.post: coalesced, and a safe false once it is closed.
PostWake == wake' = [wake EXCEPT !.posted = @ \/ wake.open]

\* The worker's script, or whatever starts it, runs to its end at pc "script".
RunScript(back, due) == owner' = [owner EXCEPT !.pc = "script", !.back = back, !.due = due]

\* Mistake: a token only for the first envelope in the queue.
TokenForTheFirst == IF outbound.queued = 0 THEN 1 ELSE 0
TokenForEach == 1

\* Append an envelope, and signalCreatorDrain, all under outbound_mutex.
SendToCreator(byScript) ==
    /\ outbound' = [queued |-> outbound.queued + 1,
                    sent |-> outbound.sent + byScript,
                    reported |-> byScript = 0]
    /\ creator' = [creator EXCEPT !.tokens = @ + TokenForEach]
    /\ NoteActivity

-----------------------------------------------------------------------------
(* The owner thread: ownerLoop.                                            *)

\* The head of the loop, and the loop over the commands.
Leave ==
    /\ owner.pc \in {"inbound", "drain", "tasks"} /\ shutdown
    /\ OwnerGoesTo("leaving")
    /\ UNCHANGED <<creator, poster, inbound, outbound, mailbox, lifecycle, shutdown,
                   terminate, epoch, wake>>

PopCommand ==
    /\ owner.pc = "inbound" /\ ~shutdown /\ inbound # <<>>
    /\ inbound' = Tail(inbound)
    /\ IF Head(inbound) = "shutdown"
       THEN shutdown' = TRUE /\ UNCHANGED owner
       ELSE RunScript("inbound", owner.due) /\ UNCHANGED shutdown
    /\ UNCHANGED <<creator, poster, outbound, mailbox, lifecycle, terminate, epoch, wake>>

NoMoreCommands ==
    /\ owner.pc = "inbound" /\ ~shutdown /\ inbound = <<>>
    /\ OwnerGoesTo("drain")
    /\ UNCHANGED <<creator, poster, inbound, outbound, mailbox, lifecycle, shutdown,
                   terminate, epoch, wake>>

\* OwnerMailbox.drain; a node's callback queues a task of its own.
DrainMailbox ==
    /\ owner.pc = "drain" /\ ~shutdown
    /\ owner' = [owner EXCEPT !.pc = "tasks",
                              !.due = IF mailbox.queued = 0 THEN @ ELSE @ \cup {"task"}]
    /\ mailbox' = [mailbox EXCEPT !.queued = 0]
    /\ UNCHANGED <<creator, poster, inbound, outbound, lifecycle, shutdown, terminate,
                   epoch, wake>>

\* env.runMacrotasks: a task that is due, unless a terminate is pending.
RunTask ==
    /\ owner.pc = "tasks" /\ ~shutdown /\ ~terminate.requested
    /\ "task" \in owner.due
    /\ RunScript("pump", owner.due \ {"task"})
    /\ UNCHANGED <<creator, poster, inbound, outbound, mailbox, lifecycle, shutdown,
                   terminate, epoch, wake>>

NoTaskReady ==
    /\ owner.pc = "tasks" /\ ~shutdown
    /\ OwnerGoesTo("pump")
    /\ UNCHANGED <<creator, poster, inbound, outbound, mailbox, lifecycle, shutdown,
                   terminate, epoch, wake>>

\* env.pumpMessageLoop takes the no-op task of the wake.
Pump ==
    /\ owner.pc = "pump"
    /\ OwnerGoesTo("wait")
    /\ wake' = [wake EXCEPT !.posted = FALSE]
    /\ UNCHANGED <<creator, poster, inbound, outbound, mailbox, lifecycle, shutdown,
                   terminate, epoch>>

\* Requests in flight: http_client.tick, which may complete one.
Tick ==
    /\ owner.pc = "wait" /\ "request" \in owner.due
    /\ \/ OwnerGoesTo("inbound")
       \/ RunScript("inbound", owner.due \ {"request"})
    /\ UNCHANGED <<creator, poster, inbound, outbound, mailbox, lifecycle, shutdown,
                   terminate, epoch, wake>>

\* A task due later: wait for it or for a signal, 10 ms at most.
TimedWait ==
    /\ owner.pc = "wait" /\ owner.due = {"task"}
    /\ OwnerGoesTo("inbound")
    /\ UNCHANGED <<creator, poster, inbound, outbound, mailbox, lifecycle, shutdown,
                   terminate, epoch, wake>>

\* Mistakes: the second look forgets the mailbox, or is left out.
CommandReady == inbound # <<>> \/ shutdown
NothingReady == FALSE
Ready == inbound # <<>> \/ mailbox.queued > 0 \/ shutdown

\* The recheck before the blocking pump.
Recheck ==
    /\ owner.pc = "wait" /\ owner.due = {}
    /\ OwnerGoesTo(IF Ready THEN "inbound" ELSE "observe")
    /\ UNCHANGED <<creator, poster, inbound, outbound, mailbox, lifecycle, shutdown,
                   terminate, epoch, wake>>

\* publishQuiescentIfStable, one step for each of its reads.
Observe ==
    /\ owner.pc = "observe"
    /\ OwnerGoesTo("checkInbound")
    /\ epoch' = [epoch EXCEPT !.observed = TRUE]
    /\ UNCHANGED <<creator, poster, inbound, outbound, mailbox, lifecycle, shutdown,
                   terminate, wake>>

CheckQueue(place, empty, next) ==
    /\ owner.pc = place
    /\ OwnerGoesTo(IF empty THEN next ELSE "block")
    /\ UNCHANGED <<creator, poster, inbound, outbound, mailbox, lifecycle, shutdown,
                   terminate, epoch, wake>>

\* Mistake: the creator may still have envelopes to take.
OutboundIgnored == TRUE
OutboundEmpty == outbound.queued = 0

CheckQueues ==
    \/ CheckQueue("checkInbound", inbound = <<>>, "checkMailbox")
    \/ CheckQueue("checkMailbox", mailbox.queued = 0, "checkOutbound")
    \/ CheckQueue("checkOutbound", OutboundEmpty, "compare")
    \/ CheckQueue("compare", epoch.observed, "publish")

Publish ==
    /\ owner.pc = "publish"
    /\ OwnerGoesTo("block")
    /\ epoch' = [epoch EXCEPT !.quiescent = epoch.observed]
    /\ UNCHANGED <<creator, poster, inbound, outbound, mailbox, lifecycle, shutdown,
                   terminate, wake>>

\* The blocking pump returns with the wake, or with a task of V8's own.
PumpReturns ==
    /\ owner.pc = "block"
    /\ OwnerGoesTo("pumped")
    /\ wake' = [wake EXCEPT !.posted = FALSE]
    /\ UNCHANGED <<creator, poster, inbound, outbound, mailbox, lifecycle, shutdown,
                   terminate, epoch>>

NotePumped ==
    /\ owner.pc = "pumped"
    /\ OwnerGoesTo("inbound")
    /\ NoteActivity
    /\ UNCHANGED <<creator, poster, inbound, outbound, mailbox, lifecycle, shutdown,
                   terminate, wake>>

-----------------------------------------------------------------------------
(* What a script of the worker may do.                                     *)

\* postMessage and postError.
ScriptPosts ==
    /\ owner.pc = "script" /\ outbound.sent < MaxEnvelopes
    /\ SendToCreator(1)
    /\ UNCHANGED <<owner, poster, inbound, mailbox, lifecycle, shutdown, terminate, wake>>

\* self.close: requestOwnerClose.
ScriptCloses ==
    /\ owner.pc = "script"
    /\ shutdown' = TRUE
    /\ UNCHANGED <<owner, creator, poster, inbound, outbound, mailbox, lifecycle,
                   terminate, epoch, wake>>

\* It sets a timer or starts a request.
ScriptStarts ==
    /\ owner.pc = "script"
    /\ \E work \in {"task", "request"} : owner' = [owner EXCEPT !.due = @ \cup {work}]
    /\ UNCHANGED <<creator, poster, inbound, outbound, mailbox, lifecycle, shutdown,
                   terminate, epoch, wake>>

\* It ends by itself, which it need not ever, or its callback fails and ends
\* ownerLoop with it.
ScriptEnds ==
    /\ owner.pc = "script"
    /\ \E place \in {owner.back, "failed"} : OwnerGoesTo(place)
    /\ UNCHANGED <<creator, poster, inbound, outbound, mailbox, lifecycle, shutdown,
                   terminate, epoch, wake>>

\* V8 takes the interrupt and unwinds this script.  The call that ran it may go
\* on to another one (the next listener), which nothing interrupts.
ScriptInterrupted ==
    /\ owner.pc = "script" /\ terminate.interrupt = "posted"
    /\ \E place \in {owner.back, "failed", "script"} : OwnerGoesTo(place)
    /\ terminate' = [terminate EXCEPT !.interrupt = "taken"]
    /\ UNCHANGED <<creator, poster, inbound, outbound, mailbox, lifecycle, shutdown,
                   epoch, wake>>

-----------------------------------------------------------------------------
(* The end of the owner thread: the defer of ownerLoop, ownerShutdown.      *)

\* Mistake: producers are not told.
StayRunning == UNCHANGED lifecycle
CloseToProducers == lifecycle' = "stopping"

LeaveLoop ==
    /\ owner.pc \in {"leaving", "failed"}
    /\ CloseToProducers
    /\ OwnerGoesTo(IF owner.pc = "failed" THEN "report" ELSE "close")
    /\ UNCHANGED <<creator, poster, inbound, outbound, mailbox, shutdown, terminate,
                   epoch, wake>>

ReportFailure ==
    /\ owner.pc = "report"
    /\ OwnerGoesTo("close")
    /\ SendToCreator(0)
    /\ UNCHANGED <<poster, inbound, mailbox, lifecycle, shutdown, terminate, wake>>

\* cancelTerminate and owner_wake.close.
CloseWake ==
    /\ owner.pc = "close"
    /\ OwnerGoesTo("teardown")
    /\ terminate' = NotTerminated
    /\ wake' = [open |-> FALSE, posted |-> FALSE]
    /\ UNCHANGED <<creator, poster, inbound, outbound, mailbox, lifecycle, shutdown, epoch>>

\* callbacks.teardown and owner_mailbox.deinit, which disposes of what is
\* queued and waits for posts under way (NoWakeAfterMailboxClose).
Teardown ==
    /\ owner.pc = "teardown" /\ \A p \in Posters : poster[p] = "idle"
    /\ OwnerGoesTo("dispose")
    /\ mailbox' = [mailbox EXCEPT !.open = FALSE, !.queued = 0]
    /\ UNCHANGED <<creator, poster, inbound, outbound, lifecycle, shutdown, terminate,
                   epoch, wake>>

\* env.deinit.
DisposeEnv ==
    /\ owner.pc = "dispose"
    /\ OwnerGoesTo("disposed")
    /\ UNCHANGED <<creator, poster, inbound, outbound, mailbox, lifecycle, shutdown,
                   terminate, epoch, wake>>

Stopped ==
    /\ owner.pc = "disposed"
    /\ OwnerGoesTo("stopped")
    /\ lifecycle' = "stopped"
    /\ UNCHANGED <<creator, poster, inbound, outbound, mailbox, shutdown, terminate,
                   epoch, wake>>

OwnerProceeds ==
    \/ Leave \/ PopCommand \/ NoMoreCommands \/ DrainMailbox \/ RunTask \/ NoTaskReady
    \/ Pump \/ Tick \/ TimedWait \/ Recheck \/ Observe \/ CheckQueues \/ Publish \/ NotePumped
    \/ LeaveLoop \/ ReportFailure \/ CloseWake \/ Teardown \/ DisposeEnv \/ Stopped

Script == ScriptPosts \/ ScriptCloses \/ ScriptStarts \/ ScriptEnds \/ ScriptInterrupted

-----------------------------------------------------------------------------
(* The creator thread.                                                     *)

\* Its own script runs, perhaps called from the dispatch of an envelope.
CreatorInScript == creator.pc \in {"running", "dispatch"}

\* Worker.postMessage and enqueue, under the lifecycle and the inbound mutex.
\* A closed worker refuses the command and nothing changes.
Enqueue ==
    /\ CreatorInScript /\ creator.sent < MaxCommands
    /\ lifecycle = "running" /\ ~shutdown
    /\ creator' = [creator EXCEPT !.sent = @ + 1]
    /\ inbound' = Append(inbound, "message")
    /\ NoteActivity
    /\ PostWake
    /\ UNCHANGED <<owner, poster, outbound, mailbox, lifecycle, shutdown, terminate>>

\* A drain token of its mailbox, or the Frame's periodic scan, calls
\* drainOutbound.
TakeToken ==
    /\ creator.pc = "running" /\ creator.tokens > 0
    /\ creator' = [creator EXCEPT !.pc = "drain", !.tokens = @ - 1]
    /\ UNCHANGED <<owner, poster, inbound, outbound, mailbox, lifecycle, shutdown,
                   terminate, epoch, wake>>

Scan ==
    /\ creator.pc = "running" /\ outbound.queued > 0
    /\ CreatorGoesTo("drain")
    /\ UNCHANGED <<owner, poster, inbound, outbound, mailbox, lifecycle, shutdown,
                   terminate, epoch, wake>>

TakeOne(n) == IF n = 0 THEN 0 ELSE n - 1

\* popOutbound: the wake for the envelope that emptied the queue is posted
\* after the mutex is released.
PopOutbound ==
    /\ creator.pc = "drain"
    /\ outbound' = [outbound EXCEPT !.queued = TakeOne(@)]
    /\ CreatorGoesTo(CASE outbound.queued = 0 -> "running"
                       [] outbound.queued = 1 -> "emptied"
                       [] OTHER -> "dispatch")
    /\ UNCHANGED <<owner, poster, inbound, mailbox, lifecycle, shutdown, terminate,
                   epoch, wake>>

\* Mistake: the owner is not told that its envelopes were taken.
EmptiedSilently == UNCHANGED wake
WakeForTheLast == PostWake

WakeEmptied ==
    /\ creator.pc = "emptied"
    /\ WakeForTheLast
    /\ CreatorGoesTo("dispatch")
    /\ UNCHANGED <<owner, poster, inbound, outbound, mailbox, lifecycle, shutdown,
                   terminate, epoch>>

\* The dispatch ends, or fails and ends drainOutbound with it.
Dispatched ==
    /\ creator.pc = "dispatch"
    /\ \E place \in {"drain", "running"} : CreatorGoesTo(place)
    /\ UNCHANGED <<owner, poster, inbound, outbound, mailbox, lifecycle, shutdown,
                   terminate, epoch, wake>>

\* Worker.terminate: requestStop returns at once if a stop was requested.
RequestStop ==
    /\ CreatorInScript
    /\ CreatorGoesTo(IF shutdown THEN "join" ELSE "append")
    /\ shutdown' = TRUE
    /\ UNCHANGED <<owner, poster, inbound, outbound, mailbox, lifecycle, terminate,
                   epoch, wake>>

AppendShutdown ==
    /\ creator.pc = "append"
    /\ CreatorGoesTo("wake")
    /\ inbound' = Append(inbound, "shutdown")
    /\ NoteActivity
    /\ UNCHANGED <<owner, poster, outbound, mailbox, lifecycle, shutdown, terminate, wake>>

WakeToStop ==
    /\ creator.pc = "wake"
    /\ CreatorGoesTo("terminate")
    /\ PostWake
    /\ UNCHANGED <<owner, poster, inbound, outbound, mailbox, lifecycle, shutdown,
                   terminate, epoch>>

\* Mistakes: the flag without the interrupt; an isolate that is being disposed of.
FlagTerminate ==
    terminate' = IF lifecycle = "running" THEN [terminate EXCEPT !.requested = TRUE] ELSE terminate
TerminateAlways == terminate' = [requested |-> TRUE, interrupt |-> "posted"]
RequestTerminate ==
    terminate' = IF lifecycle = "running" THEN [requested |-> TRUE, interrupt |-> "posted"]
                 ELSE terminate

Terminate ==
    /\ creator.pc = "terminate"
    /\ CreatorGoesTo("join")
    /\ RequestTerminate
    /\ UNCHANGED <<owner, poster, inbound, outbound, mailbox, lifecycle, shutdown,
                   epoch, wake>>

\* thread.join, then discardOutbound.
Join ==
    /\ creator.pc = "join" /\ owner.pc = "stopped"
    /\ CreatorGoesTo("joined")
    /\ outbound' = [outbound EXCEPT !.queued = 0]
    /\ UNCHANGED <<owner, poster, inbound, mailbox, lifecycle, shutdown, terminate,
                   epoch, wake>>

Stopping == AppendShutdown \/ WakeToStop \/ Terminate \/ Join
Draining == TakeToken \/ PopOutbound \/ WakeEmptied \/ Dispatched

-----------------------------------------------------------------------------
(* Another thread posts to the worker's mailbox: Sender.postOwned and the   *)
(* notify callback wakeOwnerMailbox.                                        *)

Post(p) ==
    /\ poster[p] = "idle" /\ mailbox.open /\ mailbox.posts < MaxPosts
    /\ poster' = [poster EXCEPT ![p] = "appended"]
    /\ mailbox' = [mailbox EXCEPT !.queued = @ + 1, !.posts = @ + 1]
    /\ UNCHANGED <<owner, creator, inbound, outbound, lifecycle, shutdown, terminate,
                   epoch, wake>>

NotePost(p) ==
    /\ poster[p] = "appended"
    /\ poster' = [poster EXCEPT ![p] = "noted"]
    /\ NoteActivity
    /\ UNCHANGED <<owner, creator, inbound, outbound, mailbox, lifecycle, shutdown,
                   terminate, wake>>

WakePost(p) ==
    /\ poster[p] = "noted"
    /\ poster' = [poster EXCEPT ![p] = "idle"]
    /\ PostWake
    /\ UNCHANGED <<owner, creator, inbound, outbound, mailbox, lifecycle, shutdown,
                   terminate, epoch>>

Notify(p) == NotePost(p) \/ WakePost(p)

-----------------------------------------------------------------------------
Next ==
    \/ OwnerProceeds \/ PumpReturns \/ Script
    \/ Enqueue \/ Scan \/ RequestStop \/ Draining \/ Stopping
    \/ \E p \in Posters : Post(p) \/ Notify(p)

Spec == Init /\ [][Next]_vars

\* Threads are scheduled, a wake ends the blocking pump, the creator runs the
\* tasks of its mailbox.  V8 unwinds the script that takes the interrupt; no
\* other script is forced to end.
Fairness ==
    /\ WF_vars(OwnerProceeds) /\ WF_vars(wake.posted /\ PumpReturns)
    /\ WF_vars(ScriptInterrupted)
    /\ WF_vars(Draining) /\ WF_vars(Stopping)
    /\ \A p \in Posters : WF_vars(Notify(p))

FairSpec == Spec /\ Fairness

-----------------------------------------------------------------------------
(* Properties.                                                             *)

TypeOK ==
    /\ owner \in [pc : {"inbound", "drain", "tasks", "pump", "wait", "observe",
                        "checkInbound", "checkMailbox", "checkOutbound", "compare",
                        "publish", "block", "pumped", "script", "failed", "leaving",
                        "report", "close", "teardown", "dispose", "disposed", "stopped"},
                  back : {"inbound", "pump"}, due : SUBSET {"task", "request"}]
    /\ creator \in [pc : {"running", "drain", "emptied", "dispatch", "append", "wake",
                          "terminate", "join", "joined"}, sent : Nat, tokens : Nat]
    /\ poster \in [Posters -> {"idle", "appended", "noted"}]
    /\ inbound \in Seq({"message", "shutdown"})
    /\ outbound \in [queued : Nat, sent : Nat, reported : BOOLEAN]
    /\ mailbox \in [open : BOOLEAN, queued : Nat, posts : Nat]
    /\ lifecycle \in {"running", "stopping", "stopped"}
    /\ shutdown \in BOOLEAN
    /\ terminate \in [requested : BOOLEAN, interrupt : {"none", "posted", "taken"}]
    /\ epoch \in [quiescent : BOOLEAN, observed : BOOLEAN]
    /\ wake \in [open : BOOLEAN, posted : BOOLEAN]

\* Once cancelTerminate was called no terminate reaches the isolate: a creator
\* that is in the middle of requestStop, however late, neither disturbs the
\* teardown callbacks nor meets an isolate disposed of ("The lifecycle mutex
\* prevents racing isolate disposal", DedicatedWorkerRuntime.zig:601-602).
TeardownUndisturbed ==
    owner.pc \in {"teardown", "dispose", "disposed", "stopped"} => terminate = NotTerminated

\* A worker whose epoch is published as quiescent has nothing left to do and
\* nothing the creator must still take, so that Runner may count it as idle
\* (125-129).  The exception is a post to its mailbox: its activity is noted
\* after the mailbox mutex is released (490-492), not under it.
QuiescentIsDormant ==
    epoch.quiescent =>
        /\ owner.pc \in {"block", "pumped"} /\ owner.due = {}
        /\ inbound = <<>> /\ outbound.queued = 0
        /\ mailbox.queued > 0 => \E p \in Posters : poster[p] = "appended"

\* Scripts end by themselves, for the properties that need it.
ScriptsEnd == []<>(owner.pc # "script")

\* A command that was accepted is received, unless the worker is stopped: the
\* wake the non-blocking pump may have taken is not missed (294-298).  If
\* instead ownerLoop fails, and the command may have been accepted between the
\* failure and the "closed producer boundary" (229), the creator is handed the
\* failure.
CommandsReceived ==
    ScriptsEnd => (inbound # <<>> ~>
        inbound = <<>> \/ shutdown \/ (outbound.reported /\ outbound.queued = 0))

\* The same for a post to the mailbox.
PostsDrained == ScriptsEnd => (mailbox.queued > 0 ~> mailbox.queued = 0)

\* An envelope reaches the creator even if the dispatch of another one fails:
\* each has its own drain token (462-465).
EnvelopesTaken == ScriptsEnd => (outbound.queued > 0 ~> outbound.queued = 0)

Dormant ==
    /\ lifecycle = "running" /\ ~shutdown
    /\ inbound = <<>> /\ outbound.queued = 0 /\ mailbox.queued = 0
    /\ owner.pc # "script" /\ owner.due = {}

\* A dormant worker becomes quiescent and does not hold Runner open for ever
\* (129, 508-510).
DormantBecomesQuiescent == Dormant ~> epoch.quiescent \/ ~Dormant

\* A stop that gets to requestTerminate ends with the thread joined, even if
\* the script of the worker that is running then would not end.  One that
\* starts after the interrupt was taken has to end by itself: the next listener,
\* or a callback of the client.tick (271) after the tasks.
LaterScriptsEnd == []<>~(owner.pc = "script" /\ terminate.interrupt = "taken")

TerminateJoins == LaterScriptsEnd => (creator.pc = "terminate" ~> creator.pc = "joined")

\* "TerminateExecution is the only path that can unwind an infinite
\* Atomics.wait or author-code loop" (600-601): so that every stop ends with
\* the thread joined.
StopJoins == creator.pc = "join" ~> creator.pc = "joined"
=============================================================================
