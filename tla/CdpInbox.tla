------------------------------ MODULE CdpInbox ------------------------------
(***************************************************************************)
(* The messages of one CDP connection (Inbox.zig), from the frames the       *)
(* Network thread reads off its socket to their dispatch on the worker       *)
(* thread (HttpClient.tick and drainInbox), which may happen while a script  *)
(* of the page waits for a blocking request (HttpClient.syncRequest) or for  *)
(* a module (ScriptManagerBase.waitForImport).                              *)
(*                                                                         *)
(* The worker is its call stack: ticks, drains, waits and scripts nest.  A   *)
(* message is its place in the order of arrival and a kind: an answer to a   *)
(* paused request ("fetch"), a command that ends a page ("teardown"), any    *)
(* other command, a ping, and the two ways the messages end.                *)
(***************************************************************************)
EXTENDS Integers, SequencesExt

CONSTANTS
    Fetches,        \* blocking requests: a parser's script, a synchronous XMLHttpRequest
    Imports,        \* modules a script imports
    MaxMessages     \* bound: frames the client sends before the connection ends

ASSUME InboxAssumption == Fetches \cap Imports = {} /\ MaxMessages \in Nat

VARIABLES
    link,       \* the link of the connection: live, being dropped, removed
    pushed,     \* how many messages were pushed
    inbox,      \* Inbox.queue
    handled,    \* the commands that were dispatched
    terminated, \* Inbox.terminated
    env,        \* terminate_requested; an interrupt to be run by V8; V8 is terminating
    pc,         \* the loop of Server.handleConnection, between two ticks
    stack,      \* what the worker executes, the innermost last
    transfer    \* per request: not made, paused by Fetch interception, in flight, ended

vars == <<link, pushed, inbox, handled, terminated, env, pc, stack, transfer>>

Requests == Fetches \cup Imports

\* Frames of the stack: a tick performs transfers and then drains the inbox.  A
\* script is whatever of a page runs, the parser that feeds it included.
Script == [at |-> "script"]
Performing(mode) == [at |-> "perform", mode |-> mode]
Draining(mode) == [at |-> "drain", mode |-> mode]
Performed(mode) == [at |-> "performed", mode |-> mode]
Waiting(r) == [at |-> "wait", req |-> r]

Init ==
    /\ link = "live" /\ pushed = 0 /\ inbox = <<>> /\ handled = {}
    /\ terminated = FALSE
    /\ env = [terminate |-> FALSE, interrupt |-> FALSE, killing |-> FALSE]
    /\ pc = "loop" /\ stack = <<>>
    /\ transfer = [r \in Requests |-> "none"]

-----------------------------------------------------------------------------
(* Helpers, the ones that could plausibly be wrong preceded by a mistake.   *)

At(places) == stack # <<>> /\ Last(stack).at \in places
Return == stack' = Front(stack)
Call(frame) == stack' = Append(stack, frame)
Becomes(frame) == stack' = Append(Front(stack), frame)

Scripts(frames) == {i \in DOMAIN frames : frames[i].at = "script"}

\* The worker does nothing but what the action says.
WorkerOnly == UNCHANGED <<link, pushed>>

\* Env.requestTerminate.
RequestTerminate == env' = [env EXCEPT !.terminate = TRUE, !.interrupt = TRUE]

\* Mistakes: every message, or no answer either, while a script waits.
AllowAny(m) == TRUE
AllowControl(m) == m.kind \in {"ping", "close", "disconnect"}
AllowDuringSyncWait(m) == m.kind \in {"fetch", "ping", "close", "disconnect"}

\* Mistake: only the end of the connection interrupts a blocking request.
InterruptAtEnd(m) == m.kind \in {"close", "disconnect"}
IsSyncWaitInterrupt(m) == m.kind \in {"teardown", "close", "disconnect"}

-----------------------------------------------------------------------------
(* The Network thread: Connection.processMessages and dropCdp.             *)

Push(kind) ==
    /\ inbox' = Append(inbox, [id |-> pushed + 1, kind |-> kind])
    /\ pushed' = pushed + 1

ReceiveFrame ==
    /\ link = "live" /\ pushed < MaxMessages
    /\ \E kind \in {"fetch", "teardown", "command", "ping"} : Push(kind)
    /\ UNCHANGED <<link, handled, terminated, env, pc, stack, transfer>>

\* A close frame, or a text frame that is not JSON: the link is dropped
\* without a word to the worker.
ReceiveEnd ==
    /\ link = "live"
    /\ \E kind \in {"close", "disconnect"} : Push(kind)
    /\ link' = "removed"
    /\ UNCHANGED <<handled, terminated, env, pc, stack, transfer>>

\* End of file, a framing error, or the server stops: terminateFromNetwork and
\* then onLinkDisconnect.
DropLink ==
    /\ link = "live"
    /\ link' = "dropping"
    /\ RequestTerminate
    /\ UNCHANGED <<pushed, inbox, handled, terminated, pc, stack, transfer>>

PushDisconnect ==
    /\ link = "dropping"
    /\ link' = "removed"
    /\ Push("disconnect")
    /\ UNCHANGED <<handled, terminated, env, pc, stack, transfer>>

-----------------------------------------------------------------------------
(* Scripts.                                                                *)

\* syncRequest and waitForImport, up to the tick they start with; both fail at
\* once on a connection that has ended.
StartWait(r) ==
    /\ At({"script"}) /\ ~env.killing /\ ~terminated
    /\ transfer[r] = "none"
    /\ \E state \in {"parked", "inflight"} : transfer' = [transfer EXCEPT ![r] = state]
    /\ stack' = stack \o <<Waiting(r), Performing("sync")>>
    /\ WorkerOnly /\ UNCHANGED <<inbox, handled, terminated, env, pc>>

\* Env.terminateInterrupt, run by V8 within the script, for once.
TakeInterrupt ==
    /\ At({"script"}) /\ env.interrupt
    /\ env' = [env EXCEPT !.interrupt = FALSE, !.killing = TRUE]
    /\ WorkerOnly /\ UNCHANGED <<inbox, handled, terminated, pc, stack, transfer>>

\* V8 stops terminating when its outermost script has unwound.
ScriptEnds ==
    /\ At({"script"})
    /\ Return
    /\ env' = [env EXCEPT !.killing = @ /\ Scripts(Front(stack)) # {}]
    /\ WorkerOnly /\ UNCHANGED <<inbox, handled, terminated, pc, transfer>>

\* The Watchdog, or the heap limit.
ScriptCondemned ==
    /\ At({"script"})
    /\ RequestTerminate
    /\ WorkerOnly /\ UNCHANGED <<inbox, handled, terminated, pc, stack, transfer>>

-----------------------------------------------------------------------------
(* The worker: CDP.tick, Runner._tick, HttpClient.tick.                     *)

\* Runner._tick runs macrotasks before it ticks.
RunMacrotask ==
    /\ pc = "loop" /\ stack = <<>> /\ ~env.terminate
    /\ pc' = "tick" /\ Call(Script)
    /\ WorkerOnly /\ UNCHANGED <<inbox, handled, terminated, env, transfer>>

\* CDP.tick looks whether a terminate is pending, Runner._wait between two ticks does not.
SeeTerminate ==
    /\ pc = "loop" /\ stack = <<>> /\ env.terminate
    /\ pc' = "exited"
    /\ WorkerOnly /\ UNCHANGED <<inbox, handled, terminated, env, stack, transfer>>

StartTick ==
    /\ pc \in {"loop", "tick"} /\ stack = <<>>
    /\ IF terminated
       THEN pc' = "exited" /\ UNCHANGED stack
       ELSE pc' = "loop" /\ Call(Performing("all"))
    /\ WorkerOnly /\ UNCHANGED <<inbox, handled, terminated, env, transfer>>

\* perform: a transfer completes, or is paused for its authentication.
Progress ==
    /\ At({"perform", "performed"})
    /\ \E r \in Requests : \E state \in {"ended", "parked"} :
          transfer[r] = "inflight" /\ transfer' = [transfer EXCEPT ![r] = state]
    /\ WorkerOnly /\ UNCHANGED <<inbox, handled, terminated, env, pc, stack>>

\* The callback of a transfer runs scripts; at most once per tick (a bound).
RunCallback ==
    /\ At({"perform"})
    /\ stack' = Front(stack) \o <<Performed(Last(stack).mode), Script>>
    /\ WorkerOnly /\ UNCHANGED <<inbox, handled, terminated, env, pc, transfer>>

EndPerform ==
    /\ At({"perform", "performed"})
    /\ Becomes(Draining(Last(stack).mode))
    /\ WorkerOnly /\ UNCHANGED <<inbox, handled, terminated, env, pc, transfer>>

-----------------------------------------------------------------------------
(* drainInbox.                                                             *)

\* Inbox.pop, or popIf while a script waits.
Candidates ==
    {i \in DOMAIN inbox : Last(stack).mode = "all" \/ AllowDuringSyncWait(inbox[i])}

\* Mistake: the newest of them.
NewestOf(places) == CHOOSE i \in places : \A j \in places : j <= i
OldestOf(places) == CHOOSE i \in places : \A j \in places : i <= j

Take(kinds) ==
    /\ At({"drain"}) /\ Candidates # {}
    /\ inbox[OldestOf(Candidates)].kind \in kinds
    /\ inbox' = RemoveAt(inbox, OldestOf(Candidates))

Taken == inbox[OldestOf(Candidates)]

\* onMessage does not dispatch while V8 is terminating; a command may run scripts.
DispatchCommand ==
    /\ Take({"command", "teardown"})
    /\ handled' = IF env.killing THEN handled ELSE handled \cup {Taken.id}
    /\ IF Taken.kind = "command" /\ ~env.killing THEN Call(Script) ELSE UNCHANGED stack
    /\ WorkerOnly /\ UNCHANGED <<terminated, env, pc, transfer>>

\* The answer lets a paused request go on or ends it, or those of another
\* request, whose callback may run scripts.
DispatchAnswer ==
    /\ Take({"fetch"})
    /\ handled' = IF env.killing THEN handled ELSE handled \cup {Taken.id}
    /\ \/ UNCHANGED <<transfer, stack>>
       \/ ~env.killing /\ UNCHANGED transfer /\ Call(Script)
       \/ \E r \in Requests : \E state \in {"inflight", "ended"} :
             /\ ~env.killing /\ transfer[r] = "parked"
             /\ transfer' = [transfer EXCEPT ![r] = state]
             /\ UNCHANGED stack
    /\ WorkerOnly /\ UNCHANGED <<terminated, env, pc>>

Pong ==
    /\ Take({"ping"})
    /\ WorkerOnly /\ UNCHANGED <<handled, terminated, env, pc, stack, transfer>>

\* Mistake: the transfer goes on and refers to the frame that is gone.
LeaveTransfer(r) == UNCHANGED transfer
AbortTransfer(r) == transfer' = [transfer EXCEPT ![r] = IF r \in Fetches THEN "ended" ELSE @]

\* Mistake: only the drain that observes the end knows of it.
LatchNothing == UNCHANGED terminated
LatchEnd == terminated' = TRUE

\* The tick fails, and with it the wait that called it or the loop.
ObserveEnd ==
    /\ Take({"close", "disconnect"})
    /\ LatchEnd
    /\ IF Len(stack) = 1
       THEN pc' = "exited" /\ Return /\ UNCHANGED transfer
       ELSE /\ stack' = Front(Front(stack)) /\ AbortTransfer(Last(Front(stack)).req)
            /\ UNCHANGED pc
    /\ WorkerOnly /\ UNCHANGED <<handled, env>>

EndDrain ==
    /\ At({"drain"}) /\ Candidates = {}
    /\ Return
    /\ WorkerOnly /\ UNCHANGED <<inbox, handled, terminated, env, pc, transfer>>

-----------------------------------------------------------------------------
(* The loops of syncRequest and waitForImport after a tick.                 *)

WaitEnds ==
    /\ At({"wait"}) /\ transfer[Last(stack).req] = "ended"
    /\ Return
    /\ WorkerOnly /\ UNCHANGED <<inbox, handled, terminated, env, pc, transfer>>

Interrupted == \E i \in DOMAIN inbox : IsSyncWaitInterrupt(inbox[i])

\* The fetch is aborted for a message that only an outer drain can take, or
\* the next tick would fail.
WaitFails ==
    /\ At({"wait"}) /\ transfer[Last(stack).req] # "ended"
    /\ terminated \/ (Last(stack).req \in Fetches /\ Interrupted)
    /\ Return
    /\ AbortTransfer(Last(stack).req)
    /\ WorkerOnly /\ UNCHANGED <<inbox, handled, terminated, env, pc>>

WaitTicks ==
    /\ At({"wait"}) /\ transfer[Last(stack).req] # "ended"
    /\ ~terminated /\ ~(Last(stack).req \in Fetches /\ Interrupted)
    /\ Call(Performing("sync"))
    /\ WorkerOnly /\ UNCHANGED <<inbox, handled, terminated, env, pc, transfer>>

\* unregisterCdp, once the worker has left its loop.
Unregister ==
    /\ pc = "exited" /\ link = "live"
    /\ link' = "removed"
    /\ UNCHANGED <<pushed, inbox, handled, terminated, env, pc, stack, transfer>>

-----------------------------------------------------------------------------
NetworkStep == ReceiveFrame \/ ReceiveEnd \/ DropLink

Drain == DispatchCommand \/ DispatchAnswer \/ Pong \/ ObserveEnd \/ EndDrain

WorkerProceeds ==
    StartTick \/ EndPerform \/ Drain \/ WaitEnds \/ WaitFails \/ WaitTicks \/ Unregister

Next ==
    \/ NetworkStep \/ PushDisconnect
    \/ \E r \in Requests : StartWait(r)
    \/ TakeInterrupt \/ ScriptEnds \/ ScriptCondemned
    \/ RunMacrotask \/ SeeTerminate \/ Progress \/ RunCallback
    \/ WorkerProceeds

Spec == Init /\ [][Next]_vars

\* Threads are scheduled, and V8 runs an interrupt and unwinds a script it
\* terminates.  No client, server or script is expected to do anything.
Fairness ==
    /\ WF_vars(WorkerProceeds) /\ WF_vars(PushDisconnect)
    /\ WF_vars(TakeInterrupt) /\ WF_vars(env.killing /\ ScriptEnds)

FairSpec == Spec /\ Fairness

-----------------------------------------------------------------------------
(* Properties.                                                             *)

Frames ==
    {Script} \cup {Waiting(r) : r \in Requests}
    \cup [at : {"perform", "performed", "drain"}, mode : {"all", "sync"}]

\* A tick is the loop's own and drains everything, or a wait's and picks.
WellNested(frames) ==
    \A i \in DOMAIN frames : frames[i].at \in {"perform", "performed", "drain"} =>
        \/ i = 1 /\ frames[i].mode = "all"
        \/ i > 1 /\ frames[i - 1].at = "wait" /\ frames[i].mode = "sync"

TypeOK ==
    /\ link \in {"live", "dropping", "removed"}
    /\ pushed \in 0..(MaxMessages + 1)
    /\ inbox \in Seq([id : 1..pushed,
                      kind : {"fetch", "teardown", "command", "ping", "close", "disconnect"}])
    /\ handled \subseteq 1..pushed
    /\ terminated \in BOOLEAN
    /\ env \in [terminate : BOOLEAN, interrupt : BOOLEAN, killing : BOOLEAN]
    /\ pc \in {"loop", "tick", "exited"}
    /\ stack \in Seq(Frames)
    /\ WellNested(stack)
    /\ transfer \in [Requests -> {"none", "parked", "inflight", "ended"}]

\* The wait of a blocking request keeps the context its transfer writes to on
\* the stack; no transfer outlives it (HttpClient.zig:1860-1863).
NoDanglingContext ==
    \A r \in Fetches : transfer[r] \in {"parked", "inflight"} =>
        \E i \in DOMAIN stack : stack[i] = Waiting(r)

\* The messages that leave the inbox in this step.
Leaving == {inbox[i] : i \in DOMAIN inbox} \ {inbox'[i] : i \in DOMAIN inbox'}

\* Whatever is cherry-picked, a command is never overtaken by another command,
\* and an answer or a control message by nothing at all (Inbox.zig:94-98).
OnlyCommandsAreOvertaken ==
    [][\A m \in Leaving : \A i \in DOMAIN inbox' :
          inbox'[i].id < m.id => /\ inbox'[i].kind \in {"command", "teardown"}
                                 /\ m.kind \notin {"command", "teardown"}]_vars

\* "Every method listed here must be safe to dispatch with JS on the stack"
\* (HttpClient.zig:2091-2094): no other command is dispatched while a script is
\* there to unwind into what the command may free.
NothingFreedUnderAScript ==
    [][\A m \in Leaving : m.kind \in {"command", "teardown"} => Scripts(stack) = {}]_vars

\* Scripts end by themselves, for the properties that need it.
ScriptsEnd == []<>(~At({"script"}))

ImportsEnd == []<>(\A i \in DOMAIN stack : stack[i].at = "wait" => stack[i].req \in Fetches)

Queued(kind) == \E i \in DOMAIN inbox : inbox[i].kind = kind

\* A command that ends a page is dispatched even if a script waits for requests
\* nobody answers: each of them is aborted (HttpClient.zig:1867-1874).
TeardownTaken ==
    ScriptsEnd /\ ImportsEnd => (Queued("teardown") ~> ~Queued("teardown") \/ pc = "exited")

\* An answer to a paused request gets through to it while a script waits, be
\* it behind commands.
AnswersTaken == ScriptsEnd => (Queued("fetch") ~> ~Queued("fetch") \/ pc = "exited")

\* A connection that has ended ends its worker, wherever in a nest of waits it
\* was observed ("one-way latch", Inbox.zig:41-46).
EndedConnectionExits == ScriptsEnd => (link = "removed" ~> pc = "exited")

\* "Once a terminate is pending, don't dispatch" (CDP.zig:182): not while V8
\* kills the script that runs, and not after it.
KilledWorkerDispatchesNothing ==
    [][env.terminate /\ ~env.interrupt => handled' = handled]_vars
=============================================================================
