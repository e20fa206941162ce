------------------------------ MODULE CdpServer ------------------------------
(***************************************************************************)
(* The threads behind one CDP server and how they stop: the main thread    *)
(* runs Network.run and then Server.deinit, every connection has a worker  *)
(* thread (Server.handleConnection) whose read side it hands to the        *)
(* Network as a CdpLink, and the signal thread (Sighandler.zig) calls      *)
(* Network.stop and Server.shutdown.                                       *)
(*                                                                         *)
(* One action is one critical section of Server.cdp_mutex or of            *)
(* Network.cdp_mutex, or one step between two of them; a wake-up written   *)
(* right after an unlock is part of the section.  What a connection says   *)
(* is left out: only that a frame ends it matters here.                    *)
(***************************************************************************)
EXTENDS Integers, FiniteSets

CONSTANTS
    Workers,         \* the connections that may be accepted, a thread each
    MaxConnections,  \* --cdp-max-connections
    MaxSignals       \* bound: how often the process is told to terminate

ASSUME ServerAssumption ==
    IsFiniteSet(Workers) /\ MaxConnections \in Nat \ {0} /\ MaxSignals \in 0..2

VARIABLES
    worker,     \* per connection: its thread's place in handleConnection (pc), asleep on
                \* cdp_unregister, its socket at EOF, told (.close or .disconnect in its
                \* inbox), terminating (Env.terminate_requested), and the interrupt V8 was
                \* asked for: none, posted, or taken by a script
    link,       \* CdpLink.state
    network,    \* cdp_links, the poll snapshot, cdp_dirty, bytes in the wakeup pipe,
                \* the listener and the accept flag
    main,       \* the main thread: pc, and what poll returned (woken, ready)
    server,     \* cdps and active_threads
    shutdown,   \* Network.shutdown
    signal      \* the signal thread: which listener it calls next, attempt

vars == <<worker, link, network, main, server, shutdown, signal>>

\* Where the memory of a worker's CDP exists, and where its thread does.
Tracked   == {"handshake", "upgraded", "live", "registered", "ticking", "script",
              "leaving", "unregister", "untrack"}
HasMemory == Tracked \cup {"destroying"}
Running   == HasMemory \cup {"spawned", "closing"}

\* conn.state is .live.
Live(w) == worker[w].pc \in {"live", "registered", "ticking", "script", "leaving", "unregister"}

Init ==
    /\ worker = [w \in Workers |-> [pc |-> "none", asleep |-> FALSE, eof |-> FALSE,
                    told |-> FALSE, terminating |-> FALSE, interrupt |-> "none"]]
    /\ link = [w \in Workers |-> "live"]
    /\ network = [links |-> {}, snapshot |-> {}, dirty |-> FALSE, wake |-> FALSE,
                  listening |-> TRUE, accept |-> TRUE]
    /\ main = [pc |-> "starting", woken |-> FALSE, ready |-> {}]
    /\ server = [cdps |-> {}, active |-> 0]
    /\ shutdown = FALSE
    /\ signal = [pc |-> "idle", attempt |-> 0]

-----------------------------------------------------------------------------
(* Shared helpers, each preceded by a plausible mistake in it.             *)

MainGoesTo(place) == main' = [main EXCEPT !.pc = place]
WorkerGoesTo(w, place) == worker' = [worker EXCEPT ![w].pc = place]

\* Server.shutdown, under Server.cdp_mutex: stop accepting, interrupt the
\* script of every live connection, end the read side of all of them.
ShutdownServer ==
    /\ network' = [network EXCEPT !.accept = FALSE, !.wake = TRUE]
    /\ worker' = [w \in Workers |->
          IF w \notin server.cdps THEN worker[w]
          ELSE [worker[w] EXCEPT !.eof = TRUE,
                                 !.interrupt = IF Live(w) THEN "posted" ELSE @]]

\* Env.requestTerminate: a flag that stays, and one interrupt.
\* Mistake: no interrupt.
FlagTerminate(me) == [me EXCEPT !.terminating = TRUE]
RequestTerminate(me) == [me EXCEPT !.terminating = TRUE, !.interrupt = "posted"]

\* Mistake: the poll snapshot is not rebuilt after a drop.
DirtyKept(removed) == network.dirty
DirtyAfter(removed) == network.dirty \/ removed # {}

\* dropCdp for each of removed: notified are also told and terminated, quiet
\* have just pushed a .close message of their own.  Then cdp_unregister is
\* broadcast (by shutdownCdpLinks even if nothing was removed, in vain).
Drop(removed, notified, quiet) ==
    /\ link' = [w \in Workers |-> IF w \in removed THEN "removed" ELSE link[w]]
    /\ network' = [network EXCEPT !.links = @ \ removed, !.dirty = DirtyAfter(removed)]
    /\ worker' = [w \in Workers |->
          LET me == [worker[w] EXCEPT !.told = @ \/ w \in notified \cup quiet,
                                      !.asleep = @ /\ removed = {}]
          IN  IF w \in notified THEN RequestTerminate(me) ELSE me]

-----------------------------------------------------------------------------
(* The main thread: Network.run, then Server.deinit.                       *)

\* sighandler.on(Server.shutdown): waits for a signal being handled, and calls
\* the new listener at once if one was handled before.
RegisterSignalListener ==
    /\ main.pc = "starting" /\ signal.pc = "idle"
    /\ MainGoesTo("top")
    /\ IF signal.attempt > 0 THEN ShutdownServer ELSE UNCHANGED <<worker, network>>
    /\ UNCHANGED <<link, server, shutdown, signal>>

\* Close a listener that was unbound; prepareCdpPollFds.
PreparePoll ==
    /\ main.pc = "top"
    /\ MainGoesTo("poll")
    /\ network' = [network EXCEPT
          !.listening = @ /\ network.accept,
          !.snapshot = IF network.dirty THEN {w \in network.links : link[w] = "live"} ELSE @,
          !.dirty = FALSE]
    /\ UNCHANGED <<worker, link, server, shutdown, signal>>

\* poll() returns for a wakeup, a readable link or a connection.  Links at EOF
\* are readable; others are when their client sends something.
PollReturns ==
    /\ main.pc = "poll"
    /\ \E ready \in SUBSET network.snapshot :
          /\ {w \in network.snapshot : worker[w].eof} \subseteq ready
          /\ network.wake \/ ready # {} \/ network.listening
          /\ main' = [pc |-> "polled", woken |-> network.wake, ready |-> ready]
    /\ UNCHANGED <<worker, link, network, server, shutdown, signal>>

\* Also a byte written after poll returned is read here.
DrainWakeups ==
    /\ main.pc = "polled"
    /\ MainGoesTo("accepting")
    /\ network' = [network EXCEPT !.wake = @ /\ ~main.woken]
    /\ UNCHANGED <<worker, link, server, shutdown, signal>>

\* Mistake: one thread too many.
RoomForOneMore == server.active <= MaxConnections
RoomLeft == server.active < MaxConnections

\* acceptConnections, onAccept and spawnWorker; a connection that is refused
\* is closed and changes nothing.
Accept(w) ==
    /\ main.pc = "accepting" /\ network.listening
    /\ ~shutdown /\ RoomLeft
    /\ worker[w].pc = "none"
    /\ WorkerGoesTo(w, "spawned")
    /\ server' = [server EXCEPT !.active = @ + 1]
    /\ UNCHANGED <<link, network, main, shutdown, signal>>

\* accept4 found no other connection (EAGAIN).  Any other error is retried for
\* as long as it lasts (638), which is assumed not to be for ever.
EndAccept ==
    /\ main.pc = "accepting"
    /\ MainGoesTo("events")
    /\ UNCHANGED <<worker, link, network, server, shutdown, signal>>

Unregistering == {w \in network.links : link[w] = "unregistering"}

\* processCdpEvents: drop the links being unregistered; of those poll reported,
\* drop the ones at EOF or in error, and those whose close frame was read.  A
\* close frame received before Server.shutdown is still read after it.
ProcessCdpEvents ==
    /\ main.pc = "events"
    /\ LET readable == {w \in main.ready : link[w] = "live"}
           ended    == {w \in readable : worker[w].eof}
       IN  \E notified \in SUBSET readable : \E quiet \in SUBSET (readable \ notified) :
              /\ ended \subseteq IF network.accept THEN notified ELSE notified \cup quiet
              /\ Drop(Unregistering \cup notified \cup quiet, notified, quiet)
    /\ MainGoesTo("check")
    /\ UNCHANGED <<server, shutdown, signal>>

\* Mistake: the loop waits for its connections to end.
ShutdownOnceIdle == shutdown /\ server.active = 0
ShutdownRequested == shutdown

CheckShutdown ==
    /\ main.pc = "check"
    /\ MainGoesTo(IF ShutdownRequested THEN "drain" ELSE "top")
    /\ UNCHANGED <<worker, link, network, server, shutdown, signal>>

\* shutdownCdpLinks, and the end of Network.run.
DrainLinks ==
    /\ main.pc = "drain"
    /\ LET live == {w \in network.links : link[w] = "live"} IN Drop(live, live, {})
    /\ MainGoesTo("deinit")
    /\ UNCHANGED <<server, shutdown, signal>>

\* Server.deinit: shutdown, then wait until active_threads is 0, then free.
DeinitShutsDown ==
    /\ main.pc = "deinit"
    /\ ShutdownServer
    /\ MainGoesTo("join")
    /\ UNCHANGED <<link, server, shutdown, signal>>

\* Mistake: deinit waits for nobody.
JoinNobody == TRUE
AllThreadsGone == server.active = 0

FreeServer ==
    /\ main.pc = "join" /\ AllThreadsGone
    /\ MainGoesTo("freed")
    /\ UNCHANGED <<worker, link, network, server, shutdown, signal>>

MainProceeds ==
    \/ RegisterSignalListener \/ PreparePoll \/ DrainWakeups \/ EndAccept
    \/ ProcessCdpEvents \/ CheckShutdown \/ DrainLinks \/ DeinitShutsDown \/ FreeServer

MainStep == MainProceeds \/ PollReturns \/ \E w \in Workers : Accept(w)

-----------------------------------------------------------------------------
(* The signal thread, holding the mutex of the SigHandler from one signal's *)
(* arrival to the end of its listeners.                                     *)

SignalArrives ==
    /\ signal.pc = "idle" /\ signal.attempt < MaxSignals
    /\ signal' = [pc |-> "stop", attempt |-> signal.attempt + 1]
    /\ UNCHANGED <<worker, link, network, main, server, shutdown>>

WakePoll == network' = [network EXCEPT !.wake = TRUE]

\* Network.stop.
StopNetwork ==
    /\ signal.pc = "stop"
    /\ shutdown' = TRUE
    /\ WakePoll
    /\ signal' = [signal EXCEPT !.pc = IF main.pc = "starting" THEN "idle" ELSE "server"]
    /\ UNCHANGED <<worker, link, main, server>>

\* Server.shutdown; on a Server already freed anything may happen, and nothing
\* is modelled of it.
SignalShutsServer ==
    /\ signal.pc = "server"
    /\ signal' = [signal EXCEPT !.pc = "idle"]
    /\ IF main.pc # "freed" THEN ShutdownServer ELSE UNCHANGED <<worker, network>>
    /\ UNCHANGED <<link, main, server, shutdown>>

-----------------------------------------------------------------------------
(* A worker thread: Server.handleConnection.                               *)

\* Allocate and initialise the CDP, and track it.
Track(w) ==
    /\ worker[w].pc = "spawned"
    /\ server' = [server EXCEPT !.cdps = @ \cup {w}]
    /\ WorkerGoesTo(w, "handshake")
    /\ UNCHANGED <<link, network, main, shutdown, signal>>

StillCounted == UNCHANGED server

\* CDP.init fails: free the CDP.
InitFails(w) ==
    /\ worker[w].pc = "spawned"
    /\ WorkerGoesTo(w, "closing")
    /\ StillCounted
    /\ UNCHANGED <<link, network, main, shutdown, signal>>

\* Upgraded to a WebSocket, or over: refused, timed out, EOF.
HandshakeEnds(w) ==
    /\ worker[w].pc = "handshake"
    /\ \E place \in {"upgraded", "untrack"} : WorkerGoesTo(w, place)
    /\ UNCHANGED <<link, network, main, server, shutdown, signal>>

MarkLive(w) ==
    /\ worker[w].pc = "upgraded"
    /\ WorkerGoesTo(w, "live")
    /\ UNCHANGED <<link, network, main, server, shutdown, signal>>

RegisterCdp(w) ==
    /\ worker[w].pc = "live"
    /\ WorkerGoesTo(w, "registered")
    /\ network' = [network EXCEPT !.links = @ \cup {w}, !.dirty = TRUE, !.wake = TRUE]
    /\ UNCHANGED <<link, main, server, shutdown, signal>>

\* Mistake: the check is left out.
ShutdownUnseen == FALSE
ShutdownSeen == shutdown

WorkerChecksShutdown(w) ==
    /\ worker[w].pc = "registered"
    /\ WorkerGoesTo(w, IF ShutdownSeen THEN "leaving" ELSE "ticking")
    /\ UNCHANGED <<link, network, main, server, shutdown, signal>>

\* The drain comes to the end of the inbox, or this tick returns and the head
\* of the next one, which alone looks at the flag, returns false.
TickEnds(w) ==
    /\ worker[w].pc = "ticking" /\ (worker[w].told \/ worker[w].terminating)
    /\ WorkerGoesTo(w, "leaving")
    /\ UNCHANGED <<link, network, main, server, shutdown, signal>>

\* CDP.tick fails for a reason of its own.
TickFails(w) ==
    /\ worker[w].pc = "ticking"
    /\ WorkerGoesTo(w, "leaving")
    /\ UNCHANGED <<link, network, main, server, shutdown, signal>>

\* A command, a task or an event runs script, also one that a terminate has
\* overtaken: onMessage only asks whether V8 is unwinding.
EnterScript(w) ==
    /\ worker[w].pc = "ticking"
    /\ WorkerGoesTo(w, "script")
    /\ UNCHANGED <<link, network, main, server, shutdown, signal>>

\* By itself, which it need not ever; an interrupt it did not take stays.
ScriptEnds(w) ==
    /\ worker[w].pc = "script"
    /\ WorkerGoesTo(w, "ticking")
    /\ UNCHANGED <<link, network, main, server, shutdown, signal>>

\* V8 takes the interrupt and unwinds this script, and no later one.
ScriptInterrupted(w) ==
    /\ worker[w].pc = "script" /\ worker[w].interrupt = "posted"
    /\ worker' = [worker EXCEPT ![w].pc = "ticking", ![w].interrupt = "taken"]
    /\ UNCHANGED <<link, network, main, server, shutdown, signal>>

\* Mistake: poll is not woken.
UnregisterSilently == network' = [network EXCEPT !.dirty = TRUE]
AskToUnregister == network' = [network EXCEPT !.dirty = TRUE, !.wake = TRUE]

\* unregisterCdp: a link the Network already removed is done; else ask it to,
\* and wait.
UnregisterCdp(w) ==
    /\ worker[w].pc = "leaving"
    /\ IF link[w] = "removed"
       THEN WorkerGoesTo(w, "untrack") /\ UNCHANGED <<link, network>>
       ELSE /\ link' = [link EXCEPT ![w] = "unregistering"]
            /\ AskToUnregister
            /\ worker' = [worker EXCEPT ![w].pc = "unregister", ![w].asleep = TRUE]
    /\ UNCHANGED <<main, server, shutdown, signal>>

\* Woken by a broadcast, it looks again.
UnregisterWakes(w) ==
    /\ worker[w].pc = "unregister" /\ ~worker[w].asleep
    /\ worker' = [worker EXCEPT ![w].pc = IF link[w] = "removed" THEN "untrack" ELSE @,
                                ![w].asleep = link[w] # "removed"]
    /\ UNCHANGED <<link, network, main, server, shutdown, signal>>

\* Mistake: the worker stays in cdps.
StayTracked(w) == UNCHANGED server
Forget(w) == server' = [server EXCEPT !.cdps = @ \ {w}]

Untrack(w) ==
    /\ worker[w].pc = "untrack"
    /\ Forget(w)
    /\ WorkerGoesTo(w, "destroying")
    /\ UNCHANGED <<link, network, main, shutdown, signal>>

\* CDP.deinit and cdp_pool.destroy.
Destroy(w) ==
    /\ worker[w].pc = "destroying"
    /\ WorkerGoesTo(w, "closing")
    /\ UNCHANGED <<link, network, main, server, shutdown, signal>>

\* Close the socket and leave active_threads.
ThreadEnds(w) ==
    /\ worker[w].pc = "closing"
    /\ WorkerGoesTo(w, "gone")
    /\ server' = [server EXCEPT !.active = @ - 1]
    /\ UNCHANGED <<link, network, main, shutdown, signal>>

WorkerProceeds(w) ==
    \/ Track(w) \/ InitFails(w) \/ MarkLive(w) \/ RegisterCdp(w) \/ WorkerChecksShutdown(w)
    \/ UnregisterCdp(w) \/ UnregisterWakes(w)
    \/ Untrack(w) \/ Destroy(w) \/ ThreadEnds(w)

WorkerStep(w) ==
    \/ WorkerProceeds(w) \/ HandshakeEnds(w)
    \/ TickEnds(w) \/ TickFails(w)
    \/ EnterScript(w) \/ ScriptEnds(w) \/ ScriptInterrupted(w)

\* The client closes its socket.
ClientLeaves(w) ==
    /\ worker[w].pc \in Running /\ ~worker[w].eof
    /\ worker' = [worker EXCEPT ![w].eof = TRUE]
    /\ UNCHANGED <<link, network, main, server, shutdown, signal>>

-----------------------------------------------------------------------------
Next ==
    \/ MainStep
    \/ SignalArrives \/ StopNetwork \/ SignalShutsServer
    \/ \E w \in Workers : WorkerStep(w) \/ ClientLeaves(w)

Spec == Init /\ [][Next]_vars

\* Threads are scheduled; poll returns when a byte or an EOF is there; a
\* handshake ends (it polls for 5 s at a time, and its request is bounded); a
\* tick that comes out of script again and again drains the inbox and returns
\* (its wait lasts a second and its tasks half of one); V8 unwinds the script
\* that takes an interrupt.  No client, script or signal is forced to do
\* anything: a script that starts once the interrupt was taken may never end.
PollMustReturn == network.wake \/ \E w \in network.snapshot : worker[w].eof

LoopFairness ==
    /\ WF_vars(MainProceeds) /\ WF_vars(PollMustReturn /\ PollReturns)
    /\ WF_vars(StopNetwork \/ SignalShutsServer)

Fairness ==
    /\ LoopFairness
    /\ \A w \in Workers :
          /\ WF_vars(WorkerProceeds(w)) /\ WF_vars(HandshakeEnds(w))
          /\ SF_vars(TickEnds(w)) /\ WF_vars(ScriptInterrupted(w))

\* NetworkStops needs nothing of the workers.
LoopSpec == Spec /\ LoopFairness
FairSpec == Spec /\ Fairness

-----------------------------------------------------------------------------
(* Properties.                                                             *)

TypeOK ==
    /\ worker \in [Workers -> [pc : Running \cup {"none", "gone"}, asleep : BOOLEAN,
                               eof : BOOLEAN, told : BOOLEAN, terminating : BOOLEAN,
                               interrupt : {"none", "posted", "taken"}]]
    /\ link \in [Workers -> {"live", "unregistering", "removed"}]
    /\ network \in [links : SUBSET Workers, snapshot : SUBSET Workers, dirty : BOOLEAN,
                    wake : BOOLEAN, listening : BOOLEAN, accept : BOOLEAN]
    /\ main \in [pc : {"starting", "top", "poll", "polled", "accepting", "events", "check",
                       "drain", "deinit", "join", "freed"},
                 woken : BOOLEAN, ready : SUBSET Workers]
    /\ server \in [cdps : SUBSET Workers, active : Nat]
    /\ shutdown \in BOOLEAN
    /\ signal \in [pc : {"idle", "stop", "server"}, attempt : 0..MaxSignals]

\* The Network thread only follows a link whose CDP exists: cdp_links holds no
\* other, and when it walks the poll snapshot, taken before poll() without the
\* lock being held since, neither does the snapshot (Network.zig:333-335, 448).
LinksInMemory ==
    \A w \in network.links \cup (IF main.pc = "events" THEN network.snapshot ELSE {}) :
        worker[w].pc \in HasMemory

\* Server.shutdown, from the signal thread or from deinit, only walks CDPs that
\* exist, and deinit frees the Server when no thread of it runs.
ServerOutlivesItsThreads ==
    /\ \A w \in server.cdps : worker[w].pc \in HasMemory
    /\ main.pc = "freed" => \A w \in Workers : worker[w].pc \notin Running

\* The assertion of prepareCdpPollFds: the snapshot has room for every link,
\* since a worker leaves active_threads only after its link was removed.
PollSnapshotFits == Cardinality(network.links) <= MaxConnections

\* "a concurrent shutdown either sees us as .live and terminates us, or we
\* observe the stop signal here" (Server.zig:259-261): once the listeners of a
\* signal have run, no worker goes on ticking whose socket was not ended.
NoWorkerMissesShutdown ==
    shutdown /\ signal.pc = "idle" =>
        \A w \in Workers : worker[w].pc \in {"ticking", "script"} => worker[w].eof

\* A client that goes away while the Network reads its link takes its worker
\* with it, even from a script that would not end and with the Watchdog off
\* (terminateFromNetwork "protects against a stuck worker", CDP.zig:169-170),
\* unless the rest of the tick starts another script that does not end: the
\* one interrupt was taken by then.  With no signal sent.
LaterScriptsEnd(w) == []<>~(worker[w].pc = "script" /\ worker[w].interrupt = "taken")

DeadConnectionEnds ==
    \A w \in Workers :
        LaterScriptsEnd(w) => (worker[w].eof /\ link[w] = "live" ~> worker[w].pc = "gone")

\* unregisterCdp returns: neither the wake-up of the Network nor the broadcast
\* back is lost.  With no signal sent.
UnregisterReturns ==
    \A w \in Workers : worker[w].pc = "unregister" ~> worker[w].pc = "gone"

\* Network.stop ends Network.run, whatever poll was waiting for.
NetworkStops == shutdown ~> main.pc \in {"deinit", "join", "freed"}

\* "Otherwise we could miss it and block deinit() indefinitely"
\* (Server.zig:259-261): the worker's check of the shutdown after its link was
\* registered lets Server.deinit return, at least when shutdownCdpLinks left
\* no link behind (it skips one that a worker has just asked to unregister).
DeinitReturns == main.pc = "join" /\ network.links = {} ~> main.pc = "freed"

\* "Lock needed ... because shutdown could access this from the sighandler
\* thread" (Server.zig:230-232): the signal thread finds the Server, and the
\* mutex in it, when it calls Server.shutdown.
SignalThreadSeesServer == signal.pc = "server" => main.pc # "freed"
=============================================================================
