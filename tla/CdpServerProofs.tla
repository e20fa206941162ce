--------------------------- MODULE CdpServerProofs ---------------------------
(***************************************************************************)
(* For any finite set of connections, any limit on them and any number of    *)
(* signals: the Network thread and a shutdown only follow CDPs that exist,   *)
(* the poll snapshot has room, the Server is freed when no thread of it      *)
(* runs, and no worker goes on ticking past a shutdown.                     *)
(***************************************************************************)
EXTENDS CdpServer, FiniteSetTheorems, TLAPS

\* Between registerCdp and the end of unregisterCdp; before registerCdp.
Registered   == {"registered", "ticking", "script", "leaving", "unregister"}
Unregistered == {"none", "spawned", "handshake", "upgraded", "live"}

Places == Running \cup {"none", "gone"}

WorkerRecord ==
    [pc : Places, asleep : BOOLEAN, eof : BOOLEAN, told : BOOLEAN,
     terminating : BOOLEAN, interrupt : {"none", "posted", "taken"}]

\* cdp_links holds registered workers only, whose link the Network has not removed; a link that was
\* not registered yet is live.
LinksHeld ==
    \A w \in Workers :
        /\ w \in network.links => worker[w].pc \in Registered /\ link[w] # "removed"
        /\ worker[w].pc \in Unregistered => link[w] = "live"

\* From prepareCdpPollFds to processCdpEvents, and for as long as cdp_dirty is not set, the snapshot
\* holds nothing but links; so does what poll has found readable.
SnapshotHeld ==
    /\ main.pc \in {"poll", "polled", "accepting", "events"} \/ ~network.dirty =>
            network.snapshot \subseteq network.links
    /\ main.pc \in {"polled", "accepting", "events"} => main.ready \subseteq network.links

RunningWorkers == {w \in Workers : worker[w].pc \in Running}

\* cdps holds the tracked workers, active_threads counts the threads.
ThreadsCounted ==
    /\ \A w \in Workers : w \in server.cdps <=> worker[w].pc \in Tracked
    /\ server.active = Cardinality(RunningWorkers)
    /\ server.active <= MaxConnections
    /\ main.pc = "freed" => server.active = 0
    /\ main.pc = "starting" => \A w \in Workers : worker[w].pc = "none"

IInv == TypeOK /\ LinksHeld /\ SnapshotHeld /\ ThreadsCounted /\ NoWorkerMissesShutdown

-----------------------------------------------------------------------------
(* Threads and their count. *)

LEMMA RunningFinite ==
    /\ IsFiniteSet(RunningWorkers)
    /\ Cardinality(RunningWorkers) \in Nat
    /\ \A w \in RunningWorkers : Cardinality(RunningWorkers) # 0
<1>1. IsFiniteSet(RunningWorkers)
  BY ServerAssumption, FS_Subset DEF RunningWorkers
<1> QED
  BY <1>1, FS_CardinalityType, FS_EmptySet

\* Every worker's record is one, and has these fields.
LEMMA WorkerFields ==
    ASSUME TypeOK, NEW w \in Workers
    PROVE  /\ worker[w] \in WorkerRecord
           /\ worker[w].pc \in Places
BY DEF TypeOK, WorkerRecord, Places

LEMMA GoesTo ==
    ASSUME TypeOK, NEW w \in Workers, NEW place \in Places, WorkerGoesTo(w, place)
    PROVE  /\ worker' \in [Workers -> WorkerRecord]
           /\ worker'[w].pc = place
           /\ \A v \in Workers : /\ v # w => worker'[v].pc = worker[v].pc
                                 /\ worker'[v].eof = worker[v].eof
BY DEF TypeOK, WorkerRecord, Places, WorkerGoesTo

\* A worker that goes from one place to another, and leaves everything that is shared as it is.
LEMMA Move ==
    ASSUME IInv, NEW w \in Workers,
           worker' \in [Workers -> WorkerRecord],
           \A v \in Workers : /\ v # w => worker'[v].pc = worker[v].pc
                              /\ worker[v].eof => worker'[v].eof,
           UNCHANGED <<link, network, main, server, shutdown, signal>>,
           worker[w].pc \in Running, worker'[w].pc \in Running,
           worker[w].pc \in Tracked <=> worker'[w].pc \in Tracked,
           w \in network.links => worker'[w].pc \in Registered,
           worker'[w].pc \in Unregistered => worker[w].pc \in Unregistered,
           worker'[w].pc \in {"ticking", "script"} =>
                worker[w].pc \in {"ticking", "script"} \/ ~shutdown
    PROVE  IInv'
<1>1. TypeOK'
  BY DEF IInv, TypeOK, WorkerRecord, Places
<1>2. LinksHeld'
  BY DEF IInv, LinksHeld
<1>3. SnapshotHeld'
  BY DEF IInv, SnapshotHeld
<1>4. ThreadsCounted'
  <2>1. RunningWorkers' = RunningWorkers
    BY DEF RunningWorkers
  <2>2. main.pc # "starting"
    BY DEF IInv, ThreadsCounted, Running, HasMemory, Tracked
  <2> QED
    BY <2>1, <2>2 DEF IInv, ThreadsCounted
<1>5. NoWorkerMissesShutdown'
  BY DEF IInv, NoWorkerMissesShutdown
<1> QED
  BY <1>1, <1>2, <1>3, <1>4, <1>5 DEF IInv

-----------------------------------------------------------------------------
(* The steps of a worker. *)

LEMMA PlainMoves ==
    ASSUME IInv, NEW w \in Workers,
           \/ InitFails(w) \/ HandshakeEnds(w) \/ MarkLive(w) \/ WorkerChecksShutdown(w)
           \/ TickEnds(w) \/ TickFails(w) \/ EnterScript(w) \/ ScriptEnds(w) \/ Destroy(w)
    PROVE  IInv'
<1>0. TypeOK /\ LinksHeld
  BY DEF IInv
<1> USE DEF Running, HasMemory, Tracked, Registered, Unregistered, Places
<1>1. CASE InitFails(w)
  <2>1. w \notin network.links
    BY <1>0, <1>1 DEF InitFails, LinksHeld
  <2> QED
    BY <1>0, <1>1, <2>1, GoesTo, Move DEF InitFails, StillCounted
<1>2. CASE HandshakeEnds(w)
  <2>1. w \notin network.links
    BY <1>0, <1>2 DEF HandshakeEnds, LinksHeld
  <2>2. PICK place \in {"upgraded", "untrack"} : WorkerGoesTo(w, place)
    BY <1>2 DEF HandshakeEnds
  <2> QED
    BY <1>0, <1>2, <2>1, <2>2, GoesTo, Move DEF HandshakeEnds
<1>3. CASE MarkLive(w)
  <2>1. w \notin network.links
    BY <1>0, <1>3 DEF MarkLive, LinksHeld
  <2> QED
    BY <1>0, <1>3, <2>1, GoesTo, Move DEF MarkLive
<1>4. CASE WorkerChecksShutdown(w)
  BY <1>0, <1>4, GoesTo, Move DEF WorkerChecksShutdown, ShutdownSeen
<1>5. CASE TickEnds(w) \/ TickFails(w)
  BY <1>0, <1>5, GoesTo, Move DEF TickEnds, TickFails
<1>6. CASE EnterScript(w) \/ ScriptEnds(w)
  BY <1>0, <1>6, GoesTo, Move DEF EnterScript, ScriptEnds
<1>7. CASE Destroy(w)
  <2>1. w \notin network.links
    BY <1>0, <1>7 DEF Destroy, LinksHeld
  <2> QED
    BY <1>0, <1>7, <2>1, GoesTo, Move DEF Destroy
<1> QED
  BY <1>1, <1>2, <1>3, <1>4, <1>5, <1>6, <1>7

\* One worker's record is replaced by another.
LEMMA Replaced ==
    ASSUME TypeOK, NEW w \in Workers, NEW r \in WorkerRecord, worker' = [worker EXCEPT ![w] = r]
    PROVE  /\ worker' \in [Workers -> WorkerRecord]
           /\ worker'[w] = r
           /\ \A v \in Workers : v # w => worker'[v] = worker[v]
<1>1. worker \in [Workers -> WorkerRecord]
  BY DEF TypeOK, WorkerRecord, Places
<1> QED
  BY <1>1

LEMMA OtherMoves ==
    ASSUME IInv, NEW w \in Workers, ScriptInterrupted(w) \/ UnregisterWakes(w) \/ ClientLeaves(w)
    PROVE  IInv'
<1>0. TypeOK /\ LinksHeld
  BY DEF IInv
<1> {"ticking", "untrack", "unregister"} \subseteq Places
  BY DEF Places, Running, HasMemory, Tracked
<1>1. CASE ScriptInterrupted(w)
  <2>1. /\ worker' \in [Workers -> WorkerRecord]
        /\ worker'[w].pc = "ticking"
        /\ \A v \in Workers : /\ v # w => worker'[v].pc = worker[v].pc
                              /\ worker'[v].eof = worker[v].eof
    <3> DEFINE u == [worker[w] EXCEPT !.pc = "ticking", !.interrupt = "taken"]
    <3>1. worker' = [worker EXCEPT ![w] = u]
      BY <1>1 DEF ScriptInterrupted
    <3>2. u \in WorkerRecord /\ u.pc = "ticking" /\ u.eof = worker[w].eof
      BY <1>0, WorkerFields DEF WorkerRecord
    <3> HIDE DEF u
    <3> QED
      BY <1>0, <3>1, <3>2, Replaced
  <2>2. worker[w].pc = "script" /\ UNCHANGED <<link, network, main, server, shutdown, signal>>
    BY <1>1 DEF ScriptInterrupted
  <2> QED
    BY <2>1, <2>2, Move DEF Running, HasMemory, Tracked, Registered, Unregistered
<1>2. CASE UnregisterWakes(w)
  <2>1. /\ worker' \in [Workers -> WorkerRecord]
        /\ worker'[w].pc = IF link[w] = "removed" THEN "untrack" ELSE "unregister"
        /\ \A v \in Workers : /\ v # w => worker'[v].pc = worker[v].pc
                              /\ worker'[v].eof = worker[v].eof
    <3> DEFINE place == IF link[w] = "removed" THEN "untrack" ELSE "unregister"
    <3> DEFINE u == [worker[w] EXCEPT !.pc = place, !.asleep = (link[w] # "removed")]
    <3>1. worker' = [worker EXCEPT ![w] = u]
      BY <1>2 DEF UnregisterWakes
    <3>2. u \in WorkerRecord /\ u.pc = place /\ u.eof = worker[w].eof
      BY <1>0, WorkerFields DEF WorkerRecord
    <3> HIDE DEF u
    <3> QED
      BY <1>0, <3>1, <3>2, Replaced
  <2>2. w \in network.links => link[w] # "removed"
    BY <1>0 DEF LinksHeld
  <2>3. worker[w].pc = "unregister" /\ UNCHANGED <<link, network, main, server, shutdown, signal>>
    BY <1>2 DEF UnregisterWakes
  <2> QED
    BY <2>1, <2>2, <2>3, Move DEF Running, HasMemory, Tracked, Registered, Unregistered
<1>3. CASE ClientLeaves(w)
  <2>1. /\ worker' \in [Workers -> WorkerRecord]
        /\ \A v \in Workers : worker'[v].pc = worker[v].pc /\ (worker[v].eof => worker'[v].eof)
    <3> DEFINE u == [worker[w] EXCEPT !.eof = TRUE]
    <3>1. worker' = [worker EXCEPT ![w] = u]
      BY <1>3 DEF ClientLeaves
    <3>2. u \in WorkerRecord /\ u.pc = worker[w].pc /\ u.eof
      BY <1>0, WorkerFields DEF WorkerRecord
    <3> HIDE DEF u
    <3> QED
      BY <1>0, <3>1, <3>2, Replaced
  <2>2. w \in network.links => worker[w].pc \in Registered
    BY <1>0 DEF LinksHeld
  <2>3. worker[w].pc \in Running /\ UNCHANGED <<link, network, main, server, shutdown, signal>>
    BY <1>3 DEF ClientLeaves
  <2> QED
    BY <2>1, <2>2, <2>3, Move
<1> QED
  BY <1>1, <1>2, <1>3

\* What a step of a worker among its threads has to say about the rest of it.
LEMMA SamePlaces ==
    ASSUME IInv, NEW w \in Workers,
           \A v \in Workers : /\ v # w => worker'[v].pc = worker[v].pc
                              /\ worker[v].eof => worker'[v].eof,
           worker[w].pc \in Running, worker'[w].pc \in Running
    PROVE  /\ RunningWorkers' = RunningWorkers
           /\ main.pc # "starting"
<1>1. main.pc # "starting"
  BY DEF IInv, ThreadsCounted, Running, HasMemory, Tracked
<1> QED
  BY <1>1 DEF RunningWorkers

\* A worker enters cdps.
LEMMA TrackStep == ASSUME IInv, NEW w \in Workers, Track(w) PROVE IInv'
<1>0. TypeOK /\ LinksHeld /\ SnapshotHeld /\ ThreadsCounted /\ NoWorkerMissesShutdown
  BY DEF IInv
<1>1. /\ worker' \in [Workers -> WorkerRecord] /\ worker'[w].pc = "handshake"
      /\ \A v \in Workers : /\ v # w => worker'[v].pc = worker[v].pc
                            /\ worker'[v].eof = worker[v].eof
  BY <1>0, GoesTo DEF Track, Places, Running, HasMemory, Tracked
<1>2. server' = [server EXCEPT !.cdps = @ \cup {w}]
  BY DEF Track
<1>3. TypeOK'
  BY <1>0, <1>1, <1>2 DEF Track, TypeOK, WorkerRecord, Places
<1>4. LinksHeld'
  BY <1>0, <1>1 DEF Track, LinksHeld, Registered, Unregistered
<1>5. SnapshotHeld'
  BY <1>0 DEF Track, SnapshotHeld
<1>6. ThreadsCounted'
  <2>1. RunningWorkers' = RunningWorkers /\ main.pc # "starting"
    BY <1>1, SamePlaces DEF Track, Running, HasMemory, Tracked
  <2>2. /\ server' \in [cdps : SUBSET Workers, active : Nat]
        /\ server'.cdps = server.cdps \cup {w} /\ server'.active = server.active
    BY <1>0, <1>2 DEF TypeOK
  <2>3. \A v \in Workers : v \in server'.cdps <=> worker'[v].pc \in Tracked
    BY <1>0, <1>1, <2>2 DEF ThreadsCounted, Tracked
  <2> QED
    BY <1>0, <2>1, <2>2, <2>3 DEF Track, ThreadsCounted
<1>7. NoWorkerMissesShutdown'
  BY <1>0, <1>1 DEF Track, NoWorkerMissesShutdown
<1> QED
  BY <1>3, <1>4, <1>5, <1>6, <1>7 DEF IInv

\* And leaves it.
LEMMA UntrackStep == ASSUME IInv, NEW w \in Workers, Untrack(w) PROVE IInv'
<1>0. TypeOK /\ LinksHeld /\ SnapshotHeld /\ ThreadsCounted /\ NoWorkerMissesShutdown
  BY DEF IInv
<1>1. /\ worker' \in [Workers -> WorkerRecord] /\ worker'[w].pc = "destroying"
      /\ \A v \in Workers : /\ v # w => worker'[v].pc = worker[v].pc
                            /\ worker'[v].eof = worker[v].eof
  BY <1>0, GoesTo DEF Untrack, Places, Running, HasMemory, Tracked
<1>2. server' = [server EXCEPT !.cdps = @ \ {w}]
  BY DEF Untrack, Forget
<1>3. TypeOK'
  BY <1>0, <1>1, <1>2 DEF Untrack, TypeOK, WorkerRecord, Places
<1>4. LinksHeld'
  BY <1>0, <1>1 DEF Untrack, LinksHeld, Registered, Unregistered
<1>5. SnapshotHeld'
  BY <1>0 DEF Untrack, SnapshotHeld
<1>6. ThreadsCounted'
  <2>1. RunningWorkers' = RunningWorkers /\ main.pc # "starting"
    BY <1>1, SamePlaces DEF Untrack, Running, HasMemory, Tracked
  <2>2. /\ server' \in [cdps : SUBSET Workers, active : Nat]
        /\ server'.cdps = server.cdps \ {w} /\ server'.active = server.active
    BY <1>0, <1>2 DEF TypeOK
  <2>3. \A v \in Workers : v \in server'.cdps <=> worker'[v].pc \in Tracked
    BY <1>0, <1>1, <2>2 DEF ThreadsCounted, Tracked
  <2> QED
    BY <1>0, <2>1, <2>2, <2>3 DEF Untrack, ThreadsCounted
<1>7. NoWorkerMissesShutdown'
  BY <1>0, <1>1 DEF Untrack, NoWorkerMissesShutdown
<1> QED
  BY <1>3, <1>4, <1>5, <1>6, <1>7 DEF IInv

NetworkRecord ==
    [links : SUBSET Workers, snapshot : SUBSET Workers, dirty : BOOLEAN,
     wake : BOOLEAN, listening : BOOLEAN, accept : BOOLEAN]

\* A worker hands its link to the Network.
LEMMA RegisterStep == ASSUME IInv, NEW w \in Workers, RegisterCdp(w) PROVE IInv'
<1>0. TypeOK /\ LinksHeld /\ SnapshotHeld /\ ThreadsCounted /\ NoWorkerMissesShutdown
  BY DEF IInv
<1>1. /\ worker' \in [Workers -> WorkerRecord] /\ worker'[w].pc = "registered"
      /\ \A v \in Workers : /\ v # w => worker'[v].pc = worker[v].pc
                            /\ worker'[v].eof = worker[v].eof
  BY <1>0, GoesTo DEF RegisterCdp, Places, Running, HasMemory, Tracked
<1>2. /\ network' \in NetworkRecord
      /\ network'.links = network.links \cup {w}
      /\ network'.snapshot = network.snapshot /\ network'.dirty
  BY <1>0 DEF RegisterCdp, TypeOK, NetworkRecord
<1>3. TypeOK'
  BY <1>0, <1>1, <1>2 DEF RegisterCdp, TypeOK, WorkerRecord, NetworkRecord, Places
<1>4. LinksHeld'
  BY <1>0, <1>1, <1>2 DEF RegisterCdp, LinksHeld, Registered, Unregistered
<1>5. SnapshotHeld'
  BY <1>0, <1>2 DEF RegisterCdp, SnapshotHeld
<1>6. ThreadsCounted'
  <2>1. RunningWorkers' = RunningWorkers /\ main.pc # "starting"
    BY <1>1, SamePlaces DEF RegisterCdp, Running, HasMemory, Tracked
  <2>2. \A v \in Workers : v \in server.cdps <=> worker'[v].pc \in Tracked
    BY <1>0, <1>1 DEF RegisterCdp, ThreadsCounted, Tracked
  <2> QED
    BY <1>0, <2>1, <2>2 DEF RegisterCdp, ThreadsCounted
<1>7. NoWorkerMissesShutdown'
  BY <1>0, <1>1 DEF RegisterCdp, NoWorkerMissesShutdown
<1> QED
  BY <1>3, <1>4, <1>5, <1>6, <1>7 DEF IInv

\* It asks for it back.
LEMMA UnregisterStep == ASSUME IInv, NEW w \in Workers, UnregisterCdp(w) PROVE IInv'
<1>0. TypeOK /\ LinksHeld /\ SnapshotHeld /\ ThreadsCounted /\ NoWorkerMissesShutdown
  BY DEF IInv
<1>1. CASE link[w] = "removed"
  <2>1. /\ worker' \in [Workers -> WorkerRecord] /\ worker'[w].pc = "untrack"
        /\ \A v \in Workers : /\ v # w => worker'[v].pc = worker[v].pc
                              /\ worker'[v].eof = worker[v].eof
    BY <1>0, <1>1, GoesTo DEF UnregisterCdp, Places, Running, HasMemory, Tracked
  <2>2. w \notin network.links
    BY <1>0, <1>1 DEF LinksHeld
  <2>3. worker[w].pc = "leaving" /\ UNCHANGED <<link, network, main, server, shutdown, signal>>
    BY <1>1 DEF UnregisterCdp
  <2> QED
    BY <2>1, <2>2, <2>3, Move DEF Running, HasMemory, Tracked, Registered, Unregistered
<1>2. CASE link[w] # "removed"
  <2>1. /\ worker' \in [Workers -> WorkerRecord] /\ worker'[w].pc = "unregister"
        /\ \A v \in Workers : /\ v # w => worker'[v].pc = worker[v].pc
                              /\ worker'[v].eof = worker[v].eof
    <3> DEFINE u == [worker[w] EXCEPT !.pc = "unregister", !.asleep = TRUE]
    <3>1. worker' = [worker EXCEPT ![w] = u]
      BY <1>2 DEF UnregisterCdp
    <3>2. "unregister" \in Places
      BY DEF Places, Running, HasMemory, Tracked
    <3>3. u \in WorkerRecord /\ u.pc = "unregister" /\ u.eof = worker[w].eof
      BY <1>0, <3>2, WorkerFields DEF WorkerRecord
    <3> HIDE DEF u
    <3> QED
      BY <1>0, <3>1, <3>3, Replaced
  <2>2. /\ network' \in NetworkRecord /\ network'.links = network.links
        /\ network'.snapshot = network.snapshot /\ network'.dirty
    BY ZenonT(60), <1>0, <1>2 DEF UnregisterCdp, AskToUnregister, TypeOK, NetworkRecord
  <2>3. link' = [link EXCEPT ![w] = "unregistering"] /\ worker[w].pc = "leaving"
        /\ UNCHANGED <<main, server, shutdown, signal>>
    BY <1>2 DEF UnregisterCdp
  <2>4. TypeOK'
    BY <1>0, <2>1, <2>2, <2>3 DEF TypeOK, WorkerRecord, NetworkRecord, Places
  <2>5. LinksHeld'
    <3>1. /\ link'[w] = "unregistering"
          /\ \A v \in Workers : v # w => link'[v] = link[v]
      BY <1>0, <2>3 DEF TypeOK
    <3> QED
      BY <1>0, <2>1, <2>2, <3>1 DEF LinksHeld, Registered, Unregistered
  <2>6. SnapshotHeld'
    BY <1>0, <2>2, <2>3 DEF SnapshotHeld
  <2>7. ThreadsCounted'
    <3>1. RunningWorkers' = RunningWorkers /\ main.pc # "starting"
      BY <2>1, <2>3, SamePlaces DEF Running, HasMemory, Tracked
    <3>2. \A v \in Workers : v \in server.cdps <=> worker'[v].pc \in Tracked
      BY <1>0, <2>1, <2>3 DEF ThreadsCounted, Tracked
    <3> QED
      BY <1>0, <2>3, <3>1, <3>2 DEF ThreadsCounted
  <2>8. NoWorkerMissesShutdown'
    BY <1>0, <2>1, <2>3 DEF NoWorkerMissesShutdown
  <2> QED
    BY <2>4, <2>5, <2>6, <2>7, <2>8 DEF IInv
<1> QED
  BY <1>1, <1>2

\* A thread ends: the count of the others is one less.
LEMMA ThreadEndsStep == ASSUME IInv, NEW w \in Workers, ThreadEnds(w) PROVE IInv'
<1>0. TypeOK /\ LinksHeld /\ SnapshotHeld /\ ThreadsCounted /\ NoWorkerMissesShutdown
  BY DEF IInv
<1>1. /\ worker' \in [Workers -> WorkerRecord] /\ worker'[w].pc = "gone"
      /\ \A v \in Workers : /\ v # w => worker'[v].pc = worker[v].pc
                            /\ worker'[v].eof = worker[v].eof
  BY <1>0, GoesTo DEF ThreadEnds, Places
<1>2. /\ w \in RunningWorkers /\ RunningWorkers' = RunningWorkers \ {w}
      /\ main.pc # "starting"
  <2>1. worker[w].pc = "closing"
    BY DEF ThreadEnds
  <2> QED
    BY <1>0, <1>1, <2>1 DEF RunningWorkers, ThreadsCounted, Running, HasMemory, Tracked
<1>3. Cardinality(RunningWorkers') = server.active - 1 /\ server.active \in Nat \ {0}
  BY <1>0, <1>2, RunningFinite, FS_RemoveElement DEF ThreadsCounted
<1>4. /\ server' \in [cdps : SUBSET Workers, active : Nat]
      /\ server'.cdps = server.cdps /\ server'.active = server.active - 1
  <2>1. server.active - 1 \in Nat
    BY <1>3
  <2>2. server' = [server EXCEPT !.active = @ - 1]
    BY DEF ThreadEnds
  <2> QED
    BY <1>0, <2>1, <2>2 DEF TypeOK
<1>5. TypeOK'
  BY ZenonT(60), <1>0, <1>1, <1>4 DEF ThreadEnds, TypeOK, WorkerRecord, Places
<1>6. LinksHeld'
  BY <1>0, <1>1 DEF ThreadEnds, LinksHeld, Registered, Unregistered
<1>7. SnapshotHeld'
  BY <1>0 DEF ThreadEnds, SnapshotHeld
<1>8. ThreadsCounted'
  <2>1. \A v \in Workers : v \in server'.cdps <=> worker'[v].pc \in Tracked
    BY <1>0, <1>1, <1>4 DEF ThreadEnds, ThreadsCounted, Tracked
  <2>2. server'.active <= MaxConnections
    BY <1>0, <1>3, <1>4, ServerAssumption DEF ThreadsCounted
  <2>3. main'.pc # "freed" /\ main'.pc # "starting"
    BY <1>0, <1>2, <1>3 DEF ThreadEnds, ThreadsCounted
  <2> QED
    BY <1>3, <1>4, <2>1, <2>2, <2>3 DEF ThreadsCounted
<1>9. NoWorkerMissesShutdown'
  BY <1>0, <1>1 DEF ThreadEnds, NoWorkerMissesShutdown
<1> QED
  BY <1>5, <1>6, <1>7, <1>8, <1>9 DEF IInv

LEMMA WorkerStepKeepsInvariant ==
    ASSUME IInv, NEW w \in Workers, WorkerStep(w) \/ ClientLeaves(w)
    PROVE  IInv'
BY PlainMoves, OtherMoves, TrackStep, UntrackStep, RegisterStep, UnregisterStep, ThreadEndsStep
   DEF WorkerStep, WorkerProceeds

-----------------------------------------------------------------------------
(* The steps of the main thread and of the signal thread. *)

MainRecord ==
    [pc : {"starting", "top", "poll", "polled", "accepting", "events", "check",
           "drain", "deinit", "join", "freed"},
     woken : BOOLEAN, ready : SUBSET Workers]

\* The main thread goes on and leaves the workers, the links and the Server alone.
LEMMA MainMoves ==
    ASSUME IInv, main.pc # "starting", main' \in MainRecord, main'.pc # "starting",
           network' \in NetworkRecord, network'.links = network.links,
           UNCHANGED <<worker, link, server, shutdown, signal>>,
           SnapshotHeld', main'.pc = "freed" => server.active = 0
    PROVE  IInv'
<1>1. TypeOK'
  BY DEF IInv, TypeOK, NetworkRecord, MainRecord
<1>2. LinksHeld'
  BY DEF IInv, LinksHeld
<1>3. ThreadsCounted'
  BY DEF IInv, ThreadsCounted, RunningWorkers
<1>4. NoWorkerMissesShutdown'
  BY DEF IInv, NoWorkerMissesShutdown
<1> QED
  BY <1>1, <1>2, <1>3, <1>4 DEF IInv

LEMMA MainGoes ==
    ASSUME TypeOK, NEW place \in {"top", "poll", "accepting", "events", "check", "drain", "deinit",
                                 "join", "freed"},
           MainGoesTo(place)
    PROVE  main' \in MainRecord /\ main'.pc = place /\ main'.ready = main.ready
BY DEF TypeOK, MainRecord, MainGoesTo

LEMMA MainMovesOn ==
    ASSUME IInv,
           \/ PreparePoll \/ PollReturns \/ DrainWakeups \/ EndAccept \/ CheckShutdown \/ FreeServer
    PROVE  IInv'
<1>0. TypeOK /\ SnapshotHeld
  BY DEF IInv
<1>n. network \in NetworkRecord
  BY <1>0 DEF TypeOK, NetworkRecord
<1>1. CASE PreparePoll
  <2>1. main' \in MainRecord /\ main'.pc = "poll"
    BY <1>0, <1>1, MainGoes DEF PreparePoll
  <2>2. /\ network' \in NetworkRecord /\ network'.links = network.links /\ ~network'.dirty
        /\ network'.snapshot = IF network.dirty THEN {w \in network.links : link[w] = "live"}
                               ELSE network.snapshot
    BY <1>1, <1>n DEF PreparePoll, NetworkRecord
  <2>3. SnapshotHeld'
    BY <1>0, <2>1, <2>2 DEF SnapshotHeld
  <2> QED
    BY <1>1, <2>1, <2>2, <2>3, MainMoves DEF PreparePoll
<1>2. CASE PollReturns
  <2>1. PICK ready \in SUBSET network.snapshot :
            main' = [pc |-> "polled", woken |-> network.wake, ready |-> ready]
    BY <1>2 DEF PollReturns
  <2>2. main' \in MainRecord /\ main'.pc = "polled" /\ main'.ready \subseteq network.snapshot
    BY <1>n, <2>1 DEF MainRecord, NetworkRecord
  <2>3. SnapshotHeld'
    BY <1>0, <1>2, <2>2 DEF PollReturns, SnapshotHeld
  <2> QED
    BY <1>2, <1>n, <2>2, <2>3, MainMoves DEF PollReturns
<1>3. CASE DrainWakeups
  <2>1. main' \in MainRecord /\ main'.pc = "accepting" /\ main'.ready = main.ready
    BY <1>0, <1>3, MainGoes DEF DrainWakeups
  <2>2. /\ network' \in NetworkRecord /\ network'.links = network.links
        /\ network'.snapshot = network.snapshot /\ network'.dirty = network.dirty
    BY <1>0, <1>3, <1>n DEF DrainWakeups, NetworkRecord, TypeOK
  <2>3. SnapshotHeld'
    BY <1>0, <1>3, <2>1, <2>2 DEF DrainWakeups, SnapshotHeld
  <2> QED
    BY <1>3, <2>1, <2>2, <2>3, MainMoves DEF DrainWakeups
<1>4. CASE EndAccept
  <2>1. main' \in MainRecord /\ main'.pc = "events" /\ main'.ready = main.ready
    BY <1>0, <1>4, MainGoes DEF EndAccept
  <2>2. SnapshotHeld'
    BY <1>0, <1>4, <2>1 DEF EndAccept, SnapshotHeld
  <2> QED
    BY <1>4, <1>n, <2>1, <2>2, MainMoves DEF EndAccept
<1>5. CASE CheckShutdown
  <2>1. main' \in MainRecord /\ main'.pc \in {"drain", "top"}
    BY <1>0, <1>5, MainGoes DEF CheckShutdown
  <2>2. SnapshotHeld'
    BY <1>0, <1>5, <2>1 DEF CheckShutdown, SnapshotHeld
  <2> QED
    BY <1>5, <1>n, <2>1, <2>2, MainMoves DEF CheckShutdown
<1>6. CASE FreeServer
  <2>1. main' \in MainRecord /\ main'.pc = "freed"
    BY <1>0, <1>6, MainGoes DEF FreeServer
  <2>2. SnapshotHeld'
    BY <1>0, <1>6, <2>1 DEF FreeServer, SnapshotHeld
  <2> QED
    BY <1>6, <1>n, <2>1, <2>2, MainMoves DEF FreeServer, AllThreadsGone
<1> QED
  BY <1>1, <1>2, <1>3, <1>4, <1>5, <1>6

\* A connection is accepted: there is room, so the count stays within the limit.
LEMMA AcceptStep == ASSUME IInv, NEW w \in Workers, Accept(w) PROVE IInv'
<1>0. TypeOK /\ LinksHeld /\ SnapshotHeld /\ ThreadsCounted /\ NoWorkerMissesShutdown
  BY DEF IInv
<1>1. /\ worker' \in [Workers -> WorkerRecord] /\ worker'[w].pc = "spawned"
      /\ \A v \in Workers : /\ v # w => worker'[v].pc = worker[v].pc
                            /\ worker'[v].eof = worker[v].eof
  BY <1>0, GoesTo DEF Accept, Places, Running
<1>2. w \notin RunningWorkers /\ RunningWorkers' = RunningWorkers \cup {w}
  <2>1. worker[w].pc = "none"
    BY DEF Accept
  <2> QED
    BY <1>1, <2>1 DEF RunningWorkers, Running, HasMemory, Tracked
<1>3. Cardinality(RunningWorkers') = server.active + 1 /\ server.active \in Nat
  BY <1>0, <1>2, RunningFinite, FS_AddElement DEF ThreadsCounted
<1>4. /\ server' \in [cdps : SUBSET Workers, active : Nat]
      /\ server'.cdps = server.cdps /\ server'.active = server.active + 1
  <2>1. server' = [server EXCEPT !.active = @ + 1]
    BY DEF Accept
  <2> QED
    BY <1>0, <1>3, <2>1 DEF TypeOK
<1>5. TypeOK'
  BY <1>0, <1>1, <1>4 DEF Accept, TypeOK, WorkerRecord, Places
<1>6. LinksHeld'
  BY <1>0, <1>1 DEF Accept, LinksHeld, Registered, Unregistered
<1>7. SnapshotHeld'
  BY <1>0 DEF Accept, SnapshotHeld
<1>8. ThreadsCounted'
  <2>1. \A v \in Workers : v \in server'.cdps <=> worker'[v].pc \in Tracked
    BY <1>0, <1>1, <1>4 DEF Accept, ThreadsCounted, Tracked
  <2>2. server'.active <= MaxConnections
    BY <1>3, <1>4, ServerAssumption DEF Accept, RoomLeft
  <2> QED
    BY <1>3, <1>4, <2>1, <2>2 DEF Accept, ThreadsCounted
<1>9. NoWorkerMissesShutdown'
  BY <1>0, <1>1 DEF Accept, NoWorkerMissesShutdown
<1> QED
  BY <1>5, <1>6, <1>7, <1>8, <1>9 DEF IInv

\* dropCdp: no thread is anywhere else afterwards, and a dropped link leaves cdp_links with the
\* snapshot marked for a rebuild.
LEMMA DropEffect ==
    ASSUME TypeOK, NEW removed \in SUBSET Workers, NEW notified, NEW quiet,
           Drop(removed, notified, quiet)
    PROVE  /\ worker' \in [Workers -> WorkerRecord]
           /\ \A w \in Workers : worker'[w].pc = worker[w].pc /\ worker'[w].eof = worker[w].eof
           /\ link' \in [Workers -> {"live", "unregistering", "removed"}]
           /\ \A w \in Workers : link'[w] = IF w \in removed THEN "removed" ELSE link[w]
           /\ network' \in NetworkRecord
           /\ network'.links = network.links \ removed /\ network'.snapshot = network.snapshot
           /\ network'.dirty <=> network.dirty \/ removed # {}
<1>1. \A w \in Workers : worker[w] \in WorkerRecord
  BY WorkerFields
<1>2. /\ worker' \in [Workers -> WorkerRecord]
      /\ \A w \in Workers : worker'[w].pc = worker[w].pc /\ worker'[w].eof = worker[w].eof
  <2> DEFINE me(w) == [worker[w] EXCEPT !.told = @ \/ w \in notified \cup quiet,
                                       !.asleep = @ /\ removed = {}]
  <2> DEFINE u(w) == IF w \in notified THEN RequestTerminate(me(w)) ELSE me(w)
  <2>1. worker' = [w \in Workers |-> u(w)]
    BY DEF Drop
  <2>2. ASSUME NEW w \in Workers
        PROVE  u(w) \in WorkerRecord /\ u(w).pc = worker[w].pc /\ u(w).eof = worker[w].eof
    BY <1>1 DEF WorkerRecord, RequestTerminate
  <2> HIDE DEF u
  <2> QED
    BY <2>1, <2>2
<1>3. /\ link' \in [Workers -> {"live", "unregistering", "removed"}]
      /\ \A w \in Workers : link'[w] = IF w \in removed THEN "removed" ELSE link[w]
  BY DEF Drop, TypeOK
<1>4. /\ network' \in NetworkRecord
      /\ network'.links = network.links \ removed /\ network'.snapshot = network.snapshot
      /\ network'.dirty <=> network.dirty \/ removed # {}
  BY DEF Drop, DirtyAfter, TypeOK, NetworkRecord
<1> QED
  BY <1>2, <1>3, <1>4

\* Links are dropped while the main thread goes where it reads no snapshot.
LEMMA DropKeepsInvariant ==
    ASSUME IInv, NEW removed \in SUBSET network.links, NEW notified, NEW quiet,
           Drop(removed, notified, quiet), main.pc # "starting",
           main' \in MainRecord, main'.pc \in {"check", "deinit"},
           UNCHANGED <<server, shutdown, signal>>
    PROVE  IInv'
<1>0. /\ TypeOK /\ LinksHeld /\ SnapshotHeld /\ ThreadsCounted /\ NoWorkerMissesShutdown
      /\ removed \in SUBSET Workers
  BY DEF IInv, TypeOK
<1>1. /\ worker' \in [Workers -> WorkerRecord]
      /\ \A w \in Workers : worker'[w].pc = worker[w].pc /\ worker'[w].eof = worker[w].eof
      /\ link' \in [Workers -> {"live", "unregistering", "removed"}]
      /\ \A w \in Workers : link'[w] = IF w \in removed THEN "removed" ELSE link[w]
      /\ network' \in NetworkRecord
      /\ network'.links = network.links \ removed /\ network'.snapshot = network.snapshot
      /\ network'.dirty <=> network.dirty \/ removed # {}
  BY <1>0, DropEffect
<1>2. TypeOK'
  BY <1>0, <1>1 DEF TypeOK, WorkerRecord, Places, NetworkRecord, MainRecord
<1>3. LinksHeld'
  <2>1. \A w \in removed : worker[w].pc \notin Unregistered
    BY <1>0 DEF LinksHeld, Registered, Unregistered
  <2> QED
    BY <1>0, <1>1, <2>1 DEF LinksHeld
<1>4. SnapshotHeld'
  BY <1>0, <1>1 DEF SnapshotHeld
<1>5. ThreadsCounted'
  <2>1. RunningWorkers' = RunningWorkers
    BY <1>1 DEF RunningWorkers
  <2> QED
    BY <1>0, <1>1, <2>1 DEF ThreadsCounted
<1>6. NoWorkerMissesShutdown'
  BY <1>0, <1>1 DEF NoWorkerMissesShutdown
<1> QED
  BY <1>2, <1>3, <1>4, <1>5, <1>6 DEF IInv

LEMMA DropSteps == ASSUME IInv, ProcessCdpEvents \/ DrainLinks PROVE IInv'
<1>0. TypeOK /\ SnapshotHeld
  BY DEF IInv
<1>1. CASE ProcessCdpEvents
  <2>1. main' \in MainRecord /\ main'.pc = "check"
    BY <1>0, <1>1, MainGoes DEF ProcessCdpEvents
  <2>2. main.ready \subseteq network.links
    BY <1>0, <1>1 DEF ProcessCdpEvents, SnapshotHeld
  <2>3. PICK notified \in SUBSET main.ready, quiet \in SUBSET main.ready :
            Drop(Unregistering \cup notified \cup quiet, notified, quiet)
    BY <1>1 DEF ProcessCdpEvents
  <2>4. Unregistering \cup notified \cup quiet \in SUBSET network.links
    BY <2>2 DEF Unregistering
  <2> QED
    BY <1>1, <2>1, <2>3, <2>4, DropKeepsInvariant DEF ProcessCdpEvents
<1>2. CASE DrainLinks
  <2>1. main' \in MainRecord /\ main'.pc = "deinit"
    BY <1>0, <1>2, MainGoes DEF DrainLinks
  <2>2. PICK live \in SUBSET network.links : Drop(live, live, {})
    BY <1>2 DEF DrainLinks
  <2> QED
    BY <1>2, <2>1, <2>2, DropKeepsInvariant DEF DrainLinks
<1> QED
  BY <1>1, <1>2

\* Server.shutdown: every tracked worker has its socket ended, none is moved.
LEMMA ShutdownEffect ==
    ASSUME TypeOK, ShutdownServer
    PROVE  /\ worker' \in [Workers -> WorkerRecord]
           /\ \A w \in Workers : /\ worker'[w].pc = worker[w].pc
                                 /\ worker[w].eof \/ w \in server.cdps => worker'[w].eof
           /\ network' \in NetworkRecord /\ network'.links = network.links
           /\ network'.snapshot = network.snapshot /\ network'.dirty = network.dirty
<1>1. \A w \in Workers : worker[w] \in WorkerRecord
  BY WorkerFields
<1>2. /\ worker' \in [Workers -> WorkerRecord]
      /\ \A w \in Workers : /\ worker'[w].pc = worker[w].pc
                            /\ worker[w].eof \/ w \in server.cdps => worker'[w].eof
  <2> DEFINE ended(w) == [worker[w] EXCEPT !.eof = TRUE,
                                           !.interrupt = IF Live(w) THEN "posted" ELSE @]
  <2>1. worker' = [w \in Workers |-> IF w \notin server.cdps THEN worker[w] ELSE ended(w)]
    BY DEF ShutdownServer
  <2>2. ASSUME NEW w \in Workers
        PROVE  ended(w) \in WorkerRecord /\ ended(w).pc = worker[w].pc /\ ended(w).eof
    BY <1>1 DEF WorkerRecord, Live
  <2> HIDE DEF ended
  <2> QED
    BY <1>1, <2>1, <2>2
<1>3. /\ network' \in NetworkRecord /\ network'.links = network.links
      /\ network'.snapshot = network.snapshot /\ network'.dirty = network.dirty
  BY DEF ShutdownServer, TypeOK, NetworkRecord
<1> QED
  BY <1>2, <1>3

SignalRecord == [pc : {"idle", "stop", "server"}, attempt : 0..MaxSignals]

\* Server.shutdown keeps the invariant, and after it no ticking worker has an open socket.
LEMMA ShutdownKeepsInvariant ==
    ASSUME IInv, ShutdownServer, UNCHANGED <<link, server, shutdown>>,
           main' \in MainRecord, signal' \in SignalRecord,
           main'.pc \in {main.pc, "top", "join"}, main'.pc = main.pc => main'.ready = main.ready
    PROVE  IInv'
<1>0. TypeOK /\ LinksHeld /\ SnapshotHeld /\ ThreadsCounted
  BY DEF IInv
<1>1. /\ worker' \in [Workers -> WorkerRecord]
      /\ \A w \in Workers : /\ worker'[w].pc = worker[w].pc
                            /\ worker[w].eof \/ w \in server.cdps => worker'[w].eof
      /\ network' \in NetworkRecord /\ network'.links = network.links
      /\ network'.snapshot = network.snapshot /\ network'.dirty = network.dirty
  BY <1>0, ShutdownEffect
<1>2. TypeOK'
  BY <1>0, <1>1 DEF TypeOK, WorkerRecord, Places, NetworkRecord, MainRecord, SignalRecord
<1>3. LinksHeld'
  BY <1>0, <1>1 DEF LinksHeld
<1>4. SnapshotHeld'
  BY <1>0, <1>1 DEF SnapshotHeld
<1>5. ThreadsCounted'
  <2>1. RunningWorkers' = RunningWorkers
    BY <1>1 DEF RunningWorkers
  <2> QED
    BY <1>0, <1>1, <2>1 DEF ThreadsCounted
<1>6. NoWorkerMissesShutdown'
  BY <1>0, <1>1 DEF NoWorkerMissesShutdown, ThreadsCounted, Tracked
<1> QED
  BY <1>2, <1>3, <1>4, <1>5, <1>6 DEF IInv

LEMMA ShutdownSteps ==
    ASSUME IInv,
           \/ RegisterSignalListener \/ DeinitShutsDown
           \/ SignalArrives \/ StopNetwork \/ SignalShutsServer
    PROVE  IInv'
<1>0. /\ TypeOK /\ LinksHeld /\ SnapshotHeld /\ ThreadsCounted /\ NoWorkerMissesShutdown
      /\ main \in MainRecord /\ signal \in SignalRecord /\ network \in NetworkRecord
  BY DEF IInv, TypeOK, MainRecord, SignalRecord, NetworkRecord
<1>1. CASE RegisterSignalListener
  <2>1. main' \in MainRecord /\ main'.pc = "top"
    BY <1>0, <1>1, MainGoes DEF RegisterSignalListener
  <2>2. CASE signal.attempt > 0
    BY <1>0, <1>1, <2>1, <2>2, ShutdownKeepsInvariant DEF RegisterSignalListener
  <2>3. CASE ~(signal.attempt > 0)
    <3>1. UNCHANGED <<worker, link, network, server, shutdown, signal>>
      BY <1>1, <2>3 DEF RegisterSignalListener
    <3>2. TypeOK'
      BY <1>0, <2>1, <3>1 DEF TypeOK, MainRecord
    <3>3. LinksHeld' /\ NoWorkerMissesShutdown'
      BY <1>0, <3>1 DEF LinksHeld, NoWorkerMissesShutdown
    <3>4. SnapshotHeld'
      BY <1>0, <2>1, <3>1 DEF SnapshotHeld
    <3>5. ThreadsCounted'
      BY <1>0, <2>1, <3>1 DEF ThreadsCounted, RunningWorkers
    <3> QED
      BY <3>2, <3>3, <3>4, <3>5 DEF IInv
  <2> QED
    BY <2>2, <2>3
<1>2. CASE DeinitShutsDown
  <2>1. main' \in MainRecord /\ main'.pc = "join"
    BY <1>0, <1>2, MainGoes DEF DeinitShutsDown
  <2> QED
    BY <1>0, <1>2, <2>1, ShutdownKeepsInvariant DEF DeinitShutsDown
<1>3. CASE SignalArrives
  <2>1. signal' \in SignalRecord /\ signal'.pc = "stop"
    BY <1>0, <1>3, ServerAssumption DEF SignalArrives, SignalRecord
  <2>2. UNCHANGED <<worker, link, network, main, server, shutdown>>
    BY <1>3 DEF SignalArrives
  <2>3. TypeOK'
    BY <1>0, <2>1, <2>2 DEF TypeOK, SignalRecord
  <2>4. LinksHeld' /\ SnapshotHeld' /\ ThreadsCounted'
    BY <1>0, <2>2 DEF LinksHeld, SnapshotHeld, ThreadsCounted, RunningWorkers
  <2>5. NoWorkerMissesShutdown'
    BY <2>1 DEF NoWorkerMissesShutdown
  <2> QED
    BY <2>3, <2>4, <2>5 DEF IInv
<1>4. CASE StopNetwork
  <2>1. /\ signal' \in SignalRecord
        /\ signal'.pc = IF main.pc = "starting" THEN "idle" ELSE "server"
    BY <1>0, <1>4 DEF StopNetwork, SignalRecord
  <2>2. /\ network' \in NetworkRecord /\ network'.links = network.links
        /\ network'.snapshot = network.snapshot /\ network'.dirty = network.dirty
    BY <1>0, <1>4 DEF StopNetwork, WakePoll, NetworkRecord
  <2>3. UNCHANGED <<worker, link, main, server>> /\ shutdown' = TRUE
    BY <1>4 DEF StopNetwork
  <2>4. TypeOK'
    BY <1>0, <2>1, <2>2, <2>3 DEF TypeOK, SignalRecord, NetworkRecord
  <2>5. LinksHeld' /\ SnapshotHeld'
    BY <1>0, <2>2, <2>3 DEF LinksHeld, SnapshotHeld
  <2>6. ThreadsCounted'
    BY <1>0, <2>3 DEF ThreadsCounted, RunningWorkers
  <2>7. NoWorkerMissesShutdown'
    BY <1>0, <2>1, <2>3 DEF NoWorkerMissesShutdown, ThreadsCounted
  <2> QED
    BY <2>4, <2>5, <2>6, <2>7 DEF IInv
<1>5. CASE SignalShutsServer
  <2>1. signal' \in SignalRecord /\ UNCHANGED <<link, main, server, shutdown>>
    BY <1>0, <1>5 DEF SignalShutsServer, SignalRecord
  <2>2. CASE main.pc # "freed"
    BY <1>0, <1>5, <2>1, <2>2, ShutdownKeepsInvariant DEF SignalShutsServer
  <2>3. CASE main.pc = "freed"
    <3>1. UNCHANGED <<worker, network>>
      BY <1>5, <2>3 DEF SignalShutsServer
    <3>2. TypeOK'
      BY <1>0, <2>1, <3>1 DEF TypeOK, SignalRecord
    <3>3. LinksHeld' /\ SnapshotHeld' /\ ThreadsCounted'
      BY <1>0, <2>1, <3>1 DEF LinksHeld, SnapshotHeld, ThreadsCounted, RunningWorkers
    <3>4. RunningWorkers = {}
      BY <1>0, <2>3, RunningFinite DEF ThreadsCounted
    <3>5. NoWorkerMissesShutdown'
      BY <3>1, <3>4 DEF NoWorkerMissesShutdown, RunningWorkers, Running, HasMemory, Tracked
    <3> QED
      BY <3>2, <3>3, <3>5 DEF IInv
  <2> QED
    BY <2>2, <2>3
<1> QED
  BY <1>1, <1>2, <1>3, <1>4, <1>5

-----------------------------------------------------------------------------
(* The invariant, and what it implies. *)

LEMMA InvariantInit == Init => IInv
<1> SUFFICES ASSUME Init PROVE IInv
  OBVIOUS
<1>1. worker = [w \in Workers |-> [pc |-> "none", asleep |-> FALSE, eof |-> FALSE,
                    told |-> FALSE, terminating |-> FALSE, interrupt |-> "none"]]
  BY DEF Init
<1>2. TypeOK
  <2>1. signal \in [pc : {"idle", "stop", "server"}, attempt : 0..MaxSignals]
    BY ServerAssumption DEF Init
  <2>2. worker \in [Workers -> [pc : Running \cup {"none", "gone"}, asleep : BOOLEAN,
                                eof : BOOLEAN, told : BOOLEAN, terminating : BOOLEAN,
                                interrupt : {"none", "posted", "taken"}]]
    BY <1>1
  <2> QED
    BY <2>1, <2>2 DEF Init, TypeOK
<1>3. LinksHeld
  BY <1>1 DEF Init, LinksHeld
<1>4. SnapshotHeld
  BY DEF Init, SnapshotHeld
<1>5. ThreadsCounted
  <2>1. RunningWorkers = {}
    BY <1>1 DEF RunningWorkers, Running, HasMemory, Tracked
  <2> QED
    BY <1>1, <2>1, FS_EmptySet, ServerAssumption DEF Init, ThreadsCounted, Tracked
<1>6. NoWorkerMissesShutdown
  BY DEF Init, NoWorkerMissesShutdown
<1> QED
  BY <1>2, <1>3, <1>4, <1>5, <1>6 DEF IInv

LEMMA InvariantStep == IInv /\ [Next]_vars => IInv'
<1> SUFFICES ASSUME IInv, [Next]_vars PROVE IInv'
  OBVIOUS
<1>1. CASE UNCHANGED vars
  BY <1>1 DEF vars, IInv, TypeOK, LinksHeld, SnapshotHeld, ThreadsCounted, RunningWorkers,
              NoWorkerMissesShutdown
<1>2. CASE MainStep
  BY <1>2, MainMovesOn, AcceptStep, DropSteps, ShutdownSteps DEF MainStep, MainProceeds
<1>3. CASE SignalArrives \/ StopNetwork \/ SignalShutsServer
  BY <1>3, ShutdownSteps
<1>4. CASE \E w \in Workers : WorkerStep(w) \/ ClientLeaves(w)
  BY <1>4, WorkerStepKeepsInvariant
<1> QED
  BY <1>1, <1>2, <1>3, <1>4 DEF Next

LEMMA Invariance == Spec => []IInv
BY InvariantInit, InvariantStep, PTL DEF Spec

\* The shared state of the server, the Network and the threads is within its types: active_threads
\* is never decremented below 0.
THEOREM ServerTypeOK == Spec => []TypeOK
<1>1. IInv => TypeOK
  BY DEF IInv
<1> QED
  BY <1>1, Invariance, PTL

\* The Network thread never follows a link whose CDP was freed (Network.zig, processCdpEvents).
THEOREM NetworkFollowsMemory == Spec => []LinksInMemory
<1>1. IInv => LinksInMemory
  <2> SUFFICES ASSUME IInv, NEW w \in network.links PROVE worker[w].pc \in HasMemory
    BY DEF IInv, SnapshotHeld, LinksInMemory
  <2> QED
    BY DEF IInv, TypeOK, LinksHeld, Registered, HasMemory, Tracked
<1> QED
  BY <1>1, Invariance, PTL

\* A shutdown walks CDPs that exist, and the Server is freed only when its threads are gone
\* (Server.zig, shutdown and deinit).
THEOREM ServerIsLast == Spec => []ServerOutlivesItsThreads
<1>1. IInv => ServerOutlivesItsThreads
  <2> SUFFICES ASSUME IInv PROVE ServerOutlivesItsThreads
    OBVIOUS
  <2>1. \A w \in server.cdps : worker[w].pc \in HasMemory
    BY DEF IInv, TypeOK, ThreadsCounted, HasMemory
  <2>2. main.pc = "freed" => \A w \in Workers : worker[w].pc \notin Running
    BY RunningFinite DEF IInv, ThreadsCounted, RunningWorkers
  <2> QED
    BY <2>1, <2>2 DEF ServerOutlivesItsThreads
<1> QED
  BY <1>1, Invariance, PTL

\* The poll snapshot has room for every link (the assertion of prepareCdpPollFds), whatever the limit.
THEOREM SnapshotHasRoom == Spec => []PollSnapshotFits
<1>1. IInv => PollSnapshotFits
  <2> SUFFICES ASSUME IInv PROVE PollSnapshotFits
    OBVIOUS
  <2>1. network.links \subseteq RunningWorkers
    BY DEF IInv, TypeOK, LinksHeld, RunningWorkers, Registered, Running, HasMemory, Tracked
  <2>2. /\ Cardinality(network.links) \in Nat
        /\ Cardinality(network.links) <= Cardinality(RunningWorkers)
    BY <2>1, RunningFinite, FS_Subset, FS_CardinalityType
  <2>3. /\ server.active = Cardinality(RunningWorkers) /\ server.active <= MaxConnections
        /\ Cardinality(RunningWorkers) \in Nat
    BY RunningFinite DEF IInv, ThreadsCounted
  <2> QED
    BY <2>2, <2>3, ServerAssumption DEF PollSnapshotFits
<1> QED
  BY <1>1, Invariance, PTL

\* Once the listeners of a signal have run, every worker that still ticks has its socket ended
\* (Server.zig, handleConnection).
THEOREM ShutdownReachesWorkers == Spec => []NoWorkerMissesShutdown
<1>1. IInv => NoWorkerMissesShutdown
  BY DEF IInv
<1> QED
  BY <1>1, Invariance, PTL
=============================================================================
