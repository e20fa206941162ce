------------------------ MODULE DedicatedWorkerProofs ------------------------
(***************************************************************************)
(* For any threads that post to the worker and any number of commands,      *)
(* envelopes and posts: no terminate reaches a worker that is being torn     *)
(* down, and one that is counted as idle has nothing left to do.             *)
(***************************************************************************)
EXTENDS DedicatedWorker, TLAPS

OwnerRecord ==
    [pc : {"inbound", "drain", "tasks", "pump", "wait", "observe",
           "checkInbound", "checkMailbox", "checkOutbound", "compare",
           "publish", "block", "pumped", "script", "failed", "leaving",
           "report", "close", "teardown", "dispose", "disposed", "stopped"},
     back : {"inbound", "pump"}, due : SUBSET {"task", "request"}]
CreatorRecord ==
    [pc : {"running", "drain", "emptied", "dispatch", "append", "wake",
           "terminate", "join", "joined"}, sent : Nat, tokens : Nat]
OutboundRecord == [queued : Nat, sent : Nat, reported : BOOLEAN]
MailboxRecord == [open : BOOLEAN, queued : Nat, posts : Nat]
EpochRecord == [quiescent : BOOLEAN, observed : BOOLEAN]
TerminateRecord == [requested : BOOLEAN, interrupt : {"none", "posted", "taken"}]
WakeRecord == [open : BOOLEAN, posted : BOOLEAN]

\* The places of publishQuiescentIfStable after each of its reads, and of the wait that follows.
ReadInbound == {"checkMailbox", "checkOutbound", "compare", "publish"}
ReadMailbox == {"checkOutbound", "compare", "publish"}
ReadOutbound == {"compare", "publish"}
Waiting == {"block", "pumped"}

\* The owner's places after the defer of ownerLoop, and those after cancelTerminate.
TearingDown == {"teardown", "dispose", "disposed", "stopped"}
Ended == {"report", "close"} \cup TearingDown

\* Nobody finds the lifecycle running once ownerLoop has returned; a creator that reads it as
\* running may therefore still terminate.
StopBoundary ==
    /\ owner.pc \in Ended => lifecycle # "running"
    /\ TeardownUndisturbed

\* Whatever is in the mailbox, its activity is still to be noted.
MailboxUnnoted == mailbox.queued > 0 => \E p \in Posters : poster[p] = "appended"

\* What a read has found is still so as long as nothing was noted since the epoch was read; and
\* from the recheck on, no task or request is due.
SampleHolds ==
    /\ owner.pc \in {"observe", "checkInbound"} \cup ReadInbound \cup Waiting => owner.due = {}
    /\ epoch.observed =>
        /\ owner.pc \in ReadInbound => inbound = <<>>
        /\ owner.pc \in ReadMailbox => MailboxUnnoted
        /\ owner.pc \in ReadOutbound => outbound.queued = 0

IInv == TypeOK /\ StopBoundary /\ SampleHolds /\ QuiescentIsDormant

LEMMA Fields ==
    ASSUME TypeOK
    PROVE  /\ owner \in OwnerRecord /\ creator \in CreatorRecord
           /\ outbound \in OutboundRecord /\ mailbox \in MailboxRecord
           /\ epoch \in EpochRecord /\ wake \in WakeRecord
           /\ poster \in [Posters -> {"idle", "appended", "noted"}]
           /\ inbound \in Seq({"message", "shutdown"})
           /\ lifecycle \in {"running", "stopping", "stopped"}
           /\ shutdown \in BOOLEAN /\ terminate \in TerminateRecord
BY DEF TypeOK, OwnerRecord, CreatorRecord, OutboundRecord, MailboxRecord, EpochRecord, WakeRecord,
       TerminateRecord

LEMMA TypeFromFields ==
    ASSUME owner' \in OwnerRecord, creator' \in CreatorRecord,
           outbound' \in OutboundRecord, mailbox' \in MailboxRecord,
           epoch' \in EpochRecord, wake' \in WakeRecord,
           poster' \in [Posters -> {"idle", "appended", "noted"}],
           inbound' \in Seq({"message", "shutdown"}),
           lifecycle' \in {"running", "stopping", "stopped"},
           shutdown' \in BOOLEAN, terminate' \in TerminateRecord
    PROVE  TypeOK'
BY DEF TypeOK, OwnerRecord, CreatorRecord, OutboundRecord, MailboxRecord, EpochRecord, WakeRecord,
       TerminateRecord

-----------------------------------------------------------------------------
(* The helpers of the actions. *)

LEMMA Places ==
    ASSUME TypeOK,
           NEW place \in {"inbound", "drain", "tasks", "pump", "wait", "observe",
                          "checkInbound", "checkMailbox", "checkOutbound", "compare",
                          "publish", "block", "pumped", "script", "failed", "leaving",
                          "report", "close", "teardown", "dispose", "disposed", "stopped"},
           OwnerGoesTo(place)
    PROVE  owner' \in OwnerRecord /\ owner'.pc = place /\ owner'.due = owner.due
BY Fields DEF OwnerGoesTo, OwnerRecord

LEMMA CreatorPlaces ==
    ASSUME TypeOK,
           NEW place \in {"running", "drain", "emptied", "dispatch", "append", "wake",
                          "terminate", "join", "joined"},
           CreatorGoesTo(place)
    PROVE  creator' \in CreatorRecord
BY Fields DEF CreatorGoesTo, CreatorRecord

LEMMA Runs ==
    ASSUME TypeOK, NEW back \in {"inbound", "pump"}, NEW due \in SUBSET {"task", "request"},
           RunScript(back, due)
    PROVE  owner' \in OwnerRecord /\ owner'.pc = "script"
BY Fields DEF RunScript, OwnerRecord

LEMMA Noted ==
    ASSUME NoteActivity
    PROVE  epoch' \in EpochRecord /\ ~epoch'.observed /\ ~epoch'.quiescent
BY DEF NoteActivity, EpochRecord

LEMMA Woken == ASSUME TypeOK, PostWake PROVE wake' \in WakeRecord
BY Fields DEF PostWake, WakeRecord

LEMMA Sent ==
    ASSUME TypeOK, NEW n \in {0, 1}, SendToCreator(n)
    PROVE  /\ outbound' \in OutboundRecord /\ creator' \in CreatorRecord
           /\ epoch' \in EpochRecord /\ ~epoch'.observed /\ ~epoch'.quiescent
<1>1. outbound' \in OutboundRecord
  BY Fields DEF SendToCreator, OutboundRecord
<1>2. creator' \in CreatorRecord
  BY Fields DEF SendToCreator, TokenForEach, CreatorRecord
<1> QED
  BY <1>1, <1>2, Noted DEF SendToCreator

-----------------------------------------------------------------------------
(* The owner thread: its loop. *)

\* Away from the sample and the wait that follows it, nothing is published as quiescent.
LEMMA NothingSampled ==
    ASSUME IInv, TypeOK',
           owner.pc \notin Waiting, epoch' = epoch \/ ~epoch'.quiescent,
           owner'.pc \notin {"observe", "checkInbound"} \cup ReadInbound \cup Waiting,
           lifecycle' = "running" => lifecycle = "running",
           owner'.pc \in Ended => lifecycle' # "running",
           owner'.pc \in TearingDown => terminate' = NotTerminated
    PROVE  IInv'
<1>1. ~epoch.quiescent
  BY DEF IInv, QuiescentIsDormant, Waiting
<1>2. QuiescentIsDormant'
  BY <1>1 DEF QuiescentIsDormant
<1>3. StopBoundary'
  BY DEF StopBoundary, TeardownUndisturbed, TearingDown
<1>4. SampleHolds'
  BY DEF SampleHolds, ReadInbound, ReadMailbox, ReadOutbound
<1> QED
  BY <1>2, <1>3, <1>4 DEF IInv

\* Activity is noted by a step that leaves the owner where it is.
LEMMA ActivityNoted ==
    ASSUME IInv, TypeOK', ~epoch'.observed, ~epoch'.quiescent, UNCHANGED <<owner, lifecycle, terminate>>
    PROVE  IInv'
<1>1. QuiescentIsDormant'
  BY DEF QuiescentIsDormant
<1>2. StopBoundary'
  BY DEF IInv, StopBoundary, TeardownUndisturbed, TearingDown, Ended
<1>3. SampleHolds'
  BY DEF IInv, SampleHolds
<1> QED
  BY <1>1, <1>2, <1>3 DEF IInv

\* A step that leaves all that was sampled as it is, or takes from the envelopes.
LEMMA SampleUndisturbed ==
    ASSUME IInv, TypeOK', UNCHANGED <<owner, inbound, epoch, mailbox, poster, lifecycle>>,
           outbound.queued = 0 => outbound'.queued = 0,
           terminate' = terminate \/ lifecycle = "running"
    PROVE  IInv'
<1>1. QuiescentIsDormant'
  BY DEF IInv, QuiescentIsDormant
<1>2. StopBoundary'
  BY DEF IInv, StopBoundary, TeardownUndisturbed, TearingDown, Ended
<1>3. SampleHolds'
  BY DEF IInv, SampleHolds, MailboxUnnoted
<1> QED
  BY <1>1, <1>2, <1>3 DEF IInv

LEMMA LoopSteps ==
    ASSUME IInv,
           \/ Leave \/ PopCommand \/ NoMoreCommands \/ DrainMailbox \/ RunTask \/ NoTaskReady
           \/ Pump \/ Tick \/ TimedWait
    PROVE  IInv'
<1>0. TypeOK
  BY DEF IInv
<1> USE DEF ReadInbound, Waiting, TearingDown, Ended
<1>1. CASE Leave
  <2>1. owner' \in OwnerRecord /\ owner'.pc = "leaving"
    BY <1>0, <1>1, Places DEF Leave
  <2>2. TypeOK'
    BY <1>0, <1>1, <2>1, Fields, TypeFromFields DEF Leave
  <2> QED
    BY <1>1, <2>1, <2>2, NothingSampled DEF Leave
<1>2. CASE PopCommand
  <2>1. owner' \in OwnerRecord /\ owner'.pc \in {"inbound", "script"}
    BY <1>0, <1>2, Runs, Fields DEF PopCommand, OwnerRecord
  <2>2. inbound' \in Seq({"message", "shutdown"}) /\ shutdown' \in BOOLEAN
    <3>1. inbound' \in Seq({"message", "shutdown"})
      <4>1. inbound \in Seq({"message", "shutdown"}) /\ inbound # <<>>
        BY <1>0, <1>2, Fields DEF PopCommand
      <4> QED
        BY <1>2, <4>1 DEF PopCommand
    <3>2. shutdown' = shutdown \/ shutdown' = TRUE
      BY <1>2 DEF PopCommand
    <3> QED
      BY <1>0, <3>1, <3>2, Fields
  <2>3. UNCHANGED <<creator, poster, outbound, mailbox, lifecycle, terminate, epoch, wake>>
    BY <1>2 DEF PopCommand
  <2>4. TypeOK'
    BY <1>0, <2>1, <2>2, <2>3, Fields, TypeFromFields
  <2> QED
    BY <1>2, <2>1, <2>3, <2>4, NothingSampled DEF PopCommand
<1>3. CASE NoMoreCommands
  <2>1. owner' \in OwnerRecord /\ owner'.pc = "drain"
    BY <1>0, <1>3, Places DEF NoMoreCommands
  <2>2. TypeOK'
    BY <1>0, <1>3, <2>1, Fields, TypeFromFields DEF NoMoreCommands
  <2> QED
    BY <1>3, <2>1, <2>2, NothingSampled DEF NoMoreCommands
<1>4. CASE DrainMailbox
  <2>1. owner' \in OwnerRecord /\ owner'.pc = "tasks"
    BY <1>0, <1>4, Fields DEF DrainMailbox, OwnerRecord
  <2>2. mailbox' \in MailboxRecord
    BY <1>0, <1>4, Fields DEF DrainMailbox, MailboxRecord
  <2>3. TypeOK'
    BY <1>0, <1>4, <2>1, <2>2, Fields, TypeFromFields DEF DrainMailbox
  <2> QED
    BY <1>4, <2>1, <2>3, NothingSampled DEF DrainMailbox
<1>5. CASE RunTask
  <2>1. owner.due \ {"task"} \in SUBSET {"task", "request"}
    BY <1>0, Fields DEF OwnerRecord
  <2>2. owner' \in OwnerRecord /\ owner'.pc = "script"
    BY <1>0, <1>5, <2>1, Runs DEF RunTask
  <2>3. TypeOK'
    BY <1>0, <1>5, <2>2, Fields, TypeFromFields DEF RunTask
  <2> QED
    BY <1>5, <2>2, <2>3, NothingSampled DEF RunTask
<1>6. CASE NoTaskReady
  <2>1. owner' \in OwnerRecord /\ owner'.pc = "pump"
    BY <1>0, <1>6, Places DEF NoTaskReady
  <2>2. TypeOK'
    BY <1>0, <1>6, <2>1, Fields, TypeFromFields DEF NoTaskReady
  <2> QED
    BY <1>6, <2>1, <2>2, NothingSampled DEF NoTaskReady
<1>7. CASE Pump
  <2>1. owner' \in OwnerRecord /\ owner'.pc = "wait"
    BY <1>0, <1>7, Places DEF Pump
  <2>2. wake' \in WakeRecord
    BY <1>0, <1>7, Fields DEF Pump, WakeRecord
  <2>3. TypeOK'
    BY <1>0, <1>7, <2>1, <2>2, Fields, TypeFromFields DEF Pump
  <2> QED
    BY <1>7, <2>1, <2>3, NothingSampled DEF Pump
<1>8. CASE Tick
  <2>1. owner.due \ {"request"} \in SUBSET {"task", "request"}
    BY <1>0, Fields DEF OwnerRecord
  <2>2. owner' \in OwnerRecord /\ owner'.pc \in {"inbound", "script"}
    BY <1>0, <1>8, <2>1, Places, Runs DEF Tick
  <2>3. TypeOK'
    BY <1>0, <1>8, <2>2, Fields, TypeFromFields DEF Tick
  <2> QED
    BY <1>8, <2>2, <2>3, NothingSampled DEF Tick
<1>9. CASE TimedWait
  <2>1. owner' \in OwnerRecord /\ owner'.pc = "inbound"
    BY <1>0, <1>9, Places DEF TimedWait
  <2>2. TypeOK'
    BY <1>0, <1>9, <2>1, Fields, TypeFromFields DEF TimedWait
  <2> QED
    BY <1>9, <2>1, <2>2, NothingSampled DEF TimedWait
<1> QED
  BY <1>1, <1>2, <1>3, <1>4, <1>5, <1>6, <1>7, <1>8, <1>9

-----------------------------------------------------------------------------
(* The owner thread: the sample and the wait. *)

LEMMA RecheckStep == ASSUME IInv, Recheck PROVE IInv'
<1>0. TypeOK /\ SampleHolds /\ StopBoundary /\ QuiescentIsDormant
  BY DEF IInv
<1>1. owner' \in OwnerRecord /\ owner'.pc \in {"inbound", "observe"} /\ owner'.due = {}
  BY <1>0, Places DEF Recheck
<1>2. TypeOK'
  BY <1>0, <1>1, Fields, TypeFromFields DEF Recheck
<1>3. QuiescentIsDormant'
  BY <1>0 DEF Recheck, QuiescentIsDormant
<1>4. StopBoundary'
  BY <1>1 DEF StopBoundary, TeardownUndisturbed, TearingDown, Ended
<1>5. SampleHolds'
  BY <1>1 DEF SampleHolds, ReadInbound, ReadMailbox, ReadOutbound, Waiting
<1> QED
  BY <1>2, <1>3, <1>4, <1>5 DEF IInv

LEMMA SampleSteps ==
    ASSUME IInv, Observe \/ CheckQueues \/ Publish
    PROVE  IInv'
<1>0. TypeOK /\ SampleHolds /\ StopBoundary /\ QuiescentIsDormant
  BY DEF IInv
<1> USE DEF ReadInbound, ReadMailbox, ReadOutbound, Waiting, TearingDown, Ended
<1>1. owner.pc \in {"observe", "checkInbound"} \cup ReadInbound
  BY DEF Observe, CheckQueues, CheckQueue, Publish
<1>2. owner.due = {} /\ ~epoch.quiescent
  BY <1>0, <1>1 DEF SampleHolds, QuiescentIsDormant
<1>3. UNCHANGED <<creator, poster, inbound, outbound, mailbox, lifecycle, shutdown, terminate, wake>>
  BY DEF Observe, CheckQueues, CheckQueue, Publish
<1>4. CASE Observe
  <2>1. owner' \in OwnerRecord /\ owner'.pc = "checkInbound" /\ owner'.due = {}
    BY <1>0, <1>2, <1>4, Places DEF Observe
  <2>2. epoch' \in EpochRecord /\ ~epoch'.quiescent
    BY <1>0, <1>2, <1>4, Fields DEF Observe, EpochRecord
  <2>3. TypeOK'
    BY <1>0, <1>3, <2>1, <2>2, Fields, TypeFromFields
  <2>4. SampleHolds' /\ StopBoundary' /\ QuiescentIsDormant'
    BY <2>1, <2>2 DEF SampleHolds, StopBoundary, QuiescentIsDormant, TeardownUndisturbed
  <2> QED
    BY <2>3, <2>4 DEF IInv
<1>5. CASE CheckQueues
  <2>0. UNCHANGED epoch
    BY <1>5 DEF CheckQueues, CheckQueue
  <2>1. /\ owner' \in OwnerRecord /\ owner'.due = {}
        /\ \/ owner'.pc = "block"
           \/ owner.pc = "checkInbound" /\ inbound = <<>> /\ owner'.pc = "checkMailbox"
           \/ owner.pc = "checkMailbox" /\ mailbox.queued = 0 /\ owner'.pc = "checkOutbound"
           \/ owner.pc = "checkOutbound" /\ outbound.queued = 0 /\ owner'.pc = "compare"
           \/ owner.pc = "compare" /\ owner'.pc = "publish"
    BY <1>0, <1>2, <1>5, Places DEF CheckQueues, CheckQueue, OutboundEmpty
  <2>2. TypeOK'
    BY <1>0, <1>3, <2>0, <2>1, Fields, TypeFromFields
  <2>3. StopBoundary' /\ QuiescentIsDormant'
    BY <1>2, <2>0, <2>1 DEF StopBoundary, QuiescentIsDormant, TeardownUndisturbed
  <2>4. SampleHolds'
    BY <1>0, <1>3, <2>0, <2>1 DEF SampleHolds, MailboxUnnoted
  <2> QED
    BY <2>2, <2>3, <2>4 DEF IInv
<1>6. CASE Publish
  <2>1. owner' \in OwnerRecord /\ owner'.pc = "block" /\ owner'.due = {}
    BY <1>0, <1>2, <1>6, Places DEF Publish
  <2>2. epoch' \in EpochRecord /\ epoch'.quiescent = epoch.observed
    BY <1>0, <1>6, Fields DEF Publish, EpochRecord
  <2>3. TypeOK'
    BY <1>0, <1>3, <2>1, <2>2, Fields, TypeFromFields
  <2>4. SampleHolds' /\ StopBoundary'
    BY <2>1 DEF SampleHolds, StopBoundary, TeardownUndisturbed
  <2>5. QuiescentIsDormant'
    <3>1. epoch.observed => inbound = <<>> /\ MailboxUnnoted /\ outbound.queued = 0
      BY <1>0, <1>6 DEF Publish, SampleHolds
    <3> QED
      BY <1>3, <2>1, <2>2, <3>1 DEF QuiescentIsDormant, MailboxUnnoted
  <2> QED
    BY <2>3, <2>4, <2>5 DEF IInv
<1> QED
  BY <1>4, <1>5, <1>6

LEMMA WaitSteps == ASSUME IInv, PumpReturns \/ NotePumped PROVE IInv'
<1>0. TypeOK /\ SampleHolds /\ StopBoundary /\ QuiescentIsDormant
  BY DEF IInv
<1> USE DEF ReadInbound, ReadMailbox, ReadOutbound, Waiting, TearingDown, Ended
<1>1. CASE PumpReturns
  <2>1. owner' \in OwnerRecord /\ owner'.pc = "pumped" /\ owner'.due = {}
    BY <1>0, <1>1, Places DEF PumpReturns, SampleHolds
  <2>2. wake' \in WakeRecord
    BY <1>0, <1>1, Fields DEF PumpReturns, WakeRecord
  <2>3. TypeOK'
    BY <1>0, <1>1, <2>1, <2>2, Fields, TypeFromFields DEF PumpReturns
  <2>4. SampleHolds' /\ StopBoundary'
    BY <2>1 DEF SampleHolds, StopBoundary, TeardownUndisturbed
  <2>5. QuiescentIsDormant'
    BY <1>0, <1>1, <2>1 DEF PumpReturns, QuiescentIsDormant
  <2> QED
    BY <2>3, <2>4, <2>5 DEF IInv
<1>2. CASE NotePumped
  <2>1. owner' \in OwnerRecord /\ owner'.pc = "inbound"
    BY <1>0, <1>2, Places DEF NotePumped
  <2>2. epoch' \in EpochRecord /\ ~epoch'.quiescent
    BY <1>2, Noted DEF NotePumped
  <2>3. TypeOK'
    BY <1>0, <1>2, <2>1, <2>2, Fields, TypeFromFields DEF NotePumped
  <2>4. SampleHolds' /\ StopBoundary' /\ QuiescentIsDormant'
    BY <2>1, <2>2 DEF SampleHolds, StopBoundary, QuiescentIsDormant, TeardownUndisturbed
  <2> QED
    BY <2>3, <2>4 DEF IInv
<1> QED
  BY <1>1, <1>2

-----------------------------------------------------------------------------
(* Scripts, and the end of the owner thread. *)

LEMMA ScriptSteps == ASSUME IInv, Script PROVE IInv'
<1>0. TypeOK /\ StopBoundary
  BY DEF IInv
<1> USE DEF ReadInbound, Waiting, TearingDown, Ended
<1>1. CASE ScriptPosts
  <2>1. /\ outbound' \in OutboundRecord /\ creator' \in CreatorRecord
        /\ epoch' \in EpochRecord /\ ~epoch'.observed /\ ~epoch'.quiescent
    BY <1>0, <1>1, Sent DEF ScriptPosts
  <2>2. TypeOK'
    BY <1>0, <1>1, <2>1, Fields, TypeFromFields DEF ScriptPosts
  <2> QED
    BY <1>1, <2>1, <2>2, ActivityNoted DEF ScriptPosts
<1>2. CASE ScriptCloses
  <2>1. TypeOK'
    BY <1>0, <1>2, Fields, TypeFromFields DEF ScriptCloses
  <2> QED
    BY <1>2, <2>1, SampleUndisturbed DEF ScriptCloses
<1>3. CASE ScriptStarts
  <2>1. owner' \in OwnerRecord /\ owner'.pc = "script"
    BY <1>0, <1>3, Fields DEF ScriptStarts, OwnerRecord
  <2>2. TypeOK'
    BY <1>0, <1>3, <2>1, Fields, TypeFromFields DEF ScriptStarts
  <2> QED
    BY <1>3, <2>1, <2>2, NothingSampled DEF ScriptStarts
<1>4. CASE ScriptEnds
  <2>1. owner.back \in {"inbound", "pump"}
    BY <1>0, Fields DEF OwnerRecord
  <2>2. owner' \in OwnerRecord /\ owner'.pc \in {"inbound", "pump", "failed"}
    BY <1>0, <1>4, <2>1, Places DEF ScriptEnds
  <2>3. TypeOK'
    BY <1>0, <1>4, <2>2, Fields, TypeFromFields DEF ScriptEnds
  <2> QED
    BY <1>4, <2>2, <2>3, NothingSampled DEF ScriptEnds
<1>5. CASE ScriptInterrupted
  <2>1. owner.back \in {"inbound", "pump"}
    BY <1>0, Fields DEF OwnerRecord
  <2>2. owner' \in OwnerRecord /\ owner'.pc \in {"inbound", "pump", "failed", "script"}
    BY <1>0, <1>5, <2>1, Places DEF ScriptInterrupted
  <2>3. terminate' \in TerminateRecord
    BY <1>0, <1>5, Fields DEF ScriptInterrupted, TerminateRecord
  <2>4. TypeOK'
    BY <1>0, <1>5, <2>2, <2>3, Fields, TypeFromFields DEF ScriptInterrupted
  <2> QED
    BY <1>5, <2>2, <2>4, NothingSampled DEF ScriptInterrupted
<1> QED
  BY <1>1, <1>2, <1>3, <1>4, <1>5 DEF Script

LEMMA EndSteps ==
    ASSUME IInv, LeaveLoop \/ ReportFailure \/ CloseWake \/ Teardown \/ DisposeEnv \/ Stopped
    PROVE  IInv'
<1>0. TypeOK /\ StopBoundary
  BY DEF IInv
<1> USE DEF ReadInbound, Waiting, TearingDown, Ended
<1>1. CASE LeaveLoop
  <2>1. owner' \in OwnerRecord /\ owner'.pc \in {"report", "close"}
    BY <1>0, <1>1, Places DEF LeaveLoop
  <2>2. lifecycle' = "stopping"
    BY <1>1 DEF LeaveLoop, CloseToProducers
  <2>3. TypeOK'
    BY <1>0, <1>1, <2>1, <2>2, Fields, TypeFromFields DEF LeaveLoop
  <2> QED
    BY <1>1, <2>1, <2>2, <2>3, NothingSampled DEF LeaveLoop
<1>2. CASE ReportFailure
  <2>1. owner' \in OwnerRecord /\ owner'.pc = "close" /\ lifecycle' # "running"
    BY <1>0, <1>2, Places DEF ReportFailure, StopBoundary
  <2>2. /\ outbound' \in OutboundRecord /\ creator' \in CreatorRecord
        /\ epoch' \in EpochRecord /\ ~epoch'.observed /\ ~epoch'.quiescent
    BY <1>0, <1>2, Sent DEF ReportFailure
  <2>3. TypeOK'
    BY <1>0, <1>2, <2>1, <2>2, Fields, TypeFromFields DEF ReportFailure
  <2> QED
    BY <1>2, <2>1, <2>2, <2>3, NothingSampled DEF ReportFailure
<1>3. CASE CloseWake
  <2>1. owner' \in OwnerRecord /\ owner'.pc = "teardown" /\ lifecycle' # "running"
    BY <1>0, <1>3, Places DEF CloseWake, StopBoundary
  <2>2. wake' \in WakeRecord
    BY <1>3 DEF CloseWake, WakeRecord
  <2>3. terminate' = NotTerminated /\ terminate' \in TerminateRecord
    BY <1>3 DEF CloseWake, NotTerminated, TerminateRecord
  <2>4. TypeOK'
    BY <1>0, <1>3, <2>1, <2>2, <2>3, Fields, TypeFromFields DEF CloseWake
  <2> QED
    BY <1>3, <2>1, <2>3, <2>4, NothingSampled DEF CloseWake
<1>4. CASE Teardown
  <2>1. /\ owner' \in OwnerRecord /\ owner'.pc = "dispose" /\ lifecycle' # "running"
        /\ terminate' = NotTerminated
    BY <1>0, <1>4, Places DEF Teardown, StopBoundary, TeardownUndisturbed
  <2>2. mailbox' \in MailboxRecord
    BY <1>0, <1>4, Fields DEF Teardown, MailboxRecord
  <2>3. TypeOK'
    BY <1>0, <1>4, <2>1, <2>2, Fields, TypeFromFields DEF Teardown
  <2> QED
    BY <1>4, <2>1, <2>3, NothingSampled DEF Teardown
<1>5. CASE DisposeEnv
  <2>1. /\ owner' \in OwnerRecord /\ owner'.pc = "disposed" /\ lifecycle' # "running"
        /\ terminate' = NotTerminated
    BY <1>0, <1>5, Places DEF DisposeEnv, StopBoundary, TeardownUndisturbed
  <2>2. TypeOK'
    BY <1>0, <1>5, <2>1, Fields, TypeFromFields DEF DisposeEnv
  <2> QED
    BY <1>5, <2>1, <2>2, NothingSampled DEF DisposeEnv
<1>6. CASE Stopped
  <2>1. /\ owner' \in OwnerRecord /\ owner'.pc = "stopped" /\ lifecycle' = "stopped"
        /\ terminate' = NotTerminated
    BY <1>0, <1>6, Places DEF Stopped, StopBoundary, TeardownUndisturbed
  <2>2. TypeOK'
    BY <1>0, <1>6, <2>1, Fields, TypeFromFields DEF Stopped
  <2> QED
    BY <1>6, <2>1, <2>2, NothingSampled DEF Stopped
<1> QED
  BY <1>1, <1>2, <1>3, <1>4, <1>5, <1>6

-----------------------------------------------------------------------------
(* The creator thread and the threads that post. *)

\* Enqueue and the shutdown command: the command is queued and the activity noted.
LEMMA CommandSteps == ASSUME IInv, Enqueue \/ AppendShutdown PROVE IInv'
<1>0. TypeOK
  BY DEF IInv
<1>1. epoch' \in EpochRecord /\ ~epoch'.observed /\ ~epoch'.quiescent
  BY Noted DEF Enqueue, AppendShutdown
<1>2. inbound' \in Seq({"message", "shutdown"})
  BY <1>0, Fields DEF Enqueue, AppendShutdown
<1>3. creator' \in CreatorRecord
  <2>1. CASE Enqueue
    BY <1>0, <2>1, Fields DEF Enqueue, CreatorRecord
  <2>2. CASE AppendShutdown
    BY <1>0, <2>2, CreatorPlaces DEF AppendShutdown
  <2> QED
    BY <2>1, <2>2
<1>4. wake' \in WakeRecord
  BY <1>0, Woken, Fields DEF Enqueue, AppendShutdown
<1>5. UNCHANGED <<owner, poster, outbound, mailbox, lifecycle, shutdown, terminate>>
  BY DEF Enqueue, AppendShutdown
<1>6. TypeOK'
  BY <1>0, <1>1, <1>2, <1>3, <1>4, <1>5, Fields, TypeFromFields
<1> QED
  BY <1>1, <1>5, <1>6, ActivityNoted

\* The other steps of the creator wake the owner, or take envelopes from it.
LEMMA CreatorSteps ==
    ASSUME IInv, Scan \/ RequestStop \/ Draining \/ WakeToStop \/ Terminate \/ Join
    PROVE  IInv'
<1>0. TypeOK
  BY DEF IInv
<1> USE DEF Draining
<1>1. UNCHANGED <<owner, inbound, epoch, mailbox, poster, lifecycle>>
  BY DEF Scan, RequestStop, TakeToken, PopOutbound, WakeEmptied, Dispatched, WakeToStop,
         Terminate, Join
<1>2. outbound' \in OutboundRecord /\ (outbound.queued = 0 => outbound'.queued = 0)
  <2>1. CASE PopOutbound
    BY <1>0, <2>1, Fields DEF PopOutbound, TakeOne, OutboundRecord
  <2>2. CASE Join
    BY <1>0, <2>2, Fields DEF Join, OutboundRecord
  <2>3. CASE Scan \/ RequestStop \/ TakeToken \/ WakeEmptied \/ Dispatched \/ WakeToStop \/ Terminate
    <3>1. UNCHANGED outbound
      BY <2>3 DEF Scan, RequestStop, TakeToken, WakeEmptied, Dispatched, WakeToStop, Terminate
    <3> QED
      BY <1>0, <3>1, Fields
  <2> QED
    BY <2>1, <2>2, <2>3
<1>3. creator' \in CreatorRecord
  <2>1. CASE TakeToken
    <3>1. creator.tokens - 1 \in Nat
      BY <1>0, <2>1, Fields DEF TakeToken, CreatorRecord
    <3> QED
      BY <1>0, <2>1, <3>1, Fields DEF TakeToken, CreatorRecord
  <2>2. CASE Scan \/ RequestStop \/ PopOutbound \/ WakeEmptied \/ Dispatched \/ WakeToStop
             \/ Terminate \/ Join
    <3>1. PICK place \in {"running", "drain", "emptied", "dispatch", "append", "wake",
                          "terminate", "join", "joined"} : CreatorGoesTo(place)
      <4>1. CASE PopOutbound
        <5>1. (CASE outbound.queued = 0 -> "running"
                 [] outbound.queued = 1 -> "emptied"
                 [] OTHER -> "dispatch") \in {"running", "emptied", "dispatch"}
          OBVIOUS
        <5> QED
          BY <4>1, <5>1 DEF PopOutbound
      <4>2. CASE Scan \/ WakeEmptied \/ Dispatched \/ WakeToStop \/ Terminate \/ Join
        BY <4>2 DEF Scan, WakeEmptied, Dispatched, WakeToStop, Terminate, Join
      <4>3. CASE RequestStop
        BY <4>3 DEF RequestStop
      <4> QED
        BY <2>2, <4>1, <4>2, <4>3
    <3> QED
      BY <1>0, <3>1, CreatorPlaces
  <2> QED
    BY <2>1, <2>2
<1>4. wake' \in WakeRecord
  BY <1>0, Woken, Fields DEF Scan, RequestStop, TakeToken, PopOutbound, WakeEmptied,
     WakeForTheLast, Dispatched, WakeToStop, Terminate, Join
<1>5. /\ shutdown' \in BOOLEAN /\ terminate' \in TerminateRecord
      /\ terminate' = terminate \/ lifecycle = "running"
  <2>1. shutdown' \in BOOLEAN
    BY <1>0, Fields DEF Scan, RequestStop, TakeToken, PopOutbound, WakeEmptied, Dispatched,
       WakeToStop, Terminate, Join
  <2>2. CASE Terminate
    <3>1. [requested |-> TRUE, interrupt |-> "posted"] \in TerminateRecord
      BY DEF TerminateRecord
    <3> QED
      BY <1>0, <2>1, <2>2, <3>1, Fields DEF Terminate, RequestTerminate
  <2>3. CASE Scan \/ RequestStop \/ Draining \/ WakeToStop \/ Join
    <3>1. UNCHANGED terminate
      BY <2>3 DEF Scan, RequestStop, TakeToken, PopOutbound, WakeEmptied, Dispatched,
         WakeToStop, Join
    <3> QED
      BY <1>0, <2>1, <3>1, Fields
  <2> QED
    BY <2>2, <2>3
<1>6. TypeOK'
  BY <1>0, <1>1, <1>2, <1>3, <1>4, <1>5, Fields, TypeFromFields
<1> QED
  BY <1>1, <1>2, <1>5, <1>6, SampleUndisturbed

LEMMA PosterSteps == ASSUME IInv, NEW p \in Posters, Post(p) \/ Notify(p) PROVE IInv'
<1>0. TypeOK /\ SampleHolds /\ StopBoundary /\ QuiescentIsDormant
  BY DEF IInv
<1>1. poster' \in [Posters -> {"idle", "appended", "noted"}]
  BY <1>0, Fields DEF Post, Notify, NotePost, WakePost
<1>2. CASE Post(p)
  <2>1. mailbox' \in MailboxRecord
    <3>1. /\ mailbox.queued + 1 \in Nat /\ mailbox.posts + 1 \in Nat
          /\ mailbox \in MailboxRecord
      BY <1>0, Fields DEF MailboxRecord
    <3> QED
      BY <1>2, <3>1 DEF Post, MailboxRecord
  <2>2. UNCHANGED <<owner, creator, inbound, outbound, lifecycle, shutdown, terminate,
                    epoch, wake>>
    BY <1>2 DEF Post
  <2>3. TypeOK'
    BY <1>0, <1>1, <2>1, <2>2, Fields, TypeFromFields
  <2>4. poster'[p] = "appended"
    BY <1>0, <1>2, Fields DEF Post
  <2>5. MailboxUnnoted'
    BY <2>4 DEF MailboxUnnoted
  <2>6. SampleHolds' /\ StopBoundary'
    BY <1>0, <2>2, <2>5 DEF SampleHolds, StopBoundary, TeardownUndisturbed
  <2>7. QuiescentIsDormant'
    BY <1>0, <2>2, <2>5 DEF QuiescentIsDormant, MailboxUnnoted
  <2> QED
    BY <2>3, <2>6, <2>7 DEF IInv
<1>3. CASE NotePost(p)
  <2>1. epoch' \in EpochRecord /\ ~epoch'.observed /\ ~epoch'.quiescent
    BY <1>3, Noted DEF NotePost
  <2>2. UNCHANGED <<owner, creator, inbound, outbound, mailbox, lifecycle, shutdown,
                    terminate, wake>>
    BY <1>3 DEF NotePost
  <2>3. TypeOK'
    BY <1>0, <1>1, <2>1, <2>2, Fields, TypeFromFields
  <2> QED
    BY <2>1, <2>2, <2>3, ActivityNoted
<1>4. CASE WakePost(p)
  <2>1. wake' \in WakeRecord
    BY <1>0, <1>4, Woken DEF WakePost
  <2>2. UNCHANGED <<owner, creator, inbound, outbound, mailbox, lifecycle, shutdown,
                    terminate, epoch>>
    BY <1>4 DEF WakePost
  <2>3. TypeOK'
    BY <1>0, <1>1, <2>1, <2>2, Fields, TypeFromFields
  <2>4. MailboxUnnoted => MailboxUnnoted'
    <3>1. \A q \in Posters : poster[q] = "appended" => poster'[q] = "appended"
      BY <1>0, <1>4, Fields DEF WakePost
    <3> QED
      BY <2>2, <3>1 DEF MailboxUnnoted
  <2>5. SampleHolds' /\ StopBoundary'
    BY <1>0, <2>2, <2>4 DEF SampleHolds, StopBoundary, TeardownUndisturbed
  <2>6. QuiescentIsDormant'
    BY <1>0, <2>2, <2>4 DEF QuiescentIsDormant, MailboxUnnoted
  <2> QED
    BY <2>3, <2>5, <2>6 DEF IInv
<1> QED
  BY <1>2, <1>3, <1>4 DEF Notify

-----------------------------------------------------------------------------
LEMMA InvariantInit == Init => IInv
<1> SUFFICES ASSUME Init PROVE IInv
  OBVIOUS
<1>1. TypeOK
  <2>1. <<>> \in Seq({"message", "shutdown"})
    OBVIOUS
  <2>2. [p \in Posters |-> "idle"] \in [Posters -> {"idle", "appended", "noted"}]
    OBVIOUS
  <2>3. {} \in SUBSET {"task", "request"} /\ NotTerminated \in TerminateRecord
    BY DEF NotTerminated, TerminateRecord
  <2>4. /\ owner \in OwnerRecord /\ creator \in CreatorRecord /\ outbound \in OutboundRecord
        /\ mailbox \in MailboxRecord /\ epoch \in EpochRecord /\ wake \in WakeRecord
    BY <2>3 DEF Init, OwnerRecord, CreatorRecord, OutboundRecord, MailboxRecord, EpochRecord,
                WakeRecord
  <2>5. /\ poster \in [Posters -> {"idle", "appended", "noted"}]
        /\ inbound \in Seq({"message", "shutdown"})
        /\ lifecycle \in {"running", "stopping", "stopped"}
        /\ shutdown \in BOOLEAN /\ terminate \in TerminateRecord
    BY <2>1, <2>2, <2>3 DEF Init
  <2> QED
    BY <2>4, <2>5 DEF TypeOK, OwnerRecord, CreatorRecord, OutboundRecord, MailboxRecord,
                      EpochRecord, WakeRecord, TerminateRecord
<1>2. StopBoundary /\ SampleHolds /\ QuiescentIsDormant
  BY DEF Init, StopBoundary, TeardownUndisturbed, TearingDown, Ended, SampleHolds,
         QuiescentIsDormant, ReadInbound, Waiting
<1> QED
  BY <1>1, <1>2 DEF IInv

LEMMA InvariantStep == IInv /\ [Next]_vars => IInv'
<1> SUFFICES ASSUME IInv, [Next]_vars PROVE IInv'
  OBVIOUS
<1>1. CASE OwnerProceeds
  BY <1>1, LoopSteps, RecheckStep, SampleSteps, WaitSteps, EndSteps DEF OwnerProceeds
<1>2. CASE PumpReturns
  BY <1>2, WaitSteps
<1>3. CASE Script
  BY <1>3, ScriptSteps
<1>4. CASE Enqueue \/ Scan \/ RequestStop \/ Draining \/ Stopping
  BY <1>4, CommandSteps, CreatorSteps DEF Stopping
<1>5. CASE \E p \in Posters : Post(p) \/ Notify(p)
  BY <1>5, PosterSteps
<1>6. CASE UNCHANGED vars
  <2>1. TypeOK'
    BY <1>6 DEF vars, IInv, TypeOK
  <2> QED
    BY <1>6, <2>1, SampleUndisturbed DEF vars
<1> QED
  BY <1>1, <1>2, <1>3, <1>4, <1>5, <1>6 DEF Next

LEMMA Invariance == Spec => []IInv
BY InvariantInit, InvariantStep, PTL DEF Spec

\* Every variable of the worker keeps to its type.
THEOREM WorkerTypeOK == Spec => []TypeOK
<1>1. IInv => TypeOK
  BY DEF IInv
<1> QED
  BY <1>1, Invariance, PTL

\* Whatever a stop of the creator races with, no terminate is pending in an isolate once its
\* teardown has begun, nor requested of one disposed of (requestStop, ownerShutdown).
THEOREM TeardownIsUndisturbed == Spec => []TeardownUndisturbed
<1>1. IInv => TeardownUndisturbed
  BY DEF IInv, StopBoundary
<1> QED
  BY <1>1, Invariance, PTL

\* A worker that Runner counts as idle has nothing to do and nothing to hand over, whatever
\* the creator and the other threads did while it took its sample.
THEOREM QuiescentDormant == Spec => []QuiescentIsDormant
<1>1. IInv => QuiescentIsDormant
  BY DEF IInv
<1> QED
  BY <1>1, Invariance, PTL
=============================================================================
