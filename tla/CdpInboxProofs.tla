--------------------------- MODULE CdpInboxProofs ---------------------------
(***************************************************************************)
(* Proofs about CdpInbox, for any requests and any number of messages: the   *)
(* types with the nesting of ticks and waits, NoDanglingContext,             *)
(* NothingFreedUnderAScript and OnlyCommandsAreOvertaken.                    *)
(*                                                                         *)
(* Every step of the worker replaces the end of its stack, so the proof is   *)
(* about the ways of doing so, each in a lemma of its own.  The order of the *)
(* messages is a second invariant, InOrder.                                 *)
(***************************************************************************)
EXTENDS CdpInbox, WellFoundedInduction, TLAPS

Ticking == {"perform", "performed", "drain"}

StackOK(s) == s \in Seq(Frames) /\ WellNested(s)

\* A wait for r is on the stack.
Awaited(s, r) == \E i \in DOMAIN s : s[i] = Waiting(r)

-----------------------------------------------------------------------------
(* Sequences.                                                              *)

\* What Append does to a sequence.
LEMMA AppendFacts ==
    ASSUME NEW S, NEW s \in Seq(S), NEW x \in S
    PROVE  /\ Append(s, x) \in Seq(S) /\ Len(Append(s, x)) = Len(s) + 1
           /\ DOMAIN Append(s, x) = 1..(Len(s) + 1)
           /\ \A i \in 1..Len(s) : Append(s, x)[i] = s[i]
           /\ Append(s, x)[Len(s) + 1] = x
OBVIOUS

\* A stack that is not empty is Front and Last.
LEMMA FrontFacts ==
    ASSUME NEW s \in Seq(Frames), s # <<>>
    PROVE  /\ Front(s) \in Seq(Frames) /\ Len(Front(s)) = Len(s) - 1 /\ Len(s) \in Nat \ {0}
           /\ DOMAIN Front(s) = 1..(Len(s) - 1) /\ DOMAIN s = 1..Len(s)
           /\ \A i \in 1..(Len(s) - 1) : Front(s)[i] = s[i]
           /\ Last(s) = s[Len(s)] /\ Last(s) \in Frames
<1>1. Len(s) \in Nat \ {0} /\ DOMAIN s = 1..Len(s)
  OBVIOUS
<1>2. /\ SubSeq(s, 1, Len(s) - 1) \in Seq(Frames) /\ Len(SubSeq(s, 1, Len(s) - 1)) = Len(s) - 1
      /\ \A i \in 1..(Len(s) - 1) : SubSeq(s, 1, Len(s) - 1)[i] = s[i]
  BY <1>1
<1>3. DOMAIN SubSeq(s, 1, Len(s) - 1) = 1..(Len(s) - 1)
  BY <1>2
<1>4. s[Len(s)] \in Frames
  BY <1>1
<1> QED BY <1>1, <1>2, <1>3, <1>4 DEF Front, Last

\* Two frames at once are called one after the other.
LEMMA ConcatTwo ==
    ASSUME NEW S, NEW s \in Seq(S), NEW a \in S, NEW b \in S
    PROVE  s \o <<a, b>> = Append(Append(s, a), b)
OBVIOUS

\* What RemoveAt leaves, place by place.
LEMMA RemoveAtFacts ==
    ASSUME NEW S, NEW s \in Seq(S), NEW k \in DOMAIN s
    PROVE  /\ RemoveAt(s, k) \in Seq(S) /\ Len(RemoveAt(s, k)) = Len(s) - 1
           /\ \A i \in 1..(Len(s) - 1) : RemoveAt(s, k)[i] = IF i < k THEN s[i] ELSE s[i + 1]
<1> DEFINE a == SubSeq(s, 1, k - 1)
           b == SubSeq(s, k + 1, Len(s))
<1>1. /\ a \in Seq(S) /\ Len(a) = k - 1 /\ \A i \in 1..(k - 1) : a[i] = s[i]
  OBVIOUS
<1>2. /\ b \in Seq(S) /\ Len(b) = Len(s) - k
      /\ \A i \in 1..(Len(s) - k) : b[i] = s[k + i]
  OBVIOUS
<1>3. RemoveAt(s, k) = a \o b
  BY DEF RemoveAt
<1>4. k \in 1..Len(s) /\ Len(s) \in Nat
  OBVIOUS
<1> HIDE DEF a, b
<1>5. RemoveAt(s, k) \in Seq(S) /\ Len(RemoveAt(s, k)) = Len(s) - 1
  BY <1>1, <1>2, <1>3, <1>4
<1>6. ASSUME NEW i \in 1..(Len(s) - 1)
      PROVE  RemoveAt(s, k)[i] = IF i < k THEN s[i] ELSE s[i + 1]
  <2>1. CASE i < k
    <3>1. (a \o b)[i] = a[i] /\ a[i] = s[i]
      BY <1>1, <1>2, <1>4, <2>1
    <3> QED BY <3>1, <1>3, <2>1
  <2>2. CASE ~(i < k)
    <3>1. i - k + 1 \in 1..Len(b) /\ b[i - k + 1] = s[k + (i - k + 1)] /\ k + (i - k + 1) = i + 1
      BY <1>2, <1>4, <2>2
    <3>2. (a \o b)[i] = b[i - Len(a)] /\ i - Len(a) = i - k + 1
      BY SMTT(30), <1>1, <1>2, <1>4, <2>2
    <3> QED BY <3>1, <3>2, <1>3, <2>2
  <2> QED BY <2>1, <2>2
<1> QED BY <1>5, <1>6

-----------------------------------------------------------------------------
(* The ends of a stack.                                                    *)

\* The frames are records of three shapes.
LEMMA FrameKinds ==
    /\ Script \in Frames /\ Script.at = "script"
    /\ \A r \in Requests : Waiting(r) \in Frames /\ Waiting(r).at = "wait" /\ Waiting(r).req = r
    /\ \A mode \in {"all", "sync"} : \A f \in {Performing(mode), Performed(mode), Draining(mode)} :
          f \in Frames /\ f.at \in Ticking /\ f.mode = mode
    /\ \A f \in Frames : f.at \in Ticking => f.mode \in {"all", "sync"}
    /\ \A f \in Frames : f.at = "wait" => f.req \in Requests /\ f = Waiting(f.req)
<1> USE DEF Frames, Script, Waiting, Performing, Performed, Draining, Ticking
<1>1. Script \in Frames /\ Script.at = "script"
  OBVIOUS
<1>2. \A r \in Requests : Waiting(r) \in Frames /\ Waiting(r).at = "wait" /\ Waiting(r).req = r
  OBVIOUS
<1>3. ASSUME NEW mode \in {"all", "sync"}, NEW f \in {Performing(mode), Performed(mode), Draining(mode)}
      PROVE  f \in Frames /\ f.at \in Ticking /\ f.mode = mode
  <2>1. f \in [at : {"perform", "performed", "drain"}, mode : {"all", "sync"}]
    BY <1>3
  <2> QED BY <1>3, <2>1
<1>4. ASSUME NEW f \in Frames, f.at \in Ticking PROVE f.mode \in {"all", "sync"}
  BY <1>4
<1>5. ASSUME NEW f \in Frames, f.at = "wait" PROVE f.req \in Requests /\ f = Waiting(f.req)
  <2>1. f \in {Waiting(r) : r \in Requests}
    BY <1>5
  <2> QED BY <2>1
<1> QED BY <1>1, <1>2, <1>3, <1>4, <1>5

\* A return.
LEMMA ReturnOK ==
    ASSUME NEW s, StackOK(s), s # <<>>
    PROVE  /\ StackOK(Front(s))
           /\ \A r : Awaited(s, r) /\ Last(s) # Waiting(r) => Awaited(Front(s), r)
<1>0. /\ Front(s) \in Seq(Frames) /\ Len(Front(s)) = Len(s) - 1 /\ Len(s) \in Nat \ {0}
      /\ DOMAIN Front(s) = 1..(Len(s) - 1) /\ DOMAIN s = 1..Len(s)
      /\ \A i \in 1..(Len(s) - 1) : Front(s)[i] = s[i]
      /\ Last(s) = s[Len(s)] /\ Last(s) \in Frames
  BY FrontFacts DEF StackOK
<1>1. WellNested(Front(s))
  <2> SUFFICES ASSUME NEW i \in DOMAIN Front(s), Front(s)[i].at \in Ticking
               PROVE  \/ i = 1 /\ Front(s)[i].mode = "all"
                      \/ i > 1 /\ Front(s)[i - 1].at = "wait" /\ Front(s)[i].mode = "sync"
    BY DEF WellNested, Ticking
  <2>1. i \in DOMAIN s /\ Front(s)[i] = s[i] /\ (i > 1 => Front(s)[i - 1] = s[i - 1])
    BY <1>0
  <2> QED BY <2>1 DEF StackOK, WellNested, Ticking
<1>2. ASSUME NEW r, Awaited(s, r), Last(s) # Waiting(r) PROVE Awaited(Front(s), r)
  <2>1. PICK i \in DOMAIN s : s[i] = Waiting(r)
    BY <1>2 DEF Awaited
  <2>2. i \in 1..(Len(s) - 1)
    BY <1>0, <1>2, <2>1
  <2>3. i \in DOMAIN Front(s) /\ Front(s)[i] = Waiting(r)
    BY <1>0, <2>1, <2>2
  <2> QED BY <2>3 DEF Awaited
<1> QED BY <1>0, <1>1, <1>2 DEF StackOK

\* A call: of a script, of the first tick of the loop, of a tick by a wait, of
\* a wait by a script.
LEMMA CallOK ==
    ASSUME NEW s, StackOK(s), NEW f \in Frames,
           f.at \in Ticking => \/ s = <<>> /\ f.mode = "all"
                               \/ s # <<>> /\ Last(s).at = "wait" /\ f.mode = "sync"
    PROVE  /\ StackOK(Append(s, f))
           /\ \A r : Awaited(s, r) \/ f = Waiting(r) => Awaited(Append(s, f), r)
<1> USE DEF StackOK
<1>1. WellNested(Append(s, f))
  <2> SUFFICES ASSUME NEW i \in DOMAIN Append(s, f), Append(s, f)[i].at \in Ticking
               PROVE  \/ i = 1 /\ Append(s, f)[i].mode = "all"
                      \/ i > 1 /\ Append(s, f)[i - 1].at = "wait" /\ Append(s, f)[i].mode = "sync"
    BY DEF WellNested, Ticking
  <2>1. CASE i \in 1..Len(s)
    <3>1. i \in DOMAIN s /\ Append(s, f)[i] = s[i]
      BY <2>1, AppendFacts
    <3>2. i > 1 => Append(s, f)[i - 1] = s[i - 1]
      BY <2>1, AppendFacts
    <3> QED BY <3>1, <3>2 DEF WellNested, Ticking
  <2>2. CASE i = Len(s) + 1
    <3>1. Append(s, f)[i] = f
      BY <2>2, AppendFacts
    <3>2. CASE s = <<>>
      BY <2>2, <3>1, <3>2
    <3>3. CASE s # <<>>
      <4>1. Last(s) = s[Len(s)] /\ Len(s) \in 1..Len(s)
        BY <3>3, FrontFacts
      <4>2. Append(s, f)[Len(s)] = s[Len(s)]
        BY <4>1, AppendFacts
      <4>3. i > 1 /\ i - 1 = Len(s)
        BY <2>2, <4>1
      <4> QED BY <3>1, <3>3, <4>1, <4>2, <4>3
    <3> QED BY <3>2, <3>3
  <2> QED BY <2>1, <2>2, AppendFacts
<1>2. ASSUME NEW r, Awaited(s, r) \/ f = Waiting(r) PROVE Awaited(Append(s, f), r)
  <2>1. Len(s) + 1 \in DOMAIN Append(s, f) /\ \A i \in DOMAIN s : i \in DOMAIN Append(s, f)
    BY AppendFacts
  <2> QED BY <1>2, <2>1, AppendFacts DEF Awaited
<1> QED BY <1>1, <1>2, AppendFacts

\* What is below the frame of a tick: nothing, or the wait that called it.
LEMMA TickCaller ==
    ASSUME NEW s, StackOK(s), s # <<>>, Last(s).at \in Ticking
    PROVE  \/ Len(s) = 1 /\ Last(s).mode = "all" /\ Front(s) = <<>>
           \/ /\ Len(s) > 1 /\ Last(s).mode = "sync"
              /\ Front(s) # <<>> /\ Last(Front(s)).at = "wait"
<1>0. /\ Front(s) \in Seq(Frames) /\ Len(Front(s)) = Len(s) - 1 /\ Len(s) \in Nat \ {0}
      /\ DOMAIN Front(s) = 1..(Len(s) - 1) /\ DOMAIN s = 1..Len(s)
      /\ \A i \in 1..(Len(s) - 1) : Front(s)[i] = s[i]
      /\ Last(s) = s[Len(s)] /\ Last(s) \in Frames
  BY FrontFacts DEF StackOK
<1>1. Len(s) \in DOMAIN s /\ s[Len(s)] = Last(s)
  BY <1>0
<1>2. \/ Len(s) = 1 /\ Last(s).mode = "all"
      \/ Len(s) > 1 /\ s[Len(s) - 1].at = "wait" /\ Last(s).mode = "sync"
  BY <1>1 DEF StackOK, WellNested, Ticking
<1>3. ASSUME Len(s) > 1 PROVE Front(s) # <<>> /\ Last(Front(s)) = s[Len(s) - 1]
  <2>1. Front(s) # <<>>
    BY <1>0, <1>3
  <2>2. Last(Front(s)) = Front(s)[Len(Front(s))]
    BY DEF Last
  <2>3. Front(s)[Len(s) - 1] = s[Len(s) - 1]
    BY <1>0, <1>3
  <2> QED BY <1>0, <2>1, <2>2, <2>3
<1>4. Len(s) = 1 => Front(s) = <<>>
  BY <1>0
<1> QED BY <1>2, <1>3, <1>4

\* A tick goes on to its next part.
LEMMA BecomesOK ==
    ASSUME NEW s, StackOK(s), s # <<>>, Last(s).at \in Ticking,
           NEW f \in Frames, f.at \in Ticking, f.mode = Last(s).mode
    PROVE  /\ StackOK(Append(Front(s), f))
           /\ \A r \in Requests : Awaited(s, r) => Awaited(Append(Front(s), f), r)
<1>1. StackOK(Front(s)) /\ \A r : Awaited(s, r) /\ Last(s) # Waiting(r) => Awaited(Front(s), r)
  BY ReturnOK
<1>2. \/ Front(s) = <<>> /\ f.mode = "all"
      \/ Front(s) # <<>> /\ Last(Front(s)).at = "wait" /\ f.mode = "sync"
  BY TickCaller
<1>3. /\ StackOK(Append(Front(s), f))
      /\ \A r : Awaited(Front(s), r) \/ f = Waiting(r) => Awaited(Append(Front(s), f), r)
  BY <1>1, <1>2, CallOK
<1>4. \A r \in Requests : Last(s) # Waiting(r)
  BY FrameKinds DEF Ticking
<1> QED BY <1>1, <1>3, <1>4

-----------------------------------------------------------------------------
(* Messages that leave the inbox.                                          *)

\* A set of places has a first one.
LEMMA Least ==
    ASSUME NEW T \in SUBSET Nat, T # {}
    PROVE  \E i \in T : \A j \in T : i <= j
<1>1. IsWellFoundedOn(OpToRel(<, Nat), Nat)
  BY NatLessThanWellFounded
<1>2. PICK i \in T : \A j \in T : ~(<<j, i>> \in OpToRel(<, Nat))
  BY <1>1, WFMin
<1>3. \A j \in T : ~(j < i)
  BY <1>2 DEF OpToRel
<1> QED BY <1>3

Message(n) ==
    [id : 1..n, kind : {"fetch", "teardown", "command", "ping", "close", "disconnect"}]

\* What is taken is a candidate, and the rest stays.
LEMMA TakeFacts ==
    ASSUME TypeOK, NEW kinds, Take(kinds)
    PROVE  /\ StackOK(stack) /\ stack # <<>> /\ Last(stack).at = "drain"
           /\ Taken \in Message(pushed) /\ Taken.kind \in kinds
           /\ Last(stack).mode = "all" \/ AllowDuringSyncWait(Taken)
           /\ inbox' \in Seq(Message(pushed))
           /\ Leaving \subseteq {Taken}
           /\ \E k \in Candidates :
                 /\ Taken = inbox[k] /\ \A j \in Candidates : k <= j
                 /\ Len(inbox') = Len(inbox) - 1 /\ k \in 1..Len(inbox)
                 /\ \A i \in 1..(Len(inbox) - 1) :
                       inbox'[i] = IF i < k THEN inbox[i] ELSE inbox[i + 1]
<1>1. stack # <<>> /\ Last(stack).at = "drain" /\ Candidates # {} /\ Taken.kind \in kinds
  BY DEF Take, At, Taken
<1>2. inbox \in Seq(Message(pushed))
  BY DEF TypeOK, Message
<1>3. Candidates \in SUBSET Nat
  BY <1>2 DEF Candidates
<1>4. OldestOf(Candidates) \in Candidates /\ \A j \in Candidates : OldestOf(Candidates) <= j
  <2>1. \E i \in Candidates : \A j \in Candidates : i <= j
    BY <1>1, <1>3, Least
  <2> QED BY <2>1 DEF OldestOf
<1>5. OldestOf(Candidates) \in DOMAIN inbox
      /\ (Last(stack).mode = "all" \/ AllowDuringSyncWait(Taken))
  BY <1>4 DEF Candidates, Taken
<1>6. inbox' = RemoveAt(inbox, OldestOf(Candidates))
  BY DEF Take
<1>7. Taken \in Message(pushed)
  BY <1>2, <1>5 DEF Taken
<1> DEFINE k == OldestOf(Candidates)
<1>8. /\ inbox' \in Seq(Message(pushed)) /\ Len(inbox') = Len(inbox) - 1
      /\ \A i \in 1..(Len(inbox) - 1) : inbox'[i] = IF i < k THEN inbox[i] ELSE inbox[i + 1]
  BY <1>2, <1>5, <1>6, RemoveAtFacts
<1>9. Taken = inbox[k] /\ k \in Candidates /\ k \in 1..Len(inbox) /\ \A j \in Candidates : k <= j
  BY <1>2, <1>4, <1>5 DEF Taken
<1> HIDE DEF k
<1>10. ASSUME NEW i \in DOMAIN inbox, i # k
       PROVE  \E j \in DOMAIN inbox' : inbox'[j] = inbox[i]
  <2>1. DOMAIN inbox' = 1..(Len(inbox) - 1) /\ i \in 1..Len(inbox)
    BY <1>2, <1>8
  <2>2. CASE i < k
    BY <1>8, <1>9, <2>1, <2>2
  <2>3. CASE i > k
    <3>1. i - 1 \in 1..(Len(inbox) - 1) /\ ~(i - 1 < k) /\ (i - 1) + 1 = i
      BY <1>9, <2>1, <2>3
    <3> QED BY <1>8, <2>1, <3>1
  <2> QED BY <1>9, <1>10, <2>1, <2>2, <2>3
<1>11. Leaving \subseteq {Taken}
  BY <1>9, <1>10 DEF Leaving
<1> QED BY <1>1, <1>5, <1>7, <1>8, <1>9, <1>11 DEF TypeOK, StackOK

\* Nothing leaves the inbox when something is pushed, or nothing happens to it.
LEMMA NothingLeaves ==
    /\ UNCHANGED inbox => Leaving = {}
    /\ TypeOK => \A kind : Push(kind) => Leaving = {}
<1>1. UNCHANGED inbox => Leaving = {}
  BY DEF Leaving
<1>2. ASSUME TypeOK, NEW kind, Push(kind) PROVE Leaving = {}
  <2> DEFINE m == [id |-> pushed + 1, kind |-> kind]
  <2>1. inbox \in Seq(Message(pushed)) /\ inbox' = Append(inbox, m)
    BY <1>2 DEF TypeOK, Push, Message
  <2> HIDE DEF m
  <2>2. \A i \in DOMAIN inbox : i \in DOMAIN inbox' /\ inbox'[i] = inbox[i]
    BY <2>1
  <2> QED BY <2>2 DEF Leaving
<1> QED BY <1>1, <1>2

\* A step pushes, takes, or leaves the inbox alone.
LEMMA InboxStep ==
    ASSUME [Next]_vars
    PROVE  (\E kind : Push(kind)) \/ (\E kinds : Take(kinds)) \/ UNCHANGED inbox
<1>1. CASE ReceiveFrame \/ ReceiveEnd \/ PushDisconnect
  BY <1>1 DEF ReceiveFrame, ReceiveEnd, PushDisconnect
<1>2. CASE Drain
  BY <1>2 DEF Drain, DispatchCommand, DispatchAnswer, Pong, ObserveEnd, EndDrain
<1>3. CASE DropLink \/ TakeInterrupt \/ ScriptEnds \/ ScriptCondemned \/ RunMacrotask
           \/ SeeTerminate \/ Progress \/ RunCallback \/ StartTick \/ EndPerform
           \/ WaitEnds \/ WaitFails \/ WaitTicks \/ Unregister
           \/ \E r \in Requests : StartWait(r)
  BY <1>3 DEF DropLink, TakeInterrupt, ScriptEnds, ScriptCondemned, RunMacrotask,
         SeeTerminate, Progress, RunCallback, StartTick, EndPerform, WaitEnds, WaitFails,
         WaitTicks, Unregister, StartWait
<1>4. CASE UNCHANGED vars
  BY <1>4 DEF vars
<1> QED BY <1>1, <1>2, <1>3, <1>4 DEF Next, NetworkStep, WorkerProceeds

-----------------------------------------------------------------------------
(* The stack and the requests waited for.                                  *)

States == {"none", "parked", "inflight", "ended"}

ShapeOf(s, tr) ==
    /\ StackOK(s) /\ tr \in [Requests -> States]
    /\ \A r \in Fetches : tr[r] \in {"parked", "inflight"} => Awaited(s, r)

\* A return from anything but a wait.
LEMMA ReturnShape ==
    ASSUME NEW s, NEW tr, ShapeOf(s, tr), s # <<>>, Last(s).at # "wait"
    PROVE  ShapeOf(Front(s), tr)
<1>1. StackOK(Front(s)) /\ \A r : Awaited(s, r) /\ Last(s) # Waiting(r) => Awaited(Front(s), r)
  BY ReturnOK DEF ShapeOf
<1>2. \A r \in Fetches : Last(s) # Waiting(r)
  BY FrameKinds DEF Requests
<1> QED BY <1>1, <1>2 DEF ShapeOf

\* A wait that is over, or is given up and takes its request with it.
LEMMA EndWaitShape ==
    ASSUME NEW s, NEW tr, ShapeOf(s, tr), s # <<>>, Last(s).at = "wait",
           NEW new \in [Requests -> States],
           \A r \in Requests : r # Last(s).req => new[r] = tr[r],
           Last(s).req \in Fetches => new[Last(s).req] = "ended"
    PROVE  ShapeOf(Front(s), new)
<1>1. StackOK(Front(s)) /\ \A r : Awaited(s, r) /\ Last(s) # Waiting(r) => Awaited(Front(s), r)
  BY ReturnOK DEF ShapeOf
<1>2. Last(s) \in Frames
  BY FrontFacts DEF ShapeOf, StackOK
<1>3. ASSUME NEW r \in Fetches, new[r] \in {"parked", "inflight"} PROVE Awaited(Front(s), r)
  <2>1. r \in Requests /\ r # Last(s).req
    BY <1>3 DEF Requests
  <2>2. Last(s) # Waiting(r)
    BY <2>1, FrameKinds
  <2>3. Awaited(s, r)
    BY <1>3, <2>1 DEF ShapeOf
  <2> QED BY <1>1, <2>2, <2>3
<1> QED BY <1>1, <1>3 DEF ShapeOf

\* A call.
LEMMA CallShape ==
    ASSUME NEW s, NEW tr, ShapeOf(s, tr), NEW f \in Frames,
           f.at \in Ticking => \/ s = <<>> /\ f.mode = "all"
                               \/ s # <<>> /\ Last(s).at = "wait" /\ f.mode = "sync"
    PROVE  ShapeOf(Append(s, f), tr)
<1>1. /\ StackOK(Append(s, f))
      /\ \A r : Awaited(s, r) \/ f = Waiting(r) => Awaited(Append(s, f), r)
  BY CallOK DEF ShapeOf
<1> QED BY <1>1 DEF ShapeOf

\* A tick that goes on.
LEMMA BecomesShape ==
    ASSUME NEW s, NEW tr, ShapeOf(s, tr), s # <<>>, Last(s).at \in Ticking,
           NEW f \in Frames, f.at \in Ticking, f.mode = Last(s).mode
    PROVE  ShapeOf(Append(Front(s), f), tr)
<1>1. /\ StackOK(Append(Front(s), f))
      /\ \A r \in Requests : Awaited(s, r) => Awaited(Append(Front(s), f), r)
  BY BecomesOK DEF ShapeOf
<1> QED BY <1>1 DEF ShapeOf, Requests

\* A script starts to wait.
LEMMA StartWaitShape ==
    ASSUME ShapeOf(stack, transfer), NEW r \in Requests, StartWait(r)
    PROVE  ShapeOf(stack', transfer')
<1> DEFINE s == Append(stack, Waiting(r))
<1>1. StackOK(stack) /\ stack \in Seq(Frames)
  BY DEF ShapeOf, StackOK
<1>2. /\ Waiting(r) \in Frames /\ Waiting(r).at = "wait"
      /\ Performing("sync") \in Frames /\ Performing("sync").mode = "sync"
  BY FrameKinds
<1>3. StackOK(s) /\ \A q : Awaited(stack, q) \/ Waiting(r) = Waiting(q) => Awaited(s, q)
  BY <1>1, <1>2, CallOK DEF Ticking
<1>4. s # <<>> /\ Last(s) = Waiting(r)
  <2>1. Len(s) = Len(stack) + 1 /\ s[Len(stack) + 1] = Waiting(r) /\ Len(stack) \in Nat
    BY <1>1, <1>2, AppendFacts
  <2> QED BY <2>1 DEF Last
<1> HIDE DEF s
<1>5. /\ StackOK(Append(s, Performing("sync")))
      /\ \A q : Awaited(s, q) => Awaited(Append(s, Performing("sync")), q)
  BY <1>2, <1>3, <1>4, CallOK
<1>6. stack' = Append(s, Performing("sync"))
  BY <1>1, <1>2, ConcatTwo DEF StartWait, s
<1>7. PICK state \in {"parked", "inflight"} : transfer' = [transfer EXCEPT ![r] = state]
  BY DEF StartWait
<1>8. transfer' \in [Requests -> States]
  BY <1>7 DEF ShapeOf, States
<1>9. ASSUME NEW q \in Fetches, transfer'[q] \in {"parked", "inflight"}
      PROVE  Awaited(stack', q)
  <2>1. q = r \/ Awaited(stack, q)
    BY <1>7, <1>9 DEF ShapeOf, Requests
  <2> QED BY <2>1, <1>3, <1>5, <1>6
<1> QED BY <1>5, <1>6, <1>8, <1>9 DEF ShapeOf

\* The callback of a transfer.
LEMMA RunCallbackShape ==
    ASSUME ShapeOf(stack, transfer), RunCallback
    PROVE  ShapeOf(stack', transfer')
<1> DEFINE f == Performed(Last(stack).mode)
<1>1. stack # <<>> /\ Last(stack).at \in Ticking
  BY DEF RunCallback, At, Ticking
<1>2. stack \in Seq(Frames) /\ Last(stack) \in Frames /\ Front(stack) \in Seq(Frames)
  BY <1>1, FrontFacts DEF ShapeOf, StackOK
<1>3. Last(stack).mode \in {"all", "sync"}
  BY <1>1, <1>2, FrameKinds
<1>4. f \in Frames /\ f.at \in Ticking /\ f.mode = Last(stack).mode
  BY <1>3, FrameKinds
<1>5. stack' = Front(stack) \o <<f, Script>> /\ transfer' = transfer
  BY DEF RunCallback
<1> HIDE DEF f
<1>6. ShapeOf(Append(Front(stack), f), transfer)
  BY <1>1, <1>4, BecomesShape
<1>7. Script \in Frames /\ Script.at \notin Ticking
  BY FrameKinds DEF Ticking
<1>8. ShapeOf(Append(Append(Front(stack), f), Script), transfer)
  BY <1>6, <1>7, CallShape
<1>9. stack' = Append(Append(Front(stack), f), Script)
  BY <1>2, <1>4, <1>5, <1>7, ConcatTwo
<1> QED BY <1>5, <1>8, <1>9

\* The end of the connection, observed by a drain.
LEMMA ObserveEndShape ==
    ASSUME ShapeOf(stack, transfer), ObserveEnd
    PROVE  ShapeOf(stack', transfer')
<1>1. stack # <<>> /\ Last(stack).at = "drain"
  BY DEF ObserveEnd, Take, At
<1>2. ShapeOf(Front(stack), transfer)
  BY <1>1, ReturnShape
<1>3. CASE Len(stack) = 1
  BY <1>2, <1>3 DEF ObserveEnd, Return
<1>4. CASE Len(stack) # 1
  <2> DEFINE s == Front(stack)
             q == Last(s).req
  <2>1. s # <<>> /\ Last(s).at = "wait"
    BY <1>1, <1>4, TickCaller DEF ShapeOf, Ticking
  <2>2. q \in Requests
    <3>1. Last(s) \in Frames
      BY <1>2, <2>1, FrontFacts DEF ShapeOf, StackOK
    <3> QED BY <2>1, <3>1, FrameKinds
  <2>3. stack' = Front(s) /\ transfer' = [transfer EXCEPT ![q] = IF q \in Fetches THEN "ended" ELSE @]
    BY <1>4 DEF ObserveEnd, AbortTransfer
  <2>4. transfer \in [Requests -> States]
    BY <1>2 DEF ShapeOf
  <2> HIDE DEF s
  <2>5. /\ transfer' \in [Requests -> States]
        /\ \A r \in Requests : r # q => transfer'[r] = transfer[r]
        /\ q \in Fetches => transfer'[q] = "ended"
    BY <2>2, <2>3, <2>4 DEF States
  <2>6. ShapeOf(s, transfer)
    BY <1>2 DEF s
  <2>7. ShapeOf(Front(s), transfer')
    BY <2>1, <2>5, <2>6, EndWaitShape
  <2> QED BY <2>3, <2>7
<1> QED BY <1>3, <1>4

\* Every other step.
LEMMA ShapeStep ==
    ASSUME TypeOK, ShapeOf(stack, transfer), Next
    PROVE  ShapeOf(stack', transfer')
<1>1. CASE ReceiveFrame \/ ReceiveEnd \/ DropLink \/ PushDisconnect \/ Unregister
  BY <1>1 DEF ReceiveFrame, ReceiveEnd, DropLink, PushDisconnect, Unregister
<1>2. ASSUME NEW r \in Requests, StartWait(r) PROVE ShapeOf(stack', transfer')
  BY <1>2, StartWaitShape
<1>3. CASE TakeInterrupt \/ ScriptCondemned \/ SeeTerminate \/ Pong
  BY <1>3 DEF TakeInterrupt, ScriptCondemned, SeeTerminate, Pong
<1>4. CASE ScriptEnds
  <2>1. stack # <<>> /\ Last(stack).at = "script"
    BY <1>4 DEF ScriptEnds, At
  <2> QED BY <1>4, <2>1, ReturnShape DEF ScriptEnds, Return
<1>5. CASE EndDrain
  <2>1. stack # <<>> /\ Last(stack).at = "drain"
    BY <1>5 DEF EndDrain, At
  <2> QED BY <1>5, <2>1, ReturnShape DEF EndDrain, Return
<1>6. /\ Script \in Frames /\ Script.at \notin Ticking
      /\ \A mode \in {"all", "sync"} : Performing(mode) \in Frames /\ Performing(mode).mode = mode
      /\ \A mode \in {"all", "sync"} :
            Draining(mode) \in Frames /\ Draining(mode).mode = mode /\ Draining(mode).at \in Ticking
  BY FrameKinds DEF Ticking
<1>7. CASE RunMacrotask
  <2>1. stack' = Append(stack, Script) /\ transfer' = transfer
    BY <1>7 DEF RunMacrotask, Call
  <2> QED BY <1>6, <2>1, CallShape
<1>8. CASE StartTick
  <2>1. CASE UNCHANGED stack
    BY <1>8, <2>1 DEF StartTick
  <2>2. CASE ~UNCHANGED stack
    <3>1. stack = <<>> /\ stack' = Append(stack, Performing("all")) /\ transfer' = transfer
      BY <1>8, <2>2 DEF StartTick, Call
    <3> QED BY <1>6, <3>1, CallShape
  <2> QED BY <2>1, <2>2
<1>9. CASE Progress
  <2>1. PICK r \in Requests, state \in {"ended", "parked"} :
            transfer[r] = "inflight" /\ transfer' = [transfer EXCEPT ![r] = state]
    BY <1>9 DEF Progress
  <2> QED BY <1>9, <2>1 DEF Progress, ShapeOf, States, Requests
<1>10. CASE RunCallback
  BY <1>10, RunCallbackShape
<1>11. CASE EndPerform
  <2>1. stack # <<>> /\ Last(stack).at \in Ticking
    BY <1>11 DEF EndPerform, At, Ticking
  <2>2. Last(stack).mode \in {"all", "sync"}
    BY <2>1, FrontFacts, FrameKinds DEF ShapeOf, StackOK
  <2>3. stack' = Append(Front(stack), Draining(Last(stack).mode)) /\ transfer' = transfer
    BY <1>11 DEF EndPerform, Becomes
  <2> QED BY <1>6, <2>1, <2>2, <2>3, BecomesShape
<1>12. CASE DispatchCommand
  <2>1. transfer' = transfer /\ (stack' = stack \/ stack' = Append(stack, Script))
    BY <1>12 DEF DispatchCommand, Call
  <2> QED BY <1>6, <2>1, CallShape
<1>13. CASE DispatchAnswer
  <2>1. CASE transfer' = transfer
    <3>1. stack' = stack \/ stack' = Append(stack, Script)
      BY <1>13 DEF DispatchAnswer, Call
    <3> QED BY <1>6, <2>1, <3>1, CallShape
  <2>2. CASE transfer' # transfer
    <3>1. stack' = stack
      BY <1>13, <2>2 DEF DispatchAnswer
    <3>2. PICK r \in Requests, state \in {"inflight", "ended"} :
              transfer[r] = "parked" /\ transfer' = [transfer EXCEPT ![r] = state]
      BY <1>13, <2>2 DEF DispatchAnswer
    <3> QED BY <3>1, <3>2 DEF ShapeOf, States, Requests
  <2> QED BY <2>1, <2>2
<1>14. CASE ObserveEnd
  BY <1>14, ObserveEndShape
<1>15. CASE WaitEnds
  <2>1. /\ stack # <<>> /\ Last(stack).at = "wait" /\ transfer[Last(stack).req] = "ended"
        /\ stack' = Front(stack) /\ transfer' = transfer
    BY <1>15 DEF WaitEnds, At, Return
  <2> QED BY <2>1, EndWaitShape DEF ShapeOf
<1>16. CASE WaitFails
  <2> DEFINE q == Last(stack).req
  <2>1. /\ stack # <<>> /\ Last(stack).at = "wait" /\ stack' = Front(stack)
        /\ transfer' = [transfer EXCEPT ![q] = IF q \in Fetches THEN "ended" ELSE @]
    BY <1>16 DEF WaitFails, At, Return, AbortTransfer
  <2>2. q \in Requests
    BY <2>1, FrontFacts, FrameKinds DEF ShapeOf, StackOK
  <2>3. transfer \in [Requests -> States]
    BY DEF ShapeOf
  <2>4. /\ transfer' \in [Requests -> States]
        /\ \A r \in Requests : r # q => transfer'[r] = transfer[r]
        /\ q \in Fetches => transfer'[q] = "ended"
    BY <2>1, <2>2, <2>3 DEF States
  <2>5. stack # <<>> /\ Last(stack).at = "wait" /\ stack' = Front(stack)
    BY <2>1
  <2>6. ShapeOf(Front(stack), transfer')
    BY <2>4, <2>5, EndWaitShape
  <2> QED BY <2>5, <2>6
<1>17. CASE WaitTicks
  <2>1. /\ stack # <<>> /\ Last(stack).at = "wait" /\ transfer' = transfer
        /\ stack' = Append(stack, Performing("sync"))
    BY <1>17 DEF WaitTicks, At, Call
  <2> QED BY <1>6, <2>1, CallShape
<1> QED BY <1>1, <1>2, <1>3, <1>4, <1>5, <1>7, <1>8, <1>9, <1>10, <1>11, <1>12, <1>13,
           <1>14, <1>15, <1>16, <1>17 DEF Next, NetworkStep, WorkerProceeds, Drain

-----------------------------------------------------------------------------
(* The inductive invariant.                                                *)

\* The types of everything but the stack and the requests.
Small ==
    /\ link \in {"live", "dropping", "removed"}
    /\ pushed \in 0..(MaxMessages + 1)
    /\ inbox \in Seq(Message(pushed))
    /\ handled \subseteq 1..pushed
    /\ terminated \in BOOLEAN
    /\ env \in [terminate : BOOLEAN, interrupt : BOOLEAN, killing : BOOLEAN]
    /\ pc \in {"loop", "tick", "exited"}

\* As long as the link is there, there is room for the message that ends it.
RoomForTheEnd == link # "removed" => pushed <= MaxMessages

IInv == TypeOK /\ NoDanglingContext /\ RoomForTheEnd

\* The invariant by parts.
LEMMA InvariantParts == IInv <=> Small /\ ShapeOf(stack, transfer) /\ RoomForTheEnd
BY DEF IInv, TypeOK, NoDanglingContext, Small, ShapeOf, StackOK, States, Awaited, Message

\* It holds initially.
LEMMA InvariantInit == Init => IInv
<1> SUFFICES ASSUME Init PROVE Small /\ ShapeOf(stack, transfer) /\ RoomForTheEnd
  BY InvariantParts
<1>1. Small /\ RoomForTheEnd
  <2>1. /\ link \in {"live", "dropping", "removed"} /\ handled \subseteq 1..pushed
        /\ terminated \in BOOLEAN /\ pc \in {"loop", "tick", "exited"}
    BY DEF Init
  <2>4. inbox \in Seq(Message(pushed))
    <3>1. inbox = <<>>
      BY DEF Init
    <3> QED BY <3>1
  <2>2. pushed \in 0..(MaxMessages + 1) /\ pushed <= MaxMessages
    BY InboxAssumption DEF Init
  <2>3. env \in [terminate : BOOLEAN, interrupt : BOOLEAN, killing : BOOLEAN]
    BY DEF Init
  <2> QED BY <2>1, <2>2, <2>3, <2>4 DEF Small, RoomForTheEnd
<1>2. ShapeOf(stack, transfer)
  BY DEF Init, ShapeOf, StackOK, WellNested, States, Requests
<1> QED BY <1>1, <1>2

\* A push leaves room or closes the link.
LEMMA PushSmall ==
    ASSUME Small, RoomForTheEnd, link # "removed",
           NEW kind \in {"fetch", "teardown", "command", "ping", "close", "disconnect"}, Push(kind)
    PROVE  /\ pushed' = pushed + 1 /\ pushed' \in 0..(MaxMessages + 1)
           /\ inbox' \in Seq(Message(pushed')) /\ handled \subseteq 1..pushed'
<1> DEFINE m == [id |-> pushed + 1, kind |-> kind]
<1>1. /\ pushed \in Nat /\ pushed <= MaxMessages /\ MaxMessages \in Nat
      /\ pushed' = pushed + 1 /\ inbox' = Append(inbox, m)
  BY InboxAssumption DEF Small, RoomForTheEnd, Push
<1>2. 1..pushed \subseteq 1..pushed' /\ pushed + 1 \in 1..pushed'
  BY <1>1
<1>3. m \in Message(pushed') /\ Message(pushed) \subseteq Message(pushed')
  BY <1>2 DEF Message
<1> HIDE DEF m
<1>4. inbox \in Seq(Message(pushed'))
  <2>1. inbox \in Seq(Message(pushed))
    BY DEF Small
  <2> QED BY <2>1, <1>3
<1> QED BY <1>1, <1>2, <1>3, <1>4 DEF Small

\* The steps of the Network thread.
LEMMA NetworkSmall ==
    ASSUME Small, RoomForTheEnd, ReceiveFrame \/ ReceiveEnd \/ DropLink \/ PushDisconnect
    PROVE  Small' /\ RoomForTheEnd'
<1>1. CASE ReceiveFrame
  <2>1. PICK kind \in {"fetch", "teardown", "command", "ping"} : Push(kind)
    BY <1>1 DEF ReceiveFrame
  <2>2. /\ pushed' = pushed + 1 /\ pushed' \in 0..(MaxMessages + 1)
        /\ inbox' \in Seq(Message(pushed')) /\ handled \subseteq 1..pushed'
    BY <1>1, <2>1, PushSmall DEF ReceiveFrame
  <2>3. pushed + 1 <= MaxMessages
    BY <1>1, InboxAssumption DEF ReceiveFrame, Small
  <2> QED BY <1>1, <2>2, <2>3 DEF ReceiveFrame, Small, RoomForTheEnd
<1>2. CASE ReceiveEnd
  <2>1. PICK kind \in {"close", "disconnect"} : Push(kind)
    BY <1>2 DEF ReceiveEnd
  <2>2. /\ pushed' \in 0..(MaxMessages + 1)
        /\ inbox' \in Seq(Message(pushed')) /\ handled \subseteq 1..pushed'
    BY <1>2, <2>1, PushSmall DEF ReceiveEnd
  <2> QED BY <1>2, <2>2 DEF ReceiveEnd, Small, RoomForTheEnd
<1>3. CASE DropLink
  BY <1>3 DEF DropLink, RequestTerminate, Small, RoomForTheEnd
<1>4. CASE PushDisconnect
  <2>1. /\ pushed' \in 0..(MaxMessages + 1)
        /\ inbox' \in Seq(Message(pushed')) /\ handled \subseteq 1..pushed'
    BY <1>4, PushSmall DEF PushDisconnect
  <2> QED BY <1>4, <2>1 DEF PushDisconnect, Small, RoomForTheEnd
<1> QED BY <1>1, <1>2, <1>3, <1>4

\* What a drain takes was pushed.
LEMMA TakenSmall ==
    ASSUME IInv, NEW kinds, Take(kinds), UNCHANGED <<link, pushed, env>>,
           terminated' \in BOOLEAN, pc' \in {"loop", "tick", "exited"},
           handled' = handled \/ handled' = handled \cup {Taken.id}
    PROVE  Small' /\ RoomForTheEnd'
<1>1. Taken \in Message(pushed) /\ inbox' \in Seq(Message(pushed))
  BY TakeFacts DEF IInv
<1>2. handled' \subseteq 1..pushed
  BY <1>1, InvariantParts DEF Small, Message
<1> QED BY <1>1, <1>2, InvariantParts DEF Small, RoomForTheEnd

\* The steps of the worker.
LEMMA WorkerSmall ==
    ASSUME IInv, Next, ~(ReceiveFrame \/ ReceiveEnd \/ DropLink \/ PushDisconnect)
    PROVE  Small' /\ RoomForTheEnd'
<1> USE DEF WorkerOnly
<1>1. Small /\ RoomForTheEnd
  BY InvariantParts
<1>2. ASSUME UNCHANGED <<link, pushed, inbox, handled, terminated, env>>,
             pc' \in {"loop", "tick", "exited"}
      PROVE  Small' /\ RoomForTheEnd'
  BY <1>1, <1>2 DEF Small, RoomForTheEnd
<1>3. ASSUME UNCHANGED <<link, pushed, inbox, handled, terminated, pc>>,
             env' \in [terminate : BOOLEAN, interrupt : BOOLEAN, killing : BOOLEAN]
      PROVE  Small' /\ RoomForTheEnd'
  BY <1>1, <1>3 DEF Small, RoomForTheEnd
<1>4. ASSUME NEW r \in Requests, StartWait(r) PROVE Small' /\ RoomForTheEnd'
  BY <1>1, <1>2, <1>4 DEF StartWait, Small
<1>5. CASE RunMacrotask \/ SeeTerminate \/ StartTick
  BY <1>1, <1>2, <1>5 DEF RunMacrotask, SeeTerminate, StartTick, Small
<1>6. CASE Progress \/ RunCallback \/ EndPerform
  BY <1>1, <1>2, <1>6 DEF Progress, RunCallback, EndPerform, Small
<1>7. CASE EndDrain \/ WaitEnds \/ WaitFails \/ WaitTicks
  BY <1>1, <1>2, <1>7 DEF EndDrain, WaitEnds, WaitFails, WaitTicks, Small
<1>8. CASE TakeInterrupt \/ ScriptCondemned
  <2>1. env' \in [terminate : BOOLEAN, interrupt : BOOLEAN, killing : BOOLEAN]
    BY <1>1, <1>8 DEF TakeInterrupt, ScriptCondemned, RequestTerminate, Small
  <2> QED BY <2>1, <1>3, <1>8 DEF TakeInterrupt, ScriptCondemned
<1>9. CASE ScriptEnds
  <2>1. env \in [terminate : BOOLEAN, interrupt : BOOLEAN, killing : BOOLEAN]
    BY <1>1 DEF Small
  <2>2. \E b \in BOOLEAN : env' = [env EXCEPT !.killing = b]
    <3>1. env' = [env EXCEPT !.killing = (env.killing /\ Scripts(Front(stack)) # {})]
      BY <1>9 DEF ScriptEnds
    <3>2. (env.killing /\ Scripts(Front(stack)) # {}) \in BOOLEAN
      OBVIOUS
    <3> QED BY <3>1, <3>2
  <2>3. env' \in [terminate : BOOLEAN, interrupt : BOOLEAN, killing : BOOLEAN]
    BY <2>1, <2>2
  <2> QED BY <2>3, <1>3, <1>9 DEF ScriptEnds
<1>10. CASE DispatchCommand
  BY <1>1, <1>10, TakenSmall DEF DispatchCommand, Small
<1>11. CASE DispatchAnswer
  BY <1>1, <1>11, TakenSmall DEF DispatchAnswer, Small
<1>12. CASE Pong
  BY <1>1, <1>12, TakenSmall DEF Pong, Small
<1>13. CASE ObserveEnd
  <2>1. pc' \in {"loop", "tick", "exited"} /\ terminated' \in BOOLEAN
    BY <1>1, <1>13 DEF ObserveEnd, LatchEnd, Small
  <2> QED BY <2>1, <1>13, TakenSmall DEF ObserveEnd
<1>14. CASE Unregister
  BY <1>1, <1>14 DEF Unregister, Small, RoomForTheEnd
<1> QED BY <1>4, <1>5, <1>6, <1>7, <1>8, <1>9, <1>10, <1>11, <1>12, <1>13, <1>14
        DEF Next, NetworkStep, WorkerProceeds, Drain

\* Every step preserves it.
LEMMA InvariantStep == IInv /\ [Next]_vars => IInv'
<1>1. ASSUME IInv, Next PROVE IInv'
  <2>1. ShapeOf(stack', transfer')
    BY <1>1, ShapeStep, InvariantParts DEF IInv
  <2>2. Small' /\ RoomForTheEnd'
    BY <1>1, NetworkSmall, WorkerSmall, InvariantParts
  <2> QED BY <2>1, <2>2
          DEF IInv, TypeOK, NoDanglingContext, Small, ShapeOf, StackOK, States, Awaited, Message
<1>2. ASSUME IInv, UNCHANGED vars PROVE IInv'
  BY <1>2 DEF vars, IInv, TypeOK, NoDanglingContext, RoomForTheEnd
<1> QED BY <1>1, <1>2

LEMMA Invariance == Spec => []IInv
BY InvariantInit, InvariantStep, PTL DEF Spec

\* Type correctness; in particular every tick that picks messages was called by
\* a wait, and the tick that takes them all by the loop, in every nest of
\* callbacks, scripts and waits.
THEOREM InboxTypeOK == Spec => []TypeOK
<1>1. IInv => TypeOK
  BY DEF IInv
<1> QED BY <1>1, Invariance, PTL

\* No blocking request writes to the stack of a wait that has returned
\* (HttpClient.syncRequest), whichever way out the wait has taken.
THEOREM ContextsOnTheStack == Spec => []NoDanglingContext
<1>1. IInv => NoDanglingContext
  BY DEF IInv
<1> QED BY <1>1, Invariance, PTL

\* A command is dispatched with no script on the stack (HttpClient.drainInbox).
LEMMA CommandsUnderNoScript ==
    ASSUME IInv, [Next]_vars
    PROVE  \A m \in Leaving : m.kind \in {"command", "teardown"} => Scripts(stack) = {}
<1>1. ASSUME NEW kinds, Take(kinds)
      PROVE  \A m \in Leaving : m.kind \in {"command", "teardown"} => Scripts(stack) = {}
  <2> SUFFICES ASSUME Taken.kind \in {"command", "teardown"} PROVE Scripts(stack) = {}
    BY <1>1, TakeFacts DEF IInv
  <2>1. /\ StackOK(stack) /\ stack # <<>> /\ Last(stack).at = "drain"
        /\ Last(stack).mode = "all" \/ AllowDuringSyncWait(Taken)
    BY <1>1, TakeFacts DEF IInv
  <2>2. Last(stack).mode = "all"
    BY <2>1 DEF AllowDuringSyncWait
  <2>3. Len(stack) = 1
    BY <2>1, <2>2, TickCaller DEF Ticking
  <2>4. \A i \in DOMAIN stack : stack[i].at = "drain"
    BY <2>1, <2>3, FrontFacts DEF StackOK
  <2> QED BY <2>4 DEF Scripts
<1>2. UNCHANGED inbox \/ (\E kind : Push(kind)) => Leaving = {}
  BY NothingLeaves DEF IInv
<1> QED BY <1>1, <1>2, InboxStep

\* While a script is on the stack no command leaves the inbox, so none can free
\* what the script returns to.
THEOREM CommandsFreeNothing == Spec => NothingFreedUnderAScript
<1>1. IInv /\ [Next]_vars =>
        [\A m \in Leaving : m.kind \in {"command", "teardown"} => Scripts(stack) = {}]_vars
  BY CommandsUnderNoScript
<1> QED BY <1>1, Invariance, PTL DEF Spec, NothingFreedUnderAScript

-----------------------------------------------------------------------------
(* The order of messages.                                                  *)

\* The inbox is in the order of arrival.
InOrder == \A i, j \in DOMAIN inbox : i < j => inbox[i].id < inbox[j].id

\* Messages are numbered.
LEMMA Numbered ==
    ASSUME TypeOK
    PROVE  \A i \in DOMAIN inbox : inbox[i].id \in 1..pushed /\ inbox[i].id \in Nat
<1>1. inbox \in Seq(Message(pushed))
  BY DEF TypeOK, Message
<1>2. \A i \in DOMAIN inbox : inbox[i] \in Message(pushed)
  BY <1>1
<1>3. \A msg \in Message(pushed) : msg.id \in 1..pushed
  BY DEF Message
<1> QED BY <1>2, <1>3

\* A push keeps the order: what is pushed is the last to arrive.
LEMMA PushInOrder ==
    ASSUME TypeOK, InOrder, NEW kind, Push(kind)
    PROVE  InOrder'
<1> DEFINE m == [id |-> pushed + 1, kind |-> kind]
<1>1. inbox \in Seq(Message(pushed)) /\ inbox' = Append(inbox, m) /\ m.id = pushed + 1
  BY DEF TypeOK, Push, Message
<1>2. \A i \in DOMAIN inbox : inbox[i].id \in 1..pushed
  BY Numbered
<1> HIDE DEF m
<1>3. /\ DOMAIN inbox = 1..Len(inbox) /\ DOMAIN inbox' = 1..(Len(inbox) + 1) /\ Len(inbox) \in Nat
      /\ \A i \in 1..Len(inbox) : inbox'[i] = inbox[i]
      /\ inbox'[Len(inbox) + 1] = m
  BY <1>1
<1>4. ASSUME NEW i \in DOMAIN inbox', NEW j \in DOMAIN inbox', i < j
      PROVE  inbox'[i].id < inbox'[j].id
  <2>1. i \in DOMAIN inbox /\ inbox'[i] = inbox[i]
    BY <1>3, <1>4
  <2>2. CASE j \in DOMAIN inbox
    BY <1>3, <1>4, <2>1, <2>2 DEF InOrder
  <2>3. CASE j \notin DOMAIN inbox
    <3>1. inbox'[j].id = pushed + 1
      BY <1>1, <1>3, <2>3
    <3>2. inbox[i].id \in 1..pushed
      BY <1>2, <2>1
    <3>3. pushed \in Nat
      BY InboxAssumption DEF TypeOK
    <3> QED BY <2>1, <3>1, <3>2, <3>3
  <2> QED BY <2>2, <2>3
<1> QED BY <1>4 DEF InOrder

\* So does taking a message out of it.
LEMMA TakeInOrder ==
    ASSUME TypeOK, InOrder, NEW kinds, Take(kinds)
    PROVE  InOrder'
<1>1. PICK k \in 1..Len(inbox) :
          /\ Len(inbox') = Len(inbox) - 1
          /\ \A i \in 1..(Len(inbox) - 1) : inbox'[i] = IF i < k THEN inbox[i] ELSE inbox[i + 1]
  BY TakeFacts
<1>2. /\ inbox \in Seq(Message(pushed)) /\ inbox' \in Seq(Message(pushed))
  BY TakeFacts DEF TypeOK, Message
<1>3. DOMAIN inbox = 1..Len(inbox) /\ DOMAIN inbox' = 1..(Len(inbox) - 1) /\ Len(inbox) \in Nat
  BY <1>1, <1>2
<1>4. ASSUME NEW i \in DOMAIN inbox', NEW j \in DOMAIN inbox', i < j
      PROVE  inbox'[i].id < inbox'[j].id
  <2>1. PICK p \in DOMAIN inbox : inbox'[i] = inbox[p] /\ p = IF i < k THEN i ELSE i + 1
    BY <1>1, <1>3
  <2>2. PICK q \in DOMAIN inbox : inbox'[j] = inbox[q] /\ q = IF j < k THEN j ELSE j + 1
    BY <1>1, <1>3
  <2>3. p < q
    BY <1>3, <1>4, <2>1, <2>2
  <2> QED BY <2>1, <2>2, <2>3 DEF InOrder
<1> QED BY <1>4 DEF InOrder

\* What is taken has overtaken nothing but messages that had to stay.
LEMMA TakeOvertakes ==
    ASSUME TypeOK, InOrder, NEW kinds, Take(kinds),
           NEW m \in Leaving, NEW i \in DOMAIN inbox', inbox'[i].id < m.id
    PROVE  /\ inbox'[i].kind \in {"command", "teardown"}
           /\ m.kind \notin {"command", "teardown"}
<1>1. PICK k \in Candidates :
          /\ Taken = inbox[k] /\ \A j \in Candidates : k <= j
          /\ Len(inbox') = Len(inbox) - 1 /\ k \in 1..Len(inbox)
          /\ \A n \in 1..(Len(inbox) - 1) : inbox'[n] = IF n < k THEN inbox[n] ELSE inbox[n + 1]
  BY TakeFacts
<1>2. inbox \in Seq(Message(pushed)) /\ inbox' \in Seq(Message(pushed)) /\ m = inbox[k]
  BY <1>1, TakeFacts DEF TypeOK, Message
<1>3. DOMAIN inbox = 1..Len(inbox) /\ DOMAIN inbox' = 1..(Len(inbox) - 1) /\ Len(inbox) \in Nat
  BY <1>1, <1>2
<1>4. PICK j \in DOMAIN inbox : inbox'[i] = inbox[j] /\ j # k
  <2>1. i \in 1..(Len(inbox) - 1)
    BY <1>3
  <2>2. CASE i < k
    BY <1>1, <1>3, <2>1, <2>2
  <2>3. CASE ~(i < k)
    <3>1. inbox'[i] = inbox[i + 1] /\ i + 1 \in DOMAIN inbox /\ i + 1 # k
      BY <1>1, <1>3, <2>1, <2>3
    <3> QED BY <3>1
  <2> QED BY <2>2, <2>3
<1>5. j < k
  <2>1. inbox[j].id \in Nat /\ inbox[k].id \in Nat
    BY <1>1, <1>3, <1>4, Numbered
  <2>2. CASE k < j
    <3>1. inbox[k].id < inbox[j].id
      BY <1>1, <1>3, <2>2 DEF InOrder
    <3> QED BY <1>2, <1>4, <2>1, <3>1
  <2> QED BY <1>1, <1>3, <1>4, <2>2
<1>6. j \notin Candidates
  BY <1>1, <1>3, <1>5
<1>7. Last(stack).mode # "all" /\ ~AllowDuringSyncWait(inbox[j])
  BY <1>4, <1>6 DEF Candidates
<1>8. inbox[j].kind \in {"command", "teardown"}
  <2>1. inbox[j] \in Message(pushed)
    BY <1>2, <1>4
  <2> QED BY <2>1, <1>7 DEF Message, AllowDuringSyncWait
<1>9. AllowDuringSyncWait(m)
  BY <1>1, <1>2, <1>7 DEF Candidates
<1> QED BY <1>4, <1>8, <1>9 DEF AllowDuringSyncWait

LEMMA OrderInvariance == Spec => []InOrder
<1>1. Init => InOrder
  <2> SUFFICES ASSUME inbox = <<>> PROVE InOrder
    BY DEF Init
  <2> QED BY DEF InOrder
<1>2. TypeOK /\ InOrder /\ [Next]_vars => InOrder'
  <2> SUFFICES ASSUME TypeOK, InOrder, [Next]_vars PROVE InOrder'
    OBVIOUS
  <2>1. UNCHANGED inbox => InOrder'
    BY DEF InOrder
  <2> QED BY <2>1, InboxStep, PushInOrder, TakeInOrder
<1> QED BY <1>1, <1>2, InboxTypeOK, PTL DEF Spec

\* A drain within a wait lets messages overtake commands, and nothing else
\* (Inbox.popIf, HttpClient.allowDuringSyncWait).
THEOREM CommandsAloneAreOvertaken == Spec => OnlyCommandsAreOvertaken
<1>1. TypeOK /\ InOrder /\ [Next]_vars =>
        [\A m \in Leaving : \A i \in DOMAIN inbox' :
            inbox'[i].id < m.id => /\ inbox'[i].kind \in {"command", "teardown"}
                                   /\ m.kind \notin {"command", "teardown"}]_vars
  <2> SUFFICES ASSUME TypeOK, InOrder, [Next]_vars,
                      NEW m \in Leaving, NEW i \in DOMAIN inbox', inbox'[i].id < m.id
               PROVE  /\ inbox'[i].kind \in {"command", "teardown"}
                      /\ m.kind \notin {"command", "teardown"}
    OBVIOUS
  <2>1. ~UNCHANGED inbox /\ ~\E kind : Push(kind)
    BY NothingLeaves
  <2> QED BY <2>1, InboxStep, TakeOvertakes
<1> QED BY <1>1, InboxTypeOK, OrderInvariance, PTL DEF Spec, OnlyCommandsAreOvertaken
=============================================================================
