----------------------- MODULE MailboxDeliveryProofs -----------------------
(***************************************************************************)
(* For every number of producers, targets and payloads and every bound:    *)
(* a payload has one owner until its one destroy, the references are       *)
(* exactly the handles that exist, and the mailbox implements TaskDelivery. *)
(***************************************************************************)
EXTENDS OwnerMailboxProofs

\* The accepted tasks that have not started, oldest first: what a drain took,
\* what a close took, and what is still in the queue.
Chain == owner.batch \o owner.dying \o mailbox.queue

NoRepeats(seq) == \A i, j \in DOMAIN seq : seq[i] = seq[j] => i = j

\* Where a payload in flight is: queued or taken, in a hand-off of the owner's
\* own, running, or on the thread that posts it.
InChain(p)  == Contains(Chain, p)
InInline(p) == Contains(owner.inline, p)
IsHeld(p)   == \E th \in Threads : thread[th].held = p

Live(p) == payload[p].tag # None /\ payload[p].destroyed = 0

\* What the owner's calls take for granted: a call on a target or on the
\* mailbox has its handle, what was given up was closed first, and nothing is
\* left over of an earlier drain or close.
CallsWellFormed ==
    /\ owner.op \in TargetOps => target[owner.target].handle = "open"
    /\ owner.op \in MailboxOps \cup DisposeOps => mailbox.handle /\ mailbox.closed
    /\ \A t \in Targets : target[t].handle = "gone" => target[t].closed
    /\ ~mailbox.handle => mailbox.closed
    /\ ~owner.draining => owner.batch = <<>> /\ owner.running = None
    /\ owner.op \notin DisposeOps => owner.dying = <<>>

\* A payload on a posting thread is posted with that thread's Sender.
HeldAreTheirs ==
    \A th \in Threads : thread[th].held # None =>
       /\ thread[th].pc \in {"target", "mailbox"}
       /\ payload[thread[th].held].tag = thread[th].sender

\* A payload in flight is in one place, and in no place before it is posted
\* and after it is destroyed.
Placed(p) ==
    /\ InChain(p) => Live(p) /\ payload[p].ran = None /\ ~IsHeld(p)
    /\ IsHeld(p) => Live(p) /\ payload[p].ran = None
    /\ InInline(p) => Live(p) /\ payload[p].ran # None /\ owner.running # p
    /\ owner.running = p => Live(p) /\ payload[p].ran # None
    /\ Live(p) => InChain(p) \/ IsHeld(p) \/ InInline(p) \/ owner.running = p
    /\ payload[p].tag = None => payload[p].destroyed = 0 /\ payload[p].ran = None
    /\ payload[p].destroyed \in {0, 1}

HeldOnce ==
    \A x, y \in Threads : thread[x].held # None /\ thread[x].held = thread[y].held => x = y

PlacedOnce ==
    /\ NoRepeats(Chain) /\ NoRepeats(owner.inline) /\ HeldOnce
    /\ \A p \in Payloads : Placed(p)

-----------------------------------------------------------------------------
(* Sequences.                                                              *)

\* s is a, b and c in a row.
InARow(s, a, b, c) ==
    /\ DOMAIN s = 1..(Len(a) + Len(b) + Len(c)) /\ Len(s) = Len(a) + Len(b) + Len(c)
    /\ \A i \in 1..Len(a) : s[i] = a[i]
    /\ \A i \in 1..Len(b) : s[Len(a) + i] = b[i]
    /\ \A i \in 1..Len(c) : s[Len(a) + Len(b) + i] = c[i]

LEMMA ThreeInARow ==
  ASSUME NEW S, NEW a \in Seq(S), NEW b \in Seq(S), NEW c \in Seq(S)
  PROVE  InARow(a \o b \o c, a, b, c)
  <1>1. /\ a \o b \in Seq(S) /\ Len(a \o b) = Len(a) + Len(b)
        /\ \A i \in 1..Len(a) : (a \o b)[i] = a[i]
        /\ \A i \in 1..Len(b) : (a \o b)[Len(a) + i] = b[i]
    OBVIOUS
  <1> DEFINE d == a \o b
  <1>2. /\ d \o c \in Seq(S) /\ Len(d \o c) = Len(d) + Len(c)
        /\ \A i \in 1..Len(d) : (d \o c)[i] = d[i]
        /\ \A i \in 1..Len(c) : (d \o c)[Len(d) + i] = c[i]
    <2>1. d \in Seq(S)
      BY <1>1
    <2> HIDE DEF d
    <2> QED
      BY <2>1
  <1> HIDE DEF d
  <1>3. Len(a) \in Nat /\ Len(b) \in Nat /\ Len(c) \in Nat
    OBVIOUS
  <1>4. (a \o b) \o c = d \o c
    BY DEF d
  <1>5. d \in Seq(S) /\ Len(d) = Len(a) + Len(b)
        /\ (\A i \in 1..Len(a) : d[i] = a[i])
        /\ (\A i \in 1..Len(b) : d[Len(a) + i] = b[i])
    BY <1>1 DEF d
  <1>6. /\ \A i \in 1..Len(a) : (d \o c)[i] = a[i]
        /\ \A i \in 1..Len(b) : (d \o c)[Len(a) + i] = b[i]
        /\ \A i \in 1..Len(c) : (d \o c)[Len(a) + Len(b) + i] = c[i]
    BY <1>2, <1>3, <1>5
  <1>7. DOMAIN (d \o c) = 1..(Len(a) + Len(b) + Len(c)) /\ Len(d \o c) = Len(a) + Len(b) + Len(c)
    BY <1>2, <1>3, <1>5
  <1>8. InARow(d \o c, a, b, c)
    BY <1>6, <1>7 DEF InARow
  <1> QED
    BY <1>4, <1>8

\* What an append, a take from the front and a take from the middle do to
\* three sequences in a row.
LEMMA RowMoves ==
  ASSUME NEW S, NEW b \in Seq(S), NEW d \in Seq(S), NEW q \in Seq(S)
  PROVE  /\ \A x \in S : b \o d \o Append(q, x) = Append(b \o d \o q, x)
         /\ b # <<>> => /\ b \o d \o q # <<>> /\ Head(b \o d \o q) = Head(b)
                        /\ Tail(b) \o d \o q = Tail(b \o d \o q)
         /\ d # <<>> => /\ Len(b) + 1 \in DOMAIN (b \o d \o q)
                        /\ (b \o d \o q)[Len(b) + 1] = Head(d)
                        /\ b \o Tail(d) \o q = RemoveAt(b \o d \o q, Len(b) + 1)
  <1> DEFINE f == b \o d
             g == d \o q
             c == b \o d \o q
  <1>1. f \in Seq(S) /\ g \in Seq(S) /\ c = f \o q
    OBVIOUS
  <1>2. c = b \o g
    OBVIOUS
  <1>3. ASSUME NEW x \in S PROVE b \o d \o Append(q, x) = Append(c, x)
    <2>1. f \o Append(q, x) = Append(f \o q, x)
      <3> HIDE DEF f
      <3> QED
        BY <1>1
    <2> QED
      BY <2>1
  <1>4. ASSUME b # <<>>
        PROVE  /\ c # <<>> /\ Head(c) = Head(b)
               /\ Tail(b) \o d \o q = Tail(c)
    <2>1. f # <<>> /\ Head(f) = Head(b) /\ Tail(f) = Tail(b) \o d
      BY <1>4
    <2>2. f \o q # <<>> /\ Head(f \o q) = Head(f) /\ Tail(f \o q) = Tail(f) \o q
      <3> HIDE DEF f
      <3> QED
        BY <1>1, <2>1
    <2>3. Tail(c) = Tail(b) \o d \o q
      <3>1. Tail(c) = Tail(f) \o q
        BY <1>1, <2>2
      <3> HIDE DEF c
      <3> QED
        BY <2>1, <3>1
    <2>4. c # <<>> /\ Head(c) = Head(b)
      <3> HIDE DEF c, f
      <3> QED
        BY <1>1, <2>1, <2>2
    <2> QED
      BY <2>3, <2>4
  <1>5. ASSUME d # <<>>
        PROVE  /\ Len(b) + 1 \in DOMAIN c /\ c[Len(b) + 1] = Head(d)
               /\ b \o Tail(d) \o q = RemoveAt(c, Len(b) + 1)
    <2>1. g # <<>> /\ Head(g) = Head(d) /\ Tail(g) = Tail(d) \o q
      BY <1>5
    <2>2. /\ Len(b \o g) = Len(b) + Len(g) /\ Len(b) \in Nat /\ Len(g) \in Nat /\ Len(g) > 0
          /\ (b \o g)[Len(b) + 1] = g[1] /\ g[1] = Head(g)
          /\ DOMAIN (b \o g) = 1..(Len(b) + Len(g))
      <3> HIDE DEF g
      <3> QED
        BY <1>1, <2>1
    <2>3. /\ SubSeq(b \o g, 1, (Len(b) + 1) - 1) = b
      <3> HIDE DEF g
      <3> QED
        BY <1>1, <2>1
    <2>4. SubSeq(b \o g, Len(b) + 1 + 1, Len(b \o g)) = Tail(g)
      <3> HIDE DEF g
      <3>1. /\ b \o g \in Seq(S) /\ Len(b \o g) = Len(b) + Len(g)
            /\ \A i \in 1..Len(b) : (b \o g)[i] = b[i]
            /\ \A i \in 1..Len(g) : (b \o g)[Len(b) + i] = g[i]
            /\ Len(b) \in Nat /\ Len(g) \in Nat
        BY <1>1
      <3>2. Len(g) > 0 /\ Head(g) = g[1] /\ 1 \in 1..Len(g)
        BY <1>1, <2>1
      <3> QED
        BY <1>1, <3>1, <3>2
    <2>5. RemoveAt(c, Len(b) + 1) = b \o Tail(g)
      <3> HIDE DEF g, c
      <3> QED
        BY <1>2, <2>3, <2>4 DEF RemoveAt
    <2>6. b \o Tail(g) = b \o Tail(d) \o q
      <3>1. b \o Tail(g) = b \o (Tail(d) \o q)
        BY <2>1
      <3>2. Tail(d) \in Seq(S)
        BY <1>5
      <3> DEFINE e == Tail(d)
      <3>3. b \o (e \o q) = b \o e \o q
        <4> HIDE DEF e
        <4> QED
          BY <3>2
      <3> QED
        BY <3>1, <3>3
    <2>7. Len(b) + 1 \in DOMAIN c /\ c[Len(b) + 1] = Head(d)
      <3> HIDE DEF c, g
      <3> QED
        BY <1>2, <2>1, <2>2
    <2> QED
      BY <2>5, <2>6, <2>7
  <1> QED
    BY <1>3, <1>4, <1>5

LEMMA FirstRemoved ==
  ASSUME NEW S, NEW s \in Seq(S), s # <<>>
  PROVE  1 \in DOMAIN s /\ s[1] = Head(s) /\ RemoveAt(s, 1) = Tail(s)
  <1>1. RemoveAt(s, 1) = SubSeq(s, 1, 1 - 1) \o SubSeq(s, 1 + 1, Len(s))
    BY DEF RemoveAt
  <1>2. SubSeq(s, 1, 1 - 1) = <<>> /\ SubSeq(s, 1 + 1, Len(s)) = Tail(s) /\ Tail(s) \in Seq(S)
    OBVIOUS
  <1>3. <<>> \o Tail(s) = Tail(s)
    BY <1>2
  <1>4. 1 \in DOMAIN s /\ s[1] = Head(s)
    OBVIOUS
  <1> QED
    BY <1>1, <1>2, <1>3, <1>4

LEMMA LastRemoved ==
  ASSUME NEW S, NEW s \in Seq(S), s # <<>>
  PROVE  Len(s) \in DOMAIN s /\ s[Len(s)] = Last(s) /\ RemoveAt(s, Len(s)) = Front(s)
  <1>1. RemoveAt(s, Len(s)) = SubSeq(s, 1, Len(s) - 1) \o SubSeq(s, Len(s) + 1, Len(s))
    BY DEF RemoveAt
  <1>2. SubSeq(s, Len(s) + 1, Len(s)) = <<>> /\ SubSeq(s, 1, Len(s) - 1) \in Seq(S)
    OBVIOUS
  <1>3. RemoveAt(s, Len(s)) = Front(s)
    BY <1>1, <1>2 DEF Front
  <1>4. Len(s) \in DOMAIN s
    OBVIOUS
  <1> QED
    BY <1>3, <1>4 DEF Last

\* An element appended to a sequence without repetitions.
LEMMA AppendPlaces ==
  ASSUME NEW S, NEW s \in Seq(S), NEW x \in S
  PROVE  /\ \A y : Contains(Append(s, x), y) <=> Contains(s, y) \/ y = x
         /\ NoRepeats(s) /\ ~Contains(s, x) => NoRepeats(Append(s, x))
  <1> DEFINE r == Append(s, x)
  <1>1. /\ r \in Seq(S) /\ Len(r) = Len(s) + 1 /\ Len(s) \in Nat
        /\ \A i \in 1..Len(s) : r[i] = s[i]
        /\ r[Len(s) + 1] = x
    OBVIOUS
  <1> HIDE DEF r
  <1>2. DOMAIN r = 1..(Len(s) + 1) /\ DOMAIN s = 1..Len(s)
    BY <1>1
  <1>3. \A y : Contains(r, y) <=> Contains(s, y) \/ y = x
    BY <1>1 DEF Contains
  <1>4. NoRepeats(s) /\ ~Contains(s, x) => NoRepeats(r)
    BY <1>1, <1>2 DEF Contains, NoRepeats
  <1> QED
    BY <1>3, <1>4 DEF r

\* What RemoveAt leaves, place by place.
LEMMA RemovedPlaces ==
  ASSUME NEW S, NEW s \in Seq(S), NEW k \in DOMAIN s
  PROVE  /\ RemoveAt(s, k) \in Seq(S) /\ Len(RemoveAt(s, k)) = Len(s) - 1
         /\ \A i \in 1..(Len(s) - 1) :
               RemoveAt(s, k)[i] = s[IF i < k THEN i ELSE i + 1]
  <1> DEFINE a == SubSeq(s, 1, k - 1)
             b == SubSeq(s, k + 1, Len(s))
  <1>1. /\ a \in Seq(S) /\ Len(a) = k - 1
        /\ \A i \in 1..(k - 1) : a[i] = s[i]
    OBVIOUS
  <1>2. /\ b \in Seq(S) /\ Len(b) = Len(s) - k
        /\ \A i \in 1..(Len(s) - k) : b[i] = s[k + i]
    OBVIOUS
  <1>3. RemoveAt(s, k) = a \o b
    BY DEF RemoveAt
  <1>4. k \in 1..Len(s) /\ Len(s) \in Nat
    OBVIOUS
  <1> HIDE DEF a, b
  <1>5. /\ a \o b \in Seq(S) /\ Len(a \o b) = Len(a) + Len(b)
        /\ \A i \in 1..Len(a) : (a \o b)[i] = a[i]
        /\ \A i \in 1..Len(b) : (a \o b)[Len(a) + i] = b[i]
    <2>1. a \in Seq(S) /\ b \in Seq(S)
      BY <1>1, <1>2
    <2> QED
      BY <2>1
  <1>6. ASSUME NEW i \in 1..(Len(s) - 1)
        PROVE  (a \o b)[i] = s[IF i < k THEN i ELSE i + 1]
    <2>1. CASE i < k
      BY <1>1, <1>4, <1>5, <2>1
    <2>2. CASE ~(i < k)
      <3> DEFINE j == i - Len(a)
      <3>1. j \in 1..Len(b) /\ Len(a) + j = i /\ k + j = i + 1
        BY <1>1, <1>2, <1>4, <2>2
      <3>2. (a \o b)[Len(a) + j] = b[j] /\ b[j] = s[k + j]
        BY <1>2, <1>5, <3>1
      <3> HIDE DEF j
      <3> QED
        BY <2>2, <3>1, <3>2
    <2> QED
      BY <2>1, <2>2
  <1>7. Len(a \o b) = Len(s) - 1
    BY <1>1, <1>2, <1>4, <1>5
  <1> QED
    BY <1>3, <1>5, <1>6, <1>7

\* An element removed from a sequence without repetitions.
LEMMA RemovePlaces ==
  ASSUME NEW S, NEW s \in Seq(S), NEW k \in DOMAIN s, NoRepeats(s)
  PROVE  /\ \A y : Contains(RemoveAt(s, k), y) <=> Contains(s, y) /\ y # s[k]
         /\ NoRepeats(RemoveAt(s, k))
  <1> DEFINE r == RemoveAt(s, k)
             from(i) == IF i < k THEN i ELSE i + 1
  <1>1. /\ r \in Seq(S) /\ Len(r) = Len(s) - 1 /\ \A i \in 1..(Len(s) - 1) : r[i] = s[from(i)]
    BY RemovedPlaces
  <1>2. DOMAIN s = 1..Len(s) /\ Len(s) \in Nat /\ k \in 1..Len(s)
    OBVIOUS
  <1>3. DOMAIN r = 1..(Len(s) - 1)
    <2> HIDE DEF r
    <2> QED
      BY <1>1
  <1>4. /\ \A i \in DOMAIN r : from(i) \in DOMAIN s /\ from(i) # k
        /\ \A i, j \in DOMAIN r : from(i) = from(j) => i = j
        /\ \A m \in DOMAIN s : m # k => \E i \in DOMAIN r : from(i) = m
    <2>1. /\ \A i \in DOMAIN r : from(i) \in DOMAIN s /\ from(i) # k
          /\ \A i, j \in DOMAIN r : from(i) = from(j) => i = j
      BY <1>2, <1>3
    <2>2. ASSUME NEW m \in DOMAIN s, m # k
          PROVE  \E i \in DOMAIN r : from(i) = m
      <3>1. CASE m < k
        <4>1. m \in DOMAIN r /\ from(m) = m
          BY <1>2, <1>3, <3>1
        <4> QED
          BY <4>1
      <3>2. CASE m > k
        <4>1. m - 1 \in DOMAIN r /\ from(m - 1) = m
          BY <1>2, <1>3, <3>2
        <4> QED
          BY <4>1
      <3> QED
        BY <1>2, <2>2, <3>1, <3>2
    <2> QED
      BY <2>1, <2>2
  <1>5. \A i \in DOMAIN r : r[i] = s[from(i)]
    BY <1>1, <1>3
  <1>6. DOMAIN r = 1..Len(r)
    BY <1>1, <1>3
  <1> HIDE DEF r, from
  <1>7. NoRepeats(r)
    BY <1>4, <1>5 DEF NoRepeats
  <1>8. ASSUME NEW y
        PROVE  Contains(r, y) <=> Contains(s, y) /\ y # s[k]
    <2>1. ASSUME NEW i \in DOMAIN r, r[i] = y
          PROVE  Contains(s, y) /\ y # s[k]
      <3>1. y = s[from(i)] /\ from(i) \in DOMAIN s /\ from(i) # k
        BY <1>4, <1>5, <2>1
      <3> QED
        BY <1>2, <3>1 DEF NoRepeats, Contains
    <2>2. ASSUME NEW m \in DOMAIN s, s[m] = y, y # s[k]
          PROVE  Contains(r, y)
      <3>1. PICK i \in DOMAIN r : from(i) = m
        BY <1>4, <2>2
      <3> QED
        BY <1>5, <1>6, <2>2, <3>1 DEF Contains
    <2> QED
      BY <1>2, <1>6, <2>1, <2>2 DEF Contains
  <1> QED
    BY <1>7, <1>8 DEF r

-----------------------------------------------------------------------------
(* What the owner's calls take for granted holds.                          *)

\* A payload's own steps keep the handles, the owner's call and its drain.
MailboxKept == mailbox'.handle = mailbox.handle /\ mailbox'.closed = mailbox.closed

TargetsKept ==
    \A t \in Targets :
       target'[t].handle = target[t].handle /\ target'[t].closed = target[t].closed

CallKept ==
    owner'.op = owner.op /\ owner'.target = owner.target /\ owner'.dying = owner.dying

DrainKept ==
    /\ owner'.draining = owner.draining /\ owner'.batch = owner.batch
    /\ owner'.running = owner.running

LEMMA CallsFrame ==
  ASSUME TypeOK, OwnerWellFormed, CallsWellFormed,
         MailboxKept, TargetsKept, CallKept, DrainKept
  PROVE  CallsWellFormed'
  <1>1. owner.op \in TargetOps => owner.target \in Targets
    BY FieldTypes DEF OwnerWellFormed
  <1> QED
    BY <1>1 DEF CallsWellFormed, MailboxKept, TargetsKept, CallKept, DrainKept

LEMMA BeginOpKeeps ==
  ASSUME TypeOK, NEW n, NEW t, NEW c, BeginOp(n, t, c)
  PROVE  /\ owner'.op = n /\ owner'.target = t /\ owner'.dying = owner.dying
         /\ owner'.inline = owner.inline /\ DrainKept
  <1>1. owner \in OwnerType
    BY FieldTypes
  <1> QED
    BY <1>1 DEF BeginOp, OwnerType, DrainKept

\* A post and a broadcast keep all of this.
LEMMA PostsKeep ==
  ASSUME TypeOK, NEW th \in Threads,
         \/ \E p \in Payloads : PostRefused(th, p) \/ PostEnterTarget(th, p)
         \/ PostContinues(th)
  PROVE  /\ MailboxKept /\ TargetsKept /\ CallKept /\ DrainKept
         /\ owner'.inline = owner.inline
  <1>0. mailbox \in MailboxType /\ owner \in OwnerType
    BY FieldTypes
  <1>1. TargetsKept
    BY PostsKeepTargets DEF SameTarget, TargetsKept
  <1>2. MailboxKept
    <2>1. \/ mailbox' = mailbox
          \/ \E k : mailbox' = [mailbox EXCEPT !.active = k]
          \/ \E q : mailbox' = [mailbox EXCEPT !.queue = q]
      BY DEF PostRefused, PostEnterTarget, PostContinues, PostEnterMailbox, MailboxEntered,
         PostGiveUp, PostAppend, PostNotify, PostLeaveMailbox, PostLeaveTarget
    <2> QED
      BY <1>0, <2>1 DEF MailboxType, MailboxKept
  <1>3. CallKept /\ DrainKept /\ owner'.inline = owner.inline
    <2>1. owner' = owner \/ \E b : owner' = [owner EXCEPT !.asleep = b]
      BY DEF PostRefused, PostEnterTarget, PostContinues, PostEnterMailbox, PostGiveUp,
         PostAppend, PostNotify, PostLeaveMailbox, PostLeaveTarget, Broadcast
    <2> QED
      BY <1>0, <2>1 DEF OwnerType, CallKept, DrainKept
  <1> QED
    BY <1>1, <1>2, <1>3

LEMMA TargetCallsWellFormed ==
  ASSUME TypeOK, WellFormed, CallsWellFormed, TargetLifecycle
  PROVE  CallsWellFormed'
  <1>0. /\ target \in [Targets -> TargetType] /\ UNCHANGED mailbox
        /\ OwnerFree => owner.op = "none"
        /\ "none" \notin TargetOps \cup MailboxOps \cup DisposeOps
        /\ TargetOps \cap (MailboxOps \cup DisposeOps) = {}
    BY FieldTypes, LifecycleKeepsThreads DEF OwnerFree, TargetOps, MailboxOps, DisposeOps
  <1>1. ASSUME NEW t \in Targets, NEW c \in Contexts, CreateTarget(t, c)
        PROVE  CallsWellFormed'
    <2>1. \A u \in Targets : /\ target'[u].closed = target[u].closed
                             /\ target'[u].handle = IF u = t THEN "open" ELSE target[u].handle
      BY <1>0, <1>1 DEF CreateTarget, TargetType
    <2>2. OwnerFree /\ UNCHANGED owner
      BY <1>1 DEF CreateTarget, OwnerInCode
    <2> QED
      BY <1>0, <2>1, <2>2 DEF CallsWellFormed
  <1>2. ASSUME NEW t \in Targets, NEW name \in TargetOps, NEW c, OwnerFree,
               target[t].handle = "open",
               \A u \in Targets : /\ target'[u].handle = target[u].handle
                                  /\ target[u].closed => target'[u].closed,
               BeginOp(name, t, c)
        PROVE  CallsWellFormed'
    BY <1>0, <1>2, BeginOpKeeps DEF CallsWellFormed, DrainKept
  <1>3. ASSUME NEW t \in Targets, NEW name \in TargetOps, NEW c, AdvanceGeneration(t, name, c)
        PROVE  CallsWellFormed'
    <2>1. \A u \in Targets : /\ target'[u].handle = target[u].handle
                             /\ target'[u].closed = target[u].closed
      BY <1>0, <1>3 DEF AdvanceGeneration, GenerationAdvanced, TargetType
    <2> QED
      BY <1>2, <1>3, <2>1 DEF AdvanceGeneration, OwnerInCode
  <1>4. ASSUME NEW t \in Targets, NEW name \in {"closeTarget", "deinitTarget"},
               CloseTarget(t, name)
        PROVE  CallsWellFormed'
    <2>1. \A n : target' = [target EXCEPT ![t].closed = TRUE, ![t].generation = n] =>
             \A u \in Targets : /\ target'[u].handle = target[u].handle
                                /\ target[u].closed => target'[u].closed
      BY <1>0 DEF TargetType
    <2>2. \E n : target' = [target EXCEPT ![t].closed = TRUE, ![t].generation = n]
      BY <1>4 DEF CloseTarget, MarkedClosed
    <2>3. name \in TargetOps
      BY DEF TargetOps
    <2> QED
      BY <1>2, <1>4, <2>1, <2>2, <2>3 DEF CloseTarget, OwnerInCode
  <1>5. CASE FinishTargetOp
    <2>1. owner'.op = "none" /\ owner'.dying = owner.dying /\ DrainKept
      BY <1>5, BeginOpKeeps DEF FinishTargetOp, EndOp
    <2>2. owner.op \in TargetOps
      BY <1>5 DEF FinishTargetOp
    <2>3. \A u \in Targets :
             /\ target'[u].closed = target[u].closed
             /\ \/ target'[u].handle = target[u].handle
                \/ u = owner.target /\ owner.op = "deinitTarget"
      <3> DEFINE t == owner.target
                 c == IF owner.op = "invalidate" THEN target[t].context ELSE owner.context
                 h == IF owner.op = "deinitTarget" THEN "gone" ELSE target[t].handle
      <3>1. target' = [target EXCEPT ![t].context = c, ![t].handle = h]
        BY <1>5 DEF FinishTargetOp
      <3>2. \A u \in Targets : /\ target'[u].closed = target[u].closed
                               /\ target'[u].handle = IF u = t THEN h ELSE target[u].handle
        <4> HIDE DEF c, h, t
        <4> QED
          BY <1>0, <3>1 DEF TargetType
      <3> QED
        BY <3>2
    <2>4. owner.op = "deinitTarget" => target[owner.target].closed
      BY DEF WellFormed, OwnerWellFormed
    <2> QED
      BY <1>0, <2>1, <2>2, <2>3, <2>4 DEF CallsWellFormed, DrainKept
  <1> QED
    <2>1. {"invalidate", "renew"} \subseteq TargetOps
      BY DEF TargetOps
    <2> QED
      BY <2>1, <1>1, <1>3, <1>4, <1>5 DEF TargetLifecycle, Renew, Invalidate

LEMMA MailboxCallsWellFormed ==
  ASSUME TypeOK, WellFormed, CallsWellFormed, MailboxLifecycle
  PROVE  CallsWellFormed'
  <1>0. /\ mailbox \in MailboxType /\ owner \in OwnerType /\ UNCHANGED target
        /\ "none" \notin TargetOps \cup MailboxOps \cup DisposeOps
        /\ TargetOps \cap (MailboxOps \cup DisposeOps) = {}
        /\ MailboxOps \cap DisposeOps = {}
    BY FieldTypes, OwnerStepsKeepThreads DEF TargetOps, MailboxOps, DisposeOps
  <1>1. ASSUME NEW name \in MailboxOps, CloseMailbox(name)
        PROVE  CallsWellFormed'
    <2>1. mailbox.handle /\ mailbox'.handle = mailbox.handle /\ mailbox'.closed
      BY <1>0, <1>1 DEF CloseMailbox, MailboxType
    <2>2. owner'.op = name /\ owner'.dying = owner.dying /\ DrainKept
      BY <1>1, BeginOpKeeps DEF CloseMailbox
    <2>3. owner.op = "none"
      BY <1>1 DEF CloseMailbox, OwnerInCode, OwnerFree
    <2> QED
      BY <1>0, <2>1, <2>2, <2>3 DEF CallsWellFormed, DrainKept
  <1>2. CASE TakeQueueToDispose
    <2>1. MailboxKept /\ DrainKept /\ owner'.op \in DisposeOps /\ owner.op \in MailboxOps
      BY <1>0, <1>2 DEF TakeQueueToDispose, QueueTaken, MailboxType, OwnerType, MailboxKept,
         DrainKept, DisposeOps
    <2> QED
      BY <1>0, <2>1 DEF CallsWellFormed, MailboxKept, DrainKept
  <1>3. CASE DisposeQueued
    <2>1. DrainKept /\ owner'.op = owner.op /\ owner.op \in DisposeOps /\ UNCHANGED mailbox
      BY <1>0, <1>3 DEF DisposeQueued, OwnerType, DrainKept
    <2> QED
      BY <1>0, <2>1 DEF CallsWellFormed, DrainKept
  <1>4. CASE FinishMailboxOp
    <2>1. owner'.op = "none" /\ owner'.dying = owner.dying /\ DrainKept
      BY <1>4, BeginOpKeeps DEF FinishMailboxOp, EndOp
    <2>2. owner.dying = <<>> /\ owner.op \in DisposeOps /\ mailbox'.closed = mailbox.closed
      BY <1>0, <1>4 DEF FinishMailboxOp, MailboxType
    <2> QED
      BY <1>0, <2>1, <2>2 DEF CallsWellFormed, DrainKept
  <1> QED
    <2>1. MailboxOps = {"closeMailbox", "deinitMailbox"}
      BY DEF MailboxOps
    <2> QED
      BY <2>1, <1>1, <1>2, <1>3, <1>4 DEF MailboxLifecycle

LEMMA DrainCallsWellFormed ==
  ASSUME TypeOK, WellFormed, CallsWellFormed, Drain
  PROVE  CallsWellFormed'
  <1>0. mailbox \in MailboxType /\ owner \in OwnerType /\ OwnerWellFormed
    BY FieldTypes DEF WellFormed
  <1>1. MailboxKept /\ TargetsKept
    <2>1. UNCHANGED target /\ (mailbox' = mailbox \/ mailbox' = [mailbox EXCEPT !.queue = <<>>])
      BY DEF Drain, HostWakes, DrainBegin, QueueTaken, DrainInvoke, DrainCancel, DrainReturn,
         DrainEnd
    <2> QED
      BY <1>0, <2>1 DEF MailboxKept, TargetsKept, MailboxType
  <1>2. /\ CallKept
        /\ ~owner'.draining => owner'.batch = <<>> /\ owner'.running = None
    <2>1. CASE HostWakes
      BY <2>1 DEF HostWakes, CallKept, CallsWellFormed
    <2>2. CASE DrainBegin
      BY <1>0, <2>2 DEF DrainBegin, CallKept, OwnerType
    <2>3. CASE DrainInvoke \/ DrainCancel
      BY <1>0, <2>3 DEF DrainInvoke, DrainCancel, InDrainLoop, CallKept, OwnerType
    <2>4. CASE DrainReturn
      BY <1>0, <2>4 DEF DrainReturn, CallKept, OwnerType, CallsWellFormed
    <2>5. CASE DrainEnd
      BY <1>0, <2>5 DEF DrainEnd, InDrainLoop, CallKept, OwnerType
    <2> QED
      BY <2>1, <2>2, <2>3, <2>4, <2>5 DEF Drain
  <1>3. owner.op \in TargetOps => owner.target \in Targets
    BY <1>0, FieldTypes DEF OwnerWellFormed
  <1> QED
    BY <1>1, <1>2, <1>3 DEF CallsWellFormed, MailboxKept, TargetsKept, CallKept

LEMMA CallsWellFormedStep ==
  ASSUME TypeOK, WellFormed, CallsWellFormed, [Next]_vars
  PROVE  CallsWellFormed'
  <1>0. owner \in OwnerType /\ OwnerWellFormed
    BY FieldTypes DEF WellFormed
  <1>1. CASE UNCHANGED <<mailbox, target, owner>>
    BY <1>1 DEF CallsWellFormed
  <1>2. ASSUME NEW th \in Threads,
               \/ \E p \in Payloads : PostRefused(th, p) \/ PostEnterTarget(th, p)
               \/ PostContinues(th)
        PROVE  CallsWellFormed'
    BY <1>0, <1>2, PostsKeep, CallsFrame
  <1>3. ASSUME NEW th \in Threads,
               \/ \E t \in Targets : AcquireSender(th, t)
               \/ \E to \in Threads : RetainSender(th, to)
               \/ ReleaseSender(th)
        PROVE  CallsWellFormed'
    BY <1>1, <1>3 DEF AcquireSender, RetainSender, ReleaseSender
  <1>4. CASE Sleep \/ DeliverReturn \/ \E p \in Payloads : DeliverInvoke(p)
    <2>1. CallKept /\ DrainKept
      BY <1>0, <1>4 DEF Sleep, DeliverReturn, DeliverInvoke, CallKept, DrainKept, OwnerType
    <2>2. MailboxKept /\ TargetsKept
      BY <1>4 DEF Sleep, DeliverReturn, DeliverInvoke, MailboxKept, TargetsKept
    <2> QED
      BY <1>0, <2>1, <2>2, CallsFrame
  <1>5. ASSUME NEW p \in Payloads, DeliverRefused(p)
        PROVE  CallsWellFormed'
    BY <1>1, <1>5 DEF DeliverRefused
  <1>6. CASE UNCHANGED vars
    BY <1>1, <1>6 DEF vars
  <1> QED
    BY <1>2, <1>3, <1>4, <1>5, <1>6, TargetCallsWellFormed, MailboxCallsWellFormed,
       DrainCallsWellFormed DEF Next

-----------------------------------------------------------------------------
(* A payload on a posting thread is that thread's own.                     *)

LEMMA HeldFrame ==
  ASSUME TypeOK, ThreadsWellFormed, HeldAreTheirs, [Next]_vars, NEW x \in Threads,
         thread'[x].held = thread[x].held, thread'[x].held # None,
         thread'[x].pc \in {"target", "mailbox"},
         thread[x].pc # "idle" => thread'[x].sender = thread[x].sender
  PROVE  payload'[thread'[x].held].tag = thread'[x].sender
  <1>1. /\ thread[x].held \in Payloads /\ thread[x].pc \in {"target", "mailbox"}
        /\ payload[thread[x].held].tag = thread[x].sender
        /\ payload[thread[x].held].tag # None
    BY FieldTypes DEF HeldAreTheirs, ThreadsWellFormed
  <1> QED
    BY <1>1, TagsKept

LEMMA HeldAreTheirsStep ==
  ASSUME TypeOK, WellFormed, HeldAreTheirs, [Next]_vars
  PROVE  HeldAreTheirs'
  <1>0. ThreadsWellFormed
    BY DEF WellFormed
  <1>1. CASE \A x \in Threads :
                /\ thread'[x].pc = thread[x].pc /\ thread'[x].held = thread[x].held
                /\ thread[x].pc # "idle" => thread'[x].sender = thread[x].sender
    BY <1>0, <1>1, HeldFrame DEF HeldAreTheirs
  <1>m. ASSUME NEW th \in Threads,
               \A x \in Threads : thread'[x].sender = thread[x].sender,
               \A x \in Threads \ {th} :
                  thread'[x].pc = thread[x].pc /\ thread'[x].held = thread[x].held,
               \/ thread'[th].held = None
               \/ /\ thread'[th].pc \in {"target", "mailbox"}
                  /\ thread'[th].held = thread[th].held
                     \/ payload'[thread'[th].held].tag = thread[th].sender
        PROVE  HeldAreTheirs'
    <2> SUFFICES ASSUME NEW x \in Threads, thread'[x].held # None
                 PROVE  /\ thread'[x].pc \in {"target", "mailbox"}
                        /\ payload'[thread'[x].held].tag = thread'[x].sender
      BY DEF HeldAreTheirs
    <2>1. CASE x = th
      BY <1>0, <1>m, <2>1, HeldFrame
    <2>2. CASE x # th
      <3>1. thread'[x].pc \in {"target", "mailbox"}
        BY <1>m, <2>2 DEF HeldAreTheirs
      <3> QED
        BY <1>0, <1>m, <2>2, <3>1, HeldFrame
    <2> QED
      BY <2>1, <2>2
  <1>2. ASSUME NEW th \in Threads, PostContinues(th)
        PROVE  HeldAreTheirs'
    <2>1. CASE PostEnterMailbox(th)
      <3>1. thread' = [thread EXCEPT ![th].pc = "mailbox"]
        BY <2>1 DEF PostEnterMailbox
      <3>2. /\ thread'[th].pc \in {"target", "mailbox"} /\ thread'[th].held = thread[th].held
            /\ \A x \in Threads : thread'[x].sender = thread[x].sender
            /\ \A x \in Threads \ {th} :
                  thread'[x].pc = thread[x].pc /\ thread'[x].held = thread[x].held
        BY <3>1, ThreadMoved
      <3> QED
        BY <1>m, <3>2
    <2>2. CASE PostGiveUp(th) \/ PostAppend(th)
      <3>1. PICK place : thread' = [thread EXCEPT ![th].pc = place, ![th].held = None]
        BY <2>2 DEF PostGiveUp, PostAppend
      <3>2. /\ thread'[th].held = None
            /\ \A x \in Threads : thread'[x].sender = thread[x].sender
            /\ \A x \in Threads \ {th} :
                  thread'[x].pc = thread[x].pc /\ thread'[x].held = thread[x].held
        BY <3>1, ThreadMoved
      <3> QED
        BY <1>m, <3>2
    <2>3. CASE PostNotify(th) \/ PostLeaveMailbox(th) \/ PostLeaveTarget(th)
      <3>0. PICK place : thread' = [thread EXCEPT ![th].pc = place]
        BY <2>3 DEF PostNotify, PostLeaveMailbox, PostLeaveTarget
      <3>1. thread[th].pc \in {"notify", "leaveMailbox", "leaveTarget"}
        BY <2>3 DEF PostNotify, PostLeaveMailbox, PostLeaveTarget
      <3>2. thread[th].held = None
        BY <3>1 DEF HeldAreTheirs
      <3>3. /\ thread'[th].held = None
            /\ \A x \in Threads : thread'[x].sender = thread[x].sender
            /\ \A x \in Threads \ {th} :
                  thread'[x].pc = thread[x].pc /\ thread'[x].held = thread[x].held
        BY <3>0, <3>2, ThreadMoved
      <3> QED
        BY <1>m, <3>3
    <2> QED
      BY <1>2, <2>1, <2>2, <2>3 DEF PostContinues
  <1>3. ASSUME NEW th \in Threads, NEW p \in Payloads, PostEnterTarget(th, p)
        PROVE  HeldAreTheirs'
    <2>1. /\ payload' = [payload EXCEPT ![p].tag = thread[th].sender]
          /\ thread' = [thread EXCEPT ![th].pc = "target", ![th].held = p]
      BY <1>3 DEF PostEnterTarget
    <2>2. payload'[p].tag = thread[th].sender
      <3>1. payload \in [Payloads -> PayloadType]
        BY FieldTypes
      <3> QED
        BY <2>1, <3>1 DEF PayloadType
    <2>3. /\ thread'[th].held = p /\ thread'[th].pc = "target"
          /\ \A x \in Threads : thread'[x].sender = thread[x].sender
          /\ \A x \in Threads \ {th} :
                thread'[x].pc = thread[x].pc /\ thread'[x].held = thread[x].held
      BY <2>1, ThreadMoved
    <2> QED
      BY <1>m, <2>2, <2>3
  <1>4. ASSUME NEW th \in Threads,
               \/ \E t \in Targets : AcquireSender(th, t)
               \/ \E to \in Threads : RetainSender(th, to)
               \/ ReleaseSender(th)
        PROVE  HeldAreTheirs'
    BY <1>0, <1>1, <1>4, SenderStepsKeepProducers
  <1>5. CASE UNCHANGED thread
    BY <1>1, <1>5
  <1> QED
    BY <1>2, <1>3, <1>4, <1>5, LifecycleKeepsThreads, OwnerStepsKeepThreads
    DEF Next, PostRefused, DeliverRefused, DeliverInvoke, vars

-----------------------------------------------------------------------------
(* The steps, as what they do to the payloads and to the references.       *)

SamePlaces ==
    Chain' = Chain /\ owner'.inline = owner.inline /\ owner'.running = owner.running

HeldKept == \A x \in Threads : thread'[x].held = thread[x].held

HandlesKept ==
    /\ mailbox'.handle = mailbox.handle
    /\ \A t \in Targets : target'[t].handle = target[t].handle
    /\ \A x \in Threads : thread'[x].sender = thread[x].sender

Becomes(p, tag, ran, destroyed) ==
    /\ payload'[p].tag = tag /\ payload'[p].ran = ran /\ payload'[p].destroyed = destroyed
    /\ \A q \in Payloads \ {p} :
          /\ payload'[q].tag = payload[q].tag /\ payload'[q].ran = payload[q].ran
          /\ payload'[q].destroyed = payload[q].destroyed

Destroyed(p) == Becomes(p, payload[p].tag, payload[p].ran, payload[p].destroyed + 1)

\* No payload moves: producers in their sections, Sender handles, calls, the
\* beginning and the end of a drain or of a close.
Stays == SamePlaces /\ HeldKept /\ UNCHANGED payload

\* ... and no handle either.
Rests == Stays /\ HandlesKept /\ UNCHANGED refs

SendersKept == \A x \in Threads : thread'[x].sender = thread[x].sender

TargetHandlesKept == \A t \in Targets : target'[t].handle = target[t].handle

\* One handle comes or goes: a Sender, a Target or the Mailbox.
NewSender(x, t) ==
    /\ Stays /\ TargetHandlesKept /\ mailbox'.handle = mailbox.handle
    /\ target[t].handle = "open" \/ SenderHolders(t) # {}
    /\ thread[x].sender = None /\ thread'[x].sender # None /\ thread'[x].sender.target = t
    /\ \A y \in Threads \ {x} : thread'[y].sender = thread[y].sender
    /\ RetainTarget(t)

LostSender(x) ==
    /\ Stays /\ TargetHandlesKept /\ mailbox'.handle = mailbox.handle
    /\ thread[x].sender # None /\ thread'[x].sender = None
    /\ \A y \in Threads \ {x} : thread'[y].sender = thread[y].sender
    /\ ReleaseTarget(thread[x].sender.target)

NewTarget(t) ==
    /\ Stays /\ SendersKept /\ mailbox'.handle = mailbox.handle
    /\ \A u \in Targets : target'[u].handle = IF u = t THEN "open" ELSE target[u].handle
    /\ target[t].handle = "none"
    /\ targetRefs' = [targetRefs EXCEPT ![t] = 1] /\ mailboxRefs' = mailboxRefs + 1

LostTarget(t) ==
    /\ Stays /\ SendersKept /\ mailbox'.handle = mailbox.handle
    /\ \A u \in Targets : target'[u].handle = IF u = t THEN "gone" ELSE target[u].handle
    /\ target[t].handle = "open"
    /\ ReleaseTarget(t)

LostMailbox ==
    /\ Stays /\ SendersKept /\ TargetHandlesKept
    /\ mailbox.handle /\ ~mailbox'.handle
    /\ mailboxRefs' = mailboxRefs - 1 /\ UNCHANGED targetRefs

HandleMoves ==
    \/ \E x \in Threads : LostSender(x) \/ \E t \in Targets : NewSender(x, t)
    \/ \E t \in Targets : NewTarget(t) \/ LostTarget(t)
    \/ LostMailbox

Offers(th, p) ==
    /\ payload[p].tag = None /\ thread[th].held = None /\ thread'[th].held = p
    /\ \A x \in Threads \ {th} : thread'[x].held = thread[x].held
    /\ \E s \in Sender : Becomes(p, s, payload[p].ran, payload[p].destroyed)
    /\ SamePlaces /\ HandlesKept /\ UNCHANGED refs

Refuses(p) ==
    /\ payload[p].tag = None
    /\ \E s \in Sender : Becomes(p, s, payload[p].ran, payload[p].destroyed + 1)
    /\ SamePlaces /\ HeldKept /\ HandlesKept /\ UNCHANGED refs

LetsGo(th) ==
    /\ thread[th].held \in Payloads /\ thread'[th].held = None
    /\ \A x \in Threads \ {th} : thread'[x].held = thread[x].held

GivesUp(th) ==
    /\ LetsGo(th) /\ Destroyed(thread[th].held)
    /\ SamePlaces /\ HandlesKept /\ UNCHANGED refs

Appends(th) ==
    /\ LetsGo(th) /\ UNCHANGED payload
    /\ Chain' = Append(Chain, thread[th].held)
    /\ owner'.inline = owner.inline /\ owner'.running = owner.running
    /\ HandlesKept /\ RetainTarget(payload[thread[th].held].tag.target)
    /\ thread[th].sender = payload[thread[th].held].tag

Drops(i) ==
    /\ ~NodeDeliverable(Chain[i])
    /\ Destroyed(Chain[i]) /\ Chain' = RemoveAt(Chain, i)
    /\ owner'.inline = owner.inline /\ owner'.running = owner.running
    /\ HeldKept /\ HandlesKept /\ ReleaseTarget(payload[Chain[i]].tag.target)

Starts(c) ==
    /\ Chain # <<>> /\ owner.running = None
    /\ NodeDeliverable(Head(Chain))
    /\ Chain' = Tail(Chain) /\ owner'.running = Head(Chain) /\ owner'.inline = owner.inline
    /\ Becomes(Head(Chain), payload[Head(Chain)].tag, c, payload[Head(Chain)].destroyed)
    /\ HeldKept /\ HandlesKept /\ UNCHANGED refs

Returns ==
    /\ owner.running \in Payloads /\ owner'.running = None
    /\ Destroyed(owner.running)
    /\ Chain' = Chain /\ owner'.inline = owner.inline
    /\ HeldKept /\ HandlesKept /\ ReleaseTarget(payload[owner.running].tag.target)

StartsNow(p, s, c) ==
    /\ payload[p].tag = None
    /\ Becomes(p, s, c, payload[p].destroyed) /\ owner'.inline = Append(owner.inline, p)
    /\ Chain' = Chain /\ owner'.running = owner.running
    /\ HeldKept /\ HandlesKept /\ RetainTarget(s.target) /\ thread[Owner].sender = s

ReturnsNow ==
    /\ owner.inline # <<>> /\ owner'.inline = Front(owner.inline)
    /\ Destroyed(Last(owner.inline))
    /\ Chain' = Chain /\ owner'.running = owner.running
    /\ HeldKept /\ HandlesKept /\ ReleaseTarget(payload[Last(owner.inline)].tag.target)

\* What a payload's record becomes.
LEMMA PayloadEffects ==
  ASSUME TypeOK, NEW p \in Payloads
  PROVE  /\ Dispose(p) => Destroyed(p)
         /\ \A s : DisposeUnposted(p, s) =>
                     Becomes(p, s, payload[p].ran, payload[p].destroyed + 1)
         /\ \A s : payload' = [payload EXCEPT ![p].tag = s] =>
                     Becomes(p, s, payload[p].ran, payload[p].destroyed)
         /\ \A c : payload' = [payload EXCEPT ![p].ran = c] =>
                     Becomes(p, payload[p].tag, c, payload[p].destroyed)
         /\ \A s, c : payload' = [payload EXCEPT ![p].tag = s, ![p].ran = c] =>
                     Becomes(p, s, c, payload[p].destroyed)
  <1>0. payload \in [Payloads -> PayloadType]
    BY FieldTypes
  <1>1. Dispose(p) => Destroyed(p)
    BY <1>0 DEF Dispose, Destroyed, Becomes, PayloadType
  <1>2. ASSUME NEW s, DisposeUnposted(p, s)
        PROVE  Becomes(p, s, payload[p].ran, payload[p].destroyed + 1)
    BY <1>0, <1>2 DEF DisposeUnposted, Becomes, PayloadType
  <1>3. ASSUME NEW s, payload' = [payload EXCEPT ![p].tag = s]
        PROVE  Becomes(p, s, payload[p].ran, payload[p].destroyed)
    BY <1>0, <1>3 DEF Becomes, PayloadType
  <1>4. ASSUME NEW c, payload' = [payload EXCEPT ![p].ran = c]
        PROVE  Becomes(p, payload[p].tag, c, payload[p].destroyed)
    BY <1>0, <1>4 DEF Becomes, PayloadType
  <1>5. ASSUME NEW s, NEW c, payload' = [payload EXCEPT ![p].tag = s, ![p].ran = c]
        PROVE  Becomes(p, s, c, payload[p].destroyed)
    BY <1>0, <1>5 DEF Becomes, PayloadType
  <1> QED
    BY <1>1, <1>2, <1>3, <1>4, <1>5

\* What the owner's record becomes.
LEMMA OwnerEffects ==
  ASSUME TypeOK
  PROVE  /\ \A b : owner' = [owner EXCEPT !.asleep = b] =>
               /\ owner'.batch = owner.batch /\ owner'.dying = owner.dying
               /\ owner'.inline = owner.inline /\ owner'.running = owner.running
         /\ \A d, o : owner' = [owner EXCEPT !.dying = d, !.op = o] =>
               /\ owner'.batch = owner.batch /\ owner'.dying = d
               /\ owner'.inline = owner.inline /\ owner'.running = owner.running
         /\ \A d : owner' = [owner EXCEPT !.dying = d] =>
               /\ owner'.batch = owner.batch /\ owner'.dying = d
               /\ owner'.inline = owner.inline /\ owner'.running = owner.running
         /\ \A b : owner' = [owner EXCEPT !.draining = TRUE, !.batch = b] =>
               /\ owner'.batch = b /\ owner'.dying = owner.dying
               /\ owner'.inline = owner.inline /\ owner'.running = owner.running
         /\ \A r, b : owner' = [owner EXCEPT !.running = r, !.batch = b] =>
               /\ owner'.batch = b /\ owner'.dying = owner.dying
               /\ owner'.inline = owner.inline /\ owner'.running = r
         /\ \A b : owner' = [owner EXCEPT !.batch = b] =>
               /\ owner'.batch = b /\ owner'.dying = owner.dying
               /\ owner'.inline = owner.inline /\ owner'.running = owner.running
         /\ owner' = [owner EXCEPT !.running = None] =>
               /\ owner'.batch = owner.batch /\ owner'.dying = owner.dying
               /\ owner'.inline = owner.inline /\ owner'.running = None
         /\ owner' = [owner EXCEPT !.draining = FALSE] =>
               /\ owner'.batch = owner.batch /\ owner'.dying = owner.dying
               /\ owner'.inline = owner.inline /\ owner'.running = owner.running
         /\ \A i : owner' = [owner EXCEPT !.inline = i] =>
               /\ owner'.batch = owner.batch /\ owner'.dying = owner.dying
               /\ owner'.inline = i /\ owner'.running = owner.running
  <1>1. owner \in OwnerType
    BY FieldTypes
  <1> QED
    BY <1>1 DEF OwnerType

LEMMA ChainKept ==
  ASSUME mailbox'.queue = mailbox.queue, owner'.batch = owner.batch, owner'.dying = owner.dying
  PROVE  Chain' = Chain
  BY DEF Chain

LEMMA ChainParts ==
  ASSUME TypeOK
  PROVE  /\ mailbox.queue \in Seq(Payloads) /\ owner.batch \in Seq(Payloads)
         /\ owner.dying \in Seq(Payloads) /\ owner.batch \o owner.dying \in Seq(Payloads)
         /\ Chain \in Seq(Payloads)
  <1>1. /\ mailbox.queue \in Seq(Payloads) /\ owner.batch \in Seq(Payloads)
        /\ owner.dying \in Seq(Payloads)
    BY FieldTypes
  <1> QED
    BY <1>1 DEF Chain

\* What the owner's and the producers' steps do to the chain.
LEMMA ChainMoves ==
  ASSUME TypeOK
  PROVE  /\ \A x \in Payloads :
               owner.batch \o owner.dying \o Append(mailbox.queue, x) = Append(Chain, x)
         /\ owner.batch # <<>> =>
               /\ Chain # <<>> /\ Head(Chain) = Head(owner.batch)
               /\ Tail(owner.batch) \o owner.dying \o mailbox.queue = Tail(Chain)
         /\ owner.dying # <<>> =>
               /\ Len(owner.batch) + 1 \in DOMAIN Chain
               /\ Chain[Len(owner.batch) + 1] = Head(owner.dying)
               /\ owner.batch \o Tail(owner.dying) \o mailbox.queue
                     = RemoveAt(Chain, Len(owner.batch) + 1)
         /\ owner.dying = <<>> => owner.batch \o mailbox.queue \o <<>> = Chain
         /\ owner.batch = <<>> /\ owner.dying = <<>> =>
               mailbox.queue \o owner.dying \o <<>> = Chain
  <1> DEFINE b == owner.batch
             d == owner.dying
             q == mailbox.queue
  <1>1. b \in Seq(Payloads) /\ d \in Seq(Payloads) /\ q \in Seq(Payloads)
    BY ChainParts
  <1>2. Chain = b \o d \o q
    BY DEF Chain
  <1> HIDE DEF b, d, q
  <1>3. /\ \A x \in Payloads : b \o d \o Append(q, x) = Append(b \o d \o q, x)
        /\ b # <<>> => /\ b \o d \o q # <<>> /\ Head(b \o d \o q) = Head(b)
                       /\ Tail(b) \o d \o q = Tail(b \o d \o q)
        /\ d # <<>> => /\ Len(b) + 1 \in DOMAIN (b \o d \o q)
                       /\ (b \o d \o q)[Len(b) + 1] = Head(d)
                       /\ b \o Tail(d) \o q = RemoveAt(b \o d \o q, Len(b) + 1)
    BY <1>1, ZenonT(60), RowMoves
  <1>4. d = <<>> => b \o q \o <<>> = b \o d \o q
    BY <1>1
  <1>5. b = <<>> /\ d = <<>> => q \o d \o <<>> = b \o d \o q
    BY <1>1
  <1> QED
    BY <1>2, <1>3, <1>4, <1>5 DEF b, d, q

\* The posting thread.
LEMMA PostFlow ==
  ASSUME TypeOK, WellFormed, HeldAreTheirs, NEW th \in Threads, PostContinues(th)
  PROVE  Rests \/ GivesUp(th) \/ Appends(th)
  <1>0. /\ mailbox \in MailboxType /\ owner'.inline = owner.inline
        /\ owner'.batch = owner.batch /\ owner'.dying = owner.dying
        /\ owner'.running = owner.running
    BY FieldTypes, PostsKeep DEF CallKept, DrainKept
  <1>1. CASE PostEnterMailbox(th) \/ PostLeaveMailbox(th)
    <2>1. PICK place, k : /\ thread' = [thread EXCEPT ![th].pc = place]
                          /\ mailbox' = [mailbox EXCEPT !.active = k]
      BY <1>1 DEF PostEnterMailbox, MailboxEntered, PostLeaveMailbox
    <2>2. HeldKept /\ SendersKept
      BY <2>1, ThreadMoved DEF HeldKept, SendersKept
    <2>3. mailbox'.queue = mailbox.queue /\ mailbox'.handle = mailbox.handle
      BY <1>0, <2>1 DEF MailboxType
    <2>4. UNCHANGED <<payload, target, refs>>
      BY <1>1 DEF PostEnterMailbox, PostLeaveMailbox
    <2> QED
      BY <1>0, <2>2, <2>3, <2>4, ChainKept
      DEF Rests, Stays, SamePlaces, HandlesKept, SendersKept
  <1>2. CASE PostNotify(th) \/ PostLeaveTarget(th)
    <2>1. PICK place : thread' = [thread EXCEPT ![th].pc = place]
      BY <1>2 DEF PostNotify, PostLeaveTarget
    <2>2. HeldKept /\ SendersKept
      BY <2>1, ThreadMoved DEF HeldKept, SendersKept
    <2>3. UNCHANGED <<mailbox, payload, refs>>
      BY <1>2 DEF PostNotify, PostLeaveTarget
    <2>4. TargetHandlesKept
      BY <1>2, PostsKeepTargets DEF SameTarget, TargetHandlesKept, PostContinues
    <2> QED
      BY <1>0, <2>2, <2>3, <2>4, ChainKept
      DEF Rests, Stays, SamePlaces, HandlesKept, SendersKept, TargetHandlesKept
  <1>3. ASSUME NEW place, thread' = [thread EXCEPT ![th].pc = place, ![th].held = None],
               thread[th].pc \in {"target", "mailbox"}
        PROVE  /\ LetsGo(th) /\ \A x \in Threads : thread'[x].sender = thread[x].sender
               /\ thread[th].sender = payload[thread[th].held].tag
    <2>1. thread[th].held \in Payloads
      BY <1>3, FieldTypes DEF WellFormed, ThreadsWellFormed
    <2>2. /\ thread'[th].held = None /\ \A x \in Threads : thread'[x].sender = thread[x].sender
          /\ \A x \in Threads \ {th} : thread'[x].held = thread[x].held
      BY <1>3, ThreadMoved
    <2>3. thread[th].sender = payload[thread[th].held].tag
      BY <2>1, NoneIsNothing DEF HeldAreTheirs
    <2> QED
      BY <2>1, <2>2, <2>3 DEF LetsGo
  <1>4. CASE PostGiveUp(th)
    <2>1. /\ thread' = [thread EXCEPT ![th].pc = ExitAfterGivingUp(th), ![th].held = None]
          /\ thread[th].pc \in {"target", "mailbox"} /\ Dispose(thread[th].held)
          /\ UNCHANGED <<mailbox, target, refs>>
      BY <1>4 DEF PostGiveUp
    <2>2. LetsGo(th) /\ \A x \in Threads : thread'[x].sender = thread[x].sender
      BY <1>3, <2>1
    <2>3. Destroyed(thread[th].held)
      BY <2>1, <2>2, PayloadEffects DEF LetsGo
    <2> QED
      BY <1>0, <2>1, <2>2, <2>3, ChainKept DEF GivesUp, SamePlaces, HandlesKept
  <1>5. CASE PostAppend(th)
    <2>1. /\ thread' = [thread EXCEPT ![th].pc = "notify", ![th].held = None]
          /\ thread[th].pc \in {"target", "mailbox"}
          /\ mailbox' = [mailbox EXCEPT !.queue = Append(mailbox.queue, thread[th].held)]
          /\ UNCHANGED <<target, payload>> /\ RetainTarget(thread[th].sender.target)
      BY <1>5 DEF PostAppend
    <2>2. /\ LetsGo(th) /\ \A x \in Threads : thread'[x].sender = thread[x].sender
          /\ thread[th].sender = payload[thread[th].held].tag
      BY <1>3, <2>1
    <2>3. /\ mailbox'.queue = Append(mailbox.queue, thread[th].held)
          /\ mailbox'.handle = mailbox.handle
      BY <1>0, <2>1 DEF MailboxType
    <2>4. Chain' = Append(Chain, thread[th].held)
      <3>1. thread[th].held \in Payloads
        BY <2>2 DEF LetsGo
      <3> QED
        BY <1>0, <2>3, <3>1, ChainMoves DEF Chain
    <2> QED
      BY <1>0, <2>1, <2>2, <2>3, <2>4 DEF Appends, HandlesKept
  <1> QED
    BY <1>1, <1>2, <1>4, <1>5 DEF PostContinues

\* A payload is offered or refused.
LEMMA OfferFlow ==
  ASSUME TypeOK, WellFormed, HeldAreTheirs, NEW th \in Threads, NEW p \in Payloads,
         PostRefused(th, p) \/ PostEnterTarget(th, p)
  PROVE  Refuses(p) \/ Offers(th, p)
  <1>0. /\ payload[p].tag = None /\ thread[th].sender \in Sender /\ thread[th].pc = "idle"
    BY FieldTypes DEF PostRefused, PostEnterTarget, CanPost
  <1>1. CASE PostRefused(th, p)
    <2>1. SamePlaces /\ HeldKept /\ HandlesKept /\ UNCHANGED refs
      BY <1>1 DEF PostRefused, SamePlaces, Chain, HeldKept, HandlesKept
    <2>2. Becomes(p, thread[th].sender, payload[p].ran, payload[p].destroyed + 1)
      BY <1>1, PayloadEffects DEF PostRefused
    <2> QED
      BY <1>0, <2>1, <2>2 DEF Refuses
  <1>2. CASE PostEnterTarget(th, p)
    <2>1. SamePlaces /\ UNCHANGED refs
      BY <1>2 DEF PostEnterTarget, SamePlaces, Chain
    <2>2. HandlesKept /\ thread'[th].held = p
          /\ \A x \in Threads \ {th} : thread'[x].held = thread[x].held
      <3>1. /\ thread' = [thread EXCEPT ![th].pc = "target", ![th].held = p]
            /\ UNCHANGED mailbox
        BY <1>2 DEF PostEnterTarget
      <3>2. \A t \in Targets : target'[t].handle = target[t].handle
        BY <1>2, PostsKeepTargets DEF SameTarget
      <3> QED
        BY <3>1, <3>2, ThreadMoved DEF HandlesKept
    <2>3. thread[th].held = None
      BY <1>0 DEF HeldAreTheirs
    <2>4. Becomes(p, thread[th].sender, payload[p].ran, payload[p].destroyed)
      BY <1>2, PayloadEffects DEF PostEnterTarget
    <2> QED
      BY <1>0, <2>1, <2>2, <2>3, <2>4 DEF Offers
  <1> QED
    BY <1>1, <1>2

\* The owner disposes of what a close took.
LEMMA MailboxFlow ==
  ASSUME TypeOK, CallsWellFormed, HeldAreTheirs, MailboxLifecycle
  PROVE  Rests \/ LostMailbox \/ \E i \in DOMAIN Chain : Drops(i)
  <1>0. /\ mailbox \in MailboxType /\ owner.dying \in Seq(Payloads) /\ HeldKept
        /\ UNCHANGED <<target, thread>>
    BY FieldTypes, OwnerStepsKeepThreads DEF HeldKept
  <1>1. ASSUME NEW name, CloseMailbox(name)
        PROVE  Rests
    <2>1. owner'.dying = owner.dying /\ owner'.inline = owner.inline /\ DrainKept
      BY <1>1, BeginOpKeeps DEF CloseMailbox
    <2>2. /\ mailbox'.queue = mailbox.queue /\ mailbox'.handle = mailbox.handle
          /\ UNCHANGED <<payload, refs>>
      BY <1>0, <1>1 DEF CloseMailbox, MailboxType
    <2> QED
      BY <1>0, <2>1, <2>2, ChainKept DEF Rests, Stays, SamePlaces, DrainKept, HandlesKept
  <1>2. CASE TakeQueueToDispose
    <2>1. owner.dying = <<>>
      BY <1>2 DEF TakeQueueToDispose, CallsWellFormed, MailboxOps, DisposeOps
    <2>2. /\ mailbox'.queue = <<>> /\ mailbox'.handle = mailbox.handle
          /\ UNCHANGED <<payload, refs>>
      BY <1>0, <1>2 DEF TakeQueueToDispose, QueueTaken, MailboxType
    <2>3. /\ owner'.batch = owner.batch /\ owner'.dying = mailbox.queue
          /\ owner'.inline = owner.inline /\ owner'.running = owner.running
      BY <1>2, OwnerEffects DEF TakeQueueToDispose
    <2>4. Chain' = Chain
      BY <2>1, <2>2, <2>3, ChainMoves DEF Chain
    <2> QED
      BY <1>0, <2>2, <2>3, <2>4 DEF Rests, Stays, SamePlaces, HandlesKept
  <1>3. CASE DisposeQueued
    <2> DEFINE p == Head(owner.dying)
               i == Len(owner.batch) + 1
    <2>1. /\ owner.op \in DisposeOps /\ owner.dying # <<>> /\ Dispose(p)
          /\ ReleaseTarget(payload[p].tag.target)
          /\ owner' = [owner EXCEPT !.dying = Tail(owner.dying)] /\ UNCHANGED mailbox
      BY <1>3 DEF DisposeQueued
    <2>2. p \in Payloads
      BY <1>0, <2>1
    <2>3. i \in DOMAIN Chain /\ Chain[i] = p
      BY <2>1, ChainMoves
    <2>4. Chain' = RemoveAt(Chain, i) /\ owner'.inline = owner.inline
          /\ owner'.running = owner.running
      <3>1. /\ owner'.batch = owner.batch /\ owner'.dying = Tail(owner.dying)
            /\ owner'.inline = owner.inline /\ owner'.running = owner.running
        BY <2>1, OwnerEffects
      <3> QED
        BY <2>1, <3>1, ChainMoves DEF Chain
    <2>5. ~NodeDeliverable(p)
      BY <2>1 DEF CallsWellFormed, NodeDeliverable
    <2>6. Destroyed(p) /\ HandlesKept
      BY <1>0, <2>1, <2>2, PayloadEffects DEF HandlesKept
    <2> HIDE DEF p, i
    <2> QED
      BY <1>0, <2>1, <2>3, <2>4, <2>5, <2>6 DEF Drops
  <1>4. CASE FinishMailboxOp
    <2>1. owner'.dying = owner.dying /\ owner'.inline = owner.inline /\ DrainKept
      BY <1>4, BeginOpKeeps DEF FinishMailboxOp, EndOp
    <2>2. mailbox'.queue = mailbox.queue /\ UNCHANGED payload
      BY <1>0, <1>4 DEF FinishMailboxOp, MailboxType
    <2>3. Stays
      BY <1>0, <2>1, <2>2, ChainKept DEF Stays, SamePlaces, DrainKept
    <2>4. CASE owner.op = "disposeDeinit"
      <3>1. mailbox' = [mailbox EXCEPT !.handle = FALSE] /\ mailboxRefs' = mailboxRefs - 1
            /\ UNCHANGED targetRefs
        BY <1>4, <2>4 DEF FinishMailboxOp
      <3>2. ~mailbox'.handle /\ mailbox.handle
        BY <1>0, <2>4, <3>1 DEF MailboxType, CallsWellFormed, DisposeOps
      <3> QED
        BY <1>0, <2>3, <3>1, <3>2 DEF LostMailbox, SendersKept, TargetHandlesKept
    <2>5. CASE owner.op # "disposeDeinit"
      <3>1. UNCHANGED <<mailbox, refs>>
        BY <1>4, <2>5 DEF FinishMailboxOp, refs
      <3> QED
        BY <1>0, <2>3, <3>1 DEF Rests, HandlesKept
    <2> QED
      BY <2>4, <2>5
  <1> QED
    BY <1>1, <1>2, <1>3, <1>4 DEF MailboxLifecycle

\* The drain takes the queue, and invokes or cancels its nodes in order.
LEMMA DrainFlow ==
  ASSUME TypeOK, WellFormed, CallsWellFormed, SendersFresh, Drain
  PROVE  \/ Rests \/ Returns
         \/ \E i \in DOMAIN Chain : Drops(i)
         \/ \E c \in Contexts : Starts(c)
  <1>0. /\ mailbox \in MailboxType /\ owner.batch \in Seq(Payloads) /\ HeldKept
        /\ UNCHANGED <<target, thread>>
    BY FieldTypes, OwnerStepsKeepThreads DEF HeldKept
  <1> DEFINE p == Head(owner.batch)
  <1>p. ASSUME owner.batch # <<>>
        PROVE  p \in Payloads /\ payload[p].tag \in Sender
    <2>1. p \in Payloads /\ 1 \in DOMAIN owner.batch /\ p = owner.batch[1]
      BY <1>0, <1>p
    <2>2. payload[p].tag # None
      BY <2>1 DEF WellFormed, QueuedWerePosted
    <2> QED
      BY <2>1, <2>2, FieldTypes
  <1>1. CASE HostWakes
    BY <1>0, <1>1, ChainKept DEF HostWakes, Rests, Stays, SamePlaces, HandlesKept
  <1>2. CASE DrainBegin
    <2>1. owner.dying = <<>> /\ owner.batch = <<>>
      BY <1>2 DEF DrainBegin, AtHostBoundary, OwnerFree, CallsWellFormed, DisposeOps
    <2>2. /\ mailbox'.queue = <<>> /\ mailbox'.handle = mailbox.handle
          /\ UNCHANGED <<payload, refs>>
      BY <1>0, <1>2 DEF DrainBegin, QueueTaken, MailboxType
    <2>3. /\ owner'.batch = mailbox.queue /\ owner'.dying = owner.dying
          /\ owner'.inline = owner.inline /\ owner'.running = owner.running
      BY <1>2, OwnerEffects DEF DrainBegin
    <2>4. Chain' = Chain
      BY <2>1, <2>2, <2>3, ChainMoves DEF Chain
    <2> QED
      BY <1>0, <2>2, <2>3, <2>4 DEF Rests, Stays, SamePlaces, HandlesKept
  <1>3. CASE DrainInvoke
    <2>1. /\ owner.batch # <<>> /\ owner.running = None /\ NodeDeliverable(p)
          /\ owner' = [owner EXCEPT !.running = p, !.batch = Tail(owner.batch)]
          /\ UNCHANGED <<mailbox, refs>>
      BY <1>3 DEF DrainInvoke, InDrainLoop
    <2>2. p \in Payloads /\ payload[p].tag \in Sender
      BY <1>p, <2>1
    <2> DEFINE c == target[payload[p].tag.target].context
    <2>3. c \in Contexts
      <3>1. Fresh(payload[p].tag) /\ Current(payload[p].tag)
        BY <2>1, <2>2, NoneIsNothing DEF SendersFresh, NodeDeliverable
      <3> QED
        BY <2>2, <3>1 DEF Fresh, Sender
    <2>4. Becomes(p, payload[p].tag, c, payload[p].destroyed)
      <3>1. payload' = [payload EXCEPT ![p].ran = c]
        BY <1>3 DEF DrainInvoke
      <3> HIDE DEF p, c
      <3> QED
        BY <2>2, <3>1, PayloadEffects
    <2>5. Chain # <<>> /\ Head(Chain) = p
      BY <2>1, ChainMoves
    <2>6. Chain' = Tail(Chain) /\ owner'.running = p /\ owner'.inline = owner.inline
      <3>1. /\ owner'.batch = Tail(owner.batch) /\ owner'.dying = owner.dying
            /\ owner'.inline = owner.inline /\ owner'.running = p
        BY <2>1, OwnerEffects
      <3> QED
        BY <2>1, <3>1, ChainMoves DEF Chain
    <2>7. HandlesKept
      BY <1>0, <2>1 DEF HandlesKept
    <2> HIDE DEF p, c
    <2>8. Starts(c)
      BY <1>0, <2>1, <2>4, <2>5, <2>6, <2>7 DEF Starts
    <2> QED
      BY <2>3, <2>8
  <1>4. CASE DrainCancel
    <2>1. /\ owner.batch # <<>> /\ ~NodeDeliverable(p) /\ Dispose(p)
          /\ ReleaseTarget(payload[p].tag.target)
          /\ owner' = [owner EXCEPT !.batch = Tail(owner.batch)]
          /\ UNCHANGED mailbox
      BY <1>4 DEF DrainCancel
    <2>2. Destroyed(p)
      BY <1>p, <2>1, PayloadEffects
    <2>3. Chain # <<>> /\ Head(Chain) = p /\ Chain \in Seq(Payloads)
      BY <2>1, ChainMoves, ChainParts
    <2>4. 1 \in DOMAIN Chain /\ Chain[1] = p /\ RemoveAt(Chain, 1) = Tail(Chain)
      BY <2>3, FirstRemoved
    <2>5. Chain' = Tail(Chain) /\ owner'.inline = owner.inline
          /\ owner'.running = owner.running
      <3>1. /\ owner'.batch = Tail(owner.batch) /\ owner'.dying = owner.dying
            /\ owner'.inline = owner.inline /\ owner'.running = owner.running
        BY <2>1, OwnerEffects
      <3> QED
        BY <2>1, <3>1, ChainMoves DEF Chain
    <2>6. HandlesKept
      BY <1>0, <2>1 DEF HandlesKept
    <2> HIDE DEF p
    <2>7. Drops(1)
      BY <1>0, <2>1, <2>2, <2>4, <2>5, <2>6 DEF Drops
    <2> QED
      BY <2>4, <2>7
  <1>5. CASE DrainReturn
    <2>1. /\ owner.running \in Payloads /\ Dispose(owner.running)
          /\ ReleaseTarget(payload[owner.running].tag.target)
          /\ owner' = [owner EXCEPT !.running = None] /\ UNCHANGED mailbox
      BY <1>5, FieldTypes DEF DrainReturn
    <2>2. Destroyed(owner.running)
      BY <2>1, PayloadEffects
    <2>3. /\ owner'.batch = owner.batch /\ owner'.dying = owner.dying
          /\ owner'.inline = owner.inline /\ owner'.running = None
      BY <2>1, OwnerEffects
    <2> QED
      BY <1>0, <2>1, <2>2, <2>3, ChainKept DEF Returns, HandlesKept
  <1>6. CASE DrainEnd
    <2>1. /\ owner'.batch = owner.batch /\ owner'.dying = owner.dying
          /\ owner'.inline = owner.inline /\ owner'.running = owner.running
      BY <1>6, OwnerEffects DEF DrainEnd
    <2>2. UNCHANGED <<mailbox, payload, refs>>
      BY <1>6 DEF DrainEnd
    <2> QED
      BY <1>0, <2>1, <2>2, ChainKept DEF Rests, Stays, SamePlaces, HandlesKept
  <1> QED
    BY <1>1, <1>2, <1>3, <1>4, <1>5, <1>6 DEF Drain

\* The owner hands a payload to itself.
LEMMA DeliverFlow ==
  ASSUME TypeOK, WellFormed, SendersFresh, NEW p \in Payloads, DeliverRefused(p) \/ DeliverInvoke(p)
  PROVE  Refuses(p) \/ \E s \in Sender, c \in Contexts : StartsNow(p, s, c)
  <1> DEFINE s == thread[Owner].sender
             c == target[s.target].context
  <1>0. payload[p].tag = None /\ s \in Sender
    BY FieldTypes, OwnerIsAThread DEF DeliverRefused, DeliverInvoke, CanDeliver, CanPost
  <1>1. CASE DeliverRefused(p)
    <2>1. SamePlaces /\ HeldKept /\ HandlesKept /\ UNCHANGED refs
      BY <1>1 DEF DeliverRefused, SamePlaces, Chain, HeldKept, HandlesKept
    <2>2. Becomes(p, s, payload[p].ran, payload[p].destroyed + 1)
      BY <1>1, PayloadEffects DEF DeliverRefused
    <2> HIDE DEF s
    <2> QED
      BY <1>0, <2>1, <2>2 DEF Refuses
  <1>2. CASE DeliverInvoke(p)
    <2>1. /\ Current(s) /\ RetainTarget(s.target) /\ UNCHANGED <<mailbox, target, thread>>
          /\ owner' = [owner EXCEPT !.inline = Append(owner.inline, p)]
          /\ payload' = [payload EXCEPT ![p].tag = s, ![p].ran = c]
      BY <1>2 DEF DeliverInvoke
    <2>2. c \in Contexts
      <3>1. Fresh(s)
        BY <1>0, NoneIsNothing, OwnerIsAThread DEF SendersFresh
      <3> QED
        BY <1>0, <2>1, <3>1 DEF Fresh, Sender
    <2>3. Becomes(p, s, c, payload[p].destroyed)
      <3> HIDE DEF s, c
      <3> QED
        BY <2>1, PayloadEffects
    <2>4. /\ owner'.batch = owner.batch /\ owner'.dying = owner.dying
          /\ owner'.inline = Append(owner.inline, p) /\ owner'.running = owner.running
      BY <2>1, OwnerEffects
    <2>5. HeldKept /\ HandlesKept /\ Chain' = Chain
      BY <2>1, <2>4, ChainKept DEF HeldKept, HandlesKept
    <2>6. s = thread[Owner].sender
      OBVIOUS
    <2> HIDE DEF s, c
    <2>7. StartsNow(p, s, c)
      BY <1>0, <2>1, <2>3, <2>4, <2>5, <2>6 DEF StartsNow
    <2> QED
      BY <1>0, <2>2, <2>7
  <1> QED
    BY <1>1, <1>2

LEMMA DeliverReturnFlow ==
  ASSUME TypeOK, DeliverReturn
  PROVE  ReturnsNow
  <1> DEFINE p == Last(owner.inline)
  <1>1. p \in Payloads
    BY FieldTypes DEF DeliverReturn, Last
  <1>2. /\ owner.inline # <<>> /\ Dispose(p) /\ ReleaseTarget(payload[p].tag.target)
        /\ owner' = [owner EXCEPT !.inline = Front(owner.inline)]
        /\ UNCHANGED <<mailbox, target, thread>>
    BY DEF DeliverReturn
  <1>3. Destroyed(p)
    BY <1>1, <1>2, PayloadEffects
  <1>4. /\ owner'.batch = owner.batch /\ owner'.dying = owner.dying
        /\ owner'.inline = Front(owner.inline) /\ owner'.running = owner.running
    BY <1>2, OwnerEffects
  <1>5. HeldKept /\ HandlesKept /\ Chain' = Chain
    BY <1>2, <1>4, ChainKept DEF HeldKept, HandlesKept
  <1> HIDE DEF p
  <1>6. ReturnsNow <=>
          /\ owner.inline # <<>> /\ owner'.inline = Front(owner.inline)
          /\ Destroyed(p) /\ Chain' = Chain /\ owner'.running = owner.running
          /\ HeldKept /\ HandlesKept /\ ReleaseTarget(payload[p].tag.target)
    BY DEF ReturnsNow, p
  <1> QED
    BY <1>2, <1>3, <1>4, <1>5, <1>6

\* A Sender is acquired, copied or released.
LEMMA SenderFlow ==
  ASSUME TypeOK, WellFormed, NEW th \in Threads,
         \/ \E t \in Targets : AcquireSender(th, t)
         \/ \E to \in Threads : RetainSender(th, to)
         \/ ReleaseSender(th)
  PROVE  HandleMoves
  <1>1. HeldKept /\ UNCHANGED <<mailbox, target, owner, payload>>
    BY SenderStepsKeepProducers DEF WellFormed, HeldKept
  <1>2. Stays /\ TargetHandlesKept /\ mailbox'.handle = mailbox.handle
    BY <1>1, ChainKept DEF Stays, SamePlaces, TargetHandlesKept
  <1>3. ASSUME NEW t \in Targets, AcquireSender(th, t)
        PROVE  NewSender(th, t)
    <2> DEFINE s == [target |-> t, generation |-> target[t].generation,
                     context |-> target[t].context]
    <2>1. /\ thread' = [thread EXCEPT ![th].sender = s] /\ thread[th].sender = None
          /\ target[t].handle = "open" /\ RetainTarget(t)
      BY <1>3 DEF AcquireSender
    <2>2. s \in Sender /\ s.target = t
      BY <1>3, FieldTypes DEF AcquireSender, WellFormed, OpenTargetsHaveContext, Sender
    <2> HIDE DEF s
    <2>3. thread'[th].sender = s /\ \A y \in Threads \ {th} : thread'[y].sender = thread[y].sender
      BY <2>1, SenderChanged
    <2> QED
      BY <1>2, <2>1, <2>2, <2>3, NoneIsNothing DEF NewSender
  <1>4. ASSUME NEW to \in Threads, RetainSender(th, to)
        PROVE  NewSender(to, thread[th].sender.target) /\ thread[th].sender.target \in Targets
    <2> DEFINE s == thread[th].sender
    <2>1. /\ thread' = [thread EXCEPT ![to].sender = s] /\ thread[to].sender = None
          /\ s # None /\ RetainTarget(s.target)
      BY <1>4 DEF RetainSender
    <2>2. s \in Sender /\ s.target \in Targets
      BY <2>1, FieldTypes DEF Sender
    <2>3. SenderHolders(s.target) # {}
      BY <2>1 DEF SenderHolders
    <2> HIDE DEF s
    <2>4. thread'[to].sender = s /\ \A y \in Threads \ {to} : thread'[y].sender = thread[y].sender
      BY <2>1, SenderChanged
    <2>5. NewSender(to, s.target)
      BY <1>2, <2>1, <2>2, <2>3, <2>4 DEF NewSender
    <2> QED
      BY <2>2, <2>5 DEF s
  <1>5. CASE ReleaseSender(th)
    <2>1. /\ thread' = [thread EXCEPT ![th].sender = None] /\ thread[th].sender # None
          /\ ReleaseTarget(thread[th].sender.target)
      BY <1>5 DEF ReleaseSender
    <2>2. thread'[th].sender = None /\ \A y \in Threads \ {th} : thread'[y].sender = thread[y].sender
      BY <2>1, SenderChanged
    <2> QED
      BY <1>2, <2>1, <2>2 DEF LostSender, HandleMoves
  <1> QED
    BY <1>3, <1>4, <1>5 DEF HandleMoves

\* A call on a target moves no payload; two of them move its handle.
LEMMA TargetFlow ==
  ASSUME TypeOK, WellFormed, CallsWellFormed, TargetLifecycle
  PROVE  Rests \/ HandleMoves
  <1>0. /\ target \in [Targets -> TargetType] /\ UNCHANGED <<mailbox, thread, payload>>
        /\ HeldKept /\ SendersKept
    BY FieldTypes, LifecycleKeepsThreads DEF HeldKept, SendersKept
  <1>1. Stays
    <2>1. owner'.dying = owner.dying /\ owner'.inline = owner.inline /\ DrainKept
      <3>1. UNCHANGED owner \/ \E n, t, c : BeginOp(n, t, c)
        BY DEF TargetLifecycle, CreateTarget, Renew, Invalidate, AdvanceGeneration, CloseTarget,
           FinishTargetOp, EndOp
      <3> QED
        BY <3>1, BeginOpKeeps DEF DrainKept
    <2> QED
      BY <1>0, <2>1, ChainKept DEF Stays, SamePlaces, DrainKept
  <1>2. ASSUME NEW t \in Targets, NEW c \in Contexts, CreateTarget(t, c)
        PROVE  NewTarget(t)
    <2>1. \A u \in Targets : target'[u].handle = IF u = t THEN "open" ELSE target[u].handle
      BY <1>0, <1>2 DEF CreateTarget, TargetType
    <2> QED
      BY <1>0, <1>1, <1>2, <2>1 DEF CreateTarget, NewTarget
  <1>3. ASSUME NEW t \in Targets, NEW name, NEW c, AdvanceGeneration(t, name, c)
        PROVE  Rests
    <2>1. TargetHandlesKept
      BY <1>0, <1>3 DEF AdvanceGeneration, GenerationAdvanced, TargetType, TargetHandlesKept
    <2> QED
      BY <1>0, <1>1, <1>3, <2>1
      DEF AdvanceGeneration, Rests, HandlesKept, SendersKept, TargetHandlesKept
  <1>4. ASSUME NEW t \in Targets, NEW name, CloseTarget(t, name)
        PROVE  Rests
    <2>1. PICK n : target' = [target EXCEPT ![t].closed = TRUE, ![t].generation = n]
      BY <1>4 DEF CloseTarget, MarkedClosed
    <2>2. TargetHandlesKept
      BY <1>0, <2>1 DEF TargetType, TargetHandlesKept
    <2> QED
      BY <1>0, <1>1, <1>4, <2>2
      DEF CloseTarget, Rests, HandlesKept, SendersKept, TargetHandlesKept
  <1>5. CASE FinishTargetOp
    <2> DEFINE t == owner.target
               c == IF owner.op = "invalidate" THEN target[t].context ELSE owner.context
               h == IF owner.op = "deinitTarget" THEN "gone" ELSE target[t].handle
    <2>1. target' = [target EXCEPT ![t].context = c, ![t].handle = h]
      BY <1>5 DEF FinishTargetOp
    <2>2. \A u \in Targets : target'[u].handle = IF u = t THEN h ELSE target[u].handle
      <3> HIDE DEF c, h, t
      <3> QED
        BY <1>0, <2>1 DEF TargetType
    <2>3. t \in Targets /\ target[t].handle = "open"
      BY <1>5, FieldTypes DEF FinishTargetOp, CallsWellFormed, WellFormed, OwnerWellFormed
    <2>4. CASE owner.op = "deinitTarget"
      <3>1. ReleaseTarget(t)
        BY <1>5, <2>4 DEF FinishTargetOp
      <3>2. LostTarget(t)
        BY <1>0, <1>1, <2>2, <2>3, <2>4, <3>1 DEF LostTarget
      <3> QED
        BY <2>3, <3>2 DEF HandleMoves
    <2>5. CASE owner.op # "deinitTarget"
      <3>1. UNCHANGED refs
        BY <1>5, <2>5 DEF FinishTargetOp
      <3> QED
        BY <1>0, <1>1, <2>2, <2>5, <3>1 DEF Rests, HandlesKept, SendersKept
    <2> QED
      BY <2>4, <2>5
  <1> QED
    BY <1>2, <1>3, <1>4, <1>5 DEF TargetLifecycle, Renew, Invalidate, HandleMoves

\* Every step is one of these.
LEMMA StepFlow ==
  ASSUME TypeOK, WellFormed, CallsWellFormed, HeldAreTheirs, SendersFresh, [Next]_vars
  PROVE  \/ Rests \/ HandleMoves
         \/ \E p \in Payloads : \/ Refuses(p) \/ \E th \in Threads : Offers(th, p)
                               \/ \E s \in Sender, c \in Contexts : StartsNow(p, s, c)
         \/ \E th \in Threads : GivesUp(th) \/ Appends(th)
         \/ \E i \in DOMAIN Chain : Drops(i)
         \/ \E c \in Contexts : Starts(c)
         \/ Returns \/ ReturnsNow
  <1>1. CASE Sleep
    <2>1. /\ owner'.batch = owner.batch /\ owner'.dying = owner.dying
          /\ owner'.inline = owner.inline /\ owner'.running = owner.running
      BY <1>1, OwnerEffects DEF Sleep
    <2> QED
      BY <1>1, <2>1, ChainKept DEF Sleep, Rests, Stays, SamePlaces, HeldKept, HandlesKept
  <1>2. CASE UNCHANGED vars
    BY <1>2, ChainKept DEF vars, Rests, Stays, SamePlaces, HeldKept, HandlesKept
  <1>3. CASE MailboxLifecycle
    BY <1>3, MailboxFlow DEF HandleMoves
  <1> QED
    BY <1>1, <1>2, <1>3, PostFlow, OfferFlow, SenderFlow, TargetFlow, DrainFlow, DeliverFlow,
       DeliverReturnFlow DEF Next

-----------------------------------------------------------------------------
(* A payload is in one place.                                              *)

LEMMA PlacedInit == Init => CallsWellFormed /\ HeldAreTheirs /\ PlacedOnce
  <1> SUFFICES ASSUME Init PROVE CallsWellFormed /\ HeldAreTheirs /\ PlacedOnce
    OBVIOUS
  <1>1. Chain = <<>> /\ owner.inline = <<>>
    BY DEF Init, Chain
  <1>2. NoRepeats(Chain) /\ NoRepeats(owner.inline)
        /\ \A p : ~Contains(Chain, p) /\ ~Contains(owner.inline, p)
    BY <1>1 DEF NoRepeats, Contains
  <1>3. \A th \in Threads : thread[th].held = None
    BY DEF Init
  <1>4. owner.running = None
    BY DEF Init
  <1>5. CallsWellFormed
    BY DEF Init, CallsWellFormed, TargetOps, MailboxOps, DisposeOps
  <1>6. \A p \in Payloads : Placed(p)
    <2> SUFFICES ASSUME NEW p \in Payloads PROVE Placed(p)
      OBVIOUS
    <2>1. payload[p].tag = None /\ payload[p].ran = None /\ payload[p].destroyed = 0
      BY DEF Init
    <2> QED
      BY <1>2, <1>3, <1>4, <2>1, NoneIsNothing DEF Placed, InChain, InInline, IsHeld, Live
  <1> QED
    BY <1>2, <1>3, <1>5, <1>6 DEF HeldAreTheirs, PlacedOnce, HeldOnce

\* A payload that no step is about stays where it is.
LEMMA PlacedKept ==
  ASSUME NEW p \in Payloads, Placed(p),
         InChain(p)' <=> InChain(p), InInline(p)' <=> InInline(p), IsHeld(p)' <=> IsHeld(p),
         owner'.running = p <=> owner.running = p,
         payload'[p].tag = payload[p].tag, payload'[p].ran = payload[p].ran,
         payload'[p].destroyed = payload[p].destroyed
  PROVE  Placed(p)'
  BY DEF Placed, Live

LEMMA SamePlacesKept ==
  ASSUME SamePlaces, NEW p
  PROVE  /\ InChain(p)' <=> InChain(p)
         /\ InInline(p)' <=> InInline(p)
         /\ owner'.running = p <=> owner.running = p
  BY DEF SamePlaces, InChain, InInline

LEMMA HeldIsKept ==
  ASSUME HeldKept
  PROVE  /\ HeldOnce => HeldOnce'
         /\ \A p : IsHeld(p)' <=> IsHeld(p)
  BY DEF HeldKept, HeldOnce, IsHeld

LEMMA StaysPlaced ==
  ASSUME PlacedOnce, Stays
  PROVE  PlacedOnce'
  <1>1. SamePlaces /\ HeldKept /\ UNCHANGED payload
    BY DEF Stays
  <1>2. \A p \in Payloads : Placed(p)'
    BY <1>1, SamePlacesKept, HeldIsKept, PlacedKept DEF PlacedOnce
  <1> QED
    BY <1>1, <1>2, HeldIsKept DEF PlacedOnce, SamePlaces

\* A payload not yet posted is nowhere.
LEMMA NewIsNowhere ==
  ASSUME PlacedOnce, NEW p \in Payloads, payload[p].tag = None
  PROVE  /\ ~InChain(p) /\ ~InInline(p) /\ ~IsHeld(p) /\ owner.running # p
         /\ payload[p].destroyed = 0 /\ payload[p].ran = None
  BY DEF PlacedOnce, Placed, Live

LEMMA RefusesPlaced ==
  ASSUME PlacedOnce, NEW p \in Payloads, Refuses(p)
  PROVE  PlacedOnce'
  <1>1. SamePlaces /\ HeldKept /\ payload[p].tag = None
    BY DEF Refuses
  <1>2. PICK s \in Sender : Becomes(p, s, payload[p].ran, payload[p].destroyed + 1)
    BY DEF Refuses
  <1>3. Placed(p)'
    BY <1>1, <1>2, NewIsNowhere, SamePlacesKept, HeldIsKept, NoneIsNothing
    DEF Placed, Live, Becomes
  <1>4. \A q \in Payloads \ {p} : Placed(q)'
    BY <1>1, <1>2, SamePlacesKept, HeldIsKept, PlacedKept DEF PlacedOnce, Becomes
  <1> QED
    BY <1>1, <1>3, <1>4, HeldIsKept DEF PlacedOnce, SamePlaces

LEMMA OffersPlaced ==
  ASSUME PlacedOnce, NEW p \in Payloads, NEW th \in Threads, Offers(th, p)
  PROVE  PlacedOnce'
  <1>1. /\ SamePlaces /\ payload[p].tag = None /\ thread[th].held = None /\ thread'[th].held = p
        /\ \A x \in Threads \ {th} : thread'[x].held = thread[x].held
    BY DEF Offers
  <1>2. PICK s \in Sender : Becomes(p, s, payload[p].ran, payload[p].destroyed)
    BY DEF Offers
  <1>3. /\ ~InChain(p) /\ ~InInline(p) /\ ~IsHeld(p) /\ owner.running # p
        /\ payload[p].destroyed = 0 /\ payload[p].ran = None
    BY <1>1, NewIsNowhere
  <1>4. IsHeld(p)' /\ \A q \in Payloads \ {p} : IsHeld(q)' <=> IsHeld(q)
    BY <1>1, NoneIsNothing DEF IsHeld
  <1>5. HeldOnce'
    BY <1>1, <1>3 DEF HeldOnce, IsHeld, PlacedOnce
  <1>6. Placed(p)'
    BY <1>1, <1>2, <1>3, <1>4, SamePlacesKept, NoneIsNothing DEF Placed, Live, Becomes
  <1>7. \A q \in Payloads \ {p} : Placed(q)'
    BY <1>1, <1>2, <1>4, SamePlacesKept, PlacedKept DEF PlacedOnce, Becomes
  <1> QED
    BY <1>1, <1>5, <1>6, <1>7 DEF PlacedOnce, SamePlaces

\* Only one thread holds the payload it lets go of.
LEMMA LetsGoPlaced ==
  ASSUME HeldOnce, NEW th \in Threads, LetsGo(th), NEW p, p = thread[th].held
  PROVE  /\ p \in Payloads /\ HeldOnce' /\ IsHeld(p) /\ ~IsHeld(p)'
         /\ \A q \in Payloads \ {p} : IsHeld(q)' <=> IsHeld(q)
  <1>1. /\ p \in Payloads /\ p # None /\ thread[th].held = p /\ thread'[th].held = None
        /\ \A x \in Threads \ {th} : thread'[x].held = thread[x].held
    BY NoneIsNothing DEF LetsGo
  <1>2. HeldOnce'
    BY <1>1 DEF HeldOnce
  <1>3. IsHeld(p)
    BY DEF IsHeld
  <1>4. ~IsHeld(p)'
    <2> SUFFICES ASSUME NEW x \in Threads, thread'[x].held = p PROVE FALSE
      BY DEF IsHeld
    <2>1. x # th /\ thread[x].held = p
      BY <1>1
    <2> QED
      BY <1>1, <2>1 DEF HeldOnce
  <1>5. \A q \in Payloads \ {p} : IsHeld(q)' <=> IsHeld(q)
    BY <1>1, NoneIsNothing DEF IsHeld
  <1> QED
    BY <1>1, <1>2, <1>3, <1>4, <1>5

LEMMA GivesUpPlaced ==
  ASSUME PlacedOnce, NEW th \in Threads, GivesUp(th)
  PROVE  PlacedOnce'
  <1>p. PICK p : p = thread[th].held
    OBVIOUS
  <1>1. SamePlaces /\ LetsGo(th) /\ Destroyed(p)
    BY <1>p DEF GivesUp
  <1>2. /\ p \in Payloads /\ HeldOnce' /\ IsHeld(p) /\ ~IsHeld(p)'
        /\ \A q \in Payloads \ {p} : IsHeld(q)' <=> IsHeld(q)
    BY <1>1, <1>p, LetsGoPlaced DEF PlacedOnce
  <1>3. Placed(p)'
    BY <1>1, <1>2, SamePlacesKept DEF PlacedOnce, Placed, Live, Destroyed, Becomes
  <1>4. \A q \in Payloads \ {p} : Placed(q)'
    BY <1>1, <1>2, SamePlacesKept, PlacedKept DEF PlacedOnce, Destroyed, Becomes
  <1> QED
    BY <1>1, <1>2, <1>3, <1>4 DEF PlacedOnce, SamePlaces

LEMMA AppendsPlaced ==
  ASSUME TypeOK, PlacedOnce, NEW th \in Threads, Appends(th)
  PROVE  PlacedOnce'
  <1>p. PICK p : p = thread[th].held
    OBVIOUS
  <1>1. /\ LetsGo(th) /\ UNCHANGED payload /\ Chain' = Append(Chain, p)
        /\ owner'.inline = owner.inline /\ owner'.running = owner.running
    BY <1>p DEF Appends
  <1>2. /\ p \in Payloads /\ HeldOnce' /\ IsHeld(p) /\ ~IsHeld(p)'
        /\ \A q \in Payloads \ {p} : IsHeld(q)' <=> IsHeld(q)
    BY <1>1, <1>p, LetsGoPlaced DEF PlacedOnce
  <1>3. Placed(p) /\ ~InChain(p)
    BY <1>2 DEF PlacedOnce, Placed
  <1>4. NoRepeats(Chain') /\ \A q : Contains(Chain', q) <=> Contains(Chain, q) \/ q = p
    <2>1. Chain \in Seq(Payloads)
      BY ChainParts
    <2>2. NoRepeats(Chain) /\ ~Contains(Chain, p)
      BY <1>3 DEF PlacedOnce, InChain
    <2> DEFINE c == Chain
    <2>3. c \in Seq(Payloads) /\ NoRepeats(c) /\ ~Contains(c, p) /\ Chain' = Append(c, p)
      BY <1>1, <2>1, <2>2
    <2> HIDE DEF c
    <2>4. NoRepeats(Chain') /\ \A q : Contains(Chain', q) <=> Contains(c, q) \/ q = p
      BY <1>2, <2>3, AppendPlaces
    <2> QED
      BY <2>4 DEF c
  <1>5. \A q : /\ InChain(q)' <=> InChain(q) \/ q = p
               /\ InInline(q)' <=> InInline(q)
    BY <1>1, <1>4 DEF InChain, InInline
  <1>6. Placed(p)'
    BY <1>1, <1>2, <1>3, <1>5 DEF Placed, Live
  <1>7. \A q \in Payloads \ {p} : Placed(q)'
    BY <1>1, <1>2, <1>5, PlacedKept DEF PlacedOnce
  <1> QED
    BY <1>1, <1>2, <1>4, <1>6, <1>7 DEF PlacedOnce

\* What leaves the chain.
LEMMA ChainLosesOne ==
  ASSUME TypeOK, NoRepeats(Chain), NEW i \in DOMAIN Chain, Chain' = RemoveAt(Chain, i)
  PROVE  /\ Chain[i] \in Payloads /\ InChain(Chain[i]) /\ NoRepeats(Chain')
         /\ \A q : InChain(q)' <=> InChain(q) /\ q # Chain[i]
  <1>1. Chain \in Seq(Payloads)
    BY ChainParts
  <1> DEFINE c == Chain
  <1>2. c \in Seq(Payloads) /\ NoRepeats(c) /\ i \in DOMAIN c /\ Chain' = RemoveAt(c, i)
    BY <1>1
  <1> HIDE DEF c
  <1>3. NoRepeats(Chain') /\ \A q : Contains(Chain', q) <=> Contains(c, q) /\ q # c[i]
    BY <1>2, RemovePlaces
  <1>4. c[i] \in Payloads /\ Contains(c, c[i])
    BY <1>2 DEF Contains
  <1> QED
    BY <1>3, <1>4 DEF c, InChain

LEMMA DropsPlaced ==
  ASSUME TypeOK, PlacedOnce, NEW i \in DOMAIN Chain, Drops(i)
  PROVE  PlacedOnce'
  <1>p. PICK p : p = Chain[i]
    OBVIOUS
  <1>1. /\ Destroyed(p) /\ Chain' = RemoveAt(Chain, i) /\ owner'.inline = owner.inline
        /\ owner'.running = owner.running /\ HeldKept
    BY <1>p DEF Drops
  <1>2. /\ p \in Payloads /\ InChain(p) /\ NoRepeats(Chain')
        /\ \A q : InChain(q)' <=> InChain(q) /\ q # p
    BY <1>p, <1>1, ChainLosesOne DEF PlacedOnce
  <1>3. \A q : /\ InInline(q)' <=> InInline(q)
               /\ IsHeld(q)' <=> IsHeld(q)
    BY <1>1, HeldIsKept DEF InInline
  <1>4. Placed(p)'
    BY <1>1, <1>2, <1>3 DEF PlacedOnce, Placed, Live, Destroyed, Becomes
  <1>5. \A q \in Payloads \ {p} : Placed(q)'
    BY <1>1, <1>2, <1>3, PlacedKept DEF PlacedOnce, Destroyed, Becomes
  <1> QED
    BY <1>1, <1>2, <1>4, <1>5, HeldIsKept DEF PlacedOnce

LEMMA StartsPlaced ==
  ASSUME TypeOK, PlacedOnce, NEW c \in Contexts, Starts(c)
  PROVE  PlacedOnce'
  <1>p. PICK p : p = Head(Chain)
    OBVIOUS
  <1>0. Chain # <<>> /\ Chain \in Seq(Payloads)
    BY ChainParts DEF Starts
  <1>1. 1 \in DOMAIN Chain /\ Chain[1] = p /\ RemoveAt(Chain, 1) = Tail(Chain)
    <2> DEFINE s == Chain
    <2>1. s \in Seq(Payloads) /\ s # <<>>
      BY <1>0
    <2> HIDE DEF s
    <2>2. 1 \in DOMAIN s /\ s[1] = Head(s) /\ RemoveAt(s, 1) = Tail(s)
      BY <2>1, FirstRemoved
    <2> QED
      BY <1>p, <2>2 DEF s
  <1>2. /\ Chain' = Tail(Chain) /\ owner'.running = p /\ owner.running = None
        /\ owner'.inline = owner.inline /\ HeldKept
        /\ Becomes(p, payload[p].tag, c, payload[p].destroyed)
    BY <1>p DEF Starts
  <1>3. /\ p \in Payloads /\ InChain(p) /\ NoRepeats(Chain')
        /\ \A q : InChain(q)' <=> InChain(q) /\ q # p
    BY <1>1, <1>2, ChainLosesOne DEF PlacedOnce
  <1>4. \A q : /\ InInline(q)' <=> InInline(q)
               /\ IsHeld(q)' <=> IsHeld(q)
    BY <1>2, HeldIsKept DEF InInline
  <1>5. Placed(p)'
    BY <1>2, <1>3, <1>4, NoneIsNothing DEF PlacedOnce, Placed, Live, Becomes
  <1>6. \A q \in Payloads \ {p} : Placed(q)'
    BY <1>2, <1>3, <1>4, PlacedKept, NoneIsNothing DEF PlacedOnce, Becomes
  <1> QED
    BY <1>2, <1>3, <1>5, <1>6, HeldIsKept DEF PlacedOnce

LEMMA ReturnsPlaced ==
  ASSUME PlacedOnce, Returns
  PROVE  PlacedOnce'
  <1>p. PICK p : p = owner.running
    OBVIOUS
  <1>1. /\ p \in Payloads /\ owner'.running = None /\ Destroyed(p) /\ Chain' = Chain
        /\ owner'.inline = owner.inline /\ HeldKept /\ owner.running = p
    BY <1>p DEF Returns
  <1>2. \A q : /\ InChain(q)' <=> InChain(q)
               /\ InInline(q)' <=> InInline(q)
               /\ IsHeld(q)' <=> IsHeld(q)
    BY <1>1, HeldIsKept DEF InInline, InChain
  <1>3. Placed(p)'
    BY <1>1, <1>2, NoneIsNothing DEF PlacedOnce, Placed, Live, Destroyed, Becomes
  <1>4. \A q \in Payloads \ {p} : Placed(q)'
    BY <1>1, <1>2, PlacedKept, NoneIsNothing DEF PlacedOnce, Destroyed, Becomes
  <1> QED
    BY <1>1, <1>3, <1>4, HeldIsKept DEF PlacedOnce

LEMMA StartsNowPlaced ==
  ASSUME TypeOK, PlacedOnce, NEW p \in Payloads, NEW s \in Sender, NEW c \in Contexts,
         StartsNow(p, s, c)
  PROVE  PlacedOnce'
  <1>1. /\ payload[p].tag = None /\ Becomes(p, s, c, payload[p].destroyed)
        /\ owner'.inline = Append(owner.inline, p) /\ Chain' = Chain
        /\ owner'.running = owner.running /\ HeldKept
    BY DEF StartsNow
  <1>2. /\ ~InChain(p) /\ ~InInline(p) /\ ~IsHeld(p) /\ owner.running # p
        /\ payload[p].destroyed = 0 /\ payload[p].ran = None
    BY <1>1, NewIsNowhere
  <1>3. /\ NoRepeats(owner'.inline)
        /\ \A q : Contains(owner'.inline, q) <=> Contains(owner.inline, q) \/ q = p
    <2>1. owner.inline \in Seq(Payloads) /\ NoRepeats(owner.inline) /\ ~Contains(owner.inline, p)
      BY <1>2, FieldTypes DEF PlacedOnce, InInline
    <2> QED
      BY <1>1, <2>1, AppendPlaces
  <1>4. \A q : /\ InChain(q)' <=> InChain(q)
               /\ InInline(q)' <=> InInline(q) \/ q = p
               /\ IsHeld(q)' <=> IsHeld(q)
    BY <1>1, <1>3, HeldIsKept DEF InInline, InChain
  <1>5. Placed(p)'
    BY <1>1, <1>2, <1>4, NoneIsNothing DEF Placed, Live, Becomes
  <1>6. \A q \in Payloads \ {p} : Placed(q)'
    BY <1>1, <1>4, PlacedKept DEF PlacedOnce, Becomes
  <1> QED
    BY <1>1, <1>3, <1>5, <1>6, HeldIsKept DEF PlacedOnce

LEMMA ReturnsNowPlaced ==
  ASSUME TypeOK, PlacedOnce, ReturnsNow
  PROVE  PlacedOnce'
  <1>p. PICK p : p = Last(owner.inline)
    OBVIOUS
  <1> DEFINE s == owner.inline
  <1>0. s \in Seq(Payloads) /\ s # <<>> /\ NoRepeats(s)
    BY FieldTypes DEF ReturnsNow, PlacedOnce
  <1>1. /\ owner'.inline = Front(s) /\ Destroyed(p)
        /\ Chain' = Chain /\ owner'.running = owner.running /\ HeldKept
    BY <1>p DEF ReturnsNow
  <1>2. /\ \A q : InInline(q) <=> Contains(s, q)
        /\ \A q : InInline(q)' <=> Contains(owner'.inline, q)
        /\ p = Last(s)
    BY <1>p DEF InInline
  <1> HIDE DEF s
  <1>3. Len(s) \in DOMAIN s /\ s[Len(s)] = p /\ RemoveAt(s, Len(s)) = Front(s)
    BY <1>0, <1>2, LastRemoved
  <1>4. /\ NoRepeats(owner'.inline)
        /\ \A q : Contains(owner'.inline, q) <=> Contains(s, q) /\ q # p
    BY <1>0, <1>1, <1>3, RemovePlaces
  <1>5. p \in Payloads /\ Contains(s, p)
    BY <1>0, <1>3 DEF Contains
  <1>6. \A q : /\ InChain(q)' <=> InChain(q)
               /\ InInline(q)' <=> InInline(q) /\ q # p
               /\ IsHeld(q)' <=> IsHeld(q)
    BY <1>1, <1>2, <1>4, HeldIsKept DEF InChain
  <1>7. Placed(p)'
    BY <1>1, <1>2, <1>5, <1>6 DEF PlacedOnce, Placed, Live, Destroyed, Becomes
  <1>8. \A q \in Payloads \ {p} : Placed(q)'
    BY <1>1, <1>6, PlacedKept DEF PlacedOnce, Destroyed, Becomes
  <1> QED
    BY <1>1, <1>4, <1>7, <1>8, HeldIsKept DEF PlacedOnce

LEMMA PlacedOnceStep ==
  ASSUME TypeOK, WellFormed, CallsWellFormed, HeldAreTheirs, SendersFresh, PlacedOnce,
         [Next]_vars
  PROVE  PlacedOnce'
  <1>1. CASE Rests \/ HandleMoves
    <2>1. Stays
      BY <1>1 DEF Rests, HandleMoves, NewSender, LostSender, NewTarget, LostTarget, LostMailbox
    <2> QED
      BY <2>1, StaysPlaced
  <1> QED
    BY <1>1, StepFlow, RefusesPlaced, OffersPlaced, StartsNowPlaced, GivesUpPlaced,
       AppendsPlaced, DropsPlaced, StartsPlaced, ReturnsPlaced, ReturnsNowPlaced

-----------------------------------------------------------------------------
(* One owner until the destroy.                                            *)

\* An element of a row without repetitions is in one of the three, once.
LEMMA IndicesInARow ==
  ASSUME NEW S, NEW b \in Seq(S), NEW d \in Seq(S), NEW q \in Seq(S), NEW x,
         NEW s, InARow(s, b, d, q), NoRepeats(s)
  PROVE  /\ \A i, j \in Indices(b, x) : i = j
         /\ \A i, j \in Indices(d, x) : i = j
         /\ \A i, j \in Indices(q, x) : i = j
         /\ Indices(b, x) # {} => Indices(d, x) = {} /\ Indices(q, x) = {}
         /\ Indices(d, x) # {} => Indices(q, x) = {}
         /\ Contains(s, x)
               <=> Indices(b, x) # {} \/ Indices(d, x) # {} \/ Indices(q, x) # {}
  <1>1. /\ Len(s) = Len(b) + Len(d) + Len(q)
        /\ \A i \in 1..Len(b) : s[i] = b[i]
        /\ \A i \in 1..Len(d) : s[Len(b) + i] = d[i]
        /\ \A i \in 1..Len(q) : s[Len(b) + Len(d) + i] = q[i]
    BY DEF InARow
  <1>2. Len(b) \in Nat /\ Len(d) \in Nat /\ Len(q) \in Nat
    OBVIOUS
  <1>5. /\ DOMAIN s = 1..(Len(b) + Len(d) + Len(q)) /\ DOMAIN b = 1..Len(b)
        /\ DOMAIN d = 1..Len(d) /\ DOMAIN q = 1..Len(q)
    BY DEF InARow
  <1>6. /\ \A i \in Indices(b, x) : i \in 1..Len(b) /\ i \in DOMAIN s /\ s[i] = x
        /\ \A i \in Indices(d, x) :
              i \in 1..Len(d) /\ Len(b) + i \in DOMAIN s /\ s[Len(b) + i] = x
        /\ \A i \in Indices(q, x) :
              i \in 1..Len(q) /\ Len(b) + Len(d) + i \in DOMAIN s /\ s[Len(b) + Len(d) + i] = x
    <2>1. /\ \A i \in 1..Len(b) : i \in DOMAIN s
          /\ \A i \in 1..Len(d) : Len(b) + i \in DOMAIN s
          /\ \A i \in 1..Len(q) : Len(b) + Len(d) + i \in DOMAIN s
      BY <1>2, <1>5
    <2> QED
      BY <1>1, <1>5, <2>1 DEF Indices
  <1>3. ASSUME NEW i \in DOMAIN s, s[i] = x
        PROVE  Indices(b, x) # {} \/ Indices(d, x) # {} \/ Indices(q, x) # {}
    <2>0. i \in 1..(Len(b) + Len(d) + Len(q))
      BY <1>5
    <2>1. CASE i <= Len(b)
      <3>1. i \in 1..Len(b)
        BY <1>2, <2>0, <2>1
      <3> QED
        BY <1>1, <1>3, <1>5, <3>1 DEF Indices
    <2>2. CASE Len(b) < i /\ i <= Len(b) + Len(d)
      <3>1. i - Len(b) \in 1..Len(d) /\ i = Len(b) + (i - Len(b))
        BY <1>2, <2>0, <2>2
      <3>2. d[i - Len(b)] = x
        BY <1>1, <1>3, <3>1
      <3> QED
        BY <1>5, <3>1, <3>2 DEF Indices
    <2>3. CASE Len(b) + Len(d) < i
      <3>1. /\ i - (Len(b) + Len(d)) \in 1..Len(q)
            /\ i = Len(b) + Len(d) + (i - (Len(b) + Len(d)))
        BY <1>2, <2>0, <2>3
      <3>2. q[i - (Len(b) + Len(d))] = x
        BY <1>1, <1>3, <3>1
      <3> QED
        BY <1>5, <3>1, <3>2 DEF Indices
    <2> QED
      BY <1>2, <2>0, <2>1, <2>2, <2>3
  <1>4. Contains(s, x) <=> Indices(b, x) # {} \/ Indices(d, x) # {} \/ Indices(q, x) # {}
    <2>1. DOMAIN s = 1..Len(s)
      BY <1>1, <1>5
    <2>2. Contains(s, x) <=> \E i \in DOMAIN s : s[i] = x
      BY <2>1 DEF Contains
    <2> QED
      BY <1>3, <1>6, <2>2
  <1>7. \A m, n \in DOMAIN s : s[m] = x /\ s[n] = x => m = n
    BY DEF NoRepeats
  <1>8. \A i, j \in Indices(b, x) : i = j
    BY <1>6, <1>7
  <1>9. ASSUME NEW i \in Indices(d, x), NEW j \in Indices(d, x)
        PROVE  i = j
    <2>1. /\ i \in 1..Len(d) /\ Len(b) + i \in DOMAIN s /\ s[Len(b) + i] = x
          /\ j \in 1..Len(d) /\ Len(b) + j \in DOMAIN s /\ s[Len(b) + j] = x
      BY <1>6
    <2>2. Len(b) + i = Len(b) + j
      BY <1>7, <2>1
    <2> QED
      BY <1>2, <2>1, <2>2
  <1>10. ASSUME NEW i \in Indices(q, x), NEW j \in Indices(q, x)
         PROVE  i = j
    <2>1. /\ i \in 1..Len(q) /\ Len(b) + Len(d) + i \in DOMAIN s /\ s[Len(b) + Len(d) + i] = x
          /\ j \in 1..Len(q) /\ Len(b) + Len(d) + j \in DOMAIN s /\ s[Len(b) + Len(d) + j] = x
      BY <1>6
    <2>2. Len(b) + Len(d) + i = Len(b) + Len(d) + j
      BY <1>7, <2>1
    <2> QED
      BY <1>2, <2>1, <2>2
  <1>11. ASSUME NEW i \in Indices(b, x), NEW j \in Indices(d, x)
         PROVE  FALSE
    <2>1. i = Len(b) + j /\ i \in 1..Len(b) /\ j \in 1..Len(d)
      BY <1>6, <1>7
    <2> QED
      BY <1>2, <2>1
  <1>12. ASSUME NEW i \in Indices(b, x), NEW j \in Indices(q, x)
         PROVE  FALSE
    <2>1. i = Len(b) + Len(d) + j /\ i \in 1..Len(b) /\ j \in 1..Len(q)
      BY <1>6, <1>7
    <2> QED
      BY <1>2, <2>1
  <1>13. ASSUME NEW i \in Indices(d, x), NEW j \in Indices(q, x)
         PROVE  FALSE
    <2>1. Len(b) + i = Len(b) + Len(d) + j /\ i \in 1..Len(d) /\ j \in 1..Len(q)
      BY <1>6, <1>7
    <2> QED
      BY <1>2, <2>1
  <1> QED
    BY <1>4, <1>8, <1>9, <1>10, <1>11, <1>12, <1>13

\* The places of a payload, one by one.
LEMMA PlacesOf ==
  ASSUME NEW p
  PROVE  /\ \A x : x \in OwnerPlaces(p) <=>
               \/ \E i \in Indices(mailbox.queue, p) : x = <<"queue", i>>
               \/ \E i \in Indices(owner.batch, p) : x = <<"batch", i>>
               \/ \E i \in Indices(owner.dying, p) : x = <<"dying", i>>
               \/ \E i \in Indices(owner.inline, p) : x = <<"inline", i>>
               \/ owner.running = p /\ x = <<"running", 1>>
         /\ \A x : x \in Places(p) <=>
               \/ x \in OwnerPlaces(p)
               \/ \E th \in Threads : thread[th].held = p /\ x = <<"held", th>>
  BY DEF OwnerPlaces, Places

\* The owner has a payload that is in the chain, in a hand-off or running.
LEMMA OwnerHas ==
  ASSUME TypeOK, PlacedOnce, NEW p \in Payloads
  PROVE  /\ OwnerPlaces(p) # {} <=> InChain(p) \/ InInline(p) \/ owner.running = p
         /\ \A i, j \in Indices(owner.inline, p) : i = j
         /\ \A i, j \in Indices(owner.batch, p) : i = j
         /\ \A i, j \in Indices(owner.dying, p) : i = j
         /\ \A i, j \in Indices(mailbox.queue, p) : i = j
         /\ Indices(owner.batch, p) # {} =>
               Indices(owner.dying, p) = {} /\ Indices(mailbox.queue, p) = {}
         /\ Indices(owner.dying, p) # {} => Indices(mailbox.queue, p) = {}
         /\ Indices(owner.inline, p) # {} <=> InInline(p)
         /\ InChain(p) <=> \/ Indices(owner.batch, p) # {} \/ Indices(owner.dying, p) # {}
                           \/ Indices(mailbox.queue, p) # {}
  <1>1. /\ owner.batch \in Seq(Payloads) /\ owner.dying \in Seq(Payloads)
        /\ mailbox.queue \in Seq(Payloads) /\ owner.inline \in Seq(Payloads)
        /\ NoRepeats(owner.batch \o owner.dying \o mailbox.queue) /\ NoRepeats(owner.inline)
    BY ChainParts, FieldTypes DEF PlacedOnce, Chain
  <1>2. /\ \A i, j \in Indices(owner.batch, p) : i = j
        /\ \A i, j \in Indices(owner.dying, p) : i = j
        /\ \A i, j \in Indices(mailbox.queue, p) : i = j
        /\ Indices(owner.batch, p) # {} =>
              Indices(owner.dying, p) = {} /\ Indices(mailbox.queue, p) = {}
        /\ Indices(owner.dying, p) # {} => Indices(mailbox.queue, p) = {}
        /\ InChain(p) <=> \/ Indices(owner.batch, p) # {} \/ Indices(owner.dying, p) # {}
                          \/ Indices(mailbox.queue, p) # {}
    <2>1. InARow(Chain, owner.batch, owner.dying, mailbox.queue) /\ NoRepeats(Chain)
      BY <1>1, ThreeInARow DEF Chain, PlacedOnce
    <2> DEFINE b == owner.batch
               d == owner.dying
               q == mailbox.queue
               s == Chain
    <2>2. /\ b \in Seq(Payloads) /\ d \in Seq(Payloads) /\ q \in Seq(Payloads)
          /\ InARow(s, b, d, q) /\ NoRepeats(s) /\ (InChain(p) <=> Contains(s, p))
      BY <1>1, <2>1 DEF InChain
    <2> HIDE DEF b, d, q, s
    <2>3. /\ \A i, j \in Indices(b, p) : i = j
          /\ \A i, j \in Indices(d, p) : i = j
          /\ \A i, j \in Indices(q, p) : i = j
          /\ Indices(b, p) # {} => Indices(d, p) = {} /\ Indices(q, p) = {}
          /\ Indices(d, p) # {} => Indices(q, p) = {}
          /\ Contains(s, p)
                <=> Indices(b, p) # {} \/ Indices(d, p) # {} \/ Indices(q, p) # {}
      BY <2>2, IndicesInARow
    <2> QED
      BY <2>2, <2>3 DEF b, d, q
  <1>3. /\ \A i, j \in Indices(owner.inline, p) : i = j
        /\ Indices(owner.inline, p) # {} <=> InInline(p)
    <2>1. DOMAIN owner.inline = 1..Len(owner.inline)
      BY <1>1
    <2> QED
      BY <1>1, <2>1 DEF Indices, NoRepeats, InInline, Contains
  <1>4. OwnerPlaces(p) # {} <=> \/ Indices(mailbox.queue, p) # {} \/ Indices(owner.batch, p) # {}
                               \/ Indices(owner.dying, p) # {} \/ Indices(owner.inline, p) # {}
                               \/ owner.running = p
    BY ZenonT(60), PlacesOf
  <1> QED
    BY <1>2, <1>3, <1>4

LEMMA OneOwner ==
  ASSUME TypeOK, PlacedOnce
  PROVE  OneOwnerUntilDestroyed
  <1> SUFFICES ASSUME NEW p \in Payloads
               PROVE  Cardinality(Places(p)) + payload[p].destroyed
                         = IF payload[p].tag = None THEN 0 ELSE 1
    BY DEF OneOwnerUntilDestroyed
  <1>0. Placed(p)
    BY DEF PlacedOnce
  <1>1. Places(p) # {} <=> Live(p)
    <2>1. Places(p) # {} <=> OwnerPlaces(p) # {} \/ IsHeld(p)
      BY ZenonT(60), PlacesOf DEF IsHeld
    <2> QED
      BY <1>0, <2>1, OwnerHas DEF Placed
  <1>2. ASSUME NEW x \in Places(p), NEW y \in Places(p)
        PROVE  x = y
    <2>1. ASSUME InChain(p)
          PROVE  x = y
      <3>1. ~IsHeld(p) /\ ~InInline(p) /\ owner.running # p
        BY <1>0, <2>1 DEF Placed
      <3> QED
        BY <2>1, <3>1, PlacesOf, OwnerHas DEF IsHeld
    <2>2. ASSUME IsHeld(p)
          PROVE  x = y
      <3>1. ~InChain(p) /\ ~InInline(p) /\ owner.running # p
        BY <1>0, <2>2 DEF Placed
      <3>2. \A a, b \in Threads : thread[a].held = p /\ thread[b].held = p => a = b
        BY NoneIsNothing DEF PlacedOnce, HeldOnce
      <3> QED
        BY <3>1, <3>2, PlacesOf, OwnerHas
    <2>3. ASSUME InInline(p)
          PROVE  x = y
      <3>1. ~IsHeld(p) /\ ~InChain(p) /\ owner.running # p
        BY <1>0, <2>3 DEF Placed
      <3> QED
        BY <2>3, <3>1, PlacesOf, OwnerHas DEF IsHeld
    <2>4. ASSUME owner.running = p
          PROVE  x = y
      <3>1. ~IsHeld(p) /\ ~InChain(p) /\ ~InInline(p)
        BY <1>0, <2>4 DEF Placed
      <3> QED
        BY <2>4, <3>1, PlacesOf, OwnerHas DEF IsHeld
    <2> QED
      BY <1>0, <1>1, <2>1, <2>2, <2>3, <2>4 DEF Placed
  <1>3. CASE Live(p)
    <2>1. PICK x : Places(p) = {x}
      BY <1>1, <1>2, <1>3
    <2> QED
      BY <1>3, <2>1, FS_Singleton DEF Live
  <1>4. CASE ~Live(p)
    <2>1. Cardinality(Places(p)) = 0
      BY <1>1, <1>4, FS_EmptySet
    <2>2. payload[p].destroyed = IF payload[p].tag = None THEN 0 ELSE 1
      BY <1>0, <1>4 DEF Placed, Live
    <2> QED
      BY <2>1, <2>2
  <1> QED
    BY <1>3, <1>4

-----------------------------------------------------------------------------
(* The references are the handles, the Senders and the nodes.              *)

Owned(p) == InChain(p) \/ InInline(p) \/ owner.running = p

LiveTargets == {t \in Targets : targetRefs[t] > 0}

Handles(t) == IF target[t].handle = "open" THEN 1 ELSE 0

Holders(t) == Handles(t) + Cardinality(SenderHolders(t)) + Cardinality(NodeHolders(t))

HoldersFinite == IsFiniteSet(LiveTargets) /\ \A t \in Targets : IsFiniteSet(NodeHolders(t))

LEMMA RefsAreHolders ==
  RefsExact <=> /\ \A t \in Targets : targetRefs[t] = Holders(t)
                /\ mailboxRefs = (IF mailbox.handle THEN 1 ELSE 0) + Cardinality(LiveTargets)
  BY DEF RefsExact, Holders, Handles, LiveTargets

LEMMA HoldersCounted ==
  ASSUME HoldersFinite, NEW t \in Targets
  PROVE  /\ Handles(t) \in {0, 1}
         /\ Cardinality(SenderHolders(t)) \in Nat /\ Cardinality(NodeHolders(t)) \in Nat
         /\ Holders(t) \in Nat
         /\ SenderHolders(t) # {} => Holders(t) > 0
         /\ NodeHolders(t) # {} => Holders(t) > 0
  <1>1. Handles(t) \in {0, 1}
    BY DEF Handles
  <1>2. /\ Cardinality(SenderHolders(t)) \in Nat
        /\ Cardinality(SenderHolders(t)) = 0 <=> SenderHolders(t) = {}
    BY SetsOfThreadsAreFinite DEF SenderHolders
  <1>3. /\ Cardinality(NodeHolders(t)) \in Nat
        /\ Cardinality(NodeHolders(t)) = 0 <=> NodeHolders(t) = {}
    BY FS_CardinalityType, FS_EmptySet DEF HoldersFinite
  <1> QED
    BY <1>1, <1>2, <1>3 DEF Holders

\* A retain that comes with one more holder of a live target.
LEMMA RetainExact ==
  ASSUME TypeOK, RefsExact, HoldersFinite, NEW t \in Targets, targetRefs[t] > 0,
         RetainTarget(t), mailbox'.handle = mailbox.handle,
         \A u \in Targets : Holders(u)' = IF u = t THEN Holders(u) + 1 ELSE Holders(u)
  PROVE  RefsExact' /\ LiveTargets' = LiveTargets
  <1>1. targetRefs \in [Targets -> Int] /\ mailboxRefs \in Int
    BY FieldTypes
  <1>2. /\ mailboxRefs' = mailboxRefs
        /\ \A u \in Targets : targetRefs'[u] = IF u = t THEN targetRefs[u] + 1 ELSE targetRefs[u]
    BY <1>1 DEF RetainTarget
  <1>3. LiveTargets' = LiveTargets
    <2>1. \A u \in Targets : targetRefs'[u] > 0 <=> targetRefs[u] > 0
      BY <1>1, <1>2
    <2> QED
      BY <2>1 DEF LiveTargets
  <1>4. \A u \in Targets : targetRefs'[u] = Holders(u)'
    BY <1>2, RefsAreHolders
  <1>5. mailboxRefs' = (IF mailbox'.handle THEN 1 ELSE 0) + Cardinality(LiveTargets')
    BY <1>2, <1>3, RefsAreHolders
  <1>6. RefsExact' <=> /\ \A u \in Targets : targetRefs'[u] = Holders(u)'
                       /\ mailboxRefs' = (IF mailbox'.handle THEN 1 ELSE 0) + Cardinality(LiveTargets')
    BY DEF RefsExact, Holders, Handles, LiveTargets
  <1> QED
    BY <1>3, <1>4, <1>5, <1>6

\* A release that comes with one holder less: the last one takes the target's
\* reference to the mailbox with it.
LEMMA ReleaseExact ==
  ASSUME TypeOK, RefsExact, HoldersFinite, NEW t \in Targets, Holders(t) > 0,
         ReleaseTarget(t), mailbox'.handle = mailbox.handle,
         \A u \in Targets : Holders(u)' = IF u = t THEN Holders(u) - 1 ELSE Holders(u)
  PROVE  RefsExact' /\ IsFiniteSet(LiveTargets')
  <1>1. targetRefs \in [Targets -> Int] /\ mailboxRefs \in Int
    BY FieldTypes
  <1>2. /\ mailboxRefs' = IF targetRefs[t] = 1 THEN mailboxRefs - 1 ELSE mailboxRefs
        /\ \A u \in Targets : targetRefs'[u] = IF u = t THEN targetRefs[u] - 1 ELSE targetRefs[u]
    BY <1>1 DEF ReleaseTarget
  <1>3. targetRefs[t] > 0
    BY RefsAreHolders
  <1>4. LiveTargets' = IF targetRefs[t] = 1 THEN LiveTargets \ {t} ELSE LiveTargets
    <2>1. \A u \in Targets : u # t => (targetRefs'[u] > 0 <=> targetRefs[u] > 0)
      BY <1>2
    <2>2. targetRefs'[t] > 0 <=> targetRefs[t] # 1
      BY <1>1, <1>2, <1>3
    <2> QED
      BY <1>3, <2>1, <2>2 DEF LiveTargets
  <1>5. t \in LiveTargets /\ IsFiniteSet(LiveTargets) /\ Cardinality(LiveTargets) \in Nat
    BY <1>3, FS_CardinalityType DEF LiveTargets, HoldersFinite
  <1>6. /\ IsFiniteSet(LiveTargets')
        /\ Cardinality(LiveTargets') = IF targetRefs[t] = 1 THEN Cardinality(LiveTargets) - 1
                                                            ELSE Cardinality(LiveTargets)
    BY <1>4, <1>5, FS_RemoveElement
  <1>7. \A u \in Targets : targetRefs'[u] = Holders(u)'
    BY <1>2, RefsAreHolders
  <1>8. mailboxRefs' = (IF mailbox'.handle THEN 1 ELSE 0) + Cardinality(LiveTargets')
    BY <1>1, <1>2, <1>5, <1>6, RefsAreHolders
  <1>9. RefsExact' <=> /\ \A u \in Targets : targetRefs'[u] = Holders(u)'
                       /\ mailboxRefs' = (IF mailbox'.handle THEN 1 ELSE 0) + Cardinality(LiveTargets')
    BY DEF RefsExact, Holders, Handles, LiveTargets
  <1> QED
    BY <1>6, <1>7, <1>8, <1>9

\* Nothing changes.
LEMMA SameRefsExact ==
  ASSUME RefsExact, HoldersFinite, UNCHANGED refs, mailbox'.handle = mailbox.handle,
         \A u \in Targets : Holders(u)' = Holders(u)
  PROVE  RefsExact' /\ LiveTargets' = LiveTargets
  <1>1. LiveTargets' = LiveTargets
    BY DEF LiveTargets, refs
  <1>2. RefsExact' <=> /\ \A u \in Targets : targetRefs'[u] = Holders(u)'
                       /\ mailboxRefs' = (IF mailbox'.handle THEN 1 ELSE 0) + Cardinality(LiveTargets')
    BY DEF RefsExact, Holders, Handles, LiveTargets
  <1> QED
    BY <1>1, <1>2, RefsAreHolders DEF refs

\* The nodes of a target, as the payloads the owner has.
NodesOwned ==
    \A t \in Targets : NodeHolders(t) =
       {p \in Payloads : payload[p].tag # None /\ payload[p].tag.target = t /\ Owned(p)}

LEMMA NodesAreOwned == TypeOK /\ PlacedOnce => NodesOwned
  BY OwnerHas DEF NodesOwned, NodeHolders, Owned

NodesSame == \A t \in Targets : NodeHolders(t)' = NodeHolders(t)

NodeAdded(p, t) ==
    /\ p \notin NodeHolders(t)
    /\ \A u \in Targets :
          NodeHolders(u)' = IF u = t THEN NodeHolders(u) \cup {p} ELSE NodeHolders(u)

NodeRemoved(p, t) ==
    /\ p \in NodeHolders(t)
    /\ \A u \in Targets :
          NodeHolders(u)' = IF u = t THEN NodeHolders(u) \ {p} ELSE NodeHolders(u)

\* How the nodes follow what the owner has.
LEMMA NodesFollow ==
  ASSUME TypeOK, PlacedOnce, TypeOK', PlacedOnce', NEW p \in Payloads,
         \A q \in Payloads \ {p} :
            payload'[q].tag = payload[q].tag /\ (Owned(q)' <=> Owned(q))
  PROVE  /\ ~Owned(p) /\ ~Owned(p)' => NodesSame
         /\ Owned(p)' /\ Owned(p) /\ payload'[p].tag = payload[p].tag => NodesSame
         /\ ~Owned(p) /\ Owned(p)' /\ payload'[p].tag # None
               => NodeAdded(p, payload'[p].tag.target)
         /\ Owned(p) /\ ~Owned(p)' /\ payload[p].tag # None
               => NodeRemoved(p, payload[p].tag.target)
  <1>1. NodesOwned
    BY NodesAreOwned
  <1>2. NodesOwned'
    BY NodesAreOwned, PTL
  <1>3. \A u \in Targets, q \in Payloads \ {p} : q \in NodeHolders(u)' <=> q \in NodeHolders(u)
    BY <1>1, <1>2 DEF NodesOwned
  <1>4. \A u \in Targets : /\ NodeHolders(u) \subseteq Payloads /\ NodeHolders(u)' \subseteq Payloads
    BY DEF NodeHolders
  <1>5. \A u \in Targets :
           /\ p \in NodeHolders(u) <=>
                 payload[p].tag # None /\ payload[p].tag.target = u /\ Owned(p)
           /\ p \in NodeHolders(u)' <=>
                 payload'[p].tag # None /\ payload'[p].tag.target = u /\ Owned(p)'
    BY <1>1, <1>2 DEF NodesOwned
  <1>6. ASSUME \/ ~Owned(p) /\ ~Owned(p)'
               \/ Owned(p)' /\ Owned(p) /\ payload'[p].tag = payload[p].tag
        PROVE  NodesSame
    <2> SUFFICES ASSUME NEW u \in Targets PROVE NodeHolders(u)' = NodeHolders(u)
      BY DEF NodesSame
    <2>1. p \in NodeHolders(u)' <=> p \in NodeHolders(u)
      BY <1>5, <1>6
    <2>2. \A q \in Payloads : q \in NodeHolders(u)' <=> q \in NodeHolders(u)
      BY <1>3, <2>1
    <2>3. NodeHolders(u) \subseteq Payloads /\ NodeHolders(u)' \subseteq Payloads
      BY <1>4
    <2> QED
      BY ONLY <2>2, <2>3
  <1>7. ASSUME ~Owned(p), Owned(p)', payload'[p].tag # None, NEW t, t = payload'[p].tag.target
        PROVE  NodeAdded(p, t)
    <2>1. ASSUME NEW u \in Targets
          PROVE  NodeHolders(u)' = IF u = t THEN NodeHolders(u) \cup {p} ELSE NodeHolders(u)
      <3>1. p \in NodeHolders(u)' <=> u = t
        BY <1>5, <1>7
      <3>2. p \notin NodeHolders(u)
        BY <1>5, <1>7
      <3> QED
        BY <1>3, <1>4, <3>1, <3>2
    <2>2. p \notin NodeHolders(t)
      BY <1>7, OwnerHas DEF NodeHolders, Owned
    <2> QED
      BY <2>1, <2>2 DEF NodeAdded
  <1>8. ASSUME Owned(p), ~Owned(p)', payload[p].tag # None, NEW t, t = payload[p].tag.target
        PROVE  NodeRemoved(p, t)
    <2>1. ASSUME NEW u \in Targets
          PROVE  NodeHolders(u)' = IF u = t THEN NodeHolders(u) \ {p} ELSE NodeHolders(u)
      <3>1. p \in NodeHolders(u) <=> u = t
        BY <1>5, <1>8
      <3>2. p \notin NodeHolders(u)'
        BY <1>5, <1>8
      <3> QED
        BY <1>3, <1>4, <3>1, <3>2
    <2>2. p \in NodeHolders(t)
      BY <1>8, OwnerHas DEF NodeHolders, Owned
    <2> QED
      BY <2>1, <2>2 DEF NodeRemoved
  <1>9. ~Owned(p) /\ Owned(p)' /\ payload'[p].tag # None => NodeAdded(p, payload'[p].tag.target)
    BY <1>7
  <1>10. Owned(p) /\ ~Owned(p)' /\ payload[p].tag # None => NodeRemoved(p, payload[p].tag.target)
    BY <1>8
  <1> QED
    BY <1>6, <1>9, <1>10

\* A payload in flight is the owner's unless a posting thread has it.
OwnedUnlessHeld == \A p \in Payloads : Owned(p) <=> Live(p) /\ ~IsHeld(p)

LEMMA LiveIsOwned == PlacedOnce => OwnedUnlessHeld
  BY DEF OwnedUnlessHeld, PlacedOnce, Placed, Owned

LEMMA OwnedFollows ==
  ASSUME PlacedOnce, PlacedOnce', NEW p \in Payloads,
         NEW tag, NEW ran, NEW destroyed, Becomes(p, tag, ran, destroyed),
         \A q \in Payloads \ {p} : IsHeld(q)' <=> IsHeld(q)
  PROVE  /\ Owned(p) <=> Live(p) /\ ~IsHeld(p)
         /\ Owned(p)' <=> tag # None /\ destroyed = 0 /\ ~IsHeld(p)'
         /\ payload'[p].tag = tag
         /\ \A q \in Payloads \ {p} :
               payload'[q].tag = payload[q].tag /\ (Owned(q)' <=> Owned(q))
  <1>1. OwnedUnlessHeld
    BY LiveIsOwned
  <1>2. OwnedUnlessHeld'
    BY LiveIsOwned, PTL
  <1> QED
    BY <1>1, <1>2 DEF OwnedUnlessHeld, Becomes, Live

LEMMA HandlesKeptHolders ==
  ASSUME HandlesKept, NEW t \in Targets
  PROVE  Handles(t)' = Handles(t) /\ SenderHolders(t)' = SenderHolders(t)
  BY DEF HandlesKept, Handles, SenderHolders

LEMMA QuietRefs ==
  ASSUME RefsExact, HoldersFinite, HandlesKept, UNCHANGED refs, NodesSame
  PROVE  RefsExact' /\ HoldersFinite'
  <1>1. \A t \in Targets : Holders(t)' = Holders(t)
    BY HandlesKeptHolders DEF Holders, NodesSame
  <1>2. RefsExact' /\ LiveTargets' = LiveTargets
    BY <1>1, SameRefsExact DEF HandlesKept
  <1> QED
    BY <1>2 DEF HoldersFinite, NodesSame

LEMMA AddedRefs ==
  ASSUME TypeOK, RefsExact, HoldersFinite, HandlesKept, NEW p, NEW t \in Targets,
         NodeAdded(p, t), RetainTarget(t), SenderHolders(t) # {}
  PROVE  RefsExact' /\ HoldersFinite'
  <1>1. ASSUME NEW u \in Targets
        PROVE  /\ Holders(u)' = IF u = t THEN Holders(u) + 1 ELSE Holders(u)
               /\ IsFiniteSet(NodeHolders(u)')
    <2>1. IsFiniteSet(NodeHolders(u)) /\ Cardinality(NodeHolders(u)) \in Nat
      BY HoldersCounted DEF HoldersFinite
    <2>2. /\ IsFiniteSet(NodeHolders(u)')
          /\ Cardinality(NodeHolders(u)')
                = IF u = t THEN Cardinality(NodeHolders(u)) + 1 ELSE Cardinality(NodeHolders(u))
      BY <2>1, FS_AddElement DEF NodeAdded
    <2>3. Handles(u)' = Handles(u) /\ SenderHolders(u)' = SenderHolders(u)
      BY HandlesKeptHolders
    <2>4. Handles(u) \in {0, 1} /\ Cardinality(SenderHolders(u)) \in Nat
      BY HoldersCounted
    <2> QED
      BY <2>1, <2>2, <2>3, <2>4 DEF Holders
  <1>2. targetRefs[t] > 0
    BY HoldersCounted, RefsAreHolders
  <1>3. RefsExact' /\ LiveTargets' = LiveTargets
    BY <1>1, <1>2, RetainExact DEF HandlesKept
  <1> QED
    BY <1>1, <1>3 DEF HoldersFinite

LEMMA RemovedRefs ==
  ASSUME TypeOK, RefsExact, HoldersFinite, HandlesKept, NEW p, NEW t \in Targets,
         NodeRemoved(p, t), ReleaseTarget(t)
  PROVE  RefsExact' /\ HoldersFinite'
  <1>1. ASSUME NEW u \in Targets
        PROVE  /\ Holders(u)' = IF u = t THEN Holders(u) - 1 ELSE Holders(u)
               /\ IsFiniteSet(NodeHolders(u)')
    <2>1. IsFiniteSet(NodeHolders(u)) /\ Cardinality(NodeHolders(u)) \in Nat
      BY HoldersCounted DEF HoldersFinite
    <2>2. /\ IsFiniteSet(NodeHolders(u)')
          /\ Cardinality(NodeHolders(u)')
                = IF u = t THEN Cardinality(NodeHolders(u)) - 1 ELSE Cardinality(NodeHolders(u))
      BY <2>1, FS_RemoveElement DEF NodeRemoved
    <2>3. Handles(u)' = Handles(u) /\ SenderHolders(u)' = SenderHolders(u)
      BY HandlesKeptHolders
    <2>4. Handles(u) \in {0, 1} /\ Cardinality(SenderHolders(u)) \in Nat
      BY HoldersCounted
    <2> QED
      BY <2>1, <2>2, <2>3, <2>4 DEF Holders
  <1>2. Holders(t) > 0
    BY HoldersCounted DEF NodeRemoved
  <1>3. RefsExact' /\ IsFiniteSet(LiveTargets')
    BY <1>1, <1>2, ReleaseExact DEF HandlesKept
  <1> QED
    BY <1>1, <1>3 DEF HoldersFinite

LEMMA StaysNodes ==
  ASSUME TypeOK, TypeOK', PlacedOnce, PlacedOnce', Stays
  PROVE  NodesSame
  <1>1. NodesOwned
    BY NodesAreOwned
  <1>2. NodesOwned'
    BY NodesAreOwned, PTL
  <1>3. \A q : Owned(q)' <=> Owned(q)
    BY SamePlacesKept DEF Stays, Owned
  <1>4. payload' = payload
    BY DEF Stays
  <1> QED
    BY <1>1, <1>2, <1>3, <1>4 DEF NodesOwned, NodesSame

LEMMA NewSenderRefs ==
  ASSUME TypeOK, RefsExact, HoldersFinite, NodesSame,
         NEW x \in Threads, NEW t \in Targets, NewSender(x, t)
  PROVE  RefsExact' /\ HoldersFinite'
  <1>1. /\ TargetHandlesKept /\ mailbox'.handle = mailbox.handle /\ RetainTarget(t)
        /\ target[t].handle = "open" \/ SenderHolders(t) # {}
        /\ thread[x].sender = None /\ thread'[x].sender # None /\ thread'[x].sender.target = t
        /\ \A y \in Threads \ {x} : thread'[y].sender = thread[y].sender
    BY DEF NewSender
  <1>2. ASSUME NEW u \in Targets
        PROVE  Holders(u)' = IF u = t THEN Holders(u) + 1 ELSE Holders(u)
    <2>1. SenderHolders(u)' = IF u = t THEN SenderHolders(u) \cup {x} ELSE SenderHolders(u)
      BY <1>1 DEF SenderHolders
    <2>2. x \notin SenderHolders(u) /\ SenderHolders(u) \in SUBSET Threads
      BY <1>1 DEF SenderHolders
    <2>3. Cardinality(SenderHolders(u)')
             = IF u = t THEN Cardinality(SenderHolders(u)) + 1 ELSE Cardinality(SenderHolders(u))
      BY <2>1, <2>2, CountOneMoreOrLess
    <2>4. Handles(u)' = Handles(u) /\ NodeHolders(u)' = NodeHolders(u)
      BY <1>1 DEF TargetHandlesKept, Handles, NodesSame
    <2>5. /\ Handles(u) \in {0, 1} /\ Cardinality(SenderHolders(u)) \in Nat
          /\ Cardinality(NodeHolders(u)) \in Nat
      BY HoldersCounted
    <2> QED
      BY <2>3, <2>4, <2>5 DEF Holders
  <1>3. targetRefs[t] > 0
    <2>1. Holders(t) > 0
      BY <1>1, HoldersCounted DEF Holders, Handles
    <2> QED
      BY <2>1, RefsAreHolders
  <1>4. RefsExact' /\ LiveTargets' = LiveTargets
    BY <1>1, <1>2, <1>3, RetainExact
  <1> QED
    BY <1>4 DEF HoldersFinite, NodesSame

LEMMA LostSenderRefs ==
  ASSUME TypeOK, RefsExact, HoldersFinite, NodesSame, NEW x \in Threads, LostSender(x)
  PROVE  RefsExact' /\ HoldersFinite'
  <1>t. PICK t \in Targets : t = thread[x].sender.target
    BY FieldTypes DEF LostSender, Sender
  <1>1. /\ TargetHandlesKept /\ mailbox'.handle = mailbox.handle /\ ReleaseTarget(t)
        /\ thread[x].sender # None /\ thread'[x].sender = None
        /\ \A y \in Threads \ {x} : thread'[y].sender = thread[y].sender
    BY <1>t DEF LostSender
  <1>2. ASSUME NEW u \in Targets
        PROVE  /\ Holders(u)' = IF u = t THEN Holders(u) - 1 ELSE Holders(u)
               /\ u = t => Holders(u) > 0
    <2>1. SenderHolders(u)' = IF u = t THEN SenderHolders(u) \ {x} ELSE SenderHolders(u)
      BY <1>t, <1>1 DEF SenderHolders
    <2>2. (u = t => x \in SenderHolders(u)) /\ SenderHolders(u) \in SUBSET Threads
      BY <1>t, <1>1 DEF SenderHolders
    <2>3. Cardinality(SenderHolders(u)')
             = IF u = t THEN Cardinality(SenderHolders(u)) - 1 ELSE Cardinality(SenderHolders(u))
      BY <2>1, <2>2, CountOneMoreOrLess
    <2>4. Handles(u)' = Handles(u) /\ NodeHolders(u)' = NodeHolders(u)
      BY <1>1 DEF TargetHandlesKept, Handles, NodesSame
    <2>5. /\ Handles(u) \in {0, 1} /\ Cardinality(SenderHolders(u)) \in Nat
          /\ Cardinality(NodeHolders(u)) \in Nat
      BY HoldersCounted
    <2>6. u = t => Holders(u) > 0
      BY <2>2, HoldersCounted
    <2> QED
      BY <2>3, <2>4, <2>5, <2>6 DEF Holders
  <1>3. RefsExact' /\ IsFiniteSet(LiveTargets')
    BY <1>1, <1>2, ReleaseExact
  <1> QED
    BY <1>3 DEF HoldersFinite, NodesSame

LEMMA LostTargetRefs ==
  ASSUME TypeOK, RefsExact, HoldersFinite, NodesSame, NEW t \in Targets, LostTarget(t)
  PROVE  RefsExact' /\ HoldersFinite'
  <1>1. /\ SendersKept /\ mailbox'.handle = mailbox.handle /\ ReleaseTarget(t)
        /\ \A u \in Targets : target'[u].handle = IF u = t THEN "gone" ELSE target[u].handle
        /\ target[t].handle = "open"
    BY DEF LostTarget
  <1>2. ASSUME NEW u \in Targets
        PROVE  /\ Holders(u)' = IF u = t THEN Holders(u) - 1 ELSE Holders(u)
               /\ u = t => Holders(u) > 0
    <2>1. SenderHolders(u)' = SenderHolders(u) /\ NodeHolders(u)' = NodeHolders(u)
      BY <1>1 DEF SendersKept, SenderHolders, NodesSame
    <2>2. /\ Handles(u)' = IF u = t THEN 0 ELSE Handles(u)
          /\ Handles(t) = 1
      BY <1>1 DEF Handles
    <2>3. /\ Handles(u) \in {0, 1} /\ Cardinality(SenderHolders(u)) \in Nat
          /\ Cardinality(NodeHolders(u)) \in Nat
      BY HoldersCounted
    <2> QED
      BY <2>1, <2>2, <2>3 DEF Holders
  <1>3. RefsExact' /\ IsFiniteSet(LiveTargets')
    BY <1>1, <1>2, ReleaseExact
  <1> QED
    BY <1>3 DEF HoldersFinite, NodesSame

\* A target that was not created has no Sender and no node.
LEMMA NewTargetRefs ==
  ASSUME TypeOK, SendersFresh, RefsExact, HoldersFinite, NodesSame,
         NEW t \in Targets, NewTarget(t)
  PROVE  RefsExact' /\ HoldersFinite'
  <1>1. /\ SendersKept /\ mailbox'.handle = mailbox.handle
        /\ \A u \in Targets : target'[u].handle = IF u = t THEN "open" ELSE target[u].handle
        /\ target[t].handle = "none"
        /\ targetRefs' = [targetRefs EXCEPT ![t] = 1] /\ mailboxRefs' = mailboxRefs + 1
    BY DEF NewTarget
  <1>2. SenderHolders(t) = {} /\ NodeHolders(t) = {}
    BY <1>1 DEF SendersFresh, Fresh, SenderHolders, NodeHolders
  <1>3. Holders(t) = 0
    BY <1>1, <1>2, FS_EmptySet DEF Holders, Handles
  <1>4. targetRefs[t] = 0 /\ targetRefs \in [Targets -> Int] /\ mailboxRefs \in Int
    BY <1>3, RefsAreHolders, FieldTypes
  <1>5. LiveTargets' = LiveTargets \cup {t} /\ t \notin LiveTargets
    BY <1>1, <1>4 DEF LiveTargets
  <1>6. /\ IsFiniteSet(LiveTargets') /\ Cardinality(LiveTargets') = Cardinality(LiveTargets) + 1
        /\ Cardinality(LiveTargets) \in Nat
    BY <1>5, FS_AddElement, FS_CardinalityType DEF HoldersFinite
  <1>7. ASSUME NEW u \in Targets
        PROVE  targetRefs'[u] = Holders(u)'
    <2>1. SenderHolders(u)' = SenderHolders(u) /\ NodeHolders(u)' = NodeHolders(u)
      BY <1>1 DEF SendersKept, SenderHolders, NodesSame
    <2>2. Handles(u)' = IF u = t THEN 1 ELSE Handles(u)
      BY <1>1 DEF Handles
    <2>3. CASE u = t
      <3>1. Holders(u)' = 1 + 0 + 0
        BY <1>2, <2>1, <2>2, <2>3, FS_EmptySet DEF Holders
      <3> QED
        BY <1>1, <1>4, <2>3, <3>1
    <2>4. CASE u # t
      <3>1. Holders(u)' = Holders(u)
        BY <2>1, <2>2, <2>4 DEF Holders
      <3> QED
        BY <1>1, <1>4, <2>4, <3>1, RefsAreHolders
    <2> QED
      BY <2>3, <2>4
  <1>8. mailboxRefs' = (IF mailbox'.handle THEN 1 ELSE 0) + Cardinality(LiveTargets')
    BY <1>1, <1>4, <1>6, RefsAreHolders
  <1>9. RefsExact' <=> /\ \A u \in Targets : targetRefs'[u] = Holders(u)'
                       /\ mailboxRefs' = (IF mailbox'.handle THEN 1 ELSE 0) + Cardinality(LiveTargets')
    BY DEF RefsExact, Holders, Handles, LiveTargets
  <1> QED
    BY <1>6, <1>7, <1>8, <1>9 DEF HoldersFinite, NodesSame

LEMMA LostMailboxRefs ==
  ASSUME TypeOK, RefsExact, HoldersFinite, NodesSame, LostMailbox
  PROVE  RefsExact' /\ HoldersFinite'
  <1>1. /\ SendersKept /\ TargetHandlesKept /\ mailbox.handle /\ ~mailbox'.handle
        /\ mailboxRefs' = mailboxRefs - 1 /\ UNCHANGED targetRefs
    BY DEF LostMailbox
  <1>2. LiveTargets' = LiveTargets /\ Cardinality(LiveTargets) \in Nat
    BY <1>1, FS_CardinalityType DEF LiveTargets, HoldersFinite
  <1>3. \A u \in Targets : Holders(u)' = Holders(u)
    BY <1>1 DEF Holders, Handles, SenderHolders, SendersKept, TargetHandlesKept, NodesSame
  <1>4. \A u \in Targets : targetRefs'[u] = Holders(u)'
    BY <1>1, <1>3, RefsAreHolders
  <1>5. mailboxRefs' = (IF mailbox'.handle THEN 1 ELSE 0) + Cardinality(LiveTargets')
    BY <1>1, <1>2, RefsAreHolders
  <1>6. RefsExact' <=> /\ \A u \in Targets : targetRefs'[u] = Holders(u)'
                       /\ mailboxRefs' = (IF mailbox'.handle THEN 1 ELSE 0) + Cardinality(LiveTargets')
    BY DEF RefsExact, Holders, Handles, LiveTargets
  <1> QED
    BY <1>2, <1>4, <1>5, <1>6 DEF HoldersFinite, NodesSame

LEMMA HandleMovesRefs ==
  ASSUME TypeOK, TypeOK', PlacedOnce, PlacedOnce', SendersFresh, RefsExact, HoldersFinite,
         HandleMoves
  PROVE  RefsExact' /\ HoldersFinite'
  <1>1. NodesSame
    <2>1. Stays
      BY DEF HandleMoves, NewSender, LostSender, NewTarget, LostTarget, LostMailbox
    <2> QED
      BY <2>1, StaysNodes
  <1> QED
    BY <1>1, NewSenderRefs, LostSenderRefs, NewTargetRefs, LostTargetRefs, LostMailboxRefs
    DEF HandleMoves

\* A step that moves no handle, and moves p.
LEMMA PayloadMovesRefs ==
  ASSUME TypeOK, TypeOK', PlacedOnce, PlacedOnce', RefsExact, HoldersFinite, HandlesKept,
         NEW p \in Payloads, NEW tag \in Sender, NEW ran, NEW destroyed,
         Becomes(p, tag, ran, destroyed),
         \A q \in Payloads \ {p} : IsHeld(q)' <=> IsHeld(q)
  PROVE  /\ UNCHANGED refs /\ ~Owned(p) /\ ~Owned(p)' => RefsExact' /\ HoldersFinite'
         /\ UNCHANGED refs /\ Owned(p) /\ Owned(p)' /\ payload[p].tag = tag
               => RefsExact' /\ HoldersFinite'
         /\ RetainTarget(tag.target) /\ ~Owned(p) /\ Owned(p)' /\ SenderHolders(tag.target) # {}
               => RefsExact' /\ HoldersFinite'
         /\ ReleaseTarget(tag.target) /\ payload[p].tag = tag /\ Owned(p) /\ ~Owned(p)'
               => RefsExact' /\ HoldersFinite'
  <1>1. /\ payload'[p].tag = tag
        /\ \A q \in Payloads \ {p} :
              payload'[q].tag = payload[q].tag /\ (Owned(q)' <=> Owned(q))
    BY OwnedFollows
  <1>2. tag # None /\ tag.target \in Targets
    BY NoneIsNothing DEF Sender
  <1>3. /\ ~Owned(p) /\ ~Owned(p)' => NodesSame
        /\ Owned(p)' /\ Owned(p) /\ payload[p].tag = tag => NodesSame
        /\ ~Owned(p) /\ Owned(p)' => NodeAdded(p, tag.target)
        /\ Owned(p) /\ ~Owned(p)' /\ payload[p].tag = tag => NodeRemoved(p, tag.target)
    BY <1>1, <1>2, NodesFollow
  <1> QED
    BY <1>2, <1>3, QuietRefs, AddedRefs, RemovedRefs

LEMMA TagOfLive ==
  ASSUME TypeOK, NEW p \in Payloads, Live(p)
  PROVE  payload[p].tag \in Sender /\ payload[p].destroyed = 0
  BY FieldTypes DEF Live

LEMMA RestsRefs ==
  ASSUME TypeOK, TypeOK', PlacedOnce, PlacedOnce', RefsExact, HoldersFinite, Rests
  PROVE  RefsExact' /\ HoldersFinite'
  BY StaysNodes, QuietRefs DEF Rests

LEMMA RefusesRefs ==
  ASSUME TypeOK, TypeOK', PlacedOnce, PlacedOnce', RefsExact, HoldersFinite,
         NEW p \in Payloads, Refuses(p)
  PROVE  RefsExact' /\ HoldersFinite'
  <1>1. /\ payload[p].tag = None /\ HeldKept /\ HandlesKept /\ UNCHANGED refs
        /\ \A q : IsHeld(q)' <=> IsHeld(q)
    BY HeldIsKept DEF Refuses
  <1>2. PICK s \in Sender : Becomes(p, s, payload[p].ran, payload[p].destroyed + 1)
    BY DEF Refuses
  <1>3. payload[p].destroyed + 1 # 0
    BY <1>1, NewIsNowhere
  <1>4. ~Owned(p) /\ ~Owned(p)'
    BY <1>1, <1>2, <1>3, OwnedFollows DEF Live
  <1> QED
    BY <1>1, <1>2, <1>4, PayloadMovesRefs

LEMMA OffersRefs ==
  ASSUME TypeOK, TypeOK', PlacedOnce, PlacedOnce', RefsExact, HoldersFinite,
         NEW p \in Payloads, NEW th \in Threads, Offers(th, p)
  PROVE  RefsExact' /\ HoldersFinite'
  <1>1. /\ payload[p].tag = None /\ thread[th].held = None /\ thread'[th].held = p
        /\ \A x \in Threads \ {th} : thread'[x].held = thread[x].held
        /\ HandlesKept /\ UNCHANGED refs
    BY DEF Offers
  <1>2. PICK s \in Sender : Becomes(p, s, payload[p].ran, payload[p].destroyed)
    BY DEF Offers
  <1>3. IsHeld(p)' /\ \A q \in Payloads \ {p} : IsHeld(q)' <=> IsHeld(q)
    BY <1>1, NoneIsNothing DEF IsHeld
  <1>4. ~Owned(p) /\ ~Owned(p)'
    BY <1>1, <1>2, <1>3, OwnedFollows DEF Live
  <1> QED
    BY <1>1, <1>2, <1>3, <1>4, PayloadMovesRefs

LEMMA GivesUpRefs ==
  ASSUME TypeOK, TypeOK', PlacedOnce, PlacedOnce', RefsExact, HoldersFinite,
         NEW th \in Threads, GivesUp(th)
  PROVE  RefsExact' /\ HoldersFinite'
  <1>p. PICK p : p = thread[th].held
    OBVIOUS
  <1>1. /\ LetsGo(th) /\ HandlesKept /\ UNCHANGED refs
        /\ Becomes(p, payload[p].tag, payload[p].ran, payload[p].destroyed + 1)
    BY <1>p DEF GivesUp, Destroyed
  <1>2. /\ p \in Payloads /\ IsHeld(p) /\ ~IsHeld(p)'
        /\ \A q \in Payloads \ {p} : IsHeld(q)' <=> IsHeld(q)
    BY <1>p, <1>1, LetsGoPlaced DEF PlacedOnce
  <1>3. Live(p)
    BY <1>2 DEF PlacedOnce, Placed
  <1>4. payload[p].tag \in Sender /\ payload[p].destroyed + 1 # 0
    BY <1>2, <1>3, TagOfLive
  <1>5. ~Owned(p) /\ ~Owned(p)'
    BY <1>1, <1>2, <1>4, OwnedFollows
  <1> QED
    BY <1>1, <1>2, <1>4, <1>5, PayloadMovesRefs

LEMMA AppendsRefs ==
  ASSUME TypeOK, TypeOK', PlacedOnce, PlacedOnce', RefsExact, HoldersFinite,
         NEW th \in Threads, Appends(th)
  PROVE  RefsExact' /\ HoldersFinite'
  <1>p. PICK p : p = thread[th].held
    OBVIOUS
  <1>1. /\ LetsGo(th) /\ HandlesKept /\ RetainTarget(payload[p].tag.target)
        /\ Becomes(p, payload[p].tag, payload[p].ran, payload[p].destroyed)
        /\ thread[th].sender = payload[p].tag
    BY <1>p DEF Appends, Becomes
  <1>2. /\ p \in Payloads /\ IsHeld(p) /\ ~IsHeld(p)'
        /\ \A q \in Payloads \ {p} : IsHeld(q)' <=> IsHeld(q)
    BY <1>p, <1>1, LetsGoPlaced DEF PlacedOnce
  <1>3. Live(p)
    BY <1>2 DEF PlacedOnce, Placed
  <1>4. payload[p].tag \in Sender /\ payload[p].destroyed = 0
    BY <1>2, <1>3, TagOfLive
  <1>5. ~Owned(p) /\ Owned(p)'
    BY <1>1, <1>2, <1>4, OwnedFollows, NoneIsNothing
  <1>6. th \in SenderHolders(payload[p].tag.target)
    BY <1>1, <1>4, NoneIsNothing DEF SenderHolders
  <1> QED
    BY <1>1, <1>2, <1>4, <1>5, <1>6, PayloadMovesRefs

\* What the owner had, and has no more.
LEMMA DestroyedRefs ==
  ASSUME TypeOK, TypeOK', PlacedOnce, PlacedOnce', RefsExact, HoldersFinite,
         NEW p \in Payloads, Owned(p), Destroyed(p), HeldKept, HandlesKept,
         ReleaseTarget(payload[p].tag.target)
  PROVE  RefsExact' /\ HoldersFinite'
  <1>1. Becomes(p, payload[p].tag, payload[p].ran, payload[p].destroyed + 1)
    BY DEF Destroyed
  <1>2. \A q \in Payloads \ {p} : IsHeld(q)' <=> IsHeld(q)
    BY HeldIsKept
  <1>3. Live(p)
    BY <1>1, <1>2, OwnedFollows
  <1>4. payload[p].tag \in Sender /\ payload[p].destroyed + 1 # 0
    BY <1>3, TagOfLive
  <1>5. ~Owned(p)'
    BY <1>1, <1>2, <1>4, OwnedFollows
  <1> QED
    BY <1>1, <1>2, <1>4, <1>5, PayloadMovesRefs

LEMMA ChainPlaces ==
  ASSUME TypeOK, NEW i \in DOMAIN Chain
  PROVE  Chain[i] \in Payloads /\ InChain(Chain[i])
  <1> DEFINE c == Chain
  <1>1. c \in Seq(Payloads) /\ i \in DOMAIN c
    BY ChainParts
  <1> HIDE DEF c
  <1>2. c[i] \in Payloads /\ Contains(c, c[i])
    BY <1>1 DEF Contains
  <1> QED
    BY <1>2 DEF c, InChain

LEMMA DropsRefs ==
  ASSUME TypeOK, TypeOK', PlacedOnce, PlacedOnce', RefsExact, HoldersFinite,
         NEW i \in DOMAIN Chain, Drops(i)
  PROVE  RefsExact' /\ HoldersFinite'
  <1>p. PICK p : p = Chain[i]
    OBVIOUS
  <1>1. p \in Payloads /\ Owned(p)
    BY <1>p, ChainPlaces DEF Owned
  <1>2. /\ Destroyed(p) /\ HeldKept /\ HandlesKept /\ ReleaseTarget(payload[p].tag.target)
    BY <1>p DEF Drops
  <1> QED
    BY <1>1, <1>2, DestroyedRefs

LEMMA ReturnsRefs ==
  ASSUME TypeOK, TypeOK', PlacedOnce, PlacedOnce', RefsExact, HoldersFinite, Returns
  PROVE  RefsExact' /\ HoldersFinite'
  <1>p. PICK p : p = owner.running
    OBVIOUS
  <1>1. p \in Payloads /\ Owned(p)
    BY <1>p DEF Owned, Returns
  <1>2. /\ Destroyed(p) /\ HeldKept /\ HandlesKept /\ ReleaseTarget(payload[p].tag.target)
    BY <1>p DEF Returns
  <1> QED
    BY <1>1, <1>2, DestroyedRefs

LEMMA ReturnsNowRefs ==
  ASSUME TypeOK, TypeOK', PlacedOnce, PlacedOnce', RefsExact, HoldersFinite, ReturnsNow
  PROVE  RefsExact' /\ HoldersFinite'
  <1>p. PICK p : p = Last(owner.inline)
    OBVIOUS
  <1>1. p \in Payloads /\ Owned(p)
    <2> DEFINE s == owner.inline
    <2>1. s \in Seq(Payloads) /\ s # <<>> /\ p = Last(s)
      BY <1>p, FieldTypes DEF ReturnsNow
    <2> HIDE DEF s
    <2>2. p \in Payloads /\ Contains(s, p)
      <3>1. Len(s) \in DOMAIN s /\ s[Len(s)] = Last(s)
        BY <2>1, LastRemoved
      <3> QED
        BY <2>1, <3>1 DEF Contains
    <2> QED
      BY <2>2 DEF s, Owned, InInline
  <1>2. /\ Destroyed(p) /\ HeldKept /\ HandlesKept /\ ReleaseTarget(payload[p].tag.target)
    BY <1>p DEF ReturnsNow
  <1> QED
    BY <1>1, <1>2, DestroyedRefs

LEMMA StartsRefs ==
  ASSUME TypeOK, TypeOK', PlacedOnce, PlacedOnce', RefsExact, HoldersFinite,
         NEW c \in Contexts, Starts(c)
  PROVE  RefsExact' /\ HoldersFinite'
  <1>p. PICK p : p = Head(Chain)
    OBVIOUS
  <1>1. /\ HeldKept /\ HandlesKept /\ UNCHANGED refs /\ owner'.running = p
        /\ Becomes(p, payload[p].tag, c, payload[p].destroyed)
    BY <1>p DEF Starts
  <1>2. p \in Payloads /\ Owned(p)
    <2>1. 1 \in DOMAIN Chain /\ Chain[1] = p
      <3> DEFINE s == Chain
      <3>1. s \in Seq(Payloads) /\ s # <<>>
        BY ChainParts DEF Starts
      <3> HIDE DEF s
      <3>2. 1 \in DOMAIN s /\ s[1] = Head(s)
        BY <3>1, FirstRemoved
      <3> QED
        BY <1>p, <3>2 DEF s
    <2> QED
      BY <2>1, ChainPlaces DEF Owned
  <1>3. Owned(p)'
    BY <1>1 DEF Owned
  <1>4. \A q \in Payloads \ {p} : IsHeld(q)' <=> IsHeld(q)
    BY <1>1, HeldIsKept
  <1>5. Live(p)
    BY <1>1, <1>2, <1>4, OwnedFollows
  <1>6. payload[p].tag \in Sender
    BY <1>2, <1>5, TagOfLive
  <1> QED
    BY <1>1, <1>2, <1>3, <1>4, <1>6, PayloadMovesRefs

LEMMA StartsNowRefs ==
  ASSUME TypeOK, TypeOK', PlacedOnce, PlacedOnce', RefsExact, HoldersFinite,
         NEW p \in Payloads, NEW s \in Sender, NEW c \in Contexts, StartsNow(p, s, c)
  PROVE  RefsExact' /\ HoldersFinite'
  <1>1. /\ payload[p].tag = None /\ HeldKept /\ HandlesKept /\ RetainTarget(s.target)
        /\ Becomes(p, s, c, payload[p].destroyed) /\ thread[Owner].sender = s
    BY DEF StartsNow
  <1>2. \A q : IsHeld(q)' <=> IsHeld(q)
    BY <1>1, HeldIsKept
  <1>3. payload[p].destroyed = 0 /\ ~IsHeld(p)
    BY <1>1, NewIsNowhere
  <1>4. ~Owned(p) /\ Owned(p)'
    BY <1>1, <1>2, <1>3, OwnedFollows, NoneIsNothing DEF Live
  <1>5. Owner \in SenderHolders(s.target)
    BY <1>1, NoneIsNothing, OwnerIsAThread DEF SenderHolders
  <1> QED
    BY <1>1, <1>2, <1>4, <1>5, PayloadMovesRefs

LEMMA RefsInit == Init => RefsExact /\ HoldersFinite
  <1> SUFFICES ASSUME Init PROVE RefsExact /\ HoldersFinite
    OBVIOUS
  <1>1. LiveTargets = {} /\ \A t \in Targets : NodeHolders(t) = {} /\ SenderHolders(t) = {}
    BY DEF Init, LiveTargets, NodeHolders, SenderHolders
  <1>2. \A t \in Targets : Handles(t) = 0 /\ targetRefs[t] = 0
    BY DEF Init, Handles
  <1>3. mailboxRefs = 1 /\ mailbox.handle
    BY DEF Init
  <1>4. \A t \in Targets : Holders(t) = 0
    BY <1>1, <1>2, FS_EmptySet DEF Holders
  <1> QED
    BY <1>1, <1>2, <1>3, <1>4, FS_EmptySet, RefsAreHolders DEF HoldersFinite

LEMMA RefsStep ==
  ASSUME TypeOK, TypeOK', WellFormed, CallsWellFormed, HeldAreTheirs, SendersFresh,
         PlacedOnce, PlacedOnce', RefsExact, HoldersFinite, [Next]_vars
  PROVE  RefsExact' /\ HoldersFinite'
  BY StepFlow, RestsRefs, HandleMovesRefs, RefusesRefs, OffersRefs, StartsNowRefs, GivesUpRefs,
     AppendsRefs, DropsRefs, StartsRefs, ReturnsRefs, ReturnsNowRefs

-----------------------------------------------------------------------------
(* The last release.                                                       *)

\* A thread in postOwned, and a payload in flight, keep their target alive.
LEMMA ReachedTargetsLive ==
  ASSUME TypeOK, WellFormed, PlacedOnce, RefsExact, HoldersFinite
  PROVE  /\ \A t \in Targets : ProducersIn(t) # {} => targetRefs[t] > 0
         /\ ProducersInMailbox # {} => LiveTargets # {}
         /\ mailbox.queue # <<>> => LiveTargets # {}
  <1>0. ASSUME NEW th \in Threads, thread[th].pc # "idle"
        PROVE  /\ thread[th].sender # None /\ thread[th].sender.target \in Targets
               /\ th \in SenderHolders(thread[th].sender.target)
               /\ targetRefs[thread[th].sender.target] > 0
    <2>1. thread[th].sender # None /\ thread[th].sender.target \in Targets
      BY <1>0, FieldTypes DEF WellFormed, ThreadsWellFormed, Sender
    <2>2. th \in SenderHolders(thread[th].sender.target)
      BY <2>1 DEF SenderHolders
    <2> QED
      BY <2>1, <2>2, HoldersCounted, RefsAreHolders
  <1>1. ASSUME NEW t \in Targets, ProducersIn(t) # {} PROVE targetRefs[t] > 0
    <2>1. PICK th \in Threads : thread[th].pc # "idle" /\ thread[th].sender.target = t
      BY <1>1, PlacesInPost DEF ProducersIn
    <2> QED
      BY <1>0, <2>1
  <1>2. ASSUME ProducersInMailbox # {} PROVE LiveTargets # {}
    <2>1. PICK th \in Threads : thread[th].pc # "idle"
      BY <1>2 DEF ProducersInMailbox, InMailboxSection
    <2> QED
      BY <1>0, <2>1 DEF LiveTargets
  <1>3. ASSUME mailbox.queue # <<>> PROVE LiveTargets # {}
    <2>1. mailbox.queue \in Seq(Payloads)
      BY FieldTypes
    <2>2. PICK p \in Payloads : Indices(mailbox.queue, p) # {}
      BY <1>3, <2>1 DEF Indices
    <2>3. OwnerPlaces(p) # {} /\ InChain(p)
      BY <2>2, OwnerHas
    <2>4. Live(p)
      BY <2>3 DEF PlacedOnce, Placed
    <2>5. payload[p].tag # None /\ payload[p].tag.target \in Targets
      BY <2>4, TagOfLive, NoneIsNothing DEF Sender
    <2>6. p \in NodeHolders(payload[p].tag.target)
      BY <2>3, <2>5 DEF NodeHolders
    <2>7. targetRefs[payload[p].tag.target] > 0
      BY <2>5, <2>6, HoldersCounted, RefsAreHolders
    <2> QED
      BY <2>5, <2>7 DEF LiveTargets
  <1> QED
    BY <1>1, <1>2, <1>3

LEMMA LastReleases ==
  ASSUME TypeOK, WellFormed, CallsWellFormed, ActivePostsExact, PlacedOnce, RefsExact,
         HoldersFinite
  PROVE  LastReleaseAsserts
  <1>1. ASSUME NEW t \in Targets, target[t].handle # "none", targetRefs[t] = 0
        PROVE  target[t].closed /\ target[t].active = 0
    <2>1. Holders(t) = 0
      BY <1>1, RefsAreHolders
    <2>2. target[t].handle # "open"
      <3>1. Handles(t) = 0
        BY <2>1, HoldersCounted DEF Holders
      <3> QED
        BY <3>1 DEF Handles
    <2>3. target[t].closed
      BY <1>1, <2>2, FieldTypes DEF CallsWellFormed
    <2>4. ProducersIn(t) = {}
      BY <1>1, ReachedTargetsLive
    <2> QED
      BY <2>3, <2>4, FS_EmptySet DEF ActivePostsExact
  <1>2. ASSUME mailboxRefs = 0
        PROVE  mailbox.closed /\ mailbox.active = 0 /\ mailbox.queue = <<>>
    <2>1. IsFiniteSet(LiveTargets) /\ Cardinality(LiveTargets) \in Nat
      BY FS_CardinalityType DEF HoldersFinite
    <2>2. ~mailbox.handle /\ Cardinality(LiveTargets) = 0
      BY <1>2, <2>1, RefsAreHolders
    <2>3. LiveTargets = {}
      BY <2>1, <2>2, FS_EmptySet
    <2>4. ProducersInMailbox = {} /\ mailbox.queue = <<>>
      BY <2>3, ReachedTargetsLive
    <2>5. mailbox.closed
      BY <2>2 DEF CallsWellFormed
    <2> QED
      BY <2>4, <2>5, FS_EmptySet DEF ActivePostsExact
  <1> QED
    BY <1>1, <1>2 DEF LastReleaseAsserts

-----------------------------------------------------------------------------
(* The mailbox implements TaskDelivery.                                    *)

Deliverable == {p \in Payloads : payload[p].tag = None \/ NodeDeliverable(p)}

\* What was closed stays closed, and a generation never goes back.
LEMMA NothingReopens ==
  ASSUME TypeOK, WellFormed, [Next]_vars
  PROVE  /\ mailbox.closed => mailbox'.closed
         /\ \A t \in Targets : /\ target[t].closed => target'[t].closed
                               /\ target'[t].generation >= target[t].generation
  <1>0. mailbox \in MailboxType
    BY FieldTypes
  <1>1. mailbox.closed => mailbox'.closed
    <2>1. ASSUME \/ mailbox' = mailbox \/ \E k : mailbox' = [mailbox EXCEPT !.active = k]
                 \/ \E q : mailbox' = [mailbox EXCEPT !.queue = q]
                 \/ mailbox' = [mailbox EXCEPT !.closed = TRUE]
                 \/ mailbox' = [mailbox EXCEPT !.handle = FALSE]
          PROVE  mailbox.closed => mailbox'.closed
      BY <1>0, <2>1 DEF MailboxType
    <2>2. ASSUME NEW th \in Threads, PostContinues(th)
          PROVE  mailbox.closed => mailbox'.closed
      BY <2>1, <2>2
      DEF PostContinues, PostEnterMailbox, MailboxEntered, PostGiveUp, PostAppend, PostNotify,
          PostLeaveMailbox, PostLeaveTarget
    <2>3. ASSUME NEW th \in Threads,
                 \/ \E p \in Payloads : PostRefused(th, p) \/ PostEnterTarget(th, p)
                 \/ \E t \in Targets : AcquireSender(th, t)
                 \/ \E to \in Threads : RetainSender(th, to)
                 \/ ReleaseSender(th)
          PROVE  UNCHANGED mailbox
      BY <2>3 DEF PostRefused, PostEnterTarget, AcquireSender, RetainSender, ReleaseSender
    <2>4. CASE MailboxLifecycle
      BY <2>1, <2>4 DEF MailboxLifecycle, CloseMailbox, TakeQueueToDispose, QueueTaken,
                        DisposeQueued, FinishMailboxOp
    <2>5. CASE Drain
      BY <2>1, <2>5 DEF Drain, HostWakes, DrainBegin, QueueTaken, DrainInvoke, DrainCancel,
                        DrainReturn, DrainEnd
    <2>6. CASE Sleep \/ DeliverReturn \/ \E p \in Payloads : DeliverRefused(p) \/ DeliverInvoke(p)
      BY <2>6 DEF Sleep, DeliverReturn, DeliverRefused, DeliverInvoke
    <2>7. CASE UNCHANGED vars
      BY <2>7 DEF vars
    <2> QED
      BY <2>2, <2>3, <2>4, <2>5, <2>6, <2>7, LifecycleKeepsThreads DEF Next
  <1>2. ASSUME NEW t \in Targets
        PROVE  /\ target[t].closed => target'[t].closed
               /\ target'[t].generation >= target[t].generation
    <2>0. target[t].generation \in Nat
      BY FieldTypes
    <2>1. CASE SameTarget(t)
      BY <2>0, <2>1 DEF SameTarget
    <2>2. CASE TargetLifecycle
      <3>1. ASSUME NEW u \in Targets,
                   \A v \in Targets :
                      /\ target'[v].closed = target[v].closed
                      /\ target'[v].generation =
                            IF v = u THEN target[v].generation + 1 ELSE target[v].generation
            PROVE  /\ target[t].closed => target'[t].closed
                   /\ target'[t].generation >= target[t].generation
        BY <2>0, <3>1
      <3>2. ASSUME NEW u \in Targets,
                   \A v \in Targets :
                      /\ target'[v].closed = IF v = u THEN TRUE ELSE target[v].closed
                      /\ target'[v].generation >= target[v].generation
            PROVE  /\ target[t].closed => target'[t].closed
                   /\ target'[t].generation >= target[t].generation
        BY <2>0, <3>2
      <3>3. ASSUME \A v \in Targets :
                      /\ target'[v].closed = target[v].closed
                      /\ target'[v].generation = target[v].generation
            PROVE  /\ target[t].closed => target'[t].closed
                   /\ target'[t].generation >= target[t].generation
        BY <2>0, <3>3
      <3> QED
        BY <2>2, <3>1, <3>2, <3>3, LifecycleEffect
    <2> QED
      BY <2>1, <2>2, StepShape
  <1> QED
    BY <1>1, <1>2

\* A payload whose target was invalidated, renewed or closed is never
\* deliverable again.
LEMMA RevokedForGood ==
  ASSUME TypeOK, WellFormed, SendersFresh, [Next]_vars
  PROVE  Deliverable' \subseteq Deliverable
  <1> SUFFICES ASSUME NEW p \in Payloads, p \in Deliverable', payload[p].tag # None
               PROVE  NodeDeliverable(p)
    BY DEF Deliverable
  <1>s. PICK s \in Sender : s = payload[p].tag
    BY FieldTypes
  <1>t. PICK t \in Targets : t = s.target
    BY DEF Sender
  <1>1. payload'[p].tag = s /\ s # None
    BY <1>s, TagsKept
  <1>2. ~mailbox'.closed /\ ~target'[t].closed /\ target'[t].generation = s.generation
    BY <1>t, <1>1 DEF Deliverable, NodeDeliverable, Current
  <1>3. s.generation <= target[t].generation
    BY <1>s, <1>t DEF SendersFresh, Fresh
  <1>4. ~mailbox.closed /\ ~target[t].closed /\ target'[t].generation >= target[t].generation
    BY <1>2, NothingReopens
  <1>5. target[t].generation \in Nat /\ s.generation \in Nat
    BY FieldTypes DEF Sender
  <1>6. target[t].generation = s.generation
    BY <1>2, <1>3, <1>4, <1>5
  <1> QED
    BY <1>s, <1>t, <1>4, <1>6 DEF NodeDeliverable, Current

\* Where a payload is in the life of a task.
StatesKnown ==
    \A p \in Payloads :
       StateOf(p) = IF payload[p].tag = None THEN "new"
                    ELSE IF payload[p].destroyed > 0
                         THEN IF payload[p].ran = None THEN "cancelled" ELSE "done"
                    ELSE IF ~Owned(p) THEN "offered"
                    ELSE IF payload[p].ran # None THEN "running" ELSE "pending"

LEMMA StatesAreKnown == TypeOK /\ PlacedOnce => StatesKnown
  BY OwnerHas DEF StatesKnown, StateOf, Owned

\* What a step that is about p does to the states of the tasks.
Moves(p, from, to) ==
    /\ StateOf(p) = from /\ StateOf(p)' = to
    /\ \A q \in Payloads \ {p} : StateOf(q)' = StateOf(q)

\* The states of the tasks, and of p in each of its places.
LEMMA StatesFollow ==
  ASSUME TypeOK, PlacedOnce, TypeOK', PlacedOnce', NEW p \in Payloads,
         NEW tag, NEW ran, NEW destroyed, Becomes(p, tag, ran, destroyed),
         \A q \in Payloads \ {p} : IsHeld(q)' <=> IsHeld(q)
  PROVE  /\ StateOf(p) = IF payload[p].tag = None THEN "new"
                         ELSE IF payload[p].destroyed > 0
                              THEN IF payload[p].ran = None THEN "cancelled" ELSE "done"
                         ELSE IF ~Owned(p) THEN "offered"
                         ELSE IF payload[p].ran # None THEN "running" ELSE "pending"
         /\ StateOf(p)' = IF tag = None THEN "new"
                          ELSE IF destroyed > 0 THEN IF ran = None THEN "cancelled" ELSE "done"
                          ELSE IF ~Owned(p)' THEN "offered"
                          ELSE IF ran # None THEN "running" ELSE "pending"
         /\ \A q \in Payloads \ {p} : StateOf(q)' = StateOf(q)
  <1>1. StatesKnown
    BY StatesAreKnown
  <1>2. StatesKnown'
    BY StatesAreKnown, PTL
  <1>3. \A q \in Payloads \ {p} : payload'[q].tag = payload[q].tag /\ (Owned(q)' <=> Owned(q))
    BY OwnedFollows
  <1>4. /\ payload'[p].tag = tag /\ payload'[p].ran = ran /\ payload'[p].destroyed = destroyed
        /\ \A q \in Payloads \ {p} : /\ payload'[q].ran = payload[q].ran
                                     /\ payload'[q].destroyed = payload[q].destroyed
    BY DEF Becomes
  <1>5. \A q \in Payloads \ {p} : StateOf(q)' = StateOf(q)
    BY <1>1, <1>2, <1>3, <1>4 DEF StatesKnown
  <1> QED
    BY <1>1, <1>2, <1>4, <1>5 DEF StatesKnown

LEMMA StaysStates ==
  ASSUME TypeOK, PlacedOnce, TypeOK', PlacedOnce', Stays
  PROVE  \A q \in Payloads : StateOf(q)' = StateOf(q)
  <1>1. StatesKnown
    BY StatesAreKnown
  <1>2. StatesKnown'
    BY StatesAreKnown, PTL
  <1>3. \A q : Owned(q)' <=> Owned(q)
    BY SamePlacesKept DEF Stays, Owned
  <1>4. payload' = payload
    BY DEF Stays
  <1> QED
    BY <1>1, <1>2, <1>3, <1>4 DEF StatesKnown

\* The abstract variables, before and after.
LEMMA DeliveryInit ==
  ASSUME Init
  PROVE  Delivery!Init
  <1>1. Chain = <<>> /\ Deliverable = Payloads /\ \A p \in Payloads : StateOf(p) = "new"
    BY DEF Init, Chain, Deliverable, StateOf
  <1>2. [p \in Payloads |-> StateOf(p)] = [p \in Payloads |-> "new"]
    BY <1>1
  <1> QED
    BY <1>1, <1>2 DEF Delivery!Init, Chain, Deliverable

LEMMA DeliveryMove ==
  ASSUME NEW p \in Payloads, NEW from, NEW to, NEW S, from \in S, Moves(p, from, to)
  PROVE  Delivery!Move(p, S, to)
  <1>1. [q \in Payloads |-> StateOf(q)]' = [[q \in Payloads |-> StateOf(q)] EXCEPT ![p] = to]
    BY DEF Moves
  <1>2. [q \in Payloads |-> StateOf(q)][p] = from
    BY DEF Moves
  <1> QED
    BY <1>1, <1>2 DEF Delivery!Move

\* A step of the mailbox as a step of TaskDelivery.
LEMMA StaysDelivers ==
  ASSUME TypeOK, PlacedOnce, TypeOK', PlacedOnce', Stays
  PROVE  Delivery!Revoke
  <1>1. [q \in Payloads |-> StateOf(q)]' = [q \in Payloads |-> StateOf(q)]
    BY StaysStates
  <1>2. Chain' = Chain
    BY DEF Stays, SamePlaces
  <1> QED
    BY <1>1, <1>2 DEF Delivery!Revoke, Chain

LEMMA RefusesDelivers ==
  ASSUME TypeOK, PlacedOnce, TypeOK', PlacedOnce', NEW p \in Payloads, Refuses(p)
  PROVE  Delivery!Refuse(p)
  <1>1. /\ payload[p].tag = None /\ Chain' = Chain
        /\ \A q : IsHeld(q)' <=> IsHeld(q)
    BY HeldIsKept DEF Refuses, SamePlaces
  <1>2. PICK s \in Sender : Becomes(p, s, payload[p].ran, payload[p].destroyed + 1)
    BY DEF Refuses
  <1>3. payload[p].destroyed + 1 > 0 /\ payload[p].ran = None /\ s # None
    BY <1>1, NewIsNowhere, NoneIsNothing
  <1>4. Moves(p, "new", "cancelled")
    BY <1>1, <1>2, <1>3, StatesFollow DEF Moves
  <1>5. Delivery!Move(p, {"new", "offered"}, "cancelled")
    BY <1>4, DeliveryMove
  <1> QED
    BY <1>1, <1>5 DEF Delivery!Refuse, Chain

LEMMA OffersDelivers ==
  ASSUME TypeOK, PlacedOnce, TypeOK', PlacedOnce',
         NEW p \in Payloads, NEW th \in Threads, Offers(th, p)
  PROVE  Delivery!Offer(p)
  <1>1. /\ payload[p].tag = None /\ Chain' = Chain
        /\ thread[th].held = None /\ thread'[th].held = p
        /\ \A x \in Threads \ {th} : thread'[x].held = thread[x].held
    BY DEF Offers, SamePlaces
  <1>2. PICK s \in Sender : Becomes(p, s, payload[p].ran, payload[p].destroyed)
    BY DEF Offers
  <1>3. IsHeld(p)' /\ \A q \in Payloads \ {p} : IsHeld(q)' <=> IsHeld(q)
    BY <1>1, NoneIsNothing DEF IsHeld
  <1>4. ~Owned(p)'
    BY <1>2, <1>3, OwnedFollows
  <1>5. payload[p].destroyed = 0 /\ s # None
    BY <1>1, NewIsNowhere, NoneIsNothing
  <1>6. Moves(p, "new", "offered")
    BY <1>1, <1>2, <1>3, <1>4, <1>5, StatesFollow DEF Moves
  <1>7. Delivery!Move(p, {"new"}, "offered")
    BY <1>6, DeliveryMove
  <1> QED
    BY <1>1, <1>7 DEF Delivery!Offer, Chain

LEMMA GivesUpDelivers ==
  ASSUME TypeOK, PlacedOnce, TypeOK', PlacedOnce', NEW th \in Threads, GivesUp(th)
  PROVE  \E p \in Payloads : Delivery!Refuse(p)
  <1>p. PICK p : p = thread[th].held
    OBVIOUS
  <1>1. /\ LetsGo(th) /\ Chain' = Chain
        /\ Becomes(p, payload[p].tag, payload[p].ran, payload[p].destroyed + 1)
    BY <1>p DEF GivesUp, Destroyed, SamePlaces
  <1>2. /\ p \in Payloads /\ IsHeld(p) /\ ~IsHeld(p)'
        /\ \A q \in Payloads \ {p} : IsHeld(q)' <=> IsHeld(q)
    BY <1>p, <1>1, LetsGoPlaced DEF PlacedOnce
  <1>3. Live(p) /\ payload[p].ran = None
    BY <1>2 DEF PlacedOnce, Placed
  <1>4. ~Owned(p)
    BY <1>1, <1>2, OwnedFollows
  <1>5. payload[p].tag # None /\ payload[p].destroyed = 0
    BY <1>3 DEF Live
  <1>6. Moves(p, "offered", "cancelled")
    BY <1>1, <1>2, <1>3, <1>4, <1>5, StatesFollow DEF Moves
  <1>7. Delivery!Move(p, {"new", "offered"}, "cancelled")
    BY <1>2, <1>6, DeliveryMove
  <1> QED
    BY <1>1, <1>2, <1>7 DEF Delivery!Refuse, Chain

LEMMA AppendsDelivers ==
  ASSUME TypeOK, PlacedOnce, TypeOK', PlacedOnce', NEW th \in Threads, Appends(th)
  PROVE  \E p \in Payloads : Delivery!Accept(p)
  <1>p. PICK p : p = thread[th].held
    OBVIOUS
  <1>1. /\ LetsGo(th) /\ Chain' = Append(Chain, p)
        /\ Becomes(p, payload[p].tag, payload[p].ran, payload[p].destroyed)
    BY <1>p DEF Appends, Becomes
  <1>2. /\ p \in Payloads /\ IsHeld(p) /\ ~IsHeld(p)'
        /\ \A q \in Payloads \ {p} : IsHeld(q)' <=> IsHeld(q)
    BY <1>p, <1>1, LetsGoPlaced DEF PlacedOnce
  <1>3. Live(p) /\ payload[p].ran = None
    BY <1>2 DEF PlacedOnce, Placed
  <1>4. payload[p].tag # None /\ payload[p].destroyed = 0
    BY <1>3 DEF Live
  <1>5. ~Owned(p) /\ Owned(p)'
    BY <1>1, <1>2, <1>4, OwnedFollows
  <1>6. Moves(p, "offered", "pending")
    BY <1>1, <1>2, <1>3, <1>4, <1>5, StatesFollow DEF Moves
  <1>7. Delivery!Move(p, {"offered"}, "pending")
    BY <1>2, <1>6, DeliveryMove
  <1> QED
    BY <1>1, <1>2, <1>7 DEF Delivery!Accept, Chain

LEMMA DropsDelivers ==
  ASSUME TypeOK, PlacedOnce, TypeOK', PlacedOnce', NEW i \in DOMAIN Chain, Drops(i)
  PROVE  \E p \in Payloads : Delivery!Drop(p)
  <1>p. PICK p : p = Chain[i]
    OBVIOUS
  <1>1. /\ ~NodeDeliverable(p) /\ Chain' = RemoveAt(Chain, i) /\ HeldKept
        /\ Becomes(p, payload[p].tag, payload[p].ran, payload[p].destroyed + 1)
    BY <1>p DEF Drops, Destroyed
  <1>2. p \in Payloads /\ InChain(p)
    BY <1>p, ChainPlaces
  <1>3. \A q \in Payloads \ {p} : IsHeld(q)' <=> IsHeld(q)
    BY <1>1, HeldIsKept
  <1>4. Live(p) /\ payload[p].ran = None /\ Owned(p)
    BY <1>2 DEF PlacedOnce, Placed, Owned
  <1>5. payload[p].tag # None /\ payload[p].destroyed = 0
    BY <1>4 DEF Live
  <1>6. Moves(p, "pending", "cancelled")
    BY <1>1, <1>2, <1>3, <1>4, <1>5, StatesFollow DEF Moves
  <1>7. Delivery!Move(p, {"pending"}, "cancelled")
    BY <1>2, <1>6, DeliveryMove
  <1>8. \E j \in DOMAIN Chain : Chain[j] = p /\ Chain' = RemoveAt(Chain, j)
    BY <1>p, <1>1
  <1>9. p \notin Deliverable
    BY <1>1, <1>5 DEF Deliverable
  <1>10. \E j \in DOMAIN Chain : Chain[j] = p /\ Chain' = Delivery!RemoveAt(Chain, j)
    BY <1>8 DEF Delivery!RemoveAt, RemoveAt
  <1>11. Delivery!Drop(p)
    BY <1>7, <1>9, <1>10 DEF Delivery!Drop, Chain, Deliverable
  <1> QED
    BY <1>2, <1>11

LEMMA StartsDelivers ==
  ASSUME TypeOK, PlacedOnce, TypeOK', PlacedOnce', NEW c \in Contexts, Starts(c)
  PROVE  \E p \in Payloads : Delivery!Start(p)
  <1>p. PICK p : p = Head(Chain)
    OBVIOUS
  <1>1. /\ Chain # <<>> /\ NodeDeliverable(p) /\ Chain' = Tail(Chain) /\ owner'.running = p
        /\ HeldKept /\ Becomes(p, payload[p].tag, c, payload[p].destroyed)
    BY <1>p DEF Starts
  <1>2. p \in Payloads /\ InChain(p)
    <2> DEFINE s == Chain
    <2>1. s \in Seq(Payloads) /\ s # <<>>
      BY <1>1, ChainParts
    <2>2. 1 \in DOMAIN s /\ s[1] = Head(s)
      <3> HIDE DEF s
      <3> QED
        BY <2>1, FirstRemoved
    <2> QED
      BY <1>p, <2>2, ChainPlaces
  <1>3. \A q \in Payloads \ {p} : IsHeld(q)' <=> IsHeld(q)
    BY <1>1, HeldIsKept
  <1>4. Live(p) /\ payload[p].ran = None /\ Owned(p) /\ Owned(p)'
    BY <1>1, <1>2 DEF PlacedOnce, Placed, Owned
  <1>5. payload[p].tag # None /\ payload[p].destroyed = 0 /\ c # None
    BY <1>4, NoneIsNothing DEF Live
  <1>6. Moves(p, "pending", "running")
    BY <1>1, <1>2, <1>3, <1>4, <1>5, StatesFollow DEF Moves
  <1>7. Delivery!Move(p, {"pending"}, "running")
    BY <1>2, <1>6, DeliveryMove
  <1> QED
    BY <1>p, <1>1, <1>2, <1>7 DEF Delivery!Start, Chain

LEMMA StartsNowDelivers ==
  ASSUME TypeOK, PlacedOnce, TypeOK', PlacedOnce',
         NEW p \in Payloads, NEW s \in Sender, NEW c \in Contexts, StartsNow(p, s, c)
  PROVE  Delivery!StartNow(p)
  <1>1. /\ payload[p].tag = None /\ Chain' = Chain
        /\ Becomes(p, s, c, payload[p].destroyed) /\ \A q : IsHeld(q)' <=> IsHeld(q)
    BY HeldIsKept DEF StartsNow
  <1>2. /\ payload[p].destroyed = 0 /\ ~IsHeld(p) /\ s # None /\ c # None
    BY <1>1, NewIsNowhere, NoneIsNothing
  <1>3. Owned(p)'
    BY <1>1, <1>2, OwnedFollows
  <1>4. Moves(p, "new", "running")
    BY <1>1, <1>2, <1>3, StatesFollow DEF Moves
  <1>5. Delivery!Move(p, {"new"}, "running")
    BY <1>4, DeliveryMove
  <1> QED
    BY <1>1, <1>5 DEF Delivery!StartNow, Chain

\* A task that ran is destroyed.
LEMMA FinishesDelivers ==
  ASSUME TypeOK, PlacedOnce, TypeOK', PlacedOnce', NEW p \in Payloads,
         InInline(p) \/ owner.running = p, Destroyed(p), HeldKept, Chain' = Chain
  PROVE  Delivery!Finish(p)
  <1>1. /\ Becomes(p, payload[p].tag, payload[p].ran, payload[p].destroyed + 1)
        /\ \A q : IsHeld(q)' <=> IsHeld(q)
    BY HeldIsKept DEF Destroyed
  <1>2. Live(p) /\ payload[p].ran # None /\ Owned(p)
    BY DEF PlacedOnce, Placed, Owned
  <1>3. payload[p].tag # None /\ payload[p].destroyed = 0
    BY <1>2 DEF Live
  <1>4. Moves(p, "running", "done")
    BY <1>1, <1>2, <1>3, StatesFollow DEF Moves
  <1>5. Delivery!Move(p, {"running"}, "done")
    BY <1>4, DeliveryMove
  <1> QED
    BY <1>5 DEF Delivery!Finish, Chain

LEMMA ReturnsDelivers ==
  ASSUME TypeOK, PlacedOnce, TypeOK', PlacedOnce', Returns \/ ReturnsNow
  PROVE  \E p \in Payloads : Delivery!Finish(p)
  <1>1. CASE Returns
    <2>1. /\ owner.running \in Payloads /\ Destroyed(owner.running) /\ HeldKept /\ Chain' = Chain
      BY <1>1 DEF Returns
    <2> QED
      BY <2>1, FinishesDelivers
  <1>2. CASE ReturnsNow
    <2>p. PICK p : p = Last(owner.inline)
      OBVIOUS
    <2> DEFINE s == owner.inline
    <2>1. s \in Seq(Payloads) /\ s # <<>> /\ p = Last(s)
      BY <1>2, <2>p, FieldTypes DEF ReturnsNow
    <2>2. p \in Payloads /\ Contains(s, p)
      <3> HIDE DEF s
      <3>1. Len(s) \in DOMAIN s /\ s[Len(s)] = Last(s)
        BY <2>1, LastRemoved
      <3> QED
        BY <2>1, <3>1 DEF Contains
    <2>3. p \in Payloads /\ InInline(p)
      BY <2>2 DEF InInline
    <2>4. Destroyed(p) /\ HeldKept /\ Chain' = Chain
      BY <1>2, <2>p DEF ReturnsNow
    <2> QED
      BY <2>3, <2>4, FinishesDelivers
  <1> QED
    BY <1>1, <1>2

LEMMA DeliveryStep ==
  ASSUME TypeOK, TypeOK', WellFormed, CallsWellFormed, HeldAreTheirs, SendersFresh,
         PlacedOnce, PlacedOnce', [Next]_vars
  PROVE  Delivery!Next
  <1>1. \/ Delivery!Revoke
        \/ \E p \in Payloads :
              \/ Delivery!Offer(p) \/ Delivery!Refuse(p) \/ Delivery!Accept(p)
              \/ Delivery!Start(p) \/ Delivery!StartNow(p) \/ Delivery!Drop(p)
              \/ Delivery!Finish(p)
    <2>1. CASE Rests \/ HandleMoves
      <3>1. Stays
        BY <2>1 DEF Rests, HandleMoves, NewSender, LostSender, NewTarget, LostTarget, LostMailbox
      <3> QED
        BY <3>1, StaysDelivers
    <2> QED
      BY <2>1, StepFlow, RefusesDelivers, OffersDelivers, StartsNowDelivers, GivesUpDelivers,
         AppendsDelivers, DropsDelivers, StartsDelivers, ReturnsDelivers
  <1>2. Deliverable' \subseteq Deliverable
    BY RevokedForGood
  <1> QED
    BY <1>1, <1>2 DEF Delivery!Next, Deliverable

-----------------------------------------------------------------------------
(* The theorems.                                                           *)

\* What the theorems below rest on, besides the invariant of
\* OwnerMailboxProofs.
DInv ==
    /\ CallsWellFormed /\ HeldAreTheirs /\ PlacedOnce
    /\ RefsExact /\ HoldersFinite

LEMMA DeliveryInvariantStep == IInv /\ IInv' /\ DInv /\ [Next]_vars => DInv'
  BY CallsWellFormedStep, HeldAreTheirsStep, PlacedOnceStep, RefsStep DEF IInv, DInv

LEMMA DeliveryInvariance == Spec => [](IInv /\ DInv)
  <1>1. Init => IInv /\ DInv
    BY InvariantInit, PlacedInit, RefsInit DEF DInv
  <1>2. (IInv /\ DInv) /\ [Next]_vars => (IInv /\ DInv)'
    BY InvariantStep, DeliveryInvariantStep
  <1> QED
    BY <1>1, <1>2, PTL DEF Spec

\* "destroy is called exactly once": from the call of postOwned until its
\* destroy a payload is in exactly one place, the posting thread, the queue, a
\* batch that a drain or a close took, a hand-off or the running callback.
THEOREM PayloadHasOneOwner == Spec => []OneOwnerUntilDestroyed
  <1>1. IInv /\ DInv => OneOwnerUntilDestroyed
    BY OneOwner DEF IInv, DInv
  <1> QED
    BY <1>1, DeliveryInvariance, PTL

\* The reference counts of the mailbox and of every target count the handles,
\* the Senders and the nodes that exist: no core is freed while somebody can
\* reach it, and none leaks.
THEOREM ReferencesExact == Spec => []RefsExact
  <1>1. DInv => RefsExact
    BY DEF DInv
  <1> QED
    BY <1>1, DeliveryInvariance, PTL

\* The assertions of releaseTarget and releaseMailbox hold: a core is freed
\* closed, with no producer inside and nothing queued.
THEOREM LastReleasesClean == Spec => []LastReleaseAsserts
  <1>1. IInv /\ DInv => LastReleaseAsserts
    BY LastReleases DEF IInv, DInv
  <1> QED
    BY <1>1, DeliveryInvariance, PTL

\* The mailbox implements TaskDelivery: every task is refused, or queued at the
\* back of one FIFO; it starts only from the front, and only while its
\* target has not been invalidated, renewed or closed; it ends once.
THEOREM MailboxImplementsTaskDelivery == Spec => ImplementsTaskDelivery
  <1>1. Init => Delivery!Init
    BY DeliveryInit
  <1>2. (IInv /\ DInv) /\ (IInv /\ DInv)' /\ [Next]_vars => [Delivery!Next]_(Delivery!vars)
    BY DeliveryStep DEF IInv, DInv
  <1> QED
    BY <1>1, <1>2, DeliveryInvariance, PTL DEF Spec, ImplementsTaskDelivery, Delivery!Spec
=============================================================================
