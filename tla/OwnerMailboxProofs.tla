------------------------- MODULE OwnerMailboxProofs -------------------------
(***************************************************************************)
(* Theorems about OwnerMailbox, for every number of producers, targets and *)
(* payloads and every bound.                                               *)
(***************************************************************************)
EXTENDS OwnerMailbox, FiniteSetTheorems, TLAPS

\* What the code takes for granted between the steps of one call: a thread in
\* postOwned has its Sender, and its payload until it is queued or given up; a
\* lifecycle call on a target names it; a payload in a drain was posted; an
\* open target has a context.
ThreadsWellFormed ==
    \A th \in Threads :
       /\ thread[th].pc # "idle" => thread[th].sender # None
       /\ thread[th].pc \in {"target", "mailbox"} =>
             thread[th].held # None /\ payload[thread[th].held].tag # None

OwnerWellFormed ==
    /\ owner.op \in TargetOps <=> owner.target # None
    /\ owner.op = "renew" => owner.context # None
    /\ owner.op \in {"closeTarget", "deinitTarget"} => target[owner.target].closed

OpenTargetsHaveContext ==
    \A t \in Targets :
        target[t].handle = "open" /\ ~target[t].closed => target[t].context # None

QueuedWerePosted ==
    /\ \A i \in DOMAIN mailbox.queue : payload[mailbox.queue[i]].tag # None
    /\ \A i \in DOMAIN owner.batch : payload[owner.batch[i]].tag # None

WellFormed ==
    ThreadsWellFormed /\ OwnerWellFormed /\ OpenTargetsHaveContext /\ QueuedWerePosted

LEMMA NoneIsNothing ==
  None \notin Targets /\ None \notin Payloads /\ None \notin Contexts /\ None \notin Sender
  BY MailboxAssumption

LEMMA OwnerIsAThread == Owner \in Threads
  BY DEF Threads

-----------------------------------------------------------------------------
(* Types of the updates the actions share.                                 *)

LEMMA MailboxUpdates ==
  ASSUME mailbox \in MailboxType
  PROVE  /\ \A k \in Nat : [mailbox EXCEPT !.active = k] \in MailboxType
         /\ \A s \in Seq(Payloads) : [mailbox EXCEPT !.queue = s] \in MailboxType
         /\ [mailbox EXCEPT !.closed = TRUE] \in MailboxType
         /\ [mailbox EXCEPT !.handle = FALSE] \in MailboxType
  BY DEF MailboxType

LEMMA TargetUpdates ==
  ASSUME target \in [Targets -> TargetType], NEW t \in Targets
  PROVE  /\ \A k \in Nat :
               /\ [target EXCEPT ![t].active = k] \in [Targets -> TargetType]
               /\ [target EXCEPT ![t].generation = k] \in [Targets -> TargetType]
         /\ \A h \in {"none", "open", "gone"}, c \in Contexts \cup {None} :
               [target EXCEPT ![t].context = c, ![t].handle = h] \in [Targets -> TargetType]
         /\ \A n \in Nat :
               [target EXCEPT ![t].closed = TRUE, ![t].generation = n]
                  \in [Targets -> TargetType]
  <1>1. target[t] \in TargetType
    OBVIOUS
  <1>2. ASSUME NEW r \in TargetType
        PROVE  [target EXCEPT ![t] = r] \in [Targets -> TargetType]
    OBVIOUS
  <1>3. \A k \in Nat : /\ [target[t] EXCEPT !.active = k] \in TargetType
                      /\ [target[t] EXCEPT !.generation = k] \in TargetType
    BY <1>1 DEF TargetType
  <1>4. \A h \in {"none", "open", "gone"}, c \in Contexts \cup {None} :
          [target[t] EXCEPT !.context = c, !.handle = h] \in TargetType
    BY <1>1 DEF TargetType
  <1>5. \A n \in Nat : [target[t] EXCEPT !.closed = TRUE, !.generation = n] \in TargetType
    BY <1>1 DEF TargetType
  <1>6. ASSUME NEW k \in Nat
        PROVE  /\ [target EXCEPT ![t].active = k] \in [Targets -> TargetType]
               /\ [target EXCEPT ![t].generation = k] \in [Targets -> TargetType]
    BY <1>2, <1>3
  <1>7. ASSUME NEW h \in {"none", "open", "gone"}, NEW c \in Contexts \cup {None}
        PROVE  [target EXCEPT ![t].context = c, ![t].handle = h] \in [Targets -> TargetType]
    <2>1. [target EXCEPT ![t].context = c, ![t].handle = h]
            = [target EXCEPT ![t] = [target[t] EXCEPT !.context = c, !.handle = h]]
      OBVIOUS
    <2> QED
      BY <1>2, <1>4, <2>1
  <1>8. ASSUME NEW n \in Nat
        PROVE  [target EXCEPT ![t].closed = TRUE, ![t].generation = n] \in [Targets -> TargetType]
    <2>1. [target EXCEPT ![t].closed = TRUE, ![t].generation = n]
            = [target EXCEPT ![t] = [target[t] EXCEPT !.closed = TRUE, !.generation = n]]
      OBVIOUS
    <2> QED
      BY <1>2, <1>5, <2>1
  <1> QED
    BY <1>6, <1>7, <1>8

LEMMA ThreadUpdates ==
  ASSUME thread \in [Threads -> ThreadType], NEW th \in Threads
  PROVE  /\ \A place \in InTargetSection \cup {"idle"} :
               /\ [thread EXCEPT ![th].pc = place] \in [Threads -> ThreadType]
               /\ \A p \in Payloads \cup {None} :
                     [thread EXCEPT ![th].pc = place, ![th].held = p] \in [Threads -> ThreadType]
         /\ \A s \in Sender \cup {None} :
               [thread EXCEPT ![th].sender = s] \in [Threads -> ThreadType]
  BY ZenonT(60) DEF ThreadType

LEMMA OwnerUpdates ==
  ASSUME owner \in OwnerType
  PROVE  /\ \A s \in Seq(Payloads), o \in DisposeOps :
               [owner EXCEPT !.dying = s, !.op = o] \in OwnerType
         /\ \A s \in Seq(Payloads) : [owner EXCEPT !.dying = s] \in OwnerType
         /\ \A s \in Seq(Payloads) : [owner EXCEPT !.batch = s] \in OwnerType
         /\ \A s \in Seq(Payloads) : [owner EXCEPT !.inline = s] \in OwnerType
         /\ \A s \in Seq(Payloads) : [owner EXCEPT !.draining = TRUE, !.batch = s] \in OwnerType
         /\ \A s \in Seq(Payloads), p \in Payloads :
               [owner EXCEPT !.running = p, !.batch = s] \in OwnerType
         /\ [owner EXCEPT !.running = None] \in OwnerType
         /\ \A b \in BOOLEAN : [owner EXCEPT !.asleep = b] \in OwnerType
         /\ [owner EXCEPT !.draining = FALSE] \in OwnerType
         /\ \A n \in TargetOps \cup MailboxOps \cup {"none"}, t \in Targets \cup {None},
               c \in Contexts \cup {None} :
                  [owner EXCEPT !.op = n, !.target = t, !.context = c] \in OwnerType
  BY ZenonT(60) DEF OwnerType

LEMMA PayloadUpdates ==
  ASSUME payload \in [Payloads -> PayloadType], NEW p \in Payloads
  PROVE  /\ \A k \in Nat : [payload EXCEPT ![p].destroyed = k] \in [Payloads -> PayloadType]
         /\ \A s \in Sender : [payload EXCEPT ![p].tag = s] \in [Payloads -> PayloadType]
         /\ \A c \in Contexts \cup {None} :
               [payload EXCEPT ![p].ran = c] \in [Payloads -> PayloadType]
         /\ \A s \in Sender, n \in Nat :
               [payload EXCEPT ![p].tag = s, ![p].destroyed = n] \in [Payloads -> PayloadType]
         /\ \A s \in Sender, c \in Contexts \cup {None} :
               [payload EXCEPT ![p].tag = s, ![p].ran = c] \in [Payloads -> PayloadType]
  BY ZenonT(60) DEF PayloadType

LEMMA RefsType ==
  ASSUME mailboxRefs \in Int, targetRefs \in [Targets -> Int], NEW t,
         RetainTarget(t) \/ ReleaseTarget(t) \/ UNCHANGED refs
  PROVE  mailboxRefs' \in Int /\ targetRefs' \in [Targets -> Int]
  BY DEF RetainTarget, ReleaseTarget, refs

-----------------------------------------------------------------------------
(* Type correctness.                                                       *)

LEMMA TypeInit == Init => TypeOK
  <1> SUFFICES ASSUME Init PROVE TypeOK
    OBVIOUS
  <1>1. mailbox \in MailboxType
    BY DEF Init, MailboxType
  <1>2. target \in [Targets -> TargetType]
    BY DEF Init, TargetType
  <1>3. thread \in [Threads -> ThreadType]
    BY DEF Init, ThreadType
  <1>4. owner \in OwnerType
    BY DEF Init, OwnerType
  <1>5. payload \in [Payloads -> PayloadType]
    BY DEF Init, PayloadType
  <1>6. host \in [wake : BOOLEAN, awake : BOOLEAN]
    BY DEF Init
  <1>7. mailboxRefs \in Int /\ targetRefs \in [Targets -> Int]
    BY DEF Init
  <1> QED
    BY <1>1, <1>2, <1>3, <1>4, <1>5, <1>6, <1>7 DEF TypeOK

LEMMA FieldTypes ==
  ASSUME TypeOK
  PROVE  /\ mailbox \in MailboxType /\ mailbox.active \in Nat
         /\ mailbox.queue \in Seq(Payloads)
         /\ target \in [Targets -> TargetType]
         /\ \A t \in Targets : /\ target[t].active \in Nat /\ target[t].generation \in Nat
                               /\ target[t].context \in Contexts \cup {None}
                               /\ target[t].handle \in {"none", "open", "gone"}
         /\ thread \in [Threads -> ThreadType]
         /\ \A th \in Threads : /\ thread[th].sender \in Sender \cup {None}
                                /\ thread[th].held \in Payloads \cup {None}
         /\ owner \in OwnerType
         /\ owner.target \in Targets \cup {None} /\ owner.context \in Contexts \cup {None}
         /\ owner.dying \in Seq(Payloads) /\ owner.batch \in Seq(Payloads)
         /\ owner.inline \in Seq(Payloads) /\ owner.running \in Payloads \cup {None}
         /\ payload \in [Payloads -> PayloadType]
         /\ \A p \in Payloads : /\ payload[p].tag \in Sender \cup {None}
                                /\ payload[p].destroyed \in Nat
         /\ mailboxRefs \in Int /\ targetRefs \in [Targets -> Int]
  <1>1. /\ mailbox \in MailboxType /\ target \in [Targets -> TargetType]
        /\ thread \in [Threads -> ThreadType] /\ owner \in OwnerType
        /\ payload \in [Payloads -> PayloadType]
        /\ mailboxRefs \in Int /\ targetRefs \in [Targets -> Int]
    BY DEF TypeOK
  <1>2. mailbox.active \in Nat /\ mailbox.queue \in Seq(Payloads)
    BY <1>1 DEF MailboxType
  <1>3. \A t \in Targets : /\ target[t].active \in Nat /\ target[t].generation \in Nat
                           /\ target[t].context \in Contexts \cup {None}
                           /\ target[t].handle \in {"none", "open", "gone"}
    BY <1>1 DEF TargetType
  <1>4. \A th \in Threads : /\ thread[th].sender \in Sender \cup {None}
                            /\ thread[th].held \in Payloads \cup {None}
    BY <1>1 DEF ThreadType
  <1>5. /\ owner.target \in Targets \cup {None} /\ owner.context \in Contexts \cup {None}
        /\ owner.dying \in Seq(Payloads) /\ owner.batch \in Seq(Payloads)
        /\ owner.inline \in Seq(Payloads) /\ owner.running \in Payloads \cup {None}
    BY <1>1 DEF OwnerType
  <1>6. \A p \in Payloads : /\ payload[p].tag \in Sender \cup {None}
                            /\ payload[p].destroyed \in Nat
    BY <1>1 DEF PayloadType
  <1> QED
    BY <1>1, <1>2, <1>3, <1>4, <1>5, <1>6

LEMMA PlacesInPost ==
  /\ {"target", "mailbox", "notify", "leaveMailbox", "leaveTarget"} = InTargetSection
  /\ \A th : ExitAfterGivingUp(th) \in InTargetSection
  BY DEF InTargetSection, InMailboxSection, ExitAfterGivingUp

\* A producer in a section is counted there, so leaving cannot go below 0.
LEMMA LeavingIsCounted ==
  ASSUME ActivePostsExact, NEW th \in Threads
  PROVE  /\ th \in ProducersInMailbox => mailbox.active \in Nat \ {0}
         /\ \A t \in Targets : th \in ProducersIn(t) => target[t].active \in Nat \ {0}
  <1>1. IsFiniteSet(Threads)
    BY MailboxAssumption, FS_AddElement DEF Threads
  <1>2. ASSUME NEW S \in SUBSET Threads, th \in S
        PROVE  Cardinality(S) \in Nat \ {0}
    <2>1. IsFiniteSet(S) /\ Cardinality(S) \in Nat
      BY <1>1, FS_Subset, FS_CardinalityType
    <2>2. Cardinality(S) # 0
      BY <2>1, <1>2, FS_EmptySet
    <2> QED
      BY <2>1, <2>2
  <1>3. ProducersInMailbox \in SUBSET Threads /\ \A t \in Targets : ProducersIn(t) \in SUBSET Threads
    BY DEF ProducersInMailbox, ProducersIn
  <1> QED
    BY <1>2, <1>3 DEF ActivePostsExact

LEMMA PostType ==
  ASSUME TypeOK, ThreadsWellFormed, ActivePostsExact, NEW th \in Threads, PostContinues(th)
  PROVE  TypeOK'
  <1>1. CASE PostEnterMailbox(th)
    <2>1. mailbox' \in MailboxType
      <3>1. mailbox.active + 1 \in Nat
        BY FieldTypes
      <3> QED
        BY <1>1, <3>1, MailboxUpdates, FieldTypes DEF PostEnterMailbox, MailboxEntered
    <2>2. thread' \in [Threads -> ThreadType]
      BY <1>1, FieldTypes, ThreadUpdates, PlacesInPost DEF PostEnterMailbox
    <2> QED
      BY <1>1, <2>1, <2>2 DEF PostEnterMailbox, TypeOK, refs
  <1>2. CASE PostGiveUp(th)
    <2>1. payload' \in [Payloads -> PayloadType]
      <3>1. thread[th].held \in Payloads
        BY <1>2, FieldTypes DEF PostGiveUp, ThreadsWellFormed
      <3>2. payload[thread[th].held].destroyed + 1 \in Nat
        BY <3>1, FieldTypes
      <3> QED
        BY <1>2, <3>1, <3>2, FieldTypes, PayloadUpdates DEF PostGiveUp, Dispose
    <2>2. thread' \in [Threads -> ThreadType]
      BY <1>2, FieldTypes, ThreadUpdates, PlacesInPost DEF PostGiveUp
    <2> QED
      BY <1>2, <2>1, <2>2 DEF PostGiveUp, TypeOK, refs
  <1>3. CASE PostAppend(th)
    <2>1. mailbox' \in MailboxType
      <3>1. thread[th].held \in Payloads
        BY <1>3, FieldTypes DEF PostAppend, ThreadsWellFormed
      <3>2. Append(mailbox.queue, thread[th].held) \in Seq(Payloads)
        BY <3>1, FieldTypes
      <3> QED
        BY <1>3, <3>2, FieldTypes, MailboxUpdates DEF PostAppend
    <2>2. thread' \in [Threads -> ThreadType]
      BY <1>3, FieldTypes, ThreadUpdates, PlacesInPost DEF PostAppend
    <2>3. mailboxRefs' \in Int /\ targetRefs' \in [Targets -> Int]
      BY <1>3, FieldTypes, RefsType DEF PostAppend
    <2> QED
      BY <1>3, <2>1, <2>2, <2>3 DEF PostAppend, TypeOK
  <1>4. CASE PostNotify(th)
    <2>1. thread' \in [Threads -> ThreadType]
      BY <1>4, FieldTypes, ThreadUpdates, PlacesInPost DEF PostNotify
    <2> QED
      BY <1>4, <2>1 DEF PostNotify, WakeHost, TypeOK, refs
  <1>5. CASE PostLeaveMailbox(th)
    <2>1. mailbox' \in MailboxType
      <3>1. mailbox.active - 1 \in Nat
        <4>1. th \in ProducersInMailbox
          BY <1>5 DEF PostLeaveMailbox, ProducersInMailbox, InMailboxSection
        <4> QED
          BY <4>1, LeavingIsCounted
      <3> QED
        BY <1>5, <3>1, FieldTypes, MailboxUpdates DEF PostLeaveMailbox
    <2>2. thread' \in [Threads -> ThreadType]
      BY <1>5, FieldTypes, ThreadUpdates, PlacesInPost DEF PostLeaveMailbox
    <2>3. owner' \in OwnerType
      BY <1>5, FieldTypes, OwnerUpdates DEF PostLeaveMailbox, Broadcast
    <2> QED
      BY <1>5, <2>1, <2>2, <2>3 DEF PostLeaveMailbox, TypeOK, refs
  <1>6. CASE PostLeaveTarget(th)
    <2>1. target' \in [Targets -> TargetType]
      <3>1. thread[th].sender.target \in Targets
        BY <1>6, FieldTypes DEF PostLeaveTarget, ThreadsWellFormed, Sender
      <3>2. target[thread[th].sender.target].active - 1 \in Nat
        <4>1. th \in ProducersIn(thread[th].sender.target)
          BY <1>6, PlacesInPost DEF PostLeaveTarget, ProducersIn
        <4> QED
          BY <3>1, <4>1, LeavingIsCounted
      <3> QED
        BY <1>6, <3>1, <3>2, FieldTypes, TargetUpdates DEF PostLeaveTarget
    <2>2. thread' \in [Threads -> ThreadType]
      BY <1>6, FieldTypes, ThreadUpdates DEF PostLeaveTarget
    <2>3. owner' \in OwnerType
      BY <1>6, FieldTypes, OwnerUpdates DEF PostLeaveTarget, Broadcast, LastOutOfTarget
    <2> QED
      BY <1>6, <2>1, <2>2, <2>3 DEF PostLeaveTarget, TypeOK, refs
  <1> QED
    BY <1>1, <1>2, <1>3, <1>4, <1>5, <1>6 DEF PostContinues

LEMMA NextPostType ==
  ASSUME TypeOK, NEW th \in Threads, NEW p \in Payloads,
         PostRefused(th, p) \/ PostEnterTarget(th, p)
  PROVE  TypeOK'
  <1>1. thread[th].sender \in Sender /\ thread[th].sender.target \in Targets
    BY FieldTypes DEF PostRefused, PostEnterTarget, CanPost, Sender
  <1>2. CASE PostRefused(th, p)
    <2>1. payload' \in [Payloads -> PayloadType]
      <3>1. payload[p].destroyed + 1 \in Nat
        BY FieldTypes
      <3> QED
        BY <1>1, <1>2, <3>1, FieldTypes, PayloadUpdates DEF PostRefused, DisposeUnposted
    <2> QED
      BY <1>2, <2>1 DEF PostRefused, TypeOK, refs
  <1>3. CASE PostEnterTarget(th, p)
    <2>1. payload' \in [Payloads -> PayloadType]
      BY <1>1, <1>3, FieldTypes, PayloadUpdates DEF PostEnterTarget
    <2>2. thread' \in [Threads -> ThreadType]
      BY <1>3, FieldTypes, ThreadUpdates, PlacesInPost DEF PostEnterTarget
    <2>3. target' \in [Targets -> TargetType]
      <3>1. target[thread[th].sender.target].active + 1 \in Nat
        BY <1>1, FieldTypes
      <3> QED
        BY <1>1, <1>3, <3>1, FieldTypes, TargetUpdates DEF PostEnterTarget
    <2> QED
      BY <1>3, <2>1, <2>2, <2>3 DEF PostEnterTarget, TypeOK, refs
  <1> QED
    BY <1>2, <1>3

LEMMA SenderHandlesType ==
  ASSUME TypeOK, OpenTargetsHaveContext, NEW th \in Threads,
         \/ \E t \in Targets : AcquireSender(th, t)
         \/ \E to \in Threads : RetainSender(th, to)
         \/ ReleaseSender(th)
  PROVE  TypeOK'
  <1>1. ASSUME NEW t \in Targets, AcquireSender(th, t)
        PROVE  TypeOK'
    <2>1. [target |-> t, generation |-> target[t].generation, context |-> target[t].context]
             \in Sender
      BY <1>1, FieldTypes DEF AcquireSender, OpenTargetsHaveContext, Sender
    <2>2. thread' \in [Threads -> ThreadType]
      BY <1>1, <2>1, FieldTypes, ThreadUpdates DEF AcquireSender
    <2>3. mailboxRefs' \in Int /\ targetRefs' \in [Targets -> Int]
      BY <1>1, FieldTypes, RefsType DEF AcquireSender
    <2> QED
      BY <1>1, <2>2, <2>3 DEF AcquireSender, TypeOK
  <1>2. ASSUME NEW to \in Threads, RetainSender(th, to)
        PROVE  TypeOK'
    <2>1. thread' \in [Threads -> ThreadType]
      BY <1>2, FieldTypes, ThreadUpdates DEF RetainSender
    <2>2. mailboxRefs' \in Int /\ targetRefs' \in [Targets -> Int]
      BY <1>2, FieldTypes, RefsType DEF RetainSender
    <2> QED
      BY <1>2, <2>1, <2>2 DEF RetainSender, TypeOK
  <1>3. CASE ReleaseSender(th)
    <2>1. thread' \in [Threads -> ThreadType]
      BY <1>3, FieldTypes, ThreadUpdates DEF ReleaseSender
    <2>2. mailboxRefs' \in Int /\ targetRefs' \in [Targets -> Int]
      BY <1>3, FieldTypes, RefsType DEF ReleaseSender
    <2> QED
      BY <1>3, <2>1, <2>2 DEF ReleaseSender, TypeOK
  <1> QED
    BY <1>1, <1>2, <1>3

LEMMA TargetLifecycleType ==
  ASSUME TypeOK, TargetLifecycle
  PROVE  TypeOK'
  <1>1. ASSUME NEW t \in Targets, NEW c \in Contexts, CreateTarget(t, c)
        PROVE  TypeOK'
    <2>1. target' \in [Targets -> TargetType]
      <3>1. target' = [target EXCEPT ![t].handle = "open", ![t].context = c]
        BY <1>1 DEF CreateTarget
      <3>2. target \in [Targets -> TargetType]
        BY FieldTypes
      <3> QED
        BY ZenonT(60), <3>1, <3>2 DEF TargetType
    <2>2. mailboxRefs' \in Int /\ targetRefs' \in [Targets -> Int]
      BY <1>1, FieldTypes DEF CreateTarget
    <2> QED
      BY <1>1, <2>1, <2>2 DEF CreateTarget, TypeOK
  <1>2. ASSUME NEW t \in Targets, NEW name \in TargetOps, NEW c \in Contexts \cup {None},
               AdvanceGeneration(t, name, c)
        PROVE  TypeOK'
    <2>1. target' \in [Targets -> TargetType]
      <3>1. target[t].generation + 1 \in Nat
        BY FieldTypes
      <3> QED
        BY <1>2, <3>1, FieldTypes, TargetUpdates DEF AdvanceGeneration, GenerationAdvanced
    <2>2. owner' \in OwnerType
      BY <1>2, FieldTypes, OwnerUpdates DEF AdvanceGeneration, BeginOp
    <2> QED
      BY <1>2, <2>1, <2>2 DEF AdvanceGeneration, TypeOK, refs
  <1>3. ASSUME NEW t \in Targets, NEW name \in {"closeTarget", "deinitTarget"},
               CloseTarget(t, name)
        PROVE  TypeOK'
    <2>1. target' \in [Targets -> TargetType]
      <3> DEFINE n == IF target[t].closed THEN target[t].generation
                                          ELSE target[t].generation + 1
      <3>1. n \in Nat
        BY FieldTypes
      <3>2. target' = [target EXCEPT ![t].closed = TRUE, ![t].generation = n]
        BY <1>3 DEF CloseTarget, MarkedClosed
      <3> HIDE DEF n
      <3> QED
        BY <3>1, <3>2, FieldTypes, TargetUpdates
    <2>2. owner' \in OwnerType
      <3>1. name \in TargetOps
        BY DEF TargetOps
      <3> QED
        BY <1>3, <3>1, FieldTypes, OwnerUpdates DEF CloseTarget, BeginOp
    <2> QED
      BY <1>3, <2>1, <2>2 DEF CloseTarget, TypeOK, refs
  <1>4. CASE FinishTargetOp
    <2> DEFINE t == owner.target
               c == IF owner.op = "invalidate" THEN target[t].context ELSE owner.context
               h == IF owner.op = "deinitTarget" THEN "gone" ELSE target[t].handle
    <2>1. target' \in [Targets -> TargetType]
      <3>1. target' = [target EXCEPT ![t].context = c, ![t].handle = h]
        BY <1>4 DEF FinishTargetOp
      <3>2. CASE t \in Targets
        <4>1. c \in Contexts \cup {None} /\ h \in {"none", "open", "gone"}
          BY <3>2, FieldTypes
        <4> HIDE DEF c, h, t
        <4> QED
          BY <3>1, <3>2, <4>1, FieldTypes, TargetUpdates
      <3>3. CASE t \notin Targets
        BY <3>1, <3>3, FieldTypes
      <3> QED
        BY <3>2, <3>3
    <2>2. owner' \in OwnerType
      BY <1>4, FieldTypes, OwnerUpdates DEF FinishTargetOp, EndOp, BeginOp
    <2>3. mailboxRefs' \in Int /\ targetRefs' \in [Targets -> Int]
      BY <1>4, FieldTypes, RefsType DEF FinishTargetOp
    <2> QED
      BY <1>4, <2>1, <2>2, <2>3 DEF FinishTargetOp, TypeOK
  <1> QED
    <2>1. {"invalidate", "renew"} \subseteq TargetOps
      BY DEF TargetOps
    <2> QED
      BY <2>1, <1>1, <1>2, <1>3, <1>4 DEF TargetLifecycle, Renew, Invalidate

LEMMA MailboxLifecycleType ==
  ASSUME TypeOK, MailboxLifecycle
  PROVE  TypeOK'
  <1>1. ASSUME NEW name \in MailboxOps, CloseMailbox(name)
        PROVE  TypeOK'
    <2>1. mailbox' \in MailboxType
      BY <1>1, FieldTypes, MailboxUpdates DEF CloseMailbox
    <2>2. owner' \in OwnerType
      BY <1>1, FieldTypes, OwnerUpdates DEF CloseMailbox, BeginOp
    <2> QED
      BY <1>1, <2>1, <2>2 DEF CloseMailbox, TypeOK, refs
  <1>2. CASE TakeQueueToDispose
    <2>1. mailbox' \in MailboxType
      <3>1. <<>> \in Seq(Payloads)
        OBVIOUS
      <3> QED
        BY <1>2, <3>1, FieldTypes, MailboxUpdates DEF TakeQueueToDispose, QueueTaken
    <2>2. owner' \in OwnerType
      BY <1>2, FieldTypes, OwnerUpdates DEF TakeQueueToDispose, DisposeOps
    <2> QED
      BY <1>2, <2>1, <2>2 DEF TakeQueueToDispose, TypeOK, refs
  <1>3. CASE DisposeQueued
    <2>1. Head(owner.dying) \in Payloads /\ Tail(owner.dying) \in Seq(Payloads)
      BY <1>3, FieldTypes DEF DisposeQueued
    <2>2. payload' \in [Payloads -> PayloadType]
      <3>1. payload[Head(owner.dying)].destroyed + 1 \in Nat
        BY <2>1, FieldTypes
      <3> QED
        BY <1>3, <2>1, <3>1, FieldTypes, PayloadUpdates DEF DisposeQueued, Dispose
    <2>3. owner' \in OwnerType
      BY <1>3, <2>1, FieldTypes, OwnerUpdates DEF DisposeQueued
    <2>4. mailboxRefs' \in Int /\ targetRefs' \in [Targets -> Int]
      BY <1>3, FieldTypes, RefsType DEF DisposeQueued
    <2> QED
      BY <1>3, <2>2, <2>3, <2>4 DEF DisposeQueued, TypeOK
  <1>4. CASE FinishMailboxOp
    <2>1. mailbox' \in MailboxType
      BY <1>4, FieldTypes, MailboxUpdates DEF FinishMailboxOp
    <2>2. owner' \in OwnerType
      BY <1>4, FieldTypes, OwnerUpdates DEF FinishMailboxOp, EndOp, BeginOp
    <2>3. mailboxRefs' \in Int
      BY <1>4, FieldTypes DEF FinishMailboxOp
    <2> QED
      BY <1>4, <2>1, <2>2, <2>3 DEF FinishMailboxOp, TypeOK
  <1> QED
    <2>1. MailboxOps = {"closeMailbox", "deinitMailbox"}
      BY DEF MailboxOps
    <2> QED
      BY <2>1, <1>1, <1>2, <1>3, <1>4 DEF MailboxLifecycle

LEMMA DrainType ==
  ASSUME TypeOK, QueuedWerePosted, Drain
  PROVE  TypeOK'
  <1> DEFINE p == Head(owner.batch)
  <1>0. owner.batch # <<>> => p \in Payloads /\ Tail(owner.batch) \in Seq(Payloads)
    BY FieldTypes
  <1>1. CASE HostWakes
    BY <1>1 DEF HostWakes, TypeOK, refs
  <1>2. CASE DrainBegin
    <2>1. mailbox' \in MailboxType
      <3>1. <<>> \in Seq(Payloads)
        OBVIOUS
      <3> QED
        BY <1>2, <3>1, FieldTypes, MailboxUpdates DEF DrainBegin, QueueTaken
    <2>2. owner' \in OwnerType
      BY <1>2, FieldTypes, OwnerUpdates DEF DrainBegin
    <2>3. host' \in [wake : BOOLEAN, awake : BOOLEAN]
      BY <1>2 DEF DrainBegin, TypeOK
    <2> QED
      BY <1>2, <2>1, <2>2, <2>3 DEF DrainBegin, TypeOK, refs
  <1>3. CASE DrainInvoke
    <2>1. p \in Payloads /\ Tail(owner.batch) \in Seq(Payloads)
      BY <1>0, <1>3 DEF DrainInvoke
    <2>2. payload[p].tag.target \in Targets
      <3>1. 1 \in DOMAIN owner.batch /\ p = owner.batch[1]
        BY <1>3, FieldTypes DEF DrainInvoke
      <3> QED
        BY <2>1, <3>1, FieldTypes DEF QueuedWerePosted, Sender
    <2>3. owner' \in OwnerType
      BY <1>3, <2>1, FieldTypes, OwnerUpdates DEF DrainInvoke
    <2>4. payload' \in [Payloads -> PayloadType]
      BY <1>3, <2>1, <2>2, FieldTypes, PayloadUpdates DEF DrainInvoke
    <2> QED
      BY <1>3, <2>3, <2>4 DEF DrainInvoke, TypeOK, refs
  <1>4. CASE DrainCancel
    <2>1. p \in Payloads /\ Tail(owner.batch) \in Seq(Payloads)
      BY <1>0, <1>4 DEF DrainCancel
    <2>2. payload' \in [Payloads -> PayloadType]
      <3>1. payload[p].destroyed + 1 \in Nat
        BY <2>1, FieldTypes
      <3> QED
        BY <1>4, <2>1, <3>1, FieldTypes, PayloadUpdates DEF DrainCancel, Dispose
    <2>3. owner' \in OwnerType
      BY <1>4, <2>1, FieldTypes, OwnerUpdates DEF DrainCancel
    <2>4. mailboxRefs' \in Int /\ targetRefs' \in [Targets -> Int]
      BY <1>4, FieldTypes, RefsType DEF DrainCancel
    <2> QED
      BY <1>4, <2>2, <2>3, <2>4 DEF DrainCancel, TypeOK
  <1>5. CASE DrainReturn
    <2>1. owner.running \in Payloads
      BY <1>5, FieldTypes DEF DrainReturn
    <2>2. payload' \in [Payloads -> PayloadType]
      <3>1. payload[owner.running].destroyed + 1 \in Nat
        BY <2>1, FieldTypes
      <3> QED
        BY <1>5, <2>1, <3>1, FieldTypes, PayloadUpdates DEF DrainReturn, Dispose
    <2>3. owner' \in OwnerType
      BY <1>5, FieldTypes, OwnerUpdates DEF DrainReturn
    <2>4. mailboxRefs' \in Int /\ targetRefs' \in [Targets -> Int]
      BY <1>5, FieldTypes, RefsType DEF DrainReturn
    <2> QED
      BY <1>5, <2>2, <2>3, <2>4 DEF DrainReturn, TypeOK
  <1>6. CASE DrainEnd
    <2>1. owner' \in OwnerType
      BY <1>6, FieldTypes, OwnerUpdates DEF DrainEnd
    <2> QED
      BY <1>6, <2>1 DEF DrainEnd, TypeOK, refs
  <1> QED
    BY <1>1, <1>2, <1>3, <1>4, <1>5, <1>6 DEF Drain

LEMMA DeliverType ==
  ASSUME TypeOK, NEW p \in Payloads, DeliverRefused(p) \/ DeliverInvoke(p)
  PROVE  TypeOK'
  <1>1. thread[Owner].sender \in Sender /\ thread[Owner].sender.target \in Targets
    BY OwnerIsAThread, FieldTypes DEF DeliverRefused, DeliverInvoke, CanDeliver, CanPost, Sender
  <1>2. CASE DeliverRefused(p)
    <2>1. payload' \in [Payloads -> PayloadType]
      <3>1. payload[p].destroyed + 1 \in Nat
        BY FieldTypes
      <3> QED
        BY <1>1, <1>2, <3>1, FieldTypes, PayloadUpdates DEF DeliverRefused, DisposeUnposted
    <2> QED
      BY <1>2, <2>1 DEF DeliverRefused, TypeOK, refs
  <1>3. CASE DeliverInvoke(p)
    <2>1. payload' \in [Payloads -> PayloadType]
      <3>1. target[thread[Owner].sender.target].context \in Contexts \cup {None}
        BY <1>1, FieldTypes
      <3> QED
        BY <1>1, <1>3, <3>1, FieldTypes, PayloadUpdates DEF DeliverInvoke
    <2>2. owner' \in OwnerType
      <3>1. Append(owner.inline, p) \in Seq(Payloads)
        BY FieldTypes
      <3> QED
        BY <1>3, <3>1, FieldTypes, OwnerUpdates DEF DeliverInvoke
    <2>3. mailboxRefs' \in Int /\ targetRefs' \in [Targets -> Int]
      BY <1>3, FieldTypes, RefsType DEF DeliverInvoke
    <2> QED
      BY <1>3, <2>1, <2>2, <2>3 DEF DeliverInvoke, TypeOK
  <1> QED
    BY <1>2, <1>3

LEMMA DeliverReturnType ==
  ASSUME TypeOK, DeliverReturn
  PROVE  TypeOK'
  <1> DEFINE p == Last(owner.inline)
  <1>1. p \in Payloads /\ Front(owner.inline) \in Seq(Payloads)
    BY FieldTypes DEF DeliverReturn, Last, Front
  <1>2. payload' \in [Payloads -> PayloadType]
    <2>1. payload[p].destroyed + 1 \in Nat
      BY <1>1, FieldTypes
    <2>2. payload' = [payload EXCEPT ![p].destroyed = @ + 1]
      BY DEF DeliverReturn, Dispose
    <2> HIDE DEF p
    <2> QED
      BY <1>1, <2>1, <2>2, FieldTypes, PayloadUpdates
  <1>3. owner' \in OwnerType
    BY <1>1, FieldTypes, OwnerUpdates DEF DeliverReturn
  <1>4. mailboxRefs' \in Int /\ targetRefs' \in [Targets -> Int]
    BY FieldTypes, RefsType DEF DeliverReturn
  <1> QED
    BY <1>2, <1>3, <1>4 DEF DeliverReturn, TypeOK

LEMMA TypeStep ==
  ASSUME TypeOK, WellFormed, ActivePostsExact, [Next]_vars
  PROVE  TypeOK'
  <1>1. CASE Sleep
    <2>1. owner' \in OwnerType
      BY <1>1, FieldTypes, OwnerUpdates DEF Sleep
    <2> QED
      BY <1>1, <2>1 DEF Sleep, TypeOK, refs
  <1>2. CASE UNCHANGED vars
    BY <1>2 DEF vars, refs, TypeOK
  <1> QED
    BY <1>1, <1>2, PostType, NextPostType, SenderHandlesType, TargetLifecycleType,
       MailboxLifecycleType, DrainType, DeliverType, DeliverReturnType
    DEF Next, WellFormed

-----------------------------------------------------------------------------
(* active_posts counts the producers.                                      *)

LEMMA SetsOfThreadsAreFinite ==
  ASSUME NEW S \in SUBSET Threads
  PROVE  IsFiniteSet(S) /\ Cardinality(S) \in Nat /\ (Cardinality(S) = 0 <=> S = {})
  <1>1. IsFiniteSet(Threads)
    BY MailboxAssumption, FS_AddElement DEF Threads
  <1> QED
    BY <1>1, FS_Subset, FS_CardinalityType, FS_EmptySet

LEMMA CountOneMoreOrLess ==
  ASSUME NEW S \in SUBSET Threads, NEW x
  PROVE  /\ x \in S => Cardinality(S \ {x}) = Cardinality(S) - 1
         /\ x \notin S => Cardinality(S \cup {x}) = Cardinality(S) + 1
  BY SetsOfThreadsAreFinite, FS_AddElement, FS_RemoveElement

\* A step that moves no producer across a section boundary and changes no
\* counter keeps the counts exact.
LEMMA CountsFrame ==
  ASSUME ActivePostsExact, mailbox'.active = mailbox.active,
         \A t \in Targets : target'[t].active = target[t].active,
         \A th \in Threads :
            /\ thread'[th].pc \in InMailboxSection <=> thread[th].pc \in InMailboxSection
            /\ thread'[th].pc \in InTargetSection <=> thread[th].pc \in InTargetSection
            /\ thread[th].pc \in InTargetSection => thread'[th].sender = thread[th].sender
  PROVE  ActivePostsExact'
  <1>1. ProducersInMailbox' = ProducersInMailbox
    BY DEF ProducersInMailbox
  <1>2. \A t \in Targets : ProducersIn(t)' = ProducersIn(t)
    BY DEF ProducersIn
  <1> QED
    BY <1>1, <1>2 DEF ActivePostsExact

\* The effect of moving one thread, and of giving it another sender.
LEMMA ThreadMoved ==
  ASSUME TypeOK, NEW th \in Threads, NEW place, NEW p,
         \/ thread' = [thread EXCEPT ![th].pc = place]
         \/ thread' = [thread EXCEPT ![th].pc = place, ![th].held = p]
  PROVE  /\ thread'[th].pc = place
         /\ \A x \in Threads : thread'[x].sender = thread[x].sender
         /\ \A x \in Threads \ {th} : thread'[x].pc = thread[x].pc
         /\ \A x \in Threads \ {th} : thread'[x].held = thread[x].held
         /\ thread' = [thread EXCEPT ![th].pc = place] => thread'[th].held = thread[th].held
         /\ thread' = [thread EXCEPT ![th].pc = place, ![th].held = p] => thread'[th].held = p
  <1>1. thread \in [Threads -> ThreadType]
    BY FieldTypes
  <1> QED
    BY <1>1 DEF ThreadType

LEMMA SenderChanged ==
  ASSUME TypeOK, NEW th \in Threads, NEW s, thread' = [thread EXCEPT ![th].sender = s]
  PROVE  /\ thread'[th].sender = s
         /\ \A x \in Threads : thread'[x].pc = thread[x].pc /\ thread'[x].held = thread[x].held
         /\ \A x \in Threads \ {th} : thread'[x].sender = thread[x].sender
  <1>1. thread \in [Threads -> ThreadType]
    BY FieldTypes
  <1> QED
    BY <1>1 DEF ThreadType

LEMMA PostCounts ==
  ASSUME TypeOK, ThreadsWellFormed, ActivePostsExact, NEW th \in Threads, PostContinues(th)
  PROVE  ActivePostsExact'
  <1>0. target \in [Targets -> TargetType] /\ mailbox \in MailboxType
    BY FieldTypes
  <1>1. CASE PostEnterMailbox(th)
    <2>1. /\ thread'[th].pc = "mailbox"
          /\ \A x \in Threads : thread'[x].sender = thread[x].sender
          /\ \A x \in Threads \ {th} : thread'[x].pc = thread[x].pc
      BY <1>1, ThreadMoved DEF PostEnterMailbox
    <2>2. ProducersInMailbox' = ProducersInMailbox \cup {th} /\ th \notin ProducersInMailbox
      BY <1>1, <2>1 DEF ProducersInMailbox, PostEnterMailbox, InMailboxSection
    <2>3. mailbox'.active = mailbox.active + 1
      BY <1>0, <1>1 DEF PostEnterMailbox, MailboxEntered, MailboxType
    <2>4. mailbox'.active = Cardinality(ProducersInMailbox')
      BY SMTT(30), ZenonT(60), <2>2, <2>3, FS_AddElement, SetsOfThreadsAreFinite
      DEF ActivePostsExact, ProducersInMailbox
    <2>5. \A t \in Targets : ProducersIn(t)' = ProducersIn(t)
      BY <1>1, <2>1 DEF ProducersIn, PostEnterMailbox, InTargetSection, InMailboxSection
    <2> QED
      BY <1>1, <2>4, <2>5 DEF ActivePostsExact, PostEnterMailbox
  <1>2. CASE PostGiveUp(th)
    <2>1. /\ thread'[th].pc = ExitAfterGivingUp(th)
          /\ \A x \in Threads : thread'[x].sender = thread[x].sender
          /\ \A x \in Threads \ {th} : thread'[x].pc = thread[x].pc
      BY <1>2, ThreadMoved DEF PostGiveUp
    <2>2. /\ thread[th].pc = "target" => thread'[th].pc = "leaveTarget"
          /\ thread[th].pc = "mailbox" => thread'[th].pc = "leaveMailbox"
          /\ thread[th].pc \in {"target", "mailbox"}
      BY <1>2, <2>1 DEF PostGiveUp, ExitAfterGivingUp
    <2>3. UNCHANGED <<mailbox, target>>
      BY <1>2 DEF PostGiveUp
    <2> QED
      BY <2>1, <2>2, <2>3, CountsFrame DEF InTargetSection, InMailboxSection
  <1>3. CASE PostAppend(th)
    <2>1. /\ thread'[th].pc = "notify"
          /\ \A x \in Threads : thread'[x].sender = thread[x].sender
          /\ \A x \in Threads \ {th} : thread'[x].pc = thread[x].pc
      BY <1>3, ThreadMoved DEF PostAppend
    <2>2. mailbox'.active = mailbox.active
      BY <1>0, <1>3 DEF PostAppend, MailboxType
    <2> QED
      BY <1>3, <2>1, <2>2, CountsFrame DEF PostAppend, InTargetSection, InMailboxSection
  <1>4. CASE PostNotify(th)
    <2>1. /\ thread'[th].pc = "leaveMailbox"
          /\ \A x \in Threads : thread'[x].sender = thread[x].sender
          /\ \A x \in Threads \ {th} : thread'[x].pc = thread[x].pc
      BY <1>4, ThreadMoved DEF PostNotify
    <2> QED
      BY <1>4, <2>1, CountsFrame DEF PostNotify, InTargetSection, InMailboxSection
  <1>5. CASE PostLeaveMailbox(th)
    <2>1. /\ thread'[th].pc = "leaveTarget"
          /\ \A x \in Threads : thread'[x].sender = thread[x].sender
          /\ \A x \in Threads \ {th} : thread'[x].pc = thread[x].pc
      BY <1>5, ThreadMoved DEF PostLeaveMailbox
    <2>2. ProducersInMailbox' = ProducersInMailbox \ {th} /\ th \in ProducersInMailbox
      BY <1>5, <2>1 DEF ProducersInMailbox, PostLeaveMailbox, InMailboxSection
    <2>3. mailbox'.active = mailbox.active - 1
      BY <1>0, <1>5 DEF PostLeaveMailbox, MailboxType
    <2>4. mailbox'.active = Cardinality(ProducersInMailbox')
      BY SMTT(30), ZenonT(60), <2>2, <2>3, FS_RemoveElement, SetsOfThreadsAreFinite
      DEF ActivePostsExact, ProducersInMailbox
    <2>5. \A t \in Targets : ProducersIn(t)' = ProducersIn(t)
      BY <1>5, <2>1 DEF ProducersIn, PostLeaveMailbox, InTargetSection, InMailboxSection
    <2> QED
      BY <1>5, <2>4, <2>5 DEF ActivePostsExact, PostLeaveMailbox
  <1>6. CASE PostLeaveTarget(th)
    <2>0. PICK t \in Targets : t = thread[th].sender.target
      BY <1>6, FieldTypes DEF PostLeaveTarget, ThreadsWellFormed, Sender
    <2>1. /\ thread'[th].pc = "idle"
          /\ \A x \in Threads : thread'[x].sender = thread[x].sender
          /\ \A x \in Threads \ {th} : thread'[x].pc = thread[x].pc
      BY <1>6, ThreadMoved DEF PostLeaveTarget
    <2>2. ProducersInMailbox' = ProducersInMailbox
      BY <1>6, <2>1 DEF ProducersInMailbox, PostLeaveTarget, InMailboxSection
    <2>3. /\ ProducersIn(t)' = ProducersIn(t) \ {th} /\ th \in ProducersIn(t)
          /\ \A u \in Targets \ {t} : ProducersIn(u)' = ProducersIn(u)
      BY <1>6, <2>0, <2>1 DEF ProducersIn, PostLeaveTarget, InTargetSection, InMailboxSection
    <2>4. \A u \in Targets : target'[u].active = IF u = t THEN target[t].active - 1
                                                          ELSE target[u].active
      <3>1. target' = [target EXCEPT ![t].active = target[t].active - 1]
        BY <1>6, <2>0 DEF PostLeaveTarget
      <3> QED
        BY <1>0, <3>1 DEF TargetType
    <2>5. \A u \in Targets : target'[u].active = Cardinality(ProducersIn(u)')
      <3> TAKE u \in Targets
      <3>1. ProducersIn(u) \in SUBSET Threads /\ target[u].active = Cardinality(ProducersIn(u))
        BY DEF ActivePostsExact, ProducersIn
      <3>2. CASE u = t
        BY <2>3, <2>4, <3>1, <3>2, CountOneMoreOrLess
      <3>3. CASE u # t
        BY <2>3, <2>4, <3>1, <3>3
      <3> QED
        BY <3>2, <3>3
    <2> QED
      BY <1>6, <2>2, <2>5 DEF ActivePostsExact, PostLeaveTarget
  <1> QED
    BY <1>1, <1>2, <1>3, <1>4, <1>5, <1>6 DEF PostContinues

LEMMA EnterTargetCounts ==
  ASSUME TypeOK, ActivePostsExact, NEW th \in Threads, NEW p \in Payloads,
         PostEnterTarget(th, p)
  PROVE  ActivePostsExact'
  <1>0. target \in [Targets -> TargetType]
    BY FieldTypes
  <1>t. PICK t \in Targets : t = thread[th].sender.target
    BY FieldTypes DEF PostEnterTarget, CanPost, Sender
  <1>1. /\ thread'[th].pc = "target"
        /\ \A x \in Threads : thread'[x].sender = thread[x].sender
        /\ \A x \in Threads \ {th} : thread'[x].pc = thread[x].pc
    BY ThreadMoved DEF PostEnterTarget
  <1>2. ProducersInMailbox' = ProducersInMailbox
    BY <1>1 DEF ProducersInMailbox, PostEnterTarget, CanPost, InMailboxSection
  <1>p. thread[th].pc \notin InTargetSection /\ thread'[th].pc \in InTargetSection
    BY <1>1 DEF PostEnterTarget, CanPost, InTargetSection, InMailboxSection
  <1>3. /\ ProducersIn(t)' = ProducersIn(t) \cup {th} /\ th \notin ProducersIn(t)
        /\ \A u \in Targets \ {t} : ProducersIn(u)' = ProducersIn(u)
    <2> DEFINE Inside(x) == thread[x].pc \in InTargetSection
    <2>1. \A x \in Threads : Inside(x)' <=> Inside(x) \/ x = th
      BY <1>1, <1>p
    <2> HIDE DEF Inside
    <2>2. \A u \in Targets : ProducersIn(u) = {x \in Threads : Inside(x) /\ thread[x].sender.target = u}
      BY DEF ProducersIn, Inside
    <2>3. \A u \in Targets : ProducersIn(u)' = {x \in Threads : Inside(x)' /\ thread[x].sender.target = u}
      BY <1>1 DEF ProducersIn, Inside
    <2>4. ~Inside(th)
      BY <1>p DEF Inside
    <2> QED
      BY <1>t, <2>1, <2>2, <2>3, <2>4
  <1>4. \A u \in Targets : target'[u].active = IF u = t THEN target[t].active + 1
                                                        ELSE target[u].active
    <2>1. target' = [target EXCEPT ![t].active = target[t].active + 1]
      BY <1>t DEF PostEnterTarget
    <2> QED
      BY <1>0, <2>1 DEF TargetType
  <1>5. \A u \in Targets : target'[u].active = Cardinality(ProducersIn(u)')
    <2> TAKE u \in Targets
    <2>1. ProducersIn(u) \in SUBSET Threads /\ target[u].active = Cardinality(ProducersIn(u))
      BY DEF ActivePostsExact, ProducersIn
    <2>2. CASE u = t
      BY <1>3, <1>4, <2>1, <2>2, CountOneMoreOrLess
    <2>3. CASE u # t
      BY <1>3, <1>4, <2>1, <2>3
    <2> QED
      BY <2>2, <2>3
  <1> QED
    BY <1>2, <1>5 DEF ActivePostsExact, PostEnterTarget

\* What the calls on the owner thread leave alone in a target.
LEMMA LifecycleKeepsActive ==
  ASSUME TypeOK, TargetLifecycle
  PROVE  \A t \in Targets : target'[t].active = target[t].active
  <1>0. target \in [Targets -> TargetType]
    BY FieldTypes
  <1>1. ASSUME NEW t \in Targets, NEW c \in Contexts, CreateTarget(t, c)
        PROVE  \A u \in Targets : target'[u].active = target[u].active
    BY <1>0, <1>1 DEF CreateTarget, TargetType
  <1>2. ASSUME NEW t \in Targets, NEW name, NEW c, AdvanceGeneration(t, name, c)
        PROVE  \A u \in Targets : target'[u].active = target[u].active
    BY <1>0, <1>2 DEF AdvanceGeneration, GenerationAdvanced, TargetType
  <1>3. ASSUME NEW t \in Targets, NEW name, CloseTarget(t, name)
        PROVE  \A u \in Targets : target'[u].active = target[u].active
    <2> DEFINE n == IF target[t].closed THEN target[t].generation
                                        ELSE target[t].generation + 1
    <2>1. target' = [target EXCEPT ![t].closed = TRUE, ![t].generation = n]
      BY <1>3 DEF CloseTarget, MarkedClosed
    <2> HIDE DEF n
    <2> QED
      BY <1>0, <2>1 DEF TargetType
  <1>4. CASE FinishTargetOp
    <2> DEFINE t == owner.target
               c == IF owner.op = "invalidate" THEN target[t].context ELSE owner.context
               h == IF owner.op = "deinitTarget" THEN "gone" ELSE target[t].handle
    <2>1. target' = [target EXCEPT ![t].context = c, ![t].handle = h]
      BY <1>4 DEF FinishTargetOp
    <2> HIDE DEF c, h, t
    <2> QED
      BY <1>0, <2>1 DEF TargetType
  <1> QED
    BY <1>1, <1>2, <1>3, <1>4 DEF TargetLifecycle, Renew, Invalidate

LEMMA LifecycleKeepsThreads ==
  ASSUME TargetLifecycle
  PROVE  UNCHANGED <<mailbox, thread, payload>>
  BY DEF TargetLifecycle, CreateTarget, Renew, Invalidate, AdvanceGeneration, CloseTarget,
         FinishTargetOp

LEMMA OwnerStepsKeepThreads ==
  ASSUME TypeOK, MailboxLifecycle \/ Sleep \/ Drain \/ DeliverReturn
  PROVE  UNCHANGED <<target, thread>> /\ mailbox'.active = mailbox.active
  <1>0. mailbox \in MailboxType
    BY FieldTypes
  <1>1. CASE MailboxLifecycle
    <2>1. UNCHANGED <<target, thread>>
      BY <1>1 DEF MailboxLifecycle, CloseMailbox, TakeQueueToDispose, DisposeQueued, FinishMailboxOp
    <2>2. \/ mailbox' = [mailbox EXCEPT !.closed = TRUE]
          \/ mailbox' = [mailbox EXCEPT !.queue = <<>>]
          \/ mailbox' = [mailbox EXCEPT !.handle = FALSE]
          \/ mailbox' = mailbox
      BY <1>1 DEF MailboxLifecycle, CloseMailbox, TakeQueueToDispose, QueueTaken,
                  DisposeQueued, FinishMailboxOp
    <2> QED
      BY <1>0, <2>1, <2>2 DEF MailboxType
  <1>2. CASE Drain
    <2>1. UNCHANGED <<target, thread>>
      BY <1>2 DEF Drain, HostWakes, DrainBegin, DrainInvoke, DrainCancel, DrainReturn, DrainEnd
    <2>2. mailbox' = [mailbox EXCEPT !.queue = <<>>] \/ mailbox' = mailbox
      BY <1>2 DEF Drain, HostWakes, DrainBegin, QueueTaken, DrainInvoke, DrainCancel,
                  DrainReturn, DrainEnd
    <2> QED
      BY <1>0, <2>1, <2>2 DEF MailboxType
  <1>3. CASE Sleep \/ DeliverReturn
    BY <1>3 DEF Sleep, DeliverReturn
  <1> QED
    BY <1>1, <1>2, <1>3

\* Only an idle thread gets, copies into or gives up a Sender.
LEMMA SenderStepsKeepProducers ==
  ASSUME TypeOK, ThreadsWellFormed, NEW th \in Threads,
         \/ \E t \in Targets : AcquireSender(th, t)
         \/ \E to \in Threads : RetainSender(th, to)
         \/ ReleaseSender(th)
  PROVE  /\ UNCHANGED <<mailbox, target, owner, payload>>
         /\ \A x \in Threads :
               /\ thread'[x].pc = thread[x].pc /\ thread'[x].held = thread[x].held
               /\ thread[x].pc # "idle" => thread'[x].sender = thread[x].sender
  <1>1. ASSUME NEW t \in Targets, AcquireSender(th, t)
        PROVE  /\ UNCHANGED <<mailbox, target, owner, payload>>
               /\ \A x \in Threads :
                     /\ thread'[x].pc = thread[x].pc /\ thread'[x].held = thread[x].held
                     /\ thread[x].pc # "idle" => thread'[x].sender = thread[x].sender
    BY <1>1, SenderChanged DEF AcquireSender, ThreadsWellFormed
  <1>2. ASSUME NEW to \in Threads, RetainSender(th, to)
        PROVE  /\ UNCHANGED <<mailbox, target, owner, payload>>
               /\ \A x \in Threads :
                     /\ thread'[x].pc = thread[x].pc /\ thread'[x].held = thread[x].held
                     /\ thread[x].pc # "idle" => thread'[x].sender = thread[x].sender
    BY <1>2, SenderChanged DEF RetainSender, ThreadsWellFormed
  <1>3. CASE ReleaseSender(th)
    BY <1>3, SenderChanged DEF ReleaseSender
  <1> QED
    BY <1>1, <1>2, <1>3

LEMMA CountsStep ==
  ASSUME TypeOK, WellFormed, ActivePostsExact, [Next]_vars
  PROVE  ActivePostsExact'
  <1>1. ASSUME NEW th \in Threads,
               \/ \E t \in Targets : AcquireSender(th, t)
               \/ \E to \in Threads : RetainSender(th, to)
               \/ ReleaseSender(th)
        PROVE  ActivePostsExact'
    BY <1>1, SenderStepsKeepProducers, CountsFrame
    DEF WellFormed, InTargetSection, InMailboxSection
  <1>2. ASSUME NEW th \in Threads, NEW p \in Payloads, PostRefused(th, p)
        PROVE  ActivePostsExact'
    BY <1>2, CountsFrame DEF PostRefused
  <1>3. CASE TargetLifecycle
    BY <1>3, LifecycleKeepsActive, LifecycleKeepsThreads, CountsFrame
  <1>4. CASE MailboxLifecycle \/ Sleep \/ Drain \/ DeliverReturn
    BY <1>4, OwnerStepsKeepThreads, CountsFrame
  <1>5. ASSUME NEW p \in Payloads, DeliverRefused(p) \/ DeliverInvoke(p)
        PROVE  ActivePostsExact'
    BY <1>5, CountsFrame DEF DeliverRefused, DeliverInvoke
  <1>6. CASE UNCHANGED vars
    BY <1>6, CountsFrame DEF vars
  <1> QED
    BY <1>1, <1>2, <1>3, <1>4, <1>5, <1>6, PostCounts, EnterTargetCounts DEF Next, WellFormed

-----------------------------------------------------------------------------
(* What the steps leave alone.                                             *)

\* A payload keeps the Sender it was posted with, and the context it ran in.
LEMMA TagsKept ==
  ASSUME TypeOK, [Next]_vars, NEW q \in Payloads, payload[q].tag # None
  PROVE  payload'[q].tag = payload[q].tag
  <1>0. payload \in [Payloads -> PayloadType]
    BY FieldTypes
  <1>1. ASSUME NEW p, Dispose(p)
        PROVE  payload'[q].tag = payload[q].tag
    BY <1>0, <1>1 DEF Dispose, PayloadType
  <1>2. ASSUME NEW p, NEW s, payload[p].tag = None, DisposeUnposted(p, s)
        PROVE  payload'[q].tag = payload[q].tag
    BY <1>0, <1>2 DEF DisposeUnposted, PayloadType
  <1>3. ASSUME NEW p, NEW s, payload[p].tag = None, payload' = [payload EXCEPT ![p].tag = s]
        PROVE  payload'[q].tag = payload[q].tag
    BY <1>0, <1>3 DEF PayloadType
  <1>4. ASSUME NEW p, NEW c, payload' = [payload EXCEPT ![p].ran = c]
        PROVE  payload'[q].tag = payload[q].tag
    BY <1>0, <1>4 DEF PayloadType
  <1>5. ASSUME NEW p, NEW s, NEW c, payload[p].tag = None,
               payload' = [payload EXCEPT ![p].tag = s, ![p].ran = c]
        PROVE  payload'[q].tag = payload[q].tag
    BY <1>0, <1>5 DEF PayloadType
  <1>6. ASSUME NEW th \in Threads,
               \/ \E p \in Payloads : PostRefused(th, p) \/ PostEnterTarget(th, p)
               \/ PostContinues(th)
        PROVE  payload'[q].tag = payload[q].tag
    BY <1>1, <1>2, <1>3, <1>6 DEF PostRefused, PostEnterTarget, CanPost, PostContinues,
       PostEnterMailbox, PostGiveUp, PostAppend, PostNotify, PostLeaveMailbox, PostLeaveTarget
  <1>7. CASE TargetLifecycle
    BY <1>7, LifecycleKeepsThreads
  <1>8. CASE MailboxLifecycle
    BY <1>1, <1>8 DEF MailboxLifecycle, CloseMailbox, TakeQueueToDispose, DisposeQueued,
       FinishMailboxOp
  <1>9. CASE Drain
    BY <1>1, <1>4, <1>9 DEF Drain, HostWakes, DrainBegin, DrainInvoke, DrainCancel,
       DrainReturn, DrainEnd
  <1>10. ASSUME NEW p \in Payloads, DeliverRefused(p) \/ DeliverInvoke(p)
         PROVE  payload'[q].tag = payload[q].tag
    <2>1. payload[p].tag = None
      BY <1>10 DEF DeliverRefused, DeliverInvoke, CanDeliver, CanPost
    <2>2. CASE DeliverRefused(p)
      BY <1>2, <2>1, <2>2 DEF DeliverRefused
    <2>3. CASE DeliverInvoke(p)
      BY <1>5, <2>1, <2>3 DEF DeliverInvoke
    <2> QED
      BY <1>10, <2>2, <2>3
  <1>11. CASE DeliverReturn
    BY <1>1, <1>11 DEF DeliverReturn
  <1>12. ASSUME NEW th \in Threads,
                \/ \E t \in Targets : AcquireSender(th, t)
                \/ \E to \in Threads : RetainSender(th, to)
                \/ ReleaseSender(th)
         PROVE  payload'[q].tag = payload[q].tag
    BY <1>12 DEF AcquireSender, RetainSender, ReleaseSender
  <1> QED
    BY <1>6, <1>7, <1>8, <1>9, <1>10, <1>11, <1>12 DEF Next, Sleep, vars

LEMMA BeginOpEffect ==
  ASSUME TypeOK, NEW n, NEW t, NEW c, BeginOp(n, t, c)
  PROVE  /\ owner'.op = n /\ owner'.target = t /\ owner'.context = c
         /\ owner'.batch = owner.batch
  <1>1. owner \in OwnerType
    BY FieldTypes
  <1> QED
    BY <1>1 DEF BeginOp, OwnerType

\* Everything but a lifecycle call leaves the owner in the call it was in.
LEMMA OpKept ==
  ASSUME TypeOK,
         \/ \E th \in Threads : PostContinues(th)
         \/ DisposeQueued \/ Sleep \/ Drain \/ DeliverReturn
         \/ \E p \in Payloads : DeliverInvoke(p)
  PROVE  owner'.op = owner.op /\ owner'.target = owner.target /\ owner'.context = owner.context
  <1>0. owner \in OwnerType
    BY FieldTypes
  <1>1. ASSUME NEW th \in Threads, PostContinues(th)
        PROVE  owner' = owner \/ \E b \in BOOLEAN : owner' = [owner EXCEPT !.asleep = b]
    BY <1>0, <1>1 DEF PostContinues, PostEnterMailbox, PostGiveUp, PostAppend, PostNotify,
       PostLeaveMailbox, PostLeaveTarget, Broadcast, LastOutOfTarget, OwnerType
  <1>2. CASE \E th \in Threads : PostContinues(th)
    BY <1>0, <1>1, <1>2 DEF OwnerType
  <1>3. CASE DisposeQueued \/ Sleep
    BY <1>0, <1>3 DEF DisposeQueued, Sleep, OwnerType
  <1>4. CASE Drain
    BY <1>0, <1>4 DEF Drain, HostWakes, DrainBegin, DrainInvoke, DrainCancel, DrainReturn,
       DrainEnd, OwnerType
  <1>5. CASE DeliverReturn
    BY <1>0, <1>5 DEF DeliverReturn, OwnerType
  <1>6. ASSUME NEW p \in Payloads, DeliverInvoke(p)
        PROVE  owner'.op = owner.op /\ owner'.target = owner.target
               /\ owner'.context = owner.context
    BY <1>0, <1>6 DEF DeliverInvoke, OwnerType
  <1> QED
    BY <1>2, <1>3, <1>4, <1>5, <1>6

\* The effect of each lifecycle call on the fields of every target.
LEMMA LifecycleEffect ==
  ASSUME TypeOK, TargetLifecycle
  PROVE  \/ \E t \in Targets, c \in Contexts :
               /\ OwnerFree /\ target[t].handle = "none"
               /\ \A u \in Targets :
                     /\ target'[u].closed = target[u].closed
                     /\ target'[u].generation = target[u].generation
                     /\ target'[u].handle = IF u = t THEN "open" ELSE target[u].handle
                     /\ target'[u].context = IF u = t THEN c ELSE target[u].context
               /\ UNCHANGED owner
         \/ \E t \in Targets, name \in {"invalidate", "renew"}, c \in Contexts \cup {None} :
               /\ OwnerFree /\ ~target[t].closed
               /\ name = "renew" => c \in Contexts
               /\ \A u \in Targets :
                     /\ target'[u].closed = target[u].closed
                     /\ target'[u].generation =
                           IF u = t THEN target[u].generation + 1 ELSE target[u].generation
                     /\ target'[u].handle = target[u].handle
                     /\ target'[u].context = target[u].context
               /\ BeginOp(name, t, c)
         \/ \E t \in Targets, name \in {"closeTarget", "deinitTarget"} :
               /\ OwnerFree
               /\ \A u \in Targets :
                     /\ target'[u].closed = IF u = t THEN TRUE ELSE target[u].closed
                     /\ target'[u].generation >= target[u].generation
                     /\ u # t => target'[u].generation = target[u].generation
                     /\ target'[u].handle = target[u].handle
                     /\ target'[u].context = target[u].context
               /\ BeginOp(name, t, None)
         \/ /\ owner.op \in TargetOps
            /\ target[owner.target].active = 0
            /\ \A u \in Targets :
                     /\ target'[u].closed = target[u].closed
                     /\ target'[u].generation = target[u].generation
                     /\ u # owner.target => target'[u].handle = target[u].handle
                                            /\ target'[u].context = target[u].context
                     /\ u = owner.target =>
                           /\ target'[u].handle \in {target[u].handle, "gone"}
                           /\ target'[u].context = IF owner.op = "invalidate"
                                                   THEN target[u].context ELSE owner.context
            /\ EndOp
  <1>0. target \in [Targets -> TargetType]
    BY FieldTypes
  <1>1. ASSUME NEW t \in Targets, NEW c \in Contexts, CreateTarget(t, c)
        PROVE  /\ OwnerFree /\ target[t].handle = "none"
               /\ \A u \in Targets :
                     /\ target'[u].closed = target[u].closed
                     /\ target'[u].generation = target[u].generation
                     /\ target'[u].handle = IF u = t THEN "open" ELSE target[u].handle
                     /\ target'[u].context = IF u = t THEN c ELSE target[u].context
               /\ UNCHANGED owner
    <2>1. target' = [target EXCEPT ![t].handle = "open", ![t].context = c]
      BY <1>1 DEF CreateTarget
    <2>2. \A u \in Targets :
             /\ target'[u].closed = target[u].closed
             /\ target'[u].generation = target[u].generation
             /\ target'[u].handle = IF u = t THEN "open" ELSE target[u].handle
             /\ target'[u].context = IF u = t THEN c ELSE target[u].context
      BY <1>0, <2>1 DEF TargetType
    <2> QED
      BY <1>1, <2>2 DEF CreateTarget, OwnerInCode
  <1>2. ASSUME NEW t \in Targets, NEW name \in {"invalidate", "renew"}, NEW c,
               AdvanceGeneration(t, name, c)
        PROVE  /\ OwnerFree /\ ~target[t].closed
               /\ \A u \in Targets :
                     /\ target'[u].closed = target[u].closed
                     /\ target'[u].generation =
                           IF u = t THEN target[u].generation + 1 ELSE target[u].generation
                     /\ target'[u].handle = target[u].handle
                     /\ target'[u].context = target[u].context
               /\ BeginOp(name, t, c)
    <2>1. target' = [target EXCEPT ![t].generation = target[t].generation + 1]
      BY <1>2 DEF AdvanceGeneration, GenerationAdvanced
    <2>2. \A u \in Targets :
             /\ target'[u].closed = target[u].closed
             /\ target'[u].generation =
                   IF u = t THEN target[u].generation + 1 ELSE target[u].generation
             /\ target'[u].handle = target[u].handle
             /\ target'[u].context = target[u].context
      BY <1>0, <2>1 DEF TargetType
    <2> QED
      BY <1>2, <2>2 DEF AdvanceGeneration, OwnerInCode
  <1>3. ASSUME NEW t \in Targets, NEW name \in {"closeTarget", "deinitTarget"},
               CloseTarget(t, name)
        PROVE  /\ OwnerFree
               /\ \A u \in Targets :
                     /\ target'[u].closed = IF u = t THEN TRUE ELSE target[u].closed
                     /\ target'[u].generation >= target[u].generation
                     /\ u # t => target'[u].generation = target[u].generation
                     /\ target'[u].handle = target[u].handle
                     /\ target'[u].context = target[u].context
               /\ BeginOp(name, t, None)
    <2> DEFINE n == IF target[t].closed THEN target[t].generation
                                        ELSE target[t].generation + 1
    <2>1. target' = [target EXCEPT ![t].closed = TRUE, ![t].generation = n]
      BY <1>3 DEF CloseTarget, MarkedClosed
    <2>2. n \in Nat /\ n >= target[t].generation
      BY FieldTypes
    <2>3. \A u \in Targets :
             /\ target'[u].closed = IF u = t THEN TRUE ELSE target[u].closed
             /\ target'[u].generation = IF u = t THEN n ELSE target[u].generation
             /\ target'[u].handle = target[u].handle
             /\ target'[u].context = target[u].context
      <3> HIDE DEF n
      <3> QED
        BY <1>0, <2>1, <2>2 DEF TargetType
    <2>4. \A u \in Targets : target[u].closed \in BOOLEAN /\ target[u].generation \in Nat
      BY <1>0 DEF TargetType
    <2>5. \A u \in Targets : /\ target'[u].generation >= target[u].generation
                             /\ u # t => target'[u].generation = target[u].generation
      <3> HIDE DEF n
      <3> TAKE u \in Targets
      <3>1. \A k \in Nat : k >= k
        OBVIOUS
      <3>2. CASE u = t
        BY <2>2, <2>3, <3>2
      <3>3. CASE u # t
        BY <2>3, <2>4, <3>1, <3>3
      <3> QED
        BY <3>2, <3>3
    <2>6. OwnerFree /\ BeginOp(name, t, None)
      BY <1>3 DEF CloseTarget, OwnerInCode
    <2> HIDE DEF n
    <2> QED
      BY <2>3, <2>5, <2>6
  <1>4. CASE FinishTargetOp
    <2> DEFINE t == owner.target
               c == IF owner.op = "invalidate" THEN target[t].context ELSE owner.context
               h == IF owner.op = "deinitTarget" THEN "gone" ELSE target[t].handle
    <2>1. target' = [target EXCEPT ![t].context = c, ![t].handle = h]
      BY <1>4 DEF FinishTargetOp
    <2>2. \A u \in Targets :
             /\ target'[u].closed = target[u].closed
             /\ target'[u].generation = target[u].generation
             /\ target'[u].handle = IF u = t THEN h ELSE target[u].handle
             /\ target'[u].context = IF u = t THEN c ELSE target[u].context
      <3> HIDE DEF c, h, t
      <3> QED
        BY <1>0, <2>1 DEF TargetType
    <2> QED
      BY ZenonT(60), <1>4, <2>2 DEF FinishTargetOp, ProducersLeft
  <1> QED
    <2>1. \A c \in Contexts : c \in Contexts \cup {None}
      OBVIOUS
    <2> QED
      BY <1>1, <1>2, <1>3, <1>4, <2>1 DEF TargetLifecycle, Renew, Invalidate

SameTarget(t) ==
    /\ target'[t].closed = target[t].closed /\ target'[t].generation = target[t].generation
    /\ target'[t].handle = target[t].handle /\ target'[t].context = target[t].context

SameCall ==
    owner'.op = owner.op /\ owner'.target = owner.target /\ owner'.context = owner.context

LEMMA PostsKeepTargets ==
  ASSUME TypeOK, NEW th \in Threads,
         \/ \E p \in Payloads : PostRefused(th, p) \/ PostEnterTarget(th, p)
         \/ PostContinues(th)
  PROVE  \A t \in Targets : SameTarget(t)
  <1>1. target' = target \/ \E t, k : target' = [target EXCEPT ![t].active = k]
    BY ZenonT(60)
    DEF PostRefused, PostEnterTarget, PostContinues, PostEnterMailbox, PostGiveUp, PostAppend,
        PostNotify, PostLeaveMailbox, PostLeaveTarget
  <1>2. target \in [Targets -> TargetType]
    BY FieldTypes
  <1> QED
    BY <1>1, <1>2 DEF SameTarget, TargetType

\* Three kinds of steps: a lifecycle call on a target, a call on the mailbox,
\* and everything else.
LEMMA StepShape ==
  ASSUME TypeOK, WellFormed, [Next]_vars
  PROVE  \/ TargetLifecycle
         \/ /\ \A t \in Targets : SameTarget(t)
            /\ \/ SameCall
               \/ /\ MailboxLifecycle /\ owner.op \notin TargetOps
                  /\ owner'.op \notin TargetOps /\ owner'.target = None
  <1>1. ASSUME NEW th \in Threads,
               \/ \E t \in Targets : AcquireSender(th, t)
               \/ \E to \in Threads : RetainSender(th, to)
               \/ ReleaseSender(th)
        PROVE  (\A t \in Targets : SameTarget(t)) /\ SameCall
    BY <1>1 DEF AcquireSender, RetainSender, ReleaseSender, SameTarget, SameCall
  <1>2. ASSUME NEW th \in Threads, PostContinues(th)
        PROVE  (\A t \in Targets : SameTarget(t)) /\ SameCall
    BY <1>2, PostsKeepTargets, OpKept DEF SameCall
  <1>3. ASSUME NEW th \in Threads, NEW p \in Payloads, PostRefused(th, p) \/ PostEnterTarget(th, p)
        PROVE  (\A t \in Targets : SameTarget(t)) /\ SameCall
    <2>1. UNCHANGED owner
      BY <1>3 DEF PostRefused, PostEnterTarget
    <2> QED
      BY <1>3, <2>1, PostsKeepTargets DEF SameCall
  <1>4. CASE Sleep \/ Drain \/ DeliverReturn
    BY <1>4, OwnerStepsKeepThreads, OpKept DEF SameTarget, SameCall
  <1>5. ASSUME NEW p \in Payloads, DeliverRefused(p)
        PROVE  (\A t \in Targets : SameTarget(t)) /\ SameCall
    BY <1>5 DEF DeliverRefused, SameTarget, SameCall
  <1>6. ASSUME NEW p \in Payloads, DeliverInvoke(p)
        PROVE  (\A t \in Targets : SameTarget(t)) /\ SameCall
    <2>1. UNCHANGED target
      BY <1>6 DEF DeliverInvoke
    <2> QED
      BY <1>6, <2>1, OpKept DEF SameTarget, SameCall
  <1>7. CASE MailboxLifecycle
    <2>0. \A t \in Targets : SameTarget(t)
      BY <1>7, OwnerStepsKeepThreads DEF SameTarget
    <2>1. owner \in OwnerType /\ (owner.op \notin TargetOps => owner.target = None)
      BY FieldTypes DEF WellFormed, OwnerWellFormed
    <2>2. ASSUME NEW name \in MailboxOps, CloseMailbox(name)
          PROVE  owner.op \notin TargetOps /\ owner'.op \notin TargetOps /\ owner'.target = None
      BY <2>2, BeginOpEffect
      DEF CloseMailbox, OwnerInCode, OwnerFree, MailboxOps, TargetOps
    <2>3. CASE TakeQueueToDispose
      <3>1. owner'.target = owner.target /\ owner'.op \in {"disposeClose", "disposeDeinit"}
        BY <2>1, <2>3 DEF TakeQueueToDispose, OwnerType
      <3>2. owner.op \notin TargetOps
        BY <2>3 DEF TakeQueueToDispose, MailboxOps, TargetOps
      <3> QED
        BY <1>7, <2>0, <2>1, <3>1, <3>2 DEF TargetOps
    <2>4. CASE DisposeQueued
      BY <2>0, <2>4, OpKept DEF SameCall
    <2>5. CASE FinishMailboxOp
      <3>1. owner'.target = None /\ owner'.op = "none"
        BY <2>5, BeginOpEffect DEF FinishMailboxOp, EndOp
      <3>2. owner.op \notin TargetOps
        BY <2>5 DEF FinishMailboxOp, DisposeOps, TargetOps
      <3> QED
        BY <1>7, <2>0, <3>1, <3>2 DEF TargetOps
    <2> QED
      <3>1. MailboxOps = {"closeMailbox", "deinitMailbox"}
        BY DEF MailboxOps
      <3> QED
        BY <1>7, <2>0, <2>2, <2>3, <2>4, <2>5, <3>1 DEF MailboxLifecycle
  <1>8. CASE UNCHANGED vars
    BY <1>8 DEF vars, SameTarget, SameCall
  <1> QED
    BY <1>1, <1>2, <1>3, <1>4, <1>5, <1>6, <1>7, <1>8 DEF Next

-----------------------------------------------------------------------------
(* What the code takes for granted holds.                                  *)

LEMMA WellFormedInit == Init => WellFormed
  BY DEF Init, WellFormed, ThreadsWellFormed, OwnerWellFormed, OpenTargetsHaveContext,
         QueuedWerePosted, TargetOps

LEMMA OwnerWellFormedStep ==
  ASSUME TypeOK, WellFormed, [Next]_vars
  PROVE  OwnerWellFormed'
  <1>0. OwnerWellFormed /\ None \notin Targets /\ None \notin Contexts
    BY NoneIsNothing DEF WellFormed
  <1>1. CASE TargetLifecycle
    <2>1. ASSUME NEW t \in Targets, NEW name \in {"invalidate", "renew"},
                 NEW c \in Contexts \cup {None}, name = "renew" => c \in Contexts,
                 BeginOp(name, t, c)
          PROVE  OwnerWellFormed'
      BY <1>0, <2>1, BeginOpEffect DEF OwnerWellFormed, TargetOps
    <2>2. ASSUME NEW t \in Targets, NEW name \in {"closeTarget", "deinitTarget"},
                 target'[t].closed, BeginOp(name, t, None)
          PROVE  OwnerWellFormed'
      BY <1>0, <2>2, BeginOpEffect DEF OwnerWellFormed, TargetOps
    <2>3. CASE EndOp
      BY <2>3, BeginOpEffect DEF EndOp, OwnerWellFormed, TargetOps
    <2>4. CASE OwnerFree /\ UNCHANGED owner
      BY <1>0, <2>4 DEF OwnerFree, OwnerWellFormed
    <2> QED
      BY <1>1, <2>1, <2>2, <2>3, <2>4, LifecycleEffect
  <1>2. CASE (\A t \in Targets : SameTarget(t)) /\ SameCall
    <2>1. owner.target \in Targets \cup {None}
      BY FieldTypes
    <2> QED
      BY <1>0, <1>2, <2>1 DEF OwnerWellFormed, SameTarget, SameCall, TargetOps
  <1>3. CASE owner'.op \notin TargetOps /\ owner'.target = None
    BY <1>3 DEF OwnerWellFormed, TargetOps
  <1> QED
    BY <1>1, <1>2, <1>3, StepShape

LEMMA OpenTargetsStep ==
  ASSUME TypeOK, WellFormed, [Next]_vars
  PROVE  OpenTargetsHaveContext'
  <1>0. OpenTargetsHaveContext /\ OwnerWellFormed /\ None \notin Contexts
    BY NoneIsNothing DEF WellFormed
  <1>1. CASE TargetLifecycle
    <2> SUFFICES ASSUME NEW u \in Targets, target'[u].handle = "open", ~target'[u].closed
                 PROVE  target'[u].context # None
      BY DEF OpenTargetsHaveContext
    <2>1. ASSUME NEW t \in Targets, NEW c \in Contexts,
                 target'[u].closed = target[u].closed,
                 target'[u].handle = IF u = t THEN "open" ELSE target[u].handle,
                 target'[u].context = IF u = t THEN c ELSE target[u].context
          PROVE  target'[u].context # None
      BY <1>0, <2>1 DEF OpenTargetsHaveContext
    <2>2. CASE /\ target'[u].closed = target[u].closed \/ target'[u].closed
               /\ target'[u].handle = target[u].handle
               /\ target'[u].context = target[u].context
      BY <1>0, <2>2 DEF OpenTargetsHaveContext
    <2>3. ASSUME owner.op \in TargetOps, target'[u].closed = target[u].closed,
                 u # owner.target => target'[u].handle = target[u].handle
                                     /\ target'[u].context = target[u].context,
                 u = owner.target =>
                     /\ target'[u].handle \in {target[u].handle, "gone"}
                     /\ target'[u].context = IF owner.op = "invalidate"
                                             THEN target[u].context ELSE owner.context
          PROVE  target'[u].context # None
      <3>1. target[u].handle = "open" /\ ~target[u].closed /\ target[u].context # None
        BY <1>0, <2>3 DEF OpenTargetsHaveContext
      <3> QED
        BY <1>0, <2>3, <3>1 DEF OwnerWellFormed, TargetOps
    <2> QED
      BY <1>1, <2>1, <2>2, <2>3, LifecycleEffect
  <1>2. CASE \A t \in Targets : SameTarget(t)
    BY <1>0, <1>2 DEF OpenTargetsHaveContext, SameTarget
  <1> QED
    BY <1>1, <1>2, StepShape

\* A step leaves the queue as it is, empties it, or appends a posted payload.
LEMMA QueueSteps ==
  ASSUME TypeOK, WellFormed, [Next]_vars
  PROVE  \/ mailbox'.queue = mailbox.queue
         \/ mailbox'.queue = <<>>
         \/ /\ ~mailbox.closed /\ mailbox'.closed = mailbox.closed
            /\ \E p \in Payloads : /\ payload[p].tag # None
                                   /\ mailbox'.queue = Append(mailbox.queue, p)
  <1>0. mailbox \in MailboxType
    BY FieldTypes
  <1>1. ASSUME NEW th \in Threads, PostAppend(th)
        PROVE  /\ ~mailbox.closed /\ mailbox'.closed = mailbox.closed
               /\ \E p \in Payloads : /\ payload[p].tag # None
                                      /\ mailbox'.queue = Append(mailbox.queue, p)
    <2>1. thread[th].held \in Payloads /\ payload[thread[th].held].tag # None
      BY <1>1, FieldTypes DEF PostAppend, WellFormed, ThreadsWellFormed
    <2>2. ~mailbox.closed /\ mailbox' = [mailbox EXCEPT !.queue = Append(@, thread[th].held)]
      BY <1>1 DEF PostAppend
    <2>3. /\ mailbox'.queue = Append(mailbox.queue, thread[th].held)
          /\ mailbox'.closed = mailbox.closed
      BY <1>0, <2>2 DEF MailboxType
    <2> QED
      BY <2>1, <2>2, <2>3
  <1>2. ASSUME NEW k, mailbox' = [mailbox EXCEPT !.active = k]
        PROVE  mailbox'.queue = mailbox.queue
    BY <1>0, <1>2 DEF MailboxType
  <1>3. CASE \/ mailbox' = [mailbox EXCEPT !.closed = TRUE]
             \/ mailbox' = [mailbox EXCEPT !.handle = FALSE]
    BY <1>0, <1>3 DEF MailboxType
  <1>4. CASE mailbox' = [mailbox EXCEPT !.queue = <<>>]
    BY <1>0, <1>4 DEF MailboxType
  <1>5. ASSUME NEW th \in Threads, PostContinues(th)
        PROVE  \/ PostAppend(th) \/ mailbox'.queue = mailbox.queue
    BY <1>2, <1>5 DEF PostContinues, PostEnterMailbox, MailboxEntered, PostGiveUp, PostNotify,
       PostLeaveMailbox, PostLeaveTarget
  <1>6. CASE MailboxLifecycle
    BY <1>3, <1>4, <1>6 DEF MailboxLifecycle, CloseMailbox, TakeQueueToDispose, QueueTaken,
       DisposeQueued, FinishMailboxOp
  <1>7. CASE Drain
    BY <1>4, <1>7 DEF Drain, HostWakes, DrainBegin, QueueTaken, DrainInvoke, DrainCancel,
       DrainReturn, DrainEnd
  <1>8. ASSUME NEW th \in Threads,
               \/ \E p \in Payloads : PostRefused(th, p) \/ PostEnterTarget(th, p)
               \/ \E t \in Targets : AcquireSender(th, t)
               \/ \E to \in Threads : RetainSender(th, to)
               \/ ReleaseSender(th)
        PROVE  mailbox' = mailbox
    BY <1>8 DEF PostRefused, PostEnterTarget, AcquireSender, RetainSender, ReleaseSender
  <1>9. ASSUME NEW p \in Payloads, DeliverRefused(p) \/ DeliverInvoke(p)
        PROVE  mailbox' = mailbox
    BY <1>9 DEF DeliverRefused, DeliverInvoke
  <1>10. CASE Sleep \/ DeliverReturn \/ UNCHANGED vars
    BY <1>10 DEF Sleep, DeliverReturn, vars
  <1> QED
    BY <1>1, <1>5, <1>6, <1>7, <1>8, <1>9, <1>10, LifecycleKeepsThreads DEF Next

\* A drain's batch is the queue it took, and then shrinks.
LEMMA BatchSteps ==
  ASSUME TypeOK, [Next]_vars
  PROVE  \/ owner'.batch = owner.batch
         \/ owner'.batch = mailbox.queue
         \/ owner.batch # <<>> /\ owner'.batch = Tail(owner.batch)
  <1>0. owner \in OwnerType
    BY FieldTypes
  <1>1. ASSUME NEW th \in Threads, PostContinues(th)
        PROVE  owner'.batch = owner.batch
    <2>1. owner' = owner \/ \E b : owner' = [owner EXCEPT !.asleep = b]
      BY <1>1 DEF PostContinues, PostEnterMailbox, PostGiveUp, PostAppend, PostNotify,
         PostLeaveMailbox, PostLeaveTarget, Broadcast
    <2> QED
      BY <1>0, <2>1 DEF OwnerType
  <1>2. ASSUME NEW th \in Threads,
               \/ \E p \in Payloads : PostRefused(th, p) \/ PostEnterTarget(th, p)
               \/ \E t \in Targets : AcquireSender(th, t)
               \/ \E to \in Threads : RetainSender(th, to)
               \/ ReleaseSender(th)
        PROVE  owner' = owner
    BY <1>2 DEF PostRefused, PostEnterTarget, AcquireSender, RetainSender, ReleaseSender
  <1>3. CASE TargetLifecycle
    <2>1. owner' = owner \/ \E n, t, c : BeginOp(n, t, c)
      BY <1>3 DEF TargetLifecycle, CreateTarget, Renew, Invalidate, AdvanceGeneration,
         CloseTarget, FinishTargetOp, EndOp
    <2> QED
      BY <2>1, BeginOpEffect
  <1>4. CASE CloseMailbox("closeMailbox") \/ CloseMailbox("deinitMailbox") \/ FinishMailboxOp
    <2>1. \E n, t, c : BeginOp(n, t, c)
      BY <1>4 DEF CloseMailbox, FinishMailboxOp, EndOp
    <2> QED
      BY <2>1, BeginOpEffect
  <1>5. CASE TakeQueueToDispose
    BY <1>0, <1>5 DEF TakeQueueToDispose, OwnerType
  <1>6. CASE DisposeQueued \/ Sleep \/ DeliverReturn
    BY <1>0, <1>6 DEF DisposeQueued, Sleep, DeliverReturn, OwnerType
  <1>7. CASE HostWakes \/ UNCHANGED vars
    BY <1>7 DEF HostWakes, vars
  <1>8. CASE DrainBegin \/ DrainReturn \/ DrainEnd
    BY <1>0, <1>8 DEF DrainBegin, DrainReturn, DrainEnd, OwnerType
  <1>9. CASE DrainInvoke \/ DrainCancel
    BY <1>0, <1>9 DEF DrainInvoke, DrainCancel, OwnerType
  <1>10. ASSUME NEW p \in Payloads, DeliverRefused(p)
         PROVE  owner' = owner
    BY <1>10 DEF DeliverRefused
  <1>11. ASSUME NEW p \in Payloads, DeliverInvoke(p)
         PROVE  owner'.batch = owner.batch
    BY <1>0, <1>11 DEF DeliverInvoke, OwnerType
  <1> QED
    BY <1>1, <1>2, <1>3, <1>4, <1>5, <1>6, <1>7, <1>8, <1>9, <1>10, <1>11
    DEF Next, MailboxLifecycle, Drain

LEMMA QueuedWerePostedStep ==
  ASSUME TypeOK, WellFormed, [Next]_vars
  PROVE  QueuedWerePosted'
  <1>0. /\ QueuedWerePosted
        /\ mailbox.queue \in Seq(Payloads) /\ owner.batch \in Seq(Payloads)
        /\ \A p \in Payloads : payload[p].tag # None => payload'[p].tag # None
    BY FieldTypes, TagsKept DEF WellFormed
  <1>1. \A i \in DOMAIN mailbox'.queue : payload'[mailbox'.queue[i]].tag # None
    <2>1. CASE mailbox'.queue = mailbox.queue
      BY <1>0, <2>1 DEF QueuedWerePosted
    <2>2. CASE mailbox'.queue = <<>>
      BY <2>2
    <2>3. ASSUME NEW p \in Payloads, payload[p].tag # None,
                 mailbox'.queue = Append(mailbox.queue, p)
          PROVE  \A i \in DOMAIN mailbox'.queue : payload'[mailbox'.queue[i]].tag # None
      <3> TAKE i \in DOMAIN mailbox'.queue
      <3>1. \/ i \in DOMAIN mailbox.queue /\ mailbox'.queue[i] = mailbox.queue[i]
            \/ mailbox'.queue[i] = p
        BY <1>0, <2>3
      <3> QED
        BY <1>0, <2>3, <3>1 DEF QueuedWerePosted
    <2> QED
      BY <2>1, <2>2, <2>3, QueueSteps
  <1>2. \A i \in DOMAIN owner'.batch : payload'[owner'.batch[i]].tag # None
    <2>1. CASE owner'.batch = owner.batch
      BY <1>0, <2>1 DEF QueuedWerePosted
    <2>2. CASE owner'.batch = mailbox.queue
      BY <1>0, <2>2 DEF QueuedWerePosted
    <2>3. CASE owner.batch # <<>> /\ owner'.batch = Tail(owner.batch)
      <3> TAKE i \in DOMAIN owner'.batch
      <3>1. i + 1 \in DOMAIN owner.batch /\ owner'.batch[i] = owner.batch[i + 1]
        BY <1>0, <2>3
      <3> QED
        BY <1>0, <3>1 DEF QueuedWerePosted
    <2> QED
      BY <2>1, <2>2, <2>3, BatchSteps
  <1> QED
    BY <1>1, <1>2 DEF QueuedWerePosted

LEMMA ThreadsWellFormedStep ==
  ASSUME TypeOK, WellFormed, [Next]_vars
  PROVE  ThreadsWellFormed'
  <1>0. /\ ThreadsWellFormed
        /\ \A p \in Payloads : payload[p].tag # None => payload'[p].tag # None
        /\ \A x \in Threads : thread[x].held \in Payloads \cup {None}
    BY FieldTypes, TagsKept DEF WellFormed
  <1>1. CASE \A x \in Threads :
                /\ thread'[x].pc = thread[x].pc /\ thread'[x].held = thread[x].held
                /\ thread[x].pc # "idle" => thread'[x].sender = thread[x].sender
    BY <1>0, <1>1 DEF ThreadsWellFormed
  <1>m. ASSUME NEW th \in Threads,
               \A x \in Threads : thread'[x].sender = thread[x].sender,
               \A x \in Threads \ {th} :
                  thread'[x].pc = thread[x].pc /\ thread'[x].held = thread[x].held,
               thread[th].sender # None,
               thread'[th].pc \in {"target", "mailbox"} =>
                  thread'[th].held \in Payloads /\ payload'[thread'[th].held].tag # None
        PROVE  ThreadsWellFormed'
    <2> SUFFICES ASSUME NEW x \in Threads
                 PROVE  /\ thread'[x].pc # "idle" => thread'[x].sender # None
                        /\ thread'[x].pc \in {"target", "mailbox"} =>
                             thread'[x].held # None /\ payload'[thread'[x].held].tag # None
      BY DEF ThreadsWellFormed
    <2>1. CASE x = th
      BY <1>m, <2>1, NoneIsNothing
    <2>2. CASE x # th
      BY <1>0, <1>m, <2>2 DEF ThreadsWellFormed
    <2> QED
      BY <2>1, <2>2
  <1>2. ASSUME NEW th \in Threads, PostContinues(th)
        PROVE  ThreadsWellFormed'
    <2>1. thread[th].sender # None
      BY <1>0, <1>2 DEF ThreadsWellFormed, PostContinues, PostEnterMailbox, PostGiveUp,
         PostAppend, PostNotify, PostLeaveMailbox, PostLeaveTarget
    <2>2. CASE PostEnterMailbox(th)
      <3>1. thread' = [thread EXCEPT ![th].pc = "mailbox"] /\ thread[th].pc = "target"
        BY <2>2 DEF PostEnterMailbox
      <3>2. thread[th].held \in Payloads /\ payload'[thread[th].held].tag # None
        BY <1>0, <3>1 DEF ThreadsWellFormed
      <3> QED
        BY <1>m, <2>1, <3>1, <3>2, ThreadMoved
    <2>3. CASE PostGiveUp(th) \/ PostAppend(th)
      <3>1. PICK place \in {"leaveTarget", "leaveMailbox", "notify"} :
               thread' = [thread EXCEPT ![th].pc = place, ![th].held = None]
        BY <2>3 DEF PostGiveUp, PostAppend, ExitAfterGivingUp
      <3>2. place \notin {"target", "mailbox"}
        OBVIOUS
      <3>3. /\ thread'[th].pc = place
            /\ \A x \in Threads : thread'[x].sender = thread[x].sender
            /\ \A x \in Threads \ {th} :
                  thread'[x].pc = thread[x].pc /\ thread'[x].held = thread[x].held
        BY <3>1, ThreadMoved
      <3> QED
        BY <1>m, <2>1, <3>2, <3>3
    <2>4. CASE PostNotify(th) \/ PostLeaveMailbox(th) \/ PostLeaveTarget(th)
      <3>1. PICK place \in {"leaveTarget", "leaveMailbox", "idle"} :
               thread' = [thread EXCEPT ![th].pc = place]
        BY <2>4 DEF PostNotify, PostLeaveMailbox, PostLeaveTarget
      <3>2. place \notin {"target", "mailbox"}
        OBVIOUS
      <3>3. /\ thread'[th].pc = place
            /\ \A x \in Threads : thread'[x].sender = thread[x].sender
            /\ \A x \in Threads \ {th} :
                  thread'[x].pc = thread[x].pc /\ thread'[x].held = thread[x].held
        BY <3>1, ThreadMoved
      <3> QED
        BY <1>m, <2>1, <3>2, <3>3
    <2> QED
      BY <1>2, <2>2, <2>3, <2>4 DEF PostContinues
  <1>3. ASSUME NEW th \in Threads, NEW p \in Payloads, PostEnterTarget(th, p)
        PROVE  ThreadsWellFormed'
    <2>1. payload'[p].tag # None
      <3>1. payload' = [payload EXCEPT ![p].tag = thread[th].sender] /\ thread[th].sender # None
        BY <1>3 DEF PostEnterTarget, CanPost
      <3>2. payload \in [Payloads -> PayloadType]
        BY FieldTypes
      <3> QED
        BY <3>1, <3>2 DEF PayloadType
    <2>2. /\ thread' = [thread EXCEPT ![th].pc = "target", ![th].held = p]
          /\ thread[th].sender # None
      BY <1>3 DEF PostEnterTarget, CanPost
    <2>3. thread'[th].held = p
      <3>1. thread \in [Threads -> ThreadType]
        BY FieldTypes
      <3> QED
        BY <2>2, <3>1 DEF ThreadType
    <2>4. /\ thread'[th].pc = "target"
          /\ \A x \in Threads : thread'[x].sender = thread[x].sender
          /\ \A x \in Threads \ {th} :
                thread'[x].pc = thread[x].pc /\ thread'[x].held = thread[x].held
      BY <2>2, ThreadMoved
    <2> QED
      BY <1>m, <2>1, <2>2, <2>3, <2>4
  <1>4. ASSUME NEW th \in Threads, NEW p \in Payloads, PostRefused(th, p)
        PROVE  ThreadsWellFormed'
    BY <1>1, <1>4 DEF PostRefused
  <1>5. ASSUME NEW p \in Payloads, DeliverRefused(p) \/ DeliverInvoke(p)
        PROVE  ThreadsWellFormed'
    BY <1>1, <1>5 DEF DeliverRefused, DeliverInvoke
  <1>6. CASE TargetLifecycle
    BY <1>1, <1>6, LifecycleKeepsThreads
  <1>7. CASE MailboxLifecycle \/ Sleep \/ Drain \/ DeliverReturn
    BY <1>1, <1>7, OwnerStepsKeepThreads
  <1>8. ASSUME NEW th \in Threads,
               \/ \E t \in Targets : AcquireSender(th, t)
               \/ \E to \in Threads : RetainSender(th, to)
               \/ ReleaseSender(th)
        PROVE  ThreadsWellFormed'
    BY <1>1, <1>8, SenderStepsKeepProducers DEF WellFormed
  <1>9. CASE UNCHANGED vars
    BY <1>1, <1>9 DEF vars
  <1> QED
    BY <1>2, <1>3, <1>4, <1>5, <1>6, <1>7, <1>8, <1>9 DEF Next

LEMMA WellFormedStep ==
  ASSUME TypeOK, WellFormed, [Next]_vars
  PROVE  WellFormed'
  BY OwnerWellFormedStep, OpenTargetsStep, QueuedWerePostedStep, ThreadsWellFormedStep
  DEF WellFormed

-----------------------------------------------------------------------------
(* No older producer is left when a lifecycle call returns.                *)

\* A thread gets into a section only by beginTargetPost or beginMailboxPost,
\* and keeps its Sender while it is inside.
LEMMA SectionSteps ==
  ASSUME TypeOK, WellFormed, [Next]_vars, NEW x \in Threads
  PROVE  /\ thread'[x].pc \in InTargetSection =>
               /\ thread'[x].sender = thread[x].sender
               /\ \/ thread[x].pc \in InTargetSection
                  \/ \E p \in Payloads : PostEnterTarget(x, p)
         /\ thread'[x].pc \in InMailboxSection =>
               thread[x].pc \in InMailboxSection \/ PostEnterMailbox(x)
  <1>0. /\ thread[x].pc = "idle" \/ thread[x].pc \in InTargetSection
        /\ "idle" \notin InTargetSection /\ InMailboxSection \subseteq InTargetSection
    <2>1. thread \in [Threads -> ThreadType]
      BY FieldTypes
    <2> QED
      BY <2>1 DEF ThreadType, InTargetSection, InMailboxSection
  <1>1. CASE /\ thread'[x].pc = thread[x].pc
             /\ thread[x].pc # "idle" => thread'[x].sender = thread[x].sender
    BY <1>0, <1>1
  <1>2. ASSUME NEW th \in Threads, PostContinues(th)
        PROVE  /\ thread'[x].pc \in InTargetSection =>
                     /\ thread'[x].sender = thread[x].sender
                     /\ \/ thread[x].pc \in InTargetSection
                        \/ \E p \in Payloads : PostEnterTarget(x, p)
               /\ thread'[x].pc \in InMailboxSection =>
                     thread[x].pc \in InMailboxSection \/ PostEnterMailbox(x)
    <2>1. thread[th].pc \in InTargetSection
      BY <1>2, PlacesInPost DEF PostContinues, PostEnterMailbox, PostGiveUp, PostAppend,
         PostNotify, PostLeaveMailbox, PostLeaveTarget
    <2>2. PICK place : /\ \/ thread' = [thread EXCEPT ![th].pc = place]
                          \/ thread' = [thread EXCEPT ![th].pc = place, ![th].held = None]
                       /\ place \in InMailboxSection =>
                             thread[th].pc \in InMailboxSection \/ PostEnterMailbox(th)
      <3>1. CASE PostEnterMailbox(th)
        BY <3>1 DEF PostEnterMailbox
      <3>2. CASE PostGiveUp(th)
        <4>1. thread' = [thread EXCEPT ![th].pc = ExitAfterGivingUp(th), ![th].held = None]
          BY <3>2 DEF PostGiveUp
        <4>2. ExitAfterGivingUp(th) \in InMailboxSection => thread[th].pc \in InMailboxSection
          BY <3>2 DEF PostGiveUp, ExitAfterGivingUp, InMailboxSection
        <4> QED
          BY <4>1, <4>2
      <3>3. CASE PostAppend(th)
        BY <3>3 DEF PostAppend, InMailboxSection
      <3>4. CASE PostNotify(th)
        BY <3>4 DEF PostNotify, InMailboxSection
      <3>5. CASE PostLeaveMailbox(th)
        BY <3>5 DEF PostLeaveMailbox, InMailboxSection
      <3>6. CASE PostLeaveTarget(th)
        <4>1. thread' = [thread EXCEPT ![th].pc = "idle"]
          BY <3>6 DEF PostLeaveTarget
        <4>2. "idle" \notin InMailboxSection
          BY DEF InMailboxSection
        <4> QED
          BY <4>1, <4>2
      <3> QED
        BY <1>2, <3>1, <3>2, <3>3, <3>4, <3>5, <3>6 DEF PostContinues
    <2>3. /\ thread'[th].pc = place
          /\ thread'[x].sender = thread[x].sender
          /\ x # th => thread'[x].pc = thread[x].pc
      BY <2>2, ThreadMoved
    <2> QED
      BY <2>1, <2>2, <2>3
  <1>3. ASSUME NEW th \in Threads, NEW p \in Payloads, PostEnterTarget(th, p)
        PROVE  /\ thread'[x].pc \in InTargetSection =>
                     /\ thread'[x].sender = thread[x].sender
                     /\ \/ thread[x].pc \in InTargetSection
                        \/ \E q \in Payloads : PostEnterTarget(x, q)
               /\ thread'[x].pc \in InMailboxSection => thread[x].pc \in InMailboxSection
    <2>1. thread' = [thread EXCEPT ![th].pc = "target", ![th].held = p]
      BY <1>3 DEF PostEnterTarget
    <2>2. /\ thread'[th].pc = "target"
          /\ thread'[x].sender = thread[x].sender
          /\ x # th => thread'[x].pc = thread[x].pc
      BY <2>1, ThreadMoved
    <2>3. "target" \notin InMailboxSection
      BY DEF InMailboxSection
    <2> QED
      BY <1>3, <2>2, <2>3
  <1>4. ASSUME NEW th \in Threads, NEW p \in Payloads, PostRefused(th, p)
        PROVE  thread' = thread
    BY <1>4 DEF PostRefused
  <1>5. ASSUME NEW p \in Payloads, DeliverRefused(p) \/ DeliverInvoke(p)
        PROVE  thread' = thread
    BY <1>5 DEF DeliverRefused, DeliverInvoke
  <1>6. CASE \/ TargetLifecycle \/ MailboxLifecycle \/ Sleep \/ Drain \/ DeliverReturn
             \/ UNCHANGED vars
    BY <1>1, <1>6, LifecycleKeepsThreads, OwnerStepsKeepThreads DEF vars
  <1>7. ASSUME NEW th \in Threads,
               \/ \E t \in Targets : AcquireSender(th, t)
               \/ \E to \in Threads : RetainSender(th, to)
               \/ ReleaseSender(th)
        PROVE  /\ thread'[x].pc = thread[x].pc
               /\ thread[x].pc # "idle" => thread'[x].sender = thread[x].sender
    BY <1>7, SenderStepsKeepProducers DEF WellFormed
  <1> QED
    BY <1>1, <1>2, <1>3, <1>4, <1>5, <1>6, <1>7 DEF Next

LEMMA QuiescedStep ==
  ASSUME TypeOK, WellFormed, ActivePostsExact, TargetQuiescedAfterWait, [Next]_vars
  PROVE  TargetQuiescedAfterWait'
  <1> SUFFICES ASSUME NEW x \in Threads, thread'[x].pc \in InTargetSection,
                      NEW s, s = thread'[x].sender, owner'.target # s.target
               PROVE  Current(s)'
    BY DEF TargetQuiescedAfterWait, Current
  <1>s. s = thread[x].sender
    BY SectionSteps
  <1>t. s \in Sender /\ s.target \in Targets /\ s.target # None
    <2>1. s # None /\ s \in Sender \cup {None}
      <3>1. thread[x].pc \in InTargetSection => thread[x].pc # "idle"
        BY DEF InTargetSection, InMailboxSection
      <3> QED
        BY <1>s, <3>1, SectionSteps, FieldTypes
        DEF WellFormed, ThreadsWellFormed, PostEnterTarget, CanPost
    <2> QED
      BY <2>1, NoneIsNothing DEF Sender
  <1>f. owner.op \notin TargetOps => owner.target = None
    BY DEF WellFormed, OwnerWellFormed
  <1>g. OwnerFree => owner.target = None
    BY <1>f DEF OwnerFree, TargetOps
  <1>1. ASSUME NEW p \in Payloads, PostEnterTarget(x, p)
        PROVE  Current(s)'
    <2>1. SameTarget(s.target)
      BY <1>1, <1>t, PostsKeepTargets
    <2>2. Current(s)
      BY <1>1, <1>s DEF PostEnterTarget
    <2> QED
      BY <2>1, <2>2 DEF SameTarget, Current
  <1>2. CASE thread[x].pc \in InTargetSection
    <2>0. owner.target # s.target => Current(s)
      BY <1>2, <1>s DEF TargetQuiescedAfterWait
    <2>1. CASE SameTarget(s.target) /\ (SameCall \/ owner.op \notin TargetOps)
      BY <2>0, <2>1, <1>s, <1>t, <1>f DEF SameTarget, SameCall, Current
    <2>2. ASSUME NEW t \in Targets, OwnerFree, owner'.target = t,
                 s.target # t => /\ target'[s.target].closed = target[s.target].closed
                                 /\ target'[s.target].generation = target[s.target].generation
          PROVE  Current(s)'
      BY <2>0, <2>2, <1>s, <1>t, <1>g DEF Current
    <2>3. CASE /\ OwnerFree
               /\ target'[s.target].closed = target[s.target].closed
               /\ target'[s.target].generation = target[s.target].generation
      BY <2>0, <2>3, <1>s, <1>t, <1>g DEF Current
    <2>4. CASE /\ owner.op \in TargetOps /\ target[owner.target].active = 0
               /\ target'[s.target].closed = target[s.target].closed
               /\ target'[s.target].generation = target[s.target].generation
      <3>1. owner.target # s.target
        <4>1. SUFFICES ASSUME owner.target = s.target PROVE FALSE
          OBVIOUS
        <4>2. x \in ProducersIn(s.target) /\ ProducersIn(s.target) \in SUBSET Threads
          BY <1>2, <1>s DEF ProducersIn
        <4>3. Cardinality(ProducersIn(s.target)) = 0
          BY <2>4, <4>1, <1>t DEF ActivePostsExact
        <4> QED
          BY <4>2, <4>3, SetsOfThreadsAreFinite
      <3> QED
        BY <2>0, <2>4, <3>1 DEF Current
    <2> QED
      <3>1. CASE TargetLifecycle
        <4>1. \A n, t, c : BeginOp(n, t, c) => owner'.target = t
          BY BeginOpEffect
        <4> QED
          BY <3>1, <4>1, <2>2, <2>3, <2>4, <1>t, LifecycleEffect
      <3> QED
        BY <3>1, <2>1, <1>t, StepShape
  <1> QED
    BY <1>1, <1>2, <1>s, SectionSteps

\* Only Mailbox.close and deinit close the mailbox; only the end of their wait
\* takes them out of it.
LEMMA ClosingSteps ==
  ASSUME TypeOK, WellFormed, [Next]_vars
  PROVE  /\ mailbox'.closed = mailbox.closed \/ owner'.op \in MailboxOps
         /\ owner.op \in MailboxOps => owner'.op = owner.op \/ TakeQueueToDispose
  <1>0. mailbox \in MailboxType
    BY FieldTypes
  <1>1. mailbox'.closed = mailbox.closed \/ \E name \in MailboxOps : CloseMailbox(name)
    <2>1. ASSUME NEW k, mailbox' = [mailbox EXCEPT !.active = k] PROVE mailbox'.closed = mailbox.closed
      BY <1>0, <2>1 DEF MailboxType
    <2>2. ASSUME NEW k, mailbox' = [mailbox EXCEPT !.queue = k] PROVE mailbox'.closed = mailbox.closed
      BY <1>0, <2>2 DEF MailboxType
    <2>3. CASE mailbox' = [mailbox EXCEPT !.handle = FALSE]
      BY <1>0, <2>3 DEF MailboxType
    <2>4. ASSUME NEW th \in Threads, PostContinues(th)
          PROVE  mailbox'.closed = mailbox.closed
      BY <2>1, <2>2, <2>4 DEF PostContinues, PostEnterMailbox, MailboxEntered, PostGiveUp,
         PostAppend, PostNotify, PostLeaveMailbox, PostLeaveTarget
    <2>5. ASSUME NEW th \in Threads,
                 \/ \E p \in Payloads : PostRefused(th, p) \/ PostEnterTarget(th, p)
                 \/ \E t \in Targets : AcquireSender(th, t)
                 \/ \E to \in Threads : RetainSender(th, to)
                 \/ ReleaseSender(th)
          PROVE  mailbox' = mailbox
      BY <2>5 DEF PostRefused, PostEnterTarget, AcquireSender, RetainSender, ReleaseSender
    <2>6. CASE TakeQueueToDispose \/ DisposeQueued \/ FinishMailboxOp
      BY <2>2, <2>3, <2>6 DEF TakeQueueToDispose, QueueTaken, DisposeQueued, FinishMailboxOp
    <2>7. CASE Drain
      BY <2>2, <2>7 DEF Drain, HostWakes, DrainBegin, QueueTaken, DrainInvoke, DrainCancel,
         DrainReturn, DrainEnd
    <2>8. ASSUME NEW p \in Payloads, DeliverRefused(p) \/ DeliverInvoke(p)
          PROVE  mailbox' = mailbox
      BY <2>8 DEF DeliverRefused, DeliverInvoke
    <2>9. CASE Sleep \/ DeliverReturn \/ UNCHANGED vars
      BY <2>9 DEF Sleep, DeliverReturn, vars
    <2> QED
      BY <2>4, <2>5, <2>6, <2>7, <2>8, <2>9, LifecycleKeepsThreads
      DEF Next, MailboxLifecycle, MailboxOps
  <1>2. \A name : CloseMailbox(name) => OwnerFree /\ owner'.op = name
    BY BeginOpEffect DEF CloseMailbox, OwnerInCode
  <1>3. ASSUME owner.op \in MailboxOps
        PROVE  owner'.op = owner.op \/ TakeQueueToDispose
    <2>1. ~OwnerFree /\ owner.op \notin TargetOps /\ owner.op \notin DisposeOps
      BY <1>3 DEF OwnerFree, MailboxOps, TargetOps, DisposeOps
    <2>2. ~TargetLifecycle
      BY <2>1, LifecycleEffect
    <2>3. MailboxLifecycle => TakeQueueToDispose
      BY <2>1, <1>2 DEF MailboxLifecycle, DisposeQueued, FinishMailboxOp
    <2> QED
      BY <2>2, <2>3, StepShape DEF SameCall
  <1> QED
    BY <1>1, <1>2, <1>3

LEMMA NoWakeStep ==
  ASSUME TypeOK, WellFormed, ActivePostsExact, NoWakeAfterMailboxClose, [Next]_vars
  PROVE  NoWakeAfterMailboxClose'
  <1> SUFFICES ASSUME mailbox'.closed, owner'.op \notin MailboxOps
               PROVE  ProducersInMailbox' = {} /\ mailbox'.queue = <<>>
    BY DEF NoWakeAfterMailboxClose
  <1>1. mailbox.closed
    BY ClosingSteps
  <1>2. CASE owner.op \in MailboxOps
    <2>1. TakeQueueToDispose
      BY <1>2, ClosingSteps
    <2>2. mailbox'.queue = <<>>
      <3>1. mailbox \in MailboxType
        BY FieldTypes
      <3> QED
        BY <2>1, <3>1 DEF TakeQueueToDispose, QueueTaken, MailboxType
    <2>3. ProducersInMailbox = {}
      <3>1. Cardinality(ProducersInMailbox) = 0 /\ ProducersInMailbox \in SUBSET Threads
        BY <2>1 DEF TakeQueueToDispose, MailboxProducersLeft, ActivePostsExact, ProducersInMailbox
      <3> QED
        BY <3>1, SetsOfThreadsAreFinite
    <2> QED
      BY <2>1, <2>2, <2>3 DEF TakeQueueToDispose, ProducersInMailbox
  <1>3. CASE owner.op \notin MailboxOps
    <2>1. ProducersInMailbox = {} /\ mailbox.queue = <<>>
      BY <1>1, <1>3 DEF NoWakeAfterMailboxClose
    <2>2. \A x \in Threads : ~PostEnterMailbox(x)
      BY <1>1 DEF PostEnterMailbox
    <2>3. ProducersInMailbox' = {}
      BY <2>1, <2>2, SectionSteps DEF ProducersInMailbox
    <2> QED
      BY <1>1, <2>1, <2>3, QueueSteps
  <1> QED
    BY <1>2, <1>3

-----------------------------------------------------------------------------
(* A task runs in the context its Sender was acquired under.               *)

\* What every Sender in existence satisfies, whether a thread holds it or a
\* payload carries it: it is not newer than its target; while a lifecycle call
\* is replacing the context it is already refused; and while it is accepted,
\* the context is still the one it was acquired under.
Fresh(s) ==
    /\ target[s.target].handle # "none"
    /\ s.generation <= target[s.target].generation
    /\ owner.target = s.target => ~Current(s)
    /\ Current(s) => s.context = target[s.target].context

SendersFresh ==
    /\ \A th \in Threads : thread[th].sender # None => Fresh(thread[th].sender)
    /\ \A p \in Payloads : payload[p].tag # None => Fresh(payload[p].tag)

RanInItsContext ==
    \A p \in Payloads : payload[p].ran # None =>
        payload[p].tag # None /\ payload[p].ran = payload[p].tag.context

LEMMA FreshKept ==
  ASSUME TypeOK, WellFormed, [Next]_vars, NEW s \in Sender, Fresh(s)
  PROVE  Fresh(s)'
  <1>0. s.target \in Targets /\ s.target # None /\ s.generation \in Nat
    BY NoneIsNothing DEF Sender
  <1>1. /\ target[s.target].handle # "none" /\ s.generation <= target[s.target].generation
        /\ target[s.target].generation \in Nat
        /\ owner.target = s.target => ~Current(s)
        /\ Current(s) => s.context = target[s.target].context
    BY <1>0, FieldTypes DEF Fresh
  <1>2. CASE SameTarget(s.target) /\ (SameCall \/ owner'.target = None)
    BY <1>0, <1>1, <1>2 DEF SameTarget, SameCall, Fresh, Current
  <1>3. CASE TargetLifecycle
    <2>0. \A n, t, c : BeginOp(n, t, c) => owner'.target = t
      BY BeginOpEffect
    <2>g. OwnerFree => owner.target = None
      BY DEF OwnerFree, WellFormed, OwnerWellFormed, TargetOps
    <2>1. ASSUME NEW t \in Targets, NEW c, OwnerFree, target[t].handle = "none",
                 \A u \in Targets :
                     /\ target'[u].closed = target[u].closed
                     /\ target'[u].generation = target[u].generation
                     /\ target'[u].handle = IF u = t THEN "open" ELSE target[u].handle
                     /\ target'[u].context = IF u = t THEN c ELSE target[u].context,
                 UNCHANGED owner
          PROVE  Fresh(s)'
      BY <1>0, <1>1, <2>1, <2>g DEF Fresh, Current
    <2>2. ASSUME NEW t \in Targets, NEW name, NEW c, ~target[t].closed,
                 \A u \in Targets :
                     /\ target'[u].closed = target[u].closed
                     /\ target'[u].generation =
                           IF u = t THEN target[u].generation + 1 ELSE target[u].generation
                     /\ target'[u].handle = target[u].handle
                     /\ target'[u].context = target[u].context,
                 BeginOp(name, t, c)
          PROVE  Fresh(s)'
      <3>1. CASE s.target = t
        BY <1>0, <1>1, <2>2, <3>1 DEF Fresh, Current
      <3>2. CASE s.target # t
        BY <1>0, <1>1, <2>0, <2>2, <3>2 DEF Fresh, Current
      <3> QED
        BY <3>1, <3>2
    <2>3. ASSUME NEW t \in Targets, NEW name,
                 \A u \in Targets :
                     /\ target'[u].closed = IF u = t THEN TRUE ELSE target[u].closed
                     /\ target'[u].generation >= target[u].generation
                     /\ u # t => target'[u].generation = target[u].generation
                     /\ target'[u].handle = target[u].handle
                     /\ target'[u].context = target[u].context,
                 BeginOp(name, t, None)
          PROVE  Fresh(s)'
      <3>0. target'[s.target].generation \in Nat
        <4>1. TypeOK'
          BY TargetLifecycleType, <1>3
        <4> QED
          BY <1>0, <4>1 DEF TypeOK, TargetType
      <3>1. CASE s.target = t
        <4>1. /\ target'[s.target].closed /\ target'[s.target].handle # "none"
              /\ target'[s.target].generation >= target[s.target].generation
          BY <1>0, <1>1, <2>3, <3>1
        <4>2. s.generation <= target'[s.target].generation
          BY <1>0, <1>1, <3>0, <4>1
        <4> QED
          BY <4>1, <4>2 DEF Fresh, Current
      <3>2. CASE s.target # t
        BY <1>0, <1>1, <2>0, <2>3, <3>2 DEF Fresh, Current
      <3> QED
        BY <3>1, <3>2
    <2>4. ASSUME \A u \in Targets :
                     /\ target'[u].closed = target[u].closed
                     /\ target'[u].generation = target[u].generation
                     /\ u # owner.target => target'[u].handle = target[u].handle
                                            /\ target'[u].context = target[u].context
                     /\ u = owner.target =>
                           target'[u].handle \in {target[u].handle, "gone"},
                 EndOp
          PROVE  Fresh(s)'
      BY <1>0, <1>1, <2>0, <2>4 DEF Fresh, Current, EndOp
    <2> QED
      BY <1>3, <2>1, <2>2, <2>3, <2>4, LifecycleEffect
  <1> QED
    BY <1>0, <1>2, <1>3, StepShape

\* Where a thread's Sender comes from.
LEMMA SenderSteps ==
  ASSUME TypeOK, WellFormed, [Next]_vars, NEW x \in Threads
  PROVE  \/ thread'[x].sender = None
         \/ \E y \in Threads : thread'[x].sender = thread[y].sender
         \/ \E t \in Targets :
               /\ OwnerFree /\ UNCHANGED <<target, owner>> /\ target[t].handle = "open"
               /\ thread'[x].sender = [target |-> t, generation |-> target[t].generation,
                                       context |-> target[t].context]
  <1>1. ASSUME NEW th \in Threads, NEW t \in Targets, AcquireSender(th, t)
        PROVE  \/ thread'[x].sender = thread[x].sender
               \/ /\ OwnerFree /\ UNCHANGED <<target, owner>> /\ target[t].handle = "open"
                  /\ thread'[x].sender = [target |-> t, generation |-> target[t].generation,
                                          context |-> target[t].context]
    BY <1>1, SenderChanged DEF AcquireSender, OwnerInCode
  <1>2. ASSUME NEW th \in Threads, NEW to \in Threads, RetainSender(th, to)
        PROVE  \E y \in Threads : thread'[x].sender = thread[y].sender
    <2>1. thread' = [thread EXCEPT ![to].sender = thread[th].sender]
      BY <1>2 DEF RetainSender
    <2>2. thread'[x].sender = thread[th].sender \/ thread'[x].sender = thread[x].sender
      BY <2>1, SenderChanged
    <2> QED
      BY <2>2
  <1>3. ASSUME NEW th \in Threads, ReleaseSender(th)
        PROVE  thread'[x].sender = None \/ thread'[x].sender = thread[x].sender
    BY <1>3, SenderChanged DEF ReleaseSender
  <1>4. ASSUME NEW th \in Threads, PostContinues(th)
        PROVE  thread'[x].sender = thread[x].sender
    <2>1. \E place : \/ thread' = [thread EXCEPT ![th].pc = place]
                     \/ thread' = [thread EXCEPT ![th].pc = place, ![th].held = None]
      BY <1>4 DEF PostContinues, PostEnterMailbox, PostGiveUp, PostAppend, PostNotify,
         PostLeaveMailbox, PostLeaveTarget
    <2> QED
      BY <2>1, ThreadMoved
  <1>5. ASSUME NEW th \in Threads, NEW p \in Payloads, PostRefused(th, p) \/ PostEnterTarget(th, p)
        PROVE  thread'[x].sender = thread[x].sender
    <2>1. \/ thread' = thread
          \/ thread' = [thread EXCEPT ![th].pc = "target", ![th].held = p]
      BY <1>5 DEF PostRefused, PostEnterTarget
    <2> QED
      BY <2>1, ThreadMoved
  <1>6. CASE \/ TargetLifecycle \/ MailboxLifecycle \/ Sleep \/ Drain \/ DeliverReturn
             \/ UNCHANGED vars
    BY <1>6, LifecycleKeepsThreads, OwnerStepsKeepThreads DEF vars
  <1>7. ASSUME NEW p \in Payloads, DeliverRefused(p) \/ DeliverInvoke(p)
        PROVE  thread' = thread
    BY <1>7 DEF DeliverRefused, DeliverInvoke
  <1> QED
    BY <1>1, <1>2, <1>3, <1>4, <1>5, <1>6, <1>7 DEF Next

\* A payload's tag is the Sender of the thread that posts it, and a payload
\* starts in the context its target has while its tag is accepted.
LEMMA PayloadSteps ==
  ASSUME TypeOK, WellFormed, [Next]_vars, NEW q \in Payloads
  PROVE  /\ \/ payload'[q].tag = payload[q].tag
            \/ \E y \in Threads : payload'[q].tag = thread[y].sender
         /\ \/ payload'[q].ran = payload[q].ran
            \/ /\ payload'[q].tag # None /\ Current(payload'[q].tag)
               /\ payload'[q].ran = target[payload'[q].tag.target].context
  <1>0. payload \in [Payloads -> PayloadType]
    BY FieldTypes
  <1>1. ASSUME NEW p, Dispose(p)
        PROVE  payload'[q].tag = payload[q].tag /\ payload'[q].ran = payload[q].ran
    BY <1>0, <1>1 DEF Dispose, PayloadType
  <1>2. ASSUME NEW p, NEW s, DisposeUnposted(p, s)
        PROVE  (payload'[q].tag = payload[q].tag \/ payload'[q].tag = s)
               /\ payload'[q].ran = payload[q].ran
    BY <1>0, <1>2 DEF DisposeUnposted, PayloadType
  <1>3. ASSUME NEW p, NEW s, payload' = [payload EXCEPT ![p].tag = s]
        PROVE  (payload'[q].tag = payload[q].tag \/ payload'[q].tag = s)
               /\ payload'[q].ran = payload[q].ran
    BY <1>0, <1>3 DEF PayloadType
  <1>4. ASSUME NEW th \in Threads, NEW p \in Payloads, PostRefused(th, p) \/ PostEnterTarget(th, p)
        PROVE  (payload'[q].tag = payload[q].tag \/ payload'[q].tag = thread[th].sender)
               /\ payload'[q].ran = payload[q].ran
    BY <1>2, <1>3, <1>4 DEF PostRefused, PostEnterTarget
  <1>5. ASSUME NEW th \in Threads, PostContinues(th)
        PROVE  payload'[q].tag = payload[q].tag /\ payload'[q].ran = payload[q].ran
    BY <1>1, <1>5 DEF PostContinues, PostEnterMailbox, PostGiveUp, PostAppend, PostNotify,
       PostLeaveMailbox, PostLeaveTarget
  <1>6. ASSUME NEW th \in Threads,
               \/ \E t \in Targets : AcquireSender(th, t)
               \/ \E to \in Threads : RetainSender(th, to)
               \/ ReleaseSender(th)
        PROVE  payload' = payload
    BY <1>6 DEF AcquireSender, RetainSender, ReleaseSender
  <1>7. CASE MailboxLifecycle \/ DeliverReturn \/ Sleep \/ TargetLifecycle \/ UNCHANGED vars
    <2>1. payload' = payload \/ \E p : Dispose(p)
      BY <1>7, LifecycleKeepsThreads DEF MailboxLifecycle, CloseMailbox, TakeQueueToDispose,
         DisposeQueued, FinishMailboxOp, DeliverReturn, Sleep, vars
    <2> QED
      BY <1>1, <2>1
  <1>8. CASE HostWakes \/ DrainBegin \/ DrainCancel \/ DrainReturn \/ DrainEnd
    <2>1. payload' = payload \/ \E p : Dispose(p)
      BY <1>8 DEF HostWakes, DrainBegin, DrainCancel, DrainReturn, DrainEnd
    <2> QED
      BY <1>1, <2>1
  <1>9. CASE DrainInvoke
    <2>1. PICK p \in Payloads :
             /\ payload[p].tag # None /\ Current(payload[p].tag)
             /\ payload' = [payload EXCEPT ![p].ran = target[payload[p].tag.target].context]
      <3>1. owner.batch # <<>> /\ owner.batch \in Seq(Payloads)
        BY <1>9, FieldTypes DEF DrainInvoke
      <3>2. Head(owner.batch) \in Payloads /\ payload[Head(owner.batch)].tag # None
        <4>1. 1 \in DOMAIN owner.batch /\ Head(owner.batch) = owner.batch[1]
          BY <3>1
        <4> QED
          BY <3>1, <4>1 DEF WellFormed, QueuedWerePosted
      <3> QED
        BY <1>9, <3>2 DEF DrainInvoke, NodeDeliverable
    <2> QED
      BY <1>0, <2>1 DEF PayloadType
  <1>10. ASSUME NEW p \in Payloads, DeliverRefused(p)
         PROVE  (payload'[q].tag = payload[q].tag \/ payload'[q].tag = thread[Owner].sender)
                /\ payload'[q].ran = payload[q].ran
    BY <1>2, <1>10 DEF DeliverRefused
  <1>11. ASSUME NEW p \in Payloads, DeliverInvoke(p)
         PROVE  \/ payload'[q].tag = payload[q].tag /\ payload'[q].ran = payload[q].ran
                \/ /\ payload'[q].tag = thread[Owner].sender
                   /\ payload'[q].tag # None /\ Current(payload'[q].tag)
                   /\ payload'[q].ran = target[payload'[q].tag.target].context
    <2>1. PICK s : /\ s = thread[Owner].sender /\ s # None /\ Current(s)
                   /\ payload' = [payload EXCEPT ![p].tag = s,
                                                 ![p].ran = target[s.target].context]
      BY <1>11 DEF DeliverInvoke, CanDeliver, CanPost
    <2>2. \/ payload'[q].tag = payload[q].tag /\ payload'[q].ran = payload[q].ran
          \/ payload'[q].tag = s /\ payload'[q].ran = target[s.target].context
      BY <1>0, <2>1 DEF PayloadType
    <2> QED
      BY <2>1, <2>2
  <1> QED
    BY <1>4, <1>5, <1>6, <1>7, <1>8, <1>9, <1>10, <1>11, OwnerIsAThread DEF Next, Drain

LEMMA SendersFreshStep ==
  ASSUME TypeOK, WellFormed, SendersFresh, [Next]_vars
  PROVE  SendersFresh'
  <1>1. ASSUME NEW y \in Threads, thread[y].sender # None
        PROVE  Fresh(thread[y].sender) /\ thread[y].sender \in Sender
    BY <1>1, FieldTypes DEF SendersFresh
  <1>2. ASSUME NEW s \in Sender, Fresh(s)
        PROVE  Fresh(s)'
    BY <1>2, FreshKept
  <1>3. ASSUME NEW x \in Threads, NEW s, s = thread'[x].sender, s # None
        PROVE  Fresh(s)'
    <2>1. CASE \E y \in Threads : s = thread[y].sender
      BY <1>1, <1>2, <1>3, <2>1
    <2>2. ASSUME NEW t \in Targets,
                 OwnerFree, UNCHANGED <<target, owner>>, target[t].handle = "open",
                 s = [target |-> t, generation |-> target[t].generation,
                      context |-> target[t].context]
          PROVE  Fresh(s)'
      <3>1. owner.target = None /\ t # None /\ target[t].generation \in Nat
        BY <2>2, NoneIsNothing, FieldTypes DEF OwnerFree, WellFormed, OwnerWellFormed, TargetOps
      <3> QED
        BY <2>2, <3>1 DEF Fresh, Current
    <2> QED
      BY <1>3, <2>1, <2>2, SenderSteps
  <1>4. ASSUME NEW q \in Payloads, NEW s, s = payload'[q].tag, s # None
        PROVE  Fresh(s)'
    <2>1. CASE s = payload[q].tag
      <3>1. s \in Sender /\ Fresh(s)
        BY <1>4, <2>1, FieldTypes DEF SendersFresh
      <3> QED
        BY <1>2, <3>1
    <2>2. CASE \E y \in Threads : s = thread[y].sender
      BY <1>1, <1>2, <1>4, <2>2
    <2> QED
      BY <1>4, <2>1, <2>2, PayloadSteps
  <1> QED
    BY <1>3, <1>4 DEF SendersFresh, Fresh, Current

LEMMA RanInItsContextStep ==
  ASSUME TypeOK, WellFormed, SendersFresh, RanInItsContext, [Next]_vars
  PROVE  RanInItsContext'
  <1> SUFFICES ASSUME NEW q \in Payloads, payload'[q].ran # None
               PROVE  payload'[q].tag # None /\ payload'[q].ran = payload'[q].tag.context
    BY DEF RanInItsContext
  <1>1. CASE payload'[q].ran = payload[q].ran
    BY <1>1, TagsKept DEF RanInItsContext
  <1>2. CASE /\ payload'[q].tag # None /\ Current(payload'[q].tag)
             /\ payload'[q].ran = target[payload'[q].tag.target].context
    <2>1. Fresh(payload'[q].tag)
      BY <1>2, PayloadSteps DEF SendersFresh
    <2> QED
      BY <1>2, <2>1 DEF Fresh
  <1> QED
    BY <1>1, <1>2, PayloadSteps

-----------------------------------------------------------------------------
(* The theorems.                                                           *)

IInv ==
    /\ TypeOK /\ WellFormed /\ ActivePostsExact
    /\ TargetQuiescedAfterWait /\ NoWakeAfterMailboxClose
    /\ SendersFresh /\ RanInItsContext

LEMMA InvariantInit == Init => IInv
  <1> SUFFICES ASSUME Init PROVE IInv
    OBVIOUS
  <1>1. \A th \in Threads : thread[th].pc \notin InTargetSection /\ thread[th].sender = None
    BY DEF Init, InTargetSection, InMailboxSection
  <1>2. ActivePostsExact
    <2>1. ProducersInMailbox = {} /\ \A t \in Targets : ProducersIn(t) = {}
      BY <1>1 DEF ProducersInMailbox, ProducersIn, InTargetSection
    <2>2. mailbox.active = 0 /\ \A t \in Targets : target[t].active = 0
      BY DEF Init
    <2> QED
      BY <2>1, <2>2, FS_EmptySet DEF ActivePostsExact
  <1>3. TargetQuiescedAfterWait
    BY <1>1 DEF TargetQuiescedAfterWait
  <1>4. NoWakeAfterMailboxClose
    BY DEF Init, NoWakeAfterMailboxClose
  <1>5. SendersFresh /\ RanInItsContext
    BY <1>1 DEF Init, SendersFresh, RanInItsContext
  <1> QED
    BY <1>2, <1>3, <1>4, <1>5, TypeInit, WellFormedInit DEF IInv

LEMMA InvariantStep == IInv /\ [Next]_vars => IInv'
  BY TypeStep, WellFormedStep, CountsStep, QuiescedStep, NoWakeStep, SendersFreshStep,
     RanInItsContextStep DEF IInv

LEMMA Invariance == Spec => []IInv
  BY InvariantInit, InvariantStep, PTL DEF Spec

\* Every field keeps its type: in particular no active_posts counter of the
\* mailbox or of a target is ever decremented below 0.
THEOREM TypeCorrect == Spec => []TypeOK
  <1>1. IInv => TypeOK
    BY DEF IInv
  <1> QED
    BY <1>1, Invariance, PTL

\* The counters the owner waits on count exactly the producers inside, for any
\* number of threads: no wait ends early, and none is kept up by a producer
\* that already left.
THEOREM ActivePostsCorrect == Spec => []ActivePostsExact
  <1>1. IInv => ActivePostsExact
    BY DEF IInv
  <1> QED
    BY <1>1, Invariance, PTL

\* When Target.invalidate, renew or close has returned, no producer with an
\* older Sender is inside that target's section.
THEOREM TargetQuiesced == Spec => []TargetQuiescedAfterWait
  <1>1. IInv => TargetQuiescedAfterWait
    BY DEF IInv
  <1> QED
    BY <1>1, Invariance, PTL

\* When Mailbox.close has returned, no producer can call the wake callback and
\* nothing is queued.
THEOREM MailboxQuiesced == Spec => []NoWakeAfterMailboxClose
  <1>1. IInv => NoWakeAfterMailboxClose
    BY DEF IInv
  <1> QED
    BY <1>1, Invariance, PTL

\* A payload only ever runs in the context its Sender was acquired under.
THEOREM ContextsNeverStale == Spec => []NeverAStaleContext
  <1>1. IInv => NeverAStaleContext
    BY DEF IInv, RanInItsContext, NeverAStaleContext
  <1> QED
    BY <1>1, Invariance, PTL
=============================================================================
