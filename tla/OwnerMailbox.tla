---------------------------- MODULE OwnerMailbox ----------------------------
(***************************************************************************)
(* browser/OwnerMailbox.zig: the thread-safe, owner-thread task delivery   *)
(* that Window and Worker hosts share.                                     *)
(*                                                                         *)
(* Any thread that holds a Sender posts owned payloads; only the owner     *)
(* thread drains them.  The owner may close the mailbox, and may           *)
(* invalidate, renew or close each Target, while producers are in the      *)
(* middle of a post and while a payload's own callback is on its stack.    *)
(*                                                                         *)
(* One action is one critical section of the code.  A payload remembers    *)
(* the Sender it was posted with, so a queue node is just the payload.     *)
(***************************************************************************)
EXTENDS Integers, Sequences, FiniteSets, SequencesExt

CONSTANTS
    Owner,          \* the thread that created the mailbox
    Producers,      \* every other thread that may hold a Sender
    Targets,        \* the TargetCores that may be created
    Payloads,       \* the payloads that may be posted, each at most once
    Contexts,       \* the values an owner_context can take
    None,           \* no sender, no payload, no context, no target
    MaxGeneration,  \* bound: renew and invalidate stop at this generation
    MaxInline       \* bound: depth of nested owner-thread hand-offs

Threads == Producers \cup {Owner}

\* A Sender: its target and generation and, as history, the owner context
\* its target had when Target.sender returned it.
Sender == [target : Targets, generation : Nat, context : Contexts]

ASSUME MailboxAssumption ==
    /\ IsFiniteSet(Producers) /\ Owner \notin Producers
    /\ None \notin Targets /\ None \notin Payloads
    /\ None \notin Contexts /\ None \notin Sender
    /\ MaxGeneration \in Nat /\ MaxInline \in Nat

VARIABLES
    mailbox,    \* the Mailbox handle, and closed, active_posts, queue of its core
    target,     \* per Target: its handle, and closed, active_posts, generation
                \* and owner_context of its core
    mailboxRefs, targetRefs,    \* refs of each core; at 0 the core is freed
    thread,     \* per thread: the Sender it holds, its place in postOwned and
                \* the payload it owns there
    owner,      \* the owner thread: the lifecycle call it is in (op, with its
                \* target and new context; asleep on posts_done; dying, the
                \* queue a close took), its drain (draining, the batch left, the
                \* payload running) and its deliverOwned calls (inline)
    payload,    \* per payload: the Sender it was posted with, the context it
                \* ran in, how often destroy was called
    host        \* the wake edge is set; the host has seen it and will drain

refs == <<mailboxRefs, targetRefs>>
vars == <<mailbox, target, refs, thread, owner, payload, host>>

\* Where a thread stands in postOwned: inside its target's active_posts
\* section, and inside the mailbox's section nested in it.
InMailboxSection == {"mailbox", "notify", "leaveMailbox"}
InTargetSection  == InMailboxSection \cup {"target", "leaveTarget"}

\* The lifecycle calls that wait on a target or on the mailbox; a mailbox
\* call then disposes of the queue it took.
TargetOps  == {"invalidate", "renew", "closeTarget", "deinitTarget"}
MailboxOps == {"closeMailbox", "deinitMailbox"}
DisposeOps == {"disposeClose", "disposeDeinit"}

Init ==
    /\ mailbox = [handle |-> TRUE, closed |-> FALSE, active |-> 0, queue |-> <<>>]
    /\ target = [t \in Targets |-> [handle |-> "none", closed |-> FALSE, active |-> 0,
                                    generation |-> 1, context |-> None]]
    /\ mailboxRefs = 1 /\ targetRefs = [t \in Targets |-> 0]
    /\ thread = [th \in Threads |-> [sender |-> None, pc |-> "idle", held |-> None]]
    /\ owner = [op |-> "none", target |-> None, context |-> None, asleep |-> FALSE,
                dying |-> <<>>, draining |-> FALSE, batch |-> <<>>, running |-> None,
                inline |-> <<>>]
    /\ payload = [p \in Payloads |-> [tag |-> None, ran |-> None, destroyed |-> 0]]
    /\ host = [wake |-> FALSE, awake |-> FALSE]

-----------------------------------------------------------------------------
(* Helpers of the source.  A definition under a "Mistake:" comment is no     *)
(* part of the model: it is what the one after it would be with that bug.   *)

\* The check of beginTargetPost and of currentOwnerContext.
Current(s) == ~target[s.target].closed /\ target[s.target].generation = s.generation

\* Mistake: drain does not look at the target of a node.
NodeMailboxOpen(p) == ~mailbox.closed
\* The two questions drain asks before it invokes a node.
NodeDeliverable(p) == ~mailbox.closed /\ Current(payload[p].tag)

\* The last release of a target frees its core and releases the mailbox.
ReleaseTarget(t) ==
    /\ targetRefs' = [targetRefs EXCEPT ![t] = @ - 1]
    /\ mailboxRefs' = IF targetRefs[t] = 1 THEN mailboxRefs - 1 ELSE mailboxRefs

\* Mistake: nobody counts the new reference.
RetainNothing(t) == UNCHANGED refs
RetainTarget(t) ==
    /\ targetRefs' = [targetRefs EXCEPT ![t] = @ + 1]
    /\ UNCHANGED mailboxRefs

Dispose(p) == payload' = [payload EXCEPT ![p].destroyed = @ + 1]

\* A payload that is refused outright: tagged and disposed of in one call.
DisposeUnposted(p, s) ==
    payload' = [payload EXCEPT ![p].tag = s, ![p].destroyed = @ + 1]

\* The owner thread is in no lifecycle call and in no post of its own.
OwnerFree == owner.op = "none" /\ thread[Owner].pc = "idle"

\* It runs code that may call the mailbox: host code, or, inside a drain or a
\* deliverOwned, the callback of a payload.
OwnerInCode == OwnerFree /\ (owner.draining => owner.running # None)

\* It runs host code: no callback is on its stack.
AtHostBoundary == OwnerFree /\ ~owner.draining /\ owner.inline = <<>>

-----------------------------------------------------------------------------
(* Sender.postOwned, on any thread.                                        *)

CanPost(th, p) ==
    /\ thread[th].pc = "idle" /\ thread[th].sender # None
    /\ th = Owner => OwnerInCode
    /\ payload[p].tag = None

\* beginTargetPost refuses: the payload is disposed on the posting thread.
PostRefused(th, p) ==
    /\ CanPost(th, p)
    /\ ~Current(thread[th].sender)
    /\ DisposeUnposted(p, thread[th].sender)
    /\ UNCHANGED <<mailbox, target, refs, thread, owner, host>>

PostEnterTarget(th, p) ==
    /\ CanPost(th, p)
    /\ Current(thread[th].sender)
    /\ payload' = [payload EXCEPT ![p].tag = thread[th].sender]
    /\ thread' = [thread EXCEPT ![th].pc = "target", ![th].held = p]
    /\ target' = [target EXCEPT ![thread[th].sender.target].active = @ + 1]
    /\ UNCHANGED <<mailbox, refs, owner, host>>

MailboxEntered == mailbox' = [mailbox EXCEPT !.active = @ + 1]

\* beginMailboxPost.
PostEnterMailbox(th) ==
    /\ thread[th].pc = "target" /\ ~mailbox.closed
    /\ MailboxEntered
    /\ thread' = [thread EXCEPT ![th].pc = "mailbox"]
    /\ UNCHANGED <<target, refs, owner, payload, host>>

\* Mistake: a post given up inside the mailbox leaves only its target.
ExitMailboxForgotten(th) == "leaveTarget"
\* The deferred calls still to run when the payload is given up.
ExitAfterGivingUp(th) ==
    IF thread[th].pc = "target" THEN "leaveTarget" ELSE "leaveMailbox"

\* The payload is given up on the posting thread: the mailbox was closed
\* before the post entered it; or, inside it, the node could not be allocated
\* or the mailbox closed before the append.
PostGiveUp(th) ==
    /\ \/ thread[th].pc = "target" /\ mailbox.closed
       \/ thread[th].pc = "mailbox"
    /\ Dispose(thread[th].held)
    /\ thread' = [thread EXCEPT ![th].pc = ExitAfterGivingUp(th), ![th].held = None]
    /\ UNCHANGED <<mailbox, target, refs, owner, host>>

\* Under the mailbox mutex: recheck closed, retain the target for the queue,
\* append.  The wake callback runs only after the unlock.
PostAppend(th) ==
    /\ thread[th].pc = "mailbox" /\ ~mailbox.closed
    /\ RetainTarget(thread[th].sender.target)
    /\ mailbox' = [mailbox EXCEPT !.queue = Append(@, thread[th].held)]
    /\ thread' = [thread EXCEPT ![th].pc = "notify", ![th].held = None]
    /\ UNCHANGED <<target, owner, payload, host>>

\* Mistake: only the post that finds the queue empty wakes the host.
WakeIfFirst == host' = [host EXCEPT !.wake = @ \/ Len(mailbox.queue) = 1]
WakeHost == host' = [host EXCEPT !.wake = TRUE]

PostNotify(th) ==
    /\ thread[th].pc = "notify"
    /\ WakeHost
    /\ thread' = [thread EXCEPT ![th].pc = "leaveMailbox"]
    /\ UNCHANGED <<mailbox, target, refs, owner, payload>>

\* posts_done.broadcast by the last producer out: the waiting owner rechecks.
Broadcast(lastOut) == owner' = [owner EXCEPT !.asleep = @ /\ ~lastOut]

\* endMailboxPost.
PostLeaveMailbox(th) ==
    /\ thread[th].pc = "leaveMailbox"
    /\ mailbox' = [mailbox EXCEPT !.active = @ - 1]
    /\ Broadcast(mailbox.active = 1 /\ owner.op \in MailboxOps)
    /\ thread' = [thread EXCEPT ![th].pc = "leaveTarget"]
    /\ UNCHANGED <<target, refs, payload, host>>

\* Mistake: the last producer out of a target does not broadcast.
NobodyWaitsHere(t) == FALSE
LastOutOfTarget(t) == target[t].active = 1 /\ owner.target = t

\* endTargetPost.
PostLeaveTarget(th) ==
    LET t == thread[th].sender.target IN
    /\ thread[th].pc = "leaveTarget"
    /\ target' = [target EXCEPT ![t].active = @ - 1]
    /\ Broadcast(LastOutOfTarget(t))
    /\ thread' = [thread EXCEPT ![th].pc = "idle"]
    /\ UNCHANGED <<mailbox, refs, payload, host>>

\* What a thread does once it is inside postOwned.
PostContinues(th) ==
    \/ PostEnterMailbox(th) \/ PostGiveUp(th) \/ PostAppend(th) \/ PostNotify(th)
    \/ PostLeaveMailbox(th) \/ PostLeaveTarget(th)

-----------------------------------------------------------------------------
(* Sender handles.                                                         *)

\* Target.sender on the owner thread; the Sender may cross to any thread.
AcquireSender(th, t) ==
    /\ OwnerInCode
    /\ target[t].handle = "open" /\ ~target[t].closed /\ ~mailbox.closed
    /\ thread[th].sender = None
    /\ thread' = [thread EXCEPT ![th].sender =
                     [target |-> t, generation |-> target[t].generation,
                      context |-> target[t].context]]
    /\ RetainTarget(t)
    /\ UNCHANGED <<mailbox, target, owner, payload, host>>

\* Sender.retain: a copy with the same generation, even a stale one.
RetainSender(from, to) ==
    /\ thread[from].sender # None /\ thread[to].sender = None
    /\ from = Owner => OwnerInCode
    /\ thread' = [thread EXCEPT ![to].sender = thread[from].sender]
    /\ RetainTarget(thread[from].sender.target)
    /\ UNCHANGED <<mailbox, target, owner, payload, host>>

\* Sender.deinit.
ReleaseSender(th) ==
    /\ thread[th].sender # None /\ thread[th].pc = "idle"
    /\ th = Owner => OwnerInCode
    /\ thread' = [thread EXCEPT ![th].sender = None]
    /\ ReleaseTarget(thread[th].sender.target)
    /\ UNCHANGED <<mailbox, target, owner, payload, host>>

-----------------------------------------------------------------------------
(* Target lifecycle, on the owner thread (from host code or a callback).   *)

BeginOp(name, t, c) ==
    owner' = [owner EXCEPT !.op = name, !.target = t, !.context = c]

EndOp == BeginOp("none", None, None)

CreateTarget(t, c) ==
    /\ OwnerInCode /\ mailbox.handle /\ ~mailbox.closed
    /\ target[t].handle = "none"
    /\ target' = [target EXCEPT ![t].handle = "open", ![t].context = c]
    /\ targetRefs' = [targetRefs EXCEPT ![t] = 1]
    /\ mailboxRefs' = mailboxRefs + 1
    /\ UNCHANGED <<mailbox, thread, owner, payload, host>>

\* Mistake: invalidate and renew keep the generation.
GenerationKept(t) == UNCHANGED target
GenerationAdvanced(t) == target' = [target EXCEPT ![t].generation = @ + 1]

\* Invalidate and renew advance the generation and then wait, the target
\* mutex released, until active_posts is 0.
AdvanceGeneration(t, name, c) ==
    /\ OwnerInCode
    /\ target[t].handle = "open" /\ ~target[t].closed
    /\ target[t].generation < MaxGeneration
    /\ GenerationAdvanced(t)
    /\ BeginOp(name, t, c)
    /\ UNCHANGED <<mailbox, refs, thread, payload, host>>

Invalidate(t) == AdvanceGeneration(t, "invalidate", None)

Renew(t, c) == AdvanceGeneration(t, "renew", c)

\* Mistake: the target is not marked closed.
LeftOpen(t) == UNCHANGED target
MarkedClosed(t) ==
    target' = [target EXCEPT ![t].closed = TRUE,
                             ![t].generation = IF target[t].closed THEN @ ELSE @ + 1]

\* Target.close and deinit: only the first close advances the generation (a
\* second close finds nothing to do and nobody to wait for: a stutter).
CloseTarget(t, name) ==
    /\ OwnerInCode
    /\ target[t].handle = "open"
    /\ name = "closeTarget" => ~target[t].closed
    /\ MarkedClosed(t)
    /\ BeginOp(name, t, None)
    /\ UNCHANGED <<mailbox, refs, thread, payload, host>>

\* Mistake: a target's call does not wait for its producers.
EndWaitAtOnce(t) == TRUE
ProducersLeft(t) == target[t].active = 0

\* Mistake: Mailbox.close does not wait for its producers.
CloseWithoutWaiting == TRUE
MailboxProducersLeft == mailbox.active = 0

\* The wait loop of either kind of call: producers are still inside.
Sleep ==
    /\ ~owner.asleep
    /\ \/ owner.op \in TargetOps /\ ~ProducersLeft(owner.target)
       \/ owner.op \in MailboxOps /\ ~MailboxProducersLeft
    /\ owner' = [owner EXCEPT !.asleep = TRUE]
    /\ UNCHANGED <<mailbox, target, refs, thread, payload, host>>

\* The wait is over: install the new context, or drop it; deinit also gives
\* up the handle's reference.
FinishTargetOp ==
    LET t == owner.target IN
    /\ ~owner.asleep /\ owner.op \in TargetOps /\ ProducersLeft(t)
    /\ target' = [target EXCEPT
          ![t].context = IF owner.op = "invalidate" THEN @ ELSE owner.context,
          ![t].handle = IF owner.op = "deinitTarget" THEN "gone" ELSE @]
    /\ IF owner.op = "deinitTarget" THEN ReleaseTarget(t) ELSE UNCHANGED refs
    /\ EndOp
    /\ UNCHANGED <<mailbox, thread, payload, host>>

TargetLifecycle ==
    \/ \E t \in Targets, c \in Contexts : CreateTarget(t, c) \/ Renew(t, c)
    \/ \E t \in Targets : Invalidate(t) \/ CloseTarget(t, "closeTarget")
                                        \/ CloseTarget(t, "deinitTarget")
    \/ FinishTargetOp

-----------------------------------------------------------------------------
(* Mailbox lifecycle.                                                      *)

\* Mailbox.close, also re-entrantly from a callback; deinit never in a drain.
CloseMailbox(name) ==
    /\ OwnerInCode /\ mailbox.handle
    /\ name = "closeMailbox" => ~mailbox.closed
    /\ name = "deinitMailbox" => ~owner.draining
    /\ mailbox' = [mailbox EXCEPT !.closed = TRUE]
    /\ BeginOp(name, None, None)
    /\ UNCHANGED <<target, refs, thread, payload, host>>

\* Mistake: the queue is read, and not taken.
QueueKept == UNCHANGED mailbox
QueueTaken == mailbox' = [mailbox EXCEPT !.queue = <<>>]

\* No producer left inside: take the queue.
TakeQueueToDispose ==
    /\ ~owner.asleep /\ owner.op \in MailboxOps /\ MailboxProducersLeft
    /\ QueueTaken
    /\ owner' = [owner EXCEPT
          !.dying = mailbox.queue,
          !.op = IF @ = "closeMailbox" THEN "disposeClose" ELSE "disposeDeinit"]
    /\ UNCHANGED <<target, refs, thread, payload, host>>

\* disposeBatch, one node.
DisposeQueued ==
    /\ owner.op \in DisposeOps /\ owner.dying # <<>>
    /\ Dispose(Head(owner.dying))
    /\ ReleaseTarget(payload[Head(owner.dying)].tag.target)
    /\ owner' = [owner EXCEPT !.dying = Tail(@)]
    /\ UNCHANGED <<mailbox, target, thread, host>>

FinishMailboxOp ==
    /\ owner.op \in DisposeOps /\ owner.dying = <<>>
    /\ IF owner.op = "disposeDeinit"
       THEN mailbox' = [mailbox EXCEPT !.handle = FALSE] /\ mailboxRefs' = mailboxRefs - 1
       ELSE UNCHANGED <<mailbox, mailboxRefs>>
    /\ EndOp
    /\ UNCHANGED <<target, targetRefs, thread, payload, host>>

MailboxLifecycle ==
    \/ CloseMailbox("closeMailbox") \/ CloseMailbox("deinitMailbox")
    \/ TakeQueueToDispose \/ DisposeQueued \/ FinishMailboxOp

-----------------------------------------------------------------------------
(* Mailbox.drain.                                                          *)

\* The host consumes the wake edge (or its own timeout) and then drains.
HostWakes ==
    /\ AtHostBoundary /\ ~host.awake
    /\ host' = [wake |-> FALSE, awake |-> TRUE]
    /\ UNCHANGED <<mailbox, target, refs, thread, owner, payload>>

\* Take the whole queue as this drain's snapshot.
DrainBegin ==
    /\ AtHostBoundary /\ host.awake /\ mailbox.handle
    /\ QueueTaken
    /\ owner' = [owner EXCEPT !.draining = TRUE, !.batch = mailbox.queue]
    /\ host' = [host EXCEPT !.awake = FALSE]
    /\ UNCHANGED <<target, refs, thread, payload>>

InDrainLoop == OwnerFree /\ owner.draining /\ owner.running = None

DrainInvoke ==
    LET p == Head(owner.batch) IN
    /\ InDrainLoop /\ owner.batch # <<>>
    /\ NodeDeliverable(p)
    /\ owner' = [owner EXCEPT !.running = p, !.batch = Tail(@)]
    /\ payload' = [payload EXCEPT ![p].ran = target[payload[p].tag.target].context]
    /\ UNCHANGED <<mailbox, target, refs, thread, host>>

DrainCancel ==
    LET p == Head(owner.batch) IN
    /\ InDrainLoop /\ owner.batch # <<>>
    /\ ~NodeDeliverable(p)
    /\ Dispose(p)
    /\ ReleaseTarget(payload[p].tag.target)
    /\ owner' = [owner EXCEPT !.batch = Tail(@)]
    /\ UNCHANGED <<mailbox, target, thread, host>>

\* invoke returns, with or without an error: disposeNode.
DrainReturn ==
    /\ OwnerFree /\ owner.running # None /\ owner.inline = <<>>
    /\ Dispose(owner.running)
    /\ ReleaseTarget(payload[owner.running].tag.target)
    /\ owner' = [owner EXCEPT !.running = None]
    /\ UNCHANGED <<mailbox, target, thread, host>>

DrainEnd ==
    /\ InDrainLoop /\ owner.batch = <<>>
    /\ owner' = [owner EXCEPT !.draining = FALSE]
    /\ UNCHANGED <<mailbox, target, refs, thread, payload, host>>

Drain == HostWakes \/ DrainBegin \/ DrainInvoke \/ DrainCancel \/ DrainReturn \/ DrainEnd

-----------------------------------------------------------------------------
(* Sender.deliverOwned on the owner thread.  From any other thread it is   *)
(* postOwned.                                                              *)

CanDeliver(p) == CanPost(Owner, p) /\ Len(owner.inline) < MaxInline

DeliverRefused(p) ==
    /\ CanDeliver(p)
    /\ mailbox.closed \/ ~Current(thread[Owner].sender)
    /\ DisposeUnposted(p, thread[Owner].sender)
    /\ UNCHANGED <<mailbox, target, refs, thread, owner, host>>

\* The temporary retain outlives the callback, which may release everything.
DeliverInvoke(p) ==
    LET s == thread[Owner].sender IN
    /\ CanDeliver(p)
    /\ ~mailbox.closed /\ Current(s)
    /\ RetainTarget(s.target)
    /\ owner' = [owner EXCEPT !.inline = Append(@, p)]
    /\ payload' = [payload EXCEPT ![p].tag = s, ![p].ran = target[s.target].context]
    /\ UNCHANGED <<mailbox, target, thread, host>>

DeliverReturn ==
    LET p == Last(owner.inline) IN
    /\ OwnerFree /\ owner.inline # <<>>
    /\ Dispose(p)
    /\ ReleaseTarget(payload[p].tag.target)
    /\ owner' = [owner EXCEPT !.inline = Front(@)]
    /\ UNCHANGED <<mailbox, target, thread, host>>

-----------------------------------------------------------------------------
Next ==
    \/ \E th \in Threads :
          \/ \E p \in Payloads : PostRefused(th, p) \/ PostEnterTarget(th, p)
          \/ PostContinues(th)
          \/ \E t \in Targets : AcquireSender(th, t)
          \/ \E to \in Threads : RetainSender(th, to)
          \/ ReleaseSender(th)
    \/ TargetLifecycle \/ MailboxLifecycle \/ Sleep \/ Drain
    \/ \E p \in Payloads : DeliverRefused(p) \/ DeliverInvoke(p)
    \/ DeliverReturn

Spec == Init /\ [][Next]_vars

\* A post that has begun goes on (its thread holds no lock across steps), the
\* owner's lifecycle calls and its drain loop go on, callbacks return, and a
\* host whose wake edge is set gets round to draining.  Nobody is forced to
\* start a post, to release a sender or to close anything.
OwnerContinues ==
    \/ Sleep \/ FinishTargetOp \/ TakeQueueToDispose \/ DisposeQueued \/ FinishMailboxOp
    \/ DrainInvoke \/ DrainCancel \/ DrainEnd

Fairness ==
    /\ \A th \in Threads : WF_vars(PostContinues(th))
    /\ WF_vars(OwnerContinues)
    /\ WF_vars(DrainReturn) /\ WF_vars(DeliverReturn)
    /\ WF_vars(host.wake /\ HostWakes) /\ WF_vars(DrainBegin)

FairSpec == Spec /\ Fairness

-----------------------------------------------------------------------------
(* Properties.                                                             *)

MailboxType == [handle : BOOLEAN, closed : BOOLEAN, active : Nat, queue : Seq(Payloads)]

TargetType == [handle : {"none", "open", "gone"}, closed : BOOLEAN, active : Nat,
               generation : Nat, context : Contexts \cup {None}]

ThreadType == [sender : Sender \cup {None}, pc : InTargetSection \cup {"idle"},
               held : Payloads \cup {None}]

OwnerType == [op : TargetOps \cup MailboxOps \cup DisposeOps \cup {"none"},
              target : Targets \cup {None}, context : Contexts \cup {None},
              asleep : BOOLEAN, dying : Seq(Payloads), draining : BOOLEAN,
              batch : Seq(Payloads), running : Payloads \cup {None},
              inline : Seq(Payloads)]

PayloadType == [tag : Sender \cup {None}, ran : Contexts \cup {None}, destroyed : Nat]

\* The values of every field; in particular no active_posts counter is ever
\* decremented below 0.
TypeOK ==
    /\ mailbox \in MailboxType
    /\ target \in [Targets -> TargetType]
    /\ mailboxRefs \in Int /\ targetRefs \in [Targets -> Int]
    /\ thread \in [Threads -> ThreadType]
    /\ owner \in OwnerType
    /\ payload \in [Payloads -> PayloadType]
    /\ host \in [wake : BOOLEAN, awake : BOOLEAN]

\* The places a payload can be in between postOwned and its destroy call: on a
\* posting thread, in the queue, or taken from it by the owner.
Indices(seq, p) == {i \in DOMAIN seq : seq[i] = p}

OwnerPlaces(p) ==
    ({"queue"} \X Indices(mailbox.queue, p)) \cup ({"batch"} \X Indices(owner.batch, p))
    \cup ({"dying"} \X Indices(owner.dying, p)) \cup ({"inline"} \X Indices(owner.inline, p))
    \cup {<<"running", i>> : i \in {x \in {1} : owner.running = p}}

Places(p) == OwnerPlaces(p) \cup ({"held"} \X {th \in Threads : thread[th].held = p})

\* "destroy is called exactly once, including allocation failure and immediate
\* cancellation" (OwnerMailbox.zig:22): from the call of postOwned until its
\* destroy a payload has exactly one owner, and none afterwards, whichever of
\* the post, the drain, a close or an inline hand-off ends up disposing of it.
OneOwnerUntilDestroyed ==
    \A p \in Payloads :
        Cardinality(Places(p)) + payload[p].destroyed
            = IF payload[p].tag = None THEN 0 ELSE 1

\* A payload only ever runs in the owner context its Sender was acquired
\* under: an invalidated, renewed or closed target never lets an old task see
\* the context that replaced it, or a missing one (OwnerMailbox.zig:238-241).
NeverAStaleContext ==
    \A p \in Payloads : payload[p].ran # None => payload[p].ran = payload[p].tag.context

\* The producers a counter stands for.
ProducersIn(t) ==
    {th \in Threads : thread[th].pc \in InTargetSection /\ thread[th].sender.target = t}

ProducersInMailbox == {th \in Threads : thread[th].pc \in InMailboxSection}

\* active_posts counts the producers inside each section, no more (the wait
\* would never end) and no fewer (it would end too early, and the assertions
\* of endTargetPost and endMailboxPost would fail).
ActivePostsExact ==
    /\ mailbox.active = Cardinality(ProducersInMailbox)
    /\ \A t \in Targets : target[t].active = Cardinality(ProducersIn(t))

\* Outside the owner's own wait, every producer inside a target's section
\* posts for the current generation of an open target: once invalidate, renew
\* or close returned, no older producer can still touch the wake callback or
\* the context (OwnerMailbox.zig:286-287, 302-304).
TargetQuiescedAfterWait ==
    \A th \in Threads :
        thread[th].pc \in InTargetSection /\ owner.target # thread[th].sender.target
            => Current(thread[th].sender)

\* Once Mailbox.close has returned, nobody is inside the mailbox's section and
\* nothing is queued: the embedder may destroy wake.context
\* (OwnerMailbox.zig:208-210).
NoWakeAfterMailboxClose ==
    mailbox.closed /\ owner.op \notin MailboxOps
        => ProducersInMailbox = {} /\ mailbox.queue = <<>>

\* Who may still reach a target: its handle, Senders, and payloads in flight.
SenderHolders(t) ==
    {th \in Threads : thread[th].sender # None /\ thread[th].sender.target = t}

NodeHolders(t) ==
    {p \in Payloads : payload[p].tag # None /\ payload[p].tag.target = t /\ OwnerPlaces(p) # {}}

\* The reference counts are exactly the handles and nodes that exist, so no
\* core is freed while somebody can still reach it, and none leaks.
RefsExact ==
    /\ \A t \in Targets :
          targetRefs[t] = (IF target[t].handle = "open" THEN 1 ELSE 0)
                          + Cardinality(SenderHolders(t)) + Cardinality(NodeHolders(t))
    /\ mailboxRefs = (IF mailbox.handle THEN 1 ELSE 0)
                     + Cardinality({t \in Targets : targetRefs[t] > 0})

\* The assertions of releaseTarget and releaseMailbox: a core dies closed,
\* with no producer inside it and nothing queued.
LastReleaseAsserts ==
    /\ \A t \in Targets : target[t].handle # "none" /\ targetRefs[t] = 0
          => target[t].closed /\ target[t].active = 0
    /\ mailboxRefs = 0 => mailbox.closed /\ mailbox.active = 0 /\ mailbox.queue = <<>>

\* The mailbox implements TaskDelivery: one global FIFO of accepted tasks, no
\* task started once revoked, every task ended once.
StateOf(p) ==
    LET k == payload[p] IN
    IF k.tag = None THEN "new"
    ELSE IF k.destroyed > 0 THEN IF k.ran = None THEN "cancelled" ELSE "done"
    ELSE IF OwnerPlaces(p) = {} THEN "offered"
    ELSE IF k.ran # None THEN "running" ELSE "pending"

Delivery == INSTANCE TaskDelivery WITH
    Tasks <- Payloads,
    state <- [p \in Payloads |-> StateOf(p)],
    pending <- owner.batch \o owner.dying \o mailbox.queue,
    deliverable <- {p \in Payloads : payload[p].tag = None \/ NodeDeliverable(p)}

ImplementsTaskDelivery == Delivery!Spec

\* Every payload handed to the mailbox is disposed of in the end: a wake-up is
\* never lost between an append and the host's drain.
EveryPayloadEnds ==
    \A p \in Payloads : payload[p].tag # None ~> payload[p].destroyed = 1

\* Invalidate, renew, close and deinit return: the owner is never left waiting
\* on posts_done.
LifecycleCallsReturn == owner.op # "none" ~> owner.op = "none"
=============================================================================
