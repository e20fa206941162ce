---------------------------- MODULE TaskDelivery ----------------------------
(***************************************************************************)
(* What a mailbox promises to the threads that hand it tasks, with no lock,*)
(* counter, generation or reference count in sight.  A task is offered     *)
(* once; it is refused, or it becomes pending at the back of one global    *)
(* FIFO; it starts running only from the front of that FIFO (or, for the   *)
(* owner's own synchronous hand-off, at once); a task whose delivery has   *)
(* been revoked never starts; and every task ends exactly once, either     *)
(* "done" (it ran) or "cancelled" (it never ran).                          *)
(***************************************************************************)
EXTENDS Sequences, FiniteSets, SequencesExt

CONSTANTS Tasks

VARIABLES
    state,      \* where each task is in its life
    pending,    \* the accepted tasks that have not started, oldest first
    deliverable \* the tasks whose delivery has not been revoked

vars == <<state, pending, deliverable>>

TaskState == {"new", "offered", "pending", "running", "done", "cancelled"}

Init ==
    /\ state = [k \in Tasks |-> "new"]
    /\ pending = <<>>
    /\ deliverable = Tasks

Move(k, from, to) ==
    /\ state[k] \in from
    /\ state' = [state EXCEPT ![k] = to]

Offer(k) == Move(k, {"new"}, "offered") /\ UNCHANGED pending

Refuse(k) == Move(k, {"new", "offered"}, "cancelled") /\ UNCHANGED pending

Accept(k) ==
    /\ Move(k, {"offered"}, "pending")
    /\ pending' = Append(pending, k)

\* Only the oldest pending task starts, and only while it is deliverable.
Start(k) ==
    /\ pending # <<>>
    /\ k = Head(pending)
    /\ k \in deliverable
    /\ Move(k, {"pending"}, "running")
    /\ pending' = Tail(pending)

\* The owner hands a task to itself: it never becomes pending.
StartNow(k) ==
    /\ k \in deliverable
    /\ Move(k, {"new"}, "running")
    /\ UNCHANGED pending

\* Only a task that may no longer be delivered is dropped once accepted.
Drop(k) ==
    /\ k \notin deliverable
    /\ Move(k, {"pending"}, "cancelled")
    /\ \E i \in DOMAIN pending : pending[i] = k /\ pending' = RemoveAt(pending, i)

Finish(k) == Move(k, {"running"}, "done") /\ UNCHANGED pending

Revoke == UNCHANGED <<state, pending>>

\* Whatever happens, a revoked task stays revoked.
Next ==
    /\ \/ \E k \in Tasks :
            \/ Offer(k) \/ Refuse(k) \/ Accept(k)
            \/ Start(k) \/ StartNow(k) \/ Drop(k) \/ Finish(k)
       \/ Revoke
    /\ deliverable' \subseteq deliverable

Spec == Init /\ [][Next]_vars
=============================================================================
