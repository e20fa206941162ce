--------------------------- MODULE MCOwnerMailbox ---------------------------
(* Finite instances of OwnerMailbox.                                       *)
EXTENDS OwnerMailbox, TLC

\* Producers, targets, payloads and contexts are interchangeable (safety runs only).
Symmetry ==
    Permutations(Producers) \cup Permutations(Targets) \cup Permutations(Payloads)
        \cup Permutations(Contexts)
=============================================================================
