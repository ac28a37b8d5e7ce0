------------------------------ MODULE MCOutbox ------------------------------
(* Instances of Outbox for TLC.                                            *)
EXTENDS Outbox, TLC

\* Effects, workers and enqueuers are interchangeable.
OutboxSymmetry ==
    Permutations(Effects) \cup Permutations(Workers) \cup Permutations(Enqueuers)
=============================================================================
