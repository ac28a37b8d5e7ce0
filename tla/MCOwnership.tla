----------------------------- MODULE MCOwnership -----------------------------
(* Instances of OwnershipTransfer for TLC.                                 *)
EXTENDS OwnershipTransfer, TLC

\* Requests are interchangeable, and so are the users who own nothing yet.
OwnershipSymmetry == Permutations(Calls) \cup Permutations(Users \ {Creator})
=============================================================================
