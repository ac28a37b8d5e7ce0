------------------------------ MODULE MCRefund ------------------------------
(* Instances of RefundWorkflow for TLC.                                    *)
EXTENDS RefundWorkflow, TLC

\* Claims, and processes of one kind, are interchangeable.
RefundSymmetry == Permutations(Refunds) \cup Permutations(Workers)
=============================================================================
