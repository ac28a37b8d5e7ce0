--------------------------- MODULE MCMarketplace ---------------------------
(* A small instance of both contracts for TLC. *)
EXTENDS Marketplace, TLC

AccountSymmetry == Permutations(Accounts)

=============================================================================
