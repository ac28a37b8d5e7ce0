-------------------------- MODULE EscrowSettlement --------------------------
(***************************************************************************)
(* What the purchase manager promises of a paid purchase, without quotes,  *)
(* assets, ledgers or administrators: the money is held, may be frozen by  *)
(* a dispute, and leaves once, to the creator or back to the buyer; the    *)
(* buyer's access comes with the purchase and goes only with the money.    *)
(*                                                                         *)
(* The promise is per purchase id, and ends (Collide) if the contract ever *)
(* records two purchases under one id.                                     *)
(***************************************************************************)
CONSTANT Purchases

VARIABLES
    custody,  \* where the money of each purchase is
    access    \* the purchases that give their buyer access

vars == <<custody, access>>

Custody == {"none", "held", "frozen", "paid_out", "paid_back", "void"}

Init ==
    /\ custody = [p \in Purchases |-> "none"]
    /\ access = {}

\* One purchase, or the purchases of a bulk sale.
Open(S) ==
    /\ \A p \in S : custody[p] = "none"
    /\ custody' = [p \in Purchases |-> IF p \in S THEN "held" ELSE custody[p]]
    /\ access' = access \cup S

Freeze(p) ==
    /\ custody[p] = "held"
    /\ custody' = [custody EXCEPT ![p] = "frozen"]
    /\ UNCHANGED access

PayOut(p) ==
    /\ custody[p] \in {"held", "frozen"}
    /\ custody' = [custody EXCEPT ![p] = "paid_out"]
    /\ UNCHANGED access

PayBack(p) ==
    /\ custody[p] \in {"held", "frozen"}
    /\ custody' = [custody EXCEPT ![p] = "paid_back"]
    /\ access' = access \ {p}

Collide ==
    /\ custody' = [p \in Purchases |-> "void"]
    /\ access' = {}

Next ==
    \/ \E S \in SUBSET Purchases : Open(S)
    \/ \E p \in Purchases : Freeze(p) \/ PayOut(p) \/ PayBack(p)
    \/ Collide

Spec == Init /\ [][Next]_vars
=============================================================================
