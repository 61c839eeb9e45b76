--------------------------- MODULE LicenseLedger ---------------------------
(***************************************************************************)
(* What VeriProof promises a buyer, stated apart from any payment channel. *)
(*                                                                         *)
(* A payment is a chain transaction that pays for one purchase at one      *)
(* price.  A license is granted against one payment, for the asset and the *)
(* price of that purchase; a purchase is licensed at most once, and a      *)
(* license that was granted is never withdrawn or rewritten.               *)
(***************************************************************************)
CONSTANTS
    Sigs,       \* signatures of chain transactions
    Purchases,  \* what a transaction can pay for
    Terms,      \* what a purchase buys: the asset and its price
    None

VARIABLES
    paid,       \* paid[s]: the purchase s pays for and its terms, once final
    granted     \* granted[s]: the terms of the license issued against s

vars == <<paid, granted>>

Payment == [purchase: Purchases, terms: Terms]

Init ==
    /\ paid = [s \in Sigs |-> None]
    /\ granted = [s \in Sigs |-> None]

\* A payment becomes final on chain.
Pay(s) ==
    /\ paid[s] = None
    /\ \E p \in Payment : paid' = [paid EXCEPT ![s] = p]
    /\ UNCHANGED granted

\* A license is issued against a final payment whose purchase has none yet.
Grant(s) ==
    /\ paid[s] # None
    /\ granted[s] = None
    /\ \A t \in Sigs : granted[t] # None => paid[t].purchase # paid[s].purchase
    /\ granted' = [granted EXCEPT ![s] = paid[s].terms]
    /\ UNCHANGED paid

Next == \E s \in Sigs : Pay(s) \/ Grant(s)

Spec == Init /\ [][Next]_vars
=============================================================================
