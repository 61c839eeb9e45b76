--------------------------- MODULE MCNegotiation ---------------------------
(* Negotiation for TLC: buyers, rows and requests are interchangeable. *)
EXTENDS Negotiation, TLC

Symmetry == Permutations(Buyers) \cup Permutations(Rows) \cup Permutations(Requests)
=============================================================================
