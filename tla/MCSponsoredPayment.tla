------------------------- MODULE MCSponsoredPayment -------------------------
(* SponsoredPayment for TLC: intents, signatures, requests are interchangeable. *)
EXTENDS SponsoredPayment, TLC

Symmetry == Permutations(Intents) \cup Permutations(Sigs) \cup Permutations(Requests)
=============================================================================
