---------------------------- MODULE MCBuyerAgent ----------------------------
EXTENDS BuyerAgent, TLC

\* Signatures are interchangeable.
Symmetry == Permutations(Sigs)
=============================================================================
