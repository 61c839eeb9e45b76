--------------------------- MODULE MCRegistration ---------------------------
\* A small instance of Registration.  Works, tokens, asset ids and requests are
\* interchangeable.
EXTENDS Registration, TLC

SYMM == Permutations(Works) \cup Permutations(Tokens) \cup Permutations(Assets) \cup Permutations(Requests)
=============================================================================
