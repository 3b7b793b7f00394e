--------------------------- MODULE MCHashedLimiter ---------------------------
(***************************************************************************)
(* Small instances of HashedLimiter for TLC.                               *)
(***************************************************************************)
EXTENDS HashedLimiter, TLC

\* Calls are interchangeable, and so are keys.
LimiterSymmetry == Permutations(Calls) \cup Permutations(Keys)

=============================================================================
