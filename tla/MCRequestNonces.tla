--------------------------- MODULE MCRequestNonces ---------------------------
(***************************************************************************)
(* Small instances of RequestNonces for TLC.                               *)
(***************************************************************************)
EXTENDS RequestNonces, TLC

\* Copies and requests are interchangeable.
NonceSymmetry == Permutations(Copies) \cup Permutations(Nonces)

=============================================================================
