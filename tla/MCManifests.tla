----------------------------- MODULE MCManifests -----------------------------
(***************************************************************************)
(* Small instances of Manifests for TLC.                                   *)
(***************************************************************************)
EXTENDS Manifests, TLC

\* Writes are interchangeable, and so are attempts.
ManifestSymmetry == Permutations(Writes) \cup Permutations(Requests)

=============================================================================
