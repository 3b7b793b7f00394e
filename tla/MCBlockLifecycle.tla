-------------------------- MODULE MCBlockLifecycle --------------------------
(***************************************************************************)
(* Small instances of BlockLifecycle for TLC.                              *)
(***************************************************************************)
EXTENDS BlockLifecycle, TLC

CONSTANTS a1, a2, d1, d2, d3

\* Two devices of one account.
OneAccount == d1 :> a1 @@ d2 :> a1

\* Two accounts with a device each.
TwoAccounts == d1 :> a1 @@ d3 :> a2

\* Requests are interchangeable until they arrive, and so are the blocks and
\* the devices of one account.
FullSymmetry ==
    Permutations(Uploads) \cup Permutations(Devices) \cup Permutations(Blocks)

=============================================================================
