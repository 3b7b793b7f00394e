--------------------------- MODULE MCDeviceGroups ---------------------------
(***************************************************************************)
(* Small instances of DeviceGroups for TLC.                                *)
(***************************************************************************)
EXTENDS DeviceGroups, TLC

CONSTANTS a1, d1, d2, d3

\* Three devices of one account.
OneAccount == d1 :> a1 @@ d2 :> a1 @@ d3 :> a1

\* The order of the group identifiers.
Ranks == d1 :> 1 @@ d2 :> 2 @@ d3 :> 3

\* Handlers and codes are interchangeable.
HandlerSymmetry == Permutations(Handlers) \cup Permutations(Macs)

=============================================================================
