---------------------------- MODULE MCSessionFiles ----------------------------
(***************************************************************************)
(* Small instances of SessionFiles for TLC.                                *)
(***************************************************************************)
EXTENDS SessionFiles, TLC

CONSTANTS a1, d1, d2, d3

\* The devices of one account, and the order of the group identifiers.
OneAccount == [d \in Devices |-> a1]
Ranks == d1 :> 1 @@ d2 :> 2 @@ d3 :> 3
PairRanks == d1 :> 1 @@ d2 :> 2

\* Handlers are interchangeable.
HandlerSymmetry == Permutations(Handlers)

=============================================================================
