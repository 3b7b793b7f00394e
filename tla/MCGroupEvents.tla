---------------------------- MODULE MCGroupEvents ----------------------------
(***************************************************************************)
(* Small instances of GroupEvents for TLC.                                 *)
(***************************************************************************)
EXTENDS GroupEvents, TLC

CONSTANTS a1, d1, d2, d3

\* All devices belong to one account.
OneAccount == [d \in Devices |-> a1]

\* The order of the group identifiers.
Ranks == [d \in Devices |-> IF d = d1 THEN 1 ELSE IF d = d2 THEN 2 ELSE 3]

\* Handlers and connections are interchangeable.
EventSymmetry == Permutations(Handlers) \cup Permutations(Conns)

=============================================================================
