---------------------------- MODULE MCConnections ----------------------------
(***************************************************************************)
(* Small instances of Connections for TLC.                                 *)
(***************************************************************************)
EXTENDS Connections, TLC

\* Users, attempts and handlers are interchangeable.
ConnectionSymmetry ==
    Permutations(Users) \cup Permutations(Attempts) \cup Permutations(Handlers)

=============================================================================
