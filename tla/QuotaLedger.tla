----------------------------- MODULE QuotaLedger -----------------------------
(***************************************************************************)
(* What an account may expect of its quota: a ledger of what it stores and *)
(* what has been promised to its uploads.  Only two bookings look at the   *)
(* quota, a new promise and a growth that was not promised; a promise that *)
(* is kept is moved from one column to the other, whatever else has been   *)
(* booked since it was given.  Promises may lapse at any booking.          *)
(***************************************************************************)
EXTENDS Naturals

CONSTANTS Accounts, Quota

VARIABLES
    stored,    \* units each account stores
    promised   \* units promised to uploads that have not stored them yet

ledgerVars == <<stored, promised>>

\* The promises of the other accounts may lapse, nothing else of theirs
\* changes.
OthersLapse(a) ==
    \A c \in Accounts \ {a} : /\ stored'[c] = stored[c]
                              /\ promised'[c] <= promised[c]

HasRoom(a) == stored'[a] + promised'[a] <= Quota

\* One more unit is promised, if there is room for it.
Promise(a) ==
    /\ stored'[a] = stored[a]
    /\ promised'[a] <= promised[a] + 1
    /\ HasRoom(a)

\* A promise is kept: nobody asks for room again.
Keep(a) ==
    /\ promised[a] > 0
    /\ stored'[a] = stored[a] + 1
    /\ promised'[a] = promised[a] - 1

\* Something is stored that was not promised, if there is room for it.
Grow(a) ==
    /\ stored'[a] > stored[a]
    /\ promised'[a] <= promised[a]
    /\ HasRoom(a)

\* Stored units are given up, or promises lapse.  An upload that was free,
\* because the account stored its unit already, takes over its place.
Release(a) ==
    /\ stored'[a] <= stored[a]
    /\ stored'[a] + promised'[a] <= stored[a] + promised[a]

LedgerInit ==
    /\ stored = [a \in Accounts |-> 0]
    /\ promised = [a \in Accounts |-> 0]

LedgerNext ==
    /\ stored' \in [Accounts -> Nat] /\ promised' \in [Accounts -> Nat]
    /\ \E a \in Accounts :
         /\ OthersLapse(a)
         /\ Promise(a) \/ Keep(a) \/ Grow(a) \/ Release(a)

LedgerSpec == LedgerInit /\ [][LedgerNext]_ledgerVars

=============================================================================
