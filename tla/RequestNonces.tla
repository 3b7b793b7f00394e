---------------------------- MODULE RequestNonces ----------------------------
(***************************************************************************)
(* Replay protection of signed requests.  A request carries the instant it *)
(* was signed and a nonce.  The middleware reads the clock, accepts a      *)
(* signature that is at most Skew away from it, deletes the nonces that    *)
(* have expired and inserts the nonce of the request; a row that is        *)
(* already there means a replay.  Deletion and insertion are statements of *)
(* their own, not one transaction, both use the instant read first, and    *)
(* any number of copies of a request may be on their way at once.          *)
(***************************************************************************)
EXTENDS Naturals

CONSTANTS
    Nonces,      \* signed requests; each has a device and a nonce of its own
    Copies,      \* deliveries of them that may be handled at the same time
    Skew,        \* maxProofSkew (5 minutes)
    Margin,      \* the minute a nonce is kept longer
    MaxStall,    \* how long after reading the clock a handler may insert
    MaxTime      \* bound: last instant of the clock

\* A statement waits at most 5 s for the database (busy_timeout), far less
\* than the margin.
ASSUME StallAssumption ==
    /\ Skew \in Nat /\ Margin \in Nat /\ MaxStall \in Nat
    /\ MaxStall < Margin
ASSUME BoundAssumption == MaxTime \in Nat

VARIABLES
    signedAt,    \* the instant each request was signed (the client's clock)
    rows,        \* request_nonces
    pc,          \* where the handler of a copy is,
    nonce,       \* the request it handles,
    seen,        \* the instant it read
    accepted,    \* how often each request has been let through
    now

handlerVars == <<pc, nonce, seen>>
vars == <<signedAt, rows, handlerVars, accepted, now>>

ExpiresAt(n) == signedAt[n] + Skew + Margin

\* Mutated: only signatures from the future are refused.
MutantNoAge(n) == signedAt[n] <= now + Skew

InWindow(n) == signedAt[n] <= now + Skew /\ now <= signedAt[n] + Skew

\* The timestamp and the signature are checked.
CheckProof(c, n) ==
    /\ pc[c] = "idle"
    /\ InWindow(n)
    /\ pc' = [pc EXCEPT ![c] = "checked"]
    /\ nonce' = [nonce EXCEPT ![c] = n]
    /\ seen' = [seen EXCEPT ![c] = now]
    /\ UNCHANGED <<signedAt, rows, accepted, now>>

\* DELETE FROM request_nonces WHERE expires_at <= now
DeleteExpired(c) ==
    /\ pc[c] = "checked"
    /\ rows' = {n \in rows : ExpiresAt(n) > seen[c]}
    /\ pc' = [pc EXCEPT ![c] = "cleaned"]
    /\ UNCHANGED <<signedAt, nonce, seen, accepted, now>>

Done(c) == /\ pc' = [pc EXCEPT ![c] = "idle"]
           /\ UNCHANGED <<nonce, seen>>

\* INSERT OR IGNORE; the request is let through when a row was inserted.
UseNonce(c) ==
    /\ pc[c] = "cleaned"
    /\ nonce[c] \notin rows
    /\ rows' = rows \cup {nonce[c]}
    /\ accepted' = [accepted EXCEPT ![nonce[c]] = @ + 1]
    /\ Done(c)
    /\ UNCHANGED <<signedAt, now>>

RefuseReplay(c) ==
    /\ pc[c] = "cleaned"
    /\ nonce[c] \in rows
    /\ Done(c)
    /\ UNCHANGED <<signedAt, rows, accepted, now>>

\* A statement fails or the client hangs up; the row may have been inserted
\* all the same.
GiveUp(c) ==
    /\ pc[c] # "idle"
    /\ \/ rows' = rows
       \/ pc[c] = "cleaned" /\ rows' = rows \cup {nonce[c]}
    /\ Done(c)
    /\ UNCHANGED <<signedAt, accepted, now>>

RowsAfterRestart == rows

\* The process dies; the rows are on disk.
Restart ==
    /\ pc' = [c \in Copies |-> "idle"]
    /\ rows' = RowsAfterRestart
    /\ UNCHANGED <<signedAt, nonce, seen, accepted, now>>

Tick ==
    /\ now < MaxTime
    /\ \A c \in Copies : pc[c] # "idle" => now < seen[c] + MaxStall
    /\ now' = now + 1
    /\ UNCHANGED <<signedAt, rows, handlerVars, accepted>>

Init ==
    /\ signedAt \in [Nonces -> 0..MaxTime]
    /\ rows = {}
    /\ pc = [c \in Copies |-> "idle"]
    /\ nonce \in [Copies -> Nonces]
    /\ seen = [c \in Copies |-> 0]
    /\ accepted = [n \in Nonces |-> 0]
    /\ now = 0

CopyStep(c) ==
    \/ \E n \in Nonces : CheckProof(c, n)
    \/ DeleteExpired(c) \/ UseNonce(c) \/ RefuseReplay(c) \/ GiveUp(c)

Next == (\E c \in Copies : CopyStep(c)) \/ Restart \/ Tick

Spec == Init /\ [][Next]_vars

----------------------------------------------------------------------------
(* Properties.                                                              *)

\* Every variable has its type.
TypeOK ==
    /\ signedAt \in [Nonces -> Nat]
    /\ rows \subseteq Nonces
    /\ pc \in [Copies -> {"idle", "checked", "cleaned"}]
    /\ nonce \in [Copies -> Nonces]
    /\ seen \in [Copies -> Nat]
    /\ accepted \in [Nonces -> Nat]
    /\ now \in Nat

\* A signed request is let through at most once, whatever copies of it are
\* handled at the same time, however late within the bound on stalls, and
\* also across a restart (RequireDeviceProof, UseRequestNonce).
AcceptedOnce == \A n \in Nonces : accepted[n] <= 1

\* What AcceptedOnce rests on: the row of an accepted request is deleted only
\* when no copy of it can be under way any more (the expiry handed to
\* UseRequestNonce by RequireDeviceProof).
NonceKept ==
    \A n \in Nonces :
        accepted[n] > 0 => n \in rows \/ now >= signedAt[n] + Skew + Margin

\* A handler is never further behind the clock than the bound allows, and
\* was in the window when it read it.
CopiesAreRecent ==
    \A c \in Copies : pc[c] # "idle" =>
        /\ seen[c] <= now /\ now <= seen[c] + MaxStall
        /\ seen[c] <= signedAt[nonce[c]] + Skew

=============================================================================
