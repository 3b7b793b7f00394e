------------------------- MODULE RequestNoncesProofs -------------------------
(***************************************************************************)
(* For any number of requests, copies and restarts, and any window, a      *)
(* signed request is let through at most once, provided that a handler is  *)
(* not held up for as long as the margin by which a nonce outlives its     *)
(* request (StallAssumption).                                              *)
(***************************************************************************)
EXTENDS RequestNonces, TLAPS

\* Every step keeps every variable in its type.
LEMMA TypeInit == Init => TypeOK
BY BoundAssumption DEF Init, TypeOK

LEMMA TypeNext == TypeOK /\ [Next]_vars => TypeOK'
<1> SUFFICES ASSUME TypeOK, [Next]_vars PROVE TypeOK'
  OBVIOUS
<1> USE DEF TypeOK
<1>1. ASSUME NEW c \in Copies, NEW n \in Nonces, CheckProof(c, n)
      PROVE  TypeOK'
  BY <1>1 DEF CheckProof
<1>2. ASSUME NEW c \in Copies, DeleteExpired(c) PROVE TypeOK'
  BY <1>2 DEF DeleteExpired
<1>3. ASSUME NEW c \in Copies, UseNonce(c) PROVE TypeOK'
  BY <1>3 DEF UseNonce, Done
<1>4. ASSUME NEW c \in Copies, RefuseReplay(c) PROVE TypeOK'
  BY <1>4 DEF RefuseReplay, Done
<1>5. ASSUME NEW c \in Copies, GiveUp(c) PROVE TypeOK'
  BY <1>5 DEF GiveUp, Done
<1>6. CASE Restart
  BY <1>6 DEF Restart, RowsAfterRestart
<1>7. CASE Tick
  BY <1>7 DEF Tick, handlerVars
<1>8. CASE UNCHANGED vars
  BY <1>8 DEF vars, handlerVars
<1> QED BY <1>1, <1>2, <1>3, <1>4, <1>5, <1>6, <1>7, <1>8 DEF Next, CopyStep

\* The variables never leave their types.
THEOREM NonceTypes == Spec => []TypeOK
BY TypeInit, TypeNext, PTL DEF Spec

\* A handler is at most MaxStall behind the clock it has read: Tick waits for
\* it, and everything else leaves clock and reading alone.
LEMMA RecentNext ==
    TypeOK /\ CopiesAreRecent /\ [Next]_vars => CopiesAreRecent'
<1> SUFFICES ASSUME TypeOK, CopiesAreRecent, [Next]_vars
             PROVE  CopiesAreRecent'
  OBVIOUS
<1> USE StallAssumption DEF TypeOK, CopiesAreRecent
<1>1. ASSUME NEW c \in Copies, NEW n \in Nonces, CheckProof(c, n)
      PROVE  CopiesAreRecent'
  BY <1>1 DEF CheckProof, InWindow
<1>2. ASSUME NEW c \in Copies, DeleteExpired(c) PROVE CopiesAreRecent'
  BY <1>2 DEF DeleteExpired
<1>3. ASSUME NEW c \in Copies, UseNonce(c) PROVE CopiesAreRecent'
  BY <1>3 DEF UseNonce, Done
<1>4. ASSUME NEW c \in Copies, RefuseReplay(c) PROVE CopiesAreRecent'
  BY <1>4 DEF RefuseReplay, Done
<1>5. ASSUME NEW c \in Copies, GiveUp(c) PROVE CopiesAreRecent'
  BY <1>5 DEF GiveUp, Done
<1>6. CASE Restart
  BY <1>6 DEF Restart
<1>7. CASE Tick
  BY <1>7 DEF Tick, handlerVars
<1>8. CASE UNCHANGED vars
  BY <1>8 DEF vars, handlerVars
<1> QED BY <1>1, <1>2, <1>3, <1>4, <1>5, <1>6, <1>7, <1>8 DEF Next, CopyStep

\* A row is deleted when its expiry lies behind an instant a handler has
\* read, hence behind the clock.
LEMMA KeptNext ==
    TypeOK /\ CopiesAreRecent /\ NonceKept /\ [Next]_vars => NonceKept'
<1> SUFFICES ASSUME TypeOK, CopiesAreRecent, NonceKept, [Next]_vars
             PROVE  NonceKept'
  OBVIOUS
<1> USE StallAssumption DEF TypeOK, NonceKept
<1>1. ASSUME NEW c \in Copies, NEW n \in Nonces, CheckProof(c, n)
      PROVE  NonceKept'
  BY <1>1 DEF CheckProof
<1>2. ASSUME NEW c \in Copies, DeleteExpired(c) PROVE NonceKept'
  <2>1. seen[c] \in Nat /\ seen[c] <= now
    BY <1>2 DEF DeleteExpired, CopiesAreRecent
  <2>2. ASSUME NEW n \in rows, n \notin rows'
        PROVE  now >= signedAt[n] + Skew + Margin
    BY <1>2, <2>1, <2>2 DEF DeleteExpired, ExpiresAt
  <2> QED BY <1>2, <2>2 DEF DeleteExpired
<1>3. ASSUME NEW c \in Copies, UseNonce(c) PROVE NonceKept'
  BY <1>3 DEF UseNonce, Done
<1>4. ASSUME NEW c \in Copies, RefuseReplay(c) PROVE NonceKept'
  BY <1>4 DEF RefuseReplay, Done
<1>5. ASSUME NEW c \in Copies, GiveUp(c) PROVE NonceKept'
  BY <1>5 DEF GiveUp, Done
<1>6. CASE Restart
  BY <1>6 DEF Restart, RowsAfterRestart
<1>7. CASE Tick
  BY <1>7 DEF Tick, handlerVars
<1>8. CASE UNCHANGED vars
  BY <1>8 DEF vars, handlerVars
<1> QED BY <1>1, <1>2, <1>3, <1>4, <1>5, <1>6, <1>7, <1>8 DEF Next, CopyStep

\* A copy that may still insert was read inside the window, so the row of its
\* request cannot have been deleted after a first acceptance.
LEMMA OnceNext ==
    TypeOK /\ CopiesAreRecent /\ NonceKept /\ AcceptedOnce /\ [Next]_vars
        => AcceptedOnce'
<1> SUFFICES ASSUME TypeOK, CopiesAreRecent, NonceKept, AcceptedOnce,
                    [Next]_vars
             PROVE  AcceptedOnce'
  OBVIOUS
<1> USE DEF TypeOK, AcceptedOnce
<1>1. ASSUME NEW c \in Copies, UseNonce(c) PROVE AcceptedOnce'
  <2> DEFINE n == nonce[c]
  <2>1. n \in Nonces /\ n \notin rows /\ pc[c] # "idle"
    BY <1>1 DEF UseNonce
  <2>2. now <= seen[c] + MaxStall /\ seen[c] <= signedAt[n] + Skew
    BY <2>1 DEF CopiesAreRecent
  <2>3. now < signedAt[n] + Skew + Margin
    BY <2>1, <2>2, StallAssumption
  <2>4. accepted[n] = 0
    BY <2>1, <2>3, StallAssumption DEF NonceKept
  <2> QED BY <1>1, <2>1, <2>4 DEF UseNonce
<1>2. ASSUME UNCHANGED accepted PROVE AcceptedOnce'
  BY <1>2
<1>3. ASSUME NEW c \in Copies, CopyStep(c), ~UseNonce(c)
      PROVE  UNCHANGED accepted
  BY <1>3 DEF CopyStep, CheckProof, DeleteExpired, RefuseReplay, GiveUp
<1>4. Restart \/ Tick \/ UNCHANGED vars => UNCHANGED accepted
  BY DEF Restart, Tick, vars
<1> QED BY <1>1, <1>2, <1>3, <1>4 DEF Next

NonceInv == TypeOK /\ CopiesAreRecent /\ NonceKept /\ AcceptedOnce

LEMMA NonceInvHolds == Spec => []NonceInv
<1>1. Init => NonceInv
  BY TypeInit, StallAssumption
     DEF Init, NonceInv, CopiesAreRecent, NonceKept, AcceptedOnce
<1>2. NonceInv /\ [Next]_vars => NonceInv'
  BY TypeNext, RecentNext, KeptNext, OnceNext DEF NonceInv
<1> QED BY <1>1, <1>2, PTL DEF Spec

\* The row of an accepted request outlives every copy of the request: it is
\* deleted only once the margin after the window has passed (the expiry that
\* RequireDeviceProof hands to UseRequestNonce).
THEOREM NoncesAreKept == Spec => []NonceKept
BY NonceInvHolds, PTL DEF NonceInv

\* A signed request is let through at most once (RequireDeviceProof with
\* UseRequestNonce), for every number of copies and across restarts.
THEOREM NeverReplayed == Spec => []AcceptedOnce
BY NonceInvHolds, PTL DEF NonceInv

=============================================================================
