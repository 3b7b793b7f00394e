--------------------------- MODULE ManifestsProofs ---------------------------
(***************************************************************************)
(* The manifests of a device implement a log without repetitions, for any  *)
(* number of writes and of attempts, in any order.  What makes it work is  *)
(* that a write is always sent with the same base: the version it got, if  *)
(* it got one, is the base plus one (BaseFixesVersion), so that the head   *)
(* has passed its base for good.                                           *)
(***************************************************************************)
EXTENDS Manifests, TLAPS

\* While the rows are there, they are all that was ever stored.
RowsAreHistory == status # "discarded" => manifests = history

BaseFixesVersion ==
    \A v \in 1..Len(history) : base[history[v]] = v - 1

SentHasBase == \A r \in Requests : pc[r] # "idle" => base[write[r]] \in Nat

AnswersAreTrue ==
    \A r \in Requests :
        /\ pc[r] \in {"stored", "conflict"} => answer[r] <= Len(history)
        /\ pc[r] = "stored" => /\ answer[r] \in 1..Len(history)
                               /\ history[answer[r]] = write[r]
        /\ pc[r] = "conflict" /\ answer[r] \in 1..Len(history) =>
               history[answer[r]] # write[r]

AckedIsHistory ==
    \A a \in acked : a[2] \in 1..Len(history) /\ history[a[2]] = a[1]

ManifestInv ==
    /\ TypeOK /\ RowsAreHistory /\ BaseFixesVersion /\ SentHasBase
    /\ AnswersAreTrue /\ AckedIsHistory

----------------------------------------------------------------------------
\* A step either leaves the history alone or appends a write whose base is
\* its length.
LEMMA TypeNext == TypeOK /\ [Next]_vars => TypeOK'
<1> SUFFICES ASSUME TypeOK, [Next]_vars PROVE TypeOK'
  OBVIOUS
<1> USE DEF TypeOK, clientVars, attemptVars
<1>1. ASSUME NEW r \in Requests, NEW w \in Writes, Send(r, w) PROVE TypeOK'
  BY <1>1 DEF Send
<1>2. ASSUME NEW r \in Requests, StoreManifest(r) PROVE TypeOK'
  <2>1. write[r] \in Writes /\ Len(manifests) \in Nat
    OBVIOUS
  <2>2. manifests' \in Seq(Writes) /\ history' \in Seq(Writes)
    BY <1>2, <2>1 DEF StoreManifest
  <2>3. answer' \in [Requests -> Nat]
    BY <1>2, <2>1 DEF StoreManifest, Reply, head
  <2> QED BY <1>2, <2>2, <2>3 DEF StoreManifest, Reply
<1>3. ASSUME NEW r \in Requests, AnswerRetry(r) \/ ReportConflict(r)
      PROVE  TypeOK'
  <2>1. Len(manifests) \in Nat
    OBVIOUS
  <2>2. UNCHANGED <<manifests, history, status, base, known, write, acked>>
    BY <1>3 DEF AnswerRetry, ReportConflict, Reply
  <2>3. pc' \in [Requests -> {"idle", "sent", "stored", "conflict"}]
    BY <1>3 DEF AnswerRetry, ReportConflict, Reply
  <2>4. answer' \in [Requests -> Nat]
    BY <1>3, <2>1 DEF AnswerRetry, ReportConflict, Reply, head
  <2> QED BY <2>2, <2>3, <2>4
<1>4. ASSUME NEW r \in Requests, Receive(r) PROVE TypeOK'
  <2>1. write[r] \in Writes /\ answer[r] \in Nat
    OBVIOUS
  <2>2. acked' \subseteq Writes \X Nat
    BY <1>4, <2>1 DEF Receive
  <2> QED BY <1>4, <2>1, <2>2 DEF Receive, Return
<1>5. ASSUME NEW r \in Requests, Lose(r) PROVE TypeOK'
  BY <1>5 DEF Lose, Return
<1>6. CASE RevokeDevice \/ DiscardOtherGroups
  <2>1. manifests' \in Seq(Writes)
    <3>1. <<>> \in Seq(Writes)
      OBVIOUS
    <3> QED BY <1>6, <3>1 DEF RevokeDevice, DiscardOtherGroups
  <2> QED BY <1>6, <2>1 DEF RevokeDevice, DiscardOtherGroups
<1>7. CASE UNCHANGED vars
  BY <1>7 DEF vars
<1> QED BY <1>1, <1>2, <1>3, <1>4, <1>5, <1>6, <1>7
           DEF Next, PutDeviceManifest

LEMMA InvInit == Init => ManifestInv
BY NullAssumption
   DEF Init, ManifestInv, TypeOK, RowsAreHistory, BaseFixesVersion,
       SentHasBase, AnswersAreTrue, AckedIsHistory

LEMMA InvNext == ManifestInv /\ [Next]_vars => ManifestInv'
<1> SUFFICES ASSUME ManifestInv, [Next]_vars PROVE ManifestInv'
  OBVIOUS
<1>0. TypeOK'
  BY TypeNext DEF ManifestInv
<1> USE NullAssumption
    DEF ManifestInv, TypeOK, RowsAreHistory, BaseFixesVersion, SentHasBase,
        AnswersAreTrue, AckedIsHistory, clientVars, attemptVars
<1>1. ASSUME NEW r \in Requests, NEW w \in Writes, Send(r, w)
      PROVE  ManifestInv'
  <2>1. \A x \in Writes : base[x] \in Nat => base'[x] = base[x]
    BY <1>1 DEF Send
  <2>2. BaseFixesVersion'
    BY <1>1, <2>1 DEF Send
  <2>3. SentHasBase'
    BY <1>1 DEF Send
  <2> QED BY <1>0, <1>1, <2>2, <2>3 DEF Send
<1>2. ASSUME NEW r \in Requests, StoreManifest(r) PROVE ManifestInv'
  <2> DEFINE n == Len(history)
  <2>1. /\ n \in Nat /\ history' = Append(history, write[r])
        /\ Len(history') = n + 1 /\ history'[n + 1] = write[r]
        /\ \A v \in 1..n : history'[v] = history[v]
        /\ base[write[r]] = n
    BY <1>2 DEF StoreManifest, BaseIsHead, head
  <2>2. RowsAreHistory'
    BY <1>2 DEF StoreManifest, Reply
  <2>3. UNCHANGED <<base, write, acked>> /\ pc' = [pc EXCEPT ![r] = "stored"]
        /\ answer' = [answer EXCEPT ![r] = n + 1]
    BY <1>2 DEF StoreManifest, Reply, head
  <2>4. BaseFixesVersion'
    BY <2>1, <2>3
  <2>5. SentHasBase'
    BY <2>1, <2>3
  <2>6. AnswersAreTrue'
    BY <2>1, <2>3
  <2>7. AckedIsHistory'
    BY <2>1, <2>3
  <2> QED BY <1>0, <2>2, <2>4, <2>5, <2>6, <2>7
<1>3. ASSUME NEW r \in Requests, AnswerRetry(r) PROVE ManifestInv'
  <2>1. head \in 1..Len(history) /\ history[head] = write[r]
    BY <1>3 DEF AnswerRetry, Repeated, head
  <2> QED BY <1>0, <1>3, <2>1 DEF AnswerRetry, Reply
<1>4. ASSUME NEW r \in Requests, ReportConflict(r) PROVE ManifestInv'
  <2>1. head = Len(history) /\ head \in Nat
    BY <1>4 DEF ReportConflict, head
  <2>2. head > 0 => history[head] # write[r]
    BY <1>4, <2>1 DEF ReportConflict, Repeated
  <2> QED BY <1>0, <1>4, <2>1, <2>2 DEF ReportConflict, Reply
<1>5. ASSUME NEW r \in Requests, Receive(r) PROVE ManifestInv'
  <2>1. /\ UNCHANGED <<manifests, status, base, write, answer, history>>
        /\ pc' = [pc EXCEPT ![r] = "idle"]
    BY <1>5 DEF Receive, Return
  <2>2. AckedIsHistory'
    BY <1>5, <2>1 DEF Receive
  <2> QED BY <1>0, <2>1, <2>2
<1>6. ASSUME NEW r \in Requests, Lose(r) PROVE ManifestInv'
  BY <1>0, <1>6 DEF Lose, Return
<1>7. CASE RevokeDevice \/ DiscardOtherGroups
  BY <1>0, <1>7 DEF RevokeDevice, DiscardOtherGroups
<1>8. CASE UNCHANGED vars
  BY <1>0, <1>8 DEF vars
<1> QED BY <1>1, <1>2, <1>3, <1>4, <1>5, <1>6, <1>7, <1>8
           DEF Next, PutDeviceManifest

LEMMA InvHolds == Spec => []ManifestInv
BY InvInit, InvNext, PTL DEF Spec

----------------------------------------------------------------------------
\* Every variable keeps its type.
THEOREM ManifestTypes == Spec => []TypeOK
BY InvHolds, PTL DEF ManifestInv

\* Every acknowledged write stays stored under the version the client was
\* told, until the group is discarded (PutDeviceManifest).
THEOREM AcknowledgedStays == Spec => []AcknowledgedIsStored
<1>1. ManifestInv => AcknowledgedIsStored
  BY DEF ManifestInv, AckedIsHistory, RowsAreHistory, AcknowledgedIsStored,
         head
<1> QED BY <1>1, InvHolds, PTL

\* A conflict is never reported to the write that is the head (the idempotent
\* branch of PutDeviceManifest).
THEOREM ConflictsAreReal == Spec => []ConflictIsReal
<1>1. ManifestInv => ConflictIsReal
  BY DEF ManifestInv, TypeOK, AnswersAreTrue, RowsAreHistory, ConflictIsReal,
         head
<1> QED BY <1>1, InvHolds, PTL

LEMMA StepIsLogStep ==
    ManifestInv /\ [Next]_vars => [Log!LogNext]_(Log!logVars)
<1> SUFFICES ASSUME ManifestInv, [Next]_vars
             PROVE  [Log!LogNext]_(Log!logVars)
  OBVIOUS
<1> USE DEF Log!logVars
<1>1. ASSUME NEW r \in Requests, StoreManifest(r) PROVE Log!LogNext
  <2>1. write[r] \in Writes /\ base[write[r]] = Len(history)
        /\ Len(history) \in Nat
    BY <1>1 DEF StoreManifest, BaseIsHead, head, ManifestInv, TypeOK,
                RowsAreHistory
  <2>2. write[r] \notin Log!Entries(history)
    BY <2>1 DEF Log!Entries, ManifestInv, BaseFixesVersion
  <2>3. Log!Add(write[r])
    BY <1>1, <2>2 DEF StoreManifest, Reply, Log!Add
  <2> QED BY <2>1, <2>3 DEF Log!LogNext
<1>2. ASSUME NEW r \in Requests, Receive(r), pc[r] = "stored"
      PROVE  Log!LogNext
  <2>1. /\ write[r] \in Writes /\ answer[r] \in 1..Len(history)
        /\ history[answer[r]] = write[r]
    BY <1>2 DEF ManifestInv, TypeOK, AnswersAreTrue
  <2>2. Log!Acknowledge(write[r], answer[r])
    BY <1>2, <2>1 DEF Receive, Return, Log!Acknowledge
  <2> QED BY <2>1, <2>2 DEF Log!LogNext
<1>3. ASSUME RevokeDevice \/ DiscardOtherGroups
      PROVE  Log!Close \/ UNCHANGED Log!logVars
  BY <1>3 DEF RevokeDevice, DiscardOtherGroups, Log!Close, ManifestInv, TypeOK
<1>4. ASSUME NEW r \in Requests,
             \/ \E w \in Writes : Send(r, w)
             \/ AnswerRetry(r) \/ ReportConflict(r)
             \/ Lose(r) \/ (Receive(r) /\ pc[r] # "stored")
      PROVE  UNCHANGED Log!logVars
  BY <1>4 DEF Send, AnswerRetry, ReportConflict, Reply, Lose, Receive, Return
<1>5. UNCHANGED vars => UNCHANGED Log!logVars
  BY DEF vars
<1> QED BY <1>1, <1>2, <1>3, <1>4, <1>5
           DEF Next, PutDeviceManifest, Log!LogNext

\* Storing, retrying and answering, whatever is lost or overtaken, implement
\* the log: no write is stored twice, and it is acknowledged with the version
\* it has (PutDeviceManifest and its client).
THEOREM ManifestsAreALog == Spec => ImplementsLog
<1>1. Init => Log!LogInit
  BY DEF Init, Log!LogInit
<1> QED BY <1>1, InvHolds, StepIsLogStep, PTL
           DEF Spec, ImplementsLog, Log!LogSpec

=============================================================================
