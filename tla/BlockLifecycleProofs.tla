------------------------ MODULE BlockLifecycleProofs ------------------------
(***************************************************************************)
(* Theorems about BlockLifecycle for every value of its constants.         *)
(***************************************************************************)
EXTENDS BlockLifecycle, Integers, FiniteSetTheorems, TLAPS

----------------------------------------------------------------------------
(* Cardinalities.                                                           *)

\* Every set of blocks or of uploads has a natural number of elements.
LEMMA FinitePart ==
    /\ \A S \in SUBSET Blocks : IsFiniteSet(S) /\ Cardinality(S) \in Nat
    /\ \A S \in SUBSET Uploads : IsFiniteSet(S) /\ Cardinality(S) \in Nat
BY FS_Subset, FS_CardinalityType, FiniteAssumption

----------------------------------------------------------------------------
(* Types and the exactness of used_bytes, which depend on one another: a    *)
(* subtraction from used_bytes stays natural because used_bytes is exact.   *)

Accounting == TypeOK /\ UsedIsExact

\* Initially everything is well typed, empty and unpaid.
LEMMA AccountingInit == Init => Accounting
<1> SUFFICES ASSUME Init PROVE Accounting
  OBVIOUS
<1>1. TypeOK
  <2>1. \A j \in Cleanups :
           job[j] \in [kind : {"none", "discard", "prune"},
                      device : Devices \cup {Null},
                      members : SUBSET Devices, now : Nat]
    BY DEF Init, NoJob
  <2> QED
    BY <2>1, OwnerAssumption
       DEF Init, TypeOK, NoFiles, CollectorIdle, NoJob, Instant, PutStates
<1>2. UsedIsExact
  BY FS_EmptySet DEF Init, UsedIsExact
<1> QED BY <1>1, <1>2 DEF Accounting

\* The steps of an upload keep the types.
LEMMA UploadTypes ==
    ASSUME TypeOK, NEW u \in Uploads, BeginPut(u) \/ UploadStep(u)
    PROVE  TypeOK'
<1> USE OwnerAssumption, ParameterAssumption DEF TypeOK, Instant, PutStates
<1> USE DEF dbVars, deviceVars, objectVars, quotaVars, uploadVars, Fault,
            NoFault, requestVars, Answered, jobVars, gcVars, claimVars,
            sweepVars
<1>1. CASE BeginPut(u)
  BY <1>1 DEF BeginPut
<1>2. CASE ReserveBlockUpload(u)
  BY <1>2 DEF ReserveBlockUpload, Unexpired
<1>3. CASE RejectUpload(u)
  BY <1>3 DEF RejectUpload
<1>4. CASE PutNew(u)
  BY <1>4 DEF PutNew, Block
<1>5. CASE PutNewFails(u)
  BY <1>5 DEF PutNewFails
<1>6. CASE CommitBlockUpload(u)
  BY <1>6 DEF CommitBlockUpload, UsedAfterCommit, OrphanedAfterCommit,
              Account, Block
<1>7. CASE CommitFails(u)
  BY <1>7 DEF CommitFails
<1>8. CASE CancelBlockUpload(u)
  BY SMTT(30), <1>8 DEF CancelBlockUpload
<1> QED
  BY <1>1, <1>2, <1>3, <1>4, <1>5, <1>6, <1>7, <1>8 DEF UploadStep

\* While used_bytes is exact, replacing an account's session bytes keeps it
\* a natural number.
LEMMA SessionDelta ==
    ASSUME TypeOK, UsedIsExact, NEW a \in Accounts, NEW n \in Nat
    PROVE  /\ (used[a] + n) - sessionBytes[a] \in Nat
           /\ (used[a] + n) - sessionBytes[a]
                = Cardinality(accountBlocks[a]) + n
<1>1. Cardinality(accountBlocks[a]) \in Nat
  BY FinitePart DEF TypeOK
<1>2. /\ used[a] = Cardinality(accountBlocks[a]) + sessionBytes[a]
      /\ sessionBytes[a] \in Nat /\ used[a] \in Nat
  BY DEF TypeOK, UsedIsExact
<1> QED BY <1>1, <1>2

\* The requests that are one transaction keep the types.
LEMMA RequestTypes ==
    ASSUME TypeOK, UsedIsExact, NEW d \in Devices, NEW e \in Devices,
           NEW n \in 0..MaxSession,
           \/ RevokeDevice(d, e) \/ MergeGroups(d, e)
           \/ PutSessionFile(d, n) \/ DeleteSessionFile(d, n)
    PROVE  TypeOK'
<1> USE OwnerAssumption, ParameterAssumption DEF TypeOK, Instant, PutStates
<1> USE DEF dbVars, deviceVars, objectVars, quotaVars, uploadVars, Fault,
            NoFault, requestVars, Answered, jobVars, gcVars, claimVars,
            sweepVars
<1>0. n \in Nat
  BY BoundAssumption
<1>1. CASE RevokeDevice(d, e)
  BY <1>1 DEF RevokeDevice
<1>2. CASE MergeGroups(d, e)
  BY <1>2 DEF MergeGroups
<1>3. CASE PutSessionFile(d, n)
  BY <1>0, <1>3, SessionDelta DEF PutSessionFile, Unexpired
<1>4. CASE DeleteSessionFile(d, n)
  BY <1>0, <1>4, SessionDelta DEF DeleteSessionFile
<1> QED BY <1>1, <1>2, <1>3, <1>4

\* What a discard or a prune captures is well typed.
LEMMA CandidateTypes ==
    ASSUME TypeOK, NEW D \in SUBSET Devices
    PROVE  UNION {deviceBlocks[e] : e \in D} \in SUBSET Blocks
BY DEF TypeOK

\* The steps of a discard or a prune keep the types.
LEMMA CleanupTypes ==
    ASSUME TypeOK, UsedIsExact, NEW j \in Cleanups,
           \/ \E d \in Devices, n \in 0..MaxSession :
                DiscardOtherGroups(j, d, n)
           \/ \E d \in Devices, keep \in SUBSET Blocks : BeginPrune(j, d, keep)
           \/ CleanupStep(j)
    PROVE  TypeOK'
<1> USE OwnerAssumption, ParameterAssumption DEF TypeOK, Instant, PutStates
<1> USE DEF dbVars, deviceVars, objectVars, quotaVars, uploadVars, Fault,
            NoFault, requestVars, Answered, jobVars, gcVars, claimVars,
            sweepVars
<1>1. ASSUME NEW d \in Devices, NEW n \in 0..MaxSession,
             DiscardOtherGroups(j, d, n)
      PROVE  TypeOK'
  <2> DEFINE D == OtherGroups(d)
  <2>0. n \in Nat
    BY BoundAssumption
  <2>1. D \in SUBSET Devices /\ DiscardCandidates(D) \in SUBSET Blocks
    BY CandidateTypes DEF OtherGroups, DiscardCandidates
  <2>2. [kind |-> "discard", device |-> d, members |-> D, now |-> now]
          \in [kind : {"none", "discard", "prune"},
               device : Devices \cup {Null}, members : SUBSET Devices,
               now : Nat]
    BY <2>1
  <2> HIDE DEF D
  <2>3. (used[Owner[d]] + n) - sessionBytes[Owner[d]] \in Nat
    BY <2>0, SessionDelta
  <2> QED
    BY <1>1, <2>0, <2>1, <2>2, <2>3 DEF DiscardOtherGroups, D
<1>2. ASSUME NEW d \in Devices, NEW keep \in SUBSET Blocks,
             BeginPrune(j, d, keep)
      PROVE  TypeOK'
  <2> DEFINE M == InGroup(group[d])
  <2>1. M \in SUBSET Devices
        /\ UNION {deviceBlocks[e] : e \in M} \ keep \in SUBSET Blocks
    BY CandidateTypes DEF InGroup
  <2>2. [kind |-> "prune", device |-> d, members |-> M, now |-> now]
          \in [kind : {"none", "discard", "prune"},
               device : Devices \cup {Null}, members : SUBSET Devices,
               now : Nat]
    BY <2>1
  <2> HIDE DEF M
  <2> QED
    BY <1>2, <2>1, <2>2 DEF BeginPrune, M
<1>3. ASSUME NEW batch \in SUBSET pending[j], ReleaseBatch(j, batch)
      PROVE  TypeOK'
  <2> DEFINE a == Owner[job[j].device]
  <2> DEFINE refs == [e \in Devices |->
                        IF job[j].kind = "prune" /\ e \in job[j].members
                        THEN deviceBlocks[e] \ batch ELSE deviceBlocks[e]]
  <2> DEFINE gone == Released(a, batch, refs)
  <2>1. gone \in SUBSET Blocks /\ Cardinality(gone) \in Nat
    BY FinitePart DEF Released
  <2> HIDE DEF gone
  <2>2. deviceBlocks' \in [Devices -> SUBSET Blocks]
    BY <1>3 DEF ReleaseBatch
  <2>3. accountBlocks' \in [Accounts -> SUBSET Blocks]
    <3>1. accountBlocks' = [accountBlocks EXCEPT ![a] = @ \ gone]
      BY <1>3 DEF ReleaseBatch, gone
    <3> QED BY <3>1
  <2>4. used' \in [Accounts -> Nat]
    <3>1. used' = [used EXCEPT ![a] = IF @ >= Cardinality(gone)
                                      THEN @ - Cardinality(gone) ELSE 0]
      BY <1>3 DEF ReleaseBatch, gone
    <3> DEFINE rest == IF used[a] >= Cardinality(gone)
                       THEN used[a] - Cardinality(gone) ELSE 0
    <3>2. a \in Accounts => rest \in Nat
      BY <2>1
    <3>3. used' = [used EXCEPT ![a] = rest]
      BY <3>1
    <3> HIDE DEF a, rest
    <3> QED BY <3>2, <3>3
  <2>5. orphanedAt' \in [Blocks -> Instant]
    <3>1. job[j].now \in Nat
      OBVIOUS
    <3> DEFINE owned == [accountBlocks EXCEPT ![a] = @ \ gone]
    <3> DEFINE S == {b \in Blocks : /\ b \in gone
                                    /\ LastOwnerGone(b, owned)
                                    /\ objState[b] = "active"
                                    /\ orphanedAt[b] = Null}
    <3>2. orphanedAt' = [b \in Blocks |->
              IF /\ b \in gone
                 /\ LastOwnerGone(b, owned)
                 /\ objState[b] = "active" /\ orphanedAt[b] = Null
              THEN OrphanStamp(j) ELSE orphanedAt[b]]
      BY <1>3 DEF ReleaseBatch, gone
    <3> HIDE DEF owned
    <3>3. orphanedAt' = [b \in Blocks |-> IF b \in S THEN job[j].now
                                                    ELSE orphanedAt[b]]
      BY <3>2 DEF OrphanStamp
    <3> HIDE DEF S
    <3> QED BY <3>1, <3>3
  <2>6. pending' \in [Cleanups -> SUBSET Blocks]
    BY <1>3 DEF ReleaseBatch
  <2>7. jobPc' \in [Cleanups -> {"idle", "running", "done"}]
    BY <1>3 DEF ReleaseBatch
  <2>8. /\ faults' = faults
        /\ UNCHANGED <<status, group, sessionBytes, objState, expiresAt,
                       mtime, serving, pc, req, started, job, gcPc, claimed,
                       deleted, listed, victims, now>>
    BY <1>3 DEF ReleaseBatch
  <2> QED
    BY <2>2, <2>3, <2>4, <2>5, <2>6, <2>7, <2>8
<1>4. CASE CleanupStops(j)
  BY <1>4 DEF CleanupStops
<1> QED BY <1>1, <1>2, <1>3, <1>4 DEF CleanupStep

\* The steps of the collector, a crash and the clock keep the types.
LEMMA CollectorTypes ==
    ASSUME TypeOK, CollectorStep \/ Crash \/ Tick
    PROVE  TypeOK'
<1> USE OwnerAssumption, ParameterAssumption DEF TypeOK, Instant, PutStates
<1> USE DEF dbVars, deviceVars, objectVars, quotaVars, uploadVars, Fault,
            NoFault, requestVars, Answered, jobVars, gcVars, claimVars,
            sweepVars
<1>1. ASSUME NEW batch \in SUBSET Blocks, ClaimCollectibleBlocks(batch)
      PROVE  TypeOK'
  BY <1>1 DEF ClaimCollectibleBlocks, Unexpired
<1>2. ASSUME NEW b \in Blocks, DeleteClaimedFile(b)
      PROVE  TypeOK'
  <2>1. /\ mtime' \in [Blocks -> Instant]
        /\ deleted' \in Blocks \cup {Null}
    BY <1>2 DEF DeleteClaimedFile
  <2>2. claimed' \in SUBSET Blocks /\ faults' \in Nat
    BY <1>2 DEF DeleteClaimedFile
  <2>3. UNCHANGED <<dbVars, serving, uploadVars, jobVars, gcPc, sweepVars,
                    now>>
    BY <1>2 DEF DeleteClaimedFile
  <2> QED BY <2>1, <2>2, <2>3
<1>3. CASE FinalizeBlockDeletion
  <2>1. /\ objState' \in [Blocks -> {"absent", "active", "deleting"}]
        /\ orphanedAt' \in [Blocks -> Instant]
    <3>1. CASE Finalizable(deleted)
      BY <1>3, <3>1 DEF FinalizeBlockDeletion
    <3>2. CASE ~Finalizable(deleted)
      BY <1>3, <3>2 DEF FinalizeBlockDeletion
    <3> QED BY <3>1, <3>2
  <2>2. deleted' \in Blocks \cup {Null} /\ faults' \in Nat
    BY <1>3 DEF FinalizeBlockDeletion
  <2>3. UNCHANGED <<deviceVars, deviceBlocks, accountBlocks, quotaVars,
                    expiresAt, mtime, serving, uploadVars, jobVars, gcPc,
                    claimed, sweepVars, now>>
    BY <1>3 DEF FinalizeBlockDeletion
  <2> QED BY <2>1, <2>2, <2>3
<1>4. CASE ListFiles
  BY <1>4 DEF ListFiles
<1>5. CASE SelectOrphanFiles
  BY <1>5 DEF SelectOrphanFiles, NoFiles
<1>6. ASSUME NEW b \in Blocks, DeleteOrphanFile(b)
      PROVE  TypeOK'
  <2>1. mtime' \in [Blocks -> Instant]
    BY <1>6 DEF DeleteOrphanFile
  <2>2. victims' \in SUBSET Blocks /\ faults' \in Nat
    BY <1>6 DEF DeleteOrphanFile
  <2>3. UNCHANGED <<dbVars, serving, uploadVars, jobVars, gcPc, claimVars,
                    listed, now>>
    BY <1>6 DEF DeleteOrphanFile
  <2> QED BY <2>1, <2>2, <2>3
<1>7. CASE CollectionEnds
  BY <1>7 DEF CollectionEnds, CollectorStops, NoFiles
<1>8. CASE Crash
  <2>1. pc' \in [Uploads -> PutStates] /\ started' \in [Uploads -> Nat]
    BY <1>8 DEF Crash
  <2>2. /\ jobPc' \in [Cleanups -> {"idle", "running", "done"}]
        /\ pending' \in [Cleanups -> SUBSET Blocks]
    BY <1>8 DEF Crash
  <2>3. /\ gcPc' = "idle" /\ claimed' = {} /\ deleted' = Null
        /\ listed' = NoFiles /\ victims' = {}
        /\ serving' = FALSE /\ faults' = faults + 1
    BY <1>8 DEF Crash, CollectorStops
  <2>4. UNCHANGED <<dbVars, mtime, req, job, now>>
    BY <1>8 DEF Crash
  <2>5. /\ gcPc' \in {"idle", "claimed", "listed", "sweeping"}
        /\ claimed' \in SUBSET Blocks /\ victims' \in SUBSET Blocks
        /\ faults' \in Nat
    BY <2>3
  <2>7. serving' \in BOOLEAN
    BY <2>3
  <2>6. listed' \in [Blocks -> Instant] /\ deleted' \in Blocks \cup {Null}
    BY <2>3 DEF NoFiles
  <2> HIDE DEF PutStates
  <2> QED BY <2>1, <2>2, <2>4, <2>5, <2>6, <2>7
<1>9. CASE Tick
  BY <1>9 DEF Tick
<1> QED
  BY <1>1, <1>2, <1>3, <1>4, <1>5, <1>6, <1>7, <1>8, <1>9 DEF CollectorStep

\* Every step keeps the types as long as used_bytes is exact.
LEMMA NextTypes ==
    ASSUME TypeOK, UsedIsExact, [Next]_vars
    PROVE  TypeOK'
<1>1. CASE RequestArrives
  <2>1. ASSUME NEW u \in Uploads, BeginPut(u) PROVE TypeOK'
    BY <2>1, UploadTypes
  <2>2. ASSUME NEW j \in Cleanups,
               \/ \E d \in Devices, n \in 0..MaxSession :
                    DiscardOtherGroups(j, d, n)
               \/ \E d \in Devices, keep \in SUBSET Blocks :
                    BeginPrune(j, d, keep)
        PROVE  TypeOK'
    BY <2>2, CleanupTypes
  <2>3. ASSUME NEW d \in Devices, NEW e \in Devices,
               RevokeDevice(d, e) \/ MergeGroups(d, e)
        PROVE  TypeOK'
    <3>1. 0 \in 0..MaxSession
      BY BoundAssumption
    <3> QED BY <2>3, <3>1, RequestTypes
  <2>4. ASSUME NEW d \in Devices, NEW n \in 0..MaxSession,
               PutSessionFile(d, n) \/ DeleteSessionFile(d, n)
        PROVE  TypeOK'
    BY <2>4, RequestTypes
  <2> QED BY <1>1, <2>1, <2>2, <2>3, <2>4 DEF RequestArrives
<1>2. ASSUME NEW u \in Uploads, UploadStep(u) PROVE TypeOK'
  BY <1>2, UploadTypes
<1>3. ASSUME NEW j \in Cleanups, CleanupStep(j) PROVE TypeOK'
  BY <1>3, CleanupTypes
<1>4. CASE CollectorStep \/ Crash \/ Tick
  BY <1>4, CollectorTypes
<1>5. CASE UNCHANGED vars
  BY <1>5 DEF vars, dbVars, deviceVars, objectVars, quotaVars, uploadVars,
              requestVars, Answered, jobVars, gcVars, claimVars,
              sweepVars, TypeOK
<1> QED BY <1>1, <1>2, <1>3, <1>4, <1>5 DEF Next

\* Taking a part of a finite set of blocks away takes its cardinality away,
\* so the code's floor at zero is never reached.
LEMMA ReleaseCount ==
    ASSUME NEW S \in SUBSET Blocks, NEW T \in SUBSET S
    PROVE  /\ Cardinality(S \ T) = Cardinality(S) - Cardinality(T)
           /\ Cardinality(S) >= Cardinality(T)
           /\ Cardinality(S) \in Nat /\ Cardinality(T) \in Nat
<1>1. S \cap T = T /\ T \in SUBSET Blocks
  OBVIOUS
<1>2. IsFiniteSet(S) /\ Cardinality(S) \in Nat /\ Cardinality(T) \in Nat
  BY <1>1, FinitePart
<1>3. Cardinality(T) <= Cardinality(S)
  BY <1>2, FS_Subset
<1>4. Cardinality(S \ T) = Cardinality(S) - Cardinality(S \cap T)
  BY <1>2, FS_Difference
<1> QED BY <1>1, <1>2, <1>3, <1>4

\* A commit charges the block exactly when it adds it to the account.
LEMMA CommitIsExact ==
    ASSUME TypeOK, UsedIsExact, NEW u \in Uploads, CommitBlockUpload(u)
    PROVE  UsedIsExact'
<1> DEFINE a == Account(u)
<1> DEFINE b == Block(u)
<1> DEFINE more == accountBlocks[a] \cup {b}
<1>1. a \in Accounts /\ b \in Blocks
  BY OwnerAssumption DEF TypeOK, Account, Block
<1>2. Cardinality(more) = IF b \in accountBlocks[a]
                          THEN Cardinality(accountBlocks[a])
                          ELSE Cardinality(accountBlocks[a]) + 1
  <2>1. IsFiniteSet(accountBlocks[a])
    BY <1>1, FinitePart DEF TypeOK
  <2> QED BY <2>1, FS_AddElement
<1>3. /\ accountBlocks' = [accountBlocks EXCEPT ![a] = more]
      /\ used' = IF b \in accountBlocks[a] THEN used
                 ELSE [used EXCEPT ![a] = @ + 1]
      /\ sessionBytes' = sessionBytes
  BY DEF CommitBlockUpload, UsedAfterCommit
<1> HIDE DEF a, b, more
<1> SUFFICES ASSUME NEW c \in Accounts
             PROVE  used'[c] = Cardinality(accountBlocks'[c])
                                 + sessionBytes'[c]
  BY DEF UsedIsExact
<1>4. /\ used[c] = Cardinality(accountBlocks[c]) + sessionBytes[c]
      /\ used[c] \in Nat /\ sessionBytes[c] \in Nat
      /\ Cardinality(accountBlocks[c]) \in Nat
  BY FinitePart DEF UsedIsExact, TypeOK
<1>5. CASE c = a
  BY <1>1, <1>2, <1>3, <1>4, <1>5 DEF TypeOK
<1>6. CASE c # a
  BY <1>3, <1>4, <1>6 DEF TypeOK
<1> QED BY <1>5, <1>6

\* A batch refunds exactly the blocks it takes from the account.
LEMMA ReleaseIsExact ==
    ASSUME TypeOK, UsedIsExact, NEW j \in Cleanups,
           NEW batch \in SUBSET pending[j], ReleaseBatch(j, batch)
    PROVE  UsedIsExact'
<1> DEFINE a == Owner[job[j].device]
<1> DEFINE refs == [e \in Devices |->
                      IF job[j].kind = "prune" /\ e \in job[j].members
                      THEN deviceBlocks[e] \ batch ELSE deviceBlocks[e]]
<1> DEFINE gone == Released(a, batch, refs)
<1>1. /\ accountBlocks' = [accountBlocks EXCEPT ![a] = @ \ gone]
      /\ used' = [used EXCEPT ![a] = IF @ >= Cardinality(gone)
                                     THEN @ - Cardinality(gone) ELSE 0]
      /\ sessionBytes' = sessionBytes
  BY DEF ReleaseBatch
<1>2. gone \in SUBSET accountBlocks[a]
  BY DEF Released
<1> HIDE DEF a, refs, gone
<1> SUFFICES ASSUME NEW c \in Accounts
             PROVE  used'[c] = Cardinality(accountBlocks'[c])
                                 + sessionBytes'[c]
  BY DEF UsedIsExact
<1>3. /\ used[c] = Cardinality(accountBlocks[c]) + sessionBytes[c]
      /\ used[c] \in Nat /\ sessionBytes[c] \in Nat
      /\ accountBlocks[c] \in SUBSET Blocks
  BY DEF UsedIsExact, TypeOK
<1>4. CASE c = a
  <2>1. /\ Cardinality(accountBlocks[c] \ gone)
             = Cardinality(accountBlocks[c]) - Cardinality(gone)
        /\ Cardinality(accountBlocks[c]) >= Cardinality(gone)
        /\ Cardinality(accountBlocks[c]) \in Nat
        /\ Cardinality(gone) \in Nat
    BY <1>2, <1>3, <1>4, ReleaseCount
  <2>2. accountBlocks'[c] = accountBlocks[c] \ gone
    BY <1>1, <1>4 DEF TypeOK
  <2>3. used'[c] = IF used[c] >= Cardinality(gone)
                   THEN used[c] - Cardinality(gone) ELSE 0
    BY <1>1, <1>4 DEF TypeOK
  <2>4. sessionBytes'[c] = sessionBytes[c]
    BY <1>1
  <2> QED BY <1>3, <2>1, <2>2, <2>3, <2>4
<1>5. CASE c # a
  BY <1>1, <1>3, <1>5 DEF TypeOK
<1> QED BY <1>4, <1>5

\* A change of the account's session bytes changes used_bytes by as much.
LEMMA SessionIsExact ==
    ASSUME TypeOK, UsedIsExact, NEW a \in Accounts, NEW n \in Nat,
           sessionBytes' = [sessionBytes EXCEPT ![a] = n],
           used' = [used EXCEPT ![a] = (@ + n) - sessionBytes[a]],
           accountBlocks' = accountBlocks
    PROVE  UsedIsExact'
<1> SUFFICES ASSUME NEW c \in Accounts
             PROVE  used'[c] = Cardinality(accountBlocks'[c])
                                 + sessionBytes'[c]
  BY DEF UsedIsExact
<1>1. CASE c = a
  BY <1>1, SessionDelta DEF TypeOK
<1>2. CASE c # a
  BY <1>2 DEF TypeOK, UsedIsExact
<1> QED BY <1>1, <1>2

\* No step makes used_bytes inexact.
LEMMA NextExact ==
    ASSUME TypeOK, UsedIsExact, [Next]_vars
    PROVE  UsedIsExact'
<1> USE DEF dbVars, deviceVars, objectVars, quotaVars
<1>0. ASSUME UNCHANGED <<accountBlocks, used, sessionBytes>>
      PROVE  UsedIsExact'
  BY <1>0 DEF UsedIsExact
<1>1. ASSUME NEW u \in Uploads, BeginPut(u) \/ UploadStep(u)
      PROVE  UsedIsExact'
  <2>1. CASE CommitBlockUpload(u)
    BY <2>1, CommitIsExact
  <2>2. CASE ~CommitBlockUpload(u)
    BY <1>0, <1>1, <2>2
       DEF UploadStep, BeginPut, ReserveBlockUpload, RejectUpload, PutNew,
           PutNewFails, CommitFails, CancelBlockUpload
  <2> QED BY <2>1, <2>2
<1>2. ASSUME NEW d \in Devices, NEW e \in Devices,
             RevokeDevice(d, e) \/ MergeGroups(d, e)
      PROVE  UsedIsExact'
  BY <1>0, <1>2 DEF RevokeDevice, MergeGroups
<1>3. ASSUME NEW d \in Devices, NEW n \in 0..MaxSession,
             PutSessionFile(d, n) \/ DeleteSessionFile(d, n)
      PROVE  UsedIsExact'
  <2>1. n \in Nat /\ Owner[d] \in Accounts
    BY BoundAssumption, OwnerAssumption
  <2> QED
    BY <1>3, <2>1, SessionIsExact DEF PutSessionFile, DeleteSessionFile
<1>4. ASSUME NEW j \in Cleanups, NEW d \in Devices, NEW n \in 0..MaxSession,
             DiscardOtherGroups(j, d, n)
      PROVE  UsedIsExact'
  <2>1. n \in Nat /\ Owner[d] \in Accounts
    BY BoundAssumption, OwnerAssumption
  <2> QED BY <1>4, <2>1, SessionIsExact DEF DiscardOtherGroups
<1>5. ASSUME NEW j \in Cleanups, NEW d \in Devices,
             NEW keep \in SUBSET Blocks, BeginPrune(j, d, keep)
      PROVE  UsedIsExact'
  BY <1>0, <1>5 DEF BeginPrune
<1>6. ASSUME NEW j \in Cleanups, CleanupStep(j)
      PROVE  UsedIsExact'
  <2>1. CASE CleanupStops(j)
    BY <1>0, <2>1 DEF CleanupStops
  <2> QED BY <1>6, <2>1, ReleaseIsExact DEF CleanupStep
<1>7. CASE CollectorStep \/ Crash \/ Tick
  BY <1>0, <1>7
     DEF CollectorStep, ClaimCollectibleBlocks, DeleteClaimedFile,
         FinalizeBlockDeletion, ListFiles, SelectOrphanFiles,
         DeleteOrphanFile, CollectionEnds, Crash, Tick
<1>8. CASE UNCHANGED vars
  BY <1>0, <1>8 DEF vars
<1> QED
  BY <1>1, <1>2, <1>3, <1>4, <1>5, <1>6, <1>7, <1>8 DEF Next, RequestArrives

\* Types and exactness together are an inductive invariant.
LEMMA AccountingInvariant == Spec => []Accounting
<1>1. Init => Accounting
  BY AccountingInit
<1>2. Accounting /\ [Next]_vars => Accounting'
  BY NextTypes, NextExact DEF Accounting
<1> QED BY <1>1, <1>2, PTL DEF Spec

\* Every variable keeps its type; in particular used_bytes never falls below
\* zero, whatever is charged and refunded in whatever order.
THEOREM TypeCorrect == Spec => []TypeOK
<1>1. Accounting => TypeOK
  BY DEF Accounting
<1> QED BY <1>1, AccountingInvariant, PTL

\* accounts.used_bytes is always what the account's blocks and session
\* snapshots add up to, although six transactions keep it incrementally.
THEOREM UsedAlwaysExact == Spec => []UsedIsExact
<1>1. Accounting => UsedIsExact
  BY DEF Accounting
<1> QED BY <1>1, AccountingInvariant, PTL

----------------------------------------------------------------------------
(* The reference tables, the orphan stamps and the claims of the collector. *)
(* The parts need one another: a batch stamps an orphan only if the object  *)
(* is active (ReferencesNest) and not stamped yet (OrphansAreStamped), and a *)
(* claimed block keeps its state only because nothing can reserve or commit *)
(* it (ClaimIsExclusive).                                                    *)

\* The collector remembers a claimed block only while it works on the claim,
\* and the block whose file it has just deleted is no longer to be deleted.
ClaimShape ==
    /\ deleted \notin claimed
    /\ gcPc # "claimed" => claimed = {} /\ deleted = Null

Structure ==
    /\ TypeOK
    /\ ReferencesNest
    /\ ClaimIsExclusive
    /\ OrphansAreStamped
    /\ ClaimShape

\* Initially there is no reference, no object and no claim.
LEMMA StructureInit == Init => Structure
<1> SUFFICES ASSUME Init PROVE Structure
  OBVIOUS
<1>1. TypeOK
  BY AccountingInit DEF Accounting
<1>2. ReferencesNest /\ OrphansAreStamped
  BY OwnerAssumption
     DEF Init, ReferencesNest, OrphansAreStamped, HasAccount
<1>3. ClaimIsExclusive /\ ClaimShape
  BY DEF Init, CollectorIdle, ClaimIsExclusive, ClaimShape
<1> QED BY <1>1, <1>2, <1>3 DEF Structure

\* A step that changes neither owners nor objects, adds no reference, no
\* reservation and no claim, keeps the structure.
LEMMA QuietStep ==
    ASSUME Structure, TypeOK',
           UNCHANGED <<accountBlocks, objectVars, req>>,
           \A d \in Devices : deviceBlocks'[d] \subseteq deviceBlocks[d],
           \A u \in Uploads : expiresAt'[u] \in {expiresAt[u], Null},
           claimed' \subseteq claimed, deleted' \in {deleted, Null},
           gcPc' = gcPc \/ (claimed' = {} /\ deleted' = Null)
    PROVE  Structure'
<1> USE DEF Structure, objectVars
<1>1. ReferencesNest'
  BY DEF ReferencesNest
<1>2. ClaimIsExclusive'
  BY NullAssumption DEF ClaimIsExclusive, HasAccount, HasReservation, Block
<1>3. OrphansAreStamped'
  BY DEF OrphansAreStamped, HasAccount
<1>4. ClaimShape'
  BY NullAssumption DEF ClaimShape, TypeOK
<1> QED BY <1>1, <1>2, <1>3, <1>4

\* The reservation of a block that is being deleted is refused.
LEMMA ReserveStructure ==
    ASSUME Structure, TypeOK', NEW u \in Uploads, ReserveBlockUpload(u)
    PROVE  Structure'
<1> USE DEF Structure
<1>1. /\ UNCHANGED <<accountBlocks, deviceBlocks, objState, orphanedAt, req,
                     claimed, deleted, gcPc>>
      /\ objState[Block(u)] # "deleting"
      /\ \A v \in Uploads \ {u} : expiresAt'[v] \in {expiresAt[v], Null}
  BY DEF ReserveBlockUpload, MayReserve, ObjectUsable, Unexpired, TypeOK,
         deviceVars, objectVars, requestVars, Answered, gcVars, claimVars
<1>2. ReferencesNest' /\ OrphansAreStamped' /\ ClaimShape'
  BY <1>1 DEF ReferencesNest, OrphansAreStamped, HasAccount, ClaimShape
<1>3. ClaimIsExclusive'
  BY <1>1 DEF ClaimIsExclusive, HasAccount, HasReservation, Block
<1> QED BY <1>2, <1>3

\* A commit makes the object active and unstamped for the block it adds.
LEMMA CommitStructure ==
    ASSUME Structure, TypeOK', NEW u \in Uploads, CommitBlockUpload(u)
    PROVE  Structure'
<1> USE DEF Structure
<1>0. PICK a \in Accounts, b \in Blocks, d \in Devices :
        a = Account(u) /\ b = Block(u) /\ d = req[u].device /\ a = Owner[d]
  BY OwnerAssumption DEF TypeOK, Account, Block
<1>1. /\ UNCHANGED <<req, claimed, deleted, gcPc>>
      /\ objState[b] # "deleting"
      /\ expiresAt' = [expiresAt EXCEPT ![u] = Null]
      /\ accountBlocks' = [accountBlocks EXCEPT ![a] = @ \cup {b}]
      /\ deviceBlocks' = [deviceBlocks EXCEPT ![d] = @ \cup {b}]
      /\ objState' = [objState EXCEPT ![b] = "active"]
      /\ orphanedAt' = [orphanedAt EXCEPT ![b] = Null]
  BY <1>0 DEF CommitBlockUpload, MayCommit, ObjectUsable,
              OrphanedAfterCommit, requestVars, Answered, gcVars, claimVars
<1>2. ReferencesNest'
  BY <1>0, <1>1 DEF ReferencesNest, TypeOK
<1>3. ClaimIsExclusive'
  <2>1. \A c \in Blocks : HasReservation(c)' => HasReservation(c)
    BY <1>1 DEF HasReservation, Block, TypeOK
  <2>2. \A c \in Blocks \ {b} : HasAccount(c)' => HasAccount(c)
    BY <1>0, <1>1 DEF HasAccount, TypeOK
  <2> QED
    BY <1>0, <1>1, <2>1, <2>2, NullAssumption DEF ClaimIsExclusive, TypeOK
<1>4. OrphansAreStamped'
  <2>1. \A c \in Blocks \ {b} : HasAccount(c)' <=> HasAccount(c)
    BY <1>0, <1>1 DEF HasAccount, TypeOK
  <2>2. HasAccount(b)'
    BY <1>0, <1>1 DEF HasAccount, TypeOK
  <2> QED BY <1>0, <1>1, <2>1, <2>2 DEF OrphansAreStamped, TypeOK
<1>5. ClaimShape'
  BY <1>1 DEF ClaimShape
<1> QED BY <1>2, <1>3, <1>4, <1>5

\* A batch takes from the account only what none of its devices references
\* any more, and stamps what has lost its last owner.
LEMMA ReleaseStructure ==
    ASSUME Structure, TypeOK', NEW j \in Cleanups,
           NEW batch \in SUBSET pending[j], ReleaseBatch(j, batch)
    PROVE  Structure'
<1> USE DEF Structure
<1>0. PICK a : a = Owner[job[j].device]
  OBVIOUS
<1>1. PICK refs : refs = deviceBlocks'
  OBVIOUS
<1>2. PICK gone : gone = Released(a, batch, refs)
  OBVIOUS
<1>3. PICK owned : owned = [accountBlocks EXCEPT ![a] = @ \ gone]
  OBVIOUS
<1>4. /\ UNCHANGED <<req, expiresAt, objState, claimed, deleted, gcPc>>
      /\ deviceBlocks' = refs
      /\ \A d \in Devices : refs[d] \subseteq deviceBlocks[d]
      /\ accountBlocks' = owned
      /\ orphanedAt' = [b \in Blocks |->
            IF /\ b \in gone
               /\ LastOwnerGone(b, owned)
               /\ objState[b] = "active" /\ orphanedAt[b] = Null
            THEN job[j].now ELSE orphanedAt[b]]
  BY <1>0, <1>1, <1>2, <1>3
     DEF ReleaseBatch, OrphanStamp, requestVars, uploadVars, gcVars, claimVars
<1>5. /\ \A b \in gone : ~ReferencedIn(a, b, refs)
      /\ gone \subseteq accountBlocks[a]
  BY <1>2 DEF Released
<1>6. \A c \in Accounts : /\ owned[c] \subseteq accountBlocks[c]
                          /\ c # a => owned[c] = accountBlocks[c]
                          /\ c = a => owned[c] = accountBlocks[c] \ gone
  BY <1>3 DEF TypeOK
<1>7. ReferencesNest'
  <2>1. ASSUME NEW d \in Devices
        PROVE  deviceBlocks'[d] \subseteq accountBlocks'[Owner[d]]
    <3>1. Owner[d] \in Accounts /\ refs[d] \subseteq accountBlocks[Owner[d]]
      BY <1>4, OwnerAssumption DEF ReferencesNest
    <3>2. Owner[d] = a => refs[d] \cap gone = {}
      BY <1>5 DEF ReferencedIn
    <3> QED BY <1>4, <1>6, <3>1, <3>2
  <2>2. ASSUME NEW c \in Accounts, NEW b \in accountBlocks'[c]
        PROVE  objState'[b] = "active"
    BY <1>4, <1>6, <2>2 DEF ReferencesNest
  <2> QED BY <2>1, <2>2 DEF ReferencesNest
<1>8. ClaimIsExclusive'
  <2>1. \A b \in Blocks : HasAccount(b)' => HasAccount(b)
    BY <1>4, <1>6 DEF HasAccount
  <2>2. \A b \in Blocks : HasReservation(b)' => HasReservation(b)
    BY <1>4 DEF HasReservation, Block
  <2> QED BY <1>4, <2>1, <2>2 DEF ClaimIsExclusive
<1>9. OrphansAreStamped'
  <2> SUFFICES ASSUME NEW b \in Blocks
               PROVE  /\ objState'[b] = "absent" => orphanedAt'[b] = Null
                      /\ objState'[b] # "absent"
                           => (orphanedAt'[b] = Null <=> HasAccount(b)')
    BY DEF OrphansAreStamped
  <2>1. /\ objState[b] = "absent" => orphanedAt[b] = Null
        /\ objState[b] # "absent" => (orphanedAt[b] = Null <=> HasAccount(b))
    BY DEF OrphansAreStamped
  <2>2. HasAccount(b)' <=> ~LastOwnerGone(b, owned)
    BY <1>4 DEF HasAccount, LastOwnerGone
  <2>3. CASE b \in gone /\ LastOwnerGone(b, owned) /\ a \in Accounts
    <3>1. HasAccount(b) /\ objState[b] = "active"
      BY <1>5, <2>3 DEF HasAccount, ReferencesNest
    <3>2. orphanedAt'[b] = job[j].now
      BY <1>4, <2>1, <2>3, <3>1
    <3>3. job[j].now # Null
      BY NullAssumption DEF TypeOK
    <3> QED BY <1>4, <2>2, <2>3, <3>1, <3>2, <3>3
  <2>4. CASE b \in gone /\ LastOwnerGone(b, owned) /\ a \notin Accounts
    <3>1. ~HasAccount(b)
      BY <1>6, <2>4 DEF HasAccount, LastOwnerGone
    <3>2. CASE objState[b] = "absent"
      BY <1>4, <2>1, <3>2
    <3>3. CASE objState[b] # "absent"
      BY <1>4, <2>1, <2>2, <2>4, <3>1, <3>3
    <3> QED BY <3>2, <3>3
  <2>5. CASE b \notin gone \/ ~LastOwnerGone(b, owned)
    <3>1. orphanedAt'[b] = orphanedAt[b]
      BY <1>4, <2>5
    <3>2. HasAccount(b)' <=> HasAccount(b)
      <4>1. HasAccount(b)' => HasAccount(b)
        BY <1>4, <1>6 DEF HasAccount
      <4>2. b \notin gone /\ HasAccount(b) => HasAccount(b)'
        BY <1>4, <1>6 DEF HasAccount
      <4>3. b \in gone => HasAccount(b)'
        BY <2>2, <2>5
      <4> QED BY <4>1, <4>2, <4>3
    <3> QED BY <1>4, <2>1, <3>1, <3>2
  <2> QED BY <2>3, <2>4, <2>5
<1>10. ClaimShape'
  BY <1>4 DEF ClaimShape
<1> QED BY <1>7, <1>8, <1>9, <1>10

\* A claim takes orphans without a reservation; their files are handled and
\* their rows removed one at a time.
LEMMA ClaimStructure ==
    ASSUME Structure, TypeOK',
           \/ \E batch \in SUBSET Blocks : ClaimCollectibleBlocks(batch)
           \/ \E b \in Blocks : DeleteClaimedFile(b)
           \/ FinalizeBlockDeletion
    PROVE  Structure'
<1> USE DEF Structure
<1>1. ASSUME NEW batch \in SUBSET Blocks, ClaimCollectibleBlocks(batch)
      PROVE  Structure'
  <2>1. /\ UNCHANGED <<accountBlocks, deviceBlocks, orphanedAt, req, deleted>>
        /\ expiresAt' = Unexpired(now)
        /\ objState' = [b \in Blocks |-> IF b \in batch THEN "deleting"
                                                        ELSE objState[b]]
        /\ gcPc = "idle" /\ gcPc' = "claimed" /\ claimed' = batch
        /\ batch \subseteq Collectible(Unexpired(now), now)
    BY <1>1 DEF ClaimCollectibleBlocks, OldestOf, uploadVars, requestVars
  <2>2. \A b \in batch : /\ ~HasAccount(b)
                         /\ objState[b] # "absent"
                         /\ Unreserved(b, Unexpired(now))
    BY <2>1 DEF Collectible, Claimable
  <2>3. \A u \in Uploads : expiresAt'[u] \in {expiresAt[u], Null}
    BY <2>1 DEF Unexpired
  <2>4. \A b \in Blocks : HasReservation(b)' => HasReservation(b)
    BY <2>1, <2>3, NullAssumption DEF HasReservation, Block
  <2>5. \A b \in batch : ~HasReservation(b)'
    BY <2>1, <2>2 DEF HasReservation, Unreserved, Block
  <2>6. ReferencesNest'
    BY <2>1, <2>2 DEF ReferencesNest, HasAccount, TypeOK
  <2>7. deleted = Null
    BY <2>1 DEF ClaimShape
  <2>8. ClaimIsExclusive'
    <3>1. \A b \in Blocks : HasAccount(b)' <=> HasAccount(b)
      BY <2>1 DEF HasAccount
    <3> QED
      BY <2>1, <2>2, <2>4, <2>5, <2>7, <3>1 DEF ClaimIsExclusive
  <2>9. OrphansAreStamped'
    <3>1. \A b \in Blocks : HasAccount(b)' <=> HasAccount(b)
      BY <2>1 DEF HasAccount
    <3> QED BY <2>1, <2>2, <3>1 DEF OrphansAreStamped
  <2>10. ClaimShape'
    BY <2>1, <2>7, NullAssumption DEF ClaimShape
  <2> QED BY <2>6, <2>8, <2>9, <2>10
<1>2. ASSUME NEW b \in Blocks, DeleteClaimedFile(b)
      PROVE  Structure'
  <2>1. /\ UNCHANGED <<accountBlocks, deviceBlocks, objState, orphanedAt,
                       expiresAt, req, gcPc>>
        /\ gcPc = "claimed" /\ deleted = Null /\ b \in claimed
        /\ claimed' = claimed \ {b} /\ deleted' \in {b, Null}
    BY <1>2 DEF DeleteClaimedFile, dbVars, objectVars, uploadVars,
                requestVars, Answered
  <2>2. ReferencesNest' /\ OrphansAreStamped'
    BY <2>1 DEF ReferencesNest, OrphansAreStamped, HasAccount
  <2>3. ClaimIsExclusive'
    BY <2>1 DEF ClaimIsExclusive, HasAccount, HasReservation, Block
  <2>4. ClaimShape'
    BY <2>1, NullAssumption DEF ClaimShape, TypeOK
  <2> QED BY <2>2, <2>3, <2>4
<1>3. CASE FinalizeBlockDeletion
  <2>1. PICK b \in Blocks : b = deleted
    BY <1>3 DEF FinalizeBlockDeletion, TypeOK
  <2>2. /\ UNCHANGED <<accountBlocks, deviceBlocks, expiresAt, req, gcPc,
                       claimed>>
        /\ gcPc = "claimed" /\ deleted' = Null
        /\ \/ /\ Finalizable(b)
              /\ objState' = [objState EXCEPT ![b] = "absent"]
              /\ orphanedAt' = [orphanedAt EXCEPT ![b] = Null]
           \/ objState' = objState /\ orphanedAt' = orphanedAt
    <3>1. CASE Finalizable(deleted)
      BY <1>3, <2>1, <3>1
         DEF FinalizeBlockDeletion, uploadVars, requestVars, objectVars
    <3>2. CASE ~Finalizable(deleted)
      BY <1>3, <2>1, <3>2
         DEF FinalizeBlockDeletion, uploadVars, requestVars, objectVars,
             TypeOK
    <3> QED BY <3>1, <3>2
  <2>3. ReferencesNest'
    BY <2>2 DEF ReferencesNest, Finalizable, HasAccount, TypeOK
  <2>4. b \notin claimed
    BY <2>1 DEF ClaimShape
  <2>5. ClaimIsExclusive'
    BY <2>2, <2>4
       DEF ClaimIsExclusive, HasAccount, HasReservation, Block, TypeOK
  <2>6. OrphansAreStamped'
    BY <2>2 DEF OrphansAreStamped, HasAccount, TypeOK
  <2>7. ClaimShape'
    BY <2>2, NullAssumption DEF ClaimShape, TypeOK
  <2> QED BY <2>3, <2>5, <2>6, <2>7
<1> QED BY <1>1, <1>2, <1>3

\* Every other step is quiet.
LEMMA NextStructure ==
    ASSUME Structure, TypeOK', [Next]_vars
    PROVE  Structure'
<1> USE DEF dbVars, deviceVars, objectVars, quotaVars, uploadVars,
            requestVars, Answered, jobVars, gcVars, claimVars, sweepVars
<1>0. TypeOK
  BY DEF Structure
<1>1. ASSUME NEW u \in Uploads, BeginPut(u) \/ UploadStep(u)
      PROVE  Structure'
  <2>1. CASE ReserveBlockUpload(u) \/ CommitBlockUpload(u)
    BY <2>1, ReserveStructure, CommitStructure
  <2>2. CASE CancelBlockUpload(u)
    <3>1. \A v \in Uploads : expiresAt'[v] \in {expiresAt[v], Null}
      BY <1>0, <2>2 DEF CancelBlockUpload, TypeOK
    <3> QED BY <2>2, <3>1, QuietStep DEF CancelBlockUpload
  <2>3. CASE \/ BeginPut(u) \/ RejectUpload(u) \/ PutNew(u) \/ PutNewFails(u)
             \/ CommitFails(u)
    BY <2>3, QuietStep
       DEF BeginPut, RejectUpload, PutNew, PutNewFails, CommitFails
  <2> QED BY <1>1, <2>1, <2>2, <2>3 DEF UploadStep
<1>2. ASSUME NEW d \in Devices, NEW e \in Devices,
             RevokeDevice(d, e) \/ MergeGroups(d, e)
      PROVE  Structure'
  BY <1>2, QuietStep DEF RevokeDevice, MergeGroups
<1>3. ASSUME NEW d \in Devices, NEW n \in 0..MaxSession,
             PutSessionFile(d, n) \/ DeleteSessionFile(d, n)
      PROVE  Structure'
  <2>1. \A v \in Uploads : expiresAt'[v] \in {expiresAt[v], Null}
    BY <1>3 DEF PutSessionFile, DeleteSessionFile, Unexpired
  <2> QED BY <1>3, <2>1, QuietStep DEF PutSessionFile, DeleteSessionFile
<1>4. ASSUME NEW j \in Cleanups, NEW d \in Devices, NEW n \in 0..MaxSession,
             DiscardOtherGroups(j, d, n)
      PROVE  Structure'
  <2>1. \A e \in Devices : deviceBlocks'[e] \subseteq deviceBlocks[e]
    BY <1>4 DEF DiscardOtherGroups
  <2> QED BY <1>4, <2>1, QuietStep DEF DiscardOtherGroups
<1>5. ASSUME NEW j \in Cleanups, NEW d \in Devices,
             NEW keep \in SUBSET Blocks, BeginPrune(j, d, keep)
      PROVE  Structure'
  BY <1>5, QuietStep DEF BeginPrune
<1>6. ASSUME NEW j \in Cleanups, CleanupStep(j)
      PROVE  Structure'
  <2>1. CASE CleanupStops(j)
    BY <2>1, QuietStep DEF CleanupStops
  <2> QED BY <1>6, <2>1, ReleaseStructure DEF CleanupStep
<1>7. CASE CollectorStep
  <2>1. CASE ListFiles
    BY <2>1, QuietStep DEF ListFiles
  <2>2. CASE SelectOrphanFiles
    <3>1. claimed' = {} /\ deleted' = Null
      BY <2>2 DEF SelectOrphanFiles, Structure, ClaimShape
    <3> QED BY <2>2, <3>1, QuietStep DEF SelectOrphanFiles
  <2>3. ASSUME NEW b \in Blocks, DeleteOrphanFile(b) PROVE Structure'
    BY <2>3, QuietStep DEF DeleteOrphanFile
  <2>4. CASE CollectionEnds
    BY <2>4, QuietStep DEF CollectionEnds, CollectorStops
  <2> QED BY <1>7, <2>1, <2>2, <2>3, <2>4, ClaimStructure DEF CollectorStep
<1>8. CASE Crash
  BY <1>8, QuietStep DEF Crash, CollectorStops
<1>9. CASE Tick
  BY <1>9, QuietStep DEF Tick
<1>10. CASE UNCHANGED vars
  BY <1>10, QuietStep DEF vars
<1> QED
  BY <1>1, <1>2, <1>3, <1>4, <1>5, <1>6, <1>7, <1>8, <1>9, <1>10
     DEF Next, RequestArrives

\* The structure is an inductive invariant.
LEMMA StructureInvariant == Spec => []Structure
<1>1. Init => Structure
  BY StructureInit
<1>2. Structure /\ TypeOK' /\ [Next]_vars => Structure'
  BY NextStructure
<1> QED BY <1>1, <1>2, TypeCorrect, PTL DEF Spec

\* What a device references its account owns, and what an account owns is an
\* active object: no interleaving of uploads, discards, prunes and the
\* collector breaks the nesting of the three tables.
THEOREM ReferencesAlwaysNest == Spec => []ReferencesNest
<1>1. Structure => ReferencesNest
  BY DEF Structure
<1> QED BY <1>1, StructureInvariant, PTL

\* A block that is being deleted stays without owner and reservation until
\* the collector has finished with it.
THEOREM ClaimAlwaysExclusive == Spec => []ClaimIsExclusive
<1>1. Structure => ClaimIsExclusive
  BY DEF Structure
<1> QED BY <1>1, StructureInvariant, PTL

\* An object carries an orphan stamp exactly while it has no owner.
THEOREM OrphansAlwaysStamped == Spec => []OrphansAreStamped
<1>1. Structure => OrphansAreStamped
  BY DEF Structure
<1> QED BY <1>1, StructureInvariant, PTL

----------------------------------------------------------------------------
(* What a step may do to files and references.                              *)

\* Apart from the two deletions of the collector no step removes a file.
LEMMA FilesKept ==
    ASSUME TypeOK, [Next]_vars, NEW b \in Blocks,
           mtime[b] # Null,
           ~DeleteClaimedFile(b), ~DeleteOrphanFile(b)
    PROVE  mtime'[b] = mtime[b]
<1>1. ASSUME NEW u \in Uploads, PutNew(u)
      PROVE  mtime'[b] = mtime[b]
  BY <1>1 DEF PutNew, TypeOK
<1>2. ASSUME NEW c \in Blocks, DeleteClaimedFile(c) \/ DeleteOrphanFile(c)
      PROVE  mtime'[b] = mtime[b]
  BY <1>2 DEF DeleteClaimedFile, DeleteOrphanFile, TypeOK
<1>3. CASE UNCHANGED mtime
  BY <1>3
<1> QED
  BY ZenonT(30), <1>1, <1>2, <1>3
     DEF Next, RequestArrives, UploadStep, CleanupStep, CollectorStep, vars,
         BeginPut, ReserveBlockUpload, RejectUpload, PutNewFails,
         CommitBlockUpload, CommitFails, CancelBlockUpload, RevokeDevice,
         MergeGroups, PutSessionFile, DeleteSessionFile, DiscardOtherGroups,
         BeginPrune, ReleaseBatch, CleanupStops, ClaimCollectibleBlocks,
         FinalizeBlockDeletion, ListFiles, SelectOrphanFiles, CollectionEnds,
         Crash, Tick

\* The file of an owned or reserved block is never deleted through a claim.
THEOREM ClaimAlwaysSpares == Spec => ClaimSparesLiveFiles
<1> DEFINE Spared == \A b \in Blocks :
                       /\ HasAccount(b) \/ HasReservation(b)
                       /\ mtime[b] # Null /\ mtime'[b] = Null
                       => gcPc = "sweeping" /\ b \in victims
<1>1. Structure /\ [Next]_vars => Spared
  <2> SUFFICES ASSUME Structure, [Next]_vars, NEW b \in Blocks,
                      HasAccount(b) \/ HasReservation(b),
                      mtime[b] # Null, mtime'[b] = Null
               PROVE  gcPc = "sweeping" /\ b \in victims
    OBVIOUS
  <2>1. ~DeleteClaimedFile(b)
    BY DEF Structure, ClaimIsExclusive, DeleteClaimedFile
  <2>2. DeleteOrphanFile(b)
    BY <2>1, FilesKept DEF Structure
  <2> QED BY <2>2 DEF DeleteOrphanFile
<1>2. Spared => [Spared]_vars
  OBVIOUS
<1> QED
  BY <1>1, StructureInvariant, PTL DEF Spec, ClaimSparesLiveFiles

\* A revoked device never gains a reference.
THEOREM RevokedNeverGains == Spec => RevokedGainsNothing
<1> DEFINE NoGain == \A d \in Devices :
              status[d] = "revoked" => deviceBlocks'[d] \subseteq deviceBlocks[d]
<1>1. TypeOK /\ [Next]_vars => NoGain
  <2> SUFFICES ASSUME TypeOK, [Next]_vars, NEW d \in Devices,
                      status[d] = "revoked"
               PROVE  deviceBlocks'[d] \subseteq deviceBlocks[d]
    OBVIOUS
  <2>1. ASSUME NEW u \in Uploads, CommitBlockUpload(u)
        PROVE  deviceBlocks'[d] = deviceBlocks[d]
    <3>1. req[u].device # d
      BY <2>1 DEF CommitBlockUpload, MayCommit, DeviceMayUpload, Active
    <3> QED BY <2>1, <3>1 DEF CommitBlockUpload, TypeOK
  <2>2. ASSUME NEW j \in Cleanups, NEW batch \in SUBSET pending[j],
               ReleaseBatch(j, batch)
        PROVE  deviceBlocks'[d] \subseteq deviceBlocks[d]
    BY <2>2 DEF ReleaseBatch
  <2>3. ASSUME NEW j \in Cleanups, NEW e \in Devices, NEW n \in 0..MaxSession,
               DiscardOtherGroups(j, e, n)
        PROVE  deviceBlocks'[d] \subseteq deviceBlocks[d]
    BY <2>3 DEF DiscardOtherGroups
  <2>4. CASE UNCHANGED deviceBlocks
    BY <2>4
  <2> QED
    BY <2>1, <2>2, <2>3, <2>4
       DEF Next, RequestArrives, UploadStep, CleanupStep, CollectorStep, vars,
           dbVars, BeginPut, ReserveBlockUpload, RejectUpload, PutNew,
           PutNewFails, CommitFails, CancelBlockUpload, RevokeDevice,
           MergeGroups, PutSessionFile, DeleteSessionFile, BeginPrune,
           CleanupStops, ClaimCollectibleBlocks, DeleteClaimedFile,
           FinalizeBlockDeletion, ListFiles, SelectOrphanFiles,
           DeleteOrphanFile, CollectionEnds, Crash, Tick
<1> QED
  BY <1>1, TypeCorrect, PTL DEF Spec, RevokedGainsNothing

----------------------------------------------------------------------------
(* The sweep of orphan files.                                               *)

\* The listing and the victims, however old, tell the truth about the age of
\* the files that are still there, because only the collector removes files
\* and an upload never replaces one.
SweepInv ==
    /\ TypeOK
    /\ \A b \in Blocks : listed[b] # Null => mtime[b] = listed[b]
    /\ \A b \in victims : mtime[b] # Null /\ PastGrace(mtime[b], now)
    /\ gcPc # "listed" => listed = NoFiles
    /\ gcPc # "sweeping" => victims = {}

\* Every step keeps the truth of the listing.
LEMMA NextSweep ==
    ASSUME SweepInv, TypeOK', [Next]_vars
    PROVE  SweepInv'
<1> USE DEF SweepInv, gcVars, sweepVars, claimVars
<1>1. now' \in Nat /\ now' >= now
  <2>1. now' = now \/ now' = now + 1
    BY ZenonT(30)
       DEF Next, RequestArrives, UploadStep, CleanupStep, CollectorStep, vars,
           BeginPut, ReserveBlockUpload, RejectUpload, PutNew, PutNewFails,
           CommitBlockUpload, CommitFails, CancelBlockUpload, RevokeDevice,
           MergeGroups, PutSessionFile, DeleteSessionFile,
           DiscardOtherGroups, BeginPrune, ReleaseBatch, CleanupStops,
           ClaimCollectibleBlocks, DeleteClaimedFile, FinalizeBlockDeletion,
           ListFiles, SelectOrphanFiles, DeleteOrphanFile, CollectionEnds,
           Crash, Tick
  <2> QED BY <2>1 DEF TypeOK
<1>2. \A t \in Nat : PastGrace(t, now) => PastGrace(t, now')
  BY <1>1, ParameterAssumption DEF PastGrace, TypeOK
<1>3. ASSUME gcPc' = gcPc, listed' = listed, victims' = victims,
             \A b \in Blocks : ~DeleteClaimedFile(b) /\ ~DeleteOrphanFile(b)
      PROVE  SweepInv'
  <2>1. \A b \in Blocks : mtime[b] # Null => mtime'[b] = mtime[b]
    BY <1>3, FilesKept
  <2>2. \A b \in Blocks : listed'[b] # Null => mtime'[b] = listed'[b]
    BY <1>3, <2>1
  <2>3. \A b \in victims' : mtime'[b] # Null /\ PastGrace(mtime'[b], now')
    BY <1>2, <1>3, <2>1 DEF TypeOK, Instant
  <2> QED BY <1>3, <2>2, <2>3 DEF NoFiles
<1>4. ASSUME NEW b \in Blocks, DeleteClaimedFile(b)
      PROVE  SweepInv'
  BY <1>4 DEF DeleteClaimedFile, NoFiles
<1>5. ASSUME NEW b \in Blocks, DeleteOrphanFile(b)
      PROVE  SweepInv'
  <2>1. /\ listed' = NoFiles /\ gcPc' = "sweeping"
        /\ victims' = victims \ {b}
        /\ \A c \in Blocks \ {b} : mtime'[c] = mtime[c]
    BY <1>5 DEF DeleteOrphanFile, TypeOK
  <2>2. \A c \in victims' : mtime'[c] # Null /\ PastGrace(mtime'[c], now')
    BY <1>2, <2>1 DEF TypeOK, Instant
  <2> QED BY <2>1, <2>2 DEF NoFiles
<1>6. CASE ListFiles
  BY <1>6 DEF ListFiles
<1>7. CASE SelectOrphanFiles
  <2>1. /\ victims' \subseteq {b \in Blocks : /\ listed[b] # Null
                                             /\ PastGrace(listed[b], now)}
        /\ mtime' = mtime /\ listed' = NoFiles /\ gcPc' = "sweeping"
    BY <1>7 DEF SelectOrphanFiles, OldFile
  <2>2. \A c \in victims' : mtime'[c] # Null /\ PastGrace(mtime'[c], now')
    BY <1>2, <2>1 DEF TypeOK, Instant
  <2> QED BY <2>1, <2>2 DEF NoFiles
<1>8. CASE CollectionEnds \/ Crash
  BY <1>8 DEF CollectionEnds, Crash, CollectorStops, NoFiles
<1>9. CASE \/ \E batch \in SUBSET Blocks : ClaimCollectibleBlocks(batch)
           \/ FinalizeBlockDeletion
  BY <1>9 DEF ClaimCollectibleBlocks, FinalizeBlockDeletion, NoFiles
<1> QED
  BY ZenonT(30), <1>3, <1>4, <1>5, <1>6, <1>7, <1>8, <1>9
     DEF Next, RequestArrives, UploadStep, CleanupStep, CollectorStep, vars,
         BeginPut, ReserveBlockUpload, RejectUpload, PutNew, PutNewFails,
         CommitBlockUpload, CommitFails, CancelBlockUpload, RevokeDevice,
         MergeGroups, PutSessionFile, DeleteSessionFile, DiscardOtherGroups,
         BeginPrune, ReleaseBatch, CleanupStops, Tick

\* The truth of the listing is an inductive invariant.
LEMMA SweepInvariant == Spec => []SweepInv
<1>1. Init => SweepInv
  BY AccountingInit
     DEF Init, CollectorIdle, SweepInv, NoFiles, Accounting
<1>2. SweepInv /\ TypeOK' /\ [Next]_vars => SweepInv'
  BY NextSweep
<1> QED BY <1>1, <1>2, TypeCorrect, PTL DEF Spec

\* The sweep never removes a file younger than the grace period.
THEOREM SweepAlwaysSpares == Spec => SweepSparesYoungFiles
<1> DEFINE Spared == \A b \in Blocks :
                       gcPc = "sweeping" /\ mtime[b] # Null
                       /\ mtime'[b] = Null
                          => mtime[b] + GracePeriod <= now
<1>1. SweepInv /\ [Next]_vars => Spared
  <2> SUFFICES ASSUME SweepInv, [Next]_vars, NEW b \in Blocks,
                      gcPc = "sweeping", mtime[b] # Null, mtime'[b] = Null
               PROVE  mtime[b] + GracePeriod <= now
    OBVIOUS
  <2>1. ~DeleteClaimedFile(b)
    BY DEF DeleteClaimedFile
  <2>2. DeleteOrphanFile(b)
    BY <2>1, FilesKept DEF SweepInv
  <2> QED BY <2>2 DEF DeleteOrphanFile, SweepInv, PastGrace
<1> QED
  BY <1>1, SweepInvariant, PTL DEF Spec, SweepSparesYoungFiles

----------------------------------------------------------------------------
(* The quota.  A batch that takes blocks from the account makes room, but a *)
(* reservation of such a block will be charged again: the room suffices     *)
(* because a block has at most one reservation in an account.               *)

OneReservation ==
    \A u, v \in Uploads :
        /\ expiresAt[u] # Null /\ expiresAt[v] # Null
        /\ Account(u) = Account(v) /\ Block(u) = Block(v)
        => u = v

QuotaInv == Accounting /\ QuotaHonoured /\ OneReservation

\* The charged reservations are a finite set of uploads.
LEMMA ChargedFinite ==
    \A a, rows, owned :
        /\ ChargedIn(a, rows, owned) \in SUBSET Uploads
        /\ IsFiniteSet(ChargedIn(a, rows, owned))
        /\ Cardinality(ChargedIn(a, rows, owned)) \in Nat
BY FinitePart DEF ChargedIn

\* A step that makes no reservation and charges nothing keeps the quota.
LEMMA QuietQuota ==
    ASSUME QuotaInv, Accounting',
           UNCHANGED <<accountBlocks, req>>,
           \A a \in Accounts : used'[a] <= used[a],
           \A u \in Uploads : expiresAt'[u] \in {expiresAt[u], Null}
    PROVE  QuotaInv'
<1> USE DEF QuotaInv, Accounting
<1>1. OneReservation'
  BY DEF OneReservation, Account, Block
<1>2. ASSUME NEW a \in Accounts
      PROVE  used'[a] + Reserved(a)' <= Quota
  <2>1. Charged(a)' \in SUBSET Charged(a)
    BY DEF Charged, ChargedIn, Account, Block
  <2>2. IsFiniteSet(Charged(a)) /\ Reserved(a) \in Nat
    BY ChargedFinite DEF Reserved, Charged
  <2>3. Reserved(a)' <= Reserved(a) /\ Reserved(a)' \in Nat
    <3>1. Cardinality(Charged(a)') <= Cardinality(Charged(a))
      BY <2>1, <2>2, FS_Subset
    <3>2. Cardinality(Charged(a)') \in Nat
      BY <2>1, <2>2, FS_Subset, FS_CardinalityType
    <3> QED BY <3>1, <3>2 DEF Reserved
  <2>4. used[a] + Reserved(a) <= Quota /\ used[a] \in Nat /\ used'[a] \in Nat
    BY DEF QuotaHonoured, TypeOK
  <2> QED BY <2>2, <2>3, <2>4, ParameterAssumption
<1> QED BY <1>1, <1>2 DEF QuotaHonoured

\* A new reservation is made only when it is the account's only one for the
\* block, and when it has room or will not be charged.
LEMMA ReserveQuota ==
    ASSUME QuotaInv, Accounting', NEW u \in Uploads, ReserveBlockUpload(u)
    PROVE  QuotaInv'
<1> USE DEF QuotaInv, Accounting
<1>0. PICK t : t = started[u]
  OBVIOUS
<1>1. PICK rows : rows = Unexpired(t)
  OBVIOUS
<1>2. PICK owner \in Accounts, b \in Blocks : owner = Account(u) /\ b = Block(u)
  BY OwnerAssumption DEF TypeOK, Account, Block
<1>3. /\ UNCHANGED <<accountBlocks, used, req>>
      /\ \A v \in Uploads : expiresAt'[v] = IF v = u THEN t + ReservationTTL
                                                     ELSE rows[v]
      /\ \A v \in Uploads : rows[v] \in {expiresAt[v], Null}
      /\ \A v \in Uploads : Account(v) = owner /\ Block(v) = b
                              => rows[v] = Null
      /\ \/ b \in accountBlocks[owner]
         \/ used[owner] + Cardinality(ChargedIn(owner, rows, accountBlocks))
              + 1 <= Quota
  BY <1>0, <1>1, <1>2
     DEF ReserveBlockUpload, MayReserve, Unexpired, ReservedAfter, quotaVars,
         requestVars, Answered
<1>4. OneReservation'
  BY <1>2, <1>3 DEF OneReservation, Account, Block
<1>5. ASSUME NEW a \in Accounts
      PROVE  used'[a] + Reserved(a)' <= Quota
  <2> DEFINE before == ChargedIn(a, rows, accountBlocks)
  <2>1. before \in SUBSET Charged(a) /\ IsFiniteSet(Charged(a))
    <3>1. before \in SUBSET Charged(a)
      BY <1>3 DEF Charged, ChargedIn
    <3> QED BY <3>1, ChargedFinite DEF Charged
  <2>2. /\ IsFiniteSet(before) /\ Cardinality(before) \in Nat
        /\ Cardinality(before) <= Reserved(a) /\ Reserved(a) \in Nat
    BY <2>1, FS_Subset, FS_CardinalityType DEF Reserved
  <2>3. used[a] + Reserved(a) <= Quota /\ used[a] \in Nat /\ used'[a] = used[a]
    BY <1>3 DEF QuotaHonoured, TypeOK
  <2>4. CASE a = owner /\ b \notin accountBlocks[a]
    <3>1. Charged(a)' \in SUBSET (before \cup {u})
      BY <1>3 DEF Charged, ChargedIn, Account, Block
    <3>2. /\ IsFiniteSet(before \cup {u})
          /\ Cardinality(before \cup {u}) <= Cardinality(before) + 1
      <4> HIDE DEF before
      <4>1. /\ IsFiniteSet(before \cup {u})
            /\ Cardinality(before \cup {u}) = IF u \in before
                                              THEN Cardinality(before)
                                              ELSE Cardinality(before) + 1
        BY <2>2, FS_AddElement
      <4> QED BY <2>2, <4>1
    <3>3. /\ Cardinality(Charged(a)') <= Cardinality(before \cup {u})
          /\ Cardinality(Charged(a)') \in Nat
          /\ Cardinality(before \cup {u}) \in Nat
      BY <3>1, <3>2, FS_Subset, FS_CardinalityType
    <3>4. Reserved(a)' <= Cardinality(before) + 1 /\ Reserved(a)' \in Nat
      BY <2>2, <3>2, <3>3 DEF Reserved
    <3>5. used[a] + Cardinality(before) + 1 <= Quota
      BY <1>3, <2>4
    <3> HIDE DEF before
    <3> QED BY <2>2, <2>3, <3>4, <3>5, ParameterAssumption
  <2>5. CASE a # owner \/ b \in accountBlocks[a]
    <3>1. Charged(a)' \in SUBSET before
      BY <1>2, <1>3, <2>5 DEF Charged, ChargedIn, Account, Block
    <3>2. Cardinality(Charged(a)') <= Cardinality(before)
          /\ Cardinality(Charged(a)') \in Nat
      BY <2>2, <3>1, FS_Subset, FS_CardinalityType
    <3>3. Reserved(a)' <= Cardinality(before) /\ Reserved(a)' \in Nat
      BY <3>2 DEF Reserved
    <3> HIDE DEF before
    <3> QED BY <2>2, <2>3, <3>3, ParameterAssumption
  <2> QED BY <2>4, <2>5
<1> QED BY <1>4, <1>5 DEF QuotaHonoured

\* A commit turns a charged reservation into a charged block.
LEMMA CommitQuota ==
    ASSUME QuotaInv, Accounting', NEW u \in Uploads, CommitBlockUpload(u)
    PROVE  QuotaInv'
<1> USE DEF QuotaInv, Accounting
<1>0. PICK owner \in Accounts, b \in Blocks : owner = Account(u) /\ b = Block(u)
  BY OwnerAssumption DEF TypeOK, Account, Block
<1>1. /\ req' = req
      /\ expiresAt[u] # Null
      /\ expiresAt' = [expiresAt EXCEPT ![u] = Null]
      /\ accountBlocks' = [accountBlocks EXCEPT ![owner] = @ \cup {b}]
      /\ used' = IF b \in accountBlocks[owner] THEN used
                 ELSE [used EXCEPT ![owner] = @ + 1]
  BY <1>0 DEF CommitBlockUpload, MayCommit, UsedAfterCommit, requestVars,
         Answered
<1>2. /\ \A v \in Uploads : expiresAt'[v] = IF v = u THEN Null
                                                    ELSE expiresAt[v]
      /\ \A a \in Accounts : accountBlocks'[a] =
            IF a = owner THEN accountBlocks[a] \cup {b} ELSE accountBlocks[a]
  BY <1>1 DEF TypeOK
<1>3. OneReservation'
  BY <1>1, <1>2 DEF OneReservation, Account, Block
<1>4. ASSUME NEW a \in Accounts
      PROVE  used'[a] + Reserved(a)' <= Quota
  <2>1. used[a] + Reserved(a) <= Quota /\ used[a] \in Nat
    BY DEF QuotaHonoured, TypeOK
  <2>2. Charged(a)' \in SUBSET Charged(a)
    BY <1>0, <1>1, <1>2 DEF Charged, ChargedIn, Account, Block
  <2>3. IsFiniteSet(Charged(a)) /\ Reserved(a) = Cardinality(Charged(a))
        /\ Reserved(a) \in Nat
    BY ChargedFinite DEF Reserved, Charged
  <2>4. CASE a = owner /\ b \notin accountBlocks[a]
    <3>1. u \in Charged(a) /\ Charged(a)' \in SUBSET (Charged(a) \ {u})
      BY <1>0, <1>1, <1>2, <2>2, <2>4 DEF Charged, ChargedIn, Account, Block
    <3>2. /\ IsFiniteSet(Charged(a) \ {u})
          /\ Cardinality(Charged(a) \ {u}) = Reserved(a) - 1
      BY <2>3, <3>1, FS_RemoveElement
    <3>3. /\ Cardinality(Charged(a)') <= Cardinality(Charged(a) \ {u})
          /\ Cardinality(Charged(a)') \in Nat
      BY <3>1, <3>2, FS_Subset, FS_CardinalityType
    <3>4. Reserved(a)' <= Reserved(a) - 1 /\ Reserved(a)' \in Nat
      BY <3>2, <3>3 DEF Reserved
    <3>5. used'[a] = used[a] + 1
      BY <1>1, <2>4 DEF TypeOK
    <3> QED BY <2>1, <2>3, <3>4, <3>5, ParameterAssumption
  <2>5. CASE a # owner \/ b \in accountBlocks[a]
    <3>1. Cardinality(Charged(a)') <= Cardinality(Charged(a))
          /\ Cardinality(Charged(a)') \in Nat
      BY <2>2, <2>3, FS_Subset, FS_CardinalityType
    <3>2. Reserved(a)' <= Reserved(a) /\ Reserved(a)' \in Nat
      BY <3>1 DEF Reserved
    <3>3. used'[a] = used[a]
      BY <1>1, <2>5 DEF TypeOK
    <3> QED BY <2>1, <2>3, <3>2, <3>3, ParameterAssumption
  <2> QED BY <2>4, <2>5
<1> QED BY <1>3, <1>4 DEF QuotaHonoured

\* A batch refunds each released block; at most one reservation starts to be
\* charged for each of them.
LEMMA ReleaseBooks ==
    ASSUME QuotaInv, NEW j \in Cleanups, NEW batch \in SUBSET pending[j],
           ReleaseBatch(j, batch), NEW a \in Accounts
    PROVE  IF a = Owner[job[j].device]
           THEN /\ used'[a] <= used[a]
                /\ used'[a] + Reserved(a)' <= used[a] + Reserved(a)
           ELSE used'[a] = used[a] /\ Reserved(a)' = Reserved(a)
<1> USE DEF QuotaInv, Accounting
<1>0. PICK owner : owner = Owner[job[j].device]
  OBVIOUS
<1>1. PICK refs : refs = [e \in Devices |->
                            IF job[j].kind = "prune" /\ e \in job[j].members
                            THEN deviceBlocks[e] \ batch ELSE deviceBlocks[e]]
  OBVIOUS
<1>2. PICK gone : gone = Released(owner, batch, refs)
  OBVIOUS
<1>3. /\ req' = req /\ expiresAt' = expiresAt
      /\ accountBlocks' = [accountBlocks EXCEPT ![owner] = @ \ gone]
      /\ used' = [used EXCEPT ![owner] = IF @ >= Cardinality(gone)
                                         THEN @ - Cardinality(gone) ELSE 0]
  BY <1>0, <1>1, <1>2 DEF ReleaseBatch, uploadVars, requestVars, Answered
<1>4. gone \in SUBSET accountBlocks[owner]
  BY <1>2 DEF Released
<1>5. IsFiniteSet(Charged(a)) /\ Reserved(a) = Cardinality(Charged(a))
      /\ Reserved(a) \in Nat /\ used[a] \in Nat
  BY ChargedFinite DEF Reserved, Charged, TypeOK
<1>6. CASE a = owner
  <2> DEFINE more == {u \in Uploads : /\ expiresAt[u] # Null
                                     /\ Account(u) = a
                                     /\ Block(u) \in gone}
  <2> DEFINE f == [u \in more |-> Block(u)]
  <2>1. Charged(a)' \in SUBSET (Charged(a) \cup more)
    BY <1>3, <1>6 DEF Charged, ChargedIn, Account, Block, TypeOK
  <2>2. /\ gone \in SUBSET Blocks /\ IsFiniteSet(gone)
        /\ Cardinality(gone) \in Nat
    BY <1>4, <1>6, FinitePart DEF TypeOK
  <2>3. f \in Injection(more, gone)
    <3>1. f \in [more -> gone]
      OBVIOUS
    <3>2. \A u, v \in more : f[u] = f[v] => u = v
      BY DEF OneReservation
    <3> QED BY <3>1, <3>2 DEF Injection, IsInjective
  <2>4. IsFiniteSet(more) /\ Cardinality(more) <= Cardinality(gone)
        /\ Cardinality(more) \in Nat
    <3> HIDE DEF more, f
    <3> QED BY <2>2, <2>3, FS_Injection, FS_CardinalityType
  <2> HIDE DEF more, f
  <2>5. /\ IsFiniteSet(Charged(a) \cup more)
        /\ Cardinality(Charged(a) \cup more) \in Nat
        /\ Cardinality(Charged(a) \cup more) <= Reserved(a)
                                                + Cardinality(more)
    <3>1. /\ IsFiniteSet(Charged(a) \cup more)
          /\ Cardinality(Charged(a) \cup more)
               = Cardinality(Charged(a)) + Cardinality(more)
                   - Cardinality(Charged(a) \cap more)
      BY <1>5, <2>4, FS_Union
    <3>2. Cardinality(Charged(a) \cap more) \in Nat
      BY <1>5, FS_Intersection, FS_CardinalityType
    <3>3. Cardinality(Charged(a) \cup more) \in Nat
      BY <3>1, FS_CardinalityType
    <3> QED BY <1>5, <2>4, <3>1, <3>2, <3>3
  <2>6. /\ Cardinality(Charged(a)') <= Cardinality(Charged(a) \cup more)
        /\ Cardinality(Charged(a)') \in Nat
    BY <2>1, <2>5, FS_Subset, FS_CardinalityType
  <2>7. Reserved(a)' <= Reserved(a) + Cardinality(gone)
        /\ Reserved(a)' \in Nat
    BY <1>5, <2>2, <2>4, <2>5, <2>6 DEF Reserved
  <2>8. used'[a] = used[a] - Cardinality(gone)
    <3>1. /\ used[a] = Cardinality(accountBlocks[a]) + sessionBytes[a]
          /\ sessionBytes[a] \in Nat
          /\ accountBlocks[a] \in SUBSET Blocks
      BY DEF UsedIsExact, TypeOK
    <3>2. /\ Cardinality(accountBlocks[a]) >= Cardinality(gone)
          /\ Cardinality(accountBlocks[a]) \in Nat
      BY <1>4, <1>6, <3>1, ReleaseCount
    <3>3. used[a] >= Cardinality(gone)
      BY <2>2, <3>1, <3>2
    <3>4. used'[a] = IF used[a] >= Cardinality(gone)
                     THEN used[a] - Cardinality(gone) ELSE 0
      BY <1>3, <1>6 DEF TypeOK
    <3> QED BY <3>3, <3>4
  <2> QED BY <1>0, <1>5, <1>6, <2>2, <2>7, <2>8
<1>7. CASE a # owner
  <2>1. used'[a] = used[a] /\ accountBlocks'[a] = accountBlocks[a]
    BY <1>3, <1>7 DEF TypeOK
  <2>2. Charged(a)' = Charged(a)
    BY <1>3, <2>1 DEF Charged, ChargedIn, Account, Block
  <2> QED BY <1>0, <1>7, <2>1, <2>2 DEF Reserved
<1> QED BY <1>6, <1>7

\* Before and after a step a number of uploads is reserved.
LEMMA ReservedNat ==
    \A a \in Accounts : Reserved(a) \in Nat /\ Reserved(a)' \in Nat
<1> SUFFICES ASSUME NEW a \in Accounts
             PROVE  Reserved(a) \in Nat /\ Reserved(a)' \in Nat
  OBVIOUS
<1>1. Charged(a) \in SUBSET Uploads /\ Charged(a)' \in SUBSET Uploads
  BY DEF Charged, ChargedIn
<1>2. Cardinality(Charged(a)) \in Nat /\ Cardinality(Charged(a)') \in Nat
  BY <1>1, FinitePart
<1> QED BY <1>2 DEF Reserved

LEMMA ReleaseQuota ==
    ASSUME QuotaInv, Accounting', NEW j \in Cleanups,
           NEW batch \in SUBSET pending[j], ReleaseBatch(j, batch)
    PROVE  QuotaInv'
<1> USE DEF QuotaInv, Accounting
<1>1. OneReservation'
  BY DEF OneReservation, Account, Block, ReleaseBatch, uploadVars,
         requestVars, Answered
<1>2. ASSUME NEW a \in Accounts
      PROVE  used'[a] + Reserved(a)' <= Quota
  <2>1. used'[a] + Reserved(a)' <= used[a] + Reserved(a)
    <3>1. Reserved(a) \in Nat /\ used[a] \in Nat
      BY ReservedNat DEF TypeOK
    <3> QED BY <3>1, ReleaseBooks
  <2>2. /\ used[a] + Reserved(a) <= Quota /\ used[a] \in Nat
        /\ used'[a] \in Nat /\ Reserved(a) \in Nat /\ Reserved(a)' \in Nat
    BY ReservedNat DEF QuotaHonoured, TypeOK
  <2> QED BY <2>1, <2>2, ParameterAssumption
<1> QED BY <1>1, <1>2 DEF QuotaHonoured

\* A snapshot that grows is checked against the quota and the reservations
\* that are left; one that shrinks makes room.
LEMMA SessionQuota ==
    ASSUME QuotaInv, Accounting', NEW d \in Devices, NEW n \in 0..MaxSession,
           PutSessionFile(d, n) \/ DeleteSessionFile(d, n)
    PROVE  QuotaInv'
<1> USE DEF QuotaInv, Accounting
<1>0. PICK owner \in Accounts : owner = Owner[d]
  BY OwnerAssumption
<1>1. n \in Nat
  BY BoundAssumption
<1>2. used' = [used EXCEPT ![owner] = (@ + n) - sessionBytes[owner]]
  BY <1>0 DEF PutSessionFile, DeleteSessionFile
<1>3. /\ UNCHANGED <<accountBlocks, req>>
      /\ \A u \in Uploads : expiresAt'[u] \in {expiresAt[u], Null}
  BY DEF PutSessionFile, DeleteSessionFile, Unexpired, uploadVars, requestVars
<1>4. CASE n <= sessionBytes[owner]
  <2>1. \A a \in Accounts : used'[a] <= used[a]
    BY <1>1, <1>2, <1>4 DEF TypeOK
  <2> QED BY <1>3, <2>1, QuietQuota
<1>5. CASE n > sessionBytes[owner]
  <2>1. /\ expiresAt' = Unexpired(now)
        /\ used[owner] + ReservedAfter(owner, now)
             + (n - sessionBytes[owner]) <= Quota
    BY <1>0, <1>1, <1>5 DEF PutSessionFile, DeleteSessionFile, TypeOK
  <2>2. OneReservation'
    BY <1>3 DEF OneReservation, Account, Block
  <2>3. ASSUME NEW a \in Accounts
        PROVE  used'[a] + Reserved(a)' <= Quota
    <3>1. CASE a = owner
      <4>1. Reserved(a)' = ReservedAfter(a, now)
        BY <1>3, <2>1
           DEF Reserved, Charged, ReservedAfter, ChargedIn, Account, Block
      <4>2. ReservedAfter(a, now) \in Nat
        BY ChargedFinite DEF ReservedAfter
      <4>3. used'[a] = (used[a] + n) - sessionBytes[a]
        BY <1>2, <3>1 DEF TypeOK
      <4>4. used[a] \in Nat /\ sessionBytes[a] \in Nat
        BY DEF TypeOK
      <4> QED
        BY <1>1, <2>1, <3>1, <4>1, <4>2, <4>3, <4>4, ParameterAssumption
    <3>2. CASE a # owner
      <4>1. Charged(a)' \in SUBSET Charged(a) /\ IsFiniteSet(Charged(a))
        <5>1. Charged(a)' \in SUBSET Charged(a)
          BY <1>3 DEF Charged, ChargedIn, Account, Block
        <5> QED BY <5>1, ChargedFinite DEF Charged
      <4>2. /\ Cardinality(Charged(a)') <= Cardinality(Charged(a))
            /\ Cardinality(Charged(a)') \in Nat
            /\ Cardinality(Charged(a)) \in Nat
        BY <4>1, FS_Subset, FS_CardinalityType
      <4>3. used'[a] = used[a] /\ used[a] \in Nat
        BY <1>2, <3>2 DEF TypeOK
      <4>4. used[a] + Cardinality(Charged(a)) <= Quota
        BY DEF QuotaHonoured, Reserved
      <4>5. used[a] + Cardinality(Charged(a)') <= Quota
        BY <4>2, <4>3, <4>4, ParameterAssumption
      <4> QED BY <4>3, <4>5 DEF Reserved
    <3> QED BY <3>1, <3>2
  <2> QED BY <2>2, <2>3 DEF QuotaHonoured
<1> QED BY <1>1, <1>4, <1>5 DEF TypeOK

\* No step exceeds the quota.
LEMMA NextQuota ==
    ASSUME QuotaInv, Accounting', [Next]_vars
    PROVE  QuotaInv'
<1> USE DEF dbVars, deviceVars, objectVars, quotaVars, uploadVars,
            requestVars, Answered, jobVars, gcVars
<1>0. TypeOK
  BY DEF QuotaInv, Accounting
<1>1. ASSUME used' = used, UNCHANGED <<accountBlocks, req>>,
             \A u \in Uploads : expiresAt'[u] \in {expiresAt[u], Null}
      PROVE  QuotaInv'
  <2>1. \A a \in Accounts : used'[a] <= used[a]
    BY <1>0, <1>1 DEF TypeOK
  <2> QED BY <1>1, <2>1, QuietQuota
<1>2. ASSUME NEW u \in Uploads, BeginPut(u) \/ UploadStep(u)
      PROVE  QuotaInv'
  <2>1. CASE ReserveBlockUpload(u) \/ CommitBlockUpload(u)
    BY <2>1, ReserveQuota, CommitQuota
  <2>2. CASE CancelBlockUpload(u)
    <3>1. \A v \in Uploads : expiresAt'[v] \in {expiresAt[v], Null}
      BY <1>0, <2>2 DEF CancelBlockUpload, TypeOK
    <3> QED BY <1>1, <2>2, <3>1 DEF CancelBlockUpload
  <2>3. CASE \/ BeginPut(u) \/ RejectUpload(u) \/ PutNew(u) \/ PutNewFails(u)
             \/ CommitFails(u)
    BY <1>1, <2>3
       DEF BeginPut, RejectUpload, PutNew, PutNewFails, CommitFails
  <2> QED BY <1>2, <2>1, <2>2, <2>3 DEF UploadStep
<1>3. ASSUME NEW d \in Devices, NEW e \in Devices,
             RevokeDevice(d, e) \/ MergeGroups(d, e)
      PROVE  QuotaInv'
  BY <1>1, <1>3 DEF RevokeDevice, MergeGroups
<1>4. ASSUME NEW j \in Cleanups, NEW d \in Devices, NEW n \in 0..MaxSession,
             DiscardOtherGroups(j, d, n)
      PROVE  QuotaInv'
  <2>1. n \in Nat /\ n <= sessionBytes[Owner[d]]
    BY <1>4, BoundAssumption DEF DiscardOtherGroups
  <2>2. used' = [used EXCEPT ![Owner[d]] = (@ + n) - sessionBytes[Owner[d]]]
    BY <1>4 DEF DiscardOtherGroups
  <2>3. \A a \in Accounts : used'[a] <= used[a]
    BY <1>0, <2>1, <2>2 DEF TypeOK
  <2> QED BY <1>4, <2>3, QuietQuota DEF DiscardOtherGroups
<1>5. ASSUME NEW j \in Cleanups, NEW d \in Devices,
             NEW keep \in SUBSET Blocks, BeginPrune(j, d, keep)
      PROVE  QuotaInv'
  BY <1>1, <1>5 DEF BeginPrune
<1>6. ASSUME NEW j \in Cleanups, CleanupStep(j)
      PROVE  QuotaInv'
  <2>1. CASE CleanupStops(j)
    BY <1>1, <2>1 DEF CleanupStops
  <2> QED BY <1>6, <2>1, ReleaseQuota DEF CleanupStep
<1>7. CASE CollectorStep
  <2>1. ASSUME NEW batch \in SUBSET Blocks, ClaimCollectibleBlocks(batch)
        PROVE  QuotaInv'
    <3>1. \A u \in Uploads : expiresAt'[u] \in {expiresAt[u], Null}
      BY <2>1 DEF ClaimCollectibleBlocks, Unexpired
    <3> QED BY <1>1, <2>1, <3>1 DEF ClaimCollectibleBlocks
  <2> QED
    BY <1>1, <1>7, <2>1
       DEF CollectorStep, DeleteClaimedFile, FinalizeBlockDeletion, ListFiles,
           SelectOrphanFiles, DeleteOrphanFile, CollectionEnds
<1>8. CASE Crash \/ Tick
  BY <1>1, <1>8 DEF Crash, Tick
<1>9. CASE UNCHANGED vars
  BY <1>1, <1>9 DEF vars
<1> QED
  BY <1>2, <1>3, <1>4, <1>5, <1>6, <1>7, <1>8, <1>9, SessionQuota
     DEF Next, RequestArrives

\* The quota together with the single reservation is an inductive invariant.
LEMMA QuotaInvariant == Spec => []QuotaInv
<1>1. Init => QuotaInv
  <2> SUFFICES ASSUME Init PROVE QuotaInv
    OBVIOUS
  <2>1. Accounting
    BY AccountingInit
  <2>2. OneReservation
    BY DEF Init, OneReservation
  <2>3. ASSUME NEW a \in Accounts PROVE used[a] + Reserved(a) <= Quota
    <3>1. Charged(a) = {}
      BY DEF Init, Charged, ChargedIn
    <3>2. Reserved(a) = 0
      BY <3>1, FS_EmptySet DEF Reserved
    <3> QED BY <3>2, ParameterAssumption DEF Init
  <2> QED BY <2>1, <2>2, <2>3 DEF QuotaInv, QuotaHonoured
<1>2. QuotaInv /\ Accounting' /\ [Next]_vars => QuotaInv'
  BY NextQuota
<1> QED BY <1>1, <1>2, AccountingInvariant, PTL DEF Spec

\* What an account stores and what its reservations promise never exceeds
\* its quota.
THEOREM QuotaAlwaysHonoured == Spec => []QuotaHonoured
<1>1. QuotaInv => QuotaHonoured
  BY DEF QuotaInv
<1> QED BY <1>1, QuotaInvariant, PTL

\* The quota check a commit repeats cannot fail while it has its reservation.
THEOREM ReservationAlwaysSuffices == Spec => []ReservationSuffices
<1>1. QuotaInv => ReservationSuffices
  <2> SUFFICES ASSUME QuotaInv, NEW u \in Uploads, expiresAt[u] # Null,
                      Block(u) \notin accountBlocks[Account(u)]
               PROVE  used[Account(u)] + 1 <= Quota
    BY DEF ReservationSuffices
  <2>1. PICK a \in Accounts : a = Account(u)
    BY OwnerAssumption DEF QuotaInv, Accounting, TypeOK, Account
  <2>2. u \in Charged(a)
    BY <2>1 DEF Charged, ChargedIn
  <2>3. /\ IsFiniteSet(Charged(a)) /\ Reserved(a) = Cardinality(Charged(a))
        /\ Reserved(a) \in Nat
    BY ChargedFinite DEF Reserved, Charged
  <2>4. Reserved(a) # 0
    BY <2>2, <2>3, FS_EmptySet
  <2>5. used[a] \in Nat /\ used[a] + Reserved(a) <= Quota
    BY DEF QuotaInv, Accounting, TypeOK, QuotaHonoured
  <2> QED BY <2>1, <2>3, <2>4, <2>5, ParameterAssumption
<1> QED BY <1>1, QuotaInvariant, PTL

----------------------------------------------------------------------------
(* BlockLifecycle implements QuotaLedger: each step books on the ledger what *)
(* the ledger allows.  That there is room is QuotaHonoured after the step;   *)
(* what is left to show is which column of which account a step moves, and   *)
(* by how much at most.                                                      *)

\* What a booking asks of used_bytes and of the reservations of account a.
PromiseStep(a) ==
    /\ used'[a] = used[a] /\ Reserved(a)' <= Reserved(a) + 1
    /\ used'[a] + Reserved(a)' <= Quota
KeepStep(a) ==
    /\ Reserved(a) > 0
    /\ used'[a] = used[a] + 1 /\ Reserved(a)' = Reserved(a) - 1
GrowStep(a) ==
    /\ used'[a] > used[a] /\ Reserved(a)' <= Reserved(a)
    /\ used'[a] + Reserved(a)' <= Quota
ReleaseStep(a) ==
    /\ used'[a] <= used[a]
    /\ used'[a] + Reserved(a)' <= used[a] + Reserved(a)
Booked(a) ==
    /\ \A c \in Accounts \ {a} : /\ used'[c] = used[c]
                                 /\ Reserved(c)' <= Reserved(c)
    /\ PromiseStep(a) \/ KeepStep(a) \/ GrowStep(a) \/ ReleaseStep(a)

\* A booking is a step of the ledger.
LEMMA BookedIsLedgerStep ==
    ASSUME TypeOK', NEW a \in Accounts, Booked(a)
    PROVE  Ledger!LedgerNext
<1> DEFINE p == [c \in Accounts |-> Reserved(c)]
<1>1. /\ used' \in [Accounts -> Nat]
      /\ p' \in [Accounts -> Nat]
  BY ReservedNat DEF TypeOK
<1>2. \A c \in Accounts : p[c] = Reserved(c) /\ p'[c] = Reserved(c)'
  OBVIOUS
<1>3. Ledger!OthersLapse(a)
  BY <1>2 DEF Ledger!OthersLapse, Booked
<1>4. \/ Ledger!Promise(a) \/ Ledger!Keep(a) \/ Ledger!Grow(a)
      \/ Ledger!Release(a)
  BY <1>2 DEF Ledger!Promise, Ledger!Keep, Ledger!Grow, Ledger!Release,
              Ledger!HasRoom, Booked, PromiseStep, KeepStep, GrowStep,
              ReleaseStep
<1> QED BY <1>1, <1>3, <1>4 DEF Ledger!LedgerNext

\* Reservations lapse, or their blocks have become the account's.
LEMMA ReservedShrinks ==
    ASSUME NEW a \in Accounts, UNCHANGED req,
           accountBlocks[a] \subseteq accountBlocks'[a],
           \A u \in Uploads : \/ expiresAt'[u] \in {expiresAt[u], Null}
                              \/ Account(u) # a
                              \/ Block(u) \in accountBlocks'[a]
    PROVE  Reserved(a)' <= Reserved(a)
<1>1. Charged(a)' \in SUBSET Charged(a)
  BY DEF Charged, ChargedIn, Account, Block
<1>2. Cardinality(Charged(a)') <= Cardinality(Charged(a))
  BY <1>1, ChargedFinite, FS_Subset DEF Charged
<1> QED BY <1>2 DEF Reserved

\* A step that charges nobody and makes no reservation.
LEMMA QuietLedger ==
    ASSUME TypeOK, TypeOK', UNCHANGED <<accountBlocks, req>>,
           \A a \in Accounts : used'[a] = used[a],
           \A u \in Uploads : expiresAt'[u] \in {expiresAt[u], Null}
    PROVE  [Ledger!LedgerNext]_(Ledger!ledgerVars)
<1>1. CASE Accounts = {}
  BY <1>1 DEF TypeOK, Ledger!ledgerVars
<1>2. ASSUME NEW a \in Accounts PROVE Ledger!LedgerNext
  <2>1. \A c \in Accounts : Reserved(c)' <= Reserved(c)
    BY ReservedShrinks
  <2>2. used[a] \in Nat /\ Reserved(a) \in Nat /\ Reserved(a)' \in Nat
    BY ReservedNat DEF TypeOK
  <2>3. Booked(a)
    BY <2>1, <2>2 DEF Booked, ReleaseStep
  <2> QED BY <2>3, BookedIsLedgerStep
<1> QED BY <1>1, <1>2

\* A new reservation promises a unit, or none if the account owns the block.
LEMMA ReserveLedger ==
    ASSUME QuotaInv, QuotaInv', NEW u \in Uploads, ReserveBlockUpload(u)
    PROVE  Ledger!LedgerNext
<1> USE DEF QuotaInv, Accounting
<1>1. PICK a \in Accounts : a = Account(u)
  BY OwnerAssumption DEF TypeOK, Account
<1>2. /\ UNCHANGED <<accountBlocks, used, req>>
      /\ \A v \in Uploads \ {u} : expiresAt'[v] \in {expiresAt[v], Null}
  BY DEF ReserveBlockUpload, Unexpired, quotaVars, requestVars, Answered, TypeOK
<1>3. \A c \in Accounts \ {a} : Reserved(c)' <= Reserved(c)
  BY <1>1, <1>2, ReservedShrinks
<1>4. Reserved(a)' <= Reserved(a) + 1
  <2>1. /\ Charged(a)' \in SUBSET (Charged(a) \cup {u})
        /\ IsFiniteSet(Charged(a))
    <3>1. Charged(a)' \in SUBSET (Charged(a) \cup {u})
      BY <1>2 DEF Charged, ChargedIn, Account, Block
    <3> QED BY <3>1, ChargedFinite DEF Charged
  <2>2. /\ IsFiniteSet(Charged(a) \cup {u})
        /\ Cardinality(Charged(a) \cup {u}) \in
             {Reserved(a), Reserved(a) + 1}
    BY <2>1, FS_AddElement DEF Reserved
  <2>3. Cardinality(Charged(a)') <= Cardinality(Charged(a) \cup {u})
    BY <2>1, <2>2, FS_Subset
  <2>4. Reserved(a)' = Cardinality(Charged(a)')
    BY DEF Reserved
  <2> QED BY <2>2, <2>3, <2>4, ReservedNat
<1>5. used'[a] + Reserved(a)' <= Quota
  BY DEF QuotaHonoured
<1>6. Booked(a)
  BY <1>2, <1>3, <1>4, <1>5 DEF Booked, PromiseStep
<1> QED BY <1>6, BookedIsLedgerStep

\* A commit keeps a promise, or takes the place of an earlier upload.
LEMMA CommitLedger ==
    ASSUME QuotaInv, QuotaInv', NEW u \in Uploads, CommitBlockUpload(u)
    PROVE  Ledger!LedgerNext
<1> USE DEF QuotaInv, Accounting
<1>1. PICK a \in Accounts, b \in Blocks : a = Account(u) /\ b = Block(u)
  BY OwnerAssumption DEF TypeOK, Account, Block
<1>2. /\ UNCHANGED req /\ expiresAt[u] # Null
      /\ expiresAt' = [expiresAt EXCEPT ![u] = Null]
      /\ accountBlocks' = [accountBlocks EXCEPT ![a] = @ \cup {b}]
      /\ used' = IF b \in accountBlocks[a] THEN used
                 ELSE [used EXCEPT ![a] = @ + 1]
  BY <1>1 DEF CommitBlockUpload, MayCommit, UsedAfterCommit, requestVars, Answered
<1>3. /\ \A v \in Uploads : expiresAt'[v] = IF v = u THEN Null
                                                    ELSE expiresAt[v]
      /\ \A c \in Accounts : accountBlocks'[c] =
            IF c = a THEN accountBlocks[c] \cup {b} ELSE accountBlocks[c]
  BY <1>2 DEF TypeOK
<1>4. \A c \in Accounts : Reserved(c)' <= Reserved(c)
  BY <1>2, <1>3, ReservedShrinks
<1>5. \A c \in Accounts \ {a} : used'[c] = used[c]
  BY <1>2 DEF TypeOK
<1>6. /\ used[a] \in Nat /\ Reserved(a) \in Nat /\ Reserved(a)' \in Nat
  BY ReservedNat DEF TypeOK
<1>7. CASE b \in accountBlocks[a]
  <2>1. used'[a] = used[a]
    BY <1>2, <1>7
  <2>2. Booked(a)
    BY <1>4, <1>5, <1>6, <2>1 DEF Booked, ReleaseStep
  <2> QED BY <2>2, BookedIsLedgerStep
<1>8. CASE b \notin accountBlocks[a]
  <2>1. u \in Charged(a) /\ Charged(a)' = Charged(a) \ {u}
    BY <1>1, <1>2, <1>3, <1>8
       DEF OneReservation, Charged, ChargedIn, Account, Block
  <2>2. IsFiniteSet(Charged(a)) /\ Reserved(a) = Cardinality(Charged(a))
    BY ChargedFinite DEF Reserved, Charged
  <2>3. Cardinality(Charged(a) \ {u}) = Reserved(a) - 1
    BY <2>1, <2>2, FS_RemoveElement
  <2>4. Reserved(a)' = Reserved(a) - 1
    BY <2>1, <2>3 DEF Reserved
  <2>5. used'[a] = used[a] + 1
    BY <1>2, <1>8 DEF TypeOK
  <2>6. Booked(a)
    BY <1>4, <1>5, <1>6, <2>4, <2>5 DEF Booked, KeepStep
  <2> QED BY <2>6, BookedIsLedgerStep
<1> QED BY <1>7, <1>8

\* A batch gives units up; the promises it makes necessary are as many.
LEMMA ReleaseLedger ==
    ASSUME QuotaInv, QuotaInv', NEW j \in Cleanups,
           NEW batch \in SUBSET pending[j], ReleaseBatch(j, batch)
    PROVE  [Ledger!LedgerNext]_(Ledger!ledgerVars)
<1> USE DEF QuotaInv, Accounting
<1>0. PICK a : a = Owner[job[j].device]
  OBVIOUS
<1>1. \A c \in Accounts :
         IF c = a
         THEN /\ used'[c] <= used[c]
              /\ used'[c] + Reserved(c)' <= used[c] + Reserved(c)
         ELSE used'[c] = used[c] /\ Reserved(c)' = Reserved(c)
  BY <1>0, ReleaseBooks
<1>2. \A c \in Accounts : Reserved(c) \in Nat /\ Reserved(c)' \in Nat
                          /\ used[c] \in Nat
  BY ReservedNat DEF TypeOK
<1>3. CASE a \in Accounts
  <2>1. ReleaseStep(a)
    BY <1>1, <1>3 DEF ReleaseStep
  <2>2. ASSUME NEW c \in Accounts \ {a}
        PROVE  used'[c] = used[c] /\ Reserved(c)' <= Reserved(c)
    BY <1>1, <1>2
  <2> QED BY <1>3, <2>1, <2>2, BookedIsLedgerStep DEF Booked
<1>4. CASE Accounts = {}
  BY <1>4 DEF TypeOK, Ledger!ledgerVars
<1>5. ASSUME NEW c \in Accounts, a \notin Accounts PROVE Ledger!LedgerNext
  <2>1. ASSUME NEW e \in Accounts
        PROVE  used'[e] = used[e] /\ Reserved(e)' <= Reserved(e)
    BY <1>1, <1>2, <1>5
  <2>2. ReleaseStep(c)
    BY <1>1, <1>2, <1>5 DEF ReleaseStep
  <2> QED BY <2>1, <2>2, BookedIsLedgerStep DEF Booked
<1> QED BY <1>3, <1>4, <1>5

\* Session bytes shrink, or grow into the room there is.
LEMMA SessionLedger ==
    ASSUME QuotaInv, QuotaInv', NEW a \in Accounts, NEW n \in Nat,
           used' = [used EXCEPT ![a] = (@ + n) - sessionBytes[a]],
           UNCHANGED <<accountBlocks, req>>,
           \A u \in Uploads : expiresAt'[u] \in {expiresAt[u], Null}
    PROVE  Ledger!LedgerNext
<1> USE DEF QuotaInv, Accounting
<1>1. \A c \in Accounts : Reserved(c)' <= Reserved(c)
  BY ReservedShrinks
<1>2. \A c \in Accounts \ {a} : used'[c] = used[c]
  BY DEF TypeOK
<1>3. /\ used[a] \in Nat /\ used'[a] \in Nat
      /\ Reserved(a) \in Nat /\ Reserved(a)' \in Nat
  BY ReservedNat DEF TypeOK
<1>4. used'[a] + Reserved(a)' <= Quota
  BY DEF QuotaHonoured
<1>5. GrowStep(a) \/ ReleaseStep(a)
  BY <1>1, <1>3, <1>4 DEF GrowStep, ReleaseStep
<1> QED BY <1>1, <1>2, <1>5, BookedIsLedgerStep DEF Booked

\* Every step is a booking or leaves the ledger alone.
LEMMA NextLedger ==
    ASSUME QuotaInv, QuotaInv', [Next]_vars
    PROVE  [Ledger!LedgerNext]_(Ledger!ledgerVars)
<1> USE DEF dbVars, deviceVars, objectVars, quotaVars, uploadVars,
            requestVars, Answered, jobVars, gcVars
<1>0. TypeOK /\ TypeOK'
  BY DEF QuotaInv, Accounting
<1>1. ASSUME used' = used, UNCHANGED <<accountBlocks, req>>,
             \A u \in Uploads : expiresAt'[u] \in {expiresAt[u], Null}
      PROVE  [Ledger!LedgerNext]_(Ledger!ledgerVars)
  BY <1>0, <1>1, QuietLedger
<1>2. ASSUME NEW u \in Uploads, BeginPut(u) \/ UploadStep(u)
      PROVE  [Ledger!LedgerNext]_(Ledger!ledgerVars)
  <2>1. CASE ReserveBlockUpload(u) \/ CommitBlockUpload(u)
    BY <2>1, ReserveLedger, CommitLedger
  <2>2. CASE CancelBlockUpload(u)
    <3>1. \A v \in Uploads : expiresAt'[v] \in {expiresAt[v], Null}
      BY <1>0, <2>2 DEF CancelBlockUpload, TypeOK
    <3> QED BY <1>1, <2>2, <3>1 DEF CancelBlockUpload
  <2>3. CASE \/ BeginPut(u) \/ RejectUpload(u) \/ PutNew(u) \/ PutNewFails(u)
             \/ CommitFails(u)
    BY <1>1, <2>3
       DEF BeginPut, RejectUpload, PutNew, PutNewFails, CommitFails
  <2> QED BY <1>2, <2>1, <2>2, <2>3 DEF UploadStep
<1>3. ASSUME NEW d \in Devices, NEW e \in Devices,
             RevokeDevice(d, e) \/ MergeGroups(d, e)
      PROVE  [Ledger!LedgerNext]_(Ledger!ledgerVars)
  BY <1>1, <1>3 DEF RevokeDevice, MergeGroups
<1>4. ASSUME NEW j \in Cleanups, NEW d \in Devices, NEW n \in 0..MaxSession,
             DiscardOtherGroups(j, d, n)
      PROVE  Ledger!LedgerNext
  <2>1. n \in Nat /\ Owner[d] \in Accounts
    BY BoundAssumption, OwnerAssumption
  <2>2. /\ used' = [used EXCEPT ![Owner[d]] =
                     (@ + n) - sessionBytes[Owner[d]]]
        /\ UNCHANGED <<accountBlocks, req>>
    BY <1>4 DEF DiscardOtherGroups
  <2>3. \A u \in Uploads : expiresAt'[u] \in {expiresAt[u], Null}
    BY <1>4 DEF DiscardOtherGroups
  <2> QED BY <2>1, <2>2, <2>3, SessionLedger
<1>5. ASSUME NEW d \in Devices, NEW n \in 0..MaxSession,
             PutSessionFile(d, n) \/ DeleteSessionFile(d, n)
      PROVE  Ledger!LedgerNext
  <2>1. n \in Nat /\ Owner[d] \in Accounts
    BY BoundAssumption, OwnerAssumption
  <2>2. /\ used' = [used EXCEPT ![Owner[d]] =
                     (@ + n) - sessionBytes[Owner[d]]]
        /\ UNCHANGED <<accountBlocks, req>>
    BY <1>5 DEF PutSessionFile, DeleteSessionFile
  <2>3. \A u \in Uploads : expiresAt'[u] \in {expiresAt[u], Null}
    BY <1>5 DEF PutSessionFile, DeleteSessionFile, Unexpired
  <2> QED BY <2>1, <2>2, <2>3, SessionLedger
<1>6. ASSUME NEW j \in Cleanups, NEW d \in Devices,
             NEW keep \in SUBSET Blocks, BeginPrune(j, d, keep)
      PROVE  [Ledger!LedgerNext]_(Ledger!ledgerVars)
  BY <1>1, <1>6 DEF BeginPrune
<1>7. ASSUME NEW j \in Cleanups, CleanupStep(j)
      PROVE  [Ledger!LedgerNext]_(Ledger!ledgerVars)
  <2>1. CASE CleanupStops(j)
    BY <1>1, <2>1 DEF CleanupStops
  <2> QED BY <1>7, <2>1, ReleaseLedger DEF CleanupStep
<1>8. CASE CollectorStep
  <2>1. ASSUME NEW batch \in SUBSET Blocks, ClaimCollectibleBlocks(batch)
        PROVE  [Ledger!LedgerNext]_(Ledger!ledgerVars)
    <3>1. \A u \in Uploads : expiresAt'[u] \in {expiresAt[u], Null}
      BY <2>1 DEF ClaimCollectibleBlocks, Unexpired
    <3> QED BY <1>1, <2>1, <3>1 DEF ClaimCollectibleBlocks
  <2> QED
    BY <1>1, <1>8, <2>1
       DEF CollectorStep, DeleteClaimedFile, FinalizeBlockDeletion, ListFiles,
           SelectOrphanFiles, DeleteOrphanFile, CollectionEnds
<1>9. CASE Crash \/ Tick \/ UNCHANGED vars
  BY <1>1, <1>9 DEF Crash, Tick, vars
<1> QED BY <1>2, <1>3, <1>4, <1>5, <1>6, <1>7, <1>8, <1>9
        DEF Next, RequestArrives

\* What uploads, snapshots, releases and the expiry of reservations do to an
\* account's bytes is what the quota ledger allows; in particular a commit
\* that has its reservation is never asked for room again
\* (ReserveBlockUpload, CommitBlockUpload, PutSessionFileCAS,
\* releaseUnreferencedAccountBlock).
THEOREM ImplementsQuotaLedger == Spec => ImplementsLedger
<1>1. Init => Ledger!LedgerInit
  <2> SUFFICES ASSUME Init PROVE Ledger!LedgerInit
    OBVIOUS
  <2>1. ASSUME NEW a \in Accounts PROVE Reserved(a) = 0
    <3>1. Charged(a) = {}
      BY DEF Init, Charged, ChargedIn
    <3> QED BY <3>1, FS_EmptySet DEF Reserved
  <2> QED BY <2>1 DEF Init, Ledger!LedgerInit
<1>2. QuotaInv /\ QuotaInv' /\ [Next]_vars
        => [Ledger!LedgerNext]_(Ledger!ledgerVars)
  BY NextLedger
<1> QED
  BY <1>1, <1>2, QuotaInvariant, PTL
     DEF Spec, ImplementsLedger, Ledger!LedgerSpec

----------------------------------------------------------------------------
(* No block is stranded.  The devices of a group belong to one account, so  *)
(* the references a prune drops are all of the account it releases to; a    *)
(* discard remembers what it has to release, a prune does not need to.      *)

GroupsHaveOneOwner ==
    \A d, e \in Devices :
        group[d] # Null /\ group[d] = group[e] => Owner[d] = Owner[e]

JobsHaveDevice ==
    \A j \in Cleanups : jobPc[j] = "running" => job[j].device \in Devices

\* A running discard has still to look at block b of account a.
ToBeReleased(a, b) ==
    \E j \in Cleanups : /\ jobPc[j] = "running" /\ job[j].kind = "discard"
                        /\ Owner[job[j].device] = a
                        /\ b \in pending[j]

\* Stronger than OwnedIsReferenced, which a stopped prune would not keep: a
\* prune only has candidates that are referenced until their batch comes.
NothingStranded ==
    faults = 0 =>
        \A a \in Accounts : \A b \in accountBlocks[a] :
            ReferencedIn(a, b, deviceBlocks) \/ ToBeReleased(a, b)

StrandInv == TypeOK /\ GroupsHaveOneOwner /\ JobsHaveDevice /\ NothingStranded

LEMMA StrandInit == Init => StrandInv
<1> SUFFICES ASSUME Init PROVE StrandInv
  OBVIOUS
<1>1. TypeOK
  BY AccountingInit DEF Accounting
<1>2. GroupsHaveOneOwner /\ JobsHaveDevice /\ NothingStranded
  BY DEF Init, GroupsHaveOneOwner, JobsHaveDevice, NothingStranded
<1> QED BY <1>1, <1>2 DEF StrandInv

\* Faults are only ever counted up.
LEMMA FaultsGrow ==
    ASSUME TypeOK, Fault \/ NoFault
    PROVE  faults' = 0 => faults = 0
BY DEF Fault, NoFault, TypeOK

\* Most steps touch neither groups nor references nor running cleanups.
LEMMA QuietStrand ==
    ASSUME StrandInv, TypeOK', faults' = 0 => faults = 0,
           UNCHANGED <<group, accountBlocks, deviceBlocks, jobPc, job, pending>>
    PROVE  StrandInv'
BY DEF StrandInv, GroupsHaveOneOwner, JobsHaveDevice, NothingStranded,
       ReferencedIn, ToBeReleased

\* The losing group's devices come to the winner's, of the same account.
LEMMA MergeStrand ==
    ASSUME StrandInv, TypeOK', NEW d \in Devices, NEW e \in Devices,
           MergeGroups(d, e)
    PROVE  StrandInv'
<1>1. PICK winner \in {group[d], group[e]} :
        group' = [x \in Devices |-> IF group[x] \in {group[d], group[e]}
                                    THEN winner ELSE group[x]]
  BY DEF MergeGroups
<1>2. Owner[d] = Owner[e] /\ group[d] # Null /\ group[e] # Null
  BY DEF MergeGroups
<1>3. \A x \in Devices : group[x] \in {group[d], group[e]}
                           => Owner[x] = Owner[d]
  BY <1>2 DEF StrandInv, GroupsHaveOneOwner
<1>4. GroupsHaveOneOwner'
  BY <1>1, <1>3 DEF StrandInv, GroupsHaveOneOwner
<1>5. JobsHaveDevice' /\ NothingStranded'
  BY DEF MergeGroups, jobVars, NoFault, StrandInv, JobsHaveDevice,
         NothingStranded, ReferencedIn, ToBeReleased
<1> QED BY <1>4, <1>5 DEF StrandInv

\* A commit references the block it adds to the account.
LEMMA CommitStrand ==
    ASSUME StrandInv, TypeOK', NEW u \in Uploads, CommitBlockUpload(u)
    PROVE  StrandInv'
<1>1. PICK a \in Accounts, b \in Blocks, d \in Devices :
        a = Account(u) /\ b = Block(u) /\ d = req[u].device /\ a = Owner[d]
  BY OwnerAssumption DEF StrandInv, TypeOK, Account, Block
<1>2. /\ accountBlocks' = [accountBlocks EXCEPT ![a] = @ \cup {b}]
      /\ deviceBlocks' = [deviceBlocks EXCEPT ![d] = @ \cup {b}]
      /\ UNCHANGED <<group, jobPc, job, pending, faults>>
  BY <1>1 DEF CommitBlockUpload, NoFault, deviceVars, jobVars
<1>3. \A c \in Accounts, x \in Blocks :
        ReferencedIn(c, x, deviceBlocks) => ReferencedIn(c, x, deviceBlocks')
  BY <1>2 DEF ReferencedIn, StrandInv, TypeOK
<1>4. ReferencedIn(a, b, deviceBlocks')
  BY <1>1, <1>2 DEF ReferencedIn, StrandInv, TypeOK
<1>5. NothingStranded'
  <2> SUFFICES ASSUME faults = 0, NEW c \in Accounts,
                      NEW x \in accountBlocks'[c]
               PROVE  ReferencedIn(c, x, deviceBlocks') \/ ToBeReleased(c, x)
    BY <1>2 DEF NothingStranded, ToBeReleased, ReferencedIn
  <2>1. CASE x \in accountBlocks[c]
    BY <1>3, <2>1 DEF StrandInv, NothingStranded, TypeOK
  <2>2. CASE x \notin accountBlocks[c]
    BY <1>1, <1>2, <1>4, <2>2 DEF StrandInv, TypeOK
  <2> QED BY <2>1, <2>2
<1>6. GroupsHaveOneOwner' /\ JobsHaveDevice'
  BY <1>2 DEF StrandInv, GroupsHaveOneOwner, JobsHaveDevice
<1> QED BY <1>5, <1>6 DEF StrandInv

\* A discard remembers every block it takes a reference from.
LEMMA DiscardStrand ==
    ASSUME StrandInv, TypeOK', NEW j \in Cleanups, NEW d \in Devices,
           NEW n \in 0..MaxSession, DiscardOtherGroups(j, d, n)
    PROVE  StrandInv'
<1>0. PICK D : D = OtherGroups(d)
  OBVIOUS
<1>7. D \in SUBSET Devices /\ \A e \in D : Owner[e] = Owner[d]
  BY <1>0 DEF OtherGroups
<1>1. PICK C : C = UNION {deviceBlocks[e] : e \in D}
  OBVIOUS
<1>2. /\ jobPc[j] = "idle"
      /\ deviceBlocks' = [e \in Devices |-> IF e \in D THEN {}
                                            ELSE deviceBlocks[e]]
      /\ group' = [e \in Devices |-> IF e \in D THEN Null ELSE group[e]]
      /\ jobPc' = [jobPc EXCEPT ![j] = IF C = {} THEN "done" ELSE "running"]
      /\ job' = [job EXCEPT ![j] = [kind |-> "discard", device |-> d,
                                    members |-> D, now |-> now]]
      /\ pending' = [pending EXCEPT ![j] = C]
      /\ UNCHANGED <<accountBlocks, faults>>
  BY <1>0, <1>1 DEF DiscardOtherGroups, DiscardCandidates, NoFault
<1>3. GroupsHaveOneOwner'
  BY <1>2 DEF StrandInv, GroupsHaveOneOwner
<1>4. \A k \in Cleanups : /\ k # j => /\ jobPc'[k] = jobPc[k]
                                      /\ job'[k] = job[k]
                                      /\ pending'[k] = pending[k]
                          /\ k = j => /\ jobPc'[k] = IF C = {} THEN "done"
                                                     ELSE "running"
                                      /\ job'[k].device = d
                                      /\ job'[k].kind = "discard"
                                      /\ pending'[k] = C
  BY <1>2 DEF StrandInv, TypeOK
<1>5. JobsHaveDevice'
  BY <1>4 DEF StrandInv, JobsHaveDevice
<1>6. NothingStranded'
  <2> SUFFICES ASSUME faults = 0, NEW a \in Accounts,
                      NEW b \in accountBlocks[a]
               PROVE  ReferencedIn(a, b, deviceBlocks') \/ ToBeReleased(a, b)'
    BY <1>2 DEF NothingStranded, ReferencedIn
  <2>1. CASE ToBeReleased(a, b)
    BY <1>2, <1>4, <2>1 DEF ToBeReleased
  <2>2. CASE ReferencedIn(a, b, deviceBlocks)
    <3>1. PICK e \in Devices : Owner[e] = a /\ b \in deviceBlocks[e]
      BY <2>2 DEF ReferencedIn
    <3>2. CASE e \notin D
      BY <1>2, <3>1, <3>2 DEF ReferencedIn
    <3>3. CASE e \in D
      <4>1. b \in C /\ Owner[d] = a
        BY <1>7, <1>1, <3>1, <3>3
      <4> QED BY <1>4, <4>1 DEF ToBeReleased
    <3> QED BY <3>2, <3>3
  <2> QED BY <2>1, <2>2 DEF StrandInv, NothingStranded
<1> QED BY <1>3, <1>5, <1>6 DEF StrandInv

LEMMA PruneStrand ==
    ASSUME StrandInv, TypeOK', NEW j \in Cleanups, NEW d \in Devices,
           NEW keep \in SUBSET Blocks, BeginPrune(j, d, keep)
    PROVE  StrandInv'
<1>1. /\ jobPc[j] = "idle" /\ job'[j].device = d
      /\ UNCHANGED <<group, accountBlocks, deviceBlocks, faults>>
      /\ \A k \in Cleanups \ {j} : /\ jobPc'[k] = jobPc[k]
                                   /\ job'[k] = job[k]
                                   /\ pending'[k] = pending[k]
  BY DEF BeginPrune, NoFault, dbVars, deviceVars, StrandInv, TypeOK
<1>2. GroupsHaveOneOwner' /\ JobsHaveDevice'
  BY <1>1 DEF StrandInv, GroupsHaveOneOwner, JobsHaveDevice
<1>3. \A a \in Accounts, b \in Blocks : ToBeReleased(a, b)
                                          => ToBeReleased(a, b)'
  BY <1>1 DEF ToBeReleased
<1>4. NothingStranded'
  BY <1>1, <1>3 DEF StrandInv, NothingStranded, ReferencedIn, TypeOK
<1> QED BY <1>2, <1>4 DEF StrandInv

\* A batch drops references of its own account only, and what is then
\* without a reference leaves the account in the same transaction.
LEMMA ReleaseStrand ==
    ASSUME StrandInv, TypeOK', NEW j \in Cleanups,
           NEW batch \in SUBSET pending[j], ReleaseBatch(j, batch)
    PROVE  StrandInv'
<1>1. PICK owner, refs, gone :
        /\ owner = Owner[job[j].device] /\ refs = deviceBlocks'
        /\ gone = Released(owner, batch, refs)
  OBVIOUS
<1>2. /\ jobPc[j] = "running"
      /\ job[j].kind = "prune" => GroupUnchanged(j)
      /\ refs = [e \in Devices |->
                   IF job[j].kind = "prune" /\ e \in job[j].members
                   THEN deviceBlocks[e] \ batch ELSE deviceBlocks[e]]
      /\ accountBlocks' = [accountBlocks EXCEPT ![owner] = @ \ gone]
      /\ pending' = [pending EXCEPT ![j] = @ \ batch]
      /\ jobPc' = [jobPc EXCEPT
                     ![j] = IF pending[j] \ batch = {} THEN "done" ELSE @]
      /\ UNCHANGED <<group, job, faults>>
  BY <1>1 DEF ReleaseBatch, NoFault, deviceVars
<1>3. GroupsHaveOneOwner' /\ JobsHaveDevice'
  BY <1>2 DEF StrandInv, GroupsHaveOneOwner, JobsHaveDevice, TypeOK
<1>4. ASSUME NEW e \in Devices, job[j].kind = "prune", e \in job[j].members
      PROVE  Owner[e] = owner
  <2>1. job[j].device \in Devices
    BY <1>2 DEF StrandInv, JobsHaveDevice
  <2>2. group[e] = group[job[j].device] /\ group[job[j].device] # Null
    BY <1>2, <1>4 DEF GroupUnchanged, InGroup
  <2> QED BY <1>1, <2>1, <2>2 DEF StrandInv, GroupsHaveOneOwner
<1>5. NothingStranded'
  <2> SUFFICES ASSUME faults = 0, NEW a \in Accounts,
                      NEW b \in accountBlocks'[a]
               PROVE  ReferencedIn(a, b, refs) \/ ToBeReleased(a, b)'
    BY <1>1, <1>2 DEF NothingStranded, ReferencedIn
  <2>1. b \in accountBlocks[a] /\ ~(a = owner /\ b \in gone)
    BY <1>2 DEF StrandInv, TypeOK
  <2>2. a = owner /\ b \in batch => ReferencedIn(a, b, refs)
    BY <1>1, <2>1 DEF Released
  <2>3. CASE ReferencedIn(a, b, deviceBlocks)
    <3>1. PICK e \in Devices : Owner[e] = a /\ b \in deviceBlocks[e]
      BY <2>3 DEF ReferencedIn
    <3>2. CASE b \in refs[e]
      BY <3>1, <3>2 DEF ReferencedIn
    <3>3. CASE b \notin refs[e]
      BY <1>2, <1>4, <2>2, <3>1, <3>3
    <3> QED BY <3>2, <3>3
  <2>4. CASE ToBeReleased(a, b)
    <3>1. PICK k \in Cleanups :
            /\ jobPc[k] = "running" /\ job[k].kind = "discard"
            /\ Owner[job[k].device] = a /\ b \in pending[k]
      BY <2>4 DEF ToBeReleased
    <3>2. CASE k = j /\ b \in batch
      BY <1>1, <2>2, <3>1, <3>2
    <3>3. CASE k # j \/ b \notin batch
      <4>1. jobPc'[k] = "running" /\ b \in pending'[k] /\ job'[k] = job[k]
        BY <1>2, <3>1, <3>3 DEF StrandInv, TypeOK
      <4> QED BY <3>1, <4>1 DEF ToBeReleased
    <3> QED BY <3>2, <3>3
  <2> QED BY <2>1, <2>3, <2>4 DEF StrandInv, NothingStranded
<1> QED BY <1>3, <1>5 DEF StrandInv

\* A prune that ends early strands nothing; a discard does so only by a
\* fault.
LEMMA StopStrand ==
    ASSUME StrandInv, TypeOK',
           Crash \/ \E j \in Cleanups : CleanupStops(j)
    PROVE  StrandInv'
<1>1. /\ UNCHANGED <<group, accountBlocks, deviceBlocks, job>>
      /\ \A k \in Cleanups : jobPc'[k] = "running" => jobPc[k] = "running"
  BY SMTT(30) DEF Crash, CleanupStops, dbVars, deviceVars, StrandInv, TypeOK
<1>2. GroupsHaveOneOwner' /\ JobsHaveDevice'
  BY <1>1 DEF StrandInv, GroupsHaveOneOwner, JobsHaveDevice
<1>3. NothingStranded'
  <2>1. CASE faults' # 0
    BY <2>1 DEF NothingStranded
  <2>2. CASE faults' = 0
    <3>0. faults \in Nat /\ ~Fault
      BY <2>2 DEF Fault, StrandInv, TypeOK
    <3>1. PICK j \in Cleanups :
            /\ CleanupStops(j) /\ job[j].kind = "prune" /\ faults = 0
      BY <2>2, <3>0 DEF Crash, CleanupStops, NoFault
    <3>2. \A a \in Accounts, b \in Blocks : ToBeReleased(a, b)
                                              => ToBeReleased(a, b)'
      BY SMTT(30), <1>1, <3>1 DEF ToBeReleased, CleanupStops, StrandInv, TypeOK
    <3> QED
      BY <1>1, <3>1, <3>2
         DEF StrandInv, NothingStranded, ReferencedIn, TypeOK
  <2> QED BY <2>1, <2>2
<1> QED BY <1>2, <1>3 DEF StrandInv

LEMMA NextStrand ==
    ASSUME StrandInv, TypeOK', [Next]_vars
    PROVE  StrandInv'
<1> USE DEF dbVars, deviceVars, jobVars
<1>0. TypeOK /\ (Fault \/ NoFault => (faults' = 0 => faults = 0))
  BY FaultsGrow DEF StrandInv
<1>1. ASSUME NEW u \in Uploads, BeginPut(u) \/ UploadStep(u)
      PROVE  StrandInv'
  <2>1. CASE CommitBlockUpload(u)
    BY <2>1, CommitStrand
  <2>2. CASE ~CommitBlockUpload(u)
    BY <1>0, <1>1, <2>2, QuietStrand
       DEF UploadStep, BeginPut, ReserveBlockUpload, RejectUpload, PutNew,
           PutNewFails, CommitFails, CancelBlockUpload
  <2> QED BY <2>1, <2>2
<1>2. ASSUME NEW d \in Devices, NEW e \in Devices,
             RevokeDevice(d, e) \/ MergeGroups(d, e)
      PROVE  StrandInv'
  BY <1>0, <1>2, MergeStrand, QuietStrand DEF RevokeDevice
<1>3. ASSUME NEW d \in Devices, NEW n \in 0..MaxSession,
             PutSessionFile(d, n) \/ DeleteSessionFile(d, n)
      PROVE  StrandInv'
  BY <1>0, <1>3, QuietStrand DEF PutSessionFile, DeleteSessionFile
<1>4. ASSUME NEW j \in Cleanups, CleanupStep(j)
      PROVE  StrandInv'
  BY <1>4, StopStrand, ReleaseStrand DEF CleanupStep
<1>5. CASE CollectorStep \/ Tick
  BY <1>0, <1>5, QuietStrand
     DEF CollectorStep, ClaimCollectibleBlocks, DeleteClaimedFile,
         FinalizeBlockDeletion, ListFiles, SelectOrphanFiles,
         DeleteOrphanFile, CollectionEnds, Tick
<1>6. CASE UNCHANGED vars
  BY <1>6, QuietStrand DEF vars
<1> QED
  BY <1>1, <1>2, <1>3, <1>4, <1>5, <1>6, DiscardStrand, PruneStrand,
     StopStrand
     DEF Next, RequestArrives

LEMMA StrandInvariant == Spec => []StrandInv
<1>1. StrandInv /\ TypeOK' /\ [Next]_vars => StrandInv'
  BY NextStrand
<1> QED BY <1>1, StrandInit, TypeCorrect, PTL DEF Spec

\* As long as nothing fails, what an account pays for is referenced by one
\* of its devices or waits for a batch of a running discard, however uploads,
\* prunes and discards of its devices interleave.
THEOREM OwnedAlwaysReferenced == Spec => []OwnedIsReferenced
<1>1. StrandInv => OwnedIsReferenced
  BY DEF StrandInv, NothingStranded, OwnedIsReferenced, ToBeReleased
<1> QED BY <1>1, StrandInvariant, PTL

----------------------------------------------------------------------------
(* What a client was told is there stays there.                             *)

Seen(d, b) ==
    /\ Active(d) /\ group[d] # Null
    /\ IsBlockVisible(group[d], b) /\ mtime[b] # Null

\* A block is given to a device exactly when its group references it and the
\* file is there.
LEMMA GetSeen ==
    ASSUME NEW d \in Devices, NEW b \in Blocks
    PROVE  Get(d, b) <=> Seen(d, b)
BY DEF Get, Seen, Missing, Exists

\* Why the block may become unavailable to the device in a step.
MayLose(d, b) ==
    \/ status'[d] = "revoked"
    \/ \E j \in Cleanups : /\ job[j].kind = "prune"
                           /\ d \in job[j].members
                           /\ b \in pending[j] \ pending'[j]
    \/ gcPc = "sweeping" /\ b \in victims

\* The file of a referenced block is lost to the sweep only.
LEMMA SeenFile ==
    ASSUME Structure, [Next]_vars, NEW d \in Devices, NEW b \in Blocks,
           Seen(d, b), ~(gcPc = "sweeping" /\ b \in victims)
    PROVE  mtime'[b] # Null
<1>1. HasAccount(b)
  BY OwnerAssumption
     DEF Seen, IsBlockVisible, InGroup, HasAccount, Structure, ReferencesNest
<1>2. ~DeleteClaimedFile(b)
  BY <1>1 DEF Structure, ClaimIsExclusive, DeleteClaimedFile
<1>3. ~DeleteOrphanFile(b)
  BY DEF DeleteOrphanFile
<1> QED BY <1>2, <1>3, FilesKept DEF Seen, Structure

\* What keeps the block visible to the device.
StillSeen(d, b) ==
    /\ Active(d)' /\ group'[d] # Null
    /\ \E e \in Devices : group'[e] = group'[d] /\ b \in deviceBlocks'[e]

LEMMA SeenQuiet ==
    ASSUME NEW d \in Devices, NEW b \in Blocks, Seen(d, b),
           group' = group, status'[d] = status[d],
           \A e \in Devices : deviceBlocks[e] \subseteq deviceBlocks'[e]
    PROVE  StillSeen(d, b)
BY DEF Seen, StillSeen, Active, IsBlockVisible, InGroup

\* The devices of a group move together.
LEMMA SeenMerge ==
    ASSUME TypeOK, NEW d \in Devices, NEW b \in Blocks, Seen(d, b),
           NEW x \in Devices, NEW y \in Devices, MergeGroups(x, y)
    PROVE  StillSeen(d, b)
<1>1. PICK e \in Devices : group[e] = group[d] /\ b \in deviceBlocks[e]
  BY DEF Seen, IsBlockVisible, InGroup
<1>2. PICK winner \in {group[x], group[y]} :
        group' = [z \in Devices |-> IF group[z] \in {group[x], group[y]}
                                    THEN winner ELSE group[z]]
  BY DEF MergeGroups
<1>3. /\ group[x] # Null /\ group[y] # Null
      /\ UNCHANGED <<status, deviceBlocks>>
  BY DEF MergeGroups
<1>4. group'[e] = group'[d] /\ group'[d] # Null
  BY <1>1, <1>2, <1>3 DEF Seen
<1> QED BY <1>1, <1>3, <1>4 DEF Seen, StillSeen, Active

\* A discard takes whole groups, whose devices it revokes.
LEMMA SeenDiscard ==
    ASSUME GroupsHaveOneOwner, NEW d \in Devices, NEW b \in Blocks,
           Seen(d, b), status'[d] # "revoked",
           NEW j \in Cleanups, NEW x \in Devices, NEW n \in 0..MaxSession,
           DiscardOtherGroups(j, x, n)
    PROVE  StillSeen(d, b)
<1>1. PICK e \in Devices : group[e] = group[d] /\ b \in deviceBlocks[e]
  BY DEF Seen, IsBlockVisible, InGroup
<1>2. d \notin OtherGroups(x)
  BY DEF DiscardOtherGroups
<1>3. Owner[e] = Owner[d]
  BY <1>1 DEF Seen, GroupsHaveOneOwner
<1>4. e \notin OtherGroups(x)
  BY <1>1, <1>2, <1>3 DEF OtherGroups
<1>5. /\ group'[e] = group[e] /\ group'[d] = group[d]
      /\ deviceBlocks'[e] = deviceBlocks[e] /\ status'[d] = status[d]
  BY <1>2, <1>4 DEF DiscardOtherGroups
<1> QED BY <1>1, <1>5 DEF Seen, StillSeen, Active

\* The members of a prune are the group of each of them.
LEMMA SeenRelease ==
    ASSUME TypeOK, NEW d \in Devices, NEW b \in Blocks, Seen(d, b),
           ~MayLose(d, b), NEW j \in Cleanups,
           NEW batch \in SUBSET pending[j], ReleaseBatch(j, batch)
    PROVE  StillSeen(d, b)
<1>1. PICK e \in Devices : group[e] = group[d] /\ b \in deviceBlocks[e]
  BY DEF Seen, IsBlockVisible, InGroup
<1>2. UNCHANGED <<status, group>>
  BY DEF ReleaseBatch, deviceVars
<1>3. CASE b \notin deviceBlocks'[e]
  <2>1. job[j].kind = "prune" /\ e \in job[j].members /\ b \in batch
    BY <1>1, <1>3 DEF ReleaseBatch
  <2>2. d \in job[j].members
    BY <1>1, <2>1 DEF ReleaseBatch, GroupUnchanged, InGroup
  <2>3. b \in pending[j] \ pending'[j]
    BY <2>1 DEF ReleaseBatch, TypeOK
  <2> QED BY <2>1, <2>2, <2>3 DEF MayLose
<1>4. CASE b \in deviceBlocks'[e]
  BY <1>1, <1>2, <1>4 DEF Seen, StillSeen, Active
<1> QED BY <1>3, <1>4

\* The references of a group go only with a discard of the whole group or
\* with a prune by it.
LEMMA SeenReference ==
    ASSUME TypeOK, GroupsHaveOneOwner, [Next]_vars, NEW d \in Devices,
           NEW b \in Blocks, Seen(d, b), ~MayLose(d, b)
    PROVE  StillSeen(d, b)
<1>1. status[d] = "active" /\ status'[d] # "revoked"
  BY DEF Seen, Active, MayLose
<1>2. ASSUME NEW u \in Uploads, CommitBlockUpload(u)
      PROVE  StillSeen(d, b)
  BY <1>2, SeenQuiet DEF CommitBlockUpload, deviceVars, TypeOK
<1>3. ASSUME NEW x \in Devices, NEW y \in Devices, RevokeDevice(x, y)
      PROVE  StillSeen(d, b)
  BY <1>1, <1>3, SeenQuiet DEF RevokeDevice, TypeOK
<1>4. CASE UNCHANGED <<status, group, deviceBlocks>>
  BY <1>4, SeenQuiet
<1> QED
  BY <1>1, <1>2, <1>3, <1>4, SeenMerge, SeenDiscard, SeenRelease
     DEF Next, RequestArrives, UploadStep, CleanupStep, CollectorStep, vars,
         dbVars, deviceVars, BeginPut, ReserveBlockUpload, RejectUpload,
         PutNew, PutNewFails, CommitFails, CancelBlockUpload, PutSessionFile,
         DeleteSessionFile, BeginPrune, CleanupStops, ClaimCollectibleBlocks,
         DeleteClaimedFile, FinalizeBlockDeletion, ListFiles,
         SelectOrphanFiles, DeleteOrphanFile, CollectionEnds, Crash, Tick

\* A block that a client was told not to upload again stays available to it
\* until it is revoked, its own group prunes the block, or the sweep takes
\* the file.
THEOREM PresentAlwaysStays == Spec => PresentStaysPresent
<1> DEFINE Stays == \A d \in Devices, b \in Blocks :
                      Get(d, b) /\ ~Get(d, b)' => MayLose(d, b)
<1>1. Structure /\ StrandInv /\ [Next]_vars => Stays
  <2> SUFFICES ASSUME Structure, StrandInv, [Next]_vars, NEW d \in Devices,
                      NEW b \in Blocks, Get(d, b), ~MayLose(d, b)
               PROVE  Get(d, b)'
    OBVIOUS
  <2>1. Seen(d, b)
    BY GetSeen
  <2>2. mtime'[b] # Null
    BY <2>1, SeenFile DEF MayLose
  <2>3. StillSeen(d, b)
    BY <2>1, SeenReference DEF StrandInv
  <2> QED
    BY <2>2, <2>3
       DEF StillSeen, Get, Missing, Exists, IsBlockVisible, InGroup
<1>2. Stays => [Stays]_vars
  OBVIOUS
<1>3. Spec => [][Stays]_vars
  BY <1>1, <1>2, StructureInvariant, StrandInvariant, PTL DEF Spec
<1> QED BY <1>3, PTL DEF PresentStaysPresent, MayLose

=============================================================================
