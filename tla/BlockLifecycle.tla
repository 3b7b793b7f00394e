--------------------------- MODULE BlockLifecycle ---------------------------
(***************************************************************************)
(* The life of a content-addressed ciphertext block in Lumina Relay: an    *)
(* upload reserves quota, installs a file and commits its metadata; a      *)
(* discard or a prune drops references; the garbage collector claims       *)
(* orphaned objects, deletes their files and then sweeps files that no     *)
(* row of the database knows.                                              *)
(*                                                                         *)
(* The database (SQLite, one immediate write transaction at a time) and    *)
(* the block directory are two stores with no common transaction.  Each    *)
(* write transaction and each file-system call is one action; everything   *)
(* the handlers and the collector keep in local variables between two of   *)
(* them is state here, so a value read early is used late exactly as in    *)
(* the code.  Blocks have unit size: bytes count blocks.                   *)
(***************************************************************************)
EXTENDS Naturals, FiniteSets

CONSTANTS
    Accounts,        \* registered accounts
    Devices,         \* enrolled devices
    Owner,           \* the account of each device
    Blocks,          \* block identifiers (SHA-256 of the ciphertext)
    Uploads,         \* PUT /blocks requests; each also names its reservation
    Cleanups,        \* requests that drop references (discard, prune)
    CleanupKinds,    \* which of "discard" and "prune" are asked for
    Quota,           \* accounts.quota_bytes
    ReservationTTL,  \* lifetime of a reservation (300 s)
    GracePeriod,     \* BlockOrphanGracePeriod (24 h)
    ClaimLimit,      \* blocks claimed by one collection (256)
    BatchSize,       \* pruneBatchSize (256)
    MaxSession,      \* bound: session bytes of an account
    MaxFaults,       \* bound: crashes, I/O errors and cancelled contexts
    MaxStall,        \* bound: how long a request may take
    Horizon,         \* bound: last instant at which a request arrives
    MaxTime,         \* bound: last instant of the clock
    Null

ASSUME OwnerAssumption == Owner \in [Devices -> Accounts]
ASSUME KindsAssumption == CleanupKinds \subseteq {"discard", "prune"}
ASSUME FiniteAssumption == IsFiniteSet(Uploads) /\ IsFiniteSet(Blocks)
ASSUME ParameterAssumption ==
    /\ Quota \in Nat
    /\ ReservationTTL \in Nat \ {0}
    /\ GracePeriod \in Nat \ {0}
    /\ ClaimLimit \in Nat \ {0}
    /\ BatchSize \in Nat \ {0}
ASSUME BoundAssumption ==
    /\ MaxSession \in Nat
    /\ MaxFaults \in Nat
    /\ MaxStall \in Nat
    /\ Horizon \in Nat
    /\ MaxTime \in Nat
ASSUME NullAssumption == Null \notin Nat /\ Null \notin Blocks
                         /\ Null \notin Devices

VARIABLES
    \* --- the database
    status,          \* devices.status
    group,           \* devices.sync_group_id (Null after the group is gone);
                     \* a group is named after the device it was created for
    deviceBlocks,    \* device_blocks
    accountBlocks,   \* account_blocks
    used,            \* accounts.used_bytes
    sessionBytes,    \* sum of session_files.size per account
    objState,        \* block_objects.state, "absent" when there is no row
    orphanedAt,      \* block_objects.orphaned_at
    expiresAt,       \* upload_reservations.expires_at, Null without a row
    \* --- the block directory
    mtime,           \* modification time of a block's file, Null without one
    \* --- running handlers and the collector
    serving,         \* the startup collection is over, requests are accepted
    pc,              \* the uploads: where their handler is,
    req,             \* the device and the block they are about,
    started,         \* the instant a running one has captured
    jobPc,           \* the discards and prunes: whether they run,
    job,             \* what they were asked and captured,
    pending,         \* the candidate blocks they have still to release
    gcPc,            \* the single garbage collector: where it is,
    claimed,         \* the claimed blocks whose files it has to delete,
    deleted,         \* the block whose file it has just deleted,
    listed,          \* the directory listing it took,
    victims,         \* the orphan files it has to delete
    \* --- the environment
    now, faults

deviceVars == <<status, group>>
objectVars == <<objState, orphanedAt>>
quotaVars == <<used, sessionBytes>>
dbVars == <<deviceVars, deviceBlocks, accountBlocks, quotaVars, objectVars,
            expiresAt>>
requestVars == <<req, started>>
uploadVars == <<pc, requestVars>>
jobVars == <<jobPc, job, pending>>
claimVars == <<claimed, deleted>>
sweepVars == <<listed, victims>>
gcVars == <<gcPc, claimVars, sweepVars>>
vars == <<dbVars, mtime, serving, uploadVars, jobVars, gcVars, now, faults>>

----------------------------------------------------------------------------
(* Queries shared by the transactions.                                      *)

Account(u) == Owner[req[u].device]
Block(u) == req[u].block

Active(d) == status[d] = "active"

HasAccount(b) == \E a \in Accounts : b \in accountBlocks[a]
HasReservation(b) == \E u \in Uploads : expiresAt[u] # Null /\ Block(u) = b
ReferencedIn(a, b, refs) == \E d \in Devices : Owner[d] = a /\ b \in refs[d]

\* Reservations of account a that will be charged when they commit: those
\* for a block the account does not own yet (the NOT EXISTS of the query).
ChargedIn(a, rows, owned) ==
    {u \in Uploads : /\ rows[u] # Null
                     /\ Account(u) = a
                     /\ Block(u) \notin owned[a]}
Charged(a) == ChargedIn(a, expiresAt, accountBlocks)
Reserved(a) == Cardinality(Charged(a))

\* Mutated: expired reservations are left.
MutantKeepsExpired(t) == expiresAt

\* DELETE FROM upload_reservations WHERE expires_at <= t
Unexpired(t) ==
    [u \in Uploads |-> IF expiresAt[u] # Null /\ expiresAt[u] <= t
                       THEN Null ELSE expiresAt[u]]

\* Mutated: the reservations of others are forgotten.
MutantNothingReserved(a, t) == 0

ReservedAfter(a, t) ==
    Cardinality(ChargedIn(a, Unexpired(t), accountBlocks))

Fault == faults < MaxFaults /\ faults' = faults + 1
NoFault == UNCHANGED faults

----------------------------------------------------------------------------
(* Upload: BlocksService.Put.                                               *)

\* The handler starts: the hash is right and now is captured, once.
BeginPut(u) ==
    /\ serving /\ pc[u] = "idle" /\ now <= Horizon
    /\ Active(req[u].device)
    /\ pc' = [pc EXCEPT ![u] = "begun"]
    /\ started' = [started EXCEPT ![u] = now]
    /\ NoFault
    /\ UNCHANGED <<dbVars, mtime, serving, req, jobVars, gcVars, now>>

\* The handler has returned.
Answered(u) ==
    /\ pc' = [pc EXCEPT ![u] = "done"]
    /\ started' = [started EXCEPT ![u] = 0]

\* Mutated: the status of the device is not looked at.
MutantAnyDevice(u) == TRUE

DeviceMayUpload(u) == Active(req[u].device)

\* Mutated: an object being deleted is taken for usable.
MutantDeletingUsable(u) == TRUE

ObjectUsable(u) == objState[Block(u)] # "deleting"

\* What ReserveBlockUpload asks of the database after dropping the rows
\* that had expired at t.
MayReserve(u, t) ==
    /\ DeviceMayUpload(u)
    /\ ObjectUsable(u)
    /\ \A v \in Uploads : /\ Account(v) = Account(u)
                          /\ Block(v) = Block(u)
                          => Unexpired(t)[v] = Null
    /\ \/ Block(u) \in accountBlocks[Account(u)]
       \/ used[Account(u)] + ReservedAfter(Account(u), t) + 1 <= Quota

ReserveBlockUpload(u) ==
    LET t == started[u] IN
    /\ pc[u] = "begun"
    /\ MayReserve(u, t)
    /\ expiresAt' = [Unexpired(t) EXCEPT ![u] = t + ReservationTTL]
    /\ pc' = [pc EXCEPT ![u] = "reserved"]
    /\ NoFault
    /\ UNCHANGED <<deviceVars, deviceBlocks, accountBlocks, quotaVars,
                   objectVars, mtime, serving, requestVars, jobVars, gcVars,
                   now>>

\* A check fails, or the transaction itself does; it is rolled back and the
\* expired rows stay as well.
RejectUpload(u) ==
    /\ pc[u] = "begun"
    /\ \/ ~MayReserve(u, started[u]) /\ NoFault
       \/ MayReserve(u, started[u]) /\ Fault
    /\ Answered(u)
    /\ UNCHANGED <<dbVars, mtime, serving, req, jobVars, gcVars, now>>

\* PutNew links a fresh file, or keeps the one that is there.
PutNew(u) ==
    /\ pc[u] = "reserved"
    /\ mtime' = [mtime EXCEPT ![Block(u)] = IF @ = Null THEN now ELSE @]
    /\ pc' = [pc EXCEPT ![u] = "stored"]
    /\ NoFault
    /\ UNCHANGED <<dbVars, serving, requestVars, jobVars, gcVars, now>>

PutNewFails(u) ==
    /\ pc[u] = "reserved"
    /\ Fault
    /\ pc' = [pc EXCEPT ![u] = "failed"]
    /\ UNCHANGED <<dbVars, mtime, serving, requestVars, jobVars, gcVars, now>>

\* Mutated: the upload commits although its reservation has been removed.
MutantCommitUnreserved(u) ==
    /\ DeviceMayUpload(u)
    /\ ObjectUsable(u)
    /\ \/ Block(u) \in accountBlocks[Account(u)]
       \/ used[Account(u)] + 1 <= Quota

\* The checks of CommitBlockUpload.  It is given the instant captured before
\* the reservation, not the instant of the commit.
MayCommit(u) ==
    /\ expiresAt[u] # Null
    /\ expiresAt[u] > started[u]
    /\ DeviceMayUpload(u)
    /\ ObjectUsable(u)
    /\ \/ Block(u) \in accountBlocks[Account(u)]
       \/ used[Account(u)] + 1 <= Quota

\* Mutated: a block the account already owns is charged again.
MutantChargeAgain(a, b) == [used EXCEPT ![a] = @ + 1]

UsedAfterCommit(a, b) ==
    IF b \in accountBlocks[a] THEN used ELSE [used EXCEPT ![a] = @ + 1]

OrphanedAfterCommit(b) == [orphanedAt EXCEPT ![b] = Null]

CommitBlockUpload(u) ==
    LET a == Account(u)
        b == Block(u)
    IN
    /\ pc[u] = "stored"
    /\ MayCommit(u)
    /\ used' = UsedAfterCommit(a, b)
    /\ accountBlocks' = [accountBlocks EXCEPT ![a] = @ \cup {b}]
    /\ objState' = [objState EXCEPT ![b] = "active"]
    /\ orphanedAt' = OrphanedAfterCommit(b)
    /\ deviceBlocks' = [deviceBlocks EXCEPT ![req[u].device] = @ \cup {b}]
    /\ expiresAt' = [expiresAt EXCEPT ![u] = Null]
    /\ Answered(u)
    /\ NoFault
    /\ UNCHANGED <<deviceVars, sessionBytes, mtime, serving, req, jobVars,
                   gcVars, now>>

\* A check fails, or the transaction itself does.
CommitFails(u) ==
    /\ pc[u] = "stored"
    /\ (~MayCommit(u) /\ NoFault) \/ (MayCommit(u) /\ Fault)
    /\ pc' = [pc EXCEPT ![u] = "failed"]
    /\ UNCHANGED <<dbVars, mtime, serving, requestVars, jobVars, gcVars, now>>

\* Any error after the reservation is followed by its removal; when the
\* context is already cancelled the removal is lost and the row stays.
CancelBlockUpload(u) ==
    /\ pc[u] = "failed"
    /\ \/ NoFault /\ expiresAt' = [expiresAt EXCEPT ![u] = Null]
       \/ Fault /\ UNCHANGED expiresAt
    /\ Answered(u)
    /\ UNCHANGED <<deviceVars, deviceBlocks, accountBlocks, quotaVars,
                   objectVars, mtime, serving, req, jobVars, gcVars, now>>

----------------------------------------------------------------------------
(* What the requests that only read see: BlocksService.Missing and Get.     *)
(* They read the row and then the file, in the group the middleware saw;    *)
(* here they are asked in one state.  No torn answer is new: a block that   *)
(* is not visible is missing at the first read, a file that is gone makes   *)
(* it missing at the second, and otherwise it was present at the first,     *)
(* unless the sweep had taken its file by then (ReferencedHasFile).         *)

InGroup(g) == {d \in Devices : group[d] = g}

\* Mutated: only references of active devices are looked at.
MutantVisibleWhileActive(g, b) ==
    \E d \in InGroup(g) : Active(d) /\ b \in deviceBlocks[d]

\* A reference of any device of the group will do, of a revoked one as well.
IsBlockVisible(g, b) == \E d \in InGroup(g) : b \in deviceBlocks[d]

Exists(b) == mtime[b] # Null

\* POST /blocks/missing: what the client has to upload (again).
Missing(g, ids) == {b \in ids : ~(IsBlockVisible(g, b) /\ Exists(b))}

\* GET /blocks/{id}: whether device d is given the block.
Get(d, b) ==
    /\ Active(d) /\ group[d] # Null
    /\ b \notin Missing(group[d], {b})

----------------------------------------------------------------------------
(* Device and session-snapshot operations, as far as blocks depend on them. *)

OtherGroups(d) ==
    {e \in Devices : /\ Owner[e] = Owner[d]
                     /\ group[e] # Null /\ group[e] # group[d]}

\* Any active member of the group may revoke the device, the device itself
\* included; its group and its device_blocks rows stay.
RevokeDevice(caller, d) ==
    /\ serving
    /\ Active(caller) /\ group[caller] # Null /\ group[d] = group[caller]
    /\ Active(d)
    /\ status' = [status EXCEPT ![d] = "revoked"]
    /\ NoFault
    /\ UNCHANGED <<group, deviceBlocks, accountBlocks, quotaVars, objectVars,
                   expiresAt, mtime, serving, uploadVars, jobVars, gcVars,
                   now>>

\* A redeemed sync code merges the two groups; which one survives depends
\* on their age, here either may.
MergeGroups(inviter, redeemer) ==
    LET I == group[inviter]
        R == group[redeemer]
    IN
    /\ serving
    /\ Active(inviter) /\ Active(redeemer)
    /\ Owner[inviter] = Owner[redeemer]
    /\ I # Null /\ R # Null /\ I # R
    /\ \E winner \in {I, R} :
         group' = [d \in Devices |-> IF group[d] \in {I, R}
                                     THEN winner ELSE group[d]]
    /\ NoFault
    /\ UNCHANGED <<status, deviceBlocks, accountBlocks, quotaVars, objectVars,
                   expiresAt, mtime, serving, uploadVars, jobVars, gcVars,
                   now>>

\* A snapshot is created or replaced, and the account's session bytes become
\* n, or the version conflicts and they stay; both commit the removal of
\* expired reservations.  Growth is checked against the quota together with
\* the reservations that are left.
PutSessionFile(d, n) ==
    LET a == Owner[d] IN
    /\ serving /\ Active(d) /\ group[d] # Null
    /\ n > 0 \/ n = sessionBytes[a]
    /\ n > sessionBytes[a] =>
         used[a] + ReservedAfter(a, now) + (n - sessionBytes[a]) <= Quota
    /\ expiresAt' = Unexpired(now)
    /\ sessionBytes' = [sessionBytes EXCEPT ![a] = n]
    /\ used' = [used EXCEPT ![a] = (@ + n) - sessionBytes[a]]
    /\ NoFault
    /\ UNCHANGED <<deviceVars, deviceBlocks, accountBlocks, objectVars, mtime,
                   serving, uploadVars, jobVars, gcVars, now>>

DeleteSessionFile(d, n) ==
    LET a == Owner[d] IN
    /\ serving /\ Active(d) /\ group[d] # Null
    /\ n < sessionBytes[a]
    /\ sessionBytes' = [sessionBytes EXCEPT ![a] = n]
    /\ used' = [used EXCEPT ![a] = (@ + n) - sessionBytes[a]]
    /\ NoFault
    /\ UNCHANGED <<deviceVars, deviceBlocks, accountBlocks, objectVars,
                   expiresAt, mtime, serving, uploadVars, jobVars, gcVars,
                   now>>

----------------------------------------------------------------------------
(* Dropping references: DiscardOtherGroups and PruneGroupBlocks.            *)

NoJob == [kind |-> "none", device |-> Null, members |-> {}, now |-> 0]

\* Mutated: the candidates are read after the references are deleted.
MutantCandidatesLate(D) == {}

DiscardCandidates(D) == UNION {deviceBlocks[e] : e \in D}

\* The structural transaction of a discard: the devices of the account's
\* other groups lose their references, are revoked and leave their groups;
\* the session bytes of those groups (down to n in total) are released.
\* The account's blocks are released later, in batches.
DiscardOtherGroups(j, d, n) ==
    LET a == Owner[d]
        D == OtherGroups(d)
        candidates == DiscardCandidates(D)
    IN
    /\ serving /\ jobPc[j] = "idle" /\ now <= Horizon
    /\ "discard" \in CleanupKinds
    /\ Active(d) /\ group[d] # Null /\ D # {}
    /\ n <= sessionBytes[a]
    /\ deviceBlocks' = [e \in Devices |-> IF e \in D THEN {}
                                                     ELSE deviceBlocks[e]]
    /\ status' = [e \in Devices |-> IF e \in D THEN "revoked" ELSE status[e]]
    /\ group' = [e \in Devices |-> IF e \in D THEN Null ELSE group[e]]
    /\ sessionBytes' = [sessionBytes EXCEPT ![a] = n]
    /\ used' = [used EXCEPT ![a] = (@ + n) - sessionBytes[a]]
    /\ jobPc' = [jobPc EXCEPT
                   ![j] = IF candidates = {} THEN "done" ELSE "running"]
    /\ job' = [job EXCEPT ![j] = [kind |-> "discard", device |-> d,
                                  members |-> D, now |-> now]]
    /\ pending' = [pending EXCEPT ![j] = candidates]
    /\ NoFault
    /\ UNCHANGED <<accountBlocks, objectVars, expiresAt, mtime, serving,
                   uploadVars, gcVars, now>>

\* A prune first reads its candidates outside any transaction: what the
\* group references and the client does not keep.
BeginPrune(j, d, keep) ==
    LET candidates == UNION {deviceBlocks[e] : e \in InGroup(group[d])} \ keep
    IN
    /\ serving /\ jobPc[j] = "idle" /\ now <= Horizon
    /\ "prune" \in CleanupKinds
    /\ Active(d) /\ group[d] # Null /\ candidates # {}
    /\ jobPc' = [jobPc EXCEPT ![j] = "running"]
    /\ job' = [job EXCEPT ![j] = [kind |-> "prune", device |-> d,
                                  members |-> InGroup(group[d]), now |-> now]]
    /\ pending' = [pending EXCEPT ![j] = candidates]
    /\ NoFault
    /\ UNCHANGED <<dbVars, mtime, serving, uploadVars, gcVars, now>>

\* Every batch of a prune checks the device and the group revision again.
\* The revision changes exactly when a merge changes the members.
GroupUnchanged(j) ==
    LET d == job[j].device IN
    /\ Active(d) /\ group[d] # Null
    /\ InGroup(group[d]) = job[j].members

\* Mutated: the references of the account's other devices are not checked.
MutantReleasedUnchecked(a, batch, refs) == batch \cap accountBlocks[a]

Released(a, batch, refs) ==
    {b \in batch : b \in accountBlocks[a] /\ ~ReferencedIn(a, b, refs)}

\* Mutated: other accounts that own the block are overlooked.
MutantAnyOwnerGone(b, owned) == TRUE

LastOwnerGone(b, owned) == \A c \in Accounts : b \notin owned[c]

\* Mutated: the cutoff of the grace period is stored.
MutantStampCutoff(j) == job[j].now - GracePeriod

OrphanStamp(j) == job[j].now

\* One batch: a prune drops its group's references, then both kinds release
\* what no device of the account references (releaseUnreferencedAccountBlock).
ReleaseBatch(j, batch) ==
    LET d == job[j].device
        a == Owner[d]
        refs == [e \in Devices |->
                    IF job[j].kind = "prune" /\ e \in job[j].members
                    THEN deviceBlocks[e] \ batch ELSE deviceBlocks[e]]
        gone == Released(a, batch, refs)
        owned == [accountBlocks EXCEPT ![a] = @ \ gone]
        left == pending[j] \ batch
    IN
    /\ jobPc[j] = "running"
    /\ job[j].kind = "prune" => GroupUnchanged(j)
    /\ Cardinality(batch) <= BatchSize
    /\ Cardinality(batch) = BatchSize \/ left = {}
    /\ deviceBlocks' = refs
    /\ accountBlocks' = owned
    /\ used' = [used EXCEPT ![a] = IF @ >= Cardinality(gone)
                                   THEN @ - Cardinality(gone) ELSE 0]
    /\ orphanedAt' = [b \in Blocks |->
            IF /\ b \in gone
               /\ LastOwnerGone(b, owned)
               /\ objState[b] = "active" /\ orphanedAt[b] = Null
            THEN OrphanStamp(j) ELSE orphanedAt[b]]
    /\ pending' = [pending EXCEPT ![j] = left]
    /\ jobPc' = [jobPc EXCEPT ![j] = IF left = {} THEN "done" ELSE @]
    /\ NoFault
    /\ UNCHANGED <<deviceVars, sessionBytes, objState, expiresAt, mtime,
                   serving, uploadVars, job, gcVars, now>>

\* ErrGroupChanged ends a prune between two batches; a database error or a
\* cancelled request context ends either kind.
CleanupStops(j) ==
    /\ jobPc[j] = "running"
    /\ \/ job[j].kind = "prune" /\ ~GroupUnchanged(j) /\ NoFault
       \/ Fault
    /\ jobPc' = [jobPc EXCEPT ![j] = "done"]
    /\ pending' = [pending EXCEPT ![j] = {}]
    /\ UNCHANGED <<dbVars, mtime, serving, uploadVars, job, gcVars, now>>

----------------------------------------------------------------------------
(* The collector: CollectGarbage, then collectOrphanFiles.  One goroutine   *)
(* runs it, once before requests are served and then every hour.            *)

NoFiles == [b \in Blocks |-> Null]
CollectorIdle == /\ gcPc = "idle" /\ claimed = {} /\ deleted = Null
                 /\ listed = NoFiles /\ victims = {}
CollectorStops == /\ gcPc' = "idle" /\ claimed' = {} /\ deleted' = Null
                  /\ listed' = NoFiles /\ victims' = {}

PastGrace(t, instant) == t + GracePeriod <= instant

\* Mutated: an interrupted claim is not taken up again.
MutantClaimOnce(b, t) ==
    /\ objState[b] = "active" /\ orphanedAt[b] # Null
    /\ PastGrace(orphanedAt[b], t)

Claimable(b, t) ==
    \/ objState[b] = "deleting"
    \/ /\ objState[b] = "active" /\ orphanedAt[b] # Null
       /\ PastGrace(orphanedAt[b], t)

\* Mutated: reservations do not protect an object.
MutantReservedToo(b, rows) == TRUE

Unreserved(b, rows) == \A u \in Uploads : Block(u) = b => rows[u] = Null

Collectible(rows, t) ==
    {b \in Blocks : Claimable(b, t) /\ ~HasAccount(b) /\ Unreserved(b, rows)}

\* ORDER BY orphaned_at LIMIT ClaimLimit
OldestOf(batch, all) ==
    /\ batch \subseteq all
    /\ Cardinality(batch) <= ClaimLimit
    /\ Cardinality(batch) = ClaimLimit \/ batch = all
    /\ \A b \in batch, c \in all \ batch : orphanedAt[b] <= orphanedAt[c]

ClaimCollectibleBlocks(batch) ==
    /\ gcPc = "idle"
    /\ OldestOf(batch, Collectible(Unexpired(now), now))
    /\ expiresAt' = Unexpired(now)
    /\ objState' = [b \in Blocks |-> IF b \in batch THEN "deleting"
                                                    ELSE objState[b]]
    /\ gcPc' = "claimed" /\ claimed' = batch
    /\ NoFault
    /\ UNCHANGED <<deviceVars, deviceBlocks, accountBlocks, quotaVars,
                   orphanedAt, mtime, serving, uploadVars, jobVars, deleted,
                   sweepVars, now>>

\* The file of a claimed block is removed; an I/O error skips the block,
\* which stays "deleting" and is claimed again by the next collection.
DeleteClaimedFile(b) ==
    /\ gcPc = "claimed" /\ deleted = Null /\ b \in claimed
    /\ \/ /\ NoFault
          /\ mtime' = [mtime EXCEPT ![b] = Null]
          /\ deleted' = b
       \/ /\ Fault
          /\ UNCHANGED <<mtime, deleted>>
    /\ claimed' = claimed \ {b}
    /\ UNCHANGED <<dbVars, serving, uploadVars, jobVars, gcPc, sweepVars, now>>

Finalizable(b) ==
    objState[b] = "deleting" /\ ~HasAccount(b) /\ ~HasReservation(b)

FinalizeBlockDeletion ==
    LET b == deleted IN
    /\ gcPc = "claimed" /\ b # Null
    /\ \/ /\ NoFault
          /\ objState' = [objState EXCEPT
                            ![b] = IF Finalizable(b) THEN "absent" ELSE @]
          /\ orphanedAt' = [orphanedAt EXCEPT
                            ![b] = IF Finalizable(b) THEN Null ELSE @]
       \/ Fault /\ UNCHANGED objectVars
    /\ deleted' = Null
    /\ UNCHANGED <<deviceVars, deviceBlocks, accountBlocks, quotaVars,
                   expiresAt, mtime, serving, uploadVars, jobVars, gcPc,
                   claimed, sweepVars, now>>

\* The directory is listed with the modification times, ...
ListFiles ==
    /\ gcPc = "claimed" /\ claimed = {} /\ deleted = Null
    /\ gcPc' = "listed" /\ listed' = mtime
    /\ NoFault
    /\ UNCHANGED <<dbVars, mtime, serving, uploadVars, jobVars, claimVars,
                   victims, now>>

\* ... then the known blocks are read: every object, and every reservation
\* that has not expired.
ActiveBlockIDs ==
    {b \in Blocks :
        \/ objState[b] # "absent"
        \/ \E u \in Uploads : /\ expiresAt[u] # Null /\ Block(u) = b
                              /\ expiresAt[u] > now}

\* Mutated: the wrong lifetime is used for the cutoff.
MutantShortGrace(t) == t + ReservationTTL <= now

\* Mutated: the comparison with the cutoff is inverted.
MutantInvertedGrace(t) == t + GracePeriod >= now

\* Not f.ModTime.After(cutoff)
OldFile(t) == PastGrace(t, now)

SelectOrphanFiles ==
    /\ gcPc = "listed"
    /\ gcPc' = "sweeping" /\ listed' = NoFiles
    /\ victims' = {b \in Blocks : /\ listed[b] # Null /\ OldFile(listed[b])
                                  /\ b \notin ActiveBlockIDs}
    /\ NoFault
    /\ UNCHANGED <<dbVars, mtime, serving, uploadVars, jobVars, claimVars,
                   now>>

\* The sweep deletes one file after the other without looking again.
DeleteOrphanFile(b) ==
    /\ gcPc = "sweeping" /\ b \in victims
    /\ \/ NoFault /\ mtime' = [mtime EXCEPT ![b] = Null]
       \/ Fault /\ UNCHANGED mtime
    /\ victims' = victims \ {b}
    /\ UNCHANGED <<dbVars, serving, uploadVars, jobVars, gcPc, claimVars,
                   listed, now>>

\* The collection returns: all victims are handled, or the claim, the listing
\* or the query failed.  After the startup collection the server serves.
CollectionEnds ==
    /\ \/ gcPc = "sweeping" /\ victims = {} /\ NoFault
       \/ gcPc \in {"idle", "listed"} /\ Fault
    /\ CollectorStops
    /\ serving' = TRUE
    /\ UNCHANGED <<dbVars, mtime, uploadVars, jobVars, now>>

----------------------------------------------------------------------------
(* Crash and time.                                                          *)

\* The process dies and is started again: requests are lost, what they wrote
\* to either store stays, and the startup collection comes first.
Crash ==
    /\ Fault
    /\ pc' = [u \in Uploads |-> IF pc[u] = "idle" THEN "idle" ELSE "done"]
    /\ jobPc' = [j \in Cleanups |->
                    IF jobPc[j] = "idle" THEN "idle" ELSE "done"]
    /\ pending' = [j \in Cleanups |-> {}]
    /\ CollectorStops
    /\ started' = [u \in Uploads |-> 0]
    /\ serving' = FALSE
    /\ UNCHANGED <<dbVars, mtime, req, job, now>>

InFlight == \/ \E u \in Uploads : pc[u] \notin {"idle", "done"}
            \/ \E j \in Cleanups : jobPc[j] = "running"

\* Handlers may stall across ticks, an upload for up to MaxStall; the clock
\* passes the horizon only when the last request has been answered.
Tick ==
    /\ now < MaxTime
    /\ now < Horizon \/ ~InFlight
    /\ \A u \in Uploads :
         pc[u] \notin {"idle", "done"} => now < started[u] + MaxStall
    /\ now' = now + 1
    /\ NoFault
    /\ UNCHANGED <<dbVars, mtime, serving, uploadVars, jobVars, gcVars>>

----------------------------------------------------------------------------

Init ==
    /\ status = [d \in Devices |-> "active"]
    /\ group = [d \in Devices |-> d]
    /\ deviceBlocks = [d \in Devices |-> {}]
    /\ accountBlocks = [a \in Accounts |-> {}]
    /\ used = [a \in Accounts |-> 0]
    /\ sessionBytes = [a \in Accounts |-> 0]
    /\ objState = [b \in Blocks |-> "absent"]
    /\ orphanedAt = [b \in Blocks |-> Null]
    /\ expiresAt = [u \in Uploads |-> Null]
    /\ mtime = NoFiles
    /\ serving = FALSE
    /\ pc = [u \in Uploads |-> "idle"]
    /\ req \in [Uploads -> [device : Devices, block : Blocks]]
    /\ started = [u \in Uploads |-> 0]
    /\ jobPc = [j \in Cleanups |-> "idle"]
    /\ job = [j \in Cleanups |-> NoJob]
    /\ pending = [j \in Cleanups |-> {}]
    /\ CollectorIdle
    /\ now = 0
    /\ faults = 0

UploadStep(u) ==
    \/ ReserveBlockUpload(u) \/ RejectUpload(u)
    \/ PutNew(u) \/ PutNewFails(u)
    \/ CommitBlockUpload(u) \/ CommitFails(u)
    \/ CancelBlockUpload(u)

CleanupStep(j) ==
    \/ \E batch \in SUBSET pending[j] \ {{}} : ReleaseBatch(j, batch)
    \/ CleanupStops(j)

CollectorStep ==
    \/ \E batch \in SUBSET Blocks : ClaimCollectibleBlocks(batch)
    \/ \E b \in Blocks : DeleteClaimedFile(b)
    \/ FinalizeBlockDeletion
    \/ ListFiles
    \/ SelectOrphanFiles
    \/ \E b \in Blocks : DeleteOrphanFile(b)
    \/ CollectionEnds

RequestArrives ==
    \/ \E u \in Uploads : BeginPut(u)
    \/ \E j \in Cleanups, d \in Devices, n \in 0..MaxSession :
         DiscardOtherGroups(j, d, n)
    \/ \E j \in Cleanups, d \in Devices, keep \in SUBSET Blocks :
         BeginPrune(j, d, keep)
    \/ \E caller, d \in Devices : RevokeDevice(caller, d)
    \/ \E inviter, redeemer \in Devices : MergeGroups(inviter, redeemer)
    \/ \E d \in Devices, n \in 0..MaxSession :
         PutSessionFile(d, n) \/ DeleteSessionFile(d, n)

Next ==
    \/ RequestArrives
    \/ \E u \in Uploads : UploadStep(u)
    \/ \E j \in Cleanups : CleanupStep(j)
    \/ CollectorStep
    \/ Crash
    \/ Tick

Spec == Init /\ [][Next]_vars

\* The running handlers and the collector goroutine are scheduled by the Go
\* runtime, the hourly ticker fires for ever and the clock advances.  A
\* handler takes finitely many steps, so fairness to all of one kind
\* together lets each of them finish.
Fairness ==
    /\ WF_vars(\E u \in Uploads : UploadStep(u))
    /\ WF_vars(\E j \in Cleanups : CleanupStep(j))
    /\ WF_vars(CollectorStep)
    /\ WF_vars(Tick)

FairSpec == Spec /\ Fairness

----------------------------------------------------------------------------
(* Properties.                                                              *)

PutStates == {"idle", "begun", "reserved", "stored", "failed", "done"}
Instant == Nat \cup {Null}

\* Every variable keeps its type.
TypeOK ==
    /\ status \in [Devices -> {"active", "revoked"}]
    /\ group \in [Devices -> Devices \cup {Null}]
    /\ deviceBlocks \in [Devices -> SUBSET Blocks]
    /\ accountBlocks \in [Accounts -> SUBSET Blocks]
    /\ used \in [Accounts -> Nat]
    /\ sessionBytes \in [Accounts -> Nat]
    /\ objState \in [Blocks -> {"absent", "active", "deleting"}]
    /\ orphanedAt \in [Blocks -> Instant]
    /\ expiresAt \in [Uploads -> Instant]
    /\ mtime \in [Blocks -> Instant]
    /\ serving \in BOOLEAN
    /\ pc \in [Uploads -> PutStates]
    /\ req \in [Uploads -> [device : Devices, block : Blocks]]
    /\ started \in [Uploads -> Nat]
    /\ jobPc \in [Cleanups -> {"idle", "running", "done"}]
    /\ job \in [Cleanups -> [kind : {"none", "discard", "prune"},
                             device : Devices \cup {Null},
                             members : SUBSET Devices, now : Nat]]
    /\ pending \in [Cleanups -> SUBSET Blocks]
    /\ gcPc \in {"idle", "claimed", "listed", "sweeping"}
    /\ claimed \in SUBSET Blocks
    /\ deleted \in Blocks \cup {Null}
    /\ listed \in [Blocks -> Instant]
    /\ victims \in SUBSET Blocks
    /\ now \in Nat
    /\ faults \in Nat

\* The three reference tables nest: what a device references its account
\* owns, and what an account owns is an active object.  Uploads, discards,
\* prunes and the collector of several accounts all write them.
ReferencesNest ==
    /\ \A d \in Devices : deviceBlocks[d] \subseteq accountBlocks[Owner[d]]
    /\ \A a \in Accounts : \A b \in accountBlocks[a] : objState[b] = "active"

\* A block claimed by the collector has no owner and no reservation for as
\* long as it is "deleting", whatever requests arrive meanwhile: this is what
\* makes deleting its file outside the transaction safe.
ClaimIsExclusive ==
    /\ \A b \in Blocks :
         objState[b] = "deleting" => ~HasAccount(b) /\ ~HasReservation(b)
    /\ \A b \in claimed \cup ({deleted} \ {Null}) :
         objState[b] = "deleting"

\* An object is stamped as an orphan exactly while no account owns it, so
\* no object is forgotten by the collector and none is aged while in use.
OrphansAreStamped ==
    \A b \in Blocks :
        /\ objState[b] = "absent" => orphanedAt[b] = Null
        /\ objState[b] # "absent" => (orphanedAt[b] = Null <=> HasAccount(b))

\* accounts.used_bytes, kept incrementally by six transactions, is what the
\* account owns.
UsedIsExact ==
    \A a \in Accounts :
        used[a] = Cardinality(accountBlocks[a]) + sessionBytes[a]

\* What is stored and what is promised by reservations never exceeds the
\* quota, however uploads, snapshots, releases and expiries interleave.
QuotaHonoured == \A a \in Accounts : used[a] + Reserved(a) <= Quota

\* An upload that still has its reservation is never refused for quota at
\* its commit: the check CommitBlockUpload repeats cannot fail.
ReservationSuffices ==
    \A u \in Uploads :
        (expiresAt[u] # Null /\ Block(u) \notin accountBlocks[Account(u)])
            => used[Account(u)] + 1 <= Quota

\* A block the account owns is referenced by a device or is about to be
\* released by a running discard, as long as nothing has failed: no
\* interleaving of uploads with a discard's batches strands quota.
OwnedIsReferenced ==
    faults = 0 =>
        \A a \in Accounts : \A b \in accountBlocks[a] :
            \/ ReferencedIn(a, b, deviceBlocks)
            \/ \E j \in Cleanups : /\ jobPc[j] = "running"
                                   /\ Owner[job[j].device] = a
                                   /\ b \in pending[j]

\* While a block is owned or reserved its file is deleted only by the sweep
\* of orphan files, never through a claim: deletion of claimed files, which
\* runs between two transactions, cannot hit a live block.
ClaimSparesLiveFiles ==
    [][\A b \in Blocks :
          /\ HasAccount(b) \/ HasReservation(b)
          /\ mtime[b] # Null /\ mtime'[b] = Null
          => gcPc = "sweeping" /\ b \in victims]_vars

\* The sweep never removes a file younger than the grace period, although it
\* decides on a listing that may be long out of date.
SweepSparesYoungFiles ==
    [][\A b \in Blocks :
          gcPc = "sweeping" /\ mtime[b] # Null /\ mtime'[b] = Null
              => mtime[b] + GracePeriod <= now]_vars

\* A revoked device never gains a reference, also when it is revoked between
\* the reservation and the commit of its own upload.
RevokedGainsNothing ==
    [][\A d \in Devices :
          status[d] = "revoked" => deviceBlocks'[d] \subseteq deviceBlocks[d]]_vars

\* A block a client was told not to upload again stays available to it: no
\* merge, no revocation or discard of the device that uploaded it, no batch
\* that releases what other devices shared and no claim of the collector
\* takes it away from an active device.  Only a prune of its own group does,
\* the discard of the device itself, or the sweep of orphan files (see
\* ReferencedHasFile).
PresentStaysPresent ==
    [][\A d \in Devices, b \in Blocks :
          Get(d, b) /\ ~Get(d, b)'
          => \/ status'[d] = "revoked"
             \/ \E j \in Cleanups : /\ job[j].kind = "prune"
                                    /\ d \in job[j].members
                                    /\ b \in pending[j] \ pending'[j]
             \/ gcPc = "sweeping" /\ b \in victims]_vars

\* What the uploads, the snapshots, the releases and the expiry of
\* reservations do to an account's bytes is what the ledger allows.  In
\* particular a commit is a promise kept, although other transactions have
\* come between the two.
Ledger == INSTANCE QuotaLedger
            WITH stored <- used, promised <- [a \in Accounts |-> Reserved(a)]

ImplementsLedger == Ledger!LedgerSpec

\* Every reservation is eventually removed once requests stop, also that of
\* an upload that was lost in a crash or could not cancel it: no quota stays
\* promised to nobody.
ReservationsSettle == <>[](\A u \in Uploads : expiresAt[u] = Null)

\* Every object without an owner is eventually removed for good once requests
\* stop, whatever reservations, claims and crashes were left half done.
OrphanObjectsCollected ==
    <>[](\A b \in Blocks : objState[b] # "absent" => HasAccount(b))

\* Every file that never got its metadata is eventually removed.
OrphanFilesCollected ==
    <>[](\A b \in Blocks : mtime[b] # Null => objState[b] # "absent")

\* Stated by service/blocks.go:207 ("宽限期保证在途上传与刚失败的残留都得到
\* 保护，避免误删"): a block some device references always has its file.
ReferencedHasFile ==
    \A d \in Devices : \A b \in deviceBlocks[d] : mtime[b] # Null

\* Stated by FRONTEND_INTEGRATION.md:942: a discard removes the block
\* references of the other groups and releases their quota.  When no discard
\* is running, nothing an account pays for is without a reference.
DiscardReleasesQuota ==
    (\A j \in Cleanups : jobPc[j] # "running") =>
        \A a \in Accounts : \A b \in accountBlocks[a] :
            ReferencedIn(a, b, deviceBlocks)

=============================================================================
