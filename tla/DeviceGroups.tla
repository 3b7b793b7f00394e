---------------------------- MODULE DeviceGroups ----------------------------
(***************************************************************************)
(* Devices, sync groups and sync codes of Lumina Relay: every device       *)
(* starts in a group of its own, a redeemed code merges two groups, a      *)
(* device may be revoked, and a group may discard all the others of its    *)
(* account.                                                                *)
(*                                                                         *)
(* A request passes the session middleware first, which reads the device   *)
(* and puts its group in the request context; the transaction that does    *)
(* the work comes later, and the group may have been merged away or        *)
(* discarded in between.  The two are two actions here.  A listing of      *)
(* manifest heads makes two reads that no transaction holds together; its  *)
(* answer is kept until its client is done with it.                        *)
(* A group is named after the device it was created for.                   *)
(***************************************************************************)
EXTENDS Naturals, FiniteSets

CONSTANTS
    Accounts,   \* registered accounts
    Devices,    \* devices that may enrol, and the groups created for them
    Owner,      \* the account of each device
    Rank,       \* the order of the group identifiers (UUIDs)
    Macs,       \* values of the code MAC
    Handlers,   \* request handlers that may run at the same time
    Kinds,      \* the requests they serve
    CodeTTL,    \* syncCodeTTL (300 s)
    MaxTime,    \* bound: last instant of the clock
    Null

\* "manifest" and "ticket" are served in GroupEvents, the last three in
\* SessionFiles; what is published of a write, in GroupEvents.
RequestKinds ==
    {"generate", "redeem", "revoke", "discard", "list", "manifest", "ticket",
     "read", "write", "erase"}

\* The transactions of these look at an instant.
TimedKinds == {"generate", "redeem"}

ASSUME OwnerAssumption == Owner \in [Devices -> Accounts]
ASSUME RankAssumption ==
    /\ Rank \in [Devices -> Nat]
    /\ \A d, e \in Devices : Rank[d] = Rank[e] => d = e
ASSUME KindsAssumption == Kinds \subseteq RequestKinds
ASSUME ParameterAssumption == CodeTTL \in Nat \ {0} /\ MaxTime \in Nat
ASSUME NullAssumption == Null \notin Devices /\ Devices # {}

VARIABLES
    \* --- the database
    status,      \* devices.status, "absent" without a row
    group,       \* devices.sync_group_id (Null after the group is gone)
    revision,    \* sync_groups.revision, 0 without a row
    createdAt,   \* sync_groups.created_at, 0 without a row
    codes,       \* sync_codes rows that are not consumed
    \* --- running handlers
    pc,          \* where the handler is
    req,         \* the request, what the handler has captured and, for a
                 \* listing, what its client has been told
    now

groupVars == <<status, group, revision, createdAt>>
dbVars == <<groupVars, codes>>
handlerVars == <<pc, req>>
vars == <<dbVars, handlerVars, now>>

Code == [mac : Macs, inviter : Devices, group : Devices, expires : Nat]
Request == [kind : RequestKinds, device : Devices, group : Devices,
            target : Devices, revision : Nat, at : Nat,
            heads : SUBSET Devices]

Active(d) == status[d] = "active"
Members(g) == {d \in Devices : group[d] = g}
GroupExists(g) == revision[g] > 0
SameAccount(d, e) == Owner[d] = Owner[e]

----------------------------------------------------------------------------
(* Enrolment and the session middleware.                                    *)

\* A login, or the registration of the account, enrols a device in a group
\* of its own at revision 1.
CreateDeviceEnrollment(d) ==
    /\ status[d] = "absent"
    /\ status' = [status EXCEPT ![d] = "active"]
    /\ group' = [group EXCEPT ![d] = d]
    /\ revision' = [revision EXCEPT ![d] = 1]
    /\ createdAt' = [createdAt EXCEPT ![d] = now]
    /\ UNCHANGED <<codes, handlerVars, now>>

\* The middleware accepts an active device and captures its group.  A
\* discard carries the revision its client signed, the present one or one
\* it learned earlier.
RequireSession(h) ==
    /\ pc[h] = "idle"
    /\ \E k \in Kinds, d, e \in Devices :
         /\ Active(d) /\ group[d] # Null
         /\ k # "revoke" => e = d
         /\ \E r \in 1..revision[group[d]] :
              /\ k # "discard" => r = 1
              /\ req' = [req EXCEPT ![h] =
                   [kind |-> k, device |-> d, group |-> group[d],
                    target |-> e, revision |-> r,
                    at |-> IF k \in TimedKinds THEN now ELSE 0,
                    heads |-> {}]]
    /\ pc' = [pc EXCEPT ![h] = "authorized"]
    /\ UNCHANGED <<dbVars, now>>

Serves(h, kind) == pc[h] = "authorized" /\ req[h].kind = kind

Anyone == CHOOSE d \in Devices : TRUE

\* What an idle handler holds.
NoRequest == [kind |-> "list", device |-> Anyone, group |-> Anyone,
              target |-> Anyone, revision |-> 1, at |-> 0, heads |-> {}]

Finish(h) == /\ pc' = [pc EXCEPT ![h] = "idle"]
             /\ req' = [req EXCEPT ![h] = NoRequest]

\* A transaction is given an instant read after the request came in.
Instants(h) == req[h].at .. now

\* The request is refused, its context is cancelled or the process dies: the
\* transaction, if any, is rolled back.  A listing that was answered is no
\* longer used by its client.
Abandon(h) ==
    /\ pc[h] # "idle"
    /\ Finish(h)
    /\ UNCHANGED <<dbVars, now>>

----------------------------------------------------------------------------
(* Sync codes.                                                              *)

\* The caller must still be in the group the middleware saw.
InCapturedGroup(h) ==
    /\ group[req[h].device] = req[h].group
    /\ Active(req[h].device)

\* Expired codes of anyone and the earlier code of the inviter are consumed.
RemainingCodes(d, t) == {c \in codes : c.expires > t /\ c.inviter # d}

\* A code whose MAC collides with a live one of the account is drawn again.
FreeMacs(d, rows) ==
    {m \in Macs : \A c \in rows : SameAccount(c.inviter, d) => c.mac # m}

GenerateCode(h) ==
    /\ Serves(h, "generate")
    /\ InCapturedGroup(h) /\ GroupExists(req[h].group)
    /\ \E t \in Instants(h) :
         LET d == req[h].device
             rest == RemainingCodes(d, t)
         IN  \E m \in FreeMacs(d, rest) :
               codes' = rest \cup {[mac |-> m, inviter |-> d,
                                    group |-> req[h].group,
                                    expires |-> t + CodeTTL]}
    /\ Finish(h)
    /\ UNCHANGED <<groupVars, now>>

\* The code is live and its inviter still active in the code's group; the
\* redeemer is active in a group of the same account.
Redeemable(c, d, t) ==
    /\ SameAccount(c.inviter, d)
    /\ c.expires > t
    /\ Active(c.inviter) /\ group[c.inviter] = c.group
    /\ Active(d) /\ group[d] # Null

Older(g, h) == \/ createdAt[g] < createdAt[h]
               \/ createdAt[g] = createdAt[h] /\ Rank[g] < Rank[h]
Winner(left, right) == IF Older(right, left) THEN right ELSE left
Loser(left, right) == IF Older(right, left) THEN left ELSE right

\* Mutated: the revision continues from the winner's alone.
MutantWinnerRevision(left, right) == revision[Winner(left, right)] + 1

\* Mutated: a merge does not advance the revision.
MutantNoBump(left, right) == IF revision[left] >= revision[right]
                             THEN revision[left] ELSE revision[right]

NextRevision(left, right) ==
    IF revision[left] >= revision[right]
    THEN revision[left] + 1 ELSE revision[right] + 1

Moved(win, lose) ==
    [d \in Devices |-> IF group[d] = lose THEN win ELSE group[d]]

\* Mutated: the codes of the loser keep their group.
MutantCodesStay(rows, win, lose) == rows

MigratedCodes(rows, win, lose) ==
    {[c EXCEPT !.group = IF @ = lose THEN win ELSE @] : c \in rows}

\* RedeemSyncCode when the two devices are already in one group.
AlreadyJoined(h, c) ==
    /\ Serves(h, "redeem")
    /\ \E t \in Instants(h) : Redeemable(c, req[h].device, t)
    /\ group[req[h].device] = c.group
    /\ codes' = codes \ {c}
    /\ Finish(h)
    /\ UNCHANGED <<groupVars, now>>

\* RedeemSyncCode when it merges: the older group survives, the devices and
\* the live codes of the other move to it, the code is consumed.
MergeGroups(h, c) ==
    LET left == c.group
        right == group[req[h].device]
        win == Winner(left, right)
        lose == Loser(left, right)
    IN
    /\ Serves(h, "redeem")
    /\ \E t \in Instants(h) : Redeemable(c, req[h].device, t)
    /\ left # right /\ GroupExists(left) /\ GroupExists(right)
    /\ group' = Moved(win, lose)
    /\ revision' = [revision EXCEPT ![win] = NextRevision(left, right),
                                    ![lose] = 0]
    /\ createdAt' = [createdAt EXCEPT ![lose] = 0]
    /\ codes' = MigratedCodes(codes \ {c}, win, lose)
    /\ Finish(h)
    /\ UNCHANGED <<status, now>>

RedeemSyncCode(h) == \E c \in codes : AlreadyJoined(h, c) \/ MergeGroups(h, c)

----------------------------------------------------------------------------
(* Revocation and discard.                                                  *)

\* Revokes an active device of the captured group; the group keeps it.
RevokeDevice(h) ==
    /\ Serves(h, "revoke")
    /\ InCapturedGroup(h)
    /\ Active(req[h].target) /\ group[req[h].target] = req[h].group
    /\ status' = [status EXCEPT ![req[h].target] = "revoked"]
    /\ Finish(h)
    /\ UNCHANGED <<group, revision, createdAt, codes, now>>

\* Devices of the other groups of the account.
Others(d, g) ==
    {e \in Devices : SameAccount(e, d) /\ group[e] # Null /\ group[e] # g}

\* Mutated: the devices of a deleted group stay active.
MutantDiscardKeepsStatus(d, g) == status

StatusAfterDiscard(d, g) ==
    [e \in Devices |-> IF e \in Others(d, g) THEN "revoked" ELSE status[e]]

\* Group e is another group of the account of device d than g.
Deleted(e, d, g) == SameAccount(e, d) /\ e # g

\* Deleting the groups clears the group of their devices and deletes their
\* codes by cascade.
DiscardOtherGroups(h) ==
    LET d == req[h].device
        g == req[h].group
    IN
    /\ Serves(h, "discard")
    /\ InCapturedGroup(h)
    /\ revision[g] = req[h].revision
    /\ Others(d, g) # {}
    /\ status' = StatusAfterDiscard(d, g)
    /\ group' = [e \in Devices |-> IF e \in Others(d, g) THEN Null
                                   ELSE group[e]]
    /\ revision' = [e \in Devices |-> IF Deleted(e, d, g) THEN 0
                                      ELSE revision[e]]
    /\ createdAt' = [e \in Devices |-> IF Deleted(e, d, g) THEN 0
                                       ELSE createdAt[e]]
    /\ codes' = {c \in codes : ~SameAccount(c.group, d) \/ c.group = g}
    /\ Finish(h)
    /\ UNCHANGED now

----------------------------------------------------------------------------
(* Listing the manifest heads of the captured group: the revision first,    *)
(* then the heads, in two reads.                                            *)

ReadRevision(h) ==
    /\ Serves(h, "list")
    /\ GroupExists(req[h].group)
    /\ req' = [req EXCEPT ![h].revision = revision[req[h].group]]
    /\ pc' = [pc EXCEPT ![h] = "listing"]
    /\ UNCHANGED <<dbVars, now>>

ReadHeads(h) ==
    /\ pc[h] = "listing"
    /\ req' = [req EXCEPT ![h].heads = Members(req[h].group)]
    /\ pc' = [pc EXCEPT ![h] = "listed"]
    /\ UNCHANGED <<dbVars, now>>

Tick ==
    /\ now < MaxTime
    /\ now' = now + 1
    /\ UNCHANGED <<dbVars, handlerVars>>

----------------------------------------------------------------------------
Init ==
    /\ status = [d \in Devices |-> "absent"]
    /\ group = [d \in Devices |-> Null]
    /\ revision = [d \in Devices |-> 0]
    /\ createdAt = [d \in Devices |-> 0]
    /\ codes = {}
    /\ pc = [h \in Handlers |-> "idle"]
    /\ req = [h \in Handlers |-> NoRequest]
    /\ now = 0

HandlerStep(h) ==
    \/ RequireSession(h) \/ Abandon(h)
    \/ GenerateCode(h) \/ RedeemSyncCode(h)
    \/ RevokeDevice(h) \/ DiscardOtherGroups(h)
    \/ ReadRevision(h) \/ ReadHeads(h)

Next ==
    \/ \E d \in Devices : CreateDeviceEnrollment(d)
    \/ \E h \in Handlers : HandlerStep(h)
    \/ Tick

Spec == Init /\ [][Next]_vars

----------------------------------------------------------------------------
(* Properties.                                                              *)

\* Every variable has its type.
TypeOK ==
    /\ status \in [Devices -> {"absent", "active", "revoked"}]
    /\ group \in [Devices -> Devices \cup {Null}]
    /\ revision \in [Devices -> Nat]
    /\ createdAt \in [Devices -> Nat]
    /\ codes \subseteq Code
    /\ pc \in [Handlers -> {"idle", "authorized", "listing", "listed"}]
    /\ req \in [Handlers -> Request]
    /\ now \in Nat

\* Merges and discards, each of which rewrites several tables, leave neither
\* an active device without a group, nor a device in a group that is gone or
\* belongs to another account, nor a group that has lost all its devices
\* (RedeemSyncCode, DiscardOtherGroups).
GroupsAreInhabited ==
    /\ \A d \in Devices : Active(d) => group[d] # Null
    /\ \A d \in Devices : group[d] # Null => /\ GroupExists(group[d])
                                             /\ SameAccount(group[d], d)
    /\ \A g \in Devices : GroupExists(g) => Members(g) # {}

\* An invitation survives the merges of its inviter's group: every live code
\* names the group its inviter is in now.  An inviter has one live code, and
\* no two live codes of an account share a MAC, so a code identifies one
\* invitation (ReplaceSyncCode, RedeemSyncCode).
CodesFollowInviter ==
    /\ \A c \in codes : group[c.inviter] = c.group /\ GroupExists(c.group)
    /\ \A c, k \in codes :
         c # k => /\ c.inviter # k.inviter
                  /\ SameAccount(c.inviter, k.inviter) => c.mac # k.mac

MembersOf(d) == {e \in Devices : group[e] = group[d]}
RevisionOf(d) == revision[group[d]]

\* A device that keeps a group sees its revision advance whenever it meets
\* new members, on both sides of a merge and whichever group survives, and
\* never sees it go back: a client may use the revision to tell whether what
\* it knows of the group is out of date (RedeemSyncCode: max + 1).
RevisionTellsGrowth ==
    [][\A d \in Devices : group[d] # Null /\ group'[d] # Null =>
         \/ MembersOf(d)' = MembersOf(d) /\ RevisionOf(d)' = RevisionOf(d)
         \/ RevisionOf(d)' > RevisionOf(d)]_vars

\* A listing of manifest heads that carries the revision the group still has
\* contains the head of every member, although its two reads may be torn
\* apart by merges (ManifestService.ListHeads reads the revision first).
ListingIsComplete ==
    \A h \in Handlers :
      pc[h] = "listed" /\ req[h].revision = revision[req[h].group] =>
        req[h].heads = Members(req[h].group)

=============================================================================
