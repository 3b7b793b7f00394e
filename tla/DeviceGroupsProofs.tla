------------------------- MODULE DeviceGroupsProofs -------------------------
(***************************************************************************)
(* Theorems about DeviceGroups for any number of devices, accounts and     *)
(* request handlers.  All of them rest on one inductive invariant: a group *)
(* that is gone stays gone (its device is not enrolled again), so a        *)
(* revision that a request has captured can only be overtaken.             *)
(***************************************************************************)
EXTENDS DeviceGroups, TLAPS

\* The group of a device that has not enrolled does not exist yet.
Unborn ==
    \A d \in Devices :
        status[d] = "absent" => group[d] = Null /\ revision[d] = 0

\* A listing has read a revision its group has had, and one that is
\* answered holds the members of that revision.
ListingIsDated ==
    \A h \in Handlers :
        /\ pc[h] \in {"authorized", "listing", "listed"}
              => status[req[h].group] # "absent"
        /\ pc[h] \in {"listing", "listed"}
              => /\ req[h].revision > 0
                 /\ \/ revision[req[h].group] = 0
                    \/ req[h].revision <= revision[req[h].group]

GroupsInv ==
    /\ TypeOK /\ GroupsAreInhabited /\ CodesFollowInviter /\ Unborn
    /\ ListingIsDated /\ ListingIsComplete

LEMMA NoRequestType ==
    Anyone \in Devices /\ NoRequest \in Request
BY NullAssumption DEF Anyone, NoRequest, Request, RequestKinds

LEMMA GroupsInvInit == Init => GroupsInv
<1> SUFFICES ASSUME Init PROVE GroupsInv
  OBVIOUS
<1>1. TypeOK
  BY NoRequestType, NullAssumption DEF Init, TypeOK
<1>2. GroupsAreInhabited /\ CodesFollowInviter /\ Unborn
  BY DEF Init, GroupsAreInhabited, CodesFollowInviter, Unborn, Active,
         GroupExists
<1>3. ListingIsDated /\ ListingIsComplete
  BY DEF Init, ListingIsDated, ListingIsComplete
<1> QED BY <1>1, <1>2, <1>3 DEF GroupsInv

----------------------------------------------------------------------------
(* What a step does to the groups.                                          *)

\* No member comes to a group, and no revision moves, but upwards; a group
\* that is gone stays gone.
GroupsAdvance ==
    /\ \A d \in Devices : status[d] # "absent" => status'[d] # "absent"
    /\ \A g \in Devices :
         /\ status[g] # "absent" /\ revision[g] = 0 => revision'[g] = 0
         /\ revision[g] > 0 /\ revision'[g] > 0 =>
              \/ revision'[g] = revision[g] /\ Members(g)' = Members(g)
              \/ revision'[g] > revision[g]

\* The handlers that are not concerned keep what they hold.
OthersWait(h) ==
    \A k \in Handlers \ {h} : pc'[k] = pc[k] /\ req'[k] = req[k]

\* Answers and captures stay right while the groups advance.
LEMMA ListingsKeep ==
    ASSUME GroupsInv, NEW k \in Handlers, GroupsAdvance,
           revision' \in [Devices -> Nat],
           pc'[k] = pc[k], req'[k] = req[k]
    PROVE  /\ pc'[k] \in {"authorized", "listing", "listed"}
                => status'[req'[k].group] # "absent"
           /\ pc'[k] \in {"listing", "listed"}
                => /\ req'[k].revision > 0
                   /\ \/ revision'[req'[k].group] = 0
                      \/ req'[k].revision <= revision'[req'[k].group]
           /\ pc'[k] = "listed" /\ req'[k].revision = revision'[req'[k].group]
                => req'[k].heads = Members(req[k].group)'
<1>1. PICK g \in Devices : g = req[k].group /\ g = req'[k].group
  BY DEF GroupsInv, TypeOK, Request
<1>2. /\ req[k].revision \in Nat /\ revision[g] \in Nat
      /\ revision'[g] \in Nat
  BY <1>1 DEF GroupsInv, TypeOK, Request
<1>3. pc[k] \in {"authorized", "listing", "listed"} => status'[g] # "absent"
  BY <1>1 DEF GroupsInv, ListingIsDated, GroupsAdvance
<1>4. pc[k] \in {"listing", "listed"} =>
        /\ status[g] # "absent" /\ req[k].revision > 0
        /\ revision[g] = 0 \/ req[k].revision <= revision[g]
  BY <1>1 DEF GroupsInv, ListingIsDated
<1>5. pc[k] \in {"listing", "listed"} =>
        revision'[g] = 0 \/ req[k].revision <= revision'[g]
  BY <1>1, <1>2, <1>4 DEF GroupsAdvance
<1>6. ASSUME pc[k] = "listed", req[k].revision = revision'[g]
      PROVE  req[k].heads = Members(g)'
  <2>1. /\ revision'[g] > 0 /\ revision[g] > 0
        /\ revision[g] >= revision'[g]
    BY <1>2, <1>4, <1>6 DEF GroupsAdvance
  <2>2. revision'[g] = revision[g] /\ Members(g)' = Members(g)
    BY <1>2, <2>1 DEF GroupsAdvance
  <2> QED BY <1>1, <1>6, <2>2 DEF GroupsInv, ListingIsComplete
<1> QED BY <1>1, <1>3, <1>4, <1>5, <1>6 DEF Members

\* A handler that finishes, or that only other steps pass by, keeps both.
LEMMA ListingsHold ==
    ASSUME GroupsInv, TypeOK', GroupsAdvance,
           \A k \in Handlers :
              (pc'[k] = pc[k] /\ req'[k] = req[k]) \/ pc'[k] = "idle"
    PROVE  ListingIsDated' /\ ListingIsComplete'
<1>1. revision' \in [Devices -> Nat]
  BY DEF TypeOK
<1>2. ASSUME NEW k \in Handlers
      PROVE  /\ pc'[k] \in {"authorized", "listing", "listed"}
                  => status'[req'[k].group] # "absent"
             /\ pc'[k] \in {"listing", "listed"}
                  => /\ req'[k].revision > 0
                     /\ \/ revision'[req'[k].group] = 0
                        \/ req'[k].revision <= revision'[req'[k].group]
             /\ (pc'[k] = "listed"
                  /\ req'[k].revision = revision'[req'[k].group])
                  => req'[k].heads = Members(req[k].group)'
  <2>1. CASE pc'[k] = "idle"
    BY <2>1
  <2>2. CASE pc'[k] = pc[k] /\ req'[k] = req[k]
    BY <1>1, <2>2, ListingsKeep
  <2> QED BY <2>1, <2>2
<1> QED BY <1>2 DEF ListingIsDated, ListingIsComplete

LEMMA FinishedListingsHold ==
    ASSUME GroupsInv, TypeOK', GroupsAdvance, NEW h \in Handlers, Finish(h)
    PROVE  ListingIsDated' /\ ListingIsComplete'
<1>1. \A k \in Handlers :
        (pc'[k] = pc[k] /\ req'[k] = req[k]) \/ pc'[k] = "idle"
  BY DEF Finish, GroupsInv, TypeOK
<1> QED BY <1>1, ListingsHold

----------------------------------------------------------------------------
(* Types.                                                                   *)

LEMMA FinishType ==
    ASSUME TypeOK, NEW h \in Handlers, Finish(h)
    PROVE  /\ pc' \in [Handlers -> {"idle", "authorized", "listing", "listed"}]
           /\ req' \in [Handlers -> Request]
BY NoRequestType DEF TypeOK, Finish

LEMMA OwnTypesStep ==
    ASSUME TypeOK, NEW h \in Handlers,
           RequireSession(h) \/ ReadRevision(h) \/ ReadHeads(h)
    PROVE  TypeOK'
<1>1. /\ UNCHANGED <<status, group, revision, createdAt, codes, now>>
      /\ pc' \in [Handlers -> {"idle", "authorized", "listing", "listed"}]
  BY DEF RequireSession, ReadRevision, ReadHeads, TypeOK, dbVars, groupVars
<1>2. req' \in [Handlers -> Request]
  <2>1. CASE RequireSession(h)
    <3>1. PICK k \in Kinds, d \in Devices, e \in Devices :
            /\ group[d] # Null
            /\ \E r \in 1..revision[group[d]] :
                 req' = [req EXCEPT ![h] =
                   [kind |-> k, device |-> d, group |-> group[d],
                    target |-> e, revision |-> r,
                    at |-> IF k \in TimedKinds THEN now ELSE 0,
                    heads |-> {}]]
      BY <2>1 DEF RequireSession
    <3>2. group[d] \in Devices /\ k \in RequestKinds /\ now \in Nat
      BY <3>1, KindsAssumption DEF TypeOK
    <3>3. PICK r \in 1..revision[group[d]] :
            req' = [req EXCEPT ![h] =
                   [kind |-> k, device |-> d, group |-> group[d],
                    target |-> e, revision |-> r,
                    at |-> IF k \in TimedKinds THEN now ELSE 0,
                    heads |-> {}]]
      BY <3>1
    <3>4. r \in Nat
      BY <3>2 DEF TypeOK
    <3>5. [kind |-> k, device |-> d, group |-> group[d], target |-> e,
           revision |-> r, at |-> IF k \in TimedKinds THEN now ELSE 0,
           heads |-> {}] \in Request
      BY <3>2, <3>4 DEF Request
    <3> QED BY <3>3, <3>5 DEF TypeOK
  <2>2. CASE ReadRevision(h)
    <3>1. req[h] \in Request /\ revision[req[h].group] \in Nat
      BY DEF TypeOK, Request
    <3>2. [req[h] EXCEPT !.revision = revision[req[h].group]] \in Request
      BY <3>1 DEF Request
    <3>3. req' = [req EXCEPT ![h] = [req[h] EXCEPT !.revision =
                                        revision[req[h].group]]]
      BY <2>2 DEF ReadRevision, TypeOK
    <3> QED BY <3>2, <3>3 DEF TypeOK
  <2>3. CASE ReadHeads(h)
    <3>1. req[h] \in Request /\ Members(req[h].group) \in SUBSET Devices
      BY DEF TypeOK, Members
    <3>2. [req[h] EXCEPT !.heads = Members(req[h].group)] \in Request
      BY <3>1 DEF Request
    <3>3. req' = [req EXCEPT ![h] = [req[h] EXCEPT !.heads =
                                        Members(req[h].group)]]
      BY <2>3 DEF ReadHeads, TypeOK
    <3> QED BY <3>2, <3>3 DEF TypeOK
  <2> QED BY <2>1, <2>2, <2>3
<1> QED BY <1>1, <1>2 DEF TypeOK

----------------------------------------------------------------------------
(* The groups, action by action.                                            *)

RevisionGrows ==
    \A d \in Devices : group[d] # Null /\ group'[d] # Null =>
        \/ MembersOf(d)' = MembersOf(d) /\ RevisionOf(d)' = RevisionOf(d)
        \/ RevisionOf(d)' > RevisionOf(d)

GroupsStep ==
    /\ GroupsAreInhabited' /\ Unborn'
    /\ GroupsAdvance /\ RevisionGrows

\* Steps that leave groups and revisions alone; a revocation is one.
LEMMA GroupsRest ==
    ASSUME GroupsInv, UNCHANGED <<group, revision>>,
           \A d \in Devices : \/ status'[d] = status[d]
                              \/ status[d] = "active" /\ status'[d] = "revoked"
    PROVE  GroupsStep
<1>1. GroupsAreInhabited'
  BY DEF GroupsInv, GroupsAreInhabited, Active, GroupExists, Members,
         SameAccount
<1>2. Unborn'
  BY DEF GroupsInv, Unborn
<1>3. GroupsAdvance
  BY DEF GroupsAdvance, Members
<1>4. RevisionGrows
  BY DEF RevisionGrows, MembersOf, RevisionOf
<1> QED BY <1>1, <1>2, <1>3, <1>4 DEF GroupsStep

LEMMA EnrolmentKeepsGroups ==
    ASSUME GroupsInv, NEW d \in Devices, CreateDeviceEnrollment(d)
    PROVE  TypeOK' /\ GroupsStep
<1> USE DEF GroupsInv, TypeOK, CreateDeviceEnrollment
<1>1. TypeOK'
  BY DEF handlerVars
<1>2. \A e \in Devices : group[e] # d
  <2> SUFFICES ASSUME NEW e \in Devices, group[e] = d PROVE FALSE
    OBVIOUS
  <2>1. revision[d] > 0
    BY NullAssumption DEF GroupsAreInhabited, GroupExists
  <2> QED BY <2>1 DEF Unborn
<1>3. /\ Members(d)' = {d}
      /\ \A g \in Devices \ {d} : Members(g)' = Members(g)
  BY <1>2, NullAssumption DEF Members, Unborn
<1>4. GroupsAreInhabited'
  <2>1. \A e \in Devices : Active(e)' => group'[e] # Null
    BY NullAssumption DEF GroupsAreInhabited, Active
  <2>2. \A e \in Devices : group'[e] # Null =>
           revision'[group'[e]] > 0 /\ SameAccount(group'[e], e)
    BY <1>2 DEF GroupsAreInhabited, GroupExists, SameAccount
  <2>3. \A g \in Devices : revision'[g] > 0 => Members(g)' # {}
    BY <1>3 DEF GroupsAreInhabited, GroupExists
  <2> QED BY <2>1, <2>2, <2>3 DEF GroupsAreInhabited, GroupExists,
                                  SameAccount
<1>5. Unborn'
  BY DEF Unborn
<1>6. GroupsAdvance
  BY <1>3 DEF GroupsAdvance, Unborn
<1>7. RevisionGrows
  <2> SUFFICES ASSUME NEW e \in Devices, group[e] # Null, group'[e] # Null
               PROVE  /\ MembersOf(e)' = MembersOf(e)
                      /\ RevisionOf(e)' = RevisionOf(e)
    BY DEF RevisionGrows
  <2>1. e # d /\ group'[e] = group[e] /\ group[e] # d /\ group[e] \in Devices
    BY <1>2 DEF Unborn
  <2>2. revision'[group[e]] = revision[group[e]]
    BY <2>1
  <2>3. MembersOf(e)' = MembersOf(e)
    BY <1>3, <2>1 DEF MembersOf, Members
  <2> QED BY <2>1, <2>2, <2>3 DEF RevisionOf
<1> QED BY <1>1, <1>4, <1>5, <1>6, <1>7 DEF GroupsStep

\* What the proofs need to know of a merge.
Merged(win, lose, n, c) ==
    /\ win # lose /\ SameAccount(win, lose)
    /\ revision[win] > 0 /\ revision[lose] > 0
    /\ n > revision[win] /\ n > revision[lose]
    /\ group' = Moved(win, lose)
    /\ revision' = [revision EXCEPT ![win] = n, ![lose] = 0]
    /\ codes' = MigratedCodes(codes \ {c}, win, lose)
    /\ createdAt' = [createdAt EXCEPT ![lose] = 0]
    /\ UNCHANGED <<status, now>>

LEMMA MergeFacts ==
    ASSUME GroupsInv, NEW h \in Handlers, NEW c \in codes, MergeGroups(h, c)
    PROVE  \E win, lose \in Devices, n \in Nat :
              /\ Merged(win, lose, n, c)
              /\ win = Winner(c.group, group[req[h].device])
              /\ lose = Loser(c.group, group[req[h].device])
              /\ n = NextRevision(c.group, group[req[h].device])
<1>1. PICK left \in Devices : left = c.group
  BY DEF GroupsInv, TypeOK, Code
<1>2. PICK d \in Devices : d = req[h].device
  BY DEF GroupsInv, TypeOK, Request
<1>3. c.inviter \in Devices
  BY DEF GroupsInv, TypeOK, Code
<1>4. /\ SameAccount(c.inviter, d) /\ group[c.inviter] = left
      /\ group[d] # Null
  BY <1>1, <1>2 DEF MergeGroups, Redeemable
<1>5. PICK right \in Devices : right = group[d]
  BY <1>4 DEF GroupsInv, TypeOK
<1>6. SameAccount(left, right)
  BY <1>3, <1>4, <1>5, NullAssumption
     DEF GroupsInv, GroupsAreInhabited, SameAccount
<1>7. /\ left # right /\ revision[left] > 0 /\ revision[right] > 0
      /\ group' = Moved(Winner(left, right), Loser(left, right))
      /\ revision' = [revision EXCEPT
                        ![Winner(left, right)] = NextRevision(left, right),
                        ![Loser(left, right)] = 0]
      /\ codes' = MigratedCodes(codes \ {c}, Winner(left, right),
                                Loser(left, right))
      /\ createdAt' = [createdAt EXCEPT ![Loser(left, right)] = 0]
      /\ UNCHANGED <<status, now>>
  BY <1>1, <1>2, <1>5 DEF MergeGroups, GroupExists
<1>8. PICK win \in Devices, lose \in Devices :
        /\ win = Winner(left, right) /\ lose = Loser(left, right)
        /\ {win, lose} = {left, right} /\ win # lose
  BY <1>7 DEF Winner, Loser
<1>9. revision[left] \in Nat /\ revision[right] \in Nat
  BY DEF GroupsInv, TypeOK
<1>10. PICK n \in Nat : /\ n = NextRevision(left, right)
                        /\ n > revision[left] /\ n > revision[right]
  BY <1>9 DEF NextRevision
<1>11. /\ SameAccount(win, lose)
       /\ revision[win] > 0 /\ revision[lose] > 0
       /\ n > revision[win] /\ n > revision[lose]
  BY <1>6, <1>7, <1>8, <1>10 DEF SameAccount
<1>12. Merged(win, lose, n, c)
  BY <1>7, <1>8, <1>10, <1>11 DEF Merged
<1>13. c.group = left /\ group[req[h].device] = right
  BY <1>1, <1>2, <1>5
<1> QED BY <1>8, <1>10, <1>12, <1>13

LEMMA MergeKeepsGroups ==
    ASSUME GroupsInv, NEW h \in Handlers, NEW c \in codes, MergeGroups(h, c)
    PROVE  GroupsStep
<1>1. PICK win \in Devices, lose \in Devices, n \in Nat :
        Merged(win, lose, n, c)
  BY MergeFacts
<1> USE DEF Merged
<1>2. /\ \A d \in Devices :
           group'[d] = IF group[d] = lose THEN win ELSE group[d]
      /\ \A g \in Devices :
           revision'[g] = IF g = lose THEN 0
                          ELSE IF g = win THEN n ELSE revision[g]
      /\ revision \in [Devices -> Nat]
      /\ group \in [Devices -> Devices \cup {Null}]
  BY <1>1 DEF GroupsInv, TypeOK, Moved
<1>3. /\ \A g \in Devices \ {win, lose} : Members(g)' = Members(g)
      /\ Members(win) \subseteq Members(win)'
  BY <1>1, <1>2 DEF Members
<1>4. GroupsAreInhabited'
  <2>1. \A d \in Devices : Active(d)' => group'[d] # Null
    BY <1>1, <1>2, NullAssumption DEF GroupsInv, GroupsAreInhabited, Active
  <2>2. ASSUME NEW d \in Devices, group'[d] # Null
        PROVE  revision'[group'[d]] > 0 /\ SameAccount(group'[d], d)
    <3>1. group[d] # Null /\ group[d] \in Devices
      BY <1>1, <1>2, <2>2, NullAssumption
    <3>2. revision[group[d]] > 0 /\ SameAccount(group[d], d)
      BY <3>1 DEF GroupsInv, GroupsAreInhabited, GroupExists
    <3> QED BY <1>1, <1>2, <3>1, <3>2 DEF SameAccount
  <2>3. \A g \in Devices : revision'[g] > 0 => Members(g)' # {}
    BY <1>1, <1>2, <1>3 DEF GroupsInv, GroupsAreInhabited, GroupExists
  <2> QED BY <2>1, <2>2, <2>3 DEF GroupsAreInhabited, GroupExists,
                                  SameAccount
<1>5. Unborn'
  <2> SUFFICES ASSUME NEW d \in Devices, status[d] = "absent"
               PROVE  group'[d] = Null /\ revision'[d] = 0
    BY <1>1 DEF Unborn
  <2>1. group[d] = Null /\ revision[d] = 0
    BY DEF GroupsInv, Unborn
  <2> QED BY <1>1, <1>2, <2>1, NullAssumption
<1>6. GroupsAdvance
  <2>1. ASSUME NEW g \in Devices, revision[g] = 0
        PROVE  revision'[g] = 0
    BY <1>1, <1>2, <2>1
  <2>2. ASSUME NEW g \in Devices, revision[g] > 0, revision'[g] > 0
        PROVE  \/ revision'[g] = revision[g] /\ Members(g)' = Members(g)
               \/ revision'[g] > revision[g]
    BY <1>1, <1>2, <1>3, <2>2
  <2> QED BY <1>1, <2>1, <2>2 DEF GroupsAdvance
<1>7. RevisionGrows
  <2> SUFFICES ASSUME NEW d \in Devices, group[d] # Null, group'[d] # Null
               PROVE  \/ /\ MembersOf(d)' = MembersOf(d)
                         /\ RevisionOf(d)' = RevisionOf(d)
                      \/ RevisionOf(d)' > RevisionOf(d)
    BY DEF RevisionGrows
  <2>1. CASE group[d] \in {win, lose}
    BY <1>1, <1>2, <2>1 DEF RevisionOf
  <2>2. CASE group[d] \notin {win, lose}
    <3>1. group'[d] = group[d] /\ group[d] \in Devices
      BY <1>2, <2>2
    <3> QED BY <1>2, <1>3, <2>2, <3>1 DEF RevisionOf, MembersOf, Members
  <2> QED BY <2>1, <2>2
<1> QED BY <1>4, <1>5, <1>6, <1>7 DEF GroupsStep

\* What a discard leaves: the captured group and the other accounts.
LEMMA DiscardKeepsGroups ==
    ASSUME GroupsInv, NEW h \in Handlers, DiscardOtherGroups(h)
    PROVE  GroupsStep
<1>1. PICK d \in Devices, g \in Devices :
        d = req[h].device /\ g = req[h].group
  BY DEF GroupsInv, TypeOK, Request
<1>2. /\ group[d] = g /\ status[d] = "active"
      /\ status' = StatusAfterDiscard(d, g)
      /\ group' = [e \in Devices |-> IF e \in Others(d, g) THEN Null
                                     ELSE group[e]]
      /\ revision' = [e \in Devices |-> IF SameAccount(e, d) /\ e # g THEN 0
                                        ELSE revision[e]]
  BY <1>1 DEF DiscardOtherGroups, InCapturedGroup, Active, Deleted
<1>3. /\ revision \in [Devices -> Nat]
      /\ group \in [Devices -> Devices \cup {Null}]
      /\ SameAccount(g, d) /\ revision[g] > 0
  BY <1>1, <1>2, NullAssumption
     DEF GroupsInv, TypeOK, GroupsAreInhabited, GroupExists
<1> DEFINE Left(x) == x = g \/ ~SameAccount(x, d)
<1>4. \A e \in Devices :
        /\ e \in Others(d, g) => /\ group[e] \in Devices
                                 /\ ~Left(group[e]) /\ group'[e] = Null
                                 /\ status'[e] = "revoked"
        /\ e \notin Others(d, g) => /\ group[e] # Null => Left(group[e])
                                    /\ group'[e] = group[e]
                                    /\ status'[e] = status[e]
  BY <1>2, <1>3 DEF GroupsInv, GroupsAreInhabited, Others,
         StatusAfterDiscard, SameAccount
<1>5. \A x \in Devices :
        /\ Left(x) => revision'[x] = revision[x]
        /\ ~Left(x) => revision'[x] = 0
  BY <1>2, <1>3
<1> HIDE DEF Left
<1>6. \A x \in Devices : Left(x) => Members(x)' = Members(x)
  BY <1>4, NullAssumption DEF Members
<1>7. GroupsAreInhabited'
  <2>1. \A e \in Devices : Active(e)' => group'[e] # Null
    BY <1>4 DEF GroupsInv, GroupsAreInhabited, Active
  <2>2. \A e \in Devices : group'[e] # Null =>
           revision'[group'[e]] > 0 /\ SameAccount(group'[e], e)
    BY <1>3, <1>4, <1>5 DEF GroupsInv, GroupsAreInhabited, GroupExists
  <2>3. \A x \in Devices : revision'[x] > 0 => Members(x)' # {}
    BY <1>5, <1>6 DEF GroupsInv, GroupsAreInhabited, GroupExists
  <2> QED BY <2>1, <2>2, <2>3 DEF GroupsAreInhabited, GroupExists,
                                  SameAccount
<1>8. Unborn'
  BY <1>3, <1>4, <1>5 DEF GroupsInv, Unborn
<1>9. GroupsAdvance
  <2>1. \A e \in Devices : status[e] # "absent" => status'[e] # "absent"
    BY <1>4
  <2> QED BY <1>3, <1>5, <1>6, <2>1 DEF GroupsAdvance
<1>10. RevisionGrows
  <2> SUFFICES ASSUME NEW e \in Devices, group[e] # Null, group'[e] # Null
               PROVE  /\ MembersOf(e)' = MembersOf(e)
                      /\ RevisionOf(e)' = RevisionOf(e)
    BY DEF RevisionGrows
  <2>1. group'[e] = group[e] /\ group[e] \in Devices /\ Left(group[e])
    BY <1>3, <1>4
  <2> QED BY <1>5, <1>6, <2>1 DEF MembersOf, RevisionOf, Members
<1> QED BY <1>7, <1>8, <1>9, <1>10 DEF GroupsStep

----------------------------------------------------------------------------
(* The codes.                                                               *)

\* Codes are only taken away, from groups that stay what they are.
LEMMA FewerCodes ==
    ASSUME GroupsInv, codes' \subseteq codes,
           \A c \in codes' : /\ group'[c.inviter] = group[c.inviter]
                             /\ revision'[c.group] = revision[c.group]
    PROVE  CodesFollowInviter' /\ codes' \subseteq Code
BY DEF GroupsInv, TypeOK, CodesFollowInviter, GroupExists, SameAccount

LEMMA GeneratedCodes ==
    ASSUME GroupsInv, NEW h \in Handlers, GenerateCode(h)
    PROVE  CodesFollowInviter' /\ codes' \subseteq Code
<1>1. PICK d \in Devices, g \in Devices, t \in Nat :
        /\ d = req[h].device /\ g = req[h].group /\ group[d] = g
        /\ revision[g] > 0
        /\ \E m \in FreeMacs(d, RemainingCodes(d, t)) :
             codes' = RemainingCodes(d, t) \cup
                        {[mac |-> m, inviter |-> d, group |-> g,
                          expires |-> t + CodeTTL]}
  <2>1. /\ req[h].device \in Devices /\ req[h].group \in Devices
        /\ Instants(h) \subseteq Nat
    BY DEF GroupsInv, TypeOK, Request, Instants
  <2> QED BY <2>1 DEF GenerateCode, InCapturedGroup, GroupExists
<1>2. PICK m \in FreeMacs(d, RemainingCodes(d, t)) :
        codes' = RemainingCodes(d, t) \cup
                        {[mac |-> m, inviter |-> d, group |-> g,
                          expires |-> t + CodeTTL]}
  BY <1>1
<1>3. PICK new \in Code :
        /\ new = [mac |-> m, inviter |-> d, group |-> g,
                  expires |-> t + CodeTTL]
        /\ new.mac = m /\ new.inviter = d /\ new.group = g
  <2>1. m \in Macs /\ t + CodeTTL \in Nat
    BY ParameterAssumption DEF FreeMacs
  <2>2. [mac |-> m, inviter |-> d, group |-> g,
         expires |-> t + CodeTTL] \in Code
    BY <2>1 DEF Code
  <2> QED BY <2>2
<1>4. /\ UNCHANGED <<group, revision>>
      /\ codes' = RemainingCodes(d, t) \cup {new}
  BY <1>2, <1>3 DEF GenerateCode, groupVars
<1>5. /\ RemainingCodes(d, t) \subseteq codes
      /\ \A k \in RemainingCodes(d, t) :
           /\ k.inviter # d
           /\ SameAccount(k.inviter, d) => k.mac # m
  BY <1>2 DEF RemainingCodes, FreeMacs
<1>6. \A c \in codes' : group'[c.inviter] = c.group /\ GroupExists(c.group)'
  BY <1>1, <1>3, <1>4, <1>5 DEF GroupsInv, CodesFollowInviter, GroupExists
<1>7. ASSUME NEW c \in codes', NEW k \in codes', c # k
      PROVE  /\ c.inviter # k.inviter
             /\ SameAccount(c.inviter, k.inviter) => c.mac # k.mac
  <2>1. CASE c = new
    BY <1>3, <1>4, <1>5, <1>7, <2>1 DEF SameAccount
  <2>2. CASE k = new
    BY <1>3, <1>4, <1>5, <1>7, <2>2 DEF SameAccount
  <2>3. CASE c # new /\ k # new
    BY <1>4, <1>5, <1>7, <2>3 DEF GroupsInv, CodesFollowInviter
  <2> QED BY <2>1, <2>2, <2>3
<1> QED BY <1>3, <1>4, <1>5, <1>6, <1>7
        DEF CodesFollowInviter, GroupsInv, TypeOK, SameAccount

LEMMA MergedCodes ==
    ASSUME GroupsInv, NEW h \in Handlers, NEW c \in codes, MergeGroups(h, c)
    PROVE  CodesFollowInviter' /\ codes' \subseteq Code
<1>1. PICK win \in Devices, lose \in Devices, n \in Nat :
        Merged(win, lose, n, c)
  BY MergeFacts
<1>2. ASSUME NEW k \in codes'
      PROVE  \E o \in codes :
               /\ k = [o EXCEPT !.group = IF @ = lose THEN win ELSE @]
               /\ k \in Code
               /\ k.inviter = o.inviter /\ k.mac = o.mac
               /\ k.group = IF o.group = lose THEN win ELSE o.group
  BY <1>1, <1>2 DEF Merged, MigratedCodes, GroupsInv, TypeOK, Code
<1>3. ASSUME NEW k \in codes'
      PROVE  group'[k.inviter] = k.group /\ revision'[k.group] > 0
  <2>1. PICK o \in codes :
          /\ k.inviter = o.inviter /\ o.inviter \in Devices
          /\ o.group \in Devices
          /\ k.group = IF o.group = lose THEN win ELSE o.group
    BY <1>2, <1>3 DEF GroupsInv, TypeOK, Code
  <2>2. group[o.inviter] = o.group /\ revision[o.group] > 0
    BY DEF GroupsInv, CodesFollowInviter, GroupExists
  <2> QED BY <1>1, <2>1, <2>2 DEF Merged, Moved, GroupsInv, TypeOK
<1>4. ASSUME NEW k \in codes', NEW l \in codes', k # l
      PROVE  /\ k.inviter # l.inviter
             /\ SameAccount(k.inviter, l.inviter) => k.mac # l.mac
  <2>1. PICK o \in codes, p \in codes :
          /\ k.inviter = o.inviter /\ k.mac = o.mac
          /\ l.inviter = p.inviter /\ l.mac = p.mac
          /\ o # p
    BY <1>2, <1>4
  <2> QED BY <2>1 DEF GroupsInv, CodesFollowInviter
<1> QED BY <1>2, <1>3, <1>4 DEF CodesFollowInviter, GroupExists, SameAccount

\* The codes of deleted groups go with them.
LEMMA DiscardedCodes ==
    ASSUME GroupsInv, NEW h \in Handlers, DiscardOtherGroups(h)
    PROVE  CodesFollowInviter' /\ codes' \subseteq Code
<1>1. PICK d \in Devices, g \in Devices :
        /\ d = req[h].device /\ g = req[h].group /\ group[d] = g
        /\ group' = [e \in Devices |-> IF e \in Others(d, g) THEN Null
                                       ELSE group[e]]
        /\ revision' = [e \in Devices |-> IF SameAccount(e, d) /\ e # g
                                          THEN 0 ELSE revision[e]]
        /\ codes' = {c \in codes : ~SameAccount(c.group, d) \/ c.group = g}
  BY DEF GroupsInv, TypeOK, Request, DiscardOtherGroups, InCapturedGroup,
         Deleted
<1>2. ASSUME NEW c \in codes'
      PROVE  /\ group'[c.inviter] = group[c.inviter]
             /\ revision'[c.group] = revision[c.group]
  <2>1. /\ c \in codes /\ c.inviter \in Devices /\ c.group \in Devices
        /\ ~SameAccount(c.group, d) \/ c.group = g
        /\ group[c.inviter] = c.group
    BY <1>1 DEF GroupsInv, TypeOK, Code, CodesFollowInviter
  <2>2. SameAccount(c.group, c.inviter)
    BY <2>1, NullAssumption DEF GroupsInv, GroupsAreInhabited
  <2>3. c.inviter \notin Others(d, g)
    BY <2>1, <2>2 DEF Others, SameAccount
  <2> QED BY <1>1, <2>1, <2>3
<1> QED BY <1>1, <1>2, FewerCodes

----------------------------------------------------------------------------
(* Every step.                                                              *)

GroupsNext == GroupsInv' /\ RevisionGrows

LEMMA FinishingStep ==
    ASSUME GroupsInv, NEW h \in Handlers, Finish(h),
           TypeOK', GroupsStep, CodesFollowInviter'
    PROVE  GroupsNext
BY FinishedListingsHold DEF GroupsNext, GroupsInv, GroupsStep

LEMMA QuietStep ==
    ASSUME GroupsInv, UNCHANGED <<status, group, revision, codes>>
    PROVE  GroupsStep /\ CodesFollowInviter'
<1>1. GroupsStep
  BY GroupsRest
<1>2. CodesFollowInviter'
  BY DEF GroupsInv, CodesFollowInviter, GroupExists, SameAccount
<1> QED BY <1>1, <1>2

LEMMA OwnStep ==
    ASSUME GroupsInv, NEW h \in Handlers,
           RequireSession(h) \/ ReadRevision(h) \/ ReadHeads(h)
    PROVE  GroupsNext
<1>1. TypeOK'
  BY OwnTypesStep DEF GroupsInv
<1>2. UNCHANGED <<status, group, revision, codes>>
  BY DEF RequireSession, ReadRevision, ReadHeads, dbVars, groupVars
<1>3. GroupsStep /\ CodesFollowInviter'
  BY <1>2, QuietStep
<1>4. ASSUME NEW k \in Handlers
      PROVE  /\ pc'[k] \in {"authorized", "listing", "listed"}
                  => status'[req'[k].group] # "absent"
             /\ pc'[k] \in {"listing", "listed"}
                  => /\ req'[k].revision > 0
                     /\ \/ revision'[req'[k].group] = 0
                        \/ req'[k].revision <= revision'[req'[k].group]
             /\ (pc'[k] = "listed"
                  /\ req'[k].revision = revision'[req'[k].group])
                  => req'[k].heads = Members(req[k].group)'
  <2>1. revision \in [Devices -> Nat] /\ req[k] \in Request
    BY DEF GroupsInv, TypeOK
  <2>2. CASE k # h
    <3>1. pc'[k] = pc[k] /\ req'[k] = req[k]
      BY <2>2 DEF RequireSession, ReadRevision, ReadHeads, GroupsInv, TypeOK
    <3> QED BY <1>2, <1>3, <2>1, <3>1, ListingsKeep DEF GroupsStep
  <2>3. CASE k = h /\ RequireSession(h)
    <3>1. PICK d \in Devices : /\ group[d] # Null
                               /\ req'[h].group = group[d]
      BY <2>3 DEF RequireSession, GroupsInv, TypeOK
    <3>2. group[d] \in Devices /\ revision[group[d]] > 0
      BY <3>1 DEF GroupsInv, TypeOK, GroupsAreInhabited, GroupExists
    <3>3. status[group[d]] # "absent"
      BY <3>2 DEF GroupsInv, Unborn
    <3>4. pc'[h] = "authorized"
      BY <2>3 DEF RequireSession, GroupsInv, TypeOK
    <3> QED BY <1>2, <2>3, <3>1, <3>3, <3>4
  <2>4. CASE k = h /\ ReadRevision(h)
    <3>1. /\ pc[h] = "authorized" /\ pc'[h] = "listing"
          /\ req'[h].group = req[h].group
          /\ req'[h].revision = revision[req[h].group]
          /\ revision[req[h].group] > 0
      BY <2>1, <2>4 DEF ReadRevision, Serves, GroupExists, GroupsInv,
             TypeOK, Request
    <3>2. status[req[h].group] # "absent"
      BY <3>1 DEF GroupsInv, ListingIsDated
    <3>3. revision[req[h].group] \in Nat
      BY <2>1, <2>4 DEF Request
    <3> QED BY <1>2, <2>4, <3>1, <3>2, <3>3
  <2>5. CASE k = h /\ ReadHeads(h)
    <3>1. /\ pc[h] = "listing" /\ pc'[h] = "listed"
          /\ req'[h].group = req[h].group
          /\ req'[h].revision = req[h].revision
          /\ req'[h].heads = Members(req[h].group)
      BY <2>1, <2>5 DEF ReadHeads, GroupsInv, TypeOK, Request
    <3>2. Members(req[h].group)' = {e \in Devices : group[e] = req[h].group}
      BY <1>2, <3>1 DEF Members
    <3> QED BY <1>2, <2>5, <3>1, <3>2
            DEF GroupsInv, ListingIsDated, Members
  <2> QED BY <2>2, <2>3, <2>4, <2>5
<1>5. ListingIsDated' /\ ListingIsComplete'
  BY <1>4 DEF ListingIsDated, ListingIsComplete
<1> QED BY <1>1, <1>3, <1>5 DEF GroupsNext, GroupsStep, GroupsInv

LEMMA MergeStep ==
    ASSUME GroupsInv, NEW h \in Handlers, NEW c \in codes, MergeGroups(h, c)
    PROVE  GroupsNext
<1>1. Finish(h)
  BY DEF MergeGroups
<1>2. PICK win \in Devices, lose \in Devices, n \in Nat :
        Merged(win, lose, n, c)
  BY MergeFacts
<1>3. group' \in [Devices -> Devices \cup {Null}]
  BY <1>2 DEF Merged, Moved, GroupsInv, TypeOK
<1>4. /\ revision' \in [Devices -> Nat] /\ codes' \subseteq Code
      /\ createdAt' \in [Devices -> Nat]
      /\ UNCHANGED <<status, now>>
  BY <1>2, MergedCodes DEF Merged, GroupsInv, TypeOK
<1>5. TypeOK'
  BY <1>1, <1>3, <1>4, FinishType DEF GroupsInv, TypeOK
<1> QED BY <1>1, <1>5, MergeKeepsGroups, MergedCodes, FinishingStep

LEMMA DiscardStep ==
    ASSUME GroupsInv, NEW h \in Handlers, DiscardOtherGroups(h)
    PROVE  GroupsNext
<1>1. Finish(h)
  BY DEF DiscardOtherGroups
<1>2. /\ status' \in [Devices -> {"absent", "active", "revoked"}]
      /\ group' \in [Devices -> Devices \cup {Null}]
      /\ revision' \in [Devices -> Nat]
      /\ createdAt' \in [Devices -> Nat] /\ UNCHANGED now
  BY DEF DiscardOtherGroups, StatusAfterDiscard, GroupsInv, TypeOK, Deleted
<1>3. TypeOK'
  BY <1>1, <1>2, FinishType, DiscardedCodes DEF GroupsInv, TypeOK
<1> QED BY <1>1, <1>3, DiscardKeepsGroups, DiscardedCodes, FinishingStep

LEMMA RevokeStep ==
    ASSUME GroupsInv, NEW h \in Handlers, RevokeDevice(h)
    PROVE  GroupsNext
<1>1. Finish(h) /\ UNCHANGED <<group, revision, createdAt, codes, now>>
  BY DEF RevokeDevice
<1>2. /\ status' \in [Devices -> {"absent", "active", "revoked"}]
      /\ \A d \in Devices : \/ status'[d] = status[d]
                            \/ status[d] = "active" /\ status'[d] = "revoked"
  BY DEF RevokeDevice, Active, GroupsInv, TypeOK
<1>3. TypeOK'
  BY <1>1, <1>2, FinishType DEF GroupsInv, TypeOK
<1>4. GroupsStep
  BY <1>1, <1>2, GroupsRest
<1>5. CodesFollowInviter'
  BY <1>1 DEF GroupsInv, CodesFollowInviter, GroupExists, SameAccount
<1> QED BY <1>1, <1>3, <1>4, <1>5, FinishingStep

\* A code is issued, redeemed within the group, or the request given up.
LEMMA CodeStep ==
    ASSUME GroupsInv, NEW h \in Handlers,
           \/ Abandon(h) \/ GenerateCode(h)
           \/ \E c \in codes : AlreadyJoined(h, c)
    PROVE  GroupsNext
<1>1. Finish(h) /\ UNCHANGED <<groupVars, now>>
  BY DEF Abandon, GenerateCode, AlreadyJoined, dbVars
<1>2. CodesFollowInviter' /\ codes' \subseteq Code
  <2>1. CASE GenerateCode(h)
    BY <2>1, GeneratedCodes
  <2>2. CASE Abandon(h) \/ \E c \in codes : AlreadyJoined(h, c)
    <3>1. codes' \subseteq codes
      BY <2>2 DEF Abandon, AlreadyJoined, dbVars
    <3> QED BY <1>1, <3>1, FewerCodes DEF groupVars
  <2> QED BY <2>1, <2>2
<1>3. TypeOK'
  BY <1>1, <1>2, FinishType DEF groupVars, GroupsInv, TypeOK
<1>4. GroupsStep
  BY <1>1, GroupsRest DEF groupVars
<1> QED BY <1>1, <1>2, <1>3, <1>4, FinishingStep

\* An enrolment, a tick of the clock, or nothing.
LEMMA IdleStep ==
    ASSUME GroupsInv,
           \/ \E d \in Devices : CreateDeviceEnrollment(d)
           \/ Tick \/ UNCHANGED vars
    PROVE  GroupsNext
<1>1. UNCHANGED <<codes, handlerVars>>
  BY DEF CreateDeviceEnrollment, Tick, vars, dbVars
<1>2. TypeOK' /\ GroupsStep /\ CodesFollowInviter'
  <2>1. CASE \E d \in Devices : CreateDeviceEnrollment(d)
    <3>1. PICK d \in Devices : CreateDeviceEnrollment(d)
      BY <2>1
    <3>2. \A c \in codes : /\ group'[c.inviter] = group[c.inviter]
                           /\ revision'[c.group] = revision[c.group]
      BY <3>1, NullAssumption
         DEF CreateDeviceEnrollment, GroupsInv, TypeOK, Unborn, Code,
             CodesFollowInviter, GroupExists
    <3> QED BY <1>1, <3>1, <3>2, EnrolmentKeepsGroups, FewerCodes
  <2>2. CASE Tick \/ UNCHANGED vars
    <3>1. UNCHANGED <<status, group, revision, createdAt, codes, pc, req>>
      BY <2>2 DEF Tick, vars, dbVars, groupVars, handlerVars
    <3>2. now' \in Nat
      BY <2>2 DEF Tick, vars, GroupsInv, TypeOK
    <3>3. TypeOK'
      BY <3>1, <3>2 DEF GroupsInv, TypeOK
    <3> QED BY <3>1, <3>3, QuietStep
  <2> QED BY <2>1, <2>2
<1>3. ListingIsDated' /\ ListingIsComplete'
  BY <1>1, <1>2, ListingsHold DEF handlerVars, GroupsStep
<1> QED BY <1>2, <1>3 DEF GroupsNext, GroupsInv, GroupsStep

LEMMA EveryStep ==
    ASSUME GroupsInv, [Next]_vars PROVE GroupsNext
<1>1. ASSUME NEW h \in Handlers, HandlerStep(h) PROVE GroupsNext
  BY <1>1, OwnStep, CodeStep, MergeStep, RevokeStep, DiscardStep
     DEF HandlerStep, RedeemSyncCode
<1> QED BY <1>1, IdleStep DEF Next

----------------------------------------------------------------------------
(* The theorems.                                                            *)

THEOREM GroupsAlwaysInv == Spec => []GroupsInv
<1>1. GroupsInv /\ [Next]_vars => GroupsInv'
  BY EveryStep DEF GroupsNext
<1> QED BY <1>1, GroupsInvInit, PTL DEF Spec

\* The variables keep their types.
THEOREM GroupsTypeCorrect == Spec => []TypeOK
BY GroupsAlwaysInv, PTL DEF GroupsInv

\* No merge or discard leaves an active device without a group, a device in
\* a group that is gone or of another account, or a group without devices.
THEOREM GroupsAlwaysInhabited == Spec => []GroupsAreInhabited
BY GroupsAlwaysInv, PTL DEF GroupsInv

\* A live code names the group its inviter is in now, whatever merges came
\* after it was issued, and identifies one invitation.
THEOREM CodesAlwaysFollow == Spec => []CodesFollowInviter
BY GroupsAlwaysInv, PTL DEF GroupsInv

\* A listing whose revision is still that of its group is complete.
THEOREM ListingAlwaysComplete == Spec => []ListingIsComplete
BY GroupsAlwaysInv, PTL DEF GroupsInv

\* The members of a device's group change only together with an advance of
\* the revision it sees, through any number of merges.
THEOREM RevisionAlwaysTells == Spec => RevisionTellsGrowth
<1>1. GroupsInv /\ [Next]_vars => RevisionGrows
  BY EveryStep DEF GroupsNext
<1>2. GroupsInv /\ [Next]_vars => [RevisionGrows]_vars
  BY <1>1
<1>3. Spec => [][RevisionGrows]_vars
  BY <1>2, GroupsAlwaysInv, PTL DEF Spec
<1> QED BY <1>3, PTL DEF RevisionTellsGrowth, RevisionGrows

=============================================================================
