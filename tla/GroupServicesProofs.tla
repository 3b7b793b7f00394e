------------------------- MODULE GroupServicesProofs -------------------------
(***************************************************************************)
(* Theorems about what Lumina Relay builds on its sync groups, for every   *)
(* value of the constants: the session snapshots of SessionFiles and the   *)
(* notifications of GroupEvents.  Both take the groups themselves from     *)
(* DeviceGroupsProofs: all their steps but a restart are steps of          *)
(* DeviceGroups or leave its variables alone.                              *)
(***************************************************************************)
EXTENDS SessionFiles, GroupEvents, DeviceGroupsProofs

----------------------------------------------------------------------------
(* Session snapshots.  A version identifies a text as long as nobody holds  *)
(* a later version than the table, which is the inductive part.             *)

\* The copies of snapshot s: the row, what clients know of it, and what the
\* requests under way name.
Held(s) ==
    ({files[s]} \cup {seen[d][s] : d \in Devices}
                \cup {base[h][s] : h \in Handlers}) \ {Null}

SameText(r, q) == r.born = q.born /\ r.version = q.version /\ r.text = q.text

\* Texts are numbered in the order they were stored; of the snapshot that is
\* in the table nobody has a version that is still to come.
CopiesInOrder(s) ==
    /\ \A r \in Held(s) : 1 <= r.born /\ r.born <= r.text /\ r.text <= writes
    /\ files[s] # Null =>
         \A r \in Held(s) :
           /\ r.born <= files[s].born
           /\ r.born = files[s].born => r.version <= files[s].version
    /\ \A r, q \in Held(s) :
         r.born = q.born /\ r.version = q.version => r.text = q.text

FilesInv ==
    /\ GroupsInv /\ FilesTypeOK /\ FilesHaveGroups
    /\ \A s \in Sessions : CopiesInOrder(s)

LEMMA FilesInvInit == FilesInit => FilesInv
<1> SUFFICES ASSUME FilesInit PROVE FilesInv
  OBVIOUS
<1>1. GroupsInv
  BY GroupsInvInit DEF FilesInit
<1>2. FilesTypeOK
  BY <1>1 DEF GroupsInv, FilesInit, FilesTypeOK, NoFiles
<1>3. FilesHaveGroups
  BY DEF FilesInit, FilesHaveGroups, NoFiles
<1>4. \A s \in Sessions : CopiesInOrder(s)
  BY DEF FilesInit, NoFiles, CopiesInOrder, Held
<1> QED BY <1>1, <1>2, <1>3, <1>4 DEF FilesInv

LEMMA HeldTypes ==
    ASSUME FilesTypeOK, NEW s \in Sessions, NEW r \in Held(s)
    PROVE  r.version \in Nat /\ r.text \in Nat /\ r.born \in Nat
BY DEF FilesTypeOK, Held, File, Copy

\* For the groups, a request for a snapshot is one that is given up.
LEMMA FilesStepIsGroupsStep ==
    ASSUME [FilesNext]_filesVars PROVE [Next]_vars
<1>1. ASSUME NEW h \in Handlers, NEW s \in Sessions, FileStep(h, s)
      PROVE  Abandon(h)
  BY <1>1 DEF FileStep, GetSessionFile, CreateSessionFile,
     ReplaceSessionFile, DeleteSessionFile, Store, Answered, Serves, Abandon
<1>2. ASSUME NEW h \in Handlers, GroupStep(h)
      PROVE  HandlerStep(h)
  BY <1>2 DEF GroupStep, HandlerStep, SendRequest, RefuseFile, MergeFiles,
     DiscardFiles, RedeemSyncCode
<1> QED BY <1>1, <1>2 DEF FilesNext, Next, HandlerStep, filesVars

\* What is proved of the groups holds with snapshots on top of them.
THEOREM FilesImplementGroups == FilesSpec => Spec
<1>1. FilesInit => Init
  BY DEF FilesInit
<1> QED BY <1>1, FilesStepIsGroupsStep, PTL DEF FilesSpec, Spec

LEMMA FilesGroupsStep ==
    ASSUME GroupsInv, [FilesNext]_filesVars PROVE GroupsNext
BY FilesStepIsGroupsStep, EveryStep

----------------------------------------------------------------------------
(* How the copies of a snapshot change in a step.                           *)

\* No new text: copies are handed on or forgotten.
TextsKeep(s) ==
    /\ writes' \in {writes, writes + 1}
    /\ \A r \in Held(s)' : \E q \in Held(s) : SameText(r, q)
    /\ files'[s] # Null => files[s] # Null /\ SameText(files'[s], files[s])

\* The next text is stored, as the first or as the next version.
TextStored(s) ==
    /\ writes' = writes + 1
    /\ files'[s] # Null /\ files'[s].text = writes'
    /\ \A r \in Held(s)' : \/ SameText(r, files'[s])
                           \/ \E q \in Held(s) : SameText(r, q)
    /\ \/ files[s] = Null /\ files'[s].born = writes'
       \/ /\ files[s] # Null /\ files'[s].born = files[s].born
          /\ files'[s].version = files[s].version + 1

LEMMA KeptInOrder ==
    ASSUME FilesTypeOK, NEW s \in Sessions, CopiesInOrder(s), TextsKeep(s)
    PROVE  CopiesInOrder(s)'
<1>1. /\ writes \in Nat /\ writes' >= writes
      /\ \A q \in Held(s) :
           q.version \in Nat /\ q.text \in Nat /\ q.born \in Nat
  BY HeldTypes DEF FilesTypeOK, TextsKeep
<1>2. \A r \in Held(s)' : 1 <= r.born /\ r.born <= r.text /\ r.text <= writes'
  BY <1>1 DEF TextsKeep, CopiesInOrder, SameText
<1>3. ASSUME files'[s] # Null, NEW r \in Held(s)'
      PROVE  /\ r.born <= files'[s].born
             /\ r.born = files'[s].born => r.version <= files'[s].version
  BY <1>3 DEF TextsKeep, CopiesInOrder, SameText
<1>4. \A r, q \in Held(s)' :
         r.born = q.born /\ r.version = q.version => r.text = q.text
  BY DEF TextsKeep, CopiesInOrder, SameText
<1> QED BY <1>2, <1>3, <1>4 DEF CopiesInOrder

LEMMA StoredInOrder ==
    ASSUME FilesTypeOK, FilesTypeOK', NEW s \in Sessions, CopiesInOrder(s),
           TextStored(s)
    PROVE  CopiesInOrder(s)'
<1>1. /\ writes \in Nat /\ writes' = writes + 1
      /\ \A q \in Held(s) :
           q.version \in Nat /\ q.text \in Nat /\ q.born \in Nat
  BY HeldTypes DEF FilesTypeOK, TextStored
<1>2. files[s] # Null => files[s] \in Held(s)
  BY DEF Held
<1>3. /\ 1 <= files'[s].born /\ files'[s].born <= files'[s].text
      /\ files'[s].text = writes + 1 /\ files'[s].born \in Nat
  BY <1>1, <1>2 DEF TextStored, CopiesInOrder
<1>4. ASSUME NEW q \in Held(s)
      PROVE  /\ 1 <= q.born /\ q.born <= q.text /\ q.text <= writes
             /\ q.born <= files'[s].born
             /\ q.born = files'[s].born => q.version < files'[s].version
  BY <1>1, <1>2 DEF TextStored, CopiesInOrder
<1>5. \A r \in Held(s)' :
         /\ 1 <= r.born /\ r.born <= r.text /\ r.text <= writes'
         /\ r.born <= files'[s].born
         /\ r.born = files'[s].born =>
              \/ SameText(r, files'[s])
              \/ r.version < files'[s].version
  BY <1>1, <1>3, <1>4 DEF TextStored, SameText
<1>6. /\ files'[s].version \in Nat
      /\ \A r \in Held(s)' :
           r.born = files'[s].born => r.version <= files'[s].version
  <2>1. files'[s].version \in Nat
    BY DEF FilesTypeOK, TextStored, File
  <2>2. \A r \in Held(s)' : r.version \in Nat
    BY <1>1, <2>1 DEF TextStored, SameText
  <2> QED BY <1>5, <2>1, <2>2 DEF SameText
<1>7. ASSUME NEW r \in Held(s)', NEW q \in Held(s)',
             r.born = q.born, r.version = q.version
      PROVE  r.text = q.text
  <2> DEFINE row == files'[s]
  <2>1. CASE SameText(r, row)
    <3>1. q.born = row.born /\ q.version = row.version
      BY <1>7, <2>1 DEF SameText
    <3>2. SameText(q, row)
      BY <1>4, <1>6, <3>1 DEF TextStored, SameText
    <3> QED BY <2>1, <3>2 DEF SameText
  <2>2. CASE SameText(q, row)
    <3>1. r.born = row.born /\ r.version = row.version
      BY <1>7, <2>2 DEF SameText
    <3>2. SameText(r, row)
      BY <1>4, <1>6, <3>1 DEF TextStored, SameText
    <3> QED BY <2>2, <3>2 DEF SameText
  <2>3. CASE ~SameText(r, row) /\ ~SameText(q, row)
    BY <1>7, <2>3 DEF TextStored, CopiesInOrder, SameText
  <2> QED BY <2>1, <2>2, <2>3
<1> QED BY <1>5, <1>6, <1>7 DEF CopiesInOrder

\* What a client learns of one snapshot, it learns of the row it is answered.
LEMMA LearnFacts ==
    ASSUME FilesTypeOK, NEW h \in Handlers, NEW s \in Sessions,
           NEW row \in File \cup {Null}, Learn(h, s, row)
    PROVE  /\ seen' \in [Devices -> [Sessions -> Copy \cup {Null}]]
           /\ \A d \in Devices, x \in Sessions :
                \/ seen'[d][x] = seen[d][x]
                \/ x = s /\ seen'[d][x] = CopyOf(row)
<1>1. req[h].device \in Devices
  BY DEF FilesTypeOK, TypeOK, Request
<1>2. CopyOf(row) \in Copy \cup {Null}
  BY DEF CopyOf, File, Copy
<1> QED BY SMTT(30), <1>1, <1>2 DEF FilesTypeOK, Learn

\* The handler that answers forgets what its client knew.
LEMMA AnsweredFacts ==
    ASSUME FilesTypeOK, NEW h \in Handlers,
           base' = [base EXCEPT ![h] = NoFiles]
    PROVE  /\ base' \in [Handlers -> [Sessions -> Copy \cup {Null}]]
           /\ \A k \in Handlers, x \in Sessions :
                base'[k][x] \in {base[k][x], Null}
BY DEF FilesTypeOK, NoFiles

\* Copies that come from copies.
LEMMA NothingStored ==
    ASSUME FilesTypeOK, NEW x \in Sessions, writes' \in {writes, writes + 1},
           files'[x] # Null => files[x] # Null /\ SameText(files'[x], files[x]),
           \A d \in Devices :
              \/ seen'[d][x] \in {seen[d][x], Null}
              \/ files[x] # Null /\ SameText(seen'[d][x], files[x]),
           \A k \in Handlers :
              \/ base'[k][x] \in {base[k][x], Null}
              \/ \E d \in Devices : base'[k][x] = seen[d][x]
    PROVE  TextsKeep(x)
<1> SUFFICES ASSUME NEW r \in Held(x)'
             PROVE  \E q \in Held(x) : SameText(r, q)
  BY DEF TextsKeep
<1>1. r # Null
  BY DEF Held
<1>2. CASE r = files'[x]
  BY <1>1, <1>2 DEF Held
<1>3. CASE \E d \in Devices : r = seen'[d][x]
  BY <1>1, <1>3 DEF Held, SameText
<1>4. CASE \E k \in Handlers : r = base'[k][x]
  BY <1>1, <1>4 DEF Held, SameText
<1> QED BY <1>2, <1>3, <1>4 DEF Held

\* A request reads, replaces or deletes one snapshot and leaves the others.
LEMMA ReadFile ==
    ASSUME FilesInv, NEW h \in Handlers, NEW s \in Sessions,
           GetSessionFile(h, s)
    PROVE  /\ files' \in [Sessions -> File \cup {Null}]
           /\ seen' \in [Devices -> [Sessions -> Copy \cup {Null}]]
           /\ base' \in [Handlers -> [Sessions -> Copy \cup {Null}]]
           /\ writes' \in Nat /\ UNCHANGED files
           /\ \A x \in Sessions : TextsKeep(x)
<1>1. FilesTypeOK
  BY DEF FilesInv
<1>2. PICK row : row = IF files[s] # Null /\ files[s].group = req[h].group
                       THEN files[s] ELSE Null
  OBVIOUS
<1>3. /\ Learn(h, s, row) /\ row \in File \cup {Null}
      /\ row \in {files[s], Null}
      /\ base' = [base EXCEPT ![h] = NoFiles] /\ UNCHANGED <<files, writes>>
  BY <1>1, <1>2 DEF GetSessionFile, Answered, FilesTypeOK
<1>4. /\ seen' \in [Devices -> [Sessions -> Copy \cup {Null}]]
      /\ \A d \in Devices, x \in Sessions :
                \/ seen'[d][x] = seen[d][x]
                \/ x = s /\ seen'[d][x] = CopyOf(row)
  BY <1>1, <1>3, LearnFacts
<1>5. \/ CopyOf(row) = Null
      \/ files[s] # Null /\ SameText(CopyOf(row), files[s])
  <2>1. row = Null => CopyOf(row) = Null
    BY DEF CopyOf
  <2>2. row # Null => files[s] # Null /\ SameText(CopyOf(row), files[s])
    BY <1>3 DEF CopyOf, SameText
  <2> QED BY <2>1, <2>2
<1>6. ASSUME NEW x \in Sessions PROVE TextsKeep(x)
  <2>1. \A d \in Devices :
           \/ seen'[d][x] \in {seen[d][x], Null}
           \/ files[x] # Null /\ SameText(seen'[d][x], files[x])
    BY <1>4, <1>5
  <2> QED BY <1>1, <1>3, <2>1, AnsweredFacts, NothingStored DEF SameText
<1> QED BY <1>1, <1>3, <1>4, <1>6, AnsweredFacts DEF FilesTypeOK

LEMMA EraseFile ==
    ASSUME FilesInv, NEW h \in Handlers, NEW s \in Sessions,
           DeleteSessionFile(h, s)
    PROVE  /\ files' \in [Sessions -> File \cup {Null}]
           /\ seen' \in [Devices -> [Sessions -> Copy \cup {Null}]]
           /\ base' \in [Handlers -> [Sessions -> Copy \cup {Null}]]
           /\ writes' \in Nat
           /\ \A x \in Sessions : /\ files'[x] \in {files[x], Null}
                                  /\ TextsKeep(x)
<1>1. FilesTypeOK
  BY DEF FilesInv
<1>2. /\ Learn(h, s, Null)
      /\ base' = [base EXCEPT ![h] = NoFiles] /\ UNCHANGED writes
      /\ files' = files \/ files' = [files EXCEPT ![s] = Null]
  BY DEF DeleteSessionFile, Answered
<1>3. /\ files' \in [Sessions -> File \cup {Null}]
      /\ \A x \in Sessions : files'[x] \in {files[x], Null}
  BY <1>1, <1>2 DEF FilesTypeOK
<1>4. /\ seen' \in [Devices -> [Sessions -> Copy \cup {Null}]]
      /\ \A d \in Devices, x \in Sessions : seen'[d][x] \in {seen[d][x], Null}
  <2>1. PICK row : row = Null
    OBVIOUS
  <2>2. row \in File \cup {Null} /\ Learn(h, s, row) /\ CopyOf(row) = Null
    BY <1>2, <2>1 DEF CopyOf
  <2> QED BY <1>1, <2>2, LearnFacts
<1>5. \A x \in Sessions : TextsKeep(x)
  BY <1>1, <1>2, <1>3, <1>4, AnsweredFacts, NothingStored DEF SameText
<1> QED BY <1>1, <1>2, <1>3, <1>4, <1>5, AnsweredFacts DEF FilesTypeOK

\* A stored row is the next text of its snapshot, in the captured group.
LEMMA StoreFile ==
    ASSUME FilesInv, NEW h \in Handlers, NEW s \in Sessions,
           CreateSessionFile(h, s) \/ ReplaceSessionFile(h, s)
    PROVE  /\ files' \in [Sessions -> File \cup {Null}]
           /\ seen' \in [Devices -> [Sessions -> Copy \cup {Null}]]
           /\ base' \in [Handlers -> [Sessions -> Copy \cup {Null}]]
           /\ writes' \in Nat
           /\ files'[s] # Null /\ files'[s].group = req[h].group
           /\ files[s] # Null => files[s].group = req[h].group
           /\ \A x \in Sessions \ {s} : files'[x] = files[x] /\ TextsKeep(x)
           /\ TextStored(s)
<1>1. FilesTypeOK /\ writes \in Nat /\ req[h].group \in Devices
  BY DEF FilesInv, FilesTypeOK, TypeOK, Request
<1>2. PICK row \in File :
        /\ Store(h, s, row)
        /\ row.group = req[h].group /\ row.text = writes + 1
        /\ \/ files[s] = Null /\ row.born = writes + 1
           \/ /\ files[s] # Null /\ files[s].group = req[h].group
              /\ row.born = files[s].born
              /\ row.version = files[s].version + 1
  <2>1. CASE CreateSessionFile(h, s)
    <3>1. [group |-> req[h].group, version |-> FirstVersion,
           text |-> writes + 1, born |-> writes + 1] \in File
      BY <1>1 DEF File, FirstVersion
    <3> QED BY <2>1, <3>1 DEF CreateSessionFile
  <2>2. CASE ReplaceSessionFile(h, s)
    <3>1. files[s] \in File /\ files[s].group = req[h].group
      BY <1>1, <2>2 DEF ReplaceSessionFile, FilesTypeOK
    <3>2. PICK row : row = [files[s] EXCEPT !.version = NextVersion(s),
                                           !.text = writes + 1]
      OBVIOUS
    <3>3. row \in File
      <4>1. NextVersion(s) \in Nat \ {0} /\ writes + 1 \in Nat
        BY <1>1, <3>1 DEF File, NextVersion
      <4> QED BY <3>1, <3>2, <4>1 DEF File
    <3>4. /\ row.group = req[h].group /\ row.text = writes + 1
          /\ row.born = files[s].born /\ row.version = files[s].version + 1
      BY <3>1, <3>2 DEF File, NextVersion
    <3> QED BY <2>2, <3>1, <3>2, <3>3, <3>4 DEF ReplaceSessionFile
  <2> QED BY <2>1, <2>2
<1>3. /\ writes' = writes + 1 /\ files' = [files EXCEPT ![s] = row]
      /\ Learn(h, s, row) /\ base' = [base EXCEPT ![h] = NoFiles]
      /\ row # Null
  BY <1>2, NoRowAssumption DEF Store, Answered
<1>4. /\ files' \in [Sessions -> File \cup {Null}]
      /\ files'[s] = row
      /\ \A x \in Sessions \ {s} : files'[x] = files[x]
  BY <1>1, <1>3 DEF FilesTypeOK
<1>5. /\ seen' \in [Devices -> [Sessions -> Copy \cup {Null}]]
      /\ \A d \in Devices, x \in Sessions :
                \/ seen'[d][x] = seen[d][x]
                \/ x = s /\ seen'[d][x] = CopyOf(row)
  BY <1>1, <1>3, LearnFacts
<1>6. /\ base' \in [Handlers -> [Sessions -> Copy \cup {Null}]]
      /\ \A k \in Handlers, x \in Sessions : base'[k][x] \in {base[k][x], Null}
  BY <1>1, <1>3, AnsweredFacts
<1>7. ASSUME NEW x \in Sessions \ {s} PROVE TextsKeep(x)
  BY <1>1, <1>3, <1>4, <1>5, <1>6, NothingStored DEF SameText
<1>8. ASSUME NEW r \in Held(s)'
      PROVE  SameText(r, row) \/ \E q \in Held(s) : SameText(r, q)
  <2>1. r # Null
    BY DEF Held
  <2>2. CASE r = files'[s]
    BY <1>4, <2>2 DEF SameText
  <2>3. CASE \E d \in Devices : r = seen'[d][s]
    <3>1. SameText(CopyOf(row), row)
      BY <1>3 DEF SameText, CopyOf
    <3> QED BY <1>5, <2>1, <2>3, <3>1 DEF Held, SameText
  <2>4. CASE \E k \in Handlers : r = base'[k][s]
    BY <1>6, <2>1, <2>4 DEF Held, SameText
  <2> QED BY <2>2, <2>3, <2>4 DEF Held
<1>9. TextStored(s)
  BY <1>2, <1>3, <1>4, <1>8 DEF TextStored
<1>10. writes' \in Nat
  BY <1>1, <1>3
<1> QED BY <1>2, <1>3, <1>4, <1>5, <1>6, <1>7, <1>9, <1>10

----------------------------------------------------------------------------
(* Snapshots while devices, groups and codes change.                        *)

\* A merge moves the snapshots of the loser, a discard deletes those of the
\* other groups; no step makes a group disappear under a snapshot.
FilesMoveAlong ==
    /\ files' \in [Sessions -> File \cup {Null}]
    /\ \A x \in Sessions : files'[x] # Null =>
         /\ files[x] # Null /\ SameText(files'[x], files[x])
         /\ revision'[files'[x].group] > 0

LEMMA MergeMovesFiles ==
    ASSUME FilesInv, NEW h \in Handlers, NEW c \in codes, MergeFiles(h, c)
    PROVE  /\ FilesMoveAlong
           /\ \A x \in Sessions, d \in Devices :
                files[x] # Null /\ files[x].group = group[d] =>
                  files'[x] # Null /\ files'[x].group = group'[d]
<1>1. MergeGroups(h, c) /\ GroupsInv /\ FilesTypeOK
  BY DEF MergeFiles, FilesInv
<1>2. PICK win \in Devices, lose \in Devices, n \in Nat :
        /\ Merged(win, lose, n, c)
        /\ win = Winner(c.group, group[req[h].device])
        /\ lose = Loser(c.group, group[req[h].device])
  BY <1>1, MergeFacts
<1>3. files' = Cascade(Migrate(files, win, lose), {lose})
  BY <1>2 DEF MergeFiles, FilesAfterMerge
<1>4. /\ win # lose /\ n > 0
      /\ \A d \in Devices :
           group'[d] = IF group[d] = lose THEN win ELSE group[d]
      /\ \A g \in Devices :
           revision'[g] = IF g = lose THEN 0
                          ELSE IF g = win THEN n ELSE revision[g]
  BY <1>1, <1>2 DEF Merged, Moved, GroupsInv, TypeOK
<1>5. ASSUME NEW x \in Sessions, files[x] # Null
      PROVE  /\ files[x] \in File /\ files[x].group \in Devices
             /\ revision[files[x].group] > 0
  BY <1>1, <1>5 DEF FilesTypeOK, File, FilesInv, FilesHaveGroups, GroupExists
<1>6. ASSUME NEW x \in Sessions, files[x] = Null
      PROVE  files'[x] = Null
  BY <1>3, <1>6 DEF Cascade, Migrate
<1>7. ASSUME NEW x \in Sessions, files[x] # Null, files[x].group = lose
      PROVE  /\ files'[x] \in File /\ SameText(files'[x], files[x])
             /\ files'[x].group = win
  <2>1. PICK row : row = [files[x] EXCEPT !.group = win]
    OBVIOUS
  <2>2. row \in File
    BY <1>5, <1>7, <2>1 DEF File
  <2>3. row.group = win /\ SameText(row, files[x])
    BY <1>5, <1>7, <2>1 DEF File, SameText
  <2>4. Migrate(files, win, lose)[x] = row
    BY <1>7, <2>1 DEF Migrate
  <2>5. files'[x] = row
    BY <1>3, <1>4, <2>3, <2>4 DEF Cascade
  <2> QED BY <2>2, <2>3, <2>5
<1>8. ASSUME NEW x \in Sessions, files[x] # Null, files[x].group # lose
      PROVE  files'[x] = files[x]
  <2>1. Migrate(files, win, lose)[x] = files[x]
    BY <1>8 DEF Migrate
  <2> QED BY <1>3, <1>8, <2>1 DEF Cascade
<1>9. FilesMoveAlong
  <2>1. files' = [x \in Sessions |-> files'[x]]
    BY <1>3 DEF Cascade
  <2>2. \A x \in Sessions : files'[x] \in File \cup {Null}
    BY <1>5, <1>6, <1>7, <1>8
  <2>3. ASSUME NEW x \in Sessions, files'[x] # Null
        PROVE  /\ files[x] # Null /\ SameText(files'[x], files[x])
               /\ revision'[files'[x].group] > 0
    BY <1>4, <1>5, <1>6, <1>7, <1>8, <2>3 DEF SameText
  <2> QED BY <2>1, <2>2, <2>3 DEF FilesMoveAlong
<1>10. ASSUME NEW x \in Sessions, NEW d \in Devices,
              files[x] # Null, files[x].group = group[d]
       PROVE  files'[x] # Null /\ files'[x].group = group'[d]
  <2>1. CASE group[d] = lose
    BY <1>4, <1>7, <1>10, <2>1, NoRowAssumption
  <2>2. CASE group[d] # lose
    BY <1>4, <1>8, <1>10, <2>2
  <2> QED BY <2>1, <2>2
<1> QED BY <1>9, <1>10

LEMMA DiscardDeletesFiles ==
    ASSUME FilesInv, NEW h \in Handlers, DiscardFiles(h)
    PROVE  /\ FilesMoveAlong
           /\ \A x \in Sessions, d \in Devices :
                /\ files[x] # Null /\ files[x].group = group[d]
                /\ group'[d] # Null
                => files'[x] # Null /\ files'[x].group = group'[d]
<1>1. DiscardOtherGroups(h) /\ GroupsInv /\ FilesTypeOK
  BY DEF DiscardFiles, FilesInv
<1>2. PICK d \in Devices, g \in Devices :
        d = req[h].device /\ g = req[h].group
  BY <1>1 DEF GroupsInv, TypeOK, Request
<1>3. /\ files' = Cascade(files, {group[e] : e \in Others(d, g)})
      /\ \A e \in Devices :
           group'[e] = IF e \in Others(d, g) THEN Null ELSE group[e]
      /\ \A e \in Devices :
           revision'[e] = IF SameAccount(e, d) /\ e # g THEN 0
                          ELSE revision[e]
  BY <1>1, <1>2 DEF DiscardFiles, DiscardOtherGroups, Deleted
<1>4. ASSUME NEW x \in Sessions
      PROVE  files'[x] = IF /\ files[x] # Null
                            /\ \E e \in Others(d, g) : files[x].group = group[e]
                         THEN Null ELSE files[x]
  BY <1>3 DEF Cascade
<1>5. ASSUME NEW x \in Sessions, files[x] # Null
      PROVE  /\ files[x] \in File /\ files[x].group \in Devices
             /\ revision[files[x].group] > 0
  BY <1>1, <1>5 DEF FilesTypeOK, File, FilesInv, FilesHaveGroups, GroupExists
<1>6. ASSUME NEW x \in Sessions, files'[x] # Null
      PROVE  /\ files[x] # Null /\ files'[x] = files[x]
             /\ revision'[files'[x].group] > 0
  <2>1. /\ files[x] # Null /\ files'[x] = files[x]
        /\ ~ \E e \in Others(d, g) : files[x].group = group[e]
    BY <1>4, <1>6
  <2>2. PICK f \in Devices : f = files[x].group /\ revision[f] > 0
    BY <1>5, <2>1
  <2>3. PICK e \in Devices : group[e] = f
    BY <1>1, <2>2 DEF GroupsInv, GroupsAreInhabited, GroupExists, Members
  <2>4. SameAccount(f, e)
    BY <1>1, <2>3, NullAssumption DEF GroupsInv, GroupsAreInhabited
  <2>5. ~(SameAccount(f, d) /\ f # g)
    BY <2>1, <2>2, <2>3, <2>4, NullAssumption DEF Others, SameAccount
  <2> QED BY <1>3, <2>1, <2>2, <2>5
<1>7. FilesMoveAlong
  <2>1. files' \in [Sessions -> File \cup {Null}]
    <3>1. files' = [x \in Sessions |-> files'[x]]
      BY <1>3 DEF Cascade
    <3>2. \A x \in Sessions : files'[x] \in File \cup {Null}
      BY <1>5, <1>6
    <3> QED BY <3>1, <3>2
  <2> QED BY <1>6, <2>1 DEF FilesMoveAlong, SameText
<1>8. ASSUME NEW x \in Sessions, NEW e \in Devices,
             files[x] # Null, files[x].group = group[e], group'[e] # Null
      PROVE  files'[x] # Null /\ files'[x].group = group'[e]
  <2>1. e \notin Others(d, g) /\ group'[e] = group[e]
    BY <1>3, <1>8
  <2>2. ~ \E o \in Others(d, g) : files[x].group = group[o]
    <3> SUFFICES ASSUME NEW o \in Others(d, g), group[o] = group[e]
                 PROVE  FALSE
      BY <1>8
    <3>1. o \in Devices /\ SameAccount(o, d) /\ group[o] # Null /\ group[o] # g
      BY DEF Others
    <3>2. SameAccount(group[o], o) /\ SameAccount(group[e], e)
      BY <1>1, <3>1 DEF GroupsInv, GroupsAreInhabited
    <3> QED BY <2>1, <3>1, <3>2 DEF Others, SameAccount
  <2> QED BY <1>4, <1>8, <2>1, <2>2
<1> QED BY <1>7, <1>8

\* Everything else leaves the rows and their groups alone.
LEMMA QuietFiles ==
    ASSUME FilesInv, UNCHANGED files,
           \A g \in Devices : revision[g] > 0 => revision'[g] > 0
    PROVE  FilesMoveAlong
<1>1. files \in [Sessions -> File \cup {Null}]
  BY DEF FilesInv, FilesTypeOK
<1>2. \A x \in Sessions : files[x] # Null =>
        files[x].group \in Devices /\ revision[files[x].group] > 0
  BY <1>1 DEF FilesInv, FilesHaveGroups, GroupExists, File
<1> QED BY <1>1, <1>2 DEF FilesMoveAlong, SameText

LEMMA CarriedAlong ==
    ASSUME FilesInv, GroupsInv', FilesMoveAlong, UNCHANGED <<seen, writes>>,
           \/ UNCHANGED base
           \/ \E h \in Handlers : base' = [base EXCEPT ![h] = NoFiles]
           \/ \E h \in Handlers, d \in Devices :
                base' = [base EXCEPT ![h] = seen[d]]
    PROVE  FilesInv'
<1>1. FilesTypeOK /\ \A x \in Sessions : CopiesInOrder(x)
  BY DEF FilesInv
<1>2. base' \in [Handlers -> [Sessions -> Copy \cup {Null}]]
  BY <1>1 DEF FilesTypeOK, NoFiles
<1>3. ASSUME NEW x \in Sessions, NEW k \in Handlers
      PROVE  \/ base'[k][x] \in {base[k][x], Null}
             \/ \E d \in Devices : base'[k][x] = seen[d][x]
  BY <1>1 DEF FilesTypeOK, NoFiles
<1>4. FilesTypeOK'
  BY <1>1, <1>2 DEF FilesTypeOK, FilesMoveAlong, GroupsInv
<1>5. FilesHaveGroups'
  BY DEF FilesMoveAlong, FilesHaveGroups, GroupExists
<1>6. \A x \in Sessions : TextsKeep(x)
  BY <1>1, <1>3, NothingStored DEF FilesMoveAlong
<1>7. \A x \in Sessions : CopiesInOrder(x)'
  BY <1>1, <1>6, KeptInOrder
<1> QED BY <1>4, <1>5, <1>7 DEF FilesInv

\* Requests for snapshots.
LEMMA FileStepKeeps ==
    ASSUME FilesInv, GroupsInv', NEW h \in Handlers, NEW s \in Sessions,
           FileStep(h, s)
    PROVE  FilesInv'
<1>1. FilesTypeOK /\ \A x \in Sessions : CopiesInOrder(x)
  BY DEF FilesInv
<1>2. UNCHANGED revision
  BY DEF FileStep, GetSessionFile, CreateSessionFile, ReplaceSessionFile,
     DeleteSessionFile, Store, Answered, dbVars, groupVars
<1>3. /\ files' \in [Sessions -> File \cup {Null}]
      /\ seen' \in [Devices -> [Sessions -> Copy \cup {Null}]]
      /\ base' \in [Handlers -> [Sessions -> Copy \cup {Null}]]
      /\ writes' \in Nat
      /\ \A x \in Sessions : TextsKeep(x) \/ TextStored(x)
      /\ \A x \in Sessions : \/ files'[x] \in {files[x], Null}
                             \/ revision[files'[x].group] > 0
  <2>1. CASE GetSessionFile(h, s)
    BY <2>1, ReadFile
  <2>2. CASE DeleteSessionFile(h, s)
    BY <2>2, EraseFile
  <2>3. CASE CreateSessionFile(h, s) \/ ReplaceSessionFile(h, s)
    <3>1. revision[req[h].group] > 0
      BY <2>3 DEF CreateSessionFile, ReplaceSessionFile, MayWrite, GroupExists
    <3>2. PICK g : g = req[h].group
      OBVIOUS
    <3>3. /\ files'[s].group = g
          /\ \A x \in Sessions \ {s} : files'[x] = files[x] /\ TextsKeep(x)
          /\ TextStored(s)
      BY <2>3, <3>2, StoreFile
    <3> QED BY <2>3, <3>1, <3>2, <3>3, StoreFile
  <2> QED BY <2>1, <2>2, <2>3 DEF FileStep
<1>4. FilesTypeOK'
  BY <1>3 DEF FilesTypeOK, GroupsInv
<1>5. FilesHaveGroups'
  BY <1>2, <1>3 DEF FilesInv, FilesHaveGroups, GroupExists
<1>6. \A x \in Sessions : CopiesInOrder(x)'
  BY <1>1, <1>3, <1>4, KeptInOrder, StoredInOrder
<1> QED BY <1>4, <1>5, <1>6 DEF FilesInv

LEMMA FilesStep ==
    ASSUME FilesInv, [FilesNext]_filesVars PROVE FilesInv'
<1>1. GroupsInv /\ GroupsInv'
  BY FilesGroupsStep DEF FilesInv, GroupsNext
<1>2. revision \in [Devices -> Nat] /\ revision' \in [Devices -> Nat]
  BY <1>1 DEF GroupsInv, TypeOK
<1>3. CASE UNCHANGED filesVars
  <2>1. UNCHANGED <<files, revision, seen, base, writes>>
    BY <1>3 DEF filesVars, vars, dbVars, groupVars, fileVars
  <2> QED BY <1>1, <2>1, QuietFiles, CarriedAlong
<1>4. ASSUME NEW d \in Devices, CreateDeviceEnrollment(d), Untouched
      PROVE  FilesInv'
  <2>1. UNCHANGED <<files, seen, base, writes>>
    BY <1>4 DEF Untouched, fileVars
  <2>2. \A g \in Devices : revision[g] > 0 => revision'[g] > 0
    BY <1>2, <1>4 DEF CreateDeviceEnrollment
  <2> QED BY <1>1, <2>1, <2>2, QuietFiles, CarriedAlong
<1>5. ASSUME NEW h \in Handlers, GroupStep(h) PROVE FilesInv'
  <2>1. CASE SendRequest(h)
    <3>1. UNCHANGED <<files, revision, seen, writes>>
      BY <2>1 DEF SendRequest, RequireSession, dbVars, groupVars
    <3>2. req'[h].device \in Devices
      BY <1>1 DEF GroupsInv, TypeOK, Request
    <3>3. base' = [base EXCEPT ![h] = seen[req'[h].device]]
      BY <2>1 DEF SendRequest
    <3> QED BY <1>1, <3>1, <3>2, <3>3, QuietFiles, CarriedAlong
  <2>2. CASE RefuseFile(h)
    <3>1. UNCHANGED <<files, revision, seen, writes>>
      BY <2>2 DEF RefuseFile, Abandon, dbVars, groupVars
    <3>2. base' = [base EXCEPT ![h] = NoFiles]
      BY <2>2 DEF RefuseFile
    <3> QED BY <1>1, <3>1, <3>2, QuietFiles, CarriedAlong
  <2>3. CASE (GenerateCode(h) \/ RevokeDevice(h)) /\ Untouched
    <3>1. UNCHANGED <<files, revision, seen, base, writes>>
      BY <2>3 DEF GenerateCode, RevokeDevice, Untouched, fileVars, groupVars
    <3> QED BY <1>1, <3>1, QuietFiles, CarriedAlong
  <2>4. ASSUME NEW c \in codes, MergeFiles(h, c) PROVE FilesInv'
    <3>1. UNCHANGED <<seen, base, writes>>
      BY <2>4 DEF MergeFiles
    <3> QED BY <1>1, <2>4, <3>1, MergeMovesFiles, CarriedAlong
  <2>5. CASE DiscardFiles(h)
    <3>1. UNCHANGED <<seen, base, writes>>
      BY <2>5 DEF DiscardFiles
    <3> QED BY <1>1, <2>5, <3>1, DiscardDeletesFiles, CarriedAlong
  <2> QED BY <1>5, <2>1, <2>2, <2>3, <2>4, <2>5 DEF GroupStep
<1> QED BY <1>1, <1>3, <1>4, <1>5, FileStepKeeps DEF FilesNext

THEOREM FilesAlwaysInv == FilesSpec => []FilesInv
BY FilesInvInit, FilesStep, PTL DEF FilesSpec

\* The variables keep their types.
THEOREM FilesTypeCorrect == FilesSpec => []FilesTypeOK
BY FilesAlwaysInv, PTL DEF FilesInv

\* No merge or discard leaves a snapshot behind in a group that is gone.
THEOREM FilesAlwaysHaveGroups == FilesSpec => []FilesHaveGroups
BY FilesAlwaysInv, PTL DEF FilesInv

\* A version of a living snapshot is one text, whoever holds it.
THEOREM VersionsAlwaysNameTexts == FilesSpec => []VersionsNameTexts
<1>1. FilesInv => VersionsNameTexts
  BY DEF FilesInv, CopiesInOrder, Held, VersionsNameTexts
<1> QED BY <1>1, FilesAlwaysInv, PTL

----------------------------------------------------------------------------
(* What a writer may replace, and what members keep.                        *)

\* The request that overwrites is the one that steps.
LEMMA WriterSteps ==
    ASSUME FilesInv, FilesNext, NEW h \in Handlers, NEW s \in Sessions,
           Overwrites(h, s)
    PROVE  ReplaceSessionFile(h, s) \/ DeleteSessionFile(h, s)
<1>1. /\ pc \in [Handlers -> {"idle", "authorized", "listing", "listed"}]
      /\ files \in [Sessions -> File \cup {Null}]
      /\ pc[h] = "authorized" /\ req[h].kind \in {"write", "erase"}
      /\ pc'[h] = "idle" /\ files[s] # Null /\ files'[s] # files[s]
  BY DEF FilesInv, FilesTypeOK, TypeOK, Overwrites, Writing, Serves
<1>2. ASSUME NEW d \in Devices, CreateDeviceEnrollment(d) PROVE FALSE
  BY <1>1, <1>2 DEF CreateDeviceEnrollment, handlerVars
<1>3. ASSUME NEW k \in Handlers, GroupStep(k) PROVE FALSE
  <2>1. CASE k = h
    BY <1>1, <1>3, <2>1
       DEF GroupStep, SendRequest, RequireSession, RefuseFile, GenerateCode,
           MergeFiles, MergeGroups, DiscardFiles, DiscardOtherGroups,
           RevokeDevice, Untouched, fileVars, Serves
  <2>2. CASE k # h
    BY <1>1, <1>3, <2>2
       DEF GroupStep, SendRequest, RequireSession, RefuseFile, Abandon,
           GenerateCode, MergeFiles, MergeGroups, DiscardFiles,
           DiscardOtherGroups, RevokeDevice, Finish
  <2> QED BY <2>1, <2>2
<1>4. ASSUME NEW k \in Handlers, NEW x \in Sessions, FileStep(k, x)
      PROVE  k = h /\ x = s
  <2>1. pc' = [pc EXCEPT ![k] = "idle"]
    BY <1>4 DEF FileStep, GetSessionFile, CreateSessionFile,
       ReplaceSessionFile, DeleteSessionFile, Store, Answered, Finish
  <2>2. files' = files \/ \E row : files' = [files EXCEPT ![x] = row]
    BY <1>4 DEF FileStep, GetSessionFile, CreateSessionFile,
       ReplaceSessionFile, DeleteSessionFile, Store
  <2> QED BY <1>1, <2>1, <2>2
<1>5. FileStep(h, s)
  BY <1>2, <1>3, <1>4 DEF FilesNext
<1>6. ~GetSessionFile(h, s) /\ ~CreateSessionFile(h, s)
  BY <1>1 DEF GetSessionFile, CreateSessionFile
<1> QED BY <1>5, <1>6 DEF FileStep

\* A version that is compared names the text that was read, unless what was
\* read is an earlier snapshot that is gone.
LEMMA ReadBeforeWrite ==
    ASSUME FilesInv, NEW h \in Handlers, NEW s \in Sessions,
           files[s] # Null, VersionMatches(h, s)
    PROVE  \/ base[h][s].text = files[s].text
           \/ base[h][s].born < files[s].born
<1>1. FilesTypeOK /\ CopiesInOrder(s)
  BY DEF FilesInv
<1>2. files[s] \in File /\ files[s].version \in Nat \ {0}
  BY <1>1 DEF FilesTypeOK, File
<1>3. base[h][s] # Null /\ base[h][s].version = files[s].version
  BY <1>2 DEF VersionMatches, VersionOf
<1>4. base[h][s] \in Held(s) /\ files[s] \in Held(s)
  BY <1>3 DEF Held
<1>5. base[h][s].born \in Nat /\ files[s].born \in Nat
  BY <1>1, <1>4, HeldTypes
<1> QED BY <1>1, <1>3, <1>4, <1>5 DEF CopiesInOrder

\* Whoever replaces or deletes a snapshot has read its text, or has read a
\* snapshot under this identifier that was deleted since.
THEOREM OverwritesAlwaysRead == FilesSpec => OverwritesWhatWasRead
<1> DEFINE Good ==
      \A h \in Handlers, s \in Sessions : Overwrites(h, s) =>
         \/ base[h][s].text = files[s].text
         \/ base[h][s].born < files[s].born
<1>1. FilesInv /\ FilesNext => Good
  <2> SUFFICES ASSUME FilesInv, FilesNext, NEW h \in Handlers,
                      NEW s \in Sessions, Overwrites(h, s)
               PROVE  \/ base[h][s].text = files[s].text
                      \/ base[h][s].born < files[s].born
    OBVIOUS
  <2>1. files[s] # Null /\ files'[s] # files[s]
    BY DEF Overwrites
  <2>2. VersionMatches(h, s)
    BY <2>1, WriterSteps DEF ReplaceSessionFile, DeleteSessionFile
  <2> QED BY <2>1, <2>2, ReadBeforeWrite
<1>2. FilesInv /\ [FilesNext]_filesVars => [Good]_filesVars
  BY <1>1
<1>3. FilesSpec => [][Good]_filesVars
  BY <1>2, FilesAlwaysInv, PTL DEF FilesSpec
<1> QED BY <1>3, PTL DEF OverwritesWhatWasRead

\* Devices that keep a group keep its snapshots, through merges and through
\* discards by their own group, but for those that someone deletes.
THEOREM MembersAlwaysKeepFiles == FilesSpec => MembersKeepFiles
<1> DEFINE Kept(d, s) ==
             \/ files'[s] # Null /\ files'[s].group = group'[d]
             \/ \E h \in Handlers : Serves(h, "erase") /\ Overwrites(h, s)
           Good ==
             \A d \in Devices, s \in Sessions :
               /\ group[d] # Null /\ group'[d] # Null
               /\ files[s] # Null /\ files[s].group = group[d]
               => Kept(d, s)
<1>1. FilesInv /\ FilesNext => Good
  <2> SUFFICES ASSUME FilesInv, FilesNext, NEW d \in Devices,
                      NEW s \in Sessions,
                      group[d] # Null, group'[d] # Null,
                      files[s] # Null, files[s].group = group[d]
               PROVE  Kept(d, s)
    OBVIOUS
  <2>1. /\ group \in [Devices -> Devices \cup {Null}]
        /\ pc \in [Handlers -> {"idle", "authorized", "listing", "listed"}]
        /\ files \in [Sessions -> File \cup {Null}]
    BY DEF FilesInv, FilesTypeOK, TypeOK
  <2>2. ASSUME UNCHANGED files, UNCHANGED group PROVE Kept(d, s)
    BY <2>2
  <2>3. ASSUME NEW e \in Devices, CreateDeviceEnrollment(e), Untouched
        PROVE  Kept(d, s)
    <3>1. group[e] = Null
      BY <2>3 DEF CreateDeviceEnrollment, FilesInv, GroupsInv, Unborn
    <3>2. group'[d] = group[d] /\ UNCHANGED files
      BY <2>1, <2>3, <3>1
         DEF CreateDeviceEnrollment, Untouched, fileVars
    <3> QED BY <3>2
  <2>4. ASSUME NEW h \in Handlers, GroupStep(h) PROVE Kept(d, s)
    <3>1. CASE SendRequest(h) \/ RefuseFile(h)
      BY <2>2, <3>1 DEF SendRequest, RefuseFile, RequireSession, Abandon,
         dbVars, groupVars
    <3>2. CASE (GenerateCode(h) \/ RevokeDevice(h)) /\ Untouched
      BY <2>2, <3>2 DEF GenerateCode, RevokeDevice, Untouched, fileVars,
         groupVars
    <3>3. ASSUME NEW c \in codes, MergeFiles(h, c) PROVE Kept(d, s)
      BY <3>3, MergeMovesFiles
    <3>4. CASE DiscardFiles(h)
      BY <3>4, DiscardDeletesFiles
    <3> QED BY <2>4, <3>1, <3>2, <3>3, <3>4 DEF GroupStep
  <2>5. ASSUME NEW h \in Handlers, NEW x \in Sessions, FileStep(h, x)
        PROVE  Kept(d, s)
    <3>1. UNCHANGED group /\ pc' = [pc EXCEPT ![h] = "idle"]
      BY <2>5 DEF FileStep, GetSessionFile, CreateSessionFile,
         ReplaceSessionFile, DeleteSessionFile, Store, Answered, Finish,
         dbVars, groupVars
    <3>2. CASE GetSessionFile(h, x)
      BY <2>2, <3>1, <3>2, ReadFile
    <3>3. CASE CreateSessionFile(h, x) \/ ReplaceSessionFile(h, x)
      <4>1. CASE x = s
        BY <3>1, <3>3, <4>1, StoreFile
      <4>2. CASE x # s
        <5>1. files'[s] = files[s]
          BY <3>3, <4>2, StoreFile
        <5> QED BY <3>1, <5>1
      <4> QED BY <4>1, <4>2
    <3>4. CASE DeleteSessionFile(h, x)
      <4>1. CASE files'[s] = files[s]
        BY <3>1, <4>1
      <4>2. CASE files'[s] # files[s]
        <5>1. Serves(h, "erase") /\ pc'[h] = "idle"
          BY <2>1, <3>1, <3>4 DEF DeleteSessionFile
        <5> QED BY <4>2, <5>1 DEF Overwrites, Writing
      <4> QED BY <4>1, <4>2
    <3> QED BY <2>5, <3>2, <3>3, <3>4 DEF FileStep
  <2> QED BY <2>3, <2>4, <2>5 DEF FilesNext
<1>2. FilesInv /\ [FilesNext]_filesVars => [Good]_filesVars
  BY <1>1
<1>3. FilesSpec => [][Good]_filesVars
  BY <1>2, FilesAlwaysInv, PTL DEF FilesSpec
<1> QED BY <1>3, PTL DEF MembersKeepFiles

----------------------------------------------------------------------------
(* Notifications.  What a connection may still miss is decided when its     *)
(* device changes groups: at that moment either the connection has not been *)
(* told a revision yet, and its ticket's group is gone, or the event is in  *)
(* the hands of the handler that made the change.                           *)

\* A connection that is accepted serves a device that has enrolled; until it
\* is told a revision, its device is in the ticket's group or that group is
\* gone for good.
Admitted(c) ==
    /\ cpc[c] \in {"accepted", "subscribed", "streaming"} =>
         status[ticket[c].device] # "absent"
    /\ cpc[c] \in {"accepted", "subscribed"} =>
         /\ status[ticket[c].group] # "absent"
         /\ \/ group[ticket[c].device] = ticket[c].group
            \/ revision[ticket[c].group] = 0

\* A handler takes the next request when it has published; only a manifest
\* waits for a revision.
OutboxInOrder(h) ==
    /\ out[h].phase = "none" => out[h] = Silent
    /\ pc[h] # "idle" => out[h].phase = "none"
    /\ out[h].phase = "read" => out[h].type = "manifest"

\* Connection c knows of revision r of the group of its device d, or will.
MergeTold(c, d, r) ==
    \/ known[c] >= r
    \/ \E e \in Buffered(c) : e.type = "merged" /\ e.revision = r
    \/ \E h \in Handlers : /\ out[h].type = "merged" /\ d \in out[h].to
                           /\ out[h].revision = r

DiscardTold(c, d) ==
    \/ told[c]
    \/ \E e \in Buffered(c) : e.type = "revoked" /\ e.device = d
    \/ \E h \in Handlers : /\ out[h].type = "revoked" /\ d \in out[h].to
                           /\ d \in out[h].about

MergeHeard(c) ==
    \A d \in Devices, r \in Nat :
        /\ Listening(c) /\ ticket[c].device = d
        /\ group[d] # Null /\ revision[group[d]] = r
        => MergeTold(c, d, r)

DiscardHeard(c) ==
    \A d \in Devices :
        Listening(c) /\ ticket[c].device = d /\ group[d] = Null
        => DiscardTold(c, d)

EventsInv ==
    /\ GroupsInv /\ EventsTypeOK
    /\ \A h \in Handlers : OutboxInOrder(h)
    /\ \A c \in Conns : Admitted(c) /\ MergeHeard(c)
    /\ ~Faults => \A c \in Conns : DiscardHeard(c)

LEMMA SilentType == Silent \in Outbox /\ NoTicket \in Ticket
BY NoRequestType DEF Silent, NoTicket, Outbox, EventTypes, Ticket

LEMMA EventsInvInit == EventsInit => EventsInv
<1> SUFFICES ASSUME EventsInit PROVE EventsInv
  OBVIOUS
<1>1. GroupsInv
  BY GroupsInvInit DEF EventsInit
<1>2. EventsTypeOK
  BY SilentType, EventsAssumption DEF EventsInit, EventsTypeOK
<1>3. \A h \in Handlers : OutboxInOrder(h)
  BY DEF EventsInit, Init, OutboxInOrder, Silent
<1>4. \A c \in Conns : Admitted(c) /\ MergeHeard(c) /\ DiscardHeard(c)
  BY DEF EventsInit, Admitted, MergeHeard, DiscardHeard, Listening
<1> QED BY <1>1, <1>2, <1>3, <1>4 DEF EventsInv

----------------------------------------------------------------------------
(* What happens to the devices of a connection.                             *)

SameGroup(d) ==
    /\ group'[d] = group[d]
    /\ group[d] # Null => revision'[group[d]] = revision[group[d]]

\* A device that has enrolled keeps its group as it is, or the handler that
\* changes it holds the event for it.
GroupsTell ==
    \A d \in Devices : status[d] # "absent" =>
        \/ SameGroup(d)
        \/ /\ group[d] # Null /\ group'[d] # Null
           /\ \E h \in Handlers :
                /\ out'[h].type = "merged" /\ d \in out'[h].to
                /\ out'[h].revision = revision'[group'[d]]
        \/ /\ group'[d] = Null
           /\ ~Faults => \E h \in Handlers :
                /\ out'[h].type = "revoked" /\ d \in out'[h].to
                /\ d \in out'[h].about

\* Enrolled devices stay enrolled; a device leaves a group only with it.
GroupsLast ==
    /\ \A d \in Devices : status[d] # "absent" => status'[d] # "absent"
    /\ \A d, g \in Devices :
         /\ status[d] # "absent" /\ status[g] # "absent"
         /\ group[d] = g \/ revision[g] = 0
         => group'[d] = g \/ revision'[g] = 0

LEMMA StillGroups ==
    ASSUME GroupsInv, UNCHANGED <<status, group, revision>>
    PROVE  GroupsTell /\ GroupsLast
BY DEF GroupsTell, GroupsLast, SameGroup

LEMMA EnrolmentGroups ==
    ASSUME GroupsInv, NEW e \in Devices, CreateDeviceEnrollment(e)
    PROVE  GroupsTell /\ GroupsLast
<1>1. /\ status[e] = "absent"
      /\ \A d \in Devices : /\ status'[d] # "absent"
                               <=> (d = e \/ status[d] # "absent")
                            /\ d # e => /\ group'[d] = group[d]
                                        /\ revision'[d] = revision[d]
  BY DEF CreateDeviceEnrollment, GroupsInv, TypeOK
<1>2. \A d \in Devices : group[d] # e
  <2> SUFFICES ASSUME NEW d \in Devices, group[d] = e PROVE FALSE
    OBVIOUS
  <2>1. revision[e] > 0
    BY NullAssumption DEF GroupsInv, GroupsAreInhabited, GroupExists
  <2> QED BY <1>1, <2>1 DEF GroupsInv, Unborn
<1>3. \A d \in Devices : group[d] # Null => group[d] \in Devices \ {e}
  BY <1>2 DEF GroupsInv, TypeOK
<1>4. GroupsTell
  BY <1>1, <1>3 DEF GroupsTell, SameGroup
<1> QED BY <1>1, <1>4 DEF GroupsLast

LEMMA RevokeGroups ==
    ASSUME GroupsInv, NEW h \in Handlers, RevokeDevice(h)
    PROVE  GroupsTell /\ GroupsLast
BY DEF RevokeDevice, GroupsInv, TypeOK, GroupsTell, GroupsLast, SameGroup

LEMMA MergeTells ==
    ASSUME GroupsInv, NEW h \in Handlers, NEW c \in codes, MergeAndTell(h, c),
           out \in [Handlers -> Outbox]
    PROVE  /\ GroupsTell /\ GroupsLast
           /\ out' \in [Handlers -> Outbox]
           /\ \A k \in Handlers \ {h} : out'[k] = out[k]
           /\ out'[h].phase = "publish"
<1>1. PICK win \in Devices, lose \in Devices, n \in Nat :
        /\ Merged(win, lose, n, c)
        /\ win = Winner(c.group, group[req[h].device])
        /\ lose = Loser(c.group, group[req[h].device])
        /\ n = NextRevision(c.group, group[req[h].device])
  BY MergeFacts DEF MergeAndTell
<1>2. PICK o : o = [phase |-> "publish", type |-> "merged",
                    about |-> {Anyone}, to |-> MergedMembers(win, lose),
                    group |-> win, revision |-> n]
  OBVIOUS
<1>3. /\ out' = [out EXCEPT ![h] = o]
      /\ o.phase = "publish" /\ o.type = "merged"
      /\ o.to = MergedMembers(win, lose) /\ o.revision = n
  BY <1>1, <1>2 DEF MergeAndTell, Then
<1>4. o \in Outbox
  BY <1>2, NoRequestType DEF Outbox, EventTypes, MergedMembers, Members
<1>5. /\ win # lose
      /\ \A d \in Devices :
           group'[d] = IF group[d] = lose THEN win ELSE group[d]
      /\ \A g \in Devices :
           revision'[g] = IF g = lose THEN 0
                          ELSE IF g = win THEN n ELSE revision[g]
      /\ group \in [Devices -> Devices \cup {Null}]
      /\ revision[win] # 0 /\ UNCHANGED status
  BY SMTT(30), <1>1 DEF Merged, Moved, GroupsInv, TypeOK
<1>6. ASSUME NEW d \in Devices, group[d] \in {win, lose}
      PROVE  /\ d \in o.to /\ group[d] # Null /\ group'[d] # Null
             /\ o.revision = revision'[group'[d]]
  BY <1>3, <1>5, <1>6, NullAssumption DEF MergedMembers, Members
<1>7. ASSUME NEW d \in Devices, group[d] \notin {win, lose}
      PROVE  SameGroup(d)
  BY <1>5, <1>7 DEF SameGroup
<1>8. out'[h] = o /\ \A k \in Handlers \ {h} : out'[k] = out[k]
  BY <1>3
<1>9. GroupsTell
  <2>1. ASSUME NEW d \in Devices, ~SameGroup(d)
        PROVE  /\ group[d] # Null /\ group'[d] # Null
               /\ out'[h].type = "merged" /\ d \in out'[h].to
               /\ out'[h].revision = revision'[group'[d]]
    BY <1>3, <1>6, <1>7, <1>8, <2>1
  <2> QED BY <2>1 DEF GroupsTell
<1>10. GroupsLast
  BY <1>5 DEF GroupsLast
<1> QED BY <1>3, <1>4, <1>8, <1>9, <1>10

LEMMA DiscardTells ==
    ASSUME GroupsInv, NEW h \in Handlers,
           DiscardAndTell(h) \/ DiscardUntold(h),
           out \in [Handlers -> Outbox]
    PROVE  /\ GroupsTell /\ GroupsLast
           /\ out' \in [Handlers -> Outbox]
           /\ \A k \in Handlers \ {h} : out'[k] = out[k]
           /\ out'[h] = out[h] \/ out'[h].phase = "list"
<1>1. PICK d \in Devices, g \in Devices :
        d = req[h].device /\ g = req[h].group
  BY DEF GroupsInv, TypeOK, Request
<1>2. DiscardOtherGroups(h)
  BY DEF DiscardAndTell, DiscardUntold
<1>3. /\ \A e \in Devices :
           group'[e] = IF e \in Others(d, g) THEN Null ELSE group[e]
      /\ \A e \in Devices :
           revision'[e] = IF SameAccount(e, d) /\ e # g THEN 0
                          ELSE revision[e]
      /\ status' = StatusAfterDiscard(d, g)
  BY <1>1, <1>2 DEF DiscardOtherGroups, Deleted
<1>4. ASSUME NEW e \in Devices, e \notin Others(d, g)
      PROVE  SameGroup(e)
  <2>1. SUFFICES ASSUME group[e] # Null
                 PROVE  revision'[group[e]] = revision[group[e]]
    BY <1>3, <1>4 DEF SameGroup
  <2>2. group[e] \in Devices /\ SameAccount(group[e], e)
    BY <2>1 DEF GroupsInv, GroupsAreInhabited, TypeOK
  <2> QED BY <1>3, <1>4, <2>1, <2>2 DEF Others, SameAccount
<1>5. PICK o : o = [phase |-> "list", type |-> "revoked",
                    about |-> Others(d, g), to |-> Others(d, g),
                    group |-> g, revision |-> 0]
  OBVIOUS
<1>6. o \in Outbox
  BY <1>5 DEF Outbox, EventTypes, Others
<1>7. \/ out' = [out EXCEPT ![h] = o]
      \/ Faults /\ out' = out
  BY <1>1, <1>5
     DEF DiscardAndTell, DiscardUntold, Then, AlsoTold, Quiet, eventVars
<1>8. GroupsTell
  <2>1. ASSUME NEW e \in Devices, ~SameGroup(e)
        PROVE  /\ group'[e] = Null
               /\ ~Faults => /\ out'[h].type = "revoked"
                             /\ e \in out'[h].to /\ e \in out'[h].about
    BY <1>3, <1>4, <1>5, <1>7, <2>1
  <2> QED BY <2>1 DEF GroupsTell
<1>9. GroupsLast
  <2>1. \A e \in Devices : status[e] # "absent" => status'[e] # "absent"
    BY <1>3 DEF StatusAfterDiscard
  <2>2. ASSUME NEW e \in Devices, NEW f \in Devices, group[e] = f
        PROVE  group'[e] = f \/ revision'[f] = 0
    <3>1. SameAccount(f, e)
      BY <2>2, NullAssumption DEF GroupsInv, GroupsAreInhabited
    <3> QED BY <1>3, <2>2, <3>1 DEF Others, SameAccount
  <2> QED BY <1>3, <2>1, <2>2 DEF GroupsLast
<1> QED BY <1>5, <1>6, <1>7, <1>8, <1>9

----------------------------------------------------------------------------
(* Steps that pass a connection by.                                         *)

ConnKept(c) ==
    /\ cpc'[c] = cpc[c] /\ ticket'[c] = ticket[c]
    /\ subscribed'[c] = subscribed[c] /\ queue'[c] = queue[c]
    /\ known'[c] = known[c] /\ told'[c] = told[c]

\* What a handler holds for a device it goes on holding.
OutboxCarries(k) ==
    \A d \in Devices :
        /\ out[k].type = "merged" /\ d \in out[k].to
             => /\ out'[k].type = "merged" /\ d \in out'[k].to
                /\ out'[k].revision = out[k].revision
        /\ out[k].type = "revoked" /\ d \in out[k].to /\ d \in out[k].about
             => /\ out'[k].type = "revoked" /\ d \in out'[k].to
                /\ d \in out'[k].about

LEMMA ToldCarries ==
    ASSUME NEW c \in Conns, ConnKept(c), NEW d \in Devices, NEW r,
           \A k \in Handlers : OutboxCarries(k)
    PROVE  /\ MergeTold(c, d, r) => MergeTold(c, d, r)'
           /\ DiscardTold(c, d) => DiscardTold(c, d)'
<1>1. known'[c] = known[c] /\ told'[c] = told[c]
  BY DEF ConnKept
<1>2. Buffered(c)' = Buffered(c)
  BY DEF ConnKept, Buffered
<1>3. /\ MergeTold(c, d, r)' <=>
           \/ known'[c] >= r
           \/ \E e \in Buffered(c)' : e.type = "merged" /\ e.revision = r
           \/ \E h \in Handlers : /\ out'[h].type = "merged"
                                  /\ d \in out'[h].to
                                  /\ out'[h].revision = r
      /\ DiscardTold(c, d)' <=>
           \/ told'[c]
           \/ \E e \in Buffered(c)' : e.type = "revoked" /\ e.device = d
           \/ \E h \in Handlers : /\ out'[h].type = "revoked"
                                  /\ d \in out'[h].to
                                  /\ d \in out'[h].about
  BY DEF MergeTold, DiscardTold
<1>4. MergeTold(c, d, r) => MergeTold(c, d, r)'
  BY <1>1, <1>2, <1>3 DEF MergeTold, OutboxCarries
<1>5. DiscardTold(c, d) => DiscardTold(c, d)'
  BY <1>1, <1>2, <1>3 DEF DiscardTold, OutboxCarries
<1> QED BY <1>4, <1>5

LEMMA ConnKeeps ==
    ASSUME EventsInv, NEW c \in Conns, ConnKept(c),
           \A k \in Handlers : OutboxCarries(k),
           GroupsTell, GroupsLast, revision' \in [Devices -> Nat]
    PROVE  /\ Admitted(c)' /\ MergeHeard(c)'
           /\ ~Faults => DiscardHeard(c)'
<1>1. /\ ticket[c] \in Ticket /\ ticket'[c] = ticket[c]
      /\ cpc'[c] = cpc[c] /\ subscribed'[c] = subscribed[c]
  BY DEF EventsInv, EventsTypeOK, ConnKept
<1>2. PICK d \in Devices, g \in Devices :
        d = ticket[c].device /\ g = ticket[c].group
  BY <1>1 DEF Ticket
<1>3. Admitted(c)'
  BY <1>1, <1>2 DEF EventsInv, Admitted, GroupsLast
<1>4. Listening(c)' => Listening(c) /\ status[d] # "absent"
  BY <1>1, <1>2 DEF Listening, EventsInv, Admitted
<1>5. ASSUME NEW r \in Nat, Listening(c)', group'[d] # Null,
             revision'[group'[d]] = r
      PROVE  MergeTold(c, d, r)'
  <2>1. CASE SameGroup(d)
    <3>1. group[d] # Null /\ revision[group[d]] = r
      BY <1>5, <2>1 DEF SameGroup
    <3>2. MergeTold(c, d, r)
      BY <1>2, <1>4, <1>5, <3>1 DEF EventsInv, MergeHeard
    <3> QED BY <3>2, ToldCarries
  <2>2. CASE \E h \in Handlers :
               /\ out'[h].type = "merged" /\ d \in out'[h].to
               /\ out'[h].revision = revision'[group'[d]]
    BY <1>5, <2>2 DEF MergeTold
  <2> QED BY <1>4, <1>5, <2>1, <2>2 DEF GroupsTell
<1>6. ASSUME ~Faults, Listening(c)', group'[d] = Null
      PROVE  DiscardTold(c, d)'
  <2>1. CASE SameGroup(d)
    <3>1. DiscardTold(c, d)
      BY <1>2, <1>4, <1>6, <2>1 DEF SameGroup, EventsInv, DiscardHeard
    <3> QED BY <3>1, ToldCarries
  <2>2. CASE \E h \in Handlers :
               /\ out'[h].type = "revoked" /\ d \in out'[h].to
               /\ d \in out'[h].about
    BY <2>2 DEF DiscardTold
  <2> QED BY <1>4, <1>6, <2>1, <2>2 DEF GroupsTell
<1>7. MergeHeard(c)'
  BY <1>1, <1>2, <1>5 DEF MergeHeard
<1>8. ~Faults => DiscardHeard(c)'
  BY <1>1, <1>2, <1>6 DEF DiscardHeard
<1> QED BY <1>3, <1>7, <1>8

\* A connection that is closed, or has only got its ticket accepted, is owed
\* nothing.
LEMMA NothingOwed ==
    ASSUME NEW c \in Conns, cpc'[c] \in {"closed", "ticketed"}
    PROVE  Admitted(c)' /\ MergeHeard(c)' /\ DiscardHeard(c)'
BY DEF Admitted, MergeHeard, DiscardHeard, Listening

----------------------------------------------------------------------------
(* The steps of a connection.                                               *)

LEMMA CloseTypes ==
    ASSUME EventsTypeOK, NEW c \in Conns, Close(c), UNCHANGED <<out, tickets>>
    PROVE  /\ EventsTypeOK' /\ cpc'[c] = "closed"
           /\ \A k \in Conns \ {c} : ConnKept(k)
<1>1. EventsTypeOK'
  <2>1. /\ queue' \in [Conns -> Seq(Event)]
        /\ \A k \in Conns : Len(queue'[k]) <= QueueSize
    BY EventsAssumption DEF Close, EventsTypeOK
  <2> QED BY <2>1, SilentType DEF Close, EventsTypeOK
<1> QED BY <1>1 DEF Close, EventsTypeOK, ConnKept

\* What the head of a buffer was, the rest of it is not.
LEMMA TailBuffer ==
    ASSUME NEW S, NEW q \in Seq(S), q # <<>>
    PROVE  /\ Tail(q) \in Seq(S) /\ Head(q) \in S
           /\ Len(Tail(q)) = Len(q) - 1
           /\ \A i \in 1..Len(q) :
                \/ q[i] = Head(q)
                \/ \E j \in 1..Len(Tail(q)) : q[i] = Tail(q)[j]
<1>1. /\ Tail(q) \in Seq(S) /\ Head(q) \in S
      /\ Len(Tail(q)) = Len(q) - 1 /\ Len(q) \in Nat
      /\ Head(q) = q[1]
      /\ \A j \in 1..Len(Tail(q)) : Tail(q)[j] = q[j + 1]
  OBVIOUS
<1>2. ASSUME NEW i \in 1..Len(q), i # 1
      PROVE  \E j \in 1..Len(Tail(q)) : q[i] = Tail(q)[j]
  <2>1. i - 1 \in 1..Len(Tail(q)) /\ (i - 1) + 1 = i
    BY <1>1, <1>2
  <2> QED BY <1>1, <2>1
<1> QED BY <1>1, <1>2

LEMMA AppendBuffer ==
    ASSUME NEW S, NEW q \in Seq(S), NEW e \in S
    PROVE  /\ Append(q, e) \in Seq(S)
           /\ Len(Append(q, e)) = Len(q) + 1
           /\ {Append(q, e)[i] : i \in 1..Len(Append(q, e))}
                = {q[i] : i \in 1..Len(q)} \cup {e}
<1>1. /\ Append(q, e) \in Seq(S) /\ Len(q) \in Nat
      /\ Len(Append(q, e)) = Len(q) + 1
      /\ \A i \in 1..Len(q) : Append(q, e)[i] = q[i]
      /\ Append(q, e)[Len(q) + 1] = e
  OBVIOUS
<1>2. 1..(Len(q) + 1) = (1..Len(q)) \cup {Len(q) + 1}
  BY <1>1
<1> QED BY <1>1, <1>2

\* A written event was buffered; what it told the client, the client knows.
LEMMA SentEvent ==
    ASSUME EventsTypeOK, NEW c \in Conns, SendEvent(c)
    PROVE  /\ EventsTypeOK' /\ \A k \in Conns \ {c} : ConnKept(k)
           /\ cpc'[c] = cpc[c] /\ ticket'[c] = ticket[c]
           /\ subscribed'[c] = subscribed[c]
           /\ \A d \in Devices, r \in Nat :
                ticket[c].device = d =>
                  /\ MergeTold(c, d, r) => MergeTold(c, d, r)'
                  /\ DiscardTold(c, d) => DiscardTold(c, d)'
<1>1. /\ queue[c] \in Seq(Event) /\ queue[c] # <<>>
      /\ UNCHANGED <<out, tickets, cpc, ticket, subscribed>>
  BY DEF SendEvent, EventsTypeOK
<1>2. PICK e : e = Head(queue[c])
  OBVIOUS
<1>3. PICK q : q = Tail(queue[c])
  OBVIOUS
<1>4. /\ e \in Event /\ q \in Seq(Event) /\ Len(q) = Len(queue[c]) - 1
      /\ \A i \in 1..Len(queue[c]) :
                \/ queue[c][i] = e
                \/ \E j \in 1..Len(q) : queue[c][i] = q[j]
      /\ Len(queue[c]) \in Nat
  BY SMTT(30), <1>1, <1>2, <1>3, TailBuffer
<1>5. PICK n : n = IF e.type = "merged" /\ e.revision > known[c]
                   THEN e.revision ELSE known[c]
  OBVIOUS
<1>6. PICK b : b = (told[c] \/ (e.type = "revoked"
                                /\ e.device = ticket[c].device))
  OBVIOUS
<1>7. /\ queue' = [queue EXCEPT ![c] = q]
      /\ known' = [known EXCEPT ![c] = n]
      /\ told' = [told EXCEPT ![c] = b]
  BY <1>2, <1>3, <1>5, <1>6 DEF SendEvent, EventsTypeOK
<1>8. /\ n \in Nat /\ n >= known[c] /\ known[c] \in Nat
      /\ e.type = "merged" => n >= e.revision
      /\ b \in BOOLEAN
  BY <1>4, <1>5, <1>6 DEF EventsTypeOK, Event
<1>9. EventsTypeOK'
  <2>1. /\ queue' \in [Conns -> Seq(Event)]
        /\ \A k \in Conns : Len(queue'[k]) <= QueueSize
    BY <1>4, <1>7, EventsAssumption DEF EventsTypeOK
  <2> QED BY <1>1, <1>7, <1>8, <2>1 DEF EventsTypeOK
<1>10. /\ \A k \in Conns \ {c} : ConnKept(k)
       /\ queue'[c] = q /\ known'[c] = n /\ told'[c] = b
  BY <1>1, <1>7 DEF EventsTypeOK, ConnKept
<1>11. \A x \in Buffered(c) : x = e \/ x \in Buffered(c)'
  BY <1>4, <1>10 DEF Buffered
<1>12. ASSUME NEW d \in Devices, NEW r \in Nat, ticket[c].device = d
       PROVE  /\ MergeTold(c, d, r) => MergeTold(c, d, r)'
              /\ DiscardTold(c, d) => DiscardTold(c, d)'
  <2>1. /\ MergeTold(c, d, r)' <=>
             \/ n >= r
             \/ \E x \in Buffered(c)' : x.type = "merged" /\ x.revision = r
             \/ \E h \in Handlers : /\ out[h].type = "merged"
                                    /\ d \in out[h].to
                                    /\ out[h].revision = r
        /\ DiscardTold(c, d)' <=>
             \/ b
             \/ \E x \in Buffered(c)' : x.type = "revoked" /\ x.device = d
             \/ \E h \in Handlers : /\ out[h].type = "revoked"
                                    /\ d \in out[h].to
                                    /\ d \in out[h].about
    BY <1>1, <1>10 DEF MergeTold, DiscardTold
  <2>2. known[c] >= r \/ (e.type = "merged" /\ e.revision = r) => n >= r
    BY <1>8
  <2>3. MergeTold(c, d, r) => MergeTold(c, d, r)'
    BY <1>11, <2>1, <2>2 DEF MergeTold
  <2>4. told[c] \/ (e.type = "revoked" /\ e.device = d) => b
    BY <1>6, <1>12
  <2>5. DiscardTold(c, d) => DiscardTold(c, d)'
    BY <1>11, <2>1, <2>4 DEF DiscardTold
  <2> QED BY <2>3, <2>5
<1> QED BY <1>1, <1>9, <1>10, <1>12

LEMMA ConnectionKeeps ==
    ASSUME EventsInv, NEW c \in Conns,
           \/ ConnStep(c) \/ Disconnect(c)
           \/ \E t \in Tickets : ConsumeTicket(c, t)
    PROVE  /\ EventsTypeOK' /\ \A k \in Conns \ {c} : ConnKept(k)
           /\ Admitted(c)' /\ MergeHeard(c)'
           /\ ~Faults => DiscardHeard(c)'
<1>1. /\ EventsTypeOK /\ UNCHANGED <<vars, out>>
      /\ UNCHANGED <<status, group, revision>>
  BY DEF EventsInv, ConnStep, CheckDevice, SubscribeConn, SendReady,
     SendEvent, CloseDropped, Disconnect, ConsumeTicket, vars, dbVars,
     groupVars
<1>2. PICK d \in Devices, g \in Devices :
        d = ticket[c].device /\ g = ticket[c].group
  BY <1>1 DEF EventsTypeOK, Ticket
<1>3. CASE Close(c) /\ UNCHANGED tickets
  BY <1>1, <1>3, CloseTypes, NothingOwed
<1>4. ASSUME NEW t \in Tickets, ConsumeTicket(c, t)
      PROVE  /\ EventsTypeOK' /\ \A k \in Conns \ {c} : ConnKept(k)
             /\ cpc'[c] \in {"closed", "ticketed"}
  <2>1. tickets[t] \in Ticket \cup {Null} /\ tickets[t] # Null
    BY <1>1, <1>4 DEF ConsumeTicket, EventsTypeOK
  <2>2. EventsTypeOK'
    BY <1>1, <1>4, <2>1 DEF ConsumeTicket, EventsTypeOK, Goto
  <2> QED BY <1>1, <1>4, <2>2 DEF ConsumeTicket, EventsTypeOK, Goto, ConnKept
<1>5. CASE CheckDevice(c) /\ ~Close(c)
  <2>1. /\ status[d] = "active" /\ group[d] = g
        /\ cpc' = [cpc EXCEPT ![c] = "accepted"]
        /\ UNCHANGED <<tickets, ticket, subscribed, queue, known, told>>
    BY <1>2, <1>5 DEF CheckDevice, Active, Goto
  <2>2. EventsTypeOK' /\ \A k \in Conns \ {c} : ConnKept(k)
    BY <1>1, <2>1 DEF EventsTypeOK, ConnKept
  <2>3. status[g] # "absent"
    BY <2>1, NullAssumption
       DEF EventsInv, GroupsInv, GroupsAreInhabited, GroupExists, Unborn
  <2>4. cpc'[c] = "accepted" /\ ticket'[c] = ticket[c]
    BY <1>1, <2>1 DEF EventsTypeOK
  <2>5. Admitted(c)'
    BY <1>1, <1>2, <2>1, <2>3, <2>4 DEF Admitted
  <2> QED BY <2>2, <2>4, <2>5 DEF MergeHeard, DiscardHeard, Listening
<1>6. CASE SubscribeConn(c) /\ ~Close(c)
  <2>1. /\ cpc[c] = "accepted" /\ cpc' = [cpc EXCEPT ![c] = "subscribed"]
        /\ subscribed' = [subscribed EXCEPT ![c] = TRUE]
        /\ UNCHANGED <<tickets, ticket, queue, known, told>>
    BY <1>6 DEF SubscribeConn, Goto
  <2>2. EventsTypeOK' /\ \A k \in Conns \ {c} : ConnKept(k)
    BY <1>1, <2>1 DEF EventsTypeOK, ConnKept
  <2>3. cpc'[c] = "subscribed" /\ ticket'[c] = ticket[c]
    BY <1>1, <2>1 DEF EventsTypeOK
  <2>4. Admitted(c)'
    BY <1>1, <1>2, <2>1, <2>3 DEF EventsInv, Admitted
  <2> QED BY <2>2, <2>3, <2>4 DEF MergeHeard, DiscardHeard, Listening
<1>7. CASE SendReady(c) /\ ~Close(c)
  <2>1. /\ cpc[c] = "subscribed" /\ cpc' = [cpc EXCEPT ![c] = "streaming"]
        /\ revision[g] > 0
        /\ known' = [known EXCEPT ![c] = revision[g]]
        /\ UNCHANGED <<tickets, ticket, subscribed, queue, told>>
    BY <1>2, <1>7 DEF SendReady, Goto, GroupExists
  <2>2. revision[g] \in Nat
    BY DEF EventsInv, GroupsInv, TypeOK
  <2>3. EventsTypeOK' /\ \A k \in Conns \ {c} : ConnKept(k)
    BY <1>1, <2>1, <2>2 DEF EventsTypeOK, ConnKept
  <2>4. /\ cpc'[c] = "streaming" /\ ticket'[c] = ticket[c]
        /\ known'[c] = revision[g]
    BY <1>1, <2>1 DEF EventsTypeOK
  <2>5. group[d] = g /\ status[d] # "absent"
    BY <1>2, <2>1, <2>2 DEF EventsInv, Admitted
  <2>6. Admitted(c)'
    BY <1>1, <1>2, <2>4, <2>5 DEF Admitted
  <2>7. \A r \in Nat : revision'[group'[d]] = r => MergeTold(c, d, r)'
    BY <1>1, <2>2, <2>4, <2>5 DEF MergeTold
  <2>8. group'[d] # Null
    BY <1>1, <2>5, NullAssumption
  <2> QED BY <1>2, <2>3, <2>4, <2>6, <2>7, <2>8 DEF MergeHeard, DiscardHeard
<1>8. CASE SendEvent(c)
  <2>1. /\ EventsTypeOK' /\ \A k \in Conns \ {c} : ConnKept(k)
        /\ cpc'[c] = cpc[c] /\ ticket'[c] = ticket[c]
        /\ subscribed'[c] = subscribed[c]
        /\ \A r \in Nat : MergeTold(c, d, r) => MergeTold(c, d, r)'
        /\ DiscardTold(c, d) => DiscardTold(c, d)'
    <3>1. \A r \in Nat : /\ MergeTold(c, d, r) => MergeTold(c, d, r)'
                         /\ DiscardTold(c, d) => DiscardTold(c, d)'
      BY <1>1, <1>2, <1>8, SentEvent
    <3> QED BY <1>1, <1>8, <3>1, SentEvent
  <2>2. Admitted(c)'
    BY <1>1, <1>2, <2>1 DEF EventsInv, Admitted
  <2>3. Listening(c)' <=> Listening(c)
    BY <2>1 DEF Listening
  <2>4. MergeHeard(c)'
    BY <1>1, <1>2, <2>1, <2>3 DEF EventsInv, MergeHeard
  <2>5. ~Faults => DiscardHeard(c)'
    BY <1>1, <1>2, <2>1, <2>3 DEF EventsInv, DiscardHeard
  <2> QED BY <2>1, <2>2, <2>4, <2>5
<1>9. CASE CloseDropped(c) \/ Disconnect(c)
  BY <1>3, <1>9 DEF CloseDropped, Disconnect
<1>10. CASE CheckDevice(c) \/ SubscribeConn(c) \/ SendReady(c)
  BY <1>3, <1>5, <1>6, <1>7, <1>10 DEF CheckDevice, SubscribeConn, SendReady
<1> QED BY <1>4, <1>8, <1>9, <1>10, NothingOwed DEF ConnStep

\* A connection steps: the others are passed by.
LEMMA ConnectionStep ==
    ASSUME EventsInv, NEW c \in Conns,
           \/ ConnStep(c) \/ Disconnect(c)
           \/ \E t \in Tickets : ConsumeTicket(c, t)
    PROVE  EventsInv'
<1>1. /\ UNCHANGED <<vars, out>>
      /\ UNCHANGED <<status, group, revision, codes, pc>>
  BY DEF ConnStep, CheckDevice, SubscribeConn, SendReady, SendEvent,
     CloseDropped, Disconnect, ConsumeTicket, vars, dbVars, groupVars,
     handlerVars
<1>2. GroupsInv'
  BY <1>1, EveryStep DEF EventsInv, GroupsNext
<1>3. /\ EventsTypeOK' /\ \A k \in Conns \ {c} : ConnKept(k)
      /\ Admitted(c)' /\ MergeHeard(c)'
      /\ ~Faults => DiscardHeard(c)'
  BY ConnectionKeeps
<1>4. \A h \in Handlers : OutboxInOrder(h)' /\ OutboxCarries(h)
  BY <1>1 DEF EventsInv, OutboxInOrder, OutboxCarries
<1>5. GroupsTell /\ GroupsLast
  BY <1>1, StillGroups DEF EventsInv
<1>6. revision' \in [Devices -> Nat]
  BY <1>2 DEF GroupsInv, TypeOK
<1>7. \A k \in Conns \ {c} : /\ Admitted(k)' /\ MergeHeard(k)'
                             /\ ~Faults => DiscardHeard(k)'
  BY <1>3, <1>4, <1>5, <1>6, ConnKeeps
<1> QED BY <1>2, <1>3, <1>4, <1>7 DEF EventsInv

----------------------------------------------------------------------------
(* The steps of a handler that tells.                                       *)

\* What becomes of the outbox o of a handler that lists or reads: it is given
\* up, unless it tells of a group, or goes on with more recipients.
Listed(h, o) ==
    \/ o = Silent /\ out[h].type \in {"manifest", "session"}
    \/ /\ o.phase \in {"read", "publish"} /\ o.type = out[h].type
       /\ o.phase = "read" => o.type = "manifest"
       /\ o.about = out[h].about /\ out[h].to \subseteq o.to
       /\ o.type # "manifest" => o.revision = out[h].revision

LEMMA ListingTells ==
    ASSUME EventsInv, NEW h \in Handlers,
           ListRecipients(h) \/ ReadEventRevision(h)
    PROVE  /\ out' \in [Handlers -> Outbox]
           /\ \A k \in Handlers : OutboxInOrder(k)' /\ OutboxCarries(k)
<1>1. /\ EventsTypeOK /\ OutboxInOrder(h) /\ UNCHANGED pc
      /\ out[h] \in Outbox
  BY DEF EventsInv, EventsTypeOK, ListRecipients, ReadEventRevision, vars,
     handlerVars
<1>2. PICK o \in Outbox :
        out' = [out EXCEPT ![h] = o] /\ Listed(h, o)
  <2>1. CASE ListRecipients(h)
    <3>1. ASSUME NEW found \in SUBSET Devices,
                 NEW next \in {"read", "publish"},
                 next = "read" => out[h].type = "manifest",
                 Then(h, [out[h] EXCEPT !.phase = next, !.to = @ \cup found])
          PROVE  \E o \in Outbox :
                   out' = [out EXCEPT ![h] = o] /\ Listed(h, o)
      <4>1. PICK o : o = [out[h] EXCEPT !.phase = next, !.to = @ \cup found]
        OBVIOUS
      <4>2. /\ o \in Outbox /\ o.phase = next /\ o.type = out[h].type
            /\ o.about = out[h].about /\ out[h].to \subseteq o.to
            /\ o.revision = out[h].revision
        BY <1>1, <4>1 DEF Outbox
      <4> QED BY <3>1, <4>1, <4>2 DEF Then, Listed
    <3>2. CASE Then(h, [out[h] EXCEPT !.phase = AfterListing(out[h].type),
                                      !.to = @ \cup Members(out[h].group)])
      <4>1. /\ AfterListing(out[h].type) \in {"read", "publish"}
            /\ AfterListing(out[h].type) = "read" => out[h].type = "manifest"
            /\ Members(out[h].group) \in SUBSET Devices
        BY DEF AfterListing, Members
      <4> QED BY <3>1, <3>2, <4>1
    <3>3. ASSUME NEW found \in SUBSET Members(out[h].group),
                 Then(h, [out[h] EXCEPT !.phase = "publish",
                                        !.to = @ \cup found])
          PROVE  \E o \in Outbox :
                   out' = [out EXCEPT ![h] = o] /\ Listed(h, o)
      BY <3>1, <3>3 DEF Members
    <3>4. CASE out[h].type \in {"manifest", "session"} /\ Then(h, Silent)
      BY <3>4, SilentType DEF Then, Listed
    <3> QED BY <2>1, <3>2, <3>3, <3>4 DEF ListRecipients
  <2>2. CASE ReadEventRevision(h)
    <3>1. PICK r \in {revision[out[h].group], 0} :
            Then(h, [out[h] EXCEPT !.phase = "publish", !.revision = r])
      BY <2>2 DEF ReadEventRevision
    <3>2. r \in Nat
      BY <1>1 DEF EventsInv, GroupsInv, TypeOK, Outbox
    <3>3. PICK o : o = [out[h] EXCEPT !.phase = "publish", !.revision = r]
      OBVIOUS
    <3>4. o \in Outbox
      BY <1>1, <3>2, <3>3 DEF Outbox
    <3>5. /\ o.phase = "publish" /\ o.type = out[h].type
          /\ o.about = out[h].about /\ o.to = out[h].to
          /\ out[h].type = "manifest"
      BY <1>1, <2>2, <3>3 DEF Outbox, OutboxInOrder, ReadEventRevision
    <3> QED BY <3>1, <3>3, <3>4, <3>5 DEF Then, Listed
  <2> QED BY <2>1, <2>2
<1>3. out' \in [Handlers -> Outbox] /\ out'[h] = o
  BY <1>1, <1>2 DEF EventsTypeOK
<1>4. OutboxCarries(h)
  BY <1>2, <1>3 DEF OutboxCarries, Listed
<1>5. pc[h] = "idle"
  BY <1>1 DEF OutboxInOrder, ListRecipients, ReadEventRevision
<1>6. OutboxInOrder(h)'
  BY <1>1, <1>2, <1>3, <1>5 DEF OutboxInOrder, Listed, Silent
<1>7. ASSUME NEW k \in Handlers \ {h}
      PROVE  OutboxInOrder(k)' /\ OutboxCarries(k)
  <2>1. out'[k] = out[k]
    BY <1>1, <1>2 DEF EventsTypeOK
  <2> QED BY <1>1, <2>1 DEF EventsInv, OutboxInOrder, OutboxCarries
<1> QED BY <1>3, <1>4, <1>6, <1>7

\* One event goes to the subscribers the handler has found; those whose
\* buffer is full are dropped, and owed nothing any more.
LEMMA PublishStep ==
    ASSUME EventsInv, NEW h \in Handlers, Publish(h)
    PROVE  EventsInv'
<1>1. /\ EventsTypeOK /\ OutboxInOrder(h) /\ out[h] \in Outbox
      /\ out[h].phase = "publish"
      /\ UNCHANGED <<vars, tickets, cpc, ticket, known, told>>
      /\ UNCHANGED <<status, group, revision, codes, pc>>
  BY DEF EventsInv, EventsTypeOK, Publish, vars, dbVars, groupVars,
         handlerVars
<1>2. PICK D : D = out[h].to
  OBVIOUS
<1>3. PICK b \in out[h].about :
        LET e == [type |-> out[h].type, device |-> b,
                  revision |-> out[h].revision]
            rest == out[h].about \ {b}
        IN
        /\ queue' = [c \in Conns |->
                       IF c \in Subscribers(D) /\ ~Full(c)
                       THEN Append(queue[c], e) ELSE queue[c]]
        /\ subscribed' = [c \in Conns |-> subscribed[c] /\ c \notin Dropped(D)]
        /\ out' = [out EXCEPT ![h] = IF rest = {} THEN Silent
                                     ELSE [@ EXCEPT !.about = rest]]
  BY <1>2 DEF Publish
<1>4. PICK e : e = [type |-> out[h].type, device |-> b,
                    revision |-> out[h].revision]
  OBVIOUS
<1>5. /\ e \in Event /\ e.type = out[h].type /\ e.device = b
      /\ e.revision = out[h].revision
  BY <1>1, <1>4 DEF Outbox, Event
<1>6. /\ \A c \in Conns : queue'[c] = IF c \in Subscribers(D) /\ ~Full(c)
                                      THEN Append(queue[c], e) ELSE queue[c]
      /\ queue' = [c \in Conns |-> queue'[c]]
      /\ \A c \in Conns : subscribed'[c] = (subscribed[c]
                                            /\ c \notin Dropped(D))
      /\ subscribed' \in [Conns -> BOOLEAN]
  BY <1>1, <1>3, <1>4 DEF EventsTypeOK
<1>7. PICK o \in Outbox :
        /\ out' = [out EXCEPT ![h] = o]
        /\ \/ o = Silent /\ out[h].about = {b}
           \/ /\ o.phase = "publish" /\ o.type = out[h].type
              /\ o.to = D /\ o.about = out[h].about \ {b}
  <2>1. PICK rest : rest = out[h].about \ {b}
    OBVIOUS
  <2>2. PICK n : n = [out[h] EXCEPT !.about = rest]
    OBVIOUS
  <2>3. n \in Outbox
    BY <1>1, <2>1, <2>2 DEF Outbox
  <2>4. /\ n.phase = "publish" /\ n.type = out[h].type
        /\ n.to = D /\ n.about = out[h].about \ {b}
    BY <1>1, <1>2, <2>1, <2>2 DEF Outbox
  <2>5. out' = [out EXCEPT ![h] = IF rest = {} THEN Silent ELSE n]
    BY <1>3, <2>1, <2>2
  <2>6. rest = {} => out[h].about = {b}
    BY <1>3, <2>1
  <2> QED BY <2>3, <2>4, <2>5, <2>6, SilentType
<1>8. /\ out' \in [Handlers -> Outbox] /\ out'[h] = o
      /\ \A k \in Handlers \ {h} : out'[k] = out[k]
  BY <1>1, <1>7 DEF EventsTypeOK
<1>9. EventsTypeOK'
  <2>1. ASSUME NEW c \in Conns
        PROVE  queue'[c] \in Seq(Event) /\ Len(queue'[c]) <= QueueSize
    <3>1. queue[c] \in Seq(Event) /\ Len(queue[c]) <= QueueSize
      BY <1>1 DEF EventsTypeOK
    <3>2. CASE c \in Subscribers(D) /\ ~Full(c)
      <4>1. /\ queue'[c] \in Seq(Event)
            /\ Len(queue'[c]) = Len(queue[c]) + 1
        <5>1. queue'[c] = Append(queue[c], e)
          BY <1>6, <3>2
        <5> QED BY <1>5, <3>1, <5>1, AppendBuffer
      <4>2. Len(queue[c]) < QueueSize /\ Len(queue[c]) \in Nat
        BY <3>1, <3>2, EventsAssumption DEF Full
      <4> QED BY <4>1, <4>2, EventsAssumption
    <3>3. CASE ~(c \in Subscribers(D) /\ ~Full(c))
      BY <1>6, <3>1, <3>3
    <3> QED BY <3>2, <3>3
  <2>2. queue' \in [Conns -> Seq(Event)]
    BY <1>6, <2>1
  <2> QED BY <1>1, <1>6, <1>8, <2>1, <2>2 DEF EventsTypeOK
<1>10. ASSUME NEW c \in Conns, Listening(c)'
       PROVE  /\ Listening(c)
              /\ Buffered(c) \subseteq Buffered(c)'
              /\ ticket[c].device \in D => e \in Buffered(c)'
  <2>1. Listening(c) /\ subscribed[c] /\ c \notin Dropped(D)
    BY <1>1, <1>6, <1>10 DEF Listening
  <2>2. ticket[c].device \in D => c \in Subscribers(D) /\ ~Full(c)
    BY <2>1 DEF Subscribers, Dropped
  <2>3. queue[c] \in Seq(Event)
    BY <1>1 DEF EventsTypeOK
  <2>4. CASE c \in Subscribers(D) /\ ~Full(c)
    <3>1. Buffered(c)' = Buffered(c) \cup {e}
      <4>1. queue'[c] = Append(queue[c], e)
        BY <1>6, <2>4
      <4> QED BY <1>5, <2>3, <4>1, AppendBuffer DEF Buffered
    <3> QED BY <2>1, <3>1
  <2>5. CASE ~(c \in Subscribers(D) /\ ~Full(c))
    <3>1. queue'[c] = queue[c]
      BY <1>6, <2>5
    <3> QED BY <2>1, <2>2, <2>5, <3>1 DEF Buffered
  <2> QED BY <2>4, <2>5
<1>11. ASSUME NEW c \in Conns
       PROVE  /\ Admitted(c)' /\ MergeHeard(c)'
              /\ ~Faults => DiscardHeard(c)'
  <2>1. Admitted(c)'
    BY <1>1, <1>11 DEF EventsInv, Admitted
  <2>2. ASSUME NEW d \in Devices, NEW r \in Nat, Listening(c)',
               ticket[c].device = d, MergeTold(c, d, r)
        PROVE  MergeTold(c, d, r)'
    <3>1. /\ Buffered(c) \subseteq Buffered(c)'
          /\ d \in D => e \in Buffered(c)'
      BY <1>10, <2>2
    <3>2. ASSUME NEW k \in Handlers, out[k].type = "merged",
                 d \in out[k].to, out[k].revision = r
          PROVE  MergeTold(c, d, r)'
      <4>1. CASE k = h
        <5>1. e \in Buffered(c)' /\ e.type = "merged" /\ e.revision = r
          BY <1>2, <1>5, <3>1, <3>2, <4>1
        <5> QED BY <5>1 DEF MergeTold
      <4>2. CASE k # h
        BY <1>8, <3>2, <4>2 DEF MergeTold
      <4> QED BY <4>1, <4>2
    <3>3. ASSUME NEW x \in Buffered(c), x.type = "merged", x.revision = r
          PROVE  MergeTold(c, d, r)'
      BY <3>1, <3>3 DEF MergeTold
    <3>4. known[c] >= r => MergeTold(c, d, r)'
      BY <1>1 DEF MergeTold
    <3> QED BY <2>2, <3>2, <3>3, <3>4 DEF MergeTold
  <2>3. ASSUME NEW d \in Devices, Listening(c)',
               ticket[c].device = d, DiscardTold(c, d)
        PROVE  DiscardTold(c, d)'
    <3>1. /\ Buffered(c) \subseteq Buffered(c)'
          /\ d \in D => e \in Buffered(c)'
      BY <1>10, <2>3
    <3>2. ASSUME NEW k \in Handlers, out[k].type = "revoked",
                 d \in out[k].to, d \in out[k].about
          PROVE  DiscardTold(c, d)'
      <4>1. CASE k = h /\ d = b
        <5>1. e \in Buffered(c)' /\ e.type = "revoked" /\ e.device = d
          BY <1>2, <1>5, <3>1, <3>2, <4>1
        <5> QED BY <5>1 DEF DiscardTold
      <4>2. CASE k = h /\ d # b
        <5>1. /\ out'[h].type = "revoked" /\ d \in out'[h].to
              /\ d \in out'[h].about
          BY <1>2, <1>7, <1>8, <3>2, <4>2
        <5> QED BY <5>1 DEF DiscardTold
      <4>3. CASE k # h
        BY <1>8, <3>2, <4>3 DEF DiscardTold
      <4> QED BY <4>1, <4>2, <4>3
    <3>3. ASSUME NEW x \in Buffered(c), x.type = "revoked", x.device = d
          PROVE  DiscardTold(c, d)'
      BY <3>1, <3>3 DEF DiscardTold
    <3>4. told[c] => DiscardTold(c, d)'
      BY <1>1 DEF DiscardTold
    <3> QED BY <2>3, <3>2, <3>3, <3>4 DEF DiscardTold
  <2>4. MergeHeard(c)'
    BY <1>1, <1>10, <2>2 DEF EventsInv, MergeHeard
  <2>5. ~Faults => DiscardHeard(c)'
    BY <1>1, <1>10, <2>3 DEF EventsInv, DiscardHeard
  <2> QED BY <2>1, <2>4, <2>5
<1>12. \A k \in Handlers : OutboxInOrder(k)'
  <2>1. pc[h] = "idle"
    BY <1>1 DEF OutboxInOrder
  <2>2. OutboxInOrder(h)'
    BY <1>1, <1>7, <1>8, <2>1 DEF OutboxInOrder, Silent
  <2> QED BY <1>1, <1>8, <2>2 DEF EventsInv, OutboxInOrder
<1>13. GroupsInv'
  BY <1>1, EveryStep DEF EventsInv, GroupsNext
<1> QED BY <1>9, <1>11, <1>12, <1>13 DEF EventsInv

----------------------------------------------------------------------------
(* Requests, enrolments, the clock and a restart.                           *)

\* The connections wait; a handler may take over an outbox that was empty.
LEMMA GroupsMoveOn ==
    ASSUME EventsInv, GroupsInv', UNCHANGED connVars,
           out' \in [Handlers -> Outbox],
           tickets' \in [Tickets -> Ticket \cup {Null}],
           \A k \in Handlers : /\ OutboxInOrder(k)'
                               /\ out'[k] = out[k] \/ out[k] = Silent
                                    \/ OutboxCarries(k),
           GroupsTell, GroupsLast
    PROVE  EventsInv'
<1>1. EventsTypeOK'
  BY DEF EventsInv, EventsTypeOK, connVars
<1>2. \A c \in Conns : ConnKept(c)
  BY DEF connVars, ConnKept
<1>3. \A k \in Handlers : OutboxCarries(k)
  BY DEF OutboxCarries, Silent
<1>4. revision' \in [Devices -> Nat]
  BY DEF GroupsInv, TypeOK
<1>5. \A c \in Conns : /\ Admitted(c)' /\ MergeHeard(c)'
                       /\ ~Faults => DiscardHeard(c)'
  BY <1>2, <1>3, <1>4, ConnKeeps
<1> QED BY <1>1, <1>5 DEF EventsInv

LEMMA RequestStepKeeps ==
    ASSUME EventsInv, NEW h \in Handlers, RequestStep(h)
    PROVE  EventsInv'
<1>1. /\ EventsTypeOK /\ GroupsInv
      /\ \A k \in Handlers : OutboxInOrder(k)
      /\ out \in [Handlers -> Outbox]
      /\ tickets \in [Tickets -> Ticket \cup {Null}]
      /\ pc \in [Handlers -> {"idle", "authorized", "listing", "listed"}]
      /\ req[h] \in Request /\ now \in Nat
  BY DEF EventsInv, EventsTypeOK, GroupsInv, TypeOK
<1>2. CASE \/ out[h].phase = "none" /\ RequireSession(h) /\ Quiet
           \/ Abandon(h) /\ Quiet
           \/ GenerateCode(h) /\ Quiet
           \/ \E c \in codes : AlreadyJoined(h, c) /\ Quiet
  <2>1. UNCHANGED <<status, group, revision, out, tickets, connVars>>
    BY <1>2 DEF RequireSession, Abandon, GenerateCode, AlreadyJoined, dbVars,
       groupVars, Quiet, eventVars
  <2>2. GroupsInv'
    BY <1>1, <1>2, OwnStep, CodeStep DEF GroupsNext
  <2>3. ASSUME NEW k \in Handlers PROVE OutboxInOrder(k)'
    <3>1. pc'[k] # "idle" => out[k].phase = "none"
      BY <1>1, <1>2 DEF RequireSession, Abandon, GenerateCode, AlreadyJoined,
         Finish, OutboxInOrder
    <3> QED BY <1>1, <2>1, <3>1 DEF OutboxInOrder
  <2> QED BY <1>1, <2>1, <2>2, <2>3, StillGroups, GroupsMoveOn
<1>3. ASSUME pc[h] # "idle", Finish(h), GroupsInv', GroupsTell, GroupsLast,
             UNCHANGED connVars,
             tickets' \in [Tickets -> Ticket \cup {Null}],
             out' \in [Handlers -> Outbox],
             \A k \in Handlers \ {h} : out'[k] = out[k],
             out'[h] = out[h] \/ out'[h].phase \in {"list", "publish"}
      PROVE  EventsInv'
  <2>1. out[h] = Silent
    BY <1>1, <1>3 DEF OutboxInOrder
  <2>2. pc'[h] = "idle" /\ \A k \in Handlers \ {h} : pc'[k] = pc[k]
    BY <1>1, <1>3 DEF Finish
  <2>3. \A k \in Handlers : OutboxInOrder(k)'
    BY <1>1, <1>3, <2>1, <2>2 DEF OutboxInOrder
  <2> QED BY <1>3, <2>1, <2>3, GroupsMoveOn
<1>4. ASSUME NEW c \in codes, MergeAndTell(h, c) PROVE EventsInv'
  <2>1. /\ MergeGroups(h, c) /\ pc[h] # "idle" /\ Finish(h)
        /\ UNCHANGED <<tickets, connVars>>
    BY <1>4 DEF MergeAndTell, MergeGroups, Serves, Then
  <2>2. GroupsInv'
    BY <1>1, <2>1, MergeStep DEF GroupsNext
  <2> QED BY <1>1, <1>3, <1>4, <2>1, <2>2, MergeTells
<1>5. CASE DiscardAndTell(h) \/ DiscardUntold(h)
  <2>1. /\ DiscardOtherGroups(h) /\ pc[h] # "idle" /\ Finish(h)
        /\ UNCHANGED <<tickets, connVars>>
    BY <1>5 DEF DiscardAndTell, DiscardUntold, DiscardOtherGroups, Serves,
       Then, Quiet, eventVars
  <2>2. GroupsInv'
    BY <1>1, <2>1, DiscardStep DEF GroupsNext
  <2> QED BY <1>1, <1>3, <1>5, <2>1, <2>2, DiscardTells
<1>6. CASE RevokeAndTell(h)
  <2>1. /\ RevokeDevice(h) /\ pc[h] # "idle" /\ Finish(h)
        /\ UNCHANGED <<tickets, connVars>>
    BY <1>6 DEF RevokeAndTell, RevokeDevice, Serves, Then
  <2>2. GroupsInv'
    BY <1>1, <2>1, RevokeStep DEF GroupsNext
  <2>3. PICK o : o = [phase |-> "list", type |-> "revoked",
                      about |-> {req[h].target}, to |-> {},
                      group |-> req[h].group, revision |-> 0]
    OBVIOUS
  <2>4. o \in Outbox /\ o.phase = "list"
    BY <1>1, <2>3 DEF Outbox, EventTypes, Request
  <2>5. out' = [out EXCEPT ![h] = o]
    BY <1>6, <2>3 DEF RevokeAndTell, Then
  <2> QED BY <1>1, <1>3, <2>1, <2>2, <2>4, <2>5, RevokeGroups
<1>7. CASE PutOwnManifest(h) \/ ChangeSessionFile(h)
  <2>1. /\ pc[h] # "idle" /\ Finish(h) /\ Abandon(h)
        /\ UNCHANGED <<status, group, revision, tickets, connVars>>
    BY <1>7 DEF PutOwnManifest, ChangeSessionFile, Serves, Then, Abandon,
       dbVars, groupVars
  <2>2. GroupsInv'
    BY <1>1, <2>1, CodeStep DEF GroupsNext
  <2>3. PICK type \in {"manifest", "session"} :
          Then(h, [phase |-> "list", type |-> type,
                   about |-> {req[h].device}, to |-> {},
                   group |-> req[h].group, revision |-> 0])
    BY <1>7 DEF PutOwnManifest, ChangeSessionFile
  <2>4. PICK o : o = [phase |-> "list", type |-> type,
                      about |-> {req[h].device}, to |-> {},
                      group |-> req[h].group, revision |-> 0]
    OBVIOUS
  <2>5. o \in Outbox /\ o.phase = "list"
    BY <1>1, <2>4 DEF Outbox, EventTypes, Request
  <2>6. out' = [out EXCEPT ![h] = o]
    BY <2>3, <2>4 DEF Then
  <2> QED BY <1>1, <1>3, <2>1, <2>2, <2>5, <2>6, StillGroups
<1>8. CASE CreateEventTicket(h)
  <2>1. /\ pc[h] # "idle" /\ Finish(h) /\ Abandon(h)
        /\ UNCHANGED <<status, group, revision, out, connVars>>
    BY <1>8 DEF CreateEventTicket, Serves, Abandon, dbVars, groupVars
  <2>2. GroupsInv'
    BY <1>1, <2>1, CodeStep DEF GroupsNext
  <2>3. PICK n : n = [device |-> req[h].device, group |-> req[h].group,
                      expires |-> now + TicketTTL]
    OBVIOUS
  <2>4. n \in Ticket
    BY <1>1, <2>3, EventsAssumption DEF Ticket, Request
  <2>5. PICK t \in Tickets :
          tickets' = [x \in Tickets |->
            IF x = t THEN n
            ELSE IF tickets[x] # Null /\ tickets[x].expires <= now THEN Null
            ELSE tickets[x]]
    BY <1>8, <2>3 DEF CreateEventTicket
  <2>6. tickets' \in [Tickets -> Ticket \cup {Null}]
    BY <1>1, <2>4, <2>5
  <2> QED BY <1>1, <1>3, <2>1, <2>2, <2>6, StillGroups
<1> QED BY <1>2, <1>4, <1>5, <1>6, <1>7, <1>8 DEF RequestStep

LEMMA ListingStep ==
    ASSUME EventsInv, NEW h \in Handlers,
           ListRecipients(h) \/ ReadEventRevision(h)
    PROVE  EventsInv'
<1>1. /\ UNCHANGED <<vars, tickets, connVars>>
      /\ UNCHANGED <<status, group, revision>>
  BY DEF ListRecipients, ReadEventRevision, Then, vars, dbVars, groupVars
<1>2. GroupsInv /\ GroupsInv' /\ EventsTypeOK
  BY <1>1, EveryStep DEF EventsInv, GroupsNext
<1> QED BY <1>1, <1>2, ListingTells, StillGroups, GroupsMoveOn
        DEF EventsTypeOK

\* What a restart leaves is in the database.
LEMMA RestartStep ==
    ASSUME EventsInv, Restart PROVE EventsInv'
<1>1. /\ GroupsInv
      /\ UNCHANGED <<status, group, revision, createdAt, codes, now>>
  BY DEF EventsInv, Restart, dbVars, groupVars
<1>2. TypeOK'
  BY <1>1, NoRequestType DEF Restart, GroupsInv, TypeOK
<1>3. GroupsStep /\ CodesFollowInviter'
  BY <1>1, QuietStep
<1>4. ListingIsDated' /\ ListingIsComplete'
  BY <1>1, <1>2, <1>3, ListingsHold DEF Restart, GroupsStep
<1>5. GroupsInv'
  BY <1>2, <1>3, <1>4 DEF GroupsInv, GroupsStep
<1>6. EventsTypeOK'
  BY SilentType, EventsAssumption DEF Restart, EventsTypeOK
<1>7. \A h \in Handlers : OutboxInOrder(h)'
  BY DEF Restart, OutboxInOrder, Silent
<1>8. \A c \in Conns : Admitted(c)' /\ MergeHeard(c)' /\ DiscardHeard(c)'
  BY NothingOwed DEF Restart
<1> QED BY <1>5, <1>6, <1>7, <1>8 DEF EventsInv

LEMMA EventsStep ==
    ASSUME EventsInv, [EventsNext]_eventsVars PROVE EventsInv'
<1>1. ASSUME \/ \E d \in Devices : CreateDeviceEnrollment(d) /\ Quiet
             \/ Tick /\ Quiet
             \/ UNCHANGED eventsVars
      PROVE  EventsInv'
  <2>1. UNCHANGED <<pc, out, tickets, connVars>>
    BY <1>1 DEF CreateDeviceEnrollment, Tick, Quiet, eventVars, eventsVars,
       vars, handlerVars
  <2>2. GroupsInv /\ GroupsInv'
    BY <1>1, IdleStep DEF EventsInv, GroupsNext, eventsVars
  <2>3. GroupsTell /\ GroupsLast
    <3>1. CASE \E d \in Devices : CreateDeviceEnrollment(d)
      BY <2>2, <3>1, EnrolmentGroups
    <3>2. CASE Tick \/ UNCHANGED eventsVars
      BY <2>2, <3>2, StillGroups
         DEF Tick, eventsVars, vars, dbVars, groupVars
    <3> QED BY <1>1, <3>1, <3>2
  <2>4. \A h \in Handlers : OutboxInOrder(h)'
    BY <2>1 DEF EventsInv, OutboxInOrder
  <2>5. /\ out \in [Handlers -> Outbox]
        /\ tickets \in [Tickets -> Ticket \cup {Null}]
    BY DEF EventsInv, EventsTypeOK
  <2> QED BY <2>1, <2>2, <2>3, <2>4, <2>5, GroupsMoveOn
<1>2. ASSUME NEW h \in Handlers, TellingStep(h) PROVE EventsInv'
  BY <1>2, ListingStep, PublishStep DEF TellingStep
<1> QED BY <1>1, <1>2, RequestStepKeeps, ConnectionStep, RestartStep
        DEF EventsNext

THEOREM EventsAlwaysInv == EventsSpec => []EventsInv
BY EventsInvInit, EventsStep, PTL DEF EventsSpec

\* For the groups, a notification is nothing, and a request for a ticket, a
\* manifest or a snapshot is one that is given up.
LEMMA EventsStepIsGroupsStep ==
    ASSUME [EventsNext]_eventsVars PROVE [Next \/ Restart]_vars
<1>1. ASSUME NEW h \in Handlers, RequestStep(h)
      PROVE  HandlerStep(h)
  BY <1>1 DEF RequestStep, HandlerStep, MergeAndTell, RevokeAndTell,
     DiscardAndTell, DiscardUntold, RedeemSyncCode, PutOwnManifest,
     ChangeSessionFile, CreateEventTicket, Serves, Abandon
<1>2. ASSUME \/ \E h \in Handlers : TellingStep(h)
             \/ \E c \in Conns, t \in Tickets : ConsumeTicket(c, t)
             \/ \E c \in Conns : ConnStep(c) \/ Disconnect(c)
      PROVE  UNCHANGED vars
  BY <1>2 DEF TellingStep, ListRecipients, ReadEventRevision, Publish,
     ConsumeTicket, ConnStep, CheckDevice, SubscribeConn, SendReady,
     SendEvent, CloseDropped, Disconnect
<1> QED BY <1>1, <1>2 DEF EventsNext, Next, eventsVars

\* Notifications add nothing to the behaviour of the groups but restarts,
\* which end all requests at once.
THEOREM EventsImplementGroups ==
    EventsSpec => Init /\ [][Next \/ Restart]_vars
<1>1. EventsInit => Init
  BY DEF EventsInit
<1> QED BY <1>1, EventsStepIsGroupsStep, PTL DEF EventsSpec

\* The variables keep their types; no buffer holds more than it may.
THEOREM EventsTypeCorrect == EventsSpec => []EventsTypeOK
BY EventsAlwaysInv, PTL DEF EventsInv

\* However merges, publications and connections interleave, and also when
\* the release of a discard fails: a listening connection has been told the
\* present revision of its group, has it buffered, or will be sent it.
THEOREM MergeAlwaysReaches == EventsSpec => []MergeReachesListeners
<1>1. EventsInv => MergeReachesListeners
  <2> SUFFICES ASSUME EventsInv, NEW c \in Conns, Listening(c),
                      group[ticket[c].device] # Null
               PROVE  MergeTold(c, ticket[c].device,
                                revision[group[ticket[c].device]])
    BY DEF MergeReachesListeners, MergeTold
  <2>1. PICK d \in Devices : d = ticket[c].device
    BY DEF EventsInv, EventsTypeOK, Ticket
  <2>2. revision[group[d]] \in Nat
    BY <2>1 DEF EventsInv, GroupsInv, TypeOK
  <2> QED BY <2>1, <2>2 DEF EventsInv, MergeHeard
<1> QED BY <1>1, EventsAlwaysInv, PTL

\* Unless the release of a discard fails, which publishes nothing, a device
\* whose group was discarded has been told on every listening connection,
\* has the event buffered, or will be sent it.
THEOREM DiscardAlwaysReaches ==
    ASSUME ~Faults
    PROVE  EventsSpec => []DiscardReachesListeners
<1>1. EventsInv => DiscardReachesListeners
  <2> SUFFICES ASSUME EventsInv, NEW c \in Conns, Listening(c),
                      group[ticket[c].device] = Null
               PROVE  DiscardTold(c, ticket[c].device)
    BY DEF DiscardReachesListeners, DiscardTold
  <2>1. ticket[c].device \in Devices
    BY DEF EventsInv, EventsTypeOK, Ticket
  <2> QED BY <2>1 DEF EventsInv, DiscardHeard
<1> QED BY <1>1, EventsAlwaysInv, PTL

----------------------------------------------------------------------------
(* Nobody is told a revision the group has not reached, so a connection     *)
(* that nothing is on its way to knows the revision exactly.                *)

Reached(d, r) == group[d] # Null => r <= revision[group[d]]

\* Merges are announced at once, to devices that have enrolled; only who has
\* subscribed has events.
OutboxNotAhead(h) ==
    out[h].type = "merged" =>
      /\ out[h].phase \notin {"list", "read"}
      /\ \A d \in out[h].to : /\ status[d] # "absent"
                              /\ Reached(d, out[h].revision)

ConnNotAhead(c) ==
    /\ subscribed[c] \/ queue[c] # <<>> =>
         cpc[c] \in {"subscribed", "streaming"}
    /\ \A e \in Buffered(c) :
         e.type = "merged" => Reached(ticket[c].device, e.revision)
    /\ cpc[c] = "streaming" => Reached(ticket[c].device, known[c])

NotAhead ==
    /\ \A h \in Handlers : OutboxNotAhead(h)
    /\ \A c \in Conns : ConnNotAhead(c)

\* A connection with nothing on its way knows the revision of its group.
SettledKnowsRevision ==
    \A c \in Conns :
      LET d == ticket[c].device
      IN  /\ Listening(c) /\ group[d] # Null /\ queue[c] = <<>>
          /\ \A h \in Handlers : out[h].type = "merged" => d \notin out[h].to
          => known[c] = revision[group[d]]

LEMMA NotAheadInit == EventsInit => NotAhead
BY DEF EventsInit, Init, NotAhead, OutboxNotAhead, ConnNotAhead, Silent,
       Buffered

\* What a group has reached it does not fall behind.
ReachedStays ==
    \A d \in Devices, r \in Nat :
        status[d] # "absent" /\ Reached(d, r)
        => status'[d] # "absent" /\ Reached(d, r)'

LEMMA ReachedNext ==
    ASSUME EventsInv, [EventsNext]_eventsVars PROVE ReachedStays
<1>1. /\ GroupsInv /\ group \in [Devices -> Devices \cup {Null}]
      /\ revision \in [Devices -> Nat] /\ revision' \in [Devices -> Nat]
      /\ group' \in [Devices -> Devices \cup {Null}]
  BY EventsStep DEF EventsInv, GroupsInv, TypeOK
<1>2. ASSUME RevisionGrows,
             \A d \in Devices : status[d] # "absent" =>
               /\ status'[d] # "absent"
               /\ group[d] = Null => group'[d] = Null
      PROVE  ReachedStays
  <2> SUFFICES ASSUME NEW d \in Devices, NEW r \in Nat,
                      status[d] # "absent", Reached(d, r), group'[d] # Null
               PROVE  r <= revision'[group'[d]]
    BY <1>2 DEF ReachedStays, Reached
  <2>1. group[d] # Null /\ r <= revision[group[d]]
    BY <1>2 DEF Reached
  <2>2. /\ group[d] \in Devices /\ group'[d] \in Devices
        /\ revision'[group'[d]] = revision[group[d]]
           \/ revision'[group'[d]] > revision[group[d]]
    BY <1>1, <1>2, <2>1 DEF RevisionGrows, RevisionOf
  <2>3. revision[group[d]] \in Nat /\ revision'[group'[d]] \in Nat
    BY <1>1, <2>2
  <2> QED BY <2>1, <2>2, <2>3
<1>3. CASE UNCHANGED <<status, group, revision>>
  BY <1>3 DEF ReachedStays, Reached
<1>4. ASSUME NEW e \in Devices, CreateDeviceEnrollment(e)
      PROVE  ReachedStays
  <2>1. RevisionGrows
    BY <1>1, <1>4, EnrolmentKeepsGroups DEF GroupsStep
  <2> QED BY <1>1, <1>2, <1>4, <2>1
          DEF CreateDeviceEnrollment, GroupsInv, TypeOK
<1>5. ASSUME NEW h \in Handlers, NEW c \in codes, MergeGroups(h, c)
      PROVE  ReachedStays
  <2>1. RevisionGrows
    BY <1>1, <1>5, MergeKeepsGroups DEF GroupsStep
  <2>2. \A d \in Devices : group[d] = Null => group'[d] = Null
    <3>1. PICK win \in Devices, lose \in Devices, n \in Nat :
            Merged(win, lose, n, c)
      BY <1>1, <1>5, MergeFacts
    <3> QED BY <1>1, <3>1, NullAssumption DEF Merged, Moved
  <2> QED BY <1>2, <1>5, <2>1, <2>2 DEF MergeGroups
<1>6. ASSUME NEW h \in Handlers, DiscardOtherGroups(h)
      PROVE  ReachedStays
  <2>1. RevisionGrows
    BY <1>1, <1>6, DiscardKeepsGroups DEF GroupsStep
  <2> QED BY <1>2, <1>6, <2>1 DEF DiscardOtherGroups, StatusAfterDiscard
<1>7. ASSUME NEW h \in Handlers, RevokeDevice(h)
      PROVE  ReachedStays
  BY <1>1, <1>7 DEF RevokeDevice, ReachedStays, Reached, GroupsInv, TypeOK
<1>8. ASSUME NEW h \in Handlers, RequestStep(h) PROVE ReachedStays
  <2>1. CASE \/ RequireSession(h) \/ Abandon(h) \/ GenerateCode(h)
             \/ \E c \in codes : AlreadyJoined(h, c)
             \/ PutOwnManifest(h) \/ ChangeSessionFile(h)
             \/ CreateEventTicket(h)
    BY <1>3, <2>1 DEF RequireSession, Abandon, GenerateCode, AlreadyJoined,
       PutOwnManifest, ChangeSessionFile, CreateEventTicket, dbVars,
       groupVars
  <2> QED BY <1>5, <1>6, <1>7, <1>8, <2>1 DEF RequestStep, MergeAndTell,
          RevokeAndTell, DiscardAndTell, DiscardUntold
<1>9. CASE \/ \E h \in Handlers : TellingStep(h)
           \/ \E c \in Conns, t \in Tickets : ConsumeTicket(c, t)
           \/ \E c \in Conns : ConnStep(c) \/ Disconnect(c)
           \/ Tick \/ Restart \/ UNCHANGED eventsVars
  BY <1>3, <1>9 DEF TellingStep, ListRecipients, ReadEventRevision, Publish,
     ConsumeTicket, ConnStep, CheckDevice, SubscribeConn, SendReady,
     SendEvent, CloseDropped, Disconnect, Tick, Restart, eventsVars, vars,
     dbVars, groupVars
<1> QED BY <1>4, <1>8, <1>9 DEF EventsNext

\* Steps that pass an outbox or a connection by.
LEMMA OutboxStaysBehind ==
    ASSUME EventsInv, ReachedStays, NEW h \in Handlers, OutboxNotAhead(h),
           out'[h] = out[h]
    PROVE  OutboxNotAhead(h)'
<1>1. out[h].revision \in Nat /\ out[h].to \subseteq Devices
  BY DEF EventsInv, EventsTypeOK, Outbox
<1>2. PICK r \in Nat : r = out[h].revision /\ r = out'[h].revision
  BY <1>1
<1>3. out'[h].type = "merged" => \A d \in out'[h].to :
        status'[d] # "absent" /\ Reached(d, r)'
  BY <1>1, <1>2 DEF OutboxNotAhead, ReachedStays
<1> QED BY <1>2, <1>3 DEF OutboxNotAhead, Reached

LEMMA ConnStaysBehind ==
    ASSUME EventsInv, ReachedStays, NEW c \in Conns, ConnNotAhead(c),
           ConnKept(c)
    PROVE  ConnNotAhead(c)'
<1>1. PICK d \in Devices : d = ticket[c].device /\ d = ticket'[c].device
  BY DEF EventsInv, EventsTypeOK, Ticket, ConnKept
<1>2. /\ known[c] \in Nat /\ queue[c] \in Seq(Event)
      /\ Buffered(c)' = Buffered(c)
  BY DEF EventsInv, EventsTypeOK, ConnKept, Buffered
<1>3. \A e \in Buffered(c) : e.revision \in Nat
  <2>1. \A i \in 1..Len(queue[c]) : queue[c][i] \in Event
    BY <1>2
  <2> QED BY <2>1 DEF Buffered, Event
<1>4. cpc[c] \in {"subscribed", "streaming"} \/ Buffered(c) = {}
  BY <1>2 DEF ConnNotAhead, Buffered
<1>5. cpc[c] = "streaming" => status[d] # "absent"
  BY <1>1 DEF EventsInv, Admitted
<1>6. cpc[c] = "subscribed" => status[d] # "absent"
  BY <1>1 DEF EventsInv, Admitted
<1>7. \A e \in Buffered(c)' : e.type = "merged" => Reached(d, e.revision)'
  BY <1>1, <1>2, <1>3, <1>4, <1>5, <1>6 DEF ConnNotAhead, ReachedStays
<1>8. cpc'[c] = "streaming" => Reached(d, known[c])'
  BY <1>1, <1>2, <1>5 DEF ConnNotAhead, ReachedStays, ConnKept
<1> QED BY <1>1, <1>7, <1>8 DEF ConnNotAhead, ConnKept, Reached

\* A merge is announced with the revision it has given the group to which
\* it has moved its recipients.
LEMMA MergeNotAhead ==
    ASSUME GroupsInv, NEW h \in Handlers, NEW c \in codes, MergeAndTell(h, c),
           out \in [Handlers -> Outbox]
    PROVE  OutboxNotAhead(h)'
<1>1. PICK win \in Devices, lose \in Devices, n \in Nat :
        /\ Merged(win, lose, n, c)
        /\ win = Winner(c.group, group[req[h].device])
        /\ lose = Loser(c.group, group[req[h].device])
        /\ n = NextRevision(c.group, group[req[h].device])
  BY MergeFacts DEF MergeAndTell
<1>2. PICK o : o = [phase |-> "publish", type |-> "merged",
                    about |-> {Anyone}, to |-> MergedMembers(win, lose),
                    group |-> win, revision |-> n]
  OBVIOUS
<1>3. out'[h] = o
  BY <1>1, <1>2 DEF MergeAndTell, Then
<1>4. /\ win # lose
      /\ \A d \in Devices :
           group'[d] = IF group[d] = lose THEN win ELSE group[d]
      /\ revision'[win] = n /\ UNCHANGED status
  BY <1>1 DEF Merged, Moved, GroupsInv, TypeOK
<1>5. ASSUME NEW d \in o.to
      PROVE  /\ d \in Devices /\ status'[d] # "absent"
             /\ o.revision <= revision'[group'[d]]
  <2>1. d \in Devices /\ group[d] \in {win, lose}
    BY <1>2, <1>5 DEF MergedMembers, Members
  <2>2. status[d] # "absent"
    BY <2>1, NullAssumption DEF GroupsInv, Unborn
  <2> QED BY <1>2, <1>4, <2>1, <2>2
<1> QED BY <1>2, <1>3, <1>5 DEF OutboxNotAhead, Reached

\* The handler changes its outbox, if any; the connections wait.
LEMMA OutboxChanges ==
    ASSUME EventsInv, ReachedStays, NotAhead, UNCHANGED connVars,
           NEW h \in Handlers,
           \A k \in Handlers \ {h} : out'[k] = out[k],
           out'[h] = out[h] \/ OutboxNotAhead(h)'
    PROVE  NotAhead'
<1>1. \A k \in Handlers : OutboxNotAhead(k)'
  BY OutboxStaysBehind DEF NotAhead
<1>2. \A c \in Conns : ConnKept(c)
  BY DEF connVars, ConnKept
<1>3. \A c \in Conns : ConnNotAhead(c)'
  BY <1>2, ConnStaysBehind DEF NotAhead
<1> QED BY <1>1, <1>3 DEF NotAhead

LEMMA RequestNotAhead ==
    ASSUME EventsInv, ReachedStays, NotAhead, NEW h \in Handlers,
           RequestStep(h)
    PROVE  NotAhead'
<1>1. out \in [Handlers -> Outbox] /\ GroupsInv
  BY DEF EventsInv, EventsTypeOK
<1>2. CASE \/ RequireSession(h) /\ Quiet
           \/ Abandon(h) /\ Quiet
           \/ GenerateCode(h) /\ Quiet
           \/ \E c \in codes : AlreadyJoined(h, c) /\ Quiet
           \/ DiscardUntold(h) \/ CreateEventTicket(h)
  <2>1. UNCHANGED <<out, connVars>>
    BY <1>2 DEF Quiet, eventVars, DiscardUntold, CreateEventTicket
  <2> QED BY <2>1, OutboxChanges
<1>3. ASSUME NEW c \in codes, MergeAndTell(h, c) PROVE NotAhead'
  <2>1. UNCHANGED connVars /\ \A k \in Handlers \ {h} : out'[k] = out[k]
    BY <1>1, <1>3 DEF MergeAndTell, Then
  <2> QED BY <1>1, <1>3, <2>1, MergeNotAhead, OutboxChanges
<1>4. CASE \/ RevokeAndTell(h) \/ DiscardAndTell(h)
           \/ PutOwnManifest(h) \/ ChangeSessionFile(h)
  <2>1. PICK o : Then(h, o) /\ o.type # "merged"
    BY <1>4 DEF RevokeAndTell, DiscardAndTell, PutOwnManifest, ChangeSessionFile
  <2>2. /\ UNCHANGED connVars /\ out'[h] = o
        /\ \A k \in Handlers \ {h} : out'[k] = out[k]
    BY <1>1, <2>1 DEF Then
  <2>3. OutboxNotAhead(h)'
    BY <2>1, <2>2 DEF OutboxNotAhead
  <2> QED BY <2>2, <2>3, OutboxChanges
<1> QED BY <1>2, <1>3, <1>4 DEF RequestStep

LEMMA ListingNotAhead ==
    ASSUME EventsInv, ReachedStays, NotAhead, NEW h \in Handlers,
           ListRecipients(h) \/ ReadEventRevision(h)
    PROVE  NotAhead'
<1>1. out \in [Handlers -> Outbox] /\ out[h] \in Outbox
  BY DEF EventsInv, EventsTypeOK
<1>2. out[h].type # "merged"
  BY DEF NotAhead, OutboxNotAhead, ListRecipients, ReadEventRevision
<1>3. PICK o : Then(h, o) /\ (o = Silent \/ o.type = out[h].type)
  <2>1. ASSUME NEW next, NEW more,
               Then(h, [out[h] EXCEPT !.phase = next, !.to = @ \cup more])
        PROVE  \E o : Then(h, o) /\ o.type = out[h].type
    <3>1. PICK o : o = [out[h] EXCEPT !.phase = next, !.to = @ \cup more]
      OBVIOUS
    <3>2. o.type = out[h].type
      BY <1>1, <3>1 DEF Outbox
    <3> QED BY <2>1, <3>1, <3>2
  <2>2. ASSUME NEW r, Then(h, [out[h] EXCEPT !.phase = "publish",
                                             !.revision = r])
        PROVE  \E o : Then(h, o) /\ o.type = out[h].type
    <3>1. PICK o : o = [out[h] EXCEPT !.phase = "publish", !.revision = r]
      OBVIOUS
    <3>2. o.type = out[h].type
      BY <1>1, <3>1 DEF Outbox
    <3> QED BY <2>2, <3>1, <3>2
  <2> QED BY <2>1, <2>2 DEF ListRecipients, ReadEventRevision
<1>4. /\ UNCHANGED connVars /\ out'[h] = o
      /\ \A k \in Handlers \ {h} : out'[k] = out[k]
  BY <1>1, <1>3 DEF Then
<1>5. OutboxNotAhead(h)'
  BY <1>2, <1>3, <1>4 DEF OutboxNotAhead, Silent
<1> QED BY <1>4, <1>5, OutboxChanges

LEMMA PublishNotAhead ==
    ASSUME EventsInv, ReachedStays, NotAhead, NEW h \in Handlers, Publish(h)
    PROVE  NotAhead'
<1>1. /\ EventsTypeOK /\ out[h] \in Outbox /\ OutboxNotAhead(h)
      /\ UNCHANGED <<cpc, ticket, known, status, group, revision>>
  BY DEF EventsInv, EventsTypeOK, NotAhead, Publish, vars, dbVars, groupVars
<1>2. PICK D : D = out[h].to
  OBVIOUS
<1>3. PICK b \in out[h].about :
        LET e == [type |-> out[h].type, device |-> b,
                  revision |-> out[h].revision]
            rest == out[h].about \ {b}
        IN
        /\ queue' = [c \in Conns |->
                       IF c \in Subscribers(D) /\ ~Full(c)
                       THEN Append(queue[c], e) ELSE queue[c]]
        /\ subscribed' = [c \in Conns |-> subscribed[c] /\ c \notin Dropped(D)]
        /\ out' = [out EXCEPT ![h] = IF rest = {} THEN Silent
                                     ELSE [@ EXCEPT !.about = rest]]
  BY <1>2 DEF Publish
<1>4. PICK e : e = [type |-> out[h].type, device |-> b,
                    revision |-> out[h].revision]
  OBVIOUS
<1>5. /\ e \in Event /\ e.type = out[h].type
      /\ e.revision = out[h].revision
  BY <1>1, <1>4 DEF Outbox, Event
<1>6. /\ \A c \in Conns : queue'[c] = IF c \in Subscribers(D) /\ ~Full(c)
                                      THEN Append(queue[c], e) ELSE queue[c]
      /\ \A c \in Conns : subscribed'[c] => subscribed[c]
  BY <1>3, <1>4
<1>7. OutboxNotAhead(h)'
  <2>1. PICK rest : rest = out[h].about \ {b}
    OBVIOUS
  <2>2. PICK n : n = [out[h] EXCEPT !.about = rest]
    OBVIOUS
  <2>3. /\ n.phase = out[h].phase /\ n.type = out[h].type
        /\ n.to = out[h].to /\ n.revision = out[h].revision
    BY <1>1, <2>1, <2>2 DEF Outbox
  <2>4. out'[h] = Silent \/ out'[h] = n
    BY <1>1, <1>3, <2>1, <2>2 DEF EventsTypeOK
  <2>5. CASE out'[h] = Silent
    BY <2>5 DEF OutboxNotAhead, Silent
  <2>6. CASE out'[h] = n
    BY <1>1, <2>3, <2>6 DEF OutboxNotAhead, Reached
  <2> QED BY <2>4, <2>5, <2>6
<1>8. \A k \in Handlers : OutboxNotAhead(k)'
  <2>1. \A k \in Handlers \ {h} : out'[k] = out[k]
    BY <1>1, <1>3 DEF EventsTypeOK
  <2> QED BY <1>7, <2>1, OutboxStaysBehind DEF NotAhead
<1>9. ASSUME NEW c \in Conns PROVE ConnNotAhead(c)'
  <2>1. queue[c] \in Seq(Event) /\ ConnNotAhead(c)
    BY <1>1 DEF EventsTypeOK, NotAhead
  <2>2. CASE c \in Subscribers(D) /\ ~Full(c)
    <3>1. Buffered(c)' = Buffered(c) \cup {e}
      <4>1. queue'[c] = Append(queue[c], e)
        BY <1>6, <2>2
      <4> QED BY <1>5, <2>1, <4>1, AppendBuffer DEF Buffered
    <3>2. subscribed[c] /\ ticket[c].device \in D
      BY <2>2 DEF Subscribers
    <3>3. e.type = "merged" => Reached(ticket[c].device, e.revision)
      BY <1>1, <1>2, <1>5, <3>2 DEF OutboxNotAhead
    <3> QED BY <1>1, <2>1, <3>1, <3>2, <3>3 DEF ConnNotAhead, Reached
  <2>3. CASE ~(c \in Subscribers(D) /\ ~Full(c))
    <3>1. queue'[c] = queue[c] /\ Buffered(c)' = Buffered(c)
      BY <1>6, <2>3 DEF Buffered
    <3> QED BY <1>1, <1>6, <2>1, <3>1 DEF ConnNotAhead, Reached
  <2> QED BY <2>2, <2>3
<1> QED BY <1>8, <1>9 DEF NotAhead

LEMMA ConnectionNotAhead ==
    ASSUME EventsInv, ReachedStays, NotAhead, NEW c \in Conns,
           \/ ConnStep(c) \/ Disconnect(c)
           \/ \E t \in Tickets : ConsumeTicket(c, t)
    PROVE  NotAhead'
<1>1. /\ EventsTypeOK /\ UNCHANGED out
      /\ UNCHANGED <<status, group, revision>>
      /\ ConnNotAhead(c)
  BY DEF EventsInv, NotAhead, ConnStep, CheckDevice, SubscribeConn, SendReady,
     SendEvent, CloseDropped, Disconnect, ConsumeTicket, vars, dbVars,
     groupVars
<1>2. PICK d \in Devices, g \in Devices :
        d = ticket[c].device /\ g = ticket[c].group
  BY <1>1 DEF EventsTypeOK, Ticket
<1>3. \A h \in Handlers : OutboxNotAhead(h)'
  BY <1>1, OutboxStaysBehind DEF NotAhead
<1>4. \A k \in Conns \ {c} : ConnNotAhead(k)'
  BY ConnectionKeeps, ConnStaysBehind DEF NotAhead
<1>5. queue[c] \in Seq(Event)
  BY <1>1 DEF EventsTypeOK
<1>6. CASE Close(c)
  <2>1. cpc'[c] = "closed" /\ ~subscribed'[c] /\ queue'[c] = <<>>
    BY <1>1, <1>6 DEF Close, EventsTypeOK
  <2> QED BY <1>3, <1>4, <2>1 DEF NotAhead, ConnNotAhead, Buffered
<1>7. CASE /\ cpc[c] \in {"closed", "ticketed", "accepted"}
           /\ cpc'[c] # "streaming"
           /\ queue'[c] = queue[c]
           /\ subscribed'[c] = subscribed[c] \/ cpc'[c] = "subscribed"
  <2>1. queue'[c] = <<>> /\ (subscribed'[c] => cpc'[c] = "subscribed")
    BY <1>1, <1>7 DEF ConnNotAhead
  <2> QED BY <1>3, <1>4, <1>7, <2>1 DEF NotAhead, ConnNotAhead, Buffered
<1>8. CASE SendReady(c) /\ ~Close(c)
  <2>1. /\ cpc[c] = "subscribed" /\ cpc' = [cpc EXCEPT ![c] = "streaming"]
        /\ revision[g] > 0
        /\ known' = [known EXCEPT ![c] = revision[g]]
        /\ UNCHANGED <<ticket, subscribed, queue>>
    BY <1>2, <1>8 DEF SendReady, Goto, GroupExists
  <2>2. revision[g] \in Nat
    BY DEF EventsInv, GroupsInv, TypeOK
  <2>3. group[d] = g
    BY <1>2, <2>1, <2>2 DEF EventsInv, Admitted
  <2>4. /\ cpc'[c] = "streaming" /\ known'[c] = revision[g]
        /\ Buffered(c)' = Buffered(c)
    BY <1>1, <2>1 DEF EventsTypeOK, Buffered
  <2>5. ConnNotAhead(c)'
    BY <1>1, <1>2, <2>1, <2>2, <2>3, <2>4 DEF ConnNotAhead, Reached
  <2> QED BY <1>3, <1>4, <2>5 DEF NotAhead
<1>9. CASE SendEvent(c)
  <2>1. /\ queue[c] # <<>> /\ cpc[c] = "streaming"
        /\ UNCHANGED <<cpc, ticket, subscribed>>
    BY <1>9 DEF SendEvent
  <2>2. PICK e : e = Head(queue[c])
    OBVIOUS
  <2>3. PICK q : q = Tail(queue[c])
    OBVIOUS
  <2>4. /\ queue'[c] = q
        /\ \/ known'[c] = known[c]
           \/ e.type = "merged" /\ known'[c] = e.revision
    <3>1. PICK n : n = IF e.type = "merged" /\ e.revision > known[c]
                       THEN e.revision ELSE known[c]
      OBVIOUS
    <3>2. /\ queue' = [queue EXCEPT ![c] = q]
          /\ known' = [known EXCEPT ![c] = n]
      BY <1>9, <2>2, <2>3, <3>1 DEF SendEvent
    <3> QED BY <1>1, <3>1, <3>2 DEF EventsTypeOK
  <2>5. e = queue[c][1] /\ 1 \in 1..Len(queue[c])
        /\ \A j \in 1..Len(q) : /\ j + 1 \in 1..Len(queue[c])
                                /\ q[j] = queue[c][j + 1]
    BY <1>5, <2>1, <2>2, <2>3
  <2>6. e \in Buffered(c) /\ Buffered(c)' \subseteq Buffered(c)
    BY <2>4, <2>5 DEF Buffered
  <2>7. ConnNotAhead(c)'
    BY <1>1, <2>1, <2>4, <2>6 DEF ConnNotAhead, Reached
  <2> QED BY <1>3, <1>4, <2>7 DEF NotAhead
<1>10. ASSUME NEW t \in Tickets, ConsumeTicket(c, t) PROVE NotAhead'
  BY <1>1, <1>7, <1>10 DEF ConsumeTicket, Goto, EventsTypeOK
<1>11. CASE CheckDevice(c) \/ SubscribeConn(c)
  BY <1>1, <1>6, <1>7, <1>11 DEF CheckDevice, SubscribeConn, Goto, EventsTypeOK
<1> QED BY <1>6, <1>8, <1>9, <1>10, <1>11
        DEF ConnStep, SendReady, CloseDropped, Disconnect

LEMMA NotAheadStep ==
    ASSUME EventsInv, NotAhead, [EventsNext]_eventsVars PROVE NotAhead'
<1>1. ReachedStays
  BY ReachedNext
<1>2. CASE \/ \E d \in Devices : CreateDeviceEnrollment(d) /\ Quiet
           \/ Tick /\ Quiet
           \/ UNCHANGED eventsVars
  <2>1. UNCHANGED <<out, connVars>>
    BY <1>2 DEF Quiet, eventVars, eventsVars
  <2>2. \A h \in Handlers : OutboxNotAhead(h)'
    BY <1>1, <2>1, OutboxStaysBehind DEF NotAhead
  <2>3. \A c \in Conns : ConnKept(c)
    BY <2>1 DEF connVars, ConnKept
  <2> QED BY <1>1, <2>2, <2>3, ConnStaysBehind DEF NotAhead
<1>3. CASE Restart
  BY <1>3 DEF Restart, NotAhead, OutboxNotAhead, ConnNotAhead, Silent,
     Buffered
<1> QED BY <1>1, <1>2, <1>3, RequestNotAhead, ListingNotAhead,
           PublishNotAhead, ConnectionNotAhead DEF EventsNext, TellingStep

\* When nothing is on its way to a listening connection, neither buffered
\* nor held by a handler, its client knows the revision of its group and not
\* some other one: the "ready" and the merges that raced it have settled on
\* what the database says, in whichever order they were sent.
THEOREM SettledAlwaysKnows == EventsSpec => []SettledKnowsRevision
<1>1. EventsInv /\ NotAhead => SettledKnowsRevision
  <2> SUFFICES ASSUME EventsInv, NotAhead, NEW c \in Conns, Listening(c),
                      group[ticket[c].device] # Null, queue[c] = <<>>,
                      \A h \in Handlers : out[h].type = "merged"
                        => ticket[c].device \notin out[h].to
               PROVE  known[c] = revision[group[ticket[c].device]]
    BY DEF SettledKnowsRevision
  <2>1. PICK d \in Devices : d = ticket[c].device
    BY DEF EventsInv, EventsTypeOK, Ticket
  <2>2. revision[group[d]] \in Nat /\ known[c] \in Nat
    BY <2>1 DEF EventsInv, GroupsInv, TypeOK, EventsTypeOK
  <2>3. Buffered(c) = {}
    BY DEF Buffered
  <2>4. known[c] >= revision[group[d]]
    BY <2>1, <2>2, <2>3 DEF EventsInv, MergeHeard, MergeTold
  <2>5. known[c] <= revision[group[d]]
    BY <2>1 DEF NotAhead, ConnNotAhead, Reached, Listening
  <2> QED BY <2>1, <2>2, <2>4, <2>5
<1>2. EventsSpec => [](EventsInv /\ NotAhead)
  BY EventsInvInit, EventsStep, NotAheadInit, NotAheadStep, PTL
     DEF EventsSpec
<1> QED BY <1>1, <1>2, PTL

=============================================================================
