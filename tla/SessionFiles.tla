---------------------------- MODULE SessionFiles ----------------------------
(***************************************************************************)
(* Session snapshots of Lumina Relay on top of DeviceGroups.  A snapshot   *)
(* is a row with a version that belongs to a sync group; its identifier is *)
(* unique in the account.  A client reads a snapshot, and later replaces   *)
(* or deletes it naming the version it has read.  The transaction checks   *)
(* the device's group and the version again; merges and discards may come  *)
(* in between.  The answer to a committed request may be lost.             *)
(*                                                                         *)
(* A text is named after the write that stored it.  Sizes and the quota    *)
(* are the subject of BlockLifecycle.                                      *)
(***************************************************************************)
EXTENDS DeviceGroups

CONSTANTS
    Sessions,    \* identifiers of snapshots, one account's each
    MaxWrites    \* bound: snapshots ever stored

ASSUME WritesAssumption == MaxWrites \in Nat

VARIABLES
    files,       \* session_files, Null without a row
    seen,        \* per device, the rows its client knows; Null: none
    base,        \* per handler, what the client knew when it sent the request
    writes       \* number of texts stored

fileVars == <<files, seen, base, writes>>
filesVars == <<vars, fileVars>>

\* born: the text the row was created with (no column, see the properties).
File == [group : Devices, version : Nat \ {0}, text : Nat, born : Nat]
Copy == [version : Nat \ {0}, text : Nat, born : Nat]

ASSUME NoRowAssumption == Null \notin File

\* What a client keeps of a row.
CopyOf(row) ==
    IF row = Null THEN Null
    ELSE [version |-> row.version, text |-> row.text, born |-> row.born]

VersionOf(row) == IF row = Null THEN 0 ELSE row.version

NoFiles == [s \in Sessions |-> Null]

----------------------------------------------------------------------------
\* The client sends a request from what it knows; a deletion names a version.
SendRequest(h) ==
    /\ RequireSession(h)
    /\ base' = [base EXCEPT ![h] = seen[req'[h].device]]
    /\ UNCHANGED <<files, seen, writes>>

Answered(h) == /\ Finish(h)
               /\ base' = [base EXCEPT ![h] = NoFiles]
               /\ UNCHANGED <<dbVars, now>>

\* The client takes note of the answer, or the answer is lost.
Learn(h, s, row) ==
    \/ seen' = [seen EXCEPT ![req[h].device][s] = CopyOf(row)]
    \/ UNCHANGED seen

\* Only rows of the captured group are visible.
GetSessionFile(h, s) ==
    /\ Serves(h, "read")
    /\ Learn(h, s, IF files[s] # Null /\ files[s].group = req[h].group
                   THEN files[s] ELSE Null)
    /\ Answered(h)
    /\ UNCHANGED <<files, writes>>

\* revalidateSessionWriter
MayWrite(h) == InCapturedGroup(h) /\ GroupExists(req[h].group)

\* Mutated: the version is not compared.
MutantNoCompare(h, s) == files[s] = Null <=> base[h][s] = Null

VersionMatches(h, s) == VersionOf(files[s]) = VersionOf(base[h][s])

Store(h, s, row) ==
    /\ writes < MaxWrites
    /\ writes' = writes + 1
    /\ files' = [files EXCEPT ![s] = row]
    /\ Learn(h, s, row)
    /\ Answered(h)

\* Mutated: the first version is the one that stands for "no snapshot".
MutantFirstVersion == 0

FirstVersion == 1

\* PutSessionFileCAS without a row: base version 0 creates it.
CreateSessionFile(h, s) ==
    /\ Serves(h, "write") /\ MayWrite(h)
    /\ files[s] = Null /\ VersionMatches(h, s)
    /\ Store(h, s, [group |-> req[h].group, version |-> FirstVersion,
                    text |-> writes + 1, born |-> writes + 1])

\* Mutated: a replaced text keeps its version.
MutantSameVersion(s) == files[s].version

NextVersion(s) == files[s].version + 1

\* PutSessionFileCAS on a row of the group with the version named.
ReplaceSessionFile(h, s) ==
    /\ Serves(h, "write") /\ MayWrite(h)
    /\ files[s] # Null /\ files[s].group = req[h].group
    /\ VersionMatches(h, s)
    /\ Store(h, s, [files[s] EXCEPT !.version = NextVersion(s),
                                   !.text = writes + 1])

\* DeleteSessionFileCAS; the deletion of a row that is not there succeeds.
DeleteSessionFile(h, s) ==
    /\ Serves(h, "erase") /\ MayWrite(h)
    /\ base[h][s] # Null
    /\ IF files[s] # Null /\ files[s].group = req[h].group
       THEN VersionMatches(h, s) /\ files' = [files EXCEPT ![s] = Null]
       ELSE UNCHANGED files
    /\ Learn(h, s, Null)
    /\ Answered(h)
    /\ UNCHANGED writes

\* A conflict, a foreign identifier, a changed group, a full quota, a
\* cancelled request: nothing changes.  The version a conflict answers with
\* comes without a text; the client reads the snapshot before it goes on, so
\* it learns nothing here.
RefuseFile(h) ==
    /\ Abandon(h)
    /\ base' = [base EXCEPT ![h] = NoFiles]
    /\ UNCHANGED <<files, seen, writes>>

----------------------------------------------------------------------------
(* Merges and discards take the snapshots along.                            *)

\* Mutated: the snapshots of a deleted group stay.
MutantNoCascade(rows, gone) == rows

\* The deletion of groups deletes their snapshots by cascade.
Cascade(rows, gone) ==
    [s \in Sessions |-> IF rows[s] # Null /\ rows[s].group \in gone
                        THEN Null ELSE rows[s]]

Migrate(rows, win, lose) ==
    [s \in Sessions |-> IF rows[s] # Null /\ rows[s].group = lose
                        THEN [rows[s] EXCEPT !.group = win] ELSE rows[s]]

\* Mutated: the group is deleted before its snapshots have moved.
MutantDeleteFirst(win, lose) == Migrate(Cascade(files, {lose}), win, lose)

FilesAfterMerge(win, lose) == Cascade(Migrate(files, win, lose), {lose})

MergeFiles(h, c) ==
    LET left == c.group
        right == group[req[h].device]
    IN
    /\ MergeGroups(h, c)
    /\ files' = FilesAfterMerge(Winner(left, right), Loser(left, right))
    /\ UNCHANGED <<seen, base, writes>>

DiscardFiles(h) ==
    /\ DiscardOtherGroups(h)
    /\ files' = Cascade(files, {group[e] : e \in Others(req[h].device,
                                                        req[h].group)})
    /\ UNCHANGED <<seen, base, writes>>

Untouched == UNCHANGED fileVars

FilesInit ==
    /\ Init
    /\ files = NoFiles
    /\ seen = [d \in Devices |-> NoFiles]
    /\ base = [h \in Handlers |-> NoFiles]
    /\ writes = 0

FileStep(h, s) ==
    \/ GetSessionFile(h, s) \/ CreateSessionFile(h, s)
    \/ ReplaceSessionFile(h, s) \/ DeleteSessionFile(h, s)

GroupStep(h) ==
    \/ SendRequest(h) \/ RefuseFile(h)
    \/ GenerateCode(h) /\ Untouched
    \/ \E c \in codes : MergeFiles(h, c)
    \/ DiscardFiles(h)
    \/ RevokeDevice(h) /\ Untouched

FilesNext ==
    \/ \E d \in Devices : CreateDeviceEnrollment(d) /\ Untouched
    \/ \E h \in Handlers : GroupStep(h) \/ \E s \in Sessions : FileStep(h, s)

FilesSpec == FilesInit /\ [][FilesNext]_filesVars

----------------------------------------------------------------------------
(* Properties.                                                              *)

\* Every variable has its type.
FilesTypeOK ==
    /\ TypeOK
    /\ files \in [Sessions -> File \cup {Null}]
    /\ seen \in [Devices -> [Sessions -> Copy \cup {Null}]]
    /\ base \in [Handlers -> [Sessions -> Copy \cup {Null}]]
    /\ writes \in Nat

Writing(h) == Serves(h, "write") \/ Serves(h, "erase")

\* Every snapshot is in a group of the account that exists, so that it can be
\* read, replaced and deleted, through merges and discards (RedeemSyncCode,
\* DiscardOtherGroups, revalidateSessionWriter).
FilesHaveGroups ==
    \A s \in Sessions : files[s] # Null => GroupExists(files[s].group)

\* The request of h replaces or deletes the text of s.
Overwrites(h, s) ==
    /\ Writing(h) /\ pc'[h] = "idle"
    /\ files[s] # Null
    /\ files'[s] # files[s]

\* A request never replaces or deletes a text its sender has not read ("the
\* CAS on the version prevents concurrent overwriting").
NoBlindOverwrite ==
    [][\A h \in Handlers, s \in Sessions :
         Overwrites(h, s) => base[h][s].text = files[s].text]_filesVars

\* Short of a deletion and a new creation, that holds: whoever replaces or
\* deletes a snapshot has read its text, or has read a snapshot that was
\* deleted since (PutSessionFileCAS, DeleteSessionFileCAS).
OverwritesWhatWasRead ==
    [][\A h \in Handlers, s \in Sessions : Overwrites(h, s) =>
         \/ base[h][s].text = files[s].text
         \/ base[h][s].born < files[s].born]_filesVars

\* Why: as long as a snapshot lives, each of its versions is one text, in
\* the table, in the hands of clients and in requests under way.
VersionsNameTexts ==
    \A s \in Sessions :
      LET rows == {files[s]} \cup {seen[d][s] : d \in Devices}
                             \cup {base[h][s] : h \in Handlers}
      IN  \A r, q \in rows \ {Null} :
            r.born = q.born /\ r.version = q.version => r.text = q.text

\* Devices that stay in the account keep every snapshot of their group
\* through merges and through discards by their own group: it is visible to
\* them afterwards unless someone deletes it (RedeemSyncCode moves the
\* snapshots before it deletes the group).
MembersKeepFiles ==
    [][\A d \in Devices, s \in Sessions :
         /\ group[d] # Null /\ group'[d] # Null
         /\ files[s] # Null /\ files[s].group = group[d]
         => \/ files'[s] # Null /\ files'[s].group = group'[d]
            \/ \E h \in Handlers : Serves(h, "erase") /\ Overwrites(h, s)
      ]_filesVars

=============================================================================
