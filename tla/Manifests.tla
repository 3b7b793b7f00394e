------------------------------ MODULE Manifests ------------------------------
(***************************************************************************)
(* The manifests of one device.  The client sends a write with the version *)
(* it believes to be the head and repeats it, unchanged, when no answer    *)
(* comes; attempts may overtake each other and arrive late.  A transaction *)
(* compares the version with the head: it stores the write, recognises it  *)
(* as the one stored last, or reports a conflict.  Another device may      *)
(* revoke this one, or discard its group, at any time.                     *)
(*                                                                         *)
(* Devices do not share manifests, so one device stands for all.           *)
(***************************************************************************)
EXTENDS Naturals, Sequences

CONSTANTS
    Writes,      \* ciphertexts the client uploads
    Requests,    \* attempts that may be under way at the same time
    Null

ASSUME NullAssumption == Null \notin Nat

VARIABLES
    manifests,   \* the manifests rows by version; the head is its length
    status,      \* devices.status; "discarded": the rows are deleted too
    base,        \* the version the client sends with a write, Null: unsent
    known,       \* the head the client believes in
    pc,          \* where an attempt is
    write,       \* the write it carries
    answer,      \* the version it is answered with
    history,     \* all that was ever stored (not in the program)
    acked        \* the acknowledgements the client got (not in the program)

clientVars == <<base, known>>
attemptVars == <<pc, write, answer>>
vars == <<manifests, status, clientVars, attemptVars, history, acked>>

TypeOK ==
    /\ manifests \in Seq(Writes)
    /\ status \in {"active", "revoked", "discarded"}
    /\ base \in [Writes -> Nat \cup {Null}]
    /\ known \in Nat
    /\ pc \in [Requests -> {"idle", "sent", "stored", "conflict"}]
    /\ write \in [Requests -> Writes]
    /\ answer \in [Requests -> Nat]
    /\ history \in Seq(Writes)
    /\ acked \subseteq Writes \X Nat

head == Len(manifests)

\* The client sends a write for the first time, or again with the same base.
Send(r, w) ==
    /\ pc[r] = "idle"
    /\ pc' = [pc EXCEPT ![r] = "sent"]
    /\ write' = [write EXCEPT ![r] = w]
    /\ base' = [base EXCEPT ![w] = IF @ = Null THEN known ELSE @]
    /\ UNCHANGED <<manifests, status, known, answer, history, acked>>

Reply(r, l, v) ==
    /\ pc' = [pc EXCEPT ![r] = l]
    /\ answer' = [answer EXCEPT ![r] = v]
    /\ UNCHANGED <<status, clientVars, write, acked>>

\* Mutated: the head is not compared.
MutantAnyBase(r) == TRUE

BaseIsHead(r) == base[write[r]] = head

\* The write becomes the next version; row and head change in one transaction.
StoreManifest(r) ==
    /\ pc[r] = "sent" /\ status = "active"
    /\ BaseIsHead(r)
    /\ manifests' = Append(manifests, write[r])
    /\ history' = Append(history, write[r])
    /\ Reply(r, "stored", head + 1)

\* Mutated: the retry is recognised by its version alone.
MutantRepeated(r) == head = base[write[r]] + 1

\* Mutated: a retry is not recognised at all.
MutantNoRetry(r) == FALSE

\* The write that was stored last, by its hash.
Repeated(r) == head = base[write[r]] + 1 /\ manifests[head] = write[r]

AnswerRetry(r) ==
    /\ pc[r] = "sent" /\ status = "active"
    /\ Repeated(r)
    /\ Reply(r, "stored", head)
    /\ UNCHANGED <<manifests, history>>

ReportConflict(r) ==
    /\ pc[r] = "sent" /\ status = "active"
    /\ ~BaseIsHead(r) /\ ~Repeated(r)
    /\ Reply(r, "conflict", head)
    /\ UNCHANGED <<manifests, history>>

Return(r) == /\ pc' = [pc EXCEPT ![r] = "idle"]
             /\ UNCHANGED <<manifests, status, base, write, answer, history>>

\* The answer arrives: the client adopts the version it is told, unless it
\* knows a later one.
Receive(r) ==
    /\ pc[r] \in {"stored", "conflict"}
    /\ known' = IF answer[r] > known THEN answer[r] ELSE known
    /\ acked' = IF pc[r] = "stored"
                THEN acked \cup {<<write[r], answer[r]>>} ELSE acked
    /\ Return(r)

\* Attempt or answer is lost, the device is refused, or the process dies.
Lose(r) ==
    /\ pc[r] # "idle"
    /\ Return(r)
    /\ UNCHANGED <<known, acked>>

RevokeDevice ==
    /\ status = "active"
    /\ status' = "revoked"
    /\ UNCHANGED <<manifests, clientVars, attemptVars, history, acked>>

\* The group of the device is discarded, and its manifests with it.
DiscardOtherGroups ==
    /\ status # "discarded"
    /\ status' = "discarded"
    /\ manifests' = <<>>
    /\ UNCHANGED <<clientVars, attemptVars, history, acked>>

Init ==
    /\ manifests = <<>> /\ history = <<>>
    /\ status = "active"
    /\ base = [w \in Writes |-> Null]
    /\ known = 0
    /\ pc = [r \in Requests |-> "idle"]
    /\ write \in [Requests -> Writes]
    /\ answer = [r \in Requests |-> 0]
    /\ acked = {}

PutDeviceManifest(r) == StoreManifest(r) \/ AnswerRetry(r) \/ ReportConflict(r)

Next ==
    \/ \E r \in Requests : \/ \E w \in Writes : Send(r, w)
                           \/ PutDeviceManifest(r)
                           \/ Receive(r) \/ Lose(r)
    \/ RevokeDevice \/ DiscardOtherGroups

Spec == Init /\ [][Next]_vars

----------------------------------------------------------------------------
(* Properties.                                                              *)

Log == INSTANCE ManifestLog WITH log <- history, open <- status = "active"

\* The manifests of a device are a log: each write is stored at most once in
\* spite of retries, and acknowledged with its version (PutDeviceManifest).
ImplementsLog == Log!LogSpec

\* Every acknowledged write is still there under the version the client was
\* told, unless the group was discarded (PutDeviceManifest).
AcknowledgedIsStored ==
    status # "discarded" =>
        \A a \in acked : a[2] \in 1..head /\ manifests[a[2]] = a[1]

\* A conflict is never reported to a write that is the current head: a client
\* that repeats its last write learns that it succeeded, as long as nothing
\* newer was stored (the idempotent branch of PutDeviceManifest).
ConflictIsReal ==
    \A r \in Requests :
        pc[r] = "conflict" /\ status = "active" /\ head > 0 /\ answer[r] = head
            => manifests[head] # write[r]

=============================================================================
