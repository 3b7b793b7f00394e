----------------------------- MODULE ServerLife -----------------------------
(***************************************************************************)
(* The relay as a process: it starts, finds or makes what identifies it    *)
(* (the instance identifier in the database, the signing secret in a       *)
(* file), collects garbage once, listens, serves, and on a signal drains   *)
(* its requests, waits for its collector and closes the database, each     *)
(* for a limited time.  It may crash at any step and be started again, and *)
(* nothing keeps a second process from being started before the first has  *)
(* ended: only the port is exclusive, and it is asked for last.            *)
(*                                                                         *)
(* A run is one life of the process; runs are numbered in the order of     *)
(* their start.  The identifier and the secret a run would generate are    *)
(* named after it.                                                         *)
(***************************************************************************)
EXTENDS Naturals, FiniteSets

CONSTANTS
    MaxRuns,      \* bound: how often the process is started
    MaxAlive,     \* bound: runs alive at once
    MaxRequests,  \* bound: requests in flight in a run
    MaxFaults,    \* bound: I/O errors
    Null

ASSUME LifeBoundAssumption ==
    /\ MaxRuns \in Nat /\ MaxAlive \in Nat
    /\ MaxRequests \in Nat /\ MaxFaults \in Nat
ASSUME NullAssumption == Null \notin Nat

Runs == 1..MaxRuns

VARIABLES
    \* --- what outlives a run
    instanceRow,  \* relay_meta.instance_id, Null without a row
    secretFile,   \* the secret in the file, Null without a file and when
                  \* its length is wrong
    listener,     \* the run that holds the port
    \* --- the runs
    pc,           \* where runServer is
    instanceId,   \* the identifier the run works with
    secret,       \* the secret the run works with
    cancelled,    \* the signal context is done
    collector,    \* the goroutine that collects every hour
    inFlight,     \* requests being handled
    \* --- what clients hold
    tokens,       \* the session tokens issued
    \* --- history, for the properties
    inMemory,     \* runs alive whose secret could not be written
    disturbed,    \* two starts overlapped, or an intact secret was unreadable
    faults

identity == <<instanceRow, instanceId>>
keys == <<secretFile, secret, inMemory, disturbed>>
work == <<collector, inFlight, tokens>>
lifeVars == <<identity, keys, listener, pc, cancelled, work, faults>>

Fault == faults < MaxFaults /\ faults' = faults + 1
NoFault == UNCHANGED faults

Move(p, from, to) == pc[p] \in from /\ pc' = [pc EXCEPT ![p] = to]

Alive(p) == pc[p] \notin {"off", "exited"}

\* The run has not settled which secret it works with.
Settling(p) == pc[p] \in {"identifying", "choosing", "inserted", "keying",
                          "generating", "writing"}

----------------------------------------------------------------------------
(* Start: runServer up to the listener.                                     *)

\* Directories, migration, connection; any error ends the run.
StartServer(p) ==
    /\ Cardinality({q \in Runs : Alive(q)}) < MaxAlive
    /\ \A q \in 1..(p - 1) : pc[q] # "off"
    /\ \/ Move(p, {"off"}, "identifying") /\ NoFault
       \/ Move(p, {"off"}, "exited") /\ Fault
    /\ disturbed' = (disturbed \/ \E q \in Runs : Settling(q))
    /\ UNCHANGED <<identity, secretFile, secret, inMemory, listener,
                   cancelled, work>>

\* GetOrCreateInstanceID reads the row, ...
ReadInstanceID(p) ==
    /\ ~cancelled[p]
    /\ \/ /\ instanceRow # Null
          /\ Move(p, {"identifying"}, "keying")
          /\ instanceId' = [instanceId EXCEPT ![p] = instanceRow]
       \/ /\ instanceRow = Null
          /\ Move(p, {"identifying"}, "choosing")
          /\ UNCHANGED instanceId
    /\ NoFault
    /\ UNCHANGED <<instanceRow, keys, listener, cancelled, work>>

\* ... inserts its candidate unless there is a row by now ...
InsertInstanceID(p) ==
    /\ ~cancelled[p]
    /\ Move(p, {"choosing"}, "inserted")
    /\ instanceRow' = IF instanceRow = Null THEN p ELSE instanceRow
    /\ NoFault
    /\ UNCHANGED <<instanceId, keys, listener, cancelled, work>>

\* Mutated: the candidate is used without reading the row back.
MutantCandidate(p) == p

\* ... and reads back which candidate has won.
Winner(p) == instanceRow

ReadBackInstanceID(p) ==
    /\ ~cancelled[p]
    /\ Move(p, {"inserted"}, "keying")
    /\ instanceId' = [instanceId EXCEPT ![p] = Winner(p)]
    /\ NoFault
    /\ UNCHANGED <<instanceRow, keys, listener, cancelled, work>>

\* Each of the three statements is given the signal context.
InstanceIDFails(p) ==
    /\ Move(p, {"identifying", "choosing", "inserted"}, "closing")
    /\ IF cancelled[p] THEN NoFault ELSE Fault
    /\ UNCHANGED <<identity, keys, listener, cancelled, work>>

\* Mutated: the secret of an earlier run is never used.
MutantFreshSecret == FALSE

SecretIsIntact == secretFile # Null

\* LoadOrGenerateSecret uses an intact file; any error of the read counts as
\* a missing one.
LoadSecret(p) ==
    /\ \/ /\ SecretIsIntact
          /\ Move(p, {"keying"}, "collecting")
          /\ secret' = [secret EXCEPT ![p] = secretFile]
          /\ NoFault
          /\ UNCHANGED disturbed
       \/ /\ ~SecretIsIntact
          /\ Move(p, {"keying"}, "generating")
          /\ NoFault
          /\ UNCHANGED <<secret, disturbed>>
       \/ /\ SecretIsIntact
          /\ Move(p, {"keying"}, "generating")
          /\ Fault
          /\ disturbed' = TRUE
          /\ UNCHANGED secret
    /\ UNCHANGED <<identity, secretFile, inMemory, listener, cancelled, work>>

UsesFresh(p) == secret' = [secret EXCEPT ![p] = p]

\* WriteFile first truncates the file, or fails to open it, ...
TruncateSecretFile(p) ==
    /\ \/ /\ Move(p, {"generating"}, "writing")
          /\ secretFile' = Null
          /\ NoFault
          /\ UNCHANGED <<secret, inMemory>>
       \/ /\ Move(p, {"generating"}, "collecting")
          /\ UsesFresh(p) /\ inMemory' = inMemory \cup {p}
          /\ Fault
          /\ UNCHANGED secretFile
    /\ UNCHANGED <<identity, disturbed, listener, cancelled, work>>

\* ... then writes; a failed write leaves the run with the secret in memory.
WriteSecretFile(p) ==
    /\ Move(p, {"writing"}, "collecting")
    /\ UsesFresh(p)
    /\ \/ secretFile' = p /\ NoFault /\ UNCHANGED inMemory
       \/ secretFile' = Null /\ Fault /\ inMemory' = inMemory \cup {p}
    /\ UNCHANGED <<identity, disturbed, listener, cancelled, work>>

\* The files of broken uploads are removed and garbage is collected, here on
\* the main goroutine, and errors are only logged; then the goroutine starts
\* that collects every hour.
CollectAtStart(p) ==
    /\ Move(p, {"collecting"}, "listening")
    /\ collector' = [collector EXCEPT ![p] = "running"]
    /\ NoFault
    /\ UNCHANGED <<identity, keys, listener, cancelled, inFlight, tokens>>

\* The port is free and the run serves, or it is taken: Run returns, and the
\* deferred function cancels the context before it waits.
Listen(p) ==
    /\ \/ /\ listener = Null
          /\ Move(p, {"listening"}, "serving")
          /\ listener' = p
          /\ UNCHANGED cancelled
       \/ /\ listener # Null
          /\ Move(p, {"listening"}, "stopping")
          /\ cancelled' = [cancelled EXCEPT ![p] = TRUE]
          /\ UNCHANGED listener
    /\ NoFault
    /\ UNCHANGED <<identity, keys, work>>

----------------------------------------------------------------------------
(* Service.                                                                 *)

BeginRequest(p) ==
    /\ pc[p] = "serving" /\ inFlight[p] < MaxRequests
    /\ inFlight' = [inFlight EXCEPT ![p] = @ + 1]
    /\ NoFault
    /\ UNCHANGED <<identity, keys, listener, pc, cancelled, collector,
                   tokens>>

\* A token carries the instance as its issuer and is signed with the secret.
IssueSessionToken(p) ==
    [secret |-> secret[p], instance |-> instanceId[p],
     kept |-> p \notin inMemory]

\* A handler returns; a login has issued a session token.
EndRequest(p) ==
    /\ Alive(p) /\ inFlight[p] > 0
    /\ inFlight' = [inFlight EXCEPT ![p] = @ - 1]
    /\ tokens' \in {tokens, tokens \cup {IssueSessionToken(p)}}
    /\ NoFault
    /\ UNCHANGED <<identity, keys, listener, pc, cancelled, collector>>

\* Whether run q accepts a token that has not expired.
ParseSessionToken(q, token) ==
    token.secret = secret[q] /\ token.instance = instanceId[q]

\* The collector goroutine sees the end of the context, between two hourly
\* collections or when a statement of the one it runs fails.
CollectorStops(p) ==
    /\ Alive(p) /\ collector[p] = "running" /\ cancelled[p]
    /\ collector' = [collector EXCEPT ![p] = "stopped"]
    /\ NoFault
    /\ UNCHANGED <<identity, keys, listener, pc, cancelled, inFlight,
                   tokens>>

----------------------------------------------------------------------------
(* Shutdown.                                                                *)

\* SIGINT or SIGTERM; the context is installed before anything else is done.
Signal(p) ==
    /\ Alive(p) /\ ~cancelled[p]
    /\ cancelled' = [cancelled EXCEPT ![p] = TRUE]
    /\ NoFault
    /\ UNCHANGED <<identity, keys, listener, pc, work>>

Release(p) == listener' = IF listener = p THEN Null ELSE listener

\* Run sees the end of the context: Shutdown closes the listener first.
Shutdown(p) ==
    /\ cancelled[p]
    /\ Move(p, {"serving"}, "draining")
    /\ Release(p)
    /\ NoFault
    /\ UNCHANGED <<identity, keys, cancelled, work>>

\* Serve fails by itself: Run returns at once and drains nothing.
ServeFails(p) ==
    /\ Move(p, {"serving"}, "stopping")
    /\ Release(p)
    /\ cancelled' = [cancelled EXCEPT ![p] = TRUE]
    /\ Fault
    /\ UNCHANGED <<identity, keys, work>>

\* Mutated: Shutdown is given no time limit.
MutantDrainsForEver(p) == inFlight[p] = 0

\* All requests have been answered, or the five seconds for them are over.
DrainIsOver(p) == TRUE

ShutdownReturns(p) ==
    /\ DrainIsOver(p)
    /\ Move(p, {"draining"}, "stopping")
    /\ NoFault
    /\ UNCHANGED <<identity, keys, listener, cancelled, work>>

\* The deferred function: the collector has stopped, or the thirty seconds
\* for it are over.
WaitForCollector(p) ==
    /\ Move(p, {"stopping"}, "closing")
    /\ NoFault
    /\ UNCHANGED <<identity, keys, listener, cancelled, work>>

\* The database is closed and the process ends, and with it all it had in
\* memory.
Ends(p) ==
    /\ instanceId' = [instanceId EXCEPT ![p] = Null]
    /\ secret' = [secret EXCEPT ![p] = Null]
    /\ inMemory' = inMemory \ {p}
    /\ cancelled' = [cancelled EXCEPT ![p] = FALSE]
    /\ collector' = [collector EXCEPT ![p] = "none"]
    /\ inFlight' = [inFlight EXCEPT ![p] = 0]
    /\ Release(p)
    /\ NoFault
    /\ UNCHANGED <<instanceRow, secretFile, disturbed, tokens>>

Exit(p) == Move(p, {"closing"}, "exited") /\ Ends(p)

\* The process is killed.
Crash(p) == Alive(p) /\ pc' = [pc EXCEPT ![p] = "exited"] /\ Ends(p)

----------------------------------------------------------------------------

Init ==
    /\ instanceRow = Null /\ secretFile = Null /\ listener = Null
    /\ pc = [p \in Runs |-> "off"]
    /\ instanceId = [p \in Runs |-> Null]
    /\ secret = [p \in Runs |-> Null]
    /\ cancelled = [p \in Runs |-> FALSE]
    /\ collector = [p \in Runs |-> "none"]
    /\ inFlight = [p \in Runs |-> 0]
    /\ tokens = {} /\ inMemory = {} /\ disturbed = FALSE
    /\ faults = 0

StartStep(p) ==
    \/ ReadInstanceID(p) \/ InsertInstanceID(p) \/ ReadBackInstanceID(p)
    \/ InstanceIDFails(p)
    \/ LoadSecret(p) \/ TruncateSecretFile(p) \/ WriteSecretFile(p)
    \/ Listen(p)

StopStep(p) ==
    \/ Shutdown(p) \/ ShutdownReturns(p) \/ WaitForCollector(p)
    \/ Exit(p)

Next ==
    \E p \in Runs :
        \/ StartServer(p) \/ StartStep(p) \/ CollectAtStart(p) \/ StopStep(p)
        \/ BeginRequest(p) \/ EndRequest(p) \/ ServeFails(p)
        \/ CollectorStops(p) \/ Signal(p) \/ Crash(p)

Spec == Init /\ [][Next]_lifeVars

\* The main goroutine is scheduled, its timers fire, and the calls it makes
\* for the identifier and the secret return.  Nothing is assumed of requests,
\* which may last, nor of a collection, which may hang in the deletion of a
\* file, at the start or in the collector.
FairSpec ==
    Spec /\ \A p \in Runs : WF_lifeVars(StartStep(p) \/ StopStep(p))

----------------------------------------------------------------------------
(* Properties.                                                              *)

Places == {"off", "identifying", "choosing", "inserted", "keying",
           "generating", "writing", "collecting", "listening", "serving",
           "draining", "stopping", "closing", "exited"}

\* Every variable keeps its type.
LifeTypeOK ==
    /\ instanceRow \in Runs \cup {Null}
    /\ secretFile \in Runs \cup {Null}
    /\ listener \in Runs \cup {Null}
    /\ pc \in [Runs -> Places]
    /\ instanceId \in [Runs -> Runs \cup {Null}]
    /\ secret \in [Runs -> Runs \cup {Null}]
    /\ cancelled \in [Runs -> BOOLEAN]
    /\ collector \in [Runs -> {"none", "running", "stopped"}]
    /\ inFlight \in [Runs -> 0..MaxRequests]
    /\ tokens \subseteq [secret : Runs, instance : Runs, kept : BOOLEAN]
    /\ inMemory \subseteq Runs
    /\ disturbed \in BOOLEAN
    /\ faults \in Nat

\* All runs work with the one identifier the database keeps, also when the
\* first start is interrupted or several first starts overlap: proofs and
\* tokens bound to the instance stay good.
OneInstance ==
    \A p \in Runs : instanceId[p] # Null => instanceId[p] = instanceRow

\* A restart logs nobody out: a token issued by a run is accepted by every
\* later run, whatever crashed in between, torn files included.  The
\* exceptions are a run that could not write its secret, a secret file that
\* could not be read, and starts that overlap.
TokensSurvive ==
    ~disturbed => \A q \in Runs \ inMemory, token \in tokens :
                     secret[q] # Null /\ token.kept
                         => ParseSessionToken(q, token)

\* A process that is told to stop does stop, at whatever point of its start
\* or service it is told, and although requests or the collector never end:
\* again and again no process is left that should have stopped, but for one
\* that is still in the collection of its start, which has no time limit
\* (Run, the deferred function of runServer).
SignalledExits ==
    []<>(\A p \in Runs : cancelled[p] => pc[p] = "collecting")

=============================================================================
