-------------------------- MODULE ServerLifeProofs --------------------------
(***************************************************************************)
(* For any number of runs, alive at once in any number, with any number of *)
(* requests and errors: all runs work with one instance identifier, and    *)
(* session tokens outlive the runs that issued them.                       *)
(***************************************************************************)
EXTENDS ServerLife, TLAPS

\* A run that has settled its identifier, or its secret, has one.
Prepared ==
    \A p \in Runs :
        /\ pc[p] = "inserted" => instanceRow # Null
        /\ pc[p] \in {"keying", "generating", "writing"}
              => instanceId[p] # Null
        /\ pc[p] \in {"collecting", "listening", "serving", "draining",
                     "stopping"}
              => instanceId[p] # Null /\ secret[p] # Null
        /\ secret[p] # Null => instanceId[p] # Null
        /\ inFlight[p] > 0 => secret[p] # Null

\* While nothing has disturbed it, the file holds the secret of every run
\* that did not fail to write it, and of every token such a run has issued;
\* it is rewritten by one run at a time, and only when there is none to lose.
SecretIsKept ==
    /\ \A p, q \in Runs : Settling(p) /\ Settling(q) => p = q
    /\ \A p \in Runs : pc[p] \in {"generating", "writing"}
          => secretFile = Null
    /\ \A p \in Runs \ inMemory : secret[p] # Null => secret[p] = secretFile
    /\ \A token \in tokens :
          token.kept => token.secret = secretFile

TokensOfInstance == \A token \in tokens : token.instance = instanceRow

LifeInv ==
    /\ LifeTypeOK /\ OneInstance /\ Prepared /\ TokensOfInstance
    /\ (~disturbed => SecretIsKept)

LEMMA NullIsNoRun == Null \notin Runs
BY NullAssumption, LifeBoundAssumption DEF Runs

LEMMA LifeInvInit == Init => LifeInv
<1> SUFFICES ASSUME Init PROVE LifeInv
  OBVIOUS
<1>1. 0 \in 0..MaxRequests
  BY LifeBoundAssumption
<1>2. LifeTypeOK
  BY <1>1 DEF Init, LifeTypeOK, Places
<1> QED BY <1>2 DEF Init, LifeInv, OneInstance, Prepared, TokensOfInstance,
                    SecretIsKept, Settling

LEMMA StartServerKeeps ==
    ASSUME LifeInv, NEW p \in Runs, StartServer(p)
    PROVE  LifeInv'
<1> USE DEF LifeInv
<1>1. /\ pc[p] = "off"
      /\ \/ pc' = [pc EXCEPT ![p] = "identifying"] /\ UNCHANGED faults
         \/ pc' = [pc EXCEPT ![p] = "exited"] /\ faults' = faults + 1
      /\ disturbed' = (disturbed \/ \E q \in Runs : Settling(q))
      /\ UNCHANGED <<identity, secretFile, secret, inMemory, listener,
                     cancelled, work>>
  BY DEF StartServer, Move, Fault, NoFault
<1>2. LifeTypeOK'
  BY <1>1 DEF LifeTypeOK, Places, identity, work
<1>3. Prepared' /\ OneInstance' /\ TokensOfInstance'
  BY <1>1 DEF LifeTypeOK, Prepared, OneInstance, TokensOfInstance, identity,
              work
<1>4. ASSUME ~disturbed' PROVE SecretIsKept'
  <2>1. ~disturbed /\ \A q \in Runs : ~Settling(q)
    BY <1>1, <1>4
  <2>2. \A q \in Runs : Settling(q)' => q = p
    BY <1>1, <2>1 DEF Settling, LifeTypeOK
  <2> QED BY <1>1, <2>1, <2>2 DEF SecretIsKept, LifeTypeOK, identity, work
<1> QED BY <1>2, <1>3, <1>4

\* What the steps on the identifier leave alone, and what they may do.
LEMMA IdentityStepKeeps ==
    ASSUME LifeInv, NEW p \in Runs, pc[p] \in {"identifying", "choosing",
                                              "inserted"},
           NEW to \in {"choosing", "inserted", "keying", "closing"},
           pc' = [pc EXCEPT ![p] = to],
           instanceRow' \in {instanceRow, p},
           instanceRow # Null => instanceRow' = instanceRow,
           instanceId' \in {instanceId,
                            [instanceId EXCEPT ![p] = instanceRow]},
           to = "inserted" => instanceRow' # Null,
           to = "keying" => instanceId'[p] # Null,
           faults' \in Nat,
           UNCHANGED <<keys, listener, cancelled, work>>
    PROVE  LifeInv'
<1> USE NullIsNoRun DEF LifeInv
<1>1. LifeTypeOK'
  BY DEF LifeTypeOK, Places, keys, work
<1>2. OneInstance'
  BY DEF LifeTypeOK, OneInstance
<1>3. Prepared'
  BY DEF LifeTypeOK, Prepared, OneInstance, keys, work
<1>4. TokensOfInstance'
  <2>1. \A token \in tokens : token.instance \in Runs
    BY DEF LifeTypeOK
  <2> QED BY <2>1 DEF TokensOfInstance, work
<1>5. ASSUME ~disturbed' PROVE SecretIsKept'
  BY <1>5 DEF SecretIsKept, Settling, LifeTypeOK, keys, work
<1> QED BY <1>1, <1>2, <1>3, <1>4, <1>5

LEMMA ReadInstanceIDKeeps ==
    ASSUME LifeInv, NEW p \in Runs, ReadInstanceID(p)
    PROVE  LifeInv'
<1>1. LifeTypeOK
  BY DEF LifeInv
<1>2. CASE instanceRow # Null
  <2>1. /\ pc' = [pc EXCEPT ![p] = "keying"]
        /\ instanceId' = [instanceId EXCEPT ![p] = instanceRow]
        /\ instanceId'[p] # Null
    BY <1>1, <1>2 DEF ReadInstanceID, Move, LifeTypeOK
  <2> QED BY <1>1, <2>1, IdentityStepKeeps
          DEF ReadInstanceID, Move, NoFault, LifeTypeOK
<1>3. CASE instanceRow = Null
  BY <1>1, <1>3, IdentityStepKeeps
  DEF ReadInstanceID, Move, NoFault, LifeTypeOK
<1> QED BY <1>2, <1>3

LEMMA InsertInstanceIDKeeps ==
    ASSUME LifeInv, NEW p \in Runs, InsertInstanceID(p)
    PROVE  LifeInv'
<1>1. instanceRow' # Null
  BY NullIsNoRun DEF InsertInstanceID
<1> QED BY <1>1, IdentityStepKeeps
        DEF InsertInstanceID, Move, NoFault, LifeInv, LifeTypeOK

LEMMA ReadBackInstanceIDKeeps ==
    ASSUME LifeInv, NEW p \in Runs, ReadBackInstanceID(p)
    PROVE  LifeInv'
<1>1. LifeTypeOK
  BY DEF LifeInv
<1>2. /\ instanceId' = [instanceId EXCEPT ![p] = instanceRow]
      /\ instanceId'[p] # Null
  BY <1>1 DEF ReadBackInstanceID, Winner, Move, Prepared, LifeInv,
              LifeTypeOK
<1> QED BY <1>1, <1>2, IdentityStepKeeps
        DEF ReadBackInstanceID, Move, NoFault, LifeTypeOK

LEMMA InstanceIDFailsKeeps ==
    ASSUME LifeInv, NEW p \in Runs, InstanceIDFails(p)
    PROVE  LifeInv'
<1>1. faults' \in Nat
  BY DEF InstanceIDFails, NoFault, Fault, LifeInv, LifeTypeOK
<1> QED BY <1>1, IdentityStepKeeps
        DEF InstanceIDFails, Move, identity, LifeInv, LifeTypeOK

LEMMA LoadSecretKeeps ==
    ASSUME LifeInv, NEW p \in Runs, LoadSecret(p)
    PROVE  LifeInv'
<1> USE DEF LifeInv
<1>1. /\ pc[p] = "keying"
      /\ UNCHANGED <<identity, secretFile, inMemory, listener, cancelled,
                     work>>
  BY DEF LoadSecret, Move
<1>2. faults' \in Nat
  BY DEF LoadSecret, NoFault, Fault, LifeTypeOK
<1>3. disturbed' \in BOOLEAN /\ (disturbed => disturbed')
  BY Zenon DEF LoadSecret, LifeTypeOK
<1>4. CASE secretFile # Null /\ pc' = [pc EXCEPT ![p] = "collecting"]
           /\ secret' = [secret EXCEPT ![p] = secretFile]
  <2>1. LifeTypeOK'
    BY <1>1, <1>2, <1>3, <1>4 DEF LifeTypeOK, Places, identity, work
  <2>2. OneInstance' /\ Prepared' /\ TokensOfInstance'
    BY <1>1, <1>4 DEF LifeTypeOK, OneInstance, Prepared, TokensOfInstance,
                      identity, work
  <2>3. ASSUME ~disturbed' PROVE SecretIsKept'
    BY <1>1, <1>3, <1>4, <2>3 DEF LifeTypeOK, SecretIsKept, Settling, work
  <2> QED BY <2>1, <2>2, <2>3
<1>5. CASE /\ secretFile = Null \/ disturbed'
           /\ pc' = [pc EXCEPT ![p] = "generating"] /\ UNCHANGED secret
  <2>1. LifeTypeOK'
    BY <1>1, <1>2, <1>3, <1>5 DEF LifeTypeOK, Places, identity, work
  <2>2. OneInstance' /\ Prepared' /\ TokensOfInstance'
    BY <1>1, <1>5 DEF LifeTypeOK, OneInstance, Prepared, TokensOfInstance,
                      identity, work
  <2>3. ASSUME ~disturbed' PROVE SecretIsKept'
    BY <1>1, <1>3, <1>5, <2>3 DEF LifeTypeOK, SecretIsKept, Settling, work
  <2> QED BY <2>1, <2>2, <2>3
<1> QED BY <1>4, <1>5 DEF LoadSecret, Move, SecretIsIntact

\* A run that has a secret of its own making goes on to collect.
LEMMA FreshSecretKeeps ==
    ASSUME LifeInv, NEW p \in Runs, pc[p] \in {"generating", "writing"},
           pc' = [pc EXCEPT ![p] = "collecting"], UsesFresh(p),
           \/ secretFile' = p /\ UNCHANGED inMemory
           \/ secretFile' = secretFile /\ inMemory' = inMemory \cup {p}
           \/ secretFile' = Null /\ inMemory' = inMemory \cup {p},
           faults' \in Nat,
           UNCHANGED <<identity, disturbed, listener, cancelled, work>>
    PROVE  LifeInv'
<1> USE NullIsNoRun DEF LifeInv, UsesFresh
<1>1. LifeTypeOK'
  BY DEF LifeTypeOK, Places, identity, work
<1>2. OneInstance' /\ Prepared' /\ TokensOfInstance'
  BY DEF LifeTypeOK, OneInstance, Prepared, TokensOfInstance, identity, work
<1>3. ASSUME ~disturbed' PROVE SecretIsKept'
  <2>1. SecretIsKept /\ secretFile = Null
    BY <1>3 DEF SecretIsKept
  <2>2. \A token \in tokens : ~token.kept
    BY <2>1 DEF SecretIsKept, LifeTypeOK
  <2>3. \A q \in Runs \ inMemory : secret[q] = Null
    BY <2>1 DEF SecretIsKept
  <2>4. \A q \in Runs : pc'[q] \notin {"generating", "writing"}
    BY <2>1 DEF SecretIsKept, Settling, LifeTypeOK
  <2>5. \A q \in Runs \ inMemory' :
           secret'[q] # Null => secret'[q] = secretFile'
    BY <2>3 DEF LifeTypeOK
  <2>6. \A q \in Runs : Settling(q)' => Settling(q)
    BY DEF Settling, LifeTypeOK
  <2> QED BY <2>1, <2>2, <2>4, <2>5, <2>6 DEF SecretIsKept, work
<1> QED BY <1>1, <1>2, <1>3

LEMMA TruncateSecretFileKeeps ==
    ASSUME LifeInv, NEW p \in Runs, TruncateSecretFile(p)
    PROVE  LifeInv'
<1> USE DEF LifeInv
<1>1. CASE /\ pc[p] = "generating" /\ pc' = [pc EXCEPT ![p] = "writing"]
           /\ secretFile' = Null /\ UNCHANGED <<secret, inMemory, faults>>
           /\ UNCHANGED <<identity, disturbed, listener, cancelled, work>>
  <2>1. LifeTypeOK'
    BY <1>1 DEF LifeTypeOK, Places, identity, work
  <2>2. OneInstance' /\ Prepared' /\ TokensOfInstance'
    BY <1>1 DEF LifeTypeOK, OneInstance, Prepared, TokensOfInstance,
                identity, work
  <2>3. ASSUME ~disturbed' PROVE SecretIsKept'
    BY <1>1, <2>3 DEF LifeTypeOK, SecretIsKept, Settling, work
  <2> QED BY <2>1, <2>2, <2>3
<1>2. faults' \in Nat
  BY DEF TruncateSecretFile, NoFault, Fault, LifeTypeOK
<1> QED BY <1>1, <1>2, FreshSecretKeeps
        DEF TruncateSecretFile, Move, NoFault

LEMMA WriteSecretFileKeeps ==
    ASSUME LifeInv, NEW p \in Runs, WriteSecretFile(p)
    PROVE  LifeInv'
<1>1. faults' \in Nat
  BY DEF WriteSecretFile, NoFault, Fault, LifeInv, LifeTypeOK
<1> QED BY <1>1, FreshSecretKeeps DEF WriteSecretFile, Move

\* The steps of service and shutdown, which leave identifier and secret alone.
LEMMA ServiceStepKeeps ==
    ASSUME LifeInv, NEW p \in Runs,
           NEW to \in {"listening", "serving", "draining", "stopping",
                      "closing"},
           \/ UNCHANGED pc
           \/ /\ pc[p] \in {"collecting", "listening", "serving", "draining",
                           "stopping"}
              /\ pc' = [pc EXCEPT ![p] = to],
           listener' \in Runs \cup {Null},
           cancelled' \in [Runs -> BOOLEAN],
           collector' \in [Runs -> {"none", "running", "stopped"}],
           faults' \in Nat,
           UNCHANGED <<identity, keys, inFlight, tokens>>
    PROVE  LifeInv'
<1> USE DEF LifeInv
<1>1. LifeTypeOK'
  BY DEF LifeTypeOK, Places, identity, keys
<1>2. OneInstance' /\ Prepared' /\ TokensOfInstance'
  BY DEF LifeTypeOK, OneInstance, Prepared, TokensOfInstance, identity, keys
<1>3. ASSUME ~disturbed' PROVE SecretIsKept'
  BY <1>3 DEF LifeTypeOK, SecretIsKept, Settling, keys
<1> QED BY <1>1, <1>2, <1>3

LEMMA ListenerKeepsType ==
    ASSUME LifeInv, NEW p \in Runs, Release(p)
    PROVE  listener' \in Runs \cup {Null}
BY DEF Release, LifeInv, LifeTypeOK

LEMMA CancelKeepsType ==
    ASSUME LifeInv, NEW p \in Runs,
           \/ UNCHANGED cancelled
           \/ cancelled' = [cancelled EXCEPT ![p] = TRUE]
    PROVE  cancelled' \in [Runs -> BOOLEAN]
BY DEF LifeInv, LifeTypeOK

LEMMA ListenKeeps ==
    ASSUME LifeInv, NEW p \in Runs, CollectAtStart(p) \/ Listen(p)
    PROVE  LifeInv'
<1>1. cancelled' \in [Runs -> BOOLEAN]
  BY CancelKeepsType DEF CollectAtStart, Listen
<1>2. collector' \in [Runs -> {"none", "running", "stopped"}]
  BY DEF CollectAtStart, Listen, work, LifeInv, LifeTypeOK
<1>3. listener' \in Runs \cup {Null} /\ faults' \in Nat
  BY DEF CollectAtStart, Listen, NoFault, LifeInv, LifeTypeOK
<1> QED BY <1>1, <1>2, <1>3, ServiceStepKeeps
        DEF CollectAtStart, Listen, Move, work

LEMMA ShutdownStepKeeps ==
    ASSUME LifeInv, NEW p \in Runs,
           \/ Shutdown(p) \/ ServeFails(p) \/ ShutdownReturns(p)
           \/ WaitForCollector(p)
    PROVE  LifeInv'
<1>1. faults' \in Nat
  BY DEF Shutdown, ServeFails, ShutdownReturns, WaitForCollector, NoFault,
         Fault, LifeInv, LifeTypeOK
<1>2. listener' \in Runs \cup {Null}
  BY ListenerKeepsType DEF Shutdown, ServeFails, ShutdownReturns,
         WaitForCollector, LifeInv, LifeTypeOK
<1>3. cancelled' \in [Runs -> BOOLEAN]
  BY CancelKeepsType DEF Shutdown, ServeFails, ShutdownReturns,
                         WaitForCollector
<1>4. UNCHANGED <<identity, keys, work>>
  BY DEF Shutdown, ServeFails, ShutdownReturns, WaitForCollector
<1>5. collector' \in [Runs -> {"none", "running", "stopped"}]
  BY <1>4 DEF work, LifeInv, LifeTypeOK
<1> QED BY <1>1, <1>2, <1>3, <1>4, <1>5, ServiceStepKeeps
        DEF Shutdown, ServeFails, ShutdownReturns, WaitForCollector, Move,
            work

LEMMA CollectorOrSignalKeeps ==
    ASSUME LifeInv, NEW p \in Runs, CollectorStops(p) \/ Signal(p)
    PROVE  LifeInv'
<1>1. /\ listener' \in Runs \cup {Null} /\ faults' \in Nat
      /\ collector' \in [Runs -> {"none", "running", "stopped"}]
  BY DEF CollectorStops, Signal, NoFault, work, LifeInv, LifeTypeOK
<1>2. cancelled' \in [Runs -> BOOLEAN]
  BY CancelKeepsType DEF CollectorStops, Signal
<1> QED BY <1>1, <1>2, ServiceStepKeeps DEF CollectorStops, Signal, work

LEMMA BeginRequestKeeps ==
    ASSUME LifeInv, NEW p \in Runs, BeginRequest(p)
    PROVE  LifeInv'
<1> USE DEF LifeInv
<1>1. /\ pc[p] = "serving"
      /\ inFlight' = [inFlight EXCEPT ![p] = @ + 1]
      /\ inFlight[p] + 1 \in 0..MaxRequests
      /\ UNCHANGED <<identity, keys, listener, pc, cancelled, collector,
                     tokens, faults>>
  BY LifeBoundAssumption DEF BeginRequest, NoFault, LifeTypeOK
<1>2. LifeTypeOK'
  BY <1>1 DEF LifeTypeOK, identity, keys
<1>3. OneInstance' /\ TokensOfInstance'
  BY <1>1 DEF OneInstance, TokensOfInstance, identity
<1>4. Prepared'
  BY <1>1 DEF Prepared, LifeTypeOK, identity, keys
<1>5. ASSUME ~disturbed' PROVE SecretIsKept'
  BY <1>1, <1>5 DEF SecretIsKept, Settling, keys
<1> QED BY <1>2, <1>3, <1>4, <1>5

LEMMA EndRequestKeeps ==
    ASSUME LifeInv, NEW p \in Runs, EndRequest(p)
    PROVE  LifeInv'
<1> DEFINE token == IssueSessionToken(p)
<1> USE DEF LifeInv
<1>1. /\ inFlight[p] > 0
      /\ inFlight' = [inFlight EXCEPT ![p] = @ - 1]
      /\ inFlight[p] - 1 \in 0..MaxRequests
      /\ UNCHANGED <<identity, keys, listener, pc, cancelled, collector,
                     faults>>
  BY LifeBoundAssumption DEF EndRequest, NoFault, LifeTypeOK
<1>2. /\ secret[p] \in Runs /\ instanceId[p] \in Runs
      /\ instanceId[p] = instanceRow
  BY <1>1 DEF Prepared, OneInstance, LifeTypeOK
<1>3. /\ token \in [secret : Runs, instance : Runs, kept : BOOLEAN]
      /\ token.instance = instanceRow /\ token.secret = secret[p]
      /\ token.kept <=> p \notin inMemory
  BY <1>2 DEF IssueSessionToken
<1>4. tokens' \subseteq tokens \cup {token}
  BY DEF EndRequest
<1> HIDE DEF token
<1>5. LifeTypeOK'
  BY <1>1, <1>3, <1>4 DEF LifeTypeOK, identity, keys
<1>6. OneInstance' /\ TokensOfInstance'
  BY <1>1, <1>3, <1>4 DEF OneInstance, TokensOfInstance, identity
<1>7. Prepared'
  BY <1>1 DEF Prepared, LifeTypeOK, identity, keys
<1>8. ASSUME ~disturbed' PROVE SecretIsKept'
  <2>1. SecretIsKept /\ UNCHANGED <<pc, secretFile, secret, inMemory>>
    BY <1>1, <1>8 DEF keys
  <2>2. p \notin inMemory => secret[p] = secretFile
    BY <1>2, <2>1, NullIsNoRun DEF SecretIsKept
  <2>3. \A t \in tokens' : t.kept => t.secret = secretFile'
    BY <1>3, <1>4, <2>1, <2>2 DEF SecretIsKept
  <2> QED BY <2>1, <2>3 DEF SecretIsKept, Settling
<1> QED BY <1>5, <1>6, <1>7, <1>8

LEMMA EndsKeeps ==
    ASSUME LifeInv, NEW p \in Runs, pc' = [pc EXCEPT ![p] = "exited"],
           Ends(p)
    PROVE  LifeInv'
<1> USE DEF LifeInv
<1>1. 0 \in 0..MaxRequests
  BY LifeBoundAssumption
<1>2. LifeTypeOK'
  <2>1. listener' \in Runs \cup {Null}
    BY ListenerKeepsType DEF Ends
  <2>2. cancelled' \in [Runs -> BOOLEAN]
    BY DEF Ends, LifeTypeOK
  <2> QED BY <1>1, <2>1, <2>2 DEF Ends, NoFault, LifeTypeOK, Places
<1>3. OneInstance' /\ TokensOfInstance'
  BY DEF Ends, OneInstance, TokensOfInstance, LifeTypeOK
<1>4. Prepared'
  BY DEF Ends, Prepared, LifeTypeOK
<1>5. ASSUME ~disturbed' PROVE SecretIsKept'
  BY <1>5 DEF Ends, SecretIsKept, Settling, LifeTypeOK
<1> QED BY <1>2, <1>3, <1>4, <1>5

LEMMA LifeInvNext == LifeInv /\ [Next]_lifeVars => LifeInv'
<1> SUFFICES ASSUME LifeInv, [Next]_lifeVars PROVE LifeInv'
  OBVIOUS
<1>1. ASSUME NEW p \in Runs, StartStep(p) PROVE LifeInv'
  BY <1>1, ReadInstanceIDKeeps, InsertInstanceIDKeeps,
     ReadBackInstanceIDKeeps, InstanceIDFailsKeeps, LoadSecretKeeps,
     TruncateSecretFileKeeps, WriteSecretFileKeeps, ListenKeeps
  DEF StartStep
<1>2. ASSUME NEW p \in Runs, Exit(p) \/ Crash(p) PROVE LifeInv'
  BY <1>2, EndsKeeps DEF Exit, Crash, Move
<1>3. ASSUME NEW p \in Runs, StopStep(p) PROVE LifeInv'
  BY <1>2, <1>3, ShutdownStepKeeps DEF StopStep
<1>4. CASE UNCHANGED lifeVars
  <2>1. UNCHANGED <<identity, keys, listener, pc, cancelled, work, faults>>
    BY <1>4 DEF lifeVars
  <2>2. LifeTypeOK' /\ OneInstance' /\ Prepared' /\ TokensOfInstance'
    BY <2>1 DEF LifeInv, LifeTypeOK, OneInstance, Prepared,
                TokensOfInstance, identity, keys, work
  <2>3. ASSUME ~disturbed' PROVE SecretIsKept'
    BY <2>1, <2>3 DEF LifeInv, SecretIsKept, Settling, keys, work
  <2> QED BY <2>2, <2>3 DEF LifeInv
<1> QED BY <1>1, <1>2, <1>3, <1>4, StartServerKeeps, ListenKeeps,
           BeginRequestKeeps, EndRequestKeeps, ShutdownStepKeeps,
           CollectorOrSignalKeeps
        DEF Next

LEMMA LifeInvHolds == Spec => []LifeInv
BY LifeInvInit, LifeInvNext, PTL DEF Spec

\* Every variable keeps its type (runServer, Run).
THEOREM LifeTypeCorrect == Spec => []LifeTypeOK
BY LifeInvHolds, PTL DEF LifeInv

\* All runs work with the identifier that the database keeps, however many
\* first starts overlap (GetOrCreateInstanceID).
THEOREM AlwaysOneInstance == Spec => []OneInstance
BY LifeInvHolds, PTL DEF LifeInv

\* A restart logs nobody out, with the exceptions that TokensSurvive names
\* (LoadOrGenerateSecret, ParseSessionToken).
THEOREM TokensAlwaysSurvive == Spec => []TokensSurvive
<1>1. LifeInv => TokensSurvive
  <2> SUFFICES ASSUME LifeInv, ~disturbed, NEW q \in Runs \ inMemory,
                      NEW token \in tokens, secret[q] # Null, token.kept
               PROVE  ParseSessionToken(q, token)
    BY DEF TokensSurvive
  <2>1. token.secret = secret[q]
    BY DEF LifeInv, SecretIsKept
  <2>2. token.instance = instanceId[q]
    BY DEF LifeInv, Prepared, OneInstance, TokensOfInstance
  <2> QED BY <2>1, <2>2 DEF ParseSessionToken
<1> QED BY <1>1, LifeInvHolds, PTL

=============================================================================
