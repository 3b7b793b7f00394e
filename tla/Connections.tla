----------------------------- MODULE Connections -----------------------------
(***************************************************************************)
(* Registration, login and session renewal.  Each takes two requests: the  *)
(* first looks the account or device up and leaves an attempt in a bounded *)
(* in-memory store, the second takes the attempt out and, its proofs being *)
(* good, creates an account, enrols a device or renews a session.  The     *)
(* store drops expired attempts whenever one is added, and the oldest one  *)
(* when it is full; what was looked up may be out of date by then.         *)
(*                                                                         *)
(* A device is named after the attempt that enrolled it.  Proofs are good  *)
(* or not; how they are made is left out.                                  *)
(***************************************************************************)
EXTENDS Naturals, FiniteSets

CONSTANTS
    Users,       \* user names, normalised
    Attempts,    \* attempts that may ever be made
    Handlers,    \* requests that may be handled at the same time
    Capacity,    \* attempts the store may hold (4096)
    TTL,         \* lifetime of an attempt (5 minutes)
    MaxStall,    \* how long a request may wait for the store's mutex
    MaxTime,     \* bound: last instant of the clock
    Null

ASSUME StoreAssumption ==
    /\ Capacity \in Nat \ {0} /\ TTL \in Nat \ {0}
    /\ MaxStall \in Nat
    /\ MaxTime \in Nat
ASSUME FiniteAssumption == IsFiniteSet(Attempts)

VARIABLES
    \* --- the challenge store, in memory
    values,      \* attempts it holds
    issued,      \* what each attempt was created with, Null: not yet
    spent,       \* attempts that were taken out, or lost with the process
    \* --- the database
    accounts,    \* pairs of a user name and the attempt that registered it
    devices,     \* active devices
    \* --- requests
    pc,          \* where a handler is
    looked,      \* what it has looked up, with the expiry it computed
    taken,       \* the attempt it took
    granted,     \* how often each attempt was granted
    now

storeVars == <<values, issued, spent>>
dbVars == <<accounts, devices>>
handlerVars == <<pc, looked, taken>>
vars == <<storeVars, dbVars, handlerVars, granted, now>>

Kinds == {"connection", "session"}
ConnectionSeed == [kind : {"connection"}, user : Users, exists : BOOLEAN,
                   device : {Null}, expires : Nat]
SessionSeed == [kind : {"session"}, user : {Null}, exists : {TRUE},
                device : Attempts, expires : Nat]
Seed == ConnectionSeed \cup SessionSeed

ASSUME NullAssumption == Null \notin Seed

TypeOK ==
    /\ values \subseteq Attempts /\ spent \subseteq Attempts
    /\ issued \in [Attempts -> Seed \cup {Null}]
    /\ \A a \in values : issued[a] # Null
    /\ accounts \subseteq Users \X Attempts
    /\ devices \subseteq Attempts
    /\ pc \in [Handlers -> {"idle", "looked", "taken"}]
    /\ looked \in [Handlers -> Seed \cup {Null}]
    /\ taken \in [Handlers -> Attempts \cup {Null}]
    /\ granted \in [Attempts -> Nat]
    /\ now \in Nat

Registered(u) == \E x \in accounts : x[1] = u

Idle(h) == /\ pc' = [pc EXCEPT ![h] = "idle"]
           /\ looked' = [looked EXCEPT ![h] = Null]
           /\ taken' = [taken EXCEPT ![h] = Null]

----------------------------------------------------------------------------
(* The first request.                                                       *)

LookUp(h, seed) ==
    /\ pc[h] = "idle"
    /\ pc' = [pc EXCEPT ![h] = "looked"]
    /\ looked' = [looked EXCEPT ![h] = seed]
    /\ UNCHANGED <<storeVars, dbVars, taken, granted, now>>

\* Start looks the name up; an unknown name begins a registration.
Start(h, u) ==
    LookUp(h, [kind |-> "connection", user |-> u, exists |-> Registered(u),
               device |-> Null, expires |-> now + TTL])

\* StartSession looks an active device up.
StartSession(h, d) ==
    /\ d \in devices
    /\ LookUp(h, [kind |-> "session", user |-> Null, exists |-> TRUE,
                  device |-> d, expires |-> now + TTL])

Live(S) == {a \in S : issued[a].expires > now}

\* Mutated: the youngest attempt makes room.
MutantYoungest(S) ==
    {a \in S : \A b \in S : issued[b].expires <= issued[a].expires}

\* Attempts that expire first.
Oldest(S) == {a \in S : \A b \in S : issued[a].expires <= issued[b].expires}

Full(S) == Cardinality(S) >= Capacity

\* Create, under the mutex: cleanup, then eviction, then insertion.
CreateAttempt(h, a) ==
    /\ pc[h] = "looked"
    /\ issued[a] = Null
    /\ issued' = [issued EXCEPT ![a] = looked[h]]
    /\ IF Full(Live(values))
       THEN \E o \in Oldest(Live(values)) :
              values' = (Live(values) \ {o}) \cup {a}
       ELSE values' = Live(values) \cup {a}
    /\ Idle(h)
    /\ UNCHANGED <<spent, dbVars, granted, now>>

----------------------------------------------------------------------------
(* The second request.                                                      *)

\* Mutated: the attempt stays in the store.
MutantStays(a) == values

Without(a) == values \ {a}

\* An attempt is consumed even if it is of the other kind or has expired;
\* only a live one of the right kind is taken on.
TakeAttempt(h, a, kind) ==
    /\ pc[h] = "idle"
    /\ a \in values
    /\ values' = Without(a)
    /\ spent' = spent \cup {a}
    /\ IF issued[a].kind = kind /\ issued[a].expires > now
       THEN /\ pc' = [pc EXCEPT ![h] = "taken"]
            /\ taken' = [taken EXCEPT ![h] = a]
       ELSE UNCHANGED <<pc, taken>>
    /\ UNCHANGED <<issued, dbVars, looked, granted, now>>

Grant(h) ==
    /\ granted' = [granted EXCEPT ![taken[h]] = @ + 1]
    /\ Idle(h)
    /\ UNCHANGED <<storeVars, now>>

\* Mutated: the name was looked up by the first request.
MutantNameFree(u) == TRUE

\* accounts.username is unique.
NameFree(u) == ~Registered(u)

\* Account, group, device and manifest head in one transaction.
CompleteRegistration(h) ==
    LET a == taken[h] IN
    /\ pc[h] = "taken"
    /\ issued[a].kind = "connection" /\ ~issued[a].exists
    /\ NameFree(issued[a].user)
    /\ accounts' = accounts \cup {<<issued[a].user, a>>}
    /\ devices' = devices \cup {a}
    /\ Grant(h)

CompleteLogin(h) ==
    LET a == taken[h] IN
    /\ pc[h] = "taken"
    /\ issued[a].kind = "connection" /\ issued[a].exists
    /\ Registered(issued[a].user)
    /\ devices' = devices \cup {a}
    /\ Grant(h)
    /\ UNCHANGED accounts

CompleteSession(h) ==
    LET a == taken[h] IN
    /\ pc[h] = "taken"
    /\ issued[a].kind = "session"
    /\ issued[a].device \in devices
    /\ Grant(h)
    /\ UNCHANGED dbVars

\* A bad proof, a name that has been taken in the meantime, a revoked device,
\* an identifier in use, a failing transaction.
Refuse(h) ==
    /\ pc[h] # "idle"
    /\ Idle(h)
    /\ UNCHANGED <<storeVars, dbVars, granted, now>>

----------------------------------------------------------------------------
(* The rest of the system.                                                  *)

RevokeDevice(d) ==
    /\ d \in devices
    /\ devices' = devices \ {d}
    /\ UNCHANGED <<storeVars, accounts, handlerVars, granted, now>>

\* The store and the requests are lost, the database stays.
Restart ==
    /\ spent' = spent \cup values
    /\ values' = {}
    /\ pc' = [h \in Handlers |-> "idle"]
    /\ looked' = [h \in Handlers |-> Null]
    /\ taken' = [h \in Handlers |-> Null]
    /\ UNCHANGED <<issued, dbVars, granted, now>>

Tick ==
    /\ now < MaxTime
    /\ \A h \in Handlers : pc[h] = "looked" =>
         now + TTL < looked[h].expires + MaxStall
    /\ now' = now + 1
    /\ UNCHANGED <<storeVars, dbVars, handlerVars, granted>>

Init ==
    /\ values = {} /\ spent = {}
    /\ issued = [a \in Attempts |-> Null]
    /\ accounts = {} /\ devices = {}
    /\ pc = [h \in Handlers |-> "idle"]
    /\ looked = [h \in Handlers |-> Null]
    /\ taken = [h \in Handlers |-> Null]
    /\ granted = [a \in Attempts |-> 0]
    /\ now = 0

HandlerStep(h) ==
    \/ \E u \in Users : Start(h, u)
    \/ \E d \in devices : StartSession(h, d)
    \/ \E a \in Attempts : CreateAttempt(h, a)
    \/ \E a \in Attempts, kind \in Kinds : TakeAttempt(h, a, kind)
    \/ CompleteRegistration(h) \/ CompleteLogin(h) \/ CompleteSession(h)
    \/ Refuse(h)

Next ==
    \/ \E h \in Handlers : HandlerStep(h)
    \/ \E d \in devices : RevokeDevice(d)
    \/ Restart \/ Tick

Spec == Init /\ [][Next]_vars

----------------------------------------------------------------------------
(* Properties.                                                              *)

\* An attempt lets a client in at most once, whatever is sent for it at the
\* same time ("a failed proof consumes it as well", ChallengeStore.Take).
GrantedOnce == \A a \in Attempts : granted[a] <= 1

\* Two clients that began to register the same free name do not both get it
\* (completeRegistration, ErrAccountBecameExisting).
OneAccountPerName ==
    \A x, y \in accounts : x[1] = y[1] => x = y

\* A pending attempt that has not expired is missing from the store only if
\* as many others as the store holds were made that are as young, but for
\* the time a request may wait for the mutex: nobody is pushed out by older
\* attempts, and not before the store is full (ChallengeStore.Create).
PushedOutByYounger ==
    \A a \in Attempts :
      issued[a] # Null /\ a \notin values \cup spent /\ issued[a].expires > now
        => Cardinality({b \in Attempts \ {a} :
                /\ issued[b] # Null
                /\ issued[b].expires + MaxStall >= issued[a].expires})
             >= Capacity

=============================================================================
