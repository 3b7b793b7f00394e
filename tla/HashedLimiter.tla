---------------------------- MODULE HashedLimiter ----------------------------
(***************************************************************************)
(* The sliding-window limiter in front of the connection, login and sync   *)
(* code routes.  A call reads the clock, then waits for the mutex; under   *)
(* the mutex it counts the hits of its key that are younger than the       *)
(* window, measured from the instant it read, and is admitted or refused.  *)
(* Calls reach the mutex in any order, so hits are neither appended nor    *)
(* pruned in the order of their instants.                                  *)
(***************************************************************************)
EXTENDS Naturals, FiniteSets

CONSTANTS
    Keys,        \* hashed client addresses, usernames and device ids
    Calls,       \* calls of Allow
    Limit,       \* max
    Capacity,    \* keys the map may hold
    Window,
    MaxStall,    \* how long a call may wait for the mutex
    MaxTime      \* bound: last instant of the clock

\* NewHashedLimiter replaces a maximum or a window that is not positive.
ASSUME LimitAssumption ==
    /\ Limit \in Nat \ {0} /\ Capacity \in Nat \ {0}
    /\ Window \in Nat \ {0}
ASSUME StallAssumption == MaxStall \in Nat
ASSUME BoundAssumption == MaxTime \in Nat
ASSUME FiniteAssumption == IsFiniteSet(Calls) /\ IsFiniteSet(Keys)

VARIABLES
    hits,        \* per key, the calls whose instants the map holds
    pc, key,     \* where a call is, and its key
    stamp,       \* the instant it read
    at,          \* the instant it was admitted
    now

vars == <<hits, pc, key, stamp, at, now>>

TypeOK ==
    /\ hits \in [Keys -> SUBSET Calls]
    /\ pc \in [Calls -> {"new", "waiting", "admitted", "refused"}]
    /\ key \in [Calls -> Keys]
    /\ stamp \in [Calls -> Nat]
    /\ at \in [Calls -> Nat]
    /\ now \in Nat

\* The hits of k that are after the cutoff of call c.
Fresh(c, k) == {d \in hits[k] : stamp[d] + Window > stamp[c]}

\* Mutated: off by one.
MutantUsedUp(c) == Cardinality(Fresh(c, key[c])) > Limit

UsedUp(c) == Cardinality(Fresh(c, key[c])) >= Limit

Known == {k \in Keys : hits[k] # {}}

\* now := l.now()
ReadClock(c) ==
    /\ pc[c] = "new"
    /\ pc' = [pc EXCEPT ![c] = "waiting"]
    /\ stamp' = [stamp EXCEPT ![c] = now]
    /\ UNCHANGED <<hits, key, at, now>>

\* The key has used up its limit; what has expired is dropped.
RefuseKey(c) ==
    /\ pc[c] = "waiting"
    /\ UsedUp(c)
    /\ pc' = [pc EXCEPT ![c] = "refused"]
    /\ hits' = [hits EXCEPT ![key[c]] = Fresh(c, key[c])]
    /\ UNCHANGED <<key, stamp, at, now>>

Admit(c) ==
    /\ pc' = [pc EXCEPT ![c] = "admitted"]
    /\ at' = [at EXCEPT ![c] = now]
    /\ UNCHANGED <<key, stamp, now>>

\* A key that is in the map stays there.
AdmitKnown(c) ==
    /\ pc[c] = "waiting"
    /\ Fresh(c, key[c]) # {}
    /\ ~UsedUp(c)
    /\ hits' = [hits EXCEPT ![key[c]] = Fresh(c, key[c]) \cup {c}]
    /\ Admit(c)

\* Mutated: the map is taken to have room after cleaning up.
MutantRoom(c) == TRUE

\* cleanupLocked: all keys whose hits have expired leave the map.
Live(c) == {k \in Keys \ {key[c]} : Fresh(c, k) # {}}
HasRoom(c) == Cardinality(Live(c)) < Capacity
Crowded(c) == Cardinality(Known \ {key[c]}) >= Capacity
CleanedUp(c) ==
    IF Crowded(c) THEN [k \in Keys |-> Fresh(c, k)] ELSE hits

\* A key without live hits enters the map, after a cleanup if it is full.
AdmitNew(c) ==
    /\ pc[c] = "waiting"
    /\ ~UsedUp(c) /\ Fresh(c, key[c]) = {}
    /\ Crowded(c) => HasRoom(c)
    /\ hits' = [CleanedUp(c) EXCEPT ![key[c]] = {c}]
    /\ Admit(c)

\* Even after the cleanup there is no room for another key.
RefuseNew(c) ==
    /\ pc[c] = "waiting"
    /\ ~UsedUp(c) /\ Fresh(c, key[c]) = {}
    /\ Crowded(c) /\ ~HasRoom(c)
    /\ pc' = [pc EXCEPT ![c] = "refused"]
    /\ hits' = [CleanedUp(c) EXCEPT ![key[c]] = {}]
    /\ UNCHANGED <<key, stamp, at, now>>

Allow(c) == RefuseKey(c) \/ AdmitKnown(c) \/ AdmitNew(c) \/ RefuseNew(c)

Tick ==
    /\ now < MaxTime
    /\ \A c \in Calls : pc[c] = "waiting" => now < stamp[c] + MaxStall
    /\ now' = now + 1
    /\ UNCHANGED <<hits, pc, key, stamp, at>>

Init ==
    /\ hits = [k \in Keys |-> {}]
    /\ pc = [c \in Calls |-> "new"]
    /\ key \in [Calls -> Keys]
    /\ stamp = [c \in Calls |-> 0]
    /\ at = [c \in Calls |-> 0]
    /\ now = 0

Next == (\E c \in Calls : ReadClock(c) \/ Allow(c)) \/ Tick

Spec == Init /\ [][Next]_vars

----------------------------------------------------------------------------
(* Properties.                                                              *)

\* The calls of k admitted in the last Window - MaxStall instants.
Recent(k) ==
    {c \in Calls : /\ pc[c] = "admitted" /\ key[c] = k
                   /\ at[c] + Window > now + MaxStall}

\* In no period of a window, less the time a call may wait for the mutex,
\* more calls of a key are admitted than its limit (HashedLimiter.Allow).
LimitHolds == \A k \in Keys : Cardinality(Recent(k)) <= Limit

\* The map never holds more keys than its capacity, so that callers with
\* ever new keys cannot make it grow (HashedLimiter.Allow, cleanupLocked).
CapacityHolds == Cardinality(Known) <= Capacity

\* Why the limit holds: an admitted call is counted until its window has
\* passed on the clock, whoever prunes its key.
AdmittedIsCounted ==
    \A c \in Calls : pc[c] = "admitted" =>
        /\ c \in hits[key[c]] \/ stamp[c] + Window <= now
        /\ at[c] <= stamp[c] + MaxStall

=============================================================================
