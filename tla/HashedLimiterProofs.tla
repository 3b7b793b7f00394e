------------------------- MODULE HashedLimiterProofs -------------------------
(***************************************************************************)
(* The limit and the capacity of the limiter, for all parameters and any   *)
(* order in which calls reach the mutex.                                   *)
(***************************************************************************)
EXTENDS HashedLimiter, FiniteSetTheorems, TLAPS

\* A waiting call is at most MaxStall behind the clock.
WaitingIsRecent ==
    \A c \in Calls : pc[c] = "waiting" =>
        stamp[c] <= now /\ now <= stamp[c] + MaxStall

LimiterInv ==
    /\ TypeOK
    /\ WaitingIsRecent
    /\ AdmittedIsCounted
    /\ LimitHolds
    /\ CapacityHolds

(* Facts on finite sets that several steps use.                             *)

LEMMA CallSets ==
    ASSUME NEW S \in SUBSET Calls
    PROVE  IsFiniteSet(S) /\ Cardinality(S) \in Nat
BY FiniteAssumption, FS_Subset, FS_CardinalityType

LEMMA KeySets ==
    ASSUME NEW S \in SUBSET Keys
    PROVE  IsFiniteSet(S) /\ Cardinality(S) \in Nat
BY FiniteAssumption, FS_Subset, FS_CardinalityType

LEMMA SubsetBound ==
    ASSUME NEW T, IsFiniteSet(T), NEW S \in SUBSET T, NEW b \in Nat,
           Cardinality(T) <= b
    PROVE  Cardinality(S) <= b
BY FS_Subset, FS_CardinalityType

LEMMA OneMore ==
    ASSUME NEW T, IsFiniteSet(T), NEW x, NEW b \in Nat, Cardinality(T) < b
    PROVE  IsFiniteSet(T \cup {x}) /\ Cardinality(T \cup {x}) <= b
<1>1. /\ IsFiniteSet(T \cup {x})
      /\ \/ Cardinality(T \cup {x}) = Cardinality(T)
         \/ Cardinality(T \cup {x}) = Cardinality(T) + 1
  BY FS_AddElement, Zenon
<1>2. Cardinality(T) \in Nat
  BY FS_CardinalityType
<1> QED BY <1>1, <1>2

----------------------------------------------------------------------------
(* Types and clocks.                                                        *)

LEMMA FreshType ==
    ASSUME TypeOK, NEW c, NEW k \in Keys
    PROVE  Fresh(c, k) \subseteq hits[k] /\ Fresh(c, k) \in SUBSET Calls
BY DEF TypeOK, Fresh

LEMMA LimiterTypeNext == TypeOK /\ [Next]_vars => TypeOK'
<1> SUFFICES ASSUME TypeOK, [Next]_vars PROVE TypeOK'
  OBVIOUS
<1>1. ASSUME NEW c \in Calls, ReadClock(c) PROVE TypeOK'
  BY <1>1 DEF TypeOK, ReadClock
<1>2. ASSUME NEW c \in Calls, Allow(c) PROVE TypeOK'
  <2>1. hits' \in [Keys -> SUBSET Calls]
    <3>1. CleanedUp(c) \in [Keys -> SUBSET Calls]
      BY FreshType DEF TypeOK, CleanedUp
    <3>2. key[c] \in Keys
      BY DEF TypeOK
    <3> QED
      BY <1>2, <3>1, <3>2, FreshType
         DEF TypeOK, Allow, RefuseKey, AdmitKnown, AdmitNew, RefuseNew
  <2> QED
    BY <1>2, <2>1 DEF TypeOK, Allow, RefuseKey, AdmitKnown, AdmitNew,
                      RefuseNew, Admit
<1>3. CASE Tick
  BY <1>3 DEF TypeOK, Tick
<1>4. CASE UNCHANGED vars
  BY <1>4 DEF TypeOK, vars
<1> QED BY <1>1, <1>2, <1>3, <1>4 DEF Next

LEMMA WaitingNext ==
    TypeOK /\ WaitingIsRecent /\ [Next]_vars => WaitingIsRecent'
<1> SUFFICES ASSUME TypeOK, WaitingIsRecent, [Next]_vars
             PROVE  WaitingIsRecent'
  OBVIOUS
<1> USE StallAssumption DEF TypeOK, WaitingIsRecent
<1>1. ASSUME NEW c \in Calls, ReadClock(c) PROVE WaitingIsRecent'
  BY <1>1 DEF ReadClock
<1>2. ASSUME NEW c \in Calls, Allow(c) PROVE WaitingIsRecent'
  BY <1>2 DEF Allow, RefuseKey, AdmitKnown, AdmitNew, RefuseNew, Admit
<1>3. CASE Tick
  BY <1>3 DEF Tick
<1>4. CASE UNCHANGED vars
  BY <1>4 DEF vars
<1> QED BY <1>1, <1>2, <1>3, <1>4 DEF Next

----------------------------------------------------------------------------
(* What a call under the mutex does to the hits.                            *)

\* It drops only what has left the window of the clock.
LEMMA OnlyExpiredDropped ==
    ASSUME TypeOK, WaitingIsRecent, NEW c \in Calls, Allow(c),
           NEW k \in Keys, NEW d \in hits[k], d \notin hits'[k]
    PROVE  stamp[d] + Window <= now
<1>1. pc[c] = "waiting" /\ stamp[c] \in Nat /\ stamp[c] <= now /\ now \in Nat
  BY DEF TypeOK, WaitingIsRecent, Allow, RefuseKey, AdmitKnown, AdmitNew,
         RefuseNew
<1>2. d \in Calls /\ stamp[d] \in Nat /\ key[c] \in Keys
  BY DEF TypeOK
<1>3. d \notin Fresh(c, k)
  <2>1. Fresh(c, k) \subseteq hits'[k]
    <3>1. CASE RefuseKey(c) \/ AdmitKnown(c)
      BY <3>1 DEF TypeOK, RefuseKey, AdmitKnown, Fresh
    <3>2. CASE AdmitNew(c) \/ RefuseNew(c)
      <4>1. CASE k = key[c]
        BY <3>2, <4>1 DEF AdmitNew, RefuseNew
      <4>2. CASE k # key[c]
        <5>1. hits'[k] = CleanedUp(c)[k]
          BY <3>2, <4>2, <1>2 DEF TypeOK, AdmitNew, RefuseNew, CleanedUp
        <5> QED BY <5>1, FreshType DEF CleanedUp
      <4> QED BY <4>1, <4>2
    <3> QED BY <3>1, <3>2 DEF Allow
  <2> QED BY <2>1
<1> QED BY <1>1, <1>2, <1>3, LimitAssumption DEF Fresh

LEMMA CountedNext ==
    TypeOK /\ WaitingIsRecent /\ AdmittedIsCounted /\ [Next]_vars
        => AdmittedIsCounted'
<1> SUFFICES ASSUME TypeOK, WaitingIsRecent, AdmittedIsCounted, [Next]_vars
             PROVE  AdmittedIsCounted'
  OBVIOUS
<1> USE StallAssumption, LimitAssumption DEF AdmittedIsCounted
<1>1. ASSUME NEW c \in Calls, ReadClock(c) PROVE AdmittedIsCounted'
  BY <1>1 DEF TypeOK, ReadClock
<1>2. ASSUME NEW c \in Calls, Allow(c) PROVE AdmittedIsCounted'
  <2> SUFFICES ASSUME NEW d \in Calls, pc'[d] = "admitted"
               PROVE  /\ d \in hits'[key'[d]] \/ stamp'[d] + Window <= now'
                      /\ at'[d] <= stamp'[d] + MaxStall
    OBVIOUS
  <2>1. UNCHANGED <<key, stamp, now>>
    BY <1>2 DEF Allow, RefuseKey, AdmitKnown, AdmitNew, RefuseNew, Admit
  <2>2. CASE d # c
    <3>1. pc[d] = "admitted" /\ at'[d] = at[d]
      BY <1>2, <2>2 DEF TypeOK, Allow, RefuseKey, AdmitKnown, AdmitNew,
                        RefuseNew, Admit
    <3> QED BY <1>2, <2>1, <3>1, OnlyExpiredDropped DEF TypeOK
  <2>3. CASE d = c
    <3>1. AdmitKnown(c) \/ AdmitNew(c)
      BY <1>2, <2>3 DEF TypeOK, Allow, RefuseKey, RefuseNew
    <3>2. c \in hits'[key[c]]
      BY <3>1 DEF TypeOK, AdmitKnown, AdmitNew, CleanedUp
    <3>3. at'[c] = now /\ pc[c] = "waiting"
      BY <3>1 DEF TypeOK, AdmitKnown, AdmitNew, Admit
    <3> QED BY <2>1, <2>3, <3>2, <3>3 DEF WaitingIsRecent
  <2> QED BY <2>2, <2>3
<1>3. CASE Tick
  BY <1>3 DEF TypeOK, Tick
<1>4. CASE UNCHANGED vars
  BY <1>4 DEF vars
<1> QED BY <1>1, <1>2, <1>3, <1>4 DEF Next

----------------------------------------------------------------------------
(* The limit.                                                               *)

\* Whatever was admitted recently is among the hits the next call counts.
LEMMA RecentIsFresh ==
    ASSUME TypeOK, WaitingIsRecent, AdmittedIsCounted, NEW c \in Calls,
           pc[c] = "waiting"
    PROVE  Recent(key[c]) \subseteq Fresh(c, key[c])
<1> SUFFICES ASSUME NEW d \in Recent(key[c])
             PROVE  d \in Fresh(c, key[c])
  OBVIOUS
<1>1. /\ d \in Calls /\ at[d] \in Nat /\ stamp[d] \in Nat /\ now \in Nat
      /\ stamp[c] \in Nat /\ stamp[c] <= now
  BY DEF TypeOK, Recent, WaitingIsRecent
<1>2. at[d] <= stamp[d] + MaxStall /\ at[d] + Window > now + MaxStall
  BY DEF Recent, AdmittedIsCounted
<1>3. stamp[d] + Window > now
  BY <1>1, <1>2, LimitAssumption, StallAssumption
<1>4. d \in hits[key[c]]
  BY <1>1, <1>3, LimitAssumption DEF Recent, AdmittedIsCounted
<1> QED BY <1>1, <1>3, <1>4, LimitAssumption DEF Fresh

LEMMA LimitNext == LimiterInv /\ [Next]_vars => LimitHolds'
<1> SUFFICES ASSUME LimiterInv, [Next]_vars, NEW k \in Keys
             PROVE  Cardinality(Recent(k)') <= Limit
  BY DEF LimitHolds
<1> USE DEF LimiterInv
<1>0. /\ Recent(k) \in SUBSET Calls /\ IsFiniteSet(Recent(k))
      /\ Cardinality(Recent(k)) <= Limit /\ Limit \in Nat
  BY CallSets, LimitAssumption DEF Recent, LimitHolds
<1>1. ASSUME Recent(k)' \subseteq Recent(k)
      PROVE  Cardinality(Recent(k)') <= Limit
  BY <1>0, <1>1, SubsetBound
<1>2. ASSUME NEW c \in Calls, ReadClock(c)
      PROVE  Recent(k)' \subseteq Recent(k)
  BY <1>2 DEF TypeOK, ReadClock, Recent
<1>3. ASSUME NEW c \in Calls, RefuseKey(c) \/ RefuseNew(c)
      PROVE  Recent(k)' \subseteq Recent(k)
  BY <1>3 DEF TypeOK, RefuseKey, RefuseNew, Recent
<1>4. ASSUME NEW c \in Calls, AdmitKnown(c) \/ AdmitNew(c)
      PROVE  Cardinality(Recent(k)') <= Limit
  <2>1. Recent(k)' \subseteq Recent(k) \cup {c}
    BY <1>4 DEF TypeOK, AdmitKnown, AdmitNew, Admit, Recent
  <2>2. CASE k # key[c]
    <3>1. Recent(k)' \subseteq Recent(k)
      BY <1>4, <2>2 DEF TypeOK, AdmitKnown, AdmitNew, Admit, Recent
    <3> QED BY <1>1, <3>1
  <2>3. CASE k = key[c]
    <3> DEFINE F == Fresh(c, k)
    <3>1. pc[c] = "waiting"
      BY <1>4 DEF AdmitKnown, AdmitNew
    <3>2. Recent(k) \subseteq F
      BY <2>3, <3>1, RecentIsFresh
    <3>3. IsFiniteSet(F) /\ Cardinality(F) \in Nat
      BY FreshType, CallSets
    <3>4. Cardinality(F) < Limit
      BY <1>4, <2>3, <3>3, FS_EmptySet, LimitAssumption
         DEF AdmitKnown, AdmitNew, UsedUp
    <3>5. IsFiniteSet(F \cup {c}) /\ Cardinality(F \cup {c}) <= Limit
      BY <1>0, <3>3, <3>4, OneMore
    <3>6. Recent(k)' \in SUBSET (F \cup {c})
      BY <2>1, <3>2
    <3> HIDE DEF F
    <3> QED BY <1>0, <3>5, <3>6, SubsetBound
  <2> QED BY <2>2, <2>3
<1>5. CASE Tick
  <2>1. Recent(k)' \subseteq Recent(k)
    BY <1>5, LimitAssumption, StallAssumption DEF TypeOK, Tick, Recent
  <2> QED BY <1>1, <2>1
<1>6. CASE UNCHANGED vars
  BY <1>0, <1>6 DEF vars, Recent
<1> QED BY <1>1, <1>2, <1>3, <1>4, <1>5, <1>6 DEF Next, Allow

----------------------------------------------------------------------------
(* The capacity.                                                            *)

LEMMA CapacityNext == TypeOK /\ CapacityHolds /\ [Next]_vars => CapacityHolds'
<1> SUFFICES ASSUME TypeOK, CapacityHolds, [Next]_vars
             PROVE  Cardinality(Known') <= Capacity
  BY DEF CapacityHolds
<1>0. /\ Known \in SUBSET Keys /\ IsFiniteSet(Known)
      /\ Cardinality(Known) <= Capacity /\ Capacity \in Nat
  BY KeySets, LimitAssumption DEF Known, CapacityHolds
<1>1. ASSUME Known' \subseteq Known PROVE Cardinality(Known') <= Capacity
  BY <1>0, <1>1, SubsetBound
<1>2. ASSUME UNCHANGED hits PROVE Known' \subseteq Known
  BY <1>2 DEF Known
<1>3. ASSUME NEW c \in Calls, RefuseKey(c) \/ AdmitKnown(c)
      PROVE  Known' \subseteq Known
  <2>1. /\ key[c] \in Keys /\ hits[key[c]] # {}
        /\ \A k \in Keys \ {key[c]} : hits'[k] = hits[k]
    <3>1. Fresh(c, key[c]) # {}
      BY <1>3, FS_EmptySet, LimitAssumption
         DEF RefuseKey, AdmitKnown, UsedUp
    <3> QED BY <1>3, <3>1 DEF TypeOK, RefuseKey, AdmitKnown, Fresh
  <2> QED BY <2>1 DEF Known
<1>4. ASSUME NEW c \in Calls, AdmitNew(c)
      PROVE  Cardinality(Known') <= Capacity
  <2> DEFINE O == IF Crowded(c) THEN Live(c) ELSE Known \ {key[c]}
  <2>1. O \in SUBSET Keys
    BY DEF Live, Known
  <2>2. IsFiniteSet(O) /\ Cardinality(O) \in Nat
    BY <2>1, KeySets
  <2>3. Cardinality(O) < Capacity
    BY <1>0, <2>2, <1>4 DEF AdmitNew, HasRoom, Crowded
  <2>4. Known' \in SUBSET (O \cup {key[c]})
    BY <1>4 DEF TypeOK, AdmitNew, CleanedUp, Known, Live
  <2> HIDE DEF O
  <2>5. IsFiniteSet(O \cup {key[c]}) /\ Cardinality(O \cup {key[c]}) <= Capacity
    BY <1>0, <2>2, <2>3, OneMore
  <2> QED BY <1>0, <2>4, <2>5, SubsetBound
<1>5. ASSUME NEW c \in Calls, RefuseNew(c) PROVE Known' \subseteq Known
  BY <1>5 DEF TypeOK, RefuseNew, CleanedUp, Known, Fresh
<1> QED
  BY <1>1, <1>2, <1>3, <1>4, <1>5
     DEF Next, Allow, ReadClock, Tick, vars

----------------------------------------------------------------------------

LEMMA LimiterInvHolds == Spec => []LimiterInv
<1>1. Init => LimiterInv
  <2> SUFFICES ASSUME Init PROVE LimiterInv
    OBVIOUS
  <2>1. Known = {} /\ \A k \in Keys : Recent(k) = {}
    BY DEF Init, Known, Recent
  <2>2. LimitHolds /\ CapacityHolds
    BY <2>1, FS_EmptySet, LimitAssumption DEF LimitHolds, CapacityHolds
  <2> QED
    BY <2>2 DEF Init, LimiterInv, TypeOK, WaitingIsRecent, AdmittedIsCounted
<1>2. LimiterInv /\ [Next]_vars => LimiterInv'
  BY LimiterTypeNext, WaitingNext, CountedNext, LimitNext, CapacityNext
     DEF LimiterInv
<1> QED BY <1>1, <1>2, PTL DEF Spec

\* In no period of a window, less the longest wait for the mutex, more calls
\* of a key are admitted than its limit (HashedLimiter.Allow).
THEOREM LimitAlwaysHolds == Spec => []LimitHolds
BY LimiterInvHolds, PTL DEF LimiterInv

\* The map of the limiter never outgrows its capacity (cleanupLocked).
THEOREM CapacityAlwaysHolds == Spec => []CapacityHolds
BY LimiterInvHolds, PTL DEF LimiterInv

=============================================================================
