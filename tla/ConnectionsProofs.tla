-------------------------- MODULE ConnectionsProofs --------------------------
(***************************************************************************)
(* For any number of clients and any capacity of the store, an attempt is  *)
(* granted at most once, a name is registered at most once, and a pending  *)
(* attempt is pushed out of the store only by as many younger ones.        *)
(***************************************************************************)
EXTENDS Connections, FiniteSetTheorems, TLAPS

\* An attempt is in one place: in the store, with one handler, or used up.
OnePlace ==
    /\ \A a \in values : a \notin spent
    /\ \A h \in Handlers : pc[h] = "looked" => looked[h] \in Seed
    /\ \A h \in Handlers : pc[h] = "taken" =>
         /\ taken[h] \in spent /\ granted[taken[h]] = 0
         /\ issued[taken[h]] \in Seed
    /\ \A h, i \in Handlers :
         pc[h] = "taken" /\ pc[i] = "taken" /\ taken[h] = taken[i] => h = i
    /\ \A a \in Attempts : granted[a] > 0 => a \in spent
    /\ \A a \in spent : issued[a] # Null

ConnInv == TypeOK /\ OnePlace /\ GrantedOnce /\ OneAccountPerName

LEMMA ConnInvInit == Init => ConnInv
BY DEF Init, ConnInv, TypeOK, OnePlace, GrantedOnce, OneAccountPerName

LEMMA LookUpKeeps ==
    ASSUME ConnInv, NEW h \in Handlers, NEW seed \in Seed, LookUp(h, seed)
    PROVE  ConnInv'
BY DEF LookUp, storeVars, dbVars, ConnInv, TypeOK, OnePlace, GrantedOnce,
       OneAccountPerName

LEMMA CreateKeeps ==
    ASSUME ConnInv, NEW h \in Handlers, NEW a \in Attempts,
           CreateAttempt(h, a)
    PROVE  ConnInv'
<1> USE DEF ConnInv
<1>1. /\ values' \subseteq values \cup {a} /\ issued[a] = Null
      /\ issued' = [issued EXCEPT ![a] = looked[h]] /\ looked[h] \in Seed
  BY DEF CreateAttempt, Live, Full, Oldest, TypeOK, OnePlace
<1>2. /\ UNCHANGED <<spent, accounts, devices, granted, now>>
      /\ pc' = [pc EXCEPT ![h] = "idle"]
      /\ looked' = [looked EXCEPT ![h] = Null]
      /\ taken' = [taken EXCEPT ![h] = Null]
  BY DEF CreateAttempt, Idle, dbVars
<1>3. a \notin spent
  BY <1>1 DEF OnePlace
<1>4. issued'[a] # Null
  BY <1>1, NullAssumption DEF TypeOK
<1>5. TypeOK'
  BY <1>1, <1>2, <1>4 DEF TypeOK
<1>6. OnePlace'
  BY <1>1, <1>2, <1>3, <1>4 DEF TypeOK, OnePlace
<1> QED BY <1>2, <1>5, <1>6 DEF GrantedOnce, OneAccountPerName

LEMMA TakeKeeps ==
    ASSUME ConnInv, NEW h \in Handlers, NEW a \in Attempts,
           NEW kind \in Kinds, TakeAttempt(h, a, kind)
    PROVE  ConnInv'
<1> USE DEF ConnInv
<1>1. /\ a \in values /\ a \notin spent /\ issued[a] \in Seed
      /\ granted[a] = 0
  BY DEF TakeAttempt, TypeOK, OnePlace
<1>2. TypeOK'
  BY <1>1 DEF TakeAttempt, TypeOK, Without, dbVars
<1>3. OnePlace'
  BY <1>1 DEF TakeAttempt, TypeOK, OnePlace, Without, dbVars
<1> QED BY <1>2, <1>3
        DEF TakeAttempt, dbVars, GrantedOnce, OneAccountPerName

LEMMA GrantKeeps ==
    ASSUME ConnInv, NEW h \in Handlers, pc[h] = "taken", Grant(h),
           devices' \subseteq devices \cup {taken[h]}
    PROVE  /\ OnePlace' /\ GrantedOnce'
           /\ (accounts' \subseteq Users \X Attempts => TypeOK')
<1> USE DEF ConnInv
<1>1. /\ taken[h] \in spent /\ taken[h] \in Attempts
      /\ granted[taken[h]] = 0
  BY DEF OnePlace, TypeOK
<1>2. /\ UNCHANGED <<values, issued, spent, now>>
      /\ pc' = [pc EXCEPT ![h] = "idle"]
      /\ looked' = [looked EXCEPT ![h] = Null]
      /\ taken' = [taken EXCEPT ![h] = Null]
      /\ granted' = [granted EXCEPT ![taken[h]] = 1]
  BY <1>1 DEF Grant, Idle, storeVars, TypeOK
<1>3. OnePlace'
  BY <1>1, <1>2 DEF OnePlace, TypeOK
<1>4. GrantedOnce'
  BY <1>1, <1>2 DEF GrantedOnce, TypeOK
<1>5. accounts' \subseteq Users \X Attempts => TypeOK'
  BY <1>1, <1>2 DEF TypeOK
<1> QED BY <1>3, <1>4, <1>5

LEMMA RegistrationKeeps ==
    ASSUME ConnInv, NEW h \in Handlers, CompleteRegistration(h)
    PROVE  ConnInv'
<1> DEFINE a == taken[h]
           u == issued[a].user
<1>1. /\ pc[h] = "taken" /\ Grant(h) /\ ~Registered(u)
      /\ accounts' = accounts \cup {<<u, a>>}
      /\ devices' = devices \cup {a}
      /\ issued[a].kind = "connection"
  BY DEF CompleteRegistration, NameFree
<1>2. a \in Attempts /\ u \in Users
  BY <1>1 DEF ConnInv, OnePlace, TypeOK, Seed, ConnectionSeed, SessionSeed
<1>3. accounts' \subseteq Users \X Attempts
  BY <1>1, <1>2 DEF ConnInv, TypeOK
<1>4. OneAccountPerName'
  BY <1>1 DEF ConnInv, OneAccountPerName, Registered
<1> QED BY <1>1, <1>3, <1>4, GrantKeeps DEF ConnInv

LEMMA LoginKeeps ==
    ASSUME ConnInv, NEW h \in Handlers, CompleteLogin(h) \/ CompleteSession(h)
    PROVE  ConnInv'
<1>1. /\ pc[h] = "taken" /\ Grant(h) /\ UNCHANGED accounts
      /\ devices' \subseteq devices \cup {taken[h]}
  BY DEF CompleteLogin, CompleteSession, dbVars
<1>2. OneAccountPerName' /\ accounts' \subseteq Users \X Attempts
  BY <1>1 DEF ConnInv, TypeOK, OneAccountPerName
<1> QED BY <1>1, <1>2, GrantKeeps DEF ConnInv

LEMMA ConnInvNext == ConnInv /\ [Next]_vars => ConnInv'
<1> SUFFICES ASSUME ConnInv, [Next]_vars PROVE ConnInv'
  OBVIOUS
<1>1. ASSUME NEW h \in Handlers, NEW u \in Users, Start(h, u)
      PROVE  ConnInv'
  <2> DEFINE seed == [kind |-> "connection", user |-> u,
                      exists |-> Registered(u), device |-> Null,
                      expires |-> now + TTL]
  <2>1. Registered(u) \in BOOLEAN
    BY DEF Registered
  <2>2. now + TTL \in Nat
    BY StoreAssumption DEF ConnInv, TypeOK
  <2>3. seed \in Seed
    BY <2>1, <2>2 DEF Seed, ConnectionSeed
  <2> QED BY <1>1, <2>3, LookUpKeeps DEF Start
<1>2. ASSUME NEW h \in Handlers, NEW d \in devices, StartSession(h, d)
      PROVE  ConnInv'
  <2> DEFINE seed == [kind |-> "session", user |-> Null, exists |-> TRUE,
                      device |-> d, expires |-> now + TTL]
  <2>1. now + TTL \in Nat /\ d \in Attempts
    BY StoreAssumption DEF ConnInv, TypeOK
  <2>2. seed \in Seed
    BY <2>1 DEF Seed, SessionSeed
  <2> QED BY <1>2, <2>2, LookUpKeeps DEF StartSession
<1>3. ASSUME NEW h \in Handlers, Refuse(h) PROVE ConnInv'
  BY <1>3 DEF Refuse, Idle, storeVars, dbVars, ConnInv, TypeOK, OnePlace,
              GrantedOnce, OneAccountPerName
<1>4. ASSUME NEW d \in devices, RevokeDevice(d) PROVE ConnInv'
  BY <1>4 DEF RevokeDevice, storeVars, handlerVars, ConnInv, TypeOK,
              OnePlace, GrantedOnce, OneAccountPerName
<1>5. CASE Restart
  BY <1>5 DEF Restart, dbVars, ConnInv, TypeOK, OnePlace, GrantedOnce,
              OneAccountPerName
<1>6. CASE Tick
  BY <1>6 DEF Tick, storeVars, dbVars, handlerVars, ConnInv, TypeOK,
              OnePlace, GrantedOnce, OneAccountPerName
<1>7. CASE UNCHANGED vars
  BY <1>7 DEF vars, storeVars, dbVars, handlerVars, ConnInv, TypeOK,
              OnePlace, GrantedOnce, OneAccountPerName
<1> QED BY <1>1, <1>2, <1>3, <1>4, <1>5, <1>6, <1>7, CreateKeeps, TakeKeeps,
           RegistrationKeeps, LoginKeeps
        DEF Next, HandlerStep

LEMMA ConnInvHolds == Spec => []ConnInv
BY ConnInvInit, ConnInvNext, PTL DEF Spec

\* An attempt is granted at most once: one registration, one login or one
\* renewed session (ChallengeStore.Take).
THEOREM NeverGrantedTwice == Spec => []GrantedOnce
BY ConnInvHolds, PTL DEF ConnInv

\* A name has at most one account, however many clients register it at once
\* (completeRegistration).
THEOREM NamesStayUnique == Spec => []OneAccountPerName
BY ConnInvHolds, PTL DEF ConnInv

----------------------------------------------------------------------------
(* Who is pushed out of the store.  Expiries are handed out in the order of *)
(* the clock, and a request carries its own no longer than MaxStall: what   *)
(* is added is no older than what makes room for it, but for that time.     *)

\* The attempts that may be said to be as young as a.
Rivals(a) ==
    {b \in Attempts \ {a} : /\ issued[b] # Null
                            /\ issued[b].expires + MaxStall
                                 >= issued[a].expires}

Timely ==
    /\ \A a \in Attempts : issued[a] # Null => issued[a].expires <= now + TTL
    /\ \A h \in Handlers : pc[h] = "looked" =>
         /\ looked[h].expires <= now + TTL
         /\ now + TTL <= looked[h].expires + MaxStall

PushInv == ConnInv /\ Timely /\ PushedOutByYounger

LEMMA PushInvInit == Init => PushInv
<1> SUFFICES ASSUME Init PROVE PushInv
  OBVIOUS
<1>1. Timely /\ PushedOutByYounger
  BY DEF Init, Timely, PushedOutByYounger
<1> QED BY <1>1, ConnInvInit DEF PushInv

LEMMA SeedExpiry ==
    \A seed \in Seed : seed.expires \in Nat
BY DEF Seed, ConnectionSeed, SessionSeed

\* A lookup takes the present time, and the clock waits for stalled requests.
LEMMA TimelyNext ==
    ASSUME ConnInv, Timely, [Next]_vars PROVE Timely'
<1> USE DEF Timely
<1>1. /\ \A a \in Attempts : issued[a] # Null => issued[a].expires \in Nat
      /\ issued \in [Attempts -> Seed \cup {Null}]
      /\ pc \in [Handlers -> {"idle", "looked", "taken"}]
      /\ looked \in [Handlers -> Seed \cup {Null}]
      /\ \A h \in Handlers : pc[h] = "looked" => /\ looked[h] \in Seed
                                                 /\ looked[h].expires \in Nat
      /\ now \in Nat /\ TTL \in Nat /\ MaxStall \in Nat
  BY SeedExpiry, StoreAssumption DEF ConnInv, TypeOK, OnePlace
<1>2. ASSUME NEW h \in Handlers, NEW seed, seed.expires = now + TTL,
             LookUp(h, seed)
      PROVE  Timely'
  BY <1>1, <1>2 DEF LookUp, storeVars
<1>3. ASSUME NEW h \in Handlers, NEW a \in Attempts, CreateAttempt(h, a)
      PROVE  Timely'
  BY <1>1, <1>3 DEF CreateAttempt, Idle
<1>4. ASSUME UNCHANGED <<issued, now>>,
             \A h \in Handlers :
               pc'[h] = "looked" => pc[h] = "looked" /\ looked'[h] = looked[h]
      PROVE  Timely'
  BY <1>4
<1>5. CASE Tick
  BY <1>1, <1>5 DEF Tick, storeVars, handlerVars
<1>6. ASSUME NEW h \in Handlers, HandlerStep(h) PROVE Timely'
  <2>1. CASE \/ \E u \in Users : Start(h, u)
             \/ \E d \in devices : StartSession(h, d)
    BY <1>2, <2>1 DEF Start, StartSession
  <2>2. CASE \/ CompleteRegistration(h) \/ CompleteLogin(h)
             \/ CompleteSession(h) \/ Refuse(h)
             \/ \E a \in Attempts, kind \in Kinds : TakeAttempt(h, a, kind)
    BY <1>1, <1>4, <2>2
       DEF CompleteRegistration, CompleteLogin, CompleteSession, Refuse,
           TakeAttempt, Grant, Idle, storeVars
  <2> QED BY <1>3, <1>6, <2>1, <2>2 DEF HandlerStep
<1>7. CASE \/ Restart \/ UNCHANGED vars
           \/ \E d \in devices : RevokeDevice(d)
  BY <1>1, <1>4, <1>7 DEF Restart, RevokeDevice, vars, storeVars, handlerVars
<1> QED BY <1>5, <1>6, <1>7 DEF Next

\* Attempts stay issued, so what is as young as another stays so.
LEMMA RivalsStay ==
    ASSUME NEW a \in Attempts,
           \A b \in Attempts : issued[b] # Null => issued'[b] = issued[b],
           issued[a] # Null
    PROVE  /\ Rivals(a) \subseteq Rivals(a)'
           /\ IsFiniteSet(Rivals(a)')
           /\ Cardinality(Rivals(a)) \in Nat
           /\ Cardinality(Rivals(a)') \in Nat
           /\ Cardinality(Rivals(a)) <= Cardinality(Rivals(a)')
<1>1. Rivals(a) \subseteq Rivals(a)'
  BY DEF Rivals
<1>2. Rivals(a)' \subseteq Attempts
  BY DEF Rivals
<1>3. IsFiniteSet(Rivals(a)') /\ IsFiniteSet(Rivals(a))
  BY <1>1, <1>2, FiniteAssumption, FS_Subset
<1> QED BY <1>1, <1>3, FS_Subset, FS_CardinalityType

\* An attempt that a full store gives up is as old as any that stay, and the
\* new one is hardly older.
LEMMA EvictedHasRivals ==
    ASSUME ConnInv, Timely, NEW h \in Handlers, NEW a \in Attempts,
           CreateAttempt(h, a), Full(Live(values)),
           NEW o \in Oldest(Live(values))
    PROVE  Cardinality(Rivals(o)') >= Capacity
<1> DEFINE L == Live(values)
           S == (L \ {o}) \cup {a}
<1>1. /\ issued[a] = Null /\ looked[h] \in Seed
      /\ issued' = [issued EXCEPT ![a] = looked[h]]
      /\ issued \in [Attempts -> Seed \cup {Null}]
      /\ pc[h] = "looked" /\ looked[h] # Null
  BY NullAssumption DEF CreateAttempt, ConnInv, TypeOK, OnePlace
<1>2. /\ \A b \in L : /\ b \in Attempts /\ issued[b] # Null
                      /\ issued'[b] = issued[b]
                      /\ issued[b].expires \in Nat
                      /\ issued[o].expires <= issued[b].expires
      /\ o \in L
  BY <1>1, SeedExpiry DEF Live, Oldest, ConnInv, TypeOK
<1>3. /\ issued'[a] = looked[h] /\ looked[h].expires \in Nat
      /\ issued[o].expires <= now + TTL
      /\ now + TTL <= looked[h].expires + MaxStall
      /\ now \in Nat /\ TTL \in Nat /\ MaxStall \in Nat
  BY <1>1, <1>2, SeedExpiry, StoreAssumption DEF Timely, ConnInv, TypeOK
<1>4. a # o /\ a \notin L
  BY <1>1, <1>2
<1>5. ASSUME NEW b \in S PROVE b \in Rivals(o)'
  <2>1. CASE b = a
    BY <1>1, <1>2, <1>3, <1>4, <2>1 DEF Rivals
  <2>2. CASE b \in L \ {o}
    BY <1>2, <1>3, <2>2 DEF Rivals
  <2> QED BY <2>1, <2>2
<1>6. IsFiniteSet(L) /\ Cardinality(L) >= Capacity /\ Cardinality(L) \in Nat
  <2>1. L \subseteq Attempts
    BY <1>2
  <2> QED BY <2>1, FiniteAssumption, FS_Subset, FS_CardinalityType DEF Full
<1>7. /\ IsFiniteSet(L \ {o})
      /\ Cardinality(L \ {o}) = Cardinality(L) - 1
  BY <1>2, <1>6, FS_RemoveElement
<1>8. IsFiniteSet(S) /\ Cardinality(S) = Cardinality(L)
  <2>1. PICK T : T = L \ {o}
    OBVIOUS
  <2>2. IsFiniteSet(T) /\ Cardinality(T) = Cardinality(L) - 1 /\ a \notin T
    BY <1>4, <1>7, <2>1
  <2>3. /\ IsFiniteSet(T \cup {a})
        /\ Cardinality(T \cup {a}) = Cardinality(T) + 1
    BY <2>2, FS_AddElement
  <2> QED BY <1>6, <2>1, <2>2, <2>3
<1>9. IsFiniteSet(Rivals(o)')
  BY FiniteAssumption, FS_Subset DEF Rivals
<1>10. Cardinality(S) <= Cardinality(Rivals(o)')
  BY <1>5, <1>9, FS_Subset
<1>11. Cardinality(Rivals(o)') \in Nat
  BY <1>9, FS_CardinalityType
<1> QED BY <1>6, <1>8, <1>10, <1>11, StoreAssumption

LEMMA PushedNext ==
    ASSUME PushInv, [Next]_vars PROVE PushedOutByYounger'
<1> USE DEF PushInv
<1>1. /\ issued \in [Attempts -> Seed \cup {Null}]
      /\ \A b \in Attempts : issued[b] # Null => issued[b].expires \in Nat
      /\ now \in Nat /\ values \subseteq Attempts
  BY SeedExpiry DEF ConnInv, TypeOK
<1>2. /\ \A b \in Attempts : issued[b] # Null => issued'[b] = issued[b]
      /\ now' \in Nat /\ now' >= now
  BY <1>1 DEF Next, HandlerStep, Start, StartSession, LookUp, CreateAttempt,
     TakeAttempt, CompleteRegistration, CompleteLogin, CompleteSession,
     Grant, Refuse, RevokeDevice, Restart, Tick, vars, storeVars
<1>3. SUFFICES ASSUME NEW a \in Attempts, issued'[a] # Null,
                      a \notin values' \cup spent', issued'[a].expires > now'
               PROVE  Cardinality(Rivals(a)') >= Capacity
  BY DEF PushedOutByYounger, Rivals
<1>4. CASE issued[a] # Null /\ a \notin values \cup spent
  <2>1. Cardinality(Rivals(a)) >= Capacity
    BY <1>1, <1>2, <1>3, <1>4 DEF PushedOutByYounger, Rivals
  <2> QED BY <1>2, <1>4, <2>1, RivalsStay, StoreAssumption
<1>5. CASE issued[a] = Null \/ a \in values \cup spent
  <2>1. PICK h \in Handlers, b \in Attempts : CreateAttempt(h, b)
    BY <1>3, <1>5 DEF Next, HandlerStep, Start, StartSession, LookUp,
       TakeAttempt, Without, CompleteRegistration, CompleteLogin,
       CompleteSession, Grant, Refuse, RevokeDevice, Restart, Tick, vars,
       storeVars
  <2>2. /\ b \in values' /\ UNCHANGED <<spent, now>>
        /\ issued' = [issued EXCEPT ![b] = looked[h]]
    BY <2>1 DEF CreateAttempt
  <2>3. a # b /\ issued[a] # Null /\ a \in values /\ a \in Live(values)
    BY <1>1, <1>2, <1>3, <1>5, <2>2 DEF Live
  <2>4. /\ Full(Live(values)) /\ a \in Oldest(Live(values))
    BY <1>3, <2>1, <2>3 DEF CreateAttempt
  <2> QED BY <2>1, <2>4, EvictedHasRivals
<1> QED BY <1>4, <1>5

\* Nobody is pushed out of the store by older attempts, nor before it is
\* full (ChallengeStore.Create).
THEOREM NeverPushedOutEarly == Spec => []PushedOutByYounger
<1>1. PushInv /\ [Next]_vars => PushInv'
  BY ConnInvNext, TimelyNext, PushedNext DEF PushInv
<1>2. Spec => []PushInv
  BY <1>1, PushInvInit, PTL DEF Spec
<1> QED BY <1>2, PTL DEF PushInv

----------------------------------------------------------------------------
(* The store at its limit.  Create gives up one attempt at most, which is   *)
(* enough as long as the store never holds more than it may.                *)

StoreHolds == Cardinality(values) <= Capacity

LEMMA CreateHolds ==
    ASSUME ConnInv, StoreHolds, NEW h \in Handlers, NEW a \in Attempts,
           CreateAttempt(h, a)
    PROVE  StoreHolds'
<1>1. PICK L : L = Live(values)
  OBVIOUS
<1>2. L \subseteq values /\ values \subseteq Attempts /\ Capacity \in Nat
  BY <1>1, StoreAssumption DEF Live, ConnInv, TypeOK
<1>3. /\ IsFiniteSet(L) /\ Cardinality(L) \in Nat
      /\ Cardinality(L) <= Capacity
  <2>1. IsFiniteSet(values)
    BY <1>2, FiniteAssumption, FS_Subset
  <2>2. IsFiniteSet(L) /\ Cardinality(L) <= Cardinality(values)
    BY <1>2, <2>1, FS_Subset
  <2> QED BY <1>2, <2>1, <2>2, FS_CardinalityType DEF StoreHolds
<1>4. a \notin L
  BY <1>2 DEF CreateAttempt, ConnInv, TypeOK
<1>5. PICK K : /\ values' = K \cup {a} /\ a \notin K /\ IsFiniteSet(K)
               /\ Cardinality(K) < Capacity /\ Cardinality(K) \in Nat
  <2>1. CASE Cardinality(L) >= Capacity
    <3>1. PICK o \in L : values' = (L \ {o}) \cup {a}
      BY <1>1, <2>1 DEF CreateAttempt, Full, Oldest
    <3>2. /\ IsFiniteSet(L \ {o})
          /\ Cardinality(L \ {o}) = Cardinality(L) - 1
      BY <1>3, FS_RemoveElement
    <3>3. Cardinality(L \ {o}) \in Nat
      BY <3>2, FS_CardinalityType
    <3> QED BY <1>2, <1>3, <1>4, <3>1, <3>2, <3>3
  <2>2. CASE ~(Cardinality(L) >= Capacity)
    <3>1. values' = L \cup {a}
      BY <1>1, <2>2 DEF CreateAttempt, Full
    <3> QED BY <1>2, <1>3, <1>4, <2>2, <3>1
  <2> QED BY <2>1, <2>2
<1>6. Cardinality(values') = Cardinality(K) + 1
  BY <1>5, FS_AddElement
<1> QED BY <1>2, <1>5, <1>6 DEF StoreHolds

LEMMA StoreHoldsNext ==
    ASSUME ConnInv, StoreHolds, [Next]_vars PROVE StoreHolds'
<1>1. CASE \E h \in Handlers, a \in Attempts : CreateAttempt(h, a)
  BY <1>1, CreateHolds
<1>2. CASE values' \subseteq values
  <2>1. IsFiniteSet(values) /\ Capacity \in Nat
    BY FiniteAssumption, StoreAssumption, FS_Subset DEF ConnInv, TypeOK
  <2>2. /\ IsFiniteSet(values') /\ Cardinality(values) \in Nat
        /\ Cardinality(values') <= Cardinality(values)
        /\ Cardinality(values') \in Nat
    BY <1>2, <2>1, FS_Subset, FS_CardinalityType
  <2> QED BY <2>1, <2>2 DEF StoreHolds
<1> QED BY <1>1, <1>2
        DEF Next, HandlerStep, Start, StartSession, LookUp, TakeAttempt,
            Without, CompleteRegistration, CompleteLogin, CompleteSession,
            Grant, Refuse, RevokeDevice, Restart, Tick, vars, storeVars

\* However many clients start at once, the store never holds more attempts
\* than it may (ChallengeStore.Create).
THEOREM StoreNeverOverfull == Spec => []StoreHolds
<1>1. Init => StoreHolds
  BY StoreAssumption, FS_EmptySet DEF Init, StoreHolds
<1>2. Spec => [](ConnInv /\ StoreHolds)
  BY <1>1, ConnInvInit, ConnInvNext, StoreHoldsNext, PTL DEF Spec
<1> QED BY <1>2, PTL

=============================================================================
