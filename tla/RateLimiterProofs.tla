------------------------- MODULE RateLimiterProofs -------------------------
(***************************************************************************)
(* Proofs about RateLimiter, for every set of keys and callers, every      *)
(* cooldown, interval and clock bound.                                     *)
(***************************************************************************)
EXTENDS RateLimiterProperties, TLAPS

USE KeysAssumption, CooldownAssumption, IntervalAssumption, MaxTimeAssumption,
    AbsentAssumption

LEMMA AnyKeyIsAKey == AnyKey \in Keys
  BY DEF AnyKey

LEMMA TypeOKInit == Init => TypeOK
  <1> SUFFICES ASSUME Init
               PROVE  TypeOK
    OBVIOUS
  <1> USE AnyKeyIsAKey DEF Init, Time, Deadline
  <1>1. 0 \in Time /\ 0 \in Deadline
    OBVIOUS
  <1>2. store \in [Keys -> Deadline \cup {Absent}] /\ promised \in [Keys -> Deadline]
    BY <1>1
  <1>3. now \in [Callers -> Time] /\ loaded \in [Callers -> Deadline]
        /\ retryAfter \in [Callers -> Deadline]
    BY <1>1
  <1>4. pc \in [Callers -> {"idle", "called", "expired"}] /\ key \in [Callers -> Keys]
    OBVIOUS
  <1>5. dropped \in [Keys -> BOOLEAN] /\ unvisited \in SUBSET Keys
    OBVIOUS
  <1> QED
    BY <1>1, <1>2, <1>3, <1>4, <1>5 DEF TypeOK

(* Every step of Next keeps the types: deadlines stay below                *)
(* MaxTime + Cooldown because a grant adds the cooldown to a clock reading.*)
LEMMA TypeOKStep == TypeOK /\ [Next]_vars => TypeOK'
  <1> SUFFICES ASSUME TypeOK, [Next]_vars
               PROVE  TypeOK'
    OBVIOUS
  <1> USE AnyKeyIsAKey DEF TypeOK, Time, Deadline, callVars, localVars, sweepVars,
                           historyVars
  <1>1. CASE Tick
    BY <1>1 DEF Tick
  <1>2. ASSUME NEW c \in Callers, NEW k \in Keys, Allow(c, k)
        PROVE  TypeOK'
    BY <1>2 DEF Allow
  <1>3. ASSUME NEW c \in Callers, Grant(c)
        PROVE  TypeOK'
    BY <1>3 DEF Grant, Return, NewEntry
  <1>4. ASSUME NEW c \in Callers, Deny(c)
        PROVE  TypeOK'
    BY <1>4 DEF Deny, Return, Before, Remaining
  <1>5. ASSUME NEW c \in Callers, LoadExpired(c)
        PROVE  TypeOK'
    BY <1>5 DEF LoadExpired
  <1>6. ASSUME NEW k \in Keys, Reset(k)
        PROVE  TypeOK'
    BY <1>6 DEF Reset
  <1>7. CASE SweepStart
    BY <1>7 DEF SweepStart
  <1>8. ASSUME NEW k \in Keys, SweepKeep(k)
        PROVE  TypeOK'
    BY <1>8 DEF SweepKeep
  <1>9. ASSUME NEW k \in Keys, SweepExpired(k)
        PROVE  TypeOK'
    BY <1>9 DEF SweepExpired, Expired
  <1>10. CASE SweepDelete
    BY <1>10 DEF SweepDelete
  <1>11. CASE SweepEnd
    BY <1>11 DEF SweepEnd
  <1>12. CASE UNCHANGED vars
    BY <1>12 DEF vars
  <1> QED
    BY <1>1, <1>2, <1>3, <1>4, <1>5, <1>6, <1>7, <1>8, <1>9, <1>10, <1>11, <1>12
       DEF Next, CallStep, Sweep, StoreNew, Replace

(* TypeOK holds in every reachable state of ratelimit.go's limiter.        *)
THEOREM TypeCorrect == Spec => []TypeOK
  <1>1. QED
    BY TypeOKInit, TypeOKStep, PTL DEF Spec

-----------------------------------------------------------------------------
(* The inductive invariant                                                 *)

LEMMA IInvInit == Init => IInv
  <1> SUFFICES ASSUME Init
               PROVE  IInv
    OBVIOUS
  <1>1. JudgementsAreSound
    BY DEF Init, JudgementsAreSound
  <1>2. StoreKeepsPromises
    <2> SUFFICES ASSUME NEW k \in Keys
                 PROVE  store[k] = Absent /\ promised[k] = 0 /\ clock = 0
      BY 0 <= 0 DEF StoreKeepsPromises
    <2> QED
      BY DEF Init
  <1> QED
    BY <1>1, <1>2, TypeOKInit DEF IInv

LEMMA JudgementsStep == IInv /\ [Next]_vars => JudgementsAreSound'
  <1> SUFFICES ASSUME IInv, [Next]_vars
               PROVE  JudgementsAreSound'
    OBVIOUS
  <1> USE AnyKeyIsAKey DEF IInv, TypeOK, Time, Deadline, callVars, localVars, sweepVars,
                           historyVars, JudgementsAreSound
  <1>1. CASE Tick
    BY <1>1 DEF Tick
  <1>2. ASSUME NEW c \in Callers, NEW k \in Keys, Allow(c, k)
        PROVE  JudgementsAreSound'
    BY <1>2 DEF Allow
  <1>3. ASSUME NEW c \in Callers, Grant(c)
        PROVE  JudgementsAreSound'
    BY <1>3 DEF Grant, Return
  <1>4. ASSUME NEW c \in Callers, Deny(c)
        PROVE  JudgementsAreSound'
    BY <1>4 DEF Deny, Return
  <1>5. ASSUME NEW c \in Callers, LoadExpired(c)
        PROVE  JudgementsAreSound'
    BY <1>5 DEF LoadExpired, Before
  <1>6. ASSUME NEW k \in Keys, Reset(k)
        PROVE  JudgementsAreSound'
    BY <1>6 DEF Reset
  <1>7. CASE SweepStart
    BY <1>7 DEF SweepStart
  <1>8. ASSUME NEW k \in Keys, SweepKeep(k)
        PROVE  JudgementsAreSound'
    BY <1>8 DEF SweepKeep
  <1>9. ASSUME NEW k \in Keys, SweepExpired(k)
        PROVE  JudgementsAreSound'
    BY <1>9 DEF SweepExpired, Expired
  <1>10. CASE SweepDelete
    BY <1>10 DEF SweepDelete
  <1>11. CASE SweepEnd
    BY <1>11 DEF SweepEnd
  <1>12. CASE UNCHANGED vars
    BY <1>12 DEF vars
  <1> QED
    BY <1>1, <1>2, <1>3, <1>4, <1>5, <1>6, <1>7, <1>8, <1>9, <1>10, <1>11, <1>12
       DEF Next, CallStep, Sweep, StoreNew, Replace

(* The two steps that matter: a grant writes entry and promise together,   *)
(* and a deletion finds the judged entry, which is over, or marks the key. *)
LEMMA PromisesStep == IInv /\ [Next]_vars => StoreKeepsPromises'
  <1> SUFFICES ASSUME IInv, [Next]_vars
               PROVE  StoreKeepsPromises'
    OBVIOUS
  <1> USE AnyKeyIsAKey DEF IInv, TypeOK, Time, Deadline, callVars, localVars, sweepVars,
                           historyVars, StoreKeepsPromises
  <1>1. CASE Tick
    BY <1>1 DEF Tick
  <1>2. ASSUME NEW c \in Callers, NEW k \in Keys, Allow(c, k)
        PROVE  StoreKeepsPromises'
    BY <1>2 DEF Allow
  <1>3. ASSUME NEW c \in Callers, Grant(c)
        PROVE  StoreKeepsPromises'
    BY <1>3 DEF Grant, NewEntry
  <1>4. ASSUME NEW c \in Callers, Deny(c)
        PROVE  StoreKeepsPromises'
    BY <1>4 DEF Deny
  <1>5. ASSUME NEW c \in Callers, LoadExpired(c)
        PROVE  StoreKeepsPromises'
    BY <1>5 DEF LoadExpired
  <1>6. ASSUME NEW k \in Keys, Reset(k)
        PROVE  StoreKeepsPromises'
    BY <1>6 DEF Reset
  <1>7. CASE SweepStart
    BY <1>7 DEF SweepStart
  <1>8. ASSUME NEW k \in Keys, SweepKeep(k)
        PROVE  StoreKeepsPromises'
    BY <1>8 DEF SweepKeep
  <1>9. ASSUME NEW k \in Keys, SweepExpired(k)
        PROVE  StoreKeepsPromises'
    BY <1>9 DEF SweepExpired
  <1>10. CASE SweepDelete
    <2> SUFFICES ASSUME NEW k \in Keys
                 PROVE  /\ store'[k] # Absent => store'[k] = promised'[k]
                        /\ store'[k] = Absent /\ ~dropped'[k] => promised'[k] <= clock'
      OBVIOUS
    <2>1. CASE k # victim
      BY <1>10, <2>1 DEF SweepDelete
    <2>2. CASE k = victim
      <3>1. store'[k] = Absent /\ promised'[k] = promised[k] /\ clock' = clock
        BY <1>10, <2>2 DEF SweepDelete
      <3>2. ASSUME ~dropped'[k]
            PROVE  promised[k] <= clock
        <4>1. ~dropped[k] /\ ~(store[k] \notin {Absent, judged} /\ clock < store[k])
          BY <1>10, <2>2, <3>2 DEF SweepDelete
        <4>2. CASE store[k] = Absent
          BY <4>1, <4>2
        <4>3. CASE store[k] # Absent /\ store[k] = judged
          BY <1>10, <4>3 DEF SweepDelete, JudgementsAreSound
        <4>4. CASE store[k] \notin {Absent, judged}
          BY <4>1, <4>4
        <4> QED
          BY <4>2, <4>3, <4>4
      <3> QED
        BY <3>1, <3>2
    <2> QED
      BY <2>1, <2>2
  <1>11. CASE SweepEnd
    BY <1>11 DEF SweepEnd
  <1>12. CASE UNCHANGED vars
    BY <1>12 DEF vars
  <1> QED
    BY <1>1, <1>2, <1>3, <1>4, <1>5, <1>6, <1>7, <1>8, <1>9, <1>10, <1>11, <1>12
       DEF Next, CallStep, Sweep, StoreNew, Replace

LEMMA IInvStep == IInv /\ [Next]_vars => IInv'
  BY TypeOKStep, JudgementsStep, PromisesStep DEF IInv

LEMMA IInvAlways == Spec => []IInv
  BY IInvInit, IInvStep, PTL DEF Spec

(* The sync.Map speaks for the last grant of every key.                    *)
THEOREM PromisesKept == Spec => []StoreKeepsPromises
  <1>1. IInv => StoreKeepsPromises
    BY DEF IInv
  <1> QED
    BY <1>1, IInvAlways, PTL

-----------------------------------------------------------------------------
(* What the invariant says of single steps                                 *)

LEMMA GrantSpacing ==
  ASSUME IInv, NEW c \in Callers, GrantStep(c)
  PROVE  promised[key[c]] <= clock \/ Raced(c) \/ dropped[key[c]]
  <1> USE DEF IInv, TypeOK, Time, Deadline
  <1>1. key[c] \in Keys
    OBVIOUS
  <1>2. CASE StoreNew(c)
    BY <1>1, <1>2 DEF StoreNew, StoreKeepsPromises
  <1>3. CASE Replace(c) /\ store[key[c]] = loaded[c]
    <2>1. loaded[c] \in Nat /\ loaded[c] <= now[c] /\ now[c] <= clock
      BY <1>3 DEF Replace, JudgementsAreSound
    <2>2. promised[key[c]] = loaded[c]
      BY <1>1, <1>3, <2>1 DEF StoreKeepsPromises
    <2> QED
      BY <2>1, <2>2
  <1>4. CASE Replace(c) /\ store[key[c]] # loaded[c]
    BY <1>4 DEF Replace, Raced
  <1> QED
    BY <1>2, <1>3, <1>4 DEF GrantStep

(* ratelimit.go:92-109: a key is granted before its window is over only    *)
(* when another goroutine moved the entry under the call, or cleanup       *)
(* deleted a live one.                                                     *)
THEOREM GrantsSpaced == Spec => SpacedUnlessRaced
  <1>1. IInv => [\A c \in Callers :
                   GrantStep(c) => \/ promised[key[c]] <= clock
                                   \/ Raced(c)
                                   \/ dropped[key[c]]]_vars
    BY GrantSpacing
  <1> QED
    BY <1>1, IInvAlways, PTL DEF SpacedUnlessRaced

(* A step other than a call's own leaves its pc and its answer alone.      *)
LEMMA AnswerOfDenial ==
  ASSUME IInv, [Next]_vars, NEW c \in Callers,
         pc[c] # "idle", retryAfter'[c] > 0, pc'[c] = "idle"
  PROVE  Deny(c)
  <1> USE DEF IInv, TypeOK, Time, Deadline, callVars, localVars
  <1>1. CASE Tick
    BY <1>1 DEF Tick
  <1>2. ASSUME NEW d \in Callers, NEW k \in Keys, Allow(d, k)
        PROVE  FALSE
    BY <1>2 DEF Allow
  <1>3. ASSUME NEW d \in Callers, Grant(d)
        PROVE  FALSE
    BY <1>3 DEF Grant, Return
  <1>4. ASSUME NEW d \in Callers, Deny(d)
        PROVE  d = c
    BY <1>4 DEF Deny, Return
  <1>5. ASSUME NEW d \in Callers, LoadExpired(d)
        PROVE  FALSE
    BY <1>5 DEF LoadExpired
  <1>6. ASSUME NEW k \in Keys, Reset(k)
        PROVE  FALSE
    BY <1>6 DEF Reset
  <1>7. CASE Sweep
    BY <1>7 DEF Sweep, SweepStart, SweepKeep, SweepExpired, SweepDelete, SweepEnd
  <1>8. CASE UNCHANGED vars
    BY <1>8 DEF vars
  <1> QED
    BY <1>1, <1>2, <1>3, <1>4, <1>5, <1>6, <1>7, <1>8
       DEF Next, CallStep, StoreNew, Replace

(* ratelimit.go:101-104: a denial is owed to the last grant of the key and *)
(* says exactly when that grant's window ends.                             *)
THEOREM DenialsOwed == Spec => DenialIsOwed
  <1>1. ASSUME IInv, [Next]_vars, NEW c \in Callers,
               pc[c] # "idle", retryAfter'[c] > 0, pc'[c] = "idle"
        PROVE  /\ now[c] < promised[key[c]]
               /\ now[c] + retryAfter'[c] = promised[key[c]]
    <2>1. Deny(c)
      BY <1>1, AnswerOfDenial
    <2>2. key[c] \in Keys /\ now[c] \in Nat /\ promised[key[c]] \in Nat
      BY <1>1 DEF IInv, TypeOK, Time, Deadline
    <2>3. store[key[c]] = promised[key[c]]
      BY <1>1, <2>1, <2>2 DEF IInv, StoreKeepsPromises, Deny
    <2>4. retryAfter'[c] = store[key[c]] - now[c]
      BY <1>1, <2>1 DEF IInv, TypeOK, Deny, Return, Remaining
    <2>5. now[c] < store[key[c]]
      BY <2>1 DEF Deny, Before
    <2> QED
      BY <2>2, <2>3, <2>4, <2>5
  <1>2. IInv /\ [Next]_vars =>
          [\A c \in Callers :
             pc[c] # "idle" /\ retryAfter'[c] > 0 /\ pc'[c] = "idle" =>
                 /\ now[c] < promised[key[c]]
                 /\ now[c] + retryAfter'[c] = promised[key[c]]]_vars
    BY <1>1
  <1> QED
    BY <1>2, IInvAlways, PTL DEF Spec, DenialIsOwed

(* ratelimit.go:80-81: entries appear or move only with a grant.           *)
THEOREM EntriesComeFromGrants == Spec => OnlyGrantsExtend
  <1>1. ASSUME IInv, [Next]_vars, NEW k \in Keys,
               store'[k] # store[k], store'[k] # Absent
        PROVE  \E c \in Callers : /\ key[c] = k
                                  /\ pc[c] # "idle"
                                  /\ pc'[c] = "idle"
                                  /\ retryAfter'[c] = 0
    <2> USE <1>1 DEF IInv, TypeOK
    <2>1. ASSUME NEW c \in Callers, Grant(c), pc[c] # "idle"
          PROVE  key[c] = k /\ pc'[c] = "idle" /\ retryAfter'[c] = 0
      BY <2>1 DEF Grant, Return
    <2>2. ASSUME NEW c \in Callers, StoreNew(c) \/ Replace(c)
          PROVE  Grant(c) /\ pc[c] # "idle"
      BY <2>2 DEF StoreNew, Replace
    <2>3. ASSUME NEW c \in Callers, Deny(c) \/ LoadExpired(c)
          PROVE  FALSE
      BY <2>3 DEF Deny, LoadExpired
    <2>4. ASSUME NEW j \in Keys, Reset(j)
          PROVE  FALSE
      BY <2>4 DEF Reset
    <2>5. CASE Tick
      BY <2>5 DEF Tick
    <2>6. ASSUME NEW c \in Callers, NEW j \in Keys, Allow(c, j)
          PROVE  FALSE
      BY <2>6 DEF Allow
    <2>7. CASE Sweep
      BY <2>7 DEF Sweep, SweepStart, SweepKeep, SweepExpired, SweepDelete, SweepEnd
    <2>8. CASE UNCHANGED vars
      BY <2>8 DEF vars
    <2> QED
      BY <2>1, <2>2, <2>3, <2>4, <2>5, <2>6, <2>7, <2>8 DEF Next, CallStep
  <1>2. IInv /\ [Next]_vars =>
          [\A k \in Keys :
             store'[k] # store[k] /\ store'[k] # Absent =>
                 \E c \in Callers : /\ key[c] = k
                                    /\ pc[c] # "idle"
                                    /\ pc'[c] = "idle"
                                    /\ retryAfter'[c] = 0]_vars
    BY <1>1
  <1> QED
    BY <1>2, IInvAlways, PTL DEF Spec, OnlyGrantsExtend

-----------------------------------------------------------------------------
(* One operation at a time: the limiter implements AtomicCooldown          *)

LEMMA SerialStepIsAStep == [SerialNext]_vars => [Next]_vars
  BY DEF SerialNext, Next

LEMMA SerialInvInit == Init => SerialInv
  <1> SUFFICES ASSUME Init
               PROVE  SerialInv
    OBVIOUS
  <1> QED
    BY DEF Init, SerialInv

LEMMA SerialInvStep == IInv /\ SerialInv /\ [SerialNext]_vars => SerialInv'
  <1> SUFFICES ASSUME IInv, SerialInv, [SerialNext]_vars
               PROVE  SerialInv'
    OBVIOUS
  <1> USE AnyKeyIsAKey DEF IInv, TypeOK, Time, Deadline, callVars, localVars, sweepVars,
                           historyVars, SerialInv
  <1>1. CASE Tick
    BY <1>1 DEF Tick
  <1>2. ASSUME Quiet, NEW c \in Callers, NEW k \in Keys, Allow(c, k)
        PROVE  SerialInv'
    BY <1>2 DEF Allow, Quiet, StoreKeepsPromises
  <1>3. ASSUME NEW c \in Callers, Grant(c), pc[c] # "idle"
        PROVE  SerialInv'
    BY <1>3 DEF Grant, Return
  <1>4. ASSUME NEW c \in Callers, Deny(c)
        PROVE  SerialInv'
    BY <1>4 DEF Deny, Return
  <1>5. ASSUME NEW c \in Callers, LoadExpired(c)
        PROVE  SerialInv'
    BY <1>5 DEF LoadExpired
  <1>6. ASSUME Quiet, NEW k \in Keys, Reset(k)
        PROVE  SerialInv'
    BY <1>6 DEF Reset, Quiet
  <1>7. CASE Quiet /\ SweepStart
    BY <1>7 DEF SweepStart, Quiet
  <1>8. ASSUME NEW k \in Keys, SweepKeep(k)
        PROVE  SerialInv'
    BY <1>8 DEF SweepKeep
  <1>9. ASSUME NEW k \in Keys, SweepExpired(k)
        PROVE  SerialInv'
    BY <1>9 DEF SweepExpired
  <1>10. CASE SweepDelete
    BY <1>10 DEF SweepDelete
  <1>11. CASE SweepEnd
    BY <1>11 DEF SweepEnd
  <1>12. CASE UNCHANGED vars
    BY <1>12 DEF vars
  <1>13. ASSUME sweep # "wait" \/ Quiet, Sweep
         PROVE  SerialInv'
    <2>1. SweepStart => Quiet
      BY <1>13 DEF SweepStart
    <2> QED
      BY <1>7, <1>8, <1>9, <1>10, <1>11, <1>13, <2>1 DEF Sweep
  <1>14. ASSUME NEW c \in Callers, CallStep(c)
         PROVE  SerialInv'
    BY <1>3, <1>4, <1>5, <1>14 DEF CallStep, StoreNew, Replace
  <1> QED
    BY <1>1, <1>2, <1>6, <1>12, <1>13, <1>14 DEF SerialNext

LEMMA SerialInvAlways == SerialSpec => [](IInv /\ SerialInv)
  <1>1. Init => IInv /\ SerialInv
    BY IInvInit, SerialInvInit
  <1>2. IInv /\ SerialInv /\ [SerialNext]_vars => (IInv /\ SerialInv)'
    BY IInvStep, SerialInvStep, SerialStepIsAStep
  <1> QED
    BY <1>1, <1>2, PTL DEF SerialSpec

LEMMA SerialInit == Init => Atomic!AbsInit
  BY DEF Init, Atomic!AbsInit

LEMMA SerialGrant ==
  ASSUME IInv, SerialInv, NEW c \in Callers, GrantStep(c)
  PROVE  Atomic!Granted(key[c], now[c]) /\ now[c] \in 0..MaxTime /\ now[c] <= clock
         /\ key[c] \in Keys
  <1> USE DEF IInv, TypeOK, Time, Deadline
  <1>1. Grant(c)
    BY DEF GrantStep, StoreNew, Replace
  <1>2. promised[key[c]] <= now[c]
    <2>1. CASE StoreNew(c)
      BY <2>1 DEF StoreNew, SerialInv
    <2>2. CASE Replace(c)
      <3>1. store[key[c]] = loaded[c] /\ loaded[c] <= now[c] /\ loaded[c] \in Nat
        BY <2>2 DEF Replace, SerialInv, JudgementsAreSound
      <3>2. store[key[c]] = promised[key[c]]
        BY <3>1 DEF StoreKeepsPromises
      <3> QED
        BY <3>1, <3>2
    <2> QED
      BY <2>1, <2>2 DEF GrantStep
  <1> QED
    BY <1>1, <1>2 DEF Grant, Atomic!Granted, JudgementsAreSound

LEMMA SerialStep == IInv /\ SerialInv /\ [SerialNext]_vars => [Atomic!AbsNext]_(Atomic!absVars)
  <1> SUFFICES ASSUME IInv, SerialInv, [SerialNext]_vars
               PROVE  [Atomic!AbsNext]_(Atomic!absVars)
    OBVIOUS
  <1> USE DEF callVars, localVars, sweepVars, historyVars, Atomic!absVars
  <1>1. CASE Tick
    BY <1>1 DEF Tick, Atomic!AbsNext, Atomic!TimePasses
  <1>2. ASSUME NEW c \in Callers, GrantStep(c)
        PROVE  Atomic!AbsNext
    BY <1>2, SerialGrant DEF Atomic!AbsNext
  <1>3. ASSUME NEW k \in Keys, Reset(k)
        PROVE  Atomic!AbsNext
    BY <1>3 DEF Reset, Atomic!AbsNext, Atomic!Forgotten
  <1>4. ASSUME NEW c \in Callers, Deny(c) \/ LoadExpired(c)
        PROVE  UNCHANGED Atomic!absVars
    BY <1>4 DEF Deny, LoadExpired
  <1>5. ASSUME NEW c \in Callers, NEW k \in Keys, Allow(c, k)
        PROVE  UNCHANGED Atomic!absVars
    BY <1>5 DEF Allow
  <1>6. CASE Sweep
    BY <1>6 DEF Sweep, SweepStart, SweepKeep, SweepExpired, SweepDelete, SweepEnd
  <1>7. CASE UNCHANGED vars
    BY <1>7 DEF vars
  <1> QED
    BY <1>1, <1>2, <1>3, <1>4, <1>5, <1>6, <1>7 DEF SerialNext, CallStep, GrantStep

(* Used by one goroutine at a time, ratelimit.go's limiter is the atomic   *)
(* one of its comments: cleanup and the two-step replacement do not show.  *)
THEOREM SerialLimiterIsAtomic == SerialSpec => ImplementsAtomicCooldown
  <1>1. QED
    BY SerialInvAlways, SerialInit, SerialStep, PTL
       DEF SerialSpec, ImplementsAtomicCooldown, Atomic!AbsSpec

=============================================================================
