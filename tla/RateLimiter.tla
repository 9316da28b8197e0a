---------------------------- MODULE RateLimiter ----------------------------
(***************************************************************************)
(* src/ratelimit/ratelimit.go: a per-key cooldown kept in a sync.Map.      *)
(* Any number of goroutines call Allow and Reset while one background      *)
(* goroutine evicts expired entries. Each access to the map is one atomic  *)
(* step; what a goroutine read before the step may be stale when it acts.  *)
(***************************************************************************)
EXTENDS Naturals

CONSTANTS
    Keys,       (* rate-limit keys                                          *)
    Callers,    (* goroutines that call Allow                               *)
    Cooldown,   (* Limiter.cooldown                                         *)
    Interval,   (* period of the cleanup ticker                             *)
    MaxTime,    (* the clock stops here: bounds the model                   *)
    Absent      (* no entry under a key                                     *)

ASSUME KeysAssumption == Keys # {}
ASSUME CooldownAssumption == Cooldown \in Nat
ASSUME IntervalAssumption == Interval \in Nat \ {0}
ASSUME MaxTimeAssumption == MaxTime \in Nat
ASSUME AbsentAssumption == Absent \notin Nat

VARIABLES
    clock,      (* what time.Now() returns                                  *)
    store,      (* Limiter.store: key -> entry.expiresAt                    *)
    pc,         (* where each call of Allow stands                          *)
    key,        (* Allow's argument                                         *)
    now,        (* Allow's `now`                                            *)
    loaded,     (* Allow's `e.expiresAt`                                    *)
    retryAfter, (* what the last call returned; 0 says the request is allowed *)
    ticker,     (* a tick waits in ticker.C, which holds at most one        *)
    sweep,      (* where the cleanup goroutine stands                       *)
    sweepNow,   (* cleanup's `now`                                          *)
    unvisited,  (* keys Range has yet to come to                            *)
    victim,     (* key whose entry cleanup judged expired                   *)
    judged,     (* that entry, cleanup's `e`                                *)
    (* History, read by the properties alone.                               *)
    promised,   (* deadline of the last grant of a key; 0 after Reset       *)
    dropped     (* cleanup deleted a live entry in place of the judged one  *)

localVars == <<key, now, loaded>>
callVars == <<pc, localVars, retryAfter>>
sweepVars == <<ticker, sweep, sweepNow, unvisited, victim, judged>>
historyVars == <<promised, dropped>>
vars == <<clock, store, callVars, sweepVars, historyVars>>

Time == 0..MaxTime
Deadline == 0..(MaxTime + Cooldown)

TypeOK ==
    /\ clock \in Time
    /\ store \in [Keys -> Deadline \cup {Absent}]
    /\ pc \in [Callers -> {"idle", "called", "expired"}]
    /\ key \in [Callers -> Keys]
    /\ now \in [Callers -> Time]
    /\ loaded \in [Callers -> Deadline]
    /\ retryAfter \in [Callers -> Deadline]
    /\ ticker \in BOOLEAN
    /\ sweep \in {"wait", "range", "delete"}
    /\ sweepNow \in Time
    /\ unvisited \in SUBSET Keys
    /\ victim \in Keys
    /\ judged \in Deadline
    /\ promised \in [Keys -> Deadline]
    /\ dropped \in [Keys -> BOOLEAN]

(* What a local holds outside its scope.                                   *)
AnyKey == CHOOSE k \in Keys : TRUE

(* NewLimiter                                                              *)
Init ==
    /\ clock = 0
    /\ store = [k \in Keys |-> Absent]
    /\ pc = [c \in Callers |-> "idle"]
    /\ key = [c \in Callers |-> AnyKey]
    /\ now = [c \in Callers |-> 0]
    /\ loaded = [c \in Callers |-> 0]
    /\ retryAfter = [c \in Callers |-> 0]
    /\ ticker = FALSE
    /\ sweep = "wait"
    /\ sweepNow = 0
    /\ unvisited = {}
    /\ victim = AnyKey
    /\ judged = 0
    /\ promised = [k \in Keys |-> 0]
    /\ dropped = [k \in Keys |-> FALSE]

-----------------------------------------------------------------------------
(* The wall clock and the ticker. A tick that finds another one waiting is *)
(* dropped, as time.Ticker does.                                           *)

Tick ==
    /\ clock < MaxTime
    /\ clock' = clock + 1
    /\ ticker' = (ticker \/ (clock + 1) % Interval = 0)
    /\ UNCHANGED <<store, callVars, sweep, sweepNow, unvisited, victim, judged, historyVars>>

-----------------------------------------------------------------------------
(* Allow(key)                                                              *)

(* now := time.Now(); newEntry := entry{expiresAt: now.Add(l.cooldown)}    *)
Allow(c, k) ==
    /\ pc[c] = "idle"
    /\ pc' = [pc EXCEPT ![c] = "called"]
    /\ key' = [key EXCEPT ![c] = k]
    /\ now' = [now EXCEPT ![c] = clock]
    /\ UNCHANGED <<clock, store, loaded, retryAfter, sweepVars, historyVars>>

NewEntryWithoutCooldown(c) == now[c]
NewEntry(c) == now[c] + Cooldown

(* The call ends: its answer is left, its locals are gone.                 *)
Return(c, retry) ==
    /\ pc' = [pc EXCEPT ![c] = "idle"]
    /\ retryAfter' = [retryAfter EXCEPT ![c] = retry]
    /\ key' = [key EXCEPT ![c] = AnyKey]
    /\ now' = [now EXCEPT ![c] = 0]
    /\ loaded' = [loaded EXCEPT ![c] = 0]

(* newEntry goes into the map and the call returns (true, 0).              *)
Grant(c) ==
    /\ store' = [store EXCEPT ![key[c]] = NewEntry(c)]
    /\ promised' = [promised EXCEPT ![key[c]] = now[c] + Cooldown]
    /\ dropped' = [dropped EXCEPT ![key[c]] = FALSE]
    /\ Return(c, 0)
    /\ UNCHANGED <<clock, sweepVars>>

(* LoadOrStore finds no entry.                                             *)
StoreNew(c) ==
    /\ pc[c] = "called"
    /\ store[key[c]] = Absent
    /\ Grant(c)

(* now.Before(e.expiresAt)                                                 *)
Before(t, expiresAt) == t < expiresAt

(* e.expiresAt.Sub(now)                                                    *)
RemainingSwapped(c) == now[c] - store[key[c]]
Remaining(c) == store[key[c]] - now[c]

(* LoadOrStore finds a live entry: return (false, e.expiresAt.Sub(now)).   *)
DenyExtending(c) ==
    /\ pc[c] = "called"
    /\ store[key[c]] # Absent
    /\ Before(now[c], store[key[c]])
    /\ store' = [store EXCEPT ![key[c]] = NewEntry(c)]
    /\ Return(c, Remaining(c))
    /\ UNCHANGED <<clock, sweepVars, historyVars>>

Deny(c) ==
    /\ pc[c] = "called"
    /\ store[key[c]] # Absent
    /\ Before(now[c], store[key[c]])
    /\ Return(c, Remaining(c))
    /\ UNCHANGED <<clock, store, sweepVars, historyVars>>

(* LoadOrStore finds an expired entry, which another step has to replace.  *)
LoadExpired(c) ==
    /\ pc[c] = "called"
    /\ store[key[c]] # Absent
    /\ ~Before(now[c], store[key[c]])
    /\ loaded' = [loaded EXCEPT ![c] = store[key[c]]]
    /\ pc' = [pc EXCEPT ![c] = "expired"]
    /\ UNCHANGED <<clock, store, key, now, retryAfter, sweepVars, historyVars>>

(* l.store.Store(key, newEntry), whatever is there by now.                 *)
Replace(c) ==
    /\ pc[c] = "expired"
    /\ Grant(c)

(* Reset(key) withdraws the promise together with the entry.               *)
ResetKeepingEntry(k) ==
    /\ store[k] # Absent
    /\ promised' = [promised EXCEPT ![k] = 0]
    /\ dropped' = [dropped EXCEPT ![k] = FALSE]
    /\ UNCHANGED <<clock, store, callVars, sweepVars>>

Reset(k) ==
    /\ store[k] # Absent
    /\ store' = [store EXCEPT ![k] = Absent]
    /\ promised' = [promised EXCEPT ![k] = 0]
    /\ dropped' = [dropped EXCEPT ![k] = FALSE]
    /\ UNCHANGED <<clock, callVars, sweepVars>>

-----------------------------------------------------------------------------
(* cleanup(interval)                                                       *)

(* A tick is received and `now` read. Range may come to a key that is      *)
(* stored while it runs, or miss it: every key is still to be visited, and *)
(* one without an entry when its turn comes is passed over.                *)
SweepStart ==
    /\ sweep = "wait"
    /\ ticker
    /\ ticker' = FALSE
    /\ sweep' = "range"
    /\ sweepNow' = clock
    /\ unvisited' = Keys
    /\ UNCHANGED <<clock, store, callVars, victim, judged, historyVars>>

(* value.(entry), where there is one, and now.After(e.expiresAt)           *)
ExpiredEvenIfLive(k) == store[k] # Absent
ExpiredForLong(k) == store[k] # Absent /\ sweepNow > store[k] + Interval
Expired(k) == store[k] # Absent /\ sweepNow > store[k]

(* Range loads the entry of k and hands it to the callback, which keeps it.*)
SweepKeep(k) ==
    /\ sweep = "range"
    /\ k \in unvisited
    /\ ~Expired(k)
    /\ unvisited' = unvisited \ {k}
    /\ UNCHANGED <<clock, store, callVars, ticker, sweep, sweepNow, victim, judged,
                   historyVars>>

(* The callback finds the loaded entry expired and is about to delete k.   *)
SweepExpired(k) ==
    /\ sweep = "range"
    /\ k \in unvisited
    /\ Expired(k)
    /\ sweep' = "delete"
    /\ victim' = k
    /\ judged' = store[k]
    /\ unvisited' = unvisited \ {k}
    /\ UNCHANGED <<clock, store, callVars, ticker, sweepNow, historyVars>>

(* l.store.Delete(key), whatever entry is there by now; the callback       *)
(* returns and its locals are gone.                                        *)
SweepDelete ==
    /\ sweep = "delete"
    /\ store' = [store EXCEPT ![victim] = Absent]
    /\ dropped' = [dropped EXCEPT ![victim] =
                     @ \/ (store[victim] \notin {Absent, judged} /\ clock < store[victim])]
    /\ sweep' = "range"
    /\ victim' = AnyKey
    /\ judged' = 0
    /\ UNCHANGED <<clock, callVars, ticker, sweepNow, unvisited, promised>>

(* Range returns; the loop waits for the next tick.                        *)
SweepEnd ==
    /\ sweep = "range"
    /\ unvisited = {}
    /\ sweep' = "wait"
    /\ UNCHANGED <<clock, store, callVars, ticker, sweepNow, unvisited, victim, judged,
                   historyVars>>

Sweep ==
    \/ SweepStart
    \/ \E k \in Keys : SweepKeep(k) \/ SweepExpired(k)
    \/ SweepDelete
    \/ SweepEnd

-----------------------------------------------------------------------------

CallStep(c) == StoreNew(c) \/ Deny(c) \/ LoadExpired(c) \/ Replace(c)

Next ==
    \/ Tick
    \/ \E c \in Callers, k \in Keys : Allow(c, k)
    \/ \E c \in Callers : CallStep(c)
    \/ \E k \in Keys : Reset(k)
    \/ Sweep

(* The Go scheduler preempts every goroutine and starves none: the cleanup *)
(* goroutine keeps taking steps. Nothing obliges anyone to call Allow.     *)
Fairness == WF_vars(Sweep)

Spec == Init /\ [][Next]_vars /\ Fairness

=============================================================================
