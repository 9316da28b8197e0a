--------------------------- MODULE AtomicCooldown ---------------------------
(***************************************************************************)
(* What the doc comments of ratelimit.Limiter promise to a client: one     *)
(* deadline per key, and requests that check and move it in one step.      *)
(* RateLimiter.tla is the mechanism (a sync.Map, calls of several steps,   *)
(* a background cleanup); this module knows none of it.                    *)
(***************************************************************************)
EXTENDS Naturals

CONSTANTS
    Keys,       (* user ids, IP addresses, ...                              *)
    Cooldown,   (* length of the window that follows a granted request      *)
    MaxTime     (* the clock stops here: bounds the model                   *)

VARIABLES
    clock,      (* wall clock                                               *)
    deadline    (* when the window of a key closes; 0 when it never opened  *)

absVars == <<clock, deadline>>

AbsInit ==
    /\ clock = 0
    /\ deadline = [k \in Keys |-> 0]

(* A request reads the clock once, at a moment `at` that is not in the     *)
(* future, and is judged by that reading.                                  *)
Granted(k, at) ==
    /\ at >= deadline[k]
    /\ deadline' = [deadline EXCEPT ![k] = at + Cooldown]
    /\ UNCHANGED clock

(* A denied request changes nothing and is a stuttering step here.         *)

Forgotten(k) ==
    /\ deadline' = [deadline EXCEPT ![k] = 0]
    /\ UNCHANGED clock

TimePasses ==
    /\ clock < MaxTime
    /\ clock' = clock + 1
    /\ UNCHANGED deadline

AbsNext ==
    \/ \E k \in Keys, at \in 0..MaxTime : at <= clock /\ Granted(k, at)
    \/ \E k \in Keys : Forgotten(k)
    \/ TimePasses

AbsSpec == AbsInit /\ [][AbsNext]_absVars

=============================================================================
