----------------------- MODULE RateLimiterProperties -----------------------
(***************************************************************************)
(* What ratelimit.Limiter guarantees, and what its comments claim of it.   *)
(***************************************************************************)
EXTENDS RateLimiter

(* Call c is granted in this step, for the key it was made with.           *)
GrantStep(c) == StoreNew(c) \/ Replace(c)

(* Between the load of an expired entry and its replacement somebody else  *)
(* changed the entry: ratelimit.go:96-107 is not one atomic step.          *)
Raced(c) == pc[c] = "expired" /\ store[key[c]] # loaded[c]

-----------------------------------------------------------------------------

(* The map speaks for the last grant: an entry is the promise of the last  *)
(* grant of its key, and a missing one means that the promise is over,     *)
(* unless cleanup deleted it (ratelimit.go:96-107, 122-124, 141-143).      *)
StoreKeepsPromises ==
    \A k \in Keys :
        /\ store[k] # Absent => store[k] = promised[k]
        /\ store[k] = Absent /\ ~dropped[k] => promised[k] <= clock

(* What StoreKeepsPromises needs to be inductive: a call about to replace  *)
(* an entry, and a cleanup about to delete one, saw it expired at a moment *)
(* already past (ratelimit.go:101-107, 139-143).                           *)
JudgementsAreSound ==
    /\ \A c \in Callers :
          /\ now[c] <= clock
          /\ pc[c] = "expired" => loaded[c] <= now[c]
    /\ sweepNow <= clock
    /\ sweep = "delete" => judged < sweepNow

(* The invariant the proofs use.                                           *)
IInv == TypeOK /\ JudgementsAreSound /\ StoreKeepsPromises

(* One action per cooldown, and all that can break it: a key is granted    *)
(* before the window of its last grant is over only if another call        *)
(* changed the entry while this one was replacing it, or if cleanup        *)
(* deleted the entry of that window (Allow's comment, ratelimit.go:71-81). *)
SpacedUnlessRaced ==
    [][\A c \in Callers :
          GrantStep(c) => \/ promised[key[c]] <= clock
                          \/ Raced(c)
                          \/ dropped[key[c]]]_vars

(* A denial answers with what is left of the window of the last grant of   *)
(* that key: never of an older grant, never after a Reset, and a client    *)
(* that waits as told finds the window over (ratelimit.go:75-77, 103).     *)
DenialIsOwed ==
    [][\A c \in Callers :
          pc[c] # "idle" /\ retryAfter'[c] > 0 /\ pc'[c] = "idle" =>
              /\ now[c] < promised[key[c]]
              /\ now[c] + retryAfter'[c] = promised[key[c]]]_vars

(* "When allowed is false, the existing cooldown is not extended"          *)
(* (ratelimit.go:80): an entry appears or moves only as a call returns     *)
(* allowed, and only under the key of that call.                           *)
OnlyGrantsExtend ==
    [][\A k \in Keys :
          store'[k] # store[k] /\ store'[k] # Absent =>
              \E c \in Callers : /\ key[c] = k
                                 /\ pc[c] # "idle"
                                 /\ pc'[c] = "idle"
                                 /\ retryAfter'[c] = 0]_vars

(* cleanup keeps the map from growing (ratelimit.go:126-129): an expired   *)
(* entry a tick finds is deleted, or replaced by a newer one, eventually.  *)
ExpiredAreEvicted ==
    \A k \in Keys, e \in Deadline :
        (store[k] = e /\ e < clock /\ ticker) ~> (store[k] # e)

-----------------------------------------------------------------------------

(* The claim of the comments without exception: "Each unique key is        *)
(* allowed one action per cooldown period" (ratelimit.go:34), Allow        *)
(* "atomically checks and updates the rate limit state" (ratelimit.go:72). *)
OneActionPerCooldown ==
    [][\A c \in Callers : GrantStep(c) => promised[key[c]] <= clock]_vars

-----------------------------------------------------------------------------

(* The limiter used by one goroutine at a time: a call, a Reset or a sweep *)
(* begins only while nothing else is under way.                            *)
Quiet == sweep = "wait" /\ \A c \in Callers : pc[c] = "idle"

SerialNext ==
    \/ Tick
    \/ Quiet /\ \E c \in Callers, k \in Keys : Allow(c, k)
    \/ \E c \in Callers : CallStep(c)
    \/ Quiet /\ \E k \in Keys : Reset(k)
    \/ (sweep # "wait" \/ Quiet) /\ Sweep

SerialSpec == Init /\ [][SerialNext]_vars

(* What quiet use adds to the invariant: a call meets the entry it loaded, *)
(* cleanup deletes the entry it judged, and no grant beats a promise.      *)
SerialInv ==
    /\ \A c \in Callers : pc[c] # "idle" =>
           /\ sweep = "wait"
           /\ \A d \in Callers : pc[d] # "idle" => d = c
    /\ \A k \in Keys : ~dropped[k]
    /\ sweep = "delete" => store[victim] = judged
    /\ \A c \in Callers :
           /\ pc[c] = "called" /\ store[key[c]] = Absent => promised[key[c]] <= now[c]
           /\ pc[c] = "expired" => store[key[c]] = loaded[c]

Atomic == INSTANCE AtomicCooldown WITH deadline <- promised

(* Used so, the limiter is what its comments say: an atomic deadline per   *)
(* key, which a request that comes too early leaves alone.                 *)
ImplementsAtomicCooldown == Atomic!AbsSpec

=============================================================================
