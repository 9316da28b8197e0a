--------------------------- MODULE ReadinessProbe ---------------------------
(***************************************************************************)
(* src/observability/health: one evaluation of /health/readyz.             *)
(* core.runChecks starts a goroutine per configured check under a context  *)
(* with a deadline, each goroutine pings its dependency and records what   *)
(* came back under a mutex, and the aggregator waits for all of them.      *)
(* Evaluations share no variable of the program, so one call is modelled;  *)
(* the dependencies change under it at any moment.                         *)
(***************************************************************************)
EXTENDS FiniteSets

CONSTANTS
    Checks,     (* names of the configured checks                           *)
    Nobody      (* holder of a mutex that is free                           *)

ASSUME NobodyAssumption == Nobody \notin Checks

VARIABLES
    (* The world: dependencies, adapters, the client of the probe.          *)
    dependency, (* what the service behind a check does with a ping         *)
    adapter,    (* how a check's Pinger treats its context                  *)
    left,       (* the client went away: the request's context is cancelled *)
    (* runChecks                                                            *)
    phase,      (* where the aggregator stands                              *)
    expired,    (* the timer of context.WithTimeout fired                   *)
    groupFailed,(* errgroup cancelled gctx: a goroutine returned an error   *)
    goroutine,  (* where the goroutine of a check stands                    *)
    err,        (* that goroutine's `err`                                   *)
    mu,         (* holder of the mutex                                      *)
    results,    (* resp.Checks                                              *)
    code,       (* HTTP status of the answer; 0 before there is one         *)
    (* History, read by the properties alone.                               *)
    seen        (* what a dependency did at some moment of the evaluation   *)

world == <<dependency, adapter, left>>
vars == <<dependency, adapter, left, phase, expired, groupFailed, goroutine, err, mu,
          results, code, seen>>

Behaviours == {"up", "down", "hung"}

(* "heeding": every blocking call is bounded by the context (healthgorm;   *)
(*     healthredis as its comment has it, healthredis.go:32-34: go-redis   *)
(*     does so if its client is told to, and else is "deaf" until a        *)
(*     timeout of its own).                                                *)
(* "dialing": so it is too, and a dial is given up before the deadline     *)
(*     (healthkafka).                                                      *)
(* "deaf": a custom Pinger that ignores its context.                       *)
Adapters == {"heeding", "dialing", "deaf"}

(* err: nil, an error of the dependency, or the context's error.           *)
Errors == {"nil", "dependency", "context"}

TypeOK ==
    /\ dependency \in [Checks -> Behaviours]
    /\ adapter \in [Checks -> Adapters]
    /\ left \in BOOLEAN
    /\ phase \in {"received", "waiting", "answered"}
    /\ expired \in BOOLEAN
    /\ groupFailed \in BOOLEAN
    /\ goroutine \in [Checks -> {"none", "pinging", "returned", "recording", "done"}]
    /\ err \in [Checks -> Errors]
    /\ mu \in Checks \cup {Nobody}
    /\ results \in [Checks -> Errors \cup {"missing"}]
    /\ code \in {0, 200, 503}
    /\ seen \in [Checks -> SUBSET Behaviours]

Init ==
    /\ dependency \in [Checks -> Behaviours]
    /\ adapter \in [Checks -> Adapters]
    /\ left = FALSE
    /\ phase = "received"
    /\ expired = FALSE
    /\ groupFailed = FALSE
    /\ goroutine = [c \in Checks |-> "none"]
    /\ err = [c \in Checks |-> "nil"]
    /\ mu = Nobody
    /\ results = [c \in Checks |-> "missing"]
    /\ code = 0
    /\ seen = [c \in Checks |-> {}]

-----------------------------------------------------------------------------
(* The world                                                               *)

(* A dependency recovers, breaks or hangs, at any moment.                  *)
DependencyChanges(c) ==
    /\ phase # "answered"
    /\ \E b \in Behaviours \ {dependency[c]} :
          /\ dependency' = [dependency EXCEPT ![c] = b]
          /\ seen' = IF phase = "waiting" THEN [seen EXCEPT ![c] = @ \cup {b}] ELSE seen
    /\ UNCHANGED <<adapter, left, phase, expired, groupFailed, goroutine, err, mu, results,
                   code>>

(* The client disconnects, or the server's own deadline for it passes.     *)
ClientLeaves ==
    /\ phase # "answered"
    /\ ~left
    /\ left' = TRUE
    /\ UNCHANGED <<dependency, adapter, phase, expired, groupFailed, goroutine, err, mu,
                   results, code, seen>>

-----------------------------------------------------------------------------
(* runChecks                                                               *)

(* The contexts are derived and a goroutine is started per check.          *)
StartChecks ==
    /\ phase = "received"
    /\ phase' = "waiting"
    /\ goroutine' = [c \in Checks |-> "pinging"]
    /\ seen' = [c \in Checks |-> {dependency[c]}]
    /\ UNCHANGED <<world, expired, groupFailed, err, mu, results, code>>

(* ProbeDeadline elapses.                                                  *)
DeadlineElapses ==
    /\ phase = "waiting"
    /\ ~expired
    /\ expired' = TRUE
    /\ UNCHANGED <<world, phase, groupFailed, goroutine, err, mu, results, code, seen>>

(* gctx is done: a child of the timer's context, a child of the request's. *)
CancelledByClientAlone == left \/ groupFailed
Cancelled == left \/ expired \/ groupFailed

(* What Ping(gctx) may come back with. An answer of the dependency may win *)
(* against the context even after that is done.                            *)
Outcomes(c) ==
    {o \in Errors :
        \/ o = "nil" /\ dependency[c] = "up"
        \/ o = "dependency" /\ dependency[c] = "down"
        \/ o = "dependency" /\ dependency[c] = "hung" /\ adapter[c] = "dialing"
        \/ o = "context" /\ adapter[c] # "deaf" /\ Cancelled}

(* err := p.Ping(gctx)                                                     *)
PingReturns(c) ==
    /\ goroutine[c] = "pinging"
    /\ \E o \in Outcomes(c) : err' = [err EXCEPT ![c] = o]
    /\ goroutine' = [goroutine EXCEPT ![c] = "returned"]
    /\ UNCHANGED <<world, phase, expired, groupFailed, mu, results, code, seen>>

(* mu.Lock()                                                               *)
LockWithoutMutex(c) ==
    /\ goroutine[c] = "returned"
    /\ goroutine' = [goroutine EXCEPT ![c] = "recording"]
    /\ mu' = c
    /\ UNCHANGED <<world, phase, expired, groupFailed, err, results, code, seen>>

Lock(c) ==
    /\ goroutine[c] = "returned"
    /\ mu = Nobody
    /\ mu' = c
    /\ goroutine' = [goroutine EXCEPT ![c] = "recording"]
    /\ UNCHANGED <<world, phase, expired, groupFailed, err, results, code, seen>>

(* Whether the function given to g.Go returns an error: it returns nil,    *)
(* whatever the ping came back with.                                       *)
GoroutineFailsWithPing(c) == err[c] # "nil"
GoroutineFails(c) == FALSE

(* resp.Checks[name] is set, the mutex released, the goroutine ends.       *)
Record(c) ==
    /\ goroutine[c] = "recording"
    /\ results' = [results EXCEPT ![c] = err[c]]
    /\ mu' = Nobody
    /\ goroutine' = [goroutine EXCEPT ![c] = "done"]
    /\ groupFailed' = (groupFailed \/ GoroutineFails(c))
    /\ UNCHANGED <<world, phase, expired, err, code, seen>>

(* g.Wait() returns.                                                       *)
WaitOverOnceOneIsDone == \E c \in Checks : goroutine[c] = "done"
WaitOver == \A c \in Checks : goroutine[c] = "done"

(* The loop over resp.Checks: 503 from the first entry that is not ok.     *)
StatusOutsideContract ==
    IF \E c \in Checks : results[c] \notin {"nil", "missing"} THEN 500 ELSE 200
StatusOfSomeOk == IF \E c \in Checks : results[c] = "nil" THEN 200 ELSE 503
Status == IF \E c \in Checks : results[c] \notin {"nil", "missing"} THEN 503 ELSE 200

Answer ==
    /\ phase = "waiting"
    /\ WaitOver
    /\ code' = Status
    /\ phase' = "answered"
    /\ UNCHANGED <<world, expired, groupFailed, goroutine, err, mu, results, seen>>

-----------------------------------------------------------------------------

Terminated == phase = "answered" /\ UNCHANGED vars

Next ==
    \/ \E c \in Checks : DependencyChanges(c)
    \/ ClientLeaves
    \/ StartChecks
    \/ DeadlineElapses
    \/ \E c \in Checks : PingReturns(c) \/ Lock(c) \/ Record(c)
    \/ Answer
    \/ Terminated

(* Goroutines are scheduled, the timer fires, and sync.Mutex hands itself  *)
(* to a waiter (its starvation mode). The dependencies and the client owe  *)
(* nothing.                                                                *)
Fairness ==
    /\ WF_vars(StartChecks)
    /\ WF_vars(DeadlineElapses)
    /\ WF_vars(Answer)
    /\ \A c \in Checks : /\ WF_vars(PingReturns(c))
                         /\ SF_vars(Lock(c))
                         /\ WF_vars(Record(c))

Spec == Init /\ [][Next]_vars /\ Fairness

=============================================================================
