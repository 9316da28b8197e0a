--------------------------- MODULE StackLifecycle ---------------------------
(***************************************************************************)
(* src/itestkit: the life of one test stack. StartStack creates a network, *)
(* starts the containers kind by kind, applies migrations, seeds and the   *)
(* rest of the set-up, and undoes everything when a step fails; Cleanup    *)
(* and t.Cleanup tear a returned stack down. StartStack is sequential:     *)
(* what is nondeterministic is Go's map order, and which of its calls to   *)
(* Docker or to a service fails (a timeout is a failure of the call).      *)
(***************************************************************************)
EXTENDS Naturals, Sequences

CONSTANTS
    Instances,   (* the named instances in StackOptions                     *)
    MaxCleanups  (* explicit calls of Stack.Cleanup: bounds the model       *)

ASSUME InstancesAssumption == Instances # {}
ASSUME MaxCleanupsAssumption == MaxCleanups \in Nat

Kinds == {"postgres", "clickhouse", "redis", "kafka", "httpmock", "localstack"}

(* The loops of StartStack, each over the instances of one kind.           *)
PhasesSeedingPerDatabase == <<
    [act |-> "start", kind |-> "postgres"],   [act |-> "start", kind |-> "clickhouse"],
    [act |-> "start", kind |-> "redis"],      [act |-> "start", kind |-> "kafka"],
    [act |-> "start", kind |-> "httpmock"],   [act |-> "start", kind |-> "localstack"],
    [act |-> "migrate", kind |-> "postgres"], [act |-> "seed", kind |-> "postgres"],
    [act |-> "migrate", kind |-> "clickhouse"], [act |-> "seed", kind |-> "clickhouse"],
    [act |-> "flush", kind |-> "redis"],      [act |-> "topics", kind |-> "kafka"],
    [act |-> "expect", kind |-> "httpmock"],  [act |-> "init", kind |-> "localstack"] >>

Phases == <<
    [act |-> "start", kind |-> "postgres"],   [act |-> "start", kind |-> "clickhouse"],
    [act |-> "start", kind |-> "redis"],      [act |-> "start", kind |-> "kafka"],
    [act |-> "start", kind |-> "httpmock"],   [act |-> "start", kind |-> "localstack"],
    [act |-> "migrate", kind |-> "postgres"], [act |-> "migrate", kind |-> "clickhouse"],
    [act |-> "seed", kind |-> "postgres"],    [act |-> "seed", kind |-> "clickhouse"],
    [act |-> "flush", kind |-> "redis"],      [act |-> "topics", kind |-> "kafka"],
    [act |-> "expect", kind |-> "httpmock"],  [act |-> "init", kind |-> "localstack"] >>

Setups == {"migrate", "seed", "flush", "topics", "expect", "init"}

VARIABLES
    (* The options of the call.                                             *)
    kind,       (* which service an instance is                             *)
    work,       (* the set-up its options ask for                           *)
    keep,       (* Debug.KeepContainersOnFailure                            *)
    hasT,       (* StartStack was given a testing.TB                        *)
    (* StartStack and Cleanup                                               *)
    status,     (* where the call, or the stack it returned, stands         *)
    pos,        (* the phase StartStack is in                               *)
    todo,       (* instances its current loop has yet to visit              *)
    out,        (* instances in the map of the startX that is running       *)
    held,       (* instances in the maps of the Stack                       *)
    last,       (* what the last Cleanup returned                           *)
    cleanups,   (* explicit calls of Cleanup so far                         *)
    (* Docker and the services                                              *)
    container,  (* the container of an instance                             *)
    network,    (* the shared network                                       *)
    applied,    (* set-up that was carried out on an instance               *)
    (* History, read by the properties alone.                               *)
    orphaned,   (* containers left by a Run that failed                     *)
    asked       (* containers TerminateContainer was called for             *)

options == <<kind, work, keep, hasT>>
docker == <<container, network, applied, orphaned, asked>>
vars == <<kind, work, keep, hasT, status, pos, todo, out, held, last, cleanups,
          container, network, applied, orphaned, asked>>

TypeOK ==
    /\ kind \in [Instances -> Kinds]
    /\ work \in [Instances -> SUBSET Setups]
    /\ keep \in BOOLEAN
    /\ hasT \in BOOLEAN
    /\ status \in {"called", "running", "undoing", "failed", "ready", "cleaning", "ending",
                   "ended"}
    /\ pos \in 1..Len(Phases)
    /\ todo \in SUBSET Instances
    /\ held \in SUBSET Instances
    /\ out \in SUBSET (Instances \ held)
    /\ last \in {"none", "ok", "error"}
    /\ cleanups \in 0..MaxCleanups
    /\ container \in [Instances -> {"absent", "up", "stopped", "gone"}]
    /\ network \in {"absent", "up", "removed"}
    /\ applied \in [Instances -> SUBSET Setups]
    /\ orphaned \in SUBSET Instances
    /\ asked \in SUBSET Instances

(* The set-up that exists for a kind of service.                           *)
SetupsOf(k) == {p.act : p \in {q \in {Phases[n] : n \in 1..Len(Phases)} : q.kind = k}} \ {"start"}

Init ==
    /\ kind \in [Instances -> Kinds]
    /\ work \in {w \in [Instances -> SUBSET Setups] :
                    \A i \in Instances : w[i] \subseteq SetupsOf(kind[i])}
    /\ keep \in BOOLEAN
    /\ hasT \in BOOLEAN
    /\ status = "called"
    /\ pos = 1
    /\ todo = {}
    /\ out = {}
    /\ held = {}
    /\ last = "none"
    /\ cleanups = 0
    /\ container = [i \in Instances |-> "absent"]
    /\ network = "absent"
    /\ applied = [i \in Instances |-> {}]
    /\ orphaned = {}
    /\ asked = {}

-----------------------------------------------------------------------------
(* StartStack                                                              *)

(* The instances the loop of phase n visits: those configured for it.      *)
Visited(n) ==
    {i \in Instances : /\ kind[i] = Phases[n].kind
                       /\ Phases[n].act # "start" => Phases[n].act \in work[i]}

(* validateOptions rejects the options, or the network cannot be created.  *)
Refused ==
    /\ status = "called"
    /\ status' = "failed"
    /\ UNCHANGED <<options, pos, todo, out, held, last, cleanups, docker>>

NetworkCreated ==
    /\ status = "called"
    /\ status' = "running"
    /\ network' = "up"
    /\ todo' = Visited(1)
    /\ UNCHANGED <<options, pos, out, held, last, cleanups, container, applied, orphaned,
                   asked>>

Starting(i) == status = "running" /\ Phases[pos].act = "start" /\ i \in todo
SettingUp(i) == status = "running" /\ Phases[pos].act # "start" /\ i \in todo

(* A startOneX that succeeds: its container runs, attached to the network. *)
ContainerStarted(i) ==
    /\ Starting(i)
    /\ container' = [container EXCEPT ![i] = "up"]
    /\ out' = out \cup {i}
    /\ todo' = todo \ {i}
    /\ UNCHANGED <<options, status, pos, held, last, cleanups, network, applied, orphaned,
                   asked>>

(* What a failing step undoes: a startX terminates its own map, which it   *)
(* does not return, and terminate() the maps of the Stack; neither does    *)
(* anything under keep.                                                    *)
ToUndoHeldOnly == IF keep THEN {} ELSE held
ToUndoAlways == held \cup out
ToUndo == IF keep THEN {} ELSE held \cup out

StepFails ==
    /\ status' = "undoing"
    /\ todo' = ToUndo
    /\ UNCHANGED <<options, pos, out, held, last, cleanups, network, applied>>

(* Run fails, before its container exists or with the container running;   *)
(* the caller returns without a look at it.                                *)
RunFails(i) ==
    /\ Starting(i)
    /\ StepFails
    /\ \/ UNCHANGED <<container, orphaned>>
       \/ /\ container' = [container EXCEPT ![i] = "up"]
          /\ orphaned' = orphaned \cup {i}
    /\ UNCHANGED asked

(* TerminateContainer stops and removes a container that `was` up, stopped *)
(* or gone. Either may fail, and its error is dropped by every caller.     *)
Terminated(i, was) ==
    /\ asked' = asked \cup {i}
    /\ \E c \in {"up", "stopped", "gone"} :
          /\ was # "up" => c \in {was, "gone"}
          /\ container' = [container EXCEPT ![i] = c]

(* Run succeeded, but Host, MappedPort or PortEndpoint fails: the          *)
(* container is terminated whatever keep says.                             *)
EndpointFails(i) ==
    /\ Starting(i)
    /\ StepFails
    /\ Terminated(i, "up")
    /\ UNCHANGED orphaned

(* One turn of the loop of a startX, for an instance of its kind: all of   *)
(* them run a container and look up its host and ports, or its brokers.    *)
(* What fails before the Run (the path of a configuration file, the stubs  *)
(* of a WireMock) leaves no container, like a Run that fails early.        *)
StartOne(i) == ContainerStarted(i) \/ RunFails(i) \/ EndpointFails(i)

startPostgres(i) == kind[i] = "postgres" /\ StartOne(i)
startClickHouse(i) == kind[i] = "clickhouse" /\ StartOne(i)
startRedis(i) == kind[i] = "redis" /\ StartOne(i)
startKafka(i) == kind[i] = "kafka" /\ StartOne(i)
startHTTPMocks(i) == kind[i] = "httpmock" /\ StartOne(i)
startLocalStack(i) == kind[i] = "localstack" /\ StartOne(i)

(* One turn of a set-up loop: the files, topics, expectations or scripts   *)
(* of an instance.                                                         *)
SetUp(i) ==
    /\ SettingUp(i)
    /\ applied' = [applied EXCEPT ![i] = @ \cup {Phases[pos].act}]
    /\ todo' = todo \ {i}
    /\ UNCHANGED <<options, status, pos, out, held, last, cleanups, container, network,
                   orphaned, asked>>

SetUpFails(i) ==
    /\ SettingUp(i)
    /\ StepFails
    /\ UNCHANGED <<container, orphaned, asked>>

(* The loops, by what they call for an instance.                           *)
SetUpOne(i, act, k) == Phases[pos] = [act |-> act, kind |-> k] /\ (SetUp(i) \/ SetUpFails(i))

applyPostgresMigrations(i) == SetUpOne(i, "migrate", "postgres")
applyClickHouseMigrations(i) == SetUpOne(i, "migrate", "clickhouse")
applyPostgresSeeds(i) == SetUpOne(i, "seed", "postgres")
applyClickHouseSeeds(i) == SetUpOne(i, "seed", "clickhouse")
RedisFlushAll(i) == SetUpOne(i, "flush", "redis")
createAllKafkaTopics(i) == SetUpOne(i, "topics", "kafka")
applyMockServerExpectations(i) == SetUpOne(i, "expect", "httpmock")
runLocalStackInitScripts(i) == SetUpOne(i, "init", "localstack")

(* The map a startX begins with.                                           *)
FreshMapReusingLast == out
FreshMap == {}

(* A loop is over: startX returns its map, which becomes stack.X.          *)
FollowingSkippingOne(n) == IF n + 2 <= Len(Phases) THEN n + 2 ELSE n + 1
Following(n) == n + 1

NextPhase ==
    /\ status = "running"
    /\ todo = {}
    /\ pos < Len(Phases)
    /\ pos' = Following(pos)
    /\ todo' = Visited(Following(pos))
    /\ held' = held \cup out
    /\ out' = FreshMap
    /\ UNCHANGED <<options, status, last, cleanups, docker>>

(* The closure `cleanup` is stored in the Stack, and registered with       *)
(* t.Cleanup when there is a t.                                            *)
Returned ==
    /\ status = "running"
    /\ todo = {}
    /\ pos = Len(Phases)
    /\ status' = "ready"
    /\ UNCHANGED <<options, pos, todo, out, held, last, cleanups, docker>>

-----------------------------------------------------------------------------
(* terminate and Cleanup                                                   *)

Terminate(i) ==
    /\ status \in {"undoing", "cleaning", "ending"}
    /\ i \in todo
    /\ todo' = todo \ {i}
    /\ Terminated(i, container[i])
    /\ UNCHANGED <<options, status, pos, out, held, last, cleanups, network, applied,
                   orphaned>>

terminatePostgres(i) == kind[i] = "postgres" /\ Terminate(i)
terminateClickHouse(i) == kind[i] = "clickhouse" /\ Terminate(i)
terminateRedis(i) == kind[i] = "redis" /\ Terminate(i)
terminateKafka(i) == kind[i] = "kafka" /\ Terminate(i)
terminateHTTPMocks(i) == kind[i] = "httpmock" /\ Terminate(i)
terminateLocalStack(i) == kind[i] = "localstack" /\ Terminate(i)

(* Docker refuses to remove a network that has running containers, and one *)
(* that is no longer there; it may also fail for reasons of its own.       *)
Removable == network = "up" /\ \A i \in Instances : container[i] # "up"

(* terminate() has nothing to remove under keep, and drops the error.      *)
UndoRemovesNetwork ==
    /\ status = "undoing"
    /\ todo = {}
    /\ status' = "failed"
    /\ network' \in {network} \cup (IF ~keep /\ Removable THEN {"removed"} ELSE {})
    /\ UNCHANGED <<options, pos, todo, out, held, last, cleanups, container, applied,
                   orphaned, asked>>

(* The maps Cleanup walks; each terminateX returns at once under keep.     *)
ToCleanPostgresOnly == IF keep THEN {} ELSE {i \in held : kind[i] = "postgres"}
ToClean == IF keep THEN {} ELSE held

(* The holder of the stack calls Stack.Cleanup.                            *)
Cleanup ==
    /\ status = "ready"
    /\ cleanups < MaxCleanups
    /\ cleanups' = cleanups + 1
    /\ status' = "cleaning"
    /\ todo' = ToClean
    /\ UNCHANGED <<options, pos, out, held, last, docker>>

(* The test is over, and the testing package runs its Cleanup functions.   *)
TestEnds ==
    /\ status = "ready"
    /\ hasT
    /\ status' = "ending"
    /\ todo' = ToClean
    /\ UNCHANGED <<options, pos, out, held, last, cleanups, docker>>

(* What Cleanup returns, given what the removal of the network came to.    *)
ReportDroppingError(removed) == "ok"
Report(removed) == IF removed THEN "ok" ELSE "error"

CleanupRemovesNetwork ==
    /\ status \in {"cleaning", "ending"}
    /\ todo = {}
    /\ \E removed \in (IF Removable THEN BOOLEAN ELSE {FALSE}) :
          /\ network' = IF removed THEN "removed" ELSE network
          /\ last' = Report(removed)
    /\ status' = IF status = "ending" THEN "ended" ELSE "ready"
    /\ UNCHANGED <<options, pos, todo, out, held, cleanups, container, applied, orphaned,
                   asked>>

-----------------------------------------------------------------------------

Stopped ==
    /\ status \in {"failed", "ended"} \/ (status = "ready" /\ ~hasT)
    /\ UNCHANGED vars

StartStack ==
    \/ Refused
    \/ NetworkCreated
    \/ \E i \in Instances : \/ startPostgres(i) \/ startClickHouse(i) \/ startRedis(i)
                            \/ startKafka(i) \/ startHTTPMocks(i) \/ startLocalStack(i)
                            \/ applyPostgresMigrations(i) \/ applyClickHouseMigrations(i)
                            \/ applyPostgresSeeds(i) \/ applyClickHouseSeeds(i)
                            \/ RedisFlushAll(i) \/ createAllKafkaTopics(i)
                            \/ applyMockServerExpectations(i) \/ runLocalStackInitScripts(i)
    \/ NextPhase
    \/ Returned

Next ==
    \/ StartStack
    \/ \E i \in Instances :
          \/ terminatePostgres(i) \/ terminateClickHouse(i) \/ terminateRedis(i)
          \/ terminateKafka(i) \/ terminateHTTPMocks(i) \/ terminateLocalStack(i)
    \/ UndoRemovesNetwork
    \/ Cleanup
    \/ TestEnds
    \/ CleanupRemovesNetwork
    \/ Stopped

(* StartStack, terminate and Cleanup are calls that run on, every wait in  *)
(* them bounded by a timeout; a test ends, at the latest by go test's own  *)
(* timeout. The holder of a stack owes no call of Cleanup.                 *)
Fairness ==
    /\ WF_vars(StartStack)
    /\ WF_vars(\E i \in Instances : Terminate(i))
    /\ WF_vars(UndoRemovesNetwork)
    /\ WF_vars(CleanupRemovesNetwork)
    /\ WF_vars(TestEnds)

Spec == Init /\ [][Next]_vars /\ Fairness

=============================================================================
