---------------------- MODULE StackLifecycleProperties ----------------------
(***************************************************************************)
(* What a test that calls StartStack relies on.                            *)
(***************************************************************************)
EXTENDS StackLifecycle

(* "If any step fails, every container started so far is terminated unless *)
(* KeepContainersOnFailure is set" (stack.go:19-21): whatever step failed, *)
(* and whether or not its startX had returned, what is left is a container *)
(* Docker would not remove or one that a failed Run never handed over.     *)
FailureLeavesNothing ==
    (status = "failed" /\ ~keep) =>
        \A i \in Instances : container[i] \in {"up", "stopped"} => i \in asked \cup orphaned

(* KeepContainersOnFailure is to leave the containers running when start   *)
(* fails (options.go:87-88). What the code keeps of this: every container  *)
(* it ever started still runs, in its network, except at most one, whose   *)
(* Host or port lookup failed and which is terminated in spite of the flag *)
(* (postgres.go:103-111 and its siblings).                                 *)
FailureKeepsForInspection ==
    (status \in {"undoing", "failed"} /\ keep) =>
        /\ \A i \in held \cup out : container[i] = "up" /\ i \notin asked
        /\ \A i \in Instances \ asked : container[i] \in {"absent", "up"}
        /\ \A i, j \in asked : i = j
        /\ held \cup out \cup asked \cup orphaned # {} => network = "up"

(* What StartStack returns is ready: all containers run and all the set-up *)
(* that the options ask for was carried out, once for each instance of     *)
(* each kind (stack.go:83-163). It stays so until a cleanup.               *)
ReturnedStackIsReady ==
    (status = "ready" /\ last = "none") =>
        \A i \in Instances : container[i] = "up" /\ applied[i] = work[i]

(* Cleanup drops the error of every TerminateContainer, but Docker does    *)
(* not remove a network in use: a Cleanup that returns nil has left no     *)
(* container running (stack.go:167-180).                                   *)
SilentCleanupIsComplete ==
    last = "ok" => network = "removed" /\ \A i \in Instances : container[i] # "up"

(* The documented order (stack.go:16-19): set-up begins when every         *)
(* container runs, and no instance is seeded before all the migrations of  *)
(* all databases are applied ("Seeds always run after migrations",         *)
(* migration.go:49-50).                                                    *)
SetupInOrder ==
    [][\A i \in Instances : applied'[i] # applied[i] =>
          /\ \A j \in Instances : container[j] = "up"
          /\ "seed" \in applied'[i] =>
                \A j \in Instances : "migrate" \in work[j] => "migrate" \in applied[j]]_vars

(* "callers do not need to call it explicitly" (result.go:8-9): with a t   *)
(* and without keep, every run comes to an end at which each container was *)
(* terminated, however StartStack and the calls of Cleanup went.           *)
EventuallyTornDown ==
    (hasT /\ ~keep) ~>
        /\ status \in {"failed", "ended"}
        /\ \A i \in Instances : container[i] = "absent" \/ i \in asked \cup orphaned

-----------------------------------------------------------------------------

(* The invariant behind them: how far StartStack or a teardown has come    *)
(* says which instances the maps hold, which of them run, and what was     *)
(* set up or terminated.                                                   *)
OptionsFit == \A i \in Instances : work[i] \subseteq SetupsOf(kind[i])

NothingYet ==
    status = "called" =>
        /\ pos = 1 /\ todo = {} /\ held = {} /\ out = {}
        /\ network = "absent" /\ asked = {} /\ orphaned = {} /\ last = "none"
        /\ \A i \in Instances : container[i] = "absent" /\ applied[i] = {}

StartedSoFar ==
    status = "running" =>
        /\ network = "up" /\ asked = {} /\ orphaned = {} /\ last = "none"
        /\ todo \subseteq Visited(pos)
        /\ \A i \in Instances : container[i] = IF i \in held \cup out THEN "up" ELSE "absent"
        /\ \A i \in held : \E n \in 1..(pos - 1) :
              Phases[n].act = "start" /\ Phases[n].kind = kind[i]
        /\ \A i \in out : /\ i \notin todo
                          /\ Phases[pos].act = "start" /\ Phases[pos].kind = kind[i]
        /\ \A i \in Instances, n \in 1..pos :
              (Phases[n].act = "start" /\ Phases[n].kind = kind[i]) =>
                  i \in held \/ (n = pos /\ i \in out \cup todo)

SetUpSoFar ==
    status = "running" => \A i \in Instances :
        /\ \A s \in applied[i] : s \in work[i] /\ \E n \in 1..pos : Phases[n].act = s
        /\ \A n \in 1..pos : (Phases[n].act \in work[i] /\ Phases[n].kind = kind[i]) =>
              Phases[n].act \in applied[i] \/ (n = pos /\ i \in todo)

UndoneSoFar ==
    status \in {"undoing", "failed"} =>
        /\ last = "none"
        /\ status = "failed" => todo = {}
        /\ ~keep => held \cup out \subseteq todo \cup asked
        /\ keep => todo = {}
        /\ \A i \in Instances : container[i] \in {"up", "stopped"} =>
              i \in held \cup out \cup asked \cup orphaned

IInv ==
    /\ TypeOK
    /\ OptionsFit
    /\ NothingYet
    /\ StartedSoFar
    /\ SetUpSoFar
    /\ UndoneSoFar
    /\ FailureKeepsForInspection
    /\ ReturnedStackIsReady
    /\ SilentCleanupIsComplete

-----------------------------------------------------------------------------

(* "a Cleanup function that terminates every container created during      *)
(* startup" (result.go:6-7).                                               *)
CleanupTerminatesAll == last # "none" => \A i \in Instances : i \in asked

=============================================================================
