---------------------- MODULE ReadinessProbeProperties ----------------------
(***************************************************************************)
(* What /health/readyz guarantees to the kubelet and the operator, and     *)
(* what its contract (specs/001-health-probes/contracts) claims of it.     *)
(***************************************************************************)
EXTENDS ReadinessProbe

(* A Go map written by two goroutines at once, or read while it is         *)
(* written, kills the process: recording excludes recording, and the       *)
(* verdict loop runs after the last of them (core.go:92-98, 102-104).      *)
ResultsAreGuarded ==
    \A c \in Checks : goroutine[c] = "recording" =>
        /\ mu = c
        /\ phase = "waiting"
        /\ \A d \in Checks : goroutine[d] = "recording" => d = c

(* "Every configured check appears in the response body regardless of the  *)
(* others' outcomes" (core.go:64-66), and no goroutine of the evaluation   *)
(* is left behind to write into an answer already given.                   *)
AnswerIsComplete ==
    phase = "answered" =>
        \A c \in Checks : results[c] # "missing" /\ goroutine[c] = "done"

(* A 200 is earned: every dependency was up at some moment of this very    *)
(* evaluation (core.go:67-71; contract G-5, no caching).                   *)
ReadyIsEarned ==
    code = 200 => \A c \in Checks : "up" \in seen[c]

(* A 503 is earned: some check failed, for its own reason. A dependency's  *)
(* error means that it was down, or could not be dialled, during this      *)
(* evaluation, and a context error that the deadline or the client ended   *)
(* it: "an individual Pinger's failure does NOT cancel sibling Pingers"    *)
(* (core.go:63-64).                                                        *)
FailureIsEarned ==
    /\ \A c \in Checks :
          /\ results[c] = "dependency" =>
                "down" \in seen[c] \/ (adapter[c] = "dialing" /\ "hung" \in seen[c])
          /\ results[c] = "context" => left \/ expired
    /\ code = 503 => \E c \in Checks : results[c] \in {"dependency", "context"}

(* Where every Pinger keeps invariant I-1 of the contract and honours the  *)
(* deadline, an evaluation ends whatever the dependencies do: nothing      *)
(* deadlocks on the mutex and a hung dependency costs the deadline.        *)
AnsweredUnlessDeaf ==
    (\A c \in Checks : adapter[c] # "deaf") ~> (phase = "answered")

-----------------------------------------------------------------------------

(* "The aggregator waits for all pingers to return OR the deadline to      *)
(* elapse, whichever comes first" (pinger-contract.md:48).                 *)
AnsweredAtDeadline == expired ~> (phase = "answered")

-----------------------------------------------------------------------------

(* The invariant behind the safety properties: where a goroutine stands    *)
(* says what it has done, and what it did has a cause.                     *)
Progress ==
    \A c \in Checks :
        /\ phase = "received" <=> goroutine[c] = "none"
        /\ phase = "answered" => goroutine[c] = "done"
        /\ goroutine[c] = "recording" <=> mu = c
        /\ results[c] = IF goroutine[c] = "done" THEN err[c] ELSE "missing"

Causes ==
    /\ ~groupFailed
    /\ \A c \in Checks :
          /\ phase = "waiting" => dependency[c] \in seen[c]
          /\ goroutine[c] \in {"returned", "recording", "done"} =>
                /\ err[c] = "nil" => "up" \in seen[c]
                /\ err[c] = "dependency" =>
                      "down" \in seen[c] \/ (adapter[c] = "dialing" /\ "hung" \in seen[c])
                /\ err[c] = "context" => left \/ expired

Verdict ==
    /\ code # 0 <=> phase = "answered"
    /\ phase = "answered" => code = Status

IInv == TypeOK /\ Progress /\ Causes /\ Verdict

=============================================================================
