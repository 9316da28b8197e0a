------------------------ MODULE ReadinessProbeProofs ------------------------
(***************************************************************************)
(* Proofs about ReadinessProbe, for every set of checks.                   *)
(***************************************************************************)
EXTENDS ReadinessProbeProperties, TLAPS

USE NobodyAssumption

LEMMA InitIInv == Init => IInv
  <1> SUFFICES ASSUME Init
               PROVE  IInv
    OBVIOUS
  <1> USE DEF Init
  <1>1. TypeOK
    BY DEF TypeOK, Behaviours, Adapters, Errors
  <1>2. Progress
    BY DEF Progress
  <1>3. Causes
    BY DEF Causes
  <1>4. Verdict
    BY DEF Verdict
  <1> QED
    BY <1>1, <1>2, <1>3, <1>4 DEF IInv

LEMMA TypeOKStep == TypeOK /\ [Next]_vars => TypeOK'
  <1> SUFFICES ASSUME TypeOK, [Next]_vars
               PROVE  TypeOK'
    OBVIOUS
  <1> USE DEF TypeOK, Behaviours, Adapters, Errors, world
  <1>1. ASSUME NEW c \in Checks, DependencyChanges(c)
        PROVE  TypeOK'
    <2>1. PICK b \in Behaviours \ {dependency[c]} :
             /\ dependency' = [dependency EXCEPT ![c] = b]
             /\ seen' = IF phase = "waiting" THEN [seen EXCEPT ![c] = @ \cup {b}] ELSE seen
      BY <1>1 DEF DependencyChanges
    <2>2. seen' \in [Checks -> SUBSET Behaviours]
      BY <2>1
    <2>3. dependency' \in [Checks -> Behaviours]
      BY <2>1
    <2> QED
      BY <1>1, <2>2, <2>3 DEF DependencyChanges
  <1>2. CASE ClientLeaves
    BY <1>2 DEF ClientLeaves
  <1>3. CASE StartChecks
    BY <1>3 DEF StartChecks
  <1>4. CASE DeadlineElapses
    BY <1>4 DEF DeadlineElapses
  <1>5. ASSUME NEW c \in Checks, PingReturns(c)
        PROVE  TypeOK'
    BY <1>5 DEF PingReturns, Outcomes
  <1>6. ASSUME NEW c \in Checks, Lock(c)
        PROVE  TypeOK'
    BY <1>6 DEF Lock
  <1>7. ASSUME NEW c \in Checks, Record(c)
        PROVE  TypeOK'
    BY <1>7 DEF Record, GoroutineFails
  <1>8. CASE Answer
    BY <1>8 DEF Answer, Status
  <1>9. CASE UNCHANGED vars
    BY <1>9 DEF vars
  <1> QED
    BY <1>1, <1>2, <1>3, <1>4, <1>5, <1>6, <1>7, <1>8, <1>9 DEF Next, Terminated

LEMMA ProgressStep == IInv /\ [Next]_vars => Progress'
  <1> SUFFICES ASSUME IInv, [Next]_vars
               PROVE  Progress'
    OBVIOUS
  <1> USE DEF IInv, TypeOK, Progress, world
  <1>1. ASSUME NEW c \in Checks, DependencyChanges(c)
        PROVE  Progress'
    BY <1>1 DEF DependencyChanges
  <1>2. CASE ClientLeaves
    BY <1>2 DEF ClientLeaves
  <1>3. CASE StartChecks
    BY <1>3 DEF StartChecks
  <1>4. CASE DeadlineElapses
    BY <1>4 DEF DeadlineElapses
  <1>5. ASSUME NEW c \in Checks, PingReturns(c)
        PROVE  Progress'
    BY <1>5 DEF PingReturns
  <1>6. ASSUME NEW c \in Checks, Lock(c)
        PROVE  Progress'
    BY <1>6 DEF Lock
  <1>7. ASSUME NEW c \in Checks, Record(c)
        PROVE  Progress'
    BY <1>7 DEF Record
  <1>8. CASE Answer
    BY <1>8 DEF Answer, WaitOver
  <1>9. CASE UNCHANGED vars
    BY <1>9 DEF vars
  <1> QED
    BY <1>1, <1>2, <1>3, <1>4, <1>5, <1>6, <1>7, <1>8, <1>9 DEF Next, Terminated

LEMMA CausesStep == IInv /\ [Next]_vars => Causes'
  <1> SUFFICES ASSUME IInv, [Next]_vars
               PROVE  Causes'
    OBVIOUS
  <1> USE DEF IInv, TypeOK, Causes, world
  <1>1. ASSUME NEW c \in Checks, DependencyChanges(c)
        PROVE  Causes'
    <2>1. PICK b \in Behaviours :
             /\ dependency' = [dependency EXCEPT ![c] = b]
             /\ seen' = IF phase = "waiting" THEN [seen EXCEPT ![c] = @ \cup {b}] ELSE seen
      BY <1>1 DEF DependencyChanges
    <2>2. \A d \in Checks : /\ seen[d] \subseteq seen'[d]
                            /\ phase = "waiting" => dependency'[d] \in seen'[d]
      BY <2>1
    <2> QED
      BY <1>1, <2>2 DEF DependencyChanges
  <1>2. CASE ClientLeaves
    BY <1>2 DEF ClientLeaves
  <1>3. CASE StartChecks
    BY <1>3 DEF StartChecks
  <1>4. CASE DeadlineElapses
    BY <1>4 DEF DeadlineElapses
  <1>5. ASSUME NEW c \in Checks, PingReturns(c)
        PROVE  Causes'
    <2>1. phase = "waiting"
      BY <1>5 DEF PingReturns, Progress
    <2>2. PICK o \in Outcomes(c) : err' = [err EXCEPT ![c] = o]
      BY <1>5 DEF PingReturns
    <2>3. /\ o = "nil" => "up" \in seen[c]
          /\ o = "dependency" =>
                "down" \in seen[c] \/ (adapter[c] = "dialing" /\ "hung" \in seen[c])
          /\ o = "context" => left \/ expired
      BY <2>1, <2>2 DEF Outcomes, Cancelled
    <2> QED
      BY <1>5, <2>2, <2>3 DEF PingReturns
  <1>6. ASSUME NEW c \in Checks, Lock(c)
        PROVE  Causes'
    BY <1>6 DEF Lock
  <1>7. ASSUME NEW c \in Checks, Record(c)
        PROVE  Causes'
    BY <1>7 DEF Record, GoroutineFails
  <1>8. CASE Answer
    BY <1>8 DEF Answer
  <1>9. CASE UNCHANGED vars
    BY <1>9 DEF vars
  <1> QED
    BY <1>1, <1>2, <1>3, <1>4, <1>5, <1>6, <1>7, <1>8, <1>9 DEF Next, Terminated

LEMMA VerdictStep == IInv /\ [Next]_vars => Verdict'
  <1> SUFFICES ASSUME IInv, [Next]_vars
               PROVE  Verdict'
    OBVIOUS
  <1> USE DEF IInv, TypeOK, Verdict, Status, world
  <1>1. ASSUME NEW c \in Checks, DependencyChanges(c)
        PROVE  Verdict'
    BY <1>1 DEF DependencyChanges
  <1>2. CASE ClientLeaves
    BY <1>2 DEF ClientLeaves
  <1>3. CASE StartChecks
    BY <1>3 DEF StartChecks
  <1>4. CASE DeadlineElapses
    BY <1>4 DEF DeadlineElapses
  <1>5. ASSUME NEW c \in Checks, PingReturns(c)
        PROVE  Verdict'
    BY <1>5 DEF PingReturns
  <1>6. ASSUME NEW c \in Checks, Lock(c)
        PROVE  Verdict'
    BY <1>6 DEF Lock
  <1>7. ASSUME NEW c \in Checks, Record(c)
        PROVE  Verdict'
    BY <1>7 DEF Record, Progress
  <1>8. CASE Answer
    BY <1>8 DEF Answer
  <1>9. CASE UNCHANGED vars
    BY <1>9 DEF vars
  <1> QED
    BY <1>1, <1>2, <1>3, <1>4, <1>5, <1>6, <1>7, <1>8, <1>9 DEF Next, Terminated

LEMMA IInvAlways == Spec => []IInv
  <1>1. IInv /\ [Next]_vars => IInv'
    BY TypeOKStep, ProgressStep, CausesStep, VerdictStep DEF IInv
  <1> QED
    BY <1>1, InitIInv, PTL DEF Spec

-----------------------------------------------------------------------------

(* The variables of runChecks keep their types in every evaluation.        *)
THEOREM TypeCorrect == Spec => []TypeOK
  <1>1. IInv => TypeOK
    BY DEF IInv
  <1> QED
    BY <1>1, IInvAlways, PTL

(* core.go:92-104: no two goroutines write resp.Checks at once, and none   *)
(* writes it once the verdict loop may read it.                            *)
THEOREM ResultsGuarded == Spec => []ResultsAreGuarded
  <1>1. IInv => ResultsAreGuarded
    BY DEF IInv, TypeOK, Progress, ResultsAreGuarded
  <1> QED
    BY <1>1, IInvAlways, PTL

(* core.go:64-66: every configured check is in the answer, and no          *)
(* goroutine of the evaluation survives it.                                *)
THEOREM AnswersComplete == Spec => []AnswerIsComplete
  <1>1. IInv => AnswerIsComplete
    BY DEF IInv, TypeOK, Progress, AnswerIsComplete, Errors
  <1> QED
    BY <1>1, IInvAlways, PTL

(* core.go:104-112: a 200 says that every dependency was up during the     *)
(* evaluation.                                                             *)
THEOREM ReadyEarned == Spec => []ReadyIsEarned
  <1>1. IInv => ReadyIsEarned
    <2> SUFFICES ASSUME IInv, code = 200, NEW c \in Checks
                 PROVE  "up" \in seen[c]
      BY DEF ReadyIsEarned
    <2> USE DEF IInv, TypeOK, Errors
    <2>1. phase = "answered" /\ Status = 200
      BY DEF Verdict
    <2>2. results[c] \in {"nil", "missing"}
      BY <2>1 DEF Status
    <2>3. goroutine[c] = "done" /\ err[c] = results[c]
      BY <2>1 DEF Progress
    <2>4. err[c] = "nil"
      BY <2>2, <2>3
    <2> QED
      BY <2>3, <2>4 DEF Causes
  <1> QED
    BY <1>1, IInvAlways, PTL

(* core.go:63-66: a check fails for its own reason, never because a        *)
(* sibling failed, and a 503 names a check that failed.                    *)
THEOREM FailureEarned == Spec => []FailureIsEarned
  <1>1. IInv => FailureIsEarned
    <2> SUFFICES ASSUME IInv
                 PROVE  FailureIsEarned
      OBVIOUS
    <2> USE DEF IInv, TypeOK, Errors
    <2>1. ASSUME NEW c \in Checks, results[c] \in {"dependency", "context"}
          PROVE  goroutine[c] = "done" /\ err[c] = results[c]
      BY <2>1 DEF Progress
    <2>2. ASSUME code = 503
          PROVE  \E c \in Checks : results[c] \in {"dependency", "context"}
      BY <2>2 DEF Verdict, Status
    <2> QED
      BY <2>1, <2>2 DEF FailureIsEarned, Causes
  <1> QED
    BY <1>1, IInvAlways, PTL

=============================================================================
