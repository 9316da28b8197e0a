------------------------ MODULE StackLifecycleProofs ------------------------
(***************************************************************************)
(* Proofs about StackLifecycle, for every set of instances, every choice   *)
(* of their kinds and options, and every number of cleanups.               *)
(***************************************************************************)
EXTENDS StackLifecycleProperties, TLAPS

USE InstancesAssumption, MaxCleanupsAssumption

(* What the proofs need to know of the order of the phases: each kind is   *)
(* started once, all kinds before any set-up, and the migrations before    *)
(* the seeds.                                                              *)
LEMMA PhasesOrder ==
    /\ Len(Phases) = 14
    /\ \A n \in 1..14 : /\ Phases[n].kind \in Kinds
                        /\ Phases[n].act \in Setups \cup {"start"}
                        /\ Phases[n].act = "start" <=> n <= 6
                        /\ Phases[n].act = "migrate" <=> n \in {7, 8}
                        /\ Phases[n].act = "seed" <=> n \in {9, 10}
    /\ \A m, n \in 1..6 : Phases[m].kind = Phases[n].kind => m = n
    /\ \A k \in Kinds : \E n \in 1..6 : Phases[n].kind = k
  BY DEF Phases, Kinds, Setups

(* The turns of all the loops are of five sorts, whatever the kind.        *)
LEMMA StartStackSteps ==
  ASSUME StartStack
  PROVE  \/ Refused \/ NetworkCreated \/ NextPhase \/ Returned
         \/ \E i \in Instances : \/ ContainerStarted(i) \/ RunFails(i) \/ EndpointFails(i)
                                 \/ SetUp(i) \/ SetUpFails(i)
  BY DEF StartStack, StartOne, startPostgres, startClickHouse, startRedis, startKafka,
     startHTTPMocks, startLocalStack, SetUpOne, applyPostgresMigrations,
     applyClickHouseMigrations, applyPostgresSeeds, applyClickHouseSeeds, RedisFlushAll,
     createAllKafkaTopics, applyMockServerExpectations, runLocalStackInitScripts

(* Whatever its kind, a container is terminated the same way.              *)
LEMMA TerminateSteps ==
  ASSUME NEW i \in Instances,
         \/ terminatePostgres(i) \/ terminateClickHouse(i) \/ terminateRedis(i)
         \/ terminateKafka(i) \/ terminateHTTPMocks(i) \/ terminateLocalStack(i)
  PROVE  Terminate(i)
  BY DEF terminatePostgres, terminateClickHouse, terminateRedis, terminateKafka,
     terminateHTTPMocks, terminateLocalStack

(* The initial states satisfy the inductive invariant.                     *)
LEMMA InvInit == Init => IInv
  BY PhasesOrder DEF Init, IInv, TypeOK, OptionsFit, NothingYet, StartedSoFar, SetUpSoFar,
     UndoneSoFar, FailureKeepsForInspection, ReturnedStackIsReady,
     SilentCleanupIsComplete

(* An instance that is about to be started is in no map yet.               *)
LEMMA StartingIsNew ==
  ASSUME IInv, NEW i \in Instances, Starting(i)
  PROVE  i \notin held /\ i \notin out /\ container[i] = "absent"
  <1> USE DEF IInv, TypeOK, Starting
  <1>1. pos \in 1..14 /\ Phases[pos].kind = kind[i]
    BY PhasesOrder DEF StartedSoFar, Visited
  <1>2. i \notin out
    BY DEF StartedSoFar
  <1>3. ASSUME i \in held
        PROVE  FALSE
    <2>1. PICK n \in 1..(pos - 1) : Phases[n].act = "start" /\ Phases[n].kind = kind[i]
      BY <1>3 DEF StartedSoFar
    <2> QED
      BY <1>1, <2>1, PhasesOrder
  <1> QED
    BY <1>2, <1>3 DEF StartedSoFar

(* The types are kept; the map of a startX never overlaps with the Stack's. *)
LEMMA TypeStep == IInv /\ [Next]_vars => TypeOK'
  <1> SUFFICES ASSUME IInv, [Next]_vars
               PROVE  TypeOK'
    OBVIOUS
  <1> USE DEF IInv, TypeOK, options, docker
  <1>1. CASE Refused
    BY <1>1, PhasesOrder DEF Refused
  <1>2. CASE NetworkCreated
    BY <1>2, PhasesOrder DEF NetworkCreated, Visited
  <1>3. ASSUME NEW i \in Instances, ContainerStarted(i)
       PROVE  TypeOK'
    BY <1>3, StartingIsNew, PhasesOrder DEF ContainerStarted, Starting
  <1>4. ASSUME NEW i \in Instances, RunFails(i)
       PROVE  TypeOK'
    BY <1>4, PhasesOrder DEF RunFails, Starting, StepFails, ToUndo
  <1>5. ASSUME NEW i \in Instances, EndpointFails(i)
       PROVE  TypeOK'
    BY <1>5, PhasesOrder DEF EndpointFails, Starting, StepFails, ToUndo, Terminated
  <1>6. ASSUME NEW i \in Instances, SetUp(i)
       PROVE  TypeOK'
    BY <1>6, PhasesOrder DEF SetUp, SettingUp
  <1>7. ASSUME NEW i \in Instances, SetUpFails(i)
       PROVE  TypeOK'
    BY <1>7, PhasesOrder DEF SetUpFails, SettingUp, StepFails, ToUndo
  <1>8. CASE NextPhase
    <2>1. pos' \in 1..14
      BY <1>8, PhasesOrder DEF NextPhase, Following
    <2> QED
      BY <1>8, <2>1, PhasesOrder DEF NextPhase, Following, FreshMap, Visited
  <1>9. CASE Returned
    BY <1>9, PhasesOrder DEF Returned
  <1>10. ASSUME NEW i \in Instances, Terminate(i)
       PROVE  TypeOK'
    BY <1>10, PhasesOrder DEF Terminate, Terminated
  <1>11. CASE UndoRemovesNetwork
    BY <1>11, PhasesOrder DEF UndoRemovesNetwork, Removable
  <1>12. CASE Cleanup
    BY <1>12, PhasesOrder DEF Cleanup, ToClean
  <1>13. CASE TestEnds
    BY <1>13, PhasesOrder DEF TestEnds, ToClean
  <1>14. CASE CleanupRemovesNetwork
    BY <1>14, PhasesOrder DEF CleanupRemovesNetwork, Removable, Report
  <1>15. CASE UNCHANGED vars
    BY <1>15 DEF vars
  <1> QED
    BY <1>1, <1>2, <1>3, <1>4, <1>5, <1>6, <1>7, <1>8, <1>9, <1>10, <1>11, <1>12, <1>13, <1>14, <1>15,
       StartStackSteps, TerminateSteps DEF Next, Stopped

(* No step leads back to a call that has done nothing.                     *)
LEMMA NothingStep == IInv /\ [Next]_vars => (NothingYet /\ OptionsFit)'
  <1> SUFFICES ASSUME IInv, [Next]_vars
               PROVE  (NothingYet /\ OptionsFit)'
    OBVIOUS
  <1> USE DEF IInv, OptionsFit, NothingYet, options, docker
  <1>1. CASE Refused
    BY <1>1 DEF Refused
  <1>2. CASE NetworkCreated
    BY <1>2 DEF NetworkCreated
  <1>3. ASSUME NEW i \in Instances, ContainerStarted(i)
       PROVE  (NothingYet /\ OptionsFit)'
    BY <1>3 DEF ContainerStarted, Starting
  <1>4. ASSUME NEW i \in Instances, RunFails(i)
       PROVE  (NothingYet /\ OptionsFit)'
    BY <1>4 DEF RunFails, Starting, StepFails, ToUndo
  <1>5. ASSUME NEW i \in Instances, EndpointFails(i)
       PROVE  (NothingYet /\ OptionsFit)'
    BY <1>5 DEF EndpointFails, Starting, StepFails, ToUndo, Terminated
  <1>6. ASSUME NEW i \in Instances, SetUp(i)
       PROVE  (NothingYet /\ OptionsFit)'
    BY <1>6 DEF SetUp, SettingUp
  <1>7. ASSUME NEW i \in Instances, SetUpFails(i)
       PROVE  (NothingYet /\ OptionsFit)'
    BY <1>7 DEF SetUpFails, SettingUp, StepFails, ToUndo
  <1>8. CASE NextPhase
    BY <1>8 DEF NextPhase, Following, FreshMap
  <1>9. CASE Returned
    BY <1>9 DEF Returned
  <1>10. ASSUME NEW i \in Instances, Terminate(i)
       PROVE  (NothingYet /\ OptionsFit)'
    BY <1>10 DEF Terminate, Terminated
  <1>11. CASE UndoRemovesNetwork
    BY <1>11 DEF UndoRemovesNetwork, Removable
  <1>12. CASE Cleanup
    BY <1>12 DEF Cleanup, ToClean
  <1>13. CASE TestEnds
    BY <1>13 DEF TestEnds, ToClean
  <1>14. CASE CleanupRemovesNetwork
    BY <1>14 DEF CleanupRemovesNetwork, Removable, Report
  <1>15. CASE UNCHANGED vars
    BY <1>15 DEF vars
  <1> QED
    BY <1>1, <1>2, <1>3, <1>4, <1>5, <1>6, <1>7, <1>8, <1>9, <1>10, <1>11, <1>12, <1>13, <1>14, <1>15,
       StartStackSteps, TerminateSteps DEF Next, Stopped

(* A container runs exactly when a map holds its instance.                 *)
LEMMA StartedStep == IInv /\ [Next]_vars => StartedSoFar'
  <1> SUFFICES ASSUME IInv, [Next]_vars
               PROVE  StartedSoFar'
    OBVIOUS
  <1> USE DEF IInv, TypeOK, NothingYet, options, docker
  <1>1. CASE Refused
    BY <1>1 DEF Refused, StartedSoFar
  <1>2. CASE NetworkCreated
    <2>1. (network = "up" /\ asked = {} /\ orphaned = {} /\ last = "none")'
      BY <1>2, PhasesOrder DEF NetworkCreated, StartedSoFar, Visited
    <2>2. (todo \subseteq Visited(pos))'
      BY <1>2, PhasesOrder DEF NetworkCreated, StartedSoFar, Visited
    <2>3. (\A i \in Instances : container[i] = IF i \in held \cup out THEN "up" ELSE "absent")'
      BY <1>2, PhasesOrder DEF NetworkCreated, StartedSoFar, Visited
    <2>4. (\A i \in held : \E n \in 1..(pos - 1) :
            Phases[n].act = "start" /\ Phases[n].kind = kind[i])'
      BY <1>2, PhasesOrder DEF NetworkCreated, StartedSoFar, Visited
    <2>5. (\A i \in out : /\ i \notin todo
                         /\ Phases[pos].act = "start" /\ Phases[pos].kind = kind[i])'
      BY <1>2, PhasesOrder DEF NetworkCreated, StartedSoFar, Visited
    <2>6. (\A i \in Instances, n \in 1..pos :
            (Phases[n].act = "start" /\ Phases[n].kind = kind[i]) =>
                i \in held \/ (n = pos /\ i \in out \cup todo))'
      BY <1>2, PhasesOrder DEF NetworkCreated, StartedSoFar, Visited
    <2> QED
      BY <2>1, <2>2, <2>3, <2>4, <2>5, <2>6 DEF StartedSoFar
  <1>3. ASSUME NEW i \in Instances, ContainerStarted(i)
       PROVE  StartedSoFar'
    <2>1. (network = "up" /\ asked = {} /\ orphaned = {} /\ last = "none")'
      BY <1>3, PhasesOrder, StartingIsNew DEF ContainerStarted, Starting, StartedSoFar, Visited
    <2>2. (todo \subseteq Visited(pos))'
      BY <1>3, PhasesOrder, StartingIsNew DEF ContainerStarted, Starting, StartedSoFar, Visited
    <2>3. (\A j \in Instances : container[j] = IF j \in held \cup out THEN "up" ELSE "absent")'
      BY <1>3, PhasesOrder, StartingIsNew DEF ContainerStarted, Starting, StartedSoFar, Visited
    <2>4. (\A j \in held : \E n \in 1..(pos - 1) :
            Phases[n].act = "start" /\ Phases[n].kind = kind[j])'
      BY <1>3, PhasesOrder, StartingIsNew DEF ContainerStarted, Starting, StartedSoFar, Visited
    <2>5. (\A j \in out : /\ j \notin todo
                         /\ Phases[pos].act = "start" /\ Phases[pos].kind = kind[j])'
      BY <1>3, PhasesOrder, StartingIsNew DEF ContainerStarted, Starting, StartedSoFar, Visited
    <2>6. (\A j \in Instances, n \in 1..pos :
            (Phases[n].act = "start" /\ Phases[n].kind = kind[j]) =>
                j \in held \/ (n = pos /\ j \in out \cup todo))'
      BY <1>3, PhasesOrder, StartingIsNew DEF ContainerStarted, Starting, StartedSoFar, Visited
    <2> QED
      BY <2>1, <2>2, <2>3, <2>4, <2>5, <2>6 DEF StartedSoFar
  <1>4. ASSUME NEW i \in Instances, RunFails(i)
       PROVE  StartedSoFar'
    BY <1>4 DEF RunFails, StepFails, StartedSoFar
  <1>5. ASSUME NEW i \in Instances, EndpointFails(i)
       PROVE  StartedSoFar'
    BY <1>5 DEF EndpointFails, StepFails, StartedSoFar
  <1>6. ASSUME NEW i \in Instances, SetUp(i)
       PROVE  StartedSoFar'
    <2>1. (network = "up" /\ asked = {} /\ orphaned = {} /\ last = "none")'
      BY <1>6, PhasesOrder DEF SetUp, SettingUp, StartedSoFar, Visited
    <2>2. (todo \subseteq Visited(pos))'
      BY <1>6, PhasesOrder DEF SetUp, SettingUp, StartedSoFar, Visited
    <2>3. (\A j \in Instances : container[j] = IF j \in held \cup out THEN "up" ELSE "absent")'
      BY <1>6, PhasesOrder DEF SetUp, SettingUp, StartedSoFar, Visited
    <2>4. (\A j \in held : \E n \in 1..(pos - 1) :
            Phases[n].act = "start" /\ Phases[n].kind = kind[j])'
      BY <1>6, PhasesOrder DEF SetUp, SettingUp, StartedSoFar, Visited
    <2>5. (\A j \in out : /\ j \notin todo
                         /\ Phases[pos].act = "start" /\ Phases[pos].kind = kind[j])'
      BY <1>6, PhasesOrder DEF SetUp, SettingUp, StartedSoFar, Visited
    <2>6. (\A j \in Instances, n \in 1..pos :
            (Phases[n].act = "start" /\ Phases[n].kind = kind[j]) =>
                j \in held \/ (n = pos /\ j \in out \cup todo))'
      BY <1>6, PhasesOrder DEF SetUp, SettingUp, StartedSoFar, Visited
    <2> QED
      BY <2>1, <2>2, <2>3, <2>4, <2>5, <2>6 DEF StartedSoFar
  <1>7. ASSUME NEW i \in Instances, SetUpFails(i)
       PROVE  StartedSoFar'
    BY <1>7 DEF SetUpFails, StepFails, StartedSoFar
  <1>8. CASE NextPhase
    <2>1. (network = "up" /\ asked = {} /\ orphaned = {} /\ last = "none")'
      BY <1>8, PhasesOrder DEF NextPhase, Following, FreshMap, StartedSoFar, Visited
    <2>2. (todo \subseteq Visited(pos))'
      BY <1>8, PhasesOrder DEF NextPhase, Following, FreshMap, StartedSoFar, Visited
    <2>3. (\A i \in Instances : container[i] = IF i \in held \cup out THEN "up" ELSE "absent")'
      BY <1>8, PhasesOrder DEF NextPhase, Following, FreshMap, StartedSoFar, Visited
    <2>4. (\A i \in held : \E n \in 1..(pos - 1) :
            Phases[n].act = "start" /\ Phases[n].kind = kind[i])'
      BY <1>8, PhasesOrder DEF NextPhase, Following, FreshMap, StartedSoFar, Visited
    <2>5. (\A i \in out : /\ i \notin todo
                         /\ Phases[pos].act = "start" /\ Phases[pos].kind = kind[i])'
      BY <1>8, PhasesOrder DEF NextPhase, Following, FreshMap, StartedSoFar, Visited
    <2>6. (\A i \in Instances, n \in 1..pos :
            (Phases[n].act = "start" /\ Phases[n].kind = kind[i]) =>
                i \in held \/ (n = pos /\ i \in out \cup todo))'
      BY <1>8, PhasesOrder DEF NextPhase, Following, FreshMap, StartedSoFar, Visited
    <2> QED
      BY <2>1, <2>2, <2>3, <2>4, <2>5, <2>6 DEF StartedSoFar
  <1>9. CASE Returned
    BY <1>9 DEF Returned, StartedSoFar
  <1>10. ASSUME NEW i \in Instances, Terminate(i)
       PROVE  StartedSoFar'
    BY <1>10 DEF Terminate, StartedSoFar
  <1>11. CASE UndoRemovesNetwork
    BY <1>11 DEF UndoRemovesNetwork, StartedSoFar
  <1>12. CASE Cleanup
    BY <1>12 DEF Cleanup, StartedSoFar
  <1>13. CASE TestEnds
    BY <1>13 DEF TestEnds, StartedSoFar
  <1>14. CASE CleanupRemovesNetwork
    BY <1>14 DEF CleanupRemovesNetwork, StartedSoFar
  <1>15. CASE UNCHANGED vars
    BY <1>15 DEF vars, StartedSoFar, Visited
  <1> QED
    BY <1>1, <1>2, <1>3, <1>4, <1>5, <1>6, <1>7, <1>8, <1>9, <1>10, <1>11, <1>12, <1>13, <1>14, <1>15,
       StartStackSteps, TerminateSteps DEF Next, Stopped

(* Set-up proceeds phase by phase, and only as the options ask.            *)
LEMMA SetUpStep == IInv /\ [Next]_vars => SetUpSoFar'
  <1> SUFFICES ASSUME IInv, [Next]_vars
               PROVE  SetUpSoFar'
    OBVIOUS
  <1> USE DEF IInv, TypeOK, NothingYet, StartedSoFar, SetUpSoFar, OptionsFit, options, docker
  <1>1. CASE Refused
    BY <1>1, PhasesOrder DEF Refused
  <1>2. CASE NetworkCreated
    <2>1. /\ pos' = 1 /\ Phases[1].act = "start"
          /\ \A i \in Instances : applied'[i] = {} /\ "start" \notin work'[i]
      BY <1>2, PhasesOrder DEF NetworkCreated, Setups
    <2> QED
      BY <1>2, <2>1 DEF NetworkCreated
  <1>3. ASSUME NEW i \in Instances, ContainerStarted(i)
       PROVE  SetUpSoFar'
    <2> SUFFICES ASSUME NEW j \in Instances, status = "running"
                 PROVE  /\ \A s \in applied'[j] :
                              s \in work[j] /\ \E n \in 1..pos' : Phases[n].act = s
                        /\ \A n \in 1..pos' :
                              (Phases[n].act \in work[j] /\ Phases[n].kind = kind[j]) =>
                                  Phases[n].act \in applied'[j] \/ (n = pos' /\ j \in todo')
      BY <1>3 DEF ContainerStarted, Starting
    <2>1. /\ pos \in 1..14
          /\ work[j] \subseteq Setups /\ "start" \notin Setups
          /\ \A s \in applied[j] : s \in work[j] /\ \E n \in 1..pos : Phases[n].act = s
          /\ \A n \in 1..pos : (Phases[n].act \in work[j] /\ Phases[n].kind = kind[j]) =>
                Phases[n].act \in applied[j] \/ (n = pos /\ j \in todo)
      BY PhasesOrder DEF Setups
    <2>2. \A s \in applied'[j] : s \in work[j] /\ \E n \in 1..pos' : Phases[n].act = s
      BY <1>3, <2>1, PhasesOrder DEF ContainerStarted, Starting, Visited
    <2>3. ASSUME NEW n \in 1..pos', Phases[n].act \in work[j], Phases[n].kind = kind[j]
          PROVE  Phases[n].act \in applied'[j] \/ (n = pos' /\ j \in todo')
      BY <1>3, <2>1, <2>3, PhasesOrder DEF ContainerStarted, Starting, Visited
    <2> QED
      BY <2>2, <2>3
  <1>4. ASSUME NEW i \in Instances, RunFails(i)
       PROVE  SetUpSoFar'
    BY <1>4, PhasesOrder DEF RunFails, Starting, StepFails, ToUndo
  <1>5. ASSUME NEW i \in Instances, EndpointFails(i)
       PROVE  SetUpSoFar'
    BY <1>5, PhasesOrder DEF EndpointFails, Starting, StepFails, ToUndo, Terminated
  <1>6. ASSUME NEW i \in Instances, SetUp(i)
       PROVE  SetUpSoFar'
    <2> SUFFICES ASSUME NEW j \in Instances, status = "running"
                 PROVE  /\ \A s \in applied'[j] :
                              s \in work[j] /\ \E n \in 1..pos' : Phases[n].act = s
                        /\ \A n \in 1..pos' :
                              (Phases[n].act \in work[j] /\ Phases[n].kind = kind[j]) =>
                                  Phases[n].act \in applied'[j] \/ (n = pos' /\ j \in todo')
      BY <1>6 DEF SetUp, SettingUp
    <2>1. /\ pos \in 1..14
          /\ work[j] \subseteq Setups /\ "start" \notin Setups
          /\ \A s \in applied[j] : s \in work[j] /\ \E n \in 1..pos : Phases[n].act = s
          /\ \A n \in 1..pos : (Phases[n].act \in work[j] /\ Phases[n].kind = kind[j]) =>
                Phases[n].act \in applied[j] \/ (n = pos /\ j \in todo)
      BY PhasesOrder DEF Setups
    <2>2. \A s \in applied'[j] : s \in work[j] /\ \E n \in 1..pos' : Phases[n].act = s
      BY <1>6, <2>1, PhasesOrder DEF SetUp, SettingUp, Visited
    <2>3. ASSUME NEW n \in 1..pos', Phases[n].act \in work[j], Phases[n].kind = kind[j]
          PROVE  Phases[n].act \in applied'[j] \/ (n = pos' /\ j \in todo')
      BY <1>6, <2>1, <2>3, PhasesOrder DEF SetUp, SettingUp, Visited
    <2> QED
      BY <2>2, <2>3
  <1>7. ASSUME NEW i \in Instances, SetUpFails(i)
       PROVE  SetUpSoFar'
    BY <1>7, PhasesOrder DEF SetUpFails, SettingUp, StepFails, ToUndo
  <1>8. CASE NextPhase
    <2> SUFFICES ASSUME NEW j \in Instances, status = "running"
                 PROVE  /\ \A s \in applied'[j] :
                              s \in work[j] /\ \E n \in 1..pos' : Phases[n].act = s
                        /\ \A n \in 1..pos' :
                              (Phases[n].act \in work[j] /\ Phases[n].kind = kind[j]) =>
                                  Phases[n].act \in applied'[j] \/ (n = pos' /\ j \in todo')
      BY <1>8 DEF NextPhase, Following, FreshMap
    <2>1. /\ pos \in 1..14
          /\ work[j] \subseteq Setups /\ "start" \notin Setups
          /\ \A s \in applied[j] : s \in work[j] /\ \E n \in 1..pos : Phases[n].act = s
          /\ \A n \in 1..pos : (Phases[n].act \in work[j] /\ Phases[n].kind = kind[j]) =>
                Phases[n].act \in applied[j] \/ (n = pos /\ j \in todo)
      BY PhasesOrder DEF Setups
    <2>2. \A s \in applied'[j] : s \in work[j] /\ \E n \in 1..pos' : Phases[n].act = s
      BY <1>8, <2>1, PhasesOrder DEF NextPhase, Following, FreshMap, Visited
    <2>3. ASSUME NEW n \in 1..pos', Phases[n].act \in work[j], Phases[n].kind = kind[j]
          PROVE  Phases[n].act \in applied'[j] \/ (n = pos' /\ j \in todo')
      BY <1>8, <2>1, <2>3, PhasesOrder DEF NextPhase, Following, FreshMap, Visited
    <2> QED
      BY <2>2, <2>3
  <1>9. CASE Returned
    BY <1>9, PhasesOrder DEF Returned
  <1>10. ASSUME NEW i \in Instances, Terminate(i)
       PROVE  SetUpSoFar'
    BY <1>10, PhasesOrder DEF Terminate, Terminated
  <1>11. CASE UndoRemovesNetwork
    BY <1>11, PhasesOrder DEF UndoRemovesNetwork, Removable
  <1>12. CASE Cleanup
    BY <1>12, PhasesOrder DEF Cleanup, ToClean
  <1>13. CASE TestEnds
    BY <1>13, PhasesOrder DEF TestEnds, ToClean
  <1>14. CASE CleanupRemovesNetwork
    BY <1>14, PhasesOrder DEF CleanupRemovesNetwork, Removable, Report
  <1>15. CASE UNCHANGED vars
    BY <1>15 DEF vars
  <1> QED
    BY <1>1, <1>2, <1>3, <1>4, <1>5, <1>6, <1>7, <1>8, <1>9, <1>10, <1>11, <1>12, <1>13, <1>14, <1>15,
       StartStackSteps, TerminateSteps DEF Next, Stopped

(* A failed step terminates what the maps hold, or keeps it all.           *)
LEMMA UndoneStep == IInv /\ [Next]_vars => UndoneSoFar'
  <1> SUFFICES ASSUME IInv, [Next]_vars
               PROVE  UndoneSoFar'
    OBVIOUS
  <1> USE DEF IInv, TypeOK, NothingYet, StartedSoFar, UndoneSoFar, options, docker
  <1>1. CASE Refused
    BY <1>1, PhasesOrder DEF Refused
  <1>2. CASE NetworkCreated
    BY <1>2, PhasesOrder DEF NetworkCreated
  <1>3. ASSUME NEW i \in Instances, ContainerStarted(i)
       PROVE  UndoneSoFar'
    BY <1>3, PhasesOrder DEF ContainerStarted, Starting
  <1>4. ASSUME NEW i \in Instances, RunFails(i)
       PROVE  UndoneSoFar'
    BY <1>4, PhasesOrder DEF RunFails, Starting, StepFails, ToUndo
  <1>5. ASSUME NEW i \in Instances, EndpointFails(i)
       PROVE  UndoneSoFar'
    <2>1. i \notin held \cup out
      BY <1>5, StartingIsNew DEF EndpointFails
    <2> QED
      BY <1>5, <2>1 DEF EndpointFails, Starting, StepFails, ToUndo, Terminated
  <1>6. ASSUME NEW i \in Instances, SetUp(i)
       PROVE  UndoneSoFar'
    BY <1>6, PhasesOrder DEF SetUp, SettingUp
  <1>7. ASSUME NEW i \in Instances, SetUpFails(i)
       PROVE  UndoneSoFar'
    BY <1>7, PhasesOrder DEF SetUpFails, SettingUp, StepFails, ToUndo
  <1>8. CASE NextPhase
    BY <1>8, PhasesOrder DEF NextPhase, Following, FreshMap
  <1>9. CASE Returned
    BY <1>9, PhasesOrder DEF Returned
  <1>10. ASSUME NEW i \in Instances, Terminate(i)
       PROVE  UndoneSoFar'
    BY <1>10, PhasesOrder DEF Terminate, Terminated
  <1>11. CASE UndoRemovesNetwork
    BY <1>11, PhasesOrder DEF UndoRemovesNetwork, Removable
  <1>12. CASE Cleanup
    BY <1>12, PhasesOrder DEF Cleanup, ToClean
  <1>13. CASE TestEnds
    BY <1>13, PhasesOrder DEF TestEnds, ToClean
  <1>14. CASE CleanupRemovesNetwork
    BY <1>14, PhasesOrder DEF CleanupRemovesNetwork, Removable, Report
  <1>15. CASE UNCHANGED vars
    BY <1>15 DEF vars
  <1> QED
    BY <1>1, <1>2, <1>3, <1>4, <1>5, <1>6, <1>7, <1>8, <1>9, <1>10, <1>11, <1>12, <1>13, <1>14, <1>15,
       StartStackSteps, TerminateSteps DEF Next, Stopped

(* Under keep a failed step leaves all but the one container whose         *)
(* endpoints could not be looked up.                                       *)
LEMMA KeptStep == IInv /\ [Next]_vars => FailureKeepsForInspection'
  <1> SUFFICES ASSUME IInv, [Next]_vars
               PROVE  FailureKeepsForInspection'
    OBVIOUS
  <1> USE DEF IInv, TypeOK, NothingYet, StartedSoFar, UndoneSoFar,
              FailureKeepsForInspection, options, docker
  <1>1. CASE Refused
    BY <1>1, PhasesOrder DEF Refused
  <1>2. CASE NetworkCreated
    BY <1>2, PhasesOrder DEF NetworkCreated
  <1>3. ASSUME NEW i \in Instances, ContainerStarted(i)
       PROVE  FailureKeepsForInspection'
    BY <1>3, PhasesOrder DEF ContainerStarted, Starting
  <1>4. ASSUME NEW i \in Instances, RunFails(i)
       PROVE  FailureKeepsForInspection'
    BY <1>4, PhasesOrder DEF RunFails, Starting, StepFails, ToUndo
  <1>5. ASSUME NEW i \in Instances, EndpointFails(i)
       PROVE  FailureKeepsForInspection'
    <2>1. i \notin held \cup out
      BY <1>5, StartingIsNew DEF EndpointFails
    <2> QED
      BY <1>5, <2>1 DEF EndpointFails, Starting, StepFails, ToUndo, Terminated
  <1>6. ASSUME NEW i \in Instances, SetUp(i)
       PROVE  FailureKeepsForInspection'
    BY <1>6, PhasesOrder DEF SetUp, SettingUp
  <1>7. ASSUME NEW i \in Instances, SetUpFails(i)
       PROVE  FailureKeepsForInspection'
    BY <1>7, PhasesOrder DEF SetUpFails, SettingUp, StepFails, ToUndo
  <1>8. CASE NextPhase
    BY <1>8, PhasesOrder DEF NextPhase, Following, FreshMap
  <1>9. CASE Returned
    BY <1>9, PhasesOrder DEF Returned
  <1>10. ASSUME NEW i \in Instances, Terminate(i)
       PROVE  FailureKeepsForInspection'
    BY <1>10, PhasesOrder DEF Terminate, Terminated
  <1>11. CASE UndoRemovesNetwork
    BY <1>11, PhasesOrder DEF UndoRemovesNetwork, Removable
  <1>12. CASE Cleanup
    BY <1>12, PhasesOrder DEF Cleanup, ToClean
  <1>13. CASE TestEnds
    BY <1>13, PhasesOrder DEF TestEnds, ToClean
  <1>14. CASE CleanupRemovesNetwork
    BY <1>14, PhasesOrder DEF CleanupRemovesNetwork, Removable, Report
  <1>15. CASE UNCHANGED vars
    BY <1>15 DEF vars
  <1> QED
    BY <1>1, <1>2, <1>3, <1>4, <1>5, <1>6, <1>7, <1>8, <1>9, <1>10, <1>11, <1>12, <1>13, <1>14, <1>15,
       StartStackSteps, TerminateSteps DEF Next, Stopped

(* When the last loop is over, every loop is.                              *)
LEMMA ReadyStep == IInv /\ [Next]_vars => ReturnedStackIsReady'
  <1> SUFFICES ASSUME IInv, [Next]_vars
               PROVE  ReturnedStackIsReady'
    OBVIOUS
  <1> USE DEF IInv, TypeOK, OptionsFit, StartedSoFar, SetUpSoFar, ReturnedStackIsReady, options, docker
  <1>1. CASE Refused
    BY <1>1, PhasesOrder DEF Refused
  <1>2. CASE NetworkCreated
    BY <1>2, PhasesOrder DEF NetworkCreated
  <1>3. ASSUME NEW i \in Instances, ContainerStarted(i)
       PROVE  ReturnedStackIsReady'
    BY <1>3, PhasesOrder DEF ContainerStarted, Starting
  <1>4. ASSUME NEW i \in Instances, RunFails(i)
       PROVE  ReturnedStackIsReady'
    BY <1>4, PhasesOrder DEF RunFails, Starting, StepFails, ToUndo
  <1>5. ASSUME NEW i \in Instances, EndpointFails(i)
       PROVE  ReturnedStackIsReady'
    BY <1>5, PhasesOrder DEF EndpointFails, Starting, StepFails, ToUndo, Terminated
  <1>6. ASSUME NEW i \in Instances, SetUp(i)
       PROVE  ReturnedStackIsReady'
    BY <1>6, PhasesOrder DEF SetUp, SettingUp
  <1>7. ASSUME NEW i \in Instances, SetUpFails(i)
       PROVE  ReturnedStackIsReady'
    BY <1>7, PhasesOrder DEF SetUpFails, SettingUp, StepFails, ToUndo
  <1>8. CASE NextPhase
    BY <1>8, PhasesOrder DEF NextPhase, Following, FreshMap
  <1>9. CASE Returned
    <2> SUFFICES ASSUME NEW j \in Instances
                 PROVE  container[j] = "up" /\ applied[j] = work[j]
      BY <1>9 DEF Returned
    <2>1. pos = 14 /\ todo = {} /\ status = "running"
      BY <1>9, PhasesOrder DEF Returned
    <2>2. container[j] = "up"
      <3>1. PICK n \in 1..6 : Phases[n].kind = kind[j]
        BY PhasesOrder
      <3>2. Phases[n].act = "start" /\ n \in 1..pos /\ n # pos
        BY <2>1, <3>1, PhasesOrder
      <3>3. j \in held
        BY <2>1, <3>1, <3>2
      <3> QED
        BY <2>1, <3>3
    <2>3. ASSUME NEW s \in work[j]
          PROVE  s \in applied[j]
      <3>1. PICK n \in 1..14 : Phases[n].kind = kind[j] /\ Phases[n].act = s
        BY PhasesOrder DEF SetupsOf
      <3> QED
        BY <2>1, <3>1
    <2>4. \A s \in applied[j] : s \in work[j]
      BY <2>1
    <2> QED
      BY <2>2, <2>3, <2>4
  <1>10. ASSUME NEW i \in Instances, Terminate(i)
       PROVE  ReturnedStackIsReady'
    BY <1>10, PhasesOrder DEF Terminate, Terminated
  <1>11. CASE UndoRemovesNetwork
    BY <1>11, PhasesOrder DEF UndoRemovesNetwork, Removable
  <1>12. CASE Cleanup
    BY <1>12, PhasesOrder DEF Cleanup, ToClean
  <1>13. CASE TestEnds
    BY <1>13, PhasesOrder DEF TestEnds, ToClean
  <1>14. CASE CleanupRemovesNetwork
    BY <1>14, PhasesOrder DEF CleanupRemovesNetwork, Removable, Report
  <1>15. CASE UNCHANGED vars
    BY <1>15 DEF vars
  <1> QED
    BY <1>1, <1>2, <1>3, <1>4, <1>5, <1>6, <1>7, <1>8, <1>9, <1>10, <1>11, <1>12, <1>13, <1>14, <1>15,
       StartStackSteps, TerminateSteps DEF Next, Stopped

(* Nothing starts again once the network is removed.                       *)
LEMMA SilentStep == IInv /\ [Next]_vars => SilentCleanupIsComplete'
  <1> SUFFICES ASSUME IInv, [Next]_vars
               PROVE  SilentCleanupIsComplete'
    OBVIOUS
  <1> USE DEF IInv, TypeOK, NothingYet, StartedSoFar, UndoneSoFar, SilentCleanupIsComplete, options, docker
  <1>1. CASE Refused
    BY <1>1 DEF Refused
  <1>2. CASE NetworkCreated
    BY <1>2 DEF NetworkCreated
  <1>3. ASSUME NEW i \in Instances, ContainerStarted(i)
       PROVE  SilentCleanupIsComplete'
    BY <1>3 DEF ContainerStarted, Starting
  <1>4. ASSUME NEW i \in Instances, RunFails(i)
       PROVE  SilentCleanupIsComplete'
    BY <1>4 DEF RunFails, Starting, StepFails, ToUndo
  <1>5. ASSUME NEW i \in Instances, EndpointFails(i)
       PROVE  SilentCleanupIsComplete'
    BY <1>5 DEF EndpointFails, Starting, StepFails, ToUndo, Terminated
  <1>6. ASSUME NEW i \in Instances, SetUp(i)
       PROVE  SilentCleanupIsComplete'
    BY <1>6 DEF SetUp, SettingUp
  <1>7. ASSUME NEW i \in Instances, SetUpFails(i)
       PROVE  SilentCleanupIsComplete'
    BY <1>7 DEF SetUpFails, SettingUp, StepFails, ToUndo
  <1>8. CASE NextPhase
    BY <1>8 DEF NextPhase, Following, FreshMap
  <1>9. CASE Returned
    BY <1>9 DEF Returned
  <1>10. ASSUME NEW i \in Instances, Terminate(i)
       PROVE  SilentCleanupIsComplete'
    BY <1>10 DEF Terminate, Terminated
  <1>11. CASE UndoRemovesNetwork
    BY <1>11 DEF UndoRemovesNetwork, Removable
  <1>12. CASE Cleanup
    BY <1>12 DEF Cleanup, ToClean
  <1>13. CASE TestEnds
    BY <1>13 DEF TestEnds, ToClean
  <1>14. CASE CleanupRemovesNetwork
    BY <1>14 DEF CleanupRemovesNetwork, Removable, Report
  <1>15. CASE UNCHANGED vars
    BY <1>15 DEF vars
  <1> QED
    BY <1>1, <1>2, <1>3, <1>4, <1>5, <1>6, <1>7, <1>8, <1>9, <1>10, <1>11, <1>12, <1>13, <1>14, <1>15,
       StartStackSteps, TerminateSteps DEF Next, Stopped

LEMMA Invariance == Spec => []IInv
  <1>1. IInv /\ [Next]_vars => IInv'
    BY TypeStep, NothingStep, StartedStep, SetUpStep, UndoneStep, KeptStep, ReadyStep, SilentStep
    DEF IInv
  <1> QED
    BY InvInit, <1>1, PTL DEF Spec

-----------------------------------------------------------------------------

(* Type correctness.                                                       *)
THEOREM TypeCorrect == Spec => []TypeOK
  <1>1. IInv => TypeOK
    BY DEF IInv
  <1> QED
    BY Invariance, <1>1, PTL

(* A StartStack that failed has asked Docker to terminate every container  *)
(* it had got hold of, whichever of its steps failed.                      *)
THEOREM NothingLeftOnFailure == Spec => []FailureLeavesNothing
  <1>1. IInv => FailureLeavesNothing
    BY DEF IInv, UndoneSoFar, FailureLeavesNothing
  <1> QED
    BY Invariance, <1>1, PTL

(* With KeepContainersOnFailure all containers still run, except the one   *)
(* that could not be asked for its endpoints.                              *)
THEOREM KeptOnFailure == Spec => []FailureKeepsForInspection
  <1>1. IInv => FailureKeepsForInspection
    BY DEF IInv
  <1> QED
    BY Invariance, <1>1, PTL

(* The loops of StartStack leave out no instance and no set-up.            *)
THEOREM ReturnedReady == Spec => []ReturnedStackIsReady
  <1>1. IInv => ReturnedStackIsReady
    BY DEF IInv
  <1> QED
    BY Invariance, <1>1, PTL

(* A nil from Cleanup means that no container runs, though it never looked *)
(* at what a TerminateContainer came to.                                   *)
THEOREM SilenceMeansComplete == Spec => []SilentCleanupIsComplete
  <1>1. IInv => SilentCleanupIsComplete
    BY DEF IInv
  <1> QED
    BY Invariance, <1>1, PTL

(* Only a turn of a set-up loop changes what was applied; it comes after   *)
(* all the starts, and a seed after all the migrations.                    *)
LEMMA SetupOrderStep ==
  ASSUME IInv, [Next]_vars, NEW i \in Instances, applied'[i] # applied[i]
  PROVE  /\ \A j \in Instances : container[j] = "up"
         /\ "seed" \in applied'[i] =>
               \A j \in Instances : "migrate" \in work[j] => "migrate" \in applied[j]
  <1> USE DEF IInv, TypeOK
  <1>1. PICK h \in Instances : SetUp(h)
    BY StartStackSteps, TerminateSteps DEF Next, Stopped, vars, options, docker, Refused, NetworkCreated,
       ContainerStarted, StepFails, RunFails, EndpointFails, SetUpFails, NextPhase, Returned,
       Terminate, UndoRemovesNetwork, Cleanup, TestEnds, CleanupRemovesNetwork
  <1>2. status = "running" /\ pos \in 7..14 /\ h = i
        /\ applied'[i] = applied[i] \cup {Phases[pos].act}
    BY <1>1, PhasesOrder DEF SetUp, SettingUp
  <1>3. ASSUME NEW j \in Instances
        PROVE  container[j] = "up"
    <2>1. PICK n \in 1..6 : Phases[n].kind = kind[j]
      BY PhasesOrder
    <2>2. Phases[n].act = "start" /\ n \in 1..pos /\ n # pos
      BY <1>2, <2>1, PhasesOrder
    <2>3. j \in held
      BY <1>2, <2>1, <2>2 DEF StartedSoFar
    <2> QED
      BY <1>2, <2>3 DEF StartedSoFar
  <1>4. ASSUME "seed" \in applied'[i], NEW j \in Instances, "migrate" \in work[j]
        PROVE  "migrate" \in applied[j]
    <2>1. PICK m \in 1..pos : Phases[m].act = "seed"
      <3>1. CASE "seed" \in applied[i]
        BY <1>2, <3>1 DEF SetUpSoFar
      <3>2. CASE Phases[pos].act = "seed"
        BY <1>2, <3>2
      <3> QED
        BY <1>2, <1>4, <3>1, <3>2
    <2>2. pos >= 9
      BY <1>2, <2>1, PhasesOrder
    <2>3. PICK n \in 1..14 : Phases[n].kind = kind[j] /\ Phases[n].act = "migrate"
      BY <1>4, PhasesOrder DEF OptionsFit, SetupsOf
    <2>4. n \in 1..pos /\ n # pos
      BY <1>2, <2>2, <2>3, PhasesOrder
    <2> QED
      BY <1>2, <1>4, <2>3, <2>4 DEF SetUpSoFar
  <1> QED
    BY <1>3, <1>4

(* The documented order of the phases holds between instances, whatever    *)
(* order Go walks its maps in.                                             *)
THEOREM OrderKept == Spec => SetupInOrder
  <1>1. IInv /\ [Next]_vars =>
          [\A i \in Instances : applied'[i] # applied[i] =>
             /\ \A j \in Instances : container[j] = "up"
             /\ "seed" \in applied'[i] =>
                   \A j \in Instances : "migrate" \in work[j] => "migrate" \in applied[j]]_vars
    BY SetupOrderStep
  <1> QED
    BY Invariance, <1>1, PTL DEF Spec, SetupInOrder

=============================================================================
