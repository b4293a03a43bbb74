--------------------------- MODULE ReadoutProofs ---------------------------
(***************************************************************************)
(* Theorems about Readout, for any number of equipments, consumers, runs   *)
(* and CONFIGURE commands.  The inductive invariant says, for each point   *)
(* of the main thread, which threads run, how far the loops over the       *)
(* equipments and the consumers have come, and where data may be.  The     *)
(* process takes no step once it is gone, so that all of it is stated for  *)
(* a process that is alive.                                                *)
(***************************************************************************)
EXTENDS Readout, TLAPS

StartPoints == {"startDevice", "dataOn", "startLoop"}
StopPoints == {"stopDevice", "stopAgg", "drain", "stopConsumer"}
ResetPoints == {"resetPrimary", "resetSecondary", "resetOutput", "resetAgg", "resetDevices"}

\* the functions are called in the states that the state machines allow
Calls ==
  Alive =>
    /\ pc \in StartPoints => theState = "configured"
    /\ pc \in {"iterate", "dataOff", "join"} \cup StopPoints => theState = "running"
    /\ pc \in ResetPoints => theState \in {"configured", "error"}
    /\ pc \in {"startDevice", "dataOn", "stopDevice"} => k \in Equipments
    /\ pc \in {"stopConsumer", "resetPrimary", "resetSecondary", "destroyConsumer"} => k \in Consumers

\* the main loop exists from the end of START to its join in STOP or at the end, and
\* all that time the consumers are started
MainLoop ==
  Alive =>
    /\ loop # "none" =>
         theState = "running" /\ pc \in {"command", "iterate", "dataOff", "join", "destroyAgg"}
    /\ isRunning => theState = "running" /\ pc \in {"command", "iterate"}
    /\ pc \in StartPoints \/ loop # "none" => \A c \in Consumers : consumer[c] = "started"

\* between STOP and START, RESET included
NotInRun == pc \in {"drain", "stopConsumer"} \/ (theState = "configured" /\ pc \in {"command"} \cup ResetPoints)

\* STOP ends the equipments, the aggregator and the consumers, in this order
Stopping ==
  Alive =>
    /\ pc = "stopDevice" => \A e \in Equipments : e < k => device[e] = "idle" /\ data[e] = "off"
    /\ pc = "stopAgg" \/ NotInRun => \A e \in Equipments : device[e] = "idle" /\ data[e] = "off"
    /\ NotInRun => agg # "on" /\ NoData
    /\ pc \in {"drain", "stopConsumer"} \/ (theState = "configured" /\ pc = "command") => agg = "off"
    /\ theState = "running" /\ pc \notin {"destroyConsumer", "destroyDevices"} =>
         \A c \in Consumers : consumer[c] # "none"
    /\ pc = "stopConsumer" => \A c \in Consumers : c < k => consumer[c] = "stopped"
    /\ theState = "configured" /\ pc = "command" => \A c \in Consumers : consumer[c] = "stopped"

\* RESET destroys the consumers, those that are fed by others last, then the aggregator
Resetting ==
  Alive =>
    /\ pc \in ResetPoints => ~ isError
    /\ pc = "resetPrimary" =>
         \A c \in Consumers : c < k /\ ~ isForward[c] => consumer[c] = "none"
    /\ pc = "resetSecondary" =>
         \A c \in Consumers : c < k \/ ~ isForward[c] => consumer[c] = "none"
    /\ pc \in {"resetOutput", "resetAgg", "resetDevices"} =>
         \A c \in Consumers : consumer[c] = "none"
    /\ pc = "resetDevices" => agg = "none" /\ ~ aggHeld

\* STANDBY, before the first CONFIGURE or after RESET
Clean ==
  Alive /\ theState = "standby" /\ pc = "command" =>
    /\ ~ isError /\ agg = "none" /\ ~ aggHeld
    /\ \A e \in Equipments :
         device[e] = "none" /\ data[e] = "off" /\ devError[e] = "none" /\ ~ dataOut[e]
    /\ \A c \in Consumers : consumer[c] = "none"

\* the destructor of the process
Ending ==
  Alive =>
    /\ pc \in {"destroyConsumer", "destroyDevices"} => agg = "none" /\ ~ aggHeld /\ ~ output
    /\ pc = "destroyConsumer" => \A c \in Consumers : c < k => consumer[c] = "none"
    /\ pc = "destroyDevices" => \A c \in Consumers : consumer[c] = "none"

\* a consumer that holds data exists, and one that another one feeds is known as such
Links ==
  Alive =>
    /\ \A c \in Consumers : held[c] => consumer[c] # "none"
    /\ \A c \in Consumers :
         forward[c] # 0 /\ consumer[forward[c]] # "none" => isForward[forward[c]]

ControlInv == Calls /\ MainLoop /\ Stopping /\ Resetting /\ Clean /\ Ending

IInv == TypeOK /\ ControlInv /\ Links

-----------------------------------------------------------------------------
\* Every step keeps the types.
LEMMA TypeStep == TypeOK /\ Calls /\ [Next]_vars => TypeOK'
<1> SUFFICES ASSUME TypeOK, Calls, [Next]_vars PROVE TypeOK'
  OBVIOUS
<1> USE ReadoutAssumption DEF Equipments, Consumers, Addresses, Alive, flags, links, deviceVars,
        threads, places, TypeOK, Calls, States, Points, StopPoints
<1>1. CASE UNCHANGED vars
  BY <1>1 DEF vars, controlVars, flags
<1>2. CASE InvalidCommand
  BY <1>2 DEF InvalidCommand, ReturnTo
<1>3. CASE GiveUpRuns
  BY <1>3 DEF GiveUpRuns
<1>4. CASE ConfigureFails
  BY <1>4 DEF ConfigureFails, ReturnTo, Executes
<1>5. ASSUME NEW S \in SUBSET Consumers, NEW D \in SUBSET Equipments, Configure(S, D) PROVE TypeOK'
  <2>1. PICK A \in [Consumers -> Addresses] : CreateConsumers(S, A)
    BY <1>5, Zenon DEF Configure
  <2>2. \A a \in Addresses : OutputMap(S, A)[a] \in Consumers \cup {0}
    <3> SUFFICES ASSUME NEW a \in Addresses PROVE OutputMap(S, A)[a] \in Consumers \cup {0}
      OBVIOUS
    <3> DEFINE new == {c \in S : A[c] = a}
    <3>1. new # {} => (CHOOSE c \in new : TRUE) \in Consumers
      BY Zenon
    <3> QED
      BY <3>1 DEF OutputMap
  <2>3. consumersOutput' \in [Addresses -> Consumers \cup {0}]
    BY <2>1, <2>2 DEF CreateConsumers, OutputMap
  <2>4. isForward' \in [Consumers -> BOOLEAN]
    BY <2>1, Zenon DEF CreateConsumers
  <2>5. forward' \in [Consumers -> Consumers \cup {0}]
    BY <2>1, <2>2 DEF CreateConsumers
  <2>6. /\ consumer' \in [Consumers -> {"none", "stopped", "started"}]
        /\ address' \in [Consumers -> Addresses \cup {0}]
    BY <2>1 DEF CreateConsumers
  <2>7. output' \in BOOLEAN
    BY <1>5, Zenon DEF Configure
  <2>8. /\ device' \in [Equipments -> {"none", "idle", "on"}] /\ agg' \in {"none", "off", "on"}
        /\ nConfigure' \in 0 .. MaxConfigure /\ pc' \in Points /\ theState' \in States /\ k' = 0
    BY <1>5 DEF Configure, ReturnTo
  <2>9. UNCHANGED <<driver, stopRequested, runsLeft, flags, data, devError, loop, dataOut, aggHeld, held>>
    BY <1>5 DEF Configure
  <2> QED
    BY <2>3, <2>4, <2>5, <2>6, <2>7, <2>8, <2>9
<1>6. CASE ConfigureCrashes
  BY <1>6 DEF ConfigureCrashes
<1>7. CASE Start
  <2>1. ShutdownRequest' \in BOOLEAN
    BY <1>7, Zenon DEF Start
  <2>2. runsLeft' \in 0 .. NumberOfRuns
    BY <1>7 DEF Start, Executes, StandaloneCommand
  <2> QED
    BY <1>7, <2>1, <2>2 DEF Start
<1>8. CASE Stop
  BY <1>8 DEF Stop, Executes
<1>9. CASE Reset
  <2>1. isError' \in BOOLEAN
    BY <1>9, Zenon DEF Reset
  <2> QED
    BY <1>9, <2>1 DEF Reset
<1>10. CASE Exit
  <2>1. isRunning' \in BOOLEAN
    BY <1>10, Zenon DEF Exit
  <2> QED
    BY <1>10, <2>1 DEF Exit
<1>11. ASSUME NEW t \in BOOLEAN, NEW m \in BOOLEAN, Iterate(t, m) PROVE TypeOK'
  BY <1>11 DEF Iterate, StopsRunning
<1>12. CASE StartDevice
  <2>1. CASE Throw
    BY <1>12, <2>1 DEF StartDevice, Throw, ReturnTo
  <2>2. CASE ~ Throw
    <3>1. /\ device' = [device EXCEPT ![k] = "on"] /\ data' = [data EXCEPT ![k] = "off"]
          /\ devError' = [devError EXCEPT ![k] = "none"] /\ NextEquipment("dataOn")
      BY <1>12, <2>2 DEF StartDevice
    <3>2. /\ device' \in [Equipments -> {"none", "idle", "on"}]
          /\ data' \in [Equipments -> {"off", "on", "drain"}]
          /\ devError' \in [Equipments -> {"none", "error", "fatal"}]
      BY <3>1
    <3> QED
      BY <1>12, <3>1, <3>2 DEF StartDevice, NextEquipment
  <2> QED
    BY <2>1, <2>2
<1>13. CASE DataOn
  BY <1>13 DEF DataOn, Throw, ReturnTo, NextEquipment
<1>14. CASE StartLoop
  BY <1>14 DEF StartLoop, ReturnTo
<1>15. CASE DataOff
  BY <1>15 DEF DataOff
<1>16. CASE JoinLoop
  BY <1>16 DEF JoinLoop
<1>17. CASE StopDevice
  BY <1>17 DEF StopDevice, NextEquipment
<1>18. CASE StopAgg
  <2>1. aggHeld' \in BOOLEAN /\ output' \in BOOLEAN /\ dataOut' \in [Equipments -> BOOLEAN]
    BY <1>18, Zenon DEF StopAgg
  <2> QED
    BY <1>18, <2>1 DEF StopAgg
<1>19. CASE Drain
  BY <1>19 DEF Drain
<1>20. CASE StopConsumer
  BY <1>20 DEF StopConsumer, ReturnTo
<1>21. CASE ResetPrimary
  <2>1. CASE IsPrimary(k)
    <3>1. isForward' \in [Consumers -> BOOLEAN] /\ held' \in [Consumers -> BOOLEAN]
      BY <1>21, <2>1, ZenonT(30) DEF ResetPrimary, DestroyConsumer
    <3>2. /\ consumer' \in [Consumers -> {"none", "stopped", "started"}]
          /\ address' \in [Consumers -> Addresses \cup {0}]
          /\ forward' \in [Consumers -> Consumers \cup {0}]
      BY ZenonT(30), <1>21, <2>1 DEF ResetPrimary, DestroyConsumer
    <3> QED
      BY <1>21, <2>1, <3>1, <3>2 DEF ResetPrimary, DestroyConsumer, NextConsumer
  <2>2. CASE ~ IsPrimary(k)
    BY <1>21, <2>2 DEF ResetPrimary, NextConsumer
  <2> QED
    BY <2>1, <2>2
<1>22. CASE ResetSecondary
  BY <1>22 DEF ResetSecondary, DestroyConsumer, NextConsumer
<1>23. CASE ResetOutput
  BY <1>23 DEF ResetOutput
<1>24. CASE ResetAgg
  <2>1. aggHeld' \in BOOLEAN
    BY <1>24, Zenon DEF ResetAgg, ReleaseAgg
  <2> QED
    BY <1>24, <2>1 DEF ResetAgg, ReleaseAgg
<1>25. CASE ResetDevices
  BY <1>25 DEF ResetDevices, ReleaseDevices, ReturnTo
<1>26. CASE DestroyAgg
  <2>1. aggHeld' \in BOOLEAN /\ output' \in BOOLEAN
    BY <1>26, Zenon DEF DestroyAgg, ReleaseAgg
  <2> QED
    BY <1>26, <2>1 DEF DestroyAgg, ReleaseAgg
<1>27. CASE DestroyNextConsumer
  BY <1>27 DEF DestroyNextConsumer, DestroyConsumer, NextConsumer
<1>28. CASE DestroyDevices
  BY <1>28 DEF DestroyDevices, ReleaseDevices
<1>29. ASSUME NEW e \in Equipments, Produce(e) PROVE TypeOK'
  BY <1>29 DEF Produce, controlVars, flags
<1>30. ASSUME NEW e \in Equipments, NEW kind \in {"error", "fatal"}, DeviceFault(e, kind) PROVE TypeOK'
  BY <1>30 DEF DeviceFault, controlVars, flags
<1>31. ASSUME NEW e \in Equipments, AggregatorTakes(e) PROVE TypeOK'
  BY <1>31 DEF AggregatorTakes, controlVars, flags
<1>32. CASE AggregatorSends
  BY <1>32 DEF AggregatorSends, controlVars, flags
<1>33. ASSUME NEW K \in SUBSET Consumers, NEW F \in SUBSET Consumers, LoopPush(K, F) PROVE TypeOK'
  BY <1>33 DEF LoopPush, controlVars
<1>34. CASE LoopEnds
  BY <1>34 DEF LoopEnds, controlVars, flags
<1>35. CASE LoopThrows
  BY <1>35 DEF LoopThrows, controlVars, flags
<1>36. ASSUME NEW c \in Consumers, ConsumerWorks(c) PROVE TypeOK'
  BY <1>36 DEF ConsumerWorks, controlVars, flags
<1>37. ASSUME NEW c \in Consumers, PushToDestroyed(c) PROVE TypeOK'
  BY <1>37 DEF PushToDestroyed
<1>38. CASE Signal
  BY <1>38 DEF Signal
<1> QED
  BY ZenonT(30), <1>1, <1>2, <1>3, <1>4, <1>5, <1>6, <1>7, <1>8, <1>9, <1>10, <1>11, <1>12, <1>13,
     <1>14,
     <1>15, <1>16, <1>17, <1>18, <1>19, <1>20, <1>21, <1>22, <1>23, <1>24, <1>25, <1>26, <1>27,
     <1>28, <1>29, <1>30, <1>31, <1>32, <1>33, <1>34, <1>35, <1>36, <1>37, <1>38
     DEF Next, Command, MainThread, IterateLimits, Threads


\* What the destruction of a consumer changes.
LEMMA DestroyEffect ==
  ASSUME TypeOK, NEW c \in Consumers, DestroyConsumer(c)
  PROVE  /\ consumer'[c] = "none" /\ forward'[c] = 0 /\ ~ isForward'[c] /\ ~ held'[c]
         /\ \A d \in Consumers : d # c =>
              /\ consumer'[d] = consumer[d] /\ forward'[d] = forward[d]
              /\ isForward'[d] <=> isForward[d]
              /\ held'[d] <=> held[d]
         /\ consumersOutput' = consumersOutput
BY DEF TypeOK, DestroyConsumer

\* Every step keeps what is known of each point of the main thread.
LEMMA ControlStep == IInv /\ [Next]_vars => ControlInv'
<1> SUFFICES ASSUME IInv, [Next]_vars PROVE ControlInv'
  OBVIOUS
<1> USE ReadoutAssumption DEF Equipments, Consumers, Addresses, Alive, flags, links, deviceVars,
        threads, places, IInv, ControlInv, TypeOK, Calls, MainLoop, NotInRun, NoData, Stopping,
        Resetting, Clean, Ending, StartPoints, StopPoints, ResetPoints
<1>1. CASE UNCHANGED vars
  BY <1>1 DEF vars, controlVars, flags
<1>2. CASE InvalidCommand
  BY <1>2 DEF InvalidCommand, ReturnTo
<1>3. CASE GiveUpRuns
  BY <1>3 DEF GiveUpRuns
<1>4. CASE ConfigureFails
  BY <1>4 DEF ConfigureFails, ReturnTo, Executes
<1>5. ASSUME NEW S \in SUBSET Consumers, NEW D \in SUBSET Equipments, Configure(S, D) PROVE ControlInv'
  BY <1>5 DEF Configure, CreateConsumers, ReturnTo, Executes
<1>6. CASE ConfigureCrashes
  BY <1>6 DEF ConfigureCrashes
<1>7. CASE Start
  BY <1>7 DEF Start, Executes
<1>8. CASE Stop
  BY <1>8 DEF Stop, Executes
<1>9. CASE Reset
  BY <1>9 DEF Reset, Executes
<1>10. CASE Exit
  BY <1>10 DEF Exit, Executes
<1>11. ASSUME NEW t \in BOOLEAN, NEW m \in BOOLEAN, Iterate(t, m) PROVE ControlInv'
  BY <1>11 DEF Iterate, StopsRunning
<1>12. CASE StartDevice
  BY <1>12 DEF StartDevice, Throw, ReturnTo, NextEquipment
<1>13. CASE DataOn
  BY <1>13 DEF DataOn, Throw, ReturnTo, NextEquipment
<1>14. CASE StartLoop
  BY <1>14 DEF StartLoop, ReturnTo
<1>15. CASE DataOff
  BY <1>15 DEF DataOff
<1>16. CASE JoinLoop
  BY <1>16 DEF JoinLoop
<1>17. CASE StopDevice
  BY <1>17 DEF StopDevice, NextEquipment
<1>18. CASE StopAgg
  BY <1>18 DEF StopAgg
<1>19. CASE Drain
  BY <1>19 DEF Drain
<1>20. CASE StopConsumer
  BY <1>20 DEF StopConsumer, ReturnTo
<1>21. CASE ResetPrimary
  <2>1. CASE IsPrimary(k)
    <3>1. /\ k \in Consumers /\ loop = "none" /\ pc = "resetPrimary" /\ ~ isForward[k]
          /\ theState \in {"configured", "error"}
      BY <1>21, <2>1 DEF ResetPrimary, IsPrimary
    <3>2. /\ consumer'[k] = "none"
          /\ \A c \in Consumers : c # k =>
               consumer'[c] = consumer[c] /\ (isForward'[c] <=> isForward[c])
      BY <1>21, <2>1, <3>1, DestroyEffect DEF ResetPrimary
    <3>3. CASE k < NConsumers
      BY <1>21, <2>1, <3>1, <3>2, <3>3 DEF ResetPrimary, NextConsumer
    <3>4. CASE ~ (k < NConsumers)
      BY <1>21, <2>1, <3>1, <3>2, <3>4 DEF ResetPrimary, NextConsumer
    <3> QED
      BY <3>3, <3>4
  <2>2. CASE ~ IsPrimary(k)
    BY <1>21, <2>2 DEF ResetPrimary, IsPrimary, NextConsumer
  <2> QED
    BY <2>1, <2>2
<1>22. CASE ResetSecondary
  BY <1>22 DEF ResetSecondary, DestroyConsumer, NextConsumer
<1>23. CASE ResetOutput
  BY <1>23 DEF ResetOutput
<1>24. CASE ResetAgg
  BY <1>24 DEF ResetAgg, ReleaseAgg
<1>25. CASE ResetDevices
  BY <1>25 DEF ResetDevices, ReleaseDevices, ReturnTo
<1>26. CASE DestroyAgg
  BY <1>26 DEF DestroyAgg, ReleaseAgg
<1>27. CASE DestroyNextConsumer
  BY <1>27 DEF DestroyNextConsumer, DestroyConsumer, NextConsumer
<1>28. CASE DestroyDevices
  BY <1>28 DEF DestroyDevices, ReleaseDevices
<1>29. ASSUME NEW e \in Equipments, Produce(e) PROVE ControlInv'
  BY <1>29 DEF Produce, controlVars, flags
<1>30. ASSUME NEW e \in Equipments, NEW kind \in {"error", "fatal"}, DeviceFault(e, kind) PROVE ControlInv'
  BY <1>30 DEF DeviceFault, controlVars, flags
<1>31. ASSUME NEW e \in Equipments, AggregatorTakes(e) PROVE ControlInv'
  BY <1>31 DEF AggregatorTakes, controlVars, flags
<1>32. CASE AggregatorSends
  BY <1>32 DEF AggregatorSends, controlVars, flags
<1>33. ASSUME NEW K \in SUBSET Consumers, NEW F \in SUBSET Consumers, LoopPush(K, F) PROVE ControlInv'
  BY <1>33 DEF LoopPush, controlVars
<1>34. CASE LoopEnds
  BY <1>34 DEF LoopEnds, controlVars, flags
<1>35. CASE LoopThrows
  BY <1>35 DEF LoopThrows, controlVars, flags
<1>36. ASSUME NEW c \in Consumers, ConsumerWorks(c) PROVE ControlInv'
  BY <1>36 DEF ConsumerWorks, controlVars, flags
<1>37. ASSUME NEW c \in Consumers, PushToDestroyed(c) PROVE ControlInv'
  BY <1>37 DEF PushToDestroyed
<1>38. CASE Signal
  BY <1>38 DEF Signal
<1> QED
  BY ZenonT(30), <1>1, <1>2, <1>3, <1>4, <1>5, <1>6, <1>7, <1>8, <1>9, <1>10, <1>11, <1>12, <1>13,
     <1>14,
     <1>15, <1>16, <1>17, <1>18, <1>19, <1>20, <1>21, <1>22, <1>23, <1>24, <1>25, <1>26, <1>27,
     <1>28, <1>29, <1>30, <1>31, <1>32, <1>33, <1>34, <1>35, <1>36, <1>37, <1>38
     DEF Next, Command, MainThread, IterateLimits, Threads


\* Every step keeps what is known of the consumers and their links.
LEMMA LinksStep == IInv /\ [Next]_vars => Links'
<1> SUFFICES ASSUME IInv, [Next]_vars PROVE Links'
  OBVIOUS
<1> USE ReadoutAssumption DEF Equipments, Consumers, Addresses, Alive, flags, links, deviceVars,
        threads, places, IInv, ControlInv, TypeOK, Calls, MainLoop, Clean, Links, Resetting,
        StartPoints
<1>1. CASE UNCHANGED vars
  BY <1>1 DEF vars, controlVars, flags
<1>2. CASE InvalidCommand
  BY <1>2 DEF InvalidCommand, ReturnTo
<1>3. CASE GiveUpRuns
  BY <1>3 DEF GiveUpRuns
<1>4. CASE ConfigureFails
  BY <1>4 DEF ConfigureFails, ReturnTo, Executes
<1>5. ASSUME NEW S \in SUBSET Consumers, NEW D \in SUBSET Equipments, Configure(S, D) PROVE Links'
  <2>1. PICK A \in [Consumers -> Addresses] : CreateConsumers(S, A)
    BY <1>5, Zenon DEF Configure
  <2>2. pc = "command" /\ theState = "standby" /\ held' = held
    BY <1>5 DEF Configure, Executes
  <2>3. \A c \in Consumers : held'[c] = FALSE
    BY <2>2
  <2> DEFINE M == OutputMap(S, A)
  <2>4. ASSUME NEW c \in Consumers, forward'[c] # 0 PROVE isForward'[forward'[c]]
    <3>1. c \in S /\ forward'[c] = M[A[c]] /\ M[A[c]] \in S
      BY <2>1, <2>4, Zenon DEF CreateConsumers
    <3>2. A[c] \in Claims(M, M[A[c]])
      BY DEF Claims
    <3> QED
      BY <2>1, <3>1, <3>2, Zenon DEF CreateConsumers
  <2> QED
    BY <2>3, <2>4
<1>6. CASE ConfigureCrashes
  BY <1>6 DEF ConfigureCrashes
<1>7. CASE Start
  BY <1>7 DEF Start, Executes, Stopping
<1>8. CASE Stop
  BY <1>8 DEF Stop, Executes
<1>9. CASE Reset
  BY <1>9 DEF Reset, Executes
<1>10. CASE Exit
  BY <1>10 DEF Exit, Executes
<1>11. ASSUME NEW t \in BOOLEAN, NEW m \in BOOLEAN, Iterate(t, m) PROVE Links'
  BY <1>11 DEF Iterate, StopsRunning
<1>12. CASE StartDevice
  BY <1>12 DEF StartDevice, Throw, ReturnTo, NextEquipment
<1>13. CASE DataOn
  BY <1>13 DEF DataOn, Throw, ReturnTo, NextEquipment
<1>14. CASE StartLoop
  BY <1>14 DEF StartLoop, ReturnTo
<1>15. CASE DataOff
  BY <1>15 DEF DataOff
<1>16. CASE JoinLoop
  BY <1>16 DEF JoinLoop
<1>17. CASE StopDevice
  BY <1>17 DEF StopDevice, NextEquipment
<1>18. CASE StopAgg
  BY <1>18 DEF StopAgg
<1>19. CASE Drain
  BY <1>19 DEF Drain
<1>20. CASE StopConsumer
  BY <1>20 DEF StopConsumer, ReturnTo, Stopping, StopPoints
<1>21. CASE ResetPrimary
  <2>1. CASE IsPrimary(k)
    <3>1. k \in Consumers /\ ~ isForward[k] /\ pc = "resetPrimary"
      BY <1>21, <2>1 DEF ResetPrimary, IsPrimary
    <3>2. /\ consumer'[k] = "none" /\ forward'[k] = 0 /\ ~ held'[k]
          /\ \A c \in Consumers : c # k =>
               /\ consumer'[c] = consumer[c] /\ forward'[c] = forward[c]
               /\ isForward'[c] <=> isForward[c]
               /\ held'[c] <=> held[c]
      BY <1>21, <2>1, <3>1, DestroyEffect DEF ResetPrimary
    <3>3. \A c \in Consumers : held'[c] => consumer'[c] # "none"
      BY <3>1, <3>2
    <3>4. ASSUME NEW c \in Consumers, forward'[c] # 0, consumer'[forward'[c]] # "none"
          PROVE  isForward'[forward'[c]]
      <4>1. c # k /\ forward'[c] = forward[c] /\ forward[c] \in Consumers \ {k}
        BY <3>1, <3>2, <3>4
      <4> QED
        BY <3>1, <3>2, <3>4, <4>1
    <3> QED
      BY <3>3, <3>4
  <2>2. CASE ~ IsPrimary(k)
    BY <1>21, <2>2 DEF ResetPrimary, NextConsumer
  <2> QED
    BY <2>1, <2>2
<1>22. CASE ResetSecondary
  BY <1>22 DEF ResetSecondary, DestroyConsumer, NextConsumer
<1>23. CASE ResetOutput
  BY <1>23 DEF ResetOutput
<1>24. CASE ResetAgg
  BY <1>24 DEF ResetAgg, ReleaseAgg
<1>25. CASE ResetDevices
  BY <1>25 DEF ResetDevices, ReleaseDevices, ReturnTo
<1>26. CASE DestroyAgg
  BY <1>26 DEF DestroyAgg, ReleaseAgg
<1>27. CASE DestroyNextConsumer
  BY <1>27 DEF DestroyNextConsumer, DestroyConsumer, NextConsumer
<1>28. CASE DestroyDevices
  BY <1>28 DEF DestroyDevices, ReleaseDevices
<1>29. ASSUME NEW e \in Equipments, Produce(e) PROVE Links'
  BY <1>29 DEF Produce, controlVars, flags
<1>30. ASSUME NEW e \in Equipments, NEW kind \in {"error", "fatal"}, DeviceFault(e, kind) PROVE Links'
  BY <1>30 DEF DeviceFault, controlVars, flags
<1>31. ASSUME NEW e \in Equipments, AggregatorTakes(e) PROVE Links'
  BY <1>31 DEF AggregatorTakes, controlVars, flags
<1>32. CASE AggregatorSends
  BY <1>32 DEF AggregatorSends, controlVars, flags
<1>33. ASSUME NEW K \in SUBSET Consumers, NEW F \in SUBSET Consumers, LoopPush(K, F) PROVE Links'
  BY <1>33 DEF LoopPush, controlVars
<1>34. CASE LoopEnds
  BY <1>34 DEF LoopEnds, controlVars, flags
<1>35. CASE LoopThrows
  BY <1>35 DEF LoopThrows, controlVars, flags
<1>36. ASSUME NEW c \in Consumers, ConsumerWorks(c) PROVE Links'
  BY <1>36 DEF ConsumerWorks, controlVars, flags
<1>37. ASSUME NEW c \in Consumers, PushToDestroyed(c) PROVE Links'
  BY <1>37 DEF PushToDestroyed
<1>38. CASE Signal
  BY <1>38 DEF Signal
<1> HIDE DEF IInv, ControlInv, TypeOK, Calls, MainLoop, Clean, Links, Resetting
<1> QED
  BY <1>1, <1>2, <1>3, <1>4, <1>5, <1>6, <1>7, <1>8, <1>9, <1>10, <1>11, <1>12, <1>13, <1>14,
     <1>15, <1>16, <1>17, <1>18, <1>19, <1>20, <1>21, <1>22, <1>23, <1>24, <1>25, <1>26, <1>27,
     <1>28, <1>29, <1>30, <1>31, <1>32, <1>33, <1>34, <1>35, <1>36, <1>37, <1>38
     DEF Next, Command, MainThread, IterateLimits, Threads


\* Before the first command there is nothing.
LEMMA IInvInit == Init => IInv
<1> SUFFICES ASSUME Init PROVE IInv
  OBVIOUS
<1> USE ReadoutAssumption DEF Init
<1>1. TypeOK
  <2>1. /\ isForward \in [Consumers -> BOOLEAN] /\ held \in [Consumers -> BOOLEAN]
        /\ dataOut \in [Equipments -> BOOLEAN]
        /\ {stopRequested, ShutdownRequest, isRunning, isError, aggHeld, output} \subseteq BOOLEAN
    BY Zenon
  <2> QED
    BY <2>1 DEF TypeOK, States, Points, Equipments, Consumers, Addresses
<1>2. ControlInv
  BY DEF ControlInv, Calls, MainLoop, NotInRun, Stopping, Resetting, Clean, Ending, StartPoints,
         StopPoints, ResetPoints
<1>3. Links
  BY DEF Links
<1> QED
  BY <1>1, <1>2, <1>3 DEF IInv

\* Every step keeps the inductive invariant.
LEMMA IInvStep == IInv /\ [Next]_vars => IInv'
BY TypeStep, ControlStep, LinksStep DEF IInv, ControlInv

\* The inductive invariant holds in every state of the process.
THEOREM Invariance == Spec => []IInv
BY IInvInit, IInvStep, PTL DEF Spec

-----------------------------------------------------------------------------
(* The properties.                                                         *)

\* Nothing is left between two runs, nor after RESET, whatever failed, was signalled or was
\* under way when the command came.
THEOREM CommandsLeaveNothing == Spec => []CleanBetweenCommands
<1>1. IInv => CleanBetweenCommands
  BY DEF IInv, ControlInv, MainLoop, Stopping, NotInRun, Clean, Links, Alive, CleanBetweenCommands,
         QuietWhenConfigured, StandbyIsClean
<1> QED
  BY <1>1, Invariance, PTL

\* What a step may do to the data that consumers hold.
LEMMA HeldChanges ==
  ASSUME [Next]_vars, held' # held
  PROVE  \/ \E K, F \in SUBSET Consumers : LoopPush(K, F)
         \/ \E c \in Consumers : ConsumerWorks(c)
         \/ DestroyConsumer(k)
BY DEF Next, vars, places, Command, InvalidCommand, GiveUpRuns, ConfigureFails, Configure,
       ConfigureCrashes, Start, Stop, Reset, Exit, MainThread, IterateLimits, Iterate, StartDevice,
       DataOn, StartLoop, DataOff, JoinLoop, StopDevice, StopAgg, Drain, StopConsumer, ResetPrimary,
       ResetSecondary, ResetOutput, ResetAgg, ResetDevices, DestroyAgg, DestroyNextConsumer,
       DestroyDevices, Threads, Produce, DeviceFault, AggregatorTakes, AggregatorSends, LoopEnds,
       LoopThrows, PushToDestroyed, Signal

\* Only the main loop gives data to the consumers that no other consumer feeds, and it runs
\* only while all of them are started.
THEOREM PushesOnlyToStarted == Spec => PushedWhileStarted
<1> DEFINE Fed(c) == ~ isForward[c] /\ held'[c] /\ ~ held[c]
<1>1. ASSUME IInv, [Next]_vars, NEW c \in Consumers, Fed(c) PROVE consumer[c] = "started"
  <2>1. ASSUME NEW K \in SUBSET Consumers, NEW F \in SUBSET Consumers, LoopPush(K, F)
        PROVE  consumer[c] = "started"
    BY <1>1, <2>1 DEF LoopPush, IInv, ControlInv, MainLoop
  <2>2. ASSUME NEW d \in Consumers, ConsumerWorks(d) PROVE FALSE
    BY <1>1, <2>2 DEF ConsumerWorks, IInv, TypeOK, Links, Consumers
  <2>3. ~ DestroyConsumer(k)
    BY <1>1 DEF DestroyConsumer, IInv, TypeOK
  <2>4. held' # held
    BY <1>1
  <2> QED
    BY <1>1, <2>1, <2>2, <2>3, <2>4, HeldChanges
<1>2. IInv /\ [Next]_vars => [\A c \in Consumers : Fed(c) => consumer[c] = "started"]_vars
  BY <1>1
<1> QED
  BY <1>2, Invariance, PTL DEF Spec, PushedWhileStarted

\* What a step may do to the equipments.
LEMMA DeviceChanges ==
  ASSUME [Next]_vars, device' # device
  PROVE  \/ \E S \in SUBSET Consumers, D \in SUBSET Equipments : Configure(S, D)
         \/ StartDevice \/ StopDevice \/ ResetDevices \/ DestroyAgg \/ DestroyDevices
BY DEF Next, vars, deviceVars, Command, InvalidCommand, GiveUpRuns, ConfigureFails,
       ConfigureCrashes, Start, Stop, Reset, Exit, MainThread, IterateLimits, Iterate,
       DataOn, Throw, StartLoop, DataOff, JoinLoop, StopAgg, Drain, StopConsumer, ResetPrimary,
       ResetSecondary, ResetOutput, ResetAgg, DestroyNextConsumer, Threads, Produce, DeviceFault,
       AggregatorTakes, AggregatorSends, LoopPush, LoopEnds, LoopThrows, ConsumerWorks,
       PushToDestroyed, Signal

\* The memory of the data is released when no data is left, at the end of the process and at
\* each RESET that follows a complete run.
THEOREM DataGoesFirst == Spec => DataReleasedFirst
<1>1. ASSUME IInv, [Next]_vars, DevicesReleased, ~ (theState = "error" /\ pc = "resetDevices")
      PROVE  NothingHeld
  <2> USE DEF IInv, Alive
  <2>1. PICK e \in Equipments : device[e] # "none" /\ device'[e] = "none"
    BY <1>1 DEF DevicesReleased
  <2>2. CASE ResetDevices
    BY <1>1, <2>2
       DEF ResetDevices, ControlInv, Calls, Stopping, NotInRun, NoData, Resetting, ResetPoints, Links,
           NothingHeld
  <2>3. CASE DestroyDevices
    BY <1>1, <2>3 DEF DestroyDevices, ControlInv, Ending, Links, NothingHeld
  <2>4. ASSUME NEW S \in SUBSET Consumers, NEW D \in SUBSET Equipments, Configure(S, D) PROVE FALSE
    BY <1>1, <2>1, <2>4 DEF Configure, Executes, ControlInv, Clean
  <2>5. ~ StartDevice /\ ~ StopDevice /\ ~ DestroyAgg
    BY <1>1, <2>1 DEF StartDevice, Throw, StopDevice, DestroyAgg, TypeOK, deviceVars
  <2>6. device' # device
    BY <2>1
  <2> QED
    BY <1>1, <2>2, <2>3, <2>4, <2>5, <2>6, DeviceChanges
<1>2. IInv /\ [Next]_vars =>
        [DevicesReleased /\ ~ (theState = "error" /\ pc = "resetDevices") => NothingHeld]_vars
  BY <1>1
<1> QED
  BY <1>2, Invariance, PTL DEF Spec, DataReleasedFirst

-----------------------------------------------------------------------------
(* The order of RESET.  The map of consumer outputs is never cleared, and  *)
(* is keyed by addresses that are used again: after a second CONFIGURE a   *)
(* consumer may find the output of another one.  The order then holds for  *)
(* configurations with one output only; before, for those in which a       *)
(* consumer that is fed feeds only later ones.                             *)

OneOutput ==
  \A c, d \in Consumers : OutputOf[c] # 0 /\ OutputOf[d] # 0 => OutputOf[c] = OutputOf[d]

LaterOutput == \A c, d \in Consumers : OutputOf[d] = c /\ OutputOf[c] # 0 => OutputOf[c] >= c

OrderedLinks == OneOutput \/ (MaxConfigure = 1 /\ LaterOutput)

\* the map has outputs of the configuration only, and is empty before the first CONFIGURE; a
\* consumer that is fed feeds later ones; until the process ends, no output is gone before
\* the consumer that feeds it
LinkOrder ==
  /\ \A a \in Addresses : consumersOutput[a] # 0 => \E d \in Consumers : OutputOf[d] = consumersOutput[a]
  /\ nConfigure = 0 => \A a \in Addresses : consumersOutput[a] = 0
  /\ \A c \in Consumers : isForward[c] /\ forward[c] # 0 => forward[c] >= c
  /\ Alive /\ pc # "destroyConsumer" => \A c \in Consumers : ~ Dangling(c)

\* CONFIGURE links the consumers in order, as far as the map allows.
LEMMA ConfigureKeepsOrder ==
  ASSUME OrderedLinks, TypeOK, LinkOrder,
         NEW S \in SUBSET Consumers, NEW D \in SUBSET Equipments, Configure(S, D)
  PROVE  LinkOrder'
<1> DEFINE M(A) == OutputMap(S, A)
<1>1. PICK A \in [Consumers -> Addresses] :
        (\A c, d \in Consumers : A[c] = A[d] => c = d) /\ CreateConsumers(S, A)
  BY Zenon DEF Configure
<1>2. nConfigure < MaxConfigure /\ nConfigure' = nConfigure + 1
  BY DEF Configure
<1>3. /\ consumersOutput' = M(A)
      /\ \A c \in Consumers :
           /\ isForward'[c] => Claims(M(A), c) # {}
           /\ forward'[c] # 0 => c \in S /\ forward'[c] = M(A)[A[c]] /\ M(A)[A[c]] \in S
           /\ c \in S => consumer'[c] # "none"
  BY <1>1 DEF CreateConsumers
<1>4. ASSUME NEW a \in Addresses, M(A)[a] # 0
      PROVE  IF consumersOutput[a] # 0 THEN M(A)[a] = consumersOutput[a]
             ELSE \E c \in S : A[c] = a /\ M(A)[a] = OutputOf[c]
  <2> DEFINE new == {c \in S : A[c] = a}
  <2>1. M(A)[a] = IF consumersOutput[a] # 0 THEN consumersOutput[a]
                  ELSE IF new = {} THEN 0 ELSE OutputOf[CHOOSE c \in new : TRUE]
    BY DEF OutputMap
  <2>2. new # {} => (CHOOSE c \in new : TRUE) \in new
    BY Zenon
  <2> QED
    BY <1>4, <2>1, <2>2
<1>5. \A a \in Addresses : M(A)[a] # 0 => \E d \in Consumers : OutputOf[d] = M(A)[a]
  BY <1>4 DEF LinkOrder
<1>6. ASSUME NEW c \in Consumers, isForward'[c], forward'[c] # 0 PROVE forward'[c] >= c
  <2>1. PICK a \in Addresses : M(A)[a] = c
    BY <1>3, <1>6 DEF Claims
  <2>2. PICK d \in Consumers : OutputOf[d] = c
    BY <1>5, <2>1, ReadoutAssumption DEF Consumers
  <2>3. forward'[c] = M(A)[A[c]] /\ A[c] \in Addresses
    BY <1>1, <1>3, <1>6
  <2>4. PICK f \in Consumers : OutputOf[f] = forward'[c]
    BY <1>5, <1>6, <2>3
  <2>5. CASE OneOutput
    BY <1>6, <2>2, <2>4, <2>5, ReadoutAssumption DEF OneOutput, Consumers
  <2>6. CASE MaxConfigure = 1 /\ LaterOutput
    <3>1. consumersOutput[A[c]] = 0
      BY <1>2, <2>3, <2>6 DEF LinkOrder, TypeOK
    <3>2. forward'[c] = OutputOf[c]
      BY <1>1, <1>4, <1>6, <2>3, <3>1
    <3> QED
      BY <1>6, <2>2, <2>6, <3>2 DEF LaterOutput
  <2> QED
    BY <2>5, <2>6 DEF OrderedLinks
<1>7. \A c \in Consumers : forward'[c] # 0 => consumer'[forward'[c]] # "none"
  BY <1>3
<1> QED
  BY <1>2, <1>3, <1>5, <1>6, <1>7 DEF LinkOrder, TypeOK, Dangling

\* The destruction of a consumer keeps the order, as long as no consumer that is left feeds it.
LEMMA DestroyKeepsOrder ==
  ASSUME TypeOK, LinkOrder, NEW c \in Consumers, DestroyConsumer(c), nConfigure' = nConfigure,
         Alive' /\ pc' # "destroyConsumer" =>
           \A d \in Consumers : d # c /\ consumer[d] # "none" => forward[d] # c /\ ~ Dangling(d)
  PROVE  LinkOrder'
<1>1. /\ consumer'[c] = "none" /\ forward'[c] = 0 /\ ~ isForward'[c]
      /\ \A d \in Consumers : d # c =>
           consumer'[d] = consumer[d] /\ forward'[d] = forward[d] /\ (isForward'[d] <=> isForward[d])
      /\ consumersOutput' = consumersOutput
  BY DestroyEffect
<1>2. \A d \in Consumers : isForward'[d] /\ forward'[d] # 0 => forward'[d] >= d
  BY <1>1 DEF LinkOrder
<1>3. Alive' /\ pc' # "destroyConsumer" => \A d \in Consumers : ~ Dangling(d)'
  BY <1>1 DEF Dangling, TypeOK
<1> QED
  BY <1>1, <1>2, <1>3 DEF LinkOrder

\* Every step keeps the order of the links.
LEMMA LinkOrderStep ==
  ASSUME OrderedLinks, IInv, LinkOrder, [Next]_vars
  PROVE  LinkOrder'
<1> USE ReadoutAssumption DEF Equipments, Consumers, Addresses, Alive, flags, links, deviceVars,
        threads, places, IInv, ControlInv, TypeOK, Calls, MainLoop, Clean, Stopping, StartPoints,
        StopPoints, Resetting, Ending, Links, LinkOrder, Dangling
<1>1. CASE UNCHANGED vars
  BY <1>1 DEF vars, controlVars, flags
<1>2. CASE InvalidCommand
  BY <1>2 DEF InvalidCommand, ReturnTo
<1>3. CASE GiveUpRuns
  BY <1>3 DEF GiveUpRuns
<1>4. CASE ConfigureFails
  BY <1>4 DEF ConfigureFails, ReturnTo, Executes
<1>5. ASSUME NEW S \in SUBSET Consumers, NEW D \in SUBSET Equipments, Configure(S, D) PROVE LinkOrder'
  BY <1>5, ConfigureKeepsOrder
<1>6. CASE ConfigureCrashes
  BY <1>6 DEF ConfigureCrashes
<1>7. CASE Start
  BY <1>7 DEF Start, Executes
<1>8. CASE Stop
  BY <1>8 DEF Stop, Executes
<1>9. CASE Reset
  BY <1>9 DEF Reset, Executes
<1>10. CASE Exit
  BY <1>10 DEF Exit, Executes
<1>11. ASSUME NEW t \in BOOLEAN, NEW m \in BOOLEAN, Iterate(t, m) PROVE LinkOrder'
  BY <1>11 DEF Iterate, StopsRunning
<1>12. CASE StartDevice
  BY <1>12 DEF StartDevice, Throw, ReturnTo, NextEquipment
<1>13. CASE DataOn
  BY <1>13 DEF DataOn, Throw, ReturnTo, NextEquipment
<1>14. CASE StartLoop
  BY <1>14 DEF StartLoop, ReturnTo
<1>15. CASE DataOff
  BY <1>15 DEF DataOff
<1>16. CASE JoinLoop
  BY <1>16 DEF JoinLoop
<1>17. CASE StopDevice
  BY <1>17 DEF StopDevice, NextEquipment
<1>18. CASE StopAgg
  BY <1>18 DEF StopAgg
<1>19. CASE Drain
  BY <1>19 DEF Drain
<1>20. CASE StopConsumer
  BY <1>20 DEF StopConsumer, ReturnTo
<1>21. CASE ResetPrimary
  <2>1. /\ k \in Consumers /\ pc = "resetPrimary" /\ nConfigure' = nConfigure
        /\ pc' \in {"resetPrimary", "resetSecondary"}
    BY <1>21 DEF ResetPrimary, NextConsumer
  <2>2. CASE IsPrimary(k)
    <3>1. \A d \in Consumers : consumer[d] # "none" /\ forward[d] # 0 => isForward[forward[d]]
      BY <2>1
    <3>2. ~ isForward[k] /\ DestroyConsumer(k)
      BY <1>21, <2>2 DEF ResetPrimary, IsPrimary
    <3>3. \A d \in Consumers : d # k /\ consumer[d] # "none" => forward[d] # k /\ ~ Dangling(d)
      BY <2>1, <3>1, <3>2
    <3> QED
      BY <2>1, <3>2, <3>3, DestroyKeepsOrder
  <2>3. CASE ~ IsPrimary(k)
    BY <1>21, <2>1, <2>3 DEF ResetPrimary
  <2> QED
    BY <2>2, <2>3
<1>22. CASE ResetSecondary
  BY <1>22 DEF ResetSecondary, DestroyConsumer, NextConsumer
<1>23. CASE ResetOutput
  BY <1>23 DEF ResetOutput
<1>24. CASE ResetAgg
  BY <1>24 DEF ResetAgg, ReleaseAgg
<1>25. CASE ResetDevices
  BY <1>25 DEF ResetDevices, ReleaseDevices, ReturnTo
<1>26. CASE DestroyAgg
  BY <1>26 DEF DestroyAgg, ReleaseAgg
<1>27. CASE DestroyNextConsumer
  <2>1. /\ k \in Consumers /\ nConfigure' = nConfigure /\ DestroyConsumer(k)
        /\ pc' # "destroyConsumer" => k = NConsumers
        /\ \A d \in Consumers : d < k => consumer[d] = "none"
    BY <1>27 DEF DestroyNextConsumer, NextConsumer
  <2> QED
    BY <2>1, DestroyKeepsOrder
<1>28. CASE DestroyDevices
  BY <1>28 DEF DestroyDevices, ReleaseDevices
<1>29. ASSUME NEW e \in Equipments, Produce(e) PROVE LinkOrder'
  BY <1>29 DEF Produce, controlVars, flags
<1>30. ASSUME NEW e \in Equipments, NEW kind \in {"error", "fatal"}, DeviceFault(e, kind) PROVE LinkOrder'
  BY <1>30 DEF DeviceFault, controlVars, flags
<1>31. ASSUME NEW e \in Equipments, AggregatorTakes(e) PROVE LinkOrder'
  BY <1>31 DEF AggregatorTakes, controlVars, flags
<1>32. CASE AggregatorSends
  BY <1>32 DEF AggregatorSends, controlVars, flags
<1>33. ASSUME NEW K \in SUBSET Consumers, NEW F \in SUBSET Consumers, LoopPush(K, F) PROVE LinkOrder'
  BY <1>33 DEF LoopPush, controlVars
<1>34. CASE LoopEnds
  BY <1>34 DEF LoopEnds, controlVars, flags
<1>35. CASE LoopThrows
  BY <1>35 DEF LoopThrows, controlVars, flags
<1>36. ASSUME NEW c \in Consumers, ConsumerWorks(c) PROVE LinkOrder'
  BY <1>36 DEF ConsumerWorks, controlVars, flags
<1>37. ASSUME NEW c \in Consumers, PushToDestroyed(c) PROVE LinkOrder'
  BY <1>37 DEF PushToDestroyed
<1>38. CASE Signal
  BY <1>38 DEF Signal
<1> HIDE DEF IInv, ControlInv, TypeOK, Calls, MainLoop, Clean, Stopping, Resetting, Ending, Links,
         LinkOrder
<1> QED
  BY <1>1, <1>2, <1>3, <1>4, <1>5, <1>6, <1>7, <1>8, <1>9, <1>10, <1>11, <1>12, <1>13, <1>14,
     <1>15, <1>16, <1>17, <1>18, <1>19, <1>20, <1>21, <1>22, <1>23, <1>24, <1>25, <1>26, <1>27,
     <1>28, <1>29, <1>30, <1>31, <1>32, <1>33, <1>34, <1>35, <1>36, <1>37, <1>38
     DEF Next, Command, MainThread, IterateLimits, Threads


\* RESET destroys a consumer before the one that it feeds.
THEOREM ResetInOrder == ASSUME OrderedLinks PROVE Spec => []ResetOrder
<1>1. Init => LinkOrder
  BY ReadoutAssumption DEF Init, LinkOrder, Dangling
<1>2. IInv /\ LinkOrder /\ [Next]_vars => LinkOrder'
  BY LinkOrderStep
<1>3. LinkOrder => ResetOrder
  BY DEF LinkOrder, ResetOrder, Alive
<1> QED
  BY <1>1, <1>2, <1>3, Invariance, PTL DEF Spec

=============================================================================
