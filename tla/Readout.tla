------------------------------ MODULE Readout ------------------------------
(***************************************************************************)
(* The life cycle of the readout process (mainReadout.cxx): the functions  *)
(* of class Readout (_configure, _start, _stop, _reset, the destructor),   *)
(* the two state machines that call them without an external control       *)
(* system (standalone and interactive), the main loop that hands data to   *)
(* the consumers, the error and signal flags, and the components that the  *)
(* functions create, start, stop and destroy while their threads run.      *)
(*                                                                         *)
(* Data is abstracted to "this place holds some data": the output FIFO of  *)
(* an equipment, the aggregator, its output FIFO, a consumer.              *)
(***************************************************************************)
EXTENDS Naturals, FiniteSets

CONSTANTS
  Drivers,          \* "standalone", "interactive": how main() may be started
  NEquipments,      \* equipments and consumers of the configuration,
  NConsumers,       \* in the order of their creation
  OutputOf,         \* consumerOutput of each consumer; 0 when it has none
  StopOnErrorDev,   \* equipments and consumers
  StopOnErrorCons,  \* with the option stopOnError
  NumberOfRuns,     \* cfgNumberOfRuns
  TimeStart,        \* whether cfgTimeStart is set
  NAddresses,       \* bound: addresses at which consumers are created
  MaxConfigure      \* bound: CONFIGURE commands

Equipments == 1 .. NEquipments
Consumers == 1 .. NConsumers
Addresses == 1 .. NAddresses

ASSUME ReadoutAssumption ==
  /\ Drivers \subseteq {"standalone", "interactive"}
  /\ NEquipments \in Nat \ {0} /\ NConsumers \in Nat \ {0}
  /\ OutputOf \in [Consumers -> Consumers \cup {0}]
  /\ StopOnErrorDev \subseteq Equipments /\ StopOnErrorCons \subseteq Consumers
  /\ NumberOfRuns \in Nat /\ TimeStart \in BOOLEAN
  /\ NAddresses \in Nat /\ NAddresses >= NConsumers
  /\ MaxConfigure \in Nat \ {0}

VARIABLES
  driver,           \* the state machine in use
  theState,         \* its state
  pc,               \* where the main thread is
  k,                \* its loop counter over equipments or consumers
  stopRequested,    \* theCommand = Stop, after iterateRunning() / iterateCheck()
  runsLeft,         \* runs still to do in standalone mode
  nConfigure,       \* CONFIGURE commands so far
  ShutdownRequest,
  isRunning,
  isError,
  consumer,         \* each consumer: "none", "stopped" or "started"
  address,          \* where it was created
  consumersOutput,  \* the map, from addresses; 0 where it has no entry
  forward,          \* forwardConsumer
  isForward,        \* isForwardConsumer
  device,           \* each equipment: "none", "idle" or "on" (thread running)
  data,             \* "off", "on", or "drain" after setDataOff()
  devError,         \* "none", "error" or "fatal"
  agg,              \* "none", "off" or "on"
  loop,             \* runningThread: "none", "on" or "ended"
  dataOut, aggHeld, output, held  \* where there is data

controlVars == <<driver, theState, pc, k, stopRequested, runsLeft, nConfigure>>
flags == <<ShutdownRequest, isRunning, isError>>
links == <<address, consumersOutput, forward, isForward>>
deviceVars == <<device, data, devError>>
threads == <<agg, loop>>
places == <<dataOut, aggHeld, output, held>>
vars == <<controlVars, flags, consumer, links, deviceVars, threads, places>>

States == {"standby", "configured", "running", "error"}
Points == {"command", "iterate", "startDevice", "dataOn", "startLoop", "dataOff", "join",
           "stopDevice", "stopAgg", "drain", "stopConsumer", "resetPrimary", "resetSecondary",
           "resetOutput", "resetAgg", "resetDevices", "destroyAgg", "destroyConsumer", "destroyDevices", "gone"}

\* Every variable has its type.
TypeOK ==
  /\ driver \in Drivers
  /\ theState \in States
  /\ pc \in Points
  /\ k \in 0 .. NEquipments \/ k \in 0 .. NConsumers
  /\ stopRequested \in BOOLEAN
  /\ runsLeft \in 0 .. NumberOfRuns
  /\ nConfigure \in 0 .. MaxConfigure
  /\ ShutdownRequest \in BOOLEAN /\ isRunning \in BOOLEAN /\ isError \in BOOLEAN
  /\ consumer \in [Consumers -> {"none", "stopped", "started"}]
  /\ address \in [Consumers -> Addresses \cup {0}]
  /\ consumersOutput \in [Addresses -> Consumers \cup {0}]
  /\ forward \in [Consumers -> Consumers \cup {0}]
  /\ isForward \in [Consumers -> BOOLEAN]
  /\ device \in [Equipments -> {"none", "idle", "on"}]
  /\ data \in [Equipments -> {"off", "on", "drain"}]
  /\ devError \in [Equipments -> {"none", "error", "fatal"}]
  /\ agg \in {"none", "off", "on"}
  /\ loop \in {"none", "on", "ended"}
  /\ dataOut \in [Equipments -> BOOLEAN]
  /\ aggHeld \in BOOLEAN /\ output \in BOOLEAN
  /\ held \in [Consumers -> BOOLEAN]

Init ==
  /\ driver \in Drivers
  /\ theState = "standby"
  /\ pc = "command"
  /\ k = 0
  /\ stopRequested = FALSE
  /\ runsLeft = NumberOfRuns
  /\ nConfigure = 0
  /\ ShutdownRequest = FALSE /\ isRunning = FALSE /\ isError = FALSE
  /\ consumer = [c \in Consumers |-> "none"]
  /\ address = [c \in Consumers |-> 0]
  /\ consumersOutput = [a \in Addresses |-> 0]
  /\ forward = [c \in Consumers |-> 0]
  /\ isForward = [c \in Consumers |-> FALSE]
  /\ device = [e \in Equipments |-> "none"]
  /\ data = [e \in Equipments |-> "off"]
  /\ devError = [e \in Equipments |-> "none"]
  /\ agg = "none" /\ loop = "none"
  /\ dataOut = [e \in Equipments |-> FALSE]
  /\ aggHeld = FALSE /\ output = FALSE
  /\ held = [c \in Consumers |-> FALSE]

Alive == pc # "gone"

-----------------------------------------------------------------------------
(* The state machines.                                                     *)

\* what the standalone sequence does next
StandaloneCommand ==
  CASE theState = "standby" -> IF nConfigure = 0 THEN "configure" ELSE "exit"
    [] theState = "configured" -> IF runsLeft > 0 THEN "start" ELSE "reset"
    [] theState = "running" -> "stop"
    [] theState = "error" -> "exit"

\* a command is executed: the next one of the standalone sequence, the stop
\* that the last iteration asked for, or any key of the interactive prompt
Executes(command) ==
  /\ pc = "command"
  /\ IF driver = "standalone" THEN command = StandaloneCommand
     ELSE stopRequested => command = "stop"

\* a function returns to the state machine, which enters state s; an iteration
\* follows each command in interactive mode, all the time in standalone mode
ReturnTo(s) ==
  /\ theState' = s
  /\ pc' = IF s = "running" THEN "iterate" ELSE "command"
  /\ k' = 0

\* a command that is not valid in the current state, which is only reported
InvalidCommand ==
  /\ driver = "interactive" /\ pc = "command" /\ ~ stopRequested
  /\ ReturnTo(theState)
  /\ UNCHANGED <<driver, stopRequested, runsLeft, nConfigure, flags, consumer, links, deviceVars,
                 threads, places>>

\* the wait for the START time of the standalone mode, which a signal cuts short
GiveUpRuns ==
  /\ driver = "standalone" /\ TimeStart /\ ShutdownRequest
  /\ pc = "command" /\ theState = "configured" /\ runsLeft = NumberOfRuns
  /\ runsLeft' = 0
  /\ UNCHANGED <<driver, theState, pc, k, stopRequested, nConfigure, flags, consumer, links,
                 deviceVars, threads, places>>

\* signalHandler(): the second signal in a row ends the process at once
Signal ==
  /\ Alive
  /\ ShutdownRequest' = TRUE
  /\ pc' = IF ShutdownRequest THEN "gone" ELSE pc
  /\ UNCHANGED <<driver, theState, k, stopRequested, runsLeft, nConfigure, isRunning, isError,
                 consumer, links, deviceVars, threads, places>>

-----------------------------------------------------------------------------
(* iterateRunning() and iterateCheck(), while running.                     *)

DeviceFailed ==
  \E e \in Equipments :
    devError[e] = "fatal" \/ (devError[e] # "none" /\ e \in StopOnErrorDev)

\* Variant: iterateRunning() does not look at the signal flag.
NeverStopsRunning(timeout) == timeout \/ isError

\* iterateRunning() returns an error or asks to stop
StopsRunning(timeout) == ShutdownRequest \/ timeout \/ isError

\* timeout: exitTimeout or the STOP time; tooManyMessages: cfgMaxMsgError / Warning
Iterate(timeout, tooManyMessages) ==
  /\ pc = "iterate"
  /\ LET asked == StopsRunning(timeout)
         checked == driver = "interactive" \/ ~ asked
         failed == checked /\ (isError \/ DeviceFailed)
     IN /\ stopRequested' = (asked \/ failed)
        /\ isError' = (isError \/ failed \/ (checked /\ tooManyMessages))
  /\ pc' = IF driver = "interactive" \/ stopRequested' THEN "command" ELSE "iterate"
  /\ UNCHANGED <<driver, theState, k, runsLeft, nConfigure, ShutdownRequest, isRunning, consumer,
                 links, deviceVars, threads, places>>

-----------------------------------------------------------------------------
(* _configure().                                                           *)

\* the map after the consumers in S were created at addresses A: insert() does
\* not replace an entry that is already there
OutputMap(S, A) ==
  [a \in Addresses |->
     IF consumersOutput[a] # 0 THEN consumersOutput[a]
     ELSE LET new == {c \in S : A[c] = a}
          IN IF new = {} THEN 0 ELSE OutputOf[CHOOSE c \in new : TRUE]]

\* the addresses in map M whose consumer asks for t as its output
Claims(M, t) == {a \in Addresses : M[a] = t}

\* the map is read by address: the first one that asks for t gets it
Wins(M, a) == \A b \in Claims(M, M[a]) : a <= b

LinkFails(M, S) == \E a \in Addresses : M[a] # 0 /\ (M[a] \notin S \/ ~ Wins(M, a))

\* the consumers in S are created and linked
CreateConsumers(S, A) ==
  LET M == OutputMap(S, A) IN
  /\ consumer' = [c \in Consumers |-> IF c \in S THEN "stopped" ELSE "none"]
  /\ address' = [c \in Consumers |-> IF c \in S THEN A[c] ELSE 0]
  /\ consumersOutput' = M
  /\ isForward' = [c \in Consumers |-> c \in S /\ Claims(M, c) # {}]
  /\ forward' = [c \in Consumers |->
       IF c \in S /\ M[A[c]] \in S /\ Wins(M, A[c]) THEN M[A[c]] ELSE 0]

\* the configuration can not be read, or another part of it fails early
ConfigureFails ==
  /\ Executes("configure") /\ theState = "standby" /\ nConfigure < MaxConfigure
  /\ nConfigure' = nConfigure + 1
  /\ ReturnTo("error")
  /\ UNCHANGED <<driver, stopRequested, runsLeft, flags, consumer, links, deviceVars, threads,
                 places>>

\* S and D: the consumers and the equipments that can be created (one of a type
\* that this build does not support counts as a consumer that fails, and as no
\* equipment at all)
Configure(S, D) ==
  /\ Executes("configure") /\ theState = "standby" /\ nConfigure < MaxConfigure
  /\ nConfigure' = nConfigure + 1
  /\ \E A \in [Consumers -> Addresses] :
       /\ \A c, d \in Consumers : A[c] = A[d] => c = d
       /\ CreateConsumers(S, A)
       /\ LET consumersOk == S = Consumers /\ ~ LinkFails(OutputMap(S, A), S)
              ok == consumersOk /\ D = Equipments
          IN /\ device' = [e \in Equipments |-> IF consumersOk /\ e \in D THEN "idle" ELSE "none"]
             /\ agg' = IF ok THEN "off" ELSE "none"
             /\ output' = (output /\ ~ ok)
             /\ ReturnTo(IF ok THEN "configured" ELSE "error")
  /\ UNCHANGED <<driver, stopRequested, runsLeft, flags, data, devError, loop, dataOut, aggHeld, held>>

\* the map holds an address where no consumer is any more, which is read and
\* written to, or the old output FIFO still holds blocks of a pool that is
\* gone: apart from what Configure() does this may end the process
ConfigureCrashes ==
  /\ Executes("configure") /\ theState = "standby" /\ nConfigure < MaxConfigure
  /\ output \/ \E a \in Addresses : consumersOutput[a] # 0
  /\ pc' = "gone"
  /\ UNCHANGED <<driver, theState, k, stopRequested, runsLeft, nConfigure, flags, consumer, links,
                 deviceVars, threads, places>>

-----------------------------------------------------------------------------
(* _start().                                                               *)

\* an exception leaves the function, and everything as it is
Throw ==
  /\ ReturnTo("error")
  /\ UNCHANGED <<deviceVars>>

\* up to the start of the consumers; it clears the signal flag, not isError
Start ==
  /\ Executes("start") /\ theState = "configured"
  /\ runsLeft' = IF driver = "standalone" THEN runsLeft - 1 ELSE runsLeft
  /\ ShutdownRequest' = FALSE
  /\ agg' = "on"
  /\ consumer' = [c \in Consumers |-> "started"]
  /\ pc' = "startDevice" /\ k' = 1
  /\ UNCHANGED <<driver, theState, stopRequested, nConfigure, isRunning, isError, links, deviceVars,
                 loop, places>>

\* the loop over the equipments goes on at the same point, or ends
NextEquipment(p) ==
  /\ UNCHANGED theState
  /\ IF k < NEquipments THEN k' = k + 1 /\ UNCHANGED pc
     ELSE k' = 1 /\ pc' = p

\* ReadoutEquipment::start(), which resets the error flags and starts the thread
StartDevice ==
  /\ pc = "startDevice"
  /\ \/ Throw
     \/ /\ device' = [device EXCEPT ![k] = "on"]
        /\ data' = [data EXCEPT ![k] = "off"]
        /\ devError' = [devError EXCEPT ![k] = "none"]
        /\ NextEquipment("dataOn")
  /\ UNCHANGED <<driver, stopRequested, runsLeft, nConfigure, flags, consumer, links, threads,
                 places>>

\* setDataOn(), which may fail to start the DMA
DataOn ==
  /\ pc = "dataOn"
  /\ \/ Throw
     \/ /\ data' = [data EXCEPT ![k] = "on"]
        /\ NextEquipment("startLoop")
        /\ UNCHANGED <<device, devError>>
  /\ UNCHANGED <<driver, stopRequested, runsLeft, nConfigure, flags, consumer, links, threads,
                 places>>

StartLoop ==
  /\ pc = "startLoop"
  /\ isRunning' = TRUE
  /\ loop' = "on"
  /\ ReturnTo("running")
  /\ UNCHANGED <<driver, stopRequested, runsLeft, nConfigure, ShutdownRequest, isError, consumer,
                 links, deviceVars, agg, places>>

-----------------------------------------------------------------------------
(* _stop().                                                                *)

Stop ==
  /\ Executes("stop") /\ theState = "running"
  /\ stopRequested' = FALSE
  /\ isRunning' = FALSE
  /\ pc' = "dataOff"
  /\ UNCHANGED <<driver, theState, k, runsLeft, nConfigure, ShutdownRequest, isError, consumer,
                 links, deviceVars, threads, places>>

\* setDataOff() for all; the flush of the aggregator that follows only moves data
DataOff ==
  /\ pc = "dataOff"
  /\ data' = [e \in Equipments |-> "drain"]
  /\ pc' = "join"
  /\ UNCHANGED <<driver, theState, k, stopRequested, runsLeft, nConfigure, flags, consumer, links,
                 device, devError, threads, places>>

\* Variant: the end of the main loop is not waited for.
JoinLoopNoWait ==
  /\ pc = "join"
  /\ pc' = "stopDevice" /\ k' = 1
  /\ UNCHANGED <<driver, theState, stopRequested, runsLeft, nConfigure, flags, consumer, links,
                 deviceVars, agg, loop, places>>

JoinLoop ==
  /\ pc = "join"
  /\ loop = "ended"
  /\ loop' = "none"
  /\ pc' = "stopDevice" /\ k' = 1
  /\ UNCHANGED <<driver, theState, stopRequested, runsLeft, nConfigure, flags, consumer, links,
                 deviceVars, agg, places>>

\* ReadoutEquipment::stop(), which joins the thread
StopDevice ==
  /\ pc = "stopDevice"
  /\ device' = [device EXCEPT ![k] = "idle"]
  /\ data' = [data EXCEPT ![k] = "off"]
  /\ NextEquipment("stopAgg")
  /\ UNCHANGED <<driver, stopRequested, runsLeft, nConfigure, flags, consumer, links, devError,
                 threads, places>>

\* Variant: the FIFOs around the aggregator are not cleared.
StopAggKeepsData ==
  /\ pc = "stopAgg"
  /\ agg' = "off"
  /\ pc' = "drain" /\ k' = 0
  /\ UNCHANGED <<driver, theState, stopRequested, runsLeft, nConfigure, flags, consumer, links,
                 deviceVars, loop, places>>

\* DataBlockAggregator::stop(), which also clears its input and output FIFOs
StopAgg ==
  /\ pc = "stopAgg"
  /\ agg' = "off"
  /\ dataOut' = [e \in Equipments |-> FALSE]
  /\ aggHeld' = FALSE
  /\ output' = FALSE
  /\ pc' = "drain" /\ k' = 0
  /\ UNCHANGED <<driver, theState, stopRequested, runsLeft, nConfigure, flags, consumer, links,
                 deviceVars, loop, held>>

\* the wait for the pages in use, until none is left or until the timeout
Drain ==
  /\ pc = "drain"
  /\ pc' = "stopConsumer" /\ k' = 1
  /\ UNCHANGED <<driver, theState, stopRequested, runsLeft, nConfigure, flags, consumer, links,
                 deviceVars, threads, places>>

\* Consumer::stop(), in the order of the configuration; a consumer may keep data
StopConsumer ==
  /\ pc = "stopConsumer"
  /\ consumer' = [consumer EXCEPT ![k] = "stopped"]
  /\ IF k < NConsumers THEN k' = k + 1 /\ UNCHANGED <<theState, pc>>
     ELSE ReturnTo("configured")
  /\ UNCHANGED <<driver, stopRequested, runsLeft, nConfigure, flags, links, deviceVars, threads,
                 places>>

-----------------------------------------------------------------------------
(* _reset().                                                               *)

\* Variant: the error flag stays set.
ResetKeepsError ==
  /\ Executes("reset") /\ theState \in {"configured", "error"}
  /\ pc' = "resetPrimary" /\ k' = 1
  /\ UNCHANGED <<driver, theState, stopRequested, runsLeft, nConfigure, flags, consumer, links,
                 deviceVars, threads, places>>

Reset ==
  /\ Executes("reset") /\ theState \in {"configured", "error"}
  /\ isError' = FALSE
  /\ pc' = "resetPrimary" /\ k' = 1
  /\ UNCHANGED <<driver, theState, stopRequested, runsLeft, nConfigure, ShutdownRequest, isRunning,
                 consumer, links, deviceVars, threads, places>>

\* the destructor of a consumer ends its threads and releases its data
DestroyConsumer(c) ==
  /\ consumer' = [consumer EXCEPT ![c] = "none"]
  /\ address' = [address EXCEPT ![c] = 0]
  /\ forward' = [forward EXCEPT ![c] = 0]
  /\ isForward' = [isForward EXCEPT ![c] = FALSE]
  /\ held' = [held EXCEPT ![c] = FALSE]
  /\ UNCHANGED consumersOutput

\* the loop over the consumers goes on at the same point, or ends
NextConsumer(p) ==
  IF k < NConsumers THEN k' = k + 1 /\ UNCHANGED pc ELSE k' = 1 /\ pc' = p

\* Variant: every consumer is destroyed in the first loop.
AnyIsPrimary(c) == TRUE

IsPrimary(c) == ~ isForward[c]

\* the consumers that get their data from the main loop go first
ResetPrimary ==
  /\ pc = "resetPrimary"
  /\ IF IsPrimary(k) THEN DestroyConsumer(k) ELSE UNCHANGED <<consumer, links, held>>
  /\ NextConsumer("resetSecondary")
  /\ UNCHANGED <<driver, theState, stopRequested, runsLeft, nConfigure, flags, deviceVars, threads,
                 dataOut, aggHeld, output>>

ResetSecondary ==
  /\ pc = "resetSecondary"
  /\ DestroyConsumer(k)
  /\ NextConsumer("resetOutput")
  /\ UNCHANGED <<driver, theState, stopRequested, runsLeft, nConfigure, flags, deviceVars, threads,
                 dataOut, aggHeld, output>>

\* agg_output->clear(), if there is an aggregator; after a start that failed its
\* thread still runs
ResetOutput ==
  /\ pc = "resetOutput"
  /\ output' = (output /\ agg = "none")
  /\ pc' = "resetAgg" /\ k' = 0
  /\ UNCHANGED <<driver, theState, stopRequested, runsLeft, nConfigure, flags, consumer, links,
                 deviceVars, threads, dataOut, aggHeld, held>>

\* the destructor of the aggregator joins its thread and releases what it holds
ReleaseAgg == agg' = "none" /\ aggHeld' = FALSE

ResetAgg ==
  /\ pc = "resetAgg"
  /\ ReleaseAgg
  /\ pc' = "resetDevices" /\ k' = 0
  /\ UNCHANGED <<driver, theState, stopRequested, runsLeft, nConfigure, flags, consumer, links,
                 deviceVars, loop, dataOut, output, held>>

\* their threads are ended first: some may run after a start that failed
ReleaseDevices ==
  /\ device' = [e \in Equipments |-> "none"]
  /\ data' = [e \in Equipments |-> "off"]
  /\ devError' = [e \in Equipments |-> "none"]
  /\ dataOut' = [e \in Equipments |-> FALSE]

\* then the memory banks, the logbook and the timeframe server are released
ResetDevices ==
  /\ pc = "resetDevices"
  /\ ReleaseDevices
  /\ ReturnTo("standby")
  /\ UNCHANGED <<driver, stopRequested, runsLeft, nConfigure, flags, consumer, links, threads,
                 aggHeld, output, held>>

-----------------------------------------------------------------------------
(* The end of main() and ~Readout().                                       *)

Exit ==
  /\ Executes("exit")
  /\ isRunning' = FALSE
  /\ pc' = "destroyAgg"
  /\ UNCHANGED <<driver, theState, k, stopRequested, runsLeft, nConfigure, ShutdownRequest, isError,
                 consumer, links, deviceVars, threads, places>>

\* Variant: the output FIFO of the aggregator is not released.
DestroyAggKeepsOutput ==
  /\ pc = "destroyAgg"
  /\ loop # "on"
  /\ loop' = "none"
  /\ ReleaseAgg
  /\ device' = [e \in Equipments |-> IF device[e] = "on" THEN "idle" ELSE device[e]]
  /\ pc' = "destroyConsumer" /\ k' = 1
  /\ UNCHANGED <<driver, theState, stopRequested, runsLeft, nConfigure, flags, consumer, links,
                 data, devError, dataOut, output, held>>

\* the main loop is joined if there is one, the aggregator and then its output
\* destroyed, and the threads of the equipments are ended
DestroyAgg ==
  /\ pc = "destroyAgg"
  /\ loop # "on"
  /\ loop' = "none"
  /\ ReleaseAgg
  /\ output' = FALSE
  /\ device' = [e \in Equipments |-> IF device[e] = "on" THEN "idle" ELSE device[e]]
  /\ pc' = "destroyConsumer" /\ k' = 1
  /\ UNCHANGED <<driver, theState, stopRequested, runsLeft, nConfigure, flags, consumer, links,
                 data, devError, dataOut, held>>

\* dataConsumers.clear(): in the order of the vector
DestroyNextConsumer ==
  /\ pc = "destroyConsumer"
  /\ DestroyConsumer(k)
  /\ NextConsumer("destroyDevices")
  /\ UNCHANGED <<driver, theState, stopRequested, runsLeft, nConfigure, flags, deviceVars, threads,
                 dataOut, aggHeld, output>>

DestroyDevices ==
  /\ pc = "destroyDevices"
  /\ ReleaseDevices
  /\ pc' = "gone"
  /\ UNCHANGED <<driver, theState, k, stopRequested, runsLeft, nConfigure, flags, consumer, links,
                 threads, aggHeld, output, held>>

-----------------------------------------------------------------------------
(* The threads.                                                            *)

\* an equipment with data enabled pushes to its output FIFO; what is in the
\* device when data is disabled still comes
Produce(e) ==
  /\ Alive /\ device[e] = "on" /\ data[e] # "off"
  /\ dataOut' = [dataOut EXCEPT ![e] = TRUE]
  /\ UNCHANGED <<controlVars, flags, consumer, links, deviceVars, threads, aggHeld, output, held>>

DeviceFault(e, kind) ==
  /\ Alive /\ device[e] = "on" /\ devError[e] = "none"
  /\ devError' = [devError EXCEPT ![e] = kind]
  /\ UNCHANGED <<controlVars, flags, consumer, links, device, data, threads, places>>

\* the aggregator takes data, and later sends it (see DataBlockAggregator)
AggregatorTakes(e) ==
  /\ Alive /\ agg = "on" /\ dataOut[e]
  /\ aggHeld' = TRUE
  /\ \E left \in BOOLEAN : dataOut' = [dataOut EXCEPT ![e] = left]
  /\ UNCHANGED <<controlVars, flags, consumer, links, deviceVars, threads, output, held>>

AggregatorSends ==
  /\ Alive /\ agg = "on" /\ aggHeld
  /\ output' = TRUE
  /\ aggHeld' \in BOOLEAN
  /\ UNCHANGED <<controlVars, flags, consumer, links, deviceVars, threads, dataOut, held>>

\* one data set is pushed to each consumer that is not fed by another one:
\* those in K keep it for a while; those in F have reported an error, in
\* pushData() or in a thread of their own
LoopPush(K, F) ==
  /\ Alive /\ loop = "on" /\ output
  /\ F \subseteq {c \in Consumers : consumer[c] # "none"}
  /\ K \subseteq {c \in Consumers : consumer[c] # "none" /\ ~ isForward[c]}
  /\ held' = [c \in Consumers |-> held[c] \/ c \in K]
  /\ isError' = (isError \/ F \cap StopOnErrorCons # {})
  /\ output' \in BOOLEAN
  /\ UNCHANGED <<controlVars, ShutdownRequest, isRunning, consumer, links, deviceVars, threads,
                 dataOut, aggHeld>>

\* the loop ends after the stop, when its timer is over
LoopEnds ==
  /\ Alive /\ loop = "on" /\ ~ isRunning
  /\ loop' = "ended"
  /\ UNCHANGED <<controlVars, flags, consumer, links, deviceVars, agg, places>>

\* an exception ends the loop, and is only logged
LoopThrows ==
  /\ Alive /\ loop = "on" /\ output
  /\ loop' = "ended"
  /\ UNCHANGED <<controlVars, flags, consumer, links, deviceVars, agg, places>>

\* a consumer is there, and the one it pushes to is not
Dangling(c) ==
  consumer[c] # "none" /\ forward[c] # 0 /\ consumer[forward[c]] = "none"

\* the threads of a consumer release data, which goes to the consumer linked to
\* it; if that one is destroyed the data is lost
ConsumerWorks(c) ==
  /\ Alive /\ held[c]
  /\ \E left \in BOOLEAN :
       held' = [d \in Consumers |-> IF d = c THEN left ELSE held[d] \/ (forward[c] = d /\ consumer[d] # "none")]
  /\ UNCHANGED <<controlVars, flags, consumer, links, deviceVars, threads, dataOut, aggHeld, output>>

\* or the push to a destroyed object ends the process
PushToDestroyed(c) ==
  /\ Alive /\ held[c] /\ Dangling(c)
  /\ pc' = "gone"
  /\ UNCHANGED <<driver, theState, k, stopRequested, runsLeft, nConfigure, flags, consumer, links,
                 deviceVars, threads, places>>

-----------------------------------------------------------------------------
\* the steps of the main thread that wait for nothing outside the process
MainThread ==
  \/ Iterate(FALSE, FALSE)
  \/ StartDevice \/ DataOn \/ StartLoop
  \/ DataOff \/ JoinLoop \/ StopDevice \/ StopAgg \/ Drain \/ StopConsumer
  \/ ResetPrimary \/ ResetSecondary \/ ResetOutput \/ ResetAgg \/ ResetDevices
  \/ DestroyAgg \/ DestroyNextConsumer \/ DestroyDevices

\* the commands, given by the sequence of the standalone mode or by a key
Command ==
  \/ InvalidCommand
  \/ GiveUpRuns
  \/ ConfigureFails
  \/ \E S \in SUBSET Consumers, D \in SUBSET Equipments : Configure(S, D)
  \/ ConfigureCrashes
  \/ Start
  \/ Stop
  \/ Reset
  \/ Exit

Threads ==
  \/ \E e \in Equipments :
       \/ Produce(e)
       \/ \E kind \in {"error", "fatal"} : DeviceFault(e, kind)
       \/ AggregatorTakes(e)
  \/ AggregatorSends
  \/ \E K, F \in SUBSET Consumers : LoopPush(K, F)
  \/ LoopEnds
  \/ LoopThrows
  \/ \E c \in Consumers : ConsumerWorks(c) \/ PushToDestroyed(c)

\* an iteration that finds a timeout over, or a limit on messages reached
IterateLimits == \E t, m \in BOOLEAN : (t \/ m) /\ Iterate(t, m)

Next == Command \/ MainThread \/ IterateLimits \/ Threads \/ Signal

Spec == Init /\ [][Next]_vars

\* the main thread runs, and the main loop sees that it has to end; nobody has
\* to press a key, no limit has to be reached, no other thread has to do anything
FairSpec ==
  /\ Spec
  /\ WF_vars(MainThread)
  /\ WF_vars(driver = "standalone" /\ Command)
  /\ WF_vars(LoopEnds)

-----------------------------------------------------------------------------
(* Properties.                                                             *)

NoData ==
  /\ \A e \in Equipments : ~ dataOut[e]
  /\ ~ aggHeld /\ ~ output

\* Between two runs nothing is left of the last one: when STOP has returned no
\* thread of the data flow runs, no consumer is started, and no data is left on
\* the way to the consumers for the next run to find.  (Every variable has its
\* type besides.)
QuietWhenConfigured ==
  /\ TypeOK
  /\ theState = "configured" /\ pc = "command" =>
       /\ loop = "none" /\ ~ isRunning
       /\ agg = "off"
       /\ \A e \in Equipments : device[e] = "idle" /\ data[e] = "off"
       /\ \A c \in Consumers : consumer[c] = "stopped"
       /\ NoData

\* RESET leaves no component, no thread and no flag behind, from every state it
\* is allowed in, also after a CONFIGURE or a START that failed half way.
StandbyIsClean ==
  theState = "standby" /\ pc = "command" =>
    /\ loop = "none" /\ ~ isRunning /\ ~ isError
    /\ agg = "none"
    /\ \A e \in Equipments : device[e] = "none" /\ devError[e] = "none"
    /\ \A c \in Consumers : consumer[c] = "none" /\ ~ held[c]
    /\ ~ aggHeld /\ \A e \in Equipments : ~ dataOut[e]

\* STOP and RESET leave nothing behind.
CleanBetweenCommands == QuietWhenConfigured /\ StandbyIsClean

\* "Function called just before starting data taking", "after the last call to
\* pushData()": the main loop pushes data to a consumer only between its
\* start() and its stop().
PushedWhileStarted ==
  [][\A c \in Consumers :
       ~ isForward[c] /\ held'[c] /\ ~ held[c] => consumer[c] = "started"]_vars

\* During RESET no consumer that is still active pushes its output to a
\* consumer that is already destroyed: the consumers fed by others go last.
ResetOrder ==
  pc \in {"resetPrimary", "resetSecondary"} => \A c \in Consumers : ~ Dangling(c)

\* no data is left in a place that outlives the equipments
NothingHeld == ~ aggHeld /\ ~ output /\ \A c \in Consumers : ~ held[c]

DevicesReleased == \E e \in Equipments : device[e] # "none" /\ device'[e] = "none"

\* The equipments own the memory of the data: after a complete run, or when the
\* process ends, they are destroyed when no data is left in the aggregator, in
\* its output or in a consumer.
DataReleasedFirst == [][DevicesReleased /\ ~ (theState = "error" /\ pc = "resetDevices") => NothingHeld]_vars

\* In standalone mode a run in which a signal is pending, an equipment has a
\* fatal error or a consumer failed is always stopped.
RunIsStopped ==
  (driver = "standalone" /\ theState = "running" /\ (ShutdownRequest \/ DeviceFailed \/ isError))
    ~> (theState # "running" \/ pc = "gone")

=============================================================================
