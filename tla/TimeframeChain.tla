--------------------------- MODULE TimeframeChain ---------------------------
(***************************************************************************)
(* Two readout processes.  The first one replays a file                    *)
(* (ReadoutEquipmentPlayer) or generates data                              *)
(* (ReadoutEquipmentCruEmulator), and its main loop tells every new        *)
(* timeframe to the subscribers of its timeframe server (ZmqServer.cxx),   *)
(* at a rate that may be limited.  The second one is such a subscriber:    *)
(* its ZeroMQ equipment gives one block for each timeframe.  Messages may  *)
(* be lost, and the first process may stop and start again, with its       *)
(* timeframes numbered from one again.                                     *)
(*                                                                         *)
(* Between equipment and main loop is the aggregator, by what              *)
(* DataBlockAggregator shows of it: without slicing, the pages come one by *)
(* one in the order of the equipment; with slicing, the pages of a link    *)
(* and a timeframe come together, and only the pages of one link keep      *)
(* their order.  (The building of timeframes, which orders the links too,  *)
(* is left to DataBlockAggregator.)                                        *)
(***************************************************************************)
EXTENDS ReadoutEquipmentPlayer, ReadoutEquipmentCruEmulator, ReadoutEquipmentZmq

CONSTANTS
  Setups,      \* the configurations to look at: of the equipment of the first process, of
               \* that of the second, of the aggregator (slicing, or disableAggregatorSlicing),
               \* of the rate limit ("none", or tfRateLimitMode 0 "id" or 1 "count"), and a
               \* bound on the runs of the first process
  MaxAllowed   \* bound on the time, in timeframes that the rate allows

ASSUME ChainAssumption ==
  /\ Setups \subseteq [source : {"player", "emulator"}, player : PlayerConfigs,
                       emulator : EmulatorConfigs, mode : ZmqModes, slicing : BOOLEAN,
                       rate : {"none", "id", "count"}, starts : Nat]
  /\ MaxAllowed \in Nat \ {0}

VARIABLES
  setup,
  allowed,    \* maxTimeframes: grows with the time since START
  starts,     \* runs so far
  taken,      \* the pages that the main loop gave to the consumers, by their place in Input
  currentTimeframeId, countTimeframeId,
  published,  \* history: the timeframe ids published in this run
  highest     \* history: the highest timeframe id of all that were published

loopVars == <<setup, allowed, starts, taken, currentTimeframeId, countTimeframeId,
              published, highest>>

sourceVars == <<playerVars, emuVars>>

vars == <<sourceVars, zmqVars, loopVars>>

Init ==
  /\ setup \in Setups /\ player = setup.player /\ emulator = setup.emulator /\ mode = setup.mode
  /\ PlayerInit /\ EmulatorInit /\ ZmqInit
  /\ allowed = 1 /\ starts = 0 /\ taken = {}
  /\ currentTimeframeId = 0 /\ countTimeframeId = 0
  /\ published = << >> /\ highest = 0

-----------------------------------------------------------------------------
(* The first process *)

RunOn == playerOn \/ emuOn

\* the pages that come from the equipment, in its order
Input == IF setup.source = "player" THEN pages ELSE given

Start ==
  /\ ~RunOn /\ starts < setup.starts
  /\ \/ setup.source = "player" /\ PlayerStart /\ UNCHANGED emuVars
     \/ setup.source = "emulator" /\ EmulatorStart /\ UNCHANGED playerVars
  /\ starts' = starts + 1
  /\ allowed' = 1 /\ taken' = {}
  /\ currentTimeframeId' = 0 /\ countTimeframeId' = 0
  /\ published' = << >>
  /\ UNCHANGED <<zmqVars, setup, highest>>

Stop ==
  /\ \/ playerOn /\ PlayerStop /\ UNCHANGED emuVars
     \/ emuOn /\ EmulatorStop /\ UNCHANGED playerVars
  /\ UNCHANGED <<zmqVars, loopVars>>

Play ==
  /\ PlayerStep \/ ReadError
  /\ UNCHANGED <<emuVars, zmqVars, loopVars>>

Generate ==
  /\ EmulatorStep \/ ClockTicks
  /\ UNCHANGED <<playerVars, zmqVars, loopVars>>

\* startTimer.getTime() * cfgTfRateLimit grows by one.
TimePasses ==
  /\ RunOn /\ setup.rate # "none" /\ allowed < MaxAllowed
  /\ allowed' = allowed + 1
  /\ UNCHANGED <<sourceVars, zmqVars, setup, starts, taken, currentTimeframeId,
                 countTimeframeId, published, highest>>

\* The data set from page k to page n.
DataSet(k, n) == {i \in k .. n : Input[i].link = Input[k].link}

\* It can be the next one at the output of the aggregator.  A slice is closed by the next
\* timeframe of its link, by a timeout or by the flush at STOP: it may be any part of the
\* timeframe.
IsNext(k, n) ==
  /\ k \notin taken
  /\ \A j \in 1 .. k - 1 : j \in taken \/ (setup.slicing /\ Input[j].link # Input[k].link)
  /\ IF setup.slicing
       THEN /\ Input[n].link = Input[k].link
            /\ \A i \in DataSet(k, n) : Input[i].timeframeId = Input[k].timeframeId
       ELSE n = k

\* The main loop comes back later for a timeframe that is too early.
TooEarly(id) ==
  \/ setup.rate = "id" /\ id > allowed
  \/ setup.rate = "count" /\ countTimeframeId >= allowed

\* A data set of the current timeframe.
LoopSame(k, n) ==
  /\ RunOn /\ IsNext(k, n) /\ Input[k].timeframeId = currentTimeframeId
  /\ taken' = taken \cup DataSet(k, n)
  /\ UNCHANGED <<sourceVars, zmqVars, setup, allowed, starts, currentTimeframeId,
                 countTimeframeId, published, highest>>

\* ZmqServer::publish(): the subscriber gets the message or not.
TfPublish(id) ==
  \/ mode.tfClient /\ mode.snapshot /\ tfIn' = Append(tfIn, id)
  \/ UNCHANGED tfIn

\* The first data set of another one, which is published.
LoopNew(k, n) ==
  LET id == Input[k].timeframeId IN
  /\ RunOn /\ IsNext(k, n) /\ id # currentTimeframeId
  /\ ~TooEarly(id)
  /\ countTimeframeId' = countTimeframeId + 1
  /\ currentTimeframeId' = id
  /\ published' = Append(published, id)
  /\ highest' = IF id > highest THEN id ELSE highest
  /\ taken' = taken \cup DataSet(k, n)
  /\ TfPublish(id)
  /\ UNCHANGED <<sourceVars, setup, allowed, starts, mode, dcsOn, sent, dataIn, maxTf, nBlocks,
                 snap, lock, spc, smsg, bpc, block, blocks>>

MainLoop ==
  \E k \in 1 .. Len(Input) : \E n \in k .. Len(Input) : LoopSame(k, n) \/ LoopNew(k, n)

-----------------------------------------------------------------------------
(* The second process, and both *)

Dcs(A) == A /\ UNCHANGED <<sourceVars, loopVars>>

Next ==
  \/ Start \/ Stop \/ Play \/ Generate \/ TimePasses \/ MainLoop
  \/ Dcs(ZmqDataOn) \/ Dcs(ZmqDataOff)
  \/ \E s \in Sizes : Dcs(Publish(s))
  \/ Dcs(SnapshotThread) \/ Dcs(SnapAges) \/ Dcs(TfCallback) \/ Dcs(BlockThread)

\* The threads of the second process go on (its pool has a page again and again).
Fairness == WF_vars(Dcs(SnapshotThread)) /\ WF_vars(Dcs(TfCallback)) /\ WF_vars(Dcs(BlockThread))

Spec == Init /\ [][Next]_vars /\ Fairness

-----------------------------------------------------------------------------
(* Properties *)

\* What the equipment of the first process makes is sound: the pages of a replay are the file,
\* and the frames that are generated are complete.
SourcesAreFaithful == ReplayIsFaithful /\ EmulatedFramesComplete

\* The pages given to the consumers have no timeframes but the published ones, and none
\* was published before the rate limit allows it.
TicksPaced ==
  /\ {Input[k].timeframeId : k \in taken} \subseteq ToSet(published)
  /\ setup.rate = "count" => Len(published) <= allowed
  /\ setup.rate = "id" => \A k \in DOMAIN published : published[k] <= allowed

\* The pages reach the main loop in the order of the equipment.
OneOrder == ~setup.slicing \/ \A j, k \in DOMAIN Input : Input[j].link = Input[k].link

\* In a run, the timeframe ids are published in increasing order, each one once, also
\* over the loops of a replay, if the aggregator does not slice the pages or if they are
\* all of one link.  With slices of several links, which is the default, the aggregator sends
\* those of a link without regard to the others: a link that has nothing for a timeframe
\* makes the main loop publish an id again after a higher one.  (Nor do the links of the
\* emulator keep in step when their frames have different sizes.)  At any rate the ids keep to
\* the pace of the limit.
TicksIncrease ==
  /\ OneOrder /\ (setup.source = "player" \/ Regular) =>
       \A j, k \in DOMAIN published : j < k => published[j] < published[k]
  /\ TicksPaced

\* The subscriber never has more blocks out than there were timeframes: none before the
\* timeframe was published, none twice, over all the runs of the server and whatever
\* was lost or came late.
OneBlockPerTimeframe ==
  mode.tfClient /\ mode.snapshot => Len(blocks) <= highest /\ nBlocks = Len(blocks)

\* When the subscriber has heard of a timeframe and takes data, the blocks up to it go
\* out, unless it is stopped or the server goes back to a lower one.
TimeframesServed ==
  \A k \in 1 .. MaxBlocks :
    (maxTf = k /\ dcsOn) ~> (nBlocks >= k \/ ~dcsOn \/ maxTf # k)
=============================================================================
