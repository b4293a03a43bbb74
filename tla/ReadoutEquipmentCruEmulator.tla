-------------------- MODULE ReadoutEquipmentCruEmulator --------------------
(***************************************************************************)
(* The equipment that generates data (ReadoutEquipmentCruEmulator.cxx).    *)
(* For each link it fills a page with packets of heartbeat frames of       *)
(* random size, on the clock of the LHC: a frame every bcStep bunch        *)
(* crossings.  A page ends when it is full, or before the first frame of a *)
(* timeframe; a frame may go on in the next page.                          *)
(*                                                                         *)
(* A payload is counted in packets.  One action is one packet: the random  *)
(* choices are made one by one in a call of prepareBlocks(), which the one *)
(* thread of the equipment runs to its end.                                *)
(***************************************************************************)
EXTENDS Integers, Sequences, SequencesExt, FiniteSets

CONSTANTS
  EmulatorConfigs,  \* the configurations to look at
  LHCBunches,       \* bunch crossings in an orbit
  TimeframePeriod,  \* getTimeframePeriodOrbits()
  MaxClock,         \* bound on the time, in orbits
  MaxGiven          \* bound on the blocks of a run

\* the payload of an empty HB frame, and payloadBytesLeft between two frames
Empty == -1
NoFrame == -1

ASSUME EmulatorAssumption ==
  /\ {LHCBunches, TimeframePeriod} \subseteq Nat \ {0} /\ {MaxClock, MaxGiven} \subseteq Nat
  /\ \A c \in EmulatorConfigs :
       /\ {c.numberOfLinks, c.bcStep, c.HBperiod, c.capacity} \subseteq Nat \ {0}
       /\ c.payloads \subseteq Nat \cup {Empty} /\ c.payloads # {}
       /\ c.trigger \in Nat    \* orbits between two triggers, 0 when triggerRate is not set

VARIABLES
  emulator,        \* the configuration
  emuOn,           \* isDataOn
  clock,           \* orbits since the first call
  LHCorbit, LHCbc,
  linkState,       \* perLinkState
  pendingBlocks,   \* the number of links that have a page to fill
  nBlocksPerLink,
  fill,            \* the page being filled: its link (0 for none), nowOrbit, nowBc, nowId,
                   \* and the packets in it
  readyBlocks,
  given            \* the blocks of this run, in the order of getNextBlock()

emuVars == <<emulator, emuOn, clock, LHCorbit, LHCbc, linkState, pendingBlocks,
             nBlocksPerLink, fill, readyBlocks, given>>

Links == 1 .. emulator.numberOfLinks
NewLink == [HBpagecount |-> 0, isEmpty |-> FALSE, payloadBytesLeft |-> NoFrame, packetCounter |-> 0]
NoPage == [link |-> 0, orbit |-> 0, bc |-> 0, id |-> 0, packets |-> << >>]

\* getTimeframeFromOrbit(): the first orbit is that of the first call, 0
TimeframeFromOrbit(orbit) == 1 + orbit \div TimeframePeriod

EmulatorInit ==
  /\ emulator \in EmulatorConfigs
  /\ emuOn = FALSE /\ clock = 0
  /\ LHCorbit = 0 /\ LHCbc = 0 /\ linkState = [l \in Links |-> NewLink]
  /\ pendingBlocks = 0 /\ nBlocksPerLink = 0 /\ fill = NoPage
  /\ readyBlocks = << >> /\ given = << >>

\* initCounters()
EmulatorStart ==
  /\ emuOn' = TRUE /\ clock' = 0
  /\ LHCorbit' = 0 /\ LHCbc' = 0 /\ linkState' = [l \in Links |-> NewLink]
  /\ pendingBlocks' = 0 /\ nBlocksPerLink' = 0 /\ readyBlocks' = << >> /\ given' = << >>
  /\ UNCHANGED <<emulator, fill>>

\* finalCounters(), once the thread has ended its call
EmulatorStop ==
  /\ fill = NoPage
  /\ emuOn' = FALSE /\ readyBlocks' = << >>
  /\ UNCHANGED <<emulator, clock, LHCorbit, LHCbc, linkState, pendingBlocks, nBlocksPerLink,
                 fill, given>>

ClockTicks ==
  /\ emuOn /\ clock < MaxClock
  /\ clock' = clock + 1
  /\ UNCHANGED <<emulator, emuOn, LHCorbit, LHCbc, linkState, pendingBlocks, nBlocksPerLink,
                 fill, readyBlocks, given>>

-----------------------------------------------------------------------------
(* prepareBlocks()                                                         *)

\* the orbit follows the time when there are triggers
NowOrbit == IF emulator.trigger # 0 THEN clock ELSE LHCorbit

NewFill(link, orbit, bc) ==
  [link |-> link, orbit |-> orbit, bc |-> bc, id |-> TimeframeFromOrbit(orbit), packets |-> << >>]

\* Not faster than the LHC or the triggers, and not before the last set of pages is gone.
\* The pool gives the pages that are missing, or some of them, which are kept.
PrepareBlocks ==
  /\ emuOn /\ fill = NoPage
  /\ Len(given) + emulator.numberOfLinks <= MaxGiven
  /\ emulator.trigger # 0 => nBlocksPerLink * emulator.trigger <= clock
  /\ NowOrbit <= clock
  /\ emulator.numberOfLinks - Len(readyBlocks) >= emulator.numberOfLinks
  /\ pendingBlocks' \in pendingBlocks .. emulator.numberOfLinks
  /\ LHCorbit' = NowOrbit
  /\ fill' = IF pendingBlocks' = emulator.numberOfLinks THEN NewFill(1, NowOrbit, LHCbc) ELSE NoPage
  /\ UNCHANGED <<emulator, emuOn, clock, LHCbc, linkState, nBlocksPerLink, readyBlocks, given>>

State == linkState[fill.link]

BetweenFrames == State.payloadBytesLeft < 0
PageBegins == fill.packets = << >>

\* the time of the next frame
NextBc == (fill.bc + emulator.bcStep) % LHCBunches
NextOrbit == fill.orbit + (fill.bc + emulator.bcStep) \div LHCBunches

IsNewTF == NextOrbit # fill.orbit /\ TimeframeFromOrbit(NextOrbit) # fill.id

\* one frame per page with triggers, and a new page for a new timeframe
FrameNeedsPage == BetweenFrames /\ ~PageBegins /\ (emulator.trigger # 0 \/ IsNewTF)

PageFull == Len(fill.packets) = emulator.capacity

\* s: the state of the link when the packet is written
StopBit(s) ==
  IF s.payloadBytesLeft > 0 THEN s.payloadBytesLeft = 1
  ELSE ~(s.isEmpty /\ s.HBpagecount = 0)

AfterPacket(s) ==
  [s EXCEPT !.packetCounter = (@ + 1) % 256,
            !.payloadBytesLeft = IF StopBit(s) THEN NoFrame ELSE IF @ > 0 THEN @ - 1 ELSE @]

Write(s, orbit, bc, id) ==
  /\ fill' = [fill EXCEPT !.orbit = orbit, !.bc = bc, !.id = id,
                !.packets = Append(@, [hb |-> orbit \div emulator.HBperiod,
                                       page |-> s.HBpagecount, stop |-> StopBit(s),
                                       counter |-> s.packetCounter])]
  /\ linkState' = [linkState EXCEPT ![fill.link] = AfterPacket(s)]
  /\ UNCHANGED <<emulator, emuOn, clock, LHCorbit, LHCbc, pendingBlocks, nBlocksPerLink,
                 readyBlocks, given>>

\* the first packet of a frame, with a random payload
NewFrame(payload) ==
  /\ fill # NoPage /\ BetweenFrames /\ ~PageFull /\ ~FrameNeedsPage
  /\ Write([State EXCEPT !.HBpagecount = 0, !.isEmpty = (payload = Empty),
                         !.payloadBytesLeft = IF payload = Empty THEN 0 ELSE payload],
           NextOrbit, NextBc, IF IsNewTF THEN TimeframeFromOrbit(NextOrbit) ELSE fill.id)

\* another one
ContinueFrame ==
  /\ fill # NoPage /\ ~BetweenFrames /\ ~PageFull
  /\ Write([State EXCEPT !.HBpagecount = @ + 1], fill.orbit, fill.bc, fill.id)

\* The page goes to the FIFO.  Each link starts from the same time; the time goes on from
\* that of the last link.
EndPage ==
  /\ fill # NoPage /\ (PageFull \/ FrameNeedsPage)
  /\ readyBlocks' = Append(readyBlocks, [link |-> fill.link, packets |-> fill.packets])
  /\ IF fill.link < emulator.numberOfLinks
       THEN /\ fill' = NewFill(fill.link + 1, LHCorbit, LHCbc)
            /\ UNCHANGED <<pendingBlocks, nBlocksPerLink, LHCorbit, LHCbc>>
       ELSE /\ fill' = NoPage /\ pendingBlocks' = 0
            /\ nBlocksPerLink' = nBlocksPerLink + 1
            /\ LHCorbit' = fill.orbit /\ LHCbc' = fill.bc
  /\ UNCHANGED <<emulator, emuOn, clock, linkState, given>>

\* getNextBlock(); the base class finds the timeframe of the block in its first packet.
GetNextBlock ==
  /\ emuOn /\ fill = NoPage /\ readyBlocks # << >>
  /\ LET b == Head(readyBlocks) IN
       given' = Append(given, [link |-> b.link, packets |-> b.packets,
                               timeframeId |-> TimeframeFromOrbit(b.packets[1].hb)])
  /\ readyBlocks' = Tail(readyBlocks)
  /\ UNCHANGED <<emulator, emuOn, clock, LHCorbit, LHCbc, linkState, pendingBlocks,
                 nBlocksPerLink, fill>>

EmulatorStep ==
  \/ PrepareBlocks \/ \E p \in emulator.payloads : NewFrame(p) \/ ContinueFrame
  \/ EndPage \/ GetNextBlock

-----------------------------------------------------------------------------
(* Properties                                                              *)

\* the packets of a link in this run
Stream(l) ==
  FlattenSeq([k \in DOMAIN given |-> IF given[k].link = l THEN given[k].packets ELSE << >>])

\* The links keep in step: there is one, or all frames have one size.  Frames have an orbit
\* of their own, and triggers come one frame at a time.
Regular ==
  /\ emulator.numberOfLinks = 1 \/ Cardinality(emulator.payloads) = 1
  /\ emulator.bcStep >= LHCBunches * emulator.HBperiod
  /\ emulator.trigger = 0

\* The frames of a link are complete whatever pages they span: one orbit, page counters from
\* zero, the stop bit in the last packet and in no other, orbits that increase, and a packet
\* counter without holes; no page is in two timeframes.
EmulatedFramesComplete ==
  /\ \A k \in DOMAIN given : LET p == given[k].packets IN
       \A i \in DOMAIN p : Regular => TimeframeFromOrbit(p[i].hb) = given[k].timeframeId
  /\ \A l \in Links : LET s == Stream(l) IN
       /\ s # << >> => s[1].page = 0
       /\ \A i \in 1 .. Len(s) - 1 :
            /\ s[i + 1].counter = (s[i].counter + 1) % 256
            /\ s[i + 1].page = IF s[i].stop THEN 0 ELSE s[i].page + 1
            /\ Regular => IF s[i].stop THEN s[i + 1].hb > s[i].hb ELSE s[i + 1].hb = s[i].hb
=============================================================================
