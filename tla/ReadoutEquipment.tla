-------------------------- MODULE ReadoutEquipment --------------------------
(***************************************************************************)
(* The equipments of a run: the read-out loop of the base class            *)
(* (ReadoutEquipment.cxx) over the superpage queues of a CRU or CRORC      *)
(* (ReadoutEquipmentRORC.cxx), under the control of START and STOP.        *)
(*                                                                         *)
(* A superpage that the card filled is a sequence of packets, of which the *)
(* header (RDH) is kept: its link, the LHC orbit, the detector field as a  *)
(* set of bits, and whether it is valid.  The orbit that an equipment      *)
(* receives first is the origin of its timeframe ids; it is compared with  *)
(* the one of the other equipments.                                        *)
(***************************************************************************)
EXTENDS Integers, Sequences, FiniteSets, FiniteSetsExt

CONSTANTS
  Links,
  OrbitMod,         \* orbits are uint32_t
  Period,           \* timeframePeriodOrbits
  Bits,             \* of the detector field
  CtpWidth,         \* of the bitset that holds a detector field
  Setups,           \* configurations, see IsSetup
  NPages,           \* pages in the pool of each equipment
  QueueSize,        \* of the transfer queue of the card
  FifoSize,         \* of dataOut
  MaxFilled,        \* bound: superpages filled by the cards
  MaxRuns           \* bound: runs

Orbits == 0 .. OrbitMod - 1

Rdh == [link : Links, orbit : Orbits, field : SUBSET Bits, ok : BOOLEAN]

\* a superpage given back by the card without data
Leftover == <<>>

\* the configuration: rdhCheckFirstOrbit, rdhCheckEnabled, rdhCheckDetectorField,
\* dropPagesWithError, ctpMode, autoTimeframeId, tfRateLimit, the number of
\* equipments, and the superpages that may come
IsSetup(s) ==
  /\ \A f \in {"firstOrbit", "check", "field", "drop", "ctp", "auto", "limit"} : s[f] \in BOOLEAN
  /\ s.ctp => s.field
  /\ s.equipments \in Nat \ {0}
  /\ s.pages \subseteq Seq(Rdh) \ {Leftover}

ASSUME EquipmentAssumption ==
  /\ OrbitMod \in Nat \ {0} /\ Period \in 2 .. OrbitMod
  /\ OrbitMod % Period = 0
  /\ Bits \subseteq Nat /\ IsFiniteSet(Bits) /\ CtpWidth \in Nat
  /\ \A s \in Setups : IsSetup(s)
  /\ NPages \in Nat \ {0} /\ QueueSize \in Nat \ {0} /\ FifoSize \in Nat \ {0}
  /\ MaxFilled \in Nat /\ MaxRuns \in Nat

undefinedOrbit == 0
undefinedTimeframeId == 0
NoBit == -1
NoField == {-1}
NotDefined == -1

VARIABLES
  setup,
  phase, ix, run,   \* the control: START, STOP, and the equipment it is at
  firstOrbit,       \* gReadoutStats.counters.firstOrbit
  th,               \* where the thread of each equipment is
  isDataOn, dma,
  free,             \* number of free pages in the pool,
  transferQueue,    \* and of pages that the card may fill
  readyQueue,       \* superpages from the card
  regulator,        \* whether the rate limit accepts a new timeframe
  pending,          \* throttlePendingBlock, as a sequence
  dataOut,
  eq,               \* the counters of each equipment
  sent,             \* history: the blocks of this run put in dataOut
  filled            \* number of superpages filled

control == <<phase, ix, run>>
card == <<dma, transferQueue, readyQueue, filled>>
vars == <<setup, control, firstOrbit, th, isDataOn, card, free, regulator, pending, dataOut, eq, sent>>

Equipments == 1 .. setup.equipments

\* the counters at the start of a run; data is discarded until the run bit comes
InitCounters ==
  [first |-> NotDefined, currentBlockId |-> 0, lastTimeframe |-> undefinedTimeframeId,
   autoLatest |-> undefinedTimeframeId, autoCounter |-> 0,
   ctpRunBit |-> NoBit, discardData |-> IF setup.ctp THEN 1 ELSE 0,
   lastField |-> [l \in Links |-> NoField],
   firstLinkOrbit |-> NotDefined, linksDefined |-> {}, isFatalError |-> FALSE]

TimeframeIds == 0 .. OrbitMod + MaxFilled

BlockOK(b) ==
  /\ b.run \in 1 .. MaxRuns /\ b.blockId \in 1 .. MaxFilled /\ b.timeframeId \in TimeframeIds
  /\ b.orbitFirst \in Orbits /\ b.orbitLast \in Orbits /\ b.page \in setup.pages

CountersOK(q) ==
  /\ q.first \in Orbits \cup {NotDefined} /\ q.currentBlockId \in 0 .. MaxFilled
  /\ {q.lastTimeframe, q.autoLatest, q.autoCounter} \subseteq TimeframeIds
  /\ q.ctpRunBit \in Bits \cup {NoBit} /\ q.discardData \in 0 .. 2
  /\ \A l \in Links : q.lastField[l] \subseteq Bits \/ q.lastField[l] = NoField
  /\ q.firstLinkOrbit \in Orbits \cup {NotDefined} /\ q.linksDefined \subseteq Links
  /\ q.isFatalError \in BOOLEAN

\* Every variable has its type; the FIFOs hold no more than they can.
TypeOK ==
  /\ setup \in Setups
  /\ phase \in {"stopped", "start", "dataOn", "running", "dataOff", "flush", "stop", "stopAgg"}
  /\ ix \in Equipments /\ run \in 0 .. MaxRuns
  /\ firstOrbit \in Orbits /\ filled \in 0 .. MaxFilled
  /\ \A e \in Equipments :
       /\ th[e] \in {"off", "idle", "read", "prepare", "fill", "push"}
       /\ isDataOn[e] \in BOOLEAN /\ dma[e] \in BOOLEAN /\ regulator[e] \in BOOLEAN
       /\ free[e] \in 0 .. NPages /\ transferQueue[e] \in 0 .. QueueSize
       /\ \A k \in DOMAIN readyQueue[e] : readyQueue[e][k] \in setup.pages \cup {Leftover}
       /\ Len(pending[e]) <= 1 /\ Len(dataOut[e]) <= FifoSize
       /\ \A s \in {pending[e], dataOut[e], sent[e]} : \A k \in DOMAIN s : BlockOK(s[k])
       /\ CountersOK(eq[e])

All(v) == [e \in Equipments |-> v]

Init ==
  /\ setup \in Setups
  /\ phase = "stopped" /\ ix = 1 /\ run = 0
  /\ firstOrbit = undefinedOrbit
  /\ th = All("off") /\ isDataOn = All(FALSE) /\ dma = All(FALSE)
  /\ free = All(NPages) /\ transferQueue = All(0) /\ readyQueue = All(<<>>)
  /\ regulator = All(TRUE) /\ pending = All(<<>>) /\ dataOut = All(<<>>)
  /\ eq = All(InitCounters) /\ sent = All(<<>>) /\ filled = 0

-----------------------------------------------------------------------------
(* Timeframes and orbits, in the arithmetic of uint32_t.                   *)

Timeframe(first, orbit) == 1 + ((orbit - first) % OrbitMod) \div Period

OrbitMin(first, tfId) ==
  IF tfId = undefinedTimeframeId THEN undefinedOrbit ELSE (first + (tfId - 1) * Period) % OrbitMod

OrbitMax(first, tfId) ==
  IF tfId = undefinedTimeframeId THEN undefinedOrbit ELSE (first + tfId * Period - 1) % OrbitMod

\* Variant: a range of orbits that wraps around is not looked at.
OutOfRangeNoWrap(orbit, min, max) == min < max /\ (orbit < min \/ orbit > max)

\* the orbit of a packet is not in the timeframe of its page
OutOfRange(orbit, min, max) ==
  \/ min < max /\ (orbit < min \/ orbit > max)
  \/ min > max /\ orbit < min /\ orbit > max

-----------------------------------------------------------------------------
(* processRdh().                                                           *)

\* Variant: data goes on after the end of the run.
DiscardAfterRunNever(discard, starts, ends) == IF starts \/ ends THEN 0 ELSE discard

DiscardAfterRun(discard, starts, ends) == IF starts THEN 0 ELSE IF ends THEN 2 ELSE discard

\* a change of the detector field since the last packet of the same link: one
\* bit that is set starts the run in CTP mode, the same bit unset ends it
CheckChangesInDetectorField(q, r) ==
  LET old == q.lastField[r.link]
      changed == IF old = NoField THEN {} ELSE (old \ r.field) \cup (r.field \ old)
      bits == changed \cap (0 .. CtpWidth - 1)
      one == setup.ctp /\ Cardinality(bits) = 1
      bit == CHOOSE b \in bits : TRUE
      starts == one /\ q.ctpRunBit = NoBit /\ bit \in r.field /\ q.discardData = 1
      ends == one /\ q.ctpRunBit = bit /\ bit \notin r.field
  IN IF setup.field
       THEN [q EXCEPT !.lastField[r.link] = r.field,
                      !.ctpRunBit = IF starts THEN bit ELSE IF ends THEN NoBit ELSE @,
                      !.discardData = DiscardAfterRun(@, starts, ends)]
       ELSE q

\* Variant: the first orbit of the other equipments is not looked at.
MismatchIgnored(q, orbit) == FALSE

\* another equipment defined a different first orbit
FirstOrbitMismatch(q, orbit) == firstOrbit # undefinedOrbit /\ firstOrbit # orbit

\* the first valid packet defines the orbit of the first timeframe
TagDatablockFromRdh(q, r) ==
  IF r.ok
    THEN IF q.first = NotDefined
           THEN [q EXCEPT !.first = r.orbit,
                          !.isFatalError = @ \/ (setup.firstOrbit /\ FirstOrbitMismatch(q, r.orbit))]
           ELSE q
    ELSE [q EXCEPT !.isFatalError = @ \/ (setup.firstOrbit /\ q.currentBlockId = 0)]

\* all links begin with the same orbit
CheckLinkFirstOrbit(q, r) ==
  LET orbit == IF q.firstLinkOrbit = NotDefined THEN r.orbit ELSE q.firstLinkOrbit IN
  [q EXCEPT !.firstLinkOrbit = orbit,
            !.linksDefined = @ \cup {r.link},
            !.isFatalError = @ \/ (setup.firstOrbit /\ r.link \notin q.linksDefined /\ r.orbit # orbit)]

\* the id of the timeframe of a page, of which the header is tagged
TimeframeOfPage(q, p) == IF p[1].ok THEN Timeframe(q.first, p[1].orbit) ELSE undefinedTimeframeId

\* packet k is invalid, of another link or of another timeframe
WrongPacket(q, p, tfId, k) ==
  \/ ~ p[k].ok \/ p[k].link # p[1].link
  \/ OutOfRange(p[k].orbit, OrbitMin(q.first, tfId), OrbitMax(q.first, tfId))

FieldChanges(p, k) == setup.field /\ k > 1 /\ p[k].field # p[k - 1].field

\* the packets that end the check of the page
CheckEnds(q, p, tfId) ==
  {k \in DOMAIN p : setup.check /\ (WrongPacket(q, p, tfId, k) \/ FieldChanges(p, k))}

\* the counters at the end of the check, in which a change of the detector
\* field within the page may have been seen
CheckPage(q, p, tfId, ends) ==
  IF ends # {} /\ ~ WrongPacket(q, p, tfId, Min(ends))
    THEN CheckChangesInDetectorField(q, p[Min(ends)])
    ELSE q

-----------------------------------------------------------------------------
(* threadCallback(): the loop over the blocks.                             *)

\* Variant: nothing is read with the data off.
CanReadDataOn(e) == th[e] \in {"idle", "read"} /\ isDataOn[e] /\ Len(dataOut[e]) < FifoSize

\* the callback begins or goes on, with room for one more block
CanRead(e) == th[e] \in {"idle", "read"} /\ Len(dataOut[e]) < FifoSize

\* the counters, with the id of the next block and its timeframe
TagBlock(q, tfId) ==
  LET new == tfId # q.autoLatest IN
  IF setup.auto
    THEN [q EXCEPT !.currentBlockId = @ + 1, !.autoLatest = tfId,
                   !.autoCounter = IF new THEN @ + 1 ELSE @]
    ELSE [q EXCEPT !.currentBlockId = @ + 1]

\* the first orbit of all equipments is set by the first one of them, under a mutex
ShareFirstOrbit(before, after) ==
  firstOrbit' = IF before.first = NotDefined /\ after.first # NotDefined /\ firstOrbit = undefinedOrbit
                  THEN after.first ELSE firstOrbit

\* what becomes of block b, with the counters q: it goes out, or is set aside
\* when it begins a timeframe that the rate limit does not accept yet
PushOrSetAside(e, q, b) ==
  LET new == b.timeframeId > q.lastTimeframe IN
  \/ /\ new /\ ~ regulator[e]
     /\ pending' = [pending EXCEPT ![e] = <<b>>]
     /\ eq' = [eq EXCEPT ![e] = q]
     /\ th' = [th EXCEPT ![e] = "prepare"]
     /\ UNCHANGED <<regulator, dataOut, sent>>
  \/ /\ new => regulator[e]
     /\ pending' = [pending EXCEPT ![e] = <<>>]
     /\ regulator' = [regulator EXCEPT ![e] = @ /\ ~ (new /\ setup.limit)]
     /\ eq' = [eq EXCEPT ![e] = [q EXCEPT !.lastTimeframe = IF new THEN b.timeframeId ELSE @]]
     /\ dataOut' = [dataOut EXCEPT ![e] = Append(@, b)]
     /\ sent' = [sent EXCEPT ![e] = Append(@, b)]
     /\ th' = [th EXCEPT ![e] = "read"]

\* the block set aside is tried again
RetryPending(e) ==
  /\ CanRead(e) /\ pending[e] # <<>>
  /\ PushOrSetAside(e, eq[e], Head(pending[e]))
  /\ UNCHANGED <<setup, control, firstOrbit, isDataOn, card, free>>

\* getNextBlock(): superpages without data go back to the pool
PopLeftover(e) ==
  /\ CanRead(e) /\ pending[e] = <<>>
  /\ readyQueue[e] # <<>> /\ Head(readyQueue[e]) = Leftover
  /\ readyQueue' = [readyQueue EXCEPT ![e] = Tail(@)]
  /\ free' = [free EXCEPT ![e] = @ + 1]
  /\ th' = [th EXCEPT ![e] = "read"]
  /\ UNCHANGED <<setup, control, firstOrbit, isDataOn, dma, transferQueue, filled, regulator,
                 pending, dataOut, eq, sent>>

DropPage(e) == free' = [free EXCEPT ![e] = @ + 1]

\* the page is dropped for an error, or discarded
DiscardBlock(e, q) ==
  /\ DropPage(e)
  /\ eq' = [eq EXCEPT ![e] = q]
  /\ th' = [th EXCEPT ![e] = "read"]
  /\ UNCHANGED <<pending, regulator, dataOut, sent>>

\* a page with timeframe tfId becomes a block, q are the counters with its ids
NewBlock(e, q, p, tfId) ==
  /\ UNCHANGED free
  /\ PushOrSetAside(e, q,
       [run |-> run, blockId |-> q.currentBlockId,
        timeframeId |-> IF setup.auto THEN q.autoCounter ELSE tfId,
        orbitFirst |-> OrbitMin(q.first, tfId), orbitLast |-> OrbitMax(q.first, tfId), page |-> p])

(* A superpage with data.  processRdh() looks at the detector field first,  *)
(* which may discard the page, then tags the block and checks the packets   *)
(* up to the first one that is wrong.                                       *)
ReadBlock(e) ==
  /\ CanRead(e) /\ pending[e] = <<>>
  /\ readyQueue[e] # <<>> /\ Head(readyQueue[e]) # Leftover
  /\ readyQueue' = [readyQueue EXCEPT ![e] = Tail(@)]
  /\ \E p \in {Head(readyQueue[e])} : \E q0 \in {CheckChangesInDetectorField(eq[e], p[1])} :
       IF q0.discardData # 0
         THEN DiscardBlock(e, q0) /\ UNCHANGED firstOrbit
         ELSE \E q1 \in {CheckLinkFirstOrbit(TagDatablockFromRdh(q0, p[1]), p[1])} :
              \E tfId \in {TimeframeOfPage(q1, p)} : \E ends \in {CheckEnds(q1, p, tfId)} :
              \E q2 \in {CheckPage(q1, p, tfId, ends)} :
                /\ ShareFirstOrbit(q0, q1)
                /\ IF (ends # {} /\ setup.drop) \/ q2.discardData # 0
                     THEN DiscardBlock(e, q2)
                     ELSE \E q \in {TagBlock(q2, tfId)} : NewBlock(e, q, p, tfId)
  /\ UNCHANGED <<setup, control, isDataOn, dma, transferQueue, filled>>

\* nothing to read, or no room for it
ReadEnds(e) ==
  /\ th[e] \in {"idle", "read"}
  /\ \/ Len(dataOut[e]) = FifoSize
     \/ pending[e] = <<>> /\ readyQueue[e] = <<>>
  /\ th' = [th EXCEPT ![e] = "prepare"]
  /\ UNCHANGED <<setup, control, firstOrbit, isDataOn, card, free, regulator, pending, dataOut, eq, sent>>

-----------------------------------------------------------------------------
(* prepareBlocks(): free pages are given to the card.                      *)

\* isDataOn is read once, before the loop
PrepareBlocks(e) ==
  /\ th[e] \in {"prepare", "fill"} /\ (th[e] = "prepare" => isDataOn[e])
  /\ transferQueue[e] < QueueSize /\ free[e] > 0
  /\ free' = [free EXCEPT ![e] = @ - 1]
  /\ th' = [th EXCEPT ![e] = "push"]
  /\ UNCHANGED <<setup, control, firstOrbit, isDataOn, card, regulator, pending, dataOut, eq, sent>>

\* the queue is full or the pool empty: the callback ends
PrepareEnds(e) ==
  /\ \/ th[e] = "prepare" /\ ~ isDataOn[e]
     \/ th[e] \in {"prepare", "fill"} /\ (transferQueue[e] = QueueSize \/ free[e] = 0)
  /\ th' = [th EXCEPT ![e] = "idle"]
  /\ UNCHANGED <<setup, control, firstOrbit, isDataOn, card, free, regulator, pending, dataOut, eq, sent>>

\* Variant: a page that the card refused is not given back.
PushRefusedKept(e) == UNCHANGED free

PushRefused(e) == free' = [free EXCEPT ![e] = @ + 1]

\* the card refuses the page once the DMA is stopped
PushSuperpage(e) ==
  /\ th[e] = "push"
  /\ IF dma[e]
       THEN /\ transferQueue' = [transferQueue EXCEPT ![e] = @ + 1]
            /\ th' = [th EXCEPT ![e] = "fill"]
            /\ UNCHANGED free
       ELSE /\ PushRefused(e)
            /\ th' = [th EXCEPT ![e] = "idle"]
            /\ UNCHANGED transferQueue
  /\ UNCHANGED <<setup, control, firstOrbit, isDataOn, dma, readyQueue, filled, regulator, pending,
                 dataOut, eq, sent>>

-----------------------------------------------------------------------------
(* The card, the clock of the rate limit, and the aggregator.              *)

CardFills(e) ==
  /\ dma[e] /\ transferQueue[e] > 0 /\ filled < MaxFilled
  /\ transferQueue' = [transferQueue EXCEPT ![e] = @ - 1]
  /\ \E p \in setup.pages : readyQueue' = [readyQueue EXCEPT ![e] = Append(@, p)]
  /\ filled' = filled + 1
  /\ UNCHANGED <<setup, control, firstOrbit, th, isDataOn, dma, free, regulator, pending, dataOut, eq, sent>>

Tick(e) ==
  /\ ~ regulator[e]
  /\ regulator' = [regulator EXCEPT ![e] = TRUE]
  /\ UNCHANGED <<setup, control, firstOrbit, th, isDataOn, card, free, pending, dataOut, eq, sent>>

\* the block is taken, and its page given back at the end of its use
GetBlock(e) ==
  /\ dataOut[e] # <<>>
  /\ dataOut' = [dataOut EXCEPT ![e] = Tail(@)]
  /\ free' = [free EXCEPT ![e] = @ + 1]
  /\ UNCHANGED <<setup, control, firstOrbit, th, isDataOn, card, regulator, pending, eq, sent>>

-----------------------------------------------------------------------------
(* START and STOP.                                                         *)

\* the control goes to the next equipment, or to the next phase
Advance(this, next) ==
  /\ IF ix < setup.equipments THEN ix' = ix + 1 /\ phase' = this ELSE ix' = 1 /\ phase' = next
  /\ run' = run

\* Variant: the first orbit of the last run is kept.
KeepFirstOrbit == UNCHANGED firstOrbit

ResetFirstOrbit == firstOrbit' = undefinedOrbit

StartRun ==
  /\ phase = "stopped" /\ run < MaxRuns
  /\ phase' = "start" /\ run' = run + 1
  /\ ResetFirstOrbit
  /\ sent' = All(<<>>)
  /\ UNCHANGED <<setup, ix, th, isDataOn, card, free, regulator, pending, dataOut, eq>>

\* Variant: the block set aside stays.
KeepPending(e) == UNCHANGED <<pending, free>>

\* the block set aside is released
ClearPending(e) ==
  /\ pending' = [pending EXCEPT ![e] = <<>>]
  /\ free' = [free EXCEPT ![e] = @ + Len(pending[e])]

Start ==
  /\ phase = "start"
  /\ eq' = [eq EXCEPT ![ix] = InitCounters]
  /\ isDataOn' = [isDataOn EXCEPT ![ix] = FALSE]
  /\ regulator' = [regulator EXCEPT ![ix] = TRUE]
  /\ ClearPending(ix)
  /\ th' = [th EXCEPT ![ix] = "idle"]
  /\ Advance("start", "dataOn")
  /\ UNCHANGED <<setup, firstOrbit, card, dataOut, sent>>

SetDataOn ==
  /\ phase = "dataOn"
  /\ dma' = [dma EXCEPT ![ix] = TRUE]
  /\ isDataOn' = [isDataOn EXCEPT ![ix] = TRUE]
  /\ Advance("dataOn", "running")
  /\ UNCHANGED <<setup, firstOrbit, th, transferQueue, readyQueue, filled, free, regulator, pending,
                 dataOut, eq, sent>>

\* no more pages are pushed, then the card gives back the ones it has
SetDataOff ==
  /\ phase \in {"running", "dataOff"}
  /\ isDataOn' = [isDataOn EXCEPT ![ix] = FALSE]
  /\ dma' = [dma EXCEPT ![ix] = FALSE]
  /\ transferQueue' = [transferQueue EXCEPT ![ix] = 0]
  /\ readyQueue' = [readyQueue EXCEPT ![ix] = @ \o [k \in 1 .. transferQueue[ix] |-> Leftover]]
  /\ Advance("dataOff", "flush")
  /\ UNCHANGED <<setup, firstOrbit, th, filled, free, regulator, pending, dataOut, eq, sent>>

\* the main loop is given some time to take what is left
Flushed ==
  /\ phase = "flush"
  /\ phase' = "stop"
  /\ UNCHANGED <<setup, ix, run, firstOrbit, th, isDataOn, card, free, regulator, pending, dataOut, eq,
                 sent>>

\* the thread ends at the end of its callback
Stop ==
  /\ phase = "stop" /\ th[ix] = "idle"
  /\ isDataOn' = [isDataOn EXCEPT ![ix] = FALSE]
  /\ th' = [th EXCEPT ![ix] = "off"]
  /\ ClearPending(ix)
  /\ Advance("stop", "stopAgg")
  /\ UNCHANGED <<setup, firstOrbit, card, regulator, dataOut, eq, sent>>

\* the aggregator empties its inputs when it stops
StopAggregator ==
  /\ phase = "stopAgg"
  /\ dataOut' = All(<<>>)
  /\ free' = [e \in Equipments |-> free[e] + Len(dataOut[e])]
  /\ phase' = "stopped"
  /\ UNCHANGED <<setup, ix, run, firstOrbit, th, isDataOn, card, regulator, pending, eq, sent>>

-----------------------------------------------------------------------------
Thread(e) ==
  \/ RetryPending(e) \/ PopLeftover(e) \/ ReadBlock(e) \/ ReadEnds(e)
  \/ PrepareBlocks(e) \/ PrepareEnds(e) \/ PushSuperpage(e)

Control ==
  StartRun \/ Start \/ SetDataOn \/ SetDataOff \/ Flushed \/ Stop \/ StopAggregator

Next ==
  \/ Control
  \/ \E e \in Equipments : Thread(e) \/ CardFills(e) \/ Tick(e) \/ GetBlock(e)

Spec == Init /\ [][Next]_vars

\* threads are scheduled, time goes on and the aggregator takes the data; the
\* card need not send any and nobody has to give commands
FairSpec ==
  /\ Spec
  /\ \A e \in 1 .. Max({s.equipments : s \in Setups}) :
       /\ WF_vars(e \in Equipments /\ Thread(e))
       /\ WF_vars(e \in Equipments /\ Tick(e))
       /\ WF_vars(e \in Equipments /\ GetBlock(e))

-----------------------------------------------------------------------------
(* Properties.                                                             *)

\* Each page of an equipment is in one place: free, with the thread, in one of
\* the queues of the card, set aside, or in the output.  None is lost by a DMA
\* that stops while the thread pushes a page, by errors, discards or STOP.
\* (Every variable has its type besides.)
PagesAccounted ==
  /\ TypeOK
  /\ \A e \in Equipments :
    free[e] + transferQueue[e] + Len(readyQueue[e]) + (IF th[e] = "push" THEN 1 ELSE 0)
      + Len(pending[e]) + Len(dataOut[e]) = NPages

\* Blocks of an equipment leave in the order in which they were read, each one
\* once, and in the run in which they were read; only the last one may be set
\* aside by the rate limit.
BlocksInSequence ==
  \A e \in Equipments :
    /\ \A k \in DOMAIN sent[e] : sent[e][k].blockId = k /\ sent[e][k].run = run
    /\ th[e] # "off" => eq[e].currentBlockId = Len(sent[e]) + Len(pending[e])
    /\ pending[e] # <<>> => Head(pending[e]).blockId = eq[e].currentBlockId

\* no equipment has as first orbit the value that stands for an undefined one
ZeroIsUnused == \A e \in Equipments : eq[e].first # undefinedOrbit

\* the first orbits of two equipments differ
FirstOrbitsDiffer ==
  \E e, f \in Equipments : eq[e].first # eq[f].first /\ NotDefined \notin {eq[e].first, eq[f].first}

InRun == phase \notin {"stopped", "start"}

FatalError == \E e \in Equipments : eq[e].isFatalError

\* Equipments number timeframes alike: two valid pages of the same orbit have
\* the same timeframe id, whichever equipment read them and whatever it read
\* before, or the run is to be stopped for a fatal error.  (Only if orbit zero
\* is not the first one of an equipment.)
TimeframesAgree ==
  InRun /\ setup.firstOrbit /\ ~ setup.auto /\ ZeroIsUnused /\ ~ FatalError =>
    \A e, f \in Equipments : \A k \in DOMAIN sent[e], l \in DOMAIN sent[f] :
      LET b == sent[e][k]
          c == sent[f][l] IN
      b.page[1].ok /\ c.page[1].ok /\ b.page[1].orbit = c.page[1].orbit
        => b.timeframeId = c.timeframeId

\* With the packets checked and the pages with errors dropped, a page that goes
\* out with a valid header holds packets of one timeframe only, also where the
\* orbits wrap around.
PagesInOneTimeframe ==
  InRun /\ setup.check /\ setup.drop =>
    \A e \in Equipments : \A k \in DOMAIN sent[e] :
      LET p == sent[e][k].page IN
      \A j \in DOMAIN p : Timeframe(eq[e].first, p[j].orbit) = Timeframe(eq[e].first, p[1].orbit)

\* Timeframe ids mean the same in all pages and in all equipments.
TimeframeNumbering == TimeframesAgree /\ PagesInOneTimeframe

\* the packets of all pages are valid and of one link
OneValidLink ==
  \A p, o \in setup.pages : \A k \in DOMAIN p : p[k].ok /\ p[k].link = o[1].link

\* A run is not stopped for nothing: with valid packets of one link, there is a
\* fatal error only if two equipments began with different orbits in this run,
\* whatever the first orbit of the last run was.
FatalErrorJustified == InRun /\ OneValidLink /\ FatalError => FirstOrbitsDiffer

Changed(f, g) == (f \ g) \cup (g \ f)

\* "Incoming data is discarded until a new bit is set, and discarded again after
\* this bit is unset": in CTP mode a page that goes out when it is read has the
\* run bit, which is unset neither at its beginning nor further in the page, as
\* long as the bits of its link change one by one.
DataInCtpRun ==
  [][\A e \in Equipments :
       setup.ctp /\ Len(sent'[e]) > Len(sent[e]) /\ pending[e] = <<>> =>
         LET r == sent'[e][Len(sent'[e])].page[1]
             old == eq[e].lastField[r.link] IN
         old # NoField /\ Cardinality(Changed(old, r.field)) <= 1
           /\ eq[e].ctpRunBit \in old \cup {NoBit}
         => eq'[e].ctpRunBit \in r.field]_vars

\* What the card gave back when the DMA was stopped is read out and leaves the
\* equipment, to the last superpage and through the rate limit, unless the
\* thread is stopped before: no data is stuck with the data off.
EquipmentIsEmptied ==
  phase = "flush" ~>
    \/ phase # "flush"
    \/ \A e \in Equipments : readyQueue[e] = <<>> /\ pending[e] = <<>> /\ dataOut[e] = <<>>

=============================================================================
