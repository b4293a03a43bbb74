------------------------ MODULE DataBlockAggregator ------------------------
(***************************************************************************)
(* The aggregator of readout (DataBlockAggregator.cxx): one thread that    *)
(* takes data blocks from the output FIFO of every equipment, groups them  *)
(* in slices (the consecutive blocks of one source and one timeframe, one  *)
(* slicer per equipment), optionally buffers the slices of a timeframe     *)
(* until none has come for a while (subtimeframe building), and pushes     *)
(* them as data sets to the FIFO that the main loop reads.                 *)
(*                                                                         *)
(* Four parties interleave: the equipments (push to inputs), the thread,   *)
(* the main loop (pops the output) and the control (flush, stop, start).   *)
(* The thread's callback is cut at each access to a FIFO that is shared.   *)
(* Time is read once per callback, so that it passes between callbacks:    *)
(* timestamps are kept as ages, which stop growing at the timeout.         *)
(***************************************************************************)
EXTENDS Naturals, Sequences, FiniteSets

CONSTANTS
  NInputs,          \* number of equipments
  NSources,         \* number of data sources (equipment id and link id)
  InputOf,          \* the equipment of each source
  BadSources,       \* those with a link id that the slicer refuses
  TimeframeIds,     \* timeframe ids; 0 is undefinedTimeframeId
  TimeframesOf,     \* the ids that each source may have
  Modes,            \* configurations: "pass" (disableSlicing), "slice", "stf"
  SliceTimeout,     \* cfgSliceTimeout, in ticks; 0 when not set
  StfTimeout,       \* cfgStfTimeout, in ticks
  OutputSize,       \* capacity of agg_output
  InputSize,        \* capacity of the equipment output FIFOs
  MaxLoop,          \* maxLoop: blocks, then slices, taken from one input
  MaxBlocks         \* bound: blocks produced in a run

Inputs == 1 .. NInputs

\* in the order of CompareDataSourceId
Sources == 1 .. NSources

ASSUME AggregatorAssumption ==
  /\ NInputs \in Nat \ {0}
  /\ NSources \in Nat \ {0}
  /\ InputOf \in [Sources -> Inputs]
  /\ BadSources \subseteq Sources
  /\ TimeframeIds \subseteq Nat
  /\ TimeframesOf \in [Sources -> SUBSET TimeframeIds]
  /\ Modes \subseteq {"pass", "slice", "stf"}
  /\ SliceTimeout \in Nat
  /\ StfTimeout \in Nat \ {0}
  /\ OutputSize \in Nat \ {0}
  /\ InputSize \in Nat \ {0}
  /\ MaxLoop \in Nat \ {0}
  /\ MaxBlocks \in Nat \ {0}

undefinedTimeframeId == 0

Elements(s) == {s[k] : k \in DOMAIN s}

\* a data block, the n-th of its source in this run
Block == [src : Sources, tf : TimeframeIds, n : 1 .. MaxBlocks]

VARIABLES
  mode,             \* the configuration
  run,              \* the thread: "off", "on", or "stopping" until it is joined
  inputs,           \* the input FIFOs, sequences of blocks
  partial,          \* partialSlices of all slicers: one slice per source
  slices,           \* slices of each slicer: the complete ones
  stfBuffer,        \* per timeframe, the age and the slices waiting
  lastTimeframeId,
  nextIndex,
  doFlush,
  output,           \* FIFO of data sets: their blocks, and flagEndOfTimeframe
  pc,               \* where the callback is
  ix, j,            \* its loop counters
  executeFlush,     \* its copy of doFlush
  busy,             \* nBlocksIn + nSlicesOut > 0
  produced,         \* history of this run: blocks the equipments pushed,
  delivered,        \* blocks pushed to the output,
  closed,           \* timeframes sent out,
  late,             \* blocks discarded as late,
  dropped,          \* blocks in data sets that a full output refused,
  wrong             \* blocks refused by the slicer

slicerVars == <<partial, slices>>
stfVars == <<stfBuffer, lastTimeframeId, closed>>
controlVars == <<mode, run>>
localVars == <<ix, j, executeFlush, busy>>
outVars == <<output, delivered, dropped>>
vars == <<controlVars, inputs, slicerVars, stfVars, nextIndex, doFlush, outVars, pc, localVars,
          produced, late, wrong>>

NoSlice == [tf |-> undefinedTimeframeId, blocks |-> <<>>, age |-> 0]
NoStf == [age |-> 0, sets |-> <<>>]

SliceRecord == [tf : TimeframeIds \cup {undefinedTimeframeId}, blocks : Seq(Block), age : 0 .. SliceTimeout]
StfRecord == [age : 0 .. StfTimeout, sets : Seq(Seq(Block))]
DataSet == [blocks : Seq(Block), eot : BOOLEAN]

\* Every variable has its type, and the two kinds of FIFO keep their capacity.
TypeOK ==
  /\ mode \in Modes
  /\ run \in {"off", "on", "stopping"}
  /\ inputs \in [Inputs -> Seq(Block)]
  /\ \A i \in Inputs : Len(inputs[i]) <= InputSize
  /\ partial \in [Sources -> SliceRecord]
  /\ slices \in [Inputs -> Seq(Seq(Block))]
  /\ stfBuffer \in [TimeframeIds -> StfRecord]
  /\ lastTimeframeId \in TimeframeIds \cup {undefinedTimeframeId}
  /\ nextIndex \in 0 .. NInputs - 1
  /\ doFlush \in BOOLEAN
  /\ output \in Seq(DataSet) /\ Len(output) <= OutputSize
  /\ pc \in {"idle", "pop", "retrieve", "emit", "dead"}
  /\ ix \in 0 .. NInputs - 1
  /\ j \in 0 .. MaxLoop
  /\ executeFlush \in BOOLEAN
  /\ busy \in BOOLEAN
  /\ produced \subseteq Block
  /\ delivered \subseteq Block
  /\ closed \subseteq TimeframeIds
  /\ late \subseteq Block
  /\ dropped \subseteq Block
  /\ wrong \subseteq Block

-----------------------------------------------------------------------------
(* reset(), start() and stop().                                            *)

\* Variant: the last timeframe id of a run is kept for the next one.
ResetKeepsTimeframe ==
  /\ partial' = [s \in Sources |-> NoSlice]
  /\ slices' = [i \in Inputs |-> <<>>]
  /\ stfBuffer' = [tf \in TimeframeIds |-> NoStf]
  /\ doFlush' = FALSE
  /\ nextIndex' = 0
  /\ UNCHANGED lastTimeframeId

Reset ==
  /\ partial' = [s \in Sources |-> NoSlice]
  /\ slices' = [i \in Inputs |-> <<>>]
  /\ stfBuffer' = [tf \in TimeframeIds |-> NoStf]
  /\ doFlush' = FALSE
  /\ nextIndex' = 0
  /\ lastTimeframeId' = 0

Init ==
  /\ mode \in Modes
  /\ run = "off"
  /\ inputs = [i \in Inputs |-> <<>>]
  /\ partial = [s \in Sources |-> NoSlice]
  /\ slices = [i \in Inputs |-> <<>>]
  /\ stfBuffer = [tf \in TimeframeIds |-> NoStf]
  /\ lastTimeframeId = 0
  /\ nextIndex = 0
  /\ doFlush = FALSE
  /\ output = <<>>
  /\ pc = "idle"
  /\ ix = 0 /\ j = 0 /\ executeFlush = FALSE /\ busy = FALSE
  /\ produced = {} /\ delivered = {} /\ closed = {} /\ late = {} /\ dropped = {} /\ wrong = {}

Start ==
  /\ run = "off"
  /\ run' = "on"
  /\ pc' = "idle"
  /\ Reset
  /\ UNCHANGED <<mode, inputs, outVars, localVars, produced, closed, late, wrong>>

\* the control asks the thread to stop, and waits until its callback is over
Stop ==
  /\ run = "on"
  /\ run' = "stopping"
  /\ doFlush' = FALSE
  /\ UNCHANGED <<mode, inputs, slicerVars, stfVars, nextIndex, outVars, pc, localVars, produced,
                 late, wrong>>

\* then it clears the FIFOs and resets; the history of the run ends with it
Join ==
  /\ run = "stopping" /\ pc \in {"idle", "dead"}
  /\ run' = "off"
  /\ inputs' = [i \in Inputs |-> <<>>]
  /\ output' = <<>>
  /\ Reset
  /\ produced' = {} /\ delivered' = {} /\ closed' = {} /\ late' = {} /\ dropped' = {} /\ wrong' = {}
  /\ UNCHANGED <<mode, pc, localVars>>

\* _stop() of the main program
RequestFlush ==
  /\ run = "on" /\ ~ doFlush
  /\ doFlush' = TRUE
  /\ UNCHANGED <<controlVars, inputs, slicerVars, stfVars, nextIndex, outVars, pc, localVars,
                 produced, late, wrong>>

-----------------------------------------------------------------------------
(* The equipments and the main loop, at the two ends.                      *)

\* an equipment pushes a block
Produce(s, tf) ==
  LET i == InputOf[s]
      b == [src |-> s, tf |-> tf, n |-> Cardinality({x \in produced : x.src = s}) + 1]
  IN /\ run = "on"
     /\ Cardinality(produced) < MaxBlocks
     /\ Len(inputs[i]) < InputSize
     /\ inputs' = [inputs EXCEPT ![i] = Append(@, b)]
     /\ produced' = produced \cup {b}
     /\ UNCHANGED <<controlVars, slicerVars, stfVars, nextIndex, doFlush, outVars, pc, localVars,
                    late, wrong>>

\* the main loop takes a data set
Consume ==
  /\ run = "on" /\ output # <<>>
  /\ output' = Tail(output)
  /\ UNCHANGED <<controlVars, inputs, slicerVars, stfVars, nextIndex, doFlush, delivered, dropped,
                 pc, localVars, produced, late, wrong>>

-----------------------------------------------------------------------------
(* The callback of the aggregator thread.                                  *)

OutputFull == Len(output) >= OutputSize

\* Fifo::push of a data set: refused when the FIFO is full
PushOutput(d) ==
  IF OutputFull
    THEN /\ dropped' = dropped \cup Elements(d.blocks)
         /\ UNCHANGED <<output, delivered>>
    ELSE /\ output' = Append(output, d)
         /\ delivered' = delivered \cup Elements(d.blocks)
         /\ UNCHANGED dropped

CurrentInput == ((ix + nextIndex) % NInputs) + 1

\* return from the callback: its local variables are gone
Return ==
  /\ pc' = "idle"
  /\ ix' = 0 /\ j' = 0 /\ executeFlush' = FALSE /\ busy' = FALSE

\* the next callback starts from another input
AdvanceIndex == nextIndex' = (nextIndex + 1) % NInputs

\* the loop over the inputs goes on, or ends
NextInput ==
  /\ j' = 0
  /\ IF ix + 1 < NInputs
       THEN ix' = ix + 1 /\ pc' = "pop" /\ UNCHANGED nextIndex
       ELSE ix' = 0 /\ pc' = "emit" /\ AdvanceIndex

Older(age, d, timeout) == IF age + d > timeout THEN timeout ELSE age + d

\* nothing is done while the output is full; otherwise the callback reads the
\* time, at which d ticks have passed, and the flush flag
Begin(d) ==
  /\ run = "on" /\ pc = "idle" /\ ~ OutputFull
  /\ partial' = [s \in Sources |->
       IF partial[s].blocks = <<>> THEN NoSlice
       ELSE [partial[s] EXCEPT !.age = Older(@, d, SliceTimeout)]]
  /\ stfBuffer' = [tf \in TimeframeIds |->
       IF stfBuffer[tf].sets = <<>> THEN NoStf
       ELSE [stfBuffer[tf] EXCEPT !.age = Older(@, d, StfTimeout)]]
  /\ executeFlush' = doFlush
  /\ pc' = "pop"
  /\ UNCHANGED <<controlVars, inputs, slices, lastTimeframeId, closed, nextIndex, doFlush, outVars, ix, j,
                 busy, produced, late, wrong>>

\* disableSlicing: one block of each input goes through as a data set of its own
PassThrough ==
  /\ pc = "pop" /\ mode = "pass"
  /\ LET i == CurrentInput IN
       \/ /\ OutputFull
          /\ Return
          /\ UNCHANGED <<inputs, nextIndex, outVars>>
       \/ /\ ~ OutputFull /\ inputs[i] = <<>>
          /\ NextInput
          /\ UNCHANGED <<inputs, outVars, executeFlush, busy>>
       \/ /\ ~ OutputFull /\ inputs[i] # <<>>
          /\ inputs' = [inputs EXCEPT ![i] = Tail(@)]
          /\ PushOutput([blocks |-> <<Head(inputs[i])>>, eot |-> FALSE])
          /\ busy' = TRUE
          /\ NextInput
          /\ UNCHANGED executeFlush
  /\ UNCHANGED <<controlVars, slicerVars, stfVars, doFlush, produced, late, wrong>>

\* Variant: blocks of different timeframes are put in the same slice.
NeverComplete(b) == FALSE

\* a new block does not belong to the slice being built for its source
SliceIsComplete(b) ==
  /\ partial[b.src].blocks # <<>>
  /\ partial[b.src].tf # b.tf \/ b.tf = undefinedTimeframeId

\* Variant: a complete slice is forgotten.
AppendBlockLosesSlice(b) ==
  /\ partial' = [partial EXCEPT ![b.src] =
       [tf |-> b.tf, blocks |-> IF SliceIsComplete(b) THEN <<b>> ELSE Append(@.blocks, b), age |-> 0]]
  /\ UNCHANGED slices

\* DataBlockSlicer::appendBlock: a complete slice is queued, and the block is
\* added to the slice of its source
AppendBlock(b) ==
  /\ partial' = [partial EXCEPT ![b.src] =
       [tf |-> b.tf, blocks |-> IF SliceIsComplete(b) THEN <<b>> ELSE Append(@.blocks, b), age |-> 0]]
  /\ slices' = IF SliceIsComplete(b)
                 THEN [slices EXCEPT ![InputOf[b.src]] = Append(@, partial[b.src].blocks)]
                 ELSE slices

PopBlock ==
  /\ pc = "pop" /\ mode # "pass"
  /\ LET i == CurrentInput IN
       /\ j < MaxLoop /\ inputs[i] # <<>>
       /\ Head(inputs[i]).src \notin BadSources
       /\ inputs' = [inputs EXCEPT ![i] = Tail(@)]
       /\ AppendBlock(Head(inputs[i]))
  /\ j' = j + 1
  /\ busy' = TRUE
  /\ UNCHANGED <<controlVars, stfVars, nextIndex, doFlush, outVars, pc, ix, executeFlush, produced,
                 late, wrong>>

\* a link id out of range: the callback returns Error, which ends the thread
PopWrongBlock ==
  /\ pc = "pop" /\ mode # "pass"
  /\ LET i == CurrentInput IN
       /\ j < MaxLoop /\ inputs[i] # <<>>
       /\ Head(inputs[i]).src \in BadSources
       /\ inputs' = [inputs EXCEPT ![i] = Tail(@)]
       /\ wrong' = wrong \cup {Head(inputs[i])}
  /\ pc' = "dead"
  /\ ix' = 0 /\ j' = 0 /\ executeFlush' = FALSE /\ busy' = FALSE
  /\ UNCHANGED <<controlVars, slicerVars, stfVars, nextIndex, doFlush, outVars, produced, late>>

-----------------------------------------------------------------------------
(* Slices.                                                                 *)

\* the sources of slicer i that have a slice being built
Building(i) == {s \in Sources : InputOf[s] = i /\ partial[s].blocks # <<>>}

Expired(i) == {s \in Building(i) : SliceTimeout > 0 /\ partial[s].age >= SliceTimeout}

\* their slices, in the order of the sources
SlicesOf(S) ==
  LET at(k) == CHOOSE s \in S : Cardinality({x \in S : x <= s}) = k
  IN [k \in 1 .. Cardinality(S) |-> partial[at(k)].blocks]

\* the input is empty, or maxLoop blocks were taken from it; then
\* completeSliceOnTimeout: the slices not updated for long are queued
PopDone ==
  LET i == CurrentInput IN
  /\ pc = "pop" /\ mode # "pass"
  /\ j = MaxLoop \/ inputs[i] = <<>>
  /\ slices' = [slices EXCEPT ![i] = @ \o SlicesOf(Expired(i))]
  /\ partial' = [s \in Sources |-> IF s \in Expired(i) THEN NoSlice ELSE partial[s]]
  /\ pc' = "retrieve"
  /\ j' = 0
  /\ UNCHANGED <<controlVars, inputs, stfVars, nextIndex, doFlush, outVars, ix, executeFlush, busy,
                 produced, late, wrong>>

First(S) == CHOOSE x \in S : \A y \in S : x <= y

IncludeIncomplete == executeFlush /\ inputs[CurrentInput] = <<>>

SliceAvailable ==
  slices[CurrentInput] # <<>> \/ (IncludeIncomplete /\ Building(CurrentInput) # {})

\* Variant: an incomplete slice is served before the complete ones.
FromQueueLast == ~ (IncludeIncomplete /\ Building(CurrentInput) # {})

\* complete slices are served first
FromQueue == slices[CurrentInput] # <<>>

\* getSlice(includeIncomplete), when there is one: the oldest complete slice,
\* or the slice being built for the first source that has one
TheSlice ==
  IF FromQueue THEN Head(slices[CurrentInput]) ELSE partial[First(Building(CurrentInput))].blocks

TakeSlice ==
  IF FromQueue
    THEN slices' = [slices EXCEPT ![CurrentInput] = Tail(@)] /\ UNCHANGED partial
    ELSE partial' = [partial EXCEPT ![First(Building(CurrentInput))] = NoSlice] /\ UNCHANGED slices

\* Variant: data of the timeframe just sent is not considered late.
IsLateOffByOne(tf) == tf < lastTimeframeId

IsLate(tf) == tf <= lastTimeframeId

\* enableStfBuilding: the slice waits for the others of its timeframe, or is
\* discarded when this timeframe or a later one has been sent
BufferSlice(d) ==
  LET tf == d[1].tf IN
  IF IsLate(tf)
    THEN /\ late' = late \cup {d[k] : k \in DOMAIN d}
         /\ UNCHANGED stfBuffer
    ELSE /\ stfBuffer' = [stfBuffer EXCEPT ![tf] = [age |-> 0, sets |-> Append(@.sets, d)]]
         /\ UNCHANGED late

\* one turn of the loop that retrieves the slices of an input
Retrieve ==
  /\ pc = "retrieve"
  /\ j < MaxLoop /\ ~ OutputFull /\ SliceAvailable
  /\ TakeSlice
  /\ IF mode = "stf"
       THEN BufferSlice(TheSlice) /\ UNCHANGED outVars
       ELSE /\ PushOutput([blocks |-> TheSlice, eot |-> FALSE])
            /\ UNCHANGED <<stfBuffer, late>>
  /\ j' = j + 1
  /\ busy' = TRUE
  /\ UNCHANGED <<controlVars, inputs, lastTimeframeId, closed, nextIndex, doFlush, pc, ix, executeFlush,
                 produced, wrong>>

\* the output is full: the callback returns at once
RetrieveFull ==
  /\ pc = "retrieve" /\ j < MaxLoop /\ OutputFull
  /\ Return
  /\ UNCHANGED <<controlVars, inputs, slicerVars, stfVars, nextIndex, doFlush, outVars, produced,
                 late, wrong>>

RetrieveDone ==
  /\ pc = "retrieve"
  /\ j = MaxLoop \/ (~ OutputFull /\ ~ SliceAvailable)
  /\ NextInput
  /\ UNCHANGED <<controlVars, inputs, slicerVars, stfVars, doFlush, outVars, executeFlush, busy,
                 produced, late, wrong>>

-----------------------------------------------------------------------------
(* Timeframes that are complete, in the order of their ids.                *)

Buffered == {tf \in TimeframeIds : stfBuffer[tf].sets # <<>>}

\* the first timeframe of the buffer, when it is old enough or a flush is on
TimeframeReady(tf) ==
  /\ tf \in Buffered /\ tf = First(Buffered)
  /\ stfBuffer[tf].age >= StfTimeout \/ executeFlush

\* one slice of the timeframe is pushed, whatever push() returns; the last one
\* carries the end-of-timeframe flag and closes the timeframe
Emit(tf) ==
  /\ pc = "emit" /\ mode = "stf"
  /\ TimeframeReady(tf)
  /\ LET sets == stfBuffer[tf].sets
         last == Len(sets) = 1
     IN /\ PushOutput([blocks |-> Head(sets), eot |-> last])
        /\ stfBuffer' = [stfBuffer EXCEPT ![tf] = IF last THEN NoStf ELSE [age |-> @.age, sets |-> Tail(sets)]]
        /\ lastTimeframeId' = IF last THEN tf ELSE lastTimeframeId
        /\ closed' = IF last THEN closed \cup {tf} ELSE closed
  /\ UNCHANGED <<controlVars, inputs, slicerVars, nextIndex, doFlush, pc, localVars, produced, late,
                 wrong>>

\* Variant: the flag is never reset.
FlushNeverDone == FALSE

\* flushing is complete when nothing was taken and nothing is buffered
FlushDone == executeFlush /\ ~ busy /\ Buffered = {}

\* the end of the callback
End ==
  /\ pc = "emit"
  /\ mode = "stf" => \A tf \in TimeframeIds : ~ TimeframeReady(tf)
  /\ doFlush' = IF FlushDone THEN FALSE ELSE doFlush
  /\ Return
  /\ UNCHANGED <<controlVars, inputs, slicerVars, stfVars, nextIndex, outVars, produced, late, wrong>>

-----------------------------------------------------------------------------
Callback ==
  \/ \E d \in 0 .. 1 : Begin(d)
  \/ PassThrough
  \/ PopBlock
  \/ PopWrongBlock
  \/ PopDone
  \/ Retrieve
  \/ RetrieveFull
  \/ RetrieveDone
  \/ \E tf \in TimeframeIds : Emit(tf)
  \/ End

Next ==
  \/ Start
  \/ Stop
  \/ Join
  \/ RequestFlush
  \/ \E s \in Sources : \E tf \in TimeframesOf[s] : Produce(s, tf)
  \/ Consume
  \/ Callback

Spec == Init /\ [][Next]_vars

\* the thread and the main loop never stay idle for ever with work to do
FairSpec == Spec /\ WF_vars(Callback) /\ WF_vars(Consume)

-----------------------------------------------------------------------------
(* Properties.                                                             *)

Slots(q) == UNION {Elements(q[k]) : k \in DOMAIN q}

\* where the blocks of the run are
Places == <<
  UNION {Elements(inputs[i]) : i \in Inputs},
  UNION {Elements(partial[s].blocks) : s \in Sources},
  UNION {Slots(slices[i]) : i \in Inputs},
  UNION {Slots(stfBuffer[tf].sets) : tf \in TimeframeIds},
  delivered, late, dropped, wrong >>

\* No block vanishes or is duplicated inside the aggregator, whatever path it
\* takes: until stop() every block that an equipment pushed is in exactly one
\* place, an input, a slice, the timeframe buffer, the output, or one of the
\* three groups of blocks that the code gives up (late, refused, wrong link).
\* (Every variable has its type besides.)
BlocksAccounted ==
  LET P == Places IN
  /\ TypeOK
  /\ produced = UNION Elements(P)
  /\ \A k, l \in DOMAIN P : k < l => P[k] \cap P[l] = {}

\* Every data set at the output is a slice: blocks of one source and of one
\* timeframe, in the order they were produced, and a block without a timeframe
\* id is alone, also when slices are closed by a timeout or by a flush.
SlicesHomogeneous ==
  \A d \in Elements(output) :
    /\ d.blocks # <<>>
    /\ \A k, l \in DOMAIN d.blocks :
         /\ d.blocks[k].src = d.blocks[l].src
         /\ d.blocks[k].tf = d.blocks[l].tf
         /\ k < l => d.blocks[k].n < d.blocks[l].n
         /\ k # l => d.blocks[k].tf # undefinedTimeframeId

\* executeCallback() turns the blocks into slices without losing or mixing any.
BlocksInSlices == BlocksAccounted /\ SlicesHomogeneous

\* the blocks that a step pushes to the output
NewlyDelivered == delivered' \ delivered

\* Data of one source leaves the aggregator in the order of its production,
\* although slices are closed on a change of timeframe, on a timeout and on a
\* flush, and are queued in between.  With timeframe building the order is the
\* one of the timeframe ids (TimeframesInOrder).
SourceOrder ==
  [][mode # "stf" =>
       \A b \in NewlyDelivered, c \in delivered : b.src = c.src => c.n < b.n]_vars

\* With timeframe building, data leaves in the order of the timeframe ids and
\* nothing of a timeframe follows the data set that ended it, however late the
\* data of a slow source arrives.
TimeframesInOrder ==
  [][mode = "stf" =>
       \A b \in NewlyDelivered :
         /\ \A c \in delivered : c.tf <= b.tf
         /\ \A tf \in closed : tf < b.tf]_vars

\* The output keeps the order within each source and between the timeframes.
OutputOrder == SourceOrder /\ TimeframesInOrder

\* Only late data is discarded as late: a block has no timeframe id, or its
\* timeframe, or a later one, was sent out before in the same run.
LateIsJustified ==
  \A b \in late : b.tf = undefinedTimeframeId \/ \E tf \in closed : b.tf <= tf

\* A flush requested by the control always ends (the flag is reset, by the
\* thread or by stop()), unless a wrong link id has ended the thread.
FlushTerminates == doFlush ~> (~ doFlush \/ pc = "dead")

=============================================================================
