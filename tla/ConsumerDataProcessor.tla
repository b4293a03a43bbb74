----------------------- MODULE ConsumerDataProcessor -----------------------
(***************************************************************************)
(* The consumer that calls a user function on each block, in a pool of     *)
(* threads, and collects the results, in the order of the input if asked   *)
(* to (ConsumerDataProcessor.cxx).                                         *)
(*                                                                         *)
(* Three kinds of threads: the one that calls pushData(), the processing   *)
(* threads with an input and an output FIFO each, and the collector.  The  *)
(* order is restored with ids, which pushData() writes in the header of a  *)
(* block after it has given the block to a thread.                         *)
(***************************************************************************)
EXTENDS Integers, Sequences, FiniteSets

CONSTANTS
  NumberOfThreads,
  FifoSize,         \* threadInputFifoSize
  PageOrders,       \* ensurePageOrder: a subset of BOOLEAN
  CopyHeaders,      \* whether processBlock() returns a copy, a subset of BOOLEAN
  FailingBlocks,    \* blocks that processBlock() may give no result for
  IntMax,           \* largest value of an int, the type of threadIx
  MaxBlocks         \* bound: blocks pushed

ASSUME ProcessorAssumption ==
  /\ NumberOfThreads \in Nat \ {0} /\ FifoSize \in Nat \ {0}
  /\ PageOrders \subseteq BOOLEAN /\ CopyHeaders \subseteq BOOLEAN
  /\ IntMax \in Nat \ {0} /\ MaxBlocks \in Nat
  /\ FailingBlocks \subseteq 1 .. MaxBlocks

Threads == 1 .. NumberOfThreads

Blocks == 1 .. MaxBlocks

\* no block; as an id, the one of a block that was never tagged
None == 0

VARIABLES
  ordered,          \* cfgEnsurePageOrder
  copies,           \* the library: LZ4 makes a new block, zlib works in place
  pc, n, i,         \* pushData(): where it is, the block, the threads tried
  threadIndex,
  currentId,
  inputFifo, working, outputFifo,   \* per thread
  pipelineId,       \* in the header of each block,
  resultId,         \* and of the result of its processing
  idFifo,
  cpc, nextId, ci,  \* loopOutput(): where it is, the id it looks for, its index
  threadIx,
  accepted, out,    \* history: the blocks taken by pushData(), and forwarded
  noResult,         \* history: those that processBlock() failed for
  refusedById       \* history: pushData() refused a block that a thread had room for

pushVars == <<pc, n, i, threadIndex, currentId>>
workVars == <<inputFifo, working, outputFifo, resultId, noResult>>
collectVars == <<cpc, nextId, ci, threadIx, out>>
vars == <<ordered, copies, pushVars, workVars, pipelineId, idFifo, collectVars, accepted, refusedById>>

Elements(s) == {s[k] : k \in DOMAIN s}

IdFifoSize == NumberOfThreads * FifoSize * 2

\* Every variable has its type; the FIFOs hold no more than they can.
TypeOK ==
  /\ ordered \in BOOLEAN /\ copies \in BOOLEAN
  /\ pc \in {"idle", "find", "tag", "track", "stop", "stopOutput", "gone", "crashed"}
  /\ n \in 0 .. MaxBlocks /\ i \in 0 .. NumberOfThreads
  /\ threadIndex \in 0 .. NumberOfThreads - 1
  /\ currentId \in 1 .. MaxBlocks + 1
  /\ inputFifo \in [Threads -> Seq(Blocks)]
  /\ working \in [Threads -> Blocks \cup {None}]
  /\ outputFifo \in [Threads -> Seq(Blocks)]
  /\ \A t \in Threads : Len(inputFifo[t]) <= FifoSize /\ Len(outputFifo[t]) <= FifoSize
  /\ pipelineId \in [Blocks -> 0 .. MaxBlocks]
  /\ resultId \in [Blocks -> 0 .. MaxBlocks]
  /\ idFifo \in Seq(1 .. MaxBlocks) /\ Len(idFifo) <= IdFifoSize
  /\ cpc \in {"front", "scan", "ended"}
  /\ nextId \in 0 .. MaxBlocks /\ ci \in 0 .. NumberOfThreads
  /\ threadIx \in -(IntMax + 1) .. IntMax
  /\ accepted \in Seq(Blocks) /\ out \in Seq(Blocks)
  /\ noResult \subseteq Blocks
  /\ refusedById \in BOOLEAN

Init ==
  /\ ordered \in PageOrders /\ copies \in CopyHeaders
  /\ pc = "idle" /\ n = 0 /\ i = 0 /\ threadIndex = 0 /\ currentId = 1
  /\ inputFifo = [t \in Threads |-> <<>>]
  /\ working = [t \in Threads |-> None]
  /\ outputFifo = [t \in Threads |-> <<>>]
  /\ pipelineId = [b \in Blocks |-> None]
  /\ resultId = [b \in Blocks |-> None]
  /\ idFifo = <<>>
  /\ cpc = "front" /\ nextId = None /\ ci = 0 /\ threadIx = 0
  /\ accepted = <<>> /\ out = <<>> /\ noResult = {} /\ refusedById = FALSE

-----------------------------------------------------------------------------
(* pushData().                                                             *)

\* Variant: room for what the input FIFOs hold only.
IdFifoFullHalf == Len(idFifo) >= NumberOfThreads * FifoSize

IdFifoFull == Len(idFifo) >= IdFifoSize

\* the call for a new block; it is dropped if its id could not be tracked
Push ==
  /\ pc = "idle" /\ n < MaxBlocks
  /\ n' = n + 1
  /\ i' = 0
  /\ IF ordered /\ IdFifoFull
       THEN /\ pc' = "idle"
            /\ refusedById' = (refusedById \/ \E t \in Threads : Len(inputFifo[t]) < FifoSize)
       ELSE pc' = "find" /\ UNCHANGED refusedById
  /\ UNCHANGED <<ordered, copies, threadIndex, currentId, workVars, pipelineId, idFifo, collectVars,
                 accepted>>

\* the next thread is tried: the block is in its FIFO, or all were full
FindThread ==
  LET t == (threadIndex + 1) % NumberOfThreads IN
  /\ pc = "find"
  /\ threadIndex' = t
  /\ IF Len(inputFifo[t + 1]) < FifoSize
       THEN /\ inputFifo' = [inputFifo EXCEPT ![t + 1] = Append(@, n)]
            /\ accepted' = Append(accepted, n)
            /\ pc' = "tag" /\ UNCHANGED i
       ELSE /\ i' = i + 1
            /\ pc' = IF i + 1 = NumberOfThreads THEN "idle" ELSE "find"
            /\ UNCHANGED <<inputFifo, accepted>>
  /\ UNCHANGED <<ordered, copies, n, currentId, working, outputFifo, resultId, noResult, pipelineId,
                 idFifo, collectVars, refusedById>>

Tag ==
  /\ pc = "tag"
  /\ pipelineId' = [pipelineId EXCEPT ![n] = currentId]
  /\ currentId' = currentId + 1
  /\ pc' = IF ordered THEN "track" ELSE "idle"
  /\ UNCHANGED <<ordered, copies, n, i, threadIndex, workVars, idFifo, collectVars, accepted,
                 refusedById>>

Track ==
  /\ pc = "track"
  /\ idFifo' = IF IdFifoFull THEN idFifo ELSE Append(idFifo, pipelineId[n])
  /\ pc' = "idle"
  /\ UNCHANGED <<ordered, copies, n, i, threadIndex, currentId, workVars, pipelineId, collectVars,
                 accepted, refusedById>>

-----------------------------------------------------------------------------
(* A processing thread.                                                    *)

\* Variant: a block is processed whatever room there is for the result.
AlwaysRoom(t) == TRUE

OutputHasRoom(t) == Len(outputFifo[t]) < FifoSize

\* the loop of the thread has not ended
Running(t) == pc \notin {"stopOutput", "gone", "crashed"} /\ (pc = "stop" => t >= i)

Take(t) ==
  /\ Running(t) /\ working[t] = None
  /\ inputFifo[t] # <<>> /\ OutputHasRoom(t)
  /\ working' = [working EXCEPT ![t] = Head(inputFifo[t])]
  /\ inputFifo' = [inputFifo EXCEPT ![t] = Tail(@)]
  /\ UNCHANGED <<ordered, copies, pushVars, outputFifo, resultId, noResult, pipelineId, idFifo,
                 collectVars, accepted, refusedById>>

\* processBlock(): a new block or the same one, or none after a failure
ProcessBlock(b) == {b} \cup (IF b \in FailingBlocks THEN {None} ELSE {})

\* the result has the header of the block, as it is at this time in a copy.  A
\* push to a full FIFO does nothing.
Process(t) ==
  LET b == working[t] IN
  /\ pc # "crashed" /\ b # None
  /\ working' = [working EXCEPT ![t] = None]
  /\ \/ /\ b \in ProcessBlock(b)
        /\ resultId' = [resultId EXCEPT ![b] = pipelineId[b]]
        /\ outputFifo' = [outputFifo EXCEPT ![t] = IF Len(@) < FifoSize THEN Append(@, b) ELSE @]
        /\ UNCHANGED noResult
     \/ /\ None \in ProcessBlock(b)
        /\ noResult' = noResult \cup {b}
        /\ UNCHANGED <<resultId, outputFifo>>
  /\ UNCHANGED <<ordered, copies, pushVars, inputFifo, pipelineId, idFifo, collectVars, accepted,
                 refusedById>>

-----------------------------------------------------------------------------
(* The collector.                                                          *)

\* the id that the collector reads in the header of a result: zlib returns the
\* block itself, which is tagged in the meantime
IdOf(b) == IF copies THEN resultId[b] ELSE pipelineId[b]

\* the remainder of C++, which has the sign of a
Remainder(a, m) == IF a >= 0 THEN a % m ELSE - ((- a) % m)

Wrapped(a) == IF a > IntMax THEN a - 2 * (IntMax + 1) ELSE a

\* the thread that the collector looks at
CollectedThread ==
  IF ordered THEN Remainder(Wrapped(ci + threadIx), NumberOfThreads) ELSE ci

\* the loop begins, unless shutdown is set: the id to look for is the first one of idFifo, if any
Front ==
  /\ pc \notin {"stopOutput", "gone", "crashed"} /\ cpc = "front"
  /\ ordered => idFifo # <<>>
  /\ nextId' = IF ordered THEN Head(idFifo) ELSE None
  /\ ci' = 0
  /\ cpc' = "scan"
  /\ UNCHANGED <<ordered, copies, pushVars, workVars, pipelineId, idFifo, threadIx, out, accepted,
                 refusedById>>

\* Variant: the first result of the thread is taken.
AnyResult(t) == outputFifo[t] # <<>>

IsNext(t) == outputFifo[t] # <<>> /\ (ordered => IdOf(Head(outputFifo[t])) = nextId)

\* Variant: the last thread is left out.
ScanEndsEarly == ci' >= NumberOfThreads - 1 /\ NumberOfThreads > 1

ScanEnds == ci' = NumberOfThreads

\* the first result of a thread is forwarded, if there is one and it is the one
\* wanted, which ends the search; otherwise the next thread is looked at.  A thread that
\* is not in the pool is read out of its bounds.
Scan ==
  LET t == CollectedThread + 1 IN
  /\ pc # "crashed" /\ cpc = "scan"
  /\ ci' = ci + 1
  /\ IF t \notin Threads
       THEN pc' = "crashed" /\ UNCHANGED <<cpc, outputFifo, out, idFifo, threadIx>>
       ELSE /\ IF IsNext(t)
                 THEN /\ outputFifo' = [outputFifo EXCEPT ![t] = Tail(@)]
                      /\ out' = Append(out, Head(outputFifo[t]))
                      /\ idFifo' = IF ordered THEN Tail(idFifo) ELSE idFifo
                      /\ threadIx' = IF ordered THEN Wrapped(threadIx + 1) ELSE threadIx
                      /\ cpc' = IF ordered \/ ScanEnds THEN "front" ELSE "scan"
                 ELSE /\ cpc' = IF ScanEnds THEN "front" ELSE "scan"
                      /\ UNCHANGED <<outputFifo, out, idFifo, threadIx>>
            /\ UNCHANGED pc
  /\ UNCHANGED <<ordered, copies, n, i, threadIndex, currentId, inputFifo, working, resultId,
                 noResult, pipelineId, nextId, accepted, refusedById>>

-----------------------------------------------------------------------------
(* The destructor.                                                         *)

Destroy ==
  /\ pc = "idle"
  /\ pc' = "stop" /\ i' = 1
  /\ UNCHANGED <<ordered, copies, n, threadIndex, currentId, workVars, pipelineId, idFifo,
                 collectVars, accepted, refusedById>>

\* the threads are stopped one after the other, each at the end of a block; then
\* the collector is told to
StopThread ==
  /\ pc = "stop" /\ working[i] = None
  /\ IF i < NumberOfThreads THEN i' = i + 1 /\ UNCHANGED pc
     ELSE pc' = "stopOutput" /\ UNCHANGED i
  /\ UNCHANGED <<ordered, copies, n, threadIndex, currentId, workVars, pipelineId, idFifo,
                 collectVars, accepted, refusedById>>

\* the collector ends at the end of its loop, and the FIFOs are released
StopOutput ==
  /\ pc = "stopOutput" /\ cpc = "front"
  /\ cpc' = "ended"
  /\ pc' = "gone"
  /\ inputFifo' = [t \in Threads |-> <<>>]
  /\ outputFifo' = [t \in Threads |-> <<>>]
  /\ idFifo' = <<>>
  /\ UNCHANGED <<ordered, copies, n, i, threadIndex, currentId, working, resultId, noResult,
                 pipelineId, nextId, ci, threadIx, out, accepted, refusedById>>

-----------------------------------------------------------------------------
PushData == FindThread \/ Tag \/ Track

Collector == Front \/ Scan

Destructor == StopThread \/ StopOutput

Next ==
  \/ Push
  \/ PushData
  \/ \E t \in Threads : Take(t) \/ Process(t)
  \/ Collector
  \/ Destroy
  \/ Destructor

Spec == Init /\ [][Next]_vars

\* every thread goes on; nobody has to call pushData() or the destructor
FairSpec ==
  /\ Spec
  /\ WF_vars(PushData)
  /\ \A t \in Threads : WF_vars(Take(t) \/ Process(t))
  /\ WF_vars(Collector)
  /\ WF_vars(Destructor)

-----------------------------------------------------------------------------
(* Properties.                                                             *)

Pipe == INSTANCE OrderedPipe WITH Items <- Blocks

\* The processor is a pipe that keeps the order when asked to: "ensures that
\* data pages goes out of the processing pool in same order as input", however
\* many threads work and whichever is faster.
KeepsOrder == Pipe!PipeSpec

\* the places where a block taken by pushData() may be
Places(t) == <<Elements(inputFifo[t]), {working[t]} \ {None}, Elements(outputFifo[t])>>

\* No block is lost or duplicated between the threads: until the destructor
\* releases the FIFOs, a block that was taken is in one FIFO, in processing,
\* forwarded, or the one that processBlock() gave no result for.  (Every variable
\* has its type besides.)
BlocksAccounted ==
  /\ TypeOK
  /\ pc # "gone" =>
    \A b \in Elements(accepted) :
      Cardinality({p \in Threads \X (1 .. 3) : b \in Places(p[1])[p[2]]})
        + (IF b \in Elements(out) THEN 1 ELSE 0) + (IF b \in noResult THEN 1 ELSE 0) = 1

\* The FIFO of ids is large enough: pushData() never drops a block for lack of
\* an id slot while a thread has room for it, as long as each block that was
\* tracked came out of processing.
TrackingIsEnough == refusedById => noResult # {}

\* Blocks are neither lost between the threads nor refused for lack of an id.
BlocksTracked == BlocksAccounted /\ TrackingIsEnough

\* a block that came out of processing with the id it had before it was tagged
Mistagged == copies /\ \E t \in Threads :
                         \E b \in Elements(outputFifo[t]) : resultId[b] = None

\* the collector waits for an id that will not come
Stalled == ordered /\ (noResult # {} \/ Mistagged)

\* Every block taken leaves the processor, or was given no result, unless the
\* order is enforced and a block before it was lost, or the index of the
\* collector overflowed.
BlocksGoOut ==
  \A b \in Blocks :
    b \in Elements(accepted)
      ~> (b \in Elements(out) \/ b \in noResult \/ Stalled \/ pc \in {"gone", "crashed"})

=============================================================================
