-------------------- MODULE ConsumerDataProcessorProofs --------------------
(***************************************************************************)
(* Proofs about ConsumerDataProcessor, for any number of threads, size of  *)
(* the FIFOs, failures and width of the index: the processor is an ordered *)
(* pipe, no block is lost or duplicated between its threads, and the FIFO  *)
(* of ids is large enough.                                                 *)
(*                                                                         *)
(* The order rests on the ids: the id of a block is its rank among the     *)
(* blocks accepted, and idFifo holds the ranks that come after what went   *)
(* out.  A block that is processed before it is tagged may keep no id, but *)
(* never has the id of another one.                                        *)
(***************************************************************************)
EXTENDS ConsumerDataProcessor, FiniteSetTheorems, TLAPS

Injective(s) == \A j, k \in 1..Len(s) : s[j] = s[k] => j = k

\* Where pushData() and the destructor are.
Pushing ==
  /\ pc \in {"find", "tag", "track"} => n \in Blocks
  /\ pc = "find" => i < NumberOfThreads
  /\ pc = "stop" => i \in 1..NumberOfThreads

\* The blocks are accepted in the order of their numbers.
Increasing ==
  /\ \A j, k \in 1..Len(accepted) : j < k => accepted[j] < accepted[k]
  /\ \A k \in 1..Len(accepted) : accepted[k] =< n /\ (pc = "find" => accepted[k] < n)
  /\ Len(accepted) =< n /\ (pc = "find" => Len(accepted) < n)
  /\ pc \in {"tag", "track"} => accepted # << >> /\ accepted[Len(accepted)] = n

\* The id of a block is its rank, once it is tagged.
Ranks ==
  /\ pc = "tag" => Len(accepted) = currentId
  /\ pc \notin {"tag", "crashed"} => Len(accepted) = currentId - 1
  /\ currentId - 1 =< Len(accepted)
  /\ \A k \in 1..Len(accepted) : pipelineId[accepted[k]] = IF k < currentId THEN k ELSE None
  /\ \A b \in Blocks : b > n \/ (b = n /\ pc = "find") => pipelineId[b] = None
  /\ \A b \in Blocks : resultId[b] \in {None, pipelineId[b]}

\* idFifo holds the ranks of the blocks that come next.
NextIds ==
  ordered /\ pc # "gone" =>
    /\ \A k \in 1..Len(idFifo) : idFifo[k] = Len(out) + k
    /\ pc \in {"find", "tag", "track"} => Len(idFifo) < IdFifoSize
    /\ pc = "track" => Len(out) + Len(idFifo) = currentId - 2
    /\ pc \notin {"track", "crashed"} => Len(out) + Len(idFifo) = currentId - 1
    /\ Len(out) + Len(idFifo) =< currentId - 1
    /\ cpc = "scan" => idFifo # << >> /\ nextId = Len(out) + 1

OutIsPrefix ==
  ordered => Len(out) =< Len(accepted) /\ \A k \in 1..Len(out) : out[k] = accepted[k]

\* The collector looks at each thread once, and ends before the FIFOs are released.
Scanning ==
  /\ cpc = "scan" /\ pc # "crashed" => ci < NumberOfThreads
  /\ pc = "gone" <=> cpc = "ended"

\* A FIFO holds a block once, and a thread that works has room for its result.
Fifos ==
  \A t \in Threads :
    /\ Injective(inputFifo[t]) /\ Injective(outputFifo[t])
    /\ working[t] # None => Len(outputFifo[t]) < FifoSize

InInput(b, t) == b \in Elements(inputFifo[t])
InWork(b, t) == working[t] = b
InOutput(b, t) == b \in Elements(outputFifo[t])
Held(b, t) == InInput(b, t) \/ InWork(b, t) \/ InOutput(b, t)

\* A block is in one place.
OnePlace ==
  \A b \in Blocks : \A t, u \in Threads :
    /\ Held(b, t) /\ Held(b, u) => t = u
    /\ ~(InInput(b, t) /\ InWork(b, t))
    /\ ~(InInput(b, t) /\ InOutput(b, t))
    /\ ~(InWork(b, t) /\ InOutput(b, t))

\* It is held, or went out, or got no result.
Accounted ==
  \A b \in Blocks :
    /\ \A t \in Threads : Held(b, t) =>
         b \in Elements(accepted) /\ b \notin Elements(out) /\ b \notin noResult
    /\ b \in Elements(out) => b \in Elements(accepted) /\ b \notin noResult
    /\ b \in noResult => b \in Elements(accepted)
    /\ b \in Elements(accepted) /\ pc # "gone" =>
         b \in Elements(out) \/ b \in noResult \/ \E t \in Threads : Held(b, t)

IInv == /\ TypeOK /\ Pushing /\ Increasing /\ Ranks /\ NextIds /\ OutIsPrefix /\ Scanning
        /\ Fifos /\ OnePlace /\ Accounted /\ TrackingIsEnough

-----------------------------------------------------------------------------
(* Sequences *)

\* The elements of a sequence over S are in S.
LEMMA SeqElement ==
  ASSUME NEW S, NEW s \in Seq(S), NEW k \in 1..Len(s)
  PROVE  s[k] \in S
PROOF
  OBVIOUS

\* Elements(s) is what is at the positions of s.
LEMMA ElementsAre ==
  ASSUME NEW S, NEW s \in Seq(S)
  PROVE  \A b : b \in Elements(s) <=> \E k \in 1..Len(s) : s[k] = b
PROOF
  BY DEF Elements

\* So they are in S.
LEMMA ElementsTyped ==
  ASSUME NEW S, NEW s \in Seq(S)
  PROVE  Elements(s) \subseteq S
PROOF
  BY DEF Elements

\* What a push to a FIFO leaves in it.
LEMMA AppendAdds ==
  ASSUME NEW S, NEW s \in Seq(S), NEW x \in S
  PROVE  /\ Append(s, x) \in Seq(S)
         /\ Len(Append(s, x)) = Len(s) + 1
         /\ Append(s, x)[Len(s) + 1] = x
         /\ \A k \in 1..Len(s) : Append(s, x)[k] = s[k]
         /\ Elements(Append(s, x)) = Elements(s) \cup {x}
         /\ Injective(s) /\ x \notin Elements(s) => Injective(Append(s, x))
PROOF
<1>1. /\ Append(s, x) \in Seq(S) /\ Len(Append(s, x)) = Len(s) + 1 /\ Len(s) \in Nat
      /\ Append(s, x)[Len(s) + 1] = x /\ \A k \in 1..Len(s) : Append(s, x)[k] = s[k]
  OBVIOUS
<1>2. 1..Len(s) + 1 = (1..Len(s)) \cup {Len(s) + 1}
  BY <1>1
<1>3. Elements(Append(s, x)) = Elements(s) \cup {x}
  <2>1. \A b : b \in Elements(Append(s, x)) <=> b \in Elements(s) \/ b = x
    <3>1. \A b : b \in Elements(Append(s, x)) <=> \E k \in 1..Len(s) + 1 : Append(s, x)[k] = b
      <4> DEFINE a == Append(s, x)
      <4>1. a \in Seq(S) /\ Len(a) = Len(s) + 1
        BY <1>1
      <4> HIDE DEF a
      <4>2. \A b : b \in Elements(a) <=> \E k \in 1..Len(a) : a[k] = b
        BY <4>1, ElementsAre
      <4> QED
        BY <4>1, <4>2 DEF a
    <3>2. \A b : b \in Elements(s) <=> \E k \in 1..Len(s) : s[k] = b
      BY ElementsAre, Zenon
    <3> QED
      BY <1>1, <1>2, <3>1, <3>2
  <2> QED
    BY <2>1
<1>4. ASSUME Injective(s), x \notin Elements(s) PROVE Injective(Append(s, x))
  <2>1. \A k \in 1..Len(s) : s[k] # x
    BY <1>4, ElementsAre
  <2> QED
    BY <1>1, <1>2, <1>4, <2>1 DEF Injective
<1> QED
  BY <1>1, <1>3, <1>4

\* What a pop takes from a FIFO, and what it leaves in it.
LEMMA TailRemoves ==
  ASSUME NEW S, NEW s \in Seq(S), s # << >>
  PROVE  /\ Head(s) \in S /\ Head(s) = s[1] /\ Head(s) \in Elements(s)
         /\ Tail(s) \in Seq(S) /\ Len(s) \in Nat \ {0} /\ Len(Tail(s)) = Len(s) - 1
         /\ \A k \in 1..Len(s) - 1 : Tail(s)[k] = s[k + 1]
         /\ Injective(s) => Injective(Tail(s)) /\ Elements(Tail(s)) = Elements(s) \ {Head(s)}
PROOF
<1>1. /\ Head(s) \in S /\ Head(s) = s[1]
      /\ Tail(s) \in Seq(S) /\ Len(s) \in Nat \ {0} /\ Len(Tail(s)) = Len(s) - 1
      /\ \A k \in 1..Len(s) - 1 : Tail(s)[k] = s[k + 1]
  OBVIOUS
<1>2. Head(s) \in Elements(s)
  BY <1>1, ElementsAre
<1>3. ASSUME Injective(s) PROVE Injective(Tail(s))
  BY <1>1, <1>3 DEF Injective
<1>4. ASSUME Injective(s) PROVE Elements(Tail(s)) = Elements(s) \ {Head(s)}
  <2>1. ASSUME NEW b \in Elements(Tail(s)) PROVE b \in Elements(s) /\ b # Head(s)
    <3>1. PICK k \in 1..Len(s) - 1 : Tail(s)[k] = b
      <4> DEFINE r == Tail(s)
      <4>1. r \in Seq(S) /\ Len(r) = Len(s) - 1 /\ b \in Elements(r)
        BY <1>1, <2>1
      <4> HIDE DEF r
      <4>2. \E k \in 1..Len(r) : r[k] = b
        BY <4>1, ElementsAre
      <4> QED
        BY <4>1, <4>2 DEF r
    <3>2. k + 1 \in 1..Len(s) /\ 1 \in 1..Len(s) /\ s[k + 1] = b /\ k + 1 # 1
      BY <1>1, <3>1
    <3> QED
      BY <1>1, <1>4, <3>2, ElementsAre DEF Injective
  <2>2. ASSUME NEW b \in Elements(s), b # Head(s) PROVE b \in Elements(Tail(s))
    <3>1. PICK k \in 1..Len(s) : s[k] = b
      BY <2>2, ElementsAre
    <3>2. k - 1 \in 1..Len(s) - 1 /\ Tail(s)[k - 1] = b
      BY <1>1, <2>2, <3>1
    <3> QED
      BY <1>1, <3>2, ElementsAre
  <2> QED
    BY <2>1, <2>2
<1> QED
  BY <1>1, <1>2, <1>3, <1>4

-----------------------------------------------------------------------------
(* Types *)

\* The constants are numbers, and the FIFOs have room for a block.
LEMMA Constants ==
  /\ NumberOfThreads \in Nat \ {0} /\ FifoSize \in Nat \ {0} /\ IntMax \in Nat \ {0}
  /\ MaxBlocks \in Nat /\ IdFifoSize \in Nat \ {0}
PROOF
<1>1. NumberOfThreads * FifoSize * 2 \in Nat \ {0}
  BY ProcessorAssumption
<1> QED
  BY <1>1, ProcessorAssumption DEF IdFifoSize

\* pushData() keeps the types,
LEMMA PushTyped ==
  ASSUME IInv, Push \/ FindThread \/ Tag \/ Track
  PROVE  TypeOK'
PROOF
<1> USE Constants DEF IInv, TypeOK
<1>1. CASE Push
  <2>1. refusedById' \in BOOLEAN
    BY <1>1, Zenon DEF Push
  <2> QED
    BY <1>1, <2>1 DEF Push, workVars, collectVars
<1>2. CASE FindThread
  <2> DEFINE t == (threadIndex + 1) % NumberOfThreads
  <2>1. t \in 0..NumberOfThreads - 1 /\ t + 1 \in Threads /\ n \in Blocks
    BY SMTT(30), <1>2 DEF FindThread, Threads, Pushing
  <2>2. threadIndex' = t
    BY <1>2 DEF FindThread
  <2> HIDE DEF t
  <2>3. CASE Len(inputFifo[t + 1]) < FifoSize
    <3>1. inputFifo' = [inputFifo EXCEPT ![t + 1] = Append(@, n)] /\ accepted' = Append(accepted, n)
      BY <1>2, <2>3 DEF FindThread, t
    <3>2. inputFifo' \in [Threads -> Seq(Blocks)] /\ accepted' \in Seq(Blocks)
      BY <2>1, <3>1, AppendAdds
    <3>3. \A u \in Threads : Len(inputFifo'[u]) =< FifoSize
      BY <2>1, <2>3, <3>1, AppendAdds
    <3> QED
      BY <1>2, <2>1, <2>2, <2>3, <3>2, <3>3 DEF FindThread, collectVars, t
  <2>4. CASE ~(Len(inputFifo[t + 1]) < FifoSize)
    <3>1. i' = i + 1 /\ i' \in 0..NumberOfThreads
      BY <1>2, <2>4 DEF FindThread, t, Pushing
    <3>2. UNCHANGED <<inputFifo, accepted>> /\ pc' \in {"idle", "find"}
      BY <1>2, <2>4 DEF FindThread, t
    <3> QED
      BY <1>2, <2>1, <2>2, <3>1, <3>2 DEF FindThread, collectVars
  <2> QED
    BY <2>3, <2>4
<1>3. CASE Tag
  <2>1. currentId =< n /\ n \in Blocks
    BY <1>3 DEF Tag, Pushing, Increasing, Ranks
  <2>2. currentId \in 0..MaxBlocks /\ currentId + 1 \in 1..MaxBlocks + 1
    BY <2>1
  <2>3. pipelineId' \in [Blocks -> 0..MaxBlocks]
    BY <1>3, <2>1, <2>2 DEF Tag
  <2> QED
    BY <1>3, <2>2, <2>3 DEF Tag, workVars, collectVars
<1>4. CASE Track
  <2>1. pipelineId[n] \in 1..MaxBlocks
    <3>1. Len(accepted) = currentId - 1 /\ Len(accepted) \in 1..Len(accepted) /\ n = accepted[Len(accepted)]
      BY <1>4 DEF Track, Ranks, Increasing
    <3>2. pipelineId[n] = Len(accepted)
      BY <3>1 DEF Ranks
    <3> QED
      BY <3>1, <3>2 DEF Increasing
  <2>2. idFifo' \in Seq(1..MaxBlocks) /\ Len(idFifo') =< IdFifoSize
    <3>1. CASE IdFifoFull
      BY <1>4, <3>1 DEF Track
    <3>2. CASE ~IdFifoFull
      <4>1. idFifo' = Append(idFifo, pipelineId[n])
        BY <1>4, <3>2 DEF Track
      <4>2. idFifo' \in Seq(1..MaxBlocks) /\ Len(idFifo') = Len(idFifo) + 1
        BY <2>1, <4>1, AppendAdds
      <4> QED
        BY <3>2, <4>2 DEF IdFifoFull
    <3> QED
      BY <3>1, <3>2
  <2> QED
    BY <1>4, <2>2 DEF Track, workVars, collectVars
<1> QED
  BY <1>1, <1>2, <1>3, <1>4

\* and so does a worker thread,
LEMMA WorkTyped ==
  ASSUME IInv, NEW t \in Threads, Take(t) \/ Process(t)
  PROVE  TypeOK'
PROOF
<1> USE Constants DEF IInv, TypeOK
<1>1. CASE Take(t)
  <2>1. inputFifo[t] \in Seq(Blocks) /\ inputFifo[t] # << >>
    BY <1>1 DEF Take
  <2>2. /\ Head(inputFifo[t]) \in Blocks /\ Tail(inputFifo[t]) \in Seq(Blocks)
        /\ Len(Tail(inputFifo[t])) =< FifoSize
    BY <2>1, TailRemoves
  <2>3. working' \in [Threads -> Blocks \cup {None}]
    BY <1>1, <2>2 DEF Take
  <2>4. inputFifo' \in [Threads -> Seq(Blocks)] /\ \A u \in Threads : Len(inputFifo'[u]) =< FifoSize
    BY <1>1, <2>2 DEF Take
  <2> QED
    BY <1>1, <2>3, <2>4 DEF Take, pushVars, collectVars
<1>2. CASE Process(t)
  <2>1. working[t] \in Blocks /\ working' \in [Threads -> Blocks \cup {None}]
    BY <1>2 DEF Process
  <2>2. CASE UNCHANGED noResult /\ resultId' = [resultId EXCEPT ![working[t]] = pipelineId[working[t]]]
             /\ outputFifo' = [outputFifo EXCEPT ![t] =
                                 IF Len(@) < FifoSize THEN Append(@, working[t]) ELSE @]
    <3>1. resultId' \in [Blocks -> 0..MaxBlocks]
      BY <2>1, <2>2
    <3>2. outputFifo' \in [Threads -> Seq(Blocks)] /\ \A u \in Threads : Len(outputFifo'[u]) =< FifoSize
      <4>1. CASE Len(outputFifo[t]) < FifoSize
        <5>1. outputFifo' = [outputFifo EXCEPT ![t] = Append(outputFifo[t], working[t])]
          BY <2>2, <4>1
        <5>2. /\ Append(outputFifo[t], working[t]) \in Seq(Blocks)
              /\ Len(Append(outputFifo[t], working[t])) = Len(outputFifo[t]) + 1
          BY <2>1, AppendAdds
        <5> QED
          BY <4>1, <5>1, <5>2
      <4>2. CASE ~(Len(outputFifo[t]) < FifoSize)
        BY <2>2, <4>2
      <4> QED
        BY <4>1, <4>2
    <3> QED
      BY <1>2, <2>1, <2>2, <3>1, <3>2 DEF Process, pushVars, collectVars
  <2>3. CASE noResult' = noResult \cup {working[t]} /\ UNCHANGED <<resultId, outputFifo>>
    BY <1>2, <2>1, <2>3 DEF Process, pushVars, collectVars
  <2> QED
    BY <1>2, <2>2, <2>3 DEF Process
<1> QED
  BY <1>1, <1>2

\* the collector,
LEMMA CollectTyped ==
  ASSUME IInv, Front \/ Scan
  PROVE  TypeOK'
PROOF
<1> USE Constants DEF IInv, TypeOK
<1>1. CASE Front
  <2>1. nextId' \in 0..MaxBlocks
    <3>1. CASE ordered
      BY <1>1, <3>1, TailRemoves DEF Front
    <3>2. CASE ~ordered
      BY <1>1, <3>2 DEF Front, None
    <3> QED
      BY <3>1, <3>2
  <2> QED
    BY <1>1, <2>1 DEF Front, pushVars, workVars
<1>2. CASE Scan
  <2> DEFINE t == CollectedThread + 1
  <2>1. cpc = "scan" /\ ci < NumberOfThreads
    BY <1>2 DEF Scan, Scanning
  <2>2. ci' \in 0..NumberOfThreads
    BY <1>2, <2>1 DEF Scan
  <2> HIDE DEF t
  <2>3. CASE t \notin Threads
    BY <1>2, <2>2, <2>3 DEF Scan, t
  <2>4. CASE t \in Threads /\ IsNext(t)
    <3>1. outputFifo[t] \in Seq(Blocks) /\ outputFifo[t] # << >>
      BY <2>4 DEF IsNext
    <3>2. /\ outputFifo' = [outputFifo EXCEPT ![t] = Tail(@)]
          /\ out' = Append(out, Head(outputFifo[t]))
          /\ idFifo' = IF ordered THEN Tail(idFifo) ELSE idFifo
          /\ threadIx' = IF ordered THEN Wrapped(threadIx + 1) ELSE threadIx
          /\ cpc' \in {"front", "scan"} /\ UNCHANGED pc
      BY <1>2, <2>4 DEF Scan, t
    <3>3. /\ Head(outputFifo[t]) \in Blocks /\ Tail(outputFifo[t]) \in Seq(Blocks)
          /\ Len(Tail(outputFifo[t])) =< FifoSize
      BY <2>4, <3>1, TailRemoves
    <3>4. out' \in Seq(Blocks)
      BY <3>2, <3>3, AppendAdds
    <3>5. outputFifo' \in [Threads -> Seq(Blocks)] /\ \A u \in Threads : Len(outputFifo'[u]) =< FifoSize
      BY <2>4, <3>2, <3>3
    <3>6. threadIx' \in -(IntMax + 1)..IntMax
      BY <3>2 DEF Wrapped
    <3>7. idFifo' \in Seq(1..MaxBlocks) /\ Len(idFifo') =< IdFifoSize
      <4>1. CASE ordered
        <5>1. idFifo # << >>
          BY <2>1, <4>1 DEF NextIds, Scanning
        <5>2. Tail(idFifo) \in Seq(1..MaxBlocks) /\ Len(Tail(idFifo)) =< IdFifoSize
          BY <5>1, TailRemoves
        <5> QED
          BY <3>2, <4>1, <5>2
      <4>2. CASE ~ordered
        BY <3>2, <4>2
      <4> QED
        BY <4>1, <4>2
    <3> QED
      BY <1>2, <2>2, <3>2, <3>4, <3>5, <3>6, <3>7 DEF Scan
  <2>5. CASE t \in Threads /\ ~IsNext(t)
    <3>1. cpc' \in {"front", "scan"} /\ UNCHANGED <<outputFifo, out, idFifo, threadIx, pc>>
      BY <1>2, <2>5 DEF Scan, t
    <3> QED
      BY <1>2, <2>2, <3>1 DEF Scan
  <2> QED
    BY <2>3, <2>4, <2>5
<1> QED
  BY <1>1, <1>2

\* and the destructor.
LEMMA StopTyped ==
  ASSUME IInv, Destroy \/ StopThread \/ StopOutput
  PROVE  TypeOK'
PROOF
<1> USE Constants DEF IInv, TypeOK
<1>1. CASE Destroy
  BY <1>1 DEF Destroy, workVars, collectVars
<1>2. CASE StopThread
  BY <1>2 DEF StopThread, workVars, collectVars
<1>3. CASE StopOutput
  BY <1>3 DEF StopOutput
<1> QED
  BY <1>1, <1>2, <1>3

\* Every step keeps the types.
LEMMA TypeStep ==
  ASSUME IInv, Next
  PROVE  TypeOK'
PROOF
  BY PushTyped, WorkTyped, CollectTyped, StopTyped DEF Next, PushData, Collector, Destructor

-----------------------------------------------------------------------------
(* The order *)

\* The loops over the threads in pushData(), the destructor and the collector stay
\* within the table of threads.
LEMMA PushingStep ==
  ASSUME IInv, Next
  PROVE  Pushing' /\ Scanning'
PROOF
<1> USE Constants DEF IInv, TypeOK, Pushing, Scanning, Blocks
<1>1. CASE Push
  BY <1>1 DEF Push, collectVars
<1>2. CASE FindThread
  BY SMTT(30), <1>2 DEF FindThread, collectVars
<1>3. CASE Tag \/ Track
  BY <1>3 DEF Tag, Track, collectVars
<1>4. ASSUME NEW t \in Threads, Take(t) \/ Process(t) PROVE Pushing' /\ Scanning'
  BY <1>4 DEF Take, Process, pushVars, collectVars
<1>5. CASE Front
  BY <1>5 DEF Front, pushVars
<1>6. CASE Scan
  <2>1. cpc' = "scan" /\ pc' # "crashed" => ci' # NumberOfThreads
    BY <1>6 DEF Scan, ScanEnds
  <2>2. ci' = ci + 1 /\ cpc = "scan" /\ pc # "crashed" /\ pc' \in {pc, "crashed"} /\ UNCHANGED <<n, i>>
        /\ cpc' \in {"front", "scan"}
    BY <1>6 DEF Scan
  <2> QED
    BY <2>1, <2>2
<1>7. CASE Destroy
  BY <1>7 DEF Destroy, collectVars
<1>8. CASE StopThread
  <2>1. pc = "stop" /\ UNCHANGED <<n, cpc, ci>>
    BY <1>8 DEF StopThread, collectVars
  <2>2. \/ i < NumberOfThreads /\ i' = i + 1 /\ pc' = pc
        \/ pc' = "stopOutput" /\ i' = i
    BY <1>8 DEF StopThread
  <2> QED
    BY <2>1, <2>2
<1>9. CASE StopOutput
  BY <1>9 DEF StopOutput
<1> QED
  BY <1>1, <1>2, <1>3, <1>4, <1>5, <1>6, <1>7, <1>8, <1>9 DEF Next, PushData, Collector, Destructor

\* pushData() gives the blocks to the threads one after the other.
LEMMA IncreasingStep ==
  ASSUME IInv, Next
  PROVE  Increasing'
PROOF
<1> USE DEF IInv, TypeOK, Increasing
<1>1. /\ Len(accepted) \in Nat /\ n \in Nat
      /\ \A k \in 1..Len(accepted) : accepted[k] \in Nat
  <2>1. \A k \in 1..Len(accepted) : accepted[k] \in Blocks
    BY SeqElement
  <2> QED
    BY <2>1 DEF Blocks
<1>2. CASE Push
  <2>1. n' = n + 1 /\ accepted' = accepted /\ pc' \in {"idle", "find"}
    BY <1>2 DEF Push
  <2> QED
    BY SMTT(30), <1>1, <2>1
<1>3. CASE FindThread
  <2>1. n \in Blocks
    BY <1>3 DEF FindThread, Pushing
  <2>2. CASE accepted' = Append(accepted, n) /\ pc' = "tag"
    <3>1. /\ Len(accepted') = Len(accepted) + 1 /\ accepted'[Len(accepted) + 1] = n
          /\ \A k \in 1..Len(accepted) : accepted'[k] = accepted[k]
      BY <2>1, <2>2, AppendAdds
    <3>2. n' = n /\ pc = "find" /\ accepted' # << >>
      BY <1>1, <1>3, <3>1 DEF FindThread
    <3>3. \A k \in 1..Len(accepted) + 1 : k \in 1..Len(accepted) \/ k = Len(accepted) + 1
      BY <1>1
    <3>4. \A k \in 1..Len(accepted) : accepted'[k] < n
      BY <3>1, <3>2
    <3>5. ASSUME NEW j \in 1..Len(accepted) + 1, NEW k \in 1..Len(accepted) + 1, j < k
          PROVE  accepted'[j] < accepted'[k]
      <4>1. j \in 1..Len(accepted)
        BY <1>1, <3>5
      <4>2. CASE k \in 1..Len(accepted)
        BY <3>1, <3>5, <4>1, <4>2
      <4>3. CASE k = Len(accepted) + 1
        BY <3>1, <3>4, <4>1, <4>3
      <4> QED
        BY <3>3, <4>2, <4>3
    <3>6. ASSUME NEW k \in 1..Len(accepted) + 1 PROVE accepted'[k] =< n
      <4>1. CASE k \in 1..Len(accepted)
        BY <1>1, <3>1, <4>1
      <4>2. CASE k = Len(accepted) + 1
        BY <1>1, <3>1, <4>2
      <4> QED
        BY <3>3, <4>1, <4>2
    <3>7. Len(accepted) + 1 =< n
      BY <1>1, <3>2
    <3> HIDE DEF IInv, TypeOK
    <3> QED
      BY <2>2, <3>1, <3>2, <3>5, <3>6, <3>7
  <2>3. CASE accepted' = accepted /\ pc' \in {"idle", "find"}
    BY <1>3, <2>3 DEF FindThread
  <2> QED
    BY <1>3, <2>2, <2>3 DEF FindThread
<1>4. CASE Tag \/ Track
  BY <1>4 DEF Tag, Track
<1>5. ASSUME NEW t \in Threads, Take(t) \/ Process(t) PROVE Increasing'
  BY <1>5 DEF Take, Process, pushVars
<1>6. CASE Front
  BY <1>6 DEF Front, pushVars
<1>7. CASE Scan
  <2>1. pc' \in {pc, "crashed"} /\ UNCHANGED <<n, accepted>>
    BY <1>7 DEF Scan
  <2> QED
    BY <2>1
<1>8. CASE Destroy \/ StopThread \/ StopOutput
  BY <1>8 DEF Destroy, StopThread, StopOutput
<1> QED
  BY <1>2, <1>3, <1>4, <1>5, <1>6, <1>7, <1>8 DEF Next, PushData, Collector, Destructor

\* No block is accepted twice.
LEMMA AcceptedInjective ==
  ASSUME IInv
  PROVE  Injective(accepted)
PROOF
<1>1. \A k \in 1..Len(accepted) : accepted[k] \in Blocks
  BY SeqElement DEF IInv, TypeOK
<1>2. Len(accepted) \in Nat /\ \A k \in 1..Len(accepted) : accepted[k] \in Nat
  BY <1>1 DEF IInv, TypeOK, Blocks
<1> QED
  BY <1>2 DEF IInv, Increasing, Injective

\* A block gets its rank as id, or, when its worker was faster, its copy has none.
LEMMA RanksStep ==
  ASSUME IInv, Next
  PROVE  Ranks'
PROOF
<1> USE DEF IInv, TypeOK, Ranks
<1>1. Len(accepted) \in Nat /\ \A k \in 1..Len(accepted) : accepted[k] \in Blocks
  BY SeqElement
<1>2. CASE Push
  <2>1. /\ n' = n + 1 /\ UNCHANGED <<accepted, currentId, pipelineId, resultId>>
        /\ pc = "idle" /\ pc' \in {"idle", "find"}
    BY <1>2 DEF Push, workVars
  <2> QED
    BY <2>1 DEF Blocks
<1>3. CASE FindThread
  <2>1. n \in Blocks /\ UNCHANGED <<n, currentId, pipelineId, resultId>>
    BY <1>3 DEF FindThread, Pushing
  <2>2. CASE accepted' = Append(accepted, n) /\ pc' = "tag"
    <3>1. /\ Len(accepted') = Len(accepted) + 1 /\ accepted'[Len(accepted) + 1] = n
          /\ \A k \in 1..Len(accepted) : accepted'[k] = accepted[k]
      BY <2>1, <2>2, AppendAdds
    <3>2. pipelineId[n] = None
      BY <1>3, <2>1 DEF FindThread
    <3> QED
      BY SMTT(30), <1>1, <1>3, <2>1, <2>2, <3>1, <3>2 DEF FindThread
  <2>3. CASE accepted' = accepted /\ pc' \in {"idle", "find"}
    BY SMTT(30), <1>3, <2>1, <2>3 DEF FindThread
  <2> QED
    BY <1>3, <2>2, <2>3 DEF FindThread
<1>4. CASE Tag
  <2>1. /\ n = accepted[Len(accepted)] /\ Len(accepted) = currentId /\ currentId \in 1..Len(accepted)
        /\ n \in Blocks
    BY SMTT(30), <1>1, <1>4 DEF Tag, Increasing, Pushing
  <2>2. pipelineId' = [pipelineId EXCEPT ![n] = currentId] /\ currentId' = currentId + 1
    BY <1>4 DEF Tag
  <2>3. UNCHANGED <<n, accepted, resultId>> /\ pc' \in {"track", "idle"}
    BY <1>4 DEF Tag, workVars
  <2>4. \A k \in 1..Len(accepted) : k # currentId => accepted[k] # n
    BY <2>1, AcceptedInjective DEF Injective
  <2>5. resultId[n] = None
    BY <2>1
  <2>6. \A k \in 1..Len(accepted) : pipelineId'[accepted[k]] = IF k < currentId + 1 THEN k ELSE None
    BY <1>1, <2>1, <2>2, <2>4
  <2>7. \A b \in Blocks : resultId[b] \in {None, pipelineId'[b]}
    BY <2>1, <2>2, <2>5
  <2>8. \A b \in Blocks : b > n => pipelineId'[b] = None
    BY <2>1, <2>2 DEF Blocks
  <2> QED
    BY <2>1, <2>2, <2>3, <2>6, <2>7, <2>8
<1>5. CASE Track
  BY <1>5 DEF Track, workVars
<1>6. ASSUME NEW t \in Threads, Take(t) PROVE Ranks'
  BY <1>6 DEF Take, pushVars
<1>7. ASSUME NEW t \in Threads, Process(t) PROVE Ranks'
  BY SMTT(30), <1>7 DEF Process, pushVars
<1>8. CASE Front
  BY <1>8 DEF Front, pushVars, workVars
<1>9. CASE Scan
  <2>1. pc' \in {pc, "crashed"} /\ UNCHANGED <<n, accepted, currentId, pipelineId, resultId>>
    BY <1>9 DEF Scan
  <2> QED
    BY <2>1
<1>10. CASE Destroy \/ StopThread \/ StopOutput
  <2>1. /\ UNCHANGED <<n, accepted, currentId, pipelineId, resultId>>
        /\ pc \in {"idle", "stop", "stopOutput"} /\ pc' \in {"stop", "stopOutput", "gone"}
    BY <1>10 DEF Destroy, StopThread, StopOutput, workVars
  <2> QED
    BY <2>1
<1> QED
  BY <1>2, <1>3, <1>4, <1>5, <1>6, <1>7, <1>8, <1>9, <1>10 DEF Next, PushData, Collector, Destructor

\* The collector takes the first result of thread t.
Forward(t) ==
  /\ cpc = "scan" /\ t \in Threads /\ IsNext(t)
  /\ outputFifo' = [outputFifo EXCEPT ![t] = Tail(@)]
  /\ out' = Append(out, Head(outputFifo[t]))
  /\ idFifo' = IF ordered THEN Tail(idFifo) ELSE idFifo
  /\ cpc' \in {"front", "scan"} /\ (ordered => cpc' = "front")
  /\ UNCHANGED pc

\* It takes nothing.
Pass ==
  /\ cpc = "scan" /\ cpc' \in {"front", "scan"} /\ pc' \in {pc, "crashed"}
  /\ UNCHANGED <<outputFifo, out, idFifo>>

\* The collector forwards one block, or passes to the next thread.
LEMMA ScanCases ==
  ASSUME TypeOK, Scan
  PROVE  /\ Pass \/ \E t \in Threads : Forward(t)
         /\ pc # "crashed"
         /\ UNCHANGED <<ordered, copies, n, i, threadIndex, currentId, inputFifo, working, resultId,
                        noResult, pipelineId, nextId, accepted, refusedById>>
PROOF
<1> DEFINE t == CollectedThread + 1
<1>1. CASE t \notin Threads
  BY <1>1 DEF Scan, Pass, TypeOK
<1>2. CASE t \in Threads /\ IsNext(t)
  <2>1. Forward(t)
    BY <1>2 DEF Scan, Forward
  <2> QED
    BY <1>2, <2>1 DEF Scan
<1>3. CASE t \in Threads /\ ~IsNext(t)
  BY <1>3 DEF Scan, Pass
<1> QED
  BY <1>1, <1>2, <1>3

\* A result that the collector takes is a block that is still inside, and the next one if
\* the order is enforced.
LEMMA ForwardNext ==
  ASSUME IInv, NEW t \in Threads, Forward(t)
  PROVE  LET b == Head(outputFifo[t]) IN
         /\ b \in Blocks /\ InOutput(b, t)
         /\ b \in Elements(accepted) /\ b \notin Elements(out) /\ b \notin noResult
         /\ ordered => Len(out) < Len(accepted) /\ b = accepted[Len(out) + 1]
PROOF
<1> USE DEF IInv, TypeOK
<1> DEFINE b == Head(outputFifo[t])
<1>1. outputFifo[t] \in Seq(Blocks) /\ outputFifo[t] # << >>
  BY DEF Forward, IsNext
<1>2. b \in Blocks /\ InOutput(b, t)
  BY <1>1, TailRemoves DEF InOutput
<1>3. b \in Elements(accepted) /\ b \notin Elements(out) /\ b \notin noResult
  BY <1>2 DEF Accounted, Held
<1>4. ASSUME ordered PROVE Len(out) < Len(accepted) /\ b = accepted[Len(out) + 1]
  <2>1. nextId = Len(out) + 1 /\ Len(out) \in Nat
    BY <1>4 DEF Forward, NextIds, Scanning
  <2>2. IdOf(b) = nextId
    BY <1>4 DEF Forward, IsNext
  <2>3. PICK k \in 1..Len(accepted) : accepted[k] = b
    BY <1>3, ElementsAre
  <2>4. pipelineId[b] \in {None, k} /\ resultId[b] \in {None, pipelineId[b]}
    BY <1>2, <2>3 DEF Ranks
  <2>5. IdOf(b) \in {None, k}
    BY <2>4 DEF IdOf
  <2>6. k = Len(out) + 1
    BY <2>1, <2>2, <2>5 DEF None
  <2> QED
    BY <2>1, <2>3, <2>6
<1> QED
  BY <1>2, <1>3, <1>4

\* What goes out in order stays a prefix of what was accepted.
LEMMA OutIsPrefixStep ==
  ASSUME IInv, Next
  PROVE  OutIsPrefix'
PROOF
<1> USE DEF IInv, TypeOK, OutIsPrefix
<1>1. Len(accepted) \in Nat /\ Len(out) \in Nat
  OBVIOUS
<1>2. CASE Push
  BY <1>2 DEF Push, collectVars
<1>3. CASE FindThread
  <2>1. n \in Blocks /\ UNCHANGED <<ordered, out>>
    BY <1>3 DEF FindThread, Pushing, collectVars
  <2>2. CASE accepted' = Append(accepted, n)
    <3>1. /\ Len(accepted') = Len(accepted) + 1
          /\ \A k \in 1..Len(accepted) : accepted'[k] = accepted[k]
      BY <2>1, <2>2, AppendAdds
    <3> QED
      BY SMTT(30), <1>1, <2>1, <3>1
  <2>3. CASE accepted' = accepted
    BY <2>1, <2>3
  <2> QED
    BY <1>3, <2>2, <2>3 DEF FindThread
<1>4. CASE Tag \/ Track
  BY <1>4 DEF Tag, Track, collectVars
<1>5. ASSUME NEW t \in Threads, Take(t) \/ Process(t) PROVE OutIsPrefix'
  BY <1>5 DEF Take, Process, pushVars, collectVars
<1>6. CASE Front
  BY <1>6 DEF Front, pushVars
<1>7. CASE Scan
  <2>1. UNCHANGED <<ordered, accepted>>
    BY <1>7 DEF Scan
  <2>2. CASE Pass
    BY <2>1, <2>2 DEF Pass
  <2>3. ASSUME NEW t \in Threads, Forward(t) PROVE OutIsPrefix'
    <3> DEFINE b == Head(outputFifo[t])
    <3>1. b \in Blocks /\ (ordered => Len(out) < Len(accepted) /\ b = accepted[Len(out) + 1])
      BY <2>3, ForwardNext
    <3>2. out' = Append(out, b)
      BY <2>3 DEF Forward
    <3> HIDE DEF b
    <3>3. /\ Len(out') = Len(out) + 1 /\ out'[Len(out) + 1] = b
          /\ \A k \in 1..Len(out) : out'[k] = out[k]
      BY <3>1, <3>2, AppendAdds
    <3>4. ASSUME NEW k \in 1..Len(out'), ordered PROVE out'[k] = accepted[k]
      <4>1. k \in 1..Len(out) \/ k = Len(out) + 1
        BY SMTT(30), <1>1, <3>3
      <4> QED
        BY <3>1, <3>3, <3>4, <4>1
    <3>5. ordered => Len(out') =< Len(accepted)
      BY <1>1, <3>1, <3>3
    <3> QED
      BY <2>1, <3>4, <3>5
  <2> QED
    BY <1>7, <2>2, <2>3, ScanCases
<1>8. CASE Destroy \/ StopThread \/ StopOutput
  BY <1>8 DEF Destroy, StopThread, StopOutput, collectVars
<1> QED
  BY <1>2, <1>3, <1>4, <1>5, <1>6, <1>7, <1>8 DEF Next, PushData, Collector, Destructor

\* idFifo stays the list of the ranks that come next.
LEMMA NextIdsStep ==
  ASSUME IInv, Next
  PROVE  NextIds'
PROOF
<1> USE Constants DEF IInv, TypeOK
<1>1. Len(idFifo) \in Nat /\ Len(out) \in Nat
  OBVIOUS
<1>2. CASE Push
  BY <1>1, <1>2 DEF Push, NextIds, IdFifoFull, collectVars
<1>3. CASE FindThread
  BY <1>3 DEF FindThread, NextIds, collectVars
<1>4. CASE Tag
  BY <1>1, <1>4 DEF Tag, NextIds, collectVars
<1>5. CASE Track
  <2>1. ASSUME ordered PROVE NextIds'
    <3>1. UNCHANGED <<ordered, out, cpc, nextId, currentId>> /\ pc' = "idle" /\ pc = "track"
      BY <1>5 DEF Track, collectVars
    <3>2. Len(accepted) = currentId - 1 /\ Len(accepted) \in 1..Len(accepted) /\ n = accepted[Len(accepted)]
      BY <1>5 DEF Track, Ranks, Increasing
    <3>3. pipelineId[n] = currentId - 1
      BY <3>2 DEF Ranks
    <3>4. ~IdFifoFull
      BY <1>1, <2>1, <3>1 DEF IdFifoFull, NextIds
    <3>5. pipelineId[n] \in 1..MaxBlocks
      BY <3>2, <3>3
    <3>6. idFifo' = Append(idFifo, pipelineId[n])
      BY <1>5, <3>4 DEF Track
    <3>7. /\ Len(idFifo') = Len(idFifo) + 1 /\ idFifo'[Len(idFifo) + 1] = pipelineId[n]
          /\ \A k \in 1..Len(idFifo) : idFifo'[k] = idFifo[k]
      BY <3>5, <3>6, AppendAdds
    <3>8. idFifo' # << >>
      BY <1>1, <3>7
    <3>9. \A k \in 1..Len(idFifo') : idFifo'[k] = Len(out) + k
      <4>1. \A k \in 1..Len(idFifo') : k \in 1..Len(idFifo) \/ k = Len(idFifo) + 1
        BY SMTT(30), <1>1, <3>7
      <4>2. \A k \in 1..Len(idFifo) : idFifo[k] = Len(out) + k
        BY <2>1, <3>1 DEF NextIds
      <4>3. idFifo'[Len(idFifo) + 1] = Len(out) + (Len(idFifo) + 1)
        BY <1>1, <2>1, <3>1, <3>3, <3>7 DEF NextIds
      <4> HIDE DEF IInv, TypeOK
      <4> QED
        BY <3>7, <4>1, <4>2, <4>3
    <3> QED
      BY SMTT(30), <1>1, <2>1, <3>1, <3>7, <3>8, <3>9 DEF NextIds
  <2>2. ASSUME ~ordered PROVE NextIds'
    BY <1>5, <2>2 DEF Track, NextIds
  <2> QED
    BY <2>1, <2>2
<1>6. ASSUME NEW t \in Threads, Take(t) \/ Process(t) PROVE NextIds'
  BY <1>6 DEF Take, Process, pushVars, collectVars, NextIds
<1>7. CASE Front
  <2>1. ordered => Head(idFifo) = idFifo[1] /\ 1 \in 1..Len(idFifo)
    BY <1>7, TailRemoves DEF Front
  <2> QED
    BY <1>7, <2>1 DEF Front, pushVars, NextIds
<1>8. CASE Scan
  <2>1. UNCHANGED <<ordered, currentId, nextId>> /\ cpc = "scan" /\ pc # "crashed"
    BY <1>8 DEF Scan
  <2>2. CASE Pass
    BY <2>1, <2>2 DEF Pass, NextIds, Scanning
  <2>3. ASSUME NEW t \in Threads, Forward(t), ordered PROVE NextIds'
    <3>1. pc # "gone" /\ idFifo # << >>
      BY <2>1, <2>3 DEF Scanning, NextIds
    <3>2. /\ Len(idFifo) \in Nat \ {0} /\ Len(Tail(idFifo)) = Len(idFifo) - 1
          /\ \A k \in 1..Len(idFifo) - 1 : Tail(idFifo)[k] = idFifo[k + 1]
      BY <3>1, TailRemoves
    <3>3. Len(out') = Len(out) + 1
      BY <2>3, ForwardNext, AppendAdds DEF Forward
    <3>4. idFifo' = Tail(idFifo) /\ pc' = pc /\ cpc' = "front"
      BY <2>3 DEF Forward
    <3>5. \A k \in 1..Len(idFifo') : idFifo'[k] = Len(out') + k
      BY <1>1, <2>3, <3>1, <3>2, <3>3, <3>4 DEF NextIds
    <3> QED
      BY <1>1, <2>1, <2>3, <3>1, <3>2, <3>3, <3>4, <3>5 DEF NextIds
  <2>4. CASE ~ordered
    BY <2>1, <2>4 DEF NextIds
  <2> QED
    BY <1>8, <2>2, <2>3, <2>4, ScanCases
<1>9. CASE Destroy \/ StopThread \/ StopOutput
  BY <1>9 DEF Destroy, StopThread, StopOutput, collectVars, NextIds
<1> QED
  BY <1>2, <1>3, <1>4, <1>5, <1>6, <1>7, <1>8, <1>9 DEF Next, PushData, Collector, Destructor

-----------------------------------------------------------------------------
(* The places of the blocks *)

\* A new block is in an input FIFO.
LEMMA FindPlace ==
  ASSUME IInv, FindThread
  PROVE  Fifos' /\ OnePlace' /\ Accounted'
PROOF
<1> DEFINE t == ((threadIndex + 1) % NumberOfThreads) + 1
<1>1. t \in Threads /\ n \in Blocks /\ inputFifo[t] \in Seq(Blocks)
  <2>1. t \in Threads
    <3>1. threadIndex \in 0..NumberOfThreads - 1
      BY DEF IInv, TypeOK
    <3> QED
      BY <3>1, Constants DEF Threads
  <2> QED
    BY <2>1 DEF FindThread, Pushing, IInv, TypeOK
<1>2. UNCHANGED <<working, outputFifo, out, noResult>> /\ pc = "find" /\ pc' # "gone"
  BY DEF FindThread, collectVars
<1> HIDE DEF t
<1>3. CASE Len(inputFifo[t]) < FifoSize
  <2>1. inputFifo' = [inputFifo EXCEPT ![t] = Append(inputFifo[t], n)] /\ accepted' = Append(accepted, n)
    BY <1>3 DEF FindThread, t
  <2>2. n \notin Elements(accepted)
    <3>1. \A k \in 1..Len(accepted) : accepted[k] # n
      <4>1. \A k \in 1..Len(accepted) : accepted[k] \in Blocks
        BY SeqElement DEF IInv, TypeOK
      <4> QED
        BY <1>1, <1>2, <4>1 DEF IInv, Increasing, Blocks
    <3> QED
      BY <3>1, ElementsAre DEF IInv, TypeOK
  <2>3. \A u \in Threads : ~Held(n, u)
    BY <1>1, <2>2 DEF IInv, Accounted
  <2>4. Elements(accepted') = Elements(accepted) \cup {n}
    BY <1>1, <2>1, AppendAdds DEF IInv, TypeOK
  <2>5. n \notin Elements(inputFifo[t])
    BY <1>1, <2>3 DEF Held, InInput
  <2>6. /\ Elements(inputFifo'[t]) = Elements(inputFifo[t]) \cup {n}
        /\ Injective(inputFifo'[t])
        /\ \A u \in Threads : u # t => inputFifo'[u] = inputFifo[u]
    <3>1. inputFifo'[t] = Append(inputFifo[t], n) /\ \A u \in Threads : u # t => inputFifo'[u] = inputFifo[u]
      BY <1>1, <2>1 DEF IInv, TypeOK
    <3> QED
      BY <1>1, <2>5, <3>1, AppendAdds DEF IInv, Fifos
  <2>7. Fifos'
    BY <1>2, <2>6 DEF IInv, Fifos, Injective
  <2>8. \A b \in Blocks : \A u \in Threads :
          /\ b \in Elements(inputFifo'[u]) <=> (InInput(b, u) \/ (b = n /\ u = t))
    BY <1>1, <2>6 DEF InInput
  <2>9. OnePlace'
    BY <1>1, <1>2, <2>3, <2>8 DEF IInv, OnePlace, Held, InInput, InWork, InOutput
  <2>10. n \notin Elements(out) /\ n \notin noResult
    BY <1>1, <2>2 DEF IInv, Accounted
  <2>11. Accounted'
    BY <1>1, <1>2, <2>4, <2>8, <2>10 DEF IInv, Accounted, Held, InInput, InWork, InOutput
  <2> QED
    BY <2>7, <2>9, <2>11
<1>4. CASE ~(Len(inputFifo[t]) < FifoSize)
  <2>1. UNCHANGED <<inputFifo, accepted>>
    BY <1>4 DEF FindThread, t
  <2> QED
    BY <1>2, <2>1 DEF IInv, Fifos, Injective, OnePlace, Accounted, Held, InInput, InWork, InOutput
<1> QED
  BY <1>3, <1>4

\* It moves from the FIFO to the thread.
LEMMA TakePlace ==
  ASSUME IInv, NEW t \in Threads, Take(t)
  PROVE  Fifos' /\ OnePlace' /\ Accounted'
PROOF
<1> DEFINE h == Head(inputFifo[t])
<1>1. UNCHANGED <<pc, outputFifo, out, noResult, accepted>>
  BY DEF Take, pushVars, collectVars
<1>2. inputFifo[t] \in Seq(Blocks) /\ inputFifo[t] # << >> /\ Injective(inputFifo[t])
  BY DEF Take, IInv, TypeOK, Fifos
<1>3. /\ h \in Blocks /\ h \in Elements(inputFifo[t]) /\ Injective(Tail(inputFifo[t]))
      /\ Elements(Tail(inputFifo[t])) = Elements(inputFifo[t]) \ {h}
  BY <1>2, TailRemoves
<1>4. /\ inputFifo'[t] = Tail(inputFifo[t]) /\ working'[t] = h /\ working[t] = None
      /\ Len(outputFifo[t]) < FifoSize
      /\ \A u \in Threads : u # t => inputFifo'[u] = inputFifo[u] /\ working'[u] = working[u]
  BY DEF Take, OutputHasRoom, IInv, TypeOK
<1> HIDE DEF h
<1>5. \A b \in Blocks : \A u \in Threads :
        /\ b \in Elements(inputFifo'[u]) <=> (InInput(b, u) /\ ~(b = h /\ u = t))
        /\ working'[u] = b <=> (InWork(b, u) \/ (b = h /\ u = t))
  BY <1>3, <1>4 DEF InInput, InWork, Blocks, None
<1>6. Fifos'
  BY <1>1, <1>3, <1>4 DEF IInv, Fifos, Injective
<1>7. InInput(h, t)
  BY <1>3 DEF InInput
<1>8. OnePlace'
  BY <1>1, <1>3, <1>5, <1>7 DEF IInv, OnePlace, Held, InInput, InWork, InOutput
<1>9. Accounted'
  BY <1>1, <1>3, <1>5, <1>7 DEF IInv, Accounted, Held, InInput, InWork, InOutput
<1> QED
  BY <1>6, <1>8, <1>9

\* It is in the output FIFO, or has no result.
LEMMA ProcessPlace ==
  ASSUME IInv, NEW t \in Threads, Process(t)
  PROVE  Fifos' /\ OnePlace' /\ Accounted'
PROOF
<1> DEFINE w == working[t]
<1>1. UNCHANGED <<pc, inputFifo, out, accepted>>
  BY DEF Process, pushVars, collectVars
<1>2. w \in Blocks /\ w # None /\ outputFifo[t] \in Seq(Blocks) /\ Len(outputFifo[t]) < FifoSize
  BY DEF Process, IInv, TypeOK, Fifos
<1>3. InWork(w, t)
  BY DEF InWork
<1>4. ~InOutput(w, t) /\ w \in Elements(accepted) /\ w \notin Elements(out) /\ w \notin noResult
  BY <1>2, <1>3 DEF IInv, OnePlace, Accounted, Held
<1>5. working'[t] = None /\ \A u \in Threads : u # t => working'[u] = working[u]
  BY DEF Process, IInv, TypeOK
<1> HIDE DEF w
<1>6. \A b \in Blocks : \A u \in Threads : working'[u] = b <=> (InWork(b, u) /\ ~(b = w /\ u = t))
  BY <1>2, <1>5 DEF InWork, Blocks, None, w
<1>7. CASE outputFifo' = [outputFifo EXCEPT ![t] = Append(outputFifo[t], w)] /\ UNCHANGED noResult
  <2>1. outputFifo'[t] = Append(outputFifo[t], w) /\ \A u \in Threads : u # t => outputFifo'[u] = outputFifo[u]
    BY <1>7 DEF IInv, TypeOK
  <2>2. Injective(outputFifo[t]) /\ w \notin Elements(outputFifo[t])
    BY <1>4 DEF IInv, Fifos, InOutput
  <2>3. Injective(outputFifo'[t]) /\ Elements(outputFifo'[t]) = Elements(outputFifo[t]) \cup {w}
    BY <1>2, <2>1, <2>2, AppendAdds
  <2>4. \A b \in Blocks : \A u \in Threads :
          b \in Elements(outputFifo'[u]) <=> (InOutput(b, u) \/ (b = w /\ u = t))
    BY <2>1, <2>3 DEF InOutput
  <2>5. Fifos'
    BY <1>1, <1>5, <2>1, <2>3 DEF IInv, Fifos, Injective
  <2>6. OnePlace'
    BY <1>1, <1>2, <1>3, <1>6, <2>4 DEF IInv, OnePlace, Held, InInput, InWork, InOutput
  <2>7. Accounted'
    BY <1>1, <1>2, <1>3, <1>4, <1>6, <1>7, <2>4 DEF IInv, Accounted, Held, InInput, InWork, InOutput
  <2> QED
    BY <2>5, <2>6, <2>7
<1>8. CASE noResult' = noResult \cup {w} /\ UNCHANGED outputFifo
  <2>1. Fifos'
    BY <1>1, <1>5, <1>8 DEF IInv, Fifos, Injective
  <2>2. OnePlace'
    BY <1>1, <1>2, <1>3, <1>6, <1>8 DEF IInv, OnePlace, Held, InInput, InWork, InOutput
  <2>3. \A u \in Threads : Held(w, u) => u = t
    BY <1>2, <1>3 DEF IInv, OnePlace, Held
  <2>4. ~InInput(w, t) /\ ~InOutput(w, t)
    BY <1>2, <1>3 DEF IInv, OnePlace
  <2>5. Accounted'
    BY <1>1, <1>2, <1>3, <1>4, <1>6, <1>8, <2>3, <2>4
    DEF IInv, Accounted, Held, InInput, InWork, InOutput
  <2> QED
    BY <2>1, <2>2, <2>5
<1> QED
  BY <1>2, <1>7, <1>8 DEF Process, w

\* It is forwarded.
LEMMA ForwardPlace ==
  ASSUME IInv, Scan, NEW t \in Threads, Forward(t)
  PROVE  Fifos' /\ OnePlace' /\ Accounted'
PROOF
<1> DEFINE h == Head(outputFifo[t])
<1>1. UNCHANGED <<pc, inputFifo, working, noResult, accepted>>
  BY DEF Scan, Forward
<1>2. /\ h \in Blocks /\ InOutput(h, t)
      /\ h \in Elements(accepted) /\ h \notin Elements(out) /\ h \notin noResult
  BY ForwardNext
<1>3. outputFifo[t] \in Seq(Blocks) /\ outputFifo[t] # << >> /\ Injective(outputFifo[t])
  BY DEF Forward, IsNext, IInv, TypeOK, Fifos
<1>4. /\ Injective(Tail(outputFifo[t])) /\ Elements(Tail(outputFifo[t])) = Elements(outputFifo[t]) \ {h}
      /\ Len(outputFifo[t]) \in Nat /\ Len(Tail(outputFifo[t])) = Len(outputFifo[t]) - 1
  BY <1>3, TailRemoves
<1>5. /\ outputFifo'[t] = Tail(outputFifo[t])
      /\ \A u \in Threads : u # t => outputFifo'[u] = outputFifo[u]
  BY DEF Forward, IInv, TypeOK
<1>6. out' = Append(out, h) /\ out \in Seq(Blocks)
  BY DEF Forward, IInv, TypeOK
<1> HIDE DEF h
<1>7. Elements(out') = Elements(out) \cup {h}
  BY <1>2, <1>6, AppendAdds
<1>8. \A b \in Blocks : \A u \in Threads :
        b \in Elements(outputFifo'[u]) <=> (InOutput(b, u) /\ ~(b = h /\ u = t))
  BY <1>4, <1>5 DEF InOutput
<1>9. Fifos'
  <2>1. \A u \in Threads : Injective(inputFifo'[u]) /\ Injective(outputFifo'[u])
    BY <1>1, <1>4, <1>5 DEF IInv, Fifos
  <2>2. \A u \in Threads : working'[u] # None => Len(outputFifo'[u]) < FifoSize
    <3>1. Len(outputFifo[t]) < FifoSize => Len(outputFifo'[t]) < FifoSize
      BY <1>4, <1>5, Constants
    <3> QED
      BY <1>1, <1>5, <3>1 DEF IInv, Fifos
  <2> QED
    BY <2>1, <2>2 DEF Fifos, Injective
<1>10. OnePlace'
  BY <1>1, <1>2, <1>8 DEF IInv, OnePlace, Held, InInput, InWork, InOutput
<1>11. \A u \in Threads : Held(h, u) => u = t
  BY <1>2 DEF IInv, OnePlace, Held
<1>12. ~InInput(h, t) /\ ~InWork(h, t)
  BY <1>2 DEF IInv, OnePlace
<1>13. Accounted'
  BY <1>1, <1>2, <1>7, <1>8, <1>11, <1>12 DEF IInv, Accounted, Held, InInput, InWork, InOutput
<1> QED
  BY <1>9, <1>10, <1>13

\* Every step moves a block from one place to the next, or none.
LEMMA PlaceStep ==
  ASSUME IInv, Next
  PROVE  Fifos' /\ OnePlace' /\ Accounted'
PROOF
<1>1. ASSUME UNCHANGED <<inputFifo, working, outputFifo, accepted, out, noResult>>,
             pc' # "gone" => pc # "gone"
      PROVE  Fifos' /\ OnePlace' /\ Accounted'
  BY <1>1 DEF IInv, Fifos, Injective, OnePlace, Accounted, Held, InInput, InWork, InOutput
<1>2. CASE Push \/ Tag \/ Track \/ Front \/ Destroy \/ StopThread
  BY <1>1, <1>2 DEF Push, Tag, Track, Front, Destroy, StopThread, workVars, collectVars, pushVars
<1>3. CASE Scan
  <2>1. CASE Pass
    <3>1. pc' # "gone" => pc # "gone"
      BY <1>3, <2>1 DEF Pass, IInv, Scanning
    <3> QED
      BY <1>1, <1>3, <2>1, <3>1 DEF Pass, Scan
  <2> QED
    BY <1>3, <2>1, ForwardPlace, ScanCases DEF IInv
<1>4. CASE StopOutput
  <2>1. /\ \A t \in Threads : inputFifo'[t] = << >> /\ outputFifo'[t] = << >>
        /\ UNCHANGED <<working, out, accepted, noResult>> /\ pc' = "gone"
    BY <1>4 DEF StopOutput
  <2>2. Elements(<< >>) = {} /\ Injective(<< >>) /\ Len(<< >>) = 0
    BY DEF Elements, Injective
  <2>3. Fifos'
    BY <2>1, <2>2, Constants DEF Fifos, Injective
  <2>4. OnePlace'
    BY <2>1, <2>2 DEF IInv, OnePlace, Held, InInput, InWork, InOutput
  <2>5. Accounted'
    BY <2>1, <2>2 DEF IInv, Accounted, Held, InInput, InWork, InOutput
  <2> QED
    BY <2>3, <2>4, <2>5
<1> QED
  BY <1>2, <1>3, <1>4, FindPlace, TakePlace, ProcessPlace DEF Next, PushData, Collector, Destructor

-----------------------------------------------------------------------------
(* The size of idFifo *)

\* A thread is 2 * FifoSize slots: its input FIFO, its output FIFO, and the block that it
\* works on in the last slot of the output FIFO.
Fills(b, t, k) ==
  \/ k \in 1..Len(inputFifo[t]) /\ inputFifo[t][k] = b
  \/ k > FifoSize /\ k - FifoSize \in 1..Len(outputFifo[t]) /\ outputFifo[t][k - FifoSize] = b
  \/ k = 2 * FifoSize /\ working[t] = b

\* A block that a thread holds takes one of the 2 * FifoSize slots of the thread,
LEMMA SlotOfBlock ==
  ASSUME IInv, NEW t \in Threads, NEW b \in Blocks, Held(b, t)
  PROVE  \E k \in 1..2 * FifoSize : Fills(b, t, k)
PROOF
<1> USE Constants
<1>1. /\ inputFifo[t] \in Seq(Blocks) /\ outputFifo[t] \in Seq(Blocks)
      /\ Len(inputFifo[t]) \in Nat /\ Len(outputFifo[t]) \in Nat
      /\ Len(inputFifo[t]) =< FifoSize /\ Len(outputFifo[t]) =< FifoSize
  BY DEF IInv, TypeOK
<1>2. CASE InInput(b, t)
  <2>1. PICK k \in 1..Len(inputFifo[t]) : inputFifo[t][k] = b
    BY <1>1, <1>2, ElementsAre DEF InInput
  <2>2. k \in 1..2 * FifoSize
    BY <1>1
  <2> QED
    BY <2>1, <2>2 DEF Fills
<1>3. CASE InWork(b, t)
  <2>1. 2 * FifoSize \in 1..2 * FifoSize
    OBVIOUS
  <2> QED
    BY <1>3, <2>1 DEF InWork, Fills
<1>4. CASE InOutput(b, t)
  <2>1. PICK k \in 1..Len(outputFifo[t]) : outputFifo[t][k] = b
    BY <1>1, <1>4, ElementsAre DEF InOutput
  <2>2. k + FifoSize \in 1..2 * FifoSize /\ k + FifoSize > FifoSize /\ (k + FifoSize) - FifoSize = k
    BY <1>1
  <2> QED
    BY <2>1, <2>2 DEF Fills
<1> QED
  BY <1>2, <1>3, <1>4 DEF Held

\* and no two blocks take the same one.
LEMMA BlockOfSlot ==
  ASSUME IInv, NEW t \in Threads, NEW b \in Blocks, NEW c \in Blocks, NEW k \in 1..2 * FifoSize,
         Fills(b, t, k), Fills(c, t, k)
  PROVE  b = c
PROOF
<1> USE Constants
<1>1. /\ Len(inputFifo[t]) \in Nat /\ Len(outputFifo[t]) \in Nat
      /\ Len(inputFifo[t]) =< FifoSize /\ Len(outputFifo[t]) =< FifoSize
  BY DEF IInv, TypeOK
<1>2. b # None /\ c # None
  BY DEF Blocks, None
<1>3. working[t] # None => Len(outputFifo[t]) < FifoSize
  BY DEF IInv, Fifos
<1> QED
  BY <1>1, <1>2, <1>3 DEF Fills

\* There are m numbers from 1 to m.
LEMMA IntervalSize ==
  ASSUME NEW m \in Nat \ {0}
  PROVE  IsFiniteSet(1..m) /\ Cardinality(1..m) = m
PROOF
<1>1. 1 \in Int /\ m \in Int
  OBVIOUS
<1>2. IsFiniteSet(1..m) /\ Cardinality(1..m) = IF 1 > m THEN 0 ELSE m - 1 + 1
  BY <1>1, FS_Interval, Zenon
<1> QED
  BY <1>2

\* With all results there, each id in idFifo is that of a block in a slot: the ids do not
\* fill idFifo before the blocks fill the threads.
LEMMA IdsFit ==
  ASSUME IInv, ordered, pc # "gone", noResult = {}, IdFifoFull
  PROVE  \A t \in Threads : ~(Len(inputFifo[t]) < FifoSize)
PROOF
<1> SUFFICES ASSUME NEW t \in Threads, Len(inputFifo[t]) < FifoSize
             PROVE  FALSE
  OBVIOUS
<1> USE Constants
<1> DEFINE Ids == 1..IdFifoSize
           Slots == (Threads \X (1..2 * FifoSize)) \ {<<t, FifoSize>>}
           Block(m) == accepted[Len(out) + m]
           slot == [m \in Ids |-> CHOOSE s \in Slots : Fills(Block(m), s[1], s[2])]
<1>1. Len(out) \in Nat /\ Len(accepted) \in Nat /\ Len(out) + IdFifoSize =< Len(accepted)
  <2>1. Len(idFifo) = IdFifoSize
    BY DEF IInv, TypeOK, IdFifoFull
  <2>2. Len(out) \in Nat /\ Len(accepted) \in Nat /\ currentId \in Nat
    BY DEF IInv, TypeOK
  <2>3. Len(out) + Len(idFifo) =< currentId - 1
    BY DEF IInv, NextIds
  <2>4. currentId - 1 =< Len(accepted)
    BY DEF IInv, Ranks
  <2> QED
    BY <2>1, <2>2, <2>3, <2>4
<1>2. \A m \in Ids : Len(out) + m \in 1..Len(accepted)
  BY <1>1
<1>3. \A m \in Ids : Block(m) \in Blocks /\ Block(m) \in Elements(accepted)
  <2>1. accepted \in Seq(Blocks)
    BY DEF IInv, TypeOK
  <2> QED
    BY <1>2, <2>1, ElementsAre, SeqElement
<1>4. \A m \in Ids : Block(m) \notin Elements(out)
  <2>1. SUFFICES ASSUME NEW m \in Ids, Block(m) \in Elements(out)
                 PROVE  FALSE
    BY <2>1
  <2>2. PICK k \in 1..Len(out) : out[k] = Block(m)
    BY <2>1, ElementsAre DEF IInv, TypeOK
  <2>3. accepted[k] = accepted[Len(out) + m] /\ k \in 1..Len(accepted)
    BY <1>1, <2>2 DEF IInv, OutIsPrefix
  <2>4. k = Len(out) + m
    BY <1>2, <2>3, AcceptedInjective DEF Injective
  <2> QED
    BY <1>1, <2>4
<1>5. ASSUME NEW m \in Ids
      PROVE  \E s \in Slots : Fills(Block(m), s[1], s[2])
  <2>1. PICK u \in Threads : Held(Block(m), u)
    BY <1>3, <1>4 DEF IInv, Accounted
  <2>2. PICK k \in 1..2 * FifoSize : Fills(Block(m), u, k)
    BY <1>3, <2>1, SlotOfBlock
  <2>3. ~(u = t /\ k = FifoSize)
    <3>1. SUFFICES ASSUME u = t, k = FifoSize
                   PROVE  FALSE
      OBVIOUS
    <3>2. Len(inputFifo[t]) \in Nat
      BY DEF IInv, TypeOK
    <3> HIDE DEF Block
    <3> QED
      BY <2>2, <3>1, <3>2 DEF Fills
  <2>4. <<u, k>> \in Slots
    BY <2>3
  <2> QED
    BY <2>2, <2>4
<1> HIDE DEF Block
<1>6. slot \in [Ids -> Slots] /\ \A m \in Ids : Fills(Block(m), slot[m][1], slot[m][2])
  BY <1>5
<1>7. IsFiniteSet(Ids) /\ Cardinality(Ids) = IdFifoSize
  BY IntervalSize
<1>8. IsFiniteSet(Slots) /\ Cardinality(Slots) = IdFifoSize - 1
  <2>1. IsFiniteSet(Threads) /\ Cardinality(Threads) = NumberOfThreads
    BY IntervalSize DEF Threads
  <2>2. IsFiniteSet(1..2 * FifoSize) /\ Cardinality(1..2 * FifoSize) = 2 * FifoSize
    <3>1. 2 * FifoSize \in Nat \ {0}
      OBVIOUS
    <3> QED
      BY <3>1, IntervalSize
  <2>3. /\ IsFiniteSet(Threads \X (1..2 * FifoSize))
        /\ Cardinality(Threads \X (1..2 * FifoSize)) = NumberOfThreads * (2 * FifoSize)
    BY <2>1, <2>2, FS_Product
  <2>4. NumberOfThreads * (2 * FifoSize) = IdFifoSize
    BY DEF IdFifoSize
  <2>5. <<t, FifoSize>> \in Threads \X (1..2 * FifoSize)
    OBVIOUS
  <2>6. /\ IsFiniteSet(Slots)
        /\ Cardinality(Slots) = IF <<t, FifoSize>> \in Threads \X (1..2 * FifoSize)
                                THEN Cardinality(Threads \X (1..2 * FifoSize)) - 1
                                ELSE Cardinality(Threads \X (1..2 * FifoSize))
    BY <2>3, FS_RemoveElement, Zenon
  <2> QED
    BY <2>3, <2>4, <2>5, <2>6
<1> HIDE DEF slot, Slots, Ids
<1>9. PICK l \in Ids, m \in Ids : l # m /\ slot[l] = slot[m]
  <2>1. Cardinality(Slots) < Cardinality(Ids)
    BY <1>7, <1>8
  <2> QED
    BY <1>6, <1>7, <1>8, <2>1, FS_PigeonHole
<1>10. Block(l) = Block(m)
  <2>1. slot[l] \in Threads \X (1..2 * FifoSize)
    BY <1>6 DEF Slots
  <2>2. slot[l][1] \in Threads /\ slot[l][2] \in 1..2 * FifoSize
    BY <2>1
  <2> QED
    BY <1>3, <1>6, <1>9, <2>2, BlockOfSlot
<1>11. Len(out) + l = Len(out) + m
  BY <1>2, <1>10, AcceptedInjective DEF Injective, Block
<1> QED
  BY <1>1, <1>9, <1>11 DEF Ids

\* An id is refused by idFifo only when a block got no result.
LEMMA TrackingStep ==
  ASSUME IInv, Next
  PROVE  TrackingIsEnough'
PROOF
<1> USE DEF TrackingIsEnough
<1>1. CASE Push
  <2>1. SUFFICES ASSUME noResult = {}, refusedById' # refusedById
                 PROVE  FALSE
    BY <1>1 DEF IInv, Push, workVars
  <2>2. ordered /\ IdFifoFull /\ pc = "idle"
    BY <1>1, <2>1 DEF Push
  <2>3. refusedById' = (refusedById \/ \E t \in Threads : Len(inputFifo[t]) < FifoSize)
    BY <1>1, <2>2 DEF Push
  <2>4. \A t \in Threads : ~(Len(inputFifo[t]) < FifoSize)
    BY <2>1, <2>2, IdsFit
  <2>5. refusedById' = (refusedById \/ FALSE)
    BY <2>3, <2>4, Zenon
  <2>6. refusedById \in BOOLEAN
    BY DEF IInv, TypeOK
  <2> QED
    BY <2>1, <2>5, <2>6, Zenon
<1>2. ASSUME NEW t \in Threads, Process(t) PROVE TrackingIsEnough'
  BY <1>2 DEF Process, IInv
<1>3. CASE UNCHANGED <<refusedById, noResult>>
  BY <1>3 DEF IInv
<1> QED
  BY <1>1, <1>2, <1>3
  DEF Next, PushData, Collector, Destructor, FindThread, Tag, Track, Take, Front, Scan, Destroy,
      StopThread, StopOutput, workVars

-----------------------------------------------------------------------------
(* The theorems *)

\* Nothing is in the processor at the start.
LEMMA Initially ==
  ASSUME Init
  PROVE  IInv
PROOF
<1> USE Constants DEF Init
<1>1. TypeOK
  <2>1. refusedById \in BOOLEAN
    BY Zenon
  <2>2. ordered \in BOOLEAN /\ copies \in BOOLEAN
    BY ProcessorAssumption
  <2> QED
    BY <2>1, <2>2 DEF TypeOK, None, Threads, Blocks
<1>2. Pushing /\ Increasing /\ Scanning /\ NextIds /\ OutIsPrefix
  BY DEF Pushing, Increasing, Scanning, NextIds, OutIsPrefix
<1>3. Ranks
  BY DEF Ranks
<1>4. Elements(<< >>) = {} /\ Injective(<< >>)
  BY DEF Elements, Injective
<1>5. Fifos /\ OnePlace /\ Accounted
  <2>1. \A b \in Blocks : \A t \in Threads : ~Held(b, t)
    BY <1>4 DEF Held, InInput, InWork, InOutput, None, Blocks
  <2> QED
    BY <1>4, <2>1 DEF Fifos, OnePlace, Accounted, Held
<1>6. TrackingIsEnough
  BY DEF TrackingIsEnough
<1> QED
  BY <1>1, <1>2, <1>3, <1>5, <1>6 DEF IInv

\* A step of something else changes nothing.
LEMMA Stuttering ==
  ASSUME IInv, UNCHANGED vars
  PROVE  IInv'
PROOF
<1> USE DEF vars, pushVars, workVars, collectVars, IInv
<1>1. TypeOK'
  BY DEF TypeOK
<1>2. Pushing' /\ Increasing' /\ Ranks' /\ NextIds' /\ OutIsPrefix' /\ Scanning' /\ TrackingIsEnough'
  BY DEF Pushing, Increasing, Ranks, NextIds, OutIsPrefix, Scanning, TrackingIsEnough
<1>3. Fifos' /\ OnePlace' /\ Accounted'
  BY DEF Fifos, Injective, OnePlace, Accounted, Held, InInput, InWork, InOutput
<1> QED
  BY <1>1, <1>2, <1>3

\* The invariant of the processor, for every number of threads, size of the FIFOs and
\* failure of processBlock().
THEOREM Invariance == Spec => []IInv
PROOF
<1>1. Init => IInv
  BY Initially
<1>2. IInv /\ [Next]_vars => IInv'
  BY Stuttering, TypeStep, PushingStep, IncreasingStep, RanksStep, NextIdsStep, OutIsPrefixStep,
     PlaceStep, TrackingStep DEF IInv
<1> QED
  BY <1>1, <1>2, PTL DEF Spec

\* A block that pushData() took is in one place, and idFifo, whose size is twice that of all
\* the input FIFOs, is never the reason to drop a block that a thread has room for.
THEOREM BlocksKept == Spec => []BlocksTracked
PROOF
<1>1. IInv => BlocksTracked
  <2> SUFFICES ASSUME IInv
               PROVE  BlocksTracked
    OBVIOUS
  <2>1. ASSUME pc # "gone", NEW b \in Elements(accepted)
        PROVE  Cardinality({p \in Threads \X (1 .. 3) : b \in Places(p[1])[p[2]]})
                 + (IF b \in Elements(out) THEN 1 ELSE 0) + (IF b \in noResult THEN 1 ELSE 0) = 1
    <3> DEFINE P == {p \in Threads \X (1 .. 3) : b \in Places(p[1])[p[2]]}
               In(t, k) == b \in Places(t)[k]
    <3>1. b \in Blocks /\ b # None
      <4>1. b \in Blocks
        BY ElementsTyped DEF IInv, TypeOK
      <4> QED
        BY <4>1 DEF Blocks, None
    <3>2. ASSUME NEW t \in Threads
          PROVE  /\ In(t, 1) <=> InInput(b, t)
                 /\ In(t, 2) <=> InWork(b, t)
                 /\ In(t, 3) <=> InOutput(b, t)
      BY <3>1 DEF Places, InInput, InWork, InOutput
    <3>3. P = {p \in Threads \X (1 .. 3) : In(p[1], p[2])}
      OBVIOUS
    <3>4. \A k \in 1 .. 3 : k = 1 \/ k = 2 \/ k = 3
      OBVIOUS
    <3> HIDE DEF In, P
    <3>5. CASE \A t \in Threads : ~Held(b, t)
      <4>1. \A t \in Threads : \A k \in 1 .. 3 : ~In(t, k)
        BY <3>2, <3>4, <3>5 DEF Held
      <4>2. P = {}
        BY <3>3, <4>1
      <4>3. Cardinality(P) = 0
        BY <4>2, FS_EmptySet
      <4>4. b \in Elements(out) <=> b \notin noResult
        BY <2>1, <3>1, <3>5 DEF IInv, Accounted
      <4> QED
        BY <4>3, <4>4 DEF P
    <3>6. ASSUME NEW t \in Threads, Held(b, t)
          PROVE  Cardinality(P) = 1 /\ b \notin Elements(out) /\ b \notin noResult
      <4>1. \A u \in Threads : Held(b, u) => u = t
        BY <3>1, <3>6 DEF IInv, OnePlace
      <4>2. PICK k \in 1 .. 3 : In(t, k) /\ \A j \in 1 .. 3 : In(t, j) => j = k
        <5>1. \/ InInput(b, t) /\ ~InWork(b, t) /\ ~InOutput(b, t)
              \/ InWork(b, t) /\ ~InInput(b, t) /\ ~InOutput(b, t)
              \/ InOutput(b, t) /\ ~InInput(b, t) /\ ~InWork(b, t)
          BY <3>1, <3>6 DEF IInv, OnePlace, Held
        <5>2. \/ In(t, 1) /\ ~In(t, 2) /\ ~In(t, 3)
              \/ In(t, 2) /\ ~In(t, 1) /\ ~In(t, 3)
              \/ In(t, 3) /\ ~In(t, 1) /\ ~In(t, 2)
          BY <3>2, <5>1
        <5> QED
          BY <3>4, <5>2
      <4>3. \A u \in Threads : \A j \in 1 .. 3 : In(u, j) => u = t /\ j = k
        BY <3>2, <3>4, <4>1, <4>2 DEF Held
      <4>4. P = {<<t, k>>}
        BY <3>3, <4>2, <4>3
      <4>5. Cardinality(P) = 1
        BY <4>4, FS_Singleton
      <4> QED
        BY <3>1, <3>6, <4>5 DEF IInv, Accounted
    <3> QED
      BY <3>5, <3>6 DEF P
  <2>2. BlocksAccounted
    BY <2>1 DEF BlocksAccounted, IInv
  <2> QED
    BY <2>2 DEF BlocksTracked, IInv
<1> QED
  BY <1>1, Invariance, PTL

\* One step of the processor is a step of the pipe, or none.
LEMMA PipeStep ==
  ASSUME IInv, [Next]_vars
  PROVE  [Pipe!Step]_(Pipe!pipe)
PROOF
<1>1. CASE FindThread
  <2>1. n \in Blocks /\ UNCHANGED <<ordered, out>>
    BY <1>1 DEF FindThread, IInv, Pushing, collectVars
  <2>2. CASE accepted' = Append(accepted, n)
    <3>1. n \notin Pipe!Elements(accepted)
      <4>1. \A k \in 1..Len(accepted) : accepted[k] \in Blocks
        BY SeqElement DEF IInv, TypeOK
      <4>2. \A k \in 1..Len(accepted) : accepted[k] # n
        BY <1>1, <2>1, <4>1 DEF FindThread, IInv, Increasing, Blocks
      <4>3. n \notin Elements(accepted)
        BY <4>2, ElementsAre DEF IInv, TypeOK
      <4> QED
        BY <4>3 DEF Pipe!Elements, Elements
    <3> QED
      BY <2>1, <2>2, <3>1 DEF Pipe!Step, Pipe!Accept
  <2>3. CASE accepted' = accepted
    BY <2>1, <2>3 DEF Pipe!pipe
  <2> QED
    BY <1>1, <2>2, <2>3 DEF FindThread
<1>2. CASE Scan
  <2>1. UNCHANGED <<ordered, accepted>>
    BY <1>2 DEF Scan
  <2>2. CASE Pass
    BY <2>1, <2>2 DEF Pass, Pipe!pipe
  <2>3. ASSUME NEW t \in Threads, Forward(t) PROVE Pipe!Step
    <3> DEFINE b == Head(outputFifo[t])
    <3>1. /\ b \in Blocks /\ b \in Elements(accepted) /\ b \notin Elements(out)
          /\ ordered => b = accepted[Len(out) + 1]
      BY <2>3, ForwardNext
    <3>2. out' = Append(out, b)
      BY <2>3 DEF Forward
    <3>3. b \in Pipe!Elements(accepted) /\ b \notin Pipe!Elements(out)
      BY <3>1 DEF Elements, Pipe!Elements
    <3> QED
      BY <2>1, <3>1, <3>2, <3>3 DEF Pipe!Step, Pipe!Deliver
  <2> QED
    BY <1>2, <2>2, <2>3, ScanCases DEF IInv
<1>3. CASE UNCHANGED <<ordered, accepted, out>>
  BY <1>3 DEF Pipe!pipe
<1> QED
  BY <1>1, <1>2, <1>3
  DEF Next, PushData, Collector, Destructor, Push, Tag, Track, Take, Process, Front, Destroy,
      StopThread, StopOutput, collectVars, vars

\* The processor implements the ordered pipe: no block goes out twice, none that was not
\* accepted, and in the order of arrival if ensurePageOrder is set, though the threads run
\* at any speed and a block may be processed before it is tagged.
THEOREM ImplementsPipe == Spec => KeepsOrder
PROOF
<1>1. Init => Pipe!Start
  BY ProcessorAssumption DEF Init, Pipe!Start
<1>2. IInv /\ [Next]_vars => [Pipe!Step]_(Pipe!pipe)
  BY PipeStep
<1> QED
  BY <1>1, <1>2, Invariance, PTL DEF Spec, KeepsOrder, Pipe!PipeSpec
=============================================================================
