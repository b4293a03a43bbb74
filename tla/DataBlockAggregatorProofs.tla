---------------------- MODULE DataBlockAggregatorProofs ----------------------
(***************************************************************************)
(* Proofs about DataBlockAggregator, for every number of equipments and of *)
(* sources, every capacity, timeout and set of timeframe ids, and in each  *)
(* of the three configurations: where the blocks of a run are, what the    *)
(* data sets at the output hold, in which order data leaves, and what is   *)
(* discarded as late.                                                      *)
(***************************************************************************)
EXTENDS DataBlockAggregator, FiniteSetTheorems, WellFoundedInduction, TLAPS

-----------------------------------------------------------------------------
(* The inductive invariant.                                                *)

\* The blocks of A that come from a source were produced before those of B.
Before(A, B) == \A a \in A, b \in B : a.src = b.src => a.n < b.n

\* The blocks of each source are in the order in which they were produced.
InOrder(s) == \A k, l \in 1 .. Len(s) : k < l /\ s[k].src = s[l].src => s[k].n < s[l].n

\* Blocks of one source and one timeframe, in order.
IsSlice(d) ==
  /\ d # <<>>
  /\ \A k, l \in 1 .. Len(d) :
       /\ d[k].src = d[l].src /\ d[k].tf = d[l].tf
       /\ k < l => d[k].n < d[l].n
       /\ k # l => d[k].tf # undefinedTimeframeId

\* A queue of slices, those of each source in order.
IsQueue(q) ==
  /\ \A k \in 1 .. Len(q) : IsSlice(q[k])
  /\ \A k, l \in 1 .. Len(q) : k < l => Before(Elements(q[k]), Elements(q[l]))

\* The blocks in the slices of the sources of S, and the slicers without these slices.
BlocksOf(p, S) == UNION {Elements(p[s].blocks) : s \in S}
Without(p, S) == [s \in Sources |-> IF s \in S THEN NoSlice ELSE p[s]]

\* The blocks in the inputs, in the slices being built, in the queues and in the buffer.
InputSet(f) == UNION {Elements(f[i]) : i \in Inputs}
BuildingSet(p) == UNION {Elements(p[s].blocks) : s \in Sources}
QueueSet(q) == UNION {Slots(q[i]) : i \in Inputs}
BufferSet(t) == UNION {Slots(t[tf].sets) : tf \in TimeframeIds}

\* An input holds blocks of its own sources, in order.
InputsOK(f) == \A i \in Inputs : InOrder(f[i]) /\ \A b \in Elements(f[i]) : InputOf[b.src] = i

\* A slicer builds one slice for each source that it does not refuse.
BuildingOK(p) ==
  \A s \in Sources :
    /\ p[s].blocks # <<>> => IsSlice(p[s].blocks)
    /\ \A b \in Elements(p[s].blocks) : b.src = s /\ b.tf = p[s].tf
    /\ s \in BadSources => p[s].blocks = <<>>

\* A slicer queues the slices of the sources of its input.
QueuesOK(q) ==
  \A i \in Inputs : IsQueue(q[i]) /\ \A b \in Slots(q[i]) : InputOf[b.src] = i /\ b.src \notin BadSources

\* Slices wait in the buffer with the others of their timeframe.
BufferOK(t) == \A tf \in TimeframeIds : IsQueue(t[tf].sets) /\ \A b \in Slots(t[tf].sets) : b.tf = tf

\* The blocks that left the slicers.
Gone == BufferSet(stfBuffer) \cup delivered \cup late \cup dropped \cup wrong

\* The blocks of a source are in line: what left the slicers, the complete slices,
\* the slice being built, and the input.
InLine(G, Q, B, I) == Before(G, Q \cup B \cup I) /\ Before(Q, B \cup I) /\ Before(B, I)

Lined == InLine(Gone, QueueSet(slices), BuildingSet(partial), InputSet(inputs))

\* Each element of U is in exactly one of eight places.
Partition(P, U) ==
  /\ U = UNION {P[k] : k \in 1 .. 8}
  /\ \A k, l \in 1 .. 8 : k < l => P[k] \cap P[l] = {}

\* The blocks of U that come from source s.
OfSource(U, s) == {x \in U : x.src = s}

\* Blocks are numbered by their source.
Numbered ==
  /\ IsFiniteSet(produced)
  /\ \A b \in produced : b.n <= Cardinality(OfSource(produced, b.src))

\* The last timeframe sent is the highest one: what waits is later, what was
\* delivered is not, but for the timeframe that is being sent.
Timeframes ==
  /\ lastTimeframeId \in closed \cup {undefinedTimeframeId}
  /\ \A tf \in closed : tf <= lastTimeframeId
  /\ \A tf \in Buffered : lastTimeframeId < tf
  /\ mode = "stf" =>
       \A b \in delivered : b.tf <= lastTimeframeId \/ (pc = "emit" /\ TimeframeReady(b.tf))
  /\ \A b \in late : b.tf <= lastTimeframeId

\* The slicers are not used when slicing is disabled, and all is empty between runs.
Idle ==
  /\ mode = "pass" => pc # "retrieve" /\ QueueSet(slices) = {} /\ BuildingSet(partial) = {}
  /\ run = "off" => produced = {} /\ closed = {}

IInv ==
  /\ TypeOK
  /\ InputsOK(inputs) /\ BuildingOK(partial) /\ QueuesOK(slices) /\ BufferOK(stfBuffer)
  /\ \A k \in 1 .. Len(output) : IsSlice(output[k].blocks)
  /\ Partition(Places, produced) /\ Lined /\ Numbered /\ Timeframes /\ Idle

-----------------------------------------------------------------------------
(* Sequences.                                                              *)

\* Two positions of a sequence that has one element more.
LEMMA TwoPositions ==
  ASSUME NEW n \in Nat, NEW k \in 1 .. n + 1, NEW l \in 1 .. n + 1, k < l
  PROVE  k \in 1 .. n /\ (l \in 1 .. n \/ l = n + 1)
  OBVIOUS

\* The elements of a sequence over S are in S.
LEMMA ElementsType ==
  ASSUME NEW S, NEW s \in Seq(S)
  PROVE  /\ Elements(s) = {s[k] : k \in 1 .. Len(s)} /\ Elements(s) \subseteq S
         /\ Len(s) \in Nat
         /\ s = <<>> <=> Elements(s) = {}
<1>1. DOMAIN s = 1 .. Len(s) /\ Len(s) \in Nat
  OBVIOUS
<1>2. Elements(s) = {s[k] : k \in 1 .. Len(s)}
  BY <1>1 DEF Elements
<1>3. \A k \in 1 .. Len(s) : s[k] \in S
  OBVIOUS
<1>4. s # <<>> => 1 \in 1 .. Len(s)
  OBVIOUS
<1>5. s = <<>> => 1 .. Len(s) = {}
  OBVIOUS
<1> QED
  BY <1>1, <1>2, <1>3, <1>4, <1>5

\* The elements after Append.
LEMMA ElementsAppend ==
  ASSUME NEW S, NEW s \in Seq(S), NEW x \in S
  PROVE  /\ Append(s, x) \in Seq(S) /\ Len(Append(s, x)) = Len(s) + 1 /\ Len(s) \in Nat
         /\ Append(s, x)[Len(s) + 1] = x
         /\ \A k \in 1 .. Len(s) : Append(s, x)[k] = s[k]
         /\ Elements(Append(s, x)) = Elements(s) \cup {x}
<1> DEFINE t == Append(s, x)
<1>1. /\ t \in Seq(S) /\ Len(t) = Len(s) + 1 /\ Len(s) \in Nat
      /\ t[Len(s) + 1] = x /\ \A k \in 1 .. Len(s) : t[k] = s[k]
  OBVIOUS
<1> HIDE DEF t
<1>2. 1 .. Len(t) = (1 .. Len(s)) \cup {Len(s) + 1}
  BY <1>1
<1>3. Elements(t) = {t[k] : k \in 1 .. Len(t)} /\ Elements(s) = {s[k] : k \in 1 .. Len(s)}
  BY <1>1, ElementsType
<1>4. Elements(t) = Elements(s) \cup {x}
  BY <1>1, <1>2, <1>3
<1> QED
  BY <1>1, <1>4 DEF t

\* The elements of the tail.
LEMMA ElementsTail ==
  ASSUME NEW S, NEW s \in Seq(S), s # <<>>
  PROVE  /\ Tail(s) \in Seq(S) /\ Len(s) \in Nat \ {0} /\ Len(Tail(s)) = Len(s) - 1
         /\ Head(s) = s[1] /\ Head(s) \in S
         /\ \A k \in 1 .. Len(s) - 1 : Tail(s)[k] = s[k + 1]
         /\ Elements(s) = Elements(Tail(s)) \cup {Head(s)}
<1> DEFINE t == Tail(s)
<1>1. /\ t \in Seq(S) /\ Len(s) \in Nat \ {0} /\ Len(t) = Len(s) - 1
      /\ Head(s) = s[1] /\ Head(s) \in S /\ \A k \in 1 .. Len(s) - 1 : t[k] = s[k + 1]
  OBVIOUS
<1> HIDE DEF t
<1>2. Elements(t) = {t[k] : k \in 1 .. Len(t)} /\ Elements(s) = {s[k] : k \in 1 .. Len(s)}
  BY <1>1, ElementsType
<1>3. \A k \in 1 .. Len(t) : k + 1 \in 1 .. Len(s) /\ t[k] = s[k + 1]
  BY <1>1
<1>4. ASSUME NEW k \in 1 .. Len(s) PROVE k = 1 \/ (k - 1 \in 1 .. Len(t) /\ t[k - 1] = s[k])
  <2>1. k # 1 => k - 1 \in 1 .. Len(t) /\ k = (k - 1) + 1
    BY <1>1
  <2> QED BY <1>1, <2>1
<1>5. 1 \in 1 .. Len(s)
  BY <1>1
<1>6. Elements(s) \subseteq Elements(t) \cup {Head(s)}
  <2>1. \A k \in 1 .. Len(s) : s[k] \in Elements(t) \cup {Head(s)}
    BY <1>1, <1>2, <1>4
  <2> QED BY <1>2, <2>1
<1>7. Elements(t) \cup {Head(s)} \subseteq Elements(s)
  BY <1>1, <1>2, <1>3, <1>5
<1> QED
  BY <1>1, <1>6, <1>7 DEF t

\* The elements of two sequences together.
LEMMA ElementsConcat ==
  ASSUME NEW S, NEW s \in Seq(S), NEW t \in Seq(S)
  PROVE  /\ s \o t \in Seq(S) /\ Len(s \o t) = Len(s) + Len(t) /\ Len(s) \in Nat /\ Len(t) \in Nat
         /\ \A k \in 1 .. Len(s) : (s \o t)[k] = s[k]
         /\ \A k \in 1 .. Len(s) + Len(t) : k > Len(s) => (s \o t)[k] = t[k - Len(s)] /\ k - Len(s) \in 1 .. Len(t)
         /\ Elements(s \o t) = Elements(s) \cup Elements(t)
<1> DEFINE u == s \o t
<1>1. /\ u \in Seq(S) /\ Len(u) = Len(s) + Len(t) /\ Len(s) \in Nat /\ Len(t) \in Nat
      /\ \A k \in 1 .. Len(s) : u[k] = s[k]
      /\ \A k \in 1 .. Len(s) + Len(t) : k > Len(s) => u[k] = t[k - Len(s)] /\ k - Len(s) \in 1 .. Len(t)
  OBVIOUS
<1> HIDE DEF u
<1>2. /\ Elements(u) = {u[k] : k \in 1 .. Len(u)} /\ Elements(s) = {s[k] : k \in 1 .. Len(s)}
      /\ Elements(t) = {t[k] : k \in 1 .. Len(t)}
  BY <1>1, ElementsType
<1>3. Elements(u) \subseteq Elements(s) \cup Elements(t)
  <2>1. \A k \in 1 .. Len(u) : k \in 1 .. Len(s) \/ k > Len(s)
    BY <1>1
  <2> QED BY <1>1, <1>2, <2>1
<1>4. Elements(s) \subseteq Elements(u)
  <2>1. \A k \in 1 .. Len(s) : k \in 1 .. Len(u)
    BY <1>1
  <2> QED BY <1>1, <1>2, <2>1
<1>5. Elements(t) \subseteq Elements(u)
  <2>1. ASSUME NEW k \in 1 .. Len(t) PROVE t[k] \in Elements(u)
    <3>1. /\ Len(s) + k \in 1 .. Len(s) + Len(t) /\ Len(s) + k > Len(s) /\ (Len(s) + k) - Len(s) = k
          /\ Len(s) + k \in 1 .. Len(u)
      BY <1>1
    <3>2. u[Len(s) + k] = t[k]
      BY <1>1, <3>1
    <3> QED BY <1>2, <3>1, <3>2
  <2> QED BY <1>2, <2>1
<1> QED
  BY <1>1, <1>3, <1>4, <1>5 DEF u

\* The blocks of the slices of a sequence.
LEMMA SlotsElements ==
  ASSUME NEW q
  PROVE  Slots(q) = UNION {Elements(x) : x \in Elements(q)}
<1>1. \A x : x \in Elements(q) <=> \E k \in DOMAIN q : x = q[k]
  BY DEF Elements
<1> QED
  BY <1>1 DEF Slots

\* The blocks of a sequence of slices have their type.
LEMMA SlotsType ==
  ASSUME NEW S, NEW q \in Seq(Seq(S))
  PROVE  /\ Slots(q) = UNION {Elements(q[k]) : k \in 1 .. Len(q)}
         /\ Slots(q) \subseteq S
         /\ \A k \in 1 .. Len(q) : q[k] \in Seq(S) /\ Elements(q[k]) \subseteq Slots(q)
<1>1. DOMAIN q = 1 .. Len(q) /\ \A k \in 1 .. Len(q) : q[k] \in Seq(S)
  OBVIOUS
<1>2. Slots(q) = UNION {Elements(q[k]) : k \in 1 .. Len(q)}
  BY <1>1 DEF Slots
<1>3. \A k \in 1 .. Len(q) : Elements(q[k]) \subseteq S
  BY <1>1, ElementsType
<1> QED
  BY <1>1, <1>2, <1>3

\* The blocks after Append.
LEMMA SlotsAppend ==
  ASSUME NEW S, NEW q \in Seq(Seq(S)), NEW d \in Seq(S)
  PROVE  Slots(Append(q, d)) = Slots(q) \cup Elements(d)
<1>1. Append(q, d) \in Seq(Seq(S)) /\ Elements(Append(q, d)) = Elements(q) \cup {d}
  BY ElementsAppend
<1>2. /\ Slots(q) = UNION {Elements(x) : x \in Elements(q)}
      /\ Slots(Append(q, d)) = UNION {Elements(x) : x \in Elements(Append(q, d))}
  BY SlotsElements
<1> QED
  BY <1>1, <1>2

\* The blocks of the tail.
LEMMA SlotsTail ==
  ASSUME NEW S, NEW q \in Seq(Seq(S)), q # <<>>
  PROVE  Slots(q) = Slots(Tail(q)) \cup Elements(Head(q))
<1>1. Elements(q) = Elements(Tail(q)) \cup {Head(q)}
  BY ElementsTail
<1>2. /\ Slots(q) = UNION {Elements(x) : x \in Elements(q)}
      /\ Slots(Tail(q)) = UNION {Elements(x) : x \in Elements(Tail(q))}
  BY SlotsElements
<1> QED
  BY <1>1, <1>2

\* The blocks of two queues together.
LEMMA SlotsConcat ==
  ASSUME NEW S, NEW q \in Seq(Seq(S)), NEW r \in Seq(Seq(S))
  PROVE  Slots(q \o r) = Slots(q) \cup Slots(r)
<1>1. Elements(q \o r) = Elements(q) \cup Elements(r)
  BY ElementsConcat
<1>2. /\ Slots(q) = UNION {Elements(x) : x \in Elements(q)}
      /\ Slots(r) = UNION {Elements(x) : x \in Elements(r)}
      /\ Slots(q \o r) = UNION {Elements(x) : x \in Elements(q \o r)}
  BY SlotsElements
<1> QED
  BY <1>1, <1>2

-----------------------------------------------------------------------------
(* Slices and queues.                                                      *)

\* A block by itself is a slice.
LEMMA SliceOfOne ==
  ASSUME NEW b \in Block
  PROVE  <<b>> \in Seq(Block) /\ Elements(<<b>>) = {b} /\ IsSlice(<<b>>)
<1>1. <<b>> \in Seq(Block) /\ Len(<<b>>) = 1 /\ <<b>> # <<>> /\ <<b>>[1] = b
  OBVIOUS
<1>2. 1 .. 1 = {1}
  OBVIOUS
<1>3. Elements(<<b>>) = {b}
  <2> DEFINE s == <<b>>
  <2>1. s \in Seq(Block) /\ Len(s) = 1 /\ s[1] = b
    BY <1>1
  <2> HIDE DEF s
  <2>2. Elements(s) = {b}
    BY <1>2, <2>1, ElementsType
  <2> QED BY <2>2 DEF s
<1> QED
  BY <1>1, <1>2, <1>3 DEF IsSlice

\* A slice goes on with a later block of the same timeframe.
LEMMA SliceGrows ==
  ASSUME NEW d \in Seq(Block), IsSlice(d), NEW b \in Block, Before(Elements(d), {b}),
         \A c \in Elements(d) : c.src = b.src /\ c.tf = b.tf,
         b.tf # undefinedTimeframeId
  PROVE  IsSlice(Append(d, b))
<1> DEFINE e == Append(d, b)
<1>1. /\ Len(e) = Len(d) + 1 /\ Len(d) \in Nat /\ e[Len(d) + 1] = b
      /\ \A k \in 1 .. Len(d) : e[k] = d[k]
  BY ElementsAppend
<1>2. Elements(d) = {d[k] : k \in 1 .. Len(d)}
  BY ElementsType
<1> HIDE DEF e
<1>3. \A k \in 1 .. Len(e) : k \in 1 .. Len(d) \/ k = Len(d) + 1
  BY <1>1
<1>4. \A k \in 1 .. Len(e) : e[k].src = b.src /\ e[k].tf = b.tf
  BY <1>1, <1>2, <1>3
<1>5. ASSUME NEW k \in 1 .. Len(e), NEW l \in 1 .. Len(e), k < l PROVE e[k].n < e[l].n
  <2>1. k \in 1 .. Len(d) /\ (l \in 1 .. Len(d) \/ l = Len(d) + 1)
    BY <1>1, <1>5
  <2>2. CASE l \in 1 .. Len(d)
    BY <1>1, <1>5, <2>1, <2>2 DEF IsSlice
  <2>3. CASE l = Len(d) + 1
    <3>1. d[k] \in Elements(d) /\ e[k] = d[k] /\ e[l] = b
      BY <1>1, <1>2, <2>1, <2>3
    <3> QED BY <3>1 DEF Before
  <2> QED BY <2>1, <2>2, <2>3
<1>6. e # <<>>
  BY <1>1
<1> QED
  BY <1>4, <1>5, <1>6 DEF IsSlice, e

\* Queues one after the other, when the blocks are.
LEMMA QueueConcat ==
  ASSUME NEW q \in Seq(Seq(Block)), NEW r \in Seq(Seq(Block)), IsQueue(q), IsQueue(r),
         Before(Slots(q), Slots(r))
  PROVE  q \o r \in Seq(Seq(Block)) /\ IsQueue(q \o r) /\ Slots(q \o r) = Slots(q) \cup Slots(r)
<1> DEFINE u == q \o r
<1>1. /\ u \in Seq(Seq(Block)) /\ Len(u) = Len(q) + Len(r) /\ Len(q) \in Nat /\ Len(r) \in Nat
      /\ \A k \in 1 .. Len(q) : u[k] = q[k]
      /\ \A k \in 1 .. Len(q) + Len(r) : k > Len(q) => u[k] = r[k - Len(q)] /\ k - Len(q) \in 1 .. Len(r)
  BY ElementsConcat
<1>2. Slots(u) = Slots(q) \cup Slots(r)
  BY SlotsConcat
<1> HIDE DEF u
<1>3. \A k \in 1 .. Len(u) : k \in 1 .. Len(q) \/ k > Len(q)
  BY <1>1
<1>4. \A k \in 1 .. Len(u) : IsSlice(u[k])
  BY <1>1, <1>3 DEF IsQueue
<1>5. ASSUME NEW k \in 1 .. Len(u), NEW l \in 1 .. Len(u), k < l
      PROVE  Before(Elements(u[k]), Elements(u[l]))
  <2>1. CASE k \in 1 .. Len(q) /\ l \in 1 .. Len(q)
    BY <1>1, <1>5, <2>1 DEF IsQueue
  <2>2. CASE k \in 1 .. Len(q) /\ l > Len(q)
    <3>1. Elements(q[k]) \subseteq Slots(q)
      BY <2>2, SlotsType
    <3>2. u[k] = q[k] /\ u[l] = r[l - Len(q)] /\ l - Len(q) \in 1 .. Len(r)
      BY <1>1, <2>2
    <3>3. Elements(r[l - Len(q)]) \subseteq Slots(r)
      BY <3>2, SlotsType
    <3> QED BY <3>1, <3>2, <3>3 DEF Before
  <2>3. CASE k > Len(q) /\ l > Len(q)
    <3>1. /\ u[k] = r[k - Len(q)] /\ k - Len(q) \in 1 .. Len(r)
          /\ u[l] = r[l - Len(q)] /\ l - Len(q) \in 1 .. Len(r)
      BY <1>1, <2>3
    <3>2. k - Len(q) < l - Len(q)
      BY <1>1, <1>5
    <3> QED BY <3>1, <3>2 DEF IsQueue
  <2> QED BY SMTT(30), <1>1, <1>3, <1>5, <2>1, <2>2, <2>3
<1> QED
  BY <1>1, <1>2, <1>4, <1>5 DEF IsQueue, u

\* A queue of one slice.
LEMMA QueueOfOne ==
  ASSUME NEW d \in Seq(Block), IsSlice(d)
  PROVE  /\ <<d>> \in Seq(Seq(Block)) /\ IsQueue(<<d>>) /\ Slots(<<d>>) = Elements(d)
         /\ \A q \in Seq(Seq(Block)) : Append(q, d) = q \o <<d>>
<1>1. <<d>> \in Seq(Seq(Block)) /\ Len(<<d>>) = 1 /\ <<d>>[1] = d
  OBVIOUS
<1>2. 1 .. 1 = {1}
  OBVIOUS
<1>3. IsQueue(<<d>>)
  BY <1>1, <1>2 DEF IsQueue
<1>4. Slots(<<d>>) = Elements(d)
  <2> DEFINE s == <<d>>
  <2>1. s \in Seq(Seq(Block)) /\ Len(s) = 1 /\ s[1] = d
    BY <1>1
  <2> HIDE DEF s
  <2>2. Elements(s) = {d}
    <3>1. Elements(s) = {s[k] : k \in 1 .. Len(s)}
      BY <2>1, ElementsType
    <3> QED BY <1>2, <2>1, <3>1
  <2>3. Slots(s) = UNION {Elements(x) : x \in Elements(s)}
    BY SlotsElements
  <2>4. Slots(s) = Elements(d)
    BY <2>2, <2>3
  <2> QED BY <2>4 DEF s
<1>5. \A q \in Seq(Seq(Block)) : Append(q, d) = q \o <<d>>
  OBVIOUS
<1> QED
  BY <1>1, <1>3, <1>4, <1>5

\* The head of a queue is before what is left.
LEMMA QueueTail ==
  ASSUME NEW q \in Seq(Seq(Block)), IsQueue(q), q # <<>>
  PROVE  /\ Tail(q) \in Seq(Seq(Block)) /\ IsQueue(Tail(q))
         /\ Head(q) \in Seq(Block) /\ IsSlice(Head(q))
         /\ Slots(q) = Slots(Tail(q)) \cup Elements(Head(q))
         /\ Before(Elements(Head(q)), Slots(Tail(q)))
<1> DEFINE t == Tail(q)
<1>1. /\ t \in Seq(Seq(Block)) /\ Len(q) \in Nat \ {0} /\ Len(t) = Len(q) - 1
      /\ Head(q) = q[1] /\ Head(q) \in Seq(Block)
      /\ \A k \in 1 .. Len(q) - 1 : t[k] = q[k + 1]
  BY ElementsTail
<1>2. Slots(q) = Slots(t) \cup Elements(Head(q))
  BY SlotsTail
<1> HIDE DEF t
<1>3. \A k \in 1 .. Len(t) : t[k] = q[k + 1] /\ k + 1 \in 1 .. Len(q)
  BY <1>1
<1>4. 1 \in 1 .. Len(q) /\ \A k \in 1 .. Len(t) : 1 < k + 1
  BY <1>1
<1>5. IsQueue(t)
  <2>1. \A k \in 1 .. Len(t) : IsSlice(t[k])
    BY <1>3 DEF IsQueue
  <2>2. ASSUME NEW k \in 1 .. Len(t), NEW l \in 1 .. Len(t), k < l
        PROVE  Before(Elements(t[k]), Elements(t[l]))
    <3>1. k + 1 < l + 1
      BY <2>2
    <3> QED BY <1>3, <3>1 DEF IsQueue
  <2> QED BY <2>1, <2>2 DEF IsQueue
<1>6. IsSlice(Head(q))
  BY <1>1, <1>4 DEF IsQueue
<1>7. Before(Elements(Head(q)), Slots(t))
  <2>1. Slots(t) = UNION {Elements(t[k]) : k \in 1 .. Len(t)}
    BY <1>1, SlotsType
  <2>2. \A k \in 1 .. Len(t) : Before(Elements(q[1]), Elements(t[k]))
    BY <1>3, <1>4 DEF IsQueue
  <2> QED BY <1>1, <2>1, <2>2 DEF Before
<1> QED
  BY <1>1, <1>2, <1>5, <1>6, <1>7 DEF t

\* Two sets of blocks, one before the other, have none in common.
LEMMA BeforeDisjoint ==
  ASSUME NEW A, A \subseteq Block, NEW B, Before(A, B)
  PROVE  A \cap B = {}
<1>1. \A a \in A : a.n \in Nat /\ ~ a.n < a.n
  <2>1. \A a \in A : a.n \in Nat
    BY DEF Block
  <2> QED BY <2>1
<1> QED
  BY <1>1 DEF Before


-----------------------------------------------------------------------------
(* The inputs, the slices being built, the queues and the buffer.          *)

\* The blocks in all places are blocks.
LEMMA SetsType ==
  /\ \A f \in [Inputs -> Seq(Block)] : InputSet(f) \subseteq Block
  /\ \A p \in [Sources -> SliceRecord] : BuildingSet(p) \subseteq Block
  /\ \A q \in [Inputs -> Seq(Seq(Block))] : QueueSet(q) \subseteq Block
  /\ \A t \in [TimeframeIds -> StfRecord] : BufferSet(t) \subseteq Block
<1>1. ASSUME NEW f \in [Inputs -> Seq(Block)] PROVE InputSet(f) \subseteq Block
  <2>1. \A i \in Inputs : Elements(f[i]) \subseteq Block
    BY ElementsType
  <2> QED BY <2>1 DEF InputSet
<1>2. ASSUME NEW p \in [Sources -> SliceRecord] PROVE BuildingSet(p) \subseteq Block
  <2>1. \A s \in Sources : p[s].blocks \in Seq(Block)
    BY DEF SliceRecord
  <2>2. \A s \in Sources : Elements(p[s].blocks) \subseteq Block
    BY <2>1, ElementsType
  <2> QED BY <2>2 DEF BuildingSet
<1>3. ASSUME NEW q \in [Inputs -> Seq(Seq(Block))] PROVE QueueSet(q) \subseteq Block
  <2>1. \A i \in Inputs : Slots(q[i]) \subseteq Block
    BY SlotsType
  <2> QED BY <2>1 DEF QueueSet
<1>4. ASSUME NEW t \in [TimeframeIds -> StfRecord] PROVE BufferSet(t) \subseteq Block
  <2>1. \A tf \in TimeframeIds : t[tf].sets \in Seq(Seq(Block))
    BY DEF StfRecord
  <2>2. \A tf \in TimeframeIds : Slots(t[tf].sets) \subseteq Block
    BY <2>1, SlotsType
  <2> QED BY <2>2 DEF BufferSet
<1> QED
  BY <1>1, <1>2, <1>3, <1>4

\* An equipment pushes a block.
LEMMA InputPut ==
  ASSUME NEW f \in [Inputs -> Seq(Block)], InputsOK(f), NEW b \in Block, NEW i \in Inputs,
         InputOf[b.src] = i, Before(InputSet(f), {b}), NEW g, g = [f EXCEPT ![i] = Append(f[i], b)]
  PROVE  g \in [Inputs -> Seq(Block)] /\ InputsOK(g) /\ InputSet(g) = InputSet(f) \cup {b}
<1> DEFINE s == f[i]
           t == Append(s, b)
<1>1. /\ t \in Seq(Block) /\ Len(t) = Len(s) + 1 /\ Len(s) \in Nat /\ t[Len(s) + 1] = b
      /\ \A k \in 1 .. Len(s) : t[k] = s[k]
      /\ Elements(t) = Elements(s) \cup {b}
  BY ElementsAppend
<1>2. g \in [Inputs -> Seq(Block)] /\ g[i] = t /\ \A x \in Inputs : x # i => g[x] = f[x]
  BY <1>1
<1>3. Elements(s) = {s[k] : k \in 1 .. Len(s)} /\ Elements(s) \subseteq InputSet(f)
  BY ElementsType DEF InputSet
<1>4. InOrder(s) /\ \A c \in Elements(s) : InputOf[c.src] = i
  BY DEF InputsOK
<1> HIDE DEF s, t
<1>5. InOrder(t)
  <2>1. ASSUME NEW k \in 1 .. Len(t), NEW l \in 1 .. Len(t), k < l, t[k].src = t[l].src
        PROVE  t[k].n < t[l].n
    <3>1. k \in 1 .. Len(s) /\ (l \in 1 .. Len(s) \/ l = Len(s) + 1)
      <4>1. Len(s) \in Nat /\ Len(t) = Len(s) + 1
        BY <1>1
      <4> QED BY <2>1, <4>1
    <3>2. CASE l \in 1 .. Len(s)
      BY <1>1, <1>4, <2>1, <3>1, <3>2 DEF InOrder
    <3>3. CASE l = Len(s) + 1
      <4>1. t[k] = s[k] /\ t[l] = b /\ s[k] \in InputSet(f)
        BY <1>1, <1>3, <3>1, <3>3
      <4> QED BY <2>1, <4>1 DEF Before
    <3> QED BY <3>1, <3>2, <3>3
  <2> QED BY <2>1 DEF InOrder
<1>6. InputsOK(g)
  <2>1. ASSUME NEW x \in Inputs PROVE InOrder(g[x]) /\ \A c \in Elements(g[x]) : InputOf[c.src] = x
    <3>1. CASE x = i
      <4>1. g[x] = t /\ InOrder(g[x])
        BY <1>2, <1>5, <3>1
      <4>2. ASSUME NEW c \in Elements(t) PROVE InputOf[c.src] = x
        <5>1. c \in Elements(s) \/ c = b
          BY <1>1
        <5> QED BY <1>4, <3>1, <5>1
      <4> QED BY <4>1, <4>2
    <3>2. CASE x # i
      BY <1>2, <3>2 DEF InputsOK
    <3> QED BY <3>1, <3>2
  <2> QED BY <2>1 DEF InputsOK
<1>7. InputSet(g) = InputSet(f) \cup {b}
  <2>1. Elements(g[i]) = Elements(f[i]) \cup {b} /\ \A x \in Inputs : x # i => Elements(g[x]) = Elements(f[x])
    BY <1>1, <1>2 DEF s
  <2> QED BY <2>1 DEF InputSet
<1> QED
  BY <1>2, <1>6, <1>7

\* The thread takes the first block of an input.
LEMMA InputTake ==
  ASSUME NEW f \in [Inputs -> Seq(Block)], InputsOK(f), NEW i \in Inputs, f[i] # <<>>,
         NEW g, g = [f EXCEPT ![i] = Tail(f[i])], NEW b, b = Head(f[i])
  PROVE  /\ g \in [Inputs -> Seq(Block)] /\ InputsOK(g) /\ Len(g[i]) <= Len(f[i])
         /\ b \in Block /\ b \in InputSet(f) /\ InputOf[b.src] = i /\ Before({b}, InputSet(g))
<1> DEFINE s == f[i]
           t == Tail(s)
<1>1. /\ t \in Seq(Block) /\ Len(s) \in Nat \ {0} /\ Len(t) = Len(s) - 1
      /\ b = s[1] /\ b \in Block
      /\ \A k \in 1 .. Len(s) - 1 : t[k] = s[k + 1]
      /\ Elements(s) = Elements(t) \cup {b}
  BY ElementsTail
<1>2. g \in [Inputs -> Seq(Block)] /\ g[i] = t /\ \A x \in Inputs : x # i => g[x] = f[x]
  BY <1>1
<1>3. Elements(t) = {t[k] : k \in 1 .. Len(t)} /\ Elements(s) \subseteq InputSet(f)
  <2>1. Elements(f[i]) \subseteq InputSet(f)
    BY DEF InputSet
  <2> HIDE DEF t
  <2> QED BY <1>1, <2>1, ElementsType
<1>4. InOrder(s) /\ \A c \in Elements(s) : InputOf[c.src] = i
  BY DEF InputsOK
<1>5. \A x \in Inputs : x # i => \A c \in Elements(f[x]) : InputOf[c.src] # i
  BY DEF InputsOK
<1> HIDE DEF s, t
<1>6. InOrder(t)
  <2>1. ASSUME NEW k \in 1 .. Len(t), NEW l \in 1 .. Len(t), k < l, t[k].src = t[l].src
        PROVE  t[k].n < t[l].n
    <3>1. /\ k + 1 \in 1 .. Len(s) /\ l + 1 \in 1 .. Len(s) /\ k + 1 < l + 1
          /\ t[k] = s[k + 1] /\ t[l] = s[l + 1]
      BY <1>1, <2>1
    <3> QED BY <1>4, <2>1, <3>1 DEF InOrder
  <2> QED BY <2>1 DEF InOrder
<1>7. Before({b}, Elements(t))
  <2>1. ASSUME NEW k \in 1 .. Len(t), t[k].src = b.src PROVE b.n < t[k].n
    <3>1. 1 \in 1 .. Len(s) /\ k + 1 \in 1 .. Len(s) /\ 1 < k + 1 /\ t[k] = s[k + 1]
      BY <1>1
    <3> QED BY <1>1, <1>4, <2>1, <3>1 DEF InOrder
  <2> QED BY <1>3, <2>1 DEF Before
<1>8. b \notin Elements(t)
  <2>1. {b} \subseteq Block
    BY <1>1
  <2>2. {b} \cap Elements(t) = {}
    BY <1>7, <2>1, BeforeDisjoint
  <2> QED BY <2>2
<1>9. InputsOK(g)
  <2>1. ASSUME NEW x \in Inputs PROVE InOrder(g[x]) /\ \A c \in Elements(g[x]) : InputOf[c.src] = x
    <3>1. CASE x = i
      BY <1>1, <1>2, <1>4, <1>6, <3>1
    <3>2. CASE x # i
      BY <1>2, <3>2 DEF InputsOK
    <3> QED BY <3>1, <3>2
  <2> QED BY <2>1 DEF InputsOK
<1>10. InputOf[b.src] = i
  BY <1>1, <1>4
<1>11. \A x \in Inputs : x # i => b \notin Elements(f[x]) /\ Before({b}, Elements(f[x]))
  BY <1>5, <1>10 DEF Before
<1>12. /\ Elements(g[i]) = Elements(t) /\ Elements(f[i]) = Elements(t) \cup {b}
       /\ \A x \in Inputs : x # i => Elements(g[x]) = Elements(f[x])
  BY <1>1, <1>2 DEF s
<1>14. Before({b}, InputSet(g))
  BY <1>7, <1>11, <1>12 DEF InputSet, Before
<1>15. Len(g[i]) <= Len(f[i])
  BY <1>1, <1>2 DEF s
<1> QED
  BY <1>1, <1>2, <1>3, <1>9, <1>10, <1>14, <1>15

\* Only the first block is missing.
LEMMA InputTaken ==
  ASSUME NEW f \in [Inputs -> Seq(Block)], InputsOK(f), NEW i \in Inputs, f[i] # <<>>,
         NEW g, g = [f EXCEPT ![i] = Tail(f[i])], NEW b, b = Head(f[i])
  PROVE  InputSet(g) = InputSet(f) \ {b}
<1>1. b \in Block /\ InputOf[b.src] = i /\ Before({b}, InputSet(g))
  BY InputTake
<1>2. Elements(f[i]) = Elements(g[i]) \cup {b} /\ \A x \in Inputs : x # i => g[x] = f[x]
  BY ElementsTail
<1>3. b \notin InputSet(g)
  <2>1. {b} \subseteq Block
    BY <1>1
  <2> QED BY <1>1, <2>1, BeforeDisjoint
<1>4. ASSUME NEW c \in InputSet(g) PROVE c \in InputSet(f)
  BY <1>2 DEF InputSet
<1>5. ASSUME NEW c \in InputSet(f), c # b PROVE c \in InputSet(g)
  BY <1>2, <1>5 DEF InputSet
<1> QED
  BY <1>3, <1>4, <1>5

\* A slicer queues slices.
LEMMA QueuePut ==
  ASSUME NEW q \in [Inputs -> Seq(Seq(Block))], QueuesOK(q), NEW i \in Inputs,
         NEW r \in Seq(Seq(Block)), IsQueue(r), Before(QueueSet(q), Slots(r)),
         \A b \in Slots(r) : InputOf[b.src] = i /\ b.src \notin BadSources,
         NEW g, g = [q EXCEPT ![i] = q[i] \o r]
  PROVE  g \in [Inputs -> Seq(Seq(Block))] /\ QueuesOK(g) /\ QueueSet(g) = QueueSet(q) \cup Slots(r)
<1>1. q[i] \in Seq(Seq(Block)) /\ IsQueue(q[i]) /\ Slots(q[i]) \subseteq QueueSet(q)
  BY DEF QueuesOK, QueueSet
<1>2. Before(Slots(q[i]), Slots(r))
  BY <1>1 DEF Before
<1> DEFINE u == q[i] \o r
<1>3. u \in Seq(Seq(Block)) /\ IsQueue(u) /\ Slots(u) = Slots(q[i]) \cup Slots(r)
  BY <1>1, <1>2, QueueConcat
<1> HIDE DEF u
<1>4. g \in [Inputs -> Seq(Seq(Block))] /\ g[i] = u /\ \A x \in Inputs : x # i => g[x] = q[x]
  BY <1>3 DEF u
<1>5. QueuesOK(g)
  <2>1. ASSUME NEW x \in Inputs
        PROVE  IsQueue(g[x]) /\ \A b \in Slots(g[x]) : InputOf[b.src] = x /\ b.src \notin BadSources
    <3>1. CASE x = i
      BY <1>3, <1>4, <3>1 DEF QueuesOK
    <3>2. CASE x # i
      BY <1>4, <3>2 DEF QueuesOK
    <3> QED BY <3>1, <3>2
  <2> QED BY <2>1 DEF QueuesOK
<1>6. QueueSet(g) = QueueSet(q) \cup Slots(r)
  <2>1. /\ Slots(g[i]) = Slots(q[i]) \cup Slots(r)
        /\ \A x \in Inputs : x # i => Slots(g[x]) = Slots(q[x])
    BY <1>3, <1>4
  <2>2. ASSUME NEW b \in QueueSet(g) PROVE b \in QueueSet(q) \/ b \in Slots(r)
    <3>1. PICK x \in Inputs : b \in Slots(g[x])
      BY DEF QueueSet
    <3>2. b \in Slots(q[x]) \/ b \in Slots(r)
      BY <2>1, <3>1
    <3> QED BY <3>2 DEF QueueSet
  <2>3. ASSUME NEW b \in QueueSet(q) PROVE b \in QueueSet(g)
    <3>1. PICK x \in Inputs : b \in Slots(q[x])
      BY DEF QueueSet
    <3>2. b \in Slots(g[x])
      BY <2>1, <3>1
    <3> QED BY <3>2 DEF QueueSet
  <2>4. Slots(r) \subseteq QueueSet(g)
    BY <2>1 DEF QueueSet
  <2> QED BY <2>2, <2>3, <2>4
<1> QED
  BY <1>4, <1>5, <1>6

\* The oldest complete slice of an input is taken.
LEMMA QueueTake ==
  ASSUME NEW q \in [Inputs -> Seq(Seq(Block))], QueuesOK(q), NEW i \in Inputs, q[i] # <<>>,
         NEW g, g = [q EXCEPT ![i] = Tail(q[i])], NEW d, d = Head(q[i])
  PROVE  /\ g \in [Inputs -> Seq(Seq(Block))] /\ QueuesOK(g)
         /\ d \in Seq(Block) /\ IsSlice(d) /\ Elements(d) \subseteq QueueSet(q)
         /\ Before(Elements(d), QueueSet(g))
<1> DEFINE t == Tail(q[i])
<1>1. q[i] \in Seq(Seq(Block)) /\ IsQueue(q[i]) /\ Slots(q[i]) \subseteq QueueSet(q)
  BY DEF QueuesOK, QueueSet
<1>2. /\ t \in Seq(Seq(Block)) /\ IsQueue(t) /\ d \in Seq(Block) /\ IsSlice(d)
      /\ Slots(q[i]) = Slots(t) \cup Elements(d) /\ Before(Elements(d), Slots(t))
  BY <1>1, QueueTail
<1> HIDE DEF t
<1>3. g \in [Inputs -> Seq(Seq(Block))] /\ g[i] = t /\ \A x \in Inputs : x # i => g[x] = q[x]
  BY <1>2 DEF t
<1>5. \A x \in Inputs : \A b \in Slots(q[x]) : InputOf[b.src] = x /\ b.src \notin BadSources
  BY DEF QueuesOK
<1>6. \A b \in Elements(d) : InputOf[b.src] = i
  BY <1>2, <1>5
<1>7. \A x \in Inputs : x # i => Elements(d) \cap Slots(q[x]) = {} /\ Before(Elements(d), Slots(q[x]))
  <2>1. ASSUME NEW x \in Inputs, x # i, NEW a \in Elements(d), NEW b \in Slots(q[x])
        PROVE  a.src # b.src /\ a # b
    <3>1. InputOf[a.src] = i /\ InputOf[b.src] = x
      BY <1>5, <1>6
    <3> QED BY <2>1, <3>1
  <2> QED BY <2>1 DEF Before
<1>8. QueuesOK(g)
  <2>1. ASSUME NEW x \in Inputs
        PROVE  IsQueue(g[x]) /\ \A b \in Slots(g[x]) : InputOf[b.src] = x /\ b.src \notin BadSources
    <3>1. CASE x = i
      BY <1>2, <1>3, <1>5, <3>1
    <3>2. CASE x # i
      BY <1>3, <3>2 DEF QueuesOK
    <3> QED BY <3>1, <3>2
  <2> QED BY <2>1 DEF QueuesOK
<1>9. /\ Slots(g[i]) = Slots(t) /\ Slots(q[i]) = Slots(t) \cup Elements(d)
      /\ \A x \in Inputs : x # i => Slots(g[x]) = Slots(q[x])
  BY <1>2, <1>3
<1>10. Before(Elements(d), QueueSet(g))
  BY <1>2, <1>7, <1>9 DEF QueueSet, Before
<1> QED
  BY <1>1, <1>2, <1>3, <1>8, <1>10

\* Only the first slice is missing.
LEMMA QueueTaken ==
  ASSUME NEW q \in [Inputs -> Seq(Seq(Block))], QueuesOK(q), NEW i \in Inputs, q[i] # <<>>,
         NEW g, g = [q EXCEPT ![i] = Tail(q[i])], NEW d, d = Head(q[i])
  PROVE  QueueSet(g) = QueueSet(q) \ Elements(d)
<1>1. Elements(d) \cap QueueSet(g) = {}
  <2>1. d \in Seq(Block) /\ Before(Elements(d), QueueSet(g))
    BY QueueTake
  <2>2. Elements(d) \subseteq Block
    BY <2>1, ElementsType
  <2> QED BY <2>1, <2>2, BeforeDisjoint
<1>2. Slots(q[i]) = Slots(g[i]) \cup Elements(d)
  <2>1. q[i] \in Seq(Seq(Block)) /\ IsQueue(q[i]) /\ g[i] = Tail(q[i])
    BY DEF QueuesOK
  <2> QED BY <2>1, QueueTail
<1>3. \A x \in Inputs : x # i => g[x] = q[x]
  OBVIOUS
<1>4. ASSUME NEW c \in QueueSet(g) PROVE c \in QueueSet(q)
  BY <1>2, <1>3 DEF QueueSet
<1>5. ASSUME NEW c \in QueueSet(q), c \notin Elements(d) PROVE c \in QueueSet(g)
  BY <1>2, <1>3, <1>5 DEF QueueSet
<1> QED
  BY <1>1, <1>4, <1>5


\* A slice goes to the buffer, with the others of its timeframe.
LEMMA BufferPut ==
  ASSUME NEW t \in [TimeframeIds -> StfRecord], BufferOK(t), NEW tf \in TimeframeIds,
         NEW d \in Seq(Block), IsSlice(d), Before(BufferSet(t), Elements(d)),
         \A b \in Elements(d) : b.tf = tf,
         NEW g, g = [t EXCEPT ![tf] = [age |-> 0, sets |-> Append(t[tf].sets, d)]]
  PROVE  /\ g \in [TimeframeIds -> StfRecord] /\ BufferOK(g)
         /\ \A x \in TimeframeIds : x # tf => g[x] = t[x]
         /\ g[tf].sets # <<>>
<1> DEFINE u == Append(t[tf].sets, d)
<1>1. t[tf].sets \in Seq(Seq(Block)) /\ IsQueue(t[tf].sets) /\ Slots(t[tf].sets) \subseteq BufferSet(t)
  BY DEF BufferOK, BufferSet, StfRecord
<1>2. Before(Slots(t[tf].sets), Elements(d))
  BY <1>1 DEF Before
<1>3. /\ u = t[tf].sets \o <<d>> /\ <<d>> \in Seq(Seq(Block)) /\ IsQueue(<<d>>)
      /\ Slots(<<d>>) = Elements(d)
  BY <1>1, QueueOfOne
<1>4. u \in Seq(Seq(Block)) /\ IsQueue(u) /\ Slots(u) = Slots(t[tf].sets) \cup Elements(d)
  <2> DEFINE r == <<d>>
  <2>1. r \in Seq(Seq(Block)) /\ IsQueue(r) /\ Slots(r) = Elements(d) /\ u = t[tf].sets \o r
    BY <1>3
  <2> HIDE DEF r, u
  <2> QED BY <1>1, <1>2, <2>1, QueueConcat
<1>5. u # <<>>
  <2>1. Len(u) = Len(t[tf].sets) + 1 /\ Len(t[tf].sets) \in Nat
    BY <1>1, ElementsAppend
  <2> HIDE DEF u
  <2> QED BY <2>1
<1> HIDE DEF u
<1>6. [age |-> 0, sets |-> u] \in StfRecord
  BY <1>4, AggregatorAssumption DEF StfRecord
<1>7. /\ g \in [TimeframeIds -> StfRecord] /\ g[tf].sets = u
      /\ \A x \in TimeframeIds : x # tf => g[x] = t[x]
  BY <1>6 DEF u
<1>8. BufferOK(g)
  <2>1. ASSUME NEW x \in TimeframeIds
        PROVE  IsQueue(g[x].sets) /\ \A b \in Slots(g[x].sets) : b.tf = x
    <3>1. CASE x = tf
      BY <1>4, <1>7, <3>1 DEF BufferOK
    <3>2. CASE x # tf
      BY <1>7, <3>2 DEF BufferOK
    <3> QED BY <3>1, <3>2
  <2> QED BY <2>1 DEF BufferOK
<1> QED
  BY <1>5, <1>7, <1>8

\* Only this slice is new.
LEMMA BufferPutSet ==
  ASSUME NEW t \in [TimeframeIds -> StfRecord], BufferOK(t), NEW tf \in TimeframeIds,
         NEW d \in Seq(Block), IsSlice(d), Before(BufferSet(t), Elements(d)),
         \A b \in Elements(d) : b.tf = tf,
         NEW g, g = [t EXCEPT ![tf] = [age |-> 0, sets |-> Append(t[tf].sets, d)]]
  PROVE  BufferSet(g) = BufferSet(t) \cup Elements(d)
<1>1. Slots(g[tf].sets) = Slots(t[tf].sets) \cup Elements(d)
  <2>1. g[tf].sets = Append(t[tf].sets, d) /\ t[tf].sets \in Seq(Seq(Block))
    BY DEF StfRecord
  <2> QED BY <2>1, SlotsAppend
<1>2. \A x \in TimeframeIds : x # tf => g[x] = t[x]
  OBVIOUS
<1> QED
  BY <1>1, <1>2 DEF BufferSet

\* The first slice of a timeframe leaves the buffer.
LEMMA BufferTake ==
  ASSUME NEW t \in [TimeframeIds -> StfRecord], BufferOK(t), NEW tf \in TimeframeIds,
         t[tf].sets # <<>>, NEW d, d = Head(t[tf].sets), NEW g \in [TimeframeIds -> StfRecord],
         g[tf].sets = Tail(t[tf].sets), \A x \in TimeframeIds : x # tf => g[x] = t[x]
  PROVE  /\ BufferOK(g)
         /\ d \in Seq(Block) /\ IsSlice(d) /\ Elements(d) \subseteq BufferSet(t)
         /\ \A b \in Elements(d) : b.tf = tf /\ b \notin BufferSet(g)
         /\ BufferSet(g) \subseteq BufferSet(t)
         /\ \A b \in BufferSet(t) : b \in Elements(d) \/ b \in BufferSet(g)
<1> DEFINE u == Tail(t[tf].sets)
<1>1. t[tf].sets \in Seq(Seq(Block)) /\ IsQueue(t[tf].sets) /\ Slots(t[tf].sets) \subseteq BufferSet(t)
  BY DEF BufferOK, BufferSet, StfRecord
<1>2. /\ u \in Seq(Seq(Block)) /\ IsQueue(u) /\ d \in Seq(Block) /\ IsSlice(d)
      /\ Slots(t[tf].sets) = Slots(u) \cup Elements(d) /\ Before(Elements(d), Slots(u))
  BY <1>1, QueueTail
<1> HIDE DEF u
<1>3. /\ g \in [TimeframeIds -> StfRecord] /\ g[tf].sets = u
      /\ \A x \in TimeframeIds : x # tf => g[x] = t[x]
  BY DEF u
<1>4. Elements(d) \cap Slots(u) = {}
  BY <1>2, ElementsType, BeforeDisjoint
<1>5. \A x \in TimeframeIds : \A b \in Slots(t[x].sets) : b.tf = x
  BY DEF BufferOK
<1>6. \A b \in Elements(d) : b.tf = tf
  BY <1>2, <1>5
<1>7. \A x \in TimeframeIds : x # tf => Elements(d) \cap Slots(t[x].sets) = {}
  <2>1. ASSUME NEW x \in TimeframeIds, x # tf, NEW a \in Elements(d), NEW b \in Slots(t[x].sets)
        PROVE  a # b
    BY <1>5, <1>6, <2>1
  <2> QED BY <2>1
<1>8. BufferOK(g)
  <2>1. ASSUME NEW x \in TimeframeIds
        PROVE  IsQueue(g[x].sets) /\ \A b \in Slots(g[x].sets) : b.tf = x
    <3>1. CASE x = tf
      BY <1>2, <1>3, <1>5, <3>1
    <3>2. CASE x # tf
      BY <1>3, <3>2 DEF BufferOK
    <3> QED BY <3>1, <3>2
  <2> QED BY <2>1 DEF BufferOK
<1>9. BufferSet(g) = BufferSet(t) \ Elements(d)
  <2>1. /\ Slots(g[tf].sets) = Slots(u) /\ Slots(t[tf].sets) = Slots(u) \cup Elements(d)
        /\ \A x \in TimeframeIds : x # tf => Slots(g[x].sets) = Slots(t[x].sets)
    BY <1>2, <1>3
  <2> QED BY <1>4, <1>7, <2>1 DEF BufferSet
<1>10. /\ \A b \in Elements(d) : b \notin BufferSet(g)
       /\ BufferSet(g) \subseteq BufferSet(t)
       /\ \A b \in BufferSet(t) : b \in Elements(d) \/ b \in BufferSet(g)
  BY <1>9
<1> QED
  BY <1>1, <1>2, <1>3, <1>6, <1>8, <1>10

\* The slices of some sources are taken from the slicers.
LEMMA BuildingTake ==
  ASSUME NEW p \in [Sources -> SliceRecord], BuildingOK(p), NEW S, S \subseteq Sources,
         NEW g, g = Without(p, S)
  PROVE  /\ g \in [Sources -> SliceRecord] /\ BuildingOK(g)
         /\ BuildingSet(g) = BuildingSet(p) \ BlocksOf(p, S)
         /\ BlocksOf(p, S) \subseteq BuildingSet(p)
         /\ BuildingSet(g) \subseteq {b \in BuildingSet(p) : b.src \notin S}
         /\ \A s \in S : g[s].blocks = <<>>
<1>1. NoSlice \in SliceRecord /\ NoSlice.blocks = <<>> /\ Elements(<<>>) = {}
  BY AggregatorAssumption DEF NoSlice, SliceRecord, Elements
<1>2. /\ g \in [Sources -> SliceRecord]
      /\ \A s \in S : g[s] = NoSlice
      /\ \A s \in Sources : s \notin S => g[s] = p[s]
  BY <1>1 DEF Without
<1>3. BuildingOK(g)
  <2>1. ASSUME NEW s \in Sources
        PROVE  /\ g[s].blocks # <<>> => IsSlice(g[s].blocks)
               /\ \A b \in Elements(g[s].blocks) : b.src = s /\ b.tf = g[s].tf
               /\ s \in BadSources => g[s].blocks = <<>>
    <3>1. CASE s \in S
      BY <1>1, <1>2, <3>1
    <3>2. CASE s \notin S
      BY <1>2, <3>2 DEF BuildingOK
    <3> QED BY <3>1, <3>2
  <2> QED BY <2>1 DEF BuildingOK
<1>4. \A s \in Sources : \A b \in Elements(p[s].blocks) : b.src = s
  BY DEF BuildingOK
<1>5. /\ \A s \in S : Elements(g[s].blocks) = {}
      /\ \A s \in Sources : s \notin S => Elements(g[s].blocks) = Elements(p[s].blocks)
  BY <1>1, <1>2
<1>6. BuildingSet(g) \subseteq {b \in BuildingSet(p) : b.src \notin S}
  BY <1>4, <1>5 DEF BuildingSet
<1>7. BuildingSet(g) = BuildingSet(p) \ BlocksOf(p, S)
  <2>1. \A b \in BuildingSet(g) : b \notin BlocksOf(p, S)
    BY <1>4, <1>6 DEF BlocksOf
  <2>2. \A b \in BuildingSet(p) : b \in BlocksOf(p, S) \/ b \in BuildingSet(g)
    BY <1>5 DEF BuildingSet, BlocksOf
  <2> QED BY <1>6, <2>1, <2>2
<1>8. BlocksOf(p, S) \subseteq BuildingSet(p)
  BY DEF BuildingSet, BlocksOf
<1> QED
  BY <1>1, <1>2, <1>3, <1>6, <1>7, <1>8

\* A slice being built starts, or goes on, with a block.
LEMMA BuildingPut ==
  ASSUME NEW p \in [Sources -> SliceRecord], BuildingOK(p), NEW b \in Block,
         b.src \notin BadSources, Before(BuildingSet(p), {b}),
         p[b.src].blocks # <<>> => p[b.src].tf = b.tf /\ b.tf # undefinedTimeframeId,
         NEW g, g = [p EXCEPT ![b.src] = [tf |-> b.tf, blocks |-> Append(p[b.src].blocks, b), age |-> 0]]
  PROVE  /\ g \in [Sources -> SliceRecord] /\ BuildingOK(g)
         /\ BuildingSet(g) = BuildingSet(p) \cup {b}
<1> DEFINE s == b.src
           d == p[s].blocks
           e == Append(d, b)
           r == [tf |-> b.tf, blocks |-> e, age |-> 0]
<1>1. s \in Sources /\ b.tf \in TimeframeIds /\ d \in Seq(Block) /\ Elements(d) \subseteq BuildingSet(p)
  BY DEF Block, SliceRecord, BuildingSet
<1>2. e \in Seq(Block) /\ Elements(e) = Elements(d) \cup {b}
  BY <1>1, ElementsAppend
<1>3. \A c \in Elements(d) : c.src = s /\ c.tf = b.tf
  <2>1. \A c \in Elements(d) : c.src = s /\ c.tf = p[s].tf
    BY <1>1 DEF BuildingOK
  <2>2. d = <<>> => Elements(d) = {}
    BY <1>1, ElementsType
  <2> QED BY <2>1, <2>2
<1>4. IsSlice(e)
  <2>1. CASE d = <<>>
    <3>1. e = <<b>>
      BY <2>1
    <3> QED BY <3>1, SliceOfOne
  <2>2. CASE d # <<>>
    <3>1. IsSlice(d)
      BY <1>1, <2>2 DEF BuildingOK
    <3>2. Before(Elements(d), {b})
      BY <1>1 DEF Before
    <3> QED BY <1>1, <1>3, <2>2, <3>1, <3>2, SliceGrows
  <2> QED BY <2>1, <2>2
<1> HIDE DEF e
<1>5. r \in SliceRecord
  BY <1>1, <1>2, AggregatorAssumption DEF SliceRecord
<1>6. /\ g \in [Sources -> SliceRecord] /\ g[s].blocks = e /\ g[s].tf = b.tf
      /\ \A x \in Sources : x # s => g[x] = p[x]
  BY <1>1, <1>5 DEF e
<1>7. BuildingOK(g)
  <2>1. ASSUME NEW x \in Sources
        PROVE  /\ g[x].blocks # <<>> => IsSlice(g[x].blocks)
               /\ \A c \in Elements(g[x].blocks) : c.src = x /\ c.tf = g[x].tf
               /\ x \in BadSources => g[x].blocks = <<>>
    <3>1. CASE x = s
      BY <1>2, <1>3, <1>4, <1>6, <3>1
    <3>2. CASE x # s
      BY <1>6, <3>2 DEF BuildingOK
    <3> QED BY <3>1, <3>2
  <2> QED BY <2>1 DEF BuildingOK
<1>8. BuildingSet(g) = BuildingSet(p) \cup {b}
  <2>1. /\ Elements(g[s].blocks) = Elements(p[s].blocks) \cup {b}
        /\ \A x \in Sources : x # s => Elements(g[x].blocks) = Elements(p[x].blocks)
    BY <1>2, <1>6
  <2> QED BY <1>1, <2>1 DEF BuildingSet
<1> QED
  BY <1>6, <1>7, <1>8


-----------------------------------------------------------------------------
(* Numbers and order.                                                      *)

\* A set of natural numbers has a least element.
LEMMA FirstIsLeast ==
  ASSUME NEW T, T \subseteq Nat, T # {}
  PROVE  First(T) \in T /\ \A y \in T : First(T) <= y
<1> DEFINE R == OpToRel(<, Nat)
<1>1. IsWellFoundedOn(R, Nat)
  BY NatLessThanWellFounded
<1>2. \A x, y \in Nat : y < x => <<y, x>> \in R
  BY DEF OpToRel
<1> HIDE DEF R
<1>3. \E x \in T : \A y \in T : ~ (<<y, x>> \in R)
  BY <1>1, WFMin
<1>4. PICK x \in T : \A y \in T : ~ (<<y, x>> \in R)
  BY <1>3, Zenon
<1>5. ASSUME NEW y \in T PROVE x <= y
  <2>1. x \in Nat /\ y \in Nat
    OBVIOUS
  <2>2. ~ (<<y, x>> \in R)
    BY <1>4, Zenon
  <2>3. ~ (y < x)
    BY <1>2, <2>1, <2>2, Zenon
  <2> QED
    BY <2>1, <2>3
<1>6. \E z \in T : \A y \in T : z <= y
  BY <1>5
<1> QED
  BY <1>6 DEF First

\* The sources of a set, by their rank.
Ranked(S) == [k \in 1 .. Cardinality(S) |-> CHOOSE s \in S : Cardinality({x \in S : x <= s}) = k]

\* Each source of a set has one rank.
LEMMA Ranks ==
  ASSUME NEW S, S \subseteq Sources
  PROVE  /\ Cardinality(S) \in Nat /\ Ranked(S) \in [1 .. Cardinality(S) -> S]
         /\ \A k, l \in 1 .. Cardinality(S) : Ranked(S)[k] = Ranked(S)[l] => k = l
         /\ \A s \in S : \E k \in 1 .. Cardinality(S) : Ranked(S)[k] = s
<1> DEFINE n == Cardinality(S)
           a == Ranked(S)
<1>0. a = [k \in 1 .. n |-> CHOOSE s \in S : Cardinality({x \in S : x <= s}) = k]
  BY DEF Ranked
<1>n. n = Cardinality(S)
  OBVIOUS
<1> HIDE DEF a, n
<1> DEFINE D(s) == {x \in S : x <= s}
           r == [s \in S |-> Cardinality(D(s))]
<1>1. NSources \in Nat /\ S \subseteq Int
  BY AggregatorAssumption DEF Sources
<1>2. IsFiniteSet(S) /\ n \in Nat
  <2>1. IsFiniteSet(1 .. NSources)
    BY <1>1, FS_Interval
  <2>2. IsFiniteSet(S)
    BY <2>1, FS_Subset DEF Sources
  <2> QED BY <1>n, <2>2, FS_CardinalityType
<1>3. ASSUME NEW s \in S
      PROVE  IsFiniteSet(D(s)) /\ Cardinality(D(s)) \in 1 .. n
  <2>1. D(s) \in SUBSET S /\ s \in D(s)
    BY <1>1
  <2> HIDE DEF D
  <2>2. IsFiniteSet(D(s)) /\ Cardinality(D(s)) <= n
    BY <1>2, <1>n, <2>1, FS_Subset
  <2>3. Cardinality(D(s)) \in Nat
    BY <2>2, FS_CardinalityType
  <2>4. Cardinality(D(s)) # 0
    BY <2>1, <2>2, FS_EmptySet
  <2> QED BY <1>2, <2>2, <2>3, <2>4
<1>4. ASSUME NEW s \in S, NEW t \in S, s < t PROVE Cardinality(D(s)) # Cardinality(D(t))
  <2>1. D(s) \in SUBSET D(t)
    <3>1. ASSUME NEW x \in S, x <= s PROVE x <= t
      <4>1. x \in Int /\ s \in Int /\ t \in Int
        BY <1>1
      <4> QED BY <1>4, <3>1, <4>1
    <3> QED BY <3>1
  <2>2. t \in D(t) /\ t \notin D(s)
    BY <1>1, <1>4
  <2> HIDE DEF D
  <2> QED BY <1>3, <2>1, <2>2, FS_Subset
<1> HIDE DEF D
<1>5. \A s, t \in S : r[s] = r[t] => s = t
  <2>1. ASSUME NEW s \in S, NEW t \in S, r[s] = r[t], s # t PROVE FALSE
    <3>1. s < t \/ t < s
      BY <1>1, <2>1
    <3> QED BY <1>4, <2>1, <3>1
  <2> QED BY <2>1
<1>6. r \in Injection(S, 1 .. n)
  BY <1>3, <1>5 DEF Injection, IsInjective
<1>7. IsFiniteSet(1 .. n) /\ Cardinality(1 .. n) = n
  <2>1. 1 \in Int /\ n \in Int
    BY <1>2
  <2>2. IsFiniteSet(1 .. n)
    BY <2>1, FS_Interval
  <2>3. Cardinality(1 .. n) = IF 1 > n THEN 0 ELSE n - 1 + 1
    BY <2>1, FS_Interval, Zenon
  <2> QED BY <1>2, <2>2, <2>3
<1>8. r \in Surjection(S, 1 .. n)
  <2> HIDE DEF r
  <2> QED BY <1>2, <1>6, <1>7, <1>n, FS_Injection
<1>9. \A k \in 1 .. n : \E s \in S : r[s] = k
  <2> HIDE DEF r
  <2> QED BY <1>8 DEF Surjection
<1>10. ASSUME NEW k \in 1 .. n PROVE a[k] \in S /\ r[a[k]] = k
  <2>1. \E s \in S : Cardinality(D(s)) = k
    BY <1>9
  <2>2. a[k] = CHOOSE s \in S : Cardinality(D(s)) = k
    BY <1>0 DEF D
  <2>3. a[k] \in S /\ Cardinality(D(a[k])) = k
    BY <2>1, <2>2
  <2> QED BY <2>3
<1>11. a \in [1 .. n -> S]
  <2> DEFINE c(k) == CHOOSE s \in S : Cardinality({x \in S : x <= s}) = k
  <2>1. a = [k \in 1 .. n |-> c(k)]
    BY <1>0
  <2> HIDE DEF c
  <2>2. \A k \in 1 .. n : c(k) \in S
    BY <1>10, <2>1
  <2> QED BY <2>1, <2>2
<1>12. \A k, l \in 1 .. n : a[k] = a[l] => k = l
  <2> HIDE DEF r
  <2>1. ASSUME NEW k \in 1 .. n, NEW l \in 1 .. n, a[k] = a[l] PROVE k = l
    <3>1. r[a[k]] = k /\ r[a[l]] = l
      BY <1>10
    <3> QED BY <2>1, <3>1
  <2> QED BY <2>1
<1>13. ASSUME NEW s \in S PROVE \E k \in 1 .. n : a[k] = s
  <2>1. r[s] \in 1 .. n
    BY <1>3
  <2> HIDE DEF r
  <2>2. r[a[r[s]]] = r[s] /\ a[r[s]] \in S
    BY <1>10, <2>1
  <2>3. a[r[s]] = s
    BY <1>5, <2>2
  <2> QED BY <2>1, <2>3
<1> QED
  BY <1>2, <1>11, <1>12, <1>13 DEF a, n

\* The slices of some sources, one after the other, are a queue.
LEMMA SlicesQueued ==
  ASSUME partial \in [Sources -> SliceRecord], BuildingOK(partial),
         NEW S, S \subseteq Sources, \A s \in S : partial[s].blocks # <<>>
  PROVE  /\ SlicesOf(S) \in Seq(Seq(Block)) /\ IsQueue(SlicesOf(S))
         /\ Slots(SlicesOf(S)) = BlocksOf(partial, S)
<1> DEFINE n == Cardinality(S)
           a == Ranked(S)
           q == SlicesOf(S)
<1>1. /\ n \in Nat /\ a \in [1 .. n -> S]
      /\ \A k, l \in 1 .. n : a[k] = a[l] => k = l
      /\ \A s \in S : \E k \in 1 .. n : a[k] = s
  BY Ranks
<1>2. q = [k \in 1 .. n |-> partial[a[k]].blocks]
  BY DEF SlicesOf, Ranked
<1> HIDE DEF a, q, n
<1>3. \A s \in S : partial[s].blocks \in Seq(Block) /\ IsSlice(partial[s].blocks)
  BY DEF BuildingOK, SliceRecord
<1>4. /\ q \in Seq(Seq(Block)) /\ Len(q) = n
      /\ \A k \in 1 .. n : q[k] = partial[a[k]].blocks /\ a[k] \in S
  BY <1>1, <1>2, <1>3
<1>5. \A k \in 1 .. n : \A b \in Elements(q[k]) : b.src = a[k]
  BY <1>4 DEF BuildingOK
<1>6. IsQueue(q)
  <2>1. \A k \in 1 .. Len(q) : IsSlice(q[k])
    BY <1>3, <1>4
  <2>2. ASSUME NEW k \in 1 .. Len(q), NEW l \in 1 .. Len(q), k < l
        PROVE  Before(Elements(q[k]), Elements(q[l]))
    <3>1. k \in 1 .. n /\ l \in 1 .. n /\ k # l
      BY <1>1, <1>4, <2>2
    <3>2. a[k] # a[l]
      BY <1>1, <3>1
    <3>3. ASSUME NEW b \in Elements(q[k]), NEW c \in Elements(q[l]) PROVE b.src # c.src
      BY <1>5, <3>1, <3>2
    <3> QED BY <3>3 DEF Before
  <2> QED BY <2>1, <2>2 DEF IsQueue
<1>7. Slots(q) = BlocksOf(partial, S)
  <2>1. Slots(q) = UNION {Elements(q[k]) : k \in 1 .. n}
    BY <1>4, SlotsType
  <2>2. \A k \in 1 .. n : Elements(q[k]) = Elements(partial[a[k]].blocks) /\ a[k] \in S
    BY <1>4
  <2>3. \A s \in S : \E k \in 1 .. n : Elements(q[k]) = Elements(partial[s].blocks)
    <3>1. ASSUME NEW s \in S PROVE \E k \in 1 .. n : Elements(q[k]) = Elements(partial[s].blocks)
      <4>1. PICK k \in 1 .. n : a[k] = s
        BY <1>1
      <4> QED BY <2>2, <4>1
    <3> QED BY <3>1
  <2> QED BY <2>1, <2>2, <2>3 DEF BlocksOf
<1> QED
  BY <1>4, <1>6, <1>7 DEF q

\* Blocks that move from one place to another stay in one place.
LEMMA Moved ==
  ASSUME NEW U, NEW P, NEW Q, Partition(P, U), NEW k \in 1 .. 8, NEW l \in 1 .. 8, k # l,
         NEW X, X \subseteq P[k], Q[k] = P[k] \ X, Q[l] = P[l] \cup X,
         \A m \in 1 .. 8 : m \notin {k, l} => Q[m] = P[m]
  PROVE  Partition(Q, U)
<1>1. \A m, o \in 1 .. 8 : m # o => P[m] \cap P[o] = {}
  <2>1. \A m, o \in 1 .. 8 : m # o => m < o \/ o < m
    OBVIOUS
  <2> QED BY <2>1 DEF Partition
<1>2. ASSUME NEW m \in 1 .. 8, NEW o \in 1 .. 8, m # o, NEW x \in Q[m] \cap Q[o] PROVE FALSE
  <2>1. \A y \in 1 .. 8 : x \in Q[y] => x \in P[y] \/ (y = l /\ x \in X)
    OBVIOUS
  <2>2. x \in Q[k] => x \notin X
    OBVIOUS
  <2>3. x \in X => x \in P[k] /\ \A y \in 1 .. 8 : y # k => x \notin P[y]
    BY <1>1
  <2> QED BY <1>1, <1>2, <2>1, <2>2, <2>3
<1>3. UNION {Q[m] : m \in 1 .. 8} = UNION {P[m] : m \in 1 .. 8}
  <2>1. ASSUME NEW m \in 1 .. 8, NEW x \in Q[m] PROVE \E o \in 1 .. 8 : x \in P[o]
    BY <2>1
  <2>2. ASSUME NEW m \in 1 .. 8, NEW x \in P[m] PROVE \E o \in 1 .. 8 : x \in Q[o]
    BY <2>2
  <2> QED BY <2>1, <2>2
<1> QED
  BY <1>2, <1>3 DEF Partition


\* A block goes from the input to the slice being built.
LEMMA LinePop ==
  ASSUME NEW G, NEW Q, NEW B, NEW I, InLine(G, Q, B, I), NEW b \in I, Before({b}, I \ {b})
  PROVE  InLine(G, Q, B \cup {b}, I \ {b}) /\ Before(B, {b})
  BY DEF InLine, Before

\* Blocks being sliced go to the queue.
LEMMA LineComplete ==
  ASSUME NEW G, NEW Q, NEW B, NEW I, InLine(G, Q, B, I), NEW X, X \subseteq B, Before(X, B \ X)
  PROVE  InLine(G, Q \cup X, B \ X, I) /\ Before(Q, X)
  BY DEF InLine, Before

\* A complete slice leaves the slicer.
LEMMA LineRetrieve ==
  ASSUME NEW G, NEW Q, NEW B, NEW I, InLine(G, Q, B, I), NEW X, X \subseteq Q, Before(X, Q \ X)
  PROVE  InLine(G \cup X, Q \ X, B, I) /\ Before(G, X)
  BY DEF InLine, Before

\* An incomplete slice leaves the slicer.
LEMMA LineFlush ==
  ASSUME NEW G, NEW Q, NEW B, NEW I, InLine(G, Q, B, I), NEW X, X \subseteq B, Before(X, B \ X),
         Before(X, Q)
  PROVE  InLine(G \cup X, Q, B \ X, I) /\ Before(G, X)
  BY DEF InLine, Before

\* A block goes from the input to the output, or is refused.
LEMMA LineBypass ==
  ASSUME NEW G, NEW Q, NEW B, NEW I, InLine(G, Q, B, I), NEW b \in I, Before({b}, I \ {b}),
         Before({b}, Q \cup B)
  PROVE  InLine(G \cup {b}, Q, B, I \ {b}) /\ Before(G, {b})
  BY DEF InLine, Before

-----------------------------------------------------------------------------
(* The loop counters.                                                      *)

\* The types of the variables that hold no data.
ControlOK ==
  /\ mode \in Modes
  /\ run \in {"off", "on", "stopping"}
  /\ nextIndex \in 0 .. NInputs - 1
  /\ doFlush \in BOOLEAN
  /\ pc \in {"idle", "pop", "retrieve", "emit", "dead"}
  /\ ix \in 0 .. NInputs - 1
  /\ j \in 0 .. MaxLoop
  /\ executeFlush \in BOOLEAN
  /\ busy \in BOOLEAN

\* The types of the variables that hold data.
DataOK ==
  /\ inputs \in [Inputs -> Seq(Block)]
  /\ \A i \in Inputs : Len(inputs[i]) <= InputSize
  /\ partial \in [Sources -> SliceRecord]
  /\ slices \in [Inputs -> Seq(Seq(Block))]
  /\ stfBuffer \in [TimeframeIds -> StfRecord]
  /\ lastTimeframeId \in TimeframeIds \cup {undefinedTimeframeId}
  /\ output \in Seq(DataSet) /\ Len(output) <= OutputSize
  /\ produced \subseteq Block
  /\ delivered \subseteq Block
  /\ closed \subseteq TimeframeIds
  /\ late \subseteq Block
  /\ dropped \subseteq Block
  /\ wrong \subseteq Block

\* The two halves of the type invariant.
LEMMA TypeParts ==
  /\ TypeOK <=> ControlOK /\ DataOK
  /\ TypeOK' <=> ControlOK' /\ DataOK'
<1>1. TypeOK <=> ControlOK /\ DataOK
  BY DEF TypeOK, ControlOK, DataOK
<1>2. TypeOK' <=> ControlOK' /\ DataOK'
  BY DEF TypeOK, ControlOK, DataOK
<1> QED
  BY <1>1, <1>2

\* A remainder.
LEMMA Remainder ==
  ASSUME NEW x \in Nat, NEW n \in Nat \ {0}
  PROVE  x % n \in 0 .. n - 1
  OBVIOUS

\* The thread looks at one of the inputs.
LEMMA CurrentInputType ==
  ASSUME ControlOK
  PROVE  CurrentInput \in Inputs
<1>1. NInputs \in Nat \ {0} /\ ix + nextIndex \in Nat
  BY AggregatorAssumption DEF ControlOK
<1>2. (ix + nextIndex) % NInputs \in 0 .. NInputs - 1
  BY <1>1, Remainder
<1> QED
  BY <1>1, <1>2 DEF CurrentInput, Inputs

\* The loop over the inputs keeps its counters within bounds.
LEMMA NextInputType ==
  ASSUME ControlOK, NextInput
  PROVE  /\ nextIndex' \in 0 .. NInputs - 1 /\ ix' \in 0 .. NInputs - 1 /\ j' \in 0 .. MaxLoop
         /\ pc' \in {"pop", "emit"}
<1>1. NInputs \in Nat \ {0} /\ nextIndex + 1 \in Nat /\ ix \in 0 .. NInputs - 1
      /\ nextIndex \in 0 .. NInputs - 1 /\ MaxLoop \in Nat
  BY AggregatorAssumption DEF ControlOK
<1>2. (nextIndex + 1) % NInputs \in 0 .. NInputs - 1
  BY <1>1, Remainder
<1> QED
  BY <1>1, <1>2 DEF NextInput, AdvanceIndex

\* The variables that hold no data keep their types.
LEMMA ControlKept ==
  ASSUME ControlOK, Next
  PROVE  ControlOK'
<1> USE AggregatorAssumption
<1>1. 0 \in 0 .. MaxLoop /\ 0 \in 0 .. NInputs - 1
  OBVIOUS
<1>z. TRUE \in BOOLEAN /\ FALSE \in BOOLEAN
  OBVIOUS
<1>2. CASE Start
  BY <1>1, <1>z, <1>2, Zenon DEF ControlOK, Start, Reset, localVars
<1>3. CASE Stop
  BY <1>1, <1>3 DEF ControlOK, Stop, localVars
<1>4. CASE Join
  BY <1>1, <1>z, <1>4, Zenon DEF ControlOK, Join, Reset, localVars
<1>5. CASE RequestFlush
  BY <1>1, <1>5 DEF ControlOK, RequestFlush, localVars, controlVars
<1>6. CASE \E s \in Sources : \E tf \in TimeframesOf[s] : Produce(s, tf)
  BY <1>1, <1>6 DEF ControlOK, Produce, localVars, controlVars
<1>7. CASE Consume
  BY <1>1, <1>7 DEF ControlOK, Consume, localVars, controlVars
<1>8. CASE \E d \in 0 .. 1 : Begin(d)
  BY <1>1, <1>8 DEF ControlOK, Begin, controlVars
<1>9. CASE PassThrough
  <2>1. UNCHANGED <<mode, run, doFlush>>
    BY <1>9 DEF PassThrough, controlVars
  <2>2. \/ Return /\ UNCHANGED nextIndex
        \/ NextInput /\ UNCHANGED <<executeFlush, busy>>
        \/ NextInput /\ UNCHANGED executeFlush /\ busy' = TRUE
    BY <1>9, Zenon DEF PassThrough
  <2>3. CASE Return /\ UNCHANGED nextIndex
    BY <1>1, <1>z, <2>1, <2>3, Zenon DEF ControlOK, Return
  <2>4. CASE NextInput /\ UNCHANGED <<executeFlush, busy>>
    BY <2>1, <2>4, NextInputType DEF ControlOK
  <2>5. CASE NextInput /\ UNCHANGED executeFlush /\ busy' = TRUE
    BY <1>z, <2>1, <2>5, NextInputType DEF ControlOK
  <2> QED BY <2>2, <2>3, <2>4, <2>5
<1>10. CASE PopBlock
  BY <1>1, <1>10 DEF ControlOK, PopBlock, controlVars
<1>11. CASE PopWrongBlock
  BY <1>1, <1>z, <1>11, Zenon DEF ControlOK, PopWrongBlock, controlVars
<1>12. CASE PopDone
  BY <1>1, <1>12 DEF ControlOK, PopDone, controlVars
<1>13. CASE Retrieve
  BY <1>1, <1>13 DEF ControlOK, Retrieve, controlVars
<1>14. CASE RetrieveFull
  BY <1>1, <1>z, <1>14, Zenon DEF ControlOK, RetrieveFull, Return, controlVars
<1>15. CASE RetrieveDone
  BY <1>1, <1>15, NextInputType DEF ControlOK, RetrieveDone, controlVars
<1>16. CASE \E tf \in TimeframeIds : Emit(tf)
  BY <1>1, <1>16 DEF ControlOK, Emit, localVars, controlVars
<1>17. CASE End
  BY <1>1, <1>z, <1>17, Zenon DEF ControlOK, End, Return, controlVars
<1> QED
  BY <1>2, <1>3, <1>4, <1>5, <1>6, <1>7, <1>8, <1>9, <1>10, <1>11, <1>12, <1>13, <1>14, <1>15,
     <1>16, <1>17 DEF Next, Callback


-----------------------------------------------------------------------------
(* Steps that move no block.                                               *)

\* The eight places, before and after a step.
LEMMA PlacesAre ==
  /\ Places[1] = InputSet(inputs) /\ Places[2] = BuildingSet(partial)
  /\ Places[3] = QueueSet(slices) /\ Places[4] = BufferSet(stfBuffer)
  /\ Places[5] = delivered /\ Places[6] = late /\ Places[7] = dropped /\ Places[8] = wrong
  /\ Places'[1] = InputSet(inputs') /\ Places'[2] = BuildingSet(partial')
  /\ Places'[3] = QueueSet(slices') /\ Places'[4] = BufferSet(stfBuffer')
  /\ Places'[5] = delivered' /\ Places'[6] = late' /\ Places'[7] = dropped' /\ Places'[8] = wrong'
<1>1. /\ Places[1] = InputSet(inputs) /\ Places[2] = BuildingSet(partial)
      /\ Places[3] = QueueSet(slices) /\ Places[4] = BufferSet(stfBuffer)
      /\ Places[5] = delivered /\ Places[6] = late /\ Places[7] = dropped /\ Places[8] = wrong
  BY DEF Places, InputSet, BuildingSet, QueueSet, BufferSet
<1>2. /\ Places'[1] = InputSet(inputs') /\ Places'[2] = BuildingSet(partial')
      /\ Places'[3] = QueueSet(slices') /\ Places'[4] = BufferSet(stfBuffer')
      /\ Places'[5] = delivered' /\ Places'[6] = late' /\ Places'[7] = dropped' /\ Places'[8] = wrong'
  BY DEF Places, InputSet, BuildingSet, QueueSet, BufferSet
<1> QED
  BY <1>1, <1>2

\* The places hold the same blocks.
LEMMA SamePartition ==
  ASSUME NEW U, NEW P, NEW Q, Partition(P, U), \A k \in 1 .. 8 : Q[k] = P[k]
  PROVE  Partition(Q, U)
<1>1. {Q[k] : k \in 1 .. 8} = {P[k] : k \in 1 .. 8}
  OBVIOUS
<1> QED
  BY <1>1 DEF Partition

\* The numbers from 1 to 8.
LEMMA Eight ==
  ASSUME NEW k \in 1 .. 8
  PROVE  k = 1 \/ k = 2 \/ k = 3 \/ k = 4 \/ k = 5 \/ k = 6 \/ k = 7 \/ k = 8
  OBVIOUS

\* The facts about timeframes, when nothing enters or leaves the buffer.
LEMMA SameTimeframes ==
  ASSUME Timeframes, UNCHANGED <<mode, lastTimeframeId, closed, delivered, late>>,
         delivered \subseteq Block, Buffered' = Buffered,
         \/ pc # "emit"
         \/ UNCHANGED <<pc, stfBuffer, executeFlush>>
         \/ mode = "stf" => \A tf \in TimeframeIds : ~ TimeframeReady(tf)
  PROVE  Timeframes'
<1>1. ASSUME mode = "stf", NEW b \in delivered
      PROVE  b.tf <= lastTimeframeId \/ (pc' = "emit" /\ TimeframeReady(b.tf)')
  <2>1. b.tf <= lastTimeframeId \/ (pc = "emit" /\ TimeframeReady(b.tf))
    BY <1>1 DEF Timeframes
  <2>2. b.tf \in TimeframeIds
    BY DEF Block
  <2>3. CASE b.tf <= lastTimeframeId
    BY <2>3
  <2>4. CASE pc = "emit" /\ TimeframeReady(b.tf)
    <3>1. UNCHANGED <<pc, stfBuffer, executeFlush>>
      BY <1>1, <2>2, <2>4
    <3>2. TimeframeReady(b.tf)'
      BY <2>4, <3>1 DEF TimeframeReady
    <3> QED BY <2>4, <3>1, <3>2
  <2> QED BY <2>1, <2>3, <2>4
<1>2. /\ lastTimeframeId' \in closed' \cup {undefinedTimeframeId}
      /\ \A tf \in closed' : tf <= lastTimeframeId'
      /\ \A tf \in Buffered' : lastTimeframeId' < tf
      /\ \A b \in late' : b.tf <= lastTimeframeId'
  BY DEF Timeframes
<1>3. mode' = "stf" =>
        \A b \in delivered' : b.tf <= lastTimeframeId' \/ (pc' = "emit" /\ TimeframeReady(b.tf)')
  BY <1>1
<1> QED
  BY <1>2, <1>3 DEF Timeframes

\* A step that moves no block keeps the invariant.
LEMMA SameData ==
  ASSUME IInv, ControlOK',
         UNCHANGED <<mode, inputs, slices, lastTimeframeId, closed, delivered, late, dropped, wrong,
                     produced>>,
         run' = "off" => run = "off", mode = "pass" => pc' # "retrieve",
         output' \in Seq(DataSet), Len(output') <= OutputSize,
         \A k \in 1 .. Len(output') : IsSlice(output'[k].blocks),
         partial' \in [Sources -> SliceRecord],
         \A s \in Sources :
           /\ partial'[s].blocks = partial[s].blocks
           /\ partial[s].blocks # <<>> => partial'[s].tf = partial[s].tf,
         stfBuffer' \in [TimeframeIds -> StfRecord],
         \A tf \in TimeframeIds : stfBuffer'[tf].sets = stfBuffer[tf].sets,
         \/ pc # "emit"
         \/ UNCHANGED <<pc, stfBuffer, executeFlush>>
         \/ mode = "stf" => \A tf \in TimeframeIds : ~ TimeframeReady(tf)
  PROVE  IInv'
<1>1. TypeOK /\ DataOK
  BY TypeParts DEF IInv
<1>2. TypeOK'
  <2>1. DataOK'
    BY <1>1 DEF DataOK
  <2> QED BY <2>1, TypeParts
<1>3. /\ BuildingSet(partial') = BuildingSet(partial)
      /\ BufferSet(stfBuffer') = BufferSet(stfBuffer)
  BY DEF BuildingSet, BufferSet
<1>4. BuildingOK(partial')
  <2>1. ASSUME NEW s \in Sources
        PROVE  /\ partial'[s].blocks # <<>> => IsSlice(partial'[s].blocks)
               /\ \A b \in Elements(partial'[s].blocks) : b.src = s /\ b.tf = partial'[s].tf
               /\ s \in BadSources => partial'[s].blocks = <<>>
    <3>1. /\ partial[s].blocks # <<>> => IsSlice(partial[s].blocks)
          /\ \A b \in Elements(partial[s].blocks) : b.src = s /\ b.tf = partial[s].tf
          /\ s \in BadSources => partial[s].blocks = <<>>
      BY DEF IInv, BuildingOK
    <3>2. partial[s].blocks = <<>> => Elements(partial[s].blocks) = {}
      BY DEF Elements
    <3> QED BY <3>1, <3>2
  <2> QED BY <2>1 DEF BuildingOK
<1>5. BufferOK(stfBuffer')
  BY DEF IInv, BufferOK
<1>6. Partition(Places', produced')
  <2>1. ASSUME NEW k \in 1 .. 8 PROVE Places'[k] = Places[k]
    BY <1>3, Eight, PlacesAre
  <2> QED BY <2>1, SamePartition DEF IInv
<1>7. Lined'
  BY <1>3 DEF IInv, Lined, Gone
<1>8. Numbered'
  BY DEF IInv, Numbered
<1>9. Timeframes'
  <2>1. Buffered' = Buffered
    BY DEF Buffered
  <2> QED BY <1>1, <2>1, SameTimeframes DEF IInv, DataOK
<1>10. Idle'
  BY <1>3 DEF IInv, Idle
<1>11. InputsOK(inputs') /\ QueuesOK(slices')
  BY DEF IInv
<1> QED
  BY <1>2, <1>4, <1>5, <1>6, <1>7, <1>8, <1>9, <1>10, <1>11 DEF IInv


\* The slicers and the buffer as they are.
LEMMA SameSlices ==
  ASSUME IInv, ControlOK',
         UNCHANGED <<mode, inputs, partial, slices, stfBuffer, lastTimeframeId, closed, output, delivered,
                     late, dropped, wrong, produced>>,
         run' = "off" => run = "off", mode = "pass" => pc' # "retrieve",
         \/ pc # "emit"
         \/ UNCHANGED <<pc, executeFlush>>
         \/ mode = "stf" => \A tf \in TimeframeIds : ~ TimeframeReady(tf)
  PROVE  IInv'
<1>1. DataOK
  BY TypeParts DEF IInv
<1>2. \A k \in 1 .. Len(output') : IsSlice(output'[k].blocks)
  BY DEF IInv
<1> QED
  BY <1>1, <1>2, SameData DEF DataOK

\* Stop, RequestFlush and the steps by which the callback only goes on keep the invariant.
LEMMA QuietKeeps ==
  ASSUME IInv, ControlOK', Stop \/ RequestFlush \/ RetrieveFull \/ RetrieveDone \/ End
  PROVE  IInv'
<1>1. ControlOK
  BY TypeParts DEF IInv
<1>2. mode = "pass" => pc # "retrieve"
  BY DEF IInv, Idle
<1>3. CASE Stop
  BY <1>2, <1>3, SameSlices DEF Stop, slicerVars, stfVars, outVars, localVars
<1>4. CASE RequestFlush
  BY <1>2, <1>4, SameSlices DEF RequestFlush, controlVars, slicerVars, stfVars, outVars, localVars
<1>5. CASE RetrieveFull
  BY <1>2, <1>5, SameSlices DEF RetrieveFull, Return, controlVars, slicerVars, stfVars, outVars
<1>6. CASE RetrieveDone
  <2>1. pc' \in {"pop", "emit"}
    BY <1>1, <1>6, NextInputType DEF RetrieveDone
  <2> QED
    BY <1>2, <1>6, <2>1, SameSlices DEF RetrieveDone, controlVars, slicerVars, stfVars, outVars
<1>7. CASE End
  BY <1>2, <1>7, SameSlices DEF End, Return, controlVars, slicerVars, stfVars, outVars
<1> QED
  BY <1>3, <1>4, <1>5, <1>6, <1>7

\* The main loop takes the first data set.
LEMMA ConsumeKeeps ==
  ASSUME IInv, ControlOK', Consume
  PROVE  IInv'
<1>1. DataOK
  BY TypeParts DEF IInv
<1>2. /\ output \in Seq(DataSet) /\ output # <<>> /\ output' = Tail(output) /\ Len(output) <= OutputSize
      /\ OutputSize \in Nat
  BY <1>1, AggregatorAssumption DEF DataOK, Consume
<1>3. /\ output' \in Seq(DataSet) /\ Len(output) \in Nat \ {0} /\ Len(output') = Len(output) - 1
      /\ \A k \in 1 .. Len(output) - 1 : output'[k] = output[k + 1]
  BY <1>2, ElementsTail
<1>4. Len(output') <= OutputSize
  BY <1>2, <1>3
<1>5. ASSUME NEW k \in 1 .. Len(output') PROVE IsSlice(output'[k].blocks)
  <2>1. k \in 1 .. Len(output) - 1 /\ k + 1 \in 1 .. Len(output)
    BY <1>3
  <2>2. output'[k] = output[k + 1]
    BY <1>3, <2>1
  <2> QED BY <2>1, <2>2 DEF IInv
<1>6. mode = "pass" => pc # "retrieve"
  BY DEF IInv, Idle
<1>7. /\ UNCHANGED <<mode, run, inputs, slices, partial, stfBuffer, lastTimeframeId, closed, delivered,
                    late, dropped, wrong, produced, pc, executeFlush>>
  BY DEF Consume, controlVars, slicerVars, stfVars, localVars
<1>8. \A k \in 1 .. Len(output') : IsSlice(output'[k].blocks)
  BY <1>5
<1> QED
  BY <1>1, <1>3, <1>4, <1>6, <1>7, <1>8, SameData DEF DataOK

\* An age stops at the timeout.
LEMMA OlderType ==
  ASSUME NEW t \in Nat, NEW a \in 0 .. t, NEW d \in 0 .. 1
  PROVE  Older(a, d, t) \in 0 .. t
  BY DEF Older

\* The callback reads the time.
LEMMA BeginKeeps ==
  ASSUME IInv, ControlOK', NEW d \in 0 .. 1, Begin(d)
  PROVE  IInv'
<1>1. DataOK
  BY TypeParts DEF IInv
<1>2. /\ partial \in [Sources -> SliceRecord] /\ stfBuffer \in [TimeframeIds -> StfRecord]
      /\ output \in Seq(DataSet) /\ Len(output) <= OutputSize
  BY <1>1 DEF DataOK
<1>3. SliceTimeout \in Nat /\ StfTimeout \in Nat
  BY AggregatorAssumption
<1>4. ASSUME NEW s \in Sources
      PROVE  /\ partial'[s] \in SliceRecord /\ partial'[s].blocks = partial[s].blocks
             /\ partial[s].blocks # <<>> => partial'[s].tf = partial[s].tf
  <2>1. partial'[s] = IF partial[s].blocks = <<>> THEN NoSlice
                      ELSE [partial[s] EXCEPT !.age = Older(@, d, SliceTimeout)]
    BY DEF Begin
  <2>2. partial[s] \in SliceRecord
    BY <1>2
  <2>3. Older(partial[s].age, d, SliceTimeout) \in 0 .. SliceTimeout
    BY <1>3, <2>2, OlderType DEF SliceRecord
  <2>4. NoSlice \in SliceRecord /\ NoSlice.blocks = <<>>
    BY <1>3 DEF NoSlice, SliceRecord
  <2> QED BY <2>1, <2>2, <2>3, <2>4 DEF SliceRecord
<1>5. ASSUME NEW tf \in TimeframeIds
      PROVE  stfBuffer'[tf] \in StfRecord /\ stfBuffer'[tf].sets = stfBuffer[tf].sets
  <2>1. stfBuffer'[tf] = IF stfBuffer[tf].sets = <<>> THEN NoStf
                         ELSE [stfBuffer[tf] EXCEPT !.age = Older(@, d, StfTimeout)]
    BY DEF Begin
  <2>2. stfBuffer[tf] \in StfRecord
    BY <1>2
  <2>3. Older(stfBuffer[tf].age, d, StfTimeout) \in 0 .. StfTimeout
    BY <1>3, <2>2, OlderType DEF StfRecord
  <2>4. NoStf \in StfRecord /\ NoStf.sets = <<>>
    BY <1>3 DEF NoStf, StfRecord
  <2> QED BY <2>1, <2>2, <2>3, <2>4 DEF StfRecord
<1>6. partial' \in [Sources -> SliceRecord]
  <2> DEFINE e(s) == IF partial[s].blocks = <<>> THEN NoSlice
                     ELSE [partial[s] EXCEPT !.age = Older(@, d, SliceTimeout)]
  <2>1. partial' = [s \in Sources |-> e(s)]
    BY DEF Begin
  <2> HIDE DEF e
  <2> QED BY <1>4, <2>1
<1>7. stfBuffer' \in [TimeframeIds -> StfRecord]
  <2> DEFINE e(tf) == IF stfBuffer[tf].sets = <<>> THEN NoStf
                      ELSE [stfBuffer[tf] EXCEPT !.age = Older(@, d, StfTimeout)]
  <2>1. stfBuffer' = [tf \in TimeframeIds |-> e(tf)]
    BY DEF Begin
  <2> HIDE DEF e
  <2> QED BY <1>5, <2>1
<1>8. /\ UNCHANGED <<mode, run, inputs, slices, lastTimeframeId, closed, output, delivered, late, dropped,
                    wrong, produced>>
      /\ pc = "idle" /\ pc' = "pop"
  BY DEF Begin, controlVars, outVars
<1>9. \A k \in 1 .. Len(output') : IsSlice(output'[k].blocks)
  BY <1>8 DEF IInv
<1> QED
  BY <1>2, <1>4, <1>5, <1>6, <1>7, <1>8, <1>9, SameData


-----------------------------------------------------------------------------
(* The beginning and the end of a run.                                     *)

\* Empty queues, slices and buffer.
LEMMA EmptyData ==
  ASSUME NEW f, f = [i \in Inputs |-> <<>>], NEW p, p = [s \in Sources |-> NoSlice],
         NEW q, q = [i \in Inputs |-> <<>>], NEW t, t = [tf \in TimeframeIds |-> NoStf]
  PROVE  /\ f \in [Inputs -> Seq(Block)] /\ InputsOK(f) /\ InputSet(f) = {}
         /\ \A i \in Inputs : Len(f[i]) = 0
         /\ p \in [Sources -> SliceRecord] /\ BuildingOK(p) /\ BuildingSet(p) = {}
         /\ q \in [Inputs -> Seq(Seq(Block))] /\ QueuesOK(q) /\ QueueSet(q) = {}
         /\ t \in [TimeframeIds -> StfRecord] /\ BufferOK(t) /\ BufferSet(t) = {}
         /\ \A tf \in TimeframeIds : t[tf].sets = <<>>
<1> DEFINE e == <<>>
<1>1. /\ e \in Seq(Block) /\ e \in Seq(Seq(Block)) /\ Len(e) = 0 /\ 1 .. Len(e) = {}
      /\ Elements(e) = {}
  BY DEF Elements
<1>2. Slots(e) = {}
  BY DEF Slots, Elements
<1>3. InOrder(e) /\ IsQueue(e)
  BY DEF InOrder, IsQueue
<1>4. SliceTimeout \in Nat /\ StfTimeout \in Nat
  BY AggregatorAssumption
<1>5. NoSlice \in SliceRecord /\ NoSlice.blocks = e /\ NoStf \in StfRecord /\ NoStf.sets = e
  BY <1>4 DEF NoSlice, NoStf, SliceRecord, StfRecord
<1>6. /\ f = [i \in Inputs |-> e] /\ q = [i \in Inputs |-> e]
      /\ \A s \in Sources : p[s] = NoSlice
      /\ \A tf \in TimeframeIds : t[tf] = NoStf
      /\ \A i \in Inputs : f[i] = e /\ q[i] = e
      /\ p \in [Sources -> SliceRecord] /\ t \in [TimeframeIds -> StfRecord]
  BY <1>5
<1> HIDE DEF e
<1>7. f \in [Inputs -> Seq(Block)] /\ q \in [Inputs -> Seq(Seq(Block))]
  BY <1>1, <1>6
<1>8. InputsOK(f) /\ QueuesOK(q)
  BY <1>1, <1>2, <1>3, <1>6 DEF InputsOK, QueuesOK
<1>9. BuildingOK(p) /\ BufferOK(t)
  <2>1. BuildingOK(p)
    BY <1>1, <1>5, <1>6 DEF BuildingOK, e
  <2>2. BufferOK(t)
    BY <1>2, <1>3, <1>5, <1>6 DEF BufferOK
  <2> QED BY <2>1, <2>2
<1>10. InputSet(f) = {} /\ BuildingSet(p) = {} /\ QueueSet(q) = {} /\ BufferSet(t) = {}
  BY <1>1, <1>2, <1>5, <1>6 DEF InputSet, BuildingSet, QueueSet, BufferSet
<1>11. \A tf \in TimeframeIds : t[tf].sets = <<>>
  BY <1>5, <1>6 DEF e
<1> QED
  BY <1>1, <1>6, <1>7, <1>8, <1>9, <1>10, <1>11

\* Eight empty places.
LEMMA EmptyPartition ==
  ASSUME NEW P, \A k \in 1 .. 8 : P[k] = {}
  PROVE  Partition(P, {})
  BY DEF Partition

\* Nothing is out of line.
LEMMA EmptyLine == InLine({}, {}, {}, {})
  BY DEF InLine, Before

\* The invariant holds initially.
LEMMA InitKeeps ==
  ASSUME Init
  PROVE  IInv
<1> USE AggregatorAssumption
<1>1. /\ inputs \in [Inputs -> Seq(Block)] /\ InputsOK(inputs) /\ InputSet(inputs) = {}
      /\ \A i \in Inputs : Len(inputs[i]) = 0
      /\ partial \in [Sources -> SliceRecord] /\ BuildingOK(partial) /\ BuildingSet(partial) = {}
      /\ slices \in [Inputs -> Seq(Seq(Block))] /\ QueuesOK(slices) /\ QueueSet(slices) = {}
      /\ stfBuffer \in [TimeframeIds -> StfRecord] /\ BufferOK(stfBuffer) /\ BufferSet(stfBuffer) = {}
      /\ \A tf \in TimeframeIds : stfBuffer[tf].sets = <<>>
  BY EmptyData DEF Init
<1>2. /\ output = <<>> /\ lastTimeframeId = 0 /\ pc = "idle" /\ run = "off"
      /\ produced = {} /\ delivered = {} /\ closed = {} /\ late = {} /\ dropped = {} /\ wrong = {}
  BY DEF Init
<1>3. output \in Seq(DataSet) /\ Len(output) <= OutputSize /\ 1 .. Len(output) = {}
  BY <1>2
<1>4. TypeOK
  <2>1. 0 \in 0 .. MaxLoop /\ 0 \in 0 .. NInputs - 1 /\ InputSize \in Nat
    OBVIOUS
  <2>2. DataOK
    BY <1>1, <1>2, <1>3, <2>1 DEF DataOK, undefinedTimeframeId
  <2>3. ControlOK
    <3>1. FALSE \in BOOLEAN
      OBVIOUS
    <3> QED BY <2>1, <3>1, Zenon DEF Init, ControlOK
  <2> QED BY <2>2, <2>3, TypeParts
<1>5. Partition(Places, produced)
  <2>1. ASSUME NEW k \in 1 .. 8 PROVE Places[k] = {}
    BY <1>1, <1>2, Eight, PlacesAre
  <2> QED BY <1>2, <2>1, EmptyPartition
<1>6. Lined
  <2>1. Gone = {}
    BY <1>1, <1>2 DEF Gone
  <2> QED BY <1>1, <2>1, EmptyLine DEF Lined
<1>7. Numbered
  BY <1>2, FS_EmptySet DEF Numbered
<1>8. Timeframes
  <2>1. Buffered = {}
    BY <1>1 DEF Buffered
  <2> QED BY <1>2, <2>1 DEF Timeframes, undefinedTimeframeId
<1>9. Idle
  BY <1>1, <1>2 DEF Idle
<1> QED
  BY <1>1, <1>3, <1>4, <1>5, <1>6, <1>7, <1>8, <1>9 DEF IInv

\* Between runs no place holds a block.
LEMMA OffIsEmpty ==
  ASSUME IInv, run = "off"
  PROVE  /\ InputSet(inputs) = {} /\ BuildingSet(partial) = {} /\ QueueSet(slices) = {}
         /\ BufferSet(stfBuffer) = {} /\ produced = {} /\ delivered = {} /\ closed = {} /\ late = {}
         /\ dropped = {} /\ wrong = {}
<1>1. produced = {} /\ closed = {} /\ Partition(Places, produced)
  BY DEF IInv, Idle
<1>2. \A k \in 1 .. 8 : Places[k] = {}
  BY <1>1 DEF Partition
<1>3. 1 \in 1 .. 8 /\ 2 \in 1 .. 8 /\ 3 \in 1 .. 8 /\ 4 \in 1 .. 8 /\ 5 \in 1 .. 8 /\ 6 \in 1 .. 8
      /\ 7 \in 1 .. 8 /\ 8 \in 1 .. 8
  OBVIOUS
<1>4. /\ Places[1] = {} /\ Places[2] = {} /\ Places[3] = {} /\ Places[4] = {}
      /\ Places[5] = {} /\ Places[6] = {} /\ Places[7] = {} /\ Places[8] = {}
  BY <1>2, <1>3
<1> QED
  BY <1>1, <1>4, PlacesAre

\* start() and stop() leave an aggregator without any block.
LEMMA ResetKeeps ==
  ASSUME IInv, ControlOK', Reset,
         \/ Start
         \/ Join
  PROVE  IInv'
<1> USE AggregatorAssumption
<1>1. DataOK /\ InputsOK(inputs) /\ \A k \in 1 .. Len(output) : IsSlice(output[k].blocks)
  BY TypeParts DEF IInv
<1>2. /\ partial' \in [Sources -> SliceRecord] /\ BuildingOK(partial') /\ BuildingSet(partial') = {}
      /\ slices' \in [Inputs -> Seq(Seq(Block))] /\ QueuesOK(slices') /\ QueueSet(slices') = {}
      /\ stfBuffer' \in [TimeframeIds -> StfRecord] /\ BufferOK(stfBuffer') /\ BufferSet(stfBuffer') = {}
      /\ \A tf \in TimeframeIds : stfBuffer'[tf].sets = <<>>
  BY EmptyData DEF Reset
<1>3. /\ inputs' \in [Inputs -> Seq(Block)] /\ InputsOK(inputs') /\ InputSet(inputs') = {}
      /\ \A i \in Inputs : Len(inputs'[i]) <= InputSize
      /\ output' \in Seq(DataSet) /\ Len(output') <= OutputSize
      /\ \A k \in 1 .. Len(output') : IsSlice(output'[k].blocks)
      /\ produced' = {} /\ delivered' = {} /\ closed' = {} /\ late' = {} /\ dropped' = {} /\ wrong' = {}
  <2>1. CASE Start
    BY <1>1, <2>1, OffIsEmpty DEF Start, outVars, DataOK
  <2>2. CASE Join
    <3>1. /\ inputs' \in [Inputs -> Seq(Block)] /\ InputsOK(inputs') /\ InputSet(inputs') = {}
          /\ \A i \in Inputs : Len(inputs'[i]) = 0
      BY <2>2, EmptyData DEF Join
    <3>2. output' = <<>>
      BY <2>2 DEF Join
    <3>3. InputSize \in Nat /\ OutputSize \in Nat
      OBVIOUS
    <3>4. output' \in Seq(DataSet) /\ Len(output') <= OutputSize /\ 1 .. Len(output') = {}
      BY <3>2, <3>3
    <3> QED BY <2>2, <3>1, <3>3, <3>4 DEF Join
  <2> QED BY <2>1, <2>2
<1>4. lastTimeframeId' = 0
  BY DEF Reset
<1>5. TypeOK'
  <2>1. DataOK'
    BY <1>2, <1>3, <1>4 DEF DataOK, undefinedTimeframeId
  <2> QED BY <2>1, TypeParts
<1>6. Partition(Places', produced')
  <2>1. ASSUME NEW k \in 1 .. 8 PROVE Places'[k] = {}
    BY <1>2, <1>3, Eight, PlacesAre
  <2> QED BY <1>3, <2>1, EmptyPartition
<1>7. Lined'
  <2>1. Gone' = {}
    BY <1>2, <1>3 DEF Gone
  <2> QED BY <1>2, <1>3, <2>1, EmptyLine DEF Lined
<1>8. Numbered'
  BY <1>3, FS_EmptySet DEF Numbered
<1>9. Timeframes'
  <2>1. Buffered' = {}
    BY <1>2 DEF Buffered
  <2> QED BY <1>3, <1>4, <2>1 DEF Timeframes, undefinedTimeframeId
<1>10. Idle'
  <2>1. pc' # "retrieve"
    BY DEF Start, Join
  <2> QED BY <1>2, <1>3, <2>1 DEF Idle
<1> QED
  BY <1>2, <1>3, <1>5, <1>6, <1>7, <1>8, <1>9, <1>10 DEF IInv


-----------------------------------------------------------------------------
(* The equipments.                                                         *)

\* One more block in a place.
LEMMA Added ==
  ASSUME NEW U, NEW P, NEW Q, Partition(P, U), NEW b, b \notin U, Q[1] = P[1] \cup {b},
         \A m \in 1 .. 8 : m # 1 => Q[m] = P[m]
  PROVE  Partition(Q, U \cup {b})
<1>1. \A m \in 1 .. 8 : b \notin P[m]
  BY DEF Partition
<1>2. ASSUME NEW m \in 1 .. 8, NEW o \in 1 .. 8, m < o, NEW x \in Q[m] \cap Q[o] PROVE FALSE
  <2>1. P[m] \cap P[o] = {}
    BY <1>2 DEF Partition
  <2>2. Q[o] = P[o]
    BY <1>2
  <2>3. Q[m] \subseteq P[m] \cup {b}
    OBVIOUS
  <2>4. x # b
    BY <1>1, <2>2
  <2> QED BY <2>1, <2>2, <2>3, <2>4
<1>3. UNION {Q[m] : m \in 1 .. 8} = (UNION {P[m] : m \in 1 .. 8}) \cup {b}
  <2>1. ASSUME NEW m \in 1 .. 8, NEW x \in Q[m] PROVE x = b \/ \E o \in 1 .. 8 : x \in P[o]
    BY <2>1
  <2>2. ASSUME NEW m \in 1 .. 8, NEW x \in P[m] PROVE \E o \in 1 .. 8 : x \in Q[o]
    BY <2>2
  <2>3. \E o \in 1 .. 8 : b \in Q[o]
    <3>1. 1 \in 1 .. 8
      OBVIOUS
    <3> QED BY <3>1
  <2>4. UNION {Q[m] : m \in 1 .. 8} \subseteq (UNION {P[m] : m \in 1 .. 8}) \cup {b}
    BY <2>1
  <2>5. UNION {P[m] : m \in 1 .. 8} \subseteq UNION {Q[m] : m \in 1 .. 8}
    BY <2>2
  <2>6. b \in UNION {Q[m] : m \in 1 .. 8}
    BY <2>3
  <2> QED BY <2>4, <2>5, <2>6
<1> QED
  BY <1>2, <1>3 DEF Partition

\* The next block of a source gets a number that no other has.
LEMMA NextNumber ==
  ASSUME NEW U, U \subseteq Block, IsFiniteSet(U), NEW s \in Sources, NEW tf \in TimeframeIds,
         \A b \in U : b.n <= Cardinality(OfSource(U, b.src)),
         Cardinality(U) < MaxBlocks,
         NEW c, c = [src |-> s, tf |-> tf, n |-> Cardinality(OfSource(U, s)) + 1]
  PROVE  /\ c \in Block /\ c \notin U /\ Before(U, {c})
         /\ IsFiniteSet(U \cup {c})
         /\ \A b \in U \cup {c} : b.n <= Cardinality(OfSource(U \cup {c}, b.src))
<1>1. MaxBlocks \in Nat \ {0}
  BY AggregatorAssumption
<1>2. ASSUME NEW r PROVE IsFiniteSet(OfSource(U, r)) /\ Cardinality(OfSource(U, r)) \in Nat
                         /\ Cardinality(OfSource(U, r)) <= Cardinality(U)
  <2>1. OfSource(U, r) \in SUBSET U
    BY DEF OfSource
  <2> QED BY <2>1, FS_Subset, FS_CardinalityType
<1>3. Cardinality(U) \in Nat
  BY FS_CardinalityType
<1>4. c.src = s /\ c.tf = tf /\ c.n = Cardinality(OfSource(U, s)) + 1
  OBVIOUS
<1>5. c.n \in 1 .. MaxBlocks
  <2> QED BY <1>1, <1>2, <1>3, <1>4
<1>6. c \in Block
  BY <1>5 DEF Block
<1>7. Before(U, {c})
  <2>1. ASSUME NEW a \in U, a.src = s PROVE a.n < c.n
    <3>1. a.n <= Cardinality(OfSource(U, s)) /\ a.n \in Nat
      BY <1>1, <2>1 DEF Block
    <3> QED BY <1>2, <1>4, <3>1
  <2> QED BY <1>4, <2>1 DEF Before
<1>8. c \notin U
  <2>1. ~ (c.n < c.n)
    BY <1>1, <1>5
  <2> QED BY <1>7, <2>1 DEF Before
<1>9. IsFiniteSet(U \cup {c})
  BY FS_AddElement
<1>10. OfSource(U \cup {c}, s) = OfSource(U, s) \cup {c} /\ c \notin OfSource(U, s)
  BY <1>4, <1>8 DEF OfSource
<1>11. Cardinality(OfSource(U \cup {c}, s)) = Cardinality(OfSource(U, s)) + 1
  <2> DEFINE V == OfSource(U, s)
  <2>1. IsFiniteSet(V) /\ c \notin V
    BY <1>2, <1>10
  <2> HIDE DEF V
  <2>2. Cardinality(V \cup {c}) = Cardinality(V) + 1
    BY <2>1, FS_AddElement
  <2> QED BY <1>10, <2>2 DEF V
<1>12. ASSUME NEW b \in U \cup {c} PROVE b.n <= Cardinality(OfSource(U \cup {c}, b.src))
  <2>1. b \in Block /\ b.n \in Nat
    BY <1>1, <1>6 DEF Block
  <2>2. CASE b = c
    <3> QED BY <1>4, <1>11, <2>1, <2>2
  <2>3. CASE b \in U /\ b.src = s
    <3>1. b.n <= Cardinality(OfSource(U, s))
      BY <2>3
    <3> QED BY <1>2, <1>11, <2>1, <2>3, <3>1
  <2>4. CASE b \in U /\ b.src # s
    <3>1. OfSource(U \cup {c}, b.src) = OfSource(U, b.src)
      BY <1>4, <2>4 DEF OfSource
    <3>2. b.n <= Cardinality(OfSource(U, b.src))
      BY <2>4
    <3> QED BY <3>1, <3>2
  <2> QED BY <2>2, <2>3, <2>4
<1> QED
  BY <1>6, <1>7, <1>8, <1>9, <1>12

\* The blocks of each place were produced.
LEMMA PlacesProduced ==
  ASSUME IInv
  PROVE  /\ InputSet(inputs) \subseteq produced /\ BuildingSet(partial) \subseteq produced
         /\ QueueSet(slices) \subseteq produced /\ Gone \subseteq produced
<1>1. Partition(Places, produced)
  BY DEF IInv
<1>2. \A k \in 1 .. 8 : Places[k] \subseteq produced
  BY <1>1 DEF Partition
<1>3. 1 \in 1 .. 8 /\ 2 \in 1 .. 8 /\ 3 \in 1 .. 8 /\ 4 \in 1 .. 8 /\ 5 \in 1 .. 8 /\ 6 \in 1 .. 8
      /\ 7 \in 1 .. 8 /\ 8 \in 1 .. 8
  OBVIOUS
<1>4. /\ Places[1] \subseteq produced /\ Places[2] \subseteq produced /\ Places[3] \subseteq produced
      /\ Places[4] \subseteq produced /\ Places[5] \subseteq produced /\ Places[6] \subseteq produced
      /\ Places[7] \subseteq produced /\ Places[8] \subseteq produced
  BY <1>2, <1>3
<1> QED
  BY <1>4, PlacesAre DEF Gone

\* A later block waits behind the others.
LEMMA LineProduce ==
  ASSUME NEW G, NEW Q, NEW B, NEW I, InLine(G, Q, B, I), NEW U, NEW b, Before(U, {b}),
         G \subseteq U, Q \subseteq U, B \subseteq U
  PROVE  InLine(G, Q, B, I \cup {b})
  BY DEF InLine, Before

\* An equipment pushes a block.
LEMMA ProduceKeeps ==
  ASSUME IInv, ControlOK', NEW s \in Sources, NEW tf \in TimeframesOf[s], Produce(s, tf)
  PROVE  IInv'
<1> DEFINE i == InputOf[s]
           b == [src |-> s, tf |-> tf, n |-> Cardinality(OfSource(produced, s)) + 1]
<1>1. DataOK
  BY TypeParts DEF IInv
<1>2. /\ Cardinality(produced) < MaxBlocks /\ Len(inputs[i]) < InputSize
      /\ inputs' = [inputs EXCEPT ![i] = Append(inputs[i], b)] /\ produced' = produced \cup {b}
      /\ UNCHANGED <<mode, run, slices, partial, stfBuffer, lastTimeframeId, closed, output, delivered, late,
                     dropped, wrong, pc, executeFlush>>
      /\ run = "on"
  BY DEF Produce, OfSource, controlVars, slicerVars, stfVars, outVars, localVars
<1>3. tf \in TimeframeIds /\ i \in Inputs /\ InputSize \in Nat
  BY AggregatorAssumption
<1>4. /\ b \in Block /\ b \notin produced /\ Before(produced, {b})
      /\ IsFiniteSet(produced \cup {b})
      /\ \A c \in produced \cup {b} :
           c.n <= Cardinality(OfSource(produced \cup {b}, c.src))
  <2>1. /\ produced \subseteq Block /\ IsFiniteSet(produced)
        /\ \A c \in produced : c.n <= Cardinality(OfSource(produced, c.src))
    BY <1>1 DEF DataOK, IInv, Numbered
  <2> QED BY <1>2, <1>3, <2>1, NextNumber
<1>5. b.src = s
  OBVIOUS
<1> HIDE DEF b
<1>6. /\ inputs \in [Inputs -> Seq(Block)] /\ InputsOK(inputs) /\ InputOf[b.src] = i
      /\ \A k \in Inputs : Len(inputs[k]) <= InputSize
  BY <1>1, <1>5 DEF DataOK, IInv
<1>7. Before(InputSet(inputs), {b})
  BY <1>4, PlacesProduced DEF Before
<1>8. inputs' \in [Inputs -> Seq(Block)] /\ InputsOK(inputs') /\ InputSet(inputs') = InputSet(inputs) \cup {b}
  BY <1>2, <1>3, <1>4, <1>6, <1>7, InputPut
<1>9. ASSUME NEW k \in Inputs PROVE Len(inputs'[k]) <= InputSize
  <2>1. CASE k = i
    <3>1. inputs'[k] = Append(inputs[i], b) /\ inputs[i] \in Seq(Block)
      BY <1>2, <1>3, <1>6, <2>1
    <3>2. Len(inputs'[k]) = Len(inputs[i]) + 1 /\ Len(inputs[i]) \in Nat
      BY <1>4, <3>1, ElementsAppend
    <3> QED BY <1>2, <1>3, <3>2
  <2>2. CASE k # i
    BY <1>2, <1>6, <2>2
  <2> QED BY <2>1, <2>2
<1>10. TypeOK'
  <2>1. DataOK'
    BY <1>1, <1>2, <1>4, <1>8, <1>9 DEF DataOK
  <2> QED BY <2>1, TypeParts
<1>11. Partition(Places', produced')
  <2>1. Places'[1] = Places[1] \cup {b}
    BY <1>8, PlacesAre
  <2>2. ASSUME NEW k \in 1 .. 8, k # 1 PROVE Places'[k] = Places[k]
    BY <1>2, <2>2, Eight, PlacesAre
  <2>3. Partition(Places, produced)
    BY DEF IInv
  <2> QED BY <1>2, <1>4, <2>1, <2>2, <2>3, Added
<1>12. Lined'
  <2>1. Gone' = Gone
    BY <1>2 DEF Gone
  <2>2. InLine(Gone, QueueSet(slices), BuildingSet(partial), InputSet(inputs) \cup {b})
    BY <1>4, PlacesProduced, LineProduce DEF IInv, Lined
  <2> QED BY <1>2, <1>8, <2>1, <2>2 DEF Lined
<1>13. Numbered'
  BY <1>2, <1>4 DEF Numbered
<1>14. Timeframes'
  <2>1. Buffered' = Buffered
    BY <1>2 DEF Buffered
  <2> QED BY <1>1, <1>2, <2>1, SameTimeframes DEF IInv, DataOK
<1>15. Idle'
  BY <1>2 DEF IInv, Idle
<1>16. BuildingOK(partial') /\ QueuesOK(slices') /\ BufferOK(stfBuffer')
       /\ \A k \in 1 .. Len(output') : IsSlice(output'[k].blocks)
  BY <1>2 DEF IInv
<1> QED
  BY <1>8, <1>10, <1>11, <1>12, <1>13, <1>14, <1>15, <1>16 DEF IInv


-----------------------------------------------------------------------------
(* The callback takes blocks from an input.                                *)

\* Blocks of different sources are in no order.
LEMMA OtherSources ==
  ASSUME NEW A, NEW B, \A a \in A, b \in B : a.src # b.src
  PROVE  Before(A, B)
  BY DEF Before

\* The slices of some sources go to the queue: no other slice has blocks of these.
LEMMA BuildingSplit ==
  ASSUME NEW p \in [Sources -> SliceRecord], BuildingOK(p), NEW S, S \subseteq Sources,
         NEW X, X = BlocksOf(p, S)
  PROVE  /\ Before(X, BuildingSet(p) \ X)
         /\ \A b \in X : b.src \in S /\ p[b.src].blocks # <<>>
<1>1. ASSUME NEW b \in X PROVE b.src \in S /\ p[b.src].blocks # <<>>
  <2>1. PICK s \in S : b \in Elements(p[s].blocks)
    BY DEF BlocksOf
  <2>2. b.src = s
    BY <2>1 DEF BuildingOK
  <2>3. p[s].blocks # <<>>
    BY <2>1 DEF Elements
  <2> QED BY <2>2, <2>3
<1>2. ASSUME NEW a \in X, NEW b \in BuildingSet(p) \ X PROVE a.src # b.src
  <2>1. PICK s \in Sources : b \in Elements(p[s].blocks)
    BY DEF BuildingSet
  <2>2. b.src = s
    BY <2>1 DEF BuildingOK
  <2>3. s \notin S
    BY <2>1 DEF BlocksOf
  <2> QED BY <1>1, <2>2, <2>3
<1> QED
  BY <1>1, <1>2, OtherSources

\* appendBlock, first part: the slice being built is queued when it is complete.
LEMMA AppendCompletes ==
  ASSUME IInv, NEW b \in Block, b.src \notin BadSources, AppendBlock(b)
  PROVE  \E p \in [Sources -> SliceRecord], X \in SUBSET BuildingSet(partial) :
           /\ BuildingOK(p) /\ BuildingSet(p) = BuildingSet(partial) \ X
           /\ Before(X, BuildingSet(partial) \ X)
           /\ slices' \in [Inputs -> Seq(Seq(Block))] /\ QueuesOK(slices')
           /\ QueueSet(slices') = QueueSet(slices) \cup X
           /\ p[b.src].blocks # <<>> => p[b.src].tf = b.tf /\ b.tf # undefinedTimeframeId
           /\ partial' = [p EXCEPT ![b.src] =
                [tf |-> b.tf, blocks |-> Append(p[b.src].blocks, b), age |-> 0]]
<1> DEFINE s == b.src
           d == partial[s].blocks
           i == InputOf[s]
<1>1. /\ DataOK /\ BuildingOK(partial) /\ QueuesOK(slices)
      /\ partial \in [Sources -> SliceRecord] /\ slices \in [Inputs -> Seq(Seq(Block))]
  BY TypeParts DEF IInv, DataOK
<1>2. s \in Sources /\ i \in Inputs
  BY AggregatorAssumption DEF Block
<1>3. d \in Seq(Block)
  BY <1>1, <1>2 DEF SliceRecord
<1>4. CASE ~ SliceIsComplete(b)
  <2>1. partial' = [partial EXCEPT ![s] = [tf |-> b.tf, blocks |-> Append(d, b), age |-> 0]]
    BY <1>4 DEF AppendBlock
  <2>2. slices' = slices
    BY <1>4 DEF AppendBlock
  <2>3. d # <<>> => partial[s].tf = b.tf /\ b.tf # undefinedTimeframeId
    BY <1>4 DEF SliceIsComplete
  <2>4. /\ {} \in SUBSET BuildingSet(partial) /\ BuildingSet(partial) = BuildingSet(partial) \ {}
        /\ Before({}, BuildingSet(partial) \ {}) /\ QueueSet(slices') = QueueSet(slices) \cup {}
    BY <2>2 DEF Before
  <2> QED BY <1>1, <2>1, <2>2, <2>3, <2>4
<1>5. CASE SliceIsComplete(b)
  <2> DEFINE p == Without(partial, {s})
             X == BlocksOf(partial, {s})
             e == <<>>
             r == <<d>>
  <2>1. d # <<>> /\ IsSlice(d)
    BY <1>1, <1>2, <1>5 DEF SliceIsComplete, BuildingOK
  <2>2. X = Elements(d)
    BY DEF BlocksOf
  <2>3. /\ p \in [Sources -> SliceRecord] /\ BuildingOK(p) /\ BuildingSet(p) = BuildingSet(partial) \ X
        /\ X \subseteq BuildingSet(partial) /\ p[s].blocks = <<>>
    BY <1>1, <1>2, BuildingTake
  <2>4. Before(X, BuildingSet(partial) \ X)
    BY <1>1, <1>2, BuildingSplit
  <2>5. r \in Seq(Seq(Block)) /\ IsQueue(r) /\ Slots(r) = X
        /\ \A q \in Seq(Seq(Block)) : Append(q, d) = q \o r
    BY <1>3, <2>1, <2>2, QueueOfOne
  <2>6. slices' = [slices EXCEPT ![i] = slices[i] \o r]
    <3>1. slices' = [slices EXCEPT ![i] = Append(slices[i], d)]
      BY <1>5 DEF AppendBlock
    <3>2. slices[i] \in Seq(Seq(Block))
      BY <1>1, <1>2
    <3> HIDE DEF r, d, i
    <3> QED BY <2>5, <3>1, <3>2
  <2>7. \A c \in X : InputOf[c.src] = i /\ c.src \notin BadSources
    <3>1. \A c \in X : c.src = s
      BY <1>1, <1>2, <2>2 DEF BuildingOK
    <3> QED BY <3>1
  <2>8. Before(QueueSet(slices), X)
    <3>1. InLine(Gone, QueueSet(slices), BuildingSet(partial), InputSet(inputs))
      BY DEF IInv, Lined
    <3> HIDE DEF X
    <3> QED BY <2>3, <2>4, <3>1, LineComplete
  <2>9. partial' = [p EXCEPT ![s] = [tf |-> b.tf, blocks |-> Append(p[s].blocks, b), age |-> 0]]
    <3> DEFINE v == [tf |-> b.tf, blocks |-> <<b>>, age |-> 0]
    <3>1. partial' = [partial EXCEPT ![s] = v]
      BY <1>5 DEF AppendBlock
    <3>2. v = [tf |-> b.tf, blocks |-> Append(p[s].blocks, b), age |-> 0]
      <4>1. Append(<<>>, b) = <<b>>
        OBVIOUS
      <4>2. p[s].blocks = <<>>
        BY <2>3
      <4> HIDE DEF p, s
      <4> QED BY <4>1, <4>2
    <3> HIDE DEF v
    <3>3. [p EXCEPT ![s] = v] = [partial EXCEPT ![s] = v]
      BY <1>1, <1>2 DEF Without
    <3> QED BY <3>1, <3>2, <3>3
  <2> HIDE DEF p, X, r, i
  <2>10. /\ slices' \in [Inputs -> Seq(Seq(Block))] /\ QueuesOK(slices')
         /\ QueueSet(slices') = QueueSet(slices) \cup X
    BY <1>1, <1>2, <2>5, <2>6, <2>7, <2>8, QueuePut
  <2> QED BY <2>3, <2>4, <2>9, <2>10
<1> QED
  BY <1>4, <1>5


\* The thread takes the first block of an input.
LEMMA TakeInput ==
  ASSUME IInv, NEW i \in Inputs, inputs[i] # <<>>, inputs' = [inputs EXCEPT ![i] = Tail(inputs[i])],
         NEW b, b = Head(inputs[i])
  PROVE  /\ inputs' \in [Inputs -> Seq(Block)] /\ InputsOK(inputs')
         /\ \A k \in Inputs : Len(inputs'[k]) <= InputSize
         /\ b \in Block /\ b \in InputSet(inputs) /\ InputOf[b.src] = i
         /\ InputSet(inputs') = InputSet(inputs) \ {b}
         /\ Before({b}, InputSet(inputs) \ {b})
<1>1. inputs \in [Inputs -> Seq(Block)] /\ InputsOK(inputs) /\ \A k \in Inputs : Len(inputs[k]) <= InputSize
  BY TypeParts DEF IInv, DataOK
<1>2. /\ inputs' \in [Inputs -> Seq(Block)] /\ InputsOK(inputs') /\ Len(inputs'[i]) <= Len(inputs[i])
      /\ b \in Block /\ b \in InputSet(inputs) /\ InputOf[b.src] = i
      /\ Before({b}, InputSet(inputs'))
  BY <1>1, InputTake
<1>3. InputSet(inputs') = InputSet(inputs) \ {b}
  BY <1>1, InputTaken
<1>4. ASSUME NEW k \in Inputs PROVE Len(inputs'[k]) <= InputSize
  <2>1. Len(inputs[k]) <= InputSize /\ inputs[k] \in Seq(Block) /\ inputs'[k] \in Seq(Block)
        /\ InputSize \in Nat
    BY <1>1, <1>2, AggregatorAssumption
  <2>2. Len(inputs'[k]) <= Len(inputs[k])
    <3>1. CASE k = i
      BY <1>2, <3>1
    <3>2. CASE k # i
      BY <1>1, <2>1, <3>2
    <3> QED BY <3>1, <3>2
  <2>3. Len(inputs[k]) \in Nat /\ Len(inputs'[k]) \in Nat
    BY <2>1
  <2> QED BY <2>1, <2>2, <2>3
<1> QED
  BY <1>2, <1>3, <1>4

\* A block goes to the slice of its source.
LEMMA PopBlockKeeps ==
  ASSUME IInv, ControlOK', PopBlock
  PROVE  IInv'
<1> DEFINE i == CurrentInput
           b == Head(inputs[i])
           I == InputSet(inputs)
           B == BuildingSet(partial)
           Q == QueueSet(slices)
<1>1. /\ DataOK /\ i \in Inputs /\ inputs \in [Inputs -> Seq(Block)] /\ InputsOK(inputs)
      /\ Partition(Places, produced) /\ InLine(Gone, Q, B, I)
  BY TypeParts, CurrentInputType DEF IInv, DataOK, Lined
<1>2. /\ inputs[i] # <<>> /\ b.src \notin BadSources /\ AppendBlock(b)
      /\ inputs' = [inputs EXCEPT ![i] = Tail(inputs[i])]
      /\ UNCHANGED <<mode, run, stfBuffer, lastTimeframeId, closed, output, delivered, late, dropped, wrong,
                     produced, pc, executeFlush>>
      /\ pc = "pop" /\ mode # "pass"
  BY DEF PopBlock, controlVars, stfVars, outVars
<1> HIDE DEF i
<1>3. /\ inputs' \in [Inputs -> Seq(Block)] /\ InputsOK(inputs')
      /\ \A k \in Inputs : Len(inputs'[k]) <= InputSize
      /\ b \in Block /\ b \in I /\ InputOf[b.src] = i
      /\ InputSet(inputs') = I \ {b} /\ Before({b}, I \ {b})
  <2>1. b = Head(inputs[i])
    OBVIOUS
  <2> HIDE DEF b
  <2> QED BY <1>1, <1>2, <2>1, TakeInput
<1> HIDE DEF b
<1>4. PICK p \in [Sources -> SliceRecord], X \in SUBSET B :
        /\ BuildingOK(p) /\ BuildingSet(p) = B \ X
        /\ Before(X, B \ X)
        /\ slices' \in [Inputs -> Seq(Seq(Block))] /\ QueuesOK(slices')
        /\ QueueSet(slices') = Q \cup X
        /\ p[b.src].blocks # <<>> => p[b.src].tf = b.tf /\ b.tf # undefinedTimeframeId
        /\ partial' = [p EXCEPT ![b.src] =
             [tf |-> b.tf, blocks |-> Append(p[b.src].blocks, b), age |-> 0]]
  BY <1>2, <1>3, AppendCompletes
<1> HIDE DEF I, B, Q
<1>5. InLine(Gone, Q \cup X, B \ X, I)
  BY <1>1, <1>4, LineComplete
<1>6. InLine(Gone, Q \cup X, (B \ X) \cup {b}, I \ {b}) /\ Before(B \ X, {b})
  BY <1>3, <1>5, LinePop
<1>7. /\ partial' \in [Sources -> SliceRecord] /\ BuildingOK(partial')
      /\ BuildingSet(partial') = (B \ X) \cup {b}
  <2>1. Before(BuildingSet(p), {b})
    BY <1>4, <1>6
  <2> QED BY <1>2, <1>3, <1>4, <2>1, BuildingPut
<1>8. TypeOK'
  <2>1. DataOK'
    BY <1>1, <1>2, <1>3, <1>4, <1>7 DEF DataOK
  <2> QED BY <2>1, TypeParts
<1>9. Partition(Places', produced')
  <2> DEFINE M == [k \in 1 .. 8 |-> CASE k = 2 -> B \ X [] k = 3 -> Q \cup X [] OTHER -> Places[k]]
  <2>1. /\ M[2] = B \ X /\ M[3] = Q \cup X
        /\ \A k \in 1 .. 8 : k \notin {2, 3} => M[k] = Places[k]
    OBVIOUS
  <2> HIDE DEF M
  <2>2. Places[2] = B /\ Places[3] = Q /\ Places[1] = I
    BY PlacesAre DEF B, Q, I
  <2>3. Partition(M, produced)
    <3>1. 2 \in 1 .. 8 /\ 3 \in 1 .. 8 /\ 2 # 3
      OBVIOUS
    <3>2. X \subseteq Places[2] /\ M[2] = Places[2] \ X /\ M[3] = Places[3] \cup X
      BY <1>4, <2>1, <2>2
    <3>3. \A m \in 1 .. 8 : m \notin {2, 3} => M[m] = Places[m]
      BY <2>1
    <3>4. Partition(Places, produced)
      BY <1>1
    <3> QED BY <3>1, <3>2, <3>3, <3>4, Moved
  <2>4. 1 \in 1 .. 8 /\ 2 \in 1 .. 8 /\ 1 # 2
    OBVIOUS
  <2>5. {b} \subseteq M[1] /\ Places'[1] = M[1] \ {b} /\ Places'[2] = M[2] \cup {b}
    <3>1. M[1] = I /\ M[2] = B \ X
      BY <2>1, <2>2, <2>4
    <3>2. Places'[1] = I \ {b} /\ Places'[2] = (B \ X) \cup {b}
      BY <1>3, <1>7, PlacesAre
    <3> QED BY <1>3, <3>1, <3>2
  <2>6. ASSUME NEW k \in 1 .. 8, k \notin {1, 2} PROVE Places'[k] = M[k]
    BY <1>2, <1>4, <2>1, <2>6, Eight, PlacesAre
  <2>7. Partition(Places', produced)
    BY <2>3, <2>4, <2>5, <2>6, Moved
  <2> QED BY <1>2, <2>7
<1>10. Lined'
  <2>1. Gone' = Gone
    BY <1>2 DEF Gone
  <2> QED BY <1>3, <1>4, <1>6, <1>7, <2>1 DEF Lined
<1>11. Numbered'
  BY <1>2 DEF IInv, Numbered
<1>12. Timeframes'
  <2>1. Buffered' = Buffered
    BY <1>2 DEF Buffered
  <2> QED BY <1>1, <1>2, <2>1, SameTimeframes DEF IInv, DataOK
<1>13. Idle'
  BY <1>2 DEF IInv, Idle
<1>14. BufferOK(stfBuffer') /\ \A k \in 1 .. Len(output') : IsSlice(output'[k].blocks)
  BY <1>2 DEF IInv
<1> QED
  BY <1>3, <1>4, <1>7, <1>8, <1>9, <1>10, <1>11, <1>12, <1>13, <1>14 DEF IInv


\* A block that the slicer refuses ends the thread.
LEMMA PopWrongBlockKeeps ==
  ASSUME IInv, ControlOK', PopWrongBlock
  PROVE  IInv'
<1> DEFINE i == CurrentInput
           b == Head(inputs[i])
           I == InputSet(inputs)
           B == BuildingSet(partial)
           Q == QueueSet(slices)
<1>1. /\ DataOK /\ i \in Inputs /\ Partition(Places, produced) /\ InLine(Gone, Q, B, I)
      /\ BuildingOK(partial) /\ QueuesOK(slices)
  BY TypeParts, CurrentInputType DEF IInv, Lined
<1>2. /\ inputs[i] # <<>> /\ b.src \in BadSources
      /\ inputs' = [inputs EXCEPT ![i] = Tail(inputs[i])] /\ wrong' = wrong \cup {b}
      /\ UNCHANGED <<mode, run, partial, slices, stfBuffer, lastTimeframeId, closed, output, delivered, late,
                     dropped, produced>>
      /\ pc = "pop" /\ pc' = "dead" /\ mode # "pass"
  BY DEF PopWrongBlock, controlVars, slicerVars, stfVars, outVars
<1> HIDE DEF i
<1>3. /\ inputs' \in [Inputs -> Seq(Block)] /\ InputsOK(inputs')
      /\ \A k \in Inputs : Len(inputs'[k]) <= InputSize
      /\ b \in Block /\ b \in I /\ InputOf[b.src] = i
      /\ InputSet(inputs') = I \ {b} /\ Before({b}, I \ {b})
  <2>1. b = Head(inputs[i])
    OBVIOUS
  <2> HIDE DEF b
  <2> QED BY <1>1, <1>2, <2>1, TakeInput
<1> HIDE DEF b
<1>4. Before({b}, Q \cup B)
  <2>1. ASSUME NEW c \in Q PROVE c.src # b.src
    BY <1>1, <1>2 DEF QueueSet, QueuesOK
  <2>2. ASSUME NEW c \in B PROVE c.src # b.src
    <3>1. PICK s \in Sources : c \in Elements(partial[s].blocks)
      BY DEF BuildingSet
    <3>2. c.src = s /\ partial[s].blocks # <<>>
      BY <1>1, <3>1 DEF BuildingOK, Elements
    <3> QED BY <1>1, <1>2, <3>2 DEF BuildingOK
  <2> QED BY <2>1, <2>2 DEF Before
<1> HIDE DEF I, B, Q
<1>5. InLine(Gone \cup {b}, Q, B, I \ {b})
  BY <1>1, <1>3, <1>4, LineBypass
<1>6. TypeOK'
  <2>1. DataOK'
    BY <1>1, <1>2, <1>3 DEF DataOK
  <2> QED BY <2>1, TypeParts
<1>7. Partition(Places', produced')
  <2>1. 1 \in 1 .. 8 /\ 8 \in 1 .. 8 /\ 1 # 8
    OBVIOUS
  <2>2. {b} \subseteq Places[1] /\ Places'[1] = Places[1] \ {b} /\ Places'[8] = Places[8] \cup {b}
    BY <1>2, <1>3, PlacesAre DEF I
  <2>3. ASSUME NEW k \in 1 .. 8, k \notin {1, 8} PROVE Places'[k] = Places[k]
    BY <1>2, <2>3, Eight, PlacesAre
  <2>4. Partition(Places, produced) /\ \A m \in 1 .. 8 : m \notin {1, 8} => Places'[m] = Places[m]
    BY <1>1, <2>3
  <2>5. Partition(Places', produced)
    BY <2>1, <2>2, <2>4, Moved
  <2> QED BY <1>2, <2>5
<1>8. Lined'
  <2>1. Gone' = Gone \cup {b}
    BY <1>2 DEF Gone
  <2>2. QueueSet(slices') = Q /\ BuildingSet(partial') = B
    BY <1>2 DEF Q, B
  <2> QED BY <1>3, <1>5, <2>1, <2>2 DEF Lined
<1>9. Numbered'
  BY <1>2 DEF IInv, Numbered
<1>10. Timeframes'
  <2>1. Buffered' = Buffered
    BY <1>2 DEF Buffered
  <2> QED BY <1>1, <1>2, <2>1, SameTimeframes DEF IInv, DataOK
<1>11. Idle'
  BY <1>2 DEF IInv, Idle
<1>12. /\ BuildingOK(partial') /\ QueuesOK(slices') /\ BufferOK(stfBuffer')
       /\ \A k \in 1 .. Len(output') : IsSlice(output'[k].blocks)
  BY <1>2 DEF IInv
<1> QED
  BY <1>3, <1>6, <1>7, <1>8, <1>9, <1>10, <1>11, <1>12 DEF IInv

\* push() to the output: it takes the data set, or refuses it when it is full.
LEMMA Pushed ==
  ASSUME IInv, NEW d \in DataSet, IsSlice(d.blocks), PushOutput(d)
  PROVE  /\ output' \in Seq(DataSet) /\ Len(output') <= OutputSize
         /\ \A k \in 1 .. Len(output') : IsSlice(output'[k].blocks)
         /\ \/ ~ OutputFull /\ delivered' = delivered \cup Elements(d.blocks) /\ dropped' = dropped
            \/ OutputFull /\ dropped' = dropped \cup Elements(d.blocks) /\ delivered' = delivered
<1>1. /\ output \in Seq(DataSet) /\ Len(output) <= OutputSize /\ OutputSize \in Nat
      /\ \A k \in 1 .. Len(output) : IsSlice(output[k].blocks)
  BY TypeParts, AggregatorAssumption DEF IInv, DataOK
<1>2. CASE OutputFull
  BY <1>1, <1>2 DEF PushOutput
<1>3. CASE ~ OutputFull
  <2>1. output' = Append(output, d) /\ delivered' = delivered \cup Elements(d.blocks) /\ dropped' = dropped
    BY <1>3 DEF PushOutput
  <2>2. /\ output' \in Seq(DataSet) /\ Len(output') = Len(output) + 1 /\ Len(output) \in Nat
        /\ output'[Len(output) + 1] = d
        /\ \A k \in 1 .. Len(output) : output'[k] = output[k]
    BY <1>1, <2>1, ElementsAppend
  <2>3. Len(output') <= OutputSize
    BY <1>1, <1>3, <2>2 DEF OutputFull
  <2>4. ASSUME NEW k \in 1 .. Len(output') PROVE IsSlice(output'[k].blocks)
    <3>1. k \in 1 .. Len(output) \/ k = Len(output) + 1
      BY <2>2
    <3> QED BY <1>1, <2>2, <3>1
  <2> QED BY <1>3, <2>1, <2>2, <2>3, <2>4
<1> QED
  BY <1>2, <1>3


\* Without slicing, a block goes through as a data set of its own.
LEMMA PassThroughKeeps ==
  ASSUME IInv, ControlOK', PassThrough
  PROVE  IInv'
<1> DEFINE i == CurrentInput
           b == Head(inputs[i])
           I == InputSet(inputs)
           B == BuildingSet(partial)
           Q == QueueSet(slices)
<1>1. /\ ControlOK /\ DataOK /\ i \in Inputs /\ Partition(Places, produced) /\ InLine(Gone, Q, B, I)
  BY TypeParts, CurrentInputType DEF IInv, Lined
<1>2. /\ UNCHANGED <<mode, run, partial, slices, stfBuffer, lastTimeframeId, closed, late, wrong, produced>>
      /\ pc = "pop" /\ mode = "pass" /\ Q = {} /\ B = {}
  BY DEF PassThrough, controlVars, slicerVars, stfVars, IInv, Idle
<1>3. pc' # "retrieve"
  <2>1. Return \/ NextInput
    BY DEF PassThrough
  <2> QED BY <1>1, <2>1, NextInputType DEF Return
<1>4. CASE UNCHANGED <<inputs, outVars>>
  BY <1>2, <1>3, <1>4, SameSlices DEF outVars
<1>5. CASE ~ UNCHANGED <<inputs, outVars>>
  <2> DEFINE e == <<b>>
             d == [blocks |-> e, eot |-> FALSE]
  <2>1. /\ ~ OutputFull /\ inputs[i] # <<>> /\ inputs' = [inputs EXCEPT ![i] = Tail(inputs[i])]
        /\ PushOutput(d)
    BY <1>5 DEF PassThrough
  <2> HIDE DEF i
  <2>2. b = Head(inputs[i]) /\ d = [blocks |-> <<b>>, eot |-> FALSE]
    OBVIOUS
  <2> HIDE DEF b
  <2>3. /\ inputs' \in [Inputs -> Seq(Block)] /\ InputsOK(inputs')
        /\ \A k \in Inputs : Len(inputs'[k]) <= InputSize
        /\ b \in Block /\ b \in I /\ InputSet(inputs') = I \ {b} /\ Before({b}, I \ {b})
    BY <1>1, <2>1, <2>2, TakeInput
  <2>4. e \in Seq(Block) /\ Elements(e) = {b} /\ IsSlice(e)
    BY <2>3, SliceOfOne
  <2> HIDE DEF e
  <2>5. d \in DataSet /\ d.blocks = e
    BY <2>4 DEF DataSet
  <2> HIDE DEF d
  <2>6. /\ output' \in Seq(DataSet) /\ Len(output') <= OutputSize
        /\ \A k \in 1 .. Len(output') : IsSlice(output'[k].blocks)
        /\ delivered' = delivered \cup {b} /\ dropped' = dropped
    BY <2>1, <2>4, <2>5, Pushed
  <2>7. InLine(Gone \cup {b}, Q, B, I \ {b})
    <3>1. Before({b}, Q \cup B)
      BY <1>2 DEF Before
    <3> HIDE DEF I, B, Q
    <3> QED BY <1>1, <2>3, <3>1, LineBypass
  <2>8. TypeOK'
    <3>1. DataOK'
      BY <1>1, <1>2, <2>3, <2>6 DEF DataOK
    <3> QED BY <3>1, TypeParts
  <2>9. Partition(Places', produced')
    <3>1. 1 \in 1 .. 8 /\ 5 \in 1 .. 8 /\ 1 # 5
      OBVIOUS
    <3>2. {b} \subseteq Places[1] /\ Places'[1] = Places[1] \ {b} /\ Places'[5] = Places[5] \cup {b}
      BY <2>3, <2>6, PlacesAre
    <3>3. ASSUME NEW k \in 1 .. 8, k \notin {1, 5} PROVE Places'[k] = Places[k]
      BY <1>2, <2>6, <3>3, Eight, PlacesAre
    <3>4. Partition(Places, produced) /\ \A m \in 1 .. 8 : m \notin {1, 5} => Places'[m] = Places[m]
      BY <1>1, <3>3
    <3>5. Partition(Places', produced)
      BY <3>1, <3>2, <3>4, Moved
    <3> QED BY <1>2, <3>5
  <2>10. Lined'
    <3>1. Gone' = Gone \cup {b}
      BY <1>2, <2>6 DEF Gone
    <3>2. QueueSet(slices') = Q /\ BuildingSet(partial') = B
      BY <1>2
    <3> QED BY <2>3, <2>7, <3>1, <3>2 DEF Lined
  <2>11. Numbered'
    BY <1>2 DEF IInv, Numbered
  <2>12. Timeframes'
    <3>1. Buffered' = Buffered
      BY <1>2 DEF Buffered
    <3> QED BY <1>2, <3>1 DEF IInv, Timeframes
  <2>13. Idle'
    BY <1>2, <1>3 DEF IInv, Idle
  <2>14. BuildingOK(partial') /\ QueuesOK(slices') /\ BufferOK(stfBuffer')
    BY <1>2 DEF IInv
  <2> QED
    BY <2>3, <2>6, <2>8, <2>9, <2>10, <2>11, <2>12, <2>13, <2>14 DEF IInv
<1> QED
  BY <1>4, <1>5

-----------------------------------------------------------------------------
(* The callback queues and retrieves slices.                               *)

\* The slices that were not updated for long are queued.
LEMMA PopDoneKeeps ==
  ASSUME IInv, ControlOK', PopDone
  PROVE  IInv'
<1> DEFINE i == CurrentInput
           S == Expired(i)
           r == SlicesOf(S)
           X == BlocksOf(partial, S)
           I == InputSet(inputs)
           B == BuildingSet(partial)
           Q == QueueSet(slices)
<1>1. /\ DataOK /\ i \in Inputs /\ Partition(Places, produced) /\ InLine(Gone, Q, B, I)
      /\ BuildingOK(partial) /\ QueuesOK(slices)
      /\ partial \in [Sources -> SliceRecord] /\ slices \in [Inputs -> Seq(Seq(Block))]
  BY TypeParts, CurrentInputType DEF IInv, Lined, DataOK
<1>2. /\ slices' = [slices EXCEPT ![i] = slices[i] \o r] /\ partial' = Without(partial, S)
      /\ UNCHANGED <<mode, run, inputs, stfBuffer, lastTimeframeId, closed, output, delivered, late,
                     dropped, wrong, produced>>
      /\ pc = "pop" /\ pc' = "retrieve" /\ mode # "pass"
  BY DEF PopDone, Without, controlVars, stfVars, outVars
<1>3. S \subseteq Sources /\ \A s \in S : partial[s].blocks # <<>> /\ InputOf[s] = i
  BY DEF Expired, Building
<1> HIDE DEF i, S
<1>4. r \in Seq(Seq(Block)) /\ IsQueue(r) /\ Slots(r) = X
  BY <1>1, <1>3, SlicesQueued
<1>5. /\ partial' \in [Sources -> SliceRecord] /\ BuildingOK(partial')
      /\ BuildingSet(partial') = B \ X /\ X \subseteq B
  BY <1>1, <1>2, <1>3, BuildingTake
<1>6. Before(X, B \ X) /\ \A b \in X : b.src \in S
  BY <1>1, <1>3, BuildingSplit
<1>7. \A b \in X : InputOf[b.src] = i /\ b.src \notin BadSources
  BY <1>1, <1>3, <1>6 DEF BuildingOK
<1> HIDE DEF r, X, I, B, Q
<1>8. InLine(Gone, Q \cup X, B \ X, I) /\ Before(Q, X)
  BY <1>1, <1>5, <1>6, LineComplete
<1>9. /\ slices' \in [Inputs -> Seq(Seq(Block))] /\ QueuesOK(slices')
      /\ QueueSet(slices') = Q \cup X
  <2>1. Before(QueueSet(slices), X)
    BY <1>8 DEF Q
  <2>2. QueueSet(slices') = QueueSet(slices) \cup X /\ slices' \in [Inputs -> Seq(Seq(Block))]
        /\ QueuesOK(slices')
    BY <1>1, <1>2, <1>4, <1>7, <2>1, QueuePut
  <2> QED BY <2>2 DEF Q
<1>10. TypeOK'
  <2>1. DataOK'
    BY <1>1, <1>2, <1>5, <1>9 DEF DataOK
  <2> QED BY <2>1, TypeParts
<1>11. Partition(Places', produced')
  <2>1. 2 \in 1 .. 8 /\ 3 \in 1 .. 8 /\ 2 # 3
    OBVIOUS
  <2>2. X \subseteq Places[2] /\ Places'[2] = Places[2] \ X /\ Places'[3] = Places[3] \cup X
    BY <1>5, <1>9, PlacesAre DEF B, Q
  <2>3. ASSUME NEW k \in 1 .. 8, k \notin {2, 3} PROVE Places'[k] = Places[k]
    BY <1>2, <2>3, Eight, PlacesAre
  <2>4. Partition(Places, produced) /\ \A m \in 1 .. 8 : m \notin {2, 3} => Places'[m] = Places[m]
    BY <1>1, <2>3
  <2>5. Partition(Places', produced)
    BY <2>1, <2>2, <2>4, Moved
  <2> QED BY <1>2, <2>5
<1>12. Lined'
  <2>1. Gone' = Gone
    BY <1>2 DEF Gone
  <2>2. InputSet(inputs') = I
    BY <1>2 DEF I
  <2> QED BY <1>5, <1>8, <1>9, <2>1, <2>2 DEF Lined
<1>13. Numbered'
  BY <1>2 DEF IInv, Numbered
<1>14. Timeframes'
  <2>1. Buffered' = Buffered
    BY <1>2 DEF Buffered
  <2> QED BY <1>1, <1>2, <2>1, SameTimeframes DEF IInv, DataOK
<1>15. Idle'
  BY <1>2 DEF IInv, Idle
<1>16. /\ InputsOK(inputs') /\ BufferOK(stfBuffer')
       /\ \A k \in 1 .. Len(output') : IsSlice(output'[k].blocks)
  BY <1>2 DEF IInv
<1> QED
  BY <1>5, <1>9, <1>10, <1>11, <1>12, <1>13, <1>14, <1>15, <1>16 DEF IInv


\* getSlice: a complete slice, or one being built when the input has no complete
\* one, leaves the slicer before any later block of its source.
LEMMA SliceTaken ==
  ASSUME IInv, SliceAvailable, TakeSlice, NEW d, d = TheSlice
  PROVE  /\ d \in Seq(Block) /\ IsSlice(d)
         /\ partial' \in [Sources -> SliceRecord] /\ BuildingOK(partial')
         /\ slices' \in [Inputs -> Seq(Seq(Block))] /\ QueuesOK(slices')
         /\ Before(Gone, Elements(d))
         /\ InLine(Gone \cup Elements(d), QueueSet(slices'), BuildingSet(partial'), InputSet(inputs))
         /\ \/ /\ Elements(d) \subseteq QueueSet(slices) /\ UNCHANGED partial
               /\ QueueSet(slices') = QueueSet(slices) \ Elements(d)
            \/ /\ Elements(d) \subseteq BuildingSet(partial) /\ UNCHANGED slices
               /\ BuildingSet(partial') = BuildingSet(partial) \ Elements(d)
<1> DEFINE i == CurrentInput
           X == Elements(d)
           I == InputSet(inputs)
           B == BuildingSet(partial)
           Q == QueueSet(slices)
<1>1. /\ i \in Inputs /\ InLine(Gone, Q, B, I) /\ BuildingOK(partial) /\ QueuesOK(slices)
      /\ partial \in [Sources -> SliceRecord] /\ slices \in [Inputs -> Seq(Seq(Block))]
  BY TypeParts, CurrentInputType DEF IInv, Lined, DataOK
<1>2. CASE FromQueue
  <2>1. /\ slices[i] # <<>> /\ d = Head(slices[i])
        /\ slices' = [slices EXCEPT ![i] = Tail(slices[i])] /\ UNCHANGED partial
    BY <1>2 DEF FromQueue, TheSlice, TakeSlice
  <2> HIDE DEF i
  <2>2. /\ slices' \in [Inputs -> Seq(Seq(Block))] /\ QueuesOK(slices')
        /\ d \in Seq(Block) /\ IsSlice(d)
        /\ X \subseteq Q /\ Before(X, QueueSet(slices'))
    BY <1>1, <2>1, QueueTake
  <2>3. QueueSet(slices') = Q \ X
    <3>1. QueueSet(slices') = QueueSet(slices) \ Elements(d)
      <4>1. /\ slices \in [Inputs -> Seq(Seq(Block))] /\ QueuesOK(slices) /\ i \in Inputs /\ slices[i] # <<>>
            /\ slices' = [slices EXCEPT ![i] = Tail(slices[i])] /\ d = Head(slices[i])
        BY <1>1, <2>1
      <4> QED BY ZenonT(30), <4>1, QueueTaken
    <3> QED BY <3>1
  <2> HIDE DEF X, I, B, Q
  <2>4. InLine(Gone \cup X, Q \ X, B, I) /\ Before(Gone, X)
    BY <1>1, <2>2, <2>3, LineRetrieve
  <2>5. BuildingSet(partial') = B
    BY <2>1 DEF B
  <2>6. partial' \in [Sources -> SliceRecord] /\ BuildingOK(partial')
    BY <1>1, <2>1
  <2>7. InLine(Gone \cup X, QueueSet(slices'), BuildingSet(partial'), I)
    BY <2>3, <2>4, <2>5
  <2> QED BY <2>1, <2>2, <2>3, <2>4, <2>6, <2>7 DEF X, Q, I
<1>3. CASE ~ FromQueue
  <2> DEFINE s == First(Building(i))
  <2>1. /\ slices[i] = <<>> /\ Building(i) # {} /\ d = partial[s].blocks
        /\ partial' = [partial EXCEPT ![s] = NoSlice] /\ UNCHANGED slices
    BY <1>3 DEF FromQueue, TheSlice, TakeSlice, SliceAvailable
  <2>2. s \in Sources /\ InputOf[s] = i /\ d # <<>>
    <3>1. Building(i) \subseteq Nat
      BY AggregatorAssumption DEF Building, Sources
    <3>2. s \in Building(i)
      BY <2>1, <3>1, FirstIsLeast
    <3> QED BY <2>1, <3>2 DEF Building
  <2> HIDE DEF s, i
  <2>3. d \in Seq(Block) /\ IsSlice(d)
    BY <1>1, <2>1, <2>2 DEF BuildingOK, SliceRecord
  <2>4. partial' = Without(partial, {s}) /\ {s} \subseteq Sources
    BY <1>1, <2>1, <2>2 DEF Without
  <2>5. X = BlocksOf(partial, {s})
    BY <2>1 DEF BlocksOf
  <2>6. /\ partial' \in [Sources -> SliceRecord] /\ BuildingOK(partial')
        /\ BuildingSet(partial') = B \ X /\ X \subseteq B
    BY <1>1, <2>4, <2>5, BuildingTake
  <2>7. Before(X, B \ X) /\ \A b \in X : b.src \in {s}
    BY <1>1, <2>4, <2>5, BuildingSplit
  <2>8. Before(X, Q)
    <3>1. ASSUME NEW c \in Q PROVE InputOf[c.src] # i
      <4>1. PICK k \in Inputs : c \in Slots(slices[k])
        BY DEF QueueSet
      <4>2. InputOf[c.src] = k
        BY <1>1, <4>1 DEF QueuesOK
      <4>3. k # i
        BY <2>1, <4>1 DEF Slots
      <4> QED BY <4>2, <4>3
    <3> QED BY <2>2, <2>7, <3>1 DEF Before
  <2> HIDE DEF X, I, B, Q
  <2>9. InLine(Gone \cup X, Q, B \ X, I) /\ Before(Gone, X)
    BY <1>1, <2>6, <2>7, <2>8, LineFlush
  <2>10. QueueSet(slices') = Q
    BY <2>1 DEF Q
  <2>11. slices' \in [Inputs -> Seq(Seq(Block))] /\ QueuesOK(slices')
    BY <1>1, <2>1
  <2>12. InLine(Gone \cup X, QueueSet(slices'), BuildingSet(partial'), I)
    BY <2>6, <2>9, <2>10
  <2> QED BY <2>1, <2>3, <2>6, <2>9, <2>11, <2>12 DEF X, B, I
<1> QED
  BY <1>2, <1>3

\* The blocks of a slice go from the slicer to another place.
LEMMA SliceMoved ==
  ASSUME IInv, NEW X, NEW l \in 4 .. 7, Places'[l] = Places[l] \cup X,
         \A m \in {1, 4, 5, 6, 7, 8} : m # l => Places'[m] = Places[m], produced' = produced,
         \/ X \subseteq Places[3] /\ Places'[3] = Places[3] \ X /\ Places'[2] = Places[2]
         \/ X \subseteq Places[2] /\ Places'[2] = Places[2] \ X /\ Places'[3] = Places[3]
  PROVE  Partition(Places', produced')
<1>1. Partition(Places, produced) /\ l \in 1 .. 8 /\ 2 \in 1 .. 8 /\ 3 \in 1 .. 8 /\ l # 2 /\ l # 3
  BY DEF IInv
<1>2. CASE X \subseteq Places[3] /\ Places'[3] = Places[3] \ X /\ Places'[2] = Places[2]
  <2>1. ASSUME NEW m \in 1 .. 8, m \notin {3, l} PROVE Places'[m] = Places[m]
    BY <1>2, <2>1, Eight
  <2>2. Partition(Places', produced)
    BY <1>1, <1>2, <2>1, Moved
  <2> QED BY <2>2
<1>3. CASE X \subseteq Places[2] /\ Places'[2] = Places[2] \ X /\ Places'[3] = Places[3]
  <2>1. ASSUME NEW m \in 1 .. 8, m \notin {2, l} PROVE Places'[m] = Places[m]
    BY <1>3, <2>1, Eight
  <2>2. Partition(Places', produced)
    BY <1>1, <1>3, <2>1, Moved
  <2> QED BY <2>2
<1> QED
  BY <1>2, <1>3


\* One turn of the loop that retrieves slices.
LEMMA RetrieveKeeps ==
  ASSUME IInv, ControlOK', Retrieve
  PROVE  IInv'
<1> DEFINE d == TheSlice
           X == Elements(d)
<1>1. DataOK
  BY TypeParts DEF IInv
<1>2. /\ SliceAvailable /\ TakeSlice /\ ~ OutputFull
      /\ UNCHANGED <<mode, run, inputs, lastTimeframeId, closed, pc, produced, wrong>>
      /\ pc = "retrieve"
  BY DEF Retrieve, controlVars
<1>3. mode # "pass"
  BY <1>2 DEF IInv, Idle
<1>4. \/ mode = "stf" /\ BufferSlice(d) /\ UNCHANGED <<output, delivered, dropped>>
      \/ mode # "stf" /\ PushOutput([blocks |-> d, eot |-> FALSE]) /\ UNCHANGED <<stfBuffer, late>>
  BY DEF Retrieve, outVars
<1>5. d = TheSlice
  OBVIOUS
<1> HIDE DEF d
<1>6. /\ d \in Seq(Block) /\ IsSlice(d)
      /\ partial' \in [Sources -> SliceRecord] /\ BuildingOK(partial')
      /\ slices' \in [Inputs -> Seq(Seq(Block))] /\ QueuesOK(slices')
      /\ Before(Gone, X)
      /\ InLine(Gone \cup X, QueueSet(slices'), BuildingSet(partial'), InputSet(inputs))
      /\ \/ /\ X \subseteq QueueSet(slices) /\ UNCHANGED partial
            /\ QueueSet(slices') = QueueSet(slices) \ X
         \/ /\ X \subseteq BuildingSet(partial) /\ UNCHANGED slices
            /\ BuildingSet(partial') = BuildingSet(partial) \ X
  BY <1>2, <1>5, SliceTaken
<1>7. X \subseteq Block /\ \A b \in X : b.tf = d[1].tf
  <2>1. X = {d[k] : k \in 1 .. Len(d)} /\ X \subseteq Block /\ Len(d) \in Nat
    BY <1>6, ElementsType
  <2>2. d # <<>> /\ \A k, l \in 1 .. Len(d) : d[k].tf = d[l].tf
    BY <1>6 DEF IsSlice
  <2>3. 1 \in 1 .. Len(d)
    BY <1>6, <2>1, <2>2
  <2> QED BY <2>1, <2>2, <2>3
<1>8. d[1].tf \in TimeframeIds
  <2>1. d[1] \in Block
    BY <1>6 DEF IsSlice
  <2> QED BY <2>1 DEF Block
<1>9. /\ \/ X \subseteq Places[3] /\ Places'[3] = Places[3] \ X /\ Places'[2] = Places[2]
         \/ X \subseteq Places[2] /\ Places'[2] = Places[2] \ X /\ Places'[3] = Places[3]
      /\ Places'[1] = Places[1] /\ Places'[8] = Places[8]
  <2> HIDE DEF X
  <2>1. Places'[1] = Places[1] /\ Places'[8] = Places[8]
    BY <1>2, PlacesAre
  <2>2. /\ Places[2] = BuildingSet(partial) /\ Places'[2] = BuildingSet(partial')
        /\ Places[3] = QueueSet(slices) /\ Places'[3] = QueueSet(slices')
    BY PlacesAre
  <2> QED BY <1>6, <2>1, <2>2
<1>10. Numbered'
  BY <1>2 DEF IInv, Numbered
<1>11. Idle'
  BY <1>2, <1>3 DEF IInv, Idle
<1>12. InputsOK(inputs')
  BY <1>2 DEF IInv
<1>13. /\ lastTimeframeId \in Nat /\ TimeframeIds \subseteq Nat
  BY <1>1, AggregatorAssumption DEF DataOK, undefinedTimeframeId
<1> HIDE DEF X
<1>14. CASE mode # "stf"
  <2> DEFINE e == [blocks |-> d, eot |-> FALSE]
  <2>1. e \in DataSet /\ e.blocks = d /\ PushOutput(e) /\ UNCHANGED <<stfBuffer, late>>
    BY <1>4, <1>6, <1>14 DEF DataSet
  <2> HIDE DEF e
  <2>2. /\ output' \in Seq(DataSet) /\ Len(output') <= OutputSize
        /\ \A k \in 1 .. Len(output') : IsSlice(output'[k].blocks)
        /\ delivered' = delivered \cup X /\ dropped' = dropped
    BY <1>2, <1>6, <2>1, Pushed DEF X
  <2>3. TypeOK'
    <3>1. DataOK'
      BY <1>1, <1>2, <1>6, <1>7, <2>1, <2>2 DEF DataOK
    <3> QED BY <3>1, TypeParts
  <2>4. Partition(Places', produced')
    <3>1. /\ Places'[5] = Places[5] \cup X /\ Places'[4] = Places[4] /\ Places'[6] = Places[6]
          /\ Places'[7] = Places[7]
      BY <2>1, <2>2, PlacesAre
    <3>2. 5 \in 4 .. 7 /\ \A m \in {1, 4, 5, 6, 7, 8} : m # 5 => Places'[m] = Places[m]
      BY <1>9, <3>1
    <3> QED BY <1>2, <1>9, <3>1, <3>2, SliceMoved
  <2>5. Lined'
    <3>1. Gone' = Gone \cup X
      BY <1>2, <2>1, <2>2 DEF Gone
    <3> QED BY <1>2, <1>6, <3>1 DEF Lined
  <2>6. Timeframes'
    <3>1. Buffered' = Buffered
      BY <2>1 DEF Buffered
    <3> QED BY <1>2, <1>14, <2>1, <3>1 DEF IInv, Timeframes
  <2>7. BufferOK(stfBuffer')
    BY <2>1 DEF IInv
  <2> QED
    BY <1>6, <1>10, <1>11, <1>12, <2>2, <2>3, <2>4, <2>5, <2>6, <2>7 DEF IInv
<1>15. CASE mode = "stf" /\ IsLate(d[1].tf)
  <2>1. late' = late \cup X /\ UNCHANGED <<stfBuffer, output, delivered, dropped>>
    BY <1>4, <1>15 DEF BufferSlice, X, Elements
  <2>2. TypeOK'
    <3>1. DataOK'
      BY <1>1, <1>2, <1>6, <1>7, <2>1 DEF DataOK
    <3> QED BY <3>1, TypeParts
  <2>3. Partition(Places', produced')
    <3>1. /\ Places'[6] = Places[6] \cup X /\ Places'[4] = Places[4] /\ Places'[5] = Places[5]
          /\ Places'[7] = Places[7]
      BY <2>1, PlacesAre
    <3>2. 6 \in 4 .. 7 /\ \A m \in {1, 4, 5, 6, 7, 8} : m # 6 => Places'[m] = Places[m]
      BY <1>9, <3>1
    <3> QED BY <1>2, <1>9, <3>1, <3>2, SliceMoved
  <2>4. Lined'
    <3>1. Gone' = Gone \cup X
      BY <1>2, <2>1 DEF Gone
    <3> QED BY <1>2, <1>6, <3>1 DEF Lined
  <2>5. Timeframes'
    <3>1. Buffered' = Buffered
      BY <2>1 DEF Buffered
    <3>2. \A b \in X : b.tf <= lastTimeframeId
      BY <1>7, <1>15 DEF IsLate
    <3>3. \A b \in late' : b.tf <= lastTimeframeId'
      BY <1>2, <2>1, <3>2 DEF IInv, Timeframes
    <3>4. \A b \in delivered' : b.tf <= lastTimeframeId'
      BY <1>2, <1>15, <2>1 DEF IInv, Timeframes
    <3> QED BY <1>2, <3>1, <3>3, <3>4 DEF IInv, Timeframes
  <2>6. BufferOK(stfBuffer') /\ \A k \in 1 .. Len(output') : IsSlice(output'[k].blocks)
    BY <2>1 DEF IInv
  <2> QED
    BY <1>6, <1>10, <1>11, <1>12, <2>2, <2>3, <2>4, <2>5, <2>6 DEF IInv
<1>16. CASE mode = "stf" /\ ~ IsLate(d[1].tf)
  <2> DEFINE tf == d[1].tf
  <2>1. /\ stfBuffer' = [stfBuffer EXCEPT ![tf] = [age |-> 0, sets |-> Append(stfBuffer[tf].sets, d)]]
        /\ UNCHANGED <<late, output, delivered, dropped>>
    BY <1>4, <1>16 DEF BufferSlice
  <2>2. lastTimeframeId < tf
    <3>1. tf \in Nat /\ ~ (tf <= lastTimeframeId)
      BY <1>8, <1>13, <1>16 DEF IsLate
    <3> HIDE DEF tf
    <3> QED BY <1>13, <3>1
  <2>3. tf \in TimeframeIds /\ \A b \in X : b.tf = tf
    BY <1>7, <1>8
  <2> HIDE DEF tf
  <2>4. stfBuffer \in [TimeframeIds -> StfRecord] /\ BufferOK(stfBuffer)
        /\ Before(BufferSet(stfBuffer), X)
    <3>1. BufferSet(stfBuffer) \subseteq Gone
      BY DEF Gone
    <3>2. Before(BufferSet(stfBuffer), X)
      BY <1>6, <3>1 DEF Before
    <3> QED BY <1>1, <3>2 DEF DataOK, IInv
  <2>5. /\ stfBuffer' \in [TimeframeIds -> StfRecord] /\ BufferOK(stfBuffer')
        /\ BufferSet(stfBuffer') = BufferSet(stfBuffer) \cup X
        /\ \A x \in TimeframeIds : x # tf => stfBuffer'[x] = stfBuffer[x]
    <3>1. /\ d \in Seq(Block) /\ IsSlice(d) /\ Before(BufferSet(stfBuffer), Elements(d))
          /\ \A b \in Elements(d) : b.tf = tf
      BY <1>6, <2>3, <2>4 DEF X
    <3>2. stfBuffer' = [stfBuffer EXCEPT ![tf] = [age |-> 0, sets |-> Append(stfBuffer[tf].sets, d)]]
      BY <2>1
    <3>3. stfBuffer' \in [TimeframeIds -> StfRecord] /\ BufferOK(stfBuffer')
      BY <2>3, <2>4, <3>1, <3>2, BufferPut
    <3>4. BufferSet(stfBuffer') = BufferSet(stfBuffer) \cup Elements(d)
      BY <2>3, <2>4, <3>1, <3>2, BufferPutSet
    <3>5. \A x \in TimeframeIds : x # tf => stfBuffer'[x] = stfBuffer[x]
      BY <2>4, <3>2
    <3> QED BY <3>3, <3>4, <3>5 DEF X
  <2>6. TypeOK'
    <3>1. DataOK'
      BY <1>1, <1>2, <1>6, <2>1, <2>5 DEF DataOK
    <3> QED BY <3>1, TypeParts
  <2>7. Partition(Places', produced')
    <3>1. /\ Places'[4] = Places[4] \cup X /\ Places'[5] = Places[5] /\ Places'[6] = Places[6]
          /\ Places'[7] = Places[7]
      BY <2>1, <2>5, PlacesAre
    <3>2. 4 \in 4 .. 7 /\ \A m \in {1, 4, 5, 6, 7, 8} : m # 4 => Places'[m] = Places[m]
      BY <1>9, <3>1
    <3> QED BY <1>2, <1>9, <3>1, <3>2, SliceMoved
  <2>8. Lined'
    <3>1. Gone' = Gone \cup X
      BY <1>2, <2>1, <2>5 DEF Gone
    <3> QED BY <1>2, <1>6, <3>1 DEF Lined
  <2>9. Timeframes'
    <3>1. Buffered' \subseteq Buffered \cup {tf}
      BY <2>5 DEF Buffered
    <3>2. \A x \in Buffered' : lastTimeframeId' < x
      BY <1>2, <2>2, <3>1 DEF IInv, Timeframes
    <3>3. \A b \in delivered' : b.tf <= lastTimeframeId'
      BY <1>2, <1>16, <2>1 DEF IInv, Timeframes
    <3> QED BY <1>2, <2>1, <3>2, <3>3 DEF IInv, Timeframes
  <2>10. \A k \in 1 .. Len(output') : IsSlice(output'[k].blocks)
    BY <2>1 DEF IInv
  <2> QED
    BY <1>6, <1>10, <1>11, <1>12, <2>5, <2>6, <2>7, <2>8, <2>9, <2>10 DEF IInv
<1> QED
  BY <1>14, <1>15, <1>16


-----------------------------------------------------------------------------
(* Timeframes are sent.                                                    *)

\* What is left of a timeframe when one of its slices is sent.
LEMMA StfLeft ==
  ASSUME NEW v \in StfRecord, v.sets # <<>>,
         NEW r, r = IF Len(v.sets) = 1 THEN NoStf ELSE [age |-> v.age, sets |-> Tail(v.sets)]
  PROVE  /\ r \in StfRecord /\ r.sets = Tail(v.sets)
         /\ Len(v.sets) = 1 => r.sets = <<>>
         /\ Len(v.sets) # 1 => r.sets # <<>> /\ r.age = v.age
<1>1. v.sets \in Seq(Seq(Block)) /\ v.age \in 0 .. StfTimeout /\ StfTimeout \in Nat
  BY AggregatorAssumption DEF StfRecord
<1>2. /\ Tail(v.sets) \in Seq(Seq(Block)) /\ Len(v.sets) \in Nat \ {0}
      /\ Len(Tail(v.sets)) = Len(v.sets) - 1
  BY <1>1, ElementsTail
<1>3. Len(v.sets) = 1 => Tail(v.sets) = <<>>
  <2> DEFINE u == Tail(v.sets)
  <2>1. u \in Seq(Seq(Block)) /\ (Len(v.sets) = 1 => Len(u) = 0)
    BY <1>2
  <2> HIDE DEF u
  <2>2. Len(u) = 0 => u = <<>>
    BY <2>1
  <2> QED BY <2>1, <2>2 DEF u
<1>4. Len(v.sets) # 1 => Tail(v.sets) # <<>>
  <2> DEFINE u == Tail(v.sets)
  <2>1. Len(v.sets) # 1 => Len(u) # 0
    BY <1>2
  <2> HIDE DEF u
  <2>2. u = <<>> => Len(u) = 0
    OBVIOUS
  <2> QED BY <2>1, <2>2 DEF u
<1>5. CASE Len(v.sets) = 1
  <2>1. r = NoStf
    BY <1>5
  <2>2. NoStf \in StfRecord /\ NoStf.sets = <<>>
    BY <1>1 DEF NoStf, StfRecord
  <2> QED BY <1>3, <1>5, <2>1, <2>2
<1>6. CASE Len(v.sets) # 1
  <2>1. r = [age |-> v.age, sets |-> Tail(v.sets)]
    BY <1>6
  <2>2. r \in StfRecord /\ r.sets = Tail(v.sets) /\ r.age = v.age
    BY <1>1, <1>2, <2>1 DEF StfRecord
  <2> QED BY <1>4, <1>6, <2>2
<1> QED
  BY <1>5, <1>6

\* One slice of the first timeframe is sent.
LEMMA EmitKeeps ==
  ASSUME IInv, ControlOK', NEW tf \in TimeframeIds, Emit(tf)
  PROVE  IInv'
<1> DEFINE v == stfBuffer[tf]
           last == Len(v.sets) = 1
           r == IF last THEN NoStf ELSE [age |-> v.age, sets |-> Tail(v.sets)]
           d == Head(v.sets)
           X == Elements(d)
           e == [blocks |-> d, eot |-> last]
<1>1. /\ DataOK /\ stfBuffer \in [TimeframeIds -> StfRecord] /\ BufferOK(stfBuffer)
      /\ Partition(Places, produced) /\ v \in StfRecord
  BY TypeParts DEF IInv, DataOK
<1>2. /\ stfBuffer' = [stfBuffer EXCEPT ![tf] = r] /\ PushOutput(e)
      /\ lastTimeframeId' = IF last THEN tf ELSE lastTimeframeId
      /\ closed' = IF last THEN closed \cup {tf} ELSE closed
      /\ UNCHANGED <<mode, run, inputs, partial, slices, pc, executeFlush, produced, late, wrong>>
      /\ pc = "emit" /\ mode = "stf" /\ TimeframeReady(tf)
  <2>1. /\ UNCHANGED <<mode, run, inputs, partial, slices, pc, executeFlush, produced, late, wrong>>
        /\ pc = "emit" /\ mode = "stf" /\ TimeframeReady(tf)
    BY DEF Emit, controlVars, slicerVars, localVars
  <2>2. PushOutput(e)
    BY DEF Emit
  <2>3. stfBuffer' = [stfBuffer EXCEPT ![tf] = r]
    BY DEF Emit
  <2>4. /\ lastTimeframeId' = IF last THEN tf ELSE lastTimeframeId
        /\ closed' = IF last THEN closed \cup {tf} ELSE closed
    BY DEF Emit
  <2> QED BY <2>1, <2>2, <2>3, <2>4, Zenon
<1>3. v.sets # <<>> /\ tf \in Buffered /\ tf = First(Buffered)
  BY <1>2 DEF TimeframeReady, Buffered
<1>4. /\ r \in StfRecord /\ r.sets = Tail(v.sets)
      /\ last => r.sets = <<>>
      /\ ~ last => r.sets # <<>> /\ r.age = v.age
  <2>1. r = IF Len(v.sets) = 1 THEN NoStf ELSE [age |-> v.age, sets |-> Tail(v.sets)]
    OBVIOUS
  <2> HIDE DEF r, v
  <2> QED BY <1>1, <1>3, <2>1, StfLeft
<1>5. /\ stfBuffer' \in [TimeframeIds -> StfRecord] /\ stfBuffer'[tf] = r
      /\ \A x \in TimeframeIds : x # tf => stfBuffer'[x] = stfBuffer[x]
  <2> HIDE DEF r
  <2> QED BY <1>1, <1>2, <1>4
<1>6. last \in BOOLEAN
  OBVIOUS
<1> HIDE DEF r, last
<1>7. /\ BufferOK(stfBuffer') /\ d \in Seq(Block) /\ IsSlice(d) /\ X \subseteq BufferSet(stfBuffer)
      /\ \A b \in X : b.tf = tf /\ b \notin BufferSet(stfBuffer')
      /\ BufferSet(stfBuffer') \subseteq BufferSet(stfBuffer)
      /\ \A b \in BufferSet(stfBuffer) : b \in X \/ b \in BufferSet(stfBuffer')
  <2>1. d = Head(stfBuffer[tf].sets) /\ r.sets = Tail(stfBuffer[tf].sets) /\ stfBuffer[tf].sets # <<>>
    BY <1>3, <1>4
  <2>2. /\ stfBuffer \in [TimeframeIds -> StfRecord] /\ BufferOK(stfBuffer)
        /\ stfBuffer' \in [TimeframeIds -> StfRecord]
        /\ stfBuffer'[tf].sets = Tail(stfBuffer[tf].sets)
        /\ \A x \in TimeframeIds : x # tf => stfBuffer'[x] = stfBuffer[x]
    BY <1>1, <1>5, <2>1
  <2> HIDE DEF d
  <2>3. BufferOK(stfBuffer') /\ d \in Seq(Block) /\ IsSlice(d)
    BY <2>1, <2>2, BufferTake
  <2>4. X \subseteq BufferSet(stfBuffer)
    BY <2>1, <2>2, BufferTake
  <2>5. \A b \in X : b.tf = tf /\ b \notin BufferSet(stfBuffer')
    BY <2>1, <2>2, BufferTake
  <2>6. BufferSet(stfBuffer') \subseteq BufferSet(stfBuffer)
    BY <2>1, <2>2, BufferTake
  <2>7. \A b \in BufferSet(stfBuffer) : b \in X \/ b \in BufferSet(stfBuffer')
    BY <2>1, <2>2, BufferTake
  <2> QED BY <2>3, <2>4, <2>5, <2>6, <2>7
<1> HIDE DEF v, d
<1>8. e \in DataSet /\ e.blocks = d
  BY <1>6, <1>7 DEF DataSet
<1> HIDE DEF e
<1>9. X \subseteq Block
  BY <1>7, ElementsType
<1>10. /\ output' \in Seq(DataSet) /\ Len(output') <= OutputSize
       /\ \A k \in 1 .. Len(output') : IsSlice(output'[k].blocks)
       /\ \/ delivered' = delivered \cup X /\ dropped' = dropped
          \/ dropped' = dropped \cup X /\ delivered' = delivered
  BY <1>2, <1>7, <1>8, Pushed
<1> HIDE DEF X
<1>11. BufferSet(stfBuffer') = BufferSet(stfBuffer) \ X
  BY <1>7
<1>12. TypeOK'
  <2>1. lastTimeframeId' \in TimeframeIds \cup {undefinedTimeframeId} /\ closed' \subseteq TimeframeIds
    BY <1>1, <1>2 DEF DataOK
  <2>2. delivered' \subseteq Block /\ dropped' \subseteq Block
    BY <1>1, <1>9, <1>10 DEF DataOK
  <2>3. DataOK'
    BY <1>1, <1>2, <1>5, <1>10, <2>1, <2>2 DEF DataOK
  <2> QED BY <2>3, TypeParts
<1>13. Partition(Places', produced')
  <2>1. X \subseteq Places[4] /\ Places'[4] = Places[4] \ X
    BY <1>7, <1>11, PlacesAre
  <2>2. CASE delivered' = delivered \cup X /\ dropped' = dropped
    <3>1. 4 \in 1 .. 8 /\ 5 \in 1 .. 8 /\ 4 # 5 /\ Places'[5] = Places[5] \cup X
      BY <2>2, PlacesAre
    <3>2. ASSUME NEW k \in 1 .. 8, k \notin {4, 5} PROVE Places'[k] = Places[k]
      BY <1>2, <2>2, <3>2, Eight, PlacesAre
    <3>3. Partition(Places, produced) /\ \A m \in 1 .. 8 : m \notin {4, 5} => Places'[m] = Places[m]
      BY <1>1, <3>2
    <3>4. Partition(Places', produced)
      BY <2>1, <3>1, <3>3, Moved
    <3> QED BY <1>2, <3>4
  <2>3. CASE dropped' = dropped \cup X /\ delivered' = delivered
    <3>1. 4 \in 1 .. 8 /\ 7 \in 1 .. 8 /\ 4 # 7 /\ Places'[7] = Places[7] \cup X
      BY <2>3, PlacesAre
    <3>2. ASSUME NEW k \in 1 .. 8, k \notin {4, 7} PROVE Places'[k] = Places[k]
      BY <1>2, <2>3, <3>2, Eight, PlacesAre
    <3>3. Partition(Places, produced) /\ \A m \in 1 .. 8 : m \notin {4, 7} => Places'[m] = Places[m]
      BY <1>1, <3>2
    <3>4. Partition(Places', produced)
      BY <2>1, <3>1, <3>3, Moved
    <3> QED BY <1>2, <3>4
  <2> QED BY <1>10, <2>2, <2>3
<1>14. Lined'
  <2>1. Gone' = Gone
    <3>1. BufferSet(stfBuffer') \cup X = BufferSet(stfBuffer)
      BY <1>7, <1>11
    <3> QED BY <1>2, <1>10, <3>1 DEF Gone
  <2> QED BY <1>2, <2>1 DEF IInv, Lined
<1>15. Timeframes'
  <2>1. /\ lastTimeframeId \in Nat /\ tf \in Nat /\ lastTimeframeId < tf /\ TimeframeIds \subseteq Nat
        /\ Buffered \subseteq Nat
    BY <1>1, <1>3, AggregatorAssumption DEF IInv, Timeframes, DataOK, undefinedTimeframeId, Buffered
  <2>2. \A x \in Buffered : tf <= x
    BY <1>3, <2>1, FirstIsLeast
  <2>3. ASSUME NEW b \in delivered' PROVE b.tf \in Nat /\ (b.tf <= lastTimeframeId \/ b.tf = tf)
    <3>1. b \in Block
      BY <1>12, TypeParts DEF DataOK
    <3>2. b.tf \in Nat
      BY <2>1, <3>1 DEF Block
    <3>3. b \in delivered \/ b \in X
      BY <1>10
    <3>4. b \in delivered => b.tf <= lastTimeframeId \/ TimeframeReady(b.tf)
      BY <1>2 DEF IInv, Timeframes
    <3>5. TimeframeReady(b.tf) => b.tf = tf
      BY <1>3 DEF TimeframeReady
    <3> QED BY <1>7, <3>2, <3>3, <3>4, <3>5
  <2>4. CASE last
    <3>1. lastTimeframeId' = tf /\ closed' = closed \cup {tf}
      BY <1>2, <2>4
    <3>2. ASSUME NEW x \in Buffered' PROVE tf < x
      <4>1. x \in TimeframeIds /\ stfBuffer'[x].sets # <<>>
        BY DEF Buffered
      <4>2. x # tf
        BY <1>4, <1>5, <2>4, <4>1
      <4>3. x \in Buffered
        BY <1>5, <4>1, <4>2 DEF Buffered
      <4>4. tf <= x /\ x \in Nat
        BY <2>1, <2>2, <4>3
      <4> QED BY <2>1, <4>2, <4>4
    <3>3. \A x \in closed' : x <= tf
      <4>1. ASSUME NEW x \in closed PROVE x <= tf
        <5>1. x <= lastTimeframeId /\ x \in Nat
          BY <1>1, <2>1 DEF IInv, Timeframes, DataOK
        <5> QED BY <2>1, <5>1
      <4> QED BY <2>1, <3>1, <4>1
    <3>4. \A b \in late' : b.tf <= tf
      <4>1. ASSUME NEW b \in late PROVE b.tf <= tf
        <5>1. b.tf <= lastTimeframeId /\ b \in Block
          BY <1>1 DEF IInv, Timeframes, DataOK
        <5>2. b.tf \in Nat
          BY <2>1, <5>1 DEF Block
        <5> QED BY <2>1, <5>1, <5>2
      <4> QED BY <1>2, <4>1
    <3>5. \A b \in delivered' : b.tf <= tf
      BY <2>1, <2>3
    <3> QED BY <3>1, <3>2, <3>3, <3>4, <3>5 DEF Timeframes
  <2>5. CASE ~ last
    <3>1. lastTimeframeId' = lastTimeframeId /\ closed' = closed
      BY <1>2, <2>5
    <3>2. Buffered' = Buffered
      <4>1. \A x \in TimeframeIds : stfBuffer'[x].sets # <<>> <=> stfBuffer[x].sets # <<>>
        BY <1>3, <1>4, <1>5, <2>5 DEF v
      <4> QED BY <4>1 DEF Buffered
    <3>3. TimeframeReady(tf)'
      <4>1. stfBuffer'[tf].age = stfBuffer[tf].age
        BY <1>4, <1>5, <2>5 DEF v
      <4> QED BY <1>2, <3>2, <4>1 DEF TimeframeReady
    <3>4. \A b \in delivered' : b.tf <= lastTimeframeId' \/ (pc' = "emit" /\ TimeframeReady(b.tf)')
      BY <1>2, <2>3, <3>1, <3>3
    <3> QED BY <1>2, <3>1, <3>2, <3>4 DEF IInv, Timeframes
  <2> QED BY <2>4, <2>5
<1>16. Numbered'
  BY <1>2 DEF IInv, Numbered
<1>17. Idle'
  <2>1. run # "off" \/ closed' = {}
    <3>1. run = "off" => BufferSet(stfBuffer) = {}
      BY OffIsEmpty
    <3>2. X # {}
      <4>1. d # <<>>
        BY <1>7 DEF IsSlice
      <4> QED BY <1>7, <4>1, ElementsType DEF X
    <3> QED BY <1>7, <3>1, <3>2
  <2> QED BY <1>2, <2>1 DEF IInv, Idle
<1>18. InputsOK(inputs') /\ BuildingOK(partial') /\ QueuesOK(slices')
  BY <1>2 DEF IInv
<1> QED
  BY <1>7, <1>10, <1>12, <1>13, <1>14, <1>15, <1>16, <1>17, <1>18 DEF IInv


-----------------------------------------------------------------------------
(* The invariant of the specification.                                     *)

\* Every step keeps the invariant.
LEMMA NextKeeps ==
  ASSUME IInv, [Next]_vars
  PROVE  IInv'
<1>1. CASE Next
  <2>1. ControlOK'
    BY <1>1, TypeParts, ControlKept DEF IInv
  <2>2. CASE Start
    BY <2>1, <2>2, ResetKeeps DEF Start
  <2>3. CASE Join
    BY <2>1, <2>3, ResetKeeps DEF Join
  <2>4. CASE Stop \/ RequestFlush \/ RetrieveFull \/ RetrieveDone \/ End
    BY <2>1, <2>4, QuietKeeps
  <2>5. CASE \E s \in Sources : \E tf \in TimeframesOf[s] : Produce(s, tf)
    BY <2>1, <2>5, ProduceKeeps
  <2>6. CASE Consume
    BY <2>1, <2>6, ConsumeKeeps
  <2>7. CASE \E d \in 0 .. 1 : Begin(d)
    BY <2>1, <2>7, BeginKeeps
  <2>8. CASE PassThrough
    BY <2>1, <2>8, PassThroughKeeps
  <2>9. CASE PopBlock
    BY <2>1, <2>9, PopBlockKeeps
  <2>10. CASE PopWrongBlock
    BY <2>1, <2>10, PopWrongBlockKeeps
  <2>11. CASE PopDone
    BY <2>1, <2>11, PopDoneKeeps
  <2>12. CASE Retrieve
    BY <2>1, <2>12, RetrieveKeeps
  <2>13. CASE \E tf \in TimeframeIds : Emit(tf)
    BY <2>1, <2>13, EmitKeeps
  <2> QED
    BY <1>1, <2>2, <2>3, <2>4, <2>5, <2>6, <2>7, <2>8, <2>9, <2>10, <2>11, <2>12, <2>13
    DEF Next, Callback
<1>2. CASE UNCHANGED vars
  <2>1. UNCHANGED <<mode, run, inputs, partial, slices, stfBuffer, lastTimeframeId, closed, nextIndex, doFlush,
                    output, delivered, dropped, pc, ix, j, executeFlush, busy, produced, late, wrong>>
    BY <1>2 DEF vars, controlVars, slicerVars, stfVars, outVars, localVars
  <2>2. ControlOK'
    BY <2>1, TypeParts DEF IInv, ControlOK
  <2>3. mode = "pass" => pc' # "retrieve"
    BY <2>1 DEF IInv, Idle
  <2> QED BY <2>1, <2>2, <2>3, SameSlices
<1> QED
  BY <1>1, <1>2

\* IInv holds in every state of every behaviour of the aggregator: the types, the
\* shape of every FIFO, slice, queue and buffer, the place of each block, the order
\* of the blocks of a source from the input to the output, and the order of the
\* timeframes (executeCallback, appendBlock, completeSliceOnTimeout, getSlice).
THEOREM Invariance == Spec => []IInv
<1>1. Init => IInv
  BY InitKeeps
<1>2. IInv /\ [Next]_vars => IInv'
  BY NextKeeps
<1> QED
  BY <1>1, <1>2, PTL DEF Spec

\* Every variable has its type, and the input and output FIFOs keep their capacity.
THEOREM TypeCorrect == Spec => []TypeOK
<1>1. IInv => TypeOK
  BY DEF IInv
<1> QED
  BY <1>1, Invariance, PTL

\* The eight places are those of the property.
LEMMA PlacesElements ==
  /\ DOMAIN Places = 1 .. 8
  /\ Elements(Places) = {Places[k] : k \in 1 .. 8}
<1>1. DOMAIN Places = 1 .. 8
  BY DEF Places
<1> QED
  BY <1>1 DEF Elements

\* Every block that an equipment pushed is in one place only until stop(), and
\* each data set at the output is a slice: blocks of one source and of one
\* timeframe in the order of their production, in the three configurations and
\* with every timing of the timeouts and of the flush.
THEOREM BlocksAreInSlices == Spec => []BlocksInSlices
<1>1. IInv => BlocksInSlices
  <2> SUFFICES ASSUME IInv PROVE BlocksInSlices
    OBVIOUS
  <2>1. BlocksAccounted
    <3>1. TypeOK /\ Partition(Places, produced)
      BY DEF IInv
    <3>2. produced = UNION Elements(Places)
      BY <3>1, PlacesElements DEF Partition
    <3>3. \A k, l \in DOMAIN Places : k < l => Places[k] \cap Places[l] = {}
      BY <3>1, PlacesElements DEF Partition
    <3> QED BY <3>1, <3>2, <3>3 DEF BlocksAccounted
  <2>2. ASSUME NEW d \in Elements(output)
        PROVE  /\ d.blocks # <<>>
               /\ \A k, l \in DOMAIN d.blocks :
                    /\ d.blocks[k].src = d.blocks[l].src
                    /\ d.blocks[k].tf = d.blocks[l].tf
                    /\ k < l => d.blocks[k].n < d.blocks[l].n
                    /\ k # l => d.blocks[k].tf # undefinedTimeframeId
    <3>1. output \in Seq(DataSet) /\ \A m \in 1 .. Len(output) : IsSlice(output[m].blocks)
      BY TypeParts DEF IInv, DataOK
    <3>2. PICK m \in 1 .. Len(output) : d = output[m]
      BY <3>1, ElementsType
    <3>3. IsSlice(d.blocks) /\ d \in DataSet
      BY <3>1, <3>2
    <3>4. DOMAIN d.blocks = 1 .. Len(d.blocks)
      BY <3>3 DEF DataSet
    <3> QED BY <3>3, <3>4 DEF IsSlice
  <2> QED BY <2>1, <2>2 DEF BlocksInSlices, SlicesHomogeneous
<1> QED
  BY <1>1, Invariance, PTL

\* What executeCallback() discards as late has no timeframe id, or belongs to a
\* timeframe that is not after one sent before in the same run.
THEOREM OnlyLateIsLate == Spec => []LateIsJustified
<1>1. IInv => LateIsJustified
  <2> SUFFICES ASSUME IInv, NEW b \in late
               PROVE  b.tf = undefinedTimeframeId \/ \E tf \in closed : b.tf <= tf
    BY DEF LateIsJustified
  <2>1. b.tf <= lastTimeframeId /\ lastTimeframeId \in closed \cup {undefinedTimeframeId}
    BY DEF IInv, Timeframes
  <2>2. b.tf \in Nat
    BY TypeParts, AggregatorAssumption DEF IInv, DataOK, Block
  <2>3. CASE lastTimeframeId \in closed
    BY <2>1, <2>3
  <2>4. CASE lastTimeframeId = undefinedTimeframeId
    BY <2>1, <2>2, <2>4 DEF undefinedTimeframeId
  <2> QED BY <2>1, <2>3, <2>4
<1> QED
  BY <1>1, Invariance, PTL

-----------------------------------------------------------------------------
(* The order of the output.                                                *)

\* Only three steps push to the output.
LEMMA OnlyPushes ==
  ASSUME Next, ~ PassThrough, ~ Retrieve, \A tf \in TimeframeIds : ~ Emit(tf)
  PROVE  delivered' \subseteq delivered
  BY DEF Next, Callback, Start, Stop, Join, RequestFlush, Produce, Consume, Begin, PopBlock,
     PopWrongBlock, PopDone, RetrieveFull, RetrieveDone, End, outVars

\* Without timeframe building, what is pushed follows what was pushed before.
LEMMA SourceOrderKept ==
  ASSUME IInv, Next, mode # "stf"
  PROVE  Before(delivered, delivered' \ delivered)
<1>1. delivered \subseteq Gone
  BY DEF Gone
<1>2. CASE PassThrough
  <2>1. CASE UNCHANGED outVars
    BY <2>1 DEF outVars, Before
  <2>2. CASE ~ UNCHANGED outVars
    <3> DEFINE i == CurrentInput
               b == Head(inputs[i])
               e == <<b>>
               d == [blocks |-> e, eot |-> FALSE]
    <3>1. /\ inputs[i] # <<>> /\ inputs' = [inputs EXCEPT ![i] = Tail(inputs[i])] /\ PushOutput(d)
      BY <1>2, <2>2 DEF PassThrough
    <3>2. i \in Inputs
      BY TypeParts, CurrentInputType DEF IInv
    <3> HIDE DEF i
    <3>3. b = Head(inputs[i])
      OBVIOUS
    <3> HIDE DEF b
    <3>4. b \in Block /\ b \in InputSet(inputs)
      BY <3>1, <3>2, <3>3, TakeInput
    <3>5. e \in Seq(Block) /\ Elements(e) = {b} /\ IsSlice(e)
      BY <3>4, SliceOfOne
    <3> HIDE DEF e
    <3>6. d \in DataSet /\ d.blocks = e
      BY <3>5 DEF DataSet
    <3> HIDE DEF d
    <3>7. delivered' \ delivered \subseteq {b}
      BY <3>1, <3>5, <3>6, Pushed
    <3>8. Before(Gone, {b})
      BY <3>4 DEF IInv, Lined, InLine, Before
    <3> QED BY <1>1, <3>7, <3>8 DEF Before
  <2> QED BY <2>1, <2>2
<1>3. CASE Retrieve
  <2> DEFINE d == TheSlice
             e == [blocks |-> d, eot |-> FALSE]
  <2>1. SliceAvailable /\ TakeSlice /\ PushOutput(e)
    BY <1>3 DEF Retrieve
  <2>2. d = TheSlice
    OBVIOUS
  <2> HIDE DEF d
  <2>3. d \in Seq(Block) /\ IsSlice(d) /\ Before(Gone, Elements(d))
    BY <2>1, <2>2, SliceTaken
  <2>4. e \in DataSet /\ e.blocks = d
    BY <2>3 DEF DataSet
  <2> HIDE DEF e
  <2>5. delivered' \ delivered \subseteq Elements(d)
    BY <2>1, <2>3, <2>4, Pushed
  <2> QED BY <1>1, <2>3, <2>5 DEF Before
<1>4. CASE \E tf \in TimeframeIds : Emit(tf)
  BY <1>4 DEF Emit
<1>5. CASE ~ PassThrough /\ ~ Retrieve /\ \A tf \in TimeframeIds : ~ Emit(tf)
  <2>1. delivered' \ delivered = {}
    BY <1>5, OnlyPushes
  <2> QED BY <2>1 DEF Before
<1> QED
  BY <1>2, <1>3, <1>4, <1>5

\* With timeframe building, what is pushed belongs to a timeframe that is not
\* before any of those pushed, and after the closed ones.
LEMMA TimeframesInOrderKept ==
  ASSUME IInv, Next, mode = "stf", NEW b \in delivered' \ delivered
  PROVE  /\ \A c \in delivered : c.tf <= b.tf
         /\ \A tf \in closed : tf < b.tf
<1>1. ~ PassThrough
  BY DEF PassThrough
<1>2. ~ Retrieve
  BY DEF Retrieve, outVars
<1>3. PICK tf \in TimeframeIds : Emit(tf)
  BY <1>1, <1>2, OnlyPushes
<1> DEFINE d == Head(stfBuffer[tf].sets)
           last == Len(stfBuffer[tf].sets) = 1
           e == [blocks |-> d, eot |-> last]
<1>4. /\ PushOutput(e) /\ TimeframeReady(tf) /\ pc = "emit"
  BY <1>3 DEF Emit
<1>5. last \in BOOLEAN
  OBVIOUS
<1> HIDE DEF last
<1>6. stfBuffer[tf].sets # <<>> /\ tf \in Buffered /\ tf = First(Buffered)
  BY <1>4 DEF TimeframeReady, Buffered
<1>7. stfBuffer[tf].sets \in Seq(Seq(Block)) /\ IsQueue(stfBuffer[tf].sets)
      /\ \A c \in Slots(stfBuffer[tf].sets) : c.tf = tf
  BY TypeParts DEF IInv, DataOK, BufferOK, StfRecord
<1>8. d \in Seq(Block) /\ IsSlice(d) /\ \A c \in Elements(d) : c.tf = tf
  BY <1>6, <1>7, QueueTail
<1> HIDE DEF d
<1>9. e \in DataSet /\ e.blocks = d
  BY <1>5, <1>8 DEF DataSet
<1> HIDE DEF e
<1>10. b.tf = tf
  <2>1. b \in Elements(d)
    BY <1>4, <1>8, <1>9, Pushed
  <2> QED BY <1>8, <2>1
<1>11. lastTimeframeId \in Nat /\ tf \in Nat /\ lastTimeframeId < tf
  <2>1. lastTimeframeId \in Nat /\ tf \in Nat
    <3>1. DataOK
      BY TypeParts DEF IInv
    <3>2. TimeframeIds \subseteq Nat
      BY AggregatorAssumption
    <3>3. lastTimeframeId \in TimeframeIds \cup {undefinedTimeframeId}
      BY <3>1 DEF DataOK
    <3> QED BY <3>2, <3>3 DEF undefinedTimeframeId
  <2>2. lastTimeframeId < tf
    BY <1>6 DEF IInv, Timeframes
  <2> QED BY <2>1, <2>2
<1>12. ASSUME NEW c \in delivered PROVE c.tf <= tf
  <2>1. c.tf \in Nat
    BY TypeParts, AggregatorAssumption DEF IInv, DataOK, Block
  <2>2. c.tf <= lastTimeframeId \/ TimeframeReady(c.tf)
    BY DEF IInv, Timeframes
  <2>3. TimeframeReady(c.tf) => c.tf = tf
    BY <1>6 DEF TimeframeReady
  <2> QED BY <1>11, <2>1, <2>2, <2>3
<1>13. ASSUME NEW x \in closed PROVE x < tf
  <2>1. x \in Nat /\ x <= lastTimeframeId
    BY TypeParts, AggregatorAssumption DEF IInv, DataOK, Timeframes
  <2> QED BY <1>11, <2>1
<1> QED
  BY <1>10, <1>12, <1>13

\* The output keeps the order in which each source produced its blocks, or, with
\* timeframe building, the order of the timeframe ids, and nothing of a timeframe
\* follows the data set that ended it.
THEOREM OutputKeepsOrder == Spec => OutputOrder
<1> DEFINE A == mode # "stf" => \A b \in NewlyDelivered, c \in delivered : b.src = c.src => c.n < b.n
           B == mode = "stf" =>
                  \A b \in NewlyDelivered :
                    /\ \A c \in delivered : c.tf <= b.tf
                    /\ \A tf \in closed : tf < b.tf
<1>1. IInv /\ [Next]_vars => [A]_vars
  BY SourceOrderKept DEF NewlyDelivered, Before
<1>2. IInv /\ [Next]_vars => [B]_vars
  BY TimeframesInOrderKept DEF NewlyDelivered
<1>3. Spec => [][A]_vars
  BY <1>1, Invariance, PTL DEF Spec
<1>4. Spec => [][B]_vars
  BY <1>2, Invariance, PTL DEF Spec
<1> QED
  BY <1>3, <1>4, PTL DEF OutputOrder, SourceOrder, TimeframesInOrder

=============================================================================
