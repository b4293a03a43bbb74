----------------------- MODULE ReadoutEquipmentProofs -----------------------
(***************************************************************************)
(* Proofs about ReadoutEquipment, for every configuration, number of       *)
(* equipments, pages and runs, size of the queues and of the orbit counter *)
(* and timeframe period: where the pages are, how the blocks and the       *)
(* timeframes are numbered, when a fatal error is justified, and what      *)
(* leaves the equipment in CTP mode.                                       *)
(***************************************************************************)
EXTENDS ReadoutEquipment, FiniteSetTheorems, WellFoundedInduction, TLAPS

-----------------------------------------------------------------------------
(* The inductive invariant.                                                *)

Block ==
  [run : 1 .. MaxRuns, blockId : 1 .. MaxFilled, timeframeId : TimeframeIds,
   orbitFirst : Orbits, orbitLast : Orbits, page : setup.pages]

Counters ==
  [first : Orbits \cup {NotDefined}, currentBlockId : 0 .. MaxFilled, lastTimeframe : TimeframeIds,
   autoLatest : TimeframeIds, autoCounter : 0 .. MaxFilled,
   ctpRunBit : Bits \cup {NoBit}, discardData : 0 .. 2,
   lastField : [Links -> (SUBSET Bits) \cup {NoField}],
   firstLinkOrbit : Orbits \cup {NotDefined}, linksDefined : SUBSET Links, isFatalError : BOOLEAN]

Places == {"off", "idle", "read", "prepare", "fill", "push"}

Phases == {"stopped", "start", "dataOn", "running", "dataOff", "flush", "stop", "stopAgg"}

\* All variables are functions on the equipments of the configuration.
Types ==
  /\ setup \in Setups
  /\ phase \in Phases /\ ix \in Equipments /\ run \in 0 .. MaxRuns
  /\ firstOrbit \in Orbits /\ filled \in 0 .. MaxFilled
  /\ th \in [Equipments -> Places]
  /\ isDataOn \in [Equipments -> BOOLEAN]
  /\ dma \in [Equipments -> BOOLEAN]
  /\ regulator \in [Equipments -> BOOLEAN]
  /\ free \in [Equipments -> Nat]
  /\ transferQueue \in [Equipments -> Nat]
  /\ readyQueue \in [Equipments -> Seq(setup.pages \cup {Leftover})]
  /\ pending \in [Equipments -> Seq(Block)]
  /\ dataOut \in [Equipments -> Seq(Block)]
  /\ sent \in [Equipments -> Seq(Block)]
  /\ eq \in [Equipments -> Counters]

\* the thread of e is not running, for the control
Off(e) ==
  \/ phase \in {"stopped", "stopAgg"}
  \/ phase = "start" /\ e >= ix
  \/ phase = "stop" /\ e < ix

\* e was started in this run
Started(e) == phase # "stopped" /\ (phase = "start" => e < ix)

\* The threads are where the control has them; nothing is set aside, and
\* nothing sent, by a thread that has not started.
Commanded ==
  /\ phase # "stopped" => run > 0
  /\ phase \in {"stopped", "running", "flush", "stopAgg"} => ix = 1
  /\ \A e \in Equipments : th[e] = "off" <=> Off(e)
  /\ \A e \in Equipments : th[e] = "off" => pending[e] = <<>>
  /\ phase = "start" => \A e \in Equipments : e >= ix => sent[e] = <<>>

\* The pages of e.
PagesOf(e) ==
  free[e] + transferQueue[e] + Len(readyQueue[e]) + (IF th[e] = "push" THEN 1 ELSE 0)
    + Len(pending[e]) + Len(dataOut[e])

\* Each page is in one place, and there is room for the page about to be pushed.
Accounted ==
  \A e \in Equipments :
    /\ PagesOf(e) = NPages
    /\ transferQueue[e] <= QueueSize
    /\ th[e] = "push" => transferQueue[e] < QueueSize
    /\ Len(pending[e]) <= 1 /\ Len(dataOut[e]) <= FifoSize

\* the positions of a queue that hold data
DataIn(s) == {k \in 1 .. Len(s) : s[k] # Leftover}

\* Ids count the blocks that were sent or set aside; a block needs a superpage
\* that was filled.
Numbered ==
  \A e \in Equipments :
    /\ \A k \in 1 .. Len(sent[e]) : sent[e][k].blockId = k /\ sent[e][k].run = run
    /\ th[e] # "off" => eq[e].currentBlockId = Len(sent[e]) + Len(pending[e])
    /\ pending[e] # <<>> => pending[e][1].blockId = eq[e].currentBlockId /\ pending[e][1].run = run
    /\ eq[e].autoCounter <= eq[e].currentBlockId
    /\ eq[e].currentBlockId + Cardinality(DataIn(readyQueue[e])) <= filled

\* The block has the timeframe of its page for an equipment with that first orbit,
\* and the packets that were checked are all in this timeframe.
InTimeframe(b, first) ==
  /\ ~ setup.auto /\ b.page[1].ok => first # NotDefined /\ b.timeframeId = Timeframe(first, b.page[1].orbit)
  /\ setup.check /\ setup.drop =>
       /\ first # NotDefined
       /\ \A k \in 1 .. Len(b.page) : Timeframe(first, b.page[k].orbit) = Timeframe(first, b.page[1].orbit)

\* Blocks are numbered from the first orbit of their equipment.
FromFirstOrbit ==
  \A e \in Equipments : Started(e) =>
    /\ \A k \in 1 .. Len(sent[e]) : InTimeframe(sent[e][k], eq[e].first)
    /\ pending[e] # <<>> => InTimeframe(pending[e][1], eq[e].first)

\* An equipment without error has the first orbit of all equipments, or orbit zero.
OrbitsShared ==
  setup.firstOrbit =>
    \A e \in Equipments :
      Started(e) /\ eq[e].first \notin {NotDefined, undefinedOrbit} /\ ~ eq[e].isFatalError =>
        eq[e].first = firstOrbit

\* Only one link was seen.
OneLink(q) ==
  /\ q.linksDefined = {} => q.firstLinkOrbit = NotDefined
  /\ \A p \in setup.pages : q.linksDefined \subseteq {p[1].link}

\* The first orbit of all comes from an equipment of this run, and whoever has an
\* error has another first orbit than one of them.
ErrorsJustified ==
  OneValidLink =>
    /\ phase # "stopped" /\ firstOrbit # undefinedOrbit =>
         \E f \in Equipments : Started(f) /\ eq[f].first = firstOrbit
    /\ \A e \in Equipments : Started(e) =>
         /\ OneLink(eq[e])
         /\ eq[e].isFatalError =>
              /\ eq[e].first # NotDefined
              /\ \E f \in Equipments :
                   Started(f) /\ eq[f].first # NotDefined /\ eq[f].first # eq[e].first

\* Data is kept exactly while there is a run bit, one of the bitset.
CtpState(q) ==
  setup.ctp =>
    /\ q.discardData = 0 <=> q.ctpRunBit # NoBit
    /\ q.ctpRunBit \in (0 .. CtpWidth - 1) \cup {NoBit}

InCtpRun == \A e \in Equipments : CtpState(eq[e])

IInv ==
  /\ Types /\ Commanded /\ Accounted /\ Numbered
  /\ FromFirstOrbit /\ OrbitsShared /\ ErrorsJustified /\ InCtpRun

-----------------------------------------------------------------------------
(* Arithmetic.                                                             *)

\* The quotient of a division.
LEMMA DivBounds ==
  ASSUME NEW a \in Nat, NEW p \in Nat \ {0}
  PROVE  /\ a \div p \in Nat
         /\ (a \div p) * p <= a
         /\ a < (a \div p) * p + p
  OBVIOUS

\* The remainder of a division.
LEMMA ModBounds ==
  ASSUME NEW a \in Int, NEW m \in Nat \ {0}
  PROVE  a % m \in 0 .. m - 1
  OBVIOUS

\* The remainder of a sum of two remainders.
LEMMA ModOfSum ==
  ASSUME NEW m \in Nat \ {0}, NEW a \in Int, 0 <= a, a < 2 * m
  PROVE  a % m = IF a < m THEN a ELSE a - m
  OBVIOUS

\* The remainder of a difference of two remainders.
LEMMA ModOfDifference ==
  ASSUME NEW m \in Nat \ {0}, NEW a \in Int, -m <= a, a < m
  PROVE  a % m = IF a < 0 THEN a + m ELSE a
  OBVIOUS

\* Multiples are ordered like their factors.
LEMMA MultiplesInOrder ==
  ASSUME NEW a \in Nat, NEW b \in Nat, NEW p \in Nat, a < b
  PROVE  a * p + p <= b * p
  OBVIOUS

\* The quotient is the only number with these bounds.
LEMMA DivUnique ==
  ASSUME NEW a \in Nat, NEW p \in Nat \ {0}, NEW k \in Nat, k * p <= a, a < k * p + p
  PROVE  a \div p = k
<1> DEFINE q == a \div p
<1>1. q \in Nat /\ q * p <= a /\ a < q * p + p
  BY DivBounds
<1>2. ~ q < k
  <2>1. q < k => q * p + p <= k * p
    BY <1>1, MultiplesInOrder
  <2> HIDE DEF q
  <2>2. q * p \in Nat /\ k * p \in Nat
    BY <1>1
  <2> QED
    BY <1>1, <2>1, <2>2
<1>3. ~ k < q
  <2>1. k < q => k * p + p <= q * p
    BY <1>1, MultiplesInOrder
  <2> HIDE DEF q
  <2>2. q * p \in Nat /\ k * p \in Nat
    BY <1>1
  <2> QED
    BY <1>1, <2>1, <2>2
<1> QED
  BY <1>1, <1>2, <1>3

\* A timeframe id is one of the orbit counter's.
LEMMA TimeframeBounds ==
  ASSUME NEW first \in Int, NEW orbit \in Int
  PROVE  Timeframe(first, orbit) \in 1 .. OrbitMod
<1> DEFINE d == (orbit - first) % OrbitMod
           q == d \div Period
<1>1. d \in 0 .. OrbitMod - 1 /\ OrbitMod \in Nat \ {0} /\ Period \in Nat /\ Period >= 2
  BY ModBounds, EquipmentAssumption
<1>2. q \in Nat /\ q * Period <= d
  BY <1>1, DivBounds
<1>3. q <= q * Period
  <2> HIDE DEF q
  <2> QED BY <1>1, <1>2
<1>4. q \in 0 .. OrbitMod - 1
  <2> HIDE DEF q, d
  <2>1. q * Period \in Nat
    BY <1>1, <1>2
  <2> QED BY <1>1, <1>2, <1>3, <2>1
<1>5. Timeframe(first, orbit) = 1 + q
  BY DEF Timeframe
<1> QED
  <2> HIDE DEF q
  <2> QED BY <1>1, <1>4, <1>5

\* The first and last orbits of a timeframe are orbits.
LEMMA OrbitBounds ==
  ASSUME NEW first \in Int, NEW tfId \in Int
  PROVE  OrbitMin(first, tfId) \in Orbits /\ OrbitMax(first, tfId) \in Orbits
<1>1. OrbitMod \in Nat \ {0} /\ Period \in Nat
  BY EquipmentAssumption
<1>2. first + (tfId - 1) * Period \in Int /\ first + tfId * Period - 1 \in Int
  BY <1>1
<1>3. /\ (first + (tfId - 1) * Period) % OrbitMod \in 0 .. OrbitMod - 1
      /\ (first + tfId * Period - 1) % OrbitMod \in 0 .. OrbitMod - 1
  BY <1>1, <1>2, ModBounds
<1> QED
  BY <1>1, <1>3 DEF OrbitMin, OrbitMax, Orbits, undefinedOrbit

\* An orbit that is not out of the range of a timeframe is in this timeframe,
\* also when the range wraps around.
LEMMA InRange ==
  ASSUME NEW first \in Orbits, NEW o \in Orbits, NEW x \in Orbits, NEW tfId,
         tfId = Timeframe(first, o),
         ~ OutOfRange(x, OrbitMin(first, tfId), OrbitMax(first, tfId))
  PROVE  Timeframe(first, x) = tfId
<1> DEFINE d == (o - first) % OrbitMod
           k == d \div Period
           a == k * Period
           y == (x - first) % OrbitMod
           m == OrbitMod \div Period
<1>1. /\ OrbitMod \in Nat \ {0} /\ Period \in Nat \ {0} /\ 2 <= Period /\ Period <= OrbitMod
      /\ first \in Int /\ o \in Int /\ x \in Int
      /\ 0 <= first /\ first < OrbitMod /\ 0 <= x /\ x < OrbitMod
  BY EquipmentAssumption DEF Orbits
<1>2. d \in 0 .. OrbitMod - 1 /\ y \in 0 .. OrbitMod - 1
  BY <1>1, ModBounds
<1>3. k \in Nat /\ k * Period <= d /\ d < k * Period + Period
  BY <1>1, <1>2, DivBounds
<1>4. m \in Nat /\ m * Period = OrbitMod
  BY <1>1, EquipmentAssumption
<1>5. k < m
  <2>1. m < k => m * Period + Period <= k * Period
    BY <1>3, <1>4, <1>1, MultiplesInOrder
  <2> HIDE DEF k, m, d
  <2>2. k * Period \in Nat
    BY <1>1, <1>3
  <2> QED BY <1>1, <1>2, <1>3, <1>4, <2>1, <2>2
<1>6. a \in Nat /\ a + Period <= OrbitMod
  <2>1. k * Period + Period <= m * Period
    BY <1>1, <1>3, <1>4, <1>5, MultiplesInOrder
  <2> HIDE DEF k, m
  <2> QED BY <1>1, <1>3, <1>4, <2>1
<1>7. tfId = 1 + k
  BY DEF Timeframe
<1>8. tfId # undefinedTimeframeId /\ (tfId - 1) * Period = a /\ tfId * Period = a + Period
  <2> HIDE DEF k
  <2> QED BY <1>1, <1>3, <1>7 DEF undefinedTimeframeId
<1>9. /\ OrbitMin(first, tfId) = (first + a) % OrbitMod
      /\ OrbitMax(first, tfId) = (first + (a + Period) - 1) % OrbitMod
  <2> HIDE DEF a
  <2> QED BY <1>8 DEF OrbitMin, OrbitMax
<1> DEFINE min == (first + a) % OrbitMod
           max == (first + (a + Period) - 1) % OrbitMod
<1>10. \/ first + a < OrbitMod /\ min = first + a
       \/ first + a >= OrbitMod /\ min = first + a - OrbitMod
  <2> HIDE DEF a
  <2> DEFINE z == first + a
  <2>1. z \in Int /\ 0 <= z /\ z < 2 * OrbitMod
    BY <1>1, <1>6
  <2> HIDE DEF z
  <2>2. z % OrbitMod = IF z < OrbitMod THEN z ELSE z - OrbitMod
    BY <1>1, <2>1, ModOfSum
  <2> QED BY <1>1, <1>6, <2>1, <2>2 DEF z
<1>11. \/ first + (a + Period) - 1 < OrbitMod /\ max = first + (a + Period) - 1
       \/ first + (a + Period) - 1 >= OrbitMod /\ max = first + (a + Period) - 1 - OrbitMod
  <2> HIDE DEF a
  <2> DEFINE z == first + (a + Period) - 1
  <2>1. z \in Int /\ 0 <= z /\ z < 2 * OrbitMod
    BY <1>1, <1>6
  <2> HIDE DEF z
  <2>2. z % OrbitMod = IF z < OrbitMod THEN z ELSE z - OrbitMod
    BY <1>1, <2>1, ModOfSum
  <2> QED BY <1>1, <1>6, <2>1, <2>2 DEF z
<1>12. \/ x >= first /\ y = x - first
       \/ x < first /\ y = x - first + OrbitMod
  <2> DEFINE z == x - first
  <2>1. z \in Int /\ -OrbitMod <= z /\ z < OrbitMod /\ (z >= 0 <=> x >= first)
    BY <1>1
  <2> HIDE DEF z
  <2>2. z % OrbitMod = IF z < 0 THEN z + OrbitMod ELSE z
    BY <1>1, <2>1, ModOfDifference
  <2> QED BY <1>1, <2>1, <2>2 DEF z
<1>13. a <= y /\ y < a + Period
  <2>1. ~ OutOfRange(x, min, max)
    BY <1>9
  <2> HIDE DEF a, y, min, max
  <2> QED BY <1>1, <1>2, <1>6, <1>10, <1>11, <1>12, <2>1 DEF OutOfRange
<1>14. y \div Period = k
  <2>1. y \in Nat /\ Period \in Nat \ {0}
    BY <1>1, <1>2
  <2> HIDE DEF y, k
  <2> QED BY <1>3, <1>13, <2>1, DivUnique
<1> QED
  BY <1>7, <1>14 DEF Timeframe

-----------------------------------------------------------------------------
(* Sequences, pages and the superpages with data.                          *)

\* The element at a position of a sequence over S is in S.
LEMMA SeqElement ==
  ASSUME NEW S, NEW s \in Seq(S), NEW k \in 1 .. Len(s)
  PROVE  s[k] \in S
  OBVIOUS

\* What is in a sequence after Append.
LEMMA AppendAdds ==
  ASSUME NEW S, NEW s \in Seq(S), NEW x \in S
  PROVE  /\ Append(s, x) \in Seq(S) /\ Len(s) \in Nat
         /\ Len(Append(s, x)) = Len(s) + 1
         /\ Append(s, x)[Len(s) + 1] = x
         /\ \A k \in 1 .. Len(s) : Append(s, x)[k] = s[k]
  OBVIOUS

\* What Tail leaves in a sequence.
LEMMA TailRemoves ==
  ASSUME NEW S, NEW s \in Seq(S), s # << >>
  PROVE  /\ Head(s) \in S /\ Head(s) = s[1] /\ Tail(s) \in Seq(S)
         /\ Len(s) \in Nat \ {0} /\ Len(Tail(s)) = Len(s) - 1
         /\ \A k \in 1 .. Len(s) - 1 : Tail(s)[k] = s[k + 1]
  OBVIOUS

\* The number of positions with data is a natural number.
LEMMA DataInFinite ==
  ASSUME NEW S, NEW s \in Seq(S)
  PROVE  IsFiniteSet(DataIn(s)) /\ Cardinality(DataIn(s)) \in Nat
<1>1. Len(s) \in Nat
  OBVIOUS
<1>2. IsFiniteSet(1 .. Len(s))
  BY <1>1, FS_Interval
<1>3. DataIn(s) \subseteq 1 .. Len(s)
  BY DEF DataIn
<1>4. IsFiniteSet(DataIn(s))
  BY <1>2, <1>3, FS_Subset
<1> QED
  BY <1>4, FS_CardinalityType

\* One more page is at most one more with data.
LEMMA DataInAppend ==
  ASSUME NEW S, NEW s \in Seq(S), NEW x \in S
  PROVE  Cardinality(DataIn(Append(s, x))) <= Cardinality(DataIn(s)) + 1
<1> DEFINE D == DataIn(s) \cup {Len(s) + 1}
<1>1. DataIn(Append(s, x)) \subseteq D
  BY AppendAdds DEF DataIn
<1>2. IsFiniteSet(DataIn(s)) /\ Cardinality(DataIn(s)) \in Nat
  BY DataInFinite
<1>3. Len(s) + 1 \notin DataIn(s)
  BY DEF DataIn
<1>4. IsFiniteSet(D) /\ Cardinality(D) = Cardinality(DataIn(s)) + 1
  BY <1>2, <1>3, FS_AddElement
<1> HIDE DEF D
<1> QED
  BY <1>1, <1>4, FS_Subset

\* The page at the head no longer counts when it is taken.
LEMMA DataInTail ==
  ASSUME NEW S, NEW s \in Seq(S), s # << >>
  PROVE  /\ Cardinality(DataIn(Tail(s))) <= Cardinality(DataIn(s))
         /\ Head(s) # Leftover => Cardinality(DataIn(Tail(s))) + 1 <= Cardinality(DataIn(s))
<1> DEFINE D == DataIn(s) \ {1}
           f == [k \in DataIn(Tail(s)) |-> k + 1]
<1>1. IsFiniteSet(DataIn(s)) /\ Cardinality(DataIn(s)) \in Nat
  BY DataInFinite
<1>2. /\ IsFiniteSet(D)
      /\ Cardinality(D) = IF 1 \in DataIn(s) THEN Cardinality(DataIn(s)) - 1 ELSE Cardinality(DataIn(s))
  BY <1>1, FS_RemoveElement
<1>3. f \in Injection(DataIn(Tail(s)), D)
  <2>1. \A k \in DataIn(Tail(s)) : k \in Nat /\ k + 1 \in D
    BY TailRemoves DEF DataIn
  <2>2. \A k, l \in DataIn(Tail(s)) : f[k] = f[l] => k = l
    BY <2>1
  <2> QED
    BY <2>1, <2>2 DEF Injection, IsInjective
<1>4. Cardinality(DataIn(Tail(s))) <= Cardinality(D)
  BY <1>2, <1>3, FS_Injection
<1>5. Head(s) # Leftover => 1 \in DataIn(s)
  BY TailRemoves DEF DataIn
<1>6. Cardinality(DataIn(Tail(s))) \in Nat
  BY TailRemoves, DataInFinite
<1> HIDE DEF D
<1> QED
  BY <1>1, <1>2, <1>4, <1>5, <1>6

\* Superpages without data do not count.
LEMMA DataInLeftovers ==
  ASSUME NEW S, Leftover \in S, NEW s \in Seq(S), NEW n \in Nat
  PROVE  LET t == s \o [k \in 1 .. n |-> Leftover] IN
         t \in Seq(S) /\ Len(t) = Len(s) + n /\ DataIn(t) = DataIn(s)
<1> DEFINE u == [k \in 1 .. n |-> Leftover]
           t == s \o u
<1>1. u \in Seq(S) /\ Len(u) = n
  OBVIOUS
<1>2. \A k \in 1 .. n : u[k] = Leftover
  OBVIOUS
<1> HIDE DEF u
<1>3. /\ t \in Seq(S) /\ Len(t) = Len(s) + n
      /\ \A k \in 1 .. Len(s) : t[k] = s[k]
      /\ \A k \in Len(s) + 1 .. Len(s) + n : t[k] = u[k - Len(s)]
  BY <1>1
<1>4. DataIn(t) = DataIn(s)
  <2> HIDE DEF t
  <2>1. Len(s) \in Nat
    OBVIOUS
  <2>2. ASSUME NEW k \in 1 .. Len(t), t[k] # Leftover PROVE k \in 1 .. Len(s)
    <3>1. k \in Len(s) + 1 .. Len(s) + n => k - Len(s) \in 1 .. n
      BY <2>1
    <3> QED BY <1>2, <1>3, <2>1, <2>2, <3>1
  <2> QED
    BY <1>3, <2>1, <2>2 DEF DataIn
<1> QED
  BY <1>3, <1>4 DEF u, t

\* A superpage with data holds at least one packet.
LEMMA PageType ==
  ASSUME setup \in Setups, NEW p \in setup.pages
  PROVE  /\ p \in Seq(Rdh) /\ p # << >> /\ Len(p) \in Nat \ {0}
         /\ DOMAIN p = 1 .. Len(p)
         /\ \A k \in 1 .. Len(p) : p[k] \in Rdh
<1>1. p \in Seq(Rdh) \ {Leftover}
  BY EquipmentAssumption DEF IsSetup
<1>2. p # << >> /\ Len(p) \in Nat \ {0}
  BY <1>1 DEF Leftover
<1> QED
  BY <1>1, <1>2, SeqElement

-----------------------------------------------------------------------------
(* What the parts of processRdh() do to the counters.                      *)

\* The fields that the detector field has nothing to do with.
SameTags(q, n) ==
  /\ n.first = q.first /\ n.currentBlockId = q.currentBlockId
  /\ n.lastTimeframe = q.lastTimeframe
  /\ n.autoLatest = q.autoLatest /\ n.autoCounter = q.autoCounter
  /\ n.firstLinkOrbit = q.firstLinkOrbit /\ n.linksDefined = q.linksDefined
  /\ n.isFatalError = q.isFatalError

\* The fields of CTP mode.
SameCtp(q, n) ==
  n.ctpRunBit = q.ctpRunBit /\ n.discardData = q.discardData /\ n.lastField = q.lastField

\* The bit that changed is a bit; it is alone.
LEMMA OneBit ==
  ASSUME NEW S \in SUBSET Bits, Cardinality(S) = 1
  PROVE  \E b \in Bits : S = {b}
<1>1. IsFiniteSet(S)
  BY EquipmentAssumption, FS_Subset
<1>2. \E b : S = {b}
  BY <1>1, FS_Singleton
<1> QED
  BY <1>2

\* No more than one bit.
LEMMA AtMostOneBit ==
  ASSUME NEW S \in SUBSET Bits, Cardinality(S) <= 1, NEW b \in S
  PROVE  S = {b}
<1>1. IsFiniteSet(S)
  BY EquipmentAssumption, FS_Subset
<1>2. Cardinality(S) \in Nat /\ Cardinality(S) # 0
  BY <1>1, FS_CardinalityType, FS_EmptySet
<1>3. Cardinality(S) = 1
  BY <1>2
<1> QED
  BY <1>3, OneBit

\* The detector field of a packet tells on and off the data, and nothing else.
\* A run bit is set by the packet, stays, or the data is off.
LEMMA FieldChecked ==
  ASSUME setup \in Setups, NEW q \in Counters, NEW r \in Rdh, CtpState(q),
         NEW n, n = CheckChangesInDetectorField(q, r)
  PROVE  /\ n \in Counters /\ SameTags(q, n) /\ CtpState(n)
         /\ setup.ctp /\ n.discardData = 0 =>
              \/ n.ctpRunBit = q.ctpRunBit
              \/ q.ctpRunBit = NoBit /\ n.ctpRunBit \in r.field
         /\ setup.ctp /\ n.discardData = 0 /\ q.lastField[r.link] # NoField
              /\ Cardinality(Changed(q.lastField[r.link], r.field)) <= 1
              /\ q.ctpRunBit \in q.lastField[r.link] \cup {NoBit} =>
              n.ctpRunBit \in r.field
<1> DEFINE old == q.lastField[r.link]
           changed == IF old = NoField THEN {} ELSE (old \ r.field) \cup (r.field \ old)
           bits == changed \cap (0 .. CtpWidth - 1)
           one == setup.ctp /\ Cardinality(bits) = 1
           bit == CHOOSE b \in bits : TRUE
           starts == one /\ q.ctpRunBit = NoBit /\ bit \in r.field /\ q.discardData = 1
           ends == one /\ q.ctpRunBit = bit /\ bit \notin r.field
           a == IF starts THEN bit ELSE IF ends THEN NoBit ELSE q.ctpRunBit
           d == DiscardAfterRun(q.discardData, starts, ends)
<1>1. /\ q.ctpRunBit \in Bits \cup {NoBit} /\ q.discardData \in 0 .. 2
      /\ q.lastField \in [Links -> (SUBSET Bits) \cup {NoField}]
  BY DEF Counters
<1>2. r.link \in Links /\ r.field \in SUBSET Bits
  BY DEF Rdh
<1>3. Bits \subseteq Nat /\ CtpWidth \in Nat /\ setup.ctp \in BOOLEAN /\ (setup.ctp => setup.field)
  BY EquipmentAssumption DEF IsSetup
<1>4. old \in SUBSET Bits \/ old = NoField
  BY <1>1, <1>2
<1>5. bits \in SUBSET Bits /\ bits \subseteq 0 .. CtpWidth - 1
  BY <1>2, <1>4
<1>6. one => bit \in bits
  <2>1. one => \E b \in Bits : bits = {b}
    BY <1>5, OneBit
  <2> QED BY <2>1
<1>7. CASE ~ setup.field
  <2>1. n = q
    BY <1>7 DEF CheckChangesInDetectorField
  <2>2. ~ setup.ctp
    BY <1>3, <1>7
  <2> QED
    BY <2>1, <2>2 DEF SameTags
<1>8. CASE setup.field
  <2>1. n = [q EXCEPT !.lastField[r.link] = r.field, !.ctpRunBit = a, !.discardData = d]
    BY <1>8 DEF CheckChangesInDetectorField
  <2>2. a \in Bits \cup {NoBit} /\ d \in 0 .. 2
    <3>1. starts => bit \in Bits
      <4> HIDE DEF bit, bits
      <4> QED BY <1>5, <1>6
    <3> HIDE DEF starts, ends, bit
    <3> QED BY <1>1, <3>1 DEF DiscardAfterRun
  <2>3. n \in Counters /\ SameTags(q, n) /\ n.ctpRunBit = a /\ n.discardData = d
    <3> DEFINE f == [q.lastField EXCEPT ![r.link] = r.field]
    <3> HIDE DEF a, d
    <3>1. n = [q EXCEPT !.lastField = f, !.ctpRunBit = a, !.discardData = d]
      BY <2>1 DEF Counters
    <3>2. f \in [Links -> (SUBSET Bits) \cup {NoField}]
      BY <1>1, <1>2
    <3> HIDE DEF f
    <3>3. n.ctpRunBit = a /\ n.discardData = d
      BY <3>1 DEF Counters
    <3>4. SameTags(q, n)
      BY <3>1 DEF Counters, SameTags
    <3>5. n \in Counters
      BY <2>2, <3>1, <3>2 DEF Counters
    <3> QED BY <3>3, <3>4, <3>5
  <2>4. CtpState(n)
    <3>1. starts => bit \in 0 .. CtpWidth - 1 /\ bit # NoBit
      <4> HIDE DEF bit, bits
      <4> QED BY <1>3, <1>5, <1>6 DEF NoBit
    <3> HIDE DEF one, bit, bits
    <3> QED BY <1>1, <2>3, <3>1 DEF CtpState, DiscardAfterRun
  <2>5. setup.ctp /\ n.discardData = 0 =>
          n.ctpRunBit = q.ctpRunBit \/ (q.ctpRunBit = NoBit /\ n.ctpRunBit \in r.field)
    <3> HIDE DEF one, bit, bits
    <3> QED BY <2>3 DEF DiscardAfterRun
  <2>6. ASSUME setup.ctp, n.discardData = 0, old # NoField,
               Cardinality(Changed(old, r.field)) <= 1, q.ctpRunBit \in old \cup {NoBit},
               n.ctpRunBit \notin r.field
        PROVE  FALSE
    <3>1. n.ctpRunBit = q.ctpRunBit /\ n.ctpRunBit # NoBit
      BY <2>4, <2>5, <2>6 DEF CtpState
    <3>2. q.ctpRunBit \in changed /\ q.ctpRunBit \in 0 .. CtpWidth - 1
      BY <2>6, <3>1 DEF CtpState
    <3>3. changed = Changed(old, r.field) /\ changed \in SUBSET Bits
      BY <1>2, <1>4, <2>6 DEF Changed
    <3>4. changed = {q.ctpRunBit}
      <4> HIDE DEF changed
      <4> QED BY <2>6, <3>2, <3>3, AtMostOneBit
    <3>5. bits = {q.ctpRunBit}
      <4> HIDE DEF changed
      <4> QED BY <3>2, <3>4
    <3>6. Cardinality(bits) = 1 /\ bit = q.ctpRunBit
      <4> HIDE DEF bits
      <4>1. bit = q.ctpRunBit
        BY <3>5
      <4>2. Cardinality({q.ctpRunBit}) = 1
        BY FS_Singleton
      <4> QED BY <3>5, <4>1, <4>2
    <3>7. ends /\ ~ starts
      <4> HIDE DEF bits, bit
      <4> QED BY <2>6, <3>1, <3>6
    <3>8. d = 2
      <4> HIDE DEF starts, ends
      <4> QED BY <3>7 DEF DiscardAfterRun
    <3>9. n.discardData = d
      BY <2>3
    <3>10. d = 0
      <4> HIDE DEF d
      <4> QED BY <2>6, <3>9
    <3> HIDE DEF d
    <3> QED BY <3>8, <3>10
  <2> HIDE DEF old
  <2> QED
    BY <2>3, <2>4, <2>5, <2>6 DEF old
<1> QED
  BY <1>7, <1>8

\* The counts of blocks and timeframes.
SameNumbers(q, n) ==
  /\ n.currentBlockId = q.currentBlockId /\ n.lastTimeframe = q.lastTimeframe
  /\ n.autoLatest = q.autoLatest /\ n.autoCounter = q.autoCounter

\* What becomes of the first orbit and of the error flag when a page is read.
Evolves(q, n) ==
  /\ q.first # NotDefined => n.first = q.first
  /\ q.isFatalError => n.isFatalError
  /\ setup.firstOrbit /\ q.first = NotDefined /\ n.first # NotDefined /\ ~ n.isFatalError =>
       firstOrbit = undefinedOrbit \/ firstOrbit = n.first
  /\ OneValidLink /\ OneLink(q) =>
       /\ OneLink(n)
       /\ n.isFatalError /\ ~ q.isFatalError =>
            /\ q.first = NotDefined /\ n.first # NotDefined
            /\ firstOrbit # undefinedOrbit /\ firstOrbit # n.first

\* tagDatablockFromRdh(): the first valid packet gives the first orbit.
LEMMA RdhTagged ==
  ASSUME setup \in Setups, firstOrbit \in Orbits, NEW q \in Counters, NEW r \in Rdh,
         NEW n, n = TagDatablockFromRdh(q, r)
  PROVE  /\ n \in Counters /\ SameCtp(q, n) /\ SameNumbers(q, n)
         /\ q.first # NotDefined => n.first = q.first
         /\ r.ok => n.first # NotDefined
         /\ q.isFatalError => n.isFatalError
         /\ n.linksDefined = q.linksDefined /\ n.firstLinkOrbit = q.firstLinkOrbit
         /\ setup.firstOrbit /\ q.first = NotDefined /\ n.first # NotDefined /\ ~ n.isFatalError =>
              firstOrbit = undefinedOrbit \/ firstOrbit = n.first
         /\ r.ok /\ n.isFatalError /\ ~ q.isFatalError =>
              /\ q.first = NotDefined /\ n.first # NotDefined
              /\ firstOrbit # undefinedOrbit /\ firstOrbit # n.first
<1>1. /\ r.orbit \in Orbits /\ r.ok \in BOOLEAN /\ q.isFatalError \in BOOLEAN
      /\ q.first \in Orbits \cup {NotDefined}
  BY DEF Rdh, Counters
<1>2. r.orbit # NotDefined
  BY <1>1, EquipmentAssumption DEF Orbits, NotDefined
<1>3. CASE r.ok /\ q.first = NotDefined
  <2> DEFINE x == q.isFatalError \/ (setup.firstOrbit /\ FirstOrbitMismatch(q, r.orbit))
  <2>1. n = [q EXCEPT !.first = r.orbit, !.isFatalError = x]
    BY <1>3 DEF TagDatablockFromRdh
  <2>2. x \in BOOLEAN
    BY Zenon
  <2>3. /\ q.isFatalError => x
        /\ setup.firstOrbit /\ ~ x => firstOrbit = undefinedOrbit \/ firstOrbit = r.orbit
        /\ x /\ ~ q.isFatalError => firstOrbit # undefinedOrbit /\ firstOrbit # r.orbit
    BY DEF FirstOrbitMismatch
  <2> HIDE DEF x
  <2>4. n \in Counters
    BY <1>1, <2>1, <2>2 DEF Counters
  <2>5. SameCtp(q, n) /\ SameNumbers(q, n) /\ n.first = r.orbit /\ n.isFatalError = x
        /\ n.linksDefined = q.linksDefined /\ n.firstLinkOrbit = q.firstLinkOrbit
    BY <2>1 DEF Counters, SameCtp, SameNumbers
  <2> QED
    BY <1>2, <1>3, <2>3, <2>4, <2>5
<1>4. CASE r.ok /\ q.first # NotDefined
  <2>1. n = q
    BY <1>4 DEF TagDatablockFromRdh
  <2> QED
    BY <1>4, <2>1 DEF SameCtp, SameNumbers
<1>5. CASE ~ r.ok
  <2> DEFINE x == q.isFatalError \/ (setup.firstOrbit /\ q.currentBlockId = 0)
  <2>1. n = [q EXCEPT !.isFatalError = x]
    BY <1>5 DEF TagDatablockFromRdh
  <2>2. x \in BOOLEAN /\ (q.isFatalError => x)
    BY Zenon
  <2> HIDE DEF x
  <2>3. n \in Counters
    BY <1>1, <2>1, <2>2 DEF Counters
  <2>4. SameCtp(q, n) /\ SameNumbers(q, n) /\ n.first = q.first /\ n.isFatalError = x
        /\ n.linksDefined = q.linksDefined /\ n.firstLinkOrbit = q.firstLinkOrbit
    BY <2>1 DEF Counters, SameCtp, SameNumbers
  <2> QED
    BY <1>5, <2>2, <2>3, <2>4
<1> QED
  BY <1>1, <1>3, <1>4, <1>5

\* The check of the first orbit of the links: with valid packets of one link it
\* finds nothing.
LEMMA LinkChecked ==
  ASSUME setup \in Setups, NEW q \in Counters, NEW r \in Rdh,
         NEW n, n = CheckLinkFirstOrbit(q, r)
  PROVE  /\ n \in Counters /\ SameCtp(q, n) /\ SameNumbers(q, n) /\ n.first = q.first
         /\ q.isFatalError => n.isFatalError
         /\ \A p \in setup.pages : OneValidLink /\ OneLink(q) /\ r = p[1] =>
              OneLink(n) /\ (n.isFatalError => q.isFatalError)
<1> DEFINE orbit == IF q.firstLinkOrbit = NotDefined THEN r.orbit ELSE q.firstLinkOrbit
           x == q.isFatalError \/ (setup.firstOrbit /\ r.link \notin q.linksDefined /\ r.orbit # orbit)
           links == q.linksDefined \cup {r.link}
<1>1. /\ r.orbit \in Orbits /\ r.link \in Links
      /\ q.firstLinkOrbit \in Orbits \cup {NotDefined} /\ q.linksDefined \in SUBSET Links
  BY DEF Rdh, Counters
<1>2. n = [q EXCEPT !.firstLinkOrbit = orbit, !.linksDefined = links, !.isFatalError = x]
  BY DEF CheckLinkFirstOrbit
<1>3. x \in BOOLEAN /\ (q.isFatalError => x)
  BY Zenon
<1>4. orbit \in Orbits \cup {NotDefined} /\ links \in SUBSET Links /\ links # {}
  BY <1>1
<1>5. n \in Counters
  <2> HIDE DEF x, orbit, links
  <2> QED BY <1>2, <1>3, <1>4 DEF Counters
<1>6. /\ SameCtp(q, n) /\ SameNumbers(q, n) /\ n.first = q.first
      /\ n.isFatalError = x /\ n.linksDefined = links
  <2> HIDE DEF x, orbit, links
  <2> QED BY <1>2 DEF Counters, SameCtp, SameNumbers
<1>7. ASSUME NEW p \in setup.pages, OneValidLink, OneLink(q), r = p[1]
      PROVE  OneLink(n) /\ (n.isFatalError => q.isFatalError)
  <2>1. \A o \in setup.pages : r.link = o[1].link
    <3>1. 1 \in DOMAIN p
      BY PageType
    <3> QED BY <1>7, <3>1 DEF OneValidLink
  <2>2. OneLink(n)
    <3> HIDE DEF x
    <3> QED BY <1>4, <1>6, <1>7, <2>1 DEF OneLink
  <2>3. r.link \notin q.linksDefined => q.linksDefined = {}
    BY <1>7, <2>1 DEF OneLink
  <2>4. r.link \notin q.linksDefined => orbit = r.orbit
    BY <1>7, <2>3 DEF OneLink
  <2>5. x => q.isFatalError
    <3> HIDE DEF orbit
    <3> QED BY <2>4
  <2> QED
    BY <1>6, <2>2, <2>5
<1> QED
  BY <1>3, <1>5, <1>6, <1>7

\* The header of a page is tagged, and its link checked.
LEMMA PageTagged ==
  ASSUME setup \in Setups, firstOrbit \in Orbits, NEW q \in Counters, NEW p \in setup.pages,
         NEW n, n = CheckLinkFirstOrbit(TagDatablockFromRdh(q, p[1]), p[1])
  PROVE  /\ n \in Counters /\ SameCtp(q, n) /\ SameNumbers(q, n) /\ Evolves(q, n)
         /\ p[1].ok => n.first # NotDefined
<1> DEFINE m == TagDatablockFromRdh(q, p[1])
<1>1. 1 \in 1 .. Len(p) /\ p[1] \in Rdh /\ DOMAIN p = 1 .. Len(p)
  BY PageType
<1>2. /\ m \in Counters /\ SameCtp(q, m) /\ SameNumbers(q, m)
      /\ q.first # NotDefined => m.first = q.first
      /\ p[1].ok => m.first # NotDefined
      /\ q.isFatalError => m.isFatalError
      /\ m.linksDefined = q.linksDefined /\ m.firstLinkOrbit = q.firstLinkOrbit
      /\ setup.firstOrbit /\ q.first = NotDefined /\ m.first # NotDefined /\ ~ m.isFatalError =>
           firstOrbit = undefinedOrbit \/ firstOrbit = m.first
      /\ p[1].ok /\ m.isFatalError /\ ~ q.isFatalError =>
           /\ q.first = NotDefined /\ m.first # NotDefined
           /\ firstOrbit # undefinedOrbit /\ firstOrbit # m.first
  BY <1>1, RdhTagged
<1> HIDE DEF m
<1>3. n = CheckLinkFirstOrbit(m, p[1])
  BY DEF m
<1>4. /\ n \in Counters /\ SameCtp(m, n) /\ SameNumbers(m, n) /\ n.first = m.first
      /\ m.isFatalError => n.isFatalError
      /\ OneValidLink /\ OneLink(m) => OneLink(n) /\ (n.isFatalError => m.isFatalError)
  BY <1>1, <1>2, <1>3, LinkChecked
<1>5. SameCtp(q, n) /\ SameNumbers(q, n)
  BY <1>2, <1>4 DEF SameCtp, SameNumbers
<1>6. OneValidLink => p[1].ok
  BY <1>1 DEF OneValidLink
<1>7. OneLink(q) => OneLink(m)
  BY <1>2 DEF OneLink
<1>8. Evolves(q, n)
  <2>1. /\ q.first # NotDefined => n.first = q.first
        /\ q.isFatalError => n.isFatalError
    BY <1>2, <1>4
  <2>2. setup.firstOrbit /\ q.first = NotDefined /\ n.first # NotDefined /\ ~ n.isFatalError =>
          firstOrbit = undefinedOrbit \/ firstOrbit = n.first
    BY <1>2, <1>4
  <2>3. ASSUME OneValidLink, OneLink(q), n.isFatalError, ~ q.isFatalError
        PROVE  /\ q.first = NotDefined /\ n.first # NotDefined
               /\ firstOrbit # undefinedOrbit /\ firstOrbit # n.first
    BY <1>2, <1>4, <1>6, <1>7, <2>3
  <2> QED
    BY <1>4, <1>7, <2>1, <2>2, <2>3 DEF Evolves
<1> QED
  BY <1>2, <1>4, <1>5, <1>8

\* A nonempty set of natural numbers has a least element.
LEMMA LeastElement ==
  ASSUME NEW T, T \subseteq Nat, T # {}
  PROVE  \E x \in T : \A y \in T : x <= y
<1> DEFINE R == OpToRel(<, Nat)
<1>1. IsWellFoundedOn(R, Nat)
  BY NatLessThanWellFounded
<1>2. \A x, y \in Nat : y < x => <<y, x>> \in R
  BY DEF OpToRel
<1> HIDE DEF R
<1>3. \E x \in T : \A y \in T : ~ (<<y, x>> \in R)
  BY <1>1, WFMin
<1>4. PICK x \in T : \A y \in T : ~ (<<y, x>> \in R)
  BY <1>3, Zenon
<1>5. ASSUME NEW y \in T PROVE x <= y
  <2>1. x \in Nat /\ y \in Nat
    OBVIOUS
  <2>2. ~ (<<y, x>> \in R)
    BY <1>4, Zenon
  <2>3. ~ (y < x)
    BY <1>2, <2>1, <2>2, Zenon
  <2> QED
    BY <2>1, <2>3
<1> QED
  BY <1>5

\* The check of the packets stops at a packet of the page.
LEMMA FirstEnd ==
  ASSUME NEW p, NEW S \in SUBSET (1 .. Len(p)), S # {}, Len(p) \in Nat
  PROVE  Min(S) \in S
<1>1. S \subseteq Nat
  OBVIOUS
<1>2. \E x \in S : \A y \in S : x <= y
  BY <1>1, LeastElement
<1> QED
  BY <1>2 DEF Min

\* The check of the packets may see the end of the run, and changes nothing else.
LEMMA PageChecked ==
  ASSUME setup \in Setups, NEW q \in Counters, NEW p \in setup.pages, CtpState(q), NEW tfId,
         NEW ends, ends = CheckEnds(q, p, tfId), NEW n, n = CheckPage(q, p, tfId, ends)
  PROVE  /\ n \in Counters /\ SameTags(q, n) /\ CtpState(n)
         /\ setup.ctp /\ q.discardData = 0 /\ n.discardData = 0 => n.ctpRunBit = q.ctpRunBit
<1>1. Len(p) \in Nat /\ DOMAIN p = 1 .. Len(p) /\ \A k \in 1 .. Len(p) : p[k] \in Rdh
  BY PageType
<1>2. ends \in SUBSET (1 .. Len(p))
  BY <1>1 DEF CheckEnds
<1>3. CASE n = q
  BY <1>3 DEF SameTags
<1>4. CASE ends # {} /\ n = CheckChangesInDetectorField(q, p[Min(ends)])
  <2>1. p[Min(ends)] \in Rdh
    BY <1>1, <1>2, <1>4, FirstEnd
  <2>2. /\ n \in Counters /\ SameTags(q, n) /\ CtpState(n)
        /\ setup.ctp /\ n.discardData = 0 =>
              n.ctpRunBit = q.ctpRunBit \/ (q.ctpRunBit = NoBit /\ n.ctpRunBit \in p[Min(ends)].field)
    BY <1>4, <2>1, FieldChecked
  <2>3. setup.ctp /\ q.discardData = 0 => q.ctpRunBit # NoBit
    BY DEF CtpState
  <2> QED
    BY <2>2, <2>3
<1> QED
  BY <1>3, <1>4 DEF CheckPage

\* The timeframe of a page is an id; all the packets are in it when the check
\* finds nothing.
LEMMA TimeframeChecked ==
  ASSUME setup \in Setups, NEW q \in Counters, NEW p \in setup.pages,
         p[1].ok => q.first # NotDefined,
         NEW tfId, tfId = TimeframeOfPage(q, p)
  PROVE  /\ tfId \in TimeframeIds
         /\ p[1].ok => tfId = Timeframe(q.first, p[1].orbit)
         /\ setup.check /\ CheckEnds(q, p, tfId) = {} =>
              /\ q.first # NotDefined
              /\ \A k \in 1 .. Len(p) :
                   Timeframe(q.first, p[k].orbit) = Timeframe(q.first, p[1].orbit)
<1>1. /\ Len(p) \in Nat /\ DOMAIN p = 1 .. Len(p) /\ 1 \in 1 .. Len(p)
      /\ \A k \in 1 .. Len(p) : p[k] \in Rdh
  BY PageType
<1>2. \A k \in 1 .. Len(p) : p[k].orbit \in Orbits
  BY <1>1 DEF Rdh
<1>3. q.first \in Orbits \cup {NotDefined}
  BY DEF Counters
<1>4. p[1].ok => q.first \in Orbits /\ tfId = Timeframe(q.first, p[1].orbit)
  BY <1>3 DEF TimeframeOfPage
<1>5. tfId \in TimeframeIds
  <2>1. \A x \in Orbits : x \in Int
    BY EquipmentAssumption DEF Orbits
  <2>2. p[1].ok => tfId \in 1 .. OrbitMod
    BY <1>1, <1>2, <1>4, <2>1, TimeframeBounds
  <2>3. ~ p[1].ok => tfId = 0
    BY DEF TimeframeOfPage, undefinedTimeframeId
  <2> QED
    BY <2>2, <2>3, EquipmentAssumption DEF TimeframeIds
<1>6. ASSUME setup.check, CheckEnds(q, p, tfId) = {}
      PROVE  /\ q.first # NotDefined
             /\ \A k \in 1 .. Len(p) :
                  Timeframe(q.first, p[k].orbit) = Timeframe(q.first, p[1].orbit)
  <2>1. \A k \in 1 .. Len(p) : ~ WrongPacket(q, p, tfId, k)
    BY <1>1, <1>6 DEF CheckEnds
  <2>2. p[1].ok
    BY <1>1, <2>1 DEF WrongPacket
  <2>3. ASSUME NEW k \in 1 .. Len(p)
        PROVE  Timeframe(q.first, p[k].orbit) = tfId
    <3>1. ~ OutOfRange(p[k].orbit, OrbitMin(q.first, tfId), OrbitMax(q.first, tfId))
      BY <2>1 DEF WrongPacket
    <3> QED BY <1>1, <1>2, <1>4, <2>2, <3>1, InRange
  <2> QED
    BY <1>4, <2>2, <2>3
<1> QED
  BY <1>4, <1>5, <1>6

\* The counters with the ids of one more block.
LEMMA BlockTagged ==
  ASSUME setup \in Setups, NEW q \in Counters, NEW tfId \in TimeframeIds,
         q.currentBlockId < MaxFilled, q.autoCounter <= q.currentBlockId,
         NEW n, n = TagBlock(q, tfId)
  PROVE  /\ n \in Counters /\ SameCtp(q, n)
         /\ n.first = q.first /\ n.isFatalError = q.isFatalError
         /\ n.linksDefined = q.linksDefined /\ n.firstLinkOrbit = q.firstLinkOrbit
         /\ n.lastTimeframe = q.lastTimeframe
         /\ n.currentBlockId = q.currentBlockId + 1 /\ n.autoCounter <= n.currentBlockId
<1> DEFINE c == q.currentBlockId + 1
           a == IF tfId # q.autoLatest THEN q.autoCounter + 1 ELSE q.autoCounter
<1>1. q.currentBlockId \in 0 .. MaxFilled /\ q.autoCounter \in 0 .. MaxFilled /\ MaxFilled \in Nat
  BY EquipmentAssumption DEF Counters
<1>2. c \in 0 .. MaxFilled /\ a \in 0 .. MaxFilled /\ a <= c /\ q.autoCounter <= c
  BY <1>1
<1> HIDE DEF a, c
<1>3. CASE setup.auto
  <2>1. n = [q EXCEPT !.currentBlockId = c, !.autoLatest = tfId, !.autoCounter = a]
    BY <1>3 DEF TagBlock, a, c
  <2>2. n \in Counters
    BY <1>2, <2>1 DEF Counters
  <2>3. SameCtp(q, n) /\ n.currentBlockId = c /\ n.autoCounter = a
        /\ n.first = q.first /\ n.isFatalError = q.isFatalError
        /\ n.linksDefined = q.linksDefined /\ n.firstLinkOrbit = q.firstLinkOrbit
        /\ n.lastTimeframe = q.lastTimeframe
    BY <2>1 DEF Counters, SameCtp
  <2> QED BY <1>2, <2>2, <2>3 DEF c
<1>4. CASE ~ setup.auto
  <2>1. n = [q EXCEPT !.currentBlockId = c]
    BY <1>4 DEF TagBlock, c
  <2>2. n \in Counters
    BY <1>2, <2>1 DEF Counters
  <2>3. SameCtp(q, n) /\ n.currentBlockId = c /\ n.autoCounter = q.autoCounter
        /\ n.first = q.first /\ n.isFatalError = q.isFatalError
        /\ n.linksDefined = q.linksDefined /\ n.firstLinkOrbit = q.firstLinkOrbit
        /\ n.lastTimeframe = q.lastTimeframe
    BY <2>1 DEF Counters, SameCtp
  <2> QED BY <1>2, <2>2, <2>3 DEF c
<1> QED
  BY <1>3, <1>4

-----------------------------------------------------------------------------
(* A page that is read.                                                    *)

\* The first orbit of all equipments is set by the first one that defines its own.
Shares(q, n) ==
  firstOrbit' = IF q.first = NotDefined /\ n.first # NotDefined /\ firstOrbit = undefinedOrbit
                  THEN n.first ELSE firstOrbit

\* A page read in CTP mode holds the run bit, when the bits change one by one.
KeepsRunBit(q, n, r) ==
  setup.ctp /\ q.lastField[r.link] # NoField
    /\ Cardinality(Changed(q.lastField[r.link], r.field)) <= 1
    /\ q.ctpRunBit \in q.lastField[r.link] \cup {NoBit} =>
    n.ctpRunBit \in r.field

\* A thread that reads is one of the run.
LEMMA Reading ==
  ASSUME Types, Commanded, NEW e \in Equipments, CanRead(e)
  PROVE  /\ run \in 1 .. MaxRuns /\ th[e] # "off" /\ Started(e) /\ Len(dataOut[e]) < FifoSize
         /\ phase # "stopped"
<1>1. th[e] # "off"
  BY DEF CanRead
<1>2. ~ Off(e)
  BY <1>1 DEF Commanded
<1>3. e \in Int /\ ix \in Int /\ run \in 0 .. MaxRuns /\ MaxRuns \in Nat
  BY EquipmentAssumption DEF Types, Equipments
<1>4. Started(e) /\ phase # "stopped"
  BY <1>2, <1>3 DEF Off, Started
<1> QED
  BY <1>1, <1>3, <1>4 DEF Commanded, CanRead

\* A page with data is discarded or becomes the next block, and the counters
\* change accordingly.
LEMMA PageRead ==
  ASSUME Types, Commanded, Numbered, InCtpRun, NEW e \in Equipments, ReadBlock(e)
  PROVE  \E q \in Counters :
           /\ CtpState(q) /\ Evolves(eq[e], q) /\ Shares(eq[e], q)
           /\ q.lastTimeframe = eq[e].lastTimeframe
           /\ \/ DiscardBlock(e, q) /\ SameNumbers(eq[e], q)
              \/ \E b \in Block :
                   /\ UNCHANGED free /\ PushOrSetAside(e, q, b)
                   /\ q.currentBlockId = eq[e].currentBlockId + 1
                   /\ q.autoCounter <= q.currentBlockId
                   /\ b.blockId = q.currentBlockId /\ b.run = run
                   /\ InTimeframe(b, q.first)
                   /\ KeepsRunBit(eq[e], q, b.page[1])
<1> DEFINE p == Head(readyQueue[e])
           q0 == CheckChangesInDetectorField(eq[e], p[1])
           q1 == CheckLinkFirstOrbit(TagDatablockFromRdh(q0, p[1]), p[1])
           tfId == TimeframeOfPage(q1, p)
           ends == CheckEnds(q1, p, tfId)
           q2 == CheckPage(q1, p, tfId, ends)
           q == TagBlock(q2, tfId)
           b == [run |-> run, blockId |-> q.currentBlockId,
                 timeframeId |-> IF setup.auto THEN q.autoCounter ELSE tfId,
                 orbitFirst |-> OrbitMin(q.first, tfId), orbitLast |-> OrbitMax(q.first, tfId),
                 page |-> p]
<1>1. /\ CanRead(e) /\ readyQueue[e] # <<>> /\ p # Leftover
      /\ IF q0.discardData # 0
           THEN DiscardBlock(e, q0) /\ UNCHANGED firstOrbit
           ELSE /\ ShareFirstOrbit(q0, q1)
                /\ IF (ends # {} /\ setup.drop) \/ q2.discardData # 0
                     THEN DiscardBlock(e, q2)
                     ELSE NewBlock(e, q, p, tfId)
  BY DEF ReadBlock
<1>2. setup \in Setups /\ firstOrbit \in Orbits /\ eq[e] \in Counters /\ CtpState(eq[e])
  BY DEF Types, InCtpRun
<1>3. readyQueue[e] \in Seq(setup.pages \cup {Leftover})
  BY DEF Types
<1>4. p \in setup.pages
  BY <1>1, <1>3
<1>5. 1 \in 1 .. Len(p) /\ p[1] \in Rdh
  BY <1>2, <1>4, PageType
<1> HIDE DEF p
<1>6. /\ q0 \in Counters /\ SameTags(eq[e], q0) /\ CtpState(q0)
      /\ setup.ctp /\ q0.discardData = 0 =>
           \/ q0.ctpRunBit = eq[e].ctpRunBit
           \/ eq[e].ctpRunBit = NoBit /\ q0.ctpRunBit \in p[1].field
      /\ setup.ctp /\ q0.discardData = 0 /\ eq[e].lastField[p[1].link] # NoField
           /\ Cardinality(Changed(eq[e].lastField[p[1].link], p[1].field)) <= 1
           /\ eq[e].ctpRunBit \in eq[e].lastField[p[1].link] \cup {NoBit} =>
           q0.ctpRunBit \in p[1].field
  BY <1>2, <1>5, FieldChecked
<1> HIDE DEF q0
<1>7. /\ q1 \in Counters /\ SameCtp(q0, q1) /\ SameNumbers(q0, q1) /\ Evolves(q0, q1)
      /\ p[1].ok => q1.first # NotDefined
  BY <1>2, <1>4, <1>6, PageTagged
<1> HIDE DEF q1
<1>8. CtpState(q1)
  BY <1>6, <1>7 DEF CtpState, SameCtp
<1>9. /\ tfId \in TimeframeIds
      /\ p[1].ok => tfId = Timeframe(q1.first, p[1].orbit)
      /\ setup.check /\ CheckEnds(q1, p, tfId) = {} =>
           /\ q1.first # NotDefined
           /\ \A k \in 1 .. Len(p) :
                Timeframe(q1.first, p[k].orbit) = Timeframe(q1.first, p[1].orbit)
  BY <1>2, <1>4, <1>7, TimeframeChecked
<1> HIDE DEF tfId
<1>10. /\ q2 \in Counters /\ SameTags(q1, q2) /\ CtpState(q2)
       /\ setup.ctp /\ q1.discardData = 0 /\ q2.discardData = 0 => q2.ctpRunBit = q1.ctpRunBit
  BY <1>2, <1>4, <1>7, <1>8, PageChecked
<1> HIDE DEF ends, q2
<1>11. Evolves(eq[e], q1) /\ Evolves(eq[e], q2)
  BY <1>6, <1>7, <1>10 DEF Evolves, SameTags, OneLink
<1>12. SameNumbers(eq[e], q0) /\ SameNumbers(eq[e], q2)
  BY <1>6, <1>7, <1>10 DEF SameTags, SameNumbers
<1>13. CASE q0.discardData # 0
  <2>1. DiscardBlock(e, q0) /\ firstOrbit' = firstOrbit
    BY <1>1, <1>13
  <2>2. Evolves(eq[e], q0) /\ Shares(eq[e], q0)
    BY <1>6, <2>1 DEF Evolves, SameTags, OneLink, Shares
  <2> QED
    BY <1>6, <1>12, <2>1, <2>2 DEF SameNumbers
<1>14. CASE q0.discardData = 0 /\ ((ends # {} /\ setup.drop) \/ q2.discardData # 0)
  <2>1. DiscardBlock(e, q2) /\ ShareFirstOrbit(q0, q1)
    BY <1>1, <1>14
  <2>2. Shares(eq[e], q2)
    BY <1>6, <1>10, <2>1 DEF ShareFirstOrbit, Shares, SameTags
  <2> QED
    BY <1>10, <1>11, <1>12, <2>1, <2>2 DEF SameNumbers
<1>15. CASE q0.discardData = 0 /\ ~ ((ends # {} /\ setup.drop) \/ q2.discardData # 0)
  <2>1. NewBlock(e, q, p, tfId) /\ ShareFirstOrbit(q0, q1)
    BY <1>1, <1>15
  <2>2. q2.currentBlockId < MaxFilled /\ q2.autoCounter <= q2.currentBlockId
    <3>1. /\ eq[e].autoCounter <= eq[e].currentBlockId
          /\ eq[e].currentBlockId + Cardinality(DataIn(readyQueue[e])) <= filled
      BY DEF Numbered
    <3>2. Cardinality(DataIn(readyQueue[e])) \in Nat /\ Cardinality(DataIn(Tail(readyQueue[e]))) \in Nat
      BY <1>1, <1>3, DataInFinite, TailRemoves
    <3>3. Cardinality(DataIn(Tail(readyQueue[e]))) + 1 <= Cardinality(DataIn(readyQueue[e]))
      BY <1>1, <1>3, DataInTail DEF p
    <3>4. eq[e].currentBlockId \in Nat /\ filled \in Nat /\ MaxFilled \in Nat /\ filled <= MaxFilled
      BY <1>2, EquipmentAssumption DEF Counters, Types
    <3>5. q2.currentBlockId = eq[e].currentBlockId /\ q2.autoCounter = eq[e].autoCounter
      BY <1>12 DEF SameNumbers
    <3> QED
      BY <3>1, <3>2, <3>3, <3>4, <3>5
  <2>3. /\ q \in Counters /\ SameCtp(q2, q)
        /\ q.first = q2.first /\ q.isFatalError = q2.isFatalError
        /\ q.linksDefined = q2.linksDefined /\ q.firstLinkOrbit = q2.firstLinkOrbit
        /\ q.lastTimeframe = q2.lastTimeframe
        /\ q.currentBlockId = q2.currentBlockId + 1 /\ q.autoCounter <= q.currentBlockId
    BY <1>2, <1>9, <1>10, <2>2, BlockTagged
  <2> HIDE DEF q
  <2>4. CtpState(q)
    BY <1>10, <2>3 DEF CtpState, SameCtp
  <2>5. Evolves(eq[e], q)
    BY <1>11, <2>3 DEF Evolves, OneLink
  <2>6. Shares(eq[e], q)
    BY <1>6, <1>10, <2>1, <2>3 DEF ShareFirstOrbit, Shares, SameTags
  <2>7. UNCHANGED free /\ PushOrSetAside(e, q, b)
    BY <2>1 DEF NewBlock
  <2>8. b \in Block
    <3>1. run \in 1 .. MaxRuns
      BY <1>1, Reading
    <3>2. /\ q.currentBlockId \in 0 .. MaxFilled /\ q.autoCounter \in 0 .. MaxFilled
          /\ q2.currentBlockId \in 0 .. MaxFilled /\ MaxFilled \in Nat /\ OrbitMod \in Nat
          /\ q.first \in Orbits \cup {NotDefined}
      BY <1>10, <2>3, EquipmentAssumption DEF Counters
    <3>3. q.currentBlockId \in 1 .. MaxFilled /\ q.autoCounter \in TimeframeIds
      BY <2>3, <3>2 DEF TimeframeIds
    <3>4. q.first \in Int /\ tfId \in Int
      BY <1>9, <3>2 DEF Orbits, NotDefined, TimeframeIds
    <3>5. OrbitMin(q.first, tfId) \in Orbits /\ OrbitMax(q.first, tfId) \in Orbits
      BY <3>4, OrbitBounds
    <3> QED
      BY <1>4, <1>9, <3>1, <3>3, <3>5 DEF Block
  <2>9. InTimeframe(b, q.first)
    <3>1. b.page = p /\ b.timeframeId = IF setup.auto THEN q.autoCounter ELSE tfId
      OBVIOUS
    <3>2. q.first = q1.first
      BY <1>10, <2>3 DEF SameTags
    <3>3. setup.check /\ setup.drop => ends = {}
      BY <1>15
    <3> HIDE DEF b
    <3> QED
      BY <1>7, <1>9, <3>1, <3>2, <3>3 DEF InTimeframe, ends
  <2>10. KeepsRunBit(eq[e], q, b.page[1])
    <3>1. q2.discardData = 0 /\ q1.discardData = 0
      BY <1>7, <1>15 DEF SameCtp
    <3>2. setup.ctp => q.ctpRunBit = q0.ctpRunBit
      BY <1>7, <1>10, <2>3, <3>1 DEF SameCtp
    <3>3. b.page[1] = p[1]
      OBVIOUS
    <3> HIDE DEF b
    <3> QED BY <1>6, <1>15, <3>2, <3>3 DEF KeepsRunBit
  <2>11. b.blockId = q.currentBlockId /\ b.run = run
    OBVIOUS
  <2>12. /\ q.currentBlockId = eq[e].currentBlockId + 1 /\ q.lastTimeframe = eq[e].lastTimeframe
    BY <1>12, <2>3 DEF SameNumbers
  <2> HIDE DEF b
  <2>13. \E x \in Block :
           /\ UNCHANGED free /\ PushOrSetAside(e, q, x)
           /\ q.currentBlockId = eq[e].currentBlockId + 1
           /\ q.autoCounter <= q.currentBlockId
           /\ x.blockId = q.currentBlockId /\ x.run = run
           /\ InTimeframe(x, q.first)
           /\ KeepsRunBit(eq[e], q, x.page[1])
    BY <2>3, <2>7, <2>8, <2>9, <2>10, <2>11, <2>12
  <2> QED
    BY <2>3, <2>4, <2>5, <2>6, <2>12, <2>13
<1> QED
  BY <1>13, <1>14, <1>15

-----------------------------------------------------------------------------
(* One step of the thread that reads.                                      *)

\* The counters that the rate limit does not change.
SameButLast(q, n) ==
  /\ n.first = q.first /\ n.currentBlockId = q.currentBlockId /\ n.autoCounter = q.autoCounter
  /\ n.ctpRunBit = q.ctpRunBit /\ n.discardData = q.discardData
  /\ n.firstLinkOrbit = q.firstLinkOrbit /\ n.linksDefined = q.linksDefined
  /\ n.isFatalError = q.isFatalError

SetsAside(e, b) ==
  /\ pending' = [pending EXCEPT ![e] = <<b>>]
  /\ th' = [th EXCEPT ![e] = "prepare"]
  /\ UNCHANGED <<dataOut, sent>>

GoesOut(e, b) ==
  /\ pending' = [pending EXCEPT ![e] = <<>>]
  /\ dataOut' = [dataOut EXCEPT ![e] = Append(@, b)]
  /\ sent' = [sent EXCEPT ![e] = Append(@, b)]
  /\ th' = [th EXCEPT ![e] = "read"]

\* What becomes of a block.
LEMMA Pushed ==
  ASSUME Types, NEW e \in Equipments, NEW q \in Counters, NEW b \in Block, PushOrSetAside(e, q, b)
  PROVE  \E n \in Counters :
           /\ SameButLast(q, n)
           /\ eq' = [eq EXCEPT ![e] = n]
           /\ regulator' \in [Equipments -> BOOLEAN]
           /\ SetsAside(e, b) \/ GoesOut(e, b)
<1> DEFINE new == b.timeframeId > q.lastTimeframe
           t == IF new THEN b.timeframeId ELSE q.lastTimeframe
           n == [q EXCEPT !.lastTimeframe = t]
           g == regulator[e] /\ ~ (new /\ setup.limit)
<1>1. t \in TimeframeIds
  BY DEF Block, Counters
<1>2. n \in Counters /\ SameButLast(q, n)
  <2> HIDE DEF t
  <2>1. n \in Counters
    BY <1>1 DEF Counters
  <2>2. SameButLast(q, n)
    BY DEF Counters, SameButLast
  <2> QED BY <2>1, <2>2
<1>3. g \in BOOLEAN
  BY Zenon
<1>4. [regulator EXCEPT ![e] = g] \in [Equipments -> BOOLEAN]
  <2> HIDE DEF g
  <2> QED BY <1>3 DEF Types
<1>5. CASE /\ pending' = [pending EXCEPT ![e] = <<b>>]
           /\ eq' = [eq EXCEPT ![e] = q]
           /\ th' = [th EXCEPT ![e] = "prepare"]
           /\ UNCHANGED <<regulator, dataOut, sent>>
  <2>1. SameButLast(q, q)
    BY DEF SameButLast
  <2>2. regulator' \in [Equipments -> BOOLEAN]
    BY <1>5 DEF Types
  <2>3. SetsAside(e, b)
    BY <1>5 DEF SetsAside
  <2> QED BY <1>5, <2>1, <2>2, <2>3
<1>6. CASE /\ pending' = [pending EXCEPT ![e] = <<>>]
           /\ regulator' = [regulator EXCEPT ![e] = g]
           /\ eq' = [eq EXCEPT ![e] = n]
           /\ dataOut' = [dataOut EXCEPT ![e] = Append(@, b)]
           /\ sent' = [sent EXCEPT ![e] = Append(@, b)]
           /\ th' = [th EXCEPT ![e] = "read"]
  <2>1. GoesOut(e, b)
    BY <1>6 DEF GoesOut
  <2> HIDE DEF n
  <2> QED BY <1>2, <1>4, <1>6, <2>1
<1> QED
  BY <1>5, <1>6 DEF PushOrSetAside

\* What stays when a block is tried again.
Retries(e, b, n) ==
  /\ pending[e] = <<b>>
  /\ n.currentBlockId = eq[e].currentBlockId
  /\ UNCHANGED <<free, readyQueue>>

\* What changes when a page is read.
Takes(e) ==
  /\ pending[e] = <<>>
  /\ readyQueue[e] # <<>> /\ Head(readyQueue[e]) # Leftover
  /\ readyQueue' = [readyQueue EXCEPT ![e] = Tail(@)]

\* The page is given back.
Discards(e, n) ==
  /\ Takes(e)
  /\ n.currentBlockId = eq[e].currentBlockId
  /\ free' = [free EXCEPT ![e] = @ + 1]
  /\ th' = [th EXCEPT ![e] = "read"]
  /\ UNCHANGED <<pending, dataOut, sent>>

\* One block leaves, or is set aside.
Delivers(e, b, n) ==
  /\ \/ Retries(e, b, n)
     \/ Takes(e) /\ UNCHANGED free /\ n.currentBlockId = eq[e].currentBlockId + 1
  /\ InTimeframe(b, n.first) /\ b.blockId = n.currentBlockId /\ b.run = run
  /\ pending[e] = <<>> => KeepsRunBit(eq[e], n, b.page[1])
  /\ SetsAside(e, b) \/ GoesOut(e, b)

\* The thread reads, with the counters n at the end of the step.
Reads(e, n) ==
  /\ CanRead(e)
  /\ CtpState(n) /\ Evolves(eq[e], n) /\ Shares(eq[e], n)
  /\ n.autoCounter <= n.currentBlockId
  /\ eq' = [eq EXCEPT ![e] = n]
  /\ regulator' \in [Equipments -> BOOLEAN]
  /\ Discards(e, n) \/ \E b \in Block : Delivers(e, b, n)
  /\ UNCHANGED <<setup, control, isDataOn, dma, transferQueue, filled>>

\* What is set aside is one block.
LEMMA OnePending ==
  ASSUME Types, Accounted, NEW e \in Equipments, pending[e] # <<>>
  PROVE  pending[e] = <<Head(pending[e])>> /\ Head(pending[e]) \in Block /\ Head(pending[e]) = pending[e][1]
<1>1. pending[e] \in Seq(Block) /\ Len(pending[e]) <= 1
  BY DEF Types, Accounted
<1> QED
  BY <1>1

\* The block that was set aside keeps its ids.
LEMMA RetryReads ==
  ASSUME IInv, NEW e \in Equipments, RetryPending(e)
  PROVE  \E n \in Counters : Reads(e, n)
<1> DEFINE b == Head(pending[e])
<1>1. /\ CanRead(e) /\ pending[e] # <<>> /\ PushOrSetAside(e, eq[e], b)
      /\ UNCHANGED <<setup, control, firstOrbit, isDataOn, card, free>>
  BY DEF RetryPending
<1>2. Types /\ Commanded /\ Accounted /\ Numbered /\ FromFirstOrbit /\ InCtpRun
  BY DEF IInv
<1>3. pending[e] = <<b>> /\ b \in Block /\ b = pending[e][1] /\ eq[e] \in Counters
  BY <1>1, <1>2, OnePending DEF Types
<1> HIDE DEF b
<1>4. PICK n \in Counters :
        /\ SameButLast(eq[e], n)
        /\ eq' = [eq EXCEPT ![e] = n]
        /\ regulator' \in [Equipments -> BOOLEAN]
        /\ SetsAside(e, b) \/ GoesOut(e, b)
  BY <1>1, <1>2, <1>3, Pushed
<1>5. CtpState(n) /\ Evolves(eq[e], n) /\ Shares(eq[e], n)
  BY <1>1, <1>2, <1>4 DEF InCtpRun, CtpState, SameButLast, Evolves, OneLink, Shares
<1>6. b.blockId = n.currentBlockId /\ b.run = run /\ n.autoCounter <= n.currentBlockId
  BY <1>1, <1>2, <1>3, <1>4 DEF Numbered, SameButLast
<1>7. InTimeframe(b, n.first)
  <2>1. Started(e)
    BY <1>1, <1>2, Reading
  <2>2. InTimeframe(pending[e][1], eq[e].first)
    BY <1>1, <1>2, <2>1 DEF FromFirstOrbit
  <2> QED BY <1>3, <1>4, <2>2 DEF SameButLast
<1>8. Retries(e, b, n)
  BY <1>1, <1>3, <1>4 DEF Retries, SameButLast, card
<1>9. Delivers(e, b, n)
  BY <1>1, <1>4, <1>6, <1>7, <1>8 DEF Delivers
<1> QED
  BY <1>1, <1>3, <1>4, <1>5, <1>6, <1>9 DEF Reads, card

\* A page with data is read.
LEMMA BlockReads ==
  ASSUME IInv, NEW e \in Equipments, ReadBlock(e)
  PROVE  \E n \in Counters : Reads(e, n)
<1>1. /\ CanRead(e) /\ Takes(e)
      /\ UNCHANGED <<setup, control, isDataOn, dma, transferQueue, filled>>
  BY DEF ReadBlock, Takes
<1>2. Types /\ Commanded /\ Numbered /\ InCtpRun
  BY DEF IInv
<1>3. PICK q \in Counters :
        /\ CtpState(q) /\ Evolves(eq[e], q) /\ Shares(eq[e], q)
        /\ q.lastTimeframe = eq[e].lastTimeframe
        /\ \/ DiscardBlock(e, q) /\ SameNumbers(eq[e], q)
           \/ \E b \in Block :
                /\ UNCHANGED free /\ PushOrSetAside(e, q, b)
                /\ q.currentBlockId = eq[e].currentBlockId + 1
                /\ q.autoCounter <= q.currentBlockId
                /\ b.blockId = q.currentBlockId /\ b.run = run
                /\ InTimeframe(b, q.first)
                /\ KeepsRunBit(eq[e], q, b.page[1])
  BY <1>2, PageRead
<1>4. CASE DiscardBlock(e, q) /\ SameNumbers(eq[e], q)
  <2>1. Discards(e, q)
    BY <1>1, <1>4 DEF Discards, DiscardBlock, DropPage, SameNumbers
  <2>2. regulator' \in [Equipments -> BOOLEAN]
    BY <1>2, <1>4 DEF DiscardBlock, Types
  <2>3. eq' = [eq EXCEPT ![e] = q] /\ q.autoCounter <= q.currentBlockId
    BY <1>2, <1>4 DEF DiscardBlock, SameNumbers, Numbered
  <2>4. Reads(e, q)
    BY <1>1, <1>3, <2>1, <2>2, <2>3 DEF Reads
  <2> QED BY <2>4
<1>5. ASSUME NEW b \in Block,
             UNCHANGED free, PushOrSetAside(e, q, b),
             q.currentBlockId = eq[e].currentBlockId + 1,
             q.autoCounter <= q.currentBlockId,
             b.blockId = q.currentBlockId, b.run = run,
             InTimeframe(b, q.first),
             KeepsRunBit(eq[e], q, b.page[1])
      PROVE  \E n \in Counters : Reads(e, n)
  <2>1. PICK n \in Counters :
          /\ SameButLast(q, n)
          /\ eq' = [eq EXCEPT ![e] = n]
          /\ regulator' \in [Equipments -> BOOLEAN]
          /\ SetsAside(e, b) \/ GoesOut(e, b)
    BY <1>2, <1>5, Pushed
  <2>2. CtpState(n)
    BY <1>3, <2>1 DEF CtpState, SameButLast
  <2>3. Evolves(eq[e], n) /\ Shares(eq[e], n)
    BY <1>3, <2>1 DEF SameButLast, Evolves, OneLink, Shares
  <2>4. /\ n.currentBlockId = eq[e].currentBlockId + 1 /\ n.autoCounter <= n.currentBlockId
        /\ b.blockId = n.currentBlockId /\ b.run = run /\ InTimeframe(b, n.first)
    BY <1>5, <2>1 DEF SameButLast
  <2>5. KeepsRunBit(eq[e], n, b.page[1])
    BY <1>5, <2>1 DEF SameButLast, KeepsRunBit
  <2>6. Delivers(e, b, n)
    BY <1>1, <1>5, <2>1, <2>4, <2>5 DEF Delivers
  <2> QED
    BY <1>1, <2>1, <2>2, <2>3, <2>4, <2>6 DEF Reads
<1> QED
  BY <1>3, <1>4, <1>5

-----------------------------------------------------------------------------
(* Reading keeps the invariant.                                            *)

\* The configuration does not change, nor what depends on it only.
LEMMA SetupKept ==
  ASSUME setup' = setup
  PROVE  Equipments' = Equipments /\ Block' = Block /\ OneValidLink' = OneValidLink
  BY DEF Equipments, Block, OneValidLink

\* The types, with the sets of the state before the step.
LEMMA TypesNext ==
  ASSUME setup \in Setups, setup' = setup,
         phase' \in Phases, ix' \in Equipments, run' \in 0 .. MaxRuns,
         firstOrbit' \in Orbits, filled' \in 0 .. MaxFilled,
         th' \in [Equipments -> Places],
         isDataOn' \in [Equipments -> BOOLEAN],
         dma' \in [Equipments -> BOOLEAN],
         regulator' \in [Equipments -> BOOLEAN],
         free' \in [Equipments -> Nat],
         transferQueue' \in [Equipments -> Nat],
         readyQueue' \in [Equipments -> Seq(setup.pages \cup {Leftover})],
         pending' \in [Equipments -> Seq(Block)],
         dataOut' \in [Equipments -> Seq(Block)],
         sent' \in [Equipments -> Seq(Block)],
         eq' \in [Equipments -> Counters]
  PROVE  Types'
<1>1. Equipments' = Equipments /\ Block' = Block /\ setup' = setup
  BY SetupKept
<1> QED
  BY <1>1 DEF Types

\* The types, after a step of a thread that reads.
LEMMA ReadsTypes ==
  ASSUME IInv, NEW e \in Equipments, NEW n \in Counters, Reads(e, n)
  PROVE  Types'
<1>1. Types
  BY DEF IInv
<1>2. eq' \in [Equipments -> Counters] /\ regulator' \in [Equipments -> BOOLEAN]
  BY <1>1 DEF Reads, Types
<1>3. firstOrbit' \in Orbits
  BY <1>1 DEF Reads, Types, Shares, Counters
<1>4. /\ readyQueue' \in [Equipments -> Seq(setup.pages \cup {Leftover})]
      /\ free' \in [Equipments -> Nat]
  <2>1. CASE Takes(e)
    <3>1. Tail(readyQueue[e]) \in Seq(setup.pages \cup {Leftover})
      BY <1>1, <2>1, TailRemoves DEF Takes, Types
    <3>2. readyQueue' \in [Equipments -> Seq(setup.pages \cup {Leftover})]
      BY <1>1, <2>1, <3>1 DEF Takes, Types
    <3>3. free' = [free EXCEPT ![e] = free[e] + 1] \/ free' = free
      BY DEF Reads, Discards, Delivers, Retries
    <3>4. free \in [Equipments -> Nat] /\ free[e] + 1 \in Nat
      BY <1>1 DEF Types
    <3>5. free' \in [Equipments -> Nat]
      BY <3>3, <3>4
    <3> QED BY <3>2, <3>5
  <2>2. CASE UNCHANGED <<free, readyQueue>>
    BY <1>1, <2>2 DEF Types
  <2> QED BY <2>1, <2>2 DEF Reads, Discards, Delivers, Retries
<1>5. /\ th' \in [Equipments -> Places]
      /\ pending' \in [Equipments -> Seq(Block)]
      /\ dataOut' \in [Equipments -> Seq(Block)]
      /\ sent' \in [Equipments -> Seq(Block)]
  <2>1. CASE Discards(e, n)
    BY <1>1, <2>1 DEF Discards, Types, Places
  <2>2. ASSUME NEW b \in Block, SetsAside(e, b)
        PROVE  <1>5!1 /\ <1>5!2 /\ <1>5!3 /\ <1>5!4
    <3>1. <<b>> \in Seq(Block)
      OBVIOUS
    <3> QED BY <1>1, <2>2, <3>1 DEF SetsAside, Types, Places
  <2>3. ASSUME NEW b \in Block, GoesOut(e, b)
        PROVE  <1>5!1 /\ <1>5!2 /\ <1>5!3 /\ <1>5!4
    <3>1. /\ Append(dataOut[e], b) \in Seq(Block) /\ Append(sent[e], b) \in Seq(Block)
          /\ <<>> \in Seq(Block)
      BY <1>1 DEF Types
    <3> QED BY <1>1, <2>3, <3>1 DEF GoesOut, Types, Places
  <2> QED BY <2>1, <2>2, <2>3 DEF Reads, Delivers
<1> QED
  BY <1>1, <1>2, <1>3, <1>4, <1>5, TypesNext DEF Types, Reads, control

\* The thread that reads goes on, and the control stays where it is.
LEMMA ReadsCommanded ==
  ASSUME IInv, NEW e \in Equipments, NEW n \in Counters, Reads(e, n)
  PROVE  Commanded'
<1>1. Types /\ Commanded
  BY DEF IInv
<1>2. UNCHANGED <<setup, phase, ix, run>> /\ Equipments' = Equipments
  BY SetupKept DEF Reads, control
<1>3. th[e] # "off" /\ Started(e)
  BY <1>1, Reading DEF Reads
<1>4. \E t \in Places : t # "off" /\ th' = [th EXCEPT ![e] = t]
  BY DEF Reads, Discards, Delivers, SetsAside, GoesOut, Places
<1>5. \A x \in Equipments : (th'[x] = "off" <=> th[x] = "off")
  BY <1>1, <1>3, <1>4 DEF Types
<1>6. \A x \in Equipments : x # e => pending'[x] = pending[x] /\ sent'[x] = sent[x]
  BY <1>1 DEF Reads, Discards, Delivers, SetsAside, GoesOut, Types
<1>7. \A x \in Equipments : Off(x)' <=> Off(x)
  BY <1>2 DEF Off
<1>8. \A x \in Equipments : th'[x] = "off" => pending'[x] = <<>>
  BY <1>1, <1>3, <1>5, <1>6 DEF Commanded
<1>9. phase' = "start" => \A x \in Equipments : x >= ix' => sent'[x] = <<>>
  <2>1. phase = "start" => e < ix
    BY <1>3 DEF Started
  <2>2. e \in Int /\ ix \in Int
    BY <1>1 DEF Types, Equipments
  <2> QED BY <1>1, <1>2, <1>6, <2>1, <2>2 DEF Commanded
<1> QED
  BY <1>1, <1>2, <1>5, <1>7, <1>8, <1>9 DEF Commanded

\* The page that was read is set aside, in the output, or free again.
LEMMA ReadsAccounted ==
  ASSUME IInv, NEW e \in Equipments, NEW n \in Counters, Reads(e, n)
  PROVE  Accounted'
<1>1. Types /\ Commanded /\ Accounted
  BY DEF IInv
<1>2. setup' = setup /\ transferQueue' = transferQueue /\ Equipments' = Equipments
  BY SetupKept DEF Reads
<1>3. th[e] # "push" /\ Len(dataOut[e]) < FifoSize
  BY DEF Reads, CanRead
<1>4. /\ free[e] \in Nat /\ transferQueue[e] \in Nat /\ Len(readyQueue[e]) \in Nat
      /\ Len(dataOut[e]) \in Nat /\ FifoSize \in Nat
  BY <1>1, EquipmentAssumption DEF Types
<1>5. free[e] + transferQueue[e] + Len(readyQueue[e]) + Len(pending[e]) + Len(dataOut[e]) = NPages
      /\ transferQueue[e] <= QueueSize
  BY <1>1, <1>3, <1>4 DEF Accounted, PagesOf, Types
<1>6. \A x \in Equipments : x # e =>
        /\ free'[x] = free[x] /\ readyQueue'[x] = readyQueue[x] /\ th'[x] = th[x]
        /\ pending'[x] = pending[x] /\ dataOut'[x] = dataOut[x]
  <2>1. \A x \in Equipments : x # e => free'[x] = free[x] /\ readyQueue'[x] = readyQueue[x]
    BY <1>1 DEF Types, Reads, Discards, Takes, Delivers, Retries
  <2>2. \A x \in Equipments : x # e =>
          th'[x] = th[x] /\ pending'[x] = pending[x] /\ dataOut'[x] = dataOut[x]
    BY <1>1 DEF Types, Reads, Discards, Delivers, SetsAside, GoesOut
  <2> QED BY <2>1, <2>2
<1>7. Takes(e) => Len(readyQueue'[e]) = Len(readyQueue[e]) - 1
  <2> SUFFICES ASSUME Takes(e) PROVE Len(readyQueue'[e]) = Len(readyQueue[e]) - 1
    OBVIOUS
  <2>1. readyQueue[e] \in Seq(setup.pages \cup {Leftover}) /\ readyQueue[e] # <<>>
    BY <1>1 DEF Types, Takes
  <2>2. Len(Tail(readyQueue[e])) = Len(readyQueue[e]) - 1
    BY <2>1, TailRemoves
  <2> QED BY <1>1, <2>2 DEF Takes, Types
<1>8. ASSUME NEW b \in Block
      PROVE  /\ SetsAside(e, b) => /\ Len(pending'[e]) = 1 /\ dataOut' = dataOut /\ th'[e] # "push"
             /\ GoesOut(e, b) => /\ Len(pending'[e]) = 0 /\ th'[e] # "push"
                                 /\ Len(dataOut'[e]) = Len(dataOut[e]) + 1
  <2>1. Len(<<b>>) = 1 /\ Len(<<>>) = 0
    OBVIOUS
  <2>2. Len(Append(dataOut[e], b)) = Len(dataOut[e]) + 1
    BY <1>1, AppendAdds DEF Types
  <2> QED BY <1>1, <2>1, <2>2 DEF Types, SetsAside, GoesOut
<1> DEFINE fr == free[e]  tq == transferQueue[e]  rq == Len(readyQueue[e])  pe == Len(pending[e])
           da == Len(dataOut[e])  fr2 == free'[e]  rq2 == Len(readyQueue'[e])  pe2 == Len(pending'[e])
           da2 == Len(dataOut'[e])
<1>9. /\ fr2 + tq + rq2 + pe2 + da2 = NPages
      /\ th'[e] # "push" /\ pe2 <= 1 /\ da2 <= FifoSize
  <2>1. CASE Discards(e, n)
    <3>1. free'[e] = free[e] + 1 /\ th'[e] # "push" /\ pending' = pending /\ dataOut' = dataOut
      BY <1>1, <2>1 DEF Discards, Types
    <3>2. Len(readyQueue'[e]) = Len(readyQueue[e]) - 1 /\ Len(pending[e]) = 0
      BY <1>7, <2>1 DEF Discards, Takes
    <3>3. fr2 = fr + 1 /\ rq2 = rq - 1 /\ pe = 0 /\ pe2 = 0 /\ da2 = da
      BY <3>1, <3>2
    <3>4. fr \in Int /\ tq \in Int /\ rq \in Int /\ da \in Int /\ fr + tq + rq + pe + da = NPages
      BY <1>4, <1>5
    <3>5. da < FifoSize /\ FifoSize \in Int
      BY <1>3, <1>4
    <3> HIDE DEF fr, tq, rq, pe, da, fr2, rq2, pe2, da2
    <3> QED BY <3>1, <3>3, <3>4, <3>5
  <2>2. ASSUME NEW b \in Block, Delivers(e, b, n)
        PROVE  <1>9!1 /\ <1>9!2
    <3>1. \/ fr2 = fr /\ rq2 = rq /\ pe = 1
          \/ fr2 = fr /\ rq2 = rq - 1 /\ pe = 0
      <4>1. CASE Retries(e, b, n)
        BY <4>1 DEF Retries
      <4>2. CASE Takes(e) /\ UNCHANGED free
        BY <1>7, <4>2 DEF Takes
      <4> QED BY <2>2, <4>1, <4>2 DEF Delivers
    <3>2. /\ th'[e] # "push"
          /\ (pe2 = 1 /\ da2 = da) \/ (pe2 = 0 /\ da2 = da + 1)
      BY <1>8, <2>2 DEF Delivers
    <3>3. fr \in Int /\ tq \in Int /\ rq \in Int /\ da \in Int /\ fr + tq + rq + pe + da = NPages
      BY <1>4, <1>5
    <3>4. da < FifoSize /\ FifoSize \in Int
      BY <1>3, <1>4
    <3> HIDE DEF fr, tq, rq, pe, da, fr2, rq2, pe2, da2
    <3> QED BY <3>1, <3>2, <3>3, <3>4
  <2> QED BY <2>1, <2>2 DEF Reads
<1>10. ASSUME NEW x \in Equipments
       PROVE  /\ free'[x] + transferQueue'[x] + Len(readyQueue'[x])
                   + (IF th'[x] = "push" THEN 1 ELSE 0) + Len(pending'[x]) + Len(dataOut'[x]) = NPages
              /\ transferQueue'[x] <= QueueSize
              /\ th'[x] = "push" => transferQueue'[x] < QueueSize
              /\ Len(pending'[x]) <= 1 /\ Len(dataOut'[x]) <= FifoSize
  <2>1. CASE x # e
    BY <1>1, <1>2, <1>6, <2>1 DEF Accounted, PagesOf
  <2>2. CASE x = e
    <3>1. /\ free'[e] \in Nat /\ Len(readyQueue'[e]) \in Nat
          /\ Len(pending'[e]) \in Nat /\ Len(dataOut'[e]) \in Nat
      <4>1. Types'
        BY ReadsTypes
      <4> QED BY SMTT(30), <1>2, <4>1 DEF Types
    <3>2. free'[e] + transferQueue'[e] + Len(readyQueue'[e]) + 0 + Len(pending'[e]) + Len(dataOut'[e]) = NPages
      <4>1. fr2 \in Int /\ tq \in Int /\ rq2 \in Int /\ pe2 \in Int /\ da2 \in Int
        BY <1>4, <3>1
      <4>2. fr2 + tq + rq2 + 0 + pe2 + da2 = NPages
        <5> HIDE DEF fr, tq, rq, pe, da, fr2, rq2, pe2, da2
        <5> QED BY <1>9, <4>1
      <4> QED BY <1>2, <4>2
    <3> QED BY <1>2, <1>5, <1>9, <2>2, <3>2
  <2> QED BY <2>1, <2>2
<1> QED
  BY <1>2, <1>10 DEF Accounted, PagesOf

\* Each block gets the next id, and uses up a superpage with data.
LEMMA ReadsNumbered ==
  ASSUME IInv, NEW e \in Equipments, NEW n \in Counters, Reads(e, n)
  PROVE  Numbered'
<1>1. Types /\ Commanded /\ Accounted /\ Numbered
  BY DEF IInv
<1>2. UNCHANGED <<setup, run, filled>> /\ Equipments' = Equipments
  BY SetupKept DEF Reads, control
<1>3. th[e] # "off"
  BY <1>1, Reading DEF Reads
<1>4. /\ sent[e] \in Seq(Block) /\ pending[e] \in Seq(Block) /\ Len(sent[e]) \in Nat
      /\ readyQueue[e] \in Seq(setup.pages \cup {Leftover})
      /\ eq[e].currentBlockId \in Nat /\ n.currentBlockId \in Nat /\ filled \in Nat
  <2>1. eq[e] \in Counters
    BY <1>1 DEF Types
  <2>2. eq[e].currentBlockId \in Nat /\ n.currentBlockId \in Nat
    BY <2>1 DEF Counters
  <2>3. sent[e] \in Seq(Block) /\ pending[e] \in Seq(Block)
        /\ readyQueue[e] \in Seq(setup.pages \cup {Leftover}) /\ filled \in Nat
    BY <1>1 DEF Types
  <2> QED BY <2>2, <2>3
<1>5. /\ \A k \in 1 .. Len(sent[e]) : sent[e][k].blockId = k /\ sent[e][k].run = run
      /\ eq[e].currentBlockId = Len(sent[e]) + Len(pending[e])
      /\ eq[e].currentBlockId + Cardinality(DataIn(readyQueue[e])) <= filled
  BY <1>1, <1>3 DEF Numbered
<1>6. eq'[e] = n /\ n.autoCounter <= n.currentBlockId
  BY <1>1 DEF Reads, Types
<1>7. \A x \in Equipments : x # e =>
        /\ eq'[x] = eq[x] /\ readyQueue'[x] = readyQueue[x] /\ th'[x] = th[x]
        /\ pending'[x] = pending[x] /\ sent'[x] = sent[x]
  <2>1. \A x \in Equipments : x # e => eq'[x] = eq[x] /\ readyQueue'[x] = readyQueue[x]
    BY <1>1 DEF Types, Reads, Discards, Takes, Delivers, Retries
  <2>2. \A x \in Equipments : x # e =>
          th'[x] = th[x] /\ pending'[x] = pending[x] /\ sent'[x] = sent[x]
    BY <1>1 DEF Types, Reads, Discards, Delivers, SetsAside, GoesOut
  <2> QED BY <2>1, <2>2
<1>8. /\ Cardinality(DataIn(readyQueue[e])) \in Nat
      /\ Takes(e) => /\ Cardinality(DataIn(readyQueue'[e])) \in Nat
                     /\ Cardinality(DataIn(readyQueue'[e])) + 1 <= Cardinality(DataIn(readyQueue[e]))
  <2>1. Takes(e) => readyQueue'[e] = Tail(readyQueue[e])
    BY <1>1 DEF Takes, Types
  <2>2. Takes(e) => /\ Cardinality(DataIn(Tail(readyQueue[e]))) \in Nat
                    /\ Cardinality(DataIn(Tail(readyQueue[e]))) + 1 <= Cardinality(DataIn(readyQueue[e]))
    BY <1>4, TailRemoves, DataInTail, DataInFinite DEF Takes
  <2> QED BY <1>4, <2>1, <2>2, DataInFinite
<1>9. /\ \A k \in 1 .. Len(sent'[e]) : sent'[e][k].blockId = k /\ sent'[e][k].run = run
      /\ n.currentBlockId = Len(sent'[e]) + Len(pending'[e])
      /\ pending'[e] # <<>> => pending'[e][1].blockId = n.currentBlockId /\ pending'[e][1].run = run
      /\ n.currentBlockId + Cardinality(DataIn(readyQueue'[e])) <= filled
  <2>1. CASE Discards(e, n)
    <3>1. Takes(e) /\ pending' = pending /\ sent' = sent /\ pending[e] = <<>>
          /\ n.currentBlockId = eq[e].currentBlockId
      BY <2>1 DEF Discards, Takes
    <3>2. n.currentBlockId + Cardinality(DataIn(readyQueue'[e])) <= filled
      <4> DEFINE c == Cardinality(DataIn(readyQueue[e]))
                 d == Cardinality(DataIn(readyQueue'[e]))
      <4>1. c \in Nat /\ d \in Nat /\ d + 1 <= c /\ eq[e].currentBlockId + c <= filled
        BY <1>5, <1>8, <3>1
      <4> HIDE DEF c, d
      <4>2. n.currentBlockId + d <= filled
        BY <1>4, <3>1, <4>1
      <4> QED BY <4>2 DEF d
    <3> QED BY <1>5, <3>1, <3>2
  <2>2. ASSUME NEW b \in Block, Delivers(e, b, n)
        PROVE  <1>9!1 /\ <1>9!2 /\ <1>9!3 /\ <1>9!4
    <3>1. b.blockId = n.currentBlockId /\ b.run = run
      BY <2>2 DEF Delivers
    <3>2. n.currentBlockId = Len(sent[e]) + 1 /\ n.currentBlockId + Cardinality(DataIn(readyQueue'[e])) <= filled
      <4>1. CASE Retries(e, b, n)
        <5>1. Len(pending[e]) = 1 /\ readyQueue' = readyQueue /\ n.currentBlockId = eq[e].currentBlockId
          BY <4>1 DEF Retries
        <5> QED BY <1>4, <1>5, <5>1
      <4>2. CASE Takes(e) /\ n.currentBlockId = eq[e].currentBlockId + 1
        <5>1. Len(pending[e]) = 0
          BY <4>2 DEF Takes
        <5> QED BY <1>4, <1>5, <1>8, <4>2, <5>1
      <4> QED BY <2>2, <4>1, <4>2 DEF Delivers
    <3>3. CASE SetsAside(e, b)
      <4>1. pending'[e] = <<b>> /\ sent' = sent
        BY <1>1, <3>3 DEF SetsAside, Types
      <4>2. Len(pending'[e]) = 1 /\ pending'[e][1] = b
        BY <4>1
      <4> QED BY <1>5, <3>1, <3>2, <4>1, <4>2
    <3>4. CASE GoesOut(e, b)
      <4>1. pending'[e] = <<>> /\ sent'[e] = Append(sent[e], b)
        BY <1>1, <3>4 DEF GoesOut, Types
      <4>2. /\ Len(pending'[e]) = 0 /\ Len(sent'[e]) = Len(sent[e]) + 1 /\ sent'[e][Len(sent[e]) + 1] = b
            /\ \A k \in 1 .. Len(sent[e]) : sent'[e][k] = sent[e][k]
        BY <1>4, <4>1, AppendAdds
      <4>3. \A k \in 1 .. Len(sent'[e]) : sent'[e][k].blockId = k /\ sent'[e][k].run = run
        <5>1. \A k \in 1 .. Len(sent'[e]) : k \in 1 .. Len(sent[e]) \/ k = Len(sent[e]) + 1
          BY <1>4, <4>2
        <5> QED BY <1>5, <3>1, <3>2, <4>2, <5>1
      <4> QED BY <1>4, <3>2, <4>1, <4>2, <4>3
    <3> QED BY <2>2, <3>3, <3>4 DEF Delivers
  <2> QED BY <2>1, <2>2 DEF Reads
<1>10. ASSUME NEW x \in Equipments
       PROVE  /\ \A k \in 1 .. Len(sent'[x]) : sent'[x][k].blockId = k /\ sent'[x][k].run = run'
              /\ th'[x] # "off" => eq'[x].currentBlockId = Len(sent'[x]) + Len(pending'[x])
              /\ pending'[x] # <<>> =>
                   pending'[x][1].blockId = eq'[x].currentBlockId /\ pending'[x][1].run = run'
              /\ eq'[x].autoCounter <= eq'[x].currentBlockId
              /\ eq'[x].currentBlockId + Cardinality(DataIn(readyQueue'[x])) <= filled'
  <2>1. CASE x # e
    <3>1. /\ eq'[x] = eq[x] /\ readyQueue'[x] = readyQueue[x] /\ th'[x] = th[x]
          /\ pending'[x] = pending[x] /\ sent'[x] = sent[x] /\ run' = run /\ filled' = filled
      BY <1>2, <1>7, <2>1
    <3>2. /\ \A k \in 1 .. Len(sent[x]) : sent[x][k].blockId = k /\ sent[x][k].run = run
          /\ th[x] # "off" => eq[x].currentBlockId = Len(sent[x]) + Len(pending[x])
          /\ pending[x] # <<>> =>
               pending[x][1].blockId = eq[x].currentBlockId /\ pending[x][1].run = run
          /\ eq[x].autoCounter <= eq[x].currentBlockId
          /\ eq[x].currentBlockId + Cardinality(DataIn(readyQueue[x])) <= filled
      BY <1>1 DEF Numbered
    <3> QED BY <3>1, <3>2
  <2>2. CASE x = e
    BY <1>2, <1>6, <1>9, <2>2
  <2> QED BY <2>1, <2>2
<1> QED
  BY <1>2, <1>10 DEF Numbered, DataIn

\* The first orbit, once defined, stays: earlier blocks keep their meaning.
LEMMA ReadsFromFirstOrbit ==
  ASSUME IInv, NEW e \in Equipments, NEW n \in Counters, Reads(e, n)
  PROVE  FromFirstOrbit'
<1>1. Types /\ Commanded /\ FromFirstOrbit
  BY DEF IInv
<1>2. UNCHANGED <<setup, phase, ix>> /\ Equipments' = Equipments
  BY SetupKept DEF Reads, control
<1>3. Started(e)
  BY <1>1, Reading DEF Reads
<1>4. eq'[e] = n /\ (eq[e].first # NotDefined => n.first = eq[e].first)
  BY <1>1 DEF Reads, Types, Evolves
<1>5. \A x \in Equipments : x # e => eq'[x] = eq[x] /\ pending'[x] = pending[x] /\ sent'[x] = sent[x]
  <2>1. \A x \in Equipments : x # e => eq'[x] = eq[x]
    BY <1>1 DEF Types, Reads
  <2>2. \A x \in Equipments : x # e => pending'[x] = pending[x] /\ sent'[x] = sent[x]
    BY <1>1 DEF Types, Reads, Discards, Delivers, SetsAside, GoesOut
  <2> QED BY <2>1, <2>2
<1>6. ASSUME NEW b, InTimeframe(b, eq[e].first) PROVE InTimeframe(b, n.first)
  BY <1>4, <1>6 DEF InTimeframe
<1>7. sent[e] \in Seq(Block) /\ Len(sent[e]) \in Nat
  BY <1>1 DEF Types
<1>8. \A k \in 1 .. Len(sent[e]) : InTimeframe(sent[e][k], n.first)
  BY <1>1, <1>3, <1>6 DEF FromFirstOrbit
<1>9. /\ \A k \in 1 .. Len(sent'[e]) : InTimeframe(sent'[e][k], n.first)
      /\ pending'[e] # <<>> => InTimeframe(pending'[e][1], n.first)
  <2>1. CASE Discards(e, n)
    BY <1>8, <2>1 DEF Discards, Takes
  <2>2. ASSUME NEW b \in Block, Delivers(e, b, n) PROVE <1>9!1 /\ <1>9!2
    <3>1. InTimeframe(b, n.first)
      BY <2>2 DEF Delivers
    <3>2. CASE SetsAside(e, b)
      <4>1. pending'[e] = <<b>> /\ sent' = sent
        BY <1>1, <3>2 DEF SetsAside, Types
      <4>2. pending'[e][1] = b
        BY <4>1
      <4> QED BY <1>8, <3>1, <4>1, <4>2
    <3>3. CASE GoesOut(e, b)
      <4>1. pending'[e] = <<>> /\ sent'[e] = Append(sent[e], b)
        BY <1>1, <3>3 DEF GoesOut, Types
      <4>2. /\ Len(sent'[e]) = Len(sent[e]) + 1 /\ sent'[e][Len(sent[e]) + 1] = b
            /\ \A k \in 1 .. Len(sent[e]) : sent'[e][k] = sent[e][k]
        BY <1>7, <4>1, AppendAdds
      <4>3. \A k \in 1 .. Len(sent'[e]) : k \in 1 .. Len(sent[e]) \/ k = Len(sent[e]) + 1
        BY <1>7, <4>2
      <4> QED BY <1>8, <3>1, <4>1, <4>2, <4>3
    <3> QED BY <2>2, <3>2, <3>3 DEF Delivers
  <2> QED BY <2>1, <2>2 DEF Reads
<1>10. ASSUME NEW x \in Equipments, Started(x)
       PROVE  /\ \A k \in 1 .. Len(sent'[x]) : InTimeframe(sent'[x][k], eq'[x].first)
              /\ pending'[x] # <<>> => InTimeframe(pending'[x][1], eq'[x].first)
  <2>1. CASE x # e
    BY <1>1, <1>5, <1>10, <2>1 DEF FromFirstOrbit
  <2>2. CASE x = e
    BY <1>4, <1>9, <2>2
  <2> QED BY <2>1, <2>2
<1> QED
  BY <1>2, <1>10 DEF FromFirstOrbit, InTimeframe, Started

\* The first equipment shares its first orbit; another one that differs has an error.
LEMMA ReadsOrbitsShared ==
  ASSUME IInv, NEW e \in Equipments, NEW n \in Counters, Reads(e, n)
  PROVE  OrbitsShared'
<1>1. Types /\ Commanded /\ OrbitsShared
  BY DEF IInv
<1>2. UNCHANGED <<setup, phase, ix>> /\ Equipments' = Equipments
  BY SetupKept DEF Reads, control
<1>3. Started(e)
  BY <1>1, Reading DEF Reads
<1>4. /\ eq'[e] = n /\ Evolves(eq[e], n) /\ Shares(eq[e], n)
      /\ \A x \in Equipments : x # e => eq'[x] = eq[x]
  BY <1>1 DEF Reads, Types
<1>5. ASSUME setup.firstOrbit, NEW x \in Equipments, Started(x),
             eq'[x].first \notin {NotDefined, undefinedOrbit}, ~ eq'[x].isFatalError
      PROVE  eq'[x].first = firstOrbit'
  <2>1. CASE x # e
    <3>1. eq[x].first = firstOrbit
      BY <1>1, <1>4, <1>5, <2>1 DEF OrbitsShared
    <3> QED BY <1>4, <1>5, <2>1, <3>1 DEF Shares
  <2>2. CASE x = e /\ eq[e].first = NotDefined
    BY <1>4, <1>5, <2>2 DEF Evolves, Shares
  <2>3. CASE x = e /\ eq[e].first # NotDefined
    <3>1. n.first = eq[e].first /\ ~ eq[e].isFatalError
      BY <1>4, <1>5, <2>3 DEF Evolves
    <3>2. eq[e].first = firstOrbit
      BY <1>1, <1>3, <1>4, <1>5, <2>3, <3>1 DEF OrbitsShared
    <3> QED BY <1>4, <2>3, <3>1, <3>2 DEF Shares
  <2> QED BY <2>1, <2>2, <2>3
<1> QED
  BY <1>2, <1>5 DEF OrbitsShared, Started

\* An error comes from a first orbit that another equipment of the run does not have.
LEMMA ReadsErrorsJustified ==
  ASSUME IInv, NEW e \in Equipments, NEW n \in Counters, Reads(e, n)
  PROVE  ErrorsJustified'
<1>1. Types /\ Commanded /\ ErrorsJustified
  BY DEF IInv
<1>2. UNCHANGED <<setup, phase, ix>> /\ Equipments' = Equipments /\ OneValidLink' = OneValidLink
  BY SetupKept DEF Reads, control
<1>3. Started(e)
  BY <1>1, Reading DEF Reads
<1>4. /\ eq'[e] = n /\ Evolves(eq[e], n) /\ Shares(eq[e], n)
      /\ \A x \in Equipments : x # e => eq'[x] = eq[x]
  BY <1>1 DEF Reads, Types
<1>5. \A x \in Equipments : eq[x].first # NotDefined => eq'[x].first = eq[x].first
  BY <1>4 DEF Evolves
<1>6. firstOrbit # NotDefined
  BY <1>1, EquipmentAssumption DEF Types, Orbits, NotDefined
<1>7. ASSUME OneValidLink, firstOrbit' # undefinedOrbit, phase # "stopped"
      PROVE  \E f \in Equipments : Started(f) /\ eq'[f].first = firstOrbit'
  <2>1. CASE firstOrbit' = firstOrbit
    <3>1. PICK f \in Equipments : Started(f) /\ eq[f].first = firstOrbit
      BY <1>1, <1>7, <2>1 DEF ErrorsJustified
    <3> QED BY <1>5, <1>6, <2>1, <3>1
  <2>2. CASE firstOrbit' = n.first
    BY <1>3, <1>4, <2>2
  <2> QED BY <1>4, <2>1, <2>2 DEF Shares
<1>8. ASSUME OneValidLink, NEW x \in Equipments, Started(x)
      PROVE  /\ OneLink(eq'[x])
             /\ eq'[x].isFatalError =>
                  /\ eq'[x].first # NotDefined
                  /\ \E f \in Equipments :
                       Started(f) /\ eq'[f].first # NotDefined /\ eq'[f].first # eq'[x].first
  <2>1. OneLink(eq[x]) /\ OneLink(eq[e])
    BY <1>1, <1>3, <1>8 DEF ErrorsJustified
  <2>2. OneLink(eq'[x])
    BY <1>4, <1>8, <2>1 DEF Evolves
  <2>3. CASE eq[x].isFatalError
    <3>1. eq[x].first # NotDefined
      BY <1>1, <1>8, <2>3 DEF ErrorsJustified
    <3>2. PICK f \in Equipments : Started(f) /\ eq[f].first # NotDefined /\ eq[f].first # eq[x].first
      BY <1>1, <1>8, <2>3 DEF ErrorsJustified
    <3> QED BY <1>5, <2>2, <3>1, <3>2
  <2>4. CASE ~ eq[x].isFatalError /\ eq'[x].isFatalError
    <3>1. x = e
      BY <1>4, <2>4
    <3>2. /\ eq[e].first = NotDefined /\ n.first # NotDefined
          /\ firstOrbit # undefinedOrbit /\ firstOrbit # n.first
      BY <1>4, <1>8, <2>1, <2>4, <3>1 DEF Evolves
    <3>3. phase # "stopped"
      BY <1>3 DEF Started
    <3>4. PICK f \in Equipments : Started(f) /\ eq[f].first = firstOrbit
      BY <1>1, <1>8, <3>2, <3>3 DEF ErrorsJustified
    <3>5. eq'[f].first = firstOrbit
      BY <1>5, <1>6, <3>4
    <3> QED BY <1>4, <1>6, <2>2, <3>1, <3>2, <3>4, <3>5
  <2> QED BY <2>2, <2>3, <2>4
<1> QED
  BY <1>2, <1>7, <1>8 DEF ErrorsJustified, Started, OneLink

\* Data is kept exactly while there is a run bit, after a page was read.
LEMMA ReadsInCtpRun ==
  ASSUME IInv, NEW e \in Equipments, NEW n \in Counters, Reads(e, n)
  PROVE  InCtpRun'
<1>1. Types /\ InCtpRun
  BY DEF IInv
<1>2. setup' = setup /\ Equipments' = Equipments
  BY SetupKept DEF Reads
<1>3. \A x \in Equipments : CtpState(eq'[x])
  BY <1>1 DEF Reads, Types, InCtpRun
<1> QED
  BY <1>2, <1>3 DEF InCtpRun, CtpState

\* The steps of a thread that reads.
LEMMA ReadsKeep ==
  ASSUME IInv, NEW e \in Equipments, RetryPending(e) \/ ReadBlock(e)
  PROVE  IInv'
<1>1. PICK n \in Counters : Reads(e, n)
  BY RetryReads, BlockReads
<1>2. Types' /\ Commanded' /\ Accounted' /\ Numbered'
  BY <1>1, ReadsTypes, ReadsCommanded, ReadsAccounted, ReadsNumbered
<1>3. FromFirstOrbit' /\ OrbitsShared' /\ ErrorsJustified' /\ InCtpRun'
  BY <1>1, ReadsFromFirstOrbit, ReadsOrbitsShared, ReadsErrorsJustified, ReadsInCtpRun
<1> QED
  BY <1>2, <1>3 DEF IInv

-----------------------------------------------------------------------------
(* Pages that move.                                                        *)

\* The account of one equipment: pages that are free, with the card to be filled,
\* and from the card, the place t of the thread, blocks set aside and blocks out.
AccountOf(fr, tq, rq, t, pe, da) ==
  /\ fr + tq + rq + (IF t = "push" THEN 1 ELSE 0) + pe + da = NPages
  /\ tq <= QueueSize
  /\ t = "push" => tq < QueueSize
  /\ pe <= 1 /\ da <= FifoSize

\* The moves of a page keep the account.
LEMMA Moves ==
  ASSUME NEW fr \in Nat, NEW tq \in Nat, NEW rq \in Nat, NEW t, NEW u, NEW pe \in Nat, NEW da \in Nat,
         AccountOf(fr, tq, rq, t, pe, da)
  PROVE  /\ t # "push" /\ u # "push" => AccountOf(fr, tq, rq, u, pe, da)
         /\ t # "push" /\ u # "push" /\ rq > 0 => AccountOf(fr + 1, tq, rq - 1, u, pe, da)
         /\ t # "push" /\ fr > 0 /\ tq < QueueSize => AccountOf(fr - 1, tq, rq, "push", pe, da)
         /\ t = "push" /\ u # "push" => /\ AccountOf(fr, tq + 1, rq, u, pe, da)
                                        /\ AccountOf(fr + 1, tq, rq, u, pe, da)
         /\ tq > 0 => AccountOf(fr, tq - 1, rq + 1, t, pe, da)
         /\ da > 0 => AccountOf(fr + 1, tq, rq, t, pe, da - 1)
         /\ t # "push" /\ u # "push" => AccountOf(fr + pe, tq, rq, u, 0, da)
         /\ AccountOf(fr, 0, rq + tq, t, pe, da)
         /\ AccountOf(fr + da, tq, rq, t, pe, 0)
<1>1. QueueSize \in Nat \ {0} /\ FifoSize \in Nat \ {0} /\ NPages \in Nat
  BY EquipmentAssumption
<1>2. CASE t = "push"
  <2>1. fr + tq + rq + 1 + pe + da = NPages /\ tq < QueueSize /\ pe <= 1 /\ da <= FifoSize
    BY <1>2 DEF AccountOf
  <2> QED BY <1>1, <1>2, <2>1 DEF AccountOf
<1>3. CASE t # "push"
  <2>1. fr + tq + rq + 0 + pe + da = NPages /\ tq <= QueueSize /\ pe <= 1 /\ da <= FifoSize
    BY <1>3 DEF AccountOf
  <2> QED BY <1>1, <1>3, <2>1 DEF AccountOf
<1> QED
  BY <1>2, <1>3

\* The account of equipment x, with the types.
LEMMA Account ==
  ASSUME Types, Accounted, NEW x \in Equipments
  PROVE  /\ free[x] \in Nat /\ transferQueue[x] \in Nat /\ Len(readyQueue[x]) \in Nat
         /\ Len(pending[x]) \in Nat /\ Len(dataOut[x]) \in Nat
         /\ AccountOf(free[x], transferQueue[x], Len(readyQueue[x]), th[x], Len(pending[x]), Len(dataOut[x]))
<1>1. free[x] \in Nat /\ transferQueue[x] \in Nat
  BY DEF Types
<1>2. /\ readyQueue[x] \in Seq(setup.pages \cup {Leftover})
      /\ pending[x] \in Seq(Block) /\ dataOut[x] \in Seq(Block)
  BY DEF Types
<1>3. AccountOf(free[x], transferQueue[x], Len(readyQueue[x]), th[x], Len(pending[x]), Len(dataOut[x]))
  BY DEF Accounted, PagesOf, AccountOf
<1> QED
  BY <1>1, <1>2, <1>3

\* The accounts after the step.
AccountsNext ==
  \A x \in Equipments :
    AccountOf(free'[x], transferQueue'[x], Len(readyQueue'[x]), th'[x], Len(pending'[x]), Len(dataOut'[x]))

\* The accounts after the step, as a part of the invariant.
LEMMA AccountsKept ==
  ASSUME setup' = setup, AccountsNext
  PROVE  Accounted'
<1>1. Equipments' = Equipments
  BY SetupKept
<1>2. ASSUME NEW x \in Equipments
      PROVE  /\ free'[x] + transferQueue'[x] + Len(readyQueue'[x]) + (IF th'[x] = "push" THEN 1 ELSE 0)
                  + Len(pending'[x]) + Len(dataOut'[x]) = NPages
             /\ transferQueue'[x] <= QueueSize
             /\ th'[x] = "push" => transferQueue'[x] < QueueSize
             /\ Len(pending'[x]) <= 1 /\ Len(dataOut'[x]) <= FifoSize
  BY DEF AccountsNext, AccountOf
<1> QED
  BY <1>1, <1>2 DEF Accounted, PagesOf

\* Steps that leave the counters and the control alone.
Quiet == UNCHANGED <<setup, control, firstOrbit, eq, sent, pending>>

\* Pages that are counted for e only.
Elsewhere(e) ==
  \A x \in Equipments : x # e =>
    /\ free'[x] = free[x] /\ transferQueue'[x] = transferQueue[x] /\ readyQueue'[x] = readyQueue[x]
    /\ th'[x] = th[x] /\ dataOut'[x] = dataOut[x]

\* A quiet step keeps the invariant when it keeps the types and the account of e.
LEMMA QuietKeeps ==
  ASSUME IInv, Quiet, Types', NEW e \in Equipments, Elsewhere(e),
         th'[e] = "off" <=> th[e] = "off",
         AccountOf(free'[e], transferQueue'[e], Len(readyQueue'[e]), th'[e], Len(pending[e]), Len(dataOut'[e])),
         filled <= filled',
         eq[e].currentBlockId + Cardinality(DataIn(readyQueue'[e])) <= filled'
  PROVE  IInv'
<1>1. /\ Types /\ Commanded /\ Accounted /\ Numbered
      /\ FromFirstOrbit /\ OrbitsShared /\ ErrorsJustified /\ InCtpRun
  BY DEF IInv
<1>2. /\ UNCHANGED <<setup, phase, ix, run, firstOrbit, eq, sent, pending>>
      /\ Equipments' = Equipments /\ OneValidLink' = OneValidLink
  BY SetupKept DEF Quiet, control
<1>3. Commanded'
  <2>1. \A x \in Equipments : th'[x] = "off" <=> th[x] = "off"
    BY DEF Elsewhere
  <2> QED BY <1>1, <1>2, <2>1 DEF Commanded, Off
<1>4. Accounted'
  <2>1. AccountsNext
    <3>1. ASSUME NEW x \in Equipments, x # e
          PROVE  AccountOf(free'[x], transferQueue'[x], Len(readyQueue'[x]), th'[x], Len(pending'[x]),
                           Len(dataOut'[x]))
      BY <1>1, <1>2, <3>1, Account DEF Elsewhere
    <3> QED BY <1>2, <3>1 DEF AccountsNext
  <2> QED BY <1>2, <2>1, AccountsKept
<1>5. Numbered'
  <2>1. ASSUME NEW x \in Equipments
        PROVE  eq[x].currentBlockId + Cardinality(DataIn(readyQueue'[x])) <= filled'
    <3>1. CASE x # e
      <4> DEFINE c == Cardinality(DataIn(readyQueue[x]))
      <4>1. c \in Nat
        BY <1>1, DataInFinite DEF Types
      <4>2. eq[x].currentBlockId + c <= filled /\ eq[x].currentBlockId \in Nat
        BY <1>1 DEF Numbered, Types, Counters
      <4>3. filled \in Nat /\ filled' \in Nat
        BY <1>1 DEF Types
      <4>4. readyQueue'[x] = readyQueue[x]
        BY <3>1 DEF Elsewhere
      <4> HIDE DEF c
      <4>5. eq[x].currentBlockId + c <= filled'
        BY <4>1, <4>2, <4>3
      <4> QED BY <4>4, <4>5 DEF c
    <3> QED BY <3>1
  <2>2. \A x \in Equipments : th'[x] # "off" => th[x] # "off"
    BY DEF Elsewhere
  <2>3. ASSUME NEW x \in Equipments
        PROVE  /\ \A k \in 1 .. Len(sent[x]) : sent[x][k].blockId = k /\ sent[x][k].run = run
               /\ th'[x] # "off" => eq[x].currentBlockId = Len(sent[x]) + Len(pending[x])
               /\ pending[x] # <<>> =>
                    pending[x][1].blockId = eq[x].currentBlockId /\ pending[x][1].run = run
               /\ eq[x].autoCounter <= eq[x].currentBlockId
    BY <1>1, <2>2 DEF Numbered
  <2> QED BY <1>2, <2>1, <2>3 DEF Numbered, DataIn
<1>6. FromFirstOrbit'
  BY ZenonT(30), <1>1, <1>2 DEF FromFirstOrbit, InTimeframe, Started
<1>7. OrbitsShared'
  BY <1>1, <1>2 DEF OrbitsShared, Started
<1>8. ErrorsJustified'
  BY <1>1, <1>2 DEF ErrorsJustified, Started, OneLink
<1>9. InCtpRun'
  BY <1>1, <1>2 DEF InCtpRun, CtpState
<1> QED
  BY <1>3, <1>4, <1>5, <1>6, <1>7, <1>8, <1>9 DEF IInv

\* What the quiet steps start from.
LEMMA QuietStart ==
  ASSUME IInv, NEW e \in Equipments
  PROVE  /\ Types /\ Accounted /\ th[e] \in Places
         /\ free[e] \in Nat /\ transferQueue[e] \in Nat /\ Len(readyQueue[e]) \in Nat
         /\ Len(pending[e]) \in Nat /\ Len(dataOut[e]) \in Nat
         /\ readyQueue[e] \in Seq(setup.pages \cup {Leftover}) /\ dataOut[e] \in Seq(Block)
         /\ AccountOf(free[e], transferQueue[e], Len(readyQueue[e]), th[e], Len(pending[e]), Len(dataOut[e]))
         /\ Cardinality(DataIn(readyQueue[e])) \in Nat
         /\ eq[e].currentBlockId \in Nat /\ filled \in Nat /\ filled <= filled
         /\ eq[e].currentBlockId + Cardinality(DataIn(readyQueue[e])) <= filled
<1>1. Types /\ Accounted /\ Numbered
  BY DEF IInv
<1>2. /\ th[e] \in Places /\ readyQueue[e] \in Seq(setup.pages \cup {Leftover})
      /\ dataOut[e] \in Seq(Block) /\ filled \in Nat /\ eq[e] \in Counters
  BY <1>1 DEF Types
<1>3. Cardinality(DataIn(readyQueue[e])) \in Nat
  BY <1>2, DataInFinite
<1>4. eq[e].currentBlockId \in Nat
  BY <1>2 DEF Counters
<1>5. filled <= filled
  BY <1>2
<1> QED
  BY <1>1, <1>2, <1>3, <1>4, <1>5, Account DEF Numbered

\* getNextBlock() with a superpage without data.
LEMMA PopLeftoverKeeps ==
  ASSUME IInv, NEW e \in Equipments, PopLeftover(e)
  PROVE  IInv'
<1>1. Types /\ th[e] \in Places /\ th[e] \notin {"off", "push"}
  BY QuietStart DEF PopLeftover, CanRead
<1>2. /\ readyQueue[e] # <<>>
      /\ readyQueue' = [readyQueue EXCEPT ![e] = Tail(readyQueue[e])]
      /\ free' = [free EXCEPT ![e] = free[e] + 1] /\ th' = [th EXCEPT ![e] = "read"]
      /\ UNCHANGED <<setup, phase, ix, run, firstOrbit, isDataOn, dma, transferQueue, filled, regulator,
                     pending, dataOut, eq, sent>>
  BY DEF PopLeftover, control
<1>3. /\ Tail(readyQueue[e]) \in Seq(setup.pages \cup {Leftover})
      /\ Len(Tail(readyQueue[e])) = Len(readyQueue[e]) - 1 /\ Len(readyQueue[e]) > 0
  BY <1>2, QuietStart, TailRemoves
<1>4. /\ readyQueue'[e] = Tail(readyQueue[e]) /\ free'[e] = free[e] + 1 /\ th'[e] = "read"
      /\ Elsewhere(e) /\ Quiet
  BY <1>1, <1>2 DEF Types, Elsewhere, Quiet, control
<1>5. Types'
  <2>1. readyQueue' \in [Equipments -> Seq(setup.pages \cup {Leftover})]
    BY <1>1, <1>2, <1>3 DEF Types
  <2>2. free' \in [Equipments -> Nat]
    BY SMTT(30), <1>1, <1>2, QuietStart DEF Types
  <2>3. th' \in [Equipments -> Places]
    BY <1>1, <1>2 DEF Types, Places
  <2> QED BY <1>1, <1>2, <2>1, <2>2, <2>3, TypesNext DEF Types
<1>6. AccountOf(free'[e], transferQueue'[e], Len(readyQueue'[e]), th'[e], Len(pending[e]), Len(dataOut'[e]))
  <2>1. AccountOf(free[e] + 1, transferQueue[e], Len(readyQueue[e]) - 1, "read", Len(pending[e]), Len(dataOut[e]))
    BY <1>1, <1>3, QuietStart, Moves
  <2> QED BY <1>2, <1>3, <1>4, <2>1
<1>7. eq[e].currentBlockId + Cardinality(DataIn(readyQueue'[e])) <= filled'
  <2> DEFINE c == Cardinality(DataIn(readyQueue[e]))
             d == Cardinality(DataIn(readyQueue'[e]))
  <2>1. /\ c \in Nat /\ d \in Nat /\ d <= c /\ filled \in Nat /\ filled' = filled
        /\ eq[e].currentBlockId \in Nat /\ eq[e].currentBlockId + c <= filled
    BY <1>2, <1>3, <1>4, QuietStart, DataInTail, DataInFinite
  <2> HIDE DEF c, d
  <2>2. eq[e].currentBlockId + d <= filled'
    BY <2>1
  <2> QED BY <2>2 DEF d
<1> QED
  BY <1>1, <1>2, <1>4, <1>5, <1>6, <1>7, QuietStart, QuietKeeps

\* The thread goes on to prepareBlocks(), or its callback ends.
LEMMA MovesOnKeeps ==
  ASSUME IInv, NEW e \in Equipments, ReadEnds(e) \/ PrepareEnds(e)
  PROVE  IInv'
<1>1. PICK t \in {"prepare", "idle"} :
        /\ th[e] \notin {"off", "push"} /\ th' = [th EXCEPT ![e] = t]
        /\ UNCHANGED <<setup, control, firstOrbit, isDataOn, card, free, regulator, pending, dataOut, eq, sent>>
  BY DEF ReadEnds, PrepareEnds
<1>2. Types
  BY QuietStart
<1>3. UNCHANGED <<setup, phase, ix, run, firstOrbit, isDataOn, dma, transferQueue, readyQueue, filled, free,
                  regulator, pending, dataOut, eq, sent>>
  BY <1>1 DEF control, card
<1>4. th'[e] = t /\ Elsewhere(e) /\ Quiet
  BY <1>1, <1>2, <1>3 DEF Types, Elsewhere, Quiet, control
<1>5. Types'
  <2>1. th' \in [Equipments -> Places]
    BY <1>1, <1>2 DEF Types, Places
  <2> QED BY <1>2, <1>3, <2>1, TypesNext DEF Types
<1>6. AccountOf(free'[e], transferQueue'[e], Len(readyQueue'[e]), th'[e], Len(pending[e]), Len(dataOut'[e]))
  <2>1. AccountOf(free[e], transferQueue[e], Len(readyQueue[e]), t, Len(pending[e]), Len(dataOut[e]))
    BY <1>1, QuietStart, Moves
  <2> QED BY <1>3, <1>4, <2>1
<1> QED
  BY <1>1, <1>3, <1>4, <1>5, <1>6, QuietStart, QuietKeeps

\* A free page is taken for the card.
LEMMA PrepareBlocksKeeps ==
  ASSUME IInv, NEW e \in Equipments, PrepareBlocks(e)
  PROVE  IInv'
<1>1. /\ th[e] \notin {"off", "push"} /\ transferQueue[e] < QueueSize /\ free[e] > 0
      /\ free' = [free EXCEPT ![e] = free[e] - 1] /\ th' = [th EXCEPT ![e] = "push"]
      /\ UNCHANGED <<setup, control, firstOrbit, isDataOn, card, regulator, pending, dataOut, eq, sent>>
  BY DEF PrepareBlocks
<1>2. Types
  BY QuietStart
<1>3. UNCHANGED <<setup, phase, ix, run, firstOrbit, isDataOn, dma, transferQueue, readyQueue, filled,
                  regulator, pending, dataOut, eq, sent>>
  BY <1>1 DEF control, card
<1>4. th'[e] = "push" /\ free'[e] = free[e] - 1 /\ Elsewhere(e) /\ Quiet
  BY <1>1, <1>2, <1>3 DEF Types, Elsewhere, Quiet, control
<1>5. Types'
  <2>1. th' \in [Equipments -> Places]
    BY <1>1, <1>2 DEF Types, Places
  <2>2. free[e] - 1 \in Nat
    BY <1>1, QuietStart
  <2>3. free' \in [Equipments -> Nat]
    BY <1>1, <1>2, <2>2 DEF Types
  <2> QED BY <1>2, <1>3, <2>1, <2>3, TypesNext DEF Types
<1>6. AccountOf(free'[e], transferQueue'[e], Len(readyQueue'[e]), th'[e], Len(pending[e]), Len(dataOut'[e]))
  <2>1. AccountOf(free[e] - 1, transferQueue[e], Len(readyQueue[e]), "push", Len(pending[e]), Len(dataOut[e]))
    BY <1>1, QuietStart, Moves
  <2> QED BY <1>3, <1>4, <2>1
<1> QED
  BY <1>1, <1>3, <1>4, <1>5, <1>6, QuietStart, QuietKeeps

\* The page is given to the card, or back to the pool when the DMA has stopped.
LEMMA PushSuperpageKeeps ==
  ASSUME IInv, NEW e \in Equipments, PushSuperpage(e)
  PROVE  IInv'
<1>1. /\ th[e] = "push"
      /\ UNCHANGED <<setup, control, firstOrbit, isDataOn, dma, readyQueue, filled, regulator, pending,
                     dataOut, eq, sent>>
      /\ \/ /\ transferQueue' = [transferQueue EXCEPT ![e] = transferQueue[e] + 1]
            /\ th' = [th EXCEPT ![e] = "fill"] /\ free' = free
         \/ /\ free' = [free EXCEPT ![e] = free[e] + 1]
            /\ th' = [th EXCEPT ![e] = "idle"] /\ transferQueue' = transferQueue
  BY DEF PushSuperpage, PushRefused
<1>2. Types
  BY QuietStart
<1>3. UNCHANGED <<setup, phase, ix, run, firstOrbit, isDataOn, dma, readyQueue, filled,
                  regulator, pending, dataOut, eq, sent>>
  BY <1>1 DEF control
<1>4. /\ th'[e] \in Places \ {"push", "off"} /\ Elsewhere(e) /\ Quiet
      /\ \/ transferQueue'[e] = transferQueue[e] + 1 /\ free'[e] = free[e]
         \/ transferQueue'[e] = transferQueue[e] /\ free'[e] = free[e] + 1
  <2>1. th'[e] \in Places \ {"push", "off"} /\ Quiet
    BY <1>1, <1>2, <1>3 DEF Types, Quiet, control, Places
  <2>2. Elsewhere(e)
    BY <1>1, <1>2, <1>3 DEF Types, Elsewhere
  <2>3. \/ transferQueue'[e] = transferQueue[e] + 1 /\ free'[e] = free[e]
        \/ transferQueue'[e] = transferQueue[e] /\ free'[e] = free[e] + 1
    BY <1>1, <1>2 DEF Types
  <2> QED BY <2>1, <2>2, <2>3
<1>5. Types'
  <2>1. th' \in [Equipments -> Places]
    BY <1>1, <1>2 DEF Types, Places
  <2>2. free \in [Equipments -> Nat] /\ transferQueue \in [Equipments -> Nat]
        /\ free[e] + 1 \in Nat /\ transferQueue[e] + 1 \in Nat
    BY SMTT(30), <1>2 DEF Types
  <2>3. free' \in [Equipments -> Nat] /\ transferQueue' \in [Equipments -> Nat]
    BY <1>1, <2>2
  <2> QED BY <1>2, <1>3, <2>1, <2>3, TypesNext DEF Types
<1>6. AccountOf(free'[e], transferQueue'[e], Len(readyQueue'[e]), th'[e], Len(pending[e]), Len(dataOut'[e]))
  <2>1. /\ AccountOf(free[e], transferQueue[e] + 1, Len(readyQueue[e]), th'[e], Len(pending[e]), Len(dataOut[e]))
        /\ AccountOf(free[e] + 1, transferQueue[e], Len(readyQueue[e]), th'[e], Len(pending[e]), Len(dataOut[e]))
    <3> DEFINE u == th'[e]
    <3>1. u # "push"
      BY <1>4
    <3> HIDE DEF u
    <3>2. /\ AccountOf(free[e], transferQueue[e] + 1, Len(readyQueue[e]), u, Len(pending[e]), Len(dataOut[e]))
          /\ AccountOf(free[e] + 1, transferQueue[e], Len(readyQueue[e]), u, Len(pending[e]), Len(dataOut[e]))
      <4>1. /\ free[e] \in Nat /\ transferQueue[e] \in Nat /\ Len(readyQueue[e]) \in Nat
            /\ Len(pending[e]) \in Nat /\ Len(dataOut[e]) \in Nat
            /\ AccountOf(free[e], transferQueue[e], Len(readyQueue[e]), "push", Len(pending[e]), Len(dataOut[e]))
        BY <1>1, QuietStart
      <4> QED BY <3>1, <4>1, Moves
    <3> QED BY <3>2 DEF u
  <2> QED BY <1>3, <1>4, <2>1
<1> QED
  BY <1>1, <1>3, <1>4, <1>5, <1>6, QuietStart, QuietKeeps

\* The card fills a page.
LEMMA CardFillsKeeps ==
  ASSUME IInv, NEW e \in Equipments, CardFills(e)
  PROVE  IInv'
<1>1. PICK p \in setup.pages :
        /\ transferQueue[e] > 0 /\ filled < MaxFilled
        /\ transferQueue' = [transferQueue EXCEPT ![e] = transferQueue[e] - 1]
        /\ readyQueue' = [readyQueue EXCEPT ![e] = Append(readyQueue[e], p)]
        /\ filled' = filled + 1
        /\ UNCHANGED <<setup, control, firstOrbit, th, isDataOn, dma, free, regulator, pending, dataOut, eq, sent>>
  BY DEF CardFills
<1>2. Types
  BY QuietStart
<1>3. UNCHANGED <<setup, phase, ix, run, firstOrbit, th, isDataOn, dma, free, regulator, pending, dataOut, eq,
                  sent>>
  BY <1>1 DEF control
<1>4. /\ transferQueue'[e] = transferQueue[e] - 1 /\ readyQueue'[e] = Append(readyQueue[e], p)
      /\ Elsewhere(e) /\ Quiet
  BY <1>1, <1>2, <1>3 DEF Types, Elsewhere, Quiet, control
<1>5. /\ Append(readyQueue[e], p) \in Seq(setup.pages \cup {Leftover})
      /\ Len(Append(readyQueue[e], p)) = Len(readyQueue[e]) + 1
  BY QuietStart, AppendAdds
<1>6. Types'
  <2>1. transferQueue[e] - 1 \in Nat
    BY <1>1, QuietStart
  <2>2. transferQueue' \in [Equipments -> Nat]
    BY <1>1, <1>2, <2>1 DEF Types
  <2>3. readyQueue' \in [Equipments -> Seq(setup.pages \cup {Leftover})]
    BY <1>1, <1>2, <1>5 DEF Types
  <2>4. filled' \in 0 .. MaxFilled
    BY <1>1, <1>2, EquipmentAssumption DEF Types
  <2> QED BY <1>2, <1>3, <2>2, <2>3, <2>4, TypesNext DEF Types
<1>7. AccountOf(free'[e], transferQueue'[e], Len(readyQueue'[e]), th'[e], Len(pending[e]), Len(dataOut'[e]))
  <2>1. AccountOf(free[e], transferQueue[e] - 1, Len(readyQueue[e]) + 1, th[e], Len(pending[e]), Len(dataOut[e]))
    BY <1>1, QuietStart, Moves
  <2> QED BY <1>3, <1>4, <1>5, <2>1
<1>8. eq[e].currentBlockId + Cardinality(DataIn(readyQueue'[e])) <= filled'
  <2> DEFINE c == Cardinality(DataIn(readyQueue[e]))
             d == Cardinality(DataIn(readyQueue'[e]))
  <2>1. d <= c + 1
    BY <1>4, QuietStart, DataInAppend
  <2>2. c \in Nat /\ d \in Nat /\ filled \in Nat /\ filled' = filled + 1
        /\ eq[e].currentBlockId \in Nat /\ eq[e].currentBlockId + c <= filled
    BY <1>1, <1>4, <1>5, QuietStart, DataInFinite
  <2> HIDE DEF c, d
  <2>3. eq[e].currentBlockId + d <= filled'
    BY <2>1, <2>2
  <2> QED BY <2>3 DEF d
<1>9. filled <= filled'
  BY <1>1, QuietStart
<1> QED
  BY <1>3, <1>4, <1>6, <1>7, <1>8, <1>9, QuietKeeps

\* The clock of the rate limit.
LEMMA TickKeeps ==
  ASSUME IInv, NEW e \in Equipments, Tick(e)
  PROVE  IInv'
<1>1. Types
  BY QuietStart
<1>2. /\ UNCHANGED <<setup, phase, ix, run, firstOrbit, th, isDataOn, dma, transferQueue, readyQueue, filled, free,
                     pending, dataOut, eq, sent>>
      /\ regulator' = [regulator EXCEPT ![e] = TRUE]
  BY DEF Tick, control, card
<1>3. Elsewhere(e) /\ Quiet
  BY <1>2 DEF Elsewhere, Quiet, control
<1>4. Types'
  <2>1. regulator' \in [Equipments -> BOOLEAN]
    BY <1>1, <1>2 DEF Types
  <2> QED BY <1>1, <1>2, <2>1, TypesNext DEF Types
<1> QED
  BY <1>2, <1>3, <1>4, QuietStart, QuietKeeps

\* The aggregator takes a block.
LEMMA GetBlockKeeps ==
  ASSUME IInv, NEW e \in Equipments, GetBlock(e)
  PROVE  IInv'
<1>1. Types
  BY QuietStart
<1>2. /\ UNCHANGED <<setup, phase, ix, run, firstOrbit, th, isDataOn, dma, transferQueue, readyQueue, filled,
                     regulator, pending, eq, sent>>
      /\ dataOut[e] # <<>>
      /\ dataOut' = [dataOut EXCEPT ![e] = Tail(dataOut[e])]
      /\ free' = [free EXCEPT ![e] = free[e] + 1]
  BY DEF GetBlock, control, card
<1>3. /\ Tail(dataOut[e]) \in Seq(Block) /\ Len(Tail(dataOut[e])) = Len(dataOut[e]) - 1 /\ Len(dataOut[e]) > 0
  BY <1>2, QuietStart, TailRemoves
<1>4. /\ dataOut'[e] = Tail(dataOut[e]) /\ free'[e] = free[e] + 1
      /\ Elsewhere(e) /\ Quiet
  BY <1>1, <1>2 DEF Types, Elsewhere, Quiet, control
<1>5. Types'
  <2>1. free' \in [Equipments -> Nat]
    BY SMTT(30), <1>1, <1>2, QuietStart DEF Types
  <2>2. dataOut' \in [Equipments -> Seq(Block)]
    BY <1>1, <1>2, <1>3 DEF Types
  <2> QED BY <1>1, <1>2, <2>1, <2>2, TypesNext DEF Types
<1>6. AccountOf(free'[e], transferQueue'[e], Len(readyQueue'[e]), th'[e], Len(pending[e]), Len(dataOut'[e]))
  <2>1. AccountOf(free[e] + 1, transferQueue[e], Len(readyQueue[e]), th[e], Len(pending[e]), Len(dataOut[e]) - 1)
    BY <1>3, QuietStart, Moves
  <2> QED BY <1>2, <1>3, <1>4, <2>1
<1> QED
  BY <1>2, <1>4, <1>5, <1>6, QuietStart, QuietKeeps

-----------------------------------------------------------------------------
(* START and STOP keep the invariant.                                      *)

\* The control is at an equipment, and goes to the next one or to the next phase.
LEMMA Advanced ==
  ASSUME Types, NEW this, NEW next, Advance(this, next)
  PROVE  /\ ix' \in Equipments /\ run' = run
         /\ \/ ix < setup.equipments /\ ix' = ix + 1 /\ phase' = this
            \/ ix = setup.equipments /\ ix' = 1 /\ phase' = next
         /\ ix \in Int /\ setup.equipments \in Int
         /\ \A x \in Equipments : x \in Int /\ 1 <= x /\ x <= setup.equipments
<1>1. setup.equipments \in Nat \ {0} /\ ix \in 1 .. setup.equipments
  BY EquipmentAssumption DEF Types, IsSetup, Equipments
<1> QED
  BY <1>1 DEF Advance, Equipments

\* The counters at the start of a run.
LEMMA InitCountersType ==
  ASSUME setup \in Setups
  PROVE  /\ InitCounters \in Counters /\ CtpState(InitCounters) /\ OneLink(InitCounters)
         /\ InitCounters.first = NotDefined /\ ~ InitCounters.isFatalError
         /\ InitCounters.currentBlockId = 0 /\ InitCounters.autoCounter = 0
<1>1. OrbitMod \in Nat /\ MaxFilled \in Nat
  BY EquipmentAssumption
<1>2. InitCounters \in Counters
  BY <1>1 DEF InitCounters, Counters, TimeframeIds, undefinedTimeframeId
<1> QED
  BY <1>2 DEF InitCounters, CtpState, OneLink

\* What is set aside is cleared.
LEMMA PendingCleared ==
  ASSUME Types, NEW e \in Equipments, ClearPending(e)
  PROVE  /\ pending' \in [Equipments -> Seq(Block)] /\ free' \in [Equipments -> Nat]
         /\ pending'[e] = <<>> /\ free'[e] = free[e] + Len(pending[e])
         /\ \A x \in Equipments : x # e => pending'[x] = pending[x] /\ free'[x] = free[x]
<1>1. /\ pending \in [Equipments -> Seq(Block)] /\ free \in [Equipments -> Nat] /\ <<>> \in Seq(Block)
  BY DEF Types
<1>2. free[e] + Len(pending[e]) \in Nat
  BY <1>1
<1> QED
  BY <1>1, <1>2 DEF ClearPending

\* Steps within a run: the counters and what was sent stay, some blocks set aside go.
LEMMA RunGoesOn ==
  ASSUME IInv, UNCHANGED <<setup, run, firstOrbit, eq, sent>>,
         phase \notin {"stopped", "start"}, phase' \notin {"stopped", "start"},
         \A x \in Equipments : pending'[x] = pending[x] \/ pending'[x] = <<>>
  PROVE  FromFirstOrbit' /\ OrbitsShared' /\ ErrorsJustified' /\ InCtpRun'
<1>1. FromFirstOrbit /\ OrbitsShared /\ ErrorsJustified /\ InCtpRun
  BY DEF IInv
<1>2. Equipments' = Equipments /\ OneValidLink' = OneValidLink
  BY SetupKept
<1>3. FromFirstOrbit'
  <2>1. ASSUME NEW x \in Equipments
        PROVE  /\ \A k \in 1 .. Len(sent[x]) : InTimeframe(sent[x][k], eq[x].first)
               /\ pending'[x] # <<>> => InTimeframe(pending'[x][1], eq[x].first)
    BY <1>1 DEF FromFirstOrbit, Started
  <2> QED BY <1>2, <2>1 DEF FromFirstOrbit, InTimeframe
<1>4. OrbitsShared'
  BY <1>1, <1>2 DEF OrbitsShared, Started
<1>5. ErrorsJustified'
  BY <1>1, <1>2 DEF ErrorsJustified, Started, OneLink
<1>6. InCtpRun'
  BY <1>1, <1>2 DEF InCtpRun, CtpState
<1> QED
  BY <1>3, <1>4, <1>5, <1>6

\* The control only: no page moves.
LEMMA NumbersStay ==
  ASSUME IInv, UNCHANGED <<setup, run, eq, sent, filled>>,
         \A x \in Equipments : DataIn(readyQueue'[x]) = DataIn(readyQueue[x]),
         \A x \in Equipments : th'[x] # "off" => th[x] # "off" /\ pending'[x] = pending[x],
         \A x \in Equipments : pending'[x] = pending[x] \/ pending'[x] = <<>>
  PROVE  Numbered'
<1>1. Numbered
  BY DEF IInv
<1>2. Equipments' = Equipments
  BY SetupKept
<1>3. ASSUME NEW x \in Equipments
      PROVE  /\ \A k \in 1 .. Len(sent[x]) : sent[x][k].blockId = k /\ sent[x][k].run = run
             /\ th'[x] # "off" => eq[x].currentBlockId = Len(sent[x]) + Len(pending'[x])
             /\ pending'[x] # <<>> =>
                  pending'[x][1].blockId = eq[x].currentBlockId /\ pending'[x][1].run = run
             /\ eq[x].autoCounter <= eq[x].currentBlockId
             /\ eq[x].currentBlockId + Cardinality(DataIn(readyQueue'[x])) <= filled
  BY <1>1 DEF Numbered
<1> QED
  BY <1>2, <1>3 DEF Numbered, DataIn

\* START begins: what was sent in the last run is forgotten.
LEMMA StartRunKeeps ==
  ASSUME IInv, StartRun
  PROVE  IInv'
<1>1. Types /\ Commanded /\ Accounted /\ Numbered /\ InCtpRun
  BY DEF IInv
<1>2. /\ phase = "stopped" /\ run < MaxRuns /\ phase' = "start" /\ run' = run + 1 /\ firstOrbit' = 0
      /\ sent' = All(<<>>)
      /\ UNCHANGED <<setup, ix, th, isDataOn, dma, transferQueue, readyQueue, filled, free, regulator, pending,
                     dataOut, eq>>
  BY DEF StartRun, ResetFirstOrbit, card, undefinedOrbit
<1>3. Equipments' = Equipments
  BY <1>2, SetupKept
<1>4. ix = 1 /\ \A x \in Equipments : x \in Int /\ x >= 1 /\ th[x] = "off" /\ pending[x] = <<>> /\ sent'[x] = <<>>
  <2>1. ix = 1 /\ \A x \in Equipments : th[x] = "off" /\ pending[x] = <<>>
    BY <1>1, <1>2 DEF Commanded, Off
  <2>2. \A x \in Equipments : sent'[x] = <<>>
    BY <1>2 DEF All
  <2>3. \A x \in Equipments : x \in Int /\ x >= 1
    BY DEF Equipments
  <2> QED BY <2>1, <2>2, <2>3
<1>5. run \in Nat /\ MaxRuns \in Nat /\ run' \in 0 .. MaxRuns /\ run' > 0
  BY <1>1, <1>2, EquipmentAssumption DEF Types
<1>6. Types'
  <2>1. sent' \in [Equipments -> Seq(Block)]
    BY <1>2 DEF All
  <2>2. firstOrbit' \in Orbits
    BY <1>2, EquipmentAssumption DEF Orbits
  <2>3. phase' \in Phases
    BY <1>2 DEF Phases
  <2> QED BY <1>1, <1>2, <1>5, <2>1, <2>2, <2>3, TypesNext DEF Types
<1>7. Commanded'
  <2>1. \A x \in Equipments : th'[x] = "off" /\ Off(x)'
    BY <1>2, <1>4 DEF Off
  <2> QED BY <1>2, <1>3, <1>4, <1>5, <2>1 DEF Commanded
<1>8. Accounted'
  <2>1. AccountsNext
    BY <1>1, <1>2, Account DEF AccountsNext
  <2> QED BY <1>2, <2>1, AccountsKept
<1>9. Numbered'
  <2>1. ASSUME NEW x \in Equipments
        PROVE  /\ Len(sent'[x]) = 0
               /\ eq[x].autoCounter <= eq[x].currentBlockId
               /\ eq[x].currentBlockId + Cardinality(DataIn(readyQueue[x])) <= filled
    <3>1. /\ eq[x].autoCounter <= eq[x].currentBlockId
          /\ eq[x].currentBlockId + Cardinality(DataIn(readyQueue[x])) <= filled
      BY <1>1 DEF Numbered
    <3>2. Len(sent'[x]) = 0
      BY <1>4
    <3> QED BY <3>1, <3>2
  <2>2. \A x \in Equipments : 1 .. Len(sent'[x]) = {}
    BY <2>1
  <2> QED BY <1>2, <1>3, <1>4, <2>1, <2>2 DEF Numbered, DataIn
<1>10. \A x \in Equipments : ~ Started(x)'
  BY <1>2, <1>4 DEF Started
<1>11. FromFirstOrbit' /\ OrbitsShared'
  BY <1>3, <1>10 DEF FromFirstOrbit, OrbitsShared
<1>12. ErrorsJustified'
  BY <1>2, <1>3, <1>10 DEF ErrorsJustified, undefinedOrbit
<1>13. InCtpRun'
  BY <1>1, <1>2, <1>3 DEF InCtpRun, CtpState
<1> QED
  BY <1>6, <1>7, <1>8, <1>9, <1>11, <1>12, <1>13 DEF IInv

\* An equipment starts, with its counters reset.
LEMMA StartKeeps ==
  ASSUME IInv, Start
  PROVE  IInv'
<1>1. /\ Types /\ Commanded /\ Accounted /\ Numbered
      /\ FromFirstOrbit /\ OrbitsShared /\ ErrorsJustified /\ InCtpRun
  BY DEF IInv
<1>2. /\ phase = "start"
      /\ eq' = [eq EXCEPT ![ix] = InitCounters]
      /\ isDataOn' = [isDataOn EXCEPT ![ix] = FALSE]
      /\ regulator' = [regulator EXCEPT ![ix] = TRUE]
      /\ ClearPending(ix)
      /\ th' = [th EXCEPT ![ix] = "idle"]
      /\ Advance("start", "dataOn")
      /\ UNCHANGED <<setup, firstOrbit, dma, transferQueue, readyQueue, filled, dataOut, sent>>
  BY DEF Start, card
<1>3. /\ setup \in Setups /\ Equipments' = Equipments /\ OneValidLink' = OneValidLink
      /\ ix \in Equipments
  BY <1>1, <1>2, SetupKept DEF Types
<1>4. /\ ix' \in Equipments /\ run' = run
      /\ \/ ix < setup.equipments /\ ix' = ix + 1 /\ phase' = "start"
         \/ ix = setup.equipments /\ ix' = 1 /\ phase' = "dataOn"
      /\ ix \in Int /\ setup.equipments \in Int
      /\ \A x \in Equipments : x \in Int /\ 1 <= x /\ x <= setup.equipments
  BY <1>1, <1>2, Advanced
<1>5. /\ pending' \in [Equipments -> Seq(Block)] /\ free' \in [Equipments -> Nat]
      /\ pending'[ix] = <<>> /\ free'[ix] = free[ix] + Len(pending[ix])
      /\ \A x \in Equipments : x # ix => pending'[x] = pending[x] /\ free'[x] = free[x]
  BY <1>1, <1>2, <1>3, PendingCleared
<1>6. /\ th'[ix] = "idle" /\ eq'[ix] = InitCounters
      /\ \A x \in Equipments : x # ix => th'[x] = th[x] /\ eq'[x] = eq[x]
  BY <1>1, <1>2, <1>3 DEF Types
<1>7. /\ \A x \in Equipments : th[x] = "off" <=> x >= ix
      /\ \A x \in Equipments : x >= ix => sent[x] = <<>> /\ pending[x] = <<>>
      /\ run > 0
  BY <1>1, <1>2 DEF Commanded, Off
<1>8. /\ InitCounters \in Counters /\ CtpState(InitCounters) /\ OneLink(InitCounters)
      /\ InitCounters.first = NotDefined /\ ~ InitCounters.isFatalError
      /\ InitCounters.currentBlockId = 0 /\ InitCounters.autoCounter = 0
  BY <1>3, InitCountersType
<1>9. Types'
  <2>1. eq' \in [Equipments -> Counters]
    BY <1>1, <1>2, <1>3, <1>8 DEF Types
  <2>2. th' \in [Equipments -> Places]
    BY <1>1, <1>2, <1>3 DEF Types, Places
  <2>3. isDataOn' \in [Equipments -> BOOLEAN] /\ regulator' \in [Equipments -> BOOLEAN]
    BY <1>1, <1>2, <1>3 DEF Types
  <2>4. phase' \in Phases
    BY <1>4 DEF Phases
  <2> QED BY <1>1, <1>2, <1>4, <1>5, <2>1, <2>2, <2>3, <2>4, TypesNext DEF Types
<1>10. Commanded'
  <2>1. ASSUME NEW x \in Equipments PROVE th'[x] = "off" <=> Off(x)'
    <3>1. th'[x] = "off" <=> x >= ix /\ x # ix
      BY <1>3, <1>6, <1>7, <1>4
    <3>2. Off(x)' <=> phase' = "start" /\ x >= ix'
      BY <1>4 DEF Off
    <3> QED BY <1>3, <1>4, <3>1, <3>2
  <2>2. \A x \in Equipments : th'[x] = "off" => pending'[x] = <<>>
    BY <1>5, <1>6, <1>7
  <2>3. phase' = "start" => \A x \in Equipments : x >= ix' => sent'[x] = <<>>
    BY <1>2, <1>3, <1>4, <1>7
  <2> QED BY <1>3, <1>4, <1>7, <2>1, <2>2, <2>3 DEF Commanded
<1>11. Accounted'
  <2>1. ASSUME NEW x \in Equipments, x # ix
        PROVE  AccountOf(free'[x], transferQueue'[x], Len(readyQueue'[x]), th'[x], Len(pending'[x]),
                         Len(dataOut'[x]))
    BY <1>1, <1>2, <1>5, <1>6, <2>1, Account
  <2>2. AccountOf(free'[ix], transferQueue'[ix], Len(readyQueue'[ix]), th'[ix], Len(pending'[ix]),
                  Len(dataOut'[ix]))
    <3>1. th[ix] # "push" /\ Len(<<>>) = 0
      BY <1>3, <1>4, <1>7
    <3>2. AccountOf(free[ix] + Len(pending[ix]), transferQueue[ix], Len(readyQueue[ix]), "idle", 0,
                    Len(dataOut[ix]))
      BY <1>1, <1>3, <3>1, Account, Moves
    <3> QED BY <1>2, <1>5, <1>6, <3>1, <3>2
  <2>3. AccountsNext
    BY <2>1, <2>2 DEF AccountsNext
  <2> QED BY <1>2, <2>3, AccountsKept
<1>12. Numbered'
  <2>1. ASSUME NEW x \in Equipments
        PROVE  /\ \A k \in 1 .. Len(sent[x]) : sent[x][k].blockId = k /\ sent[x][k].run = run
               /\ th'[x] # "off" => eq'[x].currentBlockId = Len(sent[x]) + Len(pending'[x])
               /\ pending'[x] # <<>> =>
                    pending'[x][1].blockId = eq'[x].currentBlockId /\ pending'[x][1].run = run
               /\ eq'[x].autoCounter <= eq'[x].currentBlockId
               /\ eq'[x].currentBlockId + Cardinality(DataIn(readyQueue[x])) <= filled
    <3>1. CASE x # ix
      <4>1. pending'[x] = pending[x] /\ th'[x] = th[x] /\ eq'[x] = eq[x]
        BY <1>5, <1>6, <3>1
      <4> QED BY <1>1, <4>1 DEF Numbered
    <3>2. CASE x = ix
      <4>1. Len(sent[x]) = 0 /\ Len(pending'[x]) = 0 /\ pending'[x] = <<>> /\ eq'[x].currentBlockId = 0
            /\ eq'[x].autoCounter = 0
        BY <1>3, <1>4, <1>5, <1>6, <1>7, <1>8, <3>2
      <4>2. Cardinality(DataIn(readyQueue[x])) <= filled
        <5> DEFINE c == Cardinality(DataIn(readyQueue[x]))
        <5>1. /\ c \in Nat /\ filled \in Nat
              /\ eq[x].currentBlockId \in Nat /\ eq[x].currentBlockId + c <= filled
          BY QuietStart
        <5> HIDE DEF c
        <5>2. c <= filled
          BY <5>1
        <5> QED BY <5>2 DEF c
      <4>3. Cardinality(DataIn(readyQueue[x])) \in Nat
        BY QuietStart
      <4> QED BY <4>1, <4>2, <4>3
    <3> QED BY <3>1, <3>2
  <2> QED BY ZenonT(30), <1>2, <1>3, <1>4, <2>1 DEF Numbered, DataIn
<1>13. \A x \in Equipments : Started(x)' <=> Started(x) \/ x = ix
  <2>1. \A x \in Equipments : Started(x) <=> x < ix
    BY <1>2 DEF Started
  <2>2. \A x \in Equipments : Started(x)' <=> (phase' = "start" => x < ix')
    BY <1>4 DEF Started
  <2> QED BY <1>3, <1>4, <2>1, <2>2
<1>14. ~ Started(ix)
  BY <1>2, <1>4 DEF Started
<1>15. FromFirstOrbit'
  <2>1. ASSUME NEW x \in Equipments, Started(x)'
        PROVE  /\ \A k \in 1 .. Len(sent[x]) : InTimeframe(sent[x][k], eq'[x].first)
               /\ pending'[x] # <<>> => InTimeframe(pending'[x][1], eq'[x].first)
    <3>1. CASE x # ix
      BY <1>1, <1>5, <1>6, <1>13, <2>1, <3>1 DEF FromFirstOrbit
    <3>2. CASE x = ix
      <4>1. Len(sent[x]) = 0 /\ pending'[x] = <<>>
        BY <1>3, <1>4, <1>5, <1>7, <3>2
      <4> QED BY <4>1
    <3> QED BY <3>1, <3>2
  <2>2. setup' = setup /\ sent' = sent
    BY <1>2
  <2>3. ASSUME NEW x \in Equipments, Started(x)'
        PROVE  /\ \A k \in 1 .. Len(sent'[x]) : InTimeframe(sent[x][k], eq[x].first)'
               /\ pending'[x] # <<>> => InTimeframe(pending[x][1], eq[x].first)'
    <3>1. \A k \in 1 .. Len(sent'[x]) : InTimeframe(sent[x][k], eq[x].first)'
      BY <2>1, <2>2, <2>3 DEF InTimeframe
    <3>2. pending'[x] # <<>> => InTimeframe(pending[x][1], eq[x].first)'
      BY <2>1, <2>2, <2>3 DEF InTimeframe
    <3> QED BY <3>1, <3>2
  <2> QED BY <1>3, <2>3 DEF FromFirstOrbit
<1>16. OrbitsShared'
  <2>1. ASSUME setup.firstOrbit, NEW x \in Equipments, Started(x)',
               eq'[x].first \notin {NotDefined, undefinedOrbit}, ~ eq'[x].isFatalError
        PROVE  eq'[x].first = firstOrbit
    BY <1>1, <1>6, <1>8, <1>13, <2>1 DEF OrbitsShared
  <2> QED BY <1>2, <1>3, <2>1 DEF OrbitsShared
<1>17. ErrorsJustified'
  <2>1. ASSUME OneValidLink, firstOrbit # undefinedOrbit
        PROVE  \E f \in Equipments : Started(f)' /\ eq'[f].first = firstOrbit
    <3>1. PICK f \in Equipments : Started(f) /\ eq[f].first = firstOrbit
      BY <1>1, <1>2, <2>1 DEF ErrorsJustified
    <3> QED BY <1>6, <1>13, <1>14, <3>1
  <2>2. ASSUME OneValidLink, NEW x \in Equipments, Started(x)'
        PROVE  /\ OneLink(eq'[x])
               /\ eq'[x].isFatalError =>
                    /\ eq'[x].first # NotDefined
                    /\ \E f \in Equipments :
                         Started(f)' /\ eq'[f].first # NotDefined /\ eq'[f].first # eq'[x].first
    <3>1. CASE x = ix
      BY <1>6, <1>8, <3>1
    <3>2. CASE x # ix
      <4>1. Started(x) /\ eq'[x] = eq[x]
        BY <1>6, <1>13, <2>2, <3>2
      <4>2. OneLink(eq[x]) /\ (eq[x].isFatalError => eq[x].first # NotDefined)
        BY <1>1, <2>2, <4>1 DEF ErrorsJustified
      <4>3. ASSUME eq[x].isFatalError
            PROVE  \E f \in Equipments :
                     Started(f)' /\ eq'[f].first # NotDefined /\ eq'[f].first # eq'[x].first
        <5>1. PICK f \in Equipments : Started(f) /\ eq[f].first # NotDefined /\ eq[f].first # eq[x].first
          BY <1>1, <2>2, <4>1, <4>3 DEF ErrorsJustified
        <5> QED BY <1>6, <1>13, <1>14, <4>1, <5>1
      <4> QED BY <4>1, <4>2, <4>3
    <3> QED BY <3>1, <3>2
  <2>3. \A q : OneLink(q)' <=> OneLink(q)
    BY <1>2 DEF OneLink
  <2> QED BY <1>2, <1>3, <2>1, <2>2 DEF ErrorsJustified, OneLink
<1>18. InCtpRun'
  <2>1. \A x \in Equipments : CtpState(eq'[x])
    BY <1>1, <1>6, <1>8 DEF InCtpRun
  <2> QED BY <1>2, <1>3, <2>1 DEF InCtpRun, CtpState
<1> QED
  BY <1>9, <1>10, <1>11, <1>12, <1>15, <1>16, <1>17, <1>18 DEF IInv

\* An equipment is told to send data.
LEMMA SetDataOnKeeps ==
  ASSUME IInv, SetDataOn
  PROVE  IInv'
<1>1. Types /\ Commanded /\ Accounted
  BY DEF IInv
<1>2. /\ phase = "dataOn"
      /\ dma' = [dma EXCEPT ![ix] = TRUE]
      /\ isDataOn' = [isDataOn EXCEPT ![ix] = TRUE]
      /\ Advance("dataOn", "running")
      /\ UNCHANGED <<setup, firstOrbit, th, transferQueue, readyQueue, filled, free, regulator, pending,
                     dataOut, eq, sent>>
  BY DEF SetDataOn
<1>3. /\ ix' \in Equipments /\ run' = run
      /\ phase' = "dataOn" \/ (phase' = "running" /\ ix' = 1)
      /\ Equipments' = Equipments
  BY <1>1, <1>2, Advanced, SetupKept
<1>4. Types'
  <2>1. dma' \in [Equipments -> BOOLEAN] /\ isDataOn' \in [Equipments -> BOOLEAN] /\ phase' \in Phases
    BY <1>1, <1>2, <1>3 DEF Types, Phases
  <2> QED BY <1>1, <1>2, <1>3, <2>1, TypesNext DEF Types
<1>5. Commanded'
  BY <1>1, <1>2, <1>3 DEF Commanded, Off
<1>6. Accounted'
  <2>1. AccountsNext
    BY <1>1, <1>2, Account DEF AccountsNext
  <2> QED BY <1>2, <2>1, AccountsKept
<1>7. Numbered'
  BY <1>2, <1>3, NumbersStay
<1>8. FromFirstOrbit' /\ OrbitsShared' /\ ErrorsJustified' /\ InCtpRun'
  BY <1>2, <1>3, RunGoesOn
<1> QED
  BY <1>4, <1>5, <1>6, <1>7, <1>8 DEF IInv

\* An equipment is told to stop: the card gives back the pages that it has.
LEMMA SetDataOffKeeps ==
  ASSUME IInv, SetDataOff
  PROVE  IInv'
<1> DEFINE S == setup.pages \cup {Leftover}
           n == transferQueue[ix]
           q == readyQueue[ix] \o [k \in 1 .. n |-> Leftover]
<1>1. Types /\ Commanded /\ Accounted /\ ix \in Equipments
  BY DEF IInv, Types
<1>2. /\ phase \in {"running", "dataOff"}
      /\ isDataOn' = [isDataOn EXCEPT ![ix] = FALSE]
      /\ dma' = [dma EXCEPT ![ix] = FALSE]
      /\ transferQueue' = [transferQueue EXCEPT ![ix] = 0]
      /\ readyQueue' = [readyQueue EXCEPT ![ix] = q]
      /\ Advance("dataOff", "flush")
      /\ UNCHANGED <<setup, firstOrbit, th, filled, free, regulator, pending, dataOut, eq, sent>>
  BY DEF SetDataOff
<1>3. /\ ix' \in Equipments /\ run' = run
      /\ phase' = "dataOff" \/ (phase' = "flush" /\ ix' = 1)
      /\ Equipments' = Equipments
  BY <1>1, <1>2, Advanced, SetupKept
<1>4. q \in Seq(S) /\ Len(q) = Len(readyQueue[ix]) + n /\ DataIn(q) = DataIn(readyQueue[ix])
  <2>1. Leftover \in S /\ readyQueue[ix] \in Seq(S) /\ n \in Nat
    BY <1>1 DEF Types
  <2> HIDE DEF S, n
  <2> QED BY <2>1, DataInLeftovers
<1>5. /\ transferQueue'[ix] = 0 /\ readyQueue'[ix] = q
      /\ \A x \in Equipments : x # ix =>
           transferQueue'[x] = transferQueue[x] /\ readyQueue'[x] = readyQueue[x]
  <2> HIDE DEF q
  <2> QED BY <1>1, <1>2 DEF Types
<1>6. Types'
  <2>1. /\ dma' \in [Equipments -> BOOLEAN] /\ isDataOn' \in [Equipments -> BOOLEAN]
        /\ phase' \in Phases /\ transferQueue' \in [Equipments -> Nat]
    BY <1>1, <1>2, <1>3 DEF Types, Phases
  <2>2. readyQueue' \in [Equipments -> Seq(S)]
    <3> HIDE DEF q
    <3> QED BY <1>1, <1>2, <1>4 DEF Types
  <2> QED BY <1>1, <1>2, <1>3, <2>1, <2>2, TypesNext DEF Types
<1>7. Commanded'
  BY <1>1, <1>2, <1>3 DEF Commanded, Off
<1>8. Accounted'
  <2>1. ASSUME NEW x \in Equipments, x # ix
        PROVE  AccountOf(free'[x], transferQueue'[x], Len(readyQueue'[x]), th'[x], Len(pending'[x]),
                         Len(dataOut'[x]))
    BY <1>1, <1>2, <1>5, <2>1, Account
  <2>2. AccountOf(free'[ix], transferQueue'[ix], Len(readyQueue'[ix]), th'[ix], Len(pending'[ix]),
                  Len(dataOut'[ix]))
    <3>1. AccountOf(free[ix], 0, Len(readyQueue[ix]) + n, th[ix], Len(pending[ix]), Len(dataOut[ix]))
      BY <1>1, Account, Moves
    <3> HIDE DEF q
    <3> QED BY <1>2, <1>4, <1>5, <3>1
  <2>3. AccountsNext
    BY <2>1, <2>2 DEF AccountsNext
  <2> QED BY <1>2, <2>3, AccountsKept
<1>9. Numbered'
  <2>1. \A x \in Equipments : DataIn(readyQueue'[x]) = DataIn(readyQueue[x])
    <3> HIDE DEF q
    <3> QED BY <1>4, <1>5
  <2> QED BY <1>2, <1>3, <2>1, NumbersStay
<1>10. FromFirstOrbit' /\ OrbitsShared' /\ ErrorsJustified' /\ InCtpRun'
  BY <1>2, <1>3, RunGoesOn
<1> QED
  BY <1>6, <1>7, <1>8, <1>9, <1>10 DEF IInv

\* The time given to the main loop is over.
LEMMA FlushedKeeps ==
  ASSUME IInv, Flushed
  PROVE  IInv'
<1>1. Types /\ Commanded /\ Accounted
  BY DEF IInv
<1>2. /\ phase = "flush" /\ phase' = "stop"
      /\ UNCHANGED <<setup, ix, run, firstOrbit, th, isDataOn, dma, transferQueue, readyQueue, filled, free,
                     regulator, pending, dataOut, eq, sent>>
  BY DEF Flushed, card
<1>3. Equipments' = Equipments
  BY <1>2, SetupKept
<1>4. Types'
  BY <1>1, <1>2, TypesNext DEF Types, Phases
<1>5. Commanded'
  <2>1. ix = 1 /\ run > 0 /\ \A x \in Equipments : th[x] # "off" /\ x \in Int /\ ~ x < ix
    BY <1>1, <1>2 DEF Commanded, Off, Equipments
  <2> QED BY <1>2, <1>3, <2>1 DEF Commanded, Off
<1>6. Accounted'
  <2>1. AccountsNext
    BY <1>1, <1>2, Account DEF AccountsNext
  <2> QED BY <1>2, <2>1, AccountsKept
<1>7. Numbered'
  BY <1>2, NumbersStay
<1>8. FromFirstOrbit' /\ OrbitsShared' /\ ErrorsJustified' /\ InCtpRun'
  BY <1>2, RunGoesOn
<1> QED
  BY <1>4, <1>5, <1>6, <1>7, <1>8 DEF IInv

\* The thread of an equipment ends, what is set aside goes back to the pool.
LEMMA StopKeeps ==
  ASSUME IInv, Stop
  PROVE  IInv'
<1>1. Types /\ Commanded /\ Accounted /\ ix \in Equipments
  BY DEF IInv, Types
<1>2. /\ phase = "stop" /\ th[ix] = "idle"
      /\ isDataOn' = [isDataOn EXCEPT ![ix] = FALSE]
      /\ th' = [th EXCEPT ![ix] = "off"]
      /\ ClearPending(ix)
      /\ Advance("stop", "stopAgg")
      /\ UNCHANGED <<setup, firstOrbit, dma, transferQueue, readyQueue, filled, regulator, dataOut, eq, sent>>
  BY DEF Stop, card
<1>3. /\ ix' \in Equipments /\ run' = run
      /\ \/ ix < setup.equipments /\ ix' = ix + 1 /\ phase' = "stop"
         \/ ix = setup.equipments /\ ix' = 1 /\ phase' = "stopAgg"
      /\ ix \in Int /\ setup.equipments \in Int
      /\ \A x \in Equipments : x \in Int /\ 1 <= x /\ x <= setup.equipments
  BY <1>1, <1>2, Advanced
<1>4. Equipments' = Equipments
  BY <1>2, SetupKept
<1>5. /\ pending' \in [Equipments -> Seq(Block)] /\ free' \in [Equipments -> Nat]
      /\ pending'[ix] = <<>> /\ free'[ix] = free[ix] + Len(pending[ix])
      /\ \A x \in Equipments : x # ix => pending'[x] = pending[x] /\ free'[x] = free[x]
  BY <1>1, <1>2, PendingCleared
<1>6. th'[ix] = "off" /\ \A x \in Equipments : x # ix => th'[x] = th[x]
  BY <1>1, <1>2 DEF Types
<1>7. /\ \A x \in Equipments : th[x] = "off" <=> x < ix
      /\ \A x \in Equipments : th[x] = "off" => pending[x] = <<>>
      /\ run > 0
  BY <1>1, <1>2 DEF Commanded, Off
<1>8. Types'
  <2>1. th' \in [Equipments -> Places] /\ isDataOn' \in [Equipments -> BOOLEAN] /\ phase' \in Phases
    BY <1>1, <1>2, <1>3 DEF Types, Places, Phases
  <2> QED BY <1>1, <1>2, <1>3, <1>5, <2>1, TypesNext DEF Types
<1>9. Commanded'
  <2>1. ASSUME NEW x \in Equipments PROVE th'[x] = "off" <=> Off(x)'
    <3>1. th'[x] = "off" <=> x <= ix
      <4>1. CASE x = ix
        BY <1>3, <1>6, <4>1
      <4>2. CASE x # ix
        <5>1. th'[x] = "off" <=> x < ix
          BY <1>6, <1>7, <4>2
        <5>2. x \in Int /\ ix \in Int
          BY <1>3
        <5> QED BY <4>2, <5>1, <5>2
      <4> QED BY <4>1, <4>2
    <3>2. Off(x)' <=> phase' = "stopAgg" \/ x < ix'
      BY <1>3 DEF Off
    <3> QED BY <1>1, <1>3, <3>1, <3>2
  <2>2. \A x \in Equipments : th'[x] = "off" => pending'[x] = <<>>
    BY <1>5, <1>6, <1>7
  <2> QED BY <1>3, <1>4, <1>7, <2>1, <2>2 DEF Commanded
<1>10. Accounted'
  <2>1. ASSUME NEW x \in Equipments, x # ix
        PROVE  AccountOf(free'[x], transferQueue'[x], Len(readyQueue'[x]), th'[x], Len(pending'[x]),
                         Len(dataOut'[x]))
    BY <1>1, <1>2, <1>5, <1>6, <2>1, Account
  <2>2. AccountOf(free'[ix], transferQueue'[ix], Len(readyQueue'[ix]), th'[ix], Len(pending'[ix]),
                  Len(dataOut'[ix]))
    <3>1. th[ix] # "push" /\ Len(<<>>) = 0
      BY <1>2
    <3>2. AccountOf(free[ix] + Len(pending[ix]), transferQueue[ix], Len(readyQueue[ix]), "off", 0,
                    Len(dataOut[ix]))
      BY <1>1, <3>1, Account, Moves
    <3> QED BY <1>2, <1>5, <1>6, <3>1, <3>2
  <2>3. AccountsNext
    BY <2>1, <2>2 DEF AccountsNext
  <2> QED BY <1>2, <2>3, AccountsKept
<1>11. \A x \in Equipments : pending'[x] = pending[x] \/ pending'[x] = <<>>
  BY <1>5
<1>12. Numbered'
  <2>1. \A x \in Equipments : th'[x] # "off" => th[x] # "off" /\ pending'[x] = pending[x]
    BY <1>5, <1>6
  <2> QED BY <1>2, <1>3, <1>11, <2>1, NumbersStay
<1>13. FromFirstOrbit' /\ OrbitsShared' /\ ErrorsJustified' /\ InCtpRun'
  BY <1>2, <1>3, <1>11, RunGoesOn
<1> QED
  BY <1>8, <1>9, <1>10, <1>12, <1>13 DEF IInv

\* The aggregator empties its inputs, and the run is over.
LEMMA StopAggregatorKeeps ==
  ASSUME IInv, StopAggregator
  PROVE  IInv'
<1>1. Types /\ Commanded /\ Accounted /\ InCtpRun
  BY DEF IInv
<1>2. /\ phase = "stopAgg" /\ phase' = "stopped"
      /\ dataOut' = All(<<>>)
      /\ free' = [x \in Equipments |-> free[x] + Len(dataOut[x])]
      /\ UNCHANGED <<setup, ix, run, firstOrbit, th, isDataOn, dma, transferQueue, readyQueue, filled,
                     regulator, pending, eq, sent>>
  BY DEF StopAggregator, card
<1>3. Equipments' = Equipments
  BY <1>2, SetupKept
<1>4. \A x \in Equipments : dataOut'[x] = <<>> /\ free'[x] = free[x] + Len(dataOut[x])
  BY <1>2 DEF All
<1>5. Types'
  <2>1. \A x \in Equipments : free[x] + Len(dataOut[x]) \in Nat
    BY <1>1, Account
  <2>2. free' \in [Equipments -> Nat] /\ dataOut' \in [Equipments -> Seq(Block)]
    BY <1>2, <2>1 DEF All
  <2> QED BY <1>1, <1>2, <2>2, TypesNext DEF Types, Phases
<1>6. Commanded'
  BY <1>1, <1>2, <1>3 DEF Commanded, Off
<1>7. Accounted'
  <2>1. ASSUME NEW x \in Equipments
        PROVE  AccountOf(free'[x], transferQueue'[x], Len(readyQueue'[x]), th'[x], Len(pending'[x]),
                         Len(dataOut'[x]))
    <3>1. AccountOf(free[x] + Len(dataOut[x]), transferQueue[x], Len(readyQueue[x]), th[x],
                    Len(pending[x]), 0)
      BY <1>1, Account, Moves
    <3>2. Len(dataOut'[x]) = 0
      BY <1>4
    <3> QED BY <1>2, <1>4, <3>1, <3>2
  <2> QED BY <1>2, <2>1, AccountsKept DEF AccountsNext
<1>8. Numbered'
  BY <1>2, NumbersStay
<1>9. \A x \in Equipments : ~ Started(x)'
  BY <1>2 DEF Started
<1>10. FromFirstOrbit' /\ OrbitsShared' /\ ErrorsJustified'
  BY <1>2, <1>3, <1>9 DEF FromFirstOrbit, OrbitsShared, ErrorsJustified
<1>11. InCtpRun'
  BY <1>1, <1>2, <1>3 DEF InCtpRun, CtpState
<1> QED
  BY <1>5, <1>6, <1>7, <1>8, <1>10, <1>11 DEF IInv


-----------------------------------------------------------------------------
(* The theorems.                                                           *)

\* The program starts with all pages in the pools, and no thread.
LEMMA InitKeeps == Init => IInv
<1> SUFFICES ASSUME Init PROVE IInv
  OBVIOUS
<1>1. /\ setup \in Setups /\ phase = "stopped" /\ ix = 1 /\ run = 0 /\ firstOrbit = 0 /\ filled = 0
      /\ th = All("off") /\ isDataOn = All(FALSE) /\ dma = All(FALSE)
      /\ free = All(NPages) /\ transferQueue = All(0) /\ readyQueue = All(<<>>)
      /\ regulator = All(TRUE) /\ pending = All(<<>>) /\ dataOut = All(<<>>)
      /\ eq = All(InitCounters) /\ sent = All(<<>>)
  BY DEF Init, undefinedOrbit
<1>2. /\ InitCounters \in Counters /\ CtpState(InitCounters)
      /\ InitCounters.currentBlockId = 0 /\ InitCounters.autoCounter = 0
  BY <1>1, InitCountersType
<1>3. \A x \in Equipments :
        /\ th[x] = "off" /\ free[x] = NPages /\ transferQueue[x] = 0 /\ readyQueue[x] = <<>>
        /\ pending[x] = <<>> /\ dataOut[x] = <<>> /\ sent[x] = <<>> /\ eq[x] = InitCounters
  BY <1>1 DEF All
<1>4. Types
  <2>1. 1 \in Equipments
    BY <1>1, EquipmentAssumption DEF IsSetup, Equipments
  <2>2. 0 \in 0 .. MaxRuns /\ 0 \in Orbits /\ 0 \in 0 .. MaxFilled /\ NPages \in Nat
    BY EquipmentAssumption DEF Orbits
  <2>3. /\ th \in [Equipments -> Places] /\ isDataOn \in [Equipments -> BOOLEAN]
        /\ dma \in [Equipments -> BOOLEAN] /\ regulator \in [Equipments -> BOOLEAN]
    BY <1>1 DEF All, Places
  <2>4. free \in [Equipments -> Nat] /\ transferQueue \in [Equipments -> Nat]
    BY <1>1, <2>2 DEF All
  <2>5. /\ readyQueue \in [Equipments -> Seq(setup.pages \cup {Leftover})]
        /\ pending \in [Equipments -> Seq(Block)] /\ dataOut \in [Equipments -> Seq(Block)]
        /\ sent \in [Equipments -> Seq(Block)]
    BY <1>1 DEF All
  <2>6. eq \in [Equipments -> Counters]
    BY <1>1, <1>2 DEF All
  <2> QED BY <1>1, <2>1, <2>2, <2>3, <2>4, <2>5, <2>6 DEF Types, Phases
<1>5. Commanded
  BY <1>1, <1>3 DEF Commanded, Off
<1>6. Accounted
  <2>1. NPages \in Nat /\ QueueSize \in Nat /\ FifoSize \in Nat
    BY EquipmentAssumption
  <2>2. Len(<<>>) = 0
    OBVIOUS
  <2> QED BY <1>3, <2>1, <2>2 DEF Accounted, PagesOf
<1>7. Numbered
  <2>1. Len(<<>>) = 0 /\ 1 .. 0 = {}
    OBVIOUS
  <2>2. DataIn(<<>>) = {} /\ Cardinality({}) = 0
    BY <2>1, FS_EmptySet DEF DataIn
  <2>3. ASSUME NEW x \in Equipments
        PROVE  /\ 1 .. Len(sent[x]) = {} /\ th[x] = "off" /\ pending[x] = <<>>
               /\ eq[x].currentBlockId = 0 /\ eq[x].autoCounter = 0
               /\ Cardinality(DataIn(readyQueue[x])) = 0
    BY <1>2, <1>3, <2>1, <2>2
  <2>4. 0 + 0 <= filled /\ 0 <= 0
    BY <1>1
  <2> QED BY <2>3, <2>4 DEF Numbered
<1>8. \A x \in Equipments : ~ Started(x)
  BY <1>1 DEF Started
<1>9. FromFirstOrbit /\ OrbitsShared /\ ErrorsJustified
  BY <1>1, <1>8 DEF FromFirstOrbit, OrbitsShared, ErrorsJustified
<1>10. InCtpRun
  BY <1>2, <1>3 DEF InCtpRun
<1> QED
  BY <1>4, <1>5, <1>6, <1>7, <1>9, <1>10 DEF IInv

\* Every step keeps the invariant.
LEMMA NextKeeps == IInv /\ [Next]_vars => IInv'
<1> SUFFICES ASSUME IInv, [Next]_vars PROVE IInv'
  OBVIOUS
<1>1. CASE Control
  BY <1>1, StartRunKeeps, StartKeeps, SetDataOnKeeps, SetDataOffKeeps, FlushedKeeps, StopKeeps,
     StopAggregatorKeeps DEF Control
<1>2. ASSUME NEW e \in Equipments, Thread(e) PROVE IInv'
  BY <1>2, ReadsKeep, PopLeftoverKeeps, MovesOnKeeps, PrepareBlocksKeeps, PushSuperpageKeeps
     DEF Thread
<1>3. ASSUME NEW e \in Equipments, CardFills(e) \/ Tick(e) \/ GetBlock(e) PROVE IInv'
  BY <1>3, CardFillsKeeps, TickKeeps, GetBlockKeeps
<1>4. CASE UNCHANGED vars
  <2>1. /\ UNCHANGED <<setup, phase, ix, run, firstOrbit, th, isDataOn, dma, transferQueue, readyQueue>>
        /\ UNCHANGED <<filled, free, regulator, pending, dataOut, eq, sent>>
    BY <1>4 DEF vars, control, card
  <2>2. /\ Types /\ Commanded /\ Accounted /\ Numbered
        /\ FromFirstOrbit /\ OrbitsShared /\ ErrorsJustified /\ InCtpRun
    BY DEF IInv
  <2>3. Equipments' = Equipments /\ OneValidLink' = OneValidLink
    BY <2>1, SetupKept
  <2>4. Types'
    BY <2>1, <2>2, TypesNext DEF Types
  <2>5. Commanded'
    BY <2>1, <2>2, <2>3 DEF Commanded, Off
  <2>6. Accounted'
    BY <2>1, <2>2, <2>3 DEF Accounted, PagesOf
  <2>7. Numbered'
    BY <2>1, NumbersStay
  <2>8. FromFirstOrbit'
    BY ZenonT(30), <2>1, <2>2, <2>3 DEF FromFirstOrbit, InTimeframe, Started
  <2>9. OrbitsShared' /\ InCtpRun'
    BY <2>1, <2>2, <2>3 DEF OrbitsShared, Started, InCtpRun, CtpState
  <2>10. ErrorsJustified'
    BY <2>1, <2>2, <2>3 DEF ErrorsJustified, Started, OneLink
  <2> QED BY <2>4, <2>5, <2>6, <2>7, <2>8, <2>9, <2>10 DEF IInv
<1> QED
  BY <1>1, <1>2, <1>3, <1>4 DEF Next

\* The invariant holds in every run of START and STOP, whatever the cards send,
\* and whichever way the threads are interleaved with the control.
THEOREM Invariance == Spec => []IInv
<1> QED
  BY InitKeeps, NextKeeps, PTL DEF Spec


\* An equipment has no more free pages than pages.
LEMMA FreePages ==
  ASSUME NEW fr \in Nat, NEW tq \in Nat, NEW rq \in Nat, NEW t, NEW pe \in Nat, NEW da \in Nat,
         AccountOf(fr, tq, rq, t, pe, da)
  PROVE  fr \in 0 .. NPages /\ tq \in 0 .. QueueSize
<1>1. QueueSize \in Nat \ {0} /\ NPages \in Nat
  BY EquipmentAssumption
<1>2. CASE t = "push"
  <2>1. fr + tq + rq + 1 + pe + da = NPages /\ tq <= QueueSize
    BY <1>2 DEF AccountOf
  <2> QED BY <1>1, <2>1
<1>3. CASE t # "push"
  <2>1. fr + tq + rq + 0 + pe + da = NPages /\ tq <= QueueSize
    BY <1>3 DEF AccountOf
  <2> QED BY <1>1, <2>1
<1> QED
  BY <1>2, <1>3

\* The counters of an equipment and its blocks have their types.
LEMMA TypesOfRecords ==
  ASSUME Types
  PROVE  /\ \A q \in Counters : CountersOK(q)
         /\ \A b \in Block : BlockOK(b)
<1>1. MaxFilled \in Nat /\ OrbitMod \in Nat
  BY EquipmentAssumption
<1>2. ASSUME NEW q \in Counters PROVE CountersOK(q)
  <2>1. q.autoCounter \in TimeframeIds
    BY <1>1 DEF Counters, TimeframeIds
  <2>2. \A l \in Links : q.lastField[l] \subseteq Bits \/ q.lastField[l] = NoField
    BY DEF Counters
  <2> QED BY <2>1, <2>2 DEF CountersOK, Counters
<1>3. ASSUME NEW b \in Block PROVE BlockOK(b)
  BY DEF BlockOK, Block
<1> QED
  BY <1>2, <1>3

\* Every variable has its type: the pools, the queue of the card and the FIFOs
\* never hold more than they can.
THEOREM TypeCorrect == Spec => []TypeOK
<1>1. IInv => TypeOK
  <2> SUFFICES ASSUME IInv PROVE TypeOK
    OBVIOUS
  <2>1. Types /\ Accounted
    BY DEF IInv
  <2>2. ASSUME NEW e \in Equipments
        PROVE  /\ th[e] \in {"off", "idle", "read", "prepare", "fill", "push"}
               /\ isDataOn[e] \in BOOLEAN /\ dma[e] \in BOOLEAN /\ regulator[e] \in BOOLEAN
               /\ free[e] \in 0 .. NPages /\ transferQueue[e] \in 0 .. QueueSize
               /\ \A k \in DOMAIN readyQueue[e] : readyQueue[e][k] \in setup.pages \cup {Leftover}
               /\ Len(pending[e]) <= 1 /\ Len(dataOut[e]) <= FifoSize
               /\ \A s \in {pending[e], dataOut[e], sent[e]} : \A k \in DOMAIN s : BlockOK(s[k])
               /\ CountersOK(eq[e])
    <3>1. th[e] \in {"off", "idle", "read", "prepare", "fill", "push"}
      BY <2>1 DEF Types, Places
    <3>2. isDataOn[e] \in BOOLEAN /\ dma[e] \in BOOLEAN /\ regulator[e] \in BOOLEAN
      BY <2>1 DEF Types
    <3>3. free[e] \in 0 .. NPages /\ transferQueue[e] \in 0 .. QueueSize
      BY <2>1, Account, FreePages
    <3>4. readyQueue[e] \in Seq(setup.pages \cup {Leftover}) /\ eq[e] \in Counters
      BY <2>1 DEF Types
    <3>5. \A k \in DOMAIN readyQueue[e] : readyQueue[e][k] \in setup.pages \cup {Leftover}
      BY <3>4
    <3>6. Len(pending[e]) <= 1 /\ Len(dataOut[e]) <= FifoSize
      BY <2>1 DEF Accounted
    <3>7. \A s \in {pending[e], dataOut[e], sent[e]} : s \in Seq(Block)
      BY <2>1 DEF Types
    <3>8. ASSUME NEW s \in Seq(Block), NEW k \in DOMAIN s PROVE BlockOK(s[k])
      <4>1. s[k] \in Block
        OBVIOUS
      <4> QED BY <2>1, <4>1, TypesOfRecords
    <3>9. CountersOK(eq[e])
      BY <2>1, <3>4, TypesOfRecords
    <3> QED BY <3>1, <3>2, <3>3, <3>5, <3>6, <3>7, <3>8, <3>9
  <2> QED BY <2>1, <2>2 DEF Types, TypeOK, Phases
<1> QED
  BY <1>1, Invariance, PTL

\* Each page of an equipment is in one place at any time: no page is lost or
\* given twice by a DMA that stops while the thread pushes a page, by errors,
\* discards, the rate limit or STOP.
THEOREM PagesAreAccounted == Spec => []PagesAccounted
<1>1. IInv /\ TypeOK => PagesAccounted
  BY DEF IInv, Accounted, PagesOf, PagesAccounted
<1> QED
  BY <1>1, Invariance, TypeCorrect, PTL

\* Blocks leave an equipment in the order in which they were read, in the run in
\* which they were read, and none is skipped or repeated by the rate limit.
THEOREM BlocksLeaveInSequence == Spec => []BlocksInSequence
<1>1. IInv => BlocksInSequence
  <2> SUFFICES ASSUME IInv, NEW e \in Equipments
               PROVE  /\ \A k \in DOMAIN sent[e] : sent[e][k].blockId = k /\ sent[e][k].run = run
                      /\ th[e] # "off" => eq[e].currentBlockId = Len(sent[e]) + Len(pending[e])
                      /\ pending[e] # <<>> => Head(pending[e]).blockId = eq[e].currentBlockId
    BY DEF BlocksInSequence
  <2>1. Types /\ Accounted /\ Numbered
    BY DEF IInv
  <2>2. DOMAIN sent[e] = 1 .. Len(sent[e])
    BY <2>1 DEF Types
  <2>3. pending[e] # <<>> => Head(pending[e]) = pending[e][1]
    BY <2>1, OnePending
  <2>4. /\ \A k \in 1 .. Len(sent[e]) : sent[e][k].blockId = k /\ sent[e][k].run = run
        /\ th[e] # "off" => eq[e].currentBlockId = Len(sent[e]) + Len(pending[e])
        /\ pending[e] # <<>> => pending[e][1].blockId = eq[e].currentBlockId
    BY <2>1 DEF Numbered
  <2> QED BY <2>2, <2>3, <2>4
<1> QED
  BY <1>1, Invariance, PTL

\* What the invariant says of the blocks of a run.
LEMMA SentInRun ==
  ASSUME IInv, InRun, NEW e \in Equipments, NEW k \in DOMAIN sent[e]
  PROVE  /\ InTimeframe(sent[e][k], eq[e].first)
         /\ sent[e][k].page \in setup.pages
<1>1. Types /\ FromFirstOrbit
  BY DEF IInv
<1>2. Started(e)
  BY DEF InRun, Started
<1>3. sent[e] \in Seq(Block)
  BY <1>1 DEF Types
<1>4. k \in 1 .. Len(sent[e]) /\ sent[e][k] \in Block
  BY <1>3
<1> QED
  BY <1>1, <1>2, <1>4 DEF FromFirstOrbit, Block

\* Equipments that share their first orbit number the timeframes alike, and a
\* page that was checked holds packets of one timeframe only, for every period
\* and wherever the orbit counter wraps around.
THEOREM TimeframesNumbered == Spec => []TimeframeNumbering
<1>1. IInv => TimeframesAgree
  <2> SUFFICES ASSUME IInv, InRun, setup.firstOrbit, ~ setup.auto, ZeroIsUnused, ~ FatalError,
                      NEW e \in Equipments, NEW f \in Equipments,
                      NEW k \in DOMAIN sent[e], NEW l \in DOMAIN sent[f],
                      sent[e][k].page[1].ok, sent[f][l].page[1].ok,
                      sent[e][k].page[1].orbit = sent[f][l].page[1].orbit
               PROVE  sent[e][k].timeframeId = sent[f][l].timeframeId
    BY DEF TimeframesAgree
  <2>1. /\ eq[e].first # NotDefined
        /\ sent[e][k].timeframeId = Timeframe(eq[e].first, sent[e][k].page[1].orbit)
    BY SentInRun DEF InTimeframe
  <2>2. /\ eq[f].first # NotDefined
        /\ sent[f][l].timeframeId = Timeframe(eq[f].first, sent[f][l].page[1].orbit)
    BY SentInRun DEF InTimeframe
  <2>3. eq[e].first = firstOrbit /\ eq[f].first = firstOrbit
    BY <2>1, <2>2 DEF IInv, OrbitsShared, InRun, Started, ZeroIsUnused, FatalError
  <2> QED BY <2>1, <2>2, <2>3
<1>2. IInv => PagesInOneTimeframe
  <2> SUFFICES ASSUME IInv, InRun, setup.check, setup.drop,
                      NEW e \in Equipments, NEW k \in DOMAIN sent[e], NEW j \in DOMAIN sent[e][k].page
               PROVE  Timeframe(eq[e].first, sent[e][k].page[j].orbit)
                        = Timeframe(eq[e].first, sent[e][k].page[1].orbit)
    BY DEF PagesInOneTimeframe
  <2>1. sent[e][k].page \in Seq(Rdh)
    BY SentInRun, EquipmentAssumption DEF IInv, Types, IsSetup
  <2>2. j \in 1 .. Len(sent[e][k].page)
    BY <2>1
  <2> QED BY <2>2, SentInRun DEF InTimeframe
<1> QED
  BY <1>1, <1>2, Invariance, PTL DEF TimeframeNumbering

\* With valid packets of one link, a run is stopped for a fatal error only if two
\* of its equipments began with different orbits.
THEOREM FatalErrorsJustified == Spec => []FatalErrorJustified
<1>1. IInv => FatalErrorJustified
  <2> SUFFICES ASSUME IInv, InRun, OneValidLink, NEW e \in Equipments, eq[e].isFatalError
               PROVE  FirstOrbitsDiffer
    BY DEF FatalErrorJustified, FatalError
  <2>1. ErrorsJustified /\ Started(e)
    BY DEF IInv, InRun, Started
  <2>2. eq[e].first # NotDefined
    BY <2>1 DEF ErrorsJustified
  <2>3. PICK f \in Equipments : eq[f].first # NotDefined /\ eq[f].first # eq[e].first
    BY <2>1 DEF ErrorsJustified
  <2> QED BY <2>2, <2>3 DEF FirstOrbitsDiffer
<1> QED
  BY <1>1, Invariance, PTL

\* A page goes out only when it is read; in CTP mode it holds the run bit.
LEMMA ReadInCtpRun ==
  ASSUME IInv, NEW e \in Equipments, NEW n \in Counters, Reads(e, n),
         NEW x \in Equipments, setup.ctp, Len(sent'[x]) > Len(sent[x]), pending[x] = <<>>
  PROVE  LET r == sent'[x][Len(sent'[x])].page[1] IN KeepsRunBit(eq[x], eq'[x], r)
<1>1. Types
  BY DEF IInv
<1>2. sent[x] \in Seq(Block) /\ Len(sent[x]) \in Nat
  BY <1>1 DEF Types
<1>3. sent' # sent
  BY <1>2
<1>4. PICK b \in Block : Delivers(e, b, n)
  BY <1>3 DEF Reads, Discards
<1>5. GoesOut(e, b)
  BY <1>3, <1>4 DEF Delivers, SetsAside
<1>6. x = e
  BY <1>1, <1>2, <1>5 DEF GoesOut, Types
<1>7. sent'[x] = Append(sent[x], b) /\ eq'[x] = n
  BY <1>1, <1>5, <1>6 DEF GoesOut, Reads, Types
<1>8. sent'[x][Len(sent'[x])] = b
  BY <1>2, <1>7, AppendAdds
<1>9. KeepsRunBit(eq[x], n, b.page[1])
  BY <1>4, <1>6 DEF Delivers
<1> QED
  BY <1>7, <1>8, <1>9

\* "Incoming data is discarded until a new bit is set, and discarded again after
\* this bit is unset": whatever the detector fields of the packets were, a page
\* that goes out when it is read has the run bit, as long as the bits of its
\* link change one by one.
THEOREM DataOnlyInCtpRun == Spec => DataInCtpRun
<1> DEFINE A == \A e \in Equipments :
                  setup.ctp /\ Len(sent'[e]) > Len(sent[e]) /\ pending[e] = <<>> =>
                    LET r == sent'[e][Len(sent'[e])].page[1]
                        old == eq[e].lastField[r.link] IN
                    old # NoField /\ Cardinality(Changed(old, r.field)) <= 1
                      /\ eq[e].ctpRunBit \in old \cup {NoBit}
                    => eq'[e].ctpRunBit \in r.field
<1>1. ASSUME IInv, NEW e \in Equipments, RetryPending(e) \/ ReadBlock(e)
      PROVE  A
  <2>1. PICK n \in Counters : Reads(e, n)
    BY <1>1, RetryReads, BlockReads
  <2>2. ASSUME NEW x \in Equipments, setup.ctp, Len(sent'[x]) > Len(sent[x]), pending[x] = <<>>
        PROVE  LET r == sent'[x][Len(sent'[x])].page[1] IN KeepsRunBit(eq[x], eq'[x], r)
    BY <1>1, <2>1, <2>2, ReadInCtpRun
  <2> QED BY <2>2 DEF KeepsRunBit
<1>2. ASSUME IInv, sent' = sent \/ sent' = All(<<>>)
      PROVE  A
  <2>1. ASSUME NEW x \in Equipments PROVE ~ Len(sent'[x]) > Len(sent[x])
    <3>1. sent[x] \in Seq(Block) /\ Len(sent[x]) \in Nat
      BY <1>2 DEF IInv, Types
    <3>2. sent' = All(<<>>) => Len(sent'[x]) = 0
      BY DEF All
    <3> QED BY <1>2, <3>1, <3>2
  <2> QED BY <2>1
<1>3. IInv /\ [Next]_vars => [A]_vars
  <2> SUFFICES ASSUME IInv, Next PROVE A
    OBVIOUS
  <2> HIDE DEF A
  <2>1. CASE Control
    <3>1. sent' = sent \/ sent' = All(<<>>)
      BY <2>1 DEF Control, StartRun, Start, SetDataOn, SetDataOff, Flushed, Stop, StopAggregator
    <3> QED BY <1>2, <3>1
  <2>2. ASSUME NEW e \in Equipments, Thread(e) \/ CardFills(e) \/ Tick(e) \/ GetBlock(e)
        PROVE  A
    <3>1. RetryPending(e) \/ ReadBlock(e) \/ sent' = sent
      BY <2>2 DEF Thread, PopLeftover, ReadEnds, PrepareBlocks, PrepareEnds, PushSuperpage,
         CardFills, Tick,
                  GetBlock
    <3> QED BY <1>1, <1>2, <3>1
  <2> QED BY <2>1, <2>2 DEF Next
<1> QED
  BY <1>3, Invariance, PTL DEF Spec, DataInCtpRun


=============================================================================
