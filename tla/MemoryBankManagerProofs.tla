---------------------- MODULE MemoryBankManagerProofs ----------------------
(***************************************************************************)
(* No two pools share memory, for every bank, every request and every      *)
(* width of the integers: proofs about MemoryBankManager.                  *)
(*                                                                         *)
(* The order of the blocks is what makes it work: a new block starts after *)
(* the end of every range in use, the end of a pool is never after the end *)
(* of the range it was made from, and a block whose size has wrapped       *)
(* around never becomes a pool, because zeroing it ends the process.       *)
(***************************************************************************)
EXTENDS MemoryBankManager, TLAPS

RangeEnd(r) == SizeT(r.offset + r.size)

SameBank(p, q) == p.request.bank = q.request.bank

\* the types, and a real block while one is under way
Types == TypeOK /\ (pc \in {"zero", "create"} => block \in Block)

\* each pool ends before the end of some range of its bank
Covered ==
  \A i \in DOMAIN pools :
    \E k \in DOMAIN rangesInUse[pools[i].request.bank] :
      PoolEnd(pools[i]) <= RangeEnd(rangesInUse[pools[i].request.bank][k])

\* the block under way is the range of its bank taken last, after all the pools
Pending ==
  pc \in {"zero", "create"} =>
    /\ \A i \in DOMAIN pools : SameBank(pools[i], block) => PoolEnd(pools[i]) <= block.offset
    /\ \E k \in DOMAIN rangesInUse[block.request.bank] :
         rangesInUse[block.request.bank][k] = [offset |-> block.offset, size |-> block.size]

\* only a block that is inside its bank becomes a pool
Checked == pc = "create" => InBank(block)

\* the alignment asked for is one that the tests on an int do not change
Representable(r) == r.blockAlign > 0 /\ 2 * r.blockAlign < IntMod /\ r.blockAlign % SystemPageSize = 0

\* a block of request r at this offset starts at an address with its alignment
AlignedAt(r, offset) == Representable(r) => (BankBase[r.bank] + offset) % r.blockAlign = 0

\* the block under way has its alignment, and so have the blocks of the pools
Alignment ==
  /\ pc \in {"zero", "create"} => AlignedAt(block.request, block.offset)
  /\ \A i \in DOMAIN pools :
       AlignedAt(pools[i].request, pools[i].first - pools[i].request.firstPageOffset)

IInv == Types /\ PoolsDisjoint /\ Covered /\ Pending /\ Checked /\ Alignment

-----------------------------------------------------------------------------
(* Arithmetic.                                                             *)

\* A number converted to size_t is a size_t.
LEMMA SizeTType == \A x \in Int : SizeT(x) \in 0 .. SizeMod - 1
BY BankAssumption DEF SizeT

\* The conversion changes nothing as long as there is no overflow.
LEMMA SizeTSmall == \A x \in 0 .. SizeMod - 1 : SizeT(x) = x
BY BankAssumption DEF SizeT

\* The alignment used is positive, and not larger than what was asked for or
\* the page size of the system.
LEMMA AlignBound ==
  \A r \in Requests :
    /\ EffectiveAlign(r.blockAlign) \in Nat \ {0}
    /\ EffectiveAlign(r.blockAlign) <= SystemPageSize + r.blockAlign
<1> SUFFICES ASSUME NEW r \in Requests
             PROVE /\ EffectiveAlign(r.blockAlign) \in Nat \ {0}
                   /\ EffectiveAlign(r.blockAlign) <= SystemPageSize + r.blockAlign
  OBVIOUS
<1>1. r.blockAlign \in Nat /\ SystemPageSize \in Nat \ {0} /\ IntMod \in Nat \ {0}
  BY BankAssumption
<1>2. r.blockAlign = 0 => ToInt(r.blockAlign) = 0
  BY <1>1 DEF ToInt
<1> QED
  BY <1>1, <1>2 DEF EffectiveAlign

\* An alignment that is a multiple of the page size and that an int can hold is
\* the one used.
LEMMA AlignKept ==
  ASSUME NEW r \in Requests, Representable(r)
  PROVE  EffectiveAlign(r.blockAlign) = r.blockAlign
<1>1. r.blockAlign \in Nat /\ SystemPageSize \in Nat \ {0} /\ IntMod \in Nat \ {0}
  BY BankAssumption
<1>2. ToInt(r.blockAlign) = r.blockAlign
  BY <1>1 DEF ToInt, Representable
<1>3. r.blockAlign >= SystemPageSize
  <2> SUFFICES ASSUME r.blockAlign < SystemPageSize PROVE FALSE
    BY <1>1
  <2>1. r.blockAlign % SystemPageSize = r.blockAlign
    BY <1>1
  <2> QED
    BY <1>1, <2>1 DEF Representable
<1> QED
  BY <1>1, <1>2, <1>3 DEF EffectiveAlign

\* Numbers rounded up to a multiple of m.
LEMMA RoundUp ==
  ASSUME NEW x \in Nat, NEW m \in Nat \ {0}
  PROVE  x % m = 0 \/ (x + (m - (x % m))) % m = 0
<1> DEFINE q == x \div m
           e == x % m
<1>1. q \in Nat
  OBVIOUS
<1>2. e \in 0 .. m - 1
  OBVIOUS
<1>3. x = m * q + e
  OBVIOUS
<1> HIDE DEF q, e
<1>4. m * (q + 1) = m * q + m
  BY <1>1
<1>5. x + (m - e) = m * (q + 1)
  BY <1>1, <1>2, <1>3, <1>4
<1>6. (m * (q + 1)) % m = 0
  BY <1>1
<1>7. (x + (m - e)) % m = 0
  BY <1>5, <1>6
<1> QED
  BY <1>7, Zenon DEF e

\* Bytes skipped for the alignment: fewer than the alignment.
LEMMA AlignOffsetBound ==
  ASSUME NEW b \in Banks, NEW offset \in Nat, NEW align \in Nat \ {0}
  PROVE  AlignOffset(b, offset, align) \in 0 .. align - 1
<1>1. SizeT(BankBase[b] + offset) \in Nat
  BY SizeTType, BankAssumption
<1>2. SizeT(BankBase[b] + offset) % align \in 0 .. align - 1
  BY <1>1
<1> QED
  BY <1>2 DEF AlignOffset

\* Whole pages that fit in a number of bytes take no more than these bytes.
LEMMA WholePages ==
  ASSUME NEW n \in Nat, NEW p \in Nat \ {0}
  PROVE  n \div p \in Nat /\ p * (n \div p) <= n
OBVIOUS

\* The pages that the constructor makes fit in the block, after the first page
\* offset.
LEMMA PagesFit ==
  ASSUME NEW b, b.request \in Requests, b.size \in Nat,
         b.request.firstPageOffset < b.size
  PROVE  /\ NumberOfPages(b) \in Nat
         /\ b.request.firstPageOffset + b.request.pageSize * NumberOfPages(b) <= b.size
<1> DEFINE r == b.request
           room == b.size - r.firstPageOffset
<1>1. r.pageSize \in Nat \ {0} /\ r.pageNumber \in Nat /\ r.firstPageOffset \in Nat
  BY BankAssumption
<1>2. room \in Nat
  BY <1>1
<1> DEFINE sizeNeeded == r.pageSize * r.pageNumber + r.firstPageOffset
<1>a. sizeNeeded \in 0 .. SizeMod - 1
  <2>1. r.pageSize * r.pageNumber \in Nat
    BY <1>1
  <2>2. sizeNeeded < SizeMod /\ SizeMod \in Nat
    BY BankAssumption
  <2> QED
    BY <1>1, <2>1, <2>2
<1>b. SizeT(sizeNeeded) = sizeNeeded
  <2> HIDE DEF sizeNeeded
  <2> QED
    BY <1>a, SizeTSmall
<1>3. CASE sizeNeeded > b.size
  <2>1. NumberOfPages(b) = room \div r.pageSize
    BY <1>3, <1>b DEF NumberOfPages
  <2> HIDE DEF room
  <2>2. room \div r.pageSize \in Nat /\ r.pageSize * (room \div r.pageSize) <= room
    BY <1>1, <1>2, WholePages
  <2> QED
    BY <2>1, <2>2, <1>1 DEF room
<1>4. CASE ~ (sizeNeeded > b.size)
  <2>1. NumberOfPages(b) = r.pageNumber
    BY <1>4, <1>b DEF NumberOfPages
  <2>2. r.pageSize * r.pageNumber \in Nat
    BY <1>1
  <2> QED
    BY <2>1, <2>2, <1>1, <1>4
<1> QED
  BY <1>3, <1>4

-----------------------------------------------------------------------------
(* The inductive invariant.                                                *)

\* Every pool has natural numbers for its first page and its size.
LEMMA PoolType ==
  ASSUME NEW p \in Pool
  PROVE  /\ p.first \in Nat /\ PoolEnd(p) \in Nat /\ p.request.bank \in Banks
         /\ p.request \in Requests /\ BankSize[p.request.bank] \in Nat
<1>1. p.first \in Nat /\ p.numberOfPages \in Nat /\ p.request \in Requests
  BY DEF Pool
<1>2. p.request.pageSize \in Nat /\ p.request.bank \in Banks
  BY <1>1, BankAssumption
<1>3. p.request.pageSize * p.numberOfPages \in Nat
  BY <1>1, <1>2
<1>4. BankSize[p.request.bank] \in Nat
  BY <1>2, BankAssumption
<1> QED
  BY <1>1, <1>2, <1>3, <1>4 DEF PoolEnd

\* Nothing is in use at the start.
LEMMA IInvInit == Init => IInv
<1> SUFFICES ASSUME Init PROVE IInv
  OBVIOUS
<1>1. Types
  <2>1. rangesInUse \in [Banks -> Seq(Range)] /\ pools \in Seq(Pool)
    BY DEF Init
  <2>2. poolIndex \in -1 .. MaxPools - 1 /\ nResets \in 0 .. MaxResets
    BY BankAssumption DEF Init
  <2>3. monitorTh \in {"loop", "none"}
    BY DEF Init
  <2>4. banks \subseteq Banks /\ block \in Block \cup {NoBlock} /\ monitorThShutdown \in BOOLEAN
    BY DEF Init
  <2>5. pc = "idle" /\ bankMutex = "free"
    BY DEF Init
  <2> QED
    BY <2>1, <2>2, <2>3, <2>4, <2>5 DEF Types, TypeOK
<1>2. DOMAIN pools = {}
  BY DEF Init
<1> QED
  BY <1>1, <1>2 DEF Init, IInv, PoolsDisjoint, Covered, Pending, Checked, Alignment

\* A new block starts after every pool of its bank and is a range of it.
LEMMA GetPagedPoolStep ==
  ASSUME IInv, NEW r \in Requests, GetPagedPool(r)
  PROVE  IInv'
<1> DEFINE b == r.bank
<1> USE DEF IInv
<1>1. PICK start \in 0 .. BankSize[b] :
        /\ EndOfRanges(rangesInUse[b], start)
        /\ block' = NewBlock(r, start)
  BY DEF GetPagedPool
<1>2. b \in Banks /\ BankSize[b] \in 0 .. SizeMod - 1 /\ r.blockAlign \in Nat /\ r.pageSize \in Nat
      /\ r.pageNumber \in Nat /\ SizeMod \in Nat /\ SystemPageSize \in Nat
  BY BankAssumption
<1> DEFINE a == AlignOffset(b, start, EffectiveAlign(r.blockAlign))
<1>3. a \in Nat /\ a < SystemPageSize + r.blockAlign
  <2>1. EffectiveAlign(r.blockAlign) \in Nat \ {0}
        /\ EffectiveAlign(r.blockAlign) <= SystemPageSize + r.blockAlign
    BY AlignBound
  <2>2. a \in 0 .. EffectiveAlign(r.blockAlign) - 1
    BY <1>2, <2>1, AlignOffsetBound
  <2> QED
    BY <1>2, <2>1, <2>2
<1>4. start + a \in 0 .. SizeMod - 1
  <2>1. BankSize[b] + SystemPageSize + r.blockAlign < SizeMod
    BY BankAssumption
  <2> HIDE DEF a
  <2> QED
    BY <1>2, <1>3, <2>1
<1>5. /\ block'.request = r /\ block'.id = poolIndex + 1
      /\ block'.offset = start + a
      /\ block'.size = SizeT(r.pageSize * (r.pageNumber + 1) - a)
  BY <1>1, <1>4, SizeTSmall DEF NewBlock
<1>6. block'.size \in 0 .. SizeMod - 1
  <2> HIDE DEF a
  <2>1. r.pageSize * (r.pageNumber + 1) - a \in Int
    BY <1>2, <1>3
  <2> QED
    BY <1>5, <2>1, SizeTType
<1> DEFINE new == [offset |-> block'.offset, size |-> block'.size]
<1>7. new \in Range
  <2> HIDE DEF a
  <2> QED BY <1>4, <1>5, <1>6 DEF Range
<1>8. /\ rangesInUse' = [rangesInUse EXCEPT ![b] = Append(rangesInUse[b], new)]
      /\ pools' = pools /\ pc' = "zero"
  BY DEF GetPagedPool
<1>9. rangesInUse[b] \in Seq(Range) /\ pools \in Seq(Pool)
  BY <1>2 DEF Types, TypeOK
<1> HIDE DEF new, a
<1>10. rangesInUse'[b] = Append(rangesInUse[b], new)
       /\ \A c \in Banks \ {b} : rangesInUse'[c] = rangesInUse[c]
  BY <1>2, <1>8 DEF Types, TypeOK
<1>11. \A c \in Banks : \A k \in DOMAIN rangesInUse[c] :
         k \in DOMAIN rangesInUse'[c] /\ rangesInUse'[c][k] = rangesInUse[c][k]
  <2> TAKE c \in Banks
  <2>1. CASE c = b
    BY <2>1, <1>7, <1>9, <1>10
  <2>2. CASE c # b
    BY <2>2, <1>10
  <2> QED BY <2>1, <2>2
<1>12. Types'
  <2>1. rangesInUse' \in [Banks -> Seq(Range)]
    BY <1>2, <1>7, <1>8, <1>9 DEF Types, TypeOK
  <2>2. block' \in Block
    <3>1. block' = [id |-> poolIndex + 1, request |-> r, offset |-> SizeT(start + a),
                    size |-> SizeT(r.pageSize * (r.pageNumber + 1) - a)]
      BY <1>1 DEF NewBlock, a
    <3>2. poolIndex + 1 \in Nat
      BY BankAssumption DEF Types, TypeOK
    <3> QED
      BY <3>1, <3>2, <1>4, <1>5, <1>6 DEF Block
  <2>3. poolIndex' \in -1 .. MaxPools - 1
    BY BankAssumption DEF Types, TypeOK, GetPagedPool
  <2> QED
    BY <2>1, <2>2, <2>3, <1>8 DEF Types, TypeOK, GetPagedPool
<1>13. PoolsDisjoint'
  BY <1>8 DEF PoolsDisjoint, PoolEnd
<1>14. Covered'
  <2> SUFFICES ASSUME NEW i \in DOMAIN pools
               PROVE \E k \in DOMAIN rangesInUse'[pools[i].request.bank] :
                       PoolEnd(pools[i]) <= RangeEnd(rangesInUse'[pools[i].request.bank][k])
    BY <1>8 DEF Covered, PoolEnd, RangeEnd
  <2>1. pools[i].request.bank \in Banks
    BY <1>9, PoolType
  <2>2. PICK k \in DOMAIN rangesInUse[pools[i].request.bank] :
          PoolEnd(pools[i]) <= RangeEnd(rangesInUse[pools[i].request.bank][k])
    BY DEF Covered
  <2> QED
    BY <2>1, <2>2, <1>11
<1>15. Pending'
  <2>1. ASSUME NEW i \in DOMAIN pools, pools[i].request.bank = b
        PROVE PoolEnd(pools[i]) <= start + a
    <3>1. PICK k \in DOMAIN rangesInUse[b] : PoolEnd(pools[i]) <= RangeEnd(rangesInUse[b][k])
      BY <2>1 DEF Covered
    <3>2. RangeEnd(rangesInUse[b][k]) <= start
      BY <1>1, <3>1 DEF EndOfRanges, RangeEnd
    <3>3. rangesInUse[b][k] \in Range
      BY <1>9, <3>1
    <3>4. RangeEnd(rangesInUse[b][k]) \in Int
      BY <3>3, SizeTType, <1>2 DEF RangeEnd, Range
    <3>5. PoolEnd(pools[i]) \in Nat
      BY <1>9, PoolType
    <3> QED
      BY <3>1, <3>2, <3>4, <3>5, <1>3, <1>2
  <2>2. Len(rangesInUse[b]) + 1 \in DOMAIN rangesInUse'[b]
        /\ rangesInUse'[b][Len(rangesInUse[b]) + 1] = new
    BY <1>7, <1>9, <1>10
  <2> QED
    BY <2>1, <2>2, <1>5, <1>8 DEF Pending, SameBank, PoolEnd, new
<1>16. Checked'
  BY <1>8 DEF Checked
<1>17. Alignment'
  <2>1. ASSUME Representable(r) PROVE (BankBase[b] + (start + a)) % r.blockAlign = 0
    <3> DEFINE x == BankBase[b] + start
               m == r.blockAlign
    <3>1. BankBase[b] \in Nat /\ BankBase[b] + BankSize[b] < SizeMod
      BY <1>2, BankAssumption
    <3>2. x \in 0 .. SizeMod - 1 /\ m \in Nat \ {0}
      BY <1>2, <2>1, <3>1 DEF Representable
    <3>3. SizeT(x) = x
      BY <3>2, SizeTSmall
    <3>4. EffectiveAlign(r.blockAlign) = m
      BY <2>1, AlignKept
    <3>5. a = IF x % m = 0 THEN 0 ELSE m - (x % m)
      <4>1. a = AlignOffset(b, start, m)
        BY <3>4 DEF a
      <4> QED
        BY <3>3, <4>1, Zenon DEF AlignOffset
    <3>6. x % m = 0 \/ (x + (m - (x % m))) % m = 0
      <4>1. x \in Nat
        BY <1>2, <3>2
      <4> HIDE DEF x, m
      <4> QED
        BY <3>2, <4>1, RoundUp, Zenon
    <3>7. (x + a) % m = 0
      <4> HIDE DEF x, m
      <4>1. CASE x % m = 0
        <5>1. x + a = x
          BY <3>2, <3>5, <4>1
        <5> QED
          BY <4>1, <5>1
      <4>2. CASE x % m # 0
        BY <3>5, <3>6, <4>2
      <4> QED
        BY <4>1, <4>2
    <3>8. BankBase[b] + (start + a) = x + a
      BY <1>2, <1>3, <3>1
    <3> QED
      BY <3>7, <3>8
  <2>2. AlignedAt(block'.request, block'.offset)
    BY <1>5, <2>1 DEF AlignedAt
  <2> QED
    BY <1>8, <2>2 DEF Alignment, AlignedAt, Representable
<1> QED
  BY <1>12, <1>13, <1>14, <1>15, <1>16, <1>17

\* A pool made from a block inside its bank ends where the block ends at the
\* latest, after the pools of that bank.
LEMMA CreatePoolStep == ASSUME IInv, CreatePool PROVE IInv'
<1> USE DEF IInv
<1> DEFINE r == block.request
           b == block.request.bank
           new == [id |-> block.id, request |-> r, first |-> block.offset + r.firstPageOffset,
                   numberOfPages |-> NumberOfPages(block)]
<1>1. /\ pc = "create" /\ pc' = "idle" /\ block' = NoBlock
      /\ rangesInUse' = rangesInUse
  BY DEF CreatePool
<1>2. block \in Block /\ InBank(block)
  BY <1>1 DEF Types, Checked
<1>3. /\ r \in Requests /\ r.firstPageOffset \in Nat /\ r.pageSize \in Nat /\ b \in Banks
      /\ block.id \in Nat /\ block.offset \in Nat /\ block.size \in Nat
      /\ BankSize[b] \in 0 .. SizeMod - 1 /\ SizeMod \in Nat
  BY <1>2, BankAssumption DEF Block
<1>4. pools \in Seq(Pool) /\ rangesInUse \in [Banks -> Seq(Range)]
  BY DEF Types, TypeOK
<1>5. Checked' /\ Pending'
  BY <1>1 DEF Checked, Pending
<1>6. CASE pools' = pools
  <2>1. Types'
    BY <1>1, <1>6 DEF Types, TypeOK, CreatePool
  <2>2. PoolsDisjoint'
    BY <1>6 DEF PoolsDisjoint, PoolEnd
  <2>3. Covered'
    BY <1>1, <1>6 DEF Covered, PoolEnd, RangeEnd
  <2>4. Alignment'
    BY <1>1, <1>6 DEF Alignment, AlignedAt, Representable
  <2> QED
    BY <2>1, <2>2, <2>3, <2>4, <1>5
<1>7. CASE pools' = Append(pools, new) /\ r.firstPageOffset < block.size
  <2>1. /\ NumberOfPages(block) \in Nat
        /\ r.firstPageOffset + r.pageSize * NumberOfPages(block) <= block.size
    BY <1>3, <1>7, PagesFit
  <2>2. new \in Pool
    BY <1>3, <2>1 DEF Pool
  <2>3. PoolEnd(new) <= block.offset + block.size /\ new.first >= block.offset
    <3>1. r.pageSize * NumberOfPages(block) \in Nat
      BY <1>3, <2>1
    <3> QED
      BY <1>3, <2>1, <3>1 DEF PoolEnd
  <2>4. block.offset + block.size <= BankSize[b]
    BY <1>2 DEF InBank
  <2>5. RangeEnd([offset |-> block.offset, size |-> block.size]) = block.offset + block.size
    BY <1>3, <2>4, SizeTSmall DEF RangeEnd
  <2>6. new.request.bank = b /\ PoolEnd(new) \in Nat
    BY <2>2, PoolType
  <2> DEFINE n == Len(pools)
  <2> HIDE DEF new
  <2>7. /\ n \in Nat
        /\ DOMAIN pools' = (DOMAIN pools) \cup {n + 1} /\ n + 1 \notin DOMAIN pools
        /\ pools'[n + 1] = new
        /\ \A i \in DOMAIN pools : pools'[i] = pools[i]
    BY <1>4, <1>7, <2>2
  <2> HIDE DEF n
  <2>8. Types'
    <3>1. pools' \in Seq(Pool)
      BY <1>4, <1>7, <2>2
    <3> QED
      BY <1>1, <3>1 DEF Types, TypeOK, CreatePool
  <2>9. ASSUME NEW i \in DOMAIN pools, pools[i].request.bank = b
        PROVE PoolEnd(pools[i]) <= new.first
    <3>1. PoolEnd(pools[i]) <= block.offset
      BY <1>1, <2>9 DEF Pending, SameBank
    <3>2. PoolEnd(pools[i]) \in Nat /\ new.first \in Nat
      BY <1>4, <2>2, PoolType
    <3> QED
      BY <3>1, <3>2, <2>3, <1>3
  <2>10. PoolsDisjoint'
    <3> SUFFICES ASSUME NEW i \in DOMAIN pools'
                 PROVE /\ PoolEnd(pools'[i]) <= BankSize[pools'[i].request.bank]
                       /\ \A j \in DOMAIN pools' :
                            i # j /\ pools'[i].request.bank = pools'[j].request.bank =>
                              PoolEnd(pools'[i]) <= pools'[j].first \/ PoolEnd(pools'[j]) <= pools'[i].first
      BY DEF PoolsDisjoint, PoolEnd
    <3>1. CASE i = n + 1
      <4>1. PoolEnd(new) <= BankSize[b]
        BY <2>3, <2>4, <2>6, <1>3
      <4>2. ASSUME NEW j \in DOMAIN pools', j # i, pools'[j].request.bank = b
            PROVE PoolEnd(pools'[j]) <= new.first
        BY <4>2, <3>1, <2>7, <2>9
      <4> QED
        BY <4>1, <4>2, <3>1, <2>6, <2>7
    <3>2. CASE i \in DOMAIN pools
      <4>1. PoolEnd(pools[i]) <= BankSize[pools[i].request.bank]
        BY <3>2 DEF PoolsDisjoint
      <4>2. ASSUME NEW j \in DOMAIN pools', i # j, pools'[i].request.bank = pools'[j].request.bank
            PROVE PoolEnd(pools'[i]) <= pools'[j].first \/ PoolEnd(pools'[j]) <= pools'[i].first
        <5>1. CASE j = n + 1
          BY <5>1, <4>2, <3>2, <2>6, <2>7, <2>9
        <5>2. CASE j \in DOMAIN pools
          BY <5>2, <4>2, <3>2, <2>7 DEF PoolsDisjoint
        <5> QED
          BY <5>1, <5>2, <2>7
      <4> QED
        BY <4>1, <4>2, <3>2, <2>7
    <3> QED
      BY <3>1, <3>2, <2>7
  <2>11. Covered'
    <3> SUFFICES ASSUME NEW i \in DOMAIN pools'
                 PROVE \E k \in DOMAIN rangesInUse[pools'[i].request.bank] :
                         PoolEnd(pools'[i]) <= RangeEnd(rangesInUse[pools'[i].request.bank][k])
      BY <1>1 DEF Covered, PoolEnd, RangeEnd
    <3>1. CASE i = n + 1
      <4>1. PICK k \in DOMAIN rangesInUse[b] :
              rangesInUse[b][k] = [offset |-> block.offset, size |-> block.size]
        BY <1>1 DEF Pending
      <4> QED
        BY <3>1, <4>1, <2>3, <2>5, <2>6, <2>7
    <3>2. CASE i \in DOMAIN pools
      BY <3>2, <2>7 DEF Covered
    <3> QED
      BY <3>1, <3>2, <2>7
  <2>12. Alignment'
    <3>1. AlignedAt(new.request, new.first - new.request.firstPageOffset)
      <4>1. new.request = r /\ new.first - r.firstPageOffset = block.offset
        BY <1>3 DEF new
      <4> QED
        BY <1>1, <4>1 DEF Alignment
    <3>2. ASSUME NEW i \in DOMAIN pools'
          PROVE AlignedAt(pools'[i].request, pools'[i].first - pools'[i].request.firstPageOffset)
      BY <3>1, <2>7 DEF Alignment
    <3> QED
      BY <1>1, <3>2 DEF Alignment, AlignedAt, Representable
  <2> QED
    BY <2>8, <2>10, <2>11, <2>12, <1>5
<1> QED
  BY <1>3, <1>6, <1>7 DEF CreatePool

\* The other steps make no pool and no block.
LEMMA OtherStep ==
  ASSUME IInv,
         \/ \E b \in Banks : AddBank(b)
         \/ ZeroMemory \/ StopMonitoring \/ JoinMonitor \/ Reset \/ Exit \/ Monitor
         \/ UNCHANGED vars
  PROVE  IInv'
<1> USE DEF IInv
<1>1. CASE Reset
  <2>1. Types'
    BY <1>1, BankAssumption DEF Reset, Types, TypeOK
  <2>2. DOMAIN pools' = {} /\ pc' = "stopping"
    BY <1>1 DEF Reset
  <2> QED
    BY <2>1, <2>2 DEF PoolsDisjoint, Covered, Pending, Checked, Alignment
<1>2. CASE ~ Reset
  <2>1. rangesInUse' = rangesInUse /\ pools' = pools /\ block' = block /\ poolIndex' = poolIndex
        /\ nResets' = nResets
    BY <1>2 DEF AddBank, ZeroMemory, StopMonitoring, JoinMonitor, Exit, Monitor, MonitorLoop,
         MonitorLock, MonitorPublish, bankVars, vars
  <2>2. banks' \subseteq Banks /\ bankMutex' \in {"free", "main", "monitor"}
        /\ monitorTh' \in {"none", "loop", "lock", "publish", "ended"}
        /\ monitorThShutdown' \in BOOLEAN
    BY <1>2 DEF AddBank, ZeroMemory, StopMonitoring, JoinMonitor, Exit, Monitor, MonitorLoop,
         MonitorLock, MonitorPublish, bankVars, vars, Types, TypeOK
  <2>3. \/ pc' = pc
        \/ pc' \in {"idle", "stopping", "join", "exit", "gone"}
        \/ pc = "zero" /\ pc' = "create" /\ InBank(block)
    BY <1>2 DEF AddBank, ZeroMemory, StopMonitoring, JoinMonitor, Exit, Monitor, MonitorLoop,
         MonitorLock, MonitorPublish, bankVars, vars
  <2>4. Types'
    BY <2>1, <2>2, <2>3 DEF Types, TypeOK
  <2>5. PoolsDisjoint' /\ Covered'
    BY <2>1 DEF PoolsDisjoint, Covered, PoolEnd, RangeEnd
  <2>6. Pending'
    BY <2>1, <2>3 DEF Pending, SameBank, PoolEnd
  <2>7. Checked'
    BY <2>1, <2>3 DEF Checked, InBank
  <2>8. Alignment'
    BY <2>1, <2>3 DEF Alignment, AlignedAt, Representable
  <2> QED
    BY <2>4, <2>5, <2>6, <2>7, <2>8
<1> QED
  BY <1>1, <1>2

\* The inductive invariant holds in every state the manager reaches.
THEOREM Invariance == Spec => []IInv
<1>1. IInv /\ [Next]_vars => IInv'
  BY GetPagedPoolStep, CreatePoolStep, OtherStep DEF Next, MainThread
<1> QED
  BY IInvInit, <1>1, PTL DEF Spec

\* Every variable keeps its type: offsets and sizes of blocks are values of
\* size_t, and the pool ids stay within their bound.
THEOREM TypeCorrect == Spec => []TypeOK
<1>1. IInv => TypeOK
  BY DEF IInv, Types
<1> QED
  BY <1>1, Invariance, PTL

\* No page of memory belongs to two pools, and none is outside of its bank, for
\* every sequence of requests, with any sizes and alignments.
THEOREM PoolsNeverOverlap == Spec => []PoolsDisjoint
<1>1. IInv => PoolsDisjoint
  BY DEF IInv
<1> QED
  BY <1>1, Invariance, PTL

\* Every block starts at a multiple of the alignment asked for, for every base
\* address of the bank, as long as the alignment is a multiple of the page size
\* of the system and fits in an int.
THEOREM BlocksStartAligned == Spec => []PoolsAligned
<1>1. IInv => PoolsAligned
  <2> SUFFICES ASSUME IInv, NEW i \in DOMAIN pools, Representable(pools[i].request)
               PROVE  (BankBase[pools[i].request.bank] + pools[i].first
                         - pools[i].request.firstPageOffset) % pools[i].request.blockAlign = 0
    BY DEF PoolsAligned, Representable, IInv, Types
  <2> DEFINE r == pools[i].request
  <2>1. pools[i] \in Pool
    BY DEF IInv, Types, TypeOK
  <2>2. pools[i].first \in Nat /\ r \in Requests /\ r.bank \in Banks
    BY <2>1, PoolType
  <2>3. BankBase[r.bank] \in Nat /\ r.firstPageOffset \in Nat
    BY <2>2, BankAssumption
  <2>4. BankBase[r.bank] + pools[i].first - r.firstPageOffset
          = BankBase[r.bank] + (pools[i].first - r.firstPageOffset)
    BY <2>2, <2>3
  <2> QED
    BY <2>4 DEF IInv, Alignment, AlignedAt
<1> QED
  BY <1>1, Invariance, PTL

=============================================================================
