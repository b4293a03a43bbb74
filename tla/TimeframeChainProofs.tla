------------------------ MODULE TimeframeChainProofs ------------------------
(***************************************************************************)
(* Proofs about TimeframeChain, for every file, emulator, mode and number  *)
(* of messages, timeframes and restarts: what the blocks of the subscriber *)
(* hold, how many there are, and what the main loop tells of its           *)
(* timeframes.                                                             *)
(***************************************************************************)
EXTENDS TimeframeChain, WellFoundedInduction, TLAPS

-----------------------------------------------------------------------------
(* The subscriber: what its three threads have in their hands.             *)

Message == [id : Nat, size : Sizes]
Block == [lo : Nat, hi : Nat, copied : BOOLEAN]

ZmqTypes ==
  /\ mode \in ZmqModes
  /\ sent \in Seq(Message) /\ dataIn \in Seq(Message)
  /\ nBlocks \in Int
  /\ snap \in [lo : Nat, hi : Nat, size : Sizes, recent : BOOLEAN]
  /\ lock \in {"none", "snapshot", "block"}
  /\ spc \in {"recv", "store", "half"} /\ smsg \in Message
  /\ bpc \in {"idle", "copy", "half", "out"}
  /\ block \in Block /\ blocks \in Seq(Block)

\* m is a message of the server; the number of a message is its rank.
WasSent(m) == m.id \in 1 .. Len(sent) /\ sent[m.id] = m

\* All the messages in the socket, and all that will come, are later than message n.
Before(n) == n <= Len(sent) /\ \A k \in 1 .. Len(dataIn) : n < dataIn[k].id

\* The socket keeps the order of the server.
InSocket ==
  /\ \A k \in 1 .. Len(sent) : sent[k].id = k
  /\ \A k \in 1 .. Len(dataIn) : WasSent(dataIn[k])
  /\ \A j, k \in 1 .. Len(dataIn) : j < k => dataIn[j].id < dataIn[k].id

\* snapshotLock is held between the two halves of a copy.
Locked ==
  /\ lock = "snapshot" <=> spc = "half"
  /\ lock = "block" <=> bpc = "half"

\* n is a message of that size.
HasSize(n, size) == n \in 1 .. Len(sent) /\ sent[n].size = size

\* The snapshot is one message, except while it is being stored; the next one is later.
InSnapshot ==
  /\ Before(snap.lo)
  /\ spc # "recv" => WasSent(smsg) /\ Before(smsg.id)
  /\ spc = "store" => snap.lo < smsg.id
  /\ spc = "half" => snap.lo = smsg.id
  /\ spc # "half" => snap.lo = snap.hi /\ (snap.recent => HasSize(snap.lo, snap.size))
  /\ ~mode.snapshot => spc = "recv" /\ bpc = "idle"

\* The block is one message that fits.
Whole(b) == b.copied => b.lo = b.hi /\ HasSize(b.lo, "fits")

\* The block under way is copied from the snapshot, which does not change before it is done.
InBlock ==
  /\ bpc \in {"idle", "copy"} => ~block.copied
  /\ bpc = "half" => block.copied /\ block.lo = snap.lo /\ snap.recent /\ snap.size = "fits"
  /\ bpc = "out" => Whole(block)
  /\ block.copied => block.lo <= snap.lo

\* The blocks that are out are whole and in order, and nothing older can follow.
Copied(k) == blocks[k].copied
OutInOrder ==
  /\ \A k \in 1 .. Len(blocks) : Whole(blocks[k])
  /\ \A j, k \in 1 .. Len(blocks) : j < k /\ Copied(j) /\ Copied(k) =>
       /\ blocks[j].lo <= blocks[k].lo
       /\ ~mode.snapshot => blocks[j].lo < blocks[k].lo
  /\ \A k \in 1 .. Len(blocks) : Copied(k) =>
       /\ mode.snapshot => blocks[k].lo <= snap.lo /\ (block.copied => blocks[k].lo <= block.lo)
       /\ ~mode.snapshot => Before(blocks[k].lo)

ZmqInv == ZmqTypes /\ InSocket /\ Locked /\ InSnapshot /\ InBlock /\ OutInOrder

-----------------------------------------------------------------------------
(* The subscriber: how many blocks it gives.                               *)

\* The blocks do not pass the timeframes: none is under way that has no timeframe.
Counted ==
  /\ tfIn \in Seq(Nat \ {0}) /\ highest \in Nat
  /\ \A k \in 1 .. Len(tfIn) : tfIn[k] <= highest
  /\ mode.tfClient /\ mode.snapshot =>
       /\ maxTf \in 0 .. highest
       /\ nBlocks = Len(blocks)
       /\ maxTf = 0 => nBlocks = 0 /\ bpc = "idle"
       /\ nBlocks <= highest
       /\ bpc # "idle" => nBlocks < highest

-----------------------------------------------------------------------------
(* The equipment of the first process: types.                              *)

PageRecord ==
  [link : Nat, timeframeId : Nat \ {0}, first : Int, last : Int, loop : Nat,
   copies : {1, Copies}, rdhShift : Nat, orbitOffset : Nat]

PlayerTypes ==
  /\ player \in PlayerConfigs
  /\ pos \in 1 .. Len(file) + 1 /\ loopCount \in Nat /\ orbitOffset \in Nat
  /\ lastTimeframe \in Nat /\ firstOrbit \in Int
  /\ pages \in Seq(PageRecord)

LinkState ==
  [HBpagecount : Nat, isEmpty : BOOLEAN, payloadBytesLeft : Int, packetCounter : Nat]

EmuPacket == [hb : Nat, page : Nat, stop : BOOLEAN, counter : Nat]
EmuPage == [link : Nat, packets : Seq(EmuPacket) \ {<< >>}]
EmuBlock == [link : Nat, packets : Seq(EmuPacket) \ {<< >>}, timeframeId : Nat \ {0}]

EmulatorTypes ==
  /\ emulator \in EmulatorConfigs
  /\ clock \in Nat /\ LHCorbit \in Nat /\ LHCbc \in Nat
  /\ linkState \in [Links -> LinkState]
  /\ fill \in [link : Nat, orbit : Nat, bc : Nat, id : Nat, packets : Seq(EmuPacket)]
  /\ fill # NoPage => fill.link \in Links
  /\ readyBlocks \in Seq(EmuPage) /\ given \in Seq(EmuBlock)

-----------------------------------------------------------------------------
(* The main loop of the first process.                                     *)

\* What was published is what the consumers were given, at the pace of the limit.
Published ==
  /\ setup \in Setups
  /\ allowed \in Nat /\ taken \subseteq 1 .. Len(Input)
  /\ published \in Seq(Nat \ {0}) /\ Len(published) = countTimeframeId
  /\ currentTimeframeId # 0 => \E k \in 1 .. Len(published) : published[k] = currentTimeframeId
  /\ \A k \in taken : \E j \in 1 .. Len(published) : published[j] = Input[k].timeframeId
  /\ setup.rate = "count" => Len(published) <= allowed
  /\ setup.rate = "id" => \A k \in 1 .. Len(published) : published[k] <= allowed

IInv == ZmqInv /\ Counted /\ PlayerTypes /\ EmulatorTypes /\ Published

-----------------------------------------------------------------------------
(* Sequences.                                                              *)

\* The element at a position of a sequence over S is in S.
LEMMA SeqElement ==
  ASSUME NEW S, NEW s \in Seq(S), NEW k \in 1 .. Len(s)
  PROVE  s[k] \in S
OBVIOUS

\* What is in a sequence after Append.
LEMMA AppendAdds ==
  ASSUME NEW S, NEW s \in Seq(S), NEW x \in S
  PROVE  /\ Append(s, x) \in Seq(S) /\ Len(s) \in Nat
         /\ Len(Append(s, x)) = Len(s) + 1
         /\ Append(s, x)[Len(s) + 1] = x
         /\ \A k \in 1 .. Len(s) : Append(s, x)[k] = s[k]
OBVIOUS

\* What Tail leaves in a sequence.
LEMMA TailRemoves ==
  ASSUME NEW S, NEW s \in Seq(S), s # << >>
  PROVE  /\ Head(s) \in S /\ Head(s) = s[1] /\ Tail(s) \in Seq(S)
         /\ Len(s) \in Nat \ {0} /\ Len(Tail(s)) = Len(s) - 1
         /\ \A k \in 1 .. Len(s) - 1 : Tail(s)[k] = s[k + 1]
OBVIOUS

-----------------------------------------------------------------------------
(* The subscriber.                                                         *)

\* What the blocks hold does not depend on isDataOn or on the timeframes that were heard of.
LEMMA ZmqUntouched ==
  ASSUME ZmqInv, UNCHANGED <<mode, sent, dataIn, nBlocks, snap, lock, spc, smsg, bpc, block, blocks>>
  PROVE  ZmqInv'
BY DEF ZmqInv, ZmqTypes, InSocket, WasSent, Locked, InSnapshot, Before, HasSize, InBlock, Whole,
       OutInOrder, Copied

\* A message of the server, which a subscriber gets.
LEMMA PublishKeeps ==
  ASSUME ZmqInv, NEW z \in Sizes, Publish(z)
  PROVE  ZmqInv'
<1> USE DEF ZmqInv
<1> DEFINE m == [id |-> Len(sent) + 1, size |-> z]
           rest == <<mode, dcsOn, nBlocks, snap, lock, spc, smsg, bpc, block, blocks>>
<1>1. m \in Message /\ sent \in Seq(Message) /\ dataIn \in Seq(Message)
  BY DEF ZmqTypes, Message, Sizes
<1>2. UNCHANGED rest /\ sent' = Append(sent, m) /\ dataIn' = (IF dcsOn THEN Append(dataIn, m) ELSE dataIn)
  BY DEF Publish
<1>3. /\ sent' \in Seq(Message) /\ Len(sent) \in Nat /\ Len(sent') = Len(sent) + 1
      /\ sent'[Len(sent) + 1] = m /\ \A k \in 1 .. Len(sent) : sent'[k] = sent[k]
  <2> HIDE DEF m
  <2> QED BY <1>1, <1>2, AppendAdds
<1>4. \/ dataIn' = dataIn
      \/ /\ dataIn' \in Seq(Message) /\ Len(dataIn) \in Nat /\ Len(dataIn') = Len(dataIn) + 1
         /\ dataIn'[Len(dataIn) + 1] = m /\ \A k \in 1 .. Len(dataIn) : dataIn'[k] = dataIn[k]
  <2> HIDE DEF m
  <2> QED BY <1>1, <1>2, AppendAdds
<1>5. m.id = Len(sent) + 1
  OBVIOUS
<1> HIDE DEF m
<1>6. ASSUME NEW n \in Nat, n <= Len(sent), \A k \in 1 .. Len(dataIn) : n < dataIn[k].id
      PROVE  n <= Len(sent') /\ \A k \in 1 .. Len(dataIn') : n < dataIn'[k].id
  BY SMTT(30), <1>3, <1>4, <1>5, <1>6
<1>7. ASSUME NEW n, NEW y, HasSize(n, y) PROVE HasSize(n, y)'
  BY <1>3, <1>7 DEF HasSize
<1>8. ASSUME NEW x, x.id \in 1 .. Len(sent) /\ sent[x.id] = x
      PROVE  x.id \in 1 .. Len(sent') /\ sent'[x.id] = x
  BY <1>3, <1>8
<1>9. m.id \in 1 .. Len(sent') /\ sent'[m.id] = m
  BY <1>3, <1>5
<1>10. ZmqTypes'
  BY <1>1, <1>2, <1>3, <1>4 DEF ZmqTypes
<1>11. InSocket'
  <2>1. \A k \in 1 .. Len(sent') : sent'[k].id = k
    BY <1>3, <1>5 DEF InSocket
  <2>2. ASSUME NEW k \in 1 .. Len(dataIn')
        PROVE  dataIn'[k].id \in 1 .. Len(sent') /\ sent'[dataIn'[k].id] = dataIn'[k]
    <3>1. CASE k \in 1 .. Len(dataIn) /\ dataIn'[k] = dataIn[k]
      BY <1>8, <3>1 DEF InSocket, WasSent
    <3>2. CASE dataIn'[k] = m
      BY <1>9, <3>2
    <3> QED
      BY <1>4, <3>1, <3>2
  <2>3. ASSUME NEW j \in 1 .. Len(dataIn'), NEW k \in 1 .. Len(dataIn'), j < k
        PROVE  dataIn'[j].id < dataIn'[k].id
    <3>1. \A i \in 1 .. Len(dataIn) : dataIn[i].id \in Nat /\ dataIn[i].id <= Len(sent)
      BY <1>1 DEF InSocket, WasSent, Message
    <3>2. CASE k \in 1 .. Len(dataIn) /\ dataIn'[k] = dataIn[k] /\ dataIn'[j] = dataIn[j]
               /\ j \in 1 .. Len(dataIn)
      BY <2>3, <3>2 DEF InSocket
    <3>3. CASE dataIn'[k] = m /\ dataIn'[j] = dataIn[j] /\ j \in 1 .. Len(dataIn)
      BY <1>3, <1>5, <3>1, <3>3
    <3>4. \/ k \in 1 .. Len(dataIn) /\ dataIn'[k] = dataIn[k] /\ dataIn'[j] = dataIn[j]
               /\ j \in 1 .. Len(dataIn)
          \/ dataIn'[k] = m /\ dataIn'[j] = dataIn[j] /\ j \in 1 .. Len(dataIn)
      BY <1>4, <2>3
    <3> QED
      BY <3>2, <3>3, <3>4
  <2> QED
    BY <2>1, <2>2, <2>3 DEF InSocket, WasSent
<1>12. Locked' /\ InBlock'
  <2>1. Locked'
    BY <1>2 DEF Locked
  <2>2. bpc = "out" => Whole(block)'
    BY <1>2, <1>7 DEF InBlock, Whole
  <2> QED
    BY <1>2, <2>1, <2>2 DEF InBlock, Whole
<1>13. InSnapshot'
  <2>1. snap.lo \in Nat /\ smsg.id \in Nat
    BY DEF ZmqTypes, Message
  <2>2. Before(snap.lo)' /\ (spc # "recv" => WasSent(smsg)' /\ Before(smsg.id)')
    BY <1>2, <1>3, <1>4, <1>5, <2>1 DEF InSnapshot, Before, WasSent
  <2>3. spc # "half" /\ snap.recent => HasSize(snap.lo, snap.size)'
    BY <1>2, <1>3 DEF InSnapshot, HasSize
  <2> QED
    BY <1>2, <2>2, <2>3 DEF InSnapshot
<1>14. OutInOrder'
  <2>1. ASSUME NEW k \in 1 .. Len(blocks) PROVE blocks[k] \in Block
    BY DEF ZmqTypes
  <2>2. ASSUME NEW k \in 1 .. Len(blocks) PROVE Whole(blocks[k])'
    BY <1>2, <1>3 DEF OutInOrder, Whole, HasSize
  <2>3. ASSUME NEW k \in 1 .. Len(blocks), Before(blocks[k].lo) PROVE Before(blocks[k].lo)'
    <3>1. blocks[k].lo \in Nat
      BY <2>1 DEF Block
    <3> QED
      BY <1>2, <1>6, <2>3, <3>1 DEF Before
  <2> QED
    BY <1>2, <2>2, <2>3 DEF OutInOrder, Copied
<1> QED
  BY <1>10, <1>11, <1>12, <1>13, <1>14

\* The snapshot thread takes a message.
LEMMA SnapRecvKeeps ==
  ASSUME ZmqInv, SnapRecv
  PROVE  ZmqInv'
<1> USE DEF ZmqInv
<1>t. /\ Head(dataIn) \in Message /\ Head(dataIn) = dataIn[1] /\ dataIn' \in Seq(Message)
      /\ Len(dataIn) \in Nat \ {0} /\ Len(dataIn') = Len(dataIn) - 1
      /\ \A k \in 1 .. Len(dataIn) - 1 : dataIn'[k] = dataIn[k + 1]
  BY TailRemoves DEF SnapRecv, ZmqTypes
<1>u. spc' = "store" => smsg' = dataIn[1]
  BY <1>t DEF SnapRecv
<1>1. ZmqTypes'
  BY <1>t DEF SnapRecv, ZmqTypes
<1>2. InSocket'
  BY DEF SnapRecv, InSocket, WasSent, ZmqTypes, Message, Block, Sizes
<1>3. Locked'
  BY DEF SnapRecv, Locked, ZmqTypes, Message, Block, Sizes
<1>4. InSnapshot'
  <2>1. dataIn[1] \in Message /\ WasSent(dataIn[1]) /\ snap.lo < dataIn[1].id
    BY <1>t DEF InSocket, InSnapshot, Before
  <2>2. \A k \in 1 .. Len(dataIn') : dataIn[1].id < dataIn'[k].id /\ snap.lo < dataIn'[k].id
    <3> TAKE k \in 1 .. Len(dataIn')
    <3>1. k + 1 \in 1 .. Len(dataIn) /\ 1 \in 1 .. Len(dataIn) /\ 1 < k + 1 /\ dataIn'[k] = dataIn[k + 1]
      BY <1>t
    <3> QED
      BY <3>1 DEF InSocket, InSnapshot, Before
  <2>3. UNCHANGED <<sent, snap, mode, bpc>> /\ mode.snapshot /\ spc = "recv"
        /\ (spc' = "recv" \/ (spc' = "store" /\ smsg' = dataIn[1]))
    BY <1>t DEF SnapRecv
  <2>4. Before(snap.lo)'
    BY <2>2, <2>3 DEF InSnapshot, Before
  <2>5. spc' = "store" => WasSent(smsg)' /\ Before(smsg.id)' /\ snap.lo < smsg'.id
    BY <2>1, <2>2, <2>3 DEF Before, WasSent
  <2> QED
    BY <2>3, <2>4, <2>5 DEF InSnapshot, HasSize
<1>5. InBlock'
  BY DEF SnapRecv, InBlock, Whole, HasSize, Locked, InSnapshot, ZmqTypes, Message, Block, Sizes
<1>6. OutInOrder'
  BY DEF SnapRecv, OutInOrder, Copied, Whole, HasSize, Before, InBlock, InSnapshot, Locked,
     ZmqTypes, Message, Block, Sizes
<1> QED
  BY <1>1, <1>2, <1>3, <1>4, <1>5, <1>6

\* The first half of a message in the snapshot, under the lock.
LEMMA SnapLockKeeps ==
  ASSUME ZmqInv, SnapLock
  PROVE  ZmqInv'
<1> USE DEF ZmqInv
<1>1. ZmqTypes'
  BY DEF SnapLock, ZmqTypes, Message, Block, Sizes, Garbage, None
<1>2. InSocket'
  BY DEF SnapLock, InSocket, WasSent, ZmqTypes, Message, Block, Sizes
<1>3. Locked'
  BY DEF SnapLock, Locked, ZmqTypes, Message, Block, Sizes
<1>4. InSnapshot'
  BY DEF SnapLock, InSnapshot, Before, WasSent, HasSize, ZmqTypes, Message, Block, Sizes
<1>5. InBlock'
  BY DEF SnapLock, InBlock, Whole, HasSize, Locked, InSnapshot, ZmqTypes, Message, Block, Sizes
<1>6. OutInOrder'
  <2>1. UNCHANGED <<mode, sent, dataIn, block, blocks>> /\ spc = "store" /\ bpc # "half"
    BY DEF SnapLock, Locked
  <2>2. snap.lo < snap'.lo /\ snap.lo \in Nat /\ snap'.lo \in Nat
    BY DEF SnapLock, InSnapshot, ZmqTypes, Message
  <2>3. \A k \in 1 .. Len(blocks) : blocks[k].lo \in Nat
    <3>1. \A k \in 1 .. Len(blocks) : blocks[k] \in Block
      BY DEF ZmqTypes
    <3> QED
      BY <3>1 DEF Block
  <2>4. \A k \in 1 .. Len(blocks) : Copied(k) /\ mode.snapshot =>
          blocks[k].lo <= snap'.lo /\ (block.copied => blocks[k].lo <= block.lo)
    BY <2>2, <2>3 DEF OutInOrder
  <2> QED
    BY <2>1, <2>4 DEF OutInOrder, Copied, Whole, HasSize, Before
<1> QED
  BY <1>1, <1>2, <1>3, <1>4, <1>5, <1>6

\* The rest of the message, and the lock goes.
LEMMA SnapUnlockKeeps ==
  ASSUME ZmqInv, SnapUnlock
  PROVE  ZmqInv'
<1> USE DEF ZmqInv
<1>1. ZmqTypes'
  BY DEF SnapUnlock, ZmqTypes, Message, Block, Sizes, Garbage, None
<1>2. InSocket'
  BY DEF SnapUnlock, InSocket, WasSent, ZmqTypes, Message, Block, Sizes
<1>3. Locked'
  BY DEF SnapUnlock, Locked, ZmqTypes, Message, Block, Sizes
<1>4. InSnapshot'
  BY DEF SnapUnlock, InSnapshot, Before, WasSent, HasSize, ZmqTypes, Message, Block, Sizes
<1>5. InBlock'
  BY DEF SnapUnlock, InBlock, Whole, HasSize, Locked, InSnapshot, ZmqTypes, Message, Block, Sizes
<1>6. OutInOrder'
  BY DEF SnapUnlock, OutInOrder, Copied, Whole, HasSize, Before, InBlock, InSnapshot, Locked,
     ZmqTypes, Message, Block, Sizes
<1> QED
  BY <1>1, <1>2, <1>3, <1>4, <1>5, <1>6

\* The snapshot becomes too old.
LEMMA SnapAgesKeeps ==
  ASSUME ZmqInv, SnapAges
  PROVE  ZmqInv'
<1> USE DEF ZmqInv
<1>1. ZmqTypes'
  BY DEF SnapAges, ZmqTypes, Message, Block, Sizes, Garbage, None
<1>2. InSocket'
  BY DEF SnapAges, InSocket, WasSent, ZmqTypes, Message, Block, Sizes
<1>3. Locked'
  BY DEF SnapAges, Locked, ZmqTypes, Message, Block, Sizes
<1>4. InSnapshot'
  BY DEF SnapAges, InSnapshot, Before, WasSent, HasSize, ZmqTypes, Message, Block, Sizes
<1>5. InBlock'
  BY DEF SnapAges, InBlock, Whole, HasSize, Locked, InSnapshot, ZmqTypes, Message, Block, Sizes
<1>6. OutInOrder'
  BY DEF SnapAges, OutInOrder, Copied, Whole, HasSize, Before, InBlock, InSnapshot, Locked,
     ZmqTypes, Message, Block, Sizes
<1> QED
  BY <1>1, <1>2, <1>3, <1>4, <1>5, <1>6

\* getNextBlock() begins.
LEMMA BlockBeginKeeps ==
  ASSUME ZmqInv, BlockBegin
  PROVE  ZmqInv'
<1> USE DEF ZmqInv
<1>1. ZmqTypes'
  BY DEF BlockBegin, ZmqTypes, Message, Block, Sizes, Garbage, None
<1>2. InSocket'
  BY DEF BlockBegin, InSocket, WasSent, ZmqTypes, Message, Block, Sizes
<1>3. Locked'
  BY DEF BlockBegin, Locked, ZmqTypes, Message, Block, Sizes
<1>4. InSnapshot'
  BY DEF BlockBegin, InSnapshot, Before, WasSent, HasSize, ZmqTypes, Message, Block, Sizes
<1>5. InBlock'
  BY DEF BlockBegin, InBlock, Garbage
<1>6. OutInOrder'
  BY DEF BlockBegin, OutInOrder, Garbage, Copied, Whole, HasSize, Before
<1> QED
  BY <1>1, <1>2, <1>3, <1>4, <1>5, <1>6

\* The first half of the snapshot in the block, under the lock.
LEMMA BlockLockKeeps ==
  ASSUME ZmqInv, BlockLock
  PROVE  ZmqInv'
<1> USE DEF ZmqInv
<1>1. ZmqTypes'
  BY DEF BlockLock, ZmqTypes, Message, Block, Sizes, Garbage, None
<1>2. InSocket'
  BY DEF BlockLock, InSocket, WasSent, ZmqTypes, Message, Block, Sizes
<1>3. Locked'
  BY DEF BlockLock, Locked, ZmqTypes, Message, Block, Sizes
<1>4. InSnapshot'
  BY DEF BlockLock, InSnapshot, Before, WasSent, HasSize, ZmqTypes, Message, Block, Sizes
<1>5. InBlock'
  <2>1. UNCHANGED <<snap, sent, spc>> /\ ~block.copied /\ spc # "half"
    BY DEF BlockLock, Locked, InBlock
  <2>2. CASE snap.recent /\ snap.size = "fits"
    <3>1. block' = [block EXCEPT !.lo = snap.lo, !.copied = TRUE] /\ bpc' = "half"
      BY <2>2 DEF BlockLock
    <3>2. block'.lo = snap.lo /\ block'.copied /\ snap.lo \in Nat
      BY <3>1 DEF ZmqTypes, Block
    <3> QED
      BY <2>1, <2>2, <3>1, <3>2 DEF InBlock
  <2>3. CASE ~(snap.recent /\ snap.size = "fits")
    <3>1. block' = block /\ bpc' = "out"
      BY <2>3 DEF BlockLock
    <3> QED
      BY <2>1, <3>1 DEF InBlock, Whole
  <2> QED
    BY <2>2, <2>3
<1>6. OutInOrder'
  BY DEF BlockLock, OutInOrder, Copied, Whole, HasSize, Before, InBlock, InSnapshot, Locked,
     ZmqTypes, Message, Block, Sizes
<1> QED
  BY <1>1, <1>2, <1>3, <1>4, <1>5, <1>6

\* The rest of the snapshot, and the lock goes.
LEMMA BlockUnlockKeeps ==
  ASSUME ZmqInv, BlockUnlock
  PROVE  ZmqInv'
<1> USE DEF ZmqInv
<1>1. ZmqTypes'
  BY DEF BlockUnlock, ZmqTypes, Message, Block, Sizes, Garbage, None
<1>2. InSocket'
  BY DEF BlockUnlock, InSocket, WasSent, ZmqTypes, Message, Block, Sizes
<1>3. Locked'
  BY DEF BlockUnlock, Locked, ZmqTypes, Message, Block, Sizes
<1>4. InSnapshot'
  BY DEF BlockUnlock, InSnapshot, Before, WasSent, HasSize, ZmqTypes, Message, Block, Sizes
<1>5. InBlock'
  BY DEF BlockUnlock, InBlock, Whole, HasSize, Locked, InSnapshot, ZmqTypes, Message, Block, Sizes
<1>6. OutInOrder'
  BY DEF BlockUnlock, OutInOrder, Copied, Whole, HasSize, Before, InBlock, InSnapshot, Locked,
     ZmqTypes, Message, Block, Sizes
<1> QED
  BY <1>1, <1>2, <1>3, <1>4, <1>5, <1>6

\* The block of the snapshot goes out.
LEMMA BlockOutKeeps ==
  ASSUME ZmqInv, BlockOut
  PROVE  ZmqInv'
<1> USE DEF ZmqInv
<1>a. /\ blocks' \in Seq(Block) /\ Len(blocks) \in Nat /\ Len(blocks') = Len(blocks) + 1
      /\ blocks'[Len(blocks) + 1] = block /\ \A k \in 1 .. Len(blocks) : blocks'[k] = blocks[k]
  BY AppendAdds DEF BlockOut, ZmqTypes
<1>b. ~block'.copied
  BY DEF BlockOut, Garbage
<1>1. ZmqTypes'
  BY DEF BlockOut, ZmqTypes, Message, Block, Sizes, Garbage, None
<1>2. InSocket'
  BY DEF BlockOut, InSocket, WasSent, ZmqTypes, Message, Block, Sizes
<1>3. Locked'
  BY DEF BlockOut, Locked, ZmqTypes, Message, Block, Sizes
<1>4. InSnapshot'
  BY DEF BlockOut, InSnapshot, Before, WasSent, HasSize, ZmqTypes, Message, Block, Sizes
<1>5. InBlock'
  BY <1>b DEF BlockOut, InBlock
<1>6. OutInOrder'
  <2>1. UNCHANGED <<mode, sent, dataIn, snap>> /\ mode.snapshot /\ Whole(block)
    BY DEF BlockOut, InSnapshot, InBlock
  <2>2. ASSUME NEW k \in 1 .. Len(blocks')
        PROVE  (k \in 1 .. Len(blocks) /\ blocks'[k] = blocks[k])
                 \/ (k = Len(blocks) + 1 /\ blocks'[k] = block)
    BY <1>a
  <2>3. \A k \in 1 .. Len(blocks') : Whole(blocks[k])'
    BY <2>1, <2>2 DEF OutInOrder, Whole, HasSize
  <2>4. \A k \in 1 .. Len(blocks') : blocks'[k].copied => blocks'[k].lo <= snap.lo
    BY <2>1, <2>2 DEF OutInOrder, InBlock, Copied
  <2>5. ASSUME NEW j \in 1 .. Len(blocks'), NEW k \in 1 .. Len(blocks'),
               j < k, blocks'[j].copied, blocks'[k].copied
        PROVE  blocks'[j].lo <= blocks'[k].lo
    <3>1. j \in 1 .. Len(blocks) /\ blocks'[j] = blocks[j]
      BY <1>a, <2>5
    <3>2. CASE k \in 1 .. Len(blocks) /\ blocks'[k] = blocks[k]
      BY <2>5, <3>1, <3>2 DEF OutInOrder, Copied
    <3>3. CASE blocks'[k] = block
      BY <2>1, <2>5, <3>1, <3>3 DEF OutInOrder, Copied
    <3> QED
      BY <2>2, <3>2, <3>3
  <2> QED
    BY <1>b, <2>1, <2>3, <2>4, <2>5 DEF OutInOrder, Copied
<1> QED
  BY <1>1, <1>2, <1>3, <1>4, <1>5, <1>6

\* A message becomes a block.
LEMMA StreamBlockKeeps ==
  ASSUME ZmqInv, StreamBlock
  PROVE  ZmqInv'
<1> USE DEF ZmqInv
<1> DEFINE h == Head(dataIn)
           new == [lo |-> h.id, hi |-> h.id, copied |-> TRUE]
<1>1. /\ h \in Message /\ h = dataIn[1] /\ dataIn' \in Seq(Message)
      /\ Len(dataIn) \in Nat \ {0} /\ Len(dataIn') = Len(dataIn) - 1
      /\ \A k \in 1 .. Len(dataIn) - 1 : dataIn'[k] = dataIn[k + 1]
  BY TailRemoves DEF StreamBlock, ZmqTypes
<1>2. UNCHANGED <<mode, sent, nBlocks, snap, lock, spc, smsg, bpc, block>> /\ ~mode.snapshot
  BY DEF StreamBlock
<1>3. WasSent(h) /\ Before(snap.lo)
  BY <1>1 DEF InSocket, InSnapshot
<1>4. \A k \in 1 .. Len(dataIn') : k + 1 \in 1 .. Len(dataIn) /\ dataIn'[k] = dataIn[k + 1]
  BY <1>1
<1>5. \A k \in 1 .. Len(dataIn') : h.id < dataIn'[k].id
  BY <1>1, <1>4 DEF InSocket
<1>6. InSocket'
  <2>1. \A k \in 1 .. Len(dataIn') : dataIn'[k].id \in 1 .. Len(sent) /\ sent[dataIn'[k].id] = dataIn'[k]
    BY <1>4 DEF InSocket, WasSent
  <2>2. \A j, k \in 1 .. Len(dataIn') : j < k => dataIn'[j].id < dataIn'[k].id
    BY SMTT(30), <1>4 DEF InSocket
  <2> QED
    BY <1>2, <2>1, <2>2 DEF InSocket, WasSent
<1>7. Locked' /\ InBlock'
  BY <1>2 DEF Locked, InBlock, Whole, HasSize
<1>8. InSnapshot'
  <2>1. Before(snap.lo)'
    BY <1>2, <1>3, <1>4 DEF Before
  <2> QED
    BY <1>2, <2>1 DEF InSnapshot, HasSize
<1>9. ASSUME NEW k \in 1 .. Len(blocks), Copied(k) PROVE blocks[k].lo < h.id /\ Before(blocks[k].lo)
  BY <1>1, <1>2, <1>9 DEF OutInOrder, Before
<1>10. CASE h.size # "fits"
  <2>1. blocks' = blocks
    BY <1>10 DEF StreamBlock
  <2>2. ZmqTypes'
    BY <1>1, <1>2, <2>1 DEF ZmqTypes
  <2>3. OutInOrder'
    BY <1>2, <1>4, <2>1 DEF OutInOrder, Copied, Whole, HasSize, Before
  <2> QED
    BY <1>6, <1>7, <1>8, <2>2, <2>3
<1>11. CASE h.size = "fits"
  <2>1. blocks' = Append(blocks, new)
    BY <1>11 DEF StreamBlock
  <2>2. new \in Block /\ blocks \in Seq(Block)
    BY <1>1 DEF ZmqTypes, Block, Message
  <2>3. new.lo = h.id /\ new.hi = h.id /\ new.copied
    OBVIOUS
  <2> HIDE DEF new, h
  <2>4. /\ blocks' \in Seq(Block) /\ Len(blocks) \in Nat /\ Len(blocks') = Len(blocks) + 1
        /\ blocks'[Len(blocks) + 1] = new /\ \A k \in 1 .. Len(blocks) : blocks'[k] = blocks[k]
    BY <2>1, <2>2, AppendAdds
  <2>5. ZmqTypes'
    BY <1>1, <1>2, <2>4 DEF ZmqTypes
  <2>6. ASSUME NEW k \in 1 .. Len(blocks')
        PROVE  (k \in 1 .. Len(blocks) /\ blocks'[k] = blocks[k])
                 \/ (k = Len(blocks) + 1 /\ blocks'[k] = new)
    BY <2>4
  <2>7. HasSize(h.id, "fits")
    BY <1>3, <1>11 DEF WasSent, HasSize
  <2>8. \A k \in 1 .. Len(blocks') : Whole(blocks[k])'
    BY <1>2, <2>3, <2>6, <2>7 DEF OutInOrder, Whole, HasSize
  <2>9. \A k \in 1 .. Len(blocks') : blocks'[k].copied => Before(blocks[k].lo)'
    <3> SUFFICES ASSUME NEW k \in 1 .. Len(blocks'), blocks'[k].copied
                 PROVE  /\ blocks'[k].lo <= Len(sent)
                        /\ \A i \in 1 .. Len(dataIn') : blocks'[k].lo < dataIn'[i].id
      BY <1>2 DEF Before
    <3>1. CASE k \in 1 .. Len(blocks) /\ blocks'[k] = blocks[k]
      BY <1>4, <1>9, <3>1 DEF Before, Copied
    <3>2. CASE blocks'[k] = new
      BY <1>3, <1>5, <2>3, <3>2 DEF WasSent
    <3> QED
      BY <2>6, <3>1, <3>2
  <2>10. ASSUME NEW j \in 1 .. Len(blocks'), NEW k \in 1 .. Len(blocks'),
                j < k, blocks'[j].copied, blocks'[k].copied
         PROVE  blocks'[j].lo < blocks'[k].lo
    <3>1. j \in 1 .. Len(blocks) /\ blocks'[j] = blocks[j] /\ Copied(j)
      BY <2>4, <2>10 DEF Copied
    <3>2. CASE k \in 1 .. Len(blocks) /\ blocks'[k] = blocks[k]
      BY <1>2, <2>10, <3>1, <3>2 DEF OutInOrder, Copied
    <3>3. CASE blocks'[k] = new
      BY <1>9, <2>3, <3>1, <3>3
    <3> QED
      BY <2>6, <3>2, <3>3
  <2>11. \A k \in 1 .. Len(blocks') : blocks'[k].lo \in Nat
    <3>1. \A k \in 1 .. Len(blocks') : blocks'[k] \in Block
      BY <2>4
    <3> QED
      BY <3>1 DEF Block
  <2> QED
    <3>1. OutInOrder'
      BY <1>2, <2>8, <2>9, <2>10, <2>11 DEF OutInOrder, Copied
    <3> QED
      BY <1>6, <1>7, <1>8, <2>5, <3>1
<1> QED
  BY <1>10, <1>11

\* tfClientCallback(): only the count of the blocks.
LEMMA TfCallbackKeeps ==
  ASSUME ZmqInv, TfCallback
  PROVE  ZmqInv'
<1> USE DEF ZmqInv
<1>1. ZmqTypes'
  BY DEF TfCallback, ZmqTypes, Message, Block, Sizes, Garbage, None
<1>2. InSocket'
  BY DEF TfCallback, InSocket, WasSent, ZmqTypes, Message, Block, Sizes
<1>3. Locked'
  BY DEF TfCallback, Locked, ZmqTypes, Message, Block, Sizes
<1>4. InSnapshot'
  BY DEF TfCallback, InSnapshot, Before, WasSent, HasSize, ZmqTypes, Message, Block, Sizes
<1>5. InBlock'
  BY DEF TfCallback, InBlock, Whole, HasSize, Locked, InSnapshot, ZmqTypes, Message, Block, Sizes
<1>6. OutInOrder'
  BY DEF TfCallback, OutInOrder, Copied, Whole, HasSize, Before, InBlock, InSnapshot, Locked,
     ZmqTypes, Message, Block, Sizes
<1> QED
  BY <1>1, <1>2, <1>3, <1>4, <1>5, <1>6

-----------------------------------------------------------------------------
(* The player.                                                             *)

\* A set of natural numbers has a least element.
LEMMA LeastElement ==
  ASSUME NEW T, T \subseteq Nat, T # {}
  PROVE  \E x \in T : \A y \in T : x <= y
<1> DEFINE R == OpToRel(<, Nat)
<1>1. IsWellFoundedOn(R, Nat)
  BY NatLessThanWellFounded
<1>2. \A x, y \in Nat : y < x => <<y, x>> \in R
  BY DEF OpToRel
<1> HIDE DEF R
<1>3. \E x \in T : \A y \in T : ~ (<<y, x>> \in R)
  BY <1>1, WFMin
<1>4. PICK x \in T : \A y \in T : ~ (<<y, x>> \in R)
  BY <1>3, Zenon
<1>5. ASSUME NEW y \in T PROVE x <= y
  <2>1. x \in Nat /\ y \in Nat
    OBVIOUS
  <2>2. ~ (<<y, x>> \in R)
    BY <1>4, Zenon
  <2>3. ~ (y < x)
    BY <1>2, <2>1, <2>2, Zenon
  <2> QED
    BY <2>1, <2>3
<1> QED
  BY <1>5

\* The file of a configuration is a sequence of packets, and not empty.
LEMMA FileType ==
  ASSUME player \in PlayerConfigs
  PROVE  file \in Seq(FilePackets) /\ Len(file) \in Nat \ {0}
BY PlayerAssumption DEF file

\* The scan of a page ends at the first packet that is not in it, at the latest behind the file.
LEMMA ScanEnds ==
  ASSUME PlayerTypes
  PROVE  /\ ScanEnd \in pos .. Len(file) + 1
         /\ ~InPage(ScanEnd)
         /\ \A j \in pos .. ScanEnd - 1 : InPage(j)
<1> DEFINE T == {i \in pos .. Len(file) + 1 : ~InPage(i)}
<1>1. Len(file) \in Nat \ {0} /\ pos \in 1 .. Len(file) + 1
  BY FileType DEF PlayerTypes
<1>2. ~InPage(Len(file) + 1)
  BY <1>1 DEF InPage, HeaderCut
<1>3. T \subseteq Nat /\ Len(file) + 1 \in T
  BY <1>1, <1>2
<1>4. PICK x \in T : \A y \in T : x <= y
  <2> HIDE DEF T
  <2> QED BY <1>3, LeastElement
<1>5. x \in pos .. Len(file) + 1 /\ ~InPage(x)
  OBVIOUS
<1>6. ASSUME NEW j \in pos .. x - 1 PROVE InPage(j)
  <2>1. j \in pos .. Len(file) + 1 /\ ~(x <= j)
    BY <1>1, <1>5
  <2> QED
    BY <1>4, <2>1
<1>7. \E i \in pos .. Len(file) + 1 : ~InPage(i) /\ \A j \in pos .. i - 1 : InPage(j)
  BY <1>5, <1>6
<1> HIDE DEF T
<1> QED
  BY <1>7 DEF ScanEnd

\* A header that was read is that of a packet of the file.
LEMMA HeaderInFile == \A i : ~HeaderCut(i) => ~(i > Len(file))
BY DEF HeaderCut

\* A timeframe id is a positive number.
LEMMA TimeframeType == \A first, orbit \in Int : TimeframeOf(first, orbit) \in Nat \ {0}
<1> SUFFICES ASSUME NEW first \in Int, NEW orbit \in Int PROVE TimeframeOf(first, orbit) \in Nat \ {0}
  OBVIOUS
<1>1. (orbit - first) % OrbitMod \in Nat
  BY PlayerAssumption
<1>2. ((orbit - first) % OrbitMod) \div Period \in Nat
  <2> DEFINE x == (orbit - first) % OrbitMod
  <2> HIDE DEF x
  <2>1. x \in Nat => x \div Period \in Nat
    BY PlayerAssumption
  <2> QED
    BY <1>1, <2>1 DEF x
<1> QED
  BY <1>2 DEF TimeframeOf

\* The timeframe of a packet of the file, when the page begins in the file.
LEMMA PacketTimeframeType ==
  ASSUME PlayerTypes, pos <= Len(file), NEW i \in 1 .. Len(file)
  PROVE  PacketTimeframe(i) \in Nat \ {0} /\ First \in Int
<1>1. file[i] \in FilePackets /\ file[pos] \in FilePackets
  BY FileType, SeqElement DEF PlayerTypes
<1>2. file[i].orbit \in Int /\ file[pos].orbit \in Int
  BY <1>1, PlayerAssumption DEF FilePackets
<1>3. First \in Int /\ file[i].orbit + orbitOffset \in Int
  BY <1>2 DEF First, PlayerTypes
<1> QED
  BY <1>3, TimeframeType DEF PacketTimeframe

\* What the scan keeps has its type.
LEMMA KeepScanTypes ==
  ASSUME PlayerTypes, KeepScan
  PROVE  lastTimeframe' \in Nat /\ firstOrbit' \in Int
<1>1. /\ ScanEnd \in pos .. Len(file) + 1 /\ Len(file) \in Nat /\ pos \in 1 .. Len(file) + 1
      /\ lastTimeframe \in Nat /\ firstOrbit \in Int
  BY ScanEnds, FileType DEF PlayerTypes
<1>2. CASE LastScanned < pos
  BY <1>1, <1>2 DEF KeepScan
<1>3. CASE ~(LastScanned < pos)
  <2>1. LastScanned \in 1 .. Len(file) /\ pos <= Len(file)
    <3>1. CASE HeaderCut(ScanEnd) \/ RdhError
      <4>1. LastScanned = ScanEnd - 1
        BY <3>1 DEF LastScanned
      <4> QED
        BY <1>1, <1>3, <4>1
    <3>2. CASE ~(HeaderCut(ScanEnd) \/ RdhError)
      <4>1. LastScanned = ScanEnd
        BY <3>2 DEF LastScanned
      <4>2. ~(ScanEnd > Len(file))
        BY <3>2, HeaderInFile
      <4> QED
        BY <1>1, <4>1, <4>2
    <3> QED
      BY <3>1, <3>2
  <2>2. PacketTimeframe(LastScanned) \in Nat /\ First \in Int
    BY <2>1, PacketTimeframeType
  <2> QED
    BY <1>3, <2>2 DEF KeepScan
<1> QED
  BY <1>2, <1>3

\* The type of a page depends on the configuration only.
LEMMA PageRecordKept ==
  ASSUME player' = player
  PROVE  PageRecord' = PageRecord /\ file' = file
<1>1. fileSize' = fileSize
  BY DEF fileSize, FileOffset, file
<1>2. Copies' = Copies
  BY <1>1 DEF Copies
<1> QED
  BY <1>2 DEF PageRecord, file

\* START sets the replay back.
LEMMA PlayerStarts ==
  ASSUME PlayerTypes, PlayerStart
  PROVE  PlayerTypes' /\ pages' = << >>
<1>1. player' = player
  BY DEF PlayerStart
<1>2. PageRecord' = PageRecord /\ file' = file
  BY <1>1, PageRecordKept
<1>3. pos' = 1 /\ loopCount' = 0 /\ orbitOffset' = 0 /\ lastTimeframe' = 0 /\ firstOrbit' \in Int
      /\ pages' = << >>
  BY DEF PlayerStart, PlayerReset, NoOrbit
<1>4. << >> \in Seq(PageRecord)
  OBVIOUS
<1>5. player \in PlayerConfigs /\ Len(file) \in Nat
  BY FileType DEF PlayerTypes
<1> QED
  BY <1>1, <1>2, <1>3, <1>4, <1>5 DEF PlayerTypes

\* STOP and the pages of a replay keep the types of the player, and the pages given out.
LEMMA PlayerKeeps ==
  ASSUME PlayerTypes, PlayerStop \/ PlayerStep \/ ReadError \/ UNCHANGED playerVars
  PROVE  /\ PlayerTypes'
         /\ \/ pages' = pages
            \/ \E p \in PageRecord : pages' = Append(pages, p)
<1>1. player' = player
  BY DEF PlayerStop, PlayerStep, ReadError, playerVars, NextPage, AbortReplay,
         ReplayCompleted, NextLoop, CopyPage
<1>2. PageRecord' = PageRecord /\ file' = file
  BY <1>1, PageRecordKept
<1>3. /\ player \in PlayerConfigs /\ pages \in Seq(PageRecord) /\ Len(file) \in Nat \ {0}
      /\ pos \in 1 .. Len(file) + 1 /\ loopCount \in Nat /\ orbitOffset \in Nat
      /\ lastTimeframe \in Nat /\ firstOrbit \in Int /\ file \in Seq(FilePackets)
  BY FileType DEF PlayerTypes
<1>4. CASE PlayerStop \/ ReadError \/ ReplayCompleted \/ UNCHANGED playerVars
  <2>1. UNCHANGED <<pos, loopCount, orbitOffset, lastTimeframe, firstOrbit, pages>>
    BY <1>4 DEF PlayerStop, ReadError, ReplayCompleted, playerVars
  <2> QED
    BY <1>1, <1>2, <1>3, <2>1 DEF PlayerTypes
<1>5. CASE NextPage
  <2>1. pages' = Append(pages, Page) /\ pos' = ScanEnd /\ KeepScan /\ ScanEnd > pos
        /\ UNCHANGED <<loopCount, orbitOffset>>
    BY <1>5 DEF NextPage
  <2>2. ScanEnd \in pos .. Len(file) + 1 /\ lastTimeframe' \in Nat /\ firstOrbit' \in Int
    BY <2>1, ScanEnds, KeepScanTypes
  <2>3. pos <= Len(file) /\ pos \in 1 .. Len(file)
    BY <1>3, <2>1, <2>2
  <2>4. file[pos] \in FilePackets /\ PacketTimeframe(pos) \in Nat \ {0}
    BY <1>3, <2>3, SeqElement, PacketTimeframeType
  <2>5. file[pos].link \in Nat /\ ScanEnd - 1 \in Int /\ pos \in Int
    BY SMTT(30), <1>3, <2>2, <2>4 DEF FilePackets
  <2>6. Page \in PageRecord
    BY <1>3, <2>4, <2>5 DEF Page, PageRecord
  <2>7. pages' \in Seq(PageRecord)
    BY <1>3, <2>1, <2>6, AppendAdds
  <2> QED
    BY <1>1, <1>2, <1>3, <2>1, <2>2, <2>6, <2>7 DEF PlayerTypes
<1>6. CASE AbortReplay
  <2>1. pos' = ScanEnd /\ KeepScan /\ UNCHANGED <<loopCount, orbitOffset, pages>>
    BY <1>6 DEF AbortReplay
  <2>2. ScanEnd \in pos .. Len(file) + 1 /\ lastTimeframe' \in Nat /\ firstOrbit' \in Int
    BY <2>1, ScanEnds, KeepScanTypes
  <2>3. pos' \in 1 .. Len(file) + 1
    BY <1>3, <2>1, <2>2
  <2> QED
    BY <1>1, <1>2, <1>3, <2>1, <2>2, <2>3 DEF PlayerTypes
<1>7. CASE NextLoop
  <2>1. pos' = 1 /\ loopCount' = loopCount + 1 /\ orbitOffset' = (lastTimeframe * Period) % OrbitMod
        /\ UNCHANGED <<lastTimeframe, firstOrbit, pages>>
    BY <1>7 DEF NextLoop
  <2>2. orbitOffset' \in Nat
    BY <1>3, <2>1, PlayerAssumption
  <2> QED
    BY <1>1, <1>2, <1>3, <2>1, <2>2 DEF PlayerTypes
<1>8. CASE CopyPage
  <2> DEFINE p == [link |-> file[1].link, timeframeId |-> 1, first |-> 1, last |-> Len(file),
                   loop |-> 0, copies |-> Copies, rdhShift |-> 0, orbitOffset |-> 0]
  <2>1. pages' = Append(pages, p) /\ UNCHANGED <<pos, loopCount, orbitOffset, lastTimeframe, firstOrbit>>
    BY <1>8 DEF CopyPage
  <2>2. file[1] \in FilePackets
    BY <1>3, SeqElement
  <2>3. file[1].link \in Nat
    BY <2>2 DEF FilePackets
  <2>4. p \in PageRecord
    BY <1>3, <2>3 DEF PageRecord
  <2> HIDE DEF p
  <2>5. pages' \in Seq(PageRecord)
    BY <1>3, <2>1, <2>4, AppendAdds
  <2> QED
    BY <1>1, <1>2, <1>3, <2>1, <2>4, <2>5 DEF PlayerTypes
<1> QED
  BY <1>4, <1>5, <1>6, <1>7, <1>8 DEF PlayerStep

-----------------------------------------------------------------------------
(* The emulator.                                                           *)

\* What is assumed of the configuration.
LEMMA EmulatorConfig ==
  ASSUME emulator \in EmulatorConfigs
  PROVE  /\ emulator.numberOfLinks \in Nat \ {0} /\ emulator.bcStep \in Nat \ {0}
         /\ emulator.HBperiod \in Nat \ {0} /\ emulator.capacity \in Nat \ {0}
         /\ emulator.payloads \subseteq Nat \cup {Empty}
         /\ LHCBunches \in Nat \ {0} /\ TimeframePeriod \in Nat \ {0}
BY EmulatorAssumption

\* The timeframe of an orbit is a positive number.
LEMMA OrbitTimeframe ==
  ASSUME NEW n \in Nat, TimeframePeriod \in Nat \ {0}
  PROVE  TimeframeFromOrbit(n) \in Nat \ {0}
<1>1. n \div TimeframePeriod \in Nat
  OBVIOUS
<1> QED
  BY <1>1 DEF TimeframeFromOrbit

\* The packet that is written, and the state of its link, have their types.
LEMMA PacketTypes ==
  ASSUME NEW s \in LinkState, NEW orbit \in Nat, emulator \in EmulatorConfigs
  PROVE  /\ [hb |-> orbit \div emulator.HBperiod, page |-> s.HBpagecount, stop |-> StopBit(s),
             counter |-> s.packetCounter] \in EmuPacket
         /\ AfterPacket(s) \in LinkState
<1>1. orbit \div emulator.HBperiod \in Nat
  BY EmulatorConfig
<1>2. /\ s.HBpagecount \in Nat /\ s.isEmpty \in BOOLEAN /\ s.payloadBytesLeft \in Int
      /\ s.packetCounter \in Nat
  BY DEF LinkState
<1>3. StopBit(s) \in BOOLEAN
  BY Zenon DEF StopBit
<1>4. (s.packetCounter + 1) % 256 \in Nat
  BY <1>2
<1> DEFINE left == IF StopBit(s) THEN NoFrame
                   ELSE IF s.payloadBytesLeft > 0 THEN s.payloadBytesLeft - 1 ELSE s.payloadBytesLeft
<1>5. left \in Int
  BY <1>2 DEF NoFrame
<1>6. AfterPacket(s) = [s EXCEPT !.packetCounter = (s.packetCounter + 1) % 256,
                                 !.payloadBytesLeft = left]
  BY DEF AfterPacket, LinkState
<1> HIDE DEF left
<1>7. AfterPacket(s) \in LinkState
  BY ZenonT(30), <1>4, <1>5, <1>6 DEF LinkState
<1> QED
  BY <1>1, <1>2, <1>3, <1>7 DEF EmuPacket

\* A packet in the page keeps the types.
LEMMA WriteKeeps ==
  ASSUME EmulatorTypes, fill # NoPage, NEW s \in LinkState, NEW orbit \in Nat, NEW bc \in Nat,
         NEW id \in Nat, Write(s, orbit, bc, id)
  PROVE  EmulatorTypes' /\ given' = given
<1> DEFINE p == [hb |-> orbit \div emulator.HBperiod, page |-> s.HBpagecount, stop |-> StopBit(s),
                 counter |-> s.packetCounter]
<1> DEFINE F == [link : Nat, orbit : Nat, bc : Nat, id : Nat, packets : Seq(EmuPacket)]
<1>1. p \in EmuPacket /\ AfterPacket(s) \in LinkState
  BY PacketTypes DEF EmulatorTypes
<1>2. fill' = [fill EXCEPT !.orbit = orbit, !.bc = bc, !.id = id, !.packets = Append(@, p)]
  BY DEF Write
<1>3. /\ linkState' = [linkState EXCEPT ![fill.link] = AfterPacket(s)]
      /\ UNCHANGED <<emulator, clock, LHCorbit, LHCbc, readyBlocks, given>>
  BY DEF Write
<1>4. fill \in F /\ fill.link \in Links /\ linkState \in [Links -> LinkState]
  BY DEF EmulatorTypes
<1> HIDE DEF p
<1>5. Append(fill.packets, p) \in Seq(EmuPacket)
  BY <1>1, <1>4, AppendAdds
<1>6. fill' \in F /\ fill'.link = fill.link
  BY <1>2, <1>4, <1>5
<1>7. Links' = Links
  BY <1>3 DEF Links
<1>8. linkState' \in [Links -> LinkState]
  BY <1>1, <1>3, <1>4
<1> QED
  BY <1>3, <1>4, <1>6, <1>7, <1>8 DEF EmulatorTypes

\* A new page of a link is empty.
LEMMA NewFillType ==
  ASSUME NEW l \in Nat, NEW orbit \in Nat, NEW bc \in Nat, TimeframePeriod \in Nat \ {0}
  PROVE  /\ NewFill(l, orbit, bc) \in
              [link : Nat, orbit : Nat, bc : Nat, id : Nat, packets : Seq(EmuPacket)]
         /\ NewFill(l, orbit, bc).link = l
<1>1. TimeframeFromOrbit(orbit) \in Nat
  BY OrbitTimeframe
<1>2. << >> \in Seq(EmuPacket)
  OBVIOUS
<1> QED
  BY <1>1, <1>2 DEF NewFill

\* The time goes on: the frame that follows has an orbit and a bunch crossing.
LEMMA NextTime ==
  ASSUME EmulatorTypes
  PROVE  NextOrbit \in Nat /\ NextBc \in Nat
<1>1. fill.bc \in Nat /\ fill.orbit \in Nat
  BY DEF EmulatorTypes
<1>2. emulator.bcStep \in Nat /\ LHCBunches \in Nat \ {0}
  BY EmulatorConfig DEF EmulatorTypes
<1>3. fill.bc + emulator.bcStep \in Nat
  BY <1>1, <1>2
<1>4. \A n \in Nat : n % LHCBunches \in Nat /\ n \div LHCBunches \in Nat
  BY <1>2
<1> QED
  BY <1>1, <1>3, <1>4 DEF NextOrbit, NextBc

\* START sets the emulator back.
LEMMA EmulatorStarts ==
  ASSUME EmulatorTypes, EmulatorStart
  PROVE  EmulatorTypes' /\ given' = << >>
<1>1. /\ clock' = 0 /\ LHCorbit' = 0 /\ LHCbc' = 0 /\ linkState' = [l \in Links |-> NewLink]
      /\ readyBlocks' = << >> /\ given' = << >> /\ emulator' = emulator /\ fill' = fill
  BY DEF EmulatorStart
<1>2. NewLink \in LinkState
  BY DEF NewLink, LinkState, NoFrame
<1>3. Links' = Links
  BY <1>1 DEF Links
<1>4. linkState' \in [Links -> LinkState]
  BY <1>1, <1>2
<1>5. << >> \in Seq(EmuPage) /\ << >> \in Seq(EmuBlock)
  OBVIOUS
<1> QED
  BY <1>1, <1>3, <1>4, <1>5 DEF EmulatorTypes

\* STOP, the clock and the pages keep the types of the emulator; a block that is given
\* has packets and a timeframe.
LEMMA EmulatorKeeps ==
  ASSUME EmulatorTypes,
         EmulatorStop \/ EmulatorStep \/ ClockTicks \/ UNCHANGED emuVars
  PROVE  /\ EmulatorTypes'
         /\ \/ given' = given
            \/ \E b \in EmuBlock : given' = Append(given, b)
<1> DEFINE F == [link : Nat, orbit : Nat, bc : Nat, id : Nat, packets : Seq(EmuPacket)]
<1>1. /\ emulator \in EmulatorConfigs /\ clock \in Nat /\ LHCorbit \in Nat /\ LHCbc \in Nat
      /\ linkState \in [Links -> LinkState] /\ fill \in F /\ (fill # NoPage => fill.link \in Links)
      /\ readyBlocks \in Seq(EmuPage) /\ given \in Seq(EmuBlock)
  BY DEF EmulatorTypes
<1>2. /\ emulator.numberOfLinks \in Nat \ {0} /\ emulator.capacity \in Nat \ {0}
      /\ emulator.payloads \subseteq Nat \cup {Empty} /\ TimeframePeriod \in Nat \ {0}
  BY <1>1, EmulatorConfig
<1>3. << >> \in Seq(EmuPage) /\ << >> \in Seq(EmuBlock)
  OBVIOUS
<1>4. CASE EmulatorStop \/ ClockTicks \/ UNCHANGED emuVars
  <2>1. /\ clock' \in Nat /\ (readyBlocks' = readyBlocks \/ readyBlocks' = << >>)
        /\ UNCHANGED <<emulator, LHCorbit, LHCbc, linkState, fill, given>>
    BY <1>1, <1>4 DEF EmulatorStop, ClockTicks, emuVars
  <2>2. Links' = Links
    BY <2>1 DEF Links
  <2> QED
    BY <1>1, <1>3, <2>1, <2>2 DEF EmulatorTypes
<1>5. CASE PrepareBlocks
  <2>1. /\ LHCorbit' = NowOrbit
        /\ fill' = IF pendingBlocks' = emulator.numberOfLinks THEN NewFill(1, NowOrbit, LHCbc) ELSE NoPage
        /\ UNCHANGED <<emulator, clock, LHCbc, linkState, readyBlocks, given>>
    BY <1>5 DEF PrepareBlocks
  <2>2. NowOrbit \in Nat
    BY <1>1 DEF NowOrbit
  <2>3. NewFill(1, NowOrbit, LHCbc) \in F /\ NewFill(1, NowOrbit, LHCbc).link = 1
    BY <1>1, <1>2, <2>2, NewFillType
  <2>4. NoPage \in F
    BY DEF NoPage
  <2>5. Links' = Links /\ 1 \in Links /\ NoPage' = NoPage
    BY <1>2, <2>1 DEF Links, NoPage
  <2>6. fill' \in F /\ (fill' # NoPage => fill'.link \in Links)
    BY <2>1, <2>3, <2>4, <2>5
  <2> QED
    BY <1>1, <2>1, <2>2, <2>5, <2>6 DEF EmulatorTypes
<1>6. ASSUME NEW payload \in emulator.payloads, NewFrame(payload)
      PROVE  EmulatorTypes' /\ given' = given
  <2> DEFINE n == IF payload = Empty THEN 0 ELSE payload
  <2> DEFINE s == [State EXCEPT !.HBpagecount = 0, !.isEmpty = (payload = Empty),
                                !.payloadBytesLeft = n]
  <2> DEFINE id == IF IsNewTF THEN TimeframeFromOrbit(NextOrbit) ELSE fill.id
  <2>1. fill # NoPage /\ Write(s, NextOrbit, NextBc, id)
    BY <1>6 DEF NewFrame
  <2>2. State \in LinkState
    BY <1>1, <2>1 DEF State
  <2>3. n \in Int /\ (payload = Empty) \in BOOLEAN
    BY <1>2 DEF Empty
  <2>4. s \in LinkState
    <3> HIDE DEF n
    <3> QED BY <2>2, <2>3 DEF LinkState
  <2>5. NextOrbit \in Nat /\ NextBc \in Nat
    BY NextTime
  <2>6. id \in Nat
    BY <1>1, <1>2, <2>5, OrbitTimeframe
  <2> HIDE DEF s, id
  <2> QED
    BY <2>1, <2>4, <2>5, <2>6, WriteKeeps
<1>7. CASE ContinueFrame
  <2> DEFINE s == [State EXCEPT !.HBpagecount = @ + 1]
  <2>1. fill # NoPage /\ Write(s, fill.orbit, fill.bc, fill.id)
    BY <1>7 DEF ContinueFrame
  <2>2. State \in LinkState
    BY <1>1, <2>1 DEF State
  <2>3. s \in LinkState
    BY <2>2 DEF LinkState
  <2>4. fill.orbit \in Nat /\ fill.bc \in Nat /\ fill.id \in Nat
    BY <1>1
  <2> HIDE DEF s
  <2> QED
    BY <2>1, <2>3, <2>4, WriteKeeps
<1>8. CASE EndPage
  <2> DEFINE p == [link |-> fill.link, packets |-> fill.packets]
  <2>1. /\ fill # NoPage /\ (PageFull \/ FrameNeedsPage) /\ readyBlocks' = Append(readyBlocks, p)
        /\ UNCHANGED <<emulator, clock, linkState, given>>
    BY <1>8 DEF EndPage
  <2>2. \/ /\ fill.link < emulator.numberOfLinks /\ fill' = NewFill(fill.link + 1, LHCorbit, LHCbc)
           /\ UNCHANGED <<LHCorbit, LHCbc>>
        \/ fill' = NoPage /\ LHCorbit' = fill.orbit /\ LHCbc' = fill.bc
    BY <1>8 DEF EndPage
  <2>3. fill.packets \in Seq(EmuPacket) \ {<< >>}
    BY <1>1, <1>2, <2>1 DEF PageFull, FrameNeedsPage, PageBegins
  <2>4. p \in EmuPage
    BY <1>1, <2>3 DEF EmuPage
  <2>5. readyBlocks' \in Seq(EmuPage)
    <3> HIDE DEF p
    <3> QED BY <1>1, <2>1, <2>4, AppendAdds
  <2>6. Links' = Links /\ NoPage' = NoPage /\ NoPage \in F
    BY <2>1 DEF Links, NoPage
  <2>7. /\ LHCorbit' \in Nat /\ LHCbc' \in Nat
        /\ fill' \in F /\ (fill' # NoPage => fill'.link \in Links)
    <3>1. CASE /\ fill.link < emulator.numberOfLinks /\ fill' = NewFill(fill.link + 1, LHCorbit, LHCbc)
               /\ UNCHANGED <<LHCorbit, LHCbc>>
      <4>1. fill.link + 1 \in Nat /\ fill.link + 1 \in Links
        BY <1>1, <1>2, <2>1, <3>1 DEF Links
      <4>2. fill' \in F /\ fill'.link = fill.link + 1
        BY <1>1, <1>2, <3>1, <4>1, NewFillType
      <4> QED
        BY <1>1, <3>1, <4>1, <4>2
    <3>2. CASE fill' = NoPage /\ LHCorbit' = fill.orbit /\ LHCbc' = fill.bc
      BY <1>1, <2>6, <3>2
    <3> QED
      BY <2>2, <3>1, <3>2
  <2> QED
    BY <1>1, <2>1, <2>5, <2>6, <2>7 DEF EmulatorTypes
<1>9. CASE GetNextBlock
  <2> DEFINE h == Head(readyBlocks)
  <2> DEFINE b == [link |-> h.link, packets |-> h.packets,
                   timeframeId |-> TimeframeFromOrbit(h.packets[1].hb)]
  <2>1. /\ readyBlocks # << >> /\ given' = Append(given, b) /\ readyBlocks' = Tail(readyBlocks)
        /\ UNCHANGED <<emulator, clock, LHCorbit, LHCbc, linkState, fill>>
    BY <1>9 DEF GetNextBlock
  <2>2. h \in EmuPage /\ readyBlocks' \in Seq(EmuPage)
    BY <1>1, <2>1, TailRemoves
  <2> HIDE DEF h
  <2>3. h.link \in Nat /\ h.packets \in Seq(EmuPacket) \ {<< >>}
    BY <2>2 DEF EmuPage
  <2>4. h.packets[1] \in EmuPacket
    <3>1. 1 \in 1 .. Len(h.packets)
      BY <2>3
    <3> QED
      BY <2>3, <3>1, SeqElement
  <2>5. h.packets[1].hb \in Nat
    BY <2>4 DEF EmuPacket
  <2>6. TimeframeFromOrbit(h.packets[1].hb) \in Nat \ {0}
    BY <1>2, <2>5, OrbitTimeframe
  <2>7. b \in EmuBlock
    BY <2>3, <2>6 DEF EmuBlock
  <2> HIDE DEF b
  <2>8. given' \in Seq(EmuBlock)
    BY <1>1, <2>1, <2>7, AppendAdds
  <2>9. Links' = Links /\ NoPage' = NoPage
    BY <2>1 DEF Links, NoPage
  <2> QED
    BY <1>1, <2>1, <2>2, <2>7, <2>8, <2>9 DEF EmulatorTypes
<1> HIDE DEF F
<1>10. CASE EmulatorStep
  BY <1>5, <1>6, <1>7, <1>8, <1>9, <1>10 DEF EmulatorStep
<1> QED
  BY <1>4, <1>10

-----------------------------------------------------------------------------
(* All the steps of the subscriber.                                        *)

\* The threads of the subscriber keep what its blocks hold.
LEMMA ZmqStep ==
  ASSUME ZmqInv,
         \/ ZmqDataOn \/ ZmqDataOff \/ (\E s \in Sizes : Publish(s))
         \/ SnapshotThread \/ SnapAges \/ TfCallback \/ BlockThread
  PROVE  ZmqInv'
<1>1. CASE ZmqDataOn \/ ZmqDataOff
  BY <1>1, ZmqUntouched DEF ZmqDataOn, ZmqDataOff
<1> QED
  BY <1>1, PublishKeeps, SnapRecvKeeps, SnapLockKeeps, SnapUnlockKeeps, SnapAgesKeeps,
     TfCallbackKeeps, BlockBeginKeeps, BlockLockKeeps, BlockUnlockKeeps, BlockOutKeeps,
     StreamBlockKeeps DEF SnapshotThread, BlockThread

-----------------------------------------------------------------------------
(* The number of blocks.                                                   *)

\* A step that changes neither the timeframes nor the number of blocks, and starts no block.
LEMMA CountUntouched ==
  ASSUME Counted, UNCHANGED <<mode, tfIn, maxTf, nBlocks, blocks, highest>>,
         bpc = "idle" => bpc' = "idle"
  PROVE  Counted'
<1>1. tfIn' \in Seq(Nat \ {0}) /\ highest' \in Nat
  BY DEF Counted
<1>2. \A k \in 1 .. Len(tfIn') : tfIn'[k] <= highest'
  BY DEF Counted
<1> QED
  BY <1>1, <1>2 DEF Counted

\* The threads of the subscriber keep the count.
LEMMA CountStep ==
  ASSUME ZmqInv, Counted, highest' = highest,
         \/ ZmqDataOn \/ ZmqDataOff \/ (\E s \in Sizes : Publish(s))
         \/ SnapshotThread \/ SnapAges \/ TfCallback \/ BlockThread
  PROVE  Counted'
<1>1. /\ tfIn \in Seq(Nat \ {0}) /\ highest \in Nat /\ \A k \in 1 .. Len(tfIn) : tfIn[k] <= highest
  BY DEF Counted
<1>2. blocks \in Seq(Block) /\ block \in Block /\ nBlocks \in Int
  BY DEF ZmqInv, ZmqTypes
<1>3. CASE ZmqDataOn \/ ZmqDataOff \/ (\E s \in Sizes : Publish(s)) \/ SnapshotThread \/ SnapAges
  <2>1. UNCHANGED <<mode, tfIn, maxTf, nBlocks, blocks, highest, bpc>>
    BY <1>3 DEF ZmqDataOn, ZmqDataOff, Publish, SnapshotThread, SnapRecv, SnapLock, SnapUnlock,
       SnapAges
  <2> QED
    BY <2>1, CountUntouched
<1>4. CASE TfCallback
  <2>1. /\ tfIn # << >> /\ tfIn' = Tail(tfIn) /\ maxTf' = Head(tfIn)
        /\ nBlocks' = (IF maxTf = 0 THEN maxTf ELSE nBlocks) /\ UNCHANGED <<mode, bpc, blocks>>
    BY <1>4 DEF TfCallback, TfRecv
  <2>2. /\ tfIn' \in Seq(Nat \ {0}) /\ Head(tfIn) \in Nat \ {0} /\ Head(tfIn) = tfIn[1]
        /\ Len(tfIn) \in Nat \ {0} /\ Len(tfIn') = Len(tfIn) - 1
        /\ \A k \in 1 .. Len(tfIn) - 1 : tfIn'[k] = tfIn[k + 1]
    BY <1>1, <2>1, TailRemoves
  <2>3. ASSUME NEW k \in 1 .. Len(tfIn') PROVE tfIn'[k] <= highest
    <3>1. k \in 1 .. Len(tfIn) - 1 /\ k + 1 \in 1 .. Len(tfIn)
      BY <2>2
    <3>2. tfIn'[k] = tfIn[k + 1]
      BY <2>2, <3>1
    <3> QED
      BY <1>1, <3>1, <3>2
  <2>4. maxTf' \in 1 .. highest
    BY <1>1, <2>1, <2>2
  <2> QED
    BY <1>1, <2>1, <2>2, <2>3, <2>4 DEF Counted
<1>5. CASE BlockBegin
  <2>1. /\ bpc' = "copy" /\ (maxTf >= 0 => nBlocks < maxTf)
        /\ UNCHANGED <<mode, tfIn, maxTf, nBlocks, blocks>>
    BY <1>5 DEF BlockBegin
  <2>2. mode.tfClient /\ mode.snapshot => maxTf \in 1 .. highest /\ nBlocks < highest
    BY <1>1, <1>2, <2>1 DEF Counted
  <2> QED
    BY <1>1, <2>1, <2>2 DEF Counted
<1>6. CASE BlockLock \/ BlockUnlock
  <2>1. UNCHANGED <<mode, tfIn, maxTf, nBlocks, blocks, highest>> /\ bpc # "idle"
    BY <1>6 DEF BlockLock, BlockUnlock
  <2> QED
    BY <2>1, CountUntouched
<1>7. CASE BlockOut
  <2>1. /\ bpc = "out" /\ bpc' = "idle" /\ nBlocks' = nBlocks + 1 /\ blocks' = Append(blocks, block)
        /\ UNCHANGED <<mode, tfIn, maxTf>>
    BY <1>7 DEF BlockOut
  <2>2. Len(blocks') = Len(blocks) + 1
    BY <1>2, <2>1, AppendAdds
  <2> QED
    BY <1>1, <1>2, <2>1, <2>2 DEF Counted
<1>8. CASE StreamBlock
  <2>1. ~mode.snapshot /\ UNCHANGED <<mode, tfIn>>
    BY <1>8 DEF StreamBlock
  <2> QED
    BY <1>1, <2>1 DEF Counted
<1> QED
  BY <1>3, <1>4, <1>5, <1>6, <1>7, <1>8 DEF BlockThread

\* A timeframe that is published is at most the highest one.
LEMMA CountPublished ==
  ASSUME Counted, NEW id \in Nat \ {0}, highest' = IF id > highest THEN id ELSE highest,
         TfPublish(id), UNCHANGED <<mode, maxTf, nBlocks, blocks, bpc>>, nBlocks \in Int
  PROVE  Counted'
<1>1. /\ tfIn \in Seq(Nat \ {0}) /\ highest \in Nat /\ \A k \in 1 .. Len(tfIn) : tfIn[k] <= highest
  BY DEF Counted
<1>2. highest' \in Nat /\ highest <= highest' /\ id <= highest'
  BY <1>1
<1>3. tfIn' = Append(tfIn, id) \/ tfIn' = tfIn
  BY DEF TfPublish
<1>4. tfIn' \in Seq(Nat \ {0}) /\ \A k \in 1 .. Len(tfIn') : tfIn'[k] <= highest'
  <2>1. CASE tfIn' = tfIn
    <3>1. \A k \in 1 .. Len(tfIn) : tfIn[k] \in Nat
      BY <1>1, SeqElement
    <3> QED
      BY <1>1, <1>2, <2>1, <3>1
  <2>2. CASE tfIn' = Append(tfIn, id)
    <3>1. /\ tfIn' \in Seq(Nat \ {0}) /\ Len(tfIn) \in Nat /\ Len(tfIn') = Len(tfIn) + 1
          /\ tfIn'[Len(tfIn) + 1] = id /\ \A k \in 1 .. Len(tfIn) : tfIn'[k] = tfIn[k]
      BY <1>1, <2>2, AppendAdds
    <3>2. \A k \in 1 .. Len(tfIn) : tfIn[k] \in Nat
      BY <1>1, SeqElement
    <3>3. ASSUME NEW k \in 1 .. Len(tfIn') PROVE tfIn'[k] <= highest'
      <4>1. k \in 1 .. Len(tfIn) \/ k = Len(tfIn) + 1
        BY <3>1
      <4> QED
        BY SMTT(30), <1>1, <1>2, <3>1, <3>2, <4>1
    <3> QED
      BY <3>1, <3>3
  <2> QED
    BY <1>3, <2>1, <2>2
<1>5. mode.tfClient /\ mode.snapshot =>
        /\ maxTf \in 0 .. highest' /\ nBlocks <= highest' /\ (bpc # "idle" => nBlocks < highest')
        /\ nBlocks = Len(blocks) /\ (maxTf = 0 => nBlocks = 0 /\ bpc = "idle")
  BY <1>1, <1>2 DEF Counted
<1> QED
  BY <1>2, <1>4, <1>5 DEF Counted

-----------------------------------------------------------------------------
(* The main loop of the first process.                                     *)

\* The page that comes next has a timeframe.
LEMMA InputTypes ==
  ASSUME PlayerTypes, EmulatorTypes
  PROVE  /\ Len(Input) \in Nat
         /\ \A k \in 1 .. Len(Input) : Input[k].timeframeId \in Nat \ {0}
<1>1. CASE setup.source = "player"
  <2>1. Input = pages /\ pages \in Seq(PageRecord)
    BY <1>1 DEF Input, PlayerTypes
  <2>2. \A k \in 1 .. Len(pages) : pages[k] \in PageRecord
    BY <2>1, SeqElement
  <2>3. \A p \in PageRecord : p.timeframeId \in Nat \ {0}
    BY DEF PageRecord
  <2> QED
    BY <2>1, <2>2, <2>3
<1>2. CASE setup.source # "player"
  <2>1. Input = given /\ given \in Seq(EmuBlock)
    BY <1>2 DEF Input, EmulatorTypes
  <2>2. \A k \in 1 .. Len(given) : given[k] \in EmuBlock
    BY <2>1, SeqElement
  <2>3. \A b \in EmuBlock : b.timeframeId \in Nat \ {0}
    BY DEF EmuBlock
  <2> QED
    BY <2>1, <2>2, <2>3
<1> QED
  BY <1>1, <1>2

\* Pages are only added to the input in a run.
LEMMA InputGrows ==
  ASSUME PlayerTypes, EmulatorTypes, setup' = setup,
         pages' = pages \/ (\E p \in PageRecord : pages' = Append(pages, p)),
         given' = given \/ (\E b \in EmuBlock : given' = Append(given, b))
  PROVE  Len(Input) <= Len(Input') /\ \A k \in 1 .. Len(Input) : Input'[k] = Input[k]
<1>1. CASE setup.source = "player"
  <2>1. Input = pages /\ Input' = pages' /\ pages \in Seq(PageRecord)
    BY <1>1 DEF Input, PlayerTypes
  <2>2. CASE pages' = pages
    BY <2>1, <2>2
  <2>3. ASSUME NEW p \in PageRecord, pages' = Append(pages, p)
        PROVE  Len(pages) <= Len(pages') /\ \A k \in 1 .. Len(pages) : pages'[k] = pages[k]
    BY <2>1, <2>3, AppendAdds
  <2> QED
    BY <2>1, <2>2, <2>3
<1>2. CASE setup.source # "player"
  <2>1. Input = given /\ Input' = given' /\ given \in Seq(EmuBlock)
    BY <1>2 DEF Input, EmulatorTypes
  <2>2. CASE given' = given
    BY <2>1, <2>2
  <2>3. ASSUME NEW b \in EmuBlock, given' = Append(given, b)
        PROVE  Len(given) <= Len(given') /\ \A k \in 1 .. Len(given) : given'[k] = given[k]
    BY <2>1, <2>3, AppendAdds
  <2> QED
    BY <2>1, <2>2, <2>3
<1> QED
  BY <1>1, <1>2

\* A longer input leaves what was published as it is.
LEMMA PublishedKept ==
  ASSUME Published, PlayerTypes, EmulatorTypes,
         UNCHANGED <<setup, allowed, taken, currentTimeframeId, countTimeframeId, published>>,
         pages' = pages \/ (\E p \in PageRecord : pages' = Append(pages, p)),
         given' = given \/ (\E b \in EmuBlock : given' = Append(given, b)),
         Len(Input') \in Nat
  PROVE  Published'
<1>1. Len(Input) <= Len(Input') /\ (\A k \in 1 .. Len(Input) : Input'[k] = Input[k])
  BY InputGrows
<1>2. Len(Input) \in Nat /\ taken \subseteq 1 .. Len(Input)
  BY InputTypes DEF Published
<1>3. taken' \subseteq 1 .. Len(Input')
  BY <1>1, <1>2
<1>4. \A k \in taken' : \E j \in 1 .. Len(published') : published'[j] = Input'[k].timeframeId
  <2>1. ASSUME NEW k \in taken PROVE \E j \in 1 .. Len(published) : published[j] = Input'[k].timeframeId
    <3>1. Input'[k] = Input[k]
      BY <1>1, <1>2
    <3> QED
      BY <3>1 DEF Published
  <2> QED
    BY <2>1
<1> QED
  BY <1>3, <1>4 DEF Published

\* The pages of a data set are pages of the input, and have the timeframe of the first one.
LEMMA OneTimeframe ==
  ASSUME NEW k \in 1 .. Len(Input), NEW n \in k .. Len(Input), IsNext(k, n), Len(Input) \in Nat
  PROVE  /\ DataSet(k, n) \subseteq 1 .. Len(Input)
         /\ \A i \in DataSet(k, n) : Input[i].timeframeId = Input[k].timeframeId
<1>1. DataSet(k, n) \subseteq 1 .. Len(Input)
  BY DEF DataSet
<1>2. CASE setup.slicing
  BY <1>1, <1>2 DEF IsNext
<1>3. CASE ~setup.slicing
  <2>1. n = k
    BY <1>3 DEF IsNext
  <2>2. \A i \in DataSet(k, n) : i = k
    BY <2>1 DEF DataSet
  <2> QED
    BY <1>1, <2>2
<1> QED
  BY <1>2, <1>3

\* A data set of the current timeframe: the timeframe was published before.
LEMMA LoopSameKeeps ==
  ASSUME Published, PlayerTypes, EmulatorTypes,
         NEW k \in 1 .. Len(Input), NEW n \in k .. Len(Input), LoopSame(k, n)
  PROVE  Published'
<1>1. /\ IsNext(k, n) /\ Input[k].timeframeId = currentTimeframeId
      /\ taken' = taken \cup DataSet(k, n)
      /\ UNCHANGED <<pages, given, setup, allowed, currentTimeframeId, countTimeframeId, published>>
  BY DEF LoopSame, sourceVars, playerVars, emuVars
<1>2. Input' = Input
  BY <1>1 DEF Input
<1>3. Len(Input) \in Nat /\ taken \subseteq 1 .. Len(Input)
  BY InputTypes DEF Published
<1>4. /\ DataSet(k, n) \subseteq 1 .. Len(Input)
      /\ \A i \in DataSet(k, n) : Input[i].timeframeId = Input[k].timeframeId
  BY <1>1, <1>3, OneTimeframe
<1>5. Input[k].timeframeId \in Nat \ {0}
  BY InputTypes
<1>6. \E j \in 1 .. Len(published) : published[j] = Input[k].timeframeId
  BY <1>1, <1>5 DEF Published
<1>7. \A i \in taken' : \E j \in 1 .. Len(published) : published[j] = Input[i].timeframeId
  BY <1>1, <1>4, <1>6 DEF Published
<1>8. taken' \subseteq 1 .. Len(Input)
  BY <1>1, <1>3, <1>4
<1> QED
  BY <1>1, <1>2, <1>7, <1>8 DEF Published

\* The first data set of another timeframe, which the rate limit allows.
LEMMA LoopNewKeeps ==
  ASSUME Published, PlayerTypes, EmulatorTypes,
         NEW k \in 1 .. Len(Input), NEW n \in k .. Len(Input), LoopNew(k, n)
  PROVE  Published' /\ Input[k].timeframeId \in Nat \ {0}
<1> DEFINE id == Input[k].timeframeId
<1>1. /\ IsNext(k, n) /\ ~TooEarly(id) /\ countTimeframeId' = countTimeframeId + 1
      /\ currentTimeframeId' = id /\ published' = Append(published, id)
      /\ taken' = taken \cup DataSet(k, n)
      /\ UNCHANGED <<pages, given, setup, allowed>>
  BY DEF LoopNew, sourceVars, playerVars, emuVars
<1>2. Input' = Input
  BY <1>1 DEF Input
<1>3. /\ Len(Input) \in Nat /\ taken \subseteq 1 .. Len(Input) /\ allowed \in Nat /\ setup \in Setups
      /\ published \in Seq(Nat \ {0}) /\ Len(published) = countTimeframeId
  BY InputTypes DEF Published
<1>4. /\ DataSet(k, n) \subseteq 1 .. Len(Input)
      /\ \A i \in DataSet(k, n) : Input[i].timeframeId = id
  BY <1>1, <1>3, OneTimeframe
<1>5. id \in Nat \ {0}
  BY InputTypes
<1>6. /\ setup.rate = "id" => ~(id > allowed)
      /\ setup.rate = "count" => ~(countTimeframeId >= allowed)
  BY <1>1 DEF TooEarly
<1> HIDE DEF id
<1> DEFINE m == Len(published)
<1>7. /\ published' \in Seq(Nat \ {0}) /\ m \in Nat /\ Len(published') = m + 1
      /\ published'[m + 1] = id /\ \A i \in 1 .. m : published'[i] = published[i]
  BY <1>1, <1>3, <1>5, AppendAdds
<1>8. m + 1 \in 1 .. Len(published') /\ \A i \in 1 .. Len(published') : i \in 1 .. m \/ i = m + 1
  BY <1>7
<1>9. \A i \in 1 .. m : i \in 1 .. Len(published')
  BY <1>7
<1>10. \A i \in taken' : \E j \in 1 .. Len(published') : published'[j] = Input[i].timeframeId
  <2>1. ASSUME NEW i \in taken' PROVE \E j \in 1 .. Len(published') : published'[j] = Input[i].timeframeId
    <3>1. CASE i \in DataSet(k, n)
      BY <1>4, <1>7, <1>8, <3>1
    <3>2. CASE i \in taken
      <4>1. PICK j \in 1 .. Len(published) : published[j] = Input[i].timeframeId
        BY <3>2 DEF Published
      <4> QED
        BY <1>7, <1>9, <4>1
    <3> QED
      BY <1>1, <3>1, <3>2
  <2> QED
    BY <2>1
<1>11. setup.rate = "count" => Len(published') <= allowed
  BY <1>3, <1>6, <1>7
<1>12. setup.rate = "id" => \A i \in 1 .. Len(published') : published'[i] <= allowed
  <2>1. setup.rate = "id" => \A i \in 1 .. m : published[i] <= allowed
    BY DEF Published
  <2>2. setup.rate = "id" => id <= allowed
    BY <1>3, <1>5, <1>6
  <2> QED
    BY <1>7, <1>8, <2>1, <2>2
<1>13. taken' \subseteq 1 .. Len(Input) /\ Len(published') = countTimeframeId'
  BY <1>1, <1>3, <1>4, <1>7
<1>14. \E i \in 1 .. Len(published') : published'[i] = currentTimeframeId'
  BY <1>1, <1>7, <1>8
<1> QED
  BY <1>1, <1>2, <1>3, <1>5, <1>7, <1>10, <1>11, <1>12, <1>13, <1>14 DEF Published, id

-----------------------------------------------------------------------------
(* The invariant.                                                          *)

\* Both processes before the first START.
LEMMA IInvInit ==
  ASSUME Init
  PROVE  IInv
<1>1. ZmqInv
  BY DEF Init, ZmqInit, ZmqInv, ZmqTypes, InSocket, WasSent, Locked, InSnapshot, Before, HasSize,
         InBlock, Whole, OutInOrder, Copied, Message, Block, Sizes, Garbage, None
<1>2. Counted
  <2>1. tfIn = << >> /\ highest = 0 /\ nBlocks = 0 /\ blocks = << >> /\ bpc = "idle"
        /\ maxTf = (IF mode.snapshot /\ mode.tfClient THEN 0 ELSE -1)
    BY DEF Init, ZmqInit
  <2> QED
    BY <2>1 DEF Counted
<1>3. PlayerTypes
  <2>1. /\ player \in PlayerConfigs /\ pos = 1 /\ loopCount = 0 /\ orbitOffset = 0
        /\ lastTimeframe = 0 /\ firstOrbit = NoOrbit /\ pages = << >>
    BY DEF Init, PlayerInit
  <2>2. Len(file) \in Nat /\ NoOrbit \in Int
    BY <2>1, FileType DEF NoOrbit
  <2> QED
    BY <2>1, <2>2 DEF PlayerTypes
<1>4. EmulatorTypes
  <2>1. /\ emulator \in EmulatorConfigs /\ clock = 0 /\ LHCorbit = 0 /\ LHCbc = 0
        /\ linkState = [l \in Links |-> NewLink] /\ fill = NoPage
        /\ readyBlocks = << >> /\ given = << >>
    BY DEF Init, EmulatorInit
  <2>2. NewLink \in LinkState
    BY DEF NewLink, LinkState, NoFrame
  <2>3. linkState \in [Links -> LinkState]
    BY <2>1, <2>2
  <2>4. fill \in [link : Nat, orbit : Nat, bc : Nat, id : Nat, packets : Seq(EmuPacket)]
    BY <2>1 DEF NoPage
  <2> QED
    BY <2>1, <2>3, <2>4 DEF EmulatorTypes
<1>5. Published
  <2>1. /\ setup \in Setups /\ allowed = 1 /\ taken = {} /\ currentTimeframeId = 0
        /\ countTimeframeId = 0 /\ published = << >>
    BY DEF Init
  <2>2. Len(Input) \in Nat
    BY <1>3, <1>4, InputTypes
  <2> QED
    BY <2>1, <2>2 DEF Published
<1> QED
  BY <1>1, <1>2, <1>3, <1>4, <1>5 DEF IInv

\* START of the first process.
LEMMA StartKeeps ==
  ASSUME IInv, Start
  PROVE  IInv'
<1>1. ZmqInv /\ Counted /\ PlayerTypes /\ EmulatorTypes /\ Published
  BY DEF IInv
<1>2. /\ allowed' = 1 /\ taken' = {} /\ currentTimeframeId' = 0 /\ countTimeframeId' = 0
      /\ published' = << >> /\ UNCHANGED <<setup, highest>> /\ UNCHANGED zmqVars
      /\ PlayerStart \/ UNCHANGED playerVars
      /\ EmulatorStart \/ UNCHANGED emuVars
  BY DEF Start
<1>3. ZmqInv' /\ Counted'
  BY <1>1, <1>2, ZmqUntouched, CountUntouched DEF zmqVars
<1>4. PlayerTypes'
  BY <1>1, <1>2, PlayerStarts, PlayerKeeps
<1>5. EmulatorTypes'
  BY <1>1, <1>2, EmulatorStarts, EmulatorKeeps
<1>6. (Len(Input) \in Nat)'
  BY <1>4, <1>5, InputTypes, PTL
<1>7. Published'
  BY <1>1, <1>2, <1>6 DEF Published
<1> QED
  BY <1>3, <1>4, <1>5, <1>7 DEF IInv

\* The equipment of the first process: STOP, a page, a packet, the clock.
LEMMA SourceKeeps ==
  ASSUME IInv, Stop \/ Play \/ Generate
  PROVE  IInv'
<1>1. ZmqInv /\ Counted /\ PlayerTypes /\ EmulatorTypes /\ Published
  BY DEF IInv
<1>2. /\ PlayerStop \/ PlayerStep \/ ReadError \/ UNCHANGED playerVars
      /\ EmulatorStop \/ EmulatorStep \/ ClockTicks \/ UNCHANGED emuVars
      /\ UNCHANGED zmqVars /\ UNCHANGED loopVars
  BY DEF Stop, Play, Generate
<1>3. ZmqInv' /\ Counted'
  BY <1>1, <1>2, ZmqUntouched, CountUntouched DEF zmqVars, loopVars
<1>4. PlayerTypes' /\ (pages' = pages \/ \E p \in PageRecord : pages' = Append(pages, p))
  BY <1>1, <1>2, PlayerKeeps
<1>5. EmulatorTypes' /\ (given' = given \/ \E b \in EmuBlock : given' = Append(given, b))
  BY <1>1, <1>2, EmulatorKeeps
<1>6. (Len(Input) \in Nat)'
  BY <1>4, <1>5, InputTypes, PTL
<1>7. Published'
  <2>1. UNCHANGED <<setup, allowed, taken, currentTimeframeId, countTimeframeId, published>>
    BY <1>2 DEF loopVars
  <2> QED
    BY <1>1, <1>4, <1>5, <1>6, <2>1, PublishedKept
<1> QED
  BY <1>3, <1>4, <1>5, <1>7 DEF IInv

\* The main loop of the first process, and the time.
LEMMA LoopKeeps ==
  ASSUME IInv, TimePasses \/ MainLoop
  PROVE  IInv'
<1>1. ZmqInv /\ Counted /\ PlayerTypes /\ EmulatorTypes /\ Published
  BY DEF IInv
<1>2. UNCHANGED playerVars /\ UNCHANGED emuVars
  BY DEF TimePasses, MainLoop, LoopSame, LoopNew, sourceVars
<1>3. PlayerTypes' /\ EmulatorTypes'
  BY <1>1, <1>2, PlayerKeeps, EmulatorKeeps
<1>4. CASE TimePasses
  <2>1. /\ allowed' = allowed + 1 /\ UNCHANGED zmqVars
        /\ UNCHANGED <<setup, taken, currentTimeframeId, countTimeframeId, published, highest, pages, given>>
    BY <1>2, <1>4 DEF TimePasses, playerVars, emuVars
  <2>2. ZmqInv' /\ Counted'
    BY <1>1, <2>1, ZmqUntouched, CountUntouched DEF zmqVars
  <2>3. Input' = Input
    BY <2>1 DEF Input
  <2>4. /\ allowed \in Nat /\ published \in Seq(Nat \ {0})
        /\ setup.rate = "count" => Len(published) <= allowed
        /\ setup.rate = "id" => \A k \in 1 .. Len(published) : published[k] <= allowed
    BY <1>1 DEF Published
  <2>5. \A k \in 1 .. Len(published) : published[k] \in Nat
    BY <2>4, SeqElement
  <2>6. /\ allowed' \in Nat
        /\ setup.rate = "count" => Len(published) <= allowed'
        /\ setup.rate = "id" => \A k \in 1 .. Len(published) : published[k] <= allowed'
    BY <2>1, <2>4, <2>5
  <2>7. Published'
    BY <1>1, <2>1, <2>3, <2>6 DEF Published
  <2> QED
    BY <1>3, <2>2, <2>7 DEF IInv
<1>5. ASSUME NEW k \in 1 .. Len(Input), NEW n \in k .. Len(Input), LoopSame(k, n)
      PROVE  IInv'
  <2>1. ZmqInv' /\ Counted'
    BY <1>1, <1>5, ZmqUntouched, CountUntouched DEF LoopSame, zmqVars
  <2>2. Published'
    BY <1>1, <1>5, LoopSameKeeps
  <2> QED
    BY <1>3, <2>1, <2>2 DEF IInv
<1>6. ASSUME NEW k \in 1 .. Len(Input), NEW n \in k .. Len(Input), LoopNew(k, n)
      PROVE  IInv'
  <2> DEFINE id == Input[k].timeframeId
  <2>1. Published' /\ id \in Nat \ {0}
    BY <1>1, <1>6, LoopNewKeeps
  <2>2. /\ highest' = IF id > highest THEN id ELSE highest
        /\ TfPublish(id)
        /\ UNCHANGED <<mode, sent, dataIn, maxTf, nBlocks, snap, lock, spc, smsg, bpc, block, blocks>>
    BY <1>6 DEF LoopNew
  <2>3. ZmqInv'
    BY <1>1, <2>2, ZmqUntouched
  <2>4. nBlocks \in Int
    BY <1>1 DEF ZmqInv, ZmqTypes
  <2> HIDE DEF id
  <2>5. Counted'
    BY <1>1, <2>1, <2>2, <2>4, CountPublished
  <2> QED
    BY <1>3, <2>1, <2>3, <2>5 DEF IInv
<1> QED
  BY <1>4, <1>5, <1>6 DEF MainLoop

\* The threads of the second process.
LEMMA DcsKeeps ==
  ASSUME IInv, UNCHANGED sourceVars, UNCHANGED loopVars,
         \/ ZmqDataOn \/ ZmqDataOff \/ (\E s \in Sizes : Publish(s))
         \/ SnapshotThread \/ SnapAges \/ TfCallback \/ BlockThread
  PROVE  IInv'
<1>1. ZmqInv /\ Counted /\ PlayerTypes /\ EmulatorTypes /\ Published
  BY DEF IInv
<1>2. UNCHANGED playerVars /\ UNCHANGED emuVars
  BY DEF sourceVars
<1>3. /\ PlayerTypes' /\ (pages' = pages \/ \E p \in PageRecord : pages' = Append(pages, p))
      /\ EmulatorTypes' /\ (given' = given \/ \E b \in EmuBlock : given' = Append(given, b))
  BY <1>1, <1>2, PlayerKeeps, EmulatorKeeps
<1>4. ZmqInv'
  BY <1>1, ZmqStep
<1>5. highest' = highest /\ UNCHANGED <<setup, allowed, taken, currentTimeframeId, countTimeframeId, published>>
  BY DEF loopVars
<1>6. Counted'
  BY <1>1, <1>5, CountStep
<1>7. (Len(Input) \in Nat)'
  BY <1>3, InputTypes, PTL
<1>8. Published'
  BY <1>1, <1>3, <1>5, <1>7, PublishedKept
<1> QED
  BY <1>3, <1>4, <1>6, <1>8 DEF IInv

\* Every step keeps the invariant.
LEMMA IInvStep ==
  ASSUME IInv, [Next]_vars
  PROVE  IInv'
<1>1. CASE UNCHANGED vars
  <2>1. UNCHANGED playerVars /\ UNCHANGED emuVars /\ UNCHANGED zmqVars /\ UNCHANGED loopVars
    BY <1>1 DEF vars, sourceVars
  <2>2. ZmqInv /\ Counted /\ PlayerTypes /\ EmulatorTypes /\ Published
    BY DEF IInv
  <2>3. ZmqInv' /\ Counted'
    BY <2>1, <2>2, ZmqUntouched, CountUntouched DEF zmqVars, loopVars
  <2>4. PlayerTypes' /\ EmulatorTypes'
    BY <2>1, <2>2, PlayerKeeps, EmulatorKeeps
  <2>5. Input' = Input /\ UNCHANGED <<setup, allowed, taken, currentTimeframeId, countTimeframeId, published>>
    BY <2>1 DEF Input, loopVars, playerVars, emuVars
  <2>6. Published'
    BY <2>2, <2>5 DEF Published
  <2> QED
    BY <2>3, <2>4, <2>6 DEF IInv
<1>2. CASE Start \/ Stop \/ Play \/ Generate \/ TimePasses \/ MainLoop
  BY <1>2, StartKeeps, SourceKeeps, LoopKeeps
<1>3. CASE \/ Dcs(ZmqDataOn) \/ Dcs(ZmqDataOff) \/ (\E s \in Sizes : Dcs(Publish(s)))
           \/ Dcs(SnapshotThread) \/ Dcs(SnapAges) \/ Dcs(TfCallback) \/ Dcs(BlockThread)
  <2>1. /\ UNCHANGED sourceVars /\ UNCHANGED loopVars
        /\ \/ ZmqDataOn \/ ZmqDataOff \/ (\E s \in Sizes : Publish(s))
           \/ SnapshotThread \/ SnapAges \/ TfCallback \/ BlockThread
    BY <1>3 DEF Dcs
  <2> QED
    BY <2>1, DcsKeeps
<1> QED
  BY <1>1, <1>2, <1>3 DEF Next

\* The invariant holds in every state of the two processes.
THEOREM Invariance == Spec => []IInv
<1>1. Init => IInv
  BY IInvInit
<1>2. IInv /\ [Next]_vars => IInv'
  BY IInvStep
<1> QED
  BY <1>1, <1>2, PTL DEF Spec

\* ReadoutEquipmentZmq: a block is one whole message, whatever the snapshot thread does while
\* getNextBlock() copies, and blocks keep the order of the messages.
THEOREM BlocksWhole == Spec => []BlocksAreMessages
<1>1. IInv => BlocksAreMessages
  <2> SUFFICES ASSUME IInv PROVE BlocksAreMessages
    OBVIOUS
  <2>1. OutInOrder /\ blocks \in Seq(Block) /\ sent \in Seq(Message)
    BY DEF IInv, ZmqInv, ZmqTypes
  <2>2. DOMAIN blocks = 1 .. Len(blocks) /\ DOMAIN sent = 1 .. Len(sent)
    BY <2>1
  <2> QED
    BY <2>1, <2>2 DEF BlocksAreMessages, OutInOrder, Copied, Whole, HasSize
<1> QED
  BY <1>1, Invariance, PTL

\* tfClientCallback(), getNextBlock(): no timeframe gets two blocks and none gets one before it
\* was published, over all the runs of the server and with any of its messages lost.
THEOREM NoBlockTwice == Spec => []OneBlockPerTimeframe
<1>1. IInv => OneBlockPerTimeframe
  BY DEF IInv, Counted, OneBlockPerTimeframe
<1> QED
  BY <1>1, Invariance, PTL

\* The main loop: no page goes to the consumers before its timeframe was published, and none
\* is published before the rate limit allows it, in either mode of the limit.
THEOREM LimitKept == Spec => []TicksPaced
<1>1. IInv => TicksPaced
  <2> SUFFICES ASSUME IInv PROVE TicksPaced
    OBVIOUS
  <2>1. Published /\ published \in Seq(Nat \ {0})
    BY DEF IInv, Published
  <2>2. DOMAIN published = 1 .. Len(published)
    BY <2>1
  <2>3. ASSUME NEW k \in taken PROVE Input[k].timeframeId \in ToSet(published)
    BY <2>1, <2>2 DEF Published, ToSet
  <2> QED
    BY <2>1, <2>2, <2>3 DEF Published, TicksPaced
<1> QED
  BY <1>1, Invariance, PTL

=============================================================================
