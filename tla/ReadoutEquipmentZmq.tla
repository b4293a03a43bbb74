------------------------ MODULE ReadoutEquipmentZmq ------------------------
(***************************************************************************)
(* The equipment that gets data from a ZeroMQ publisher, e.g. slow control *)
(* (ReadoutEquipmentZmq.cxx), and its timeframe client (ZmqClient.cxx).    *)
(*                                                                         *)
(* In stream mode each message becomes a block.  In snapshot mode a thread *)
(* keeps the last message, and blocks are copies of it: one for each       *)
(* timeframe that the timeframe client hears of, when there is one.  Three *)
(* threads meet here: the snapshot thread, the client thread, and the one  *)
(* that calls getNextBlock().  The two memcpy() are split in two steps.    *)
(*                                                                         *)
(* Sockets are external: a FIFO of messages.  A message is a number and a  *)
(* size: it fits a page ("fits"), fits only the snapshot buffer, which is  *)
(* as large as a page with its header ("edge"), or none ("big").           *)
(***************************************************************************)
EXTENDS Integers, Sequences, SequencesExt, FiniteSets

CONSTANTS
  ZmqModes,       \* the configurations to look at, with a bound on the messages of the server
  MaxBlocks       \* bound on the blocks

ASSUME ZmqAssumption ==
  /\ ZmqModes \subseteq [snapshot : BOOLEAN, tfClient : BOOLEAN, messages : Nat]
  /\ MaxBlocks \in Nat

Sizes == {"fits", "edge", "big"}

None == [id |-> 0, size |-> "fits"]

VARIABLES
  mode,       \* the configuration
  dcsOn,      \* isDataOn, and the subscription that goes with it
  sent,       \* the messages published so far
  dataIn,     \* the messages in the socket zh
  tfIn,       \* the timeframe ids in the socket of the client
  maxTf, nBlocks,
  snap,       \* the snapshot: the message of each half, its size, whether it is recent
  lock,       \* snapshotLock: who has it
  spc, smsg,  \* the snapshot thread and its message
  bpc, block, \* getNextBlock() and its block
  blocks      \* the blocks given out

zmqVars == <<mode, dcsOn, sent, dataIn, tfIn, maxTf, nBlocks, snap, lock, spc, smsg,
             bpc, block, blocks>>

\* What a page holds before anything is copied to it; dataSize is that of the page.
Garbage == [lo |-> 0, hi |-> 0, copied |-> FALSE]

ZmqInit ==
  /\ mode \in ZmqModes
  /\ dcsOn = FALSE /\ sent = << >> /\ dataIn = << >> /\ tfIn = << >>
  /\ maxTf = (IF mode.snapshot /\ mode.tfClient THEN 0 ELSE -1) /\ nBlocks = 0
  /\ snap = [lo |-> 0, hi |-> 0, size |-> "fits", recent |-> FALSE]
  /\ lock = "none" /\ spc = "recv" /\ smsg = None
  /\ bpc = "idle" /\ block = Garbage /\ blocks = << >>

-----------------------------------------------------------------------------
(* setDataOn(), setDataOff(): ZMQ_SUBSCRIBE, ZMQ_UNSUBSCRIBE *)

ZmqDataOn ==
  /\ ~dcsOn /\ dcsOn' = TRUE
  /\ UNCHANGED <<mode, sent, dataIn, tfIn, maxTf, nBlocks, snap, lock, spc, smsg, bpc, block, blocks>>

\* getNextBlock() may be under way.
ZmqDataOff ==
  /\ dcsOn /\ dcsOn' = FALSE
  /\ UNCHANGED <<mode, sent, dataIn, tfIn, maxTf, nBlocks, snap, lock, spc, smsg, bpc, block, blocks>>

\* The server publishes; only a subscriber gets it.
Publish(size) ==
  /\ Len(sent) < mode.messages
  /\ LET m == [id |-> Len(sent) + 1, size |-> size] IN
     /\ sent' = Append(sent, m)
     /\ dataIn' = IF dcsOn THEN Append(dataIn, m) ELSE dataIn
  /\ UNCHANGED <<mode, dcsOn, tfIn, maxTf, nBlocks, snap, lock, spc, smsg, bpc, block, blocks>>

-----------------------------------------------------------------------------
(* loopSnapshot() *)

\* A message; one that does not fit the buffer is dropped.
SnapRecv ==
  /\ mode.snapshot /\ spc = "recv" /\ dataIn # << >>
  /\ dataIn' = Tail(dataIn)
  /\ IF Head(dataIn).size = "big" THEN UNCHANGED <<spc, smsg>>
     ELSE spc' = "store" /\ smsg' = Head(dataIn)
  /\ UNCHANGED <<mode, dcsOn, sent, tfIn, maxTf, nBlocks, snap, lock, bpc, block, blocks>>

SnapLock ==
  /\ spc = "store" /\ lock = "none"
  /\ lock' = "snapshot" /\ spc' = "half"
  /\ snap' = [snap EXCEPT !.lo = smsg.id]
  /\ UNCHANGED <<mode, dcsOn, sent, dataIn, tfIn, maxTf, nBlocks, smsg, bpc, block, blocks>>

SnapUnlock ==
  /\ spc = "half"
  /\ snap' = [snap EXCEPT !.hi = smsg.id, !.size = smsg.size, !.recent = TRUE]
  /\ lock' = "none" /\ spc' = "recv" /\ smsg' = None
  /\ UNCHANGED <<mode, dcsOn, sent, dataIn, tfIn, maxTf, nBlocks, bpc, block, blocks>>

\* Five seconds pass without a message.
SnapAges ==
  /\ snap.recent /\ lock = "none"
  /\ snap' = [snap EXCEPT !.recent = FALSE]
  /\ UNCHANGED <<mode, dcsOn, sent, dataIn, tfIn, maxTf, nBlocks, lock, spc, smsg, bpc, block, blocks>>

-----------------------------------------------------------------------------
(* ZmqClient::run() and tfClientCallback() *)

\* The thread of the client takes the next message.
TfRecv == tfIn # << >> /\ tfIn' = Tail(tfIn)

\* The first timeframe sets the number of blocks back.
TfCallback ==
  /\ TfRecv
  /\ nBlocks' = IF maxTf = 0 THEN maxTf ELSE nBlocks
  /\ maxTf' = Head(tfIn)
  /\ UNCHANGED <<mode, dcsOn, sent, dataIn, snap, lock, spc, smsg, bpc, block, blocks>>

-----------------------------------------------------------------------------
(* getNextBlock() *)

\* Mutant: off by one.
BlockBeginAtMax ==
  /\ mode.snapshot /\ bpc = "idle" /\ dcsOn /\ Len(blocks) < MaxBlocks
  /\ maxTf >= 0 => nBlocks <= maxTf
  /\ bpc' = "copy" /\ block' = Garbage
  /\ UNCHANGED <<mode, dcsOn, sent, dataIn, tfIn, maxTf, nBlocks, snap, lock, spc, smsg, blocks>>

\* Snapshot mode: data on, a timeframe that has no block yet, a page from the pool.
BlockBegin ==
  /\ mode.snapshot /\ bpc = "idle" /\ dcsOn /\ Len(blocks) < MaxBlocks
  /\ maxTf >= 0 => nBlocks < maxTf
  /\ bpc' = "copy" /\ block' = Garbage
  /\ UNCHANGED <<mode, dcsOn, sent, dataIn, tfIn, maxTf, nBlocks, snap, lock, spc, smsg, blocks>>

\* Mutant: the snapshot is copied without the lock.
BlockWithoutLock ==
  /\ bpc = "copy"
  /\ IF snap.recent /\ snap.size = "fits"
     THEN block' = [block EXCEPT !.lo = snap.lo, !.copied = TRUE] /\ bpc' = "half"
     ELSE UNCHANGED block /\ bpc' = "out"
  /\ UNCHANGED <<mode, dcsOn, sent, dataIn, tfIn, maxTf, nBlocks, snap, lock, spc, smsg, blocks>>

\* A snapshot that is recent and fits is copied; otherwise the page goes out as it is.
BlockLock ==
  /\ bpc = "copy" /\ lock = "none"
  /\ IF snap.recent /\ snap.size = "fits"
     THEN /\ block' = [block EXCEPT !.lo = snap.lo, !.copied = TRUE]
          /\ lock' = "block" /\ bpc' = "half"
     ELSE UNCHANGED <<block, lock>> /\ bpc' = "out"
  /\ UNCHANGED <<mode, dcsOn, sent, dataIn, tfIn, maxTf, nBlocks, snap, spc, smsg, blocks>>

\* Mutant: the lock is kept.
BlockKeepsLock ==
  /\ bpc = "half"
  /\ block' = [block EXCEPT !.hi = snap.hi]
  /\ bpc' = "out"
  /\ UNCHANGED <<mode, dcsOn, sent, dataIn, tfIn, maxTf, nBlocks, snap, lock, spc, smsg, blocks>>

BlockUnlock ==
  /\ bpc = "half"
  /\ block' = [block EXCEPT !.hi = snap.hi]
  /\ lock' = "none" /\ bpc' = "out"
  /\ UNCHANGED <<mode, dcsOn, sent, dataIn, tfIn, maxTf, nBlocks, snap, spc, smsg, blocks>>

BlockOut ==
  /\ bpc = "out"
  /\ nBlocks' = nBlocks + 1
  /\ blocks' = Append(blocks, block)
  /\ bpc' = "idle" /\ block' = Garbage
  /\ UNCHANGED <<mode, dcsOn, sent, dataIn, tfIn, maxTf, snap, lock, spc, smsg>>

\* Stream mode: one message, which is skipped when it is larger than the page.
StreamBlock ==
  /\ ~mode.snapshot /\ dcsOn /\ dataIn # << >> /\ Len(blocks) < MaxBlocks
  /\ dataIn' = Tail(dataIn)
  /\ blocks' = IF Head(dataIn).size # "fits" THEN blocks
               ELSE Append(blocks, [lo |-> Head(dataIn).id, hi |-> Head(dataIn).id, copied |-> TRUE])
  /\ UNCHANGED <<mode, dcsOn, sent, tfIn, maxTf, nBlocks, snap, lock, spc, smsg, bpc, block>>

SnapshotThread == SnapRecv \/ SnapLock \/ SnapUnlock

BlockThread == BlockBegin \/ BlockLock \/ BlockUnlock \/ BlockOut \/ StreamBlock

-----------------------------------------------------------------------------
(* Properties *)

\* A block that was copied is one whole message that fits a page: never parts of two.
\* The messages follow each other as they were published: in stream mode each one
\* gives one block at most, in snapshot mode none comes after a later one.
BlocksAreMessages ==
  /\ \A k \in DOMAIN blocks : blocks[k].copied =>
       /\ blocks[k].lo = blocks[k].hi /\ blocks[k].lo \in DOMAIN sent
       /\ sent[blocks[k].lo].size = "fits"
  /\ \A j, k \in DOMAIN blocks : (j < k /\ blocks[j].copied /\ blocks[k].copied) =>
       /\ blocks[j].lo <= blocks[k].lo
       /\ ~mode.snapshot => blocks[j].lo < blocks[k].lo
=============================================================================
