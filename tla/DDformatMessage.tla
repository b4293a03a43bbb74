-------------------------- MODULE DDformatMessage --------------------------
(***************************************************************************)
(* The formatting of a dataset for data distribution                       *)
(* (ConsumerFMQchannel::DDformatMessage): one header, then one message per *)
(* heartbeat frame (HBF).  A frame that lies in one page of the dataset is *)
(* sent from there, one that spans several pages is copied in a page of    *)
(* the pool of the consumer, which other messages use at the same time.    *)
(*                                                                         *)
(* A packet is one unit of data.  The call modelled meets a pool in any    *)
(* state, and FairMQ gives pages back at any time.                         *)
(***************************************************************************)
EXTENDS Integers, Sequences, FiniteSets, SequencesExt, FiniteSetsExt

CONSTANTS
  Packets,          \* the packets a dataset is made of
  MaxPackets,       \* bound: packets in a dataset
  MaxBlocks,        \* bound: pages in a dataset
  OrbitMax,         \* the largest heartbeatOrbit, also the initial value (-1) of lastHBid
  Configurations,   \* records with the parameters of the consumer, and of its receiver
  NumberOfPages,    \* memoryPoolNumberOfPages
  ChildHeader       \* sizeof(DataBlock), in front of each part of a page that is shared

ASSUME FormatAssumption ==
  /\ Packets \subseteq [hb : 0 .. OrbitMax, page : Nat, stop : BOOLEAN, noNext : BOOLEAN]
  /\ Configurations \subseteq
       [format : {"hbf", "superpage", "raw", "datablock"}, releaseDelay : BOOLEAN,
        checkIncomplete : BOOLEAN, dropIncomplete : BOOLEAN, enablePackedCopy : BOOLEAN,
        pageSize : Nat]
  /\ \A c \in Configurations : c.dropIncomplete => c.checkIncomplete
  /\ MaxPackets \in Nat /\ MaxBlocks \in Nat /\ OrbitMax \in Nat
  /\ NumberOfPages \in Nat /\ ChildHeader \in Nat

Pages == 1 .. NumberOfPages

\* no page
None == 0

VARIABLES
  cfg,
  data, blockEnds,  \* the dataset: its packets, and where its pages end
  pc,               \* where the call is, or how it ended
  offset,           \* the packet it looks at
  hbf,              \* the checks: what is known of the current HBF
  HBstart, lastHBid,
  pendingFrames,    \* pieces of the HBF that is not complete yet
  headerBlock,      \* the page of the header
  copyBlockBuffer, dataBufferUsed,   \* the page for copies, and how much of it is used
  messagesToSend,
  refs,             \* per page of the pool: the references on the heap
  others,           \* the pages that messages of other timeframes have
  noPageLeft        \* history: the pool was empty

inputVars == <<cfg, data, blockEnds>>
cutVars == <<HBstart, lastHBid, pendingFrames, copyBlockBuffer, dataBufferUsed, messagesToSend>>
vars == <<inputVars, pc, offset, hbf, cutVars, headerBlock, refs, others, noPageLeft>>

\* a piece of a page, and a message: its pieces, and the page of the pool they were copied to
Frames == [start : 1 .. MaxPackets, end : 1 .. MaxPackets]
MessageTypes == [frames : Seq(Frames), page : Pages \cup {None}]

\* Every variable has its type.
TypeOK ==
  /\ cfg \in Configurations
  /\ data \in Seq(Packets) /\ blockEnds \subseteq DOMAIN data
  /\ pc \in {"begin", "check", "cut", "ready", "gone", "failed", "dropped"}
  /\ offset \in 1 .. MaxPackets + 1
  /\ hbf.incomplete \in 0 .. MaxPackets
  /\ HBstart \in 1 .. MaxPackets + 1 /\ lastHBid \in 0 .. OrbitMax
  /\ pendingFrames \in Seq(Frames) /\ messagesToSend \in Seq(MessageTypes)
  /\ headerBlock \in Pages \cup {None} /\ copyBlockBuffer \in Pages \cup {None}
  /\ dataBufferUsed \in 0 .. cfg.pageSize
  /\ refs \in [Pages -> Nat] /\ others \subseteq Pages /\ noPageLeft \in BOOLEAN

Init ==
  /\ cfg \in Configurations
  /\ data \in SeqOf(Packets, MaxPackets) \ {<<>>}
  /\ \E inner \in SUBSET (1 .. Len(data) - 1) :
       Cardinality(inner) < MaxBlocks /\ blockEnds = inner \cup {Len(data)}
  /\ pc = "begin" /\ offset = 1
  /\ hbf = [id |-> OrbitMax, isFirst |-> TRUE, isOk |-> TRUE, pagesCounter |-> 0, stops |-> 0,
            stopLast |-> FALSE, incomplete |-> 0]
  /\ HBstart = 1 /\ lastHBid = OrbitMax /\ pendingFrames = <<>>
  /\ headerBlock = None /\ copyBlockBuffer = None /\ dataBufferUsed = 0
  /\ messagesToSend = <<>>
  /\ refs = [p \in Pages |-> 0]
  /\ \E k \in 0 .. NumberOfPages : others = 1 .. k
  /\ noPageLeft = FALSE

\* FairMQ has released the pages of other messages
Release ==
  /\ pc \in {"check", "cut"} /\ others # {}
  /\ others' = {}
  /\ UNCHANGED <<inputVars, pc, offset, hbf, cutVars, headerBlock, refs, noPageLeft>>

BlockEnd(i) == Min({e \in blockEnds : e >= i})

\* the rest of a page is not looked at after a packet with offsetNextPacket = 0
LastInBlock(i) == data[i].noNext \/ i \in blockEnds

NextPacket(i) == IF LastInBlock(i) THEN BlockEnd(i) + 1 ELSE i + 1

-----------------------------------------------------------------------------
(* The header, and the first iteration: checks.                            *)

\* getNewDataBlockContainer(): a page that nobody refers to
NewPage(r, inUse) ==
  LET free == {p \in Pages \ (others \cup inUse) : r[p] = 0}
  IN IF free = {} THEN None ELSE Min(free)

\* the page of the header, and the reference to it for the message
Begin ==
  /\ pc = "begin" /\ cfg.format = "hbf"
  /\ headerBlock' = NewPage(refs, {})
  /\ IF headerBlock' = None
       THEN pc' = "failed" /\ noPageLeft' = TRUE /\ UNCHANGED refs
       ELSE pc' = "check" /\ refs' = [refs EXCEPT ![headerBlock'] = 1] /\ UNCHANGED noPageLeft
  /\ UNCHANGED <<inputVars, offset, hbf, cutVars, others>>

\* Variant: a second stop bit is not noticed.
WrongStopsSome(h) == h.stops = 0 \/ ~h.stopLast

WrongStops(h) == h.stops # 1 \/ ~h.stopLast

\* the HBF is over, if there was one
CheckLastHB(h) ==
  IF h.isFirst \/ ~cfg.checkIncomplete
    THEN h
    ELSE [h EXCEPT !.incomplete = IF h.isOk /\ ~WrongStops(h) THEN @ ELSE @ + 1,
                   !.stops = 0, !.isOk = TRUE, !.isFirst = TRUE]

\* The page counter of the first packet of an HBF is not checked (it only adds to a log
\* message); those of the next ones are.
CheckPages(h, k) ==
  IF ~cfg.checkIncomplete
    THEN h
    ELSE [h EXCEPT !.isOk = @ /\ (h.isFirst \/ k.page = h.pagesCounter + 1),
                   !.isFirst = FALSE, !.pagesCounter = k.page,
                   !.stops = IF k.stop THEN @ + 1 ELSE @, !.stopLast = k.stop]

CheckPacket ==
  /\ pc = "check" /\ offset <= Len(data)
  /\ \E k \in {data[offset]} :
       hbf' = CheckPages(IF k.hb = hbf.id THEN hbf ELSE [CheckLastHB(hbf) EXCEPT !.id = k.hb], k)
  /\ offset' = NextPacket(offset)
  /\ UNCHANGED <<inputVars, pc, cutVars, headerBlock, refs, others, noPageLeft>>

\* The last HBF is over.  The call returns at once if the timeframe is dropped; otherwise the
\* header is the first message.
EndCheck ==
  /\ pc = "check" /\ offset > Len(data)
  /\ hbf' = CheckLastHB(hbf)
  /\ offset' = 1
  /\ IF hbf'.incomplete > 0 /\ cfg.dropIncomplete
       THEN pc' = "dropped" /\ UNCHANGED messagesToSend
       ELSE pc' = "cut" /\ messagesToSend' = <<[frames |-> <<>>, page |-> headerBlock]>>
  /\ UNCHANGED <<inputVars, HBstart, lastHBid, pendingFrames, copyBlockBuffer, dataBufferUsed,
                 headerBlock, refs, others, noPageLeft>>

-----------------------------------------------------------------------------
(* The second iteration: one message per HBF.                              *)

\* what the two lambdas work on
Cut == [pending |-> pendingFrames, buffer |-> copyBlockBuffer, used |-> dataBufferUsed,
        messages |-> messagesToSend, refs |-> refs, copy |-> None, empty |-> noPageLeft,
        error |-> FALSE]

Size(frames) == FoldSeq(LAMBDA f, s : f.end - f.start + 1 + s, 0, frames)

PendingFramesAppend(c, first, last) ==
  [c EXCEPT !.pending = Append(@, [start |-> first, end |-> last])]

\* one turn of the loop that finds the place for a packed copy: a page, or a child block in
\* it, or nothing because the page is full
PackTurn(c, size) ==
  IF c.copy # None THEN c
  ELSE IF c.buffer = None
    THEN LET p == NewPage(c.refs, {headerBlock})
         IN [c EXCEPT !.buffer = p, !.used = 0, !.empty = @ \/ p = None]
  ELSE IF size + ChildHeader > cfg.pageSize - c.used THEN [c EXCEPT !.buffer = None]
  ELSE [c EXCEPT !.copy = c.buffer, !.used = @ + size + ChildHeader]

\* Variant: two turns.
PackedCopyTwice(c, size) == PackTurn(PackTurn(c, size), size)

\* three turns are enough for: the page is full, a new page, a child block
PackedCopy(c, size) == PackTurn(PackTurn(PackTurn(c, size), size), size)

OwnCopy(c) ==
  LET p == NewPage(c.refs, {headerBlock})
  IN [c EXCEPT !.copy = p, !.empty = @ \/ p = None]

AddMessage(c, page) ==
  [c EXCEPT !.messages = Append(@, [frames |-> c.pending, page |-> page]), !.pending = <<>>]

Repack(c) ==
  LET size == Size(c.pending)
      d == IF cfg.pageSize < size THEN c
           ELSE IF cfg.enablePackedCopy THEN PackedCopy(c, size) ELSE OwnCopy(c)
  IN IF d.copy = None
       THEN [d EXCEPT !.error = TRUE]
       ELSE [AddMessage(d, d.copy) EXCEPT !.refs = [d.refs EXCEPT ![d.copy] = @ + 1],
                                          !.copy = None]

PendingFramesCollect(c) ==
  CASE c.pending = <<>>     -> c
    [] Len(c.pending) = 1   -> AddMessage(c, None)
    [] OTHER                -> Repack(c)

\* Variant: the messages are forgotten with their references.
RefsKept(r, messages) == r

\* the references that go when messages are destroyed, by FairMQ or in the error path
RefsWithout(r, messages) ==
  [p \in Pages |-> r[p] - Cardinality({m \in DOMAIN messages : messages[m].page = p})]

\* the catch block: nothing is sent
Failed(c) ==
  /\ pc' = "failed"
  /\ pendingFrames' = <<>> /\ messagesToSend' = <<>>
  /\ refs' = RefsWithout(c.refs, c.messages)
  /\ copyBlockBuffer' = None /\ dataBufferUsed' = 0
  /\ noPageLeft' = c.empty
  /\ UNCHANGED <<HBstart, lastHBid, offset>>

Continue(c) ==
  /\ pendingFrames' = c.pending /\ messagesToSend' = c.messages /\ refs' = c.refs
  /\ copyBlockBuffer' = c.buffer /\ dataBufferUsed' = c.used /\ noPageLeft' = c.empty

\* Variant: the HBF is taken to end with the page.
KeepLastPieceNot(c, first, last) == PendingFramesCollect(PendingFramesAppend(c, first, last))

\* the piece at the end of a page: the HBF may continue in the next one
KeepLastPiece(c, first, last) == PendingFramesAppend(c, first, last)

\* A packet: of the current HBF or of a new one, in which case the pending pieces are sent.
CutPacket ==
  /\ pc = "cut" /\ offset <= Len(data)
  /\ \E isNew \in {data[offset].hb # lastHBid} :
     \E c \in {IF ~isNew THEN Cut
               ELSE PendingFramesCollect(IF offset = HBstart THEN Cut
                                         ELSE PendingFramesAppend(Cut, HBstart, offset - 1))} :
     \E first \in {IF isNew THEN offset ELSE HBstart} :
       IF c.error
         THEN Failed(c)
         ELSE /\ Continue(IF LastInBlock(offset) THEN KeepLastPiece(c, first, BlockEnd(offset))
                          ELSE c)
              /\ HBstart' = IF LastInBlock(offset) THEN BlockEnd(offset) + 1 ELSE first
              /\ lastHBid' = data[offset].hb
              /\ offset' = NextPacket(offset)
              /\ UNCHANGED pc
  /\ UNCHANGED <<inputVars, hbf, headerBlock, others>>

\* the last HBF, and the return: the page for copies is left to the messages
EndCut ==
  /\ pc = "cut" /\ offset > Len(data)
  /\ \E c \in {PendingFramesCollect(Cut)} :
       IF c.error
         THEN Failed(c)
         ELSE /\ Continue([c EXCEPT !.buffer = None, !.used = 0])
              /\ pc' = "ready"
              /\ UNCHANGED <<offset, HBstart, lastHBid>>
  /\ UNCHANGED <<inputVars, hbf, headerBlock, others>>

\* the receiver is done with the messages, or they were not sent: the cleanup callback
Cleanup ==
  /\ pc = "ready"
  /\ pc' = "gone"
  /\ refs' = RefsWithout(refs, messagesToSend)
  /\ messagesToSend' = <<>>
  /\ UNCHANGED <<inputVars, offset, hbf, HBstart, lastHBid, pendingFrames, copyBlockBuffer,
                 dataBufferUsed, headerBlock, others, noPageLeft>>

Next == Begin \/ Release \/ CheckPacket \/ EndCheck \/ CutPacket \/ EndCut \/ Cleanup

Spec == Init /\ [][Next]_vars

-----------------------------------------------------------------------------
(* Properties.                                                             *)

\* the packets that the two iterations look at
Seen(i) == ~\E j \in 1 .. i - 1 : BlockEnd(j) = BlockEnd(i) /\ data[j].noNext

\* the orbit of a packet; what is not looked at belongs to the HBF before it
OrbitOf(i) == data[Max({j \in 1 .. i : Seen(j)})].hb

\* the HBFs of the dataset: the longest runs of packets with one orbit
HBFs ==
  {f \in (1 .. Len(data)) \X (1 .. Len(data)) :
     /\ f[1] <= f[2] /\ \A i \in f[1] .. f[2] : OrbitOf(i) = OrbitOf(f[1])
     /\ f[1] = 1 \/ OrbitOf(f[1] - 1) # OrbitOf(f[1])
     /\ f[2] = Len(data) \/ OrbitOf(f[2] + 1) # OrbitOf(f[2])}

SeenIn(f) == {i \in f[1] .. f[2] : Seen(i)}

\* the page counters increase by one and the stop bit is that of the last packet, and no other
Consistent(f) ==
  /\ \A i \in SeenIn(f) :
       \A next \in {j \in SeenIn(f) : j > i} :
         data[next].page = data[i].page + Cardinality({j \in SeenIn(f) : i < j /\ j <= next})
  /\ {i \in SeenIn(f) : data[i].stop} = {Max(SeenIn(f))}

\* The checks, which go through the packets with a few counters, count the HBFs that are not
\* consistent, no more and no less, also when an HBF spans several pages; and a timeframe is
\* dropped if and only if there is one.
IncompleteCounted ==
  /\ cfg.checkIncomplete /\ cfg.format = "hbf" /\ pc \in {"cut", "ready", "dropped"} =>
       hbf.incomplete = Cardinality({f \in HBFs : ~Consistent(f)})
  /\ pc = "dropped" => cfg.dropIncomplete /\ \E f \in HBFs : ~Consistent(f)

FirstOf(m) == m.frames[1].start
LastOf(m) == m.frames[Len(m.frames)].end

\* In the format for data distribution, the messages after the header are the HBFs of the dataset, in order: nothing is lost, sent
\* twice or mixed, whatever pages an HBF spans.  It is copied only if it spans several.
MessagesAreHBFs ==
  pc = "ready" /\ cfg.format = "hbf" =>
    LET body == Tail(messagesToSend) IN
    /\ Len(body) = Cardinality(HBFs)
    /\ \A m \in DOMAIN body :
         /\ <<FirstOf(body[m]), LastOf(body[m])>> \in HBFs
         /\ m > 1 => FirstOf(body[m]) = LastOf(body[m - 1]) + 1
         /\ \A f \in DOMAIN body[m].frames :
              /\ BlockEnd(body[m].frames[f].start) = BlockEnd(body[m].frames[f].end)
              /\ f > 1 => body[m].frames[f].start = body[m].frames[f - 1].end + 1
         /\ (body[m].page = None) <=> BlockEnd(FirstOf(body[m])) = BlockEnd(LastOf(body[m]))

\* the room that a message takes in a page
Room(m) == Size(m.frames) + (IF cfg.enablePackedCopy THEN ChildHeader ELSE 0)

\* The copies in a page fit in it together, with their headers, and are in a page that other
\* messages do not have.  When the call is over, the references to the pages of the pool are
\* those of its messages, whether it failed or not; the one exception is the header of a
\* timeframe that is dropped, which nothing refers to any more.  (Every variable has its type
\* besides.)
PagesAccounted ==
  /\ TypeOK
  /\ \A p \in Pages :
       FoldSet(LAMBDA m, s : Room(messagesToSend[m]) + s, 0,
               {m \in 2 .. Len(messagesToSend) : messagesToSend[m].page = p}) <= cfg.pageSize
  /\ \A m \in DOMAIN messagesToSend : messagesToSend[m].page \notin others
  /\ pc \in {"ready", "gone", "failed", "dropped"} =>
       refs = [p \in Pages |->
                 Cardinality({m \in DOMAIN messagesToSend : messagesToSend[m].page = p})
                   + (IF pc = "dropped" /\ p = headerBlock THEN 1 ELSE 0)]

\* The formatting fails only if the pool has no page left, or an HBF that spans several pages
\* is too large for one.
FailureJustified ==
  pc = "failed" =>
    \/ noPageLeft
    \/ \E f \in HBFs :
         /\ BlockEnd(f[1]) # BlockEnd(f[2])
         /\ f[2] - f[1] + 1 + (IF cfg.enablePackedCopy THEN ChildHeader ELSE 0) > cfg.pageSize

\* The pool is used without loss, and given up only when it has to be.
PoolIsWellUsed == PagesAccounted /\ FailureJustified

=============================================================================
