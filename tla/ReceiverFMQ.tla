---------------------------- MODULE ReceiverFMQ ----------------------------
(***************************************************************************)
(* The other end of the FairMQ channel: the test receiver (receiverFMQ.cxx)*)
(* decodes what the consumer sends, in each of the formats that pushData() *)
(* knows.  In the format for data distribution the sender has cut the data *)
(* in heartbeat frames (DDformatMessage); in the superpage format it sends *)
(* whole pages, and the receiver cuts them (ReadoutStfDecoder); in the two *)
(* raw formats there is one message per page.                              *)
(*                                                                         *)
(* The receiver runs with the decoding mode of the format.                 *)
(***************************************************************************)
EXTENDS DDformatMessage

VARIABLES
  sent,       \* the consumer has given its messages to FairMQ
  wire,       \* messages on the way, each a sequence of parts
  received,   \* what the receiver found: for each frame or page, the packets it looked at
  delayed,    \* delayedMsgBuffer: messages that are kept for releaseDelay
  rxState     \* the receiver: "running", or "aborted"

rxVars == <<sent, wire, received, delayed, rxState>>

RxInit ==
  /\ Init
  /\ sent = FALSE /\ wire = <<>> /\ received = <<>> /\ delayed = <<>> /\ rxState = "running"

-----------------------------------------------------------------------------
(* The consumer                                                            *)

\* a page of the dataset, which ends with packet e
PageFrame(e) == [start |-> Max({1} \cup {b + 1 : b \in {b \in blockEnds : b < e}}), end |-> e]

\* one part per page, in place
PageParts ==
  [k \in 1 .. Cardinality(blockEnds) |->
     [frames |-> <<PageFrame(SetToSortSeq(blockEnds, <)[k])>>, page |-> None]]

HeaderPart == [frames |-> <<>>, page |-> headerBlock']

\* enableRawFormat and enableRawFormatDatablock: one message per page, in the second case
\* with the header of the page as first part
PushRaw ==
  /\ pc = "begin" /\ cfg.format \in {"raw", "datablock"}
  /\ pc' = "ready" /\ sent' = TRUE
  /\ messagesToSend' = PageParts
  /\ wire' = [k \in DOMAIN PageParts |->
                IF cfg.format = "raw" THEN <<PageParts[k]>>
                ELSE <<[frames |-> <<>>, page |-> None], PageParts[k]>>]
  /\ UNCHANGED <<inputVars, offset, hbf, HBstart, lastHBid, pendingFrames, copyBlockBuffer,
                 dataBufferUsed, headerBlock, refs, others, noPageLeft, received, delayed,
                 rxState>>

\* enableStfSuperpage: a message of the header, in a page of the pool, and the pages
PushSuperpage ==
  /\ pc = "begin" /\ cfg.format = "superpage"
  /\ headerBlock' = NewPage(refs, {})
  /\ IF headerBlock' = None
       THEN /\ pc' = "failed" /\ noPageLeft' = TRUE
            /\ UNCHANGED <<refs, messagesToSend, wire, sent>>
       ELSE /\ pc' = "ready" /\ sent' = TRUE
            /\ refs' = [refs EXCEPT ![headerBlock'] = 1]
            /\ messagesToSend' = <<HeaderPart>> \o PageParts
            /\ wire' = <<messagesToSend'>>
            /\ UNCHANGED noPageLeft
  /\ UNCHANGED <<inputVars, offset, hbf, HBstart, lastHBid, pendingFrames, copyBlockBuffer,
                 dataBufferUsed, others, received, delayed, rxState>>

\* DDsendMessage()
SendFrames ==
  /\ pc = "ready" /\ ~sent
  /\ sent' = TRUE /\ wire' = <<messagesToSend>>
  /\ UNCHANGED <<vars, received, delayed, rxState>>

-----------------------------------------------------------------------------
(* The receiver                                                            *)

Indices(f) == [k \in 1 .. f.end - f.start + 1 |-> f.start + k - 1]
PacketsOf(frames) == FlattenSeq([k \in DOMAIN frames |-> Indices(frames[k])])

\* ReadoutStfDecoder: the last HBF found, its pieces in earlier pages and the piece in this one
Decoder == [hb |-> 0, lastHbOrbitUndefined |-> TRUE, pendingHbf |-> <<>>, lastPart |-> <<>>,
            hbf |-> <<>>, thrown |-> FALSE]

\* the HBF goes out in one piece, as it is or copied
PendingHbfCollect(d, isLast) ==
  LET pieces == d.pendingHbf \o d.lastPart IN
  [d EXCEPT !.lastPart = <<>>,
            !.pendingHbf = IF isLast THEN <<>> ELSE pieces,
            !.hbf = IF isLast /\ pieces # <<>> THEN Append(@, pieces) ELSE @]

\* A packet with offsetNextPacket = 0 makes the decoder throw, with no exception at hand.
DecodePacket(d, i) ==
  LET isNew == d.lastHbOrbitUndefined \/ d.hb # data[i].hb
      c == IF isNew THEN PendingHbfCollect(d, TRUE) ELSE d
      first == IF c.lastPart = <<>> THEN i ELSE c.lastPart[1].start
  IN IF d.thrown \/ data[i].noNext
       THEN [d EXCEPT !.thrown = TRUE]
       ELSE [c EXCEPT !.lastPart = <<[start |-> first, end |-> i]>>, !.hb = data[i].hb,
                      !.lastHbOrbitUndefined = FALSE]

DecodePage(d, part) ==
  PendingHbfCollect(FoldLeft(DecodePacket, d, PacketsOf(part.frames)), FALSE)

DecodeSuperpages(parts) == PendingHbfCollect(FoldLeft(DecodePage, Decoder, Tail(parts)), TRUE)

\* stfHbf: the packets of a part, up to one with offsetNextPacket = 0
Walk(packets) ==
  LET last == {k \in DOMAIN packets : data[packets[k]].noNext}
  IN IF last = {} THEN packets ELSE SubSeq(packets, 1, Min(last))

WalkParts(parts) == [k \in DOMAIN parts |-> Walk(PacketsOf(parts[k].frames))]

\* what is found in a message, after the header
Found(parts) ==
  CASE cfg.format = "superpage" ->
         LET h == DecodeSuperpages(parts).hbf IN [k \in DOMAIN h |-> PacketsOf(h[k])]
    [] cfg.format = "hbf"       -> WalkParts(Tail(parts))
    [] OTHER                    -> <<PacketsOf(parts[Len(parts)].frames)>>

\* The message is released at the end of the iteration, or after releaseDelay.  The decoder
\* of superpages has taken the parts over: they are released at once, and what is queued is
\* empty.
Receive ==
  /\ rxState = "running" /\ wire # <<>>
  /\ wire' = Tail(wire)
  /\ IF cfg.format = "superpage" /\ DecodeSuperpages(Head(wire)).thrown
       THEN rxState' = "aborted" /\ UNCHANGED <<received, delayed>>
       ELSE /\ received' = received \o Found(Head(wire))
            /\ delayed' = IF ~cfg.releaseDelay \/ cfg.format = "raw" THEN delayed
                          ELSE Append(delayed, IF cfg.format = "superpage" THEN <<>>
                                               ELSE Head(wire))
            /\ UNCHANGED rxState
  /\ UNCHANGED <<vars, sent>>

\* releaseDelay is over for the oldest message; its first part is looked at
ReleaseDelayed ==
  /\ rxState = "running" /\ delayed # <<>>
  /\ IF Head(delayed) = <<>>
       THEN rxState' = "aborted" /\ UNCHANGED delayed
       ELSE delayed' = Tail(delayed) /\ UNCHANGED rxState
  /\ UNCHANGED <<vars, sent, wire, received>>

\* The messages are destroyed: the receiver has released them, or they were never sent.
Destroyed ==
  /\ rxState = "running" /\ wire = <<>> /\ delayed = <<>>
  /\ Cleanup
  /\ UNCHANGED rxVars

RxNext ==
  \/ (Begin \/ Release \/ CheckPacket \/ EndCheck \/ CutPacket \/ EndCut) /\ UNCHANGED rxVars
  \/ PushRaw \/ PushSuperpage \/ SendFrames
  \/ Receive \/ ReleaseDelayed \/ Destroyed

RxSpec == RxInit /\ [][RxNext]_<<vars, rxVars>>

-----------------------------------------------------------------------------
(* Properties                                                              *)

\* pieces of the dataset, given by first and last packet, in order
InOrder(pieces) ==
  LET s == SetToSortSeq(pieces, LAMBDA f, g : f[1] < g[1])
  IN [k \in DOMAIN s |-> [j \in 1 .. s[k][2] - s[k][1] + 1 |-> s[k][1] + j - 1]]

HasNoNext == \E i \in DOMAIN data : data[i].noNext

\* Whichever end cuts the data, the receiver finds the heartbeat frames of the dataset, in
\* order, complete and once: those cut by the sender, up to a packet without a next one in
\* each, and those that it cuts itself, unless there is such a packet in the dataset, for
\* which it stops.  In the raw formats it finds the pages.
ReceiverFindsFrames ==
  sent /\ wire = <<>> =>
    CASE cfg.format = "hbf" ->
           LET f == InOrder(HBFs) IN
           received = [k \in DOMAIN f |->
                         SelectSeq(f[k], LAMBDA i :
                           \A j \in 1 .. Len(f[k]) : f[k][j] < i => ~data[f[k][j]].noNext)]
      [] cfg.format = "superpage" ->
           IF HasNoNext THEN rxState = "aborted" /\ received = <<>>
           ELSE received = InOrder(HBFs)
      [] OTHER -> received = InOrder({<<PageFrame(e).start, e>> : e \in blockEnds})

\* The receiver stops only for a packet without a next one, or for a delayed release in the
\* superpage format; and it gives the messages back before they are destroyed.
ReceiverAborts ==
  /\ rxState = "aborted" => cfg.format = "superpage" /\ (HasNoNext \/ cfg.releaseDelay)
  /\ pc = "gone" => rxState = "running" /\ (sent => received # <<>>)

\* The two iterations of the sender and the receiver see the same frames: what is counted,
\* what is sent, and what is found.
FramesAreExact == IncompleteCounted /\ MessagesAreHBFs /\ ReceiverFindsFrames /\ ReceiverAborts

=============================================================================
