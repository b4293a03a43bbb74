---------------------- MODULE MCConsumerFileRecorder ----------------------
(* The parameters, sources and pages of the runs of ConsumerFileRecorder. *)
EXTENDS ConsumerFileRecorder

Packet(ok, first, stop, empty) ==
  [ok |-> ok, first |-> first, stop |-> stop, empty |-> empty, next |-> TRUE]

\* the packet with an offsetNextPacket of 0
NoNext(k) == [k EXCEPT !.next = FALSE]

Begin == Packet(TRUE, TRUE, FALSE, TRUE)        \* the beginning of a frame, empty
End == Packet(TRUE, FALSE, TRUE, TRUE)          \* the end of a frame, empty
Both == Packet(TRUE, TRUE, TRUE, TRUE)          \* an empty frame in one packet
Payload == Packet(TRUE, FALSE, FALSE, FALSE)
Invalid == Packet(FALSE, FALSE, FALSE, FALSE)

Source(e, l) == [equipment |-> e, link |-> l]

Base ==
  [useSourceEquipmentId |-> FALSE, useSourceLinkId |-> FALSE,
   bytesMax |-> 0, pagesMax |-> 0, tfMax |-> 0, filesMax |-> 1,
   header |-> FALSE, dropEmptyHBFrames |-> FALSE,
   sources |-> {Source(1, 1), Source(2, 2)},
   pages |-> {<<>>, <<Payload>>, <<Payload, Payload>>}]

\* each limit with each way to go on to the next file
Limited ==
  {[Base EXCEPT !.bytesMax = lim[1], !.pagesMax = lim[2], !.tfMax = lim[3], !.filesMax = n] :
     lim \in {<<3, 0, 0>>, <<0, 1, 0>>, <<0, 2, 0>>, <<0, 0, 1>>},
     n \in {-2, 0, 1, 2}}

\* a header of one byte before each page
WithHeader ==
  {[Base EXCEPT !.header = TRUE, !.bytesMax = lim[1], !.tfMax = lim[2], !.filesMax = n] :
     lim \in {<<4, 0>>, <<5, 1>>}, n \in {-2, 1, 2}}

\* a file for each equipment, link or both
PerSource ==
  {[Base EXCEPT !.useSourceEquipmentId = use[1], !.useSourceLinkId = use[2],
                !.bytesMax = 3, !.filesMax = 2, !.pages = {<<Payload, Payload>>},
                !.sources = {Source(1, 1), Source(1, 2), Source(2, 2)}] :
     use \in {<<TRUE, FALSE>>, <<FALSE, TRUE>>, <<TRUE, TRUE>>}}

Dropping ==
  {[Base EXCEPT !.dropEmptyHBFrames = TRUE, !.bytesMax = n, !.filesMax = 2,
                !.useSourceLinkId = perLink,
                !.pages = {<<Begin>>, <<End, Begin>>, <<Both, End>>, <<Begin, Invalid>>,
                           <<Invalid, Payload>>, <<Begin, End, Payload>>,
                           <<NoNext(Begin), Payload>>, <<End, NoNext(Payload), Payload>>,
                           <<NoNext(Both)>>}] :
     n \in {0, 2}, perLink \in BOOLEAN}

MCConfigurations == Limited \cup WithHeader \cup PerSource \cup Dropping
=============================================================================
