----------------------- MODULE ConsumerFileRecorder -----------------------
(***************************************************************************)
(* The consumer that records the data pages to files                       *)
(* (ConsumerFileRecorder.cxx).  A stream is a sequence of files, closed    *)
(* and replaced by the next one when a limit is reached; there is one      *)
(* stream, or one per equipment, link or both.  Optionally a page has a    *)
(* header record, or the packets of empty heartbeat frames are left out:   *)
(* a frame may begin at the end of a page and end in the next one of its   *)
(* link, with pages of other links in between.                             *)
(*                                                                         *)
(* One step is one write to a file.  The system may fail to open a file or *)
(* to write.  The size of a page is its number of packets.                 *)
(***************************************************************************)
EXTENDS Integers, Sequences, FiniteSets, SequencesExt

CONSTANTS
  Configurations,   \* records with the parameters, the sources and the pages to look at
  HeaderSize,       \* the size of a header record
  MayFail,          \* the results of opening a file and of writing: {TRUE} or BOOLEAN
  MaxPages,         \* bound: pages pushed in a run
  MaxRuns           \* bound: calls of start()

\* what the code looks at in a packet: a valid RDH; pagesCounter = 0; the stop bit; nothing
\* but an RDH, of a trigger type that is not in the mask; offsetNextPacket, which is 0 or
\* leads to the next packet or to the end of the page, and which a valid RDH may have 0
PacketTypes ==
  [ok : BOOLEAN, first : BOOLEAN, stop : BOOLEAN, empty : BOOLEAN, next : BOOLEAN]

SourceTypes == [equipment : Nat, link : Nat]

ConfigurationTypes ==
  [useSourceEquipmentId : BOOLEAN, useSourceLinkId : BOOLEAN,
   bytesMax : Nat, pagesMax : Nat, tfMax : Nat, filesMax : Int,   \* 0: no limit
   header : BOOLEAN, dropEmptyHBFrames : BOOLEAN,
   sources : SUBSET SourceTypes, pages : SUBSET Seq(PacketTypes)]

\* the two options that the constructor refuses together
ASSUME RecorderAssumption ==
  /\ \A c \in Configurations :
       c \in ConfigurationTypes /\ ~(c.header /\ c.dropEmptyHBFrames)
  /\ HeaderSize \in Nat /\ MayFail \subseteq BOOLEAN
  /\ MaxPages \in Nat /\ MaxRuns \in Nat

VARIABLES
  cfg,
  run, running,
  recordingEnabled,
  isError,
  files,              \* defaultFile or filePerSourceMap: the file of each stream
  previousPacket,     \* perLinkPreviousPacket
  pc, offset,         \* in pushData(): what is written next
  countPage,          \* whether the next write is the first one of the page
  pushed,             \* history of the run: the pages
  recorded,           \* history of the run: what was written to each stream
  fileIds             \* history of the run: the numbers of the files of each stream

runVars == <<cfg, run, running, isError>>
vars == <<runVars, recordingEnabled, files, previousPacket, pc, offset, countPage, pushed,
          recorded, fileIds>>

None == [none |-> TRUE]

\* the key of a source in filePerSourceMap, with undefinedDataSourceId for what is not used
StreamOf(s) ==
  [equipment |-> IF cfg.useSourceEquipmentId THEN s.equipment ELSE 0,
   link |-> IF cfg.useSourceLinkId THEN s.link ELSE 0]

Streams == {StreamOf(s) : s \in cfg.sources}
Links == {s.link : s \in cfg.sources}

perSourceRecordingFile == cfg.useSourceEquipmentId \/ cfg.useSourceLinkId

\* the page that pushData() was last called with, its number and its stream
Page == pushed[Len(pushed)]
PageNumber == Len(pushed)
Stream == StreamOf(Page.source)

\* Every variable has its type.
TypeOK ==
  /\ cfg \in Configurations
  /\ run \in 0 .. MaxRuns /\ running \in BOOLEAN
  /\ recordingEnabled \in BOOLEAN /\ isError \in BOOLEAN
  /\ DOMAIN files = Streams /\ DOMAIN previousPacket = Links
  /\ pc \in {"idle", "header", "payload", "packets"}
  /\ offset \in 1 .. 4 /\ countPage \in BOOLEAN
  /\ Len(pushed) <= MaxPages
  /\ DOMAIN recorded = Streams /\ fileIds \in [Streams -> SUBSET Nat]

Init ==
  /\ cfg \in Configurations
  /\ run = 0 /\ running = FALSE /\ recordingEnabled = FALSE /\ isError = FALSE
  /\ files = [s \in Streams |-> None]
  /\ previousPacket = [l \in Links |-> None]
  /\ pc = "idle" /\ offset = 1 /\ countPage = TRUE
  /\ pushed = <<>> /\ recorded = [s \in Streams |-> <<>>]
  /\ fileIds = [s \in Streams |-> {}]

-----------------------------------------------------------------------------
(* FileHandle.                                                             *)

undefinedTimeframeId == 0

NewFile(id) ==
  [fileId |-> id, items |-> <<>>, counterPages |-> 0, lastTFid |-> undefinedTimeframeId,
   counterTF |-> 0, isFull |-> FALSE]

\* counterBytesTotal
Bytes(f) == FoldSeq(LAMBDA i, b : i.size + b, 0, f.items)

CountTF(f, tf) ==
  IF tf \in {undefinedTimeframeId, f.lastTFid} THEN f
  ELSE [f EXCEPT !.lastTFid = tf, !.counterTF = @ + 1]

\* the limits that the item would exceed; the timeframe counts even if another limit is met
\* before, but the file is full then
LimitReached(f, item, remaining) ==
  \/ cfg.bytesMax > 0 /\ Bytes(f) + item.size + remaining > cfg.bytesMax
  \/ cfg.pagesMax > 0 /\ f.counterPages >= cfg.pagesMax
  \/ cfg.tfMax > 0 /\ CountTF(f, item.tf).counterTF > cfg.tfMax

\* FileHandle::write(): a full file takes everything and writes nothing
Write(f, item, remaining, isPage, ok) ==
  CASE f.isFull \/ item.size = 0 ->
         [file |-> f, status |-> "Success"]
    [] ~f.isFull /\ item.size > 0 /\ LimitReached(f, item, remaining) ->
         [file |-> [f EXCEPT !.isFull = TRUE], status |-> "FileLimitsReached"]
    [] OTHER ->
         [file |-> [CountTF(f, item.tf) EXCEPT
                      !.items = IF ok THEN Append(@, item) ELSE @,
                      !.counterPages = IF ok /\ isPage THEN @ + 1 ELSE @],
          status |-> IF ok THEN "Success" ELSE "Error"]

-----------------------------------------------------------------------------
(* start(), stop().                                                        *)

\* resetCounters()
ResetCounters ==
  /\ previousPacket' = [l \in Links |-> None]
  /\ pc' = "idle" /\ offset' = 1 /\ countPage' = TRUE

\* The file of the only stream is created now, those of the sources when they have data.
Start(opened) ==
  /\ ~running /\ run < MaxRuns
  /\ run' = run + 1 /\ running' = TRUE
  /\ ResetCounters
  /\ recordingEnabled' = (perSourceRecordingFile \/ opened)
  /\ isError' = (isError \/ ~recordingEnabled')
  /\ files' = [s \in Streams |-> IF ~perSourceRecordingFile /\ opened THEN NewFile(1) ELSE None]
  /\ fileIds' = [s \in Streams |-> IF files'[s] = None THEN {} ELSE {1}]
  /\ pushed' = <<>> /\ recorded' = [s \in Streams |-> <<>>]
  /\ UNCHANGED cfg

Stop ==
  /\ running /\ pc = "idle"
  /\ running' = FALSE /\ recordingEnabled' = FALSE
  /\ ResetCounters
  /\ files' = [s \in Streams |-> None]
  /\ UNCHANGED <<cfg, run, isError, pushed, recorded, fileIds>>

-----------------------------------------------------------------------------
(* pushData().                                                             *)

\* Variant: one file more.
NextFileIdLate(id) ==
  IF cfg.filesMax < 0 /\ id > 1 /\ id % (-cfg.filesMax) = 1 THEN 1 ELSE id + 1

\* the number of the file after one with number id: round robin if filesMax is negative
NextFileId(id) ==
  IF cfg.filesMax < 0 /\ (id + 1) % (-cfg.filesMax) = 1 THEN 1 ELSE id + 1

\* the file that takes the place of a full one, if there may be one and it can be opened
NextFile(f, opened) ==
  LET id == NextFileId(f.fileId) IN
  IF cfg.filesMax # 1 /\ (cfg.filesMax < 1 \/ id <= cfg.filesMax) /\ opened THEN NewFile(id)
  ELSE f

\* one attempt to write, and the change to the next file
Attempt(f, item, remaining, ok, opened) ==
  LET w == Write(f, item, remaining, countPage, ok) IN
  IF w.status = "FileLimitsReached" THEN [w EXCEPT !.file = NextFile(w.file, opened)] ELSE w

\* the end of the call
Return(enabled) ==
  /\ recordingEnabled' = enabled
  /\ pc' = "idle" /\ offset' = 1 /\ countPage' = TRUE

\* writeToFile(): two attempts, in the same file or in the next one, then an exception that
\* ends the recording of all streams.  Continue is what follows a success.
WriteToFile(item, remaining, Continue) ==
  \E ok, opened \in [1 .. 2 -> MayFail] :
  \E first \in {Attempt(files[Stream], item, remaining, ok[1], opened[1])} :
  \E last \in {IF first.status = "Success" THEN first
               ELSE Attempt(first.file, item, remaining, ok[2], opened[2])} :
    /\ files' = [files EXCEPT ![Stream] = last.file]
    /\ fileIds' = [fileIds EXCEPT ![Stream] = @ \cup {first.file.fileId, last.file.fileId}]
    /\ recorded' = IF last.file.items # <<>> /\ Last(last.file.items) = item
                     THEN [recorded EXCEPT ![Stream] = Append(@, item)] ELSE recorded
    /\ IF last.status = "Success"
         THEN Continue
         ELSE Return(FALSE) /\ UNCHANGED previousPacket

\* a piece of a page, as it is written
ItemOf(n, part, size) == [page |-> n, part |-> part, size |-> size, tf |-> pushed[n].tf]
Item(part, size) == ItemOf(PageNumber, part, size)

\* The call with a page.  Without a file for it the recording ends.
PushData(source, tf, packets, opened) ==
  /\ running /\ pc = "idle" /\ Len(pushed) < MaxPages
  /\ pushed' = Append(pushed, [source |-> source, tf |-> tf, packets |-> packets])
  /\ \E s \in {StreamOf(source)} :
       /\ files' = IF recordingEnabled /\ perSourceRecordingFile /\ files[s] = None /\ opened
                     THEN [files EXCEPT ![s] = NewFile(1)] ELSE files
       /\ fileIds' = IF files'[s] = None THEN fileIds ELSE [fileIds EXCEPT ![s] = @ \cup {1}]
       /\ recordingEnabled' = (recordingEnabled /\ files'[s] # None)
  /\ pc' = CASE ~recordingEnabled'        -> "idle"
             [] recordingEnabled' /\ cfg.header -> "header"
             [] OTHER -> IF cfg.dropEmptyHBFrames THEN "packets" ELSE "payload"
  /\ UNCHANGED <<runVars, previousPacket, offset, countPage, recorded>>

\* Variant: the room for the page is not looked at.
RemainingNone == 0

\* what has to fit in the file after the header
Remaining == Len(Page.packets)

WriteHeader ==
  /\ pc = "header"
  /\ WriteToFile(Item("header", HeaderSize), Remaining,
                 /\ pc' = "payload" /\ countPage' = FALSE
                 /\ UNCHANGED <<offset, recordingEnabled, previousPacket>>)
  /\ UNCHANGED <<runVars, pushed>>

WritePayload ==
  /\ pc = "payload"
  /\ WriteToFile(Item("payload", Len(Page.packets)), 0,
                 Return(TRUE) /\ UNCHANGED previousPacket)
  /\ UNCHANGED <<runVars, pushed>>

-----------------------------------------------------------------------------
(* pushData() with dropEmptyHBFrames: packet by packet.                    *)

IsEmptyHBstart(k) == k.first /\ k.empty
IsEmptyHBstop(k) == k.stop /\ k.empty

Link == Page.source.link
Previous == previousPacket[Link]
AtPacket == pc = "packets" /\ offset <= Len(Page.packets)

\* Variant: the packet that was set aside stays there.
ClearedNot == previousPacket

\* previousPacket.clear()
Cleared == [previousPacket EXCEPT ![Link] = None]

\* what is written of a packet: offsetNextPacket bytes
PacketSize(k) == IF k.next THEN 1 ELSE 0

\* to the next packet; without a next one the page ends here, whatever is behind it
GoOn(count) ==
  IF Page.packets[offset].next
    THEN offset' = offset + 1 /\ countPage' = count /\ UNCHANGED <<pc, recordingEnabled>>
    ELSE Return(TRUE)

\* the rest of a page is left out after an invalid packet, and so is the one set aside
InvalidPacket ==
  /\ AtPacket /\ ~Page.packets[offset].ok
  /\ previousPacket' = Cleared
  /\ Return(TRUE)
  /\ UNCHANGED <<runVars, files, pushed, recorded, fileIds>>

\* the end of an empty frame whose beginning was set aside; without a next packet the loop goes
\* on with the same one
SkipCouple ==
  /\ AtPacket /\ Page.packets[offset].ok
  /\ Previous # None /\ IsEmptyHBstop(Page.packets[offset])
  /\ previousPacket' = Cleared
  /\ offset' = offset + PacketSize(Page.packets[offset])
  /\ UNCHANGED <<runVars, recordingEnabled, files, pc, countPage, pushed, recorded, fileIds>>

\* the packet set aside was not the beginning of an empty frame; the step that follows goes
\* on with the current packet
WritePrevious ==
  /\ AtPacket /\ Page.packets[offset].ok
  /\ Previous # None /\ ~IsEmptyHBstop(Page.packets[offset])
  /\ WriteToFile(Previous, 0,
                 /\ previousPacket' = Cleared /\ countPage' = FALSE
                 /\ UNCHANGED <<pc, offset, recordingEnabled>>)
  /\ UNCHANGED <<runVars, pushed>>

\* a packet that may be the beginning of an empty frame is set aside
SetAside ==
  /\ AtPacket /\ Page.packets[offset].ok
  /\ Previous = None /\ IsEmptyHBstart(Page.packets[offset])
  /\ previousPacket' =
       [previousPacket EXCEPT ![Link] = Item(offset, PacketSize(Page.packets[offset]))]
  /\ GoOn(countPage)
  /\ UNCHANGED <<runVars, files, pushed, recorded, fileIds>>

\* a packet without a next one has no size, and nothing is written of it
WritePacket ==
  /\ AtPacket /\ Page.packets[offset].ok
  /\ Previous = None /\ ~IsEmptyHBstart(Page.packets[offset])
  /\ WriteToFile(Item(offset, PacketSize(Page.packets[offset])), 0,
                 GoOn(FALSE) /\ UNCHANGED previousPacket)
  /\ UNCHANGED <<runVars, pushed>>

EndOfPackets ==
  /\ pc = "packets" /\ offset > Len(Page.packets)
  /\ Return(TRUE)
  /\ UNCHANGED <<runVars, files, previousPacket, pushed, recorded, fileIds>>

-----------------------------------------------------------------------------

\* timeframes come in order
NextTimeframes ==
  IF pushed = <<>> THEN {1} ELSE {pushed[Len(pushed)].tf, pushed[Len(pushed)].tf + 1}

Next ==
  \/ \E opened \in MayFail : Start(opened)
  \/ Stop
  \/ \E source \in cfg.sources, tf \in NextTimeframes, packets \in cfg.pages, opened \in MayFail :
       PushData(source, tf, packets, opened)
  \/ WriteHeader \/ WritePayload
  \/ InvalidPacket \/ SkipCouple \/ WritePrevious \/ SetAside \/ WritePacket \/ EndOfPackets

Spec == Init /\ [][Next]_vars

-----------------------------------------------------------------------------
(* Properties.                                                             *)

PagesOf(s) == SelectSeq([n \in DOMAIN pushed |-> n], LAMBDA n : pushed[n].source = s)

\* the records of the pages of a source, in order
Records(s) ==
  LET OfPage(n) == << ItemOf(n, "header", IF cfg.header THEN HeaderSize ELSE 0),
                      ItemOf(n, "payload", Len(pushed[n].packets)) >>
  IN SelectSeq(FlattenSeq([k \in DOMAIN PagesOf(s) |-> OfPage(PagesOf(s)[k])]),
               LAMBDA i : i.size > 0)

\* the packets of the pages of a source, in order, each page up to its first packet that is
\* invalid or has no next one
Packets(s) ==
  LET Seen(n) == {k \in DOMAIN pushed[n].packets :
                    \A j \in 1 .. k - 1 : pushed[n].packets[j].ok /\ pushed[n].packets[j].next}
      OfPage(n) == [k \in Seen(n) |-> [packet |-> pushed[n].packets[k], item |-> ItemOf(n, k, 1)]]
  IN FlattenSeq([k \in DOMAIN PagesOf(s) |-> OfPage(PagesOf(s)[k])])

\* the packets of a source that are not those of an empty heartbeat frame (two packets, the
\* beginning and the end), nor invalid, nor without a next one, nor a beginning before an
\* invalid packet
KeptPackets(s) ==
  LET q == Packets(s)
      ok(i) == q[i].packet.ok
      next(i) == q[i].packet.next
      stop(i) == ok(i) /\ IsEmptyHBstop(q[i].packet)
      \* an end that is dropped is a beginning as well only if it has no next packet
      aside[i \in 0 .. Len(q)] ==
        /\ i > 0 /\ ok(i) /\ IsEmptyHBstart(q[i].packet)
        /\ aside[i - 1] /\ stop(i) => ~next(i)
      dropped(i) == \/ aside[i - 1] /\ stop(i)
                    \/ aside[i] /\ i < Len(q) /\ (stop(i + 1) \/ ~ok(i + 1))
      kept == {i \in DOMAIN q : ok(i) /\ next(i) /\ ~dropped(i)}
  IN [k \in 1 .. Cardinality(kept) |-> q[SetToSortSeq(kept, <)[k]].item]

\* The files of a stream hold, for each source, what was pushed from the beginning of the run
\* up to some point, in order, and nothing but a beginning that was set aside is missing while
\* the recording goes on (pushData()).  What was pushed is the whole pages; if the empty
\* heartbeat frames are dropped it is the packets, without these frames.  Then a page may be cut
\* where a file ends, against "Data pages are never truncated", and a packet that is
\* invalid, or valid with an offsetNextPacket of 0, is lost with the rest of its page although
\* the recording goes on.  The packets that are set aside are found by the link: two sources
\* with the same one are left out.
RecordedIsPrefix ==
  \A s \in cfg.sources :
    (cfg.dropEmptyHBFrames => \A t \in cfg.sources \ {s} : t.link # s.link) =>
      LET st == StreamOf(s)
          rec == SelectSeq(recorded[st], LAMBDA i : pushed[i.page].source = s)
          previous == previousPacket[s.link]
          pending == IF previous = None \/ previous.size = 0 THEN <<>> ELSE <<previous>>
          all == IF cfg.dropEmptyHBFrames THEN KeptPackets(s) ELSE Records(s)
      IN /\ IsPrefix(rec, all)
         /\ (/\ recordingEnabled /\ pc = "idle"
             /\ files[st] # None => ~files[st].isFull) => rec \o pending = all

\* The limits hold in every file and for every stream (FileHandle::write(), writeToFile()): the
\* bytes, the timeframes, the pages and the number of files, which is that of the numbers used
\* again in turn if filesMax is negative.  A page that is written in several pieces may be
\* in two files, so that the pages are not looked at then; a filesMax of -1 never comes back to 1.
LimitsRespected ==
  /\ TypeOK
  /\ \A s \in Streams :
       /\ files[s] # None =>
            LET items == ToSet(files[s].items) IN
            /\ cfg.bytesMax > 0 => Bytes(files[s]) <= cfg.bytesMax
            /\ cfg.tfMax > 0 => Cardinality({i.tf : i \in items}) <= cfg.tfMax
            /\ cfg.pagesMax > 0 /\ ~cfg.header /\ ~cfg.dropEmptyHBFrames =>
                 Cardinality({i.page : i \in items}) <= cfg.pagesMax
       /\ cfg.filesMax > 0 => Cardinality(fileIds[s]) <= cfg.filesMax
       /\ cfg.filesMax < -1 => Cardinality(fileIds[s]) <= -cfg.filesMax

\* The header of a page and its payload are next to each other in the same file, unless the
\* recording ended between the two (pushData()).  With a maximum number of pages this is not
\* so: the header is what counts as the page, and the payload is then over the limit.
HeaderWithPayload ==
  cfg.header /\ cfg.pagesMax = 0 =>
    \A s \in Streams : files[s] # None =>
      LET items == files[s].items
          goTogether(i, j) == /\ i.part = "header" /\ j.part = "payload" /\ i.page = j.page
      IN \A k \in DOMAIN items :
           /\ items[k].part = "payload" => k > 1 /\ goTogether(items[k - 1], items[k])
           /\ items[k].part = "header" =>
                \/ k < Len(items) /\ goTogether(items[k], items[k + 1])
                \/ pushed[items[k].page].packets = <<>>
                \/ k = Len(items) /\ (pc = "payload" \/ ~recordingEnabled)

\* Every file keeps to its limits and to the layout of its records.
FilesWellFormed == LimitsRespected /\ HeaderWithPayload
=============================================================================
