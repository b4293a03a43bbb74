----------------------- MODULE ReadoutEquipmentPlayer -----------------------
(***************************************************************************)
(* The equipment that replays a file (ReadoutEquipmentPlayer.cxx).  With   *)
(* autoChunk the file is cut into pages: a page ends where the link or the *)
(* timeframe changes, where a packet does not fit, or with the file.  The  *)
(* file may be replayed in loops, each with its orbits moved behind the    *)
(* last timeframe of the loop before.  Without autoChunk every page holds  *)
(* the whole file, once or as many times as it fits.                       *)
(*                                                                         *)
(* A file is a sequence of packets: its link, the orbit and the validity   *)
(* of its header, its size as the header says (offsetNextPacket), and the  *)
(* part of it that is in the file.  Sizes are in units of RdhSize or less. *)
(* getNextBlock() is called by the one thread of the equipment.            *)
(***************************************************************************)
EXTENDS Integers, Sequences, SequencesExt, FiniteSets

CONSTANTS
  PlayerConfigs,  \* the configurations to look at
  RdhSize,        \* sizeof(o2::Header::RAWDataHeader)
  Period,         \* getTimeframePeriodOrbits()
  OrbitMod,       \* 2^32
  MaxPages        \* bound on the pages of a run

\* A packet of a file; the orbit is an uint32_t.
FilePackets ==
  [link : Nat, orbit : 0 .. OrbitMod - 1, size : Nat, stored : Nat \ {0}, valid : BOOLEAN]

ASSUME PlayerAssumption ==
  /\ RdhSize \in Nat \ {0} /\ Period \in Nat \ {0} /\ OrbitMod \in Nat \ {0}
  /\ MaxPages \in Nat
  /\ \A c \in PlayerConfigs :
       /\ c.file \in Seq(FilePackets) \ {<< >>} /\ c.pageSize \in Nat
       /\ c.autoChunkLoop \in Int /\ {c.autoChunk, c.fillPage, c.updateOrbits} \subseteq BOOLEAN

NoOrbit == -1

VARIABLES
  player,   \* the configuration
  fpOk, pos, loopCount, orbitOffset, lastTimeframe,
  firstOrbit,   \* firstTimeframeHbOrbitBegin of the base class
  playerOn,     \* isDataOn
  pages         \* the blocks given out in this run

playerVars == <<player, fpOk, pos, loopCount, orbitOffset, lastTimeframe, firstOrbit,
                playerOn, pages>>

file == player.file

\* The bytes of the file before packet i.
FileOffset[i \in 1 .. Len(file) + 1] ==
  IF i = 1 THEN 0 ELSE FileOffset[i - 1] + file[i - 1].stored

fileSize == FileOffset[Len(file) + 1]

\* getTimeframeFromOrbit(), in the arithmetic of uint32_t.
TimeframeOf(first, orbit) == 1 + ((orbit - first) % OrbitMod) \div Period

\* initCounters(), at START.
PlayerReset ==
  /\ fpOk' = player.autoChunk
  /\ pos' = 1 /\ loopCount' = 0 /\ orbitOffset' = 0 /\ lastTimeframe' = 0
  /\ firstOrbit' = NoOrbit

PlayerInit ==
  /\ player \in PlayerConfigs
  /\ fpOk = player.autoChunk
  /\ pos = 1 /\ loopCount = 0 /\ orbitOffset = 0 /\ lastTimeframe = 0
  /\ firstOrbit = NoOrbit
  /\ playerOn = FALSE /\ pages = << >>

PlayerStart == PlayerReset /\ playerOn' = TRUE /\ pages' = << >> /\ UNCHANGED player

PlayerStop ==
  /\ playerOn' = FALSE
  /\ UNCHANGED <<player, fpOk, pos, loopCount, orbitOffset, lastTimeframe, firstOrbit, pages>>

-----------------------------------------------------------------------------
(* One page: the packets of the file from pos on *)

nBytes == IF fileSize - FileOffset[pos] < player.pageSize
          THEN fileSize - FileOffset[pos] ELSE player.pageSize

PageOffset(i) == FileOffset[i] - FileOffset[pos]

\* The first packet of all defines the first orbit.
First == IF firstOrbit = NoOrbit THEN file[pos].orbit ELSE firstOrbit

PacketTimeframe(i) == TimeframeOf(First, file[i].orbit + orbitOffset)

\* No header of packet i in the bytes that were read.
HeaderCut(i) == i > Len(file) \/ PageOffset(i) + RdhSize > nBytes

\* Mutant: a page ends where the link changes only.
ChangePageLinkOnly(i) == i # pos /\ file[i].link # file[i - 1].link

ChangePage(i) ==
  /\ i # pos
  /\ \/ file[i].link # file[i - 1].link
     \/ PacketTimeframe(i) # PacketTimeframe(i - 1)

\* The scan goes on behind packet i.
InPage(i) ==
  /\ ~HeaderCut(i)
  /\ file[i].valid
  /\ ~ChangePage(i)
  /\ file[i].size # 0
  /\ PageOffset(i) + file[i].size <= nBytes

\* The packet that the scan ends at.
ScanEnd == CHOOSE i \in pos .. Len(file) + 1 :
             ~InPage(i) /\ \A j \in pos .. i - 1 : InPage(j)

RdhError == ~HeaderCut(ScanEnd) /\ ~file[ScanEnd].valid

\* The last packet whose header was kept in lastPacketHeader, pos - 1 for none.
LastScanned == IF HeaderCut(ScanEnd) \/ RdhError THEN ScanEnd - 1 ELSE ScanEnd

\* With updateOrbits the headers in the page are modified, otherwise the block has
\* the offset in its own header.
Page ==
  [link |-> file[pos].link, timeframeId |-> PacketTimeframe(pos),
   first |-> pos, last |-> ScanEnd - 1, loop |-> loopCount, copies |-> 1,
   rdhShift |-> IF player.updateOrbits THEN orbitOffset ELSE 0,
   orbitOffset |-> IF player.updateOrbits THEN 0 ELSE orbitOffset]

KeepScan ==
  /\ lastTimeframe' = IF LastScanned < pos THEN lastTimeframe ELSE PacketTimeframe(LastScanned)
  /\ firstOrbit' = IF LastScanned < pos THEN firstOrbit ELSE First

-----------------------------------------------------------------------------
(* getNextBlock(), when the pool has a page (otherwise nothing happens) *)

Reading == playerOn /\ player.autoChunk /\ fpOk /\ Len(pages) < MaxPages

\* The page goes out, and the file is set back to the first packet not in it.
NextPage ==
  /\ Reading /\ nBytes > 0
  /\ ~RdhError /\ ScanEnd > pos
  /\ pages' = Append(pages, Page) /\ pos' = ScanEnd
  /\ KeepScan
  /\ UNCHANGED <<player, fpOk, loopCount, orbitOffset, playerOn>>

\* An invalid header, also behind good packets, or a first packet that is not whole:
\* the page is dropped and the replay ends.
AbortReplay ==
  /\ Reading /\ nBytes > 0
  /\ RdhError \/ ScanEnd = pos
  /\ fpOk' = FALSE /\ pos' = ScanEnd
  /\ KeepScan
  /\ UNCHANGED <<player, loopCount, orbitOffset, playerOn, pages>>

\* The end of the file: the end of the replay...
AtEnd == ~(player.autoChunkLoop # 0 /\ loopCount + 1 + player.autoChunkLoop # 0)

ReplayCompleted ==
  /\ Reading /\ nBytes = 0 /\ AtEnd
  /\ fpOk' = FALSE
  /\ UNCHANGED <<player, pos, loopCount, orbitOffset, lastTimeframe, firstOrbit, playerOn, pages>>

\* Mutant: the orbits of the next loop are those of the file.
NextLoopSameOrbits ==
  /\ Reading /\ nBytes = 0 /\ ~AtEnd
  /\ pos' = 1 /\ loopCount' = loopCount + 1
  /\ UNCHANGED <<player, fpOk, orbitOffset, lastTimeframe, firstOrbit, playerOn, pages>>

\* ...or another loop, which starts behind the last timeframe.  The page is empty.
NextLoop ==
  /\ Reading /\ nBytes = 0 /\ ~AtEnd
  /\ pos' = 1 /\ loopCount' = loopCount + 1
  /\ orbitOffset' = (lastTimeframe * Period) % OrbitMod
  /\ UNCHANGED <<player, fpOk, lastTimeframe, firstOrbit, playerOn, pages>>

\* Reading or seeking fails.
ReadError ==
  /\ Reading
  /\ fpOk' = FALSE
  /\ UNCHANGED <<player, pos, loopCount, orbitOffset, lastTimeframe, firstOrbit, playerOn, pages>>

\* Without autoChunk: the file was loaded by the constructor, which refuses one that
\* does not fit.
Copies == IF player.fillPage THEN player.pageSize \div fileSize ELSE 1

CopyPage ==
  /\ playerOn /\ ~player.autoChunk /\ Len(pages) < MaxPages
  /\ fileSize <= player.pageSize
  /\ pages' = Append(pages, [link |-> file[1].link, timeframeId |-> 1,
                first |-> 1, last |-> Len(file), loop |-> 0, copies |-> Copies,
                rdhShift |-> 0, orbitOffset |-> 0])
  /\ UNCHANGED <<player, fpOk, pos, loopCount, orbitOffset, lastTimeframe, firstOrbit, playerOn>>

PlayerStep == NextPage \/ AbortReplay \/ ReplayCompleted \/ NextLoop \/ CopyPage

-----------------------------------------------------------------------------
(* Properties *)

\* The timeframe of packet i of the file in its first loop.
FileTimeframe(i) == TimeframeOf(file[1].orbit, file[i].orbit)

\* Packet behind packet i of a loop: the next one of the file, or its first one.
Follows(page, next) ==
  \/ next.loop = page.loop /\ next.first = page.last + 1
  \/ next.loop = page.loop + 1 /\ page.last = Len(file) /\ next.first = 1

\* The pages of a replay are the packets of the file, none twice, none left out, in
\* order and as many times as asked; each page has one link and one timeframe, which
\* its headers agree with, and fits; and the timeframes keep increasing over the loops.
ReplayIsFaithful ==
  player.autoChunk =>
  /\ pages # << >> => pages[1].first = 1 /\ pages[1].loop = 0
  /\ \A k \in 1 .. Len(pages) - 1 : Follows(pages[k], pages[k + 1])
  /\ \A k \in DOMAIN pages : LET p == pages[k] IN
       /\ FileOffset[p.last + 1] - FileOffset[p.first] <= player.pageSize
       /\ player.autoChunkLoop <= 0 => p.loop < (IF player.autoChunkLoop = 0 THEN 1 ELSE -player.autoChunkLoop)
       /\ \A i \in p.first .. p.last :
            /\ file[i].valid /\ file[i].stored = file[i].size /\ file[i].link = p.link
            /\ TimeframeOf(firstOrbit, file[i].orbit + p.rdhShift + p.orbitOffset) = p.timeframeId
  /\ \A k, m \in DOMAIN pages : k < m =>
       LET p == pages[k]  q == pages[m] IN
       /\ p.timeframeId <= q.timeframeId
       /\ p.timeframeId = q.timeframeId <=>
            p.loop = q.loop /\ FileTimeframe(p.first) = FileTimeframe(q.first)
=============================================================================
