# Verification of Readout in TLA+

Readout is the process that, on each first-level processor of the ALICE data
acquisition, takes the data of the read-out cards out of the memory they write
to by DMA, groups it by timeframe and hands it to consumers (file recorder, data
distribution, quality control, statistics). This directory holds TLA+ models of
it, the TLC configurations that check them on small instances and theorems that
TLAPS proves for every size. All paths below are relative to the repository.

How to run, in this directory:

    tlc -workers 2 -config MCReadout.cfg MCReadout      # one run of PROJECT.json
    tlapm MemoryPagesPoolProofs.tla                     # one module of proofs

## 1. Inventory

### Data flow

    memory banks --(manager)--> page pools
                                  | getPage / releasePage
    equipment threads --dataOut--> aggregator thread --agg_output--> main loop
                                                                       | pushData
                                             consumers ---(forward)--> consumers

Data blocks live in pages of a pool. They are passed by reference counted
containers through FIFOs; the last reference that goes away, in whatever thread,
gives the page back to its pool. One thread per equipment, one for the
aggregator, one for the main loop, a few per consumer, one monitor of the memory
banks, one for the logbook, and the main thread that executes the commands.

### Components

| Component | State | Operations | Hard behaviour | What makes it correct |
|---|---|---|---|---|
| Memory pages pool (`MemoryPagesPool`, `DataBlockContainer`) | FIFO of free pages, state of each page, reference counts, buffer state | getPage, releasePage, getNewDataBlockContainer, getChildBlock, updatePageState, updateBufferState | concurrent get and release under two different mutexes, release from a destructor in any thread, ignored result of a push | no page lost or given out twice; page states agree with where the pages are; buffer state right when nobody interferes |
| Memory bank manager | banks, ranges in use, pools, monitor thread, one mutex | addBank, getPagedPool, reset, start/stopMonitoring | unsigned and int arithmetic, alignment, a thread joined under a mutex | pools are disjoint, aligned and inside their bank; reset returns |
| Aggregator and slicer | partial and complete slices per input, buffer of timeframes, last timeframe, round robin index, flush flag | start, stop, one callback in three modes | flags set by another thread in the middle of a callback, full output, late data, timeouts | no block vanishes; slices are homogeneous; order of sources and of timeframes; a flush ends |
| Process (`mainReadout.cxx`, class Readout) | state of the state machine, run, error and signal flags, components, links between consumers | configure, start, stop, reset, iterate, destructor, main loop | failures half way, signals at any time, threads that outlive what they use | data never outlives its owner; nothing is left between runs or after reset; a run that has to stop stops |
| Readout equipment (base) | thread, output FIFO, timeframe numbering, RDH checks, rate limit, error flags | start, stop, setDataOn/Off, read-out loop, processRdh | 32 bit orbits that wrap, first orbit shared by the equipments, a block set aside | timeframe ids agree between equipments; each block once |
| CRU/CRORC equipment | queues of superpages | setDataOn/Off, prepareBlocks, getNextBlock | DMA stopped while pages are in the driver | every page comes back |
| Player equipment | position in the file, link, timeframe and orbit offset of the replay | getNextBlock, initCounters | a packet, or its header, cut by the end of a page; loops whose orbits go on; read errors | the pages are the file, each of one link and one timeframe |
| CRU emulator equipment | clock, frame under way and packet counter of each link, pages ready | prepareBlocks, getNextBlock | a frame over several pages, links that are filled in turn | frames are complete and numbered |
| ZMQ equipment, ZMQ client and server | snapshot under a lock, highest timeframe heard of, number of blocks given | snapshot thread, timeframe callback, getNextBlock, publish | three threads on the same message, lost messages, a server that counts from one again | one block per timeframe, made of one whole message |
| Dummy equipment | a counter | prepareBlocks | | |
| Consumer (base) | filters, forward consumer, error flags | start, stop, pushData | called from the main loop or from another consumer's thread | contract of Consumer.h |
| Data processor consumer | worker threads with two FIFOs each, FIFO of ids | pushData, worker loop, collector loop | tag written after the push, order restored by id | output in the order of the input; no stall |
| FairMQ channel consumer | ring of worker threads, buffer of a timeframe, pool for headers and copies | pushData, format, send, start, stop | ring of threads, shutdown while sending, drops of incomplete timeframes | each timeframe sent once and whole |
| File recorder | files per source with their limits, a packet set aside per link | start, stop, pushData, rotation of files | limits met between a header and its payload, a heartbeat frame over two pages, failures to open and to write | each file within its limits, what is recorded complete up to some point |
| Other consumers (stats, checker, sampling, FMQ, TCP, ZMQ, RDMA) | counters, connections | pushData | | |
| Logbook thread | handle, request and success flags, copy of the counters | publishLogbookStats, publishStats, run, destructor | a request with a timeout that meets one under way, a thread that gives up after three failures, counters reset during a copy | a request ends; a success is one; the record of a run is not overwritten |
| Sync server (`syncServer.cxx`) and its clients in START | groups of waiting clients per run, a timer thread per group | register a client, look, answer all, SYNC and its timeout in START | a client that comes while its group is answered, gives up, or comes back; a server that restarts | who was taken in is answered, together with its group |
| FairMQ test receiver (`receiverFMQ.cxx`) | parts of a message, decoder of superpages, delayed releases | receive in four modes, release | a frame over several pages, messages kept for a while | it finds the frames that were sent, and gives each page back |
| Statistics, sockets, database, RDH utilities | see PROJECT.json | | | |
| Other tools (`readRaw`, ...) | none shared with the process | | | |

The behaviours that tests hardly reach are listed under `hazards` in
PROJECT.json, each at its line, with the properties that cover it.

## 2. Plan

Done (in this order, the core of the system first): `MemoryPagesPool` with
proofs, `DataBlockAggregator`, `Readout`, `MemoryBankManager` with proofs,
`ConsumerDataProcessor` as a refinement of `OrderedPipe`, `ReadoutEquipment`,
`ConsumerFMQchannel`, `DDformatMessage`, `ConsumerFileRecorder`; then
`LogbookThread` and `SyncServer` with `RunServices` that composes them,
`ReadoutEquipmentPlayer`, `ReadoutEquipmentCruEmulator` and `ReadoutEquipmentZmq` with
`TimeframeChain` that composes them, and `ReceiverFMQ` behind `DDformatMessage`.

The proofs are about the pool, the banks, the equipments, the aggregator, the process, the
services, the data processor with its refinement, and the chain of timeframes (section 6).

Next:

1. Proofs: TimeframesAccounted and OrderedOutput of the FairMQ consumer, FilesWellFormed
   of the recorder, PoolIsWellUsed of DDformatMessage.
2. A data flow module that composes pool, equipment, aggregator and main loop
   and shows that STOP brings every page back (abstract specification: pages are
   free or in flight).
3. The TCP and ZMQ consumers with their connections.

The project has a limited set of runs, one for each question.

## 3. Modules

Variables and actions have the names of the code. Each definition is mapped to
its lines in PROJECT.json. A definition commented "Variant:" or "Mutant:" is a
plausible mistake, used to see that a property notices it; no specification uses it.

### MemoryPagesPool

State: `pagesAvailable` (the FIFO), `slot` (an element written but not yet
published, as in the single producer FIFO of the Common library, which is
external), `pageState`, the references `refs` and `children` to the container of
each page, the two mutexes, and per thread where it is inside getPage() or
releasePage(). Each access to shared data is a step: lock and read of the first
element, advance, marking, sampling of the usage, decision, write, store. State
and usage are written under the pop mutex by getPage() and under the push mutex
by releasePage(), so that updates overlap: `raced` remembers whether the last
update did. Any thread may play any role: equipment, aggregator, consumer. A
thread that works on a page holds one raw page at a time. The number of child
blocks that fit in a page is `ChildSlots`.

### DataBlockAggregator

One action per step of `executeCallback()`: `Begin` (reads time and flush flag),
`PassThrough`, `PopBlock`, `PopWrongBlock` (a link id that the slicer refuses ends the
thread), `PopDone` (slice timeout), `Retrieve`, `RetrieveFull` (return without
advancing the index), `RetrieveDone`, `Emit`, `End`. Between any two of them the
equipments push (`Produce`), the main loop takes (`Consume`), and the control asks
for a flush or stops. A block is a record of source, timeframe and serial number;
time is the age of a slice or of a timeframe, cut at its timeout. `delivered`,
`late`, `dropped`, `wrong` and `closed` are histories for the properties.

### Readout

The main thread executes one command at a time, each of them as a sequence of
steps at whose boundaries other threads run: `StartDevice`, `DataOn`, ... ,
`DestroyDevices`. Data is abstracted to the fact that a place holds some:
`dataOut[e]`, `aggHeld`, `output`, `held[c]`. `consumersOutput` is keyed by
addresses, chosen by the allocator at each CONFIGURE, as pointers are in the
code. Two drivers: the standalone sequence and the interactive prompt; an
uncaught failure of a function enters the error state. `Signal` may come at any
time, twice in a row ends the process. Reading a destroyed object is either
harmless or the end of the process (`ConfigureCrashes`, `PushToDestroyed`).

The OCC state machine calls the same functions; its START, STOP and RESET are in
`RunServices`, with what they wait for.

### MemoryBankManager

`SizeT` and `ToInt` are the conversions to `size_t` and `int`, of any width.
`GetPagedPool` is the locked part of the function (search of the end of the
ranges in use, alignment, check, reservation), `ZeroMemory` the unlocked one,
`CreatePool` the constructor and the second lock. `Reset` takes the mutex and
`StopMonitoring`, `JoinMonitor` are its end; the destructor takes the same steps
without the mutex. A request without a bank name uses the first bank, which is
the same as naming it.

### ConsumerDataProcessor, OrderedPipe

The caller of pushData() (`Push`, `FindThread`, `Tag`, `Track`), each processing
thread (`Take`, `Process`) and the collector (`Front`, one `Scan` per thread
looked at) interleave freely, and the destructor stops them in turn. A block is
a number; its id is written in its header (`pipelineId`) after it was given to a
thread. The header of a result is the same one with zlib, which works in place,
or a copy made by the processing (`resultId`) with LZ4. `threadIx` is an `int` that
wraps around, with the remainder of C++: a negative index ends the process.
`accepted`, `out`, `noResult` and `refusedById` are histories. The abstract pipe
is the promise: what goes out was taken, at most once, in the order taken if the
order is enforced.

### ReadoutEquipment

The thread of each equipment (`th`) goes through its callback: `RetryPending`,
`PopLeftover` and `ReadBlock` take one block each, `ReadEnds` leaves the loop,
`PrepareBlocks` and `PushSuperpage` give a page to the card, `PrepareEnds` ends the
callback. The page is with the thread between the two, while the control may stop
the DMA (`SetDataOff`). `ReadBlock` is getNextBlock() with processRdh(), in the order of
the code: detector field, tags and first orbit, first orbit of the link, then the
packets up to the first one that is wrong. `eq` holds the counters that
initCounters() and start() reset. The card (`CardFills`, external) fills a page that
it has with any superpage of the set-up, gives back its pages without data when
the DMA stops, and keeps what it has ready until it is read. `Tick` is the time of
the rate limit; `GetBlock` is the aggregator with all that comes after it, until
the page is free. The control goes through the equipments one after the other.

A superpage is a sequence of headers: link, orbit (`OrbitMod` values), detector field
(a set of bits, of which the code looks at `CtpWidth`), validity. The orbit of the
trigger is the one of the heartbeat, the orbit offset is zero, the first header of
a page is used and the error and warning messages, on which the code makes some
errors depend, are on as by default. The loop over 1024 blocks ends by an empty queue or a full output
only.

### ConsumerFMQchannel

The thread that calls the consumer (`pc`), the formatting threads (`wpc`) and the
sender (`spc`) interleave at each access to a FIFO or a flag. Datasets are
numbered in the order of pushData(); `PushData(new, last)` is a dataset of the
current timeframe or of a new one, with or without the flag of its end. A
timeframe is the list of its datasets until the formatting replaces it by the
list of those that have messages; the null pointers that keep the turns in step
are empty lists. `run` is the number of datasets at each START. `Start`, `Stop` (then `WaitThreads` and `WaitSender`, each of
which may time out) and `Destroy` come from the control; `SendMessage(FALSE)` is
a send that times out. `err` is not initialised in DDsendMessage(): `GiveUp`
chooses its value. Without threads pushData() formats and sends by itself
(`PushDirect`). `owed`, `sentData` and `overtaken` are histories. start() does not look at
the threads: it may come, after a timeout of stop() or before they have seen that the run is
over, while they are at work for the last run. `overtaken` remembers that the run began in
this way.

### DDformatMessage

One call of DDformatMessage() for any dataset: a sequence of packets (heartbeat
orbit, page counter, stop bit, "no next packet") cut into pages in any way. The
first iteration is `CheckPacket`, the second `CutPacket`, each one packet per
step, while FairMQ may give back the pages of other messages (`Release`). A
packet has size one; `ChildHeader` is the size of the header of a part of a
shared page. `refs` counts the references on the heap to each page of the pool,
which the callback of a message or the error path deletes.

### ReceiverFMQ

What goes out of pushData() in its three formats and what `receiverFMQ` makes of it:
`PushRaw` and `PushSuperpage` send whole pages, `SendFrames` the messages of
DDformatMessage(); `Receive` is one turn of the receiving loop, `ReleaseDelayed` and
`Destroyed` its queue of messages kept for a while. `DecodeSuperpages` is the decoder
that cuts pages into frames again, packet by packet, as a fold over the parts of
the message. `FramesAreExact` compares its result with a definition of the frames
over the whole dataset.

### ConsumerFileRecorder

One step is one call of writeToFile(), with its two attempts and the change to the
next file in between: `WriteHeader`, `WritePayload`, and packet by packet
`WritePrevious`, `SetAside`, `WritePacket`, `SkipCouple`, `InvalidPacket`. Opening a file
and writing may fail (`MayFail`). A set-up (`cfg`) fixes the parameters, the sources
(equipment and link) and the pages; a page is a sequence of packets, of which the code
looks at the validity, the page counter, the stop bit, the emptiness and the offset of the
next packet, which is the size that it writes (`PacketSize`: one, or zero without a next
packet, and then the loop leaves the page, `GoOn`). `pushed`, `recorded` and `fileIds` are histories of the run.
RecordedIsPrefix compares what was recorded with a definition of the empty
frames over the whole sequence of packets of a source.

### SyncServer, LogbookThread, RunServices

`SyncServer` has the receiving loop (`Register`), the timer thread of a group as the
steps between which it holds no lock (`Look`, `Decide`, `CloseGroup`, `SendReply`,
`EndThread`), and the client in START (`SyncSend`, then `SyncRecv`, `SyncTimeout`, or
`SyncClosed`). ZeroMQ is external: messages to a server that is not there wait for it,
answers to a client that is gone are lost. `ServerStops` loses all that the server
knows. Time is the age of requests and waits, cut where it matters.

`LogbookThread` has the two threads of a publication. The caller asks
(`PublishAsync`, `PublishSync`) and, if it waits, does so for a request under way and
then for its own (`PendingOver`, `PublishDone`, `PublishTimeout`); the thread copies the
counters in two steps (`CopyFirst`, `CopySecond`, as a memcpy() of atomics under way) and
calls the bookkeeping service, which is external and returns or throws. `records` is
what the service has for each run.

`RunServices` composes both with the commands of the OCC state machine. One process
is looked at with its control thread, the others only pass the barrier. The
counters are reset in START before the run number is set, in steps of their own, as
the logbook thread may copy them in between.

### ReadoutEquipmentPlayer, ReadoutEquipmentCruEmulator, ReadoutEquipmentZmq, TimeframeChain

`ReadoutEquipmentPlayer`: one step is one call of getNextBlock(). A file is a sequence
of packets (link, orbit, size in the header, bytes stored, validity), read into a page
and scanned up to the packet where the link or the timeframe changes (`ChangePage`),
where the page ends, or that is wrong (`ScanEnd`). `NextPage`, `AbortReplay`,
`ReplayCompleted`, `NextLoop`, `ReadError` are the ways out; without autoChunk, `CopyPage`.

`ReadoutEquipmentCruEmulator`: prepareBlocks() packet by packet (`PrepareBlocks`, `NewFrame`,
`ContinueFrame`, `EndPage`), with the state of each link; `GetNextBlock` gives out what is
ready. A payload is counted in packets and chosen from the set of the configuration
at each frame; `ClockTicks` is the clock that triggers follow. Bunch crossings and
orbits are those of the code, with `LHCBunches` of them in an orbit.

`ReadoutEquipmentZmq`: the thread that receives snapshots (`SnapRecv`, `SnapLock`,
`SnapUnlock`), the callback of the timeframe client (`TfCallback`) and the read-out thread
(`BlockBegin`, `BlockLock`, `BlockUnlock`, `BlockOut`; `StreamBlock` without snapshot). A message
is its number and its size; the first and last byte of a copy are followed
separately (`lo`, `hi`), so that a copy without the lock could mix two messages.

`TimeframeChain` is two processes: the main loop of the first one, with its rate
limit, takes the pages of a player or an emulator and publishes each new timeframe;
the ZMQ equipment of the second one hears of it or not (`TfPublish`), across STOP and
START of either. The aggregator in between is what `DataBlockAggregator` shows of it
(`DataSet`, `IsNext`): without slicing the pages come one by one in the order of the
equipment; with slicing, the default, the pages of one link and one timeframe, or a part of
them, come together, and the links come in any order.

## 4. Runs

| Run | What it shows | Bounds |
|---|---|---|
| `pool` | PageConservation, ReleaseNeverRejected, StatesAgree | 3 interchangeable threads, 2 pages, 1 child slot: a get and two releases can overlap, the FIFO can be empty, partly filled and full, all three buffer states are reached |
| `aggregator` | BlocksInSlices, LateIsJustified, OutputOrder, FlushTerminates | all three modes, 2 inputs, 4 sources (three on one input, of which one is refused by the slicer and one may have no timeframe), 2 timeframes, 3 blocks, inputs of one block and an output of two data sets, loops of one iteration: output full in the middle of a callback, late data, timeouts, restarts, flushes |
| `readout` | CleanBetweenCommands, ResetOrder, PushedWhileStarted, DataReleasedFirst, RunIsStopped | 2 equipments, 2 consumers of which one feeds the other, several CONFIGURE commands, both drivers |
| `processor` | KeepsOrder (refinement of `OrderedPipe`), BlocksTracked, BlocksGoOut | 2 threads with FIFOs of one block, 5 blocks so that the FIFO of 4 ids can be full, one that may fail, both libraries, ordered and not, an `int` that overflows after 3 pages |
| `equipment` | PagesAccounted, BlocksInSequence, TimeframeNumbering, FatalErrorJustified, DataInCtpRun, EquipmentIsEmptied | six set-ups (two equipments with two first orbits; timeframes that wrap around; a wrong first header and two links; rate limit with both kinds of ids; CTP bits), 2 pages per equipment, queues of one, 3 superpages, 2 runs: a page left in the card or set aside at STOP meets the next run |
| `fmq` | TimeframesAccounted, OrderedOutput, PendingGoesOut | no thread or 2, FIFOs of one timeframe, 4 datasets of which one fails in one run, or 3 over 2 runs (`MaxCalls`): FIFOs full, a timeframe lost, a stop during a send, timeouts of stop(), restart with the threads at rest or not |
| `ddformat` | FramesAreExact, PoolIsWellUsed | all datasets of up to 4 packets of 5 kinds in up to 3 pages, 9 configurations of sender and receiver, a pool of 3 pages with 0 to 3 in use: two copies in one page, copies in two, no page left at each point, frames cut again by the receiver, messages kept for a while |
| `recorder` | RecordedIsPrefix, FilesWellFormed | 29 set-ups (each limit with each kind of filesMax, headers, files per equipment, link or both, dropped frames with two links), 3 pages of up to 3 packets, 2 runs: rotation, no file left, round robin, an empty frame over two pages with another link in between, an invalid packet after a packet set aside, packets without a next one |
| `banks` | PoolsDisjoint, PoolsAligned | 2 banks, one at an odd address, 8 kinds of requests, 4 pools between two resets, `size_t` of 7 bits and `int` of 5 so that both limits are met |
| `bank_reset` (violation) | ResetReturns | with the monitor |
| `services` | FinalIsPublished, BatchIsQuiet, RecordsOnlyGrow, EveryoneAnswered, CommandsEnd | the synchronisation server and the logbook each by itself, as they share nothing but the START that goes through both in turn (together they have more than 18 million states); 2 processes that may meet, come late or be alone, one stop of the server that may come back or not, `Quiet` and `ClientTimeout` of one tick so that either may be over first; 2 runs and one without run number, 3 failures in a row |
| `timeframes` | SourcesAreFaithful, TicksIncrease, BlocksAreMessages, OneBlockPerTimeframe, TimeframesServed | files of 4 packets, two links and two timeframes, in pages of 3, 4, 5 and 10 bytes that cut packets, headers or nothing, loops of each kind, a wrong packet at each place; 8 configurations of the emulator, with orbits of 4 bunch crossings; both rate limits, slices of one and of two links; 2 starts of the first process, 4 blocks of the second |

Each property of a passing run has a mutant of the code that violates it (see
PROJECT.json). The type invariant is a part of the accounting invariant of a module
where it is not checked by itself. Deadlock is checked in the runs of the pool and of the aggregator;
the process, the bank manager, the data processor, the equipments and the FairMQ
consumer really stop when they are ended, DDformatMessage() returns and its receiver
waits, and the runs of the file recorder, of the services and of the timeframes are
bounded: the commands, files and messages that they are given come to an end.

The violation run shows that RESET can block with the memory monitor enabled: reset()
joins the monitor thread with the mutex that this thread waits for. It is under
`findings` in PROJECT.json with the line that it contradicts.

Some behaviours that the models show have no run of their own. A timeframe with
more data sets than the room left in the output loses the rest (`dropped` in
`DataBlockAggregator`). A signal ends one run of a standalone sequence of several,
since the next START clears the flag. The map of consumer outputs survives RESET
with entries for destroyed consumers (`consumersOutput`). An alignment gap larger
than the block defeats the check of the bank size, as two sums wrap around, and
the process ends when it zeroes the block (`ZeroMemory`). An equipment that begins
with orbit 0 does not define the first orbit for the others, as 0 stands for an
undefined one (`ZeroIsUnused`). Pages that the card had ready when the thread was
stopped are read at the beginning of the next run. A block that arrives between
the two emptiness tests of an input keeps its slice out of a flush, which is
declared done all the same (`DataBlockAggregator`, PopDone and End). RESET after a
START that failed clears the output of the aggregator while its thread still
runs; what it pushes then is left behind when the pools are destroyed
(`DataReleasedFirst` leaves out this case). The first page counter of a heartbeat
frame, if not zero, is reported and does not make the frame incomplete
(`CheckPages`), so that a frame without its first packets passes dropIncomplete.
The header page of a timeframe that is dropped for this reason is never given
back (`PagesAccounted` states this exception). A frame that fits in a page without
the header of a part of it fails as if no page were left (`FailureJustified`). A
timeframe reported as dropped because a FIFO is full stays in the buffer, and is
sent if there is room when the next one begins. The datasets gathered for a
timeframe that was not complete at STOP are sent in the next run, as start()
forgets the timeframe and keeps its buffer; TimeframesAccounted has that no timeframe mixes the data of two runs, and that there is one
such timeframe at most in a run that is not overtaken (`OneStaleTimeframe` in
`ConsumerFMQchannel`). A START that comes before the threads are done with the last run, or
before the sender has seen its end, breaks the order of the output: the round robin begins
with the first thread again and the sender, which has not reset its turn, takes what comes
from another one, or a worker that still empties its FIFO for the last run takes a timeframe
of the new one. TLC shows dataset 3 sent before dataset 2 if the exception for
`overtaken` is taken out of OrderedOutput. Nothing in stop() (ConsumerFMQchannel.cxx:1389) or
start() (:1363) prevents this. With
headers and a maximum number of pages, the file recorder writes a header at the
end of a file and its payload in the next one, or nowhere if there is none, as the
header is what counts as the page. A page larger than bytesMax ends the recording of
all streams, while a file that cannot be opened at a rotation ends that of one
stream without a message. The last packet set aside in a run is not recorded. If
empty frames are dropped, a page is written packet by packet: a limit in bytes cuts it,
against "Data pages are never truncated" (ConsumerFileRecorder.cxx:171,
doc/configurationParameters.md:105), and a valid packet with an offset of 0 to the next one
is counted and written with no bytes, the rest of its page is lost, and the recording goes
on (ConsumerFileRecorder.cxx:629-638). `RecordedIsPrefix` is then about the packets up to such a one.

In the data processor, a page that is processed before it is tagged is never the one
the collector looks for, and stalls the ordered output (ConsumerDataProcessor.cxx:294,
against the comment at :197). A CTP run bit above the fourth never enables the data, as
the code keeps four bits (ReadoutEquipment.cxx:808, against
doc/configurationParameters.md:136).

In the services: a process that registers between the last look of the timer thread
and its answer is answered at once. The default timeout of a client, 3 s, is shorter
than the 5 s after which the server answers, so that no client is still there to hear
the answer. START does not always end at its timeout (against the comment at
mainReadout.cxx:1613, and doc/configurationParameters.md:210): its socket has the default
linger, so that zmq_ctx_term() (mainReadout.cxx:1631) waits without limit for a server to take
the request (`SyncClosed`). RESET joins a logbook thread that may be in a call of the
bookkeeping service without end. These are the two places of `WaitsForService`; CommandsEnd
has that a command ends or is at one of them. A STOP
without run number reports a failed publication, and so does any STOP after the
thread has given up, with its request still set. A publication that took too long may
be made of the counters of the next START, after they are reset and before the run
number is (RecordsOnlyGrow states this exception). The socket of the server is used
by its main thread and by the timer threads, which ZeroMQ does not allow; the model
does not show what this does.

In the equipments: the count of blocks of the ZMQ equipment is not reset between runs,
so that after a STOP and START of the timeframe server no block goes out until the ids
exceed those of before. An id of 0 restarts the count. With a snapshot that is absent, too old
or too large the page goes out in full size with what was in it (`BlocksAreMessages`
leaves such blocks out). An invalid header in a replay drops also the good packets before it in the page; a file
whose last packet is cut ends the replay without the loops asked for; without autoChunk
all pages are of timeframe 1. The links of the emulator that have frames of different
sizes run apart: orbits and timeframes of its output go back, and the rest of a frame
gets the orbit of another page; so it is with triggers when a frame is longer than
a page; and a step of less than a heartbeat orbit gives several frames in one. `Regular`
excludes these configurations from the order in TicksIncrease and from the part of
SourcesAreFaithful that is about orbits. With slices of several links, the default, ids come
to the main loop in any order between the links: with a link that has nothing for
timeframe 1 at first they are 1, 2, 1, and timeframe 1 is published, and counted for the rate limit,
twice (mainReadout.cxx:1761). TicksIncrease states the order for pages that
reach the main loop in the order of the equipment (`OneOrder`), and the pace for all.

In `receiverFMQ`: a packet without a next one in the superpage format ends the program,
by a rethrow without an exception; so does the delayed release in this format, as the
parts that are queued were moved away before (`ReceiverAborts`).

`RecordedIsPrefix` leaves out, if frames are dropped, sources with the same link id: they
share the packet that is set aside, which may go to the file of the other.
`PoolsAligned` is stated for the alignments that an `int` holds
and that are multiples of the system page size, as smaller ones are replaced.
`DataInCtpRun` is stated for the packets in which no more than one bit changes, and
for pages that are not set aside.

## 5. Fairness

* `DataBlockAggregator!FairSpec`: the aggregator thread is scheduled (it is a
  thread with a finite sleep) and the main loop takes data. Nothing is assumed
  of equipments or of the control.
* `Readout!FairSpec`: the main thread goes on (the standalone mode needs no
  input), and the main loop notices that it has to end, since it tests
  `isRunning` in each iteration. No fairness for keys, faults, signals or the
  other threads.
* `ConsumerDataProcessor!FairSpec`: each thread goes on, as all of them poll
  with a finite sleep. Nobody has to push a block or to destroy the consumer.
* `ReadoutEquipment!FairSpec`: the threads are scheduled, time goes on, and the
  aggregator takes the data while an equipment is not stopped. The card need not
  send anything and nobody has to start or stop.
* `ConsumerFMQchannel!FairSpec`: all threads poll with a finite sleep and go on;
  the waits of stop() have a timeout; a message that is offered again and again
  is taken in the end (weak fairness of `SendMessage(TRUE)`), which a receiver that
  is alive does. Nobody has to push, start or stop, and nothing is assumed of the
  time between a STOP and the next START.
* `RunServices!Spec`: the threads of process and server go on and time passes. A server
  that stopped need not be started again, a call of the bookkeeping service need not end
  (`WF_vars(~InCall /\ Logbook)`), and no command has to come.
* `TimeframeChain!Spec`: the three threads of the second process go on, and its pool
  has a page again and again. Nothing is assumed of the first process, of the
  publisher, or of the delivery of a message.
* `MemoryBankManager!FairSpec`: both threads are scheduled. The mutex is weakly
  fair only: a thread may lose every race for it.

## 6. Theorems

Each module of proofs has an inductive invariant `IInv`, a conjunction of named parts,
the theorem `Invariance` (`Spec => []IInv`) and the theorems that follow from it. All
constants are arbitrary within the named assumption of the module, and TLC has checked
`IInv` on the instance of the run before it was proved. A property of a run that a
theorem states is named in PROJECT.json.

`MemoryPagesPoolProofs`, for every set of threads, number of pages, stages,
thresholds: TypeCorrect, PagesConserved, ReleaseAlwaysAccepted, StatesTrue. PageConservation
is not inductive: the invariant adds `Locks` (which mutex a
thread holds at each point) and `InFlight` (the page being popped is still the
first of the FIFO, the slot being filled holds the page being released). That
the FIFO has room is the pigeonhole principle: its elements are distinct and do
not contain the page being released. For StatesAgree it adds `PageMarks` (a page is
marked only by the thread that has it) and `SoloUpdate` (a thread that is alone in the
update of the buffer state has a sample that is still true). Assumptions: `PoolAssumption`;
that the threshold `OkPct` is at most 100 is needed for StatesAgree (it is 80 in
MemoryPagesPool.h).

`MemoryBankManagerProofs`, for every set of banks, requests and widths of the
integers: TypeCorrect, PoolsNeverOverlap, BlocksStartAligned. The invariant adds `Covered`
(a pool ends before the end of some range of its bank), `Pending` (the block
under way starts after all pools of its bank), `Checked` (only a block inside
its bank becomes a pool) and `Alignment` (of the block under way and of the pools). Assumptions,
`BankAssumption`: banks do not wrap around
the address space, and neither does the size of a bank with an alignment added,
nor the size of the pages of one request. Nothing is assumed of the order of
magnitude of a block: its size may wrap, and the proof
uses that zeroing such a block ends the process.

`ReadoutProofs`, for every number of equipments, consumers, runs and CONFIGURE commands,
every set of outputs, both drivers: CommandsLeaveNothing (CleanBetweenCommands),
PushesOnlyToStarted, DataGoesFirst, ResetInOrder. The invariant says for each point of
the main thread how far the loops over equipments and consumers have come: `Calls` (in
which state a function is called), `MainLoop` (when the loop exists, all consumers are
started), `Stopping`, `Resetting`, `Ending` (what each of these has done already), `Clean`
(STANDBY) and `Links` (a consumer that holds data exists; one that is fed is known as
such). It is stated for a process that is alive, as a process that is gone
takes no step.

ResetInOrder has a hypothesis, `OrderedLinks`: all outputs of the configuration are one
consumer, or there is one CONFIGURE and a consumer that is fed feeds only later ones.
Without it ResetOrder is false, as TLC shows: with four consumers, 2 that feeds 1 and
4 that feeds 3, and two CONFIGURE commands, the map of outputs still has the address of the
former consumer 2; if consumer 3 is now there, it is given output 1, both are fed, and RESET
destroys 1 before 3. The instance of the run satisfies the hypothesis.

`RunServicesProofs`, for every set of processes and runs, timeouts and bounds on failures
and stops of the server: QuietBatches (BatchIsQuiet), FinalStays (FinalIsPublished), Growth
(RecordsOnlyGrow). The two services share only the run number, so the invariant has two
halves. `BarrierInv`: one timer thread watches a group if and only if the group waits
(`OneTimer`), the last activity is that of the youngest client (`GroupAges`), and what a
thread has read before it lets the lock go stays a lower bound (`SeenAges`). `LogInv`: during
the final publication the counters stand still, so that what the thread copies is what
they are (`FinalCall`); nothing can be on its way to the record of a run whose final
publication was reported (`Settled`); and as long as no final publication failed, what
is on its way is between the record and the counters (`Growing`).

`ConsumerDataProcessorProofs`, for every number of threads, size of the FIFOs, set of
blocks that may fail, and width of the index: BlocksKept (BlocksTracked) and ImplementsPipe
(KeepsOrder: initial states and steps of the processor are those of `OrderedPipe`, under the mapping
of its histories). The order rests on `Ranks` (the id of a block is its rank among the
accepted ones; a block processed before it was tagged has no id, but never the id of
another one), `NextIds` (idFifo holds the ranks that follow what went out) and `OutIsPrefix`; the
accounting on `OnePlace` and `Accounted`. TrackingIsEnough, that the FIFO of ids is never the one that
refuses a block unless a block got no result before, is by counting: the blocks between
acceptance and output fit in the FIFOs of the threads, which the FIFO of ids is as large as.

`TimeframeChainProofs`, for every file, configuration of the emulator, mode of the
subscriber, number of messages, blocks and restarts, and the aggregator with or without slicing: BlocksWhole (BlocksAreMessages),
NoBlockTwice (OneBlockPerTimeframe) and LimitKept (`TicksPaced`, the part of TicksIncrease
about the pace). The invariant has, for the subscriber, who holds the lock (`Locked`), that
the snapshot is one message and the next one is later (`InSnapshot`), that a block under
way is copied from a snapshot that stands still (`InBlock`), that nothing older can follow what is out
(`OutInOrder`), and that a block under way has a timeframe (`Counted`); for the first process, the types of
player and emulator (a page that comes to the main loop has a positive timeframe id, which
an orbit of any value and a wrap-around of the orbits cannot change) and `Published`.
The scan of a page by the player ends at a first packet that is not in the page;
that there is one is shown with a least element (`LeastElement`, from the
well-foundedness of the natural numbers). Assumptions: `PlayerAssumption` (a file is not
empty), `EmulatorAssumption`, `ZmqAssumption`, `ChainAssumption`.

`ReadoutEquipmentProofs`, for every set of configurations, number of equipments, pages,
runs and superpages, size of the queues, period of the timeframes and width of the CTP
bitset: TypeCorrect, PagesAreAccounted (PagesAccounted), BlocksLeaveInSequence
(BlocksInSequence), TimeframesNumbered (TimeframeNumbering), FatalErrorsJustified
(FatalErrorJustified), DataOnlyInCtpRun (the action property DataInCtpRun). None of them
is inductive. The invariant has `Commanded` (which thread runs at each point of START and
STOP, and that one that is off has nothing set aside), `Accounted` (the sum of the pages
of an equipment, and room in the card for the page that the thread is about to push),
`Numbered` (the block id is the number of blocks sent or set aside, and there was a
superpage for each), `FromFirstOrbit` (each block of the run, also the one set aside by
the rate limit, has the timeframe that the first orbit of its equipment gives),
`OrbitsShared` (an equipment without error has the orbit that all share),
`ErrorsJustified` (the shared orbit is that of an equipment of this run, and who has an
error began with another orbit than one of them) and `InCtpRun` (data is kept exactly
while there is a run bit). The largest step is `ReadBlock`: its lemmas follow processRdh()
check by check. The check of the packets stops at the first one that is wrong, or at the
last one; that there is such a packet is shown with a least element (`LeastElement`).
Assumptions, `EquipmentAssumption`: the period divides the range of the orbit counter, and
there are finitely many bits in a detector field.

`DataBlockAggregatorProofs`, for every number of equipments and sources, way to connect
them, set of refused sources, set of timeframe ids, capacity, timeout, and in each of the
three modes: TypeCorrect, BlocksAreInSlices (BlocksInSlices), OnlyLateIsLate
(LateIsJustified), OutputKeepsOrder (the action property OutputOrder). The blocks of a
source form one line: what left the slicers, the complete slices, the slice being built,
the input (`Lined`); `Partition` says that they are in one of these places or out,
delivered, late, dropped or refused. Order and places need the shape of what is in each
place: `InputsOK`, `BuildingOK`, `QueuesOK` and `BufferOK` (a slice has one source and one
timeframe, in order; a queue has the slices of each source in order; what waits for
a timeframe belongs to it). `Numbered` makes the next block of a source the latest one.
`Timeframes` is for the third mode: the last timeframe sent is the highest, all that waits
is later, and what was delivered is not, but for the timeframe under way, which the
callback sends to its end whatever the output takes. The lemmas are about the operations
on these places (append, take the first, concatenate, distribute by timeframe) and each
action is one of these moves. Assumption: `AggregatorAssumption`, which only gives the
constants their types.

The type invariants are proved and are not a property of a run.

Only model-checked:

* all liveness: fairness and ENABLED are out of the reach of the prover;
* that timeframes increase (TicksIncrease without TicksPaced): it is a
  property of the file, or of the emulator with the configurations of `Regular`, without slicing
  or with one link, and does not hold for every file;
* SourcesAreFaithful and FramesAreExact: what a recursive function or a fold over a sequence computes
  (the bytes of a file, the stream of a link, the decoder of `ReceiverFMQ`) needs
  an induction over an operator, which the prover cannot instantiate;
* the FairMQ consumer, DDformatMessage and the file recorder, about which nothing is proved yet
  (TimeframesAccounted, OrderedOutput, PoolIsWellUsed, RecordedIsPrefix, FilesWellFormed).

## 7. Not modelled

The components with status `not_modelled` in PROJECT.json, with the reason
there: the dummy equipment, which only fills pages; the consumers that are thin
layers over counters or over an external transport (statistics, checker, sampling,
FMQ, TCP, ZMQ, RDMA); the memory banks, sockets, the run number database, the utilities
for the RDH and the other tools, which are input and output, SQL, or functions of one
header.

In the modelled ones: logging, statistics, texts, the parsing of the configuration in
the constructors, NUMA placement, the custom command shell; in the equipments, the
block rate limit, the software clock, the options disableOutput and disableTimeframes,
the trigger check, and the count of packets dropped by the card; in the ZMQ equipment,
the end of its threads in the destructors; in the FairMQ consumer, the statistics of pages pending in FairMQ; in
the receiver, its options, dumps and warnings, and the second implementation behind a
return.
