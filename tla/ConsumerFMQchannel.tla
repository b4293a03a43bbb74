------------------------ MODULE ConsumerFMQchannel ------------------------
(***************************************************************************)
(* The consumer that gives the data to data distribution, through a        *)
(* FairMQ channel (ConsumerFMQchannel.cxx), seen from its threads.         *)
(*                                                                         *)
(* pushData() gathers the datasets of a timeframe and gives timeframes in  *)
(* turn to the formatting threads.  The sender takes them back in the same *)
(* turn, so that they leave in order without any tag: the turns must never *)
(* get out of step, whatever is dropped, fails or is emptied on the way.   *)
(* Nothing in start() waits for the threads, and stop() gives up after its *)
(* timeout, so that a run may start before the threads are done with the   *)
(* last one: overtaken says that this is such a run.                       *)
(* start(), stop(), pushData() and the destructor are called one after the *)
(* other (Readout joins the thread that calls pushData() before stop()).   *)
(* What the formatting makes of a dataset is in DDformatMessage.           *)
(***************************************************************************)
EXTENDS Integers, Sequences, FiniteSets, SequencesExt

CONSTANTS
  ThreadCounts,     \* the values of "threads" to look at; 0 sends in pushData()
  FifoSize,         \* threadsFifoSize
  FailingData,      \* the datasets that DDformatMessage() fails for
  MaxData,          \* bound: datasets pushed
  MaxRuns,          \* bound: calls of start()
  MaxCalls          \* bound: datasets and calls of start() together

ASSUME FMQAssumption ==
  /\ ThreadCounts \subseteq Nat /\ ThreadCounts # {}
  /\ FifoSize \in Nat \ {0}
  /\ FailingData \subseteq 1 .. MaxData
  /\ MaxData \in Nat /\ MaxRuns \in Nat /\ MaxCalls \in Nat

\* the datasets are numbered in the order of pushData()
Data == 1 .. MaxData

\* a list of datasets: a timeframe for the formatting threads, its messages for the sender,
\* and the empty list also for a null pointer in the output FIFOs
DataLists == Seq(Data)

VARIABLES
  nwThreads,
  isRunning, wThreadShutdown,
  pc,               \* the thread that calls the consumer
  run, n,           \* the datasets pushed before each run started, and so far
  hasTimeframe,              \* whether currentTimeframeId is defined
  currentTimeframeBuffer,    \* the empty list when null
  wThreadIxWrite,
  wpc, tf, pushCount, wIsRunning, input, output,   \* per formatting thread
  spc, thIx, senderThreadIsRunning,
  msglist, tried, isError,   \* the sender: the messages left, and DDsendMessage()
  nTFdiscardedEOR,
  owed,                      \* history: timeframes in the threads in this run that the sender is not done with
  sentData,                  \* history: the last dataset that left
  overtaken                  \* history: whether this run met the threads at work for the last one

callVars == <<run, n, hasTimeframe, currentTimeframeBuffer, wThreadIxWrite>>
workVars == <<wpc, tf, pushCount, wIsRunning>>
fifoVars == <<input, output>>
sendVars == <<thIx, msglist, tried, isError, sentData>>
countVars == <<nTFdiscardedEOR, owed, overtaken>>
flagVars == <<nwThreads, isRunning, wThreadShutdown>>
vars == <<flagVars, pc, callVars, workVars, fifoVars, spc, sendVars, senderThreadIsRunning,
          countVars>>

Threads == 0 .. nwThreads - 1

CallStates == {"stopped", "running", "send", "waitThreads", "waitSender", "join", "gone"}
WorkStates == {"top", "drain", "format", "ended"}
SendStates == {"top", "drain", "send", "ended"}

\* Every variable has its type; the FIFOs hold no more than they can.
TypeOK ==
  /\ nwThreads \in ThreadCounts
  /\ isRunning \in BOOLEAN /\ wThreadShutdown \in BOOLEAN
  /\ pc \in CallStates
  /\ run \in Seq(0 .. MaxData) /\ Len(run) <= MaxRuns /\ n \in 0 .. MaxData
  /\ hasTimeframe \in BOOLEAN /\ currentTimeframeBuffer \in DataLists
  /\ wThreadIxWrite \in 0 .. nwThreads
  /\ wpc \in [Threads -> WorkStates] /\ tf \in [Threads -> DataLists]
  /\ pushCount \in [Threads -> 0 .. 1] /\ wIsRunning \in [Threads -> BOOLEAN]
  /\ input \in [Threads -> Seq(DataLists)] /\ output \in [Threads -> Seq(DataLists)]
  /\ \A w \in Threads : Len(input[w]) <= FifoSize /\ Len(output[w]) <= FifoSize
  /\ spc \in SendStates /\ thIx \in 0 .. nwThreads
  /\ senderThreadIsRunning \in BOOLEAN
  /\ msglist \in DataLists /\ tried \in BOOLEAN /\ isError \in BOOLEAN
  /\ nTFdiscardedEOR \in Nat /\ owed \in Nat
  /\ sentData \in 0 .. MaxData /\ overtaken \in BOOLEAN

\* the constructor creates the threads; with none, there is no sender either
Init ==
  /\ nwThreads \in ThreadCounts
  /\ isRunning = FALSE /\ wThreadShutdown = FALSE
  /\ pc = "stopped" /\ run = <<>> /\ n = 0
  /\ hasTimeframe = FALSE /\ currentTimeframeBuffer = <<>> /\ wThreadIxWrite = 0
  /\ wpc = [w \in Threads |-> "top"] /\ tf = [w \in Threads |-> <<>>]
  /\ pushCount = [w \in Threads |-> 0] /\ wIsRunning = [w \in Threads |-> FALSE]
  /\ input = [w \in Threads |-> <<>>] /\ output = [w \in Threads |-> <<>>]
  /\ spc = (IF nwThreads = 0 THEN "ended" ELSE "top") /\ thIx = 0
  /\ senderThreadIsRunning = FALSE
  /\ msglist = <<>> /\ tried = FALSE /\ isError = FALSE
  /\ nTFdiscardedEOR = 0 /\ owed = 0
  /\ sentData = 0 /\ overtaken = FALSE

-----------------------------------------------------------------------------
(* start(), pushData().                                                    *)

\* the timeframes between the push in an input FIFO and the sender's end with them
TotalLength(fifo) == Cardinality(UNION {{w} \X DOMAIN fifo[w] : w \in Threads})

InFlight ==
  TotalLength(input) + Cardinality({w \in Threads : pushCount[w] > 0}) + TotalLength(output)
    + (IF spc = "send" THEN 1 ELSE 0)

\* nothing of a run is left in the threads, and the sender has seen the end of it
AtRest == InFlight = 0 /\ ~senderThreadIsRunning

Start ==
  /\ pc = "stopped" /\ Len(run) < MaxRuns /\ n + Len(run) < MaxCalls
  /\ pc' = "running" /\ isRunning' = TRUE /\ run' = Append(run, n)
  /\ nTFdiscardedEOR' = 0
  /\ hasTimeframe' = FALSE
  /\ wThreadIxWrite' = 0
  /\ owed' = InFlight
  /\ overtaken' = ~AtRest
  /\ UNCHANGED <<nwThreads, wThreadShutdown, n, currentTimeframeBuffer, workVars, fifoVars, spc,
                 thIx, msglist, tried, isError, sentData, senderThreadIsRunning>>

\* what pushData() works on: the FIFOs, whose turn it is, and the buffer
Ring == [input |-> input, ix |-> wThreadIxWrite, buffer |-> currentTimeframeBuffer,
         owed |-> owed]

\* Variant: the turn passes to the next thread even if the FIFO was full.
PushCurrentTimeframeSkip(r) ==
  IF r.buffer = <<>> THEN r
  ELSE IF Len(r.input[r.ix]) >= FifoSize
    THEN [r EXCEPT !.ix = (@ + 1) % nwThreads]
    ELSE [input |-> [r.input EXCEPT ![r.ix] = Append(@, r.buffer)],
          ix |-> (r.ix + 1) % nwThreads, buffer |-> <<>>, owed |-> r.owed + 1]

\* nothing to push, or the FIFO of the thread is full and the timeframe stays in the buffer
PushCurrentTimeframe(r) ==
  IF r.buffer = <<>> \/ Len(r.input[r.ix]) >= FifoSize
    THEN r
    ELSE [input |-> [r.input EXCEPT ![r.ix] = Append(@, r.buffer)],
          ix |-> (r.ix + 1) % nwThreads, buffer |-> <<>>, owed |-> r.owed + 1]

\* A new timeframe takes the place of the last one, which is lost if it could not be pushed;
\* more data of a timeframe that has gone already is lost.
AddData(r, new) ==
  IF new THEN [PushCurrentTimeframe(r) EXCEPT !.buffer = <<n + 1>>]
  ELSE IF r.buffer = <<>> THEN r
  ELSE [r EXCEPT !.buffer = Append(@, n + 1)]

CanPush == pc = "running" /\ n < MaxData /\ n + Len(run) < MaxCalls

\* processForDataDistribution() for the next dataset, of the timeframe of the last one or of
\* a new one, with or without flagEndOfTimeframe (an empty dataset, or one that spans two
\* timeframes, is left without any change)
PushData(new, last) ==
  /\ CanPush /\ nwThreads # 0
  /\ new \/ hasTimeframe
  /\ n' = n + 1
  /\ hasTimeframe' = TRUE
  /\ \E added \in {AddData(Ring, new)} :
       \E r \in {IF last THEN PushCurrentTimeframe(added) ELSE added} :
         /\ input' = r.input /\ wThreadIxWrite' = r.ix /\ owed' = r.owed
         /\ currentTimeframeBuffer' = r.buffer
  /\ UNCHANGED <<flagVars, pc, run, workVars, output, spc, sendVars,
                 senderThreadIsRunning, nTFdiscardedEOR, overtaken>>

\* the messages that the formatting makes of datasets: none of one that it fails for
Messages(data) == SelectSeq(data, LAMBDA d : d \notin FailingData)

\* without threads: the dataset is formatted, and sent in SendMessage, before pushData() returns
PushDirect ==
  /\ CanPush /\ nwThreads = 0
  /\ n' = n + 1
  /\ msglist' = Messages(<<n + 1>>)
  /\ pc' = IF msglist' = <<>> THEN "running" ELSE "send"
  /\ UNCHANGED <<flagVars, run, hasTimeframe, currentTimeframeBuffer, wThreadIxWrite,
                 workVars, fifoVars, spc, thIx, tried, isError, sentData,
                 senderThreadIsRunning, countVars>>

-----------------------------------------------------------------------------
(* stop(), the destructor.                                                 *)

\* the flag; the waits that follow have a common timeout
Stop ==
  /\ pc = "running"
  /\ pc' = "waitThreads" /\ isRunning' = FALSE
  /\ nTFdiscardedEOR' = 0
  /\ UNCHANGED <<nwThreads, wThreadShutdown, callVars, workVars, fifoVars, spc, sendVars,
                 senderThreadIsRunning, owed, overtaken>>

\* the formatting threads have seen the flag, or the timeout is over; the sender has to do
\* one more iteration, if there is one
WaitThreads(timeout) ==
  /\ pc = "waitThreads"
  /\ timeout \/ \A w \in Threads : ~wIsRunning[w]
  /\ pc' = "waitSender"
  /\ senderThreadIsRunning' = (nwThreads # 0)
  /\ UNCHANGED <<flagVars, callVars, workVars, fifoVars, spc, sendVars, countVars>>

\* the last wait, for FairMQ to release the pages, changes nothing here
WaitSender(timeout) ==
  /\ pc = "waitSender"
  /\ timeout \/ ~senderThreadIsRunning
  /\ pc' = "stopped"
  /\ UNCHANGED <<flagVars, callVars, workVars, fifoVars, spc, sendVars, senderThreadIsRunning,
                 countVars>>

\* cleanupThreads()
Destroy ==
  /\ pc = "stopped"
  /\ pc' = "join" /\ wThreadShutdown' = (nwThreads # 0)
  /\ UNCHANGED <<nwThreads, isRunning, callVars, workVars, fifoVars, spc, sendVars,
                 senderThreadIsRunning, countVars>>

\* the threads have ended; their FIFOs are destroyed with them
Joined ==
  /\ pc = "join"
  /\ spc = "ended" /\ \A w \in Threads : wpc[w] = "ended"
  /\ pc' = "gone"
  /\ input' = [w \in Threads |-> <<>>] /\ output' = [w \in Threads |-> <<>>]
  /\ UNCHANGED <<flagVars, callVars, workVars, spc, sendVars, senderThreadIsRunning,
                 countVars>>

-----------------------------------------------------------------------------
(* wThreadLoop().                                                          *)

OutputFull(w) == Len(output[w]) >= FifoSize

\* a null pointer for a timeframe that was taken and not given to the sender
FillOutput(w) ==
  IF pushCount[w] > 0 /\ ~OutputFull(w) THEN [output EXCEPT ![w] = Append(@, <<>>)] ELSE output

\* the test of the flags, and out of the loop or into one of its branches
WorkTop(w) ==
  /\ wpc[w] = "top"
  /\ wThreadShutdown \/ ~isRunning
  /\ output' = FillOutput(w)
  /\ pushCount' = [pushCount EXCEPT ![w] = 0]
  /\ wpc' = [wpc EXCEPT ![w] = IF wThreadShutdown THEN "ended" ELSE "drain"]
  /\ UNCHANGED <<flagVars, pc, callVars, tf, wIsRunning, input, spc, sendVars,
                 senderThreadIsRunning, countVars>>

\* the branch for (!isRunning): the input FIFO is emptied, be it of a run that started since
\* the flag was read
WorkDrain(w) ==
  /\ wpc[w] = "drain"
  /\ nTFdiscardedEOR' = nTFdiscardedEOR + Len(input[w])
  /\ input' = [input EXCEPT ![w] = <<>>]
  /\ pushCount' = [pushCount EXCEPT ![w] = 0]
  /\ wIsRunning' = [wIsRunning EXCEPT ![w] = FALSE]
  /\ wpc' = [wpc EXCEPT ![w] = "top"]
  /\ overtaken' = (overtaken \/ (isRunning /\ input[w] # <<>>))
  /\ UNCHANGED <<flagVars, pc, callVars, tf, output, spc, sendVars, senderThreadIsRunning, owed>>

\* Variant: a timeframe is taken whatever room there is for the result.
HasRoomAlways(w, fifo) == TRUE

HasRoom(w, fifo) == Len(fifo[w]) < FifoSize

\* running: a timeframe is taken if there is room for the result
WorkTake(w) ==
  /\ wpc[w] = "top" /\ ~wThreadShutdown /\ isRunning
  /\ wIsRunning' = [wIsRunning EXCEPT ![w] = TRUE]
  /\ output' = FillOutput(w)
  /\ IF HasRoom(w, output') /\ input[w] # <<>>
       THEN /\ tf' = [tf EXCEPT ![w] = Head(input[w])]
            /\ input' = [input EXCEPT ![w] = Tail(@)]
            /\ pushCount' = [pushCount EXCEPT ![w] = 1]
            /\ wpc' = [wpc EXCEPT ![w] = "format"]
       ELSE /\ pushCount' = [pushCount EXCEPT ![w] = 0]
            /\ UNCHANGED <<wpc, tf, input>>
  /\ UNCHANGED <<flagVars, pc, callVars, spc, sendVars, senderThreadIsRunning, countVars>>

\* the messages of the datasets that could be formatted are pushed, even if there are none
WorkFormat(w) ==
  /\ wpc[w] = "format"
  /\ IF OutputFull(w)
       THEN UNCHANGED <<output, pushCount>>
       ELSE /\ output' = [output EXCEPT ![w] = Append(@, Messages(tf[w]))]
            /\ pushCount' = [pushCount EXCEPT ![w] = @ - 1]
  /\ tf' = [tf EXCEPT ![w] = <<>>]
  /\ wpc' = [wpc EXCEPT ![w] = "top"]
  /\ UNCHANGED <<flagVars, pc, callVars, wIsRunning, input, spc, sendVars, senderThreadIsRunning,
                 countVars>>

-----------------------------------------------------------------------------
(* senderThreadLoop(), DDsendMessage().                                    *)

SendTop ==
  /\ spc = "top"
  /\ wThreadShutdown \/ ~isRunning
  /\ spc' = IF wThreadShutdown THEN "ended" ELSE "drain"
  /\ UNCHANGED <<flagVars, pc, callVars, workVars, fifoVars, sendVars, senderThreadIsRunning,
                 countVars>>

\* the branch for (!isRunning): the output FIFOs are emptied, as above
SendDrain ==
  /\ spc = "drain"
  /\ nTFdiscardedEOR' = nTFdiscardedEOR + TotalLength(output)
  /\ output' = [w \in Threads |-> <<>>]
  /\ thIx' = 0
  /\ senderThreadIsRunning' = FALSE
  /\ spc' = "top"
  /\ overtaken' = (overtaken \/ (isRunning /\ TotalLength(output) > 0))
  /\ UNCHANGED <<flagVars, pc, callVars, workVars, input, msglist, tried, isError, sentData,
                 owed>>

\* Variant: an item without messages is skipped before the turn is passed on.
NextTurnOfMessages(item) == IF item = <<>> THEN thIx ELSE (thIx + 1) % nwThreads

\* whose turn it is after an item
NextTurn(item) == (thIx + 1) % nwThreads

\* running: the item of the thread whose turn it is, if it is there; one without messages is
\* skipped
SendTake ==
  /\ spc = "top" /\ ~wThreadShutdown /\ isRunning
  /\ senderThreadIsRunning' = TRUE
  /\ IF output[thIx] = <<>>
       THEN UNCHANGED <<spc, sendVars, output, owed>>
       ELSE /\ msglist' = Head(output[thIx])
            /\ output' = [output EXCEPT ![thIx] = Tail(@)]
            /\ thIx' = NextTurn(msglist')
            /\ spc' = IF msglist' = <<>> THEN "top" ELSE "send"
            /\ owed' = owed - (IF msglist' = <<>> THEN 1 ELSE 0)
            /\ UNCHANGED <<tried, isError, sentData>>
  /\ UNCHANGED <<flagVars, pc, callVars, workVars, input, nTFdiscardedEOR, overtaken>>

Sending == (spc = "send" \/ pc = "send") /\ msglist # <<>>

MaySend == ~wThreadShutdown /\ isRunning

\* Send() returns: the message is gone, or its short timeout is over
SendMessage(ok) ==
  /\ Sending /\ MaySend
  /\ IF ok
       THEN sentData' = Head(msglist) /\ msglist' = Tail(msglist) /\ tried' = FALSE
       ELSE tried' = TRUE /\ UNCHANGED <<sentData, msglist>>
  /\ UNCHANGED <<flagVars, pc, callVars, workVars, fifoVars, spc, thIx, isError,
                 senderThreadIsRunning, countVars>>

\* The loop ends with the last error, or with the initial value of err, which is any, if
\* Send() was not called at all.
GiveUp ==
  /\ Sending /\ ~MaySend
  /\ msglist' = Tail(msglist) /\ tried' = FALSE
  /\ \E failed \in IF tried THEN {TRUE} ELSE BOOLEAN : isError' = (isError \/ failed)
  /\ UNCHANGED <<flagVars, pc, callVars, workVars, fifoVars, spc, thIx, sentData,
                 senderThreadIsRunning, countVars>>

\* the timeframe that stop() interrupted counts as discarded
DiscardedInSend == IF isError /\ ~isRunning THEN 1 ELSE 0

SendEnd ==
  /\ spc = "send" /\ msglist = <<>>
  /\ spc' = "top"
  /\ nTFdiscardedEOR' = nTFdiscardedEOR + DiscardedInSend
  /\ owed' = owed - (IF isError /\ ~isRunning THEN 0 ELSE 1)
  /\ isError' = FALSE
  /\ UNCHANGED <<flagVars, pc, callVars, workVars, fifoVars, thIx, msglist, tried, sentData,
                 senderThreadIsRunning, overtaken>>

DirectEnd ==
  /\ pc = "send" /\ msglist = <<>>
  /\ pc' = "running" /\ isError' = FALSE
  /\ UNCHANGED <<flagVars, callVars, workVars, fifoVars, spc, thIx, msglist, tried, sentData,
                 senderThreadIsRunning, countVars>>

-----------------------------------------------------------------------------

Work(w) == w \in Threads /\ (WorkTop(w) \/ WorkDrain(w) \/ WorkTake(w) \/ WorkFormat(w))

Send == SendTop \/ SendDrain \/ SendTake \/ SendEnd \/ DirectEnd \/ GiveUp

Next ==
  \/ Start \/ PushDirect \/ Stop \/ Destroy \/ Joined
  \/ \E new, last \in BOOLEAN : PushData(new, last)
  \/ \E timeout \in BOOLEAN : WaitThreads(timeout) \/ WaitSender(timeout)
  \/ \E w \in Threads : Work(w)
  \/ Send
  \/ \E ok \in BOOLEAN : SendMessage(ok)

Spec == Init /\ [][Next]_vars

AllThreads == UNION {0 .. t - 1 : t \in ThreadCounts}

\* The threads run, the receiver takes a message in the end if it is offered again and
\* again, the timeouts of stop() end.
FairSpec ==
  /\ Spec
  /\ \A w \in AllThreads : WF_vars(Work(w))
  /\ WF_vars(Send) /\ WF_vars(SendMessage(TRUE))
  /\ WF_vars(WaitThreads(TRUE)) /\ WF_vars(WaitSender(TRUE))
  /\ WF_vars(Joined)

-----------------------------------------------------------------------------
(* Properties.                                                             *)

\* The datasets leave in the order of pushData(), and each of them once, in every run that the
\* threads were ready for: the turns of pushData() and of the sender agree whatever is dropped
\* at a full FIFO, fails in the formatting or is discarded at the end of a run ("in order to
\* keep good TF ordering on output").  Nothing in the code makes the threads ready: stop()
\* gives up after its timeout, start() only sets the turn of pushData() back to 0.  When START
\* finds the work of the last run in the threads, or they empty a FIFO after it because they
\* read isRunning before it, the turns are out of step and the order is lost until a run
\* starts with everything at rest.
OrderedOutput == [][sentData' # sentData /\ sentData' <= sentData => overtaken]_vars

\* the timeframes in the consumer, wherever they are
Timeframes ==
  {currentTimeframeBuffer, msglist}
    \cup UNION {ToSet(input[w]) \cup ToSet(output[w]) \cup {tf[w]} : w \in Threads}

OfEarlierRun(d) == run # <<>> /\ d <= run[Len(run)]

\* start() leaves what is in the buffer: data of two runs is never mixed in a timeframe, and
\* of the data of an earlier run one timeframe at most goes into a run that is not overtaken.
OneStaleTimeframe ==
  /\ \A t \in Timeframes : \A i, j \in DOMAIN t : OfEarlierRun(t[i]) <=> OfEarlierRun(t[j])
  /\ ~overtaken => Cardinality({t \in Timeframes : t # <<>> /\ OfEarlierRun(t[1])}) <= 1

\* Every timeframe given to a thread in a run that is not overtaken is in a FIFO or in the
\* hands of a thread, or the sender is done with it, or it is in the number of discarded
\* timeframes that stop() reports; and at most one is of an earlier run.  (Every variable has
\* its type besides.)
TimeframesAccounted ==
  /\ TypeOK /\ OneStaleTimeframe
  /\ pc # "gone" /\ ~overtaken => owed = nTFdiscardedEOR + InFlight

\* What is pending is dealt with, while running and in and after stop(), even after a
\* timeout of stop(): the FIFOs get empty ("this is done continuously in the (!isRunning)
\* case of the worker threads and the sender thread"), unless a run begins before that.
PendingGoesOut == (InFlight > 0) ~> (InFlight = 0 \/ overtaken)
=============================================================================
