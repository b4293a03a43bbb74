---------------------------- MODULE LogbookThread ----------------------------
(***************************************************************************)
(* The publication of the run counters to the bookkeeping service          *)
(* (class LogbookThread and Readout::publishLogbookStats() of              *)
(* mainReadout.cxx).  The control thread asks with a flag, the logbook     *)
(* thread copies the global counters, calls the service and clears the     *)
(* flag; the control thread waits for it with a time-out at STOP only.     *)
(*                                                                         *)
(* The counters are one number, and the run number that they belong to.    *)
(* The copy is a memcpy() that other threads do not stop for: the two are  *)
(* copied one after the other, in an order the build chooses.  The service *)
(* is external: it stores what it gets, or the call throws, or it does not *)
(* end: the code gives it no time limit.                                   *)
(***************************************************************************)
EXTENDS Naturals

CONSTANTS
  Runs,                   \* run numbers; UndefinedRun is none of them
  UndefinedRun,           \* undefinedRunNumber
  MaxSuccessiveFailures,  \* maxSuccessiveFailures, 3
  MaxCount                \* bound on the counters of a run

ASSUME LogbookAssumption ==
  /\ UndefinedRun \notin Runs
  /\ MaxSuccessiveFailures \in Nat \ {0} /\ MaxCount \in Nat

VARIABLES
  stats,     \* gReadoutStats.counters: count and run
  thread,    \* the LogbookThread object and its thread
  publish,   \* the call of publishStats() under way, and its last result
  records    \* per run, what the service has stored: 0, or the count plus one

logbookVars == <<stats, thread, publish, records>>

NoThread == [exists |-> FALSE, handle |-> FALSE, request |-> FALSE, success |-> FALSE,
             shutdown |-> FALSE, failures |-> 0, pc |-> "ended",
             count |-> 0, run |-> UndefinedRun]

LogbookInit ==
  /\ stats = [count |-> 0, run |-> UndefinedRun]
  /\ thread = NoThread
  /\ publish = [pc |-> "idle", ok |-> FALSE]
  /\ records = [r \in Runs |-> 0]

-----------------------------------------------------------------------------
(* Constructor and destructor, called by CONFIGURE and RESET *)

CreateThread ==
  /\ thread' = [NoThread EXCEPT !.exists = TRUE, !.handle = TRUE, !.pc = "loop"]
  /\ UNCHANGED <<stats, publish, records>>

AskShutdown ==
  /\ thread' = [thread EXCEPT !.shutdown = TRUE]
  /\ UNCHANGED <<stats, publish, records>>

\* th->join() returns.
JoinThread ==
  /\ thread.pc = "ended"
  /\ thread' = NoThread
  /\ UNCHANGED <<stats, publish, records>>

-----------------------------------------------------------------------------
(* publishStats() *)

Return(ok) == publish' = [pc |-> "idle", ok |-> ok]

Request == thread' = [thread EXCEPT !.request = TRUE]

\* Without a time-out: a request that is pending is not repeated, and nobody looks
\* at the result.
PublishAsync ==
  /\ publish.pc = "idle"
  /\ IF thread.handle /\ ~thread.request THEN Request ELSE UNCHANGED thread
  /\ UNCHANGED <<stats, publish, records>>

\* Mutant: the request that is pending is taken for this one.
PublishSyncJoinsPending ==
  /\ publish.pc = "idle"
  /\ \/ ~thread.handle /\ Return(FALSE) /\ UNCHANGED thread
     \/ thread.handle /\ publish' = [publish EXCEPT !.pc = "asked"] /\ Request
  /\ UNCHANGED <<stats, records>>

\* With a time-out: first a request that is pending has to be over.
PublishSync ==
  /\ publish.pc = "idle"
  /\ \/ ~thread.handle /\ Return(FALSE) /\ UNCHANGED thread
     \/ /\ thread.handle /\ thread.request
        /\ publish' = [publish EXCEPT !.pc = "pending"] /\ UNCHANGED thread
     \/ /\ thread.handle /\ ~thread.request
        /\ publish' = [publish EXCEPT !.pc = "asked"] /\ Request
  /\ UNCHANGED <<stats, records>>

\* It is: the counters of now are asked for.
PendingOver ==
  /\ publish.pc = "pending" /\ ~thread.request
  /\ Request /\ publish' = [publish EXCEPT !.pc = "asked"]
  /\ UNCHANGED <<stats, records>>

PublishDone ==
  /\ publish.pc = "asked" /\ ~thread.request
  /\ Return(thread.success)
  /\ UNCHANGED <<stats, thread, records>>

\* Mutant: a time-out is no failure.
PublishTimeoutIsOk ==
  /\ publish.pc \in {"pending", "asked"}
  /\ Return(TRUE)
  /\ UNCHANGED <<stats, thread, records>>

\* Mutant: the wait for the answer has no time-out.
PublishTimeoutPendingOnly ==
  /\ publish.pc = "pending"
  /\ Return(FALSE)
  /\ UNCHANGED <<stats, thread, records>>

\* The time-out covers both waits.
PublishTimeout ==
  /\ publish.pc \in {"pending", "asked"}
  /\ Return(FALSE)
  /\ UNCHANGED <<stats, thread, records>>

PublishStep == PendingOver \/ PublishDone \/ PublishTimeout

-----------------------------------------------------------------------------
(* run() *)

\* Top of the loop.
LogbookLoop ==
  /\ thread.pc = "loop"
  /\ \/ /\ thread.shutdown \/ ~thread.handle
        /\ thread' = [thread EXCEPT !.pc = "ended"]
     \/ /\ ~thread.shutdown /\ thread.handle /\ thread.request
        /\ thread' = [thread EXCEPT !.success = FALSE, !.pc = "copy"]
  /\ UNCHANGED <<stats, publish, records>>

\* The two halves of the memcpy().
CopyFirst ==
  /\ thread.pc = "copy"
  /\ \/ thread' = [thread EXCEPT !.count = stats.count, !.pc = "copyRun"]
     \/ thread' = [thread EXCEPT !.run = stats.run, !.pc = "copyCount"]
  /\ UNCHANGED <<stats, publish, records>>

CopySecond ==
  /\ \/ thread.pc = "copyRun" /\ thread' = [thread EXCEPT !.run = stats.run, !.pc = "call"]
     \/ thread.pc = "copyCount" /\ thread' = [thread EXCEPT !.count = stats.count, !.pc = "call"]
  /\ UNCHANGED <<stats, publish, records>>

\* Nothing is published without a run number; the request is over all the same, and
\* the copy out of scope.
NoRunNumber ==
  /\ thread.pc = "call" /\ thread.run = UndefinedRun
  /\ thread' = [thread EXCEPT !.request = FALSE, !.pc = "loop",
                               !.count = 0, !.run = UndefinedRun]
  /\ UNCHANGED <<stats, publish, records>>

\* The service has been called and has not answered.
InCall == thread.pc = "call" /\ thread.run # UndefinedRun

\* updateReadoutCountersByFlpNameAndRunNumber() returns: the status is set before
\* the request is cleared.
CallReturns ==
  /\ thread.pc = "call" /\ thread.run # UndefinedRun
  /\ records' = [records EXCEPT ![thread.run] = thread.count + 1]
  /\ thread' = [thread EXCEPT !.success = TRUE, !.failures = 0, !.pc = "clear"]
  /\ UNCHANGED <<stats, publish>>

\* It throws: the last failure in a row closes the handle and leaves the loop,
\* with the request still set.
CallThrows ==
  /\ thread.pc = "call" /\ thread.run # UndefinedRun
  /\ thread' = IF thread.failures + 1 >= MaxSuccessiveFailures
               THEN [thread EXCEPT !.handle = FALSE, !.failures = @ + 1, !.pc = "ended"]
               ELSE [thread EXCEPT !.failures = @ + 1, !.pc = "clear"]
  /\ UNCHANGED <<stats, publish, records>>

ClearRequest ==
  /\ thread.pc = "clear"
  /\ thread' = [thread EXCEPT !.request = FALSE, !.pc = "loop",
                               !.count = 0, !.run = UndefinedRun]
  /\ UNCHANGED <<stats, publish, records>>

LogbookStep ==
  \/ LogbookLoop \/ CopyFirst \/ CopySecond \/ NoRunNumber
  \/ CallReturns \/ CallThrows \/ ClearRequest

-----------------------------------------------------------------------------
(* The counters *)

\* ReadoutStats::reset(): the counters first, the run number last.
ResetCount == stats' = [stats EXCEPT !.count = 0] /\ UNCHANGED <<thread, publish, records>>

SetRun(r) == stats' = [stats EXCEPT !.run = r] /\ UNCHANGED <<thread, publish, records>>

\* The equipments and the main loop count data.
CountData ==
  /\ stats.count < MaxCount
  /\ stats' = [stats EXCEPT !.count = @ + 1]
  /\ UNCHANGED <<thread, publish, records>>
=============================================================================
