---------------------------- MODULE RunServices ----------------------------
(***************************************************************************)
(* A readout process, its commands as the OCC state machine gives them     *)
(* (class ReadoutOCCStateMachine), and the two services that its START,    *)
(* STOP and RESET wait for: the barrier of SyncServer, shared with other   *)
(* processes, and the bookkeeping of LogbookThread.  Both may fail, be     *)
(* late, or go away and not come back.                                     *)
(***************************************************************************)
EXTENDS SyncServer, LogbookThread

CONSTANTS
  Flp,        \* the process that is looked at; the others only pass the barrier
  Services,   \* the configurations to look at: externalSyncServer set, logbookEnabled
  MaxRuns     \* bound on the runs of Flp

ASSUME FlpAssumption ==
  /\ Flp \in Procs /\ SyncIds \subseteq Runs \cup {UndefinedRun}
  /\ Services \subseteq [sync : BOOLEAN, logbook : BOOLEAN]
  /\ MaxRuns \in Nat

VARIABLES
  services, \* the configuration
  ctl,      \* what the control thread of Flp does
  final     \* history: per run, the final publication: made, its result, its count

vars == <<services, syncVars, logbookVars, ctl, final>>

Undone == [done |-> FALSE, ok |-> FALSE, count |-> 0]

Init ==
  /\ SyncInit /\ LogbookInit
  /\ services \in Services
  /\ ctl = "standby"
  /\ final = [r \in Runs \cup {UndefinedRun} |-> Undone]

\* The run numbers that START is called with.
RunNumbers == IF services.sync THEN SyncIds ELSE Runs \cup {UndefinedRun}

\* The run number of the current or last START of Flp.
occRunNumber == client[Flp].run

-----------------------------------------------------------------------------
(* The commands of Flp *)

Configure ==
  /\ ctl = "standby" /\ ctl' = "configured"
  /\ IF services.logbook THEN CreateThread ELSE UNCHANGED logbookVars
  /\ UNCHANGED <<syncVars, final, services>>

\* executeStart(): a run number is given to one START only.
ExecuteStart(r) ==
  /\ ctl = "configured" /\ ctl' = "barrier"
  /\ ~final[r].done /\ Cardinality({q \in DOMAIN final : final[q].done}) < MaxRuns
  /\ IF services.sync THEN SyncSend(Flp, r) ELSE SkipSync(Flp, r)
  /\ UNCHANGED <<logbookVars, final, services>>

\* _start() behind the barrier: gReadoutStats.reset(1), in two steps...
StartReset ==
  /\ ctl = "barrier" /\ client[Flp].pc = "passed" /\ ctl' = "startReset"
  /\ ResetCount
  /\ client' = [client EXCEPT ![Flp].pc = "idle"]
  /\ UNCHANGED <<up, crashes, groups, threads, requests, replies, final, services>>

StartUnsetRun ==
  /\ ctl = "startReset" /\ ctl' = "startUnset"
  /\ SetRun(UndefinedRun)
  /\ UNCHANGED <<syncVars, final, services>>

\* ...the run number...
StartSetRun ==
  /\ ctl = "startUnset" /\ ctl' = "startSet"
  /\ SetRun(occRunNumber)
  /\ UNCHANGED <<syncVars, final, services>>

\* ...and the first publication.
StartPublish ==
  /\ ctl = "startSet" /\ ctl' = "running"
  /\ PublishAsync
  /\ UNCHANGED <<syncVars, final, services>>

\* The data are counted while running, and _iterateRunning() publishes.
RunningCount ==
  /\ ctl = "running" /\ CountData
  /\ UNCHANGED <<syncVars, ctl, final, services>>

RunningPublish ==
  /\ ctl = "running" /\ PublishAsync
  /\ UNCHANGED <<syncVars, ctl, final, services>>

\* The end of _stop(): the final publication, which has 3 seconds.
ExecuteStop ==
  /\ ctl = "running" /\ ctl' = "stopping"
  /\ PublishSync
  /\ UNCHANGED <<syncVars, final, services>>

StopWaits ==
  /\ ctl = "stopping" /\ PublishStep
  /\ UNCHANGED <<syncVars, ctl, final, services>>

StopDone ==
  /\ ctl = "stopping" /\ publish.pc = "idle" /\ ctl' = "configured"
  /\ final' = [final EXCEPT ![occRunNumber] =
                 [done |-> TRUE, ok |-> publish.ok, count |-> stats.count]]
  /\ publish' = [publish EXCEPT !.ok = FALSE]
  /\ UNCHANGED <<syncVars, stats, thread, records, services>>

\* _reset() destroys the logbook thread and waits for it, then resets the counters.
ExecuteReset ==
  /\ ctl = "configured" /\ ctl' = "joining"
  /\ AskShutdown
  /\ UNCHANGED <<syncVars, final, services>>

ResetJoin ==
  /\ ctl = "joining" /\ ctl' = "resetCounters"
  /\ JoinThread
  /\ UNCHANGED <<syncVars, final, services>>

ResetCounters ==
  /\ ctl = "resetCounters" /\ ctl' = "standby"
  /\ stats' = [count |-> 0, run |-> UndefinedRun]
  /\ UNCHANGED <<syncVars, thread, publish, records, final, services>>

ControlStep ==
  \/ StartReset \/ StartUnsetRun \/ StartSetRun \/ StartPublish
  \/ StopWaits \/ StopDone \/ ResetJoin \/ ResetCounters

Command ==
  \/ Configure \/ ExecuteStop \/ ExecuteReset
  \/ \E r \in RunNumbers : ExecuteStart(r)

-----------------------------------------------------------------------------
(* The other processes, and all together *)

OtherStarts(p, r) ==
  /\ services.sync /\ p # Flp /\ SyncSend(p, r)
  /\ UNCHANGED <<logbookVars, ctl, final, services>>

OtherGoesOn(p) ==
  /\ p # Flp /\ client[p].pc = "passed"
  /\ client' = [client EXCEPT ![p].pc = "idle"]
  /\ UNCHANGED <<up, crashes, groups, threads, requests, replies, logbookVars, ctl, final, services>>

Barrier(p) ==
  /\ SyncRecv(p) \/ SyncTimeout(p) \/ SyncClosed(p)
  /\ UNCHANGED <<logbookVars, ctl, final, services>>

OnServer(A) == A /\ UNCHANGED <<logbookVars, ctl, final, services>>

Server == OnServer(ServerNext)

Logbook == LogbookStep /\ UNCHANGED <<syncVars, ctl, final, services>>

Next ==
  \/ Command \/ ControlStep \/ RunningCount \/ RunningPublish
  \/ \E p \in Procs, r \in SyncIds : OtherStarts(p, r)
  \/ \E p \in Procs : OtherGoesOn(p) \/ Barrier(p)
  \/ Server \/ Logbook

\* Each thread goes on and time passes.  No command is ever forced to come, nobody has to
\* start the server again, and a call of the bookkeeping service need not end.
Fairness ==
  /\ WF_vars(ControlStep)
  /\ \A p \in Procs : WF_vars(Barrier(p)) /\ WF_vars(OtherGoesOn(p))
  /\ WF_vars(~InCall /\ Logbook)
  /\ WF_vars(OnServer(Tick))
  /\ \A c \in Identity :
       /\ WF_vars(OnServer(Register(c)))
       /\ WF_vars(OnServer(\E t \in threads : t.by = c /\ ThreadStep(t)))

Spec == Init /\ [][Next]_vars /\ Fairness

-----------------------------------------------------------------------------
(* Properties *)

\* The timer thread of a run answers when every request that it knew of at its last
\* look is at least Quiet old, and these clients are still there for it to answer.
\* (Requests that come between the look and the answer are answered with them.)
BatchIsQuiet ==
  \A t \in threads : t.pc = "close" =>
    LET clients == groups[t.run].clients IN
    t.known \in 1..Len(clients) /\ \A i \in 1..t.known : clients[i].age >= Quiet

\* A client that the server has registered is answered, unless the server stops:
\* it never stays in a group that no timer thread looks at.
Registered(c) ==
  \/ \E i \in DOMAIN groups[c.run].clients : groups[c.run].clients[i].id = c
  \/ \E t \in threads : \E i \in DOMAIN t.left : t.left[i] = c

EveryoneAnswered == \A c \in Identity : Registered(c) ~> ~Registered(c)

\* When STOP reports that the final publication succeeded, the bookkeeping has the
\* final counters of the run, and keeps them whatever is started next.
FinalIsPublished ==
  \A r \in Runs : final[r].ok => records[r] = final[r].count + 1

\* What the bookkeeping has for a run goes back only after a STOP that reported
\* that its final publication failed (it leaves a request that the thread may
\* serve while the next START resets the counters).
RecordsOnlyGrow ==
  [][\A r \in Runs : records'[r] < records[r] => \E q \in DOMAIN final : final[q].done /\ ~final[q].ok]_vars

\* Where a command waits for as long as a service is not there, without a time-out: START in
\* zmq_ctx_term() for a request that no server took (the socket has the default linger), and
\* RESET in the join of a logbook thread that is in a call of the bookkeeping service.
WaitsForService ==
  \/ ctl = "barrier" /\ client[Flp].pc = "closing" /\ Me(Flp) \in requests /\ ~up
  \/ ctl = "joining" /\ InCall

\* START, STOP and RESET end, or are at one of the two places where they wait for a service
\* that is gone.  So START does not always go on at its time-out, as "wait for SYNC reply (or
\* timeout) before proceeding" has it; but nothing else keeps a command: no SYNC, a server that
\* stops and comes back, calls that fail, a logbook thread that has given up with a
\* request set, or that hangs while STOP waits for it.
CommandsEnd == ctl \notin {"standby", "configured", "running"}
                 ~> (ctl \in {"standby", "configured", "running"} \/ WaitsForService)
=============================================================================
