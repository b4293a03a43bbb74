----------------------------- MODULE SyncServer -----------------------------
(***************************************************************************)
(* The barrier that readout processes of one run pass at START             *)
(* (syncServer.cxx, and the client in Readout::_start()).  A process sends *)
(* its run number and waits for SYNC, or for its own time-out.  The server *)
(* groups the requests by run number and answers a group once no request   *)
(* came for it during Quiet ticks (5 s).  Its main loop registers the      *)
(* requests; a detached thread per group looks at the age of the last one, *)
(* and the mutex is released between the look, the decision and the answer.*)
(*                                                                         *)
(* Time is a set of ages that Tick increases up to the largest value any   *)
(* comparison tells apart.  Sockets are external: a request stays with its *)
(* sender until the server takes it, a reply to a socket that was closed   *)
(* is dropped, and the server may stop and be started again.               *)
(***************************************************************************)
EXTENDS Naturals, Sequences, SequencesExt, FiniteSets

CONSTANTS
  Procs,          \* readout processes
  SyncIds,        \* run numbers that are sent
  Quiet,          \* timeout of start_group_timer(), in ticks
  ClientTimeout,  \* readout.externalSyncTimeout, in ticks
  MaxStarts,      \* bound on the requests of each process
  MaxCrashes      \* bound on the restarts of the server

ASSUME SyncAssumption ==
  /\ Quiet \in Nat \ {0} /\ ClientTimeout \in Nat \ {0}
  /\ MaxStarts \in [Procs -> Nat] /\ MaxCrashes \in Nat

VARIABLES
  up,        \* the server runs
  crashes,   \* number of times it stopped
  groups,    \* per run: clients, age of the last request (lastActivity), waiting
  threads,   \* the detached timer threads
  requests,  \* identities whose request the server has not taken yet
  replies,   \* identities whose reply is on its way
  client     \* the barrier call of each process

syncVars == <<up, crashes, groups, threads, requests, replies, client>>

\* A REQ socket is made for each START: its identity is never used again.
Identity == UNION {[proc : {p}, run : SyncIds, start : 1..MaxStarts[p]] : p \in Procs}

Me(p) == [proc |-> p, run |-> client[p].run, start |-> client[p].start]

Older(age, cap) == IF age < cap THEN age + 1 ELSE age

\* A record whose age is counted up to Quiet.
Aged(x) == [x EXCEPT !.age = Older(@, Quiet)]

NoGroup == [clients |-> << >>, age |-> 0, waiting |-> FALSE]

SyncInit ==
  /\ up = TRUE /\ crashes = 0
  /\ groups = [r \in SyncIds |-> NoGroup]
  /\ threads = {} /\ requests = {} /\ replies = {}
  /\ client = [p \in Procs |-> [pc |-> "idle", run |-> CHOOSE r \in SyncIds : TRUE,
                                start |-> 0, age |-> 0]]

-----------------------------------------------------------------------------
(* The client *)

\* Socket, connection and zmq_send(), which only queues the request.
SyncSend(p, r) ==
  /\ client[p].pc = "idle" /\ client[p].start < MaxStarts[p]
  /\ client' = [client EXCEPT ![p] = [pc |-> "waiting", run |-> r,
                  start |-> @.start + 1, age |-> 0]]
  /\ requests' = requests \cup
       {[proc |-> p, run |-> r, start |-> client[p].start + 1]}
  /\ UNCHANGED <<up, crashes, groups, threads, replies>>

\* No externalSyncServer: there is no barrier.
SkipSync(p, r) ==
  /\ client[p].pc = "idle"
  /\ client' = [client EXCEPT ![p].pc = "passed", ![p].run = r]
  /\ UNCHANGED <<up, crashes, groups, threads, requests, replies>>

\* zmq_recv() gets the answer.
SyncRecv(p) ==
  /\ client[p].pc = "waiting"
  /\ Me(p) \in replies
  /\ replies' = replies \ {Me(p)}
  /\ client' = [client EXCEPT ![p].pc = "passed", ![p].age = 0]
  /\ UNCHANGED <<up, crashes, groups, threads, requests>>

\* ZMQ_RCVTIMEO: the socket is closed.
SyncTimeout(p) ==
  /\ client[p].pc = "waiting" /\ client[p].age >= ClientTimeout
  /\ client' = [client EXCEPT ![p].pc = "closing", ![p].age = 0]
  /\ UNCHANGED <<up, crashes, groups, threads, requests, replies>>

\* zmq_ctx_term() lingers until a request that was queued has been sent, without a limit.
SyncClosed(p) ==
  /\ client[p].pc = "closing" /\ Me(p) \notin requests
  /\ client' = [client EXCEPT ![p].pc = "passed", ![p].age = 0]
  /\ UNCHANGED <<up, crashes, groups, threads, requests, replies>>

-----------------------------------------------------------------------------
(* The server *)

\* The thread that the request of client c starts.
NewThread(c) == [by |-> c, run |-> c.run, pc |-> "look", age |-> 0, known |-> 0, left |-> << >>]

\* Mutant: the time of the last activity is set by the first request only.
RegisterFirstActivity(c) ==
  /\ up /\ c \in requests
  /\ requests' = requests \ {c}
  /\ groups' = [groups EXCEPT ![c.run] =
       [clients |-> Append(@.clients, [id |-> c, age |-> 0]),
        age |-> IF @.waiting THEN @.age ELSE 0, waiting |-> TRUE]]
  /\ threads' = IF groups[c.run].waiting THEN threads ELSE threads \cup {NewThread(c)}
  /\ UNCHANGED <<up, crashes, replies, client>>

\* One turn of main(): all after the receptions holds groups_mutex.  The age of a
\* client is history.
Register(c) ==
  /\ up /\ c \in requests
  /\ requests' = requests \ {c}
  /\ groups' = [groups EXCEPT ![c.run] =
       [clients |-> Append(@.clients, [id |-> c, age |-> 0]), age |-> 0, waiting |-> TRUE]]
  /\ threads' = IF groups[c.run].waiting THEN threads ELSE threads \cup {NewThread(c)}
  /\ UNCHANGED <<up, crashes, replies, client>>

\* start_group_timer(): the last activity is read with the mutex (the number of
\* clients it stands for is history)...
Look(t) ==
  /\ t.pc = "look"
  /\ threads' = (threads \ {t}) \cup {[t EXCEPT !.pc = "seen", !.age = groups[t.run].age,
                                             !.known = Len(groups[t.run].clients)]}
  /\ UNCHANGED <<up, crashes, groups, requests, replies, client>>

\* ...and compared with the time without it; the thread sleeps and looks again,
\* or goes on to the answer.
Decide(t) ==
  /\ t.pc = "seen"
  /\ threads' = (threads \ {t}) \cup
       {[t EXCEPT !.pc = IF t.age >= Quiet THEN "close" ELSE "look", !.age = 0]}
  /\ UNCHANGED <<up, crashes, groups, requests, replies, client>>

\* Mutant: the group is still waiting for a timer thread that ends.
CloseGroupStillWaiting(t) ==
  /\ t.pc = "close"
  /\ groups' = [groups EXCEPT ![t.run].clients = << >>]
  /\ threads' = (threads \ {t}) \cup
       {[t EXCEPT !.pc = "send", !.known = 0,
                  !.left = [i \in DOMAIN groups[t.run].clients |-> groups[t.run].clients[i].id]]}
  /\ UNCHANGED <<up, crashes, requests, replies, client>>

\* send_reply_to_group(): the clients are moved out with the mutex...
CloseGroup(t) ==
  /\ t.pc = "close"
  /\ groups' = [groups EXCEPT ![t.run] = [clients |-> << >>, age |-> @.age, waiting |-> FALSE]]
  /\ threads' = (threads \ {t}) \cup
       {[t EXCEPT !.pc = "send", !.known = 0,
                  !.left = [i \in DOMAIN groups[t.run].clients |-> groups[t.run].clients[i].id]]}
  /\ UNCHANGED <<up, crashes, requests, replies, client>>

\* ...and answered one by one without it.  The router drops a reply to a
\* socket that was closed.
SendReply(t) ==
  /\ t.pc = "send" /\ t.left # << >>
  /\ LET c == Head(t.left) IN
     /\ replies' = IF client[c.proc].pc = "waiting" /\ c = Me(c.proc)
                   THEN replies \cup {c} ELSE replies
     /\ threads' = (threads \ {t}) \cup {[t EXCEPT !.left = Tail(t.left)]}
  /\ UNCHANGED <<up, crashes, groups, requests, client>>

EndThread(t) ==
  /\ t.pc = "send" /\ t.left = << >>
  /\ threads' = threads \ {t}
  /\ UNCHANGED <<up, crashes, groups, requests, replies, client>>

ThreadStep(t) == Look(t) \/ Decide(t) \/ CloseGroup(t) \/ SendReply(t) \/ EndThread(t)

-----------------------------------------------------------------------------
(* The environment *)

\* The server process stops: its groups and its threads are gone.
ServerStops ==
  /\ up /\ crashes < MaxCrashes
  /\ up' = FALSE /\ crashes' = crashes + 1
  /\ groups' = [r \in SyncIds |-> NoGroup] /\ threads' = {}
  /\ UNCHANGED <<requests, replies, client>>

ServerStarts ==
  /\ ~up /\ up' = TRUE
  /\ UNCHANGED <<crashes, groups, threads, requests, replies, client>>

\* Time passes where somebody still counts it.
Tick ==
  /\ \/ \E p \in Procs : client[p].pc = "waiting" /\ client[p].age < ClientTimeout
     \/ \E r \in SyncIds : groups[r].waiting /\ groups[r].age < Quiet
     \/ \E t \in threads : t.pc = "seen" /\ t.age < Quiet
  /\ client' = [p \in Procs |-> IF client[p].pc = "waiting"
       THEN [client[p] EXCEPT !.age = Older(@, ClientTimeout)] ELSE client[p]]
  /\ groups' = [r \in SyncIds |-> IF groups[r].waiting
       THEN [clients |-> [i \in DOMAIN groups[r].clients |-> Aged(groups[r].clients[i])],
             age |-> Older(groups[r].age, Quiet), waiting |-> TRUE]
       ELSE groups[r]]
  /\ threads' = {IF t.pc = "seen" THEN Aged(t) ELSE t : t \in threads}
  /\ UNCHANGED <<up, crashes, requests, replies>>

ServerNext ==
  \/ \E c \in requests : Register(c)
  \/ \E t \in threads : ThreadStep(t)
  \/ ServerStops \/ ServerStarts
  \/ Tick
=============================================================================
