-------------------------- MODULE RunServicesProofs --------------------------
(***************************************************************************)
(* Proofs about RunServices, for any processes, runs, time-outs and bounds:*)
(* the barrier answers a batch when it is quiet, what STOP reports of the  *)
(* final publication is true for good, and the bookkeeping goes back only  *)
(* after a STOP that reported a failure.                                   *)
(*                                                                         *)
(* The two services share nothing but the run number of Flp, and so do the *)
(* two halves of the invariant.                                            *)
(***************************************************************************)
EXTENDS RunServices, TLAPS

RunsOrNone == Runs \cup {UndefinedRun}

-----------------------------------------------------------------------------
(* The barrier *)

Id == [proc : Procs, run : SyncIds, start : Nat]

ClientState == [pc : {"idle", "waiting", "closing", "passed"},
                run : RunsOrNone \cup {CHOOSE r \in SyncIds : TRUE},
                start : Nat, age : Nat]

Group == [clients : Seq([id : Id, age : 0..Quiet]), age : 0..Quiet, waiting : BOOLEAN]

TimerThread == [by : Id, run : SyncIds, pc : {"look", "seen", "close", "send"},
                age : 0..Quiet, known : Nat, left : Seq(Id)]

SyncTypeOK ==
  /\ up \in BOOLEAN /\ crashes \in Nat
  /\ groups \in [SyncIds -> Group]
  /\ threads \subseteq TimerThread
  /\ requests \subseteq Id /\ replies \subseteq Id
  /\ client \in [Procs -> ClientState]

\* The thread has not answered its group yet.
Watches(t) == t.pc \in {"look", "seen", "close"}

\* A group waits if and only if a thread watches it, and then only one does.
OneTimer ==
  /\ \A t \in threads : Watches(t) => groups[t.run].waiting
  /\ \A r \in SyncIds : groups[r].waiting => \E t \in threads : Watches(t) /\ t.run = r
  /\ \A t, u \in threads : Watches(t) /\ Watches(u) /\ t.run = u.run => t = u

\* Only a group that waits has clients, and the last activity is that of the youngest.
GroupAges ==
  \A r \in SyncIds :
    /\ groups[r].waiting <=> groups[r].clients # << >>
    /\ \A i \in 1..Len(groups[r].clients) : groups[r].age =< groups[r].clients[i].age

\* The clients that t knew of are in group g, and at least so old.
KnownAges(t, age, g) ==
  t.known \in 1..Len(g.clients) /\ \A i \in 1..t.known : age =< g.clients[i].age

\* What a thread has read stays a lower bound for the clients it knew of.
SeenAges == \A t \in threads : t.pc = "seen" => KnownAges(t, t.age, groups[t.run])

BarrierInv == SyncTypeOK /\ OneTimer /\ GroupAges /\ SeenAges /\ BatchIsQuiet

-----------------------------------------------------------------------------
(* The bookkeeping *)

ThreadState ==
  [exists : BOOLEAN, handle : BOOLEAN, request : BOOLEAN, success : BOOLEAN,
   shutdown : BOOLEAN, failures : Nat,
   pc : {"loop", "copy", "copyRun", "copyCount", "call", "clear", "ended"},
   count : Nat, run : RunsOrNone]

LogTypeOK ==
  /\ stats \in [count : Nat, run : RunsOrNone]
  /\ thread \in ThreadState
  /\ publish \in [pc : {"idle", "pending", "asked"}, ok : BOOLEAN]
  /\ records \in [Runs -> Nat]
  /\ ctl \in {"standby", "configured", "barrier", "startReset", "startUnset", "startSet",
              "running", "stopping", "joining", "resetCounters"}
  /\ services \in Services
  /\ final \in [RunsOrNone -> [done : BOOLEAN, ok : BOOLEAN, count : Nat]]

Copying == thread.pc \in {"copy", "copyRun", "copyCount", "call"}

\* What the thread does, it does for a request; the status is that of the last call.
Requests ==
  /\ Copying \/ thread.pc = "clear" => thread.request
  /\ Copying => ~thread.success
  /\ publish.pc # "idle" => ctl = "stopping"
  /\ publish.ok => ctl = "stopping" /\ publish.pc = "idle"

\* Between START and the end of STOP the run has no final publication.
CurrentRun ==
  /\ ctl \in {"startSet", "running", "stopping"} => stats.run = occRunNumber
  /\ ctl \in {"barrier", "startReset", "startUnset", "startSet", "running", "stopping"} =>
       occRunNumber \in RunsOrNone /\ ~final[occRunNumber].done

\* The bookkeeping has the counters of now.
Stored == stats.run \in Runs => records[stats.run] = stats.count + 1

\* During the final publication the counters stand still: what the thread copies is
\* what they are, and a success means that they are stored.
FinalCall ==
  /\ publish.ok => ~thread.request /\ Stored
  /\ publish.pc = "asked" =>
       /\ thread.pc \in {"copyRun", "call"} => thread.count = stats.count
       /\ thread.pc \in {"copyCount", "call"} => thread.run = stats.run
       /\ (thread.pc = "clear" \/ ~thread.request) /\ thread.success => Stored

\* Nothing can be on its way to the record of a run that STOP reported as published.
Settled ==
  \A r \in Runs : final[r].ok =>
    /\ final[r].done
    /\ thread.pc \in {"copyCount", "call"} => thread.run # r
    /\ stats.run = r => ~thread.request

\* Every STOP so far reported a success.
NoneFailed == \A q \in RunsOrNone : final[q].done => final[q].ok

InRun == ctl \in {"running", "stopping"}

\* Then requests are made and served within a run, and what is on its way to the
\* record of the run is between the record and the counters.
Growing == NoneFailed =>
  /\ thread.request => InRun
  /\ \A r \in Runs : ~final[r].done /\ ~(InRun /\ r = stats.run) => records[r] = 0
  /\ InRun /\ stats.run \in Runs => records[stats.run] =< stats.count + 1
  /\ thread.pc \in {"copyRun", "call"} =>
       /\ thread.count =< stats.count
       /\ stats.run \in Runs => records[stats.run] =< thread.count + 1
  /\ thread.pc \in {"copyCount", "call"} => thread.run = stats.run

LogInv == LogTypeOK /\ Requests /\ CurrentRun /\ FinalCall /\ Settled /\ FinalIsPublished /\ Growing

IInv == BarrierInv /\ LogInv

-----------------------------------------------------------------------------
(* The steps of the barrier *)

\* The elements of a sequence over S are in S.
LEMMA SeqElement ==
  ASSUME NEW S, NEW s \in Seq(S), NEW i \in 1..Len(s)
  PROVE  s[i] \in S
PROOF
  OBVIOUS

\* An age grows up to its limit, and two ages keep their order.
LEMMA AgesTyped ==
  /\ \A n \in 0..Quiet : Older(n, Quiet) \in 0..Quiet /\ Older(n, Quiet) >= n
  /\ \A m, n \in 0..Quiet : m =< n => Older(m, Quiet) =< Older(n, Quiet)
  /\ \A n \in Nat : Older(n, ClientTimeout) \in Nat
PROOF
  BY SyncAssumption DEF Older

\* A request to the server keeps the types of the barrier,
LEMMA RegisterTyped ==
  ASSUME SyncTypeOK, NEW c \in requests, Register(c)
  PROVE  SyncTypeOK'
PROOF
<1> USE SyncAssumption, FlpAssumption
<1>1. c \in Id /\ c.run \in SyncIds
  BY DEF SyncTypeOK, Id
<1>2. groups' \in [SyncIds -> Group]
  <2>1. groups[c.run] \in Group
    BY <1>1 DEF SyncTypeOK
  <2>2. [id |-> c, age |-> 0] \in [id : Id, age : 0..Quiet]
    BY <1>1
  <2>3. Append(groups[c.run].clients, [id |-> c, age |-> 0]) \in Seq([id : Id, age : 0..Quiet])
    BY <2>1, <2>2 DEF Group
  <2> DEFINE g == [clients |-> Append(groups[c.run].clients, [id |-> c, age |-> 0]),
                   age |-> 0, waiting |-> TRUE]
  <2>4. g \in Group
    BY <2>3 DEF Group
  <2>5. groups' = [groups EXCEPT ![c.run] = g]
    BY DEF Register
  <2> QED
    BY <2>4, <2>5 DEF SyncTypeOK
<1>3. threads' \subseteq TimerThread
  <2>1. NewThread(c) \in TimerThread
    BY <1>1 DEF NewThread, TimerThread
  <2> QED
    BY <2>1 DEF Register, SyncTypeOK
<1> QED
  BY <1>2, <1>3 DEF Register, SyncTypeOK

\* and so do the steps of a timer thread,
LEMMA ThreadTyped ==
  ASSUME SyncTypeOK, NEW t \in threads, ThreadStep(t)
  PROVE  SyncTypeOK'
PROOF
<1> USE SyncAssumption, FlpAssumption
<1>1. t \in TimerThread /\ groups[t.run] \in Group
  BY DEF SyncTypeOK, TimerThread
<1>2. CASE Look(t)
  <2> DEFINE u == [t EXCEPT !.pc = "seen", !.age = groups[t.run].age,
                            !.known = Len(groups[t.run].clients)]
  <2>1. groups[t.run].age \in 0..Quiet /\ Len(groups[t.run].clients) \in Nat
    BY <1>1 DEF Group
  <2>2. u \in TimerThread
    <3> HIDE SyncAssumption
    <3> QED
      BY <1>1, <2>1 DEF TimerThread
  <2>3. threads' = (threads \ {t}) \cup {u}
    BY <1>2 DEF Look
  <2> HIDE DEF u
  <2> QED
    BY <1>2, <2>2, <2>3 DEF Look, SyncTypeOK
<1>3. CASE Decide(t)
  <2> DEFINE u == [t EXCEPT !.pc = IF t.age >= Quiet THEN "close" ELSE "look", !.age = 0]
  <2>1. u \in TimerThread
    <3>1. 0 \in 0..Quiet
      OBVIOUS
    <3> HIDE SyncAssumption
    <3>2. CASE t.age >= Quiet
      BY <1>1, <3>1, <3>2 DEF TimerThread
    <3>3. CASE ~(t.age >= Quiet)
      BY <1>1, <3>1, <3>3 DEF TimerThread
    <3> QED
      BY <3>2, <3>3
  <2>2. threads' = (threads \ {t}) \cup {u}
    BY <1>3 DEF Decide
  <2> HIDE DEF u
  <2> QED
    BY <1>3, <2>1, <2>2 DEF Decide, SyncTypeOK
<1>4. CASE CloseGroup(t)
  <2> DEFINE clients == groups[t.run].clients
             left == [i \in DOMAIN clients |-> clients[i].id]
             g == [clients |-> << >>, age |-> groups[t.run].age, waiting |-> FALSE]
             u == [t EXCEPT !.pc = "send", !.known = 0, !.left = left]
  <2>1. left \in Seq(Id)
    <3>1. clients \in Seq([id : Id, age : 0..Quiet])
      BY <1>1 DEF Group
    <3>2. Len(clients) \in Nat /\ DOMAIN clients = 1..Len(clients)
      BY <3>1
    <3>3. \A i \in 1..Len(clients) : clients[i] \in [id : Id, age : 0..Quiet]
      BY <3>1, SeqElement, Zenon
    <3>4. \A i \in 1..Len(clients) : clients[i].id \in Id
      BY <3>3
    <3> QED
      BY <3>2, <3>4
  <2>2. u \in TimerThread
    BY <1>1, <2>1 DEF TimerThread
  <2>3. g \in Group
    BY <1>1 DEF Group
  <2>4. groups' = [groups EXCEPT ![t.run] = g]
    BY <1>4 DEF CloseGroup
  <2>5. threads' = (threads \ {t}) \cup {u}
    BY <1>4 DEF CloseGroup
  <2> HIDE DEF u, g, left, clients
  <2>6. groups' \in [SyncIds -> Group]
    BY <2>3, <2>4 DEF SyncTypeOK
  <2> QED
    BY <1>4, <2>2, <2>5, <2>6 DEF CloseGroup, SyncTypeOK
<1>5. CASE SendReply(t)
  <2>1. t.left \in Seq(Id) /\ t.left # << >>
    BY <1>1, <1>5 DEF SendReply, TimerThread
  <2>2. Head(t.left) \in Id /\ Tail(t.left) \in Seq(Id)
    BY <2>1
  <2>3. replies' \subseteq Id
    BY <1>5, <2>2 DEF SendReply, SyncTypeOK
  <2>4. [t EXCEPT !.left = Tail(t.left)] \in TimerThread
    BY <1>1, <2>2 DEF TimerThread
  <2> QED
    BY <1>5, <2>3, <2>4 DEF SendReply, SyncTypeOK
<1>6. CASE EndThread(t)
  BY <1>6 DEF EndThread, SyncTypeOK
<1> QED
  BY <1>2, <1>3, <1>4, <1>5, <1>6 DEF ThreadStep

\* of the time,
LEMMA TickTyped ==
  ASSUME SyncTypeOK, Tick
  PROVE  SyncTypeOK'
PROOF
<1>1. client' \in [Procs -> ClientState]
  BY AgesTyped DEF Tick, SyncTypeOK, ClientState
<1>2. \A t \in TimerThread : Aged(t) \in TimerThread
  BY AgesTyped DEF Aged, TimerThread
<1>3. threads' \subseteq TimerThread
  BY <1>2 DEF Tick, SyncTypeOK
<1>4. groups' \in [SyncIds -> Group]
  <2>1. SUFFICES ASSUME NEW r \in SyncIds
                 PROVE  groups'[r] \in Group
    BY <2>1 DEF Tick
  <2>2. groups[r] \in Group
    BY DEF SyncTypeOK
  <2> DEFINE clients == groups[r].clients
             older == [i \in DOMAIN clients |-> Aged(clients[i])]
  <2>3. older \in Seq([id : Id, age : 0..Quiet])
    <3>1. clients \in Seq([id : Id, age : 0..Quiet])
      BY <2>2 DEF Group
    <3>2. Len(clients) \in Nat /\ DOMAIN clients = 1..Len(clients)
      BY <3>1
    <3>3. \A x \in [id : Id, age : 0..Quiet] : Aged(x) \in [id : Id, age : 0..Quiet]
      BY AgesTyped DEF Aged
    <3>4. \A i \in 1..Len(clients) : clients[i] \in [id : Id, age : 0..Quiet]
      BY <3>1, SeqElement, Zenon
    <3> QED
      BY <3>2, <3>3, <3>4
  <2>4. groups'[r] = IF groups[r].waiting
                     THEN [clients |-> older, age |-> Older(groups[r].age, Quiet), waiting |-> TRUE]
                     ELSE groups[r]
    BY DEF Tick
  <2> HIDE DEF older
  <2> QED
    BY AgesTyped, <2>2, <2>3, <2>4 DEF Group
<1> QED
  BY <1>1, <1>3, <1>4 DEF Tick, SyncTypeOK

\* and of a process that asks,
LEMMA SendTyped ==
  ASSUME SyncTypeOK, NEW p \in Procs, NEW r \in SyncIds, SyncSend(p, r)
  PROVE  SyncTypeOK'
PROOF
<1>1. client[p] \in ClientState
  BY DEF SyncTypeOK
<1>2. r \in RunsOrNone
  BY FlpAssumption DEF RunsOrNone
<1>3. [pc |-> "waiting", run |-> r, start |-> client[p].start + 1, age |-> 0] \in ClientState
  BY <1>1, <1>2 DEF ClientState
<1>4. client' \in [Procs -> ClientState]
  BY <1>3 DEF SyncSend, SyncTypeOK
<1>5. [proc |-> p, run |-> r, start |-> client[p].start + 1] \in Id
  BY <1>1 DEF ClientState, Id
<1> QED
  BY <1>4, <1>5 DEF SyncSend, SyncTypeOK

\* Client p goes on, for run r.
LEMMA ClientMoves ==
  ASSUME SyncTypeOK, NEW p \in Procs, NEW r \in RunsOrNone,
         NEW pc \in {"idle", "waiting", "closing", "passed"},
         \/ client' = [client EXCEPT ![p].pc = pc]
         \/ client' = [client EXCEPT ![p].pc = pc, ![p].age = 0]
         \/ client' = [client EXCEPT ![p].pc = pc, ![p].run = r]
  PROVE  client' \in [Procs -> ClientState]
PROOF
<1>1. client[p] \in ClientState
  BY DEF SyncTypeOK
<1>2. /\ [client[p] EXCEPT !.pc = pc] \in ClientState
      /\ [client[p] EXCEPT !.pc = pc, !.age = 0] \in ClientState
      /\ [client[p] EXCEPT !.pc = pc, !.run = r] \in ClientState
  BY <1>1 DEF ClientState
<1> QED
  BY <1>2 DEF SyncTypeOK

\* and all the steps of the server.
LEMMA ServerTyped ==
  ASSUME SyncTypeOK, ServerNext
  PROVE  SyncTypeOK'
PROOF
<1>1. CASE ServerStops
  <2>1. NoGroup \in Group
    BY SyncAssumption DEF NoGroup, Group
  <2>2. up' \in BOOLEAN
    BY <1>1, Zenon DEF ServerStops
  <2> QED
    BY <1>1, <2>1, <2>2 DEF ServerStops, SyncTypeOK
<1>2. CASE ServerStarts
  <2>1. up' \in BOOLEAN
    BY <1>2, Zenon DEF ServerStarts
  <2> QED
    BY <1>2, <2>1 DEF ServerStarts, SyncTypeOK
<1> QED
  BY <1>1, <1>2, RegisterTyped, ThreadTyped, TickTyped DEF ServerNext

\* All that is not the server leaves the groups and the timer threads alone.
LEMMA OthersTyped ==
  ASSUME SyncTypeOK, services \in Services, Next, ~Server
  PROVE  SyncTypeOK' /\ UNCHANGED <<groups, threads>>
PROOF
<1>1. CASE UNCHANGED syncVars
  BY <1>1 DEF syncVars, SyncTypeOK
<1>2. ASSUME NEW r \in RunNumbers, ExecuteStart(r) PROVE SyncTypeOK' /\ UNCHANGED <<groups, threads>>
  <2>1. CASE services.sync
    BY <1>2, <2>1, SendTyped, FlpAssumption DEF ExecuteStart, RunNumbers, SyncSend
  <2>2. CASE ~services.sync
    <3>1. r \in RunsOrNone
      BY <2>2 DEF RunNumbers, RunsOrNone
    <3>2. SkipSync(Flp, r)
      BY <1>2, <2>2 DEF ExecuteStart
    <3>3. client' \in [Procs -> ClientState]
      BY <3>1, <3>2, ClientMoves, FlpAssumption DEF SkipSync
    <3> QED
      BY <3>2, <3>3 DEF SkipSync, SyncTypeOK
  <2> QED
    BY <2>1, <2>2
<1>3. CASE StartReset
  <2>1. client' \in [Procs -> ClientState]
    BY <1>3, ClientMoves, FlpAssumption DEF StartReset, RunsOrNone
  <2> QED
    BY <1>3, <2>1 DEF StartReset, SyncTypeOK
<1>4. ASSUME NEW p \in Procs, OtherGoesOn(p) PROVE SyncTypeOK' /\ UNCHANGED <<groups, threads>>
  <2>1. client' \in [Procs -> ClientState]
    BY <1>4, ClientMoves DEF OtherGoesOn, RunsOrNone
  <2> QED
    BY <1>4, <2>1 DEF OtherGoesOn, SyncTypeOK
<1>5. ASSUME NEW p \in Procs, NEW r \in SyncIds, OtherStarts(p, r)
      PROVE  SyncTypeOK' /\ UNCHANGED <<groups, threads>>
  BY <1>5, SendTyped DEF OtherStarts, SyncSend
<1>6. ASSUME NEW p \in Procs, Barrier(p) PROVE SyncTypeOK' /\ UNCHANGED <<groups, threads>>
  <2>1. client' \in [Procs -> ClientState]
    BY <1>6, ClientMoves DEF Barrier, SyncRecv, SyncTimeout, SyncClosed, RunsOrNone
  <2> QED
    BY <1>6, <2>1 DEF Barrier, SyncRecv, SyncTimeout, SyncClosed, SyncTypeOK
<1> QED
  BY <1>1, <1>2, <1>3, <1>4, <1>5, <1>6
  DEF Next, Command, Configure, ExecuteStop, ExecuteReset, ControlStep, StartUnsetRun,
      StartSetRun, StartPublish, StopWaits, StopDone, ResetJoin, ResetCounters,
      RunningCount, RunningPublish, Logbook

\* A client that registers starts the one timer thread of its group, or finds it there.
LEMMA RegisterBatch ==
  ASSUME BarrierInv, NEW c \in requests, Register(c)
  PROVE  OneTimer' /\ GroupAges' /\ SeenAges' /\ BatchIsQuiet'
PROOF
<1> USE DEF BarrierInv
<1> DEFINE r == c.run
           old == groups[r].clients
           new == Append(old, [id |-> c, age |-> 0])
<1>1. /\ r \in SyncIds /\ old \in Seq([id : Id, age : 0..Quiet])
      /\ \A t \in threads : t.run \in SyncIds
  BY DEF SyncTypeOK, Id, Group, TimerThread
<1>2. /\ groups'[r].clients = new /\ groups'[r].age = 0 /\ groups'[r].waiting
      /\ \A q \in SyncIds : q # r => groups'[q] = groups[q]
  BY <1>1 DEF Register, SyncTypeOK
<1>3. /\ Len(old) \in Nat /\ Len(new) = Len(old) + 1 /\ new[Len(old) + 1].age = 0
      /\ \A i \in 1..Len(old) : new[i] = old[i]
  BY <1>1
<1>4. \A i \in 1..Len(old) : old[i] \in [id : Id, age : 0..Quiet]
  BY <1>1, SeqElement, Zenon
<1> HIDE DEF old, new
<1>5. \A t \in threads : \A a : KnownAges(t, a, groups[t.run]) => KnownAges(t, a, groups'[t.run])
  <2>1. SUFFICES ASSUME NEW t \in threads, NEW a, KnownAges(t, a, groups[t.run]), t.run = r
                 PROVE  KnownAges(t, a, groups'[r])
    BY <1>1, <1>2
  <2> QED
    BY <1>2, <1>3, <2>1 DEF KnownAges, old
<1>6. GroupAges'
  <2>1. ASSUME NEW i \in 1..Len(new) PROVE 0 =< new[i].age
    <3>1. i = Len(old) + 1 \/ i \in 1..Len(old)
      BY <1>3
    <3> QED
      BY <1>3, <1>4, <3>1
  <2>2. new # << >>
    BY <1>3
  <2> QED
    BY <1>2, <2>1, <2>2 DEF GroupAges
<1>7. CASE groups[r].waiting
  <2>1. threads' = threads
    BY <1>7 DEF Register
  <2>3. OneTimer'
    BY <1>1, <1>2, <1>7, <2>1 DEF OneTimer, Watches
  <2>4. SeenAges'
    BY <1>5, <2>1 DEF SeenAges
  <2>5. BatchIsQuiet'
    BY <1>5, <2>1 DEF BatchIsQuiet, KnownAges
  <2> QED
    BY <1>6, <2>3, <2>4, <2>5
<1>8. CASE ~groups[r].waiting
  <2>1. threads' = threads \cup {NewThread(c)}
    BY <1>8 DEF Register
  <2>2. NewThread(c).run = r /\ NewThread(c).pc = "look"
    BY DEF NewThread
  <2>3. \A t \in threads : Watches(t) => t.run # r
    BY <1>8 DEF OneTimer
  <2>4. OneTimer'
    BY <1>1, <1>2, <2>1, <2>2, <2>3 DEF OneTimer, Watches
  <2>5. SeenAges'
    BY <1>5, <2>1, <2>2 DEF SeenAges
  <2>6. BatchIsQuiet'
    BY <1>5, <2>1, <2>2 DEF BatchIsQuiet, KnownAges
  <2> QED
    BY <1>6, <2>4, <2>5, <2>6
<1> QED
  BY <1>7, <1>8

\* A thread that watches its group goes on watching it.
LEMMA StillWatches ==
  ASSUME OneTimer, NEW t \in threads, NEW u, Watches(t), Watches(u), u.run = t.run,
         threads' = (threads \ {t}) \cup {u}, groups' = groups
  PROVE  OneTimer'
PROOF
  BY DEF OneTimer, Watches

\* What a thread reads in its group is a lower bound for the ages there.
LEMMA LookBatch ==
  ASSUME BarrierInv, NEW t \in threads, Look(t)
  PROVE  OneTimer' /\ GroupAges' /\ SeenAges' /\ BatchIsQuiet'
PROOF
<1> USE DEF BarrierInv
<1> DEFINE g == groups[t.run]
           u == [t EXCEPT !.pc = "seen", !.age = g.age, !.known = Len(g.clients)]
<1>1. t \in TimerThread /\ t.run \in SyncIds /\ g.clients \in Seq([id : Id, age : 0..Quiet])
  BY DEF SyncTypeOK, TimerThread, Group
<1>2. u.pc = "seen" /\ u.run = t.run /\ u.age = g.age /\ u.known = Len(g.clients)
  BY <1>1 DEF TimerThread
<1>3. threads' = (threads \ {t}) \cup {u} /\ groups' = groups
  BY DEF Look
<1>4. Watches(t) /\ Watches(u)
  BY <1>2 DEF Look, Watches
<1>5. KnownAges(u, u.age, g)
  <2>1. g.waiting
    BY <1>4 DEF OneTimer
  <2>2. g.clients # << >>
    BY <1>1, <2>1 DEF GroupAges
  <2>3. Len(g.clients) \in 1..Len(g.clients)
    BY <1>1, <2>2
  <2> QED
    BY <1>1, <1>2, <2>3 DEF GroupAges, KnownAges
<1> HIDE DEF u
<1>6. OneTimer'
  BY <1>2, <1>3, <1>4, StillWatches
<1>7. SeenAges'
  BY <1>2, <1>3, <1>5 DEF SeenAges
<1>8. BatchIsQuiet'
  BY <1>2, <1>3 DEF BatchIsQuiet
<1> QED
  BY <1>3, <1>6, <1>7, <1>8 DEF GroupAges

\* A thread that decides to close has seen a quiet group.
LEMMA DecideBatch ==
  ASSUME BarrierInv, NEW t \in threads, Decide(t)
  PROVE  OneTimer' /\ GroupAges' /\ SeenAges' /\ BatchIsQuiet'
PROOF
<1> USE DEF BarrierInv
<1> DEFINE u == [t EXCEPT !.pc = IF t.age >= Quiet THEN "close" ELSE "look", !.age = 0]
<1>1. t \in TimerThread
  BY DEF SyncTypeOK
<1>2. /\ u.pc = IF t.age >= Quiet THEN "close" ELSE "look"
      /\ u.run = t.run /\ u.known = t.known
  BY <1>1 DEF TimerThread
<1>3. threads' = (threads \ {t}) \cup {u} /\ groups' = groups
  BY DEF Decide
<1>4. Watches(t) /\ Watches(u)
  BY <1>2 DEF Decide, Watches
<1>5. u.pc = "close" => t.age = Quiet
  BY <1>1, <1>2, SyncAssumption DEF TimerThread
<1>6. KnownAges(t, t.age, groups[t.run])
  BY DEF SeenAges, Decide
<1> HIDE DEF u
<1>7. OneTimer'
  BY <1>2, <1>3, <1>4, StillWatches
<1>8. SeenAges'
  BY <1>2, <1>3 DEF SeenAges
<1>9. BatchIsQuiet'
  BY <1>2, <1>3, <1>5, <1>6 DEF BatchIsQuiet, KnownAges
<1> QED
  BY <1>3, <1>7, <1>8, <1>9 DEF GroupAges

\* A group is closed by the thread that watches it, and is empty then.
LEMMA CloseBatch ==
  ASSUME BarrierInv, NEW t \in threads, CloseGroup(t)
  PROVE  OneTimer' /\ GroupAges' /\ SeenAges' /\ BatchIsQuiet'
PROOF
<1> USE DEF BarrierInv
<1> DEFINE left == [i \in DOMAIN groups[t.run].clients |-> groups[t.run].clients[i].id]
           u == [t EXCEPT !.pc = "send", !.known = 0, !.left = left]
<1>1. t \in TimerThread /\ t.run \in SyncIds /\ Watches(t)
  BY DEF SyncTypeOK, TimerThread, Watches, CloseGroup
<1>2. u.pc = "send" /\ u.run = t.run /\ ~Watches(u)
  BY <1>1 DEF TimerThread, Watches
<1>3. threads' = (threads \ {t}) \cup {u}
  BY DEF CloseGroup
<1>4. /\ groups'[t.run].clients = << >> /\ ~groups'[t.run].waiting
      /\ \A q \in SyncIds : q # t.run => groups'[q] = groups[q]
  BY <1>1 DEF CloseGroup, SyncTypeOK
<1>5. \A v \in threads' : Watches(v) => v \in threads /\ v.run # t.run /\ v.run \in SyncIds
  BY <1>1, <1>2, <1>3 DEF OneTimer, SyncTypeOK, TimerThread
<1> HIDE DEF u, left
<1>6. OneTimer'
  <2>1. \A v \in threads' : Watches(v) => groups'[v.run].waiting
    BY <1>4, <1>5 DEF OneTimer
  <2>2. \A r \in SyncIds : groups'[r].waiting => \E v \in threads' : Watches(v) /\ v.run = r
    BY <1>1, <1>3, <1>4 DEF OneTimer
  <2>3. \A v, w \in threads' : Watches(v) /\ Watches(w) /\ v.run = w.run => v = w
    BY <1>5 DEF OneTimer
  <2> QED
    BY <2>1, <2>2, <2>3 DEF OneTimer, Watches
<1>7. GroupAges'
  BY <1>4 DEF GroupAges
<1>8. SeenAges'
  BY <1>4, <1>5 DEF SeenAges, Watches
<1>9. BatchIsQuiet'
  BY <1>4, <1>5 DEF BatchIsQuiet, Watches
<1> QED
  BY <1>6, <1>7, <1>8, <1>9

\* A thread that has closed its group disturbs no other.
LEMMA AnswerBatch ==
  ASSUME BarrierInv, NEW t \in threads, SendReply(t) \/ EndThread(t)
  PROVE  OneTimer' /\ GroupAges' /\ SeenAges' /\ BatchIsQuiet'
PROOF
<1> USE DEF BarrierInv
<1>1. groups' = groups /\ ~Watches(t)
  BY DEF SendReply, EndThread, Watches
<1>2. \A u \in threads : Watches(u) => u \in threads'
  BY <1>1 DEF SendReply, EndThread
<1>3. \A u \in threads' : Watches(u) => u \in threads
  <2> DEFINE v == [t EXCEPT !.left = Tail(t.left)]
  <2>1. v.pc = t.pc
    BY DEF SyncTypeOK, TimerThread
  <2>2. \A u \in threads' : u \in threads \/ u = v
    BY DEF SendReply, EndThread
  <2> HIDE DEF v
  <2> QED
    BY <1>1, <2>1, <2>2 DEF Watches
<1>4. OneTimer'
  BY <1>1, <1>2, <1>3 DEF OneTimer, Watches
<1> QED
  BY <1>1, <1>3, <1>4 DEF GroupAges, SeenAges, BatchIsQuiet, Watches

\* A timer thread after Tick.
Later(t) == IF t.pc = "seen" THEN Aged(t) ELSE t

OneTickLater(u, t) ==
  /\ u.pc = t.pc /\ u.run = t.run /\ u.known = t.known
  /\ t.pc = "seen" => u.age = Older(t.age, Quiet)

\* Ages grow together.
LEMMA TickBatch ==
  ASSUME BarrierInv, Tick
  PROVE  OneTimer' /\ GroupAges' /\ SeenAges' /\ BatchIsQuiet'
PROOF
<1> USE DEF BarrierInv
<1>1. \A t \in threads : t.run \in SyncIds /\ t.age \in 0..Quiet /\ t.known \in Nat
  BY DEF SyncTypeOK, TimerThread
<1>2. /\ \A t \in threads : \E u \in threads' : u = Later(t) /\ OneTickLater(u, t)
      /\ \A u \in threads' : \E t \in threads : u = Later(t) /\ OneTickLater(u, t)
  <2>1. \A t \in threads : OneTickLater(Later(t), t)
    BY DEF SyncTypeOK, TimerThread, Aged, Later, OneTickLater
  <2>2. threads' = {Later(t) : t \in threads}
    BY DEF Tick, Later
  <2> QED
    BY <2>1, <2>2
<1>3. \A r \in SyncIds :
        /\ groups'[r].waiting <=> groups[r].waiting
        /\ ~groups[r].waiting => groups'[r] = groups[r]
        /\ groups[r].waiting =>
             /\ groups'[r].age = Older(groups[r].age, Quiet)
             /\ groups'[r].clients =
                  [i \in DOMAIN groups[r].clients |-> Aged(groups[r].clients[i])]
  BY DEF Tick
<1>4. \A r \in SyncIds : /\ groups[r].age \in 0..Quiet
                          /\ groups[r].clients \in Seq([id : Id, age : 0..Quiet])
  BY DEF SyncTypeOK, Group
<1>5. \A r \in SyncIds : groups[r].waiting =>
        /\ Len(groups[r].clients) \in Nat
        /\ Len(groups'[r].clients) = Len(groups[r].clients)
        /\ \A i \in 1..Len(groups[r].clients) :
             /\ groups[r].clients[i].age \in 0..Quiet
             /\ groups'[r].clients[i].age = Older(groups[r].clients[i].age, Quiet)
  <2>1. SUFFICES ASSUME NEW r \in SyncIds, groups[r].waiting
                 PROVE  /\ Len(groups[r].clients) \in Nat
                        /\ Len(groups'[r].clients) = Len(groups[r].clients)
                        /\ \A i \in 1..Len(groups[r].clients) :
                             /\ groups[r].clients[i].age \in 0..Quiet
                             /\ groups'[r].clients[i].age = Older(groups[r].clients[i].age, Quiet)
    BY <2>1
  <2> DEFINE cl == groups[r].clients
  <2>2. cl \in Seq([id : Id, age : 0..Quiet])
    BY <1>4
  <2>3. Len(cl) \in Nat /\ DOMAIN cl = 1..Len(cl)
    BY <2>2
  <2>4. \A i \in 1..Len(cl) : cl[i] \in [id : Id, age : 0..Quiet]
    BY <2>2, SeqElement, Zenon
  <2>5. groups'[r].clients = [i \in 1..Len(cl) |-> Aged(cl[i])]
    BY <1>3, <2>1, <2>3
  <2>6. \A i \in 1..Len(cl) : Aged(cl[i]).age = Older(cl[i].age, Quiet) /\ cl[i].age \in 0..Quiet
    BY <2>4 DEF Aged
  <2> HIDE DEF cl
  <2>7. Len(groups'[r].clients) = Len(cl)
    BY <2>3, <2>5
  <2> QED
    BY <2>3, <2>5, <2>6, <2>7 DEF cl
<1>6. OneTimer'
  <2>1. ASSUME NEW u \in threads', Watches(u) PROVE groups'[u.run].waiting
    <3>1. PICK t \in threads : OneTickLater(u, t)
      BY <1>2
    <3>2. groups[t.run].waiting
      BY <2>1, <3>1 DEF OneTimer, Watches, OneTickLater
    <3> QED
      BY <1>1, <1>3, <3>1, <3>2 DEF OneTickLater
  <2>2. ASSUME NEW r \in SyncIds, groups'[r].waiting
        PROVE  \E u \in threads' : Watches(u) /\ u.run = r
    <3>1. PICK t \in threads : Watches(t) /\ t.run = r
      BY <1>3, <2>2 DEF OneTimer
    <3>2. PICK u \in threads' : OneTickLater(u, t)
      BY <1>2
    <3> QED
      BY <3>1, <3>2 DEF OneTickLater, Watches
  <2>3. ASSUME NEW u \in threads', NEW v \in threads', Watches(u), Watches(v), u.run = v.run
        PROVE  u = v
    <3>1. PICK t \in threads : u = Later(t) /\ OneTickLater(u, t)
      BY <1>2
    <3>2. PICK w \in threads : v = Later(w) /\ OneTickLater(v, w)
      BY <1>2
    <3>3. t = w
      BY <2>3, <3>1, <3>2 DEF OneTimer, Watches, OneTickLater
    <3> QED
      BY <3>1, <3>2, <3>3
  <2> QED
    BY <2>1, <2>2, <2>3 DEF OneTimer, Watches
<1>7. GroupAges'
  <2>1. SUFFICES ASSUME NEW r \in SyncIds
                 PROVE  /\ groups'[r].waiting <=> groups'[r].clients # << >>
                        /\ \A i \in 1..Len(groups'[r].clients) :
                              groups'[r].age =< groups'[r].clients[i].age
    BY <2>1 DEF GroupAges
  <2>2. CASE groups[r].waiting
    <3>1. groups'[r].clients # << >>
      <4>1. groups[r].clients # << >>
        BY <2>2 DEF GroupAges
      <4>2. Len(groups[r].clients) # 0
        BY <1>4, <4>1
      <4>3. Len(groups'[r].clients) # 0
        BY <1>5, <2>2, <4>2
      <4> QED
        BY <4>3
    <3>2. ASSUME NEW i \in 1..Len(groups'[r].clients)
          PROVE  groups'[r].age =< groups'[r].clients[i].age
      <4>1. groups[r].age =< groups[r].clients[i].age
        BY <1>5, <2>2, <3>2 DEF GroupAges
      <4> QED
        BY <1>3, <1>4, <1>5, <2>2, <3>2, <4>1, AgesTyped
    <3> QED
      BY <1>3, <2>2, <3>1, <3>2
  <2>3. CASE ~groups[r].waiting
    BY <1>3, <2>3 DEF GroupAges
  <2> QED
    BY <2>2, <2>3
<1>8. SeenAges'
  <2>1. SUFFICES ASSUME NEW u \in threads', u.pc = "seen"
                 PROVE  KnownAges(u, u.age, groups'[u.run])
    BY <2>1 DEF SeenAges
  <2>2. PICK t \in threads : OneTickLater(u, t)
    BY <1>2
  <2>3. t.pc = "seen" /\ u.run = t.run /\ u.known = t.known /\ u.age = Older(t.age, Quiet)
    BY <2>1, <2>2 DEF OneTickLater
  <2>4. groups[t.run].waiting
    BY <2>3 DEF OneTimer, Watches
  <2>5. KnownAges(t, t.age, groups[t.run])
    BY <2>3 DEF SeenAges
  <2>6. ASSUME NEW i \in 1..t.known PROVE u.age =< groups'[t.run].clients[i].age
    <3>1. i \in 1..Len(groups[t.run].clients) /\ t.age =< groups[t.run].clients[i].age
      BY <1>1, <1>5, <2>4, <2>5 DEF KnownAges
    <3> QED
      BY <1>1, <1>5, <2>3, <2>4, <3>1, AgesTyped
  <2> QED
    BY <1>1, <1>5, <2>3, <2>4, <2>5, <2>6 DEF KnownAges
<1>9. BatchIsQuiet'
  <2>1. SUFFICES ASSUME NEW u \in threads', u.pc = "close"
                 PROVE  KnownAges(u, Quiet, groups'[u.run])
    BY <2>1 DEF BatchIsQuiet, KnownAges
  <2>2. PICK t \in threads : OneTickLater(u, t)
    BY <1>2
  <2>3. t.pc = "close" /\ u.run = t.run /\ u.known = t.known
    BY <2>1, <2>2 DEF OneTickLater
  <2>4. groups[t.run].waiting
    BY <2>3 DEF OneTimer, Watches
  <2>5. KnownAges(t, Quiet, groups[t.run])
    BY <2>3 DEF BatchIsQuiet, KnownAges
  <2>6. ASSUME NEW i \in 1..t.known PROVE Quiet =< groups'[t.run].clients[i].age
    <3>1. i \in 1..Len(groups[t.run].clients) /\ Quiet =< groups[t.run].clients[i].age
      BY <1>1, <1>5, <2>4, <2>5 DEF KnownAges
    <3>2. /\ groups[t.run].clients[i].age \in 0..Quiet
          /\ groups'[t.run].clients[i].age = Older(groups[t.run].clients[i].age, Quiet)
      BY <1>1, <1>5, <2>4, <3>1
    <3> QED
      BY <3>1, <3>2, SyncAssumption DEF Older
  <2> QED
    BY <1>1, <1>5, <2>3, <2>4, <2>5, <2>6 DEF KnownAges
<1> QED
  BY <1>6, <1>7, <1>8, <1>9

\* No group and no thread survive the end of the server.
LEMMA StopsBatch ==
  ASSUME ServerStops
  PROVE  OneTimer' /\ GroupAges' /\ SeenAges' /\ BatchIsQuiet'
PROOF
  BY DEF ServerStops, NoGroup, OneTimer, GroupAges, SeenAges, BatchIsQuiet

\* Every step of the server, of a client and of readout keeps the invariant of the barrier.
LEMMA BarrierStep ==
  ASSUME BarrierInv, services \in Services, [Next]_vars
  PROVE  BarrierInv'
PROOF
<1>1. CASE UNCHANGED vars
  BY <1>1 DEF vars, syncVars, BarrierInv, SyncTypeOK, OneTimer, GroupAges, SeenAges, BatchIsQuiet
<1>2. CASE Server
  <2>1. ServerNext /\ SyncTypeOK'
    BY <1>2, ServerTyped DEF Server, OnServer, BarrierInv
  <2>2. CASE ServerStarts
    BY <2>1, <2>2 DEF ServerStarts, BarrierInv, OneTimer, GroupAges, SeenAges, BatchIsQuiet
  <2> QED
    BY <2>1, <2>2, RegisterBatch, LookBatch, DecideBatch, CloseBatch, AnswerBatch, TickBatch,
       StopsBatch DEF ServerNext, ThreadStep, BarrierInv
<1>3. CASE Next /\ ~Server
  <2>1. SyncTypeOK' /\ groups' = groups /\ threads' = threads
    BY <1>3, OthersTyped DEF BarrierInv
  <2> QED
    BY <2>1 DEF BarrierInv, OneTimer, GroupAges, SeenAges, BatchIsQuiet
<1> QED
  BY <1>1, <1>2, <1>3

-----------------------------------------------------------------------------
(* The steps of the bookkeeping *)

\* The logbook thread keeps the types of the bookkeeping,
LEMMA LogbookStepTyped ==
  ASSUME LogTypeOK, LogbookStep, UNCHANGED <<ctl, final, services>>
  PROVE  LogTypeOK'
PROOF
<1> USE DEF LogTypeOK, ThreadState
<1>1. CASE LogbookLoop
  BY <1>1 DEF LogbookLoop
<1>2. CASE CopyFirst
  BY <1>2 DEF CopyFirst
<1>3. CASE CopySecond
  BY <1>3 DEF CopySecond
<1>4. CASE NoRunNumber
  BY <1>4 DEF NoRunNumber, RunsOrNone
<1>5. CASE CallReturns
  <2>1. records' \in [Runs -> Nat]
    BY <1>5 DEF CallReturns, RunsOrNone
  <2> QED
    BY <1>5, <2>1 DEF CallReturns
<1>6. CASE CallThrows
  <2>1. thread.failures + 1 \in Nat
    OBVIOUS
  <2>2. [thread EXCEPT !.handle = FALSE, !.failures = @ + 1, !.pc = "ended"] \in ThreadState
    BY <2>1
  <2>3. [thread EXCEPT !.failures = @ + 1, !.pc = "clear"] \in ThreadState
    BY <2>1
  <2> QED
    BY <1>6, <2>2, <2>3 DEF CallThrows
<1>7. CASE ClearRequest
  BY <1>7 DEF ClearRequest, RunsOrNone
<1> QED
  BY <1>1, <1>2, <1>3, <1>4, <1>5, <1>6, <1>7 DEF LogbookStep

\* The steps of the control thread of Flp.
FlpStep ==
  \/ Command \/ ControlStep \/ RunningCount \/ RunningPublish

\* and so does the state machine of readout.
LEMMA FlpTyped ==
  ASSUME LogTypeOK, SyncTypeOK, CurrentRun, FlpStep
  PROVE  LogTypeOK'
PROOF
<1> USE DEF LogTypeOK, ThreadState
<1>1. CASE Configure
  <2>1. [NoThread EXCEPT !.exists = TRUE, !.handle = TRUE, !.pc = "loop"] \in ThreadState
    BY DEF NoThread, RunsOrNone
  <2> QED
    BY <1>1, <2>1 DEF Configure, CreateThread, logbookVars
<1>2. CASE \E r \in RunNumbers : ExecuteStart(r)
  BY <1>2 DEF ExecuteStart, logbookVars
<1>3. CASE StartReset
  BY <1>3 DEF StartReset, ResetCount
<1>4. CASE StartUnsetRun
  BY <1>4 DEF StartUnsetRun, SetRun, RunsOrNone
<1>5. CASE StartSetRun
  BY <1>5 DEF StartSetRun, SetRun, CurrentRun
<1>6. CASE StartPublish
  BY <1>6 DEF StartPublish, PublishAsync, Request
<1>7. CASE RunningCount
  BY <1>7 DEF RunningCount, CountData
<1>8. CASE RunningPublish
  BY <1>8 DEF RunningPublish, PublishAsync, Request
<1>9. CASE ExecuteStop
  <2>1. [thread EXCEPT !.request = TRUE] \in ThreadState
    OBVIOUS
  <2>2. thread' \in ThreadState
    BY <1>9, <2>1 DEF ExecuteStop, PublishSync, Request
  <2>3. publish' \in [pc : {"idle", "pending", "asked"}, ok : BOOLEAN]
    <3>1. /\ [pc |-> "idle", ok |-> FALSE] \in [pc : {"idle", "pending", "asked"}, ok : BOOLEAN]
          /\ [publish EXCEPT !.pc = "pending"] \in [pc : {"idle", "pending", "asked"}, ok : BOOLEAN]
          /\ [publish EXCEPT !.pc = "asked"] \in [pc : {"idle", "pending", "asked"}, ok : BOOLEAN]
      OBVIOUS
    <3> QED
      BY <1>9, <3>1 DEF ExecuteStop, PublishSync, Return
  <2> QED
    BY <1>9, <2>2, <2>3 DEF ExecuteStop, PublishSync
<1>10. CASE StopWaits /\ PendingOver
  BY <1>10 DEF StopWaits, PendingOver, Request
<1>11. CASE StopWaits /\ PublishDone
  BY <1>11 DEF StopWaits, PublishDone, Return
<1>12. CASE StopWaits /\ PublishTimeout
  BY <1>12 DEF StopWaits, PublishTimeout, Return
<1>13. CASE StopDone
  BY <1>13 DEF StopDone
<1>14. CASE ExecuteReset
  BY <1>14 DEF ExecuteReset, AskShutdown
<1>15. CASE ResetJoin
  <2>1. NoThread \in ThreadState
    BY DEF NoThread, RunsOrNone
  <2> QED
    BY <1>15, <2>1 DEF ResetJoin, JoinThread
<1>16. CASE ResetCounters
  BY <1>16 DEF ResetCounters, RunsOrNone
<1> QED
  BY <1>1, <1>2, <1>3, <1>4, <1>5, <1>6, <1>7, <1>8, <1>9, <1>10, <1>11, <1>12, <1>13, <1>14,
     <1>15, <1>16 DEF FlpStep, Command, ControlStep, StopWaits, PublishStep

\* The logbook thread works for a request only, and its status is that of the last call;
LEMMA LogbookRequests ==
  ASSUME LogInv, LogTypeOK', LogbookStep, UNCHANGED <<ctl, final, services, occRunNumber>>
  PROVE  Requests'
PROOF
<1> USE DEF LogInv, LogTypeOK, ThreadState, Requests, Copying
<1>1. CASE LogbookLoop
  BY <1>1 DEF LogbookLoop
<1>2. CASE CopyFirst
  BY <1>2 DEF CopyFirst
<1>3. CASE CopySecond
  BY <1>3 DEF CopySecond
<1>4. CASE NoRunNumber
  BY <1>4 DEF NoRunNumber
<1>5. CASE CallReturns
  BY <1>5 DEF CallReturns
<1>6. CASE CallThrows
  BY <1>6 DEF CallThrows
<1>7. CASE ClearRequest
  BY <1>7 DEF ClearRequest
<1> QED
  BY <1>1, <1>2, <1>3, <1>4, <1>5, <1>6, <1>7 DEF LogbookStep

\* the main thread asks during STOP, and waits for the answer.
LEMMA FlpRequests ==
  ASSUME LogInv, LogTypeOK', SyncTypeOK, FlpStep
  PROVE  Requests'
PROOF
<1> USE DEF LogInv, LogTypeOK, ThreadState, Requests, Copying
<1>1. CASE Configure
  BY <1>1 DEF Configure, CreateThread, NoThread, logbookVars
<1>2. CASE \E r \in RunNumbers : ExecuteStart(r)
  BY <1>2 DEF ExecuteStart, logbookVars
<1>3. CASE StartReset
  BY <1>3 DEF StartReset, ResetCount
<1>4. CASE StartUnsetRun
  BY <1>4 DEF StartUnsetRun, SetRun
<1>5. CASE StartSetRun
  BY <1>5 DEF StartSetRun, SetRun
<1>6. CASE StartPublish
  BY <1>6 DEF StartPublish, PublishAsync, Request
<1>7. CASE RunningCount
  BY <1>7 DEF RunningCount, CountData
<1>8. CASE RunningPublish
  BY <1>8 DEF RunningPublish, PublishAsync, Request
<1>9. CASE ExecuteStop
  BY <1>9 DEF ExecuteStop, PublishSync, Return, Request
<1>10. CASE StopWaits /\ PendingOver
  BY <1>10 DEF StopWaits, PendingOver, Request
<1>11. CASE StopWaits /\ PublishDone
  BY <1>11 DEF StopWaits, PublishDone, Return
<1>12. CASE StopWaits /\ PublishTimeout
  BY <1>12 DEF StopWaits, PublishTimeout, Return
<1>13. CASE StopDone
  BY <1>13 DEF StopDone
<1>14. CASE ExecuteReset
  BY <1>14 DEF ExecuteReset, AskShutdown
<1>15. CASE ResetJoin
  BY <1>15 DEF ResetJoin, JoinThread, NoThread
<1>16. CASE ResetCounters
  BY <1>16 DEF ResetCounters
<1> QED
  BY <1>1, <1>2, <1>3, <1>4, <1>5, <1>6, <1>7, <1>8, <1>9, <1>10, <1>11, <1>12, <1>13, <1>14,
     <1>15, <1>16 DEF FlpStep, Command, ControlStep, StopWaits, PublishStep

\* The final publication copies counters that stand still,
LEMMA LogbookFinalCall ==
  ASSUME LogInv, LogTypeOK', LogbookStep, UNCHANGED <<ctl, final, services, occRunNumber>>
  PROVE  FinalCall'
PROOF
<1> USE DEF LogInv, LogTypeOK, ThreadState, FinalCall, Stored, Requests, Copying, CurrentRun
<1>1. CASE LogbookLoop
  BY ZenonT(30), <1>1 DEF LogbookLoop
<1>2. CASE CopyFirst
  BY ZenonT(30), <1>2 DEF CopyFirst
<1>3. CASE CopySecond
  BY ZenonT(30), <1>3 DEF CopySecond
<1>4. CASE NoRunNumber
  BY <1>4 DEF NoRunNumber
<1>5. CASE CallReturns
  BY <1>5 DEF CallReturns
<1>6. CASE CallThrows
  BY <1>6 DEF CallThrows
<1>7. CASE ClearRequest
  BY <1>7 DEF ClearRequest
<1> QED
  BY <1>1, <1>2, <1>3, <1>4, <1>5, <1>6, <1>7 DEF LogbookStep

\* and they stand still because the main thread waits for it.
LEMMA FlpFinalCall ==
  ASSUME LogInv, LogTypeOK', SyncTypeOK, FlpStep
  PROVE  FinalCall'
PROOF
<1> USE DEF LogInv, LogTypeOK, ThreadState, FinalCall, Stored, Requests, Copying, CurrentRun
<1>1. CASE Configure
  BY <1>1 DEF Configure, CreateThread, NoThread, logbookVars
<1>2. CASE \E r \in RunNumbers : ExecuteStart(r)
  BY <1>2 DEF ExecuteStart, logbookVars
<1>3. CASE StartReset
  BY <1>3 DEF StartReset, ResetCount
<1>4. CASE StartUnsetRun
  BY <1>4 DEF StartUnsetRun, SetRun
<1>5. CASE StartSetRun
  BY <1>5 DEF StartSetRun, SetRun
<1>6. CASE StartPublish
  BY <1>6 DEF StartPublish, PublishAsync, Request
<1>7. CASE RunningCount
  BY <1>7 DEF RunningCount, CountData
<1>8. CASE RunningPublish
  BY <1>8 DEF RunningPublish, PublishAsync, Request
<1>9. CASE ExecuteStop
  BY <1>9 DEF ExecuteStop, PublishSync, Return, Request
<1>10. CASE StopWaits /\ PendingOver
  BY <1>10 DEF StopWaits, PendingOver, Request
<1>11. CASE StopWaits /\ PublishDone
  BY <1>11 DEF StopWaits, PublishDone, Return
<1>12. CASE StopWaits /\ PublishTimeout
  BY <1>12 DEF StopWaits, PublishTimeout, Return
<1>13. CASE StopDone
  BY <1>13 DEF StopDone
<1>14. CASE ExecuteReset
  BY <1>14 DEF ExecuteReset, AskShutdown
<1>15. CASE ResetJoin
  BY <1>15 DEF ResetJoin, JoinThread, NoThread
<1>16. CASE ResetCounters
  BY <1>16 DEF ResetCounters
<1> QED
  BY <1>1, <1>2, <1>3, <1>4, <1>5, <1>6, <1>7, <1>8, <1>9, <1>10, <1>11, <1>12, <1>13, <1>14,
     <1>15, <1>16 DEF FlpStep, Command, ControlStep, StopWaits, PublishStep

\* The logbook thread takes no copy of a run that is settled,
LEMMA LogbookSettled ==
  ASSUME LogInv, LogTypeOK', LogbookStep, UNCHANGED <<ctl, final, services, occRunNumber>>
  PROVE  Settled'
PROOF
<1> USE DEF LogInv, LogTypeOK, ThreadState, Settled, Requests, Copying, CurrentRun
<1>1. CASE LogbookLoop
  BY ZenonT(30), <1>1 DEF LogbookLoop
<1>2. CASE CopyFirst
  BY ZenonT(30), <1>2 DEF CopyFirst
<1>3. CASE CopySecond
  BY ZenonT(30), <1>3 DEF CopySecond
<1>4. CASE NoRunNumber
  BY <1>4 DEF NoRunNumber
<1>5. CASE CallReturns
  BY <1>5 DEF CallReturns
<1>6. CASE CallThrows
  BY <1>6 DEF CallThrows
<1>7. CASE ClearRequest
  BY <1>7 DEF ClearRequest
<1> QED
  BY <1>1, <1>2, <1>3, <1>4, <1>5, <1>6, <1>7 DEF LogbookStep

\* and a run is settled when nothing of it is left to publish.
LEMMA FlpSettled ==
  ASSUME LogInv, LogTypeOK', SyncTypeOK, FlpStep
  PROVE  Settled'
PROOF
<1> USE DEF LogInv, LogTypeOK, ThreadState, Settled, Requests, Copying, CurrentRun
<1>1. CASE Configure
  <2>1. CASE services.logbook
    <3>1. ~thread'.request /\ thread'.pc = "loop"
      BY ZenonT(30), <1>1, <2>1 DEF Configure, CreateThread, NoThread
    <3> QED
      BY <1>1, <2>1, <3>1 DEF Configure, CreateThread
  <2>2. CASE ~services.logbook
    BY <1>1, <2>2 DEF Configure, logbookVars
  <2> QED
    BY <2>1, <2>2
<1>2. CASE \E r \in RunNumbers : ExecuteStart(r)
  BY <1>2 DEF ExecuteStart, logbookVars
<1>3. CASE StartReset
  BY <1>3 DEF StartReset, ResetCount
<1>4. CASE StartUnsetRun
  BY <1>4, LogbookAssumption DEF StartUnsetRun, SetRun
<1>5. CASE StartSetRun
  BY <1>5 DEF StartSetRun, SetRun
<1>6. CASE StartPublish
  BY <1>6 DEF StartPublish, PublishAsync, Request
<1>7. CASE RunningCount
  BY <1>7 DEF RunningCount, CountData
<1>8. CASE RunningPublish
  BY <1>8 DEF RunningPublish, PublishAsync, Request
<1>9. CASE ExecuteStop
  BY <1>9 DEF ExecuteStop, PublishSync, Return, Request
<1>10. CASE StopWaits /\ PendingOver
  BY <1>10 DEF StopWaits, PendingOver, Request
<1>11. CASE StopWaits /\ PublishDone
  BY <1>11 DEF StopWaits, PublishDone, Return
<1>12. CASE StopWaits /\ PublishTimeout
  BY <1>12 DEF StopWaits, PublishTimeout, Return
<1>13. CASE StopDone
  <2>1. stats.run = occRunNumber /\ occRunNumber \in RunsOrNone
    BY <1>13 DEF StopDone
  <2>2. final' = [final EXCEPT ![stats.run] =
                   [done |-> TRUE, ok |-> publish.ok, count |-> stats.count]]
    BY <1>13, <2>1 DEF StopDone
  <2>3. publish.ok => ~thread.request
    BY DEF FinalCall
  <2> QED
    BY <1>13, <2>2, <2>3 DEF StopDone
<1>14. CASE ExecuteReset
  BY <1>14 DEF ExecuteReset, AskShutdown
<1>15. CASE ResetJoin
  BY <1>15 DEF ResetJoin, JoinThread, NoThread
<1>16. CASE ResetCounters
  BY <1>16, LogbookAssumption DEF ResetCounters
<1> QED
  BY <1>1, <1>2, <1>3, <1>4, <1>5, <1>6, <1>7, <1>8, <1>9, <1>10, <1>11, <1>12, <1>13, <1>14,
     <1>15, <1>16 DEF FlpStep, Command, ControlStep, StopWaits, PublishStep

\* No later call touches the record of a run that STOP reported as published,
LEMMA LogbookFinalIsPublished ==
  ASSUME LogInv, LogTypeOK', LogbookStep, UNCHANGED <<ctl, final, services, occRunNumber>>
  PROVE  FinalIsPublished'
PROOF
<1> USE DEF LogInv, LogTypeOK, ThreadState, FinalIsPublished, Settled, CurrentRun, FinalCall, Stored
<1>1. CASE LogbookLoop
  BY <1>1 DEF LogbookLoop
<1>2. CASE CopyFirst
  BY <1>2 DEF CopyFirst
<1>3. CASE CopySecond
  BY <1>3 DEF CopySecond
<1>4. CASE NoRunNumber
  BY <1>4 DEF NoRunNumber
<1>5. CASE CallReturns
  BY <1>5 DEF CallReturns
<1>6. CASE CallThrows
  BY <1>6 DEF CallThrows
<1>7. CASE ClearRequest
  BY <1>7 DEF ClearRequest
<1> QED
  BY <1>1, <1>2, <1>3, <1>4, <1>5, <1>6, <1>7 DEF LogbookStep

\* which the report was true of.
LEMMA FlpFinalIsPublished ==
  ASSUME LogInv, LogTypeOK', SyncTypeOK, FlpStep
  PROVE  FinalIsPublished'
PROOF
<1> USE DEF LogInv, LogTypeOK, ThreadState, FinalIsPublished, Settled, CurrentRun, FinalCall, Stored
<1>1. CASE Configure
  BY <1>1 DEF Configure, CreateThread, NoThread, logbookVars
<1>2. CASE \E r \in RunNumbers : ExecuteStart(r)
  BY <1>2 DEF ExecuteStart, logbookVars
<1>3. CASE StartReset
  BY <1>3 DEF StartReset, ResetCount
<1>4. CASE StartUnsetRun
  BY <1>4 DEF StartUnsetRun, SetRun
<1>5. CASE StartSetRun
  BY <1>5 DEF StartSetRun, SetRun
<1>6. CASE StartPublish
  BY <1>6 DEF StartPublish, PublishAsync, Request
<1>7. CASE RunningCount
  BY <1>7 DEF RunningCount, CountData
<1>8. CASE RunningPublish
  BY <1>8 DEF RunningPublish, PublishAsync, Request
<1>9. CASE ExecuteStop
  BY <1>9 DEF ExecuteStop, PublishSync, Return, Request
<1>10. CASE StopWaits /\ PendingOver
  BY <1>10 DEF StopWaits, PendingOver, Request
<1>11. CASE StopWaits /\ PublishDone
  BY <1>11 DEF StopWaits, PublishDone, Return
<1>12. CASE StopWaits /\ PublishTimeout
  BY <1>12 DEF StopWaits, PublishTimeout, Return
<1>13. CASE StopDone
  BY <1>13 DEF StopDone
<1>14. CASE ExecuteReset
  BY <1>14 DEF ExecuteReset, AskShutdown
<1>15. CASE ResetJoin
  BY <1>15 DEF ResetJoin, JoinThread, NoThread
<1>16. CASE ResetCounters
  BY <1>16 DEF ResetCounters
<1> QED
  BY <1>1, <1>2, <1>3, <1>4, <1>5, <1>6, <1>7, <1>8, <1>9, <1>10, <1>11, <1>12, <1>13, <1>14,
     <1>15, <1>16 DEF FlpStep, Command, ControlStep, StopWaits, PublishStep

\* Each call stores counters that are not older than the record,
LEMMA LogbookGrowing ==
  ASSUME LogInv, LogTypeOK', LogbookStep, UNCHANGED <<ctl, final, services, occRunNumber>>
  PROVE  Growing'
PROOF
<1>0. NoneFailed' = NoneFailed
  BY DEF NoneFailed
<1> USE <1>0 DEF LogInv, LogTypeOK, ThreadState, Growing, InRun, Requests, Copying, CurrentRun,
        Settled, FinalCall
<1>1. CASE LogbookLoop
  BY ZenonT(30), <1>1 DEF LogbookLoop
<1>2. CASE CopyFirst
  <2>1. CASE thread' = [thread EXCEPT !.count = stats.count, !.pc = "copyRun"]
    <3>1. thread'.request = thread.request /\ thread'.pc = "copyRun" /\ thread'.count = stats.count
      BY <2>1
    <3> QED
      BY <1>2, <3>1 DEF CopyFirst
  <2>2. CASE thread' = [thread EXCEPT !.run = stats.run, !.pc = "copyCount"]
    <3>1. thread'.request = thread.request /\ thread'.pc = "copyCount" /\ thread'.run = stats.run
      BY <2>2
    <3> QED
      BY <1>2, <3>1 DEF CopyFirst
  <2> QED
    BY <1>2, <2>1, <2>2 DEF CopyFirst
<1>3. CASE CopySecond
  <2>1. CASE thread.pc = "copyRun" /\ thread' = [thread EXCEPT !.run = stats.run, !.pc = "call"]
    <3>1. /\ thread'.request = thread.request /\ thread'.pc = "call" /\ thread'.run = stats.run
          /\ thread'.count = thread.count
      BY <2>1
    <3> QED
      BY <1>3, <2>1, <3>1 DEF CopySecond
  <2>2. CASE thread.pc = "copyCount" /\ thread' = [thread EXCEPT !.count = stats.count, !.pc = "call"]
    <3>1. /\ thread'.request = thread.request /\ thread'.pc = "call" /\ thread'.run = thread.run
          /\ thread'.count = stats.count
      BY <2>2
    <3> QED
      BY <1>3, <2>2, <3>1 DEF CopySecond
  <2> QED
    BY <1>3, <2>1, <2>2 DEF CopySecond
<1>4. CASE NoRunNumber
  BY <1>4 DEF NoRunNumber
<1>5. CASE CallReturns
  BY <1>5 DEF CallReturns
<1>6. CASE CallThrows
  BY <1>6 DEF CallThrows
<1>7. CASE ClearRequest
  BY <1>7 DEF ClearRequest
<1> QED
  BY <1>1, <1>2, <1>3, <1>4, <1>5, <1>6, <1>7 DEF LogbookStep

\* and the counters grow until the next run has its own record.
LEMMA FlpGrowing ==
  ASSUME LogInv, LogTypeOK', SyncTypeOK, FlpStep
  PROVE  Growing'
PROOF
<1> USE DEF LogInv, LogTypeOK, ThreadState, Growing, NoneFailed, InRun, Requests, Copying,
        CurrentRun, Settled, FinalCall
<1>1. CASE Configure
  <2>1. CASE services.logbook
    <3>1. ~thread'.request /\ thread'.pc = "loop"
      BY ZenonT(30), <1>1, <2>1 DEF Configure, CreateThread, NoThread
    <3> QED
      BY <1>1, <2>1, <3>1 DEF Configure, CreateThread
  <2>2. CASE ~services.logbook
    BY <1>1, <2>2 DEF Configure, logbookVars
  <2> QED
    BY <2>1, <2>2
<1>2. CASE \E r \in RunNumbers : ExecuteStart(r)
  BY <1>2 DEF ExecuteStart, logbookVars
<1>3. CASE StartReset
  BY <1>3 DEF StartReset, ResetCount
<1>4. CASE StartUnsetRun
  BY <1>4 DEF StartUnsetRun, SetRun
<1>5. CASE StartSetRun
  BY <1>5 DEF StartSetRun, SetRun
<1>6. CASE StartPublish
  BY <1>6 DEF StartPublish, PublishAsync, Request
<1>7. CASE RunningCount
  BY <1>7 DEF RunningCount, CountData
<1>8. CASE RunningPublish
  BY <1>8 DEF RunningPublish, PublishAsync, Request
<1>9. CASE ExecuteStop
  BY <1>9 DEF ExecuteStop, PublishSync, Return, Request
<1>10. CASE StopWaits /\ PendingOver
  BY <1>10 DEF StopWaits, PendingOver, Request
<1>11. CASE StopWaits /\ PublishDone
  BY <1>11 DEF StopWaits, PublishDone, Return
<1>12. CASE StopWaits /\ PublishTimeout
  BY <1>12 DEF StopWaits, PublishTimeout, Return
<1>13. CASE StopDone
  BY <1>13 DEF StopDone
<1>14. CASE ExecuteReset
  BY <1>14 DEF ExecuteReset, AskShutdown
<1>15. CASE ResetJoin
  BY <1>15 DEF ResetJoin, JoinThread, NoThread
<1>16. CASE ResetCounters
  BY <1>16 DEF ResetCounters
<1> QED
  BY <1>1, <1>2, <1>3, <1>4, <1>5, <1>6, <1>7, <1>8, <1>9, <1>10, <1>11, <1>12, <1>13, <1>14,
     <1>15, <1>16 DEF FlpStep, Command, ControlStep, StopWaits, PublishStep

\* The run number of Flp changes with START only.
LEMMA RunKept ==
  ASSUME SyncTypeOK, Next
  PROVE  occRunNumber' = occRunNumber \/ \E r \in RunNumbers : ExecuteStart(r)
PROOF
<1> USE FlpAssumption DEF occRunNumber
<1>1. CASE UNCHANGED client
  BY <1>1
<1>2. CASE StartReset
  BY <1>2 DEF StartReset, SyncTypeOK, ClientState
<1>3. ASSUME NEW p \in Procs, NEW r \in SyncIds, OtherStarts(p, r) PROVE occRunNumber' = occRunNumber
  BY <1>3 DEF OtherStarts, SyncSend, SyncTypeOK
<1>4. ASSUME NEW p \in Procs, OtherGoesOn(p) PROVE occRunNumber' = occRunNumber
  BY <1>4 DEF OtherGoesOn, SyncTypeOK
<1>5. ASSUME NEW p \in Procs, Barrier(p) PROVE occRunNumber' = occRunNumber
  BY <1>5 DEF Barrier, SyncRecv, SyncTimeout, SyncClosed, SyncTypeOK, ClientState
<1>6. CASE Tick
  BY <1>6 DEF Tick, SyncTypeOK, ClientState
<1>7. CASE Server /\ ~Tick
  BY <1>1, <1>7 DEF Server, OnServer, ServerNext, Register, ThreadStep, Look, Decide, CloseGroup,
                    SendReply, EndThread, ServerStops, ServerStarts
<1> HIDE DEF occRunNumber
<1> QED
  BY <1>1, <1>2, <1>3, <1>4, <1>5, <1>6, <1>7
  DEF Next, Command, Configure, ExecuteStop, ExecuteReset, ControlStep, StartUnsetRun,
      StartSetRun, StartPublish, StopWaits, StopDone, ResetJoin, ResetCounters,
      RunningCount, RunningPublish, Logbook, syncVars

\* START makes its run the current one.
LEMMA StartRun ==
  ASSUME SyncTypeOK, NEW r \in RunNumbers, ExecuteStart(r)
  PROVE  occRunNumber' = r /\ r \in RunsOrNone
PROOF
  BY FlpAssumption DEF ExecuteStart, SyncSend, SkipSync, SyncTypeOK, ClientState, occRunNumber,
     RunNumbers, RunsOrNone

\* The current run has no final publication until the end of its STOP.
LEMMA CurrentRunStep ==
  ASSUME LogTypeOK, CurrentRun, Requests, SyncTypeOK, Next
  PROVE  CurrentRun'
PROOF
<1> USE DEF CurrentRun, LogTypeOK
<1>1. ASSUME NEW r \in RunNumbers, ExecuteStart(r) PROVE CurrentRun'
  BY <1>1, StartRun DEF ExecuteStart
<1> SUFFICES ASSUME occRunNumber' = occRunNumber, ~\E r \in RunNumbers : ExecuteStart(r)
             PROVE  CurrentRun'
  BY <1>1, RunKept
<1>2. CASE UNCHANGED <<logbookVars, ctl, final, services>>
  BY <1>2 DEF logbookVars
<1>3. CASE Configure
  BY <1>3 DEF Configure
<1>4. CASE StartReset \/ StartUnsetRun \/ StartSetRun \/ StartPublish
  BY <1>4 DEF StartReset, StartUnsetRun, StartSetRun, StartPublish, ResetCount, SetRun, PublishAsync
<1>5. CASE RunningCount \/ RunningPublish \/ ExecuteStop \/ StopWaits
  BY <1>5 DEF RunningCount, RunningPublish, ExecuteStop, StopWaits, CountData, PublishAsync,
              PublishSync, PublishStep, PendingOver, PublishDone, PublishTimeout
<1>6. CASE StopDone \/ ExecuteReset \/ ResetJoin \/ ResetCounters
  BY <1>6 DEF StopDone, ExecuteReset, ResetJoin, ResetCounters, AskShutdown, JoinThread
<1>7. CASE Logbook
  BY <1>7 DEF Logbook, LogbookStep, LogbookLoop, CopyFirst, CopySecond, NoRunNumber, CallReturns,
              CallThrows, ClearRequest
<1> HIDE DEF CurrentRun, LogTypeOK
<1> QED
  BY <1>2, <1>3, <1>4, <1>5, <1>6, <1>7
  DEF Next, Command, ControlStep, OtherStarts, OtherGoesOn, Barrier, Server, OnServer

\* Every step keeps the invariant of the bookkeeping.
LEMMA LogStep ==
  ASSUME LogInv, SyncTypeOK, [Next]_vars
  PROVE  LogInv'
PROOF
<1>1. CASE UNCHANGED <<logbookVars, ctl, final, services, client>>
  BY <1>1 DEF logbookVars, occRunNumber, LogInv, LogTypeOK, Requests, Copying, CurrentRun,
     FinalCall,
              Stored, Settled, FinalIsPublished, Growing, NoneFailed, InRun
<1>2. CASE Next
  <2>1. CurrentRun'
    BY <1>2, CurrentRunStep DEF LogInv
  <2>2. CASE Logbook
    <3>1. LogbookStep /\ UNCHANGED <<ctl, final, services, occRunNumber>>
      BY <2>2 DEF Logbook, syncVars, occRunNumber
    <3>2. LogTypeOK'
      BY <3>1, LogbookStepTyped DEF LogInv
    <3> QED
      BY <2>1, <3>1, <3>2, LogbookRequests, LogbookFinalCall, LogbookSettled,
         LogbookFinalIsPublished, LogbookGrowing DEF LogInv
  <2>3. CASE FlpStep
    <3>1. LogTypeOK'
      BY <2>3, FlpTyped DEF LogInv
    <3> QED
      BY <2>1, <2>3, <3>1, FlpRequests, FlpFinalCall, FlpSettled, FlpFinalIsPublished, FlpGrowing
      DEF LogInv
  <2>4. CASE UNCHANGED <<logbookVars, ctl, final, services>>
    BY <2>1, <2>4 DEF logbookVars, LogInv, LogTypeOK, Requests, Copying, FinalCall,
                      Stored, Settled, FinalIsPublished, Growing, NoneFailed, InRun
  <2> QED
    BY <1>2, <2>2, <2>3, <2>4 DEF Next, FlpStep, OtherStarts, OtherGoesOn, Barrier, Server, OnServer
<1> QED
  BY <1>1, <1>2 DEF vars, syncVars

-----------------------------------------------------------------------------
(* The theorems *)

\* Nobody waits and nothing is published at the start.
LEMMA Initially ==
  ASSUME Init
  PROVE  IInv
PROOF
<1> USE DEF Init
<1>1. SyncTypeOK
  <2>1. up \in BOOLEAN
    BY Zenon DEF SyncInit
  <2>2. NoGroup \in Group
    BY SyncAssumption DEF NoGroup, Group
  <2>3. \A p \in Procs : client[p] \in ClientState
    BY DEF SyncInit, ClientState
  <2> QED
    BY <2>1, <2>2, <2>3 DEF SyncInit, SyncTypeOK
<1>2. OneTimer /\ GroupAges /\ SeenAges /\ BatchIsQuiet
  BY DEF SyncInit, NoGroup, OneTimer, GroupAges, SeenAges, BatchIsQuiet
<1>3. LogTypeOK
  <2>1. NoThread \in ThreadState
    BY DEF NoThread, ThreadState, RunsOrNone
  <2>2. Undone \in [done : BOOLEAN, ok : BOOLEAN, count : Nat]
    BY DEF Undone
  <2> QED
    BY <2>1, <2>2 DEF LogbookInit, LogTypeOK, RunsOrNone
<1>4. /\ ~publish.ok /\ publish.pc = "idle" /\ ~thread.request /\ thread.pc = "ended"
      /\ \A r \in Runs : ~final[r].ok /\ records[r] = 0
  BY DEF LogbookInit, NoThread, Undone
<1>5. Requests /\ CurrentRun /\ FinalCall /\ Settled /\ FinalIsPublished /\ Growing
  BY <1>4 DEF Requests, Copying, CurrentRun, FinalCall, Settled, FinalIsPublished, Growing, InRun
<1> QED
  BY <1>1, <1>2, <1>3, <1>5 DEF IInv, BarrierInv, LogInv

\* The invariant of the two services and of the commands that use them, for every
\* number of processes, runs and failures.
THEOREM Invariance == Spec => []IInv
PROOF
<1>1. Init => IInv
  BY Initially
<1>2. IInv /\ [Next]_vars => IInv'
  BY BarrierStep, LogStep DEF IInv, BarrierInv, LogInv, LogTypeOK
<1> QED
  BY <1>1, <1>2, PTL DEF Spec

\* start_group_timer() decides on a time that it read before, without the mutex, and
\* answers later: the clients that it knew of are old enough all the same, and still
\* there.
THEOREM QuietBatches == Spec => []BatchIsQuiet
PROOF
<1>1. IInv => BatchIsQuiet
  BY DEF IInv, BarrierInv
<1> QED
  BY <1>1, Invariance, PTL

\* publishLogbookStats(): a success that STOP reports is never undone by a request that
\* is served late, by the next START or by another publication.
THEOREM FinalStays == Spec => []FinalIsPublished
PROOF
<1>1. IInv => FinalIsPublished
  BY DEF IInv, LogInv
<1> QED
  BY <1>1, Invariance, PTL

\* A record that shrinks is one of a run after a STOP that reported a failure.
LEMMA RecordsStep ==
  ASSUME IInv, Next, NEW r \in Runs, records'[r] < records[r]
  PROVE  ~NoneFailed
PROOF
<1> USE DEF IInv, LogInv, LogTypeOK
<1>1. CASE CallReturns
  <2>1. thread.run \in Runs /\ records' = [records EXCEPT ![thread.run] = thread.count + 1]
    BY <1>1 DEF CallReturns, ThreadState, RunsOrNone
  <2>2. r = thread.run
    BY <2>1
  <2>3. records'[r] = thread.count + 1 /\ thread.count \in Nat /\ records[r] \in Nat
    BY <2>1, <2>2 DEF ThreadState
  <2> QED
    BY <1>1, <2>2, <2>3 DEF CallReturns, Growing
<1>2. CASE UNCHANGED records
  BY <1>2
<1> QED
  BY <1>1, <1>2
  DEF Next, Command, Configure, CreateThread, ExecuteStart, ExecuteStop, PublishSync, ExecuteReset,
      AskShutdown, ControlStep, StartReset, ResetCount, StartUnsetRun, StartSetRun, SetRun,
      StartPublish, PublishAsync, StopWaits, PublishStep, PendingOver, PublishDone,
      PublishTimeout, StopDone, ResetJoin, JoinThread, ResetCounters, RunningCount, CountData,
      RunningPublish, OtherStarts, OtherGoesOn, Barrier, Server, OnServer, Logbook, LogbookStep,
      LogbookLoop, CopyFirst, CopySecond, NoRunNumber, CallThrows, ClearRequest, logbookVars

\* The copy of the counters is not atomic and the service may be late: while every STOP
\* reported a success, no publication overwrites a later one, or the record of another run.
THEOREM Growth == Spec => RecordsOnlyGrow
PROOF
<1> DEFINE A == \A r \in Runs : records'[r] < records[r] =>
                  \E q \in DOMAIN final : final[q].done /\ ~final[q].ok
<1>1. IInv /\ [Next]_vars => [A]_vars
  <2> SUFFICES ASSUME IInv, Next, NEW r \in Runs, records'[r] < records[r]
               PROVE  \E q \in DOMAIN final : final[q].done /\ ~final[q].ok
    OBVIOUS
  <2>1. ~NoneFailed
    BY RecordsStep
  <2> QED
    BY <2>1 DEF NoneFailed, IInv, LogInv, LogTypeOK
<1> QED
  BY <1>1, Invariance, PTL DEF Spec, RecordsOnlyGrow
=============================================================================
