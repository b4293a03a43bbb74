-------------------------- MODULE MCTimeframeChain --------------------------
(***************************************************************************)
(* Files of four packets, of two links and two timeframes, cut by pages of *)
(* several sizes: pages that hold a packet, that end inside a packet or    *)
(* inside a header, or that hold all; with a packet that is invalid, cut   *)
(* or without size.  All of them are replayed alone, and the emulators run *)
(* alone; the chain of both processes works on one file.  With slicing, a  *)
(* file of two links, one of one link, and emulators with one and two.     *)
(***************************************************************************)
EXTENDS TimeframeChain

Packet(link, orbit, size) ==
  [link |-> link, orbit |-> orbit, size |-> size, stored |-> size, valid |-> TRUE]

Good == <<Packet(1, 6, 3), Packet(1, 7, 2), Packet(2, 7, 3), Packet(2, 8, 2)>>

Replay(packets, size, loop, update) ==
  [file |-> packets, pageSize |-> size, autoChunkLoop |-> loop, updateOrbits |-> update,
   autoChunk |-> TRUE, fillPage |-> FALSE]

OneLink == [k \in 1 .. 4 |-> [Good[k] EXCEPT !.link = 1]]

Chain == Replay(Good, 5, -2, TRUE)

Sliced == {Chain, Replay(OneLink, 3, -2, TRUE), Replay(OneLink, 5, 1, TRUE)}

MCPlayerConfigs ==
  Sliced \cup
  { Replay(Good, n, l, u) : n \in {3, 4, 5, 10}, l \in {0, 1, -2}, u \in BOOLEAN }
  \cup { Replay([Good EXCEPT ![k].valid = FALSE], 5, -2, TRUE) : k \in 1 .. 4 }
  \cup { Replay([Good EXCEPT ![4].size = 3], 5, 1, TRUE),
         Replay([Good EXCEPT ![4].stored = 1], 5, 1, TRUE),
         Replay([Good EXCEPT ![3].size = 0], 5, 1, TRUE) }
  \cup { [Replay(Good, 21, 0, TRUE) EXCEPT !.autoChunk = FALSE, !.fillPage = f] : f \in BOOLEAN }

Mode(snapshot, client, messages) ==
  [snapshot |-> snapshot, tfClient |-> client, messages |-> messages]

MCZmqModes ==
  { Mode(TRUE, TRUE, n) : n \in 0 .. 1 } \cup { Mode(s, FALSE, n) : s \in BOOLEAN, n \in {0, 2} }

Emulator(links, step, period, size, payloads, trigger) ==
  [numberOfLinks |-> links, bcStep |-> step, HBperiod |-> period, capacity |-> size,
   payloads |-> payloads, trigger |-> trigger]

Plain == Emulator(1, 4, 1, 2, {1}, 0)

\* one link with frames of all sizes, two links in step and out of step, steps of less than
\* an orbit, a heartbeat every second orbit, and triggers
MCEmulatorConfigs ==
  { Plain, Emulator(1, 4, 1, 2, {Empty, 0, 1, 3}, 0), Emulator(1, 6, 1, 3, {Empty, 2}, 0),
    Emulator(2, 5, 1, 2, {3}, 0), Emulator(2, 4, 1, 2, {1, 3}, 0), Emulator(1, 3, 1, 2, {1, 2}, 0),
    Emulator(1, 8, 2, 2, {1, 3}, 0), Emulator(1, 4, 1, 2, {1, 3}, 2) }

Case(config, mod, rate, n) ==
  [source |-> "player", player |-> config, emulator |-> Plain, mode |-> mod, rate |-> rate,
   slicing |-> FALSE, starts |-> n]

MCSetups ==
  { Case(c, Mode(FALSE, FALSE, 0), r, 1) : c \in MCPlayerConfigs, r \in {"none", "id", "count"} }
  \cup { Case(Chain, Mode(s, FALSE, 2), "none", 0) : s \in BOOLEAN }
  \cup { [Case(Chain, Mode(FALSE, FALSE, 0), r, 1) EXCEPT !.source = "emulator", !.emulator = e] :
           e \in MCEmulatorConfigs, r \in {"none", "id"} }
  \cup { [Case(c, Mode(FALSE, FALSE, 0), r, 1) EXCEPT !.slicing = TRUE] :
           c \in Sliced, r \in {"none", "id", "count"} }
  \cup { [Case(Chain, Mode(FALSE, FALSE, 0), "none", 1) EXCEPT
             !.source = "emulator", !.emulator = e, !.slicing = TRUE] :
           e \in {Plain, Emulator(2, 5, 1, 2, {3}, 0)} }
  \cup { [Case(Chain, Mode(TRUE, TRUE, 0), "none", 1) EXCEPT !.slicing = TRUE] }
  \cup { Case(Chain, Mode(TRUE, TRUE, 0), "none", 2), Case(Chain, Mode(TRUE, TRUE, 1), "none", 1) }
=============================================================================
