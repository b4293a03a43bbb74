--------------------------- MODULE MCReceiverFMQ ---------------------------
(* DDformatMessage and ReceiverFMQ for TLC. *)
EXTENDS ReceiverFMQ

Packet(hb, page, stop) == [hb |-> hb, page |-> page, stop |-> stop, noNext |-> FALSE]

\* two orbits, the second one equal to the initial value of lastHBid; packets that make
\* consistent frames, missing and repeated stop bits, jumps, and a packet without a next one
MCPackets ==
  {Packet(1, 0, FALSE), Packet(1, 1, TRUE), Packet(3, 0, TRUE), Packet(3, 1, TRUE),
   [Packet(1, 0, FALSE) EXCEPT !.noNext = TRUE]}

Config(check, drop, packed, size) ==
  [format |-> "hbf", releaseDelay |-> FALSE, checkIncomplete |-> check, dropIncomplete |-> drop,
   enablePackedCopy |-> packed, pageSize |-> size]

InFormat(format, delay) ==
  [Config(FALSE, FALSE, FALSE, 3) EXCEPT !.format = format, !.releaseDelay = delay]

\* with a page of 3, a packed copy of 3 packets fits without its header only; with a page of
\* 5, the second copy of two packets needs another page; with a page of 6 it does not
MCConfigurations ==
  {Config(TRUE, TRUE, TRUE, 5), Config(TRUE, FALSE, TRUE, 3), Config(FALSE, FALSE, TRUE, 5),
   Config(FALSE, FALSE, TRUE, 6), InFormat("hbf", TRUE), InFormat("superpage", FALSE),
   InFormat("superpage", TRUE), InFormat("raw", FALSE), InFormat("datablock", TRUE)}
=============================================================================
