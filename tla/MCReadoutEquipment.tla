------------------------- MODULE MCReadoutEquipment -------------------------
(* ReadoutEquipment for TLC: six configurations, each with the superpages   *)
(* that matter for it.                                                      *)
EXTENDS ReadoutEquipment

Packet(l, o, f) == [link |-> l, orbit |-> o, field |-> f, ok |-> TRUE]

Wrong(l, o) == [link |-> l, orbit |-> o, field |-> {}, ok |-> FALSE]

Setup ==
  [firstOrbit |-> TRUE, check |-> FALSE, field |-> FALSE, drop |-> FALSE, ctp |-> FALSE,
   auto |-> FALSE, limit |-> FALSE, equipments |-> 1, pages |-> {}]

\* timeframes of orbits 6, 7, 0, 1 and 2 to 5 when 6 is the first orbit
Numbering ==
  [Setup EXCEPT !.equipments = 2, !.pages = {<<Packet(1, 6, {})>>, <<Packet(1, 7, {})>>}]

\* pages that hold one timeframe, or two, or another link
Checking ==
  [Setup EXCEPT !.check = TRUE, !.drop = TRUE,
     !.pages = {<<Packet(1, 6, {}), Packet(1, 1, {})>>, <<Packet(1, 6, {}), Packet(1, 2, {})>>,
                <<Packet(1, 3, {}), Packet(2, 3, {})>>}]

\* a first packet that is wrong, and two links
Faulty ==
  [Setup EXCEPT !.pages = {<<Wrong(1, 5)>>, <<Packet(1, 6, {})>>, <<Packet(2, 6, {})>>}]

\* a new timeframe in each page, with a rate limit and both kinds of ids
Limited(auto) ==
  [Setup EXCEPT !.limit = TRUE, !.auto = auto, !.pages = {<<Packet(1, 6, {})>>, <<Packet(1, 2, {})>>}]

\* run bits, of which the second is out of the bitset, also within a page
Ctp ==
  [Setup EXCEPT !.ctp = TRUE, !.field = TRUE, !.check = TRUE,
     !.pages = {<<Packet(1, 6, {})>>, <<Packet(1, 6, {0})>>, <<Packet(1, 6, {1})>>,
                <<Packet(1, 6, {0}), Packet(1, 6, {})>>}]

MCSetups == {Numbering, Checking, Faulty, Limited(TRUE), Limited(FALSE), Ctp}

CtpSetups == {Ctp}
=============================================================================
