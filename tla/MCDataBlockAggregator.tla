----------------------- MODULE MCDataBlockAggregator -----------------------
(***************************************************************************)
(* DataBlockAggregator for TLC: two equipments, the second one with three  *)
(* links, of which the slicer refuses one.                                 *)
(***************************************************************************)
EXTENDS DataBlockAggregator

MCInputOf == [s \in Sources |-> IF s = 1 THEN 1 ELSE 2]

\* the third source also has data without a timeframe
MCTimeframesOf == <<{1, 2}, {1, 2}, {0, 2}, {1}>>
=============================================================================
