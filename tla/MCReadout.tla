----------------------------- MODULE MCReadout -----------------------------
(***************************************************************************)
(* Readout for TLC: the first consumer takes its data from the second one, *)
(* as in a configuration that names the recorder before the processor.     *)
(***************************************************************************)
EXTENDS Readout

MCOutputOf == [c \in Consumers |-> IF c = 2 THEN 1 ELSE 0]
=============================================================================
