--------------------------- MODULE MCRunServices ---------------------------
(***************************************************************************)
(* Two processes and two runs: both processes may meet at the barrier of a *)
(* run, come late, come again for the next run, or be alone.               *)
(***************************************************************************)
EXTENDS RunServices, TLC

CONSTANTS p1, p2

MCServices == {[sync |-> TRUE, logbook |-> FALSE], [sync |-> FALSE, logbook |-> TRUE]}

MCMaxStarts == (p1 :> 1) @@ (p2 :> 1)
=============================================================================
