---------------------------- MODULE OrderedPipe ----------------------------
(***************************************************************************)
(* What the data processor promises: each block that it accepts leaves it  *)
(* at most once, and in the order of arrival when the order is enforced.   *)
(***************************************************************************)
EXTENDS Naturals, Sequences

CONSTANT Items

VARIABLES
  ordered,     \* whether the order is enforced
  accepted,    \* the items that came in,
  out          \* and those that went out

pipe == <<ordered, accepted, out>>

Elements(s) == {s[i] : i \in DOMAIN s}

Start ==
  /\ ordered \in BOOLEAN
  /\ accepted = <<>>
  /\ out = <<>>

Accept(b) ==
  /\ b \notin Elements(accepted)
  /\ accepted' = Append(accepted, b)
  /\ UNCHANGED <<ordered, out>>

\* with the order enforced, the next item out is the next one in
Deliver(b) ==
  /\ b \in Elements(accepted) \ Elements(out)
  /\ ordered => b = accepted[Len(out) + 1]
  /\ out' = Append(out, b)
  /\ UNCHANGED <<ordered, accepted>>

Step == \E b \in Items : Accept(b) \/ Deliver(b)

PipeSpec == Start /\ [][Step]_pipe

=============================================================================
