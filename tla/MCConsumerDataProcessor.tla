---------------------- MODULE MCConsumerDataProcessor ----------------------
(* ConsumerDataProcessor for TLC. *)
EXTENDS ConsumerDataProcessor
=============================================================================
