----------------------- MODULE MCConsumerFMQchannel -----------------------
(* ConsumerFMQchannel for TLC. *)
EXTENDS ConsumerFMQchannel
=============================================================================
