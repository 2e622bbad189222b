--------------------------- MODULE MCCanBusClient ---------------------------
(* An instance of CanBusClient for TLC; its constants are small numbers.    *)
EXTENDS CanBusClient
=============================================================================
