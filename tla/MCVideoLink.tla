---------------------------- MODULE MCVideoLink ----------------------------
(* An instance of VideoLink for TLC, with room for two connections.        *)
EXTENDS VideoLink

TwoSockets == 1..2
=============================================================================
