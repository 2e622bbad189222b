------------------------- MODULE MCTelemetrySystem -------------------------
(* An instance of TelemetrySystem for TLC: a frame may see a valid vehicle *)
(* state or none.                                                          *)
EXTENDS TelemetrySystem

SomeVersions == {0, 1}
=============================================================================
