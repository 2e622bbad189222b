-------------------------- MODULE MCBlockingQueue --------------------------
(* An instance of BlockingQueue for TLC: two threads on each side. *)
EXTENDS BlockingQueue

CONSTANTS p1, p2, c1, c2

TwoProducers == {p1, p2}
TwoConsumers == {c1, c2}
=============================================================================
