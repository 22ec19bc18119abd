--------------------------- MODULE MCRingBuffer ---------------------------
(***************************************************************************)
(* An instance of RingBuffer for TLC: heads that wrap around after two     *)
(* turns of the ring.                                                      *)
(***************************************************************************)
EXTENDS RingBuffer

CONSTANTS t1, t2

TwoThreads == {t1, t2}
=============================================================================
