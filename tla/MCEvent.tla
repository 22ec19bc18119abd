------------------------------ MODULE MCEvent ------------------------------
(***************************************************************************)
(* Instances of Event for TLC.                                             *)
(***************************************************************************)
EXTENDS Event

CONSTANTS c1, c2, t1, t2, t3, e1, e2

OneCore == {c1}
TwoCores == {c1, c2}
TwoThreads == {t1, t2}
ThreeThreads == {t1, t2, t3}
OneEvent == {e1}
TwoEvents == {e1, e2}
EventAndExit == {"spawn", "exit", "wait", "signal"}
EventCalls == {"spawn", "wait", "signal"}
=============================================================================
