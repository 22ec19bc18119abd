---------------------------- MODULE MCScheduler ----------------------------
(***************************************************************************)
(* Instances of Scheduler for TLC.                                         *)
(***************************************************************************)
EXTENDS Scheduler

CONSTANTS c1, c2, t1, t2, t3

OneCore == {c1}
TwoCores == {c1, c2}
TwoThreads == {t1, t2}
ThreeThreads == {t1, t2, t3}
AllCalls == {"spawn", "join", "exit"}
NoJoin == {"spawn", "exit"}
=============================================================================
