---------------------------- MODULE MCNemLuxury ----------------------------
(* Instances of NemLuxury for TLC. *)
EXTENDS NemLuxury, TLC

CONSTANTS o1, o2, t1, t2

Mistyped == [Visa EXCEPT ![16] = 4]
AllCards == TestCards \cup {Mistyped}
AllFaults == FaultKinds
NoFaults == {}
============================================================================
