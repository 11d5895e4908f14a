---------------------------- MODULE MCSupervise ----------------------------
(***************************************************************************)
(* Instances of Supervise for TLC: an hourly event with two markets, and a *)
(* daily one whose expiry hour overlaps it.                                *)
(***************************************************************************)
EXTENDS Supervise, TLC

CONSTANTS m1, m2, daily   \* markets

TwoEvents == {1, 2}
EventMarkets == [s \in TwoEvents |-> IF s = 1 THEN {m1, m2} ELSE {daily}]
\* No action tells the two markets of the first event apart.
Symmetry == Permutations({m1, m2})
Clock == <<59, 120>>
Cohorts == [s \in TwoEvents |->
              IF s = 1 THEN [start |-> NoTime, open |-> 60, close |-> 120]
                       ELSE [start |-> NoTime, open |-> -1320, close |-> 180]]
Entries == [s \in TwoEvents |->
              [start |-> 60, lead |-> 60 * (s - 1), minutes |-> IF s = 1 THEN 90 ELSE 50,
               predicted |-> s = 1]]
\* Only the first event settles, has a record, and sees midnights.
FirstMarkets == EventMarkets[1]
FirstOnly == [s \in TwoEvents |-> IF s = 1 THEN 1 ELSE 0]
TwoMidnights == [s \in TwoEvents |-> IF s = 1 THEN 2 ELSE 0]
AllModes == {"universe", "scheduled", "hourly"}
UniverseOnly == {"universe"}
NoBound == {NoTime}
EitherBound == {NoTime, 120}
=============================================================================
