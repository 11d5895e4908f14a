----------------------------- MODULE MCOffline -----------------------------
(***************************************************************************)
(* A book of one price on each side, levels up to 2 and deltas of one.     *)
(***************************************************************************)
EXTENDS Offline

Yes == <<"yes", 1>>
No == <<"no", 1>>
MCSlots == {Yes, No}
Levels(y, n) == [slot \in MCSlots |-> IF slot = Yes THEN y ELSE n]

MCSnapshots == {Levels(0, 0), Levels(1, 2)}
MCDeltas == {<<Yes, 1>>, <<Yes, -1>>}
MCRestBooks == {Levels(2, 2)}
=============================================================================
