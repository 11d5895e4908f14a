----------------------------- MODULE MCCapture ------------------------------
(***************************************************************************)
(* Instances of Capture for TLC.                                           *)
(***************************************************************************)
EXTENDS Capture

\* Bounds on frames and on versions, per channel.
TradesOnly == [orderbook |-> 0, trade |-> 2]
OneSnapshot == [orderbook |-> 1, trade |-> 0]
ThreeBooks == [orderbook |-> 3, trade |-> 0]
ThreeTrades == [orderbook |-> 0, trade |-> 3]
TwoChanges == [orderbook |-> 2, trade |-> 0]
NoFrames == [orderbook |-> 0, trade |-> 0]
DiskFaults == {"disk", "append"}
CrashFaults == {"crash"}
AppendCrashFaults == {"append", "crash"}
=============================================================================
