----------------------------- MODULE MCSession ------------------------------
(***************************************************************************)
(* Instances of Session for TLC; the constants are in the .cfg files.      *)
(***************************************************************************)
EXTENDS Session

\* Bounds on the frames of one connection, and on the versions of a stream.
\* Books need a snapshot for each of two tickers, a lost delta, a delta that
\* shows it and a frame after that; tapes need a trade, a lost one and one that
\* shows it.
BookSeqs == [orderbook |-> 5, trade |-> 0]
BookVersions == [orderbook |-> 3, trade |-> 0]
TapeSeqs == [orderbook |-> 0, trade |-> 3]
TapeVersions == [orderbook |-> 0, trade |-> 3]
=============================================================================
