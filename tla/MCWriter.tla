------------------------------ MODULE MCWriter ------------------------------
(***************************************************************************)
(* Instances of Writer for TLC.                                            *)
(***************************************************************************)
EXTENDS Writer

TwoStreams == {"book", "tape"}
SmallRecords ==
    [kind : {"data"}, s : TwoStreams] \cup [kind : {"control"}, s : {"book"}]
AllFaults == {"disk", "append", "crash", "tear"}
=============================================================================
