---------------------------- MODULE WholeStream ----------------------------
(***************************************************************************)
(* What a recorded stream promises its reader.  `held[s]` is the version a *)
(* reader of stream s has built from the records so far, or None while the *)
(* stream is suspect; `real[s]` is the version the exchange gave the last  *)
(* record.  A stream that is not suspect moves by whole changes only: it   *)
(* takes the next one, or is rebased on a record that states a version of  *)
(* its own.  It may become suspect at any time, and only a suspect stream  *)
(* may skip changes.  Versions never go back.                              *)
(***************************************************************************)
EXTENDS Integers

CONSTANTS Streams, None

VARIABLES held, real

Init ==
    /\ held = [s \in Streams |-> None]
    /\ real = [s \in Streams |-> 0]

\* Only stream s changes, and not backwards.
Moves(s) ==
    /\ real' = [real EXCEPT ![s] = real'[s]]
    /\ held' = [held EXCEPT ![s] = held'[s]]
    /\ real'[s] >= real[s]

Rebase(s) == Moves(s) /\ held'[s] = real'[s]
Extend(s) == Moves(s) /\ held[s] # None /\ held'[s] = held[s] + 1
                      /\ real'[s] = real[s] + 1
Suspect(s) == Moves(s) /\ held'[s] = None /\ real'[s] = real[s]
Drift(s) == Moves(s) /\ held[s] = None /\ held'[s] = None

Next == \E s \in Streams : Rebase(s) \/ Extend(s) \/ Suspect(s) \/ Drift(s)

Spec == Init /\ [][Next]_<<held, real>>
=============================================================================
