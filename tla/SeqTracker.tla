----------------------------- MODULE SeqTracker -----------------------------
(***************************************************************************)
(* The per-sid sequence tracker of crates/kdp-kalshi/src/ws/gap.rs and the *)
(* frame classification built on it in ws/session.rs.  Pure operators: the *)
(* tracker is its last_seq alone, an Option<u64> with None for "no         *)
(* baseline"; each operator returns the next last_seq with the verdict.    *)
(***************************************************************************)
EXTENDS Integers

\* Option::None for a seq, and for the book a reader holds.
None == -1

\* SeqTracker::on_snapshot: a snapshot always re-baselines and is accepted.
OnSnapshot(last, seq) == [last |-> seq, verdict |-> "Accept"]

\* Plausible bugs of on_sequenced, which the properties must catch: a hole
\* that is accepted, a hole that does not move the baseline, a repeat that is
\* accepted.
OnSequencedHoleAccepted(last, seq) ==
    [last |-> seq, verdict |-> IF seq = last THEN "Duplicate" ELSE "Accept"]
OnSequencedHoleKeepsBaseline(last, seq) ==
    IF last = None \/ seq = last + 1
    THEN [last |-> seq, verdict |-> "Accept"]
    ELSE [last |-> last, verdict |-> IF seq = last THEN "Duplicate" ELSE "Gap"]
OnSequencedRepeatAccepted(last, seq) ==
    [last |-> seq,
     verdict |-> IF last = None \/ seq \in {last, last + 1} THEN "Accept" ELSE "Gap"]

\* SeqTracker::on_sequenced: adopt, advance, skip a repeat, or report a hole.
OnSequenced(last, seq) ==
    IF last = None \/ seq = last + 1
    THEN [last |-> seq, verdict |-> "Accept"]
    ELSE IF seq = last
         THEN [last |-> last, verdict |-> "Duplicate"]
         ELSE [last |-> seq, verdict |-> "Gap"]

\* classify_seq for a data frame that carries a sid (anything else is
\* persisted without touching a tracker).  A data record without a seq is
\* accepted as it is.
ClassifySeq(last, kind, seq) ==
    IF kind = "snapshot" THEN OnSnapshot(last, seq)
    ELSE IF seq = None THEN [last |-> last, verdict |-> "Accept"]
         ELSE OnSequenced(last, seq)
=============================================================================
