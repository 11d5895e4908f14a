---------------------------- MODULE VerifyEngine ----------------------------
(***************************************************************************)
(* crates/kdp-process/src/verify.rs: the engine that compares each REST    *)
(* book with the replayed one, within Window of it in time.  It is fed     *)
(* with the records of the orderbook log in file order.  A state is the    *)
(* levels of a book.  `pending` is a sequence of at most one check.        *)
(***************************************************************************)
EXTENDS Integers, Sequences, SequencesExt, FiniteSetsExt

CONSTANT Window   \* VERIFY_WINDOW_US
ASSUME VerifyWindowAssumption == Window \in Nat

NewEngine == [window |-> <<>>, pending |-> <<>>, gap_pending |-> FALSE, rows |-> <<>>]

Row(ts, outcome, lag) == [ts |-> ts, outcome |-> outcome, lag |-> lag]

\* The check that is pending, if any, gets its verdict.
Resolve(engine, outcome, lag) ==
    IF engine.pending = <<>> THEN engine
    ELSE [engine EXCEPT !.pending = <<>>,
                        !.rows = Append(@, Row(engine.pending[1].ts, outcome, lag))]

\* A plausible bug: everything before the cutoff is pruned.
PrunedToCutoff(window, cutoff) == SelectSeq(window, LAMBDA w : w.ts >= cutoff)

\* Entries are dropped from the front while the next one is not after the
\* cutoff: the state in force at the cutoff is kept.
Pruned(window, cutoff) ==
    LET first == Max({i \in DOMAIN window : \A j \in 2 .. i : window[j].ts <= cutoff})
    IN SubSeq(window, first, Len(window))

\* A replayed snapshot or delta, already applied.
OnBookEvent(engine, ts, state, snapshot) ==
    LET late == engine.pending # <<>> /\ ts > engine.pending[1].ts + Window
        equal == engine.pending # <<>> /\ engine.pending[1].rest = state
        settled == IF late THEN Resolve(engine, "mismatch", 0)
                   ELSE IF equal THEN Resolve(engine, "matched", ts - engine.pending[1].ts)
                   ELSE engine
        window == Append(engine.window, [ts |-> ts, state |-> state])
    IN [settled EXCEPT !.window = Pruned(window, ts - Window),
                       !.gap_pending = @ /\ ~snapshot]

\* A gap of the orderbook channel: no verdict on a book that is suspect.
OnGap(engine) == [Resolve(engine, "skipped_gap", 0) EXCEPT !.gap_pending = TRUE]

\* The newest entry of the window that equals the REST book, looking back to the
\* state in force Window before it; 0 if there is none.
BackwardMatch(window, ts, rest) ==
    LET threshold == ts - Window
        tested == {i \in DOMAIN window :
                     \A j \in i + 1 .. Len(window) : window[j].ts >= threshold}
        equal == {i \in tested : window[i].state = rest}
    IN IF equal = {} THEN 0 ELSE Max(equal)

\* A REST observation stamped ts, read when the replayed book is `state`.
OnVerify(engine, ts, rest, state) ==
    LET ready == Resolve(engine, IF engine.gap_pending THEN "skipped_gap" ELSE "mismatch", 0)
        back == BackwardMatch(ready.window, ts, rest)
        threshold == ts - Window
    IN IF ready.gap_pending
       THEN [ready EXCEPT !.rows = Append(@, Row(ts, "skipped_gap", 0))]
       ELSE IF state = rest
       THEN [ready EXCEPT !.rows = Append(@, Row(ts, "matched", 0))]
       ELSE IF back # 0
       THEN [ready EXCEPT !.rows =
                Append(@, Row(ts, "matched", Max({ready.window[back].ts, threshold}) - ts))]
       ELSE [ready EXCEPT !.pending = <<[ts |-> ts, rest |-> rest]>>]

\* The end of the stream.
FinishEngine(engine) == Resolve(engine, "truncated", 0)
=============================================================================
