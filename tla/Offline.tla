------------------------------ MODULE Offline ------------------------------
(***************************************************************************)
(* What the processed form of a log says, against the log itself: the      *)
(* tables and the manifest that Process writes, read back through Merge    *)
(* and Replay.                                                             *)
(***************************************************************************)
EXTENDS Process

VARIABLE stream   \* what Loader::events gives; NotRead before it is opened

NotRead == [ok |-> FALSE, events |-> <<>>]
Read == phase = "written" /\ stream # NotRead

OfflineInit == Init /\ stream = NotRead

\* Loader::events on the written tables, read to the end or to an OrderViolation
\* (never at the first event, so what was read is not NotRead).
Load ==
    /\ phase = "written" /\ ~Read
    /\ LET iter == Events(gap_rows, book_events, trades)
       IN stream' = [ok |-> iter.ok, events |-> iter.events]
    /\ UNCHANGED vars

OfflineNext ==
    \/ Next /\ UNCHANGED stream
    \/ Load

OfflineSpec == OfflineInit /\ [][OfflineNext]_<<vars, stream>>

BookAt == {i \in DOMAIN log : log[i].kind = "book"}
WrittenAt(r) == IF r.kind = "verify" THEN r.at ELSE r.ts

\* The clock was never set back while the log was written.
Monotone == \A i, j \in DOMAIN log : i < j => WrittenAt(log[i]) <= WrittenAt(log[j])

---------------------------------------------------------------------------
(* coverage: the part of the span of the book events that is in a hole.    *)

SpanStart == Min({r.ts : r \in ToSet(book_events)})
SpanEnd == Max({r.ts : r \in ToSet(book_events)})

\* A plausible bug: a gap that no snapshot follows opens no hole.
HoleIfClosed(gap) ==
    LET after == {t \in snap_ts : t >= gap.ts}
    IN IF after = {} THEN {} ELSE Max({gap.ts, SpanStart}) .. Min({Min(after), SpanEnd}) - 1

\* A gap opens a hole that the first snapshot at or after it closes, or the end
\* of the span.
Hole(gap) ==
    LET after == {t \in snap_ts : t >= gap.ts}
        close == IF after = {} THEN SpanEnd ELSE Min(after)
    IN Max({gap.ts, SpanStart}) .. Min({close, SpanEnd}) - 1

HoleUs == Cardinality(UNION {Hole(gap) : gap \in ToSet(gap_rows)})

---------------------------------------------------------------------------
\* The tables stay within their types, and the running totals of the book are
\* the sums of its levels (the invariant stated at Book::yes_total).
TypeOK ==
    /\ phase \in {"orderbook", "trade", "written"} /\ now \in Int /\ seq \in Nat
    /\ book.levels \in [Slots -> Nat] /\ book.underflows \in Nat
    /\ \A side \in Sides : book.total[side] = SideSum(book.levels, side)
    /\ event_idx \in Nat /\ snap_ts \subseteq Int
    /\ Len(engine.pending) <= 1 /\ engine.gap_pending \in BOOLEAN

\* A log whose clock never went back reads to its end: late checks, markers
\* synthesized after the fact and two logs side by side never trip the order
\* check of EventIter (process.rs sorts gap_rows for this).
MonotoneLogReads == Read /\ Monotone => stream.ok

\* The book a reader rebuilds from the merged stream is the book the processor
\* held at the end, whatever the clock did, unless the stream ends in an error.
ReplayAgrees ==
    Read /\ stream.ok => Replayed(stream.events).book = book

\* When the whole stream reads, every range of it is exact: the book at its
\* start is the one the records before t0 leave, the leading gaps are those no
\* later snapshot before t0 answers, and the events are those of [t0, t1), none
\* lost and none twice (Loader::between).  The times of the events are all the
\* bounds that make a difference.
RangeIsExact ==
    Read /\ stream.ok =>
        \A t0, t1 \in {e.ts : e \in ToSet(stream.events)} \cup {SpanEnd + 1} : t0 < t1 =>
            LET range == Between(stream, t0, t1)
                earlier == {i \in BookAt : log[i].ts < t0}
                pending == Ascending({i \in DOMAIN gap_rows :
                              /\ gap_rows[i].ts < t0
                              /\ ~\E t \in snap_ts : gap_rows[i].ts < t /\ t < t0})
                count(kinds) == Cardinality({i \in DOMAIN range.events : range.events[i].kind \in kinds})
                within(t) == t0 <= t /\ t < t1
            IN /\ range.ok
               /\ range.opener = IF earlier = {} THEN NoLevels ELSE log[Max(earlier)].state
               /\ [n \in DOMAIN range.gaps |-> range.gaps[n].ts]
                     = [n \in DOMAIN pending |-> gap_rows[pending[n]].ts]
               /\ \A e \in ToSet(range.events) : within(e.ts)
               /\ count({"gap"}) = Cardinality({i \in DOMAIN gap_rows : within(gap_rows[i].ts)})
               /\ count({"snapshot", "delta"}) = Cardinality({i \in BookAt : within(log[i].ts)})
               /\ count({"trade"}) = Cardinality({i \in DOMAIN trades : within(trades[i].recv)})

\* The hole_us of the manifest is the time at whose end a range of the stream
\* would open with a gap pending (coverage of process.rs against the pre-roll of
\* RangeIter), provided no gap is stamped with the microsecond of a snapshot.
HoleIsSuspectTime ==
    Read /\ Monotone /\ (\A g \in ToSet(gap_rows) : g.ts \notin snap_ts) =>
        HoleUs = Cardinality({t \in SpanStart .. SpanEnd - 1 :
                                Between(stream, t + 1, t + 2).gaps # <<>>})

---------------------------------------------------------------------------
(* The verdicts, against the book as a function of time.                   *)

CheckAt == {i \in DOMAIN log : log[i].kind = "verify"}

\* The end of the time for which the state of line i is in force.
EndOf(i) ==
    LET later == {j \in BookAt : j > i}
    IN IF later = {} THEN now + Window + 1 ELSE log[Min(later)].ts

\* The state of line i is in force somewhere in [a, b]; strictly, a state that
\* ends at a does not count.
InForce(i, a, b, strictly) ==
    log[i].ts <= b /\ IF strictly THEN EndOf(i) > a ELSE EndOf(i) >= a

\* A gap before line c that no snapshot before c answers.
SuspectAt(c) ==
    \E g \in 1 .. c - 1 : /\ log[g].kind = "gap"
                          /\ \A i \in g .. c - 1 : i \in BookAt => ~log[i].snapshot

\* The lines after check c up to the one that closes its window.
Afterwards(c) ==
    {i \in c + 1 .. Len(log) : \A j \in c + 1 .. i - 1 :
        log[j].kind # "verify" /\ (log[j].kind = "book" => log[j].ts <= log[c].ts + Window)}

\* A verdict on check c.  A match is a state that was in force within the window,
\* or until the check was written when that is later, on a book not suspect at
\* the check; a mismatch means that no state in force within the window was equal
\* and no gap came before the window closed (a late check is measured from the
\* last book event before it, whose pruning it meets); a verdict is withheld only
\* for a gap, or for the end of the log within the window.
Verdict(c, row) ==
    LET v == log[c].ts
        until == Max({v + Window, log[c].at})
        lastBefore == Max({v} \cup {log[i].ts : i \in {j \in BookAt : j < c}})
        gapAfter == \E i \in Afterwards(c) : log[i].kind = "gap"
        equal(a, b, strictly) ==
            \E i \in BookAt : log[i].state = log[c].rest /\ InForce(i, a, b, strictly)
    IN /\ row.ts = v
       /\ row.outcome = "matched" => ~SuspectAt(c) /\ equal(v - Window, until, FALSE)
                                     /\ row.lag \in -Window .. until - v
       /\ row.outcome = "mismatch" => ~SuspectAt(c) /\ ~gapAfter
                                      /\ ~equal(lastBefore - Window, v + Window, TRUE)
       /\ row.outcome = "skipped_gap" => SuspectAt(c) \/ gapAfter
       /\ row.outcome = "truncated" =>
              ~gapAfter /\ \A i \in BookAt : i > c => log[i].ts <= v + Window

\* Every check of a log whose clock never went back has one row of the report,
\* in the order of the checks, and its outcome is justified by the log (however
\* checks, gaps, pruning and the end of the log resolve it in verify.rs).
VerdictsAreSound ==
    Read /\ Monotone =>
        /\ Len(engine.rows) = Cardinality(CheckAt)
        /\ \A c \in CheckAt : Verdict(c, engine.rows[Cardinality({b \in CheckAt : b <= c})])
=============================================================================
