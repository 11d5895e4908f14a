------------------------------ MODULE Process ------------------------------
(***************************************************************************)
(* process_ticker of crates/kdp-process/src/process.rs: one pass over the  *)
(* orderbook log of a ticker, then over its trade log, into the tables and *)
(* the manifest that Replay reads back.  Each action is an arm of the      *)
(* record loop; the record it takes is the next line of the log, one that  *)
(* the capture may have written.  Times are recv_ts; `now` is the time of  *)
(* the last line.  Lines that do not decode and raw fallbacks leave these  *)
(* tables alone and make the manifest incomplete (Complete of Backfill).   *)
(***************************************************************************)
EXTENDS Replay, VerifyEngine

CONSTANTS
    Snapshots, Deltas,  \* the levels snapshots carry; the (slot, change) deltas carry
    RestBooks, Lags,    \* the levels REST checks carry; how long before it is
                        \* written one is stamped
    Steps,              \* how far the clock moves between two lines
    StepsBack,          \* how far it may be set back
    Prints,             \* times of trades in the trade log
    MaxRecords          \* bound on the lines of the orderbook log; a trade line more,
                        \* if that is shorter

ASSUME SlotsAssumption ==
    IsFiniteSet(Slots) /\ NoSlot \notin Slots /\ \A slot \in Slots : slot \in Sides \X Int
ASSUME LinesAssumption ==
    /\ Snapshots \subseteq [Slots -> Nat] /\ Deltas \subseteq Slots \X Int
    /\ Lags \subseteq Nat /\ Steps \subseteq Nat /\ StepsBack \subseteq Nat /\ Prints \subseteq Int

VARIABLES
    phase,        \* "orderbook", "trade", "written"
    now, seq,     \* of the last orderbook line
    book, engine, event_idx,
    book_events, trades, gap_rows, snap_ts,
    log           \* history: the orderbook records, in file order

tables == <<book_events, trades, gap_rows, snap_ts>>
vars == <<phase, now, seq, book, engine, event_idx, book_events, trades, gap_rows, snap_ts, log>>

SlotsOf(levels) == SetToSeq({slot \in Slots : levels[slot] # 0})

BookRow(ts, s, snapshot, slot, qty) ==
    [event_idx |-> event_idx, ts |-> ts, seq |-> s, snapshot |-> snapshot, slot |-> slot, qty |-> qty]

\* A plausible bug: an empty snapshot writes no row.
SnapshotRowsUnmarked(ts, s, levels) ==
    LET slots == SlotsOf(levels)
    IN [i \in DOMAIN slots |-> BookRow(ts, s, TRUE, slots[i], levels[slots[i]])]

\* push_snapshot: a row per level, or one row that marks the empty snapshot.
SnapshotRows(ts, s, levels) ==
    LET slots == SlotsOf(levels)
    IN IF slots = <<>> THEN <<BookRow(ts, s, TRUE, NoSlot, 0)>>
       ELSE [i \in DOMAIN slots |-> BookRow(ts, s, TRUE, slots[i], levels[slots[i]])]

---------------------------------------------------------------------------
Init ==
    /\ phase = "orderbook" /\ now = 0 /\ seq = 0
    /\ book = EmptyBook /\ engine = NewEngine /\ event_idx = 0
    /\ book_events = <<>> /\ trades = <<>> /\ gap_rows = <<>> /\ snap_ts = {}
    /\ log = <<>>

\* The log has another line, received d after the one before.
NextLine(d) ==
    /\ phase = "orderbook" /\ Len(log) < MaxRecords
    /\ now' = now + d

\* A snapshot opens a log, at time 0.  After a reconnect seqs start anew, some
\* time later; no snapshot is received in the microsecond of a gap marker.
Snapshot(d, levels) ==
    /\ NextLine(d) /\ (log = <<>> => d = 0)
    /\ \A g \in ToSet(gap_rows) : g.ts # now'
    /\ seq' = IF d = 0 THEN seq + 1 ELSE 1
    /\ event_idx' = event_idx + 1
    /\ book_events' = book_events \o SnapshotRows(now', seq', levels)
    /\ snap_ts' = snap_ts \cup {now'}
    /\ book' = ApplySnapshot(book, levels)
    /\ engine' = OnBookEvent(engine, now', book'.levels, TRUE)
    /\ log' = Append(log, [kind |-> "book", ts |-> now', state |-> book'.levels, snapshot |-> TRUE])
    /\ UNCHANGED <<phase, trades, gap_rows>>

Delta(d, change) ==
    /\ NextLine(d) /\ log # <<>>
    /\ seq' = seq + 1
    /\ event_idx' = event_idx + 1
    /\ book_events' = Append(book_events, BookRow(now', seq', FALSE, change[1], change[2]))
    /\ book' = ApplyChange(book, change[1], change[2])
    /\ engine' = OnBookEvent(engine, now', book'.levels, FALSE)
    /\ log' = Append(log, [kind |-> "book", ts |-> now', state |-> book'.levels, snapshot |-> FALSE])
    /\ UNCHANGED <<phase, trades, gap_rows, snap_ts>>

\* A gap marker of the orderbook channel.
Gap(d) ==
    /\ NextLine(d) /\ log # <<>> /\ now' \notin snap_ts
    /\ gap_rows' = Append(gap_rows, [ts |-> now'])
    /\ engine' = OnGap(engine)
    /\ log' = Append(log, [kind |-> "gap", ts |-> now'])
    /\ UNCHANGED <<phase, seq, book, event_idx, book_events, trades, snap_ts>>

\* A REST book, stamped a little before it is written.  Sweeps are further apart
\* than the window (the engine relies on it).
Verify(d, lag, rest) ==
    /\ NextLine(d) /\ log # <<>>
    /\ \A r \in ToSet(log) : r.kind = "verify" => r.ts + Window < now' - lag
    /\ engine' = OnVerify(engine, now' - lag, rest, book.levels)
    /\ log' = Append(log, [kind |-> "verify", ts |-> now' - lag, rest |-> rest, at |-> now'])
    /\ UNCHANGED <<phase, seq, book, event_idx, tables>>

\* The trade log comes after the orderbook log.
TradeLine ==
    /\ phase # "written" /\ log # <<>>
    /\ trades = <<>> /\ Len(log) < MaxRecords
    /\ phase' = "trade"

TradeRecord(ts) ==
    /\ TradeLine
    /\ trades' = Append(trades, [id |-> 1, recv |-> ts, event |-> ts, seq |-> 1, row |-> 0,
                                 source |-> "live"])
    /\ UNCHANGED <<now, seq, book, engine, event_idx, book_events, gap_rows, snap_ts, log>>

\* A hole of the trade tape is a row of the gaps table too, and no matter of the
\* engine.
TradeGap(ts) ==
    /\ TradeLine /\ ts \notin snap_ts /\ \A g \in ToSet(gap_rows) : g.ts # ts
    /\ gap_rows' = Append(gap_rows, [ts |-> ts])
    /\ UNCHANGED <<now, seq, book, engine, event_idx, book_events, trades, snap_ts, log>>

Mismatches(rows) ==
    LET at == Ascending({i \in DOMAIN rows : rows[i].outcome = "mismatch"})
    IN [n \in DOMAIN at |-> rows[at[n]]]

\* A plausible bug: the synthesized rows stay behind the others.
UnsortedByTime(rows) == rows

\* A stable sort by time, by the keys the rows would have as a lane: the time
\* comes first in the key of a gap, its row number last.
SortedByTime(rows) ==
    LET lane == SortByKey(ToSet(GapLane(rows)))
    IN [n \in DOMAIN lane |-> rows[lane[n].key[6]]]

\* Every mismatch becomes a gap row at the time of its check, and the tables are
\* written.
Finish ==
    /\ phase # "written" /\ log # <<>>
    /\ engine' = FinishEngine(engine)
    /\ LET found == Mismatches(engine'.rows)
       IN gap_rows' = SortedByTime(gap_rows \o [i \in DOMAIN found |-> [ts |-> found[i].ts]])
    /\ phase' = "written"
    /\ UNCHANGED <<now, seq, book, event_idx, book_events, trades, snap_ts, log>>

Next ==
    \/ \E d \in Steps :
          \/ \E levels \in Snapshots : Snapshot(d, levels)
          \/ \E change \in Deltas : Delta(d, change)
          \/ Gap(d)
          \/ \E lag \in Lags, rest \in RestBooks : Verify(d, lag, rest)
    \/ \E d \in StepsBack, change \in Deltas : Delta(-d, change)
    \/ \E ts \in Prints : TradeRecord(ts) \/ TradeGap(ts)
    \/ Finish

Spec == Init /\ [][Next]_vars
=============================================================================
