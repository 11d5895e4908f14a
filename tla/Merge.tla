------------------------------- MODULE Merge -------------------------------
(***************************************************************************)
(* crates/kdp-load/src/merge.rs: the one stream a reader of a processed    *)
(* directory sees.  A lane is a sequence of events [key, ts, ...]; the     *)
(* three lanes (gaps, book, trades) are merged by key.  A seq of 0 is an   *)
(* absent seq.                                                             *)
(***************************************************************************)
EXTENDS Integers, Sequences, SequencesExt, FiniteSetsExt

NoSlot == <<"none", 0>>

\* The numbers of a finite set, the smallest first.
Ascending(S) ==
    [n \in 1 .. Cardinality(S) |-> CHOOSE i \in S : Cardinality({j \in S : j < i}) = n - 1]

Before(a, b) ==
    \E i \in DOMAIN a : a[i] < b[i] /\ \A j \in 1 .. i - 1 : a[j] = b[j]

\* MergeKey: the time, absent seqs after present ones, the seq, gaps before
\* book before trades, the event number, the row.
Key(ts, seq, priority, idx, row) ==
    <<ts, IF seq = 0 THEN 1 ELSE 0, seq, priority, idx, row>>

---------------------------------------------------------------------------
(* The trade lane: deduplicated, then sorted by key.                       *)

\* A plausible bug: a backfilled print sits where it was fetched.
TradeEffectiveFetched(r) == r.recv

\* A live print sits where it was received, a backfilled one where it was
\* executed, never where it was fetched.
TradeEffective(r) == IF r.seq # 0 THEN r.recv ELSE r.event
TradeKey(r, row) == Key(TradeEffective(r), r.seq, 2, 0, row)

\* The copy of a trade that comes first in key order, among the given rows.
FirstCopy(rows, at) ==
    CHOOSE i \in at : \A j \in at \ {i} : Before(TradeKey(rows[i], i), TradeKey(rows[j], j))

\* dedup_trades: one row per trade_id, with the position of its first live copy
\* (else of its first copy) and the fields of its first backfilled one.
Copies(rows, id) == {i \in DOMAIN rows : rows[i].id = id}
LiveCopies(rows, id) == {i \in Copies(rows, id) : rows[i].seq # 0}
OneCopy(rows, id) ==
    LET copies == Copies(rows, id)
        live == LiveCopies(rows, id)
        pos == FirstCopy(rows, IF live # {} THEN live ELSE copies)
        fields == IF live = copies THEN pos ELSE FirstCopy(rows, copies \ live)
    IN [rows[fields] EXCEPT !.recv = rows[pos].recv, !.seq = rows[pos].seq, !.row = pos]
DedupTrades(rows) == {OneCopy(rows, rows[i].id) : i \in DOMAIN rows}

TradeEvent(r) ==
    [kind |-> "trade", key |-> TradeKey(r, r.row), ts |-> TradeEffective(r),
     id |-> r.id, source |-> r.source]

\* How many of the events precede e.
Rank(events, e) == Cardinality({d \in events : Before(d.key, e.key)})

SortByKey(events) ==
    [n \in 1 .. Cardinality(events) |-> CHOOSE e \in events : Rank(events, e) = n - 1]

TradeLane(rows) == SortByKey({TradeEvent(r) : r \in DedupTrades(rows)})

---------------------------------------------------------------------------
(* The gap lane and the book lane, in file order.                          *)

GapLane(rows) ==
    [i \in DOMAIN rows |-> [kind |-> "gap", key |-> Key(rows[i].ts, 0, 0, 0, i), ts |-> rows[i].ts]]

\* fill_book_lane: consecutive snapshot rows of one event_idx are one snapshot;
\* the row without a slot stands for a snapshot without levels.
StartsEvent(rows, i) ==
    \/ i = 1 \/ ~rows[i].snapshot \/ ~rows[i - 1].snapshot
    \/ rows[i - 1].event_idx # rows[i].event_idx

Group(rows, i) == {j \in i .. Len(rows) : \A k \in i + 1 .. j : ~StartsEvent(rows, k)}

BookEvent(rows, i) ==
    [kind |-> IF rows[i].snapshot THEN "snapshot" ELSE "delta",
     key |-> Key(rows[i].ts, rows[i].seq, 1, rows[i].event_idx, i),
     ts |-> rows[i].ts, idx |-> rows[i].event_idx,
     levels |-> {<<rows[j].slot, rows[j].qty>> :
                   j \in {k \in Group(rows, i) : rows[k].slot # NoSlot}}]

BookLane(rows) ==
    LET at == Ascending({i \in DOMAIN rows : StartsEvent(rows, i)})
    IN [n \in DOMAIN at |-> BookEvent(rows, at[n])]

---------------------------------------------------------------------------
(* EventIter: the smallest of the three heads goes out.  A head below the  *)
(* last key is an OrderViolation, at which readers stop.                   *)

\* A plausible bug: no tripwire.
InOrderAlways(last, key) == TRUE

InOrder(last, key) == last = <<>> \/ ~Before(key, last)

EventNext(iter) ==
    LET ready == {l \in DOMAIN iter.lanes : iter.lanes[l] # <<>>}
        best == CHOOSE l \in ready : \A m \in ready \ {l} :
                   Before(Head(iter.lanes[l]).key, Head(iter.lanes[m]).key)
        event == Head(iter.lanes[best])
    IN IF ~iter.ok \/ ready = {} THEN iter
       ELSE IF ~InOrder(iter.last, event.key) THEN [iter EXCEPT !.ok = FALSE]
       ELSE [iter EXCEPT !.lanes[best] = Tail(@), !.last = event.key,
                         !.events = Append(@, event)]

\* The events a reader of the whole stream gets, and whether it gets them all.
Events(gaps, book, trades) ==
    LET lanes == <<GapLane(gaps), BookLane(book), TradeLane(trades)>>
        count == Len(lanes[1]) + Len(lanes[2]) + Len(lanes[3])
        iter[n \in 0 .. count] ==
            IF n = 0 THEN [lanes |-> lanes, last |-> <<>>, events |-> <<>>, ok |-> TRUE]
            ELSE EventNext(iter[n - 1])
    IN iter[count]
=============================================================================
