------------------------------ MODULE Backfill ------------------------------
(***************************************************************************)
(* crates/kdp-cli/src/backfill.rs: `backfill`, which enumerates the        *)
(* markets of a series (or reads them from the markets.jsonl of an earlier *)
(* run, or is given them), fetches the trades of each, page by page, and   *)
(* appends them to the trade logs of a directory that may hold live prints *)
(* already.  A run may be killed anywhere and started again, with --resume *)
(* or without.  REST reads go through RestGet and, the trade pages, behind *)
(* the RateLimit bucket; logs are those of Store; the reader's view of a   *)
(* log is Merge's trade lane of what the processor accepts.                *)
(***************************************************************************)
EXTENDS RateLimit, RestGet, Merge, Store, TLC

CONSTANTS
    Tickers,        \* the markets of the series, numbered
    Close,          \* close time of each
    MinClose, MaxClose, Chunk,  \* --min-close, --max-close, --chunk
    HighVolume,     \* the markets that reach --min-volume
    Given,          \* the lists --tickers may give
    Pages,          \* external: Pages[t][c] is the page at cursor c of the
                    \* exchange's tape of t: [trades, next], next 0 at the end
    EventTs, RecvTs,  \* external: when trade n was executed, and when a live
                    \* capture received it
    FetchTs,        \* when a backfill received what it fetched
    Malformed,      \* trades whose REST fields do not decode
    MaxTradePages,  \* --trade-pages
    LiveLogs,       \* the logs a live capture may have left
    MaxRuns         \* bound on the runs started

\* Trades are numbered as the exchange's feed numbers them.
Ids == DOMAIN EventTs
Lines == [kind : {"live", "rest", "raw", "torn", "bad"}, s : Ids]

ASSUME WindowAssumption ==
    /\ Tickers \subseteq Nat \ {0} /\ IsFiniteSet(Tickers)
    /\ Close \in [Tickers -> Int] /\ Given \subseteq Seq(Tickers)
    /\ MinClose \in Int /\ MaxClose \in Int /\ MinClose < MaxClose /\ Chunk \in Nat \ {0}
ASSUME ClockAssumption ==
    /\ EventTs \in Seq(Int) /\ RecvTs \in [DOMAIN EventTs -> Int] /\ FetchTs \in Int
ASSUME TapeAssumption ==
    /\ \A t \in Tickers :
          /\ 1 \in DOMAIN Pages[t]
          /\ \A c \in DOMAIN Pages[t] :
                /\ Pages[t][c].trades \in Seq(Ids)
                /\ Pages[t][c].next \in {0} \cup DOMAIN Pages[t]
    /\ \A dir \in LiveLogs : dir \in [Tickers -> Seq(Lines)]
    /\ MaxTradePages \in Nat /\ MaxRuns \in Nat

VARIABLES
    pc,         \* "down", "listing", "resolve", "tickers", "page", "pacing", "trades",
                \* "append", "mark"
    source,     \* --series of the "live" tier or (--historical) the "archive",
                \* --markets-file or --tickers ("given")
    lo, found,  \* enumeration: the start of the chunk, the markets found
    listed,     \* external: the markets that the cursor of the listing has passed
    markets,    \* on disk: markets.jsonl
    done,       \* tickers the checkpoint of earlier runs names
    ticker,     \* position in found
    seen, cursor, pages_this_ticker, page,
    attempt,    \* of the GET in flight
    timer,      \* units left of the sleep in progress
    logs, ckpt, \* on disk: the trade logs, .backfill-progress.jsonl
    sent,       \* history: sent[a] paced requests in the last a units of time
    runs

net == <<attempt, timer>>
disk == <<logs, ckpt>>
list == <<source, lo, found, listed, markets, done>>
walk == <<ticker, seen, cursor, pages_this_ticker, page>>
vars == <<pc, source, lo, found, listed, markets, done, ticker, seen, cursor, pages_this_ticker, page, attempt, timer,
          tokens, idle, logs, ckpt, sent, runs>>

Trade(id) == [kind |-> "rest", s |-> id]
Current == found[ticker]

---------------------------------------------------------------------------
(* The checkpoint.  writeln! writes a line and its newline apart, so a     *)
(* line may be whole but "open"; what follows an open or torn line is      *)
(* glued to it, and the line no longer parses.                             *)

Unended(lines) == lines # <<>> /\ Last(lines).kind \in {"open", "torn"}

WriteMark(lines, t) ==
    IF Unended(lines) THEN Append(Front(lines), Line("bad", t)) ELSE Append(lines, Line("done", t))
CutMark(lines, t) ==
    IF Unended(lines) THEN {lines, Append(Front(lines), Line("bad", t))}
    ELSE {lines, Append(lines, Line("open", t)), Append(lines, Line("torn", t))}

\* load_checkpoint: the lines that parse.
LoadCheckpoint(lines) == {lines[i].s : i \in Readable(lines)}

---------------------------------------------------------------------------
\* A markets.jsonl that is not there, or whose last line is torn: reading it fails.
NoMarkets == <<0>>

NoneSent == [a \in 0 .. Horizon |-> 0]

Init ==
    /\ pc = "down" /\ source = "live" /\ lo = MinClose /\ found = <<>> /\ listed = {} /\ done = {}
    /\ ticker = 1 /\ seen = {} /\ cursor = 1 /\ pages_this_ticker = 0 /\ page = <<>>
    /\ attempt = 1 /\ timer = 0 /\ NewLimiter /\ sent = NoneSent
    /\ markets = NoMarkets /\ logs \in LiveLogs /\ ckpt = <<>> /\ runs = 0

\* The process is over: what it held in memory is gone.
Ends ==
    /\ pc' = "down" /\ source' = "live" /\ lo' = MinClose /\ found' = <<>> /\ listed' = {} /\ done' = {}
    /\ ticker' = 1 /\ seen' = {} /\ cursor' = 1 /\ pages_this_ticker' = 0 /\ page' = <<>>
    /\ attempt' = 1 /\ timer' = 0 /\ tokens' = Capacity /\ idle' = 0 /\ sent' = NoneSent
    /\ UNCHANGED runs

\* The items of a list that are in S, in their order.
Only(items, S) ==
    LET kept[n \in 0 .. Len(items)] ==
            IF n = 0 THEN <<>>
            ELSE IF items[n] \in S THEN Append(kept[n - 1], items[n]) ELSE kept[n - 1]
    IN kept[Len(items)]

\* market_close_in_window: the window is half open.
MarketCloseInWindow(t) == MinClose <= Close[t] /\ Close[t] < MaxClose

\* run_backfill up to the enumeration.  Only a series is enumerated.
Start ==
    /\ pc = "down" /\ runs < MaxRuns
    /\ runs' = runs + 1
    /\ \/ source' \in {"live", "archive"} /\ pc' = "listing" /\ UNCHANGED found
       \/ /\ source' = "file" /\ markets # NoMarkets
          /\ found' = Only(markets, {t \in Tickers : MarketCloseInWindow(t)}) /\ pc' = "resolve"
       \/ source' = "given" /\ found' \in Given /\ pc' = "resolve"
    /\ UNCHANGED <<lo, listed, markets, done, walk, net, limiter, disk, sent>>

---------------------------------------------------------------------------
(* The enumeration.  The live tier is listed chunk by chunk of the window; *)
(* the archive cannot be asked for a window and is listed whole.  Either   *)
(* listing is read page by page until its cursor ends, which nothing caps. *)

\* time_chunks: the end of the chunk that starts at a.
ChunkEnd(a) == Min({a + Chunk, MaxClose})

\* external: what the exchange lists.  The live tier has the markets closing in
\* the chunk, both ends in.
Query ==
    IF source = "archive" THEN Tickers ELSE {t \in Tickers : Close[t] \in lo .. ChunkEnd(lo)}

\* What a run takes of it.
Wanted == IF source = "archive" THEN {t \in Tickers : MarketCloseInWindow(t)} ELSE Tickers

\* A plausible bug: a market on a chunk boundary is taken twice.
FoundWithRepeats(ms) == found \o Only(ms, Wanted)

\* The markets that are new to this run, in the order listed.
FoundWith(ms) == found \o Only(ms, Wanted \ ToSet(found))

\* The page with the markets S has a cursor: the next page is asked for.
MorePages(S) ==
    /\ listed' = listed \cup S
    /\ UNCHANGED <<pc, lo>>

\* It has none (external: then every market of the query has been on a page), and
\* the listing, of the chunk or of the archive, is over.
LastPage(S) ==
    /\ Query \subseteq listed \cup S
    /\ listed' = {}
    /\ lo' = IF source = "archive" THEN MaxClose ELSE ChunkEnd(lo)
    /\ pc' = IF lo' < MaxClose THEN "listing" ELSE "resolve"

\* list_markets_page or list_historical_markets_page answered: any markets of the
\* query, in any order, whatever was listed before.
ListPage ==
    /\ pc = "listing"
    /\ \E S \in SUBSET Query :
          /\ \E ms \in SetToSeqs(S) : found' = FoundWith(ms)
          /\ MorePages(S) \/ LastPage(S)
    /\ UNCHANGED <<source, markets, done, walk, disk>>

\* --min-volume, if it is set, drops markets, but none of --tickers.
Kept ==
    IF source = "given" THEN {found}
    ELSE {found, Only(found, HighVolume)}

\* write_series_metadata: what is kept of a listing is recorded.
Recorded(kept) == IF source = "given" \/ kept = <<>> THEN markets ELSE kept

\* The markets are settled, and a new, full bucket is made for their pages.
\* --resume decides whether the checkpoint is read.
Resolve ==
    /\ pc = "resolve"
    /\ found' \in Kept \ {<<>>}
    /\ markets' = Recorded(found')
    /\ \E resume \in BOOLEAN : done' = IF resume THEN LoadCheckpoint(ckpt) ELSE {}
    /\ pc' = "tickers"
    /\ UNCHANGED <<source, lo, listed, walk, net, limiter, disk, sent, runs>>

\* The run ends here when no market is kept, or with --discover-only.
DiscoverOnly ==
    /\ pc = "resolve"
    /\ \E kept \in Kept : markets' = Recorded(kept)
    /\ Ends
    /\ UNCHANGED disk

\* The file is truncated and written line by line; a kill leaves a part of it.
ResolveCut ==
    /\ pc = "resolve" /\ source # "given"
    /\ \E kept \in Kept \ {<<>>} :
          markets' \in {SubSeq(kept, 1, n) : n \in 0 .. Len(kept)} \cup {NoMarkets}
    /\ Ends
    /\ UNCHANGED disk

---------------------------------------------------------------------------
(* The loop over the tickers, and within it the loop over the pages.       *)

\* A ticker of the checkpoint is skipped; after the last one the run is over.
SkipTicker ==
    /\ pc = "tickers" /\ ticker <= Len(found) /\ Current \in done
    /\ ticker' = ticker + 1
    /\ UNCHANGED <<pc, list, seen, cursor, pages_this_ticker, page, net, limiter, disk, sent, runs>>

OpenTicker ==
    /\ pc = "tickers" /\ ticker <= Len(found) /\ Current \notin done
    /\ seen' = {} /\ cursor' = 1 /\ pages_this_ticker' = 0
    /\ pc' = "page"
    /\ UNCHANGED <<list, ticker, page, net, limiter, disk, sent, runs>>

Finish ==
    /\ pc = "tickers" /\ ticker > Len(found)
    /\ Ends
    /\ UNCHANGED <<markets, disk>>

\* The page cap: the rest of this ticker's tape is left, with a warning.
PageCap ==
    /\ pc = "page" /\ pages_this_ticker >= MaxTradePages
    /\ pc' = "mark"
    /\ UNCHANGED <<list, walk, net, limiter, disk, sent, runs>>

\* A plausible bug: pages are not counted.
PaceUncapped ==
    /\ pc = "page"
    /\ Reserve /\ timer' = Wait(tokens')
    /\ pc' = "pacing"
    /\ UNCHANGED <<list, walk, attempt, disk, sent, runs>>

Pace ==
    /\ pc = "page" /\ pages_this_ticker < MaxTradePages
    /\ pages_this_ticker' = pages_this_ticker + 1
    /\ Reserve /\ timer' = Wait(tokens')
    /\ pc' = "pacing"
    /\ UNCHANGED <<list, ticker, seen, cursor, page, attempt, disk, sent, runs>>

\* The sleep is over: the page is asked for.
Request ==
    /\ pc = "pacing" /\ timer = 0
    /\ sent' = [a \in 0 .. Horizon |-> sent[a] + 1]
    /\ pc' = "trades" /\ attempt' = 1
    /\ UNCHANGED <<list, walk, timer, limiter, disk, runs>>

\* fetch_trades_page answered.
TradesPage ==
    /\ pc = "trades"
    /\ page' = Pages[Current][cursor].trades
    /\ pc' = "append"
    /\ UNCHANGED <<list, ticker, seen, cursor, pages_this_ticker, disk>>

\* The GET in flight is answered with a, or its transport fails.
Answered(verdict) ==
    /\ pc \in {"listing", "trades"} /\ timer = 0
    /\ \E a \in Answers : Verdict(a, attempt) = verdict

GotPage ==
    /\ Answered("page")
    /\ ListPage \/ TradesPage
    /\ attempt' = 1
    /\ UNCHANGED <<timer, limiter, sent, runs>>

\* The back-off, Capacity units to the second.  A retry reserves no token.
Retry ==
    /\ Answered("retry")
    /\ attempt' = attempt + 1
    /\ timer' = Capacity * RetryBackoff(attempt)
    /\ UNCHANGED <<pc, list, walk, limiter, disk, sent, runs>>

\* A plausible bug: a page that cannot be had is taken for the end of the tape.
GiveUpEndsTape ==
    /\ Answered("error")
    /\ IF pc = "trades" THEN pc' = "mark" /\ UNCHANGED <<list, walk, net, limiter, sent, runs>>
       ELSE Ends /\ UNCHANGED markets
    /\ UNCHANGED disk

\* The error ends the run.
GiveUp ==
    /\ Answered("error")
    /\ Ends
    /\ UNCHANGED <<markets, disk>>

---------------------------------------------------------------------------
\* trade_to_envelope: the decoded trade, or the message itself.
Envelope(id) == [kind |-> IF id \in Malformed THEN "raw" ELSE "rest", s |-> id]

Duplicate ==
    /\ pc = "append" /\ page # <<>> /\ Head(page) \in seen
    /\ page' = Tail(page)
    /\ UNCHANGED <<pc, list, ticker, seen, cursor, pages_this_ticker, net, limiter, disk, sent, runs>>

AppendTrade ==
    /\ pc = "append" /\ page # <<>> /\ Head(page) \notin seen
    /\ seen' = seen \cup {Head(page)} /\ page' = Tail(page)
    /\ \E log \in Appended(logs[Current], Envelope(Head(page))) :
          logs' = [logs EXCEPT ![Current] = log]
    /\ UNCHANGED <<pc, list, ticker, cursor, pages_this_ticker, net, limiter, ckpt, sent, runs>>

\* The append fails and ends the run, or the process is killed within it.
AppendCut ==
    /\ pc = "append" /\ page # <<>> /\ Head(page) \notin seen
    /\ \E log \in AppendFailed(logs[Current], Envelope(Head(page)), TRUE) :
          logs' = [logs EXCEPT ![Current] = log]
    /\ Ends
    /\ UNCHANGED <<markets, ckpt>>

NextCursor ==
    /\ pc = "append" /\ page = <<>>
    /\ LET next == Pages[Current][cursor].next
       IN IF next = 0 THEN pc' = "mark" /\ UNCHANGED cursor
                      ELSE pc' = "page" /\ cursor' = next
    /\ UNCHANGED <<list, ticker, seen, pages_this_ticker, page, net, limiter, disk, sent, runs>>

\* The ticker is recorded as complete, and its stream closed.
Mark ==
    /\ pc = "mark"
    /\ ckpt' = WriteMark(ckpt, Current)
    /\ ticker' = ticker + 1 /\ pc' = "tickers"
    /\ UNCHANGED <<list, seen, cursor, pages_this_ticker, page, net, limiter, logs, sent, runs>>

MarkCut ==
    /\ pc = "mark"
    /\ ckpt' \in CutMark(ckpt, Current)
    /\ Ends
    /\ UNCHANGED <<markets, logs>>

\* The process is killed between two writes.
Crash ==
    /\ pc # "down"
    /\ Ends
    /\ UNCHANGED <<markets, disk>>

\* Time passes in a sleep, or while a request is in flight.  Sleeps are exact.
\* The bucket is made once the markets are listed.
Tick ==
    /\ \/ pc \in {"listing", "trades"}
       \/ pc = "pacing" /\ timer > 0
    /\ IF pc = "listing" THEN UNCHANGED idle ELSE Elapse
    /\ timer' = Max({timer - 1, 0})
    /\ sent' = [a \in 0 .. Horizon |-> IF a = 0 THEN 0 ELSE sent[a - 1]]
    /\ UNCHANGED <<pc, list, walk, attempt, tokens, disk, runs>>

\* What the program does on its own, and the sleeps.
OwnStep ==
    \/ Resolve \/ DiscoverOnly
    \/ SkipTicker \/ OpenTicker \/ Finish
    \/ PageCap \/ Pace \/ Request
    \/ Duplicate \/ AppendTrade \/ NextCursor \/ Mark
    \/ timer > 0 /\ Tick

Step == GotPage \/ Retry \/ GiveUp \/ OwnStep

Next == Step \/ Start \/ Tick \/ ResolveCut \/ AppendCut \/ MarkCut \/ Crash

\* The program runs on, and sleeps end.  Nothing makes the exchange answer a
\* request (the client sets no timeout of its own), or anyone start a run.
Spec == Init /\ [][Next]_vars /\ WF_vars(OwnStep)

---------------------------------------------------------------------------
(* What a reader gets: process_ticker over the log, then the loader.       *)

\* The trades table, in file order: the row of a trade is numbered by its line.
TradeRow(l) ==
    [id |-> l.s, source |-> l.kind, row |-> 0, event |-> EventTs[l.s],
     seq |-> IF l.kind = "live" THEN l.s ELSE 0,
     recv |-> IF l.kind = "live" THEN RecvTs[l.s] ELSE FetchTs]
TradeLines(log) == {i \in DOMAIN log : log[i].kind \in {"live", "rest"}}
TradeRows(log) == [i \in TradeLines(log) |-> TradeRow(log[i])]

\* The manifest's `complete`: no line unread, no raw fallback.
Complete(log) == \A l \in ToSet(log) : l.kind \notin {"torn", "bad", "raw"}

Tape(log) == TradeLane(TradeRows(log))

\* The cursors of the pages of t that the page cap allows, 0 behind the last.
Cursors(t) ==
    LET at[n \in 1 .. MaxTradePages] ==
            IF n = 1 THEN 1
            ELSE IF at[n - 1] = 0 THEN 0 ELSE Pages[t][at[n - 1]].next
    IN at

\* The trades on those pages.
Reachable(t) ==
    UNION {ToSet(Pages[t][Cursors(t)[n]].trades) :
             n \in {m \in 1 .. MaxTradePages : Cursors(t)[m] # 0}}

---------------------------------------------------------------------------
\* The state of a run stays within its types and its bounds.
TypeOK ==
    /\ pc \in {"down", "listing", "resolve", "tickers", "page", "pacing", "trades", "append", "mark"}
    /\ source \in {"live", "archive", "file", "given"} /\ lo \in MinClose .. MaxClose
    /\ listed \subseteq Tickers /\ (pc # "listing" => listed = {})
    /\ ToSet(markets) \subseteq Tickers \cup {0} /\ ToSet(found) \subseteq Tickers /\ done \subseteq Tickers
    /\ ticker \in 1 .. Len(found) + 1 /\ pages_this_ticker \in 0 .. MaxTradePages
    /\ attempt \in 1 .. MaxGetAttempts /\ timer \in Nat
    /\ tokens \in -1 .. Capacity /\ idle \in 0 .. Horizon
    /\ DOMAIN logs = Tickers /\ runs \in 0 .. MaxRuns

\* However runs were cut and resumed, a ticker the checkpoint names, which a
\* resumed run will skip, has every trade of its tape (as far as the page cap
\* allows) in the reader's stream, or its manifest says it is not complete
\* (load_checkpoint: "a resume is always safe").
CheckpointedTapeIsWhole ==
    \A t \in LoadCheckpoint(ckpt) :
        Complete(logs[t]) => Reachable(t) \subseteq {e.id : e \in ToSet(Tape(logs[t]))}

\* Where a reader should find a trade: where it was received if any copy was
\* captured live, else where it was executed.
PlacedAt(log, id) ==
    IF [kind |-> "live", s |-> id] \in ToSet(log) THEN RecvTs[id] ELSE EventTs[id]

\* However often a trade was captured and fetched, and whatever the latency of
\* the feed, the reader sees it, once, at its place among the others: a live
\* print is not moved by its backfilled copies, a trade that only a backfill has
\* sits at its execution and never where it was fetched, and the fields are the
\* fetched ones if any copy has them (dedup_trades, trade_effective).
TapeIsInOrder ==
    \A t \in Tickers :
        LET log == logs[t]
            tape == Tape(log)
        IN /\ {e.id : e \in ToSet(tape)} = {log[i].s : i \in TradeLines(log)}
           /\ \A i, j \in DOMAIN tape :
                 i < j => /\ tape[i].id # tape[j].id
                          /\ PlacedAt(log, tape[i].id) <= PlacedAt(log, tape[j].id)
           /\ \A e \in ToSet(tape) : e.source = "rest" <=> Trade(e.id) \in ToSet(log)

\* In any stretch of time a run sends no more paced requests than a full bucket
\* and what it gains in that stretch (ratelimit.rs; retries are not paced).
RateHonoured ==
    \A a \in 0 .. Horizon : sent[a] <= Capacity + a

\* The enumeration finds the markets of the window (and --min-volume), each
\* once, though the listings of adjacent chunks overlap
\* (discover_markets_windowed).  The archive's window excludes its end
\* (discover_historical_markets), and so does the one a markets.jsonl is read
\* with, however it was written and cut (load_markets_file).
DiscoveryIsExact ==
    LET window == {t \in Tickers : MinClose <= Close[t] /\ Close[t] <= MaxClose}
        half == {t \in window : Close[t] # MaxClose}
        exact(ts) == ToSet(found) \in {ts, ts \cap HighVolume}
    IN pc \notin {"down", "listing"} /\ source # "given" =>
        /\ Len(found) = Cardinality(ToSet(found))
        /\ CASE source = "live"    -> exact(window)
             [] source = "archive" -> exact(half)
             [] source = "file"    -> ToSet(found) \subseteq half

\* The request for a page of trades is out.
Awaiting == pc = "trades" /\ timer = 0

\* A run whose markets are listed ends, unless the exchange leaves a request for
\* trades unanswered for ever: even when every answer is an error
\* (MAX_GET_ATTEMPTS) and when the cursor of a tape never ends (--trade-pages).
\* The cursors of the listings have no such cap.
RunEnds == []<>~Awaiting => (pc \notin {"down", "listing"} ~> pc = "down")
=============================================================================
