------------------------------- MODULE Session -------------------------------
(***************************************************************************)
(* run_session of crates/kdp-kalshi/src/ws/session.rs: the reader half of  *)
(* the capture pipeline.  It connects with backoff, stamps a gap marker    *)
(* into every stream after a reconnect, classifies each frame against the  *)
(* per-sid sequence tracker, and forwards markers and frames to the bounded*)
(* sink.                                                                   *)
(*                                                                         *)
(* The other side of the socket is external.  The exchange keeps, per      *)
(* (ticker, channel) stream, the number of changes it has published        *)
(* (`truth`), and numbers the frames of one subscription consecutively     *)
(* (`seq`, one sid per channel, merged over the tickers).  A frame it      *)
(* sends may be lost, repeated, or not decodable.  A frame carries the     *)
(* version `v` of its stream, which the program never sees: it is what the *)
(* properties compare the recorded stream with.                            *)
(***************************************************************************)
EXTENDS SeqTracker, Mpsc

CONSTANTS
    NumTickers,     \* the tickers of the capture, as positions of the slice
    SinkCapacity,   \* capacity of the sink channel
    SnapshotsLead,  \* the exchange snapshots every ticker before any delta
    MaxSeq,         \* bound: frames per channel and connection
    MaxVersion      \* bound: changes published per stream of a channel

ASSUME SessionAssumption ==
    /\ NumTickers \in Nat \ {0}
    /\ SinkCapacity \in Nat \ {0}
    /\ SnapshotsLead \in BOOLEAN
    /\ \A c \in {"orderbook", "trade"} : {MaxSeq[c], MaxVersion[c]} \subseteq Nat

Tickers == 1 .. NumTickers
Channels == {"orderbook", "trade"}
Streams == Tickers \X Channels
\* Stands for every log outside the captured streams: _unrouted or _unsafe
\* for a ticker, _raw for a channel.
Unrouted == <<0, "_raw">>
OrderbookOf(t) == <<t, "orderbook">>

\* Plausible bug: the fan-out runs one position too far.
StreamsOnTooMany(c) == {<<t, c>> : t \in 0 .. NumTickers}

\* The streams a gap on channel c concerns: every ticker of the sid.
StreamsOn(c) == {<<t, c>> : t \in Tickers}

\* The order of the fan-out loops: tickers outside, on-disk channels inside.
Before(s, r) == \/ s[1] < r[1]
                \/ s[1] = r[1] /\ s[2] = "orderbook" /\ r[2] = "trade"

FrameKinds == {"none", "snapshot", "delta", "trade", "raw", "control", "gap"}
Frame(kind, s, seq, v) == [kind |-> kind, s |-> s, seq |-> seq, v |-> v]
Frames == [kind : FrameKinds, s : Streams \cup {Unrouted},
           seq : Nat \cup {None}, v : Nat]
NoFrame == Frame("none", Unrouted, None, 0)
GapMarker(s) == Frame("gap", s, None, 0)

VARIABLES
    seq, truth, snapped, last,              \* the exchange and its socket
    pc, first, tracker, gaps, pend, end,    \* run_session
    shutdown,                               \* the shutdown future has resolved
    sink,                                   \* the channel to the writer
    book, cur                               \* history: see Apply

feedVars == <<seq, truth, snapped, last>>
sessionVars == <<pc, first, tracker, gaps, pend, end>>
historyVars == <<book, cur>>
vars == <<feedVars, sessionVars, shutdown, sink, historyVars>>

(***************************************************************************)
(* History.  `book[s]` is the version a reader of stream s would hold      *)
(* after applying, in order, every record forwarded so far: a snapshot sets*)
(* it, a delta adds one change to a book that has a baseline, a trade adds *)
(* one to the tape (which needs no baseline), a gap marker makes it        *)
(* suspect (None) and nothing else touches it.  `cur[s]` is the version    *)
(* the last such record really had.                                        *)
(***************************************************************************)
Apply(b, f) ==
    CASE f.kind = "snapshot" -> f.v
      [] f.kind = "delta"    -> IF b = None THEN None ELSE b + 1
      [] f.kind = "trade"    -> IF b = None THEN f.v ELSE b + 1
      [] f.kind = "gap"      -> None
      [] OTHER               -> b

Version(v, f) == IF f.kind \in {"snapshot", "delta", "trade"} THEN f.v ELSE v

Forward(f) ==
    /\ CanSend(sink, SinkCapacity)
    /\ sink' = Push(sink, f)
    /\ IF f.s \in Streams
       THEN /\ book' = [book EXCEPT ![f.s] = Apply(@, f)]
            /\ cur' = [cur EXCEPT ![f.s] = Version(@, f)]
       ELSE UNCHANGED historyVars
-----------------------------------------------------------------------------
FeedInit ==
    /\ seq = [c \in Channels |-> 0]
    /\ truth = [s \in Streams |-> 0]
    /\ snapped = {}
    /\ last = [c \in Channels |-> NoFrame]

SessionInit ==
    /\ pc = "connecting"
    /\ first = TRUE
    /\ tracker = [c \in Channels |-> None]
    /\ gaps = {}
    /\ pend = NoFrame
    /\ end = "none"

Init ==
    /\ FeedInit
    /\ SessionInit
    /\ shutdown = FALSE
    /\ sink = NewChan
    /\ book = [s \in Streams |-> None]
    /\ cur = [s \in Streams |-> 0]
-----------------------------------------------------------------------------
(***************************************************************************)
(* The exchange.                                                           *)
(***************************************************************************)
NewSnapshot(t) == Frame("snapshot", OrderbookOf(t), seq["orderbook"] + 1,
                        truth[OrderbookOf(t)])
NewDelta(t) == Frame("delta", OrderbookOf(t), seq["orderbook"] + 1,
                     truth[OrderbookOf(t)] + 1)
NewTrade(t) == Frame("trade", <<t, "trade">>, seq["trade"] + 1,
                     truth[<<t, "trade">>] + 1)

\* The frames the exchange may send next: each subscribed ticker's snapshot
\* once per connection, its deltas after it, its trades at any time.
NewFrames ==
    {NewSnapshot(t) : t \in Tickers \ snapped}
      \cup {NewDelta(t) : t \in
              {u \in snapped : SnapshotsLead => snapped = Tickers}}
      \cup {NewTrade(t) : t \in Tickers}

Publish(f) ==
    /\ f.seq <= MaxSeq[f.s[2]] /\ f.v <= MaxVersion[f.s[2]]
    /\ seq' = [seq EXCEPT ![f.s[2]] = f.seq]
    /\ truth' = [truth EXCEPT ![f.s] = f.v]
    /\ snapped' = IF f.kind = "snapshot" THEN snapped \cup {f.s[1]} ELSE snapped

\* A frame is lost on its way.
LoseFrame(f) ==
    /\ pc = "read"
    /\ Publish(f)
    /\ UNCHANGED <<last, sessionVars, shutdown, sink, historyVars>>

\* The market moves while nobody is subscribed.
MarketMoves(s) ==
    /\ pc \in {"connecting", "closing", "backoff"}
    /\ truth[s] < MaxVersion[s[2]]
    /\ truth' = [truth EXCEPT ![s] = @ + 1]
    /\ UNCHANGED <<seq, snapped, last, sessionVars, shutdown, sink, historyVars>>
-----------------------------------------------------------------------------
(***************************************************************************)
(* run_session.                                                            *)
(***************************************************************************)
\* The loop is left for good; the sender is dropped with the session.
End(reason) ==
    /\ pc' = "ended" /\ end' = reason
    /\ sink' = DropTx(sink)
    /\ UNCHANGED <<feedVars, first, tracker, gaps, pend, shutdown, historyVars>>

\* The read loop is left, and the socket closed: ws.close is awaited first.
Leave(reason) ==
    /\ pc' = "closing" /\ end' = reason
    /\ UNCHANGED <<feedVars, first, tracker, gaps, pend, shutdown, sink,
                   historyVars>>

\* Plausible bugs of a reconnect: no marker, or a marker in the order books only.
Reconnected(due) ==
    /\ pc = "connecting" /\ ~shutdown
    /\ gaps' = IF first THEN {} ELSE due
    /\ pc' = IF gaps' = {} THEN "read" ELSE "send"
    /\ first' = FALSE
    /\ tracker' = [c \in Channels |-> None]
    /\ pend' = NoFrame
    /\ seq' = [c \in Channels |-> 0]
    /\ snapped' = {}
    /\ last' = [c \in Channels |-> NoFrame]
    /\ UNCHANGED <<truth, end, shutdown, sink, historyVars>>
ConnectUnmarked == Reconnected({})
ConnectMarksBooksOnly == Reconnected(StreamsOn("orderbook"))

\* connect_and_subscribe succeeds: a fresh subscription, fresh trackers, and,
\* unless this is the first connection, a gap marker due in every stream.
Connect ==
    /\ pc = "connecting" /\ ~shutdown
    /\ pc' = IF first THEN "read" ELSE "send"
    /\ gaps' = IF first THEN {} ELSE Streams
    /\ first' = FALSE
    /\ tracker' = [c \in Channels |-> None]
    /\ pend' = NoFrame
    /\ seq' = [c \in Channels |-> 0]
    /\ snapped' = {}
    /\ last' = [c \in Channels |-> NoFrame]
    /\ UNCHANGED <<truth, end, shutdown, sink, historyVars>>

ConnectFails ==
    /\ pc = "connecting" /\ ~shutdown
    /\ pc' = "backoff"
    /\ UNCHANGED <<feedVars, first, tracker, gaps, pend, end, shutdown, sink,
                   historyVars>>

\* The backoff sleep is over.
BackoffOver ==
    /\ pc = "backoff" /\ ~shutdown
    /\ pc' = "connecting"
    /\ UNCHANGED <<feedVars, first, tracker, gaps, pend, end, shutdown, sink,
                   historyVars>>

\* Plausible bug: the read loop does not watch the shutdown future.
ObserveShutdownNotReading ==
    /\ shutdown /\ pc \in {"connecting", "backoff"}
    /\ End("Shutdown")

\* The select arms and the backoff sleep that watch the shutdown future.  A
\* session in the middle of a send, a pong or a close does not.
ObserveShutdown ==
    /\ shutdown
    /\ \/ pc \in {"connecting", "backoff"} /\ End("Shutdown")
       \/ pc = "read" /\ Leave("Shutdown")

\* Idle timeout, end of stream, socket error, close frame or failed pong.
Disconnect ==
    /\ pc = "read" /\ ~shutdown
    /\ Leave("none")

\* ws.close has returned, whatever its result: back off and connect again, or
\* return.
Closed ==
    /\ pc = "closing"
    /\ IF end = "none"
       THEN /\ pc' = "backoff"
            /\ UNCHANGED <<feedVars, first, tracker, gaps, pend, end, shutdown,
                           sink, historyVars>>
       ELSE End(end)

\* A ping, or another frame that is not text: it is answered (the pong is
\* awaited) or ignored, and nothing is forwarded.
ReadPing ==
    /\ pc = "read" /\ ~shutdown
    /\ pc' = "again"
    /\ UNCHANGED <<feedVars, first, tracker, gaps, pend, end, shutdown, sink,
                   historyVars>>

\* Round the read loop again after a frame that was not forwarded: the idle
\* timer starts anew.  (A pong that fails is a Disconnect right after.)
ReadAgain ==
    /\ pc = "again"
    /\ pc' = "read"
    /\ UNCHANGED <<feedVars, first, tracker, gaps, pend, end, shutdown, sink,
                   historyVars>>

\* A decoded data frame: classify it, then persist it, skip it, or persist it
\* behind a gap marker in every stream of the sid.
HandleData(f) ==
    LET c == f.s[2]
        verdict == ClassifySeq(tracker[c], f.kind, f.seq)
    IN  /\ pc = "read" /\ ~shutdown
        /\ tracker' = [tracker EXCEPT ![c] = verdict.last]
        /\ last' = [last EXCEPT ![c] = f]
        /\ IF verdict.verdict = "Duplicate"
           THEN pc' = "again" /\ UNCHANGED <<gaps, pend>>
           ELSE /\ pc' = "send"
                /\ pend' = f
                /\ gaps' = IF verdict.verdict = "Gap" THEN StreamsOn(c) ELSE {}
        /\ UNCHANGED <<first, end, shutdown, sink, historyVars>>

ReadFrame(f) == Publish(f) /\ HandleData(f)

\* The exchange repeats the last data frame of a sid.
ReadRepeat(c) ==
    /\ last[c].kind # "none"
    /\ HandleData(last[c])
    /\ UNCHANGED <<seq, truth, snapped>>

\* A frame that is not decoded into a data record: forwarded, not tracked.
HandleUntracked(f) ==
    /\ pc = "read" /\ ~shutdown
    /\ pc' = "send" /\ pend' = f /\ gaps' = {}
    /\ UNCHANGED <<last, first, tracker, end, shutdown, sink, historyVars>>

\* A data frame that does not decode becomes a raw fallback, routed to its
\* stream when the decoder could still name it.
ReadUndecodable(f) ==
    /\ Publish(f)
    /\ \E s \in {f.s, Unrouted} : HandleUntracked(Frame("raw", s, f.seq, 0))

\* An acknowledgement or a server error frame.
ReadControl ==
    /\ HandleUntracked(Frame("control", Unrouted, None, 0))
    /\ UNCHANGED <<seq, truth, snapped>>

\* send_gap for the next stream of the fan-out.
SendGap(s) ==
    /\ pc = "send" /\ s \in gaps
    /\ \A r \in gaps \ {s} : Before(s, r)
    /\ Forward(GapMarker(s))
    /\ gaps' = gaps \ {s}
    /\ pc' = IF gaps' = {} /\ pend.kind = "none" THEN "read" ELSE "send"
    /\ UNCHANGED <<feedVars, first, tracker, pend, end, shutdown>>

\* The frame itself, once its gap markers are out.
SendFrame ==
    /\ pc = "send" /\ gaps = {} /\ pend.kind # "none"
    /\ Forward(pend)
    /\ pend' = NoFrame
    /\ pc' = "read"
    /\ UNCHANGED <<feedVars, first, tracker, gaps, end, shutdown>>

\* Plausible bug: a failed send is dropped and the loop goes on.
SinkClosedIgnored ==
    /\ pc = "send" /\ ~sink.rx
    /\ pc' = "read" /\ gaps' = {} /\ pend' = NoFrame
    /\ UNCHANGED <<feedVars, first, tracker, end, shutdown, sink, historyVars>>

\* A send finds the receiver gone: a marker of a reconnect ends the session
\* at once, a send of the read loop leaves the loop.
SinkClosed ==
    /\ pc = "send" /\ ~sink.rx
    /\ IF pend.kind = "none" THEN End("SinkClosed") ELSE Leave("SinkClosed")

RequestShutdown ==
    /\ ~shutdown
    /\ shutdown' = TRUE
    /\ UNCHANGED <<feedVars, sessionVars, sink, historyVars>>

SessionStep ==
    \/ ConnectFails \/ BackoffOver \/ ObserveShutdown \/ Connect \/ Disconnect
    \/ Closed \/ ReadAgain
    \/ \E s \in Streams : SendGap(s)
    \/ SendFrame \/ SinkClosed

FeedStep ==
    \/ \E f \in NewFrames : ReadFrame(f) \/ ReadUndecodable(f) \/ LoseFrame(f)
    \/ \E c \in Channels : ReadRepeat(c)
    \/ ReadControl \/ ReadPing
    \/ \E s \in Streams : MarketMoves(s)

SessionNext == SessionStep \/ FeedStep \/ RequestShutdown
-----------------------------------------------------------------------------
(***************************************************************************)
(* The session on its own, with any consumer at the other end of the sink. *)
(***************************************************************************)
Consume ==
    /\ sink.rx /\ sink.q # <<>>
    /\ sink' = Pop(sink)
    /\ UNCHANGED <<feedVars, sessionVars, shutdown, historyVars>>

DropReceiver ==
    /\ sink.rx
    /\ sink' = DropRx(sink)
    /\ UNCHANGED <<feedVars, sessionVars, shutdown, historyVars>>

Next == SessionNext \/ Consume \/ DropReceiver

Spec == Init /\ [][Next]_vars

(***************************************************************************)
(* Fairness.  The session's own steps are scheduled by the runtime, and the *)
(* idle timer expires on a read loop no frame comes to: every frame makes  *)
(* the loop leave "read", so Disconnect is forced on a silent feed only.   *)
(* The one frame a pong or a close writes is written or fails.  The        *)
(* consumer, while it lives, keeps receiving.  Nothing is assumed of what  *)
(* the exchange sends, nor of whether it accepts a connection.             *)
(***************************************************************************)
Fairness ==
    /\ WF_vars(BackoffOver) /\ WF_vars(ObserveShutdown) /\ WF_vars(Disconnect)
    /\ WF_vars(Closed) /\ WF_vars(ReadAgain)
    /\ WF_vars(\E s \in Streams : SendGap(s))
    /\ WF_vars(SendFrame) /\ WF_vars(SinkClosed) /\ WF_vars(Consume)

FairSpec == Spec /\ Fairness
-----------------------------------------------------------------------------
SinkType == [q : Seq(Frames), tx : BOOLEAN, rx : BOOLEAN]

\* The type invariant of the session and of the exchange's side.
TypeOK ==
    /\ seq \in [Channels -> Nat]
    /\ truth \in [Streams -> Nat]
    /\ snapped \in SUBSET Tickers
    /\ last \in [Channels -> Frames]
    /\ \A c \in Channels : last[c].kind # "none" => last[c].s \in StreamsOn(c)
    /\ pc \in {"connecting", "read", "again", "send", "closing", "backoff", "ended"}
    /\ first \in BOOLEAN
    /\ tracker \in [Channels -> Nat \cup {None}]
    /\ gaps \in SUBSET Streams
    /\ pend \in Frames
    /\ end \in {"none", "Shutdown", "SinkClosed"}
    /\ shutdown \in BOOLEAN
    /\ sink \in SinkType
    /\ book \in [Streams -> Nat \cup {None}]
    /\ cur \in [Streams -> Nat]

\* No silent hole: a reader that applies the forwarded records of a stream in
\* order, and has seen no gap marker since its last baseline, holds exactly
\* the version the exchange gave the last record.  No loss, repeat,
\* undecodable frame or reconnect of run_session makes such a book wrong.
NoSilentHole == \A s \in Streams : book[s] # None => book[s] = cur[s]

\* A tracker that is level with its sid hides nothing: when the session waits
\* for a frame and the tracker's last_seq is the last seq the exchange used,
\* every stream of that channel that is not suspect is up to date.
LevelTrackerHidesNothing ==
    pc = "read" =>
        \A s \in Streams : tracker[s[2]] = seq[s[2]] => book[s] \in {None, truth[s]}

(***************************************************************************)
(* The inductive invariant behind NoSilentHole.  It speaks of the exchange *)
(* that snapshots every ticker first (SnapshotsLead).                      *)
(***************************************************************************)
DataKinds == {"snapshot", "delta", "trade"}
Level(c) == tracker[c] = seq[c]
Leading == snapped # Tickers
Connected == pc \in {"read", "again", "send"}
Pending(s) == pend.kind \in DataKinds /\ pend.s = s

\* A data frame f of channel c agrees with what the exchange has published.
FrameOK(f, c) ==
    /\ f.kind \in DataKinds /\ f.s \in StreamsOn(c)
    /\ f.kind = "trade" <=> c = "trade"
    /\ f.seq = tracker[c] /\ f.seq # None
    /\ cur[f.s] <= f.v /\ f.v <= truth[f.s]
    /\ Level(c) => f.v = truth[f.s]
    /\ c = "orderbook" /\ Leading => f.kind = "snapshot" /\ f.v = truth[f.s]

\* Nothing has been read before the first connection, and an idle session
\* owes the sink nothing.
ControlInv ==
    /\ first => \A s \in Streams : book[s] = None
    /\ Connected => ~first
    /\ pc \in {"read", "again"} => gaps = {} /\ pend.kind = "none"
    /\ Connected => pend.kind # "gap"

FeedInv ==
    /\ \A s \in Streams : cur[s] <= truth[s]
    /\ \A c \in Channels : tracker[c] <= seq[c]
    /\ Connected => \A c \in Channels :
          last[c].kind # "none" => FrameOK(last[c], c)
    /\ Connected /\ pend.kind \in DataKinds =>
          FrameOK(pend, pend.s[2]) /\ pend = last[pend.s[2]]

\* A stream that is not suspect and owes no marker has a tracker; it is one
\* change behind the frame about to be sent to it; otherwise, when the tracker
\* is level or the snapshots are still coming, it is up to date.
StreamInv(s) ==
    book[s] # None /\ s \notin gaps =>
        /\ tracker[s[2]] # None
        /\ IF Pending(s)
           THEN pend.kind = "snapshot" \/ pend.v = book[s] + 1
           ELSE Level(s[2]) \/ (s[2] = "orderbook" /\ Leading)
                  => book[s] = truth[s]

IInv ==
    /\ ControlInv
    /\ FeedInv
    /\ Connected => \A s \in Streams : StreamInv(s)
    /\ NoSilentHole
-----------------------------------------------------------------------------
WS == INSTANCE WholeStream WITH held <- book, real <- cur

\* The forwarded streams keep the promise of WholeStream: each step of
\* run_session and of the exchange is a step of WholeStream or leaves the
\* reader's view alone.
ImplementsWholeStream == WS!Spec

\* A session told to stop ends, whatever it was doing (run_session's select
\* arms, and the sends that do not watch the shutdown future).
ShutdownEndsSession == shutdown ~> (pc = "ended")

\* A session whose consumer is gone ends, if the feed does not live on pings
\* for ever and an outage of the exchange is over some day: the next send
\* notices, and on a silent feed the idle timer and the markers of the
\* reconnect bring that send about.  Without the two conditions it need not
\* end: pings restart the idle timer and are never forwarded.
PingsStop == <>[](pc # "again")
OutagesEnd == []<>(pc \notin {"connecting", "backoff"})
ClosedSinkEndsSession ==
    PingsStop /\ OutagesEnd => ((~sink.rx) ~> (pc = "ended"))
=============================================================================
