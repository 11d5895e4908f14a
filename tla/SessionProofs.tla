--------------------------- MODULE SessionProofs ----------------------------
(***************************************************************************)
(* Proofs about Session, for every number of tickers, sink capacity and    *)
(* bound.                                                                  *)
(***************************************************************************)
EXTENDS Session, TLAPS

USE DEF None

\* The members of the sets a frame is made of.
LEMMA FrameType ==
    ASSUME NEW kind \in FrameKinds, NEW s \in Streams \cup {Unrouted},
           NEW n \in Nat \cup {None}, NEW v \in Nat
    PROVE  Frame(kind, s, n, v) \in Frames
BY DEF Frame, Frames

\* A stream is a ticker and a channel.
LEMMA StreamParts ==
    /\ \A s \in Streams : s[1] \in Tickers /\ s[2] \in Channels
    /\ \A t \in Tickers, c \in Channels : <<t, c>> \in Streams
    /\ \A t \in Tickers : OrderbookOf(t) \in Streams
    /\ \A c \in Channels : StreamsOn(c) \subseteq Streams
    /\ \A c \in Channels : \A s \in StreamsOn(c) : s[2] = c
    /\ \A s \in Streams : s \in StreamsOn(s[2])
    /\ Unrouted \notin Streams
BY SessionAssumption DEF Streams, Tickers, Channels, StreamsOn, OrderbookOf, Unrouted

\* What the exchange may publish next, in terms of the state.
LEMMA NewFrameFacts ==
    ASSUME TypeOK, NEW f \in NewFrames
    PROVE  /\ f \in Frames
           /\ f.kind \in DataKinds
           /\ f.s \in Streams
           /\ f.seq = seq[f.s[2]] + 1
           /\ f.kind = "trade" <=> f.s[2] = "trade"
           /\ f.kind = "snapshot" => f.v = truth[f.s] /\ f.s[1] \notin snapped
           /\ f.kind # "snapshot" => f.v = truth[f.s] + 1
           /\ f.kind = "delta" /\ SnapshotsLead => snapped = Tickers
<1> USE DEF FrameKinds, DataKinds
<1>1. CASE \E t \in Tickers \ snapped : f = NewSnapshot(t)
  BY <1>1, StreamParts DEF NewSnapshot, TypeOK, Frame, Frames, OrderbookOf, Channels
<1>2. CASE \E t \in snapped : f = NewDelta(t) /\ (SnapshotsLead => snapped = Tickers)
  BY <1>2, StreamParts DEF NewDelta, TypeOK, Frame, Frames, OrderbookOf, Channels
<1>3. CASE \E t \in Tickers : f = NewTrade(t)
  <2>1. PICK t \in Tickers : f = NewTrade(t)
    BY <1>3
  <2>2. <<t, "trade">> \in Streams /\ "trade" \in Channels
    BY StreamParts DEF Channels
  <2>3. seq["trade"] + 1 \in Nat /\ truth[<<t, "trade">>] + 1 \in Nat
    BY <2>2 DEF TypeOK
  <2>4. f = [kind |-> "trade", s |-> <<t, "trade">>, seq |-> seq["trade"] + 1,
             v |-> truth[<<t, "trade">>] + 1]
    BY <2>1 DEF NewTrade, Frame
  <2> QED BY <2>2, <2>3, <2>4 DEF Frames
<1> QED BY <1>1, <1>2, <1>3 DEF NewFrames
-----------------------------------------------------------------------------
(***************************************************************************)
(* Type correctness.                                                       *)
(***************************************************************************)
\* The channel operations stay within the channel's type.
LEMMA SinkTypes ==
    ASSUME NEW ch \in SinkType, NEW f \in Frames
    PROVE  /\ Push(ch, f) \in SinkType
           /\ DropTx(ch) \in SinkType
           /\ DropRx(ch) \in SinkType
           /\ ch.q # <<>> => Pop(ch) \in SinkType
<1>1. ch.q \in Seq(Frames) /\ ch.tx \in BOOLEAN /\ ch.rx \in BOOLEAN
  BY DEF SinkType
<1>2. Append(ch.q, f) \in Seq(Frames) /\ <<>> \in Seq(Frames)
  BY <1>1
<1>3. ch.q # <<>> => Tail(ch.q) \in Seq(Frames)
  BY <1>1
<1> QED BY <1>1, <1>2, <1>3 DEF SinkType, Push, DropTx, DropRx, Pop

\* Markers and the empty frame are frames.
LEMMA MarkerTypes ==
    /\ NoFrame \in Frames
    /\ \A s \in Streams : GapMarker(s) \in Frames /\ GapMarker(s).s = s
                                               /\ GapMarker(s).kind = "gap"
    /\ NoFrame.kind = "none"
BY DEF NoFrame, GapMarker, Frame, Frames, FrameKinds

\* Sending a frame keeps the sink and the reader's view well typed.
LEMMA ForwardType ==
    ASSUME TypeOK, NEW f \in Frames, Forward(f)
    PROVE  /\ sink' \in SinkType
           /\ book' \in [Streams -> Nat \cup {None}]
           /\ cur' \in [Streams -> Nat]
<1>1. sink' \in SinkType
  BY SinkTypes DEF Forward, TypeOK
<1>2. ASSUME f.s \in Streams
      PROVE  /\ Apply(book[f.s], f) \in Nat \cup {None}
             /\ Version(cur[f.s], f) \in Nat
  BY <1>2 DEF TypeOK, Apply, Version, Frames
<1> QED BY <1>1, <1>2 DEF Forward, TypeOK, historyVars

\* Publishing a frame keeps the exchange's counters well typed.
LEMMA PublishType ==
    ASSUME TypeOK, NEW f \in NewFrames, Publish(f)
    PROVE  /\ seq' \in [Channels -> Nat]
           /\ truth' \in [Streams -> Nat]
           /\ snapped' \in SUBSET Tickers
<1>1. f \in Frames /\ f.s \in Streams /\ f.seq = seq[f.s[2]] + 1
  BY NewFrameFacts
<1>2. f.s[1] \in Tickers /\ f.s[2] \in Channels /\ f.v \in Nat
  BY <1>1, StreamParts DEF Frames
<1>3. f.seq \in Nat
  BY <1>1, <1>2 DEF TypeOK
<1> QED BY <1>2, <1>3 DEF Publish, TypeOK

\* Classifying a data frame keeps the session well typed.
LEMMA HandleDataType ==
    ASSUME TypeOK, NEW f \in Frames, f.s \in Streams, HandleData(f)
    PROVE  /\ tracker' \in [Channels -> Nat \cup {None}]
           /\ last' \in [Channels -> Frames]
           /\ \A c \in Channels : last'[c].kind # "none" => last'[c].s \in StreamsOn(c)
           /\ pc' \in {"again", "send"}
           /\ pend' \in Frames
           /\ gaps' \in SUBSET Streams
<1>1. f.s[2] \in Channels /\ f.seq \in Nat \cup {None}
  BY StreamParts DEF Frames
<1>2. ClassifySeq(tracker[f.s[2]], f.kind, f.seq).last \in Nat \cup {None}
  BY <1>1 DEF ClassifySeq, OnSnapshot, OnSequenced, TypeOK
<1>3. StreamsOn(f.s[2]) \subseteq Streams /\ f.s \in StreamsOn(f.s[2])
  BY <1>1, StreamParts
<1> QED BY <1>1, <1>2, <1>3 DEF HandleData, TypeOK

\* Every step keeps the types.
LEMMA TypeStep == TypeOK /\ [Next]_vars => TypeOK'
<1> SUFFICES ASSUME TypeOK, [Next]_vars PROVE TypeOK'
  OBVIOUS
<1> USE DEF feedVars, sessionVars, historyVars
<1>1. CASE Connect
  BY <1>1, MarkerTypes DEF Connect, TypeOK
<1>2. CASE ConnectFails \/ BackoffOver \/ Disconnect \/ ReadPing \/ ReadAgain
  BY <1>2 DEF ConnectFails, BackoffOver, Disconnect, Leave, ReadPing, ReadAgain,
              TypeOK
<1>3. CASE ObserveShutdown \/ SinkClosed \/ Closed
  <2>1. ASSUME NEW reason \in {"Shutdown", "SinkClosed"}, End(reason)
        PROVE  TypeOK'
    BY <2>1, SinkTypes, MarkerTypes DEF End, TypeOK
  <2>2. ASSUME NEW reason \in {"Shutdown", "SinkClosed"}, Leave(reason)
        PROVE  TypeOK'
    BY <2>2 DEF Leave, TypeOK
  <2>3. CASE Closed /\ end = "none"
    BY <2>3 DEF Closed, TypeOK
  <2>4. CASE Closed /\ end # "none"
    <3>1. end \in {"Shutdown", "SinkClosed"} /\ End(end)
      BY <2>4 DEF Closed, TypeOK
    <3> QED BY <2>1, <3>1
  <2> QED BY <1>3, <2>1, <2>2, <2>3, <2>4 DEF ObserveShutdown, SinkClosed
<1>4. ASSUME NEW s \in Streams, SendGap(s) PROVE TypeOK'
  <2>1. GapMarker(s) \in Frames /\ Forward(GapMarker(s))
    BY <1>4, MarkerTypes DEF SendGap
  <2> QED BY <1>4, <2>1, ForwardType DEF SendGap, TypeOK
<1>5. CASE SendFrame
  <2>1. pend \in Frames /\ Forward(pend)
    BY <1>5 DEF SendFrame, TypeOK
  <2> QED BY <1>5, <2>1, ForwardType, MarkerTypes DEF SendFrame, TypeOK
<1>6. ASSUME NEW f \in NewFrames, ReadFrame(f) PROVE TypeOK'
  <2>1. f \in Frames /\ f.s \in Streams
    BY NewFrameFacts
  <2> QED BY <1>6, <2>1, PublishType, HandleDataType
          DEF ReadFrame, HandleData, TypeOK
<1>7. ASSUME NEW f \in NewFrames, ReadUndecodable(f) PROVE TypeOK'
  <2>1. f \in Frames /\ f.s \in Streams
    BY NewFrameFacts
  <2>2. PICK s \in {f.s, Unrouted} : HandleUntracked(Frame("raw", s, f.seq, 0))
    BY <1>7 DEF ReadUndecodable
  <2>3. Frame("raw", s, f.seq, 0) \in Frames
    BY <2>1, FrameType DEF Frames, FrameKinds
  <2> QED BY <1>7, <2>2, <2>3, PublishType
          DEF ReadUndecodable, HandleUntracked, TypeOK
<1>8. ASSUME NEW f \in NewFrames, LoseFrame(f) PROVE TypeOK'
  BY <1>8, PublishType DEF LoseFrame, TypeOK
<1>9. ASSUME NEW c \in Channels, ReadRepeat(c) PROVE TypeOK'
  <2>1. last[c] \in Frames /\ last[c].s \in Streams
    BY <1>9, StreamParts DEF ReadRepeat, TypeOK
  <2> QED BY <1>9, <2>1, HandleDataType DEF ReadRepeat, HandleData, TypeOK
<1>10. CASE ReadControl
  <2>1. Frame("control", Unrouted, None, 0) \in Frames
    BY FrameType DEF FrameKinds
  <2> QED BY <1>10, <2>1 DEF ReadControl, HandleUntracked, TypeOK
<1>11. ASSUME NEW s \in Streams, MarketMoves(s) PROVE TypeOK'
  BY <1>11 DEF MarketMoves, TypeOK
<1>12. CASE RequestShutdown
  BY <1>12 DEF RequestShutdown, TypeOK
<1>13. CASE Consume
  BY <1>13, SinkTypes, MarkerTypes DEF Consume, TypeOK
<1>14. CASE DropReceiver
  BY <1>14, SinkTypes, MarkerTypes DEF DropReceiver, TypeOK
<1>15. CASE UNCHANGED vars
  BY <1>15 DEF vars, TypeOK
<1> QED
  BY <1>1, <1>2, <1>3, <1>4, <1>5, <1>6, <1>7, <1>8, <1>9, <1>10, <1>11,
     <1>12, <1>13, <1>14, <1>15
     DEF Next, SessionNext, SessionStep, FeedStep

LEMMA TypeInit == ASSUME Init PROVE TypeOK
<1>1. NewChan \in SinkType
  <2>1. <<>> \in Seq(Frames)
    OBVIOUS
  <2> QED BY <2>1 DEF NewChan, SinkType
<1>2. /\ seq \in [Channels -> Nat] /\ truth \in [Streams -> Nat]
      /\ snapped \in SUBSET Tickers /\ last \in [Channels -> Frames]
      /\ \A c \in Channels : last[c].kind = "none"
  BY MarkerTypes DEF Init, FeedInit
<1>3. /\ tracker \in [Channels -> Nat \cup {None}]
      /\ gaps \in SUBSET Streams /\ pend \in Frames
  BY MarkerTypes DEF Init, SessionInit
<1>4. /\ book \in [Streams -> Nat \cup {None}] /\ cur \in [Streams -> Nat]
  BY DEF Init
<1> QED BY <1>1, <1>2, <1>3, <1>4 DEF Init, SessionInit, TypeOK

\* The session's and the exchange's state keep their types in every behaviour
\* of run_session.
THEOREM TypeCorrect == Spec => []TypeOK
  BY TypeInit, TypeStep, PTL DEF Spec
-----------------------------------------------------------------------------
(***************************************************************************)
(* No silent hole.                                                         *)
(***************************************************************************)
\* What a verdict means, for a new frame (one above the sid's counter) and
\* for a repeated one.
LEMMA Verdicts ==
    ASSUME NEW n \in Nat, NEW k \in Nat \cup {None}, k <= n, NEW kind
    PROVE  /\ ClassifySeq(k, kind, n + 1).last = n + 1
           /\ kind = "snapshot" =>
                ClassifySeq(k, kind, n + 1).verdict = "Accept"
           /\ kind # "snapshot" =>
                ClassifySeq(k, kind, n + 1).verdict =
                    IF k \in {None, n} THEN "Accept" ELSE "Gap"
BY DEF ClassifySeq, OnSnapshot, OnSequenced

LEMMA RepeatVerdict ==
    ASSUME NEW n \in Nat, NEW kind
    PROVE  /\ ClassifySeq(n, kind, n).last = n
           /\ ClassifySeq(n, kind, n).verdict =
                IF kind = "snapshot" THEN "Accept" ELSE "Duplicate"
BY DEF ClassifySeq, OnSnapshot, OnSequenced

\* A step that leaves the connection only has to keep what holds everywhere.
LEMMA LeaveConnection ==
    ASSUME TypeOK, IInv, pc' \notin {"read", "again", "send"},
           UNCHANGED <<first, seq, truth, tracker, book, cur>>
    PROVE  IInv'
BY DEF IInv, ControlInv, FeedInv, NoSilentHole, Connected, TypeOK

\* A frame that is not forwarded takes the session round the read loop.
LEMMA ReadPingInv == ASSUME TypeOK, IInv, ReadPing \/ ReadAgain PROVE IInv'
<1>1. /\ pc \in {"read", "again"} /\ pc' \in {"read", "again"}
      /\ UNCHANGED <<seq, truth, snapped, last, first, tracker, gaps, pend, book, cur>>
  BY DEF ReadPing, ReadAgain, feedVars, historyVars
<1> QED BY <1>1 DEF IInv, ControlInv, FeedInv, NoSilentHole, Connected, StreamInv,
                    FrameOK, Level, Leading, Pending

\* A step of neither the exchange nor the session.
LEMMA OutsideStep ==
    ASSUME IInv, UNCHANGED <<feedVars, sessionVars, historyVars>>
    PROVE  IInv'
BY DEF IInv, ControlInv, FeedInv, NoSilentHole, Connected, StreamInv, FrameOK,
       Level, Leading, Pending, feedVars, sessionVars, historyVars

\* A fresh connection: nothing is trusted that is not marked first.
LEMMA ConnectInv == ASSUME TypeOK, IInv, Connect PROVE IInv'
<1>1. ControlInv'
  BY MarkerTypes DEF Connect, IInv, ControlInv, Connected, historyVars, TypeOK
<1>2. FeedInv'
  BY MarkerTypes DEF Connect, IInv, FeedInv, Connected, historyVars, TypeOK, DataKinds
<1>3. \A s \in Streams : StreamInv(s)'
  BY DEF Connect, IInv, ControlInv, StreamInv, historyVars
<1> QED BY <1>1, <1>2, <1>3 DEF IInv, NoSilentHole, Connect, historyVars

\* A lost frame leaves the tracker behind the sid's counter.
LEMMA LoseInv ==
    ASSUME SnapshotsLead, TypeOK, IInv, NEW f \in NewFrames, LoseFrame(f)
    PROVE  IInv'
<1> USE DEF LoseFrame, sessionVars, historyVars
<1>1. /\ f.s \in Streams /\ f.s[2] \in Channels /\ f.s[1] \in Tickers
      /\ f.kind \in DataKinds
      /\ f.seq = seq[f.s[2]] + 1 /\ f.v \in Nat /\ f.v >= truth[f.s]
      /\ f.kind = "delta" => snapped = Tickers
      /\ f.kind = "trade" <=> f.s[2] = "trade"
      /\ f.kind = "snapshot" => f.v = truth[f.s]
  BY NewFrameFacts, StreamParts DEF Frames, TypeOK
<1>2. /\ seq' = [seq EXCEPT ![f.s[2]] = seq[f.s[2]] + 1]
      /\ truth' = [truth EXCEPT ![f.s] = f.v]
      /\ snapped \subseteq snapped'
      /\ snapped' \subseteq Tickers
  BY <1>1 DEF Publish, TypeOK
<1>3. \A s \in Streams : truth'[s] >= truth[s] /\ truth'[s] \in Nat
  BY <1>1, <1>2 DEF TypeOK
<1>4. \A c \in Channels : /\ seq'[c] >= seq[c] /\ seq'[c] \in Nat
                          /\ Level(c)' => Level(c) /\ c # f.s[2]
  BY <1>1, <1>2 DEF IInv, FeedInv, Level, TypeOK
<1>5. Leading' => Leading
  BY <1>2 DEF Leading, TypeOK
<1>6. \A s \in Streams : truth'[s] # truth[s] => s = f.s /\ f.kind # "snapshot"
  BY <1>1, <1>2 DEF TypeOK
<1>7. \A s \in Streams : truth'[s] # truth[s] =>
          ~Level(s[2])' /\ ~(s[2] = "orderbook" /\ Leading')
  BY <1>1, <1>2, <1>4, <1>6 DEF Leading, DataKinds
<1>8. ControlInv'
  BY DEF IInv, ControlInv, Connected
<1>9. FeedInv'
  <2>1. \A c \in Channels : FrameOK(last[c], c) => FrameOK(last[c], c)'
    <3> SUFFICES ASSUME NEW c \in Channels, FrameOK(last[c], c)
                 PROVE  FrameOK(last[c], c)'
      OBVIOUS
    <3>1. last[c].s \in Streams /\ last[c].s[2] = c /\ last[c].v \in Nat
      BY StreamParts DEF FrameOK, TypeOK, Frames
    <3> QED BY <3>1, <1>3, <1>4, <1>5, <1>7 DEF FrameOK, TypeOK
  <2>2. pc = "read" /\ pend.kind = "none"
    BY DEF IInv, ControlInv
  <2>3. \A s \in Streams : cur'[s] <= truth'[s]
    BY <1>3 DEF IInv, FeedInv, TypeOK
  <2>4. \A c \in Channels : tracker'[c] <= seq'[c]
    BY <1>4 DEF IInv, FeedInv, TypeOK
  <2> QED BY <2>1, <2>2, <2>3, <2>4 DEF IInv, FeedInv, Connected, DataKinds
<1>10. \A s \in Streams : StreamInv(s)'
  <2> SUFFICES ASSUME NEW s \in Streams PROVE StreamInv(s)'
    OBVIOUS
  <2>1. s[2] \in Channels /\ StreamInv(s) /\ pend.kind = "none"
    BY StreamParts DEF IInv, ControlInv, Connected
  <2> QED BY <2>1, <1>4, <1>5, <1>7 DEF StreamInv, Pending, DataKinds
<1> QED BY <1>8, <1>9, <1>10 DEF IInv, NoSilentHole

\* An undecodable frame is a lost frame to the tracker; the raw record does
\* not touch a reader's book.
LEMMA UndecodableInv ==
    ASSUME SnapshotsLead, TypeOK, IInv, NEW f \in NewFrames, ReadUndecodable(f)
    PROVE  IInv'
<1> USE DEF ReadUndecodable, historyVars
<1>1. PICK r \in {f.s, Unrouted} : HandleUntracked(Frame("raw", r, f.seq, 0))
  OBVIOUS
<1>2. /\ pc = "read" /\ pc' = "send" /\ gaps' = {} /\ pend'.kind = "raw"
      /\ UNCHANGED <<last, first, tracker, book, cur>>
  BY <1>1 DEF HandleUntracked, Frame
<1>3. /\ f.s \in Streams /\ f.s[2] \in Channels /\ f.s[1] \in Tickers
      /\ f.kind \in DataKinds
      /\ f.seq = seq[f.s[2]] + 1 /\ f.v \in Nat /\ f.v >= truth[f.s]
      /\ f.kind = "delta" => snapped = Tickers
      /\ f.kind = "trade" <=> f.s[2] = "trade"
      /\ f.kind = "snapshot" => f.v = truth[f.s]
  BY NewFrameFacts, StreamParts DEF Frames, TypeOK
<1>4. /\ seq' = [seq EXCEPT ![f.s[2]] = seq[f.s[2]] + 1]
      /\ truth' = [truth EXCEPT ![f.s] = f.v]
      /\ snapped \subseteq snapped'
      /\ snapped' \subseteq Tickers
  BY <1>3 DEF Publish, TypeOK
<1>5. \A s \in Streams : truth'[s] >= truth[s] /\ truth'[s] \in Nat
  BY <1>3, <1>4 DEF TypeOK
<1>6. \A c \in Channels : /\ seq'[c] >= seq[c] /\ seq'[c] \in Nat
                          /\ Level(c)' => Level(c) /\ c # f.s[2]
  BY <1>2, <1>3, <1>4 DEF IInv, FeedInv, Level, TypeOK
<1>7. Leading' => Leading
  BY <1>4 DEF Leading, TypeOK
<1>8. \A s \in Streams : truth'[s] # truth[s] =>
          ~Level(s[2])' /\ ~(s[2] = "orderbook" /\ Leading')
  BY <1>3, <1>4, <1>6 DEF Leading, DataKinds, TypeOK
<1>9. ControlInv'
  BY <1>2 DEF IInv, ControlInv, Connected
<1>10. FeedInv'
  <2>1. \A c \in Channels : FrameOK(last[c], c) => FrameOK(last[c], c)'
    <3> SUFFICES ASSUME NEW c \in Channels, FrameOK(last[c], c)
                 PROVE  FrameOK(last[c], c)'
      OBVIOUS
    <3>1. last[c].s \in Streams /\ last[c].s[2] = c /\ last[c].v \in Nat
      BY StreamParts DEF FrameOK, TypeOK, Frames
    <3> QED BY <1>2, <3>1, <1>5, <1>6, <1>7, <1>8 DEF FrameOK, TypeOK
  <2>2. \A s \in Streams : cur'[s] <= truth'[s]
    BY <1>2, <1>5 DEF IInv, FeedInv, TypeOK
  <2>3. \A c \in Channels : tracker'[c] <= seq'[c]
    BY <1>2, <1>6 DEF IInv, FeedInv, TypeOK
  <2> QED BY <1>2, <2>1, <2>2, <2>3 DEF IInv, FeedInv, Connected, DataKinds
<1>11. \A s \in Streams : StreamInv(s)'
  <2> SUFFICES ASSUME NEW s \in Streams PROVE StreamInv(s)'
    OBVIOUS
  <2>1. s[2] \in Channels /\ StreamInv(s) /\ pend.kind = "none" /\ gaps = {}
    BY <1>2, StreamParts DEF IInv, ControlInv, Connected
  <2> QED BY <2>1, <1>2, <1>6, <1>7, <1>8 DEF StreamInv, Pending, DataKinds
<1> QED BY <1>2, <1>9, <1>10, <1>11 DEF IInv, NoSilentHole

\* A new frame that arrives: the tracker becomes level, and either every
\* trusted stream of the sid was up to date or every one is to be marked.
LEMMA ReadFrameInv ==
    ASSUME SnapshotsLead, TypeOK, IInv, NEW f \in NewFrames, ReadFrame(f)
    PROVE  IInv'
<1> DEFINE c0 == f.s[2]
           verdict == ClassifySeq(tracker[c0], f.kind, f.seq)
<1>1. /\ f \in Frames
      /\ f.s \in Streams /\ c0 \in Channels /\ f.s[1] \in Tickers
      /\ f.s \in StreamsOn(c0)
      /\ f.kind \in DataKinds
      /\ f.seq = seq[c0] + 1 /\ f.seq \in Nat /\ f.v \in Nat /\ f.v >= truth[f.s]
      /\ f.kind = "delta" => snapped = Tickers
      /\ f.kind = "trade" <=> c0 = "trade"
      /\ f.kind = "snapshot" => f.v = truth[f.s] /\ f.s[1] \notin snapped
      /\ f.kind # "snapshot" => f.v = truth[f.s] + 1
  BY NewFrameFacts, StreamParts DEF Frames, TypeOK
<1>2. /\ seq' = [seq EXCEPT ![c0] = seq[c0] + 1]
      /\ truth' = [truth EXCEPT ![f.s] = f.v]
      /\ snapped \subseteq snapped'
      /\ snapped' \subseteq Tickers
  BY <1>1 DEF ReadFrame, Publish, TypeOK
<1>3. /\ verdict.last = seq[c0] + 1
      /\ f.kind = "snapshot" => verdict.verdict = "Accept"
      /\ f.kind # "snapshot" => verdict.verdict =
            IF tracker[c0] \in {None, seq[c0]} THEN "Accept" ELSE "Gap"
  <2>1. /\ seq[c0] \in Nat /\ tracker[c0] \in Nat \cup {None}
        /\ tracker[c0] <= seq[c0]
    BY <1>1 DEF IInv, FeedInv, TypeOK
  <2> QED BY <1>1, <2>1, Verdicts
<1>4. /\ pc = "read" /\ pc' = "send" /\ pend' = f
      /\ tracker' = [tracker EXCEPT ![c0] = seq[c0] + 1]
      /\ last' = [last EXCEPT ![c0] = f]
      /\ gaps' = IF verdict.verdict = "Gap" THEN StreamsOn(c0) ELSE {}
      /\ UNCHANGED <<first, book, cur>>
  BY <1>3 DEF ReadFrame, HandleData, historyVars
<1>5. pend.kind = "none" /\ gaps = {} /\ ~first
  BY <1>4 DEF IInv, ControlInv, Connected
<1>6. \A s \in Streams : truth'[s] >= truth[s] /\ truth'[s] \in Nat
  BY <1>1, <1>2 DEF TypeOK
<1>7. Leading' => Leading
  BY <1>2 DEF Leading, TypeOK
<1>8. f.kind = "snapshot" => Leading
  BY <1>1 DEF Leading
<1>9. \A c \in Channels : c # c0 => (Level(c)' <=> Level(c)) /\ last'[c] = last[c]
                                   /\ tracker'[c] = tracker[c] /\ seq'[c] = seq[c]
  BY <1>1, <1>2, <1>4 DEF Level, TypeOK
<1>10. \A s \in Streams : s # f.s => truth'[s] = truth[s]
  BY <1>1, <1>2 DEF TypeOK
<1>11. ControlInv'
  BY <1>1, <1>4, <1>5 DEF IInv, ControlInv, Connected, DataKinds
<1>12. FeedInv'
  <2>1. FrameOK(f, c0)'
    <3>1. /\ tracker'[c0] = f.seq /\ truth'[f.s] = f.v /\ cur'[f.s] <= f.v
      BY <1>1, <1>2, <1>4 DEF IInv, FeedInv, TypeOK
    <3>2. c0 = "orderbook" /\ Leading' => f.kind = "snapshot"
      BY <1>1, <1>7 DEF Leading, DataKinds
    <3> QED BY <1>1, <3>1, <3>2 DEF FrameOK
  <2>2. ASSUME NEW c \in Channels, c # c0, last[c].kind # "none"
        PROVE  FrameOK(last[c], c)'
    <3>1. FrameOK(last[c], c) /\ last'[c] = last[c]
      BY <2>2, <1>4, <1>9 DEF IInv, FeedInv, Connected
    <3>2. last[c].s \in Streams /\ last[c].s[2] = c /\ last[c].v \in Nat
      BY <3>1, StreamParts DEF FrameOK, TypeOK, Frames
    <3>3. truth'[last[c].s] = truth[last[c].s]
      BY <2>2, <3>2, <1>10
    <3> QED BY <2>2, <1>4, <1>7, <1>9, <3>1, <3>2, <3>3 DEF FrameOK, TypeOK
  <2>3. \A c \in Channels : last'[c].kind # "none" => FrameOK(last[c], c)'
    BY <1>1, <1>4, <1>9, <2>1, <2>2 DEF TypeOK
  <2>4. \A s \in Streams : cur'[s] <= truth'[s]
    BY <1>4, <1>6 DEF IInv, FeedInv, TypeOK
  <2>5. \A c \in Channels : tracker'[c] <= seq'[c]
    BY <1>1, <1>2, <1>4 DEF IInv, FeedInv, TypeOK
  <2>6. last'[c0] = f
    BY <1>1, <1>4 DEF TypeOK
  <2> QED BY <1>4, <2>1, <2>3, <2>4, <2>5, <2>6 DEF FeedInv
<1>13. \A s \in Streams : StreamInv(s)'
  <2> SUFFICES ASSUME NEW s \in Streams, book[s] # None, s \notin gaps'
               PROVE  StreamInv(s)'
    BY <1>4 DEF StreamInv
  <2>1. /\ s[2] \in Channels /\ s \in StreamsOn(s[2])
        /\ tracker[s[2]] # None
        /\ Level(s[2]) \/ (s[2] = "orderbook" /\ Leading) => book[s] = truth[s]
    BY <1>4, <1>5, StreamParts DEF IInv, StreamInv, Connected, Pending, DataKinds
  <2>2. CASE s[2] # c0
    <3>1. s # f.s
      BY <2>2
    <3> QED BY <2>1, <2>2, <3>1, <1>4, <1>7, <1>9, <1>10 DEF StreamInv, Pending
  <2>3. CASE s[2] = c0
    <3>1. book[s] = truth[s]
      <4>1. CASE f.kind = "snapshot"
        BY <4>1, <1>1, <1>8, <2>1, <2>3 DEF Channels
      <4>2. CASE f.kind # "snapshot"
        BY <4>2, <1>3, <1>4, <2>1, <2>3 DEF Level
      <4> QED BY <4>1, <4>2
    <3>2. tracker'[c0] # None
      BY <1>1, <1>4 DEF TypeOK
    <3>3. CASE s = f.s
      BY <3>1, <3>2, <3>3, <2>3, <1>1, <1>4 DEF StreamInv, Pending
    <3>4. CASE s # f.s
      BY <3>1, <3>2, <3>4, <2>3, <1>4, <1>10 DEF StreamInv, Pending
    <3> QED BY <3>3, <3>4
  <2> QED BY <2>2, <2>3
<1> QED BY <1>4, <1>11, <1>12, <1>13 DEF IInv, NoSilentHole

\* A repeated frame: a delta or trade is skipped, a snapshot is applied again
\* on the book it made.
LEMMA ReadRepeatInv ==
    ASSUME TypeOK, IInv, NEW c \in Channels, ReadRepeat(c)
    PROVE  IInv'
<1> DEFINE f == last[c]
<1>1. /\ pc = "read" /\ HandleData(f) /\ f.kind # "none" /\ FrameOK(f, c)
      /\ UNCHANGED <<seq, truth, snapped>>
  BY DEF ReadRepeat, HandleData, IInv, FeedInv, Connected
<1>2. f \in Frames /\ f.s \in Streams /\ f.s[2] = c /\ f.seq \in Nat
      /\ f.s \in StreamsOn(c)
  BY <1>1, StreamParts DEF FrameOK, TypeOK, Frames
<1>3. /\ ClassifySeq(tracker[c], f.kind, f.seq).last = f.seq
      /\ ClassifySeq(tracker[c], f.kind, f.seq).verdict =
            IF f.kind = "snapshot" THEN "Accept" ELSE "Duplicate"
  BY <1>1, <1>2, RepeatVerdict DEF FrameOK
<1>4. tracker' = tracker /\ last' = last
  BY <1>1, <1>2, <1>3 DEF HandleData, FrameOK, TypeOK
<1>5. pend.kind = "none" /\ gaps = {} /\ ~first
  BY <1>1 DEF IInv, ControlInv, Connected
<1>6. UNCHANGED <<first, book, cur>>
  BY <1>1 DEF HandleData, historyVars
<1>7. CASE f.kind # "snapshot"
  BY <1>1, <1>2, <1>3, <1>4, <1>6, <1>7
     DEF HandleData, IInv, ControlInv, FeedInv, NoSilentHole, Connected,
         StreamInv, FrameOK, Level, Leading, Pending
<1>8. CASE f.kind = "snapshot"
  <2>1. pc' = "send" /\ pend' = f /\ gaps' = {}
    BY <1>1, <1>2, <1>3, <1>8 DEF HandleData
  <2>2. ControlInv'
    BY <1>5, <1>6, <1>8, <2>1 DEF ControlInv, Connected
  <2>3. FeedInv'
    BY <1>1, <1>2, <1>4, <1>6, <2>1
       DEF IInv, FeedInv, Connected, FrameOK, Level, Leading
  <2>4. \A s \in Streams : StreamInv(s)'
    BY <1>1, <1>4, <1>5, <1>6, <1>8, <2>1
       DEF IInv, Connected, StreamInv, Level, Leading, Pending, DataKinds
  <2> QED BY <1>6, <2>1, <2>2, <2>3, <2>4 DEF IInv, NoSilentHole
<1> QED BY <1>7, <1>8

\* A control frame concerns no stream.
LEMMA ReadControlInv == ASSUME TypeOK, IInv, ReadControl PROVE IInv'
<1>1. /\ pc = "read" /\ pc' = "send" /\ pend'.kind = "control" /\ gaps' = {}
      /\ UNCHANGED <<seq, truth, snapped, last, first, tracker, book, cur>>
  BY DEF ReadControl, HandleUntracked, Frame, historyVars
<1>2. pend.kind = "none" /\ gaps = {} /\ ~first
  BY <1>1 DEF IInv, ControlInv, Connected
<1> QED BY <1>1, <1>2
        DEF IInv, ControlInv, FeedInv, NoSilentHole, Connected,
            StreamInv, FrameOK, Level, Leading, Pending, DataKinds

\* A marker makes its stream suspect.
LEMMA SendGapInv ==
    ASSUME TypeOK, IInv, NEW s \in Streams, SendGap(s)
    PROVE  IInv'
<1>1. /\ pc = "send" /\ pc' \in {"read", "send"}
      /\ gaps' = gaps \ {s}
      /\ pc' = "read" => gaps' = {} /\ pend.kind = "none"
      /\ UNCHANGED <<seq, truth, snapped, last, first, tracker, pend>>
  BY DEF SendGap, feedVars
<1>2. /\ book' = [book EXCEPT ![s] = None]
      /\ cur' = cur
  <2>1. GapMarker(s).s = s /\ GapMarker(s).kind = "gap"
    BY MarkerTypes
  <2> QED BY <2>1 DEF SendGap, Forward, Apply, Version, TypeOK
<1>3. ControlInv'
  BY <1>1, <1>2 DEF IInv, ControlInv, Connected, TypeOK
<1>4. FeedInv'
  BY <1>1, <1>2 DEF IInv, FeedInv, Connected, FrameOK, Level, Leading
<1>5. \A r \in Streams : StreamInv(r)'
  <2> SUFFICES ASSUME NEW r \in Streams, r # s PROVE StreamInv(r)'
    BY <1>2 DEF StreamInv, TypeOK
  <2>1. StreamInv(r) /\ book'[r] = book[r] /\ (r \in gaps' <=> r \in gaps)
    BY <1>1, <1>2 DEF IInv, Connected, TypeOK
  <2> QED BY <1>1, <2>1 DEF StreamInv, Pending, Level, Leading
<1> QED BY <1>1, <1>2, <1>3, <1>4, <1>5 DEF IInv, NoSilentHole, TypeOK

\* The pending frame reaches its stream: a reader ends at its version.
LEMMA SendFrameView ==
    ASSUME TypeOK, IInv, SendFrame, pend.kind \in DataKinds
    PROVE  /\ pend.s \in Streams /\ pend.v \in Nat
           /\ cur' = [cur EXCEPT ![pend.s] = pend.v]
           /\ book' = [book EXCEPT ![pend.s] = Apply(@, pend)]
           /\ Apply(book[pend.s], pend) \in {None, pend.v}
           /\ book[pend.s] # None => pend.kind = "snapshot"
                                     \/ pend.v = book[pend.s] + 1
<1>1. FrameOK(pend, pend.s[2]) /\ pend \in Frames
  BY DEF SendFrame, IInv, FeedInv, Connected, TypeOK
<1>2. pend.s \in Streams /\ pend.v \in Nat
  <2>1. pend.s \in Streams
    BY <1>1 DEF FrameOK, StreamsOn, Frames, Streams, Tickers, Channels, Unrouted
  <2> QED BY <1>1, <2>1 DEF Frames
<1>3. cur' = [cur EXCEPT ![pend.s] = pend.v]
  BY <1>2 DEF SendFrame, Forward, Version, DataKinds, TypeOK
<1>4. book' = [book EXCEPT ![pend.s] = Apply(@, pend)]
  BY <1>2 DEF SendFrame, Forward
<1>5. book[pend.s] # None => pend.kind = "snapshot" \/ pend.v = book[pend.s] + 1
  BY <1>2 DEF SendFrame, IInv, Connected, StreamInv, Pending
<1>6. Apply(book[pend.s], pend) \in {None, pend.v}
  BY <1>2, <1>5 DEF Apply, DataKinds, TypeOK
<1> QED BY <1>2, <1>3, <1>4, <1>5, <1>6

LEMMA SendFrameInv == ASSUME TypeOK, IInv, SendFrame PROVE IInv'
<1>1. /\ pc = "send" /\ pc' = "read" /\ gaps = {} /\ gaps' = {}
      /\ pend'.kind = "none"
      /\ UNCHANGED <<seq, truth, snapped, last, first, tracker>>
  BY MarkerTypes DEF SendFrame, feedVars
<1>2. CASE pend.kind \in DataKinds
  <2> DEFINE s0 == pend.s
  <2>1. /\ s0 \in Streams /\ pend.v \in Nat
        /\ \A s \in Streams : s # s0 => book'[s] = book[s] /\ cur'[s] = cur[s]
        /\ cur'[s0] = pend.v /\ book'[s0] \in {None, pend.v}
    BY <1>2, SendFrameView DEF TypeOK
  <2>2. FrameOK(pend, s0[2]) /\ pend = last[s0[2]] /\ s0[2] \in Channels
    BY <1>1, <1>2, <2>1, StreamParts DEF IInv, FeedInv, Connected
  <2>3. ControlInv'
    BY <1>1 DEF IInv, ControlInv, Connected
  <2>4. FeedInv'
    <3>1. \A s \in Streams : cur'[s] <= truth'[s]
      BY <1>1, <2>1, <2>2 DEF IInv, FeedInv, FrameOK
    <3>2. ASSUME NEW c \in Channels, last[c].kind # "none"
          PROVE  FrameOK(last[c], c)'
      <4>1. FrameOK(last[c], c)
        BY <1>1, <3>2 DEF IInv, FeedInv, Connected
      <4>2. last[c].s \in Streams /\ last[c].s[2] = c /\ last[c].v \in Nat
        BY <4>1, StreamParts DEF FrameOK, TypeOK, Frames
      <4>3. cur'[last[c].s] <= last[c].v
        BY <2>1, <2>2, <4>1, <4>2 DEF FrameOK
      <4> QED BY <1>1, <4>1, <4>3 DEF FrameOK, Level, Leading
    <3> QED BY <1>1, <3>1, <3>2 DEF IInv, FeedInv, DataKinds
  <2>5. \A s \in Streams : StreamInv(s)'
    <3> SUFFICES ASSUME NEW s \in Streams, book'[s] # None
                 PROVE  /\ tracker[s[2]] # None
                        /\ Level(s[2]) \/ (s[2] = "orderbook" /\ Leading)
                              => book'[s] = truth[s]
      BY <1>1 DEF StreamInv, Pending, DataKinds, Level, Leading
    <3>1. CASE s = s0
      BY <3>1, <2>1, <2>2 DEF FrameOK
    <3>2. CASE s # s0
      BY <3>2, <1>1, <2>1 DEF IInv, Connected, StreamInv, Pending
    <3> QED BY <3>1, <3>2
  <2>6. NoSilentHole'
    BY <2>1 DEF IInv, NoSilentHole
  <2> QED BY <1>1, <2>3, <2>4, <2>5, <2>6 DEF IInv
<1>3. CASE pend.kind \notin DataKinds /\ pend.kind # "gap"
  <2>1. UNCHANGED <<book, cur>>
    BY <1>3 DEF SendFrame, Forward, Apply, Version, DataKinds, TypeOK, historyVars
  <2> QED BY <1>1, <1>3, <2>1
          DEF IInv, ControlInv, FeedInv, NoSilentHole, Connected,
              StreamInv, FrameOK, Level, Leading, Pending, DataKinds
<1>4. pend.kind # "gap"
  BY <1>1 DEF IInv, ControlInv, Connected
<1> QED BY <1>2, <1>3, <1>4

\* The market moves only while no frame is trusted to describe it.
LEMMA MarketMovesInv ==
    ASSUME TypeOK, IInv, NEW s \in Streams, MarketMoves(s)
    PROVE  IInv'
<1>1. /\ truth' = [truth EXCEPT ![s] = @ + 1] /\ ~Connected /\ ~Connected'
      /\ UNCHANGED <<first, pc, seq, tracker, book, cur>>
  BY DEF MarketMoves, Connected, sessionVars, historyVars
<1>2. \A r \in Streams : cur'[r] <= truth'[r]
  BY <1>1 DEF IInv, FeedInv, TypeOK
<1>3. FeedInv'
  BY <1>1, <1>2 DEF IInv, FeedInv
<1>4. ControlInv'
  BY <1>1 DEF IInv, ControlInv, Connected
<1> QED BY <1>1, <1>3, <1>4 DEF IInv, NoSilentHole

\* Every step keeps the inductive invariant.
LEMMA IInvStep ==
    ASSUME SnapshotsLead
    PROVE  TypeOK /\ IInv /\ [Next]_vars => IInv'
<1> SUFFICES ASSUME TypeOK, IInv, [Next]_vars PROVE IInv'
  OBVIOUS
<1>1. CASE ConnectFails \/ BackoffOver \/ Disconnect
  BY <1>1, LeaveConnection
     DEF ConnectFails, BackoffOver, Disconnect, Leave, feedVars, historyVars
<1>2. CASE ObserveShutdown \/ SinkClosed \/ Closed
  BY <1>2, LeaveConnection
     DEF ObserveShutdown, SinkClosed, Closed, End, Leave, feedVars, historyVars
<1>3. CASE RequestShutdown \/ Consume \/ DropReceiver \/ UNCHANGED vars
  BY <1>3, OutsideStep DEF RequestShutdown, Consume, DropReceiver, vars
<1> QED
  BY <1>1, <1>2, <1>3, ConnectInv, SendGapInv, SendFrameInv, ReadFrameInv,
     UndecodableInv, LoseInv, ReadRepeatInv, ReadControlInv, ReadPingInv,
     MarketMovesInv
     DEF Next, SessionNext, SessionStep, FeedStep

LEMMA IInvInit == Init => IInv
  BY MarkerTypes
     DEF Init, FeedInit, SessionInit, IInv, ControlInv, FeedInv, NoSilentHole,
         Connected

\* The invariant holds in every behaviour of a session whose exchange sends
\* the snapshots of a subscription before its deltas.
THEOREM IInvCorrect == SnapshotsLead => (Spec => []IInv)
<1> SUFFICES ASSUME SnapshotsLead PROVE Spec => []IInv
  OBVIOUS
<1>1. TypeOK /\ IInv /\ [Next]_vars => IInv'
  BY IInvStep
<1> QED BY <1>1, IInvInit, TypeCorrect, PTL DEF Spec

\* No silent hole, for every number of tickers: what run_session forwards
\* never leaves a reader with a wrong book it has no marker for.
THEOREM HolesAreMarked == SnapshotsLead => (Spec => []NoSilentHole)
<1> SUFFICES ASSUME SnapshotsLead PROVE Spec => []NoSilentHole
  OBVIOUS
<1>1. IInv => NoSilentHole
  BY DEF IInv
<1>2. Spec => []IInv
  BY IInvCorrect
<1> QED BY <1>1, <1>2, PTL

\* A tracker level with its sid hides nothing: the streams of its channel are
\* suspect or up to date whenever the session waits for a frame.
THEOREM LevelTrackers == SnapshotsLead => (Spec => []LevelTrackerHidesNothing)
<1> SUFFICES ASSUME SnapshotsLead PROVE Spec => []LevelTrackerHidesNothing
  OBVIOUS
<1>1. IInv => LevelTrackerHidesNothing
  BY DEF IInv, ControlInv, Connected, StreamInv, Pending, DataKinds, Level,
         LevelTrackerHidesNothing
<1>2. Spec => []IInv
  BY IInvCorrect
<1> QED BY <1>1, <1>2, PTL
-----------------------------------------------------------------------------
(***************************************************************************)
(* Refinement of WholeStream.                                              *)
(***************************************************************************)
\* Only the two sends move a reader's view, each by a step of WholeStream.
LEMMA WholeStreamStep ==
    ASSUME TypeOK, IInv, [Next]_vars
    PROVE  WS!Next \/ UNCHANGED <<book, cur>>
<1>1. ASSUME NEW s \in Streams, SendGap(s) PROVE WS!Next
  <2>1. GapMarker(s).s = s /\ GapMarker(s).kind = "gap"
    BY MarkerTypes
  <2>2. /\ book' = [book EXCEPT ![s] = None]
        /\ cur' = cur
    BY <1>1, <2>1 DEF SendGap, Forward, Apply, Version, TypeOK
  <2>3. WS!Suspect(s)
    BY <2>2 DEF WS!Suspect, WS!Moves, TypeOK
  <2> QED BY <2>3 DEF WS!Next
<1>2. ASSUME SendFrame, pend.kind \in DataKinds PROVE WS!Next
  <2> DEFINE s == pend.s
  <2>1. /\ s \in Streams /\ pend.v \in Nat
        /\ cur' = [cur EXCEPT ![s] = pend.v]
        /\ book' = [book EXCEPT ![s] = Apply(@, pend)]
        /\ Apply(book[s], pend) \in {None, pend.v}
        /\ book[s] # None => pend.kind = "snapshot" \/ pend.v = book[s] + 1
    BY <1>2, SendFrameView
  <2>2. cur[s] <= pend.v /\ cur[s] \in Nat
    BY <1>2, <2>1 DEF SendFrame, IInv, FeedInv, Connected, FrameOK, TypeOK
  <2>3. book'[s] = Apply(book[s], pend) /\ cur'[s] = pend.v
    BY <2>1 DEF TypeOK
  <2>4. WS!Moves(s)
    BY <2>1, <2>2, <2>3 DEF WS!Moves, TypeOK
  <2>5. CASE Apply(book[s], pend) = pend.v
    BY <2>1, <2>3, <2>4, <2>5 DEF WS!Next, WS!Rebase
  <2>6. CASE Apply(book[s], pend) = None
    <3>1. book[s] \in Nat \cup {None}
      BY <2>1 DEF TypeOK
    <3>2. book[s] = None
      BY <1>2, <2>1, <2>6, <3>1 DEF Apply, DataKinds, None
    <3>3. WS!Drift(s)
      BY <2>3, <2>4, <2>6, <3>2 DEF WS!Drift
    <3> QED BY <2>1, <3>3 DEF WS!Next
  <2> QED BY <2>1, <2>5, <2>6
<1>3. ASSUME SendFrame, pend.kind \notin DataKinds PROVE UNCHANGED <<book, cur>>
  <2>1. pend.kind # "gap"
    BY <1>3 DEF SendFrame, IInv, ControlInv, Connected
  <2>2. CASE pend.s \in Streams
    <3>1. Apply(book[pend.s], pend) = book[pend.s]
      BY <1>3, <2>1 DEF Apply, DataKinds
    <3>2. Version(cur[pend.s], pend) = cur[pend.s]
      BY <1>3 DEF Version, DataKinds
    <3>3. /\ book' = [book EXCEPT ![pend.s] = book[pend.s]]
          /\ cur' = [cur EXCEPT ![pend.s] = cur[pend.s]]
      BY <1>3, <2>2, <3>1, <3>2 DEF SendFrame, Forward
    <3> QED BY <2>2, <3>3 DEF TypeOK
  <2>3. CASE pend.s \notin Streams
    BY <1>3, <2>3 DEF SendFrame, Forward, historyVars
  <2> QED BY <2>2, <2>3
<1>4. CASE \/ Connect \/ ConnectFails \/ BackoffOver \/ Disconnect
           \/ ObserveShutdown \/ SinkClosed \/ Closed \/ ReadAgain
  BY <1>4 DEF Connect, ConnectFails, BackoffOver, Disconnect, ObserveShutdown,
              SinkClosed, Closed, ReadAgain, End, Leave, historyVars
<1>5. CASE FeedStep
  BY <1>5 DEF FeedStep, ReadFrame, ReadUndecodable, LoseFrame, ReadRepeat,
              ReadControl, ReadPing, MarketMoves, HandleData, HandleUntracked, historyVars
<1>6. CASE RequestShutdown \/ Consume \/ DropReceiver \/ UNCHANGED vars
  BY <1>6 DEF RequestShutdown, Consume, DropReceiver, vars, historyVars
<1> QED BY <1>1, <1>2, <1>3, <1>4, <1>5, <1>6 DEF Next, SessionNext, SessionStep

\* run_session implements WholeStream: every stream it forwards moves by whole
\* changes unless it is marked suspect, and its versions never go back.
THEOREM SessionImplementsWholeStream == SnapshotsLead => (Spec => ImplementsWholeStream)
<1> SUFFICES ASSUME SnapshotsLead PROVE Spec => WS!Spec
  BY DEF ImplementsWholeStream
<1>1. Init => WS!Init
  BY DEF Init, WS!Init
<1>2. TypeOK /\ IInv /\ [Next]_vars => [WS!Next]_<<book, cur>>
  BY WholeStreamStep
<1>3. Spec => []IInv
  BY IInvCorrect
<1> QED BY <1>1, <1>2, <1>3, TypeCorrect, PTL DEF Spec, WS!Spec
=============================================================================
