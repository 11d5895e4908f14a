--------------------------- MODULE CaptureProofs ---------------------------
(***************************************************************************)
(* Proofs about Capture, for every number of tickers, every capacity, every*)
(* bound and every set of faults.                                          *)
(***************************************************************************)
EXTENDS Capture, SessionProofs, StoreProofs

(***************************************************************************)
(* A reader and a sequence of records: the recursive function in After is  *)
(* there, and After obeys its recursion.                                   *)
(***************************************************************************)
Trace(at, s, r, q, n) ==
    at = [k \in 0 .. n |-> IF k = 0 THEN r ELSE Reads(s, at[k - 1], q[k])]

LEMMA AfterIsTrace ==
    ASSUME NEW s, NEW r, NEW q, NEW n \in Nat
    PROVE  \E at : Trace(at, s, r, q, n) /\ After(s, r, q, n) = at[n]
<1> DEFINE T == {m \in Nat : \E at : Trace(at, s, r, q, m)}
<1>1. 0 \in T
  <2> DEFINE at == [k \in 0 .. 0 |-> r]
  <2>1. Trace(at, s, r, q, 0)
    BY DEF Trace
  <2> QED BY <2>1
<1>2. ASSUME NEW m \in T PROVE m + 1 \in T
  <2>1. PICK at : Trace(at, s, r, q, m)
    OBVIOUS
  <2> DEFINE bt == [k \in 0 .. m + 1 |-> IF k <= m THEN at[k] ELSE Reads(s, at[m], q[m + 1])]
  <2>2. Trace(bt, s, r, q, m + 1)
    <3>1. m \in Nat /\ \A k \in 0 .. m : at[k] = IF k = 0 THEN r ELSE Reads(s, at[k - 1], q[k])
      BY <2>1 DEF Trace
    <3>2. ASSUME NEW k \in 0 .. m + 1
          PROVE  bt[k] = IF k = 0 THEN r ELSE Reads(s, bt[k - 1], q[k])
      <4>1. CASE k = 0
        BY <3>1, <4>1
      <4>2. CASE k # 0 /\ k <= m
        <5>1. k - 1 \in 0 .. m /\ k \in 0 .. m
          BY <3>1, <4>2
        <5>2. bt[k] = at[k] /\ bt[k - 1] = at[k - 1]
          BY <3>1, <5>1
        <5> QED BY <3>1, <4>2, <5>1, <5>2
      <4>3. CASE k = m + 1
        <5>1. bt[k] = Reads(s, at[m], q[m + 1]) /\ bt[m] = at[m] /\ k - 1 = m
          BY <3>1, <4>3
        <5> QED BY <3>1, <4>3, <5>1
      <4> QED BY <3>1, <4>1, <4>2, <4>3
    <3> HIDE DEF bt
    <3>3. bt = [k \in 0 .. m + 1 |-> bt[k]]
      BY DEF bt
    <3> QED BY <3>2, <3>3 DEF Trace
  <2> HIDE DEF bt
  <2> QED BY <2>2
<1>3. n \in T
  <2> HIDE DEF T
  <2>1. T \in SUBSET Nat
    BY DEF T
  <2> QED BY <1>1, <1>2, <2>1, Induction
<1>4. PICK bt : Trace(bt, s, r, q, n)
  BY <1>3
<1> DEFINE at == CHOOSE f : Trace(f, s, r, q, n)
<1>5. Trace(at, s, r, q, n)
  BY <1>4
<1>6. After(s, r, q, n) = at[n]
  BY DEF After, Trace
<1> QED BY <1>5, <1>6

\* Two traces agree as far as the records they are given do.
LEMMA TracesAgree ==
    ASSUME NEW s, NEW r, NEW p, NEW q, NEW m \in Nat, NEW n \in Nat,
           NEW at, Trace(at, s, r, p, m), NEW bt, Trace(bt, s, r, q, n),
           NEW k \in Nat, k <= m, k <= n, \A i \in 1 .. k : p[i] = q[i]
    PROVE  at[k] = bt[k]
<1> DEFINE T == {i \in Nat : i <= k => at[i] = bt[i]}
<1>1. /\ \A i \in 0 .. m : at[i] = IF i = 0 THEN r ELSE Reads(s, at[i - 1], p[i])
      /\ \A i \in 0 .. n : bt[i] = IF i = 0 THEN r ELSE Reads(s, bt[i - 1], q[i])
  BY DEF Trace
<1>2. 0 \in T
  BY <1>1
<1>3. ASSUME NEW i \in T PROVE i + 1 \in T
  <2> SUFFICES ASSUME i + 1 <= k PROVE at[i + 1] = bt[i + 1]
    OBVIOUS
  <2>1. i \in Nat /\ i + 1 \in 0 .. m /\ i + 1 \in 0 .. n /\ i + 1 # 0 /\ (i + 1) - 1 = i
    OBVIOUS
  <2>2. at[i] = bt[i] /\ p[i + 1] = q[i + 1]
    BY <2>1
  <2> QED BY <1>1, <2>1, <2>2
<1>4. k \in T
  <2> HIDE DEF T
  <2>1. T \in SUBSET Nat
    BY DEF T
  <2> QED BY <1>2, <1>3, <2>1, Induction
<1> QED BY <1>4

LEMMA AfterNone == ASSUME NEW s, NEW r, NEW q PROVE After(s, r, q, 0) = r
<1>1. 0 \in Nat /\ 0 \in 0 .. 0
  OBVIOUS
<1>2. PICK at : Trace(at, s, r, q, 0) /\ After(s, r, q, 0) = at[0]
  BY <1>1, AfterIsTrace
<1> QED BY <1>1, <1>2 DEF Trace

LEMMA AfterNext ==
    ASSUME NEW s, NEW r, NEW q, NEW n \in Nat
    PROVE  After(s, r, q, n + 1) = Reads(s, After(s, r, q, n), q[n + 1])
<1>1. n + 1 \in Nat /\ n + 1 \in 0 .. n + 1 /\ n + 1 # 0 /\ (n + 1) - 1 = n
  OBVIOUS
<1>2. PICK at : Trace(at, s, r, q, n) /\ After(s, r, q, n) = at[n]
  BY AfterIsTrace
<1>3. PICK bt : Trace(bt, s, r, q, n + 1) /\ After(s, r, q, n + 1) = bt[n + 1]
  BY <1>1, AfterIsTrace
<1>4. at[n] = bt[n]
  BY <1>1, <1>2, <1>3, TracesAgree
<1>5. bt[n + 1] = Reads(s, bt[n], q[n + 1])
  BY <1>1, <1>3 DEF Trace
<1> QED BY <1>2, <1>3, <1>4, <1>5

LEMMA AfterAgree ==
    ASSUME NEW s, NEW r, NEW p, NEW q, NEW n \in Nat, \A i \in 1 .. n : p[i] = q[i]
    PROVE  After(s, r, p, n) = After(s, r, q, n)
<1>1. PICK at : Trace(at, s, r, p, n) /\ After(s, r, p, n) = at[n]
  BY AfterIsTrace
<1>2. PICK bt : Trace(bt, s, r, q, n) /\ After(s, r, q, n) = bt[n]
  BY AfterIsTrace
<1> QED BY <1>1, <1>2, TracesAgree

(***************************************************************************)
(* What happens to a queue and to a log.                                   *)
(***************************************************************************)
\* A record is added at the end.
LEMMA AfterAppend ==
    ASSUME NEW A, NEW q \in Seq(A), NEW x \in A, NEW s, NEW r
    PROVE  /\ \A n \in 0 .. Len(q) : After(s, r, Append(q, x), n) = After(s, r, q, n)
           /\ Len(Append(q, x)) = Len(q) + 1
           /\ After(s, r, Append(q, x), Len(q) + 1) = Reads(s, After(s, r, q, Len(q)), x)
<1> DEFINE p == Append(q, x)
<1>1. /\ Len(q) \in Nat /\ Len(p) = Len(q) + 1 /\ p[Len(q) + 1] = x
      /\ \A i \in 1 .. Len(q) : p[i] = q[i]
  OBVIOUS
<1> HIDE DEF p
<1>2. ASSUME NEW n \in 0 .. Len(q) PROVE After(s, r, p, n) = After(s, r, q, n)
  <2>1. n \in Nat /\ \A i \in 1 .. n : p[i] = q[i]
    BY <1>1
  <2> QED BY <2>1, AfterAgree
<1>3. After(s, r, p, Len(q) + 1) = Reads(s, After(s, r, p, Len(q)), p[Len(q) + 1])
  BY <1>1, AfterNext
<1>4. After(s, r, p, Len(q)) = After(s, r, q, Len(q))
  BY <1>1, <1>2
<1> QED BY <1>1, <1>2, <1>3, <1>4 DEF p

\* The first record is taken off.
LEMMA AfterTail ==
    ASSUME NEW A, NEW q \in Seq(A), q # <<>>, NEW s, NEW r
    PROVE  /\ Len(q) \in Nat \ {0} /\ Len(Tail(q)) = Len(q) - 1
           /\ \A n \in 0 .. Len(q) - 1 :
                 After(s, Reads(s, r, Head(q)), Tail(q), n) = After(s, r, q, n + 1)
<1> DEFINE r1 == Reads(s, r, Head(q))
           t  == Tail(q)
<1>1. /\ Len(q) \in Nat \ {0} /\ Len(t) = Len(q) - 1 /\ Head(q) = q[1]
      /\ \A i \in 1 .. Len(q) - 1 : t[i] = q[i + 1]
  OBVIOUS
<1> HIDE DEF r1, t
<1> DEFINE T == {n \in Nat : n <= Len(q) - 1 => After(s, r1, t, n) = After(s, r, q, n + 1)}
<1>2. 0 \in T
  <2>1. After(s, r1, t, 0) = r1
    BY AfterNone
  <2>2. After(s, r, q, 0 + 1) = Reads(s, After(s, r, q, 0), q[0 + 1])
    BY AfterNext
  <2>3. After(s, r, q, 0) = r
    BY AfterNone
  <2> QED BY <1>1, <2>1, <2>2, <2>3 DEF r1
<1>3. ASSUME NEW n \in T PROVE n + 1 \in T
  <2> SUFFICES ASSUME n + 1 <= Len(q) - 1
               PROVE  After(s, r1, t, n + 1) = After(s, r, q, (n + 1) + 1)
    OBVIOUS
  <2>1. n \in Nat /\ n + 1 \in Nat /\ n <= Len(q) - 1
    BY <1>1
  <2>2. After(s, r1, t, n) = After(s, r, q, n + 1)
    BY <2>1
  <2>3. After(s, r1, t, n + 1) = Reads(s, After(s, r1, t, n), t[n + 1])
    BY <2>1, AfterNext
  <2>4. After(s, r, q, (n + 1) + 1) = Reads(s, After(s, r, q, n + 1), q[(n + 1) + 1])
    BY <2>1, AfterNext
  <2>5. t[n + 1] = q[(n + 1) + 1]
    BY <1>1, <2>1
  <2> QED BY <2>2, <2>3, <2>4, <2>5
<1>4. \A n \in Nat : n \in T
  <2> HIDE DEF T
  <2>1. T \in SUBSET Nat
    BY DEF T
  <2> QED BY <1>2, <1>3, <2>1, Induction
<1>5. ASSUME NEW n \in 0 .. Len(q) - 1 PROVE After(s, r1, t, n) = After(s, r, q, n + 1)
  <2>1. n \in Nat /\ n <= Len(q) - 1
    BY <1>1
  <2> QED BY <1>4, <2>1
<1> QED BY <1>1, <1>5 DEF r1, t

(***************************************************************************)
(* The logs, as the writer of this instance names them.                    *)
(***************************************************************************)
LEMMA SameStore ==
    /\ \A lines : W!EndsTorn(lines) = EndsTorn(lines)
    /\ \A lines, r : W!Appended(lines, r) = Appended(lines, r)
    /\ \A lines, r : W!Cut(lines, r) = Cut(lines, r)
    /\ \A lines, r, tear : W!AppendFailed(lines, r, tear) = AppendFailed(lines, r, tear)
    /\ \A lines : W!Readable(lines) = Readable(lines)
<1>1. \A lines : W!EndsTorn(lines) = EndsTorn(lines)
  BY DEF W!EndsTorn, EndsTorn, W!Last, Last
<1>2. \A lines, r : W!Appended(lines, r) = Appended(lines, r)
  BY <1>1 DEF W!Appended, Appended, W!Front, Front, W!Line, Line
<1>3. \A lines, r : W!Cut(lines, r) = Cut(lines, r)
  BY <1>1 DEF W!Cut, Cut, W!Line, Line
<1>4. \A lines, r, tear : W!AppendFailed(lines, r, tear) = AppendFailed(lines, r, tear)
  BY <1>2, <1>3 DEF W!AppendFailed, AppendFailed
<1>5. \A lines : W!Readable(lines) = Readable(lines)
  BY DEF W!Readable, Readable
<1> QED BY <1>1, <1>2, <1>3, <1>4, <1>5

LEMMA SameChannels ==
    /\ \A ch, x : W!Push(ch, x) = Push(ch, x) /\ V!Push(ch, x) = Push(ch, x)
    /\ \A ch : W!Pop(ch) = Pop(ch) /\ W!AtEnd(ch) = AtEnd(ch)
    /\ \A ch : W!DropRx(ch) = DropRx(ch) /\ V!DropTx(ch) = DropTx(ch)
    /\ V!NewChan = NewChan
  BY DEF W!Push, V!Push, Push, W!Pop, Pop, W!AtEnd, AtEnd, W!DropRx, DropRx,
         V!DropTx, DropTx, V!NewChan, NewChan

(***************************************************************************)
(* What a step of the writer does to the channels, the logs and the report.*)
(***************************************************************************)
Stored(r) == \E lines \in Appended(log[r.s], r) : log' = [log EXCEPT ![r.s] = lines]
Failed(r) ==
    \E lines \in AppendFailed(log[r.s], r, "tear" \in Faults) :
        log' = [log EXCEPT ![r.s] = lines]
Halts ==
    /\ wpc' = "done" /\ halt' = TRUE
    /\ sink' = DropRx(sink) /\ vchan' = DropRx(vchan)

\* Record r is counted, and stored or not; after it the channels are sk and vc,
\* unless the writer halts.
Written(r, sk, vc) ==
    /\ report' = [report EXCEPT ![r.s] = @ + 1]
    /\ \/ (Failed(r) \/ Stored(r)) /\ Halts
       \/ /\ Stored(r)
          /\ sink' = sk /\ vchan' = vc
          /\ UNCHANGED <<wpc, halt>>

FrameWritten == wpc = "run" /\ sink.q # <<>> /\ Written(Head(sink.q), Pop(sink), vchan)
BookWritten ==
    /\ wpc \in {"run", "drain"} /\ vchan.q # <<>>
    /\ Written(Head(vchan.q), sink, Pop(vchan))
ControlTaken ==
    /\ wpc = "run" /\ sink.q # <<>> /\ Head(sink.q).kind = "control"
    /\ sink' = Pop(sink)
    /\ UNCHANGED <<vchan, wpc, halt, log, report>>
WriterTurns ==
    /\ \/ wpc = "start" /\ wpc' = "run"
       \/ wpc = "run" /\ wpc' = "run"
       \/ wpc = "run" /\ AtEnd(sink) /\ wpc' = "drain"
       \/ wpc = "drain" /\ vchan.q = <<>> /\ wpc' = "report"
    /\ UNCHANGED <<sink, vchan, halt, log, report>>
WriterReturns ==
    /\ \/ wpc = "start" /\ wpc' = "failed"
       \/ wpc = "report" /\ wpc' = "done"
    /\ sink' = DropRx(sink) /\ vchan' = DropRx(vchan)
    /\ UNCHANGED <<halt, log, report>>

LEMMA PersistEffect ==
    ASSUME NEW r, NEW sk, NEW vc, W!Persist(r, sk, vc)
    PROVE  Written(r, sk, vc)
<1>1. W!AppendOk(r) => Stored(r)
  BY SameStore DEF W!AppendOk, Stored
<1>2. W!AppendErr(r) => Failed(r)
  BY SameStore DEF W!AppendErr, Failed
<1>3. W!Halt => Halts
  BY SameChannels DEF W!Halt, Halts
<1>4. \/ W!AppendErr(r) /\ W!Halt
      \/ W!AppendOk(r) /\ W!Halt
      \/ W!AppendOk(r) /\ sink' = sk /\ vchan' = vc /\ UNCHANGED <<wpc, halt>>
  BY DEF W!Persist
<1>5. report' = [report EXCEPT ![r.s] = @ + 1]
  BY DEF W!Persist
<1> QED BY <1>1, <1>2, <1>3, <1>4, <1>5 DEF Written

LEMMA WriterEffect ==
    ASSUME W!WriterStep
    PROVE  FrameWritten \/ BookWritten \/ ControlTaken \/ WriterTurns \/ WriterReturns
<1>1. CASE W!WriterStart
  <2>1. CASE low
    BY <1>1, <2>1, SameChannels DEF W!WriterStart, WriterReturns
  <2>2. CASE ~low
    BY <1>1, <2>2 DEF W!WriterStart, WriterTurns
  <2> QED BY <2>1, <2>2
<1>2. CASE W!RecvEvent
  <2>1. CASE Head(sink.q).kind = "control"
    BY <1>2, <2>1, SameChannels DEF W!RecvEvent, ControlTaken
  <2>2. CASE Head(sink.q).kind # "control"
    BY <1>2, <2>2, PersistEffect, SameChannels DEF W!RecvEvent, FrameWritten
  <2> QED BY <2>1, <2>2
<1>3. CASE W!RecvVerify
  BY <1>3, PersistEffect, SameChannels DEF W!RecvVerify, BookWritten
<1>4. CASE W!VerifyClosed \/ W!SinkOver
  BY <1>4, SameChannels DEF W!VerifyClosed, W!SinkOver, WriterTurns
<1>5. CASE W!Drain
  <2>1. Written(Head(vchan.q), sink, Pop(vchan))
    BY <1>5, SameStore, SameChannels
       DEF W!Drain, W!AppendErr, W!AppendOk, W!Halt, Written, Stored, Failed, Halts
  <2> QED BY <1>5, <2>1 DEF W!Drain, BookWritten
<1>6. CASE W!DrainOver
  BY <1>6 DEF W!DrainOver, WriterTurns
<1>7. CASE W!WriterReturns
  BY <1>7, SameChannels DEF W!WriterReturns, WriterReturns
<1> QED BY <1>1, <1>2, <1>3, <1>4, <1>5, <1>6, <1>7 DEF W!WriterStep

(***************************************************************************)
(* The steps of the composition.                                           *)
(***************************************************************************)
LEMMA CaptureSteps ==
    ASSUME [CaptureNext]_captureVars
    PROVE  \/ /\ SessionNext /\ UNCHANGED Others
              /\ due' = due \/ (pc # "ended" /\ due' = offered)
           \/ SweepMoves \/ WriterMoves \/ DiskMoves \/ SessionOver \/ Join \/ Crash
           \/ UNCHANGED captureVars
<1>1. CASE SessionMoves
  BY <1>1 DEF SessionMoves, SessionNext, SessionStep, FeedStep
<1>2. CASE SessionConnects
  BY <1>2 DEF SessionConnects, SessionNext, SessionStep
<1>3. CASE SessionReads
  BY <1>3 DEF SessionReads, SessionNext, FeedStep
<1> QED BY <1>1, <1>2, <1>3 DEF CaptureNext

(***************************************************************************)
(* Type correctness.  What the sweep sends are books and raw fallbacks.    *)
(***************************************************************************)
SweepRecords == {r \in Records : r.kind \in {"verify", "raw"}}
SweepChan == [q : Seq(SweepRecords), tx : BOOLEAN, rx : BOOLEAN]

PipeType ==
    /\ vchan \in SweepChan /\ items \in Seq(SweepRecords)
    /\ chunk \in Nat /\ (spc \in {"fetch", "send"} => chunk # 0)
    /\ log \in [LogStreams -> Seq(W!Lines)]
    /\ report \in [LogStreams -> Nat]
    /\ halt \in BOOLEAN /\ crashes \in Nat

TypeInv == CaptureTypeOK /\ PipeType

LEMMA FrameRecords == Frames \subseteq Records
  BY DEF Frames, Records, LogStreams

LEMMA RecordStorable ==
    ASSUME NEW r \in Records PROVE Storable(W!Lines, r) /\ r.s \in LogStreams
<1>1. r.s \in LogStreams /\ r.kind \notin {"torn", "bad"}
  BY DEF Records, FrameKinds
<1> QED BY <1>1 DEF Storable, W!Lines, Line

LEMMA SweepChanTypes ==
    /\ V!VerifyChan \in SweepChan
    /\ \A ch \in SweepChan :
          /\ DropTx(ch) \in SweepChan
          /\ DropRx(ch) \in SweepChan
          /\ \A r \in SweepRecords : Push(ch, r) \in SweepChan
          /\ ch.q # <<>> => Pop(ch) \in SweepChan /\ Head(ch.q) \in SweepRecords
<1>1. <<>> \in Seq(SweepRecords)
  OBVIOUS
<1>2. NewChan \in SweepChan
  BY <1>1 DEF NewChan, SweepChan
<1>3. ASSUME NEW ch \in SweepChan
      PROVE  /\ DropTx(ch) \in SweepChan
             /\ DropRx(ch) \in SweepChan
             /\ \A r \in SweepRecords : Push(ch, r) \in SweepChan
             /\ ch.q # <<>> => Pop(ch) \in SweepChan /\ Head(ch.q) \in SweepRecords
  <2>1. ch.q \in Seq(SweepRecords) /\ ch.tx \in BOOLEAN /\ ch.rx \in BOOLEAN
    BY DEF SweepChan
  <2>2. \A r \in SweepRecords : Append(ch.q, r) \in Seq(SweepRecords)
    BY <2>1
  <2>3. ch.q # <<>> => Tail(ch.q) \in Seq(SweepRecords) /\ Head(ch.q) \in SweepRecords
    BY <2>1
  <2> QED BY <1>1, <2>1, <2>2, <2>3 DEF SweepChan, DropTx, DropRx, Push, Pop
<1>4. V!VerifyChan \in SweepChan
  BY <1>2, <1>3, SameChannels DEF V!VerifyChan
<1> QED BY <1>3, <1>4

LEMMA OutcomeTypes ==
    ASSUME TypeOK, NEW o \in Outcomes, NEW t \in Tickers
    PROVE  o[t] \in SweepRecords
<1>1. \A u \in Tickers : OrderbookOf(u) \in Streams
  BY StreamParts
<1>2. \A u \in Tickers : VerifyRecord(u) \in SweepRecords
  BY <1>1 DEF VerifyRecord, Frame, SweepRecords, Records, LogStreams, TypeOK
<1>3. \A s \in LogStreams : RawRecord(s) \in SweepRecords
  BY DEF RawRecord, Frame, SweepRecords, Records, FrameKinds
<1> QED BY <1>2, <1>3 DEF Outcomes

\* A record that is stored, or whose append fails, leaves a directory of logs.
LEMMA LogTypes ==
    ASSUME log \in [LogStreams -> Seq(W!Lines)], NEW r \in Records, Stored(r) \/ Failed(r)
    PROVE  log' \in [LogStreams -> Seq(W!Lines)]
<1>1. Storable(W!Lines, r) /\ r.s \in LogStreams /\ log[r.s] \in Seq(W!Lines)
  BY RecordStorable
<1>2. ("tear" \in Faults) \in BOOLEAN
  OBVIOUS
<1>3. CASE Stored(r)
  <2>1. PICK lines \in Appended(log[r.s], r) : log' = [log EXCEPT ![r.s] = lines]
    BY <1>3 DEF Stored
  <2>2. lines \in Seq(W!Lines)
    BY <1>1, AppendCounts
  <2> QED BY <1>1, <2>1, <2>2
<1>4. CASE Failed(r)
  <2>1. PICK lines \in AppendFailed(log[r.s], r, "tear" \in Faults) :
             log' = [log EXCEPT ![r.s] = lines]
    BY <1>4 DEF Failed
  <2>2. lines \in Seq(W!Lines)
    BY <1>1, <1>2, FailedCounts
  <2> QED BY <1>1, <2>1, <2>2
<1> QED BY <1>3, <1>4

\* A crash leaves the logs, or cuts one line short.
CutShort ==
    \E r \in Records :
        /\ r.s \in LogStreams /\ log[r.s] \in Seq(W!Lines)
        /\ "tear" \in Faults
        /\ log' = [log EXCEPT ![r.s] = Cut(log[r.s], r)]

LEMMA CrashLog ==
    ASSUME TypeInv, W!StoreCrash PROVE log' = log \/ CutShort
<1>1. CASE log' = log
  BY <1>1
<1>2. ASSUME NEW r \in W!InAppend, log' = [log EXCEPT ![r.s] = W!Cut(@, r)],
             "tear" \in Faults
      PROVE  CutShort
  <2>1. r \in Records
    <3>1. sink.q # <<>> => Head(sink.q) \in Records
      BY FrameRecords DEF TypeInv, CaptureTypeOK, TypeOK, SinkType
    <3>2. vchan.q # <<>> => Head(vchan.q) \in Records
      BY SweepChanTypes DEF TypeInv, PipeType, SweepRecords
    <3> QED BY <3>1, <3>2 DEF W!InAppend
  <2>2. r.s \in LogStreams /\ log[r.s] \in Seq(W!Lines)
    BY <2>1, RecordStorable DEF TypeInv, PipeType
  <2>3. log' = [log EXCEPT ![r.s] = Cut(log[r.s], r)]
    BY <1>2, SameStore
  <2> QED BY <1>2, <2>1, <2>2, <2>3 DEF CutShort
<1> QED BY <1>1, <1>2 DEF W!StoreCrash

LEMMA CrashLogType ==
    ASSUME TypeInv, W!StoreCrash PROVE log' \in [LogStreams -> Seq(W!Lines)]
<1>1. log \in [LogStreams -> Seq(W!Lines)]
  BY DEF TypeInv, PipeType
<1>2. CASE log' = log
  BY <1>1, <1>2
<1>3. CASE CutShort
  <2>1. PICK r \in Records :
           /\ r.s \in LogStreams /\ log[r.s] \in Seq(W!Lines)
           /\ log' = [log EXCEPT ![r.s] = Cut(log[r.s], r)]
    BY <1>3 DEF CutShort
  <2>2. Cut(log[r.s], r) \in Seq(W!Lines)
    BY <2>1, RecordStorable, CutCounts
  <2> QED BY <1>1, <2>1, <2>2
<1> QED BY <1>2, <1>3, CrashLog

\* A reader stays a reader.
Reader == [book : Nat \cup {None}, version : Nat]

LEMMA ReadsType ==
    ASSUME NEW r \in Reader, NEW f \in W!Lines, NEW s
    PROVE  Reads(s, r, f) \in Reader
<1>1. r.book \in Nat \cup {None} /\ r.version \in Nat
  BY DEF Reader
<1>2. f.kind \in {"snapshot", "delta", "trade"} => f.v \in Nat
  BY DEF W!Lines, Records
<1>3. Apply(r.book, f) \in Nat \cup {None} /\ Version(r.version, f) \in Nat
  BY <1>1, <1>2 DEF Apply, Version
<1> QED BY <1>3 DEF Reads, Reader

LEMMA AfterType ==
    ASSUME NEW q \in Seq(W!Lines), NEW r \in Reader, NEW s, NEW n \in 0 .. Len(q)
    PROVE  After(s, r, q, n) \in Reader
<1> DEFINE T == {k \in Nat : k <= Len(q) => After(s, r, q, k) \in Reader}
<1>1. 0 \in T
  BY AfterNone
<1>2. ASSUME NEW k \in T PROVE k + 1 \in T
  <2> SUFFICES ASSUME k + 1 <= Len(q) PROVE After(s, r, q, k + 1) \in Reader
    OBVIOUS
  <2>1. k \in Nat /\ k <= Len(q) /\ q[k + 1] \in W!Lines
    OBVIOUS
  <2>2. After(s, r, q, k) \in Reader
    BY <2>1
  <2>3. After(s, r, q, k + 1) = Reads(s, After(s, r, q, k), q[k + 1])
    BY <2>1, AfterNext
  <2> QED BY <2>1, <2>2, <2>3, ReadsType
<1>3. \A k \in Nat : k \in T
  <2> HIDE DEF T
  <2>1. T \in SUBSET Nat
    BY DEF T
  <2> QED BY <1>1, <1>2, <2>1, Induction
<1>4. n \in Nat /\ n <= Len(q)
  OBVIOUS
<1> QED BY <1>3, <1>4

LEMMA LoggedType ==
    ASSUME NEW lines \in Seq(W!Lines), NEW s
    PROVE  After(s, NewReader, lines, Len(lines)) \in Reader
<1>1. Len(lines) \in 0 .. Len(lines)
  OBVIOUS
<1>2. NewReader \in Reader
  BY DEF NewReader, Reader
<1> QED BY <1>1, <1>2, AfterType

LEMMA SinkFrames ==
    ASSUME TypeOK, sink.q # <<>>
    PROVE  /\ sink.q \in Seq(Frames) /\ sink.q \in Seq(Records)
           /\ Head(sink.q) \in Frames /\ Head(sink.q) \in Records
           /\ Pop(sink) \in SinkType /\ Pop(sink).q = Tail(sink.q)
           /\ Pop(sink).tx = sink.tx /\ Pop(sink).rx = sink.rx
<1>1. sink \in SinkType /\ sink.q \in Seq(Frames)
  BY DEF TypeOK, SinkType
<1>2. Head(sink.q) \in Frames
  BY <1>1
<1>3. sink.q \in Seq(Records)
  BY <1>1, FrameRecords
<1>4. Pop(sink) \in SinkType
  BY <1>1, <1>2, SinkTypes
<1> QED BY <1>1, <1>2, <1>3, <1>4, FrameRecords DEF Pop, SinkType

\* The session's own type invariant.
LEMMA SessionTypeStep == ASSUME TypeInv, [CaptureNext]_captureVars PROVE TypeOK'
<1>1. TypeOK /\ sink \in SinkType
  BY DEF TypeInv, CaptureTypeOK, TypeOK
<1>2. CASE SessionNext
  BY <1>1, <1>2, TypeStep DEF Next
<1>3. ASSUME UNCHANGED <<sessionSide, shutdown>>, sink' \in SinkType PROVE TypeOK'
  BY <1>1, <1>3 DEF TypeOK, sessionSide
<1>4. CASE WriterMoves
  <2>1. UNCHANGED <<sessionSide, shutdown>>
    BY <1>4 DEF WriterMoves
  <2>2. DropRx(sink) \in SinkType /\ (sink.q # <<>> => Pop(sink) \in SinkType)
    BY <1>1, SinkTypes, MarkerTypes
  <2>3. sink' = sink \/ sink' = DropRx(sink) \/ (sink.q # <<>> /\ sink' = Pop(sink))
    BY <1>4, WriterEffect
       DEF WriterMoves, FrameWritten, BookWritten, ControlTaken, WriterTurns,
           WriterReturns, Written, Halts
  <2>4. sink' \in SinkType
    BY <1>1, <2>2, <2>3
  <2> QED BY <1>3, <2>1, <2>4
<1>5. CASE Crash
  <2>1. log' \in [LogStreams -> Seq(W!Lines)]
    BY <1>5, CrashLogType DEF Crash
  <2>2. \A s \in Streams : Logged(s)' \in Reader
    <3>1. \A s \in Streams : log'[s] \in Seq(W!Lines)
      BY <2>1 DEF LogStreams
    <3> QED BY <3>1, LoggedType DEF Logged
  <2>3. \A s \in Streams : Logged(s)'.book \in Nat \cup {None} /\ Logged(s)'.version \in Nat
    BY <2>2 DEF Reader
  <2>4. book' \in [Streams -> Nat \cup {None}] /\ cur' \in [Streams -> Nat]
    BY <1>5, <2>3 DEF Crash
  <2>5. <<>> \in Seq(Frames)
    OBVIOUS
  <2>6. sink' \in SinkType
    BY <1>5, <2>5 DEF Crash, NewChan, SinkType
  <2>7. /\ seq' \in [Channels -> Nat] /\ truth' \in [Streams -> Nat]
        /\ snapped' \in SUBSET Tickers
        /\ last' \in [Channels -> Frames]
        /\ \A c \in Channels : last'[c].kind # "none" => last'[c].s \in StreamsOn(c)
    BY <1>1, <1>5, MarkerTypes DEF Crash, TypeOK
  <2>8. /\ pc' = "connecting" /\ end' = "none"
        /\ tracker' \in [Channels -> Nat \cup {None}]
        /\ gaps' \in SUBSET Streams /\ pend' \in Frames
    BY <1>5, MarkerTypes DEF Crash
  <2>9. first' \in BOOLEAN /\ shutdown' \in BOOLEAN
    BY <1>5, Zenon DEF Crash
  <2> QED BY <2>4, <2>6, <2>7, <2>8, <2>9 DEF TypeOK
<1>6. CASE SweepMoves \/ DiskMoves \/ SessionOver \/ Join \/ UNCHANGED captureVars
  BY <1>1, <1>3, <1>6 DEF SweepMoves, DiskMoves, W!DiskTurns, SessionOver, Join, captureVars
<1> QED BY <1>2, <1>4, <1>5, <1>6, CaptureSteps

\* The sweep is in a chunk while it fetches and sends, and holds outcomes only
\* while it sends.
LEMMA SweepTypeStep ==
    ASSUME TypeInv, SweepMoves
    PROVE  /\ spc' \in {"start", "sleep", "fetch", "send", "gone"}
           /\ spc' = "send" <=> items' # <<>>
           /\ chunk' \in Nat /\ (spc' \in {"fetch", "send"} => chunk' # 0)
<1>1. /\ spc \in {"start", "sleep", "fetch", "send", "gone"}
      /\ spc = "send" <=> items # <<>>
      /\ chunk \in Nat /\ (spc \in {"fetch", "send"} => chunk # 0)
      /\ items \in Seq(SweepRecords)
  BY DEF TypeInv, CaptureTypeOK, PipeType
<1>2. V!NextChunk =>
          /\ spc' \in {"sleep", "fetch"}
          /\ chunk' \in Nat /\ (spc' = "fetch" => chunk' # 0)
  BY <1>1 DEF V!NextChunk
<1>3. CASE V!NoClient \/ V!WriterGone \/ V!Cancelled
  <2>1. V!Leave
    BY <1>3 DEF V!NoClient, V!WriterGone, V!Cancelled
  <2> QED BY <1>1, <2>1 DEF V!Leave
<1>4. CASE V!SendItem
  <2>1. items # <<>> /\ items' = Tail(items) /\ spc = "send"
    BY <1>1, <1>4 DEF V!SendItem
  <2>2. Len(items) = 1 <=> Tail(items) = <<>>
    <3>1. /\ Tail(items) \in Seq(SweepRecords) /\ Len(items) \in Nat
          /\ Len(Tail(items)) = Len(items) - 1
      BY <1>1, <2>1
    <3>2. Tail(items) = <<>> <=> Len(Tail(items)) = 0
      BY <3>1, EmptySeq
    <3> QED BY <3>1, <3>2
  <2>3. CASE Len(items) = 1
    <3>1. V!NextChunk
      BY <1>4, <2>3 DEF V!SendItem
    <3> QED BY <1>2, <2>1, <2>2, <2>3, <3>1
  <2>4. CASE Len(items) # 1
    BY <1>1, <1>4, <2>1, <2>2, <2>4 DEF V!SendItem
  <2> QED BY <2>3, <2>4
<1>5. ASSUME NEW o \in Outcomes, V!Fetch(o)
      PROVE  /\ spc' \in {"start", "sleep", "fetch", "send", "gone"}
             /\ spc' = "send" <=> items' # <<>>
             /\ chunk' \in Nat /\ (spc' \in {"fetch", "send"} => chunk' # 0)
  <2>1. CASE items' = <<>>
    BY <1>2, <1>5, <2>1 DEF V!Fetch
  <2>2. CASE items' # <<>>
    BY <1>1, <1>5, <2>2 DEF V!Fetch
  <2> QED BY <2>1, <2>2
<1>6. CASE V!FetchFails
  BY <1>1, <1>2, <1>6 DEF V!FetchFails
<1>7. CASE V!BuildClient
  BY <1>1, <1>7 DEF V!BuildClient
<1>8. CASE V!Wake
  BY <1>1, <1>8 DEF V!Wake
<1> QED BY <1>3, <1>4, <1>5, <1>6, <1>7, <1>8 DEF SweepMoves, V!SweepStep

LEMMA PipeTypeStep == ASSUME TypeInv, [CaptureNext]_captureVars PROVE PipeType'
<1>1. /\ vchan \in SweepChan /\ items \in Seq(SweepRecords)
      /\ log \in [LogStreams -> Seq(W!Lines)]
      /\ report \in [LogStreams -> Nat]
      /\ halt \in BOOLEAN /\ crashes \in Nat
      /\ chunk \in Nat /\ (spc \in {"fetch", "send"} => chunk # 0)
  BY DEF TypeInv, PipeType
<1>2. CASE SweepMoves
  <2>0. chunk' \in Nat /\ (spc' \in {"fetch", "send"} => chunk' # 0)
    BY <1>2, SweepTypeStep
  <2>1. UNCHANGED <<log, report, halt, crashes>>
    BY <1>2 DEF SweepMoves, writerSide, mainSide
  <2>2. CASE V!NoClient \/ V!WriterGone \/ V!Cancelled
    <3>1. vchan' = DropTx(vchan) /\ items' = <<>>
      BY <2>2, SameChannels DEF V!NoClient, V!WriterGone, V!Cancelled, V!Leave
    <3> QED BY <1>1, <2>0, <2>1, <3>1, SweepChanTypes DEF PipeType
  <2>3. CASE V!SendItem
    <3>1. items # <<>>
      BY <2>3 DEF V!SendItem, TypeInv, CaptureTypeOK
    <3>2. Head(items) \in SweepRecords /\ Tail(items) \in Seq(SweepRecords)
      BY <1>1, <3>1
    <3>3. vchan' = Push(vchan, Head(items)) /\ items' = Tail(items)
      BY <2>3, SameChannels DEF V!SendItem
    <3> QED BY <1>1, <2>0, <2>1, <3>2, <3>3, SweepChanTypes DEF PipeType
  <2>4. ASSUME NEW o \in Outcomes, V!Fetch(o) PROVE PipeType'
    <3>1. PICK ts \in V!Listed(chunk) : items' = [i \in DOMAIN ts |-> o[ts[i]]]
      BY <2>4 DEF V!Fetch
    <3>2. PICK n \in 0 .. ChunkSize : ts \in [1 .. n -> V!ChunkTickers(chunk)]
      BY DEF V!Listed
    <3>3. V!ChunkTickers(chunk) \subseteq Tickers
      <4>1. chunk \in Nat \ {0} /\ ChunkSize \in Nat \ {0} /\ NumTickers \in Nat
        BY <2>4, CaptureAssumption, SessionAssumption DEF V!Fetch, TypeInv, PipeType
      <4>2. (chunk - 1) * ChunkSize \in Nat
        BY <4>1
      <4> QED BY <4>1, <4>2 DEF V!ChunkTickers, Tickers
    <3>4. TypeOK
      BY DEF TypeInv, CaptureTypeOK
    <3>5. \A i \in 1 .. n : o[ts[i]] \in SweepRecords
      BY <2>4, <3>2, <3>3, <3>4, OutcomeTypes
    <3>6. items' \in [1 .. n -> SweepRecords] /\ n \in Nat
      BY <3>1, <3>2, <3>5, CaptureAssumption
    <3>7. items' \in Seq(SweepRecords)
      BY <3>6, SeqDef
    <3> QED BY <1>1, <2>0, <2>1, <2>4, <3>7 DEF V!Fetch, PipeType
  <2>5. CASE V!BuildClient \/ V!Wake \/ V!FetchFails
    BY <1>1, <2>0, <2>1, <2>5 DEF V!BuildClient, V!Wake, V!FetchFails, PipeType
  <2> QED BY <1>2, <2>2, <2>3, <2>4, <2>5 DEF SweepMoves, V!SweepStep
<1>3. CASE WriterMoves
  <2>1. UNCHANGED <<items, crashes, spc, chunk>>
    BY <1>3 DEF WriterMoves, sweepSide, taskSide, mainSide
  <2>2. ASSUME NEW r \in Records, NEW sk, NEW vc \in SweepChan, Written(r, sk, vc)
        PROVE  PipeType'
    <3>1. r.s \in LogStreams
      BY RecordStorable
    <3>2. report' \in [LogStreams -> Nat]
      BY <1>1, <2>2, <3>1 DEF Written
    <3>3. Stored(r) \/ Failed(r)
      BY <2>2 DEF Written
    <3>4. log' \in [LogStreams -> Seq(W!Lines)]
      BY <1>1, <3>3, LogTypes
    <3>5. vchan' \in SweepChan
      BY <1>1, <2>2, SweepChanTypes DEF Written, Halts
    <3>6. halt' \in BOOLEAN
      <4>1. halt' = TRUE \/ halt' = halt
        BY <2>2 DEF Written, Halts
      <4> QED BY <1>1, <4>1
    <3> QED BY <1>1, <2>1, <3>2, <3>4, <3>5, <3>6 DEF PipeType
  <2>3. CASE FrameWritten
    <3>1. TypeOK
      BY DEF TypeInv, CaptureTypeOK
    <3> QED BY <1>1, <2>2, <2>3, <3>1, SinkFrames DEF FrameWritten
  <2>4. CASE BookWritten
    <3>1. Head(vchan.q) \in Records /\ Pop(vchan) \in SweepChan
      BY <1>1, <2>4, SweepChanTypes DEF BookWritten, SweepRecords
    <3> QED BY <2>2, <2>4, <3>1 DEF BookWritten
  <2>5. CASE ControlTaken \/ WriterTurns \/ WriterReturns
    <3>1. vchan' \in SweepChan
      BY <1>1, <2>5, SweepChanTypes DEF ControlTaken, WriterTurns, WriterReturns
    <3>2. UNCHANGED <<log, report, halt>>
      BY <2>5 DEF ControlTaken, WriterTurns, WriterReturns
    <3> QED BY <1>1, <2>1, <3>1, <3>2 DEF PipeType
  <2> QED BY <1>3, <2>3, <2>4, <2>5, WriterEffect DEF WriterMoves
<1>4. CASE Crash
  <2>1. log' \in [LogStreams -> Seq(W!Lines)]
    BY <1>4, CrashLogType DEF Crash
  <2>2. report' \in [LogStreams -> Nat]
    BY <1>4 DEF Crash, W!StoreCrash
  <2>3. halt' \in BOOLEAN
    BY <1>4, Zenon DEF Crash, W!StoreCrash
  <2>4. /\ vchan' \in SweepChan /\ items' \in Seq(SweepRecords) /\ crashes' \in Nat
        /\ chunk' \in Nat /\ spc' \notin {"fetch", "send"}
    BY <1>1, <1>4, SweepChanTypes DEF Crash
  <2> QED BY <2>1, <2>2, <2>3, <2>4 DEF PipeType
<1>5. CASE \/ SessionNext /\ UNCHANGED Others
           \/ DiskMoves \/ SessionOver \/ Join \/ UNCHANGED captureVars
  <2>1. UNCHANGED <<vchan, items, spc, chunk, log, report, halt, crashes>>
    BY <1>5 DEF Others, DiskMoves, W!DiskTurns, SessionOver, Join, captureVars,
                sweepSide, taskSide, writerSide, mainSide
  <2> QED BY <1>1, <2>1 DEF PipeType
<1> QED BY <1>2, <1>3, <1>4, <1>5, CaptureSteps

LEMMA CaptureTypeStep == ASSUME TypeInv, [CaptureNext]_captureVars PROVE CaptureTypeOK'
<1>1. TypeOK'
  BY SessionTypeStep
<1>2. frames' \in 0 .. MaxFrames /\ connects' \in 0 .. MaxConnects
  <2>1. /\ frames \in 0 .. MaxFrames /\ connects \in 0 .. MaxConnects
        /\ MaxFrames \in Nat /\ MaxConnects \in Nat
    BY CaptureAssumption DEF TypeInv, CaptureTypeOK
  <2>2. \/ UNCHANGED <<frames, connects>>
        \/ frames' = frames + 1 /\ frames < MaxFrames /\ connects' = connects
        \/ connects' = connects + 1 /\ connects < MaxConnects /\ frames' = frames
        \/ frames' = 0 /\ connects' = 0
    BY DEF CaptureNext, SessionMoves, SessionConnects, SessionReads, SweepMoves,
           WriterMoves, DiskMoves, SessionOver, Join, Crash, sessionSide, captureVars
  <2> QED BY <2>1, <2>2
<1>3. /\ spc' \in {"start", "sleep", "fetch", "send", "gone"}
      /\ spc' = "send" <=> items' # <<>>
  <2>1. CASE SweepMoves
    BY <2>1, SweepTypeStep
  <2>2. CASE Crash
    BY <2>2 DEF Crash
  <2>3. CASE UNCHANGED <<spc, items>>
    BY <2>3 DEF TypeInv, CaptureTypeOK
  <2>4. \/ SweepMoves \/ Crash \/ UNCHANGED <<spc, items>>
    BY DEF CaptureNext, SessionMoves, SessionConnects, SessionReads, WriterMoves,
           DiskMoves, SessionOver, Join, Others, sweepSide, taskSide, captureVars
  <2> QED BY <2>1, <2>2, <2>3, <2>4
<1>4. mpc' \in {"session", "join", "returned"} /\ result' \in {"none", "Ok", "Err"}
  BY DEF TypeInv, CaptureTypeOK, CaptureNext, SessionMoves, SessionConnects,
         SessionReads, SweepMoves, WriterMoves, DiskMoves, SessionOver, Join, Crash,
         Others, mainSide, captureVars
<1>5. wpc' \in {"start", "run", "drain", "report", "done", "failed"}
  <2>1. CASE WriterMoves
    BY <2>1, WriterEffect
       DEF TypeInv, CaptureTypeOK, WriterMoves, FrameWritten, BookWritten, ControlTaken,
           WriterTurns, WriterReturns, Written, Halts
  <2>2. CASE Crash
    BY <2>2 DEF Crash, W!StoreCrash
  <2>3. CASE UNCHANGED wpc
    BY <2>3 DEF TypeInv, CaptureTypeOK
  <2>4. WriterMoves \/ Crash \/ UNCHANGED wpc
    BY DEF CaptureNext, SessionMoves, SessionConnects, SessionReads, SweepMoves,
           DiskMoves, W!DiskTurns, SessionOver, Join, Others, writerSide, captureVars
  <2> QED BY <2>1, <2>2, <2>3, <2>4
<1>6. offered' \in Nat /\ due' \in Nat
  <2>1. offered \in Nat /\ due \in Nat
    BY DEF TypeInv, CaptureTypeOK
  <2>2. SweepMoves => offered' \in {offered, offered + 1} /\ due' = due
    BY DEF SweepMoves, V!SweepStep, V!BuildClient, V!NoClient, V!Wake, V!FetchFails,
           V!SendItem, V!WriterGone, V!Cancelled, V!Leave, V!Fetch
  <2>3. ~SweepMoves => offered' \in {offered, 0} /\ due' \in {due, offered, 0}
    BY CaptureSteps DEF Others, WriterMoves, DiskMoves, SessionOver, Join, Crash,
           sweepSide, taskSide, captureVars
  <2> QED BY <2>1, <2>2, <2>3
<1> QED BY <1>1, <1>2, <1>3, <1>4, <1>5, <1>6 DEF CaptureTypeOK

LEMMA TypeInvInit == ASSUME CaptureInit PROVE TypeInv
<1>1. TypeOK
  BY TypeInit DEF CaptureInit
<1>2. PipeType
  <2>1. <<>> \in Seq(W!Lines) /\ <<>> \in Seq(SweepRecords)
    OBVIOUS
  <2>2. vchan \in SweepChan
    BY SweepChanTypes DEF CaptureInit
  <2>3. halt \in BOOLEAN
    BY Zenon DEF CaptureInit, W!WriterInit
  <2>4. log \in [LogStreams -> Seq(W!Lines)] /\ report \in [LogStreams -> Nat]
    BY <2>1 DEF CaptureInit, W!WriterInit, W!StoreInit
  <2>5. /\ items \in Seq(SweepRecords) /\ crashes \in Nat
        /\ chunk \in Nat /\ spc \notin {"fetch", "send"}
    BY <2>1 DEF CaptureInit, V!SweepInit
  <2> QED BY <2>2, <2>3, <2>4, <2>5 DEF PipeType
<1>3. CaptureTypeOK
  BY <1>1, CaptureAssumption DEF CaptureInit, V!SweepInit, W!WriterInit, CaptureTypeOK
<1> QED BY <1>2, <1>3 DEF TypeInv

LEMMA TypeInvariant == CaptureSpec => []TypeInv
<1>1. CaptureInit => TypeInv
  BY TypeInvInit
<1>2. TypeInv /\ [CaptureNext]_captureVars => TypeInv'
  BY CaptureTypeStep, PipeTypeStep DEF TypeInv
<1> QED BY <1>1, <1>2, PTL DEF CaptureSpec

\* The three tasks of capture_session keep their types, whatever the faults,
\* crashes and restarts.
LEMMA CaptureTypeCorrect == CaptureSpec => []CaptureTypeOK
<1>1. TypeInv => CaptureTypeOK
  BY DEF TypeInv
<1> QED BY <1>1, TypeInvariant, PTL

(***************************************************************************)
(* The hand-over at the end: the session drops its sender when it ends, a  *)
(* writer that leaves its loop without an error has emptied the sink by    *)
(* then, and one that did not has closed it.                               *)
(***************************************************************************)
JoinInv ==
    /\ pc = "ended" <=> ~sink.tx
    /\ wpc \in {"drain", "report"} \/ (wpc = "done" /\ ~halt) =>
          sink.q = <<>> /\ ~sink.tx
    /\ halt => wpc = "done"
    /\ halt \/ wpc = "failed" => sink.q = <<>> /\ ~sink.rx
    /\ mpc # "session" => pc = "ended"
    /\ mpc = "returned" /\ result = "Ok" => wpc = "done" /\ ~halt

\* What a step of run_session does to the sink and to the history.
Forwards == \E f \in Frames : Forward(f) /\ pc = "send" /\ pc' # "ended"
EndsSession ==
    /\ pc # "ended" /\ pc' = "ended"
    /\ sink' = DropTx(sink)
    /\ UNCHANGED <<book, cur>>
Quiet == UNCHANGED <<sink, book, cur>> /\ (pc' = "ended" <=> pc = "ended")

LEMMA SessionEffect ==
    ASSUME TypeOK, SessionNext PROVE Forwards \/ EndsSession \/ Quiet
<1>1. ASSUME NEW s \in Streams, SendGap(s) PROVE Forwards
  BY <1>1, MarkerTypes DEF SendGap, Forwards
<1>2. CASE SendFrame
  BY <1>2 DEF SendFrame, Forwards, TypeOK
<1>3. CASE ObserveShutdown \/ SinkClosed \/ Closed
  <2>1. ASSUME NEW reason, End(reason), pc # "ended" PROVE EndsSession
    BY <2>1 DEF End, EndsSession, historyVars
  <2>2. ASSUME NEW reason, Leave(reason), pc # "ended" PROVE Quiet
    BY <2>2 DEF Leave, Quiet, historyVars
  <2>3. CASE Closed /\ end = "none"
    BY <2>3 DEF Closed, Quiet, historyVars
  <2> QED BY <1>3, <2>1, <2>2, <2>3 DEF ObserveShutdown, SinkClosed, Closed
<1>4. CASE \/ Connect \/ ConnectFails \/ BackoffOver \/ Disconnect \/ ReadAgain
           \/ RequestShutdown
  BY <1>4 DEF Connect, ConnectFails, BackoffOver, Disconnect, Leave, ReadAgain,
              RequestShutdown, Quiet, historyVars, sessionVars
<1>5. CASE FeedStep
  BY <1>5 DEF FeedStep, ReadFrame, ReadUndecodable, LoseFrame, ReadRepeat, ReadControl,
              ReadPing, MarketMoves, HandleData, HandleUntracked, Quiet, historyVars, sessionVars
<1> QED BY <1>1, <1>2, <1>3, <1>4, <1>5 DEF SessionNext, SessionStep

LEMMA ChannelFacts ==
    ASSUME NEW ch \in SinkType
    PROVE  /\ DropRx(ch).q = <<>> /\ ~DropRx(ch).rx /\ DropRx(ch).tx = ch.tx
           /\ DropTx(ch).q = ch.q /\ DropTx(ch).rx = ch.rx /\ ~DropTx(ch).tx
           /\ \A f : /\ Push(ch, f).q = Append(ch.q, f)
                     /\ Push(ch, f).tx = ch.tx /\ Push(ch, f).rx = ch.rx
           /\ Pop(ch).q = Tail(ch.q) /\ Pop(ch).tx = ch.tx /\ Pop(ch).rx = ch.rx
  BY DEF SinkType, DropRx, DropTx, Push, Pop

LEMMA JoinStep == ASSUME TypeInv, JoinInv, [CaptureNext]_captureVars PROVE JoinInv'
<1>1. /\ TypeOK /\ sink \in SinkType
      /\ wpc \in {"start", "run", "drain", "report", "done", "failed"}
      /\ halt \in BOOLEAN
      /\ mpc \in {"session", "join", "returned"}
  BY DEF TypeInv, CaptureTypeOK, PipeType, TypeOK
<1>2. CASE SessionNext /\ UNCHANGED Others
  <2>1. UNCHANGED <<wpc, halt, mpc, result>>
    BY <1>2 DEF Others, writerSide, mainSide
  <2>2. CASE Forwards
    <3>1. PICK f \in Frames : Forward(f) /\ pc = "send" /\ pc' # "ended"
      BY <2>2 DEF Forwards
    <3>2. sink.rx /\ sink' = Push(sink, f) /\ sink'.tx = sink.tx /\ sink'.rx = sink.rx
      <4>1. sink.rx /\ sink' = Push(sink, f)
        BY <3>1 DEF Forward, CanSend
      <4>2. Push(sink, f).tx = sink.tx /\ Push(sink, f).rx = sink.rx
        BY <1>1 DEF Push, SinkType
      <4> QED BY <4>1, <4>2
    <3>3. sink.tx /\ mpc = "session"
      <4>1. pc # "ended" /\ sink.tx \in BOOLEAN
        BY <1>1, <3>1 DEF SinkType
      <4> QED BY <4>1 DEF JoinInv
    <3>4. ~halt /\ wpc \notin {"drain", "report", "done", "failed"}
      BY <3>2, <3>3 DEF JoinInv
    <3>5. wpc \in {"start", "run"}
      BY <1>1, <3>4
    <3> QED BY <2>1, <3>1, <3>2, <3>3, <3>4, <3>5 DEF JoinInv
  <2>3. CASE EndsSession
    <3>1. pc' = "ended" /\ ~sink'.tx /\ sink'.q = sink.q /\ sink'.rx = sink.rx
      BY <1>1, <2>3, ChannelFacts DEF EndsSession
    <3> QED BY <2>1, <3>1 DEF JoinInv
  <2>4. CASE Quiet
    BY <2>1, <2>4 DEF Quiet, JoinInv
  <2> QED BY <1>1, <1>2, <2>2, <2>3, <2>4, SessionEffect
<1>3. CASE WriterMoves
  <2>1. UNCHANGED <<pc, mpc, result>>
    BY <1>3 DEF WriterMoves, sessionSide, mainSide
  <2>2. DropRx(sink).q = <<>> /\ ~DropRx(sink).rx /\ DropRx(sink).tx = sink.tx
    BY <1>1, ChannelFacts
  <2>3. Pop(sink).tx = sink.tx /\ Pop(sink).rx = sink.rx
    BY <1>1, ChannelFacts
  <2>4. ASSUME wpc \in {"run", "drain"}, Halts PROVE JoinInv'
    BY <1>1, <2>1, <2>2, <2>4 DEF Halts, JoinInv
  <2>5. CASE FrameWritten
    <3>1. ASSUME sink' = Pop(sink), UNCHANGED <<wpc, halt>> PROVE JoinInv'
      BY <1>1, <2>1, <2>3, <2>5, <3>1 DEF FrameWritten, JoinInv
    <3> QED BY <2>4, <2>5, <3>1 DEF FrameWritten, Written
  <2>6. CASE BookWritten
    <3>1. ASSUME sink' = sink, UNCHANGED <<wpc, halt>> PROVE JoinInv'
      BY <2>1, <3>1 DEF JoinInv
    <3> QED BY <2>4, <2>6, <3>1 DEF BookWritten, Written
  <2>7. CASE ControlTaken
    BY <1>1, <2>1, <2>3, <2>7 DEF ControlTaken, JoinInv
  <2>8. CASE WriterTurns
    BY <1>1, <2>1, <2>8 DEF WriterTurns, AtEnd, JoinInv
  <2>9. CASE WriterReturns
    BY <1>1, <2>1, <2>2, <2>9 DEF WriterReturns, JoinInv
  <2> QED BY <1>3, <2>5, <2>6, <2>7, <2>8, <2>9, WriterEffect DEF WriterMoves
<1>4. CASE SessionOver
  BY <1>4 DEF SessionOver, JoinInv, sessionSide, writerSide
<1>5. CASE Join
  BY <1>1, <1>5 DEF Join, JoinInv, sessionSide, writerSide
<1>6. CASE Crash
  BY <1>6 DEF Crash, W!StoreCrash, NewChan, JoinInv
<1>7. CASE SweepMoves \/ DiskMoves \/ UNCHANGED captureVars
  BY <1>7 DEF SweepMoves, DiskMoves, W!DiskTurns, captureVars, sessionSide, writerSide,
              mainSide, JoinInv
<1> QED BY <1>2, <1>3, <1>4, <1>5, <1>6, <1>7, CaptureSteps

(***************************************************************************)
(* Torn tails.  A log ends torn only after a failed append, which halts    *)
(* the writer, or after a crash.                                           *)
(***************************************************************************)
TornInv ==
    /\ crashes > 0 => "crash" \in Faults
    /\ \A s \in LogStreams :
          EndsTorn(log[s]) => "tear" \in Faults /\ (halt \/ crashes > 0)

\* A record added at the end of a log leaves it whole.
LEMMA AppendWhole ==
    ASSUME NEW lines \in Seq(W!Lines), NEW r \in Records, NEW out \in Appended(lines, r)
    PROVE  /\ ~EndsTorn(out)
           /\ ~EndsTorn(lines) => out = Append(lines, r)
<1>1. Storable(W!Lines, r)
  BY RecordStorable
<1>2. out = Append(lines, r) \/ (EndsTorn(lines) /\ out = Append(Front(lines), Line("bad", r.s)))
  BY DEF Appended
<1>3. CASE out = Append(lines, r)
  <2>1. Last(out) = r /\ r.kind # "torn"
    BY <1>1, <1>3, LineAdded DEF Storable
  <2> QED BY <1>3, <2>1 DEF EndsTorn
<1>4. CASE EndsTorn(lines) /\ out = Append(Front(lines), Line("bad", r.s))
  <2>1. Front(lines) \in Seq(W!Lines)
    <3>1. \A k \in 1 .. Len(lines) - 1 : lines[k] \in W!Lines
      OBVIOUS
    <3>2. Len(lines) - 1 \in Int /\ 1 \in Int
      OBVIOUS
    <3> QED BY <3>1, <3>2, SubSeqProperties DEF Front
  <2>2. Line("bad", r.s) \in W!Lines
    BY <1>1 DEF Storable
  <2>3. Last(out) = Line("bad", r.s)
    BY <1>4, <2>1, <2>2, LineAdded
  <2> QED BY <1>4, <2>3 DEF EndsTorn, Line
<1> QED BY <1>2, <1>3, <1>4

LEMMA TornStep ==
    ASSUME TypeInv, JoinInv, TornInv, [CaptureNext]_captureVars PROVE TornInv'
<1>1. /\ log \in [LogStreams -> Seq(W!Lines)] /\ crashes \in Nat
      /\ crashes > 0 => "crash" \in Faults
      /\ \A s \in LogStreams :
            EndsTorn(log[s]) => "tear" \in Faults /\ (halt \/ crashes > 0)
  BY DEF TypeInv, PipeType, TornInv
<1>2. ASSUME NEW r \in Records, NEW sk, NEW vc, Written(r, sk, vc), ~halt,
             crashes' = crashes
      PROVE  TornInv'
  <2>1. r.s \in LogStreams /\ log[r.s] \in Seq(W!Lines)
    BY <1>1, RecordStorable
  <2>2. CASE Stored(r)
    <3>1. PICK lines \in Appended(log[r.s], r) : log' = [log EXCEPT ![r.s] = lines]
      BY <2>2 DEF Stored
    <3>2. ~EndsTorn(lines)
      BY <2>1, AppendWhole
    <3>3. \A s \in LogStreams : log'[s] = IF s = r.s THEN lines ELSE log[s]
      BY <1>1, <2>1, <3>1
    <3>4. \A s \in LogStreams :
              EndsTorn(log'[s]) => "tear" \in Faults /\ crashes > 0
      BY <1>1, <1>2, <3>2, <3>3
    <3> QED BY <1>1, <1>2, <3>4 DEF TornInv
  <2>3. CASE Failed(r) /\ Halts
    <3>1. PICK lines \in AppendFailed(log[r.s], r, "tear" \in Faults) :
               log' = [log EXCEPT ![r.s] = lines]
      BY <2>3 DEF Failed
    <3>2. EndsTorn(lines) => "tear" \in Faults
      <4>1. \/ lines = log[r.s] \/ lines \in Appended(log[r.s], r)
            \/ "tear" \in Faults
        BY <3>1 DEF AppendFailed
      <4> QED BY <1>1, <2>1, <4>1, AppendWhole
    <3>3. \A s \in LogStreams : log'[s] = IF s = r.s THEN lines ELSE log[s]
      BY <1>1, <2>1, <3>1
    <3>4. \A s \in LogStreams : EndsTorn(log'[s]) => "tear" \in Faults
      BY <1>1, <3>2, <3>3
    <3> QED BY <1>1, <1>2, <2>3, <3>4 DEF Halts, TornInv
  <2> QED BY <1>2, <2>2, <2>3 DEF Written
<1>3. CASE WriterMoves
  <2>1. crashes' = crashes
    BY <1>3 DEF WriterMoves, mainSide
  <2>2. wpc \in {"run", "drain"} => ~halt
    BY DEF JoinInv
  <2>3. CASE FrameWritten
    <3>1. Head(sink.q) \in Records
      BY <2>3, SinkFrames DEF FrameWritten, TypeInv, CaptureTypeOK
    <3> QED BY <1>2, <2>1, <2>2, <2>3, <3>1 DEF FrameWritten
  <2>4. CASE BookWritten
    <3>1. Head(vchan.q) \in Records
      BY <2>4, SweepChanTypes DEF BookWritten, SweepRecords, TypeInv, PipeType
    <3> QED BY <1>2, <2>1, <2>2, <2>4, <3>1 DEF BookWritten
  <2>5. CASE ControlTaken \/ WriterTurns \/ WriterReturns
    BY <1>1, <2>1, <2>5 DEF ControlTaken, WriterTurns, WriterReturns, TornInv
  <2> QED BY <1>3, <2>3, <2>4, <2>5, WriterEffect DEF WriterMoves
<1>4. CASE Crash
  <2>1. crashes' > 0 /\ "crash" \in Faults
    BY <1>1, <1>4 DEF Crash, W!StoreCrash
  <2>2. CASE log' = log
    BY <1>1, <2>1, <2>2 DEF TornInv
  <2>3. CASE CutShort
    BY <2>1, <2>3 DEF CutShort, TornInv
  <2> QED BY <1>4, <2>2, <2>3, CrashLog DEF Crash
<1>5. CASE \/ SessionNext /\ UNCHANGED Others
           \/ SweepMoves \/ DiskMoves \/ SessionOver \/ Join \/ UNCHANGED captureVars
  <2>1. UNCHANGED <<log, halt, crashes>>
    BY <1>5 DEF Others, SweepMoves, DiskMoves, W!DiskTurns, SessionOver, Join,
                captureVars, writerSide, mainSide
  <2> QED BY <1>1, <2>1 DEF TornInv
<1> QED BY <1>3, <1>4, <1>5, CaptureSteps

(***************************************************************************)
(* What a reader of the logs meets.                                        *)
(***************************************************************************)
\* A record that is neither data nor a gap marker leaves a reader alone, and
\* so does a record of another stream.
LEMMA ReadsNothing ==
    ASSUME NEW s, NEW r \in Reader, NEW f,
           f.s # s \/ f.kind \notin {"snapshot", "delta", "trade", "gap"}
    PROVE  Reads(s, r, f) = r
<1>1. CASE f.s # s
  BY <1>1 DEF Reads
<1>2. CASE f.s = s /\ f.kind \notin {"snapshot", "delta", "trade", "gap"}
  <2>1. Apply(r.book, f) = r.book /\ Version(r.version, f) = r.version
    BY <1>2 DEF Apply, Version
  <2>2. r = [book |-> r.book, version |-> r.version]
    BY DEF Reader
  <2> QED BY <1>2, <2>1, <2>2 DEF Reads
<1> QED BY <1>1, <1>2

\* One more line in a log is one more record for its reader.
LEMMA LoggedAppend ==
    ASSUME NEW lines \in Seq(W!Lines), NEW x \in W!Lines, NEW s, NEW out,
           out = IF x.s = s THEN Append(lines, x) ELSE lines
    PROVE  After(s, NewReader, out, Len(out))
             = Reads(s, After(s, NewReader, lines, Len(lines)), x)
<1>1. CASE s # x.s
  BY <1>1 DEF Reads
<1>2. CASE s = x.s
  BY <1>2, AfterAppend
<1> QED BY <1>1, <1>2

LEMMA ReadersOfLogs ==
    ASSUME TypeInv, NEW s \in Streams
    PROVE  Logged(s) \in Reader /\ Arriving(s, 0) = Logged(s)
<1>1. log[s] \in Seq(W!Lines)
  BY DEF TypeInv, PipeType, LogStreams
<1> QED BY <1>1, LoggedType, AfterNone DEF Logged, Arriving

\* The records on their way, after a record is stored, received or forwarded.
LEMMA StoredRead ==
    ASSUME TypeInv, NEW r \in Records, ~EndsTorn(log[r.s]), Stored(r)
    PROVE  \A s \in Streams : Logged(s)' = Reads(s, Logged(s), r)
<1>1. /\ log \in [LogStreams -> Seq(W!Lines)] /\ r.s \in LogStreams /\ r \in W!Lines
      /\ log[r.s] \in Seq(W!Lines)
  BY RecordStorable DEF TypeInv, PipeType, Storable
<1>2. log' = [log EXCEPT ![r.s] = Append(log[r.s], r)]
  BY <1>1, AppendWhole DEF Stored
<1> SUFFICES ASSUME NEW s \in Streams PROVE Logged(s)' = Reads(s, Logged(s), r)
  OBVIOUS
<1> DEFINE lines == log[s]
           out == log'[s]
<1>3. lines \in Seq(W!Lines) /\ out = IF r.s = s THEN Append(lines, r) ELSE lines
  BY <1>1, <1>2 DEF LogStreams
<1>4. After(s, NewReader, out, Len(out))
        = Reads(s, After(s, NewReader, lines, Len(lines)), r)
  <2> HIDE DEF lines, out
  <2> QED BY <1>1, <1>3, LoggedAppend
<1> QED BY <1>4 DEF Logged

LEMMA SinkReceived ==
    ASSUME TypeInv, sink.q # <<>>, sink' = Pop(sink), NEW s \in Streams,
           Logged(s)' = Reads(s, Logged(s), Head(sink.q))
    PROVE  /\ Len(sink'.q) \in Nat /\ Len(sink.q) = Len(sink'.q) + 1
           /\ \A n \in 0 .. Len(sink'.q) : Arriving(s, n)' = Arriving(s, n + 1)
<1>1. sink.q \in Seq(Frames) /\ sink'.q = Tail(sink.q)
  BY SinkFrames DEF TypeInv, CaptureTypeOK
<1>2. /\ Len(sink.q) \in Nat \ {0} /\ Len(Tail(sink.q)) = Len(sink.q) - 1
      /\ \A n \in 0 .. Len(sink.q) - 1 :
            After(s, Reads(s, Logged(s), Head(sink.q)), Tail(sink.q), n)
              = After(s, Logged(s), sink.q, n + 1)
  BY <1>1, AfterTail
<1>3. Len(sink'.q) = Len(sink.q) - 1
  BY <1>1, <1>2
<1>4. \A n \in 0 .. Len(sink'.q) : Arriving(s, n)' = Arriving(s, n + 1)
  BY <1>1, <1>2, <1>3 DEF Arriving
<1> QED BY <1>2, <1>3, <1>4

LEMMA SinkSent ==
    ASSUME TypeInv, NEW f \in Frames, Forward(f), log' = log, NEW s \in Streams
    PROVE  /\ Len(sink.q) \in Nat /\ Len(sink'.q) = Len(sink.q) + 1
           /\ \A n \in 0 .. Len(sink.q) : Arriving(s, n)' = Arriving(s, n)
           /\ Arriving(s, Len(sink.q))' = Reads(s, Arriving(s, Len(sink.q)), f)
<1>1. /\ sink.q \in Seq(Frames) /\ sink'.q = Append(sink.q, f) /\ Len(sink.q) \in Nat
  BY ChannelFacts DEF Forward, TypeInv, CaptureTypeOK, TypeOK, SinkType
<1>2. Logged(s)' = Logged(s)
  BY DEF Logged
<1>3. /\ \A n \in 0 .. Len(sink.q) :
            After(s, Logged(s), Append(sink.q, f), n) = After(s, Logged(s), sink.q, n)
      /\ Len(Append(sink.q, f)) = Len(sink.q) + 1
      /\ After(s, Logged(s), Append(sink.q, f), Len(sink.q) + 1)
           = Reads(s, After(s, Logged(s), sink.q, Len(sink.q)), f)
  BY <1>1, AfterAppend
<1>4. Len(sink'.q) = Len(sink.q) + 1
  BY <1>1, <1>3
<1>5. \A n \in 0 .. Len(sink.q) : Arriving(s, n)' = Arriving(s, n)
  BY <1>1, <1>2, <1>3 DEF Arriving
<1>6. Arriving(s, Len(sink.q))' = Reads(s, Arriving(s, Len(sink.q)), f)
  BY <1>1, <1>2, <1>3, <1>4 DEF Arriving
<1> QED BY <1>1, <1>4, <1>5, <1>6

LEMMA SinkAlone ==
    ASSUME sink'.q = sink.q, NEW s, Logged(s)' = Logged(s)
    PROVE  \A n : Arriving(s, n)' = Arriving(s, n)
  BY DEF Arriving

(***************************************************************************)
(* The flow of records.  Unless the writer gave up, or a crash may have    *)
(* left a torn tail, the log and the sink together hold what was forwarded.*)
(***************************************************************************)
TornCrash == crashes > 0 /\ {"crash", "tear"} \subseteq Faults
Excused == halt \/ wpc = "failed" \/ TornCrash
Forwarded(s) == [book |-> book[s], version |-> cur[s]]
FlowInv == Excused \/ \A s \in Streams : Arriving(s, Len(sink.q)) = Forwarded(s)

\* Nothing is glued to a torn tail then.
LEMMA WholeTails ==
    ASSUME TornInv, ~halt, ~TornCrash, NEW s \in LogStreams PROVE ~EndsTorn(log[s])
  BY DEF TornInv, TornCrash

LEMMA FlowStep ==
    ASSUME TypeInv, JoinInv, TornInv, FlowInv, [CaptureNext]_captureVars PROVE FlowInv'
<1>1. /\ TypeOK /\ sink \in SinkType
      /\ \A s \in Streams : Logged(s) \in Reader
  BY ReadersOfLogs DEF TypeInv, CaptureTypeOK, TypeOK
<1>2. ASSUME UNCHANGED <<book, cur>>, sink'.q = sink.q,
             \A s \in Streams : Logged(s)' = Logged(s), Excused => Excused'
      PROVE  FlowInv'
  BY <1>2, SinkAlone DEF FlowInv, Forwarded
<1>3. CASE SessionNext /\ UNCHANGED Others
  <2>1. UNCHANGED <<log, wpc, halt, crashes>>
    BY <1>3 DEF Others, writerSide, mainSide
  <2>2. (Excused <=> Excused') /\ \A s \in Streams : Logged(s)' = Logged(s)
    BY <2>1 DEF Excused, TornCrash, Logged
  <2>3. CASE Forwards
    <3>1. PICK f \in Frames : Forward(f)
      BY <2>3 DEF Forwards
    <3>2. CASE Excused
      BY <2>2, <3>2 DEF FlowInv
    <3>3. ASSUME ~Excused, NEW s \in Streams
          PROVE  Arriving(s, Len(sink.q))' = Forwarded(s)'
      <4>1. Arriving(s, Len(sink.q)) = Forwarded(s)
        BY <3>3 DEF FlowInv
      <4>2. Arriving(s, Len(sink.q))' = Reads(s, Arriving(s, Len(sink.q)), f)
        BY <2>1, <3>1, SinkSent
      <4>3. Reads(s, Forwarded(s), f) = Forwarded(s)'
        BY <1>1, <3>1 DEF Forward, Reads, Forwarded, TypeOK, historyVars
      <4> QED BY <4>1, <4>2, <4>3
    <3> QED BY <3>2, <3>3 DEF FlowInv
  <2>4. CASE EndsSession
    <3>1. sink'.q = sink.q /\ UNCHANGED <<book, cur>>
      BY <1>1, <2>4, ChannelFacts DEF EndsSession
    <3> QED BY <1>2, <2>2, <3>1
  <2>5. CASE Quiet
    BY <1>2, <2>2, <2>5 DEF Quiet
  <2> QED BY <1>1, <1>3, <2>3, <2>4, <2>5, SessionEffect
<1>4. CASE WriterMoves
  <2>1. UNCHANGED <<book, cur, crashes>>
    BY <1>4 DEF WriterMoves, sessionSide, mainSide
  <2>2. ASSUME TornCrash PROVE FlowInv'
    BY <2>1, <2>2 DEF FlowInv, Excused, TornCrash
  <2>3. ASSUME Halts PROVE FlowInv'
    BY <2>3 DEF Halts, FlowInv, Excused
  <2>4. ASSUME ~Excused, sink.q # <<>>, sink' = Pop(sink),
               \A s \in Streams : Logged(s)' = Reads(s, Logged(s), Head(sink.q))
        PROVE  FlowInv'
    <3> SUFFICES ASSUME NEW s \in Streams
                 PROVE  Arriving(s, Len(sink.q))' = Forwarded(s)'
      BY DEF FlowInv
    <3> DEFINE m == Len(sink'.q)
    <3>1. /\ m \in Nat /\ Len(sink.q) = m + 1
          /\ \A n \in 0 .. m : Arriving(s, n)' = Arriving(s, n + 1)
      BY <2>4, SinkReceived
    <3>2. Arriving(s, Len(sink.q)) = Forwarded(s)
      BY <2>4 DEF FlowInv
    <3>3. Forwarded(s)' = Forwarded(s)
      BY <2>1 DEF Forwarded
    <3>4. m \in 0 .. m
      BY <3>1
    <3>5. After(s, Logged(s)', sink'.q, m) = Arriving(s, m + 1)
      BY <3>1, <3>4 DEF Arriving
    <3> QED BY <3>1, <3>2, <3>3, <3>5 DEF Arriving
  <2>5. CASE FrameWritten
    <3>1. CASE ~halt /\ wpc # "failed" /\ ~TornCrash /\ ~Halts
      <4>1. /\ Stored(Head(sink.q)) /\ sink.q # <<>> /\ sink' = Pop(sink)
            /\ Head(sink.q) \in Records
        BY <1>1, <2>5, <3>1, SinkFrames DEF FrameWritten, Written
      <4>2. ~EndsTorn(log[Head(sink.q).s])
        BY <3>1, <4>1, WholeTails, RecordStorable
      <4>3. \A s \in Streams : Logged(s)' = Reads(s, Logged(s), Head(sink.q))
        BY <4>1, <4>2, StoredRead
      <4> QED BY <2>4, <3>1, <4>1, <4>3 DEF Excused
    <3> QED BY <2>2, <2>3, <2>5, <3>1 DEF FrameWritten, JoinInv
  <2>6. CASE BookWritten
    <3>1. CASE ~halt /\ wpc # "failed" /\ ~TornCrash /\ ~Halts
      <4>1. /\ Stored(Head(vchan.q)) /\ sink' = sink
            /\ Head(vchan.q) \in Records /\ Head(vchan.q).kind \in {"verify", "raw"}
        BY <2>6, <3>1, SweepChanTypes
           DEF BookWritten, Written, TypeInv, PipeType, SweepRecords
      <4>2. ~EndsTorn(log[Head(vchan.q).s])
        BY <3>1, <4>1, WholeTails, RecordStorable
      <4>3. \A s \in Streams : Logged(s)' = Reads(s, Logged(s), Head(vchan.q))
        BY <4>1, <4>2, StoredRead
      <4>4. \A s \in Streams : Logged(s)' = Logged(s)
        BY <1>1, <4>1, <4>3, ReadsNothing
      <4> QED BY <1>2, <2>1, <3>1, <4>1, <4>4 DEF Excused
    <3> QED BY <2>2, <2>3, <2>6, <3>1 DEF BookWritten, JoinInv
  <2>7. CASE ControlTaken
    <3>1. \A s \in Streams : Logged(s)' = Logged(s)
      BY <2>7 DEF ControlTaken, Logged
    <3>2. \A s \in Streams : Logged(s)' = Reads(s, Logged(s), Head(sink.q))
      BY <1>1, <2>7, <3>1, ReadsNothing DEF ControlTaken
    <3>3. CASE Excused
      BY <2>1, <2>7, <3>3 DEF ControlTaken, FlowInv, Excused, TornCrash
    <3>4. CASE ~Excused
      BY <2>4, <2>7, <3>2, <3>4 DEF ControlTaken
    <3> QED BY <3>3, <3>4
  <2>8. CASE WriterTurns
    <3>1. \A s \in Streams : Logged(s)' = Logged(s)
      BY <2>8 DEF WriterTurns, Logged
    <3>2. Excused => Excused'
      BY <2>1, <2>8 DEF WriterTurns, Excused, TornCrash
    <3> QED BY <1>2, <2>1, <2>8, <3>1, <3>2 DEF WriterTurns
  <2>9. CASE WriterReturns
    <3>1. CASE wpc' = "failed"
      BY <3>1 DEF FlowInv, Excused
    <3>2. CASE wpc = "report"
      <4>1. \A s \in Streams : Logged(s)' = Logged(s)
        BY <2>9 DEF WriterReturns, Logged
      <4>2. Excused => Excused'
        BY <2>1, <2>9, <3>2 DEF WriterReturns, Excused, TornCrash
      <4>3. sink'.q = sink.q
        BY <1>1, <2>9, <3>2, ChannelFacts DEF WriterReturns, JoinInv
      <4> QED BY <1>2, <2>1, <4>1, <4>2, <4>3
    <3> QED BY <2>9, <3>1, <3>2 DEF WriterReturns
  <2> QED BY <1>4, <2>5, <2>6, <2>7, <2>8, <2>9, WriterEffect DEF WriterMoves
<1>5. CASE Crash
  <2>1. log' \in [LogStreams -> Seq(W!Lines)]
    BY <1>5, CrashLogType DEF Crash
  <2>2. \A s \in Streams : Logged(s)' \in Reader
    <3>1. \A s \in Streams : log'[s] \in Seq(W!Lines)
      BY <2>1 DEF LogStreams
    <3> QED BY <3>1, LoggedType DEF Logged
  <2>3. \A s \in Streams : Forwarded(s)' = Logged(s)'
    BY <1>5, <2>2 DEF Crash, Forwarded, Reader
  <2>4. Len(sink'.q) = 0
    BY <1>5 DEF Crash, NewChan
  <2>5. \A s \in Streams : Arriving(s, Len(sink.q))' = Logged(s)'
    BY <2>4, AfterNone DEF Arriving
  <2> QED BY <2>3, <2>5 DEF FlowInv
<1>6. CASE SweepMoves \/ DiskMoves \/ SessionOver \/ Join \/ UNCHANGED captureVars
  <2>1. UNCHANGED <<book, cur, sink, log, wpc, halt, crashes>>
    BY <1>6 DEF SweepMoves, DiskMoves, W!DiskTurns, SessionOver, Join, captureVars,
                sessionSide, writerSide, mainSide
  <2>2. (Excused => Excused') /\ \A s \in Streams : Logged(s)' = Logged(s)
    BY <2>1 DEF Excused, TornCrash, Logged
  <2> QED BY <1>2, <2>1, <2>2
<1> QED BY <1>3, <1>4, <1>5, <1>6, CaptureSteps

CaptureInv == TypeInv /\ JoinInv /\ TornInv /\ FlowInv

LEMMA CaptureInvInit == ASSUME CaptureInit PROVE CaptureInv
<1>1. /\ sink = NewChan /\ pc = "connecting" /\ wpc = "start" /\ halt = FALSE
      /\ mpc = "session" /\ result = "none" /\ crashes = 0
      /\ log = [s \in LogStreams |-> <<>>]
      /\ book = [s \in Streams |-> None] /\ cur = [s \in Streams |-> 0]
  BY DEF CaptureInit, Init, SessionInit, W!WriterInit, W!StoreInit
<1>2. JoinInv
  BY <1>1 DEF JoinInv, NewChan
<1>3. TornInv
  BY <1>1 DEF TornInv, EndsTorn
<1>4. FlowInv
  <2>1. sink.q = <<>> /\ Len(sink.q) = 0
    BY <1>1 DEF NewChan
  <2> SUFFICES ASSUME NEW s \in Streams PROVE Arriving(s, Len(sink.q)) = Forwarded(s)
    BY DEF FlowInv
  <2>2. log[s] = <<>> /\ Len(log[s]) = 0
    BY <1>1 DEF LogStreams
  <2>3. Logged(s) = NewReader
    BY <2>2, AfterNone DEF Logged
  <2>4. Arriving(s, Len(sink.q)) = Logged(s)
    BY <2>1, AfterNone DEF Arriving
  <2> QED BY <1>1, <2>3, <2>4 DEF Forwarded, NewReader
<1> QED BY <1>2, <1>3, <1>4, TypeInvInit DEF CaptureInv

LEMMA CaptureInvariant == CaptureSpec => []CaptureInv
<1>1. CaptureInit => CaptureInv
  BY CaptureInvInit
<1>2. CaptureInv /\ [CaptureNext]_captureVars => CaptureInv'
  BY CaptureTypeStep, PipeTypeStep, JoinStep, TornStep, FlowStep DEF CaptureInv, TypeInv
<1> QED BY <1>1, <1>2, PTL DEF CaptureSpec

\* No record that run_session forwarded is lost between the sink and the file,
\* reordered or written twice, for a capture of any size, unless the writer
\* gave up.  On a machine where a crash can cut a line short the promise ends
\* at the crash: one record is then glued to the torn tail.
THEOREM ForwardedIsKept ==
    ~({"crash", "tear"} \subseteq Faults) => (CaptureSpec => []NothingForwardedIsLost)
<1> SUFFICES ASSUME ~({"crash", "tear"} \subseteq Faults)
             PROVE  CaptureSpec => []NothingForwardedIsLost
  OBVIOUS
<1>1. CaptureInv => NothingForwardedIsLost
  BY DEF CaptureInv, FlowInv, Excused, TornCrash, Forwarded, NothingForwardedIsLost
<1> QED BY <1>1, CaptureInvariant, PTL

\* capture_session returns Ok only with every forwarded record on disk: by then
\* the writer has drained the sink, whose sender is gone.
THEOREM OkIsComplete ==
    ~({"crash", "tear"} \subseteq Faults) => (CaptureSpec => []OkMeansComplete)
<1> SUFFICES ASSUME ~({"crash", "tear"} \subseteq Faults)
             PROVE  CaptureSpec => []OkMeansComplete
  OBVIOUS
<1>1. CaptureInv => OkMeansComplete
  <2> SUFFICES ASSUME CaptureInv, result = "Ok", mpc = "returned", NEW s \in Streams
               PROVE  Logged(s) = [book |-> book[s], version |-> cur[s]]
    BY DEF OkMeansComplete
  <2>1. wpc = "done" /\ ~halt /\ sink.q = <<>>
    BY DEF CaptureInv, JoinInv
  <2>2. Arriving(s, Len(sink.q)) = [book |-> book[s], version |-> cur[s]]
    BY <2>1 DEF CaptureInv, FlowInv, Excused, TornCrash, Forwarded
  <2>3. Len(sink.q) = 0
    BY <2>1
  <2> QED BY <2>2, <2>3, ReadersOfLogs DEF CaptureInv
<1> QED BY <1>1, CaptureInvariant, PTL

(***************************************************************************)
(* The end of the sweep.  Until the writer returns, every outcome the      *)
(* channel took is written or still in it; a drain that finds the channel  *)
(* empty has written all of them, those offered before the session ended   *)
(* among them.                                                             *)
(***************************************************************************)
HandInv ==
    /\ verified \in Nat
    /\ due <= offered
    /\ wpc \in {"start", "run", "drain", "report"} => offered = verified + Len(vchan.q)
    /\ wpc = "report" \/ (wpc = "done" /\ ~halt) => verified >= due

\* A step of the writer takes a book from the channel and counts it, leaves the
\* channel alone, or gives up.
BookTaken ==
    /\ wpc \in {"run", "drain"} /\ vchan.q # <<>>
    /\ verified' = verified + 1
    /\ Halts \/ (vchan' = Pop(vchan) /\ UNCHANGED <<wpc, halt>>)
NoBookTaken ==
    /\ verified' = verified
    /\ \/ wpc \in {"start", "run"} /\ (Halts \/ wpc' = "failed")
       \/ wpc \in {"start", "run"} /\ wpc' \in {"run", "drain"} /\ UNCHANGED <<vchan, halt>>
       \/ wpc = "drain" /\ vchan.q = <<>> /\ wpc' = "report" /\ UNCHANGED <<vchan, halt>>
       \/ wpc = "report" /\ wpc' = "done" /\ UNCHANGED halt

LEMMA BooksTaken == ASSUME W!WriterStep PROVE BookTaken \/ NoBookTaken
<1>1. CASE W!RecvVerify
  BY <1>1, PersistEffect, SameChannels DEF W!RecvVerify, Written, BookTaken
<1>2. CASE W!Drain
  BY <1>2, SameChannels DEF W!Drain, W!Halt, Halts, BookTaken
<1>3. CASE W!RecvEvent
  <2>1. CASE Head(sink.q).kind = "control"
    BY <1>3, <2>1 DEF W!RecvEvent, NoBookTaken
  <2>2. CASE Head(sink.q).kind # "control"
    BY <1>3, <2>2, PersistEffect DEF W!RecvEvent, Written, NoBookTaken
  <2> QED BY <2>1, <2>2
<1>4. CASE W!WriterStart \/ W!VerifyClosed \/ W!SinkOver \/ W!DrainOver \/ W!WriterReturns
  BY <1>4 DEF W!WriterStart, W!VerifyClosed, W!SinkOver, W!DrainOver, W!WriterReturns,
              NoBookTaken
<1> QED BY <1>1, <1>2, <1>3, <1>4 DEF W!WriterStep

LEMMA HandStep ==
    ASSUME TypeInv, JoinInv, HandInv, [CaptureNext]_captureVars
    PROVE  HandInv'
<1>1. /\ offered \in Nat /\ due \in Nat /\ verified \in Nat
      /\ vchan \in SweepChan /\ vchan.q \in Seq(SweepRecords) /\ Len(vchan.q) \in Nat
      /\ halt \in BOOLEAN
  BY DEF TypeInv, CaptureTypeOK, PipeType, SweepChan, HandInv
<1>2. CASE SessionNext /\ UNCHANGED Others /\ (due' = due \/ (pc # "ended" /\ due' = offered))
  <2>1. UNCHANGED <<wpc, halt, verified, offered, vchan>>
    BY <1>2 DEF Others, writerSide, sweepSide, taskSide
  <2>2. CASE due' = due
    BY <2>1, <2>2 DEF HandInv
  <2>3. CASE pc # "ended" /\ due' = offered
    <3>1. wpc # "report" /\ ~(wpc = "done" /\ ~halt)
      BY <2>3 DEF JoinInv
    <3> QED BY <1>1, <2>1, <2>3, <3>1 DEF HandInv
  <2> QED BY <1>2, <2>2, <2>3
<1>3. CASE SweepMoves
  <2>1. UNCHANGED <<wpc, halt, verified, due>>
    BY <1>3 DEF SweepMoves, writerSide
  <2>2. \/ offered' = offered /\ vchan'.q = vchan.q
        \/ offered' = offered + 1 /\ Len(vchan'.q) = Len(vchan.q) + 1
    <3>1. CASE V!SendItem
      <4>1. items # <<>> /\ items \in Seq(SweepRecords)
        BY <3>1 DEF V!SendItem, TypeInv, CaptureTypeOK, PipeType
      <4>2. offered' = offered + 1 /\ vchan' = Push(vchan, Head(items))
        BY <3>1, SameChannels DEF V!SendItem
      <4>3. Head(items) \in SweepRecords
        BY <4>1
      <4>4. vchan'.q = Append(vchan.q, Head(items))
        BY <1>1, <4>2 DEF Push, SweepChan
      <4> QED BY <1>1, <4>2, <4>3, <4>4
    <3>2. CASE V!NoClient \/ V!WriterGone \/ V!Cancelled
      <4>1. vchan' = DropTx(vchan) /\ offered' = offered
        BY <3>2, SameChannels DEF V!NoClient, V!WriterGone, V!Cancelled, V!Leave
      <4> QED BY <1>1, <4>1 DEF DropTx, SweepChan
    <3>3. CASE V!BuildClient \/ V!Wake \/ V!FetchFails \/ \E o \in Outcomes : V!Fetch(o)
      BY <3>3 DEF V!BuildClient, V!Wake, V!FetchFails, V!Fetch
    <3> QED BY <1>3, <3>1, <3>2, <3>3 DEF SweepMoves, V!SweepStep
  <2> QED BY <1>1, <2>1, <2>2 DEF HandInv
<1>4. CASE WriterMoves
  <2>1. UNCHANGED <<offered, due>>
    BY <1>4 DEF WriterMoves, sweepSide, taskSide
  <2>2. CASE BookTaken
    <3>1. vchan.q # <<>> => Pop(vchan).q = Tail(vchan.q) /\ Len(Tail(vchan.q)) = Len(vchan.q) - 1
      BY <1>1 DEF Pop, SweepChan
    <3>2. CASE Halts
      BY <1>1, <2>1, <2>2, <3>2 DEF BookTaken, Halts, HandInv
    <3>3. CASE vchan' = Pop(vchan) /\ UNCHANGED <<wpc, halt>>
      <4>1. Len(vchan'.q) = Len(vchan.q) - 1 /\ offered = verified + Len(vchan.q)
        BY <2>2, <3>1, <3>3 DEF BookTaken, HandInv
      <4>2. verified' = verified + 1 /\ wpc \in {"run", "drain"} /\ wpc' = wpc
        BY <2>2, <3>3 DEF BookTaken
      <4>3. offered' = verified' + Len(vchan'.q)
        <5> DEFINE n == Len(vchan.q)
                   m == Len(vchan'.q)
        <5>1. n \in Nat /\ verified \in Nat /\ m = n - 1 /\ offered = verified + n
          BY <1>1, <4>1
        <5> HIDE DEF n, m
        <5>2. verified + n = (verified + 1) + m
          BY <5>1
        <5>3. offered' = verified' + m
          BY <2>1, <4>2, <5>1, <5>2
        <5> QED BY <5>3 DEF m
      <4>4. verified' \in Nat /\ due' <= offered'
        BY <1>1, <2>1, <4>2 DEF HandInv
      <4> QED BY <4>2, <4>3, <4>4 DEF HandInv
    <3> QED BY <2>2, <3>2, <3>3 DEF BookTaken
  <2>3. CASE NoBookTaken
    <3>1. vchan.q = <<>> => Len(vchan.q) = 0
      OBVIOUS
    <3> QED BY <1>1, <2>1, <2>3, <3>1 DEF NoBookTaken, Halts, HandInv
  <2> QED BY <1>4, <2>2, <2>3, BooksTaken DEF WriterMoves
<1>5. CASE Crash
  <2>1. /\ wpc' = "start" /\ verified' = 0 /\ offered' = 0 /\ due' = 0
        /\ vchan' = V!VerifyChan
    BY <1>5 DEF Crash, W!StoreCrash
  <2>2. Len(V!VerifyChan.q) = 0
    BY DEF V!VerifyChan, V!NewChan, V!DropTx
  <2> QED BY <2>1, <2>2 DEF HandInv
<1>6. CASE DiskMoves \/ SessionOver \/ Join \/ UNCHANGED captureVars
  <2>1. UNCHANGED <<wpc, halt, verified, offered, vchan, due>>
    BY <1>6 DEF DiskMoves, W!DiskTurns, SessionOver, Join, captureVars, writerSide,
                sweepSide, taskSide
  <2> QED BY <2>1 DEF HandInv
<1> QED BY <1>2, <1>3, <1>4, <1>5, <1>6, CaptureSteps

\* Every book the sweep had handed over when run_session returned is written
\* before capture_session returns Ok, for a capture of any size and wherever
\* the abort and the drain meet.
THEOREM HandedOver == CaptureSpec => []HandedOverIsWritten
<1>1. CaptureInit => HandInv
  <2>1. Len(V!VerifyChan.q) = 0
    BY DEF V!VerifyChan, V!NewChan, V!DropTx
  <2> QED BY <2>1 DEF CaptureInit, V!SweepInit, W!WriterInit, HandInv
<1>2. CaptureInv /\ HandInv /\ [CaptureNext]_captureVars => HandInv'
  BY HandStep DEF CaptureInv
<1>3. CaptureInv /\ HandInv => HandedOverIsWritten
  BY DEF CaptureInv, JoinInv, HandInv, HandedOverIsWritten
<1> QED BY <1>1, <1>2, <1>3, CaptureInvariant, PTL DEF CaptureSpec

(***************************************************************************)
(* The logs are whole while no process died: every prefix of what is on    *)
(* its way leaves a reader whole, so a writer may stop anywhere.           *)
(***************************************************************************)
WholeInv ==
    crashes = 0 =>
        /\ IInv
        /\ \A s \in Streams : \A n \in 0 .. Len(sink.q) : Whole(Arriving(s, n))

\* The session's invariant does not see the steps of the others.
LEMMA SessionInvStep ==
    ASSUME SnapshotsLead, TypeInv, IInv, [CaptureNext]_captureVars, crashes' = 0
    PROVE  IInv'
<1>1. CASE SessionNext
  BY <1>1, IInvStep DEF TypeInv, CaptureTypeOK, Next
<1>2. CASE Crash
  BY <1>2 DEF Crash, TypeInv, PipeType
<1>3. CASE SweepMoves \/ WriterMoves \/ DiskMoves \/ SessionOver \/ Join \/ UNCHANGED captureVars
  <2>1. UNCHANGED <<feedVars, sessionVars, historyVars>>
    BY <1>3 DEF SweepMoves, WriterMoves, DiskMoves, SessionOver, Join, captureVars,
                sessionSide, feedVars, sessionVars, historyVars
  <2> QED BY <2>1, OutsideStep
<1> QED BY <1>1, <1>2, <1>3, CaptureSteps

LEMMA WholeStep ==
    ASSUME SnapshotsLead, CaptureInv, WholeInv, [CaptureNext]_captureVars
    PROVE  WholeInv'
<1> SUFFICES ASSUME crashes' = 0
             PROVE  /\ IInv'
                    /\ \A s \in Streams :
                          \A n \in 0 .. Len(sink'.q) : Whole(Arriving(s, n)')
  BY DEF WholeInv, Whole
<1>1. crashes = 0 /\ ~TornCrash
  <2>1. crashes' = crashes \/ crashes' = crashes + 1
    BY DEF CaptureNext, SessionMoves, SessionConnects, SessionReads, SweepMoves,
           WriterMoves, DiskMoves, SessionOver, Join, Crash, Others, mainSide, captureVars
  <2> QED BY <2>1 DEF CaptureInv, TypeInv, PipeType, TornCrash
<1>2. IInv /\ \A s \in Streams : \A n \in 0 .. Len(sink.q) : Whole(Arriving(s, n))
  BY <1>1 DEF WholeInv
<1>3. TypeInv /\ JoinInv /\ TornInv /\ FlowInv /\ TypeOK /\ sink \in SinkType
  BY DEF CaptureInv, TypeInv, CaptureTypeOK, TypeOK
<1>4. IInv'
  BY <1>2, <1>3, SessionInvStep
<1>5. Len(sink.q) \in Nat /\ 0 \in 0 .. Len(sink.q)
  BY <1>3 DEF SinkType
<1>6. \A s \in Streams : Logged(s) \in Reader /\ Whole(Logged(s))
  BY <1>2, <1>3, <1>5, ReadersOfLogs
<1> DEFINE Goal == \A s \in Streams : \A n \in 0 .. Len(sink'.q) : Whole(Arriving(s, n)')
<1>7. ASSUME sink'.q = <<>>, \A s \in Streams : Whole(Logged(s)') PROVE Goal
  <2> SUFFICES ASSUME NEW s \in Streams, NEW n \in 0 .. Len(sink'.q)
               PROVE  Whole(Arriving(s, n)')
    OBVIOUS
  <2>1. n = 0
    BY <1>7
  <2>2. Arriving(s, n)' = Logged(s)'
    BY <2>1, AfterNone DEF Arriving
  <2> QED BY <1>7, <2>2
<1>8. ASSUME sink'.q = sink.q, \A s \in Streams : Logged(s)' = Logged(s) PROVE Goal
  BY <1>2, <1>8, SinkAlone
<1>9. CASE SessionNext /\ UNCHANGED Others
  <2>1. log' = log
    BY <1>9 DEF Others, writerSide
  <2>2. CASE Forwards
    <3>1. PICK f \in Frames : Forward(f)
      BY <2>2 DEF Forwards
    <3> SUFFICES ASSUME NEW s \in Streams, NEW n \in 0 .. Len(sink'.q)
                 PROVE  Whole(Arriving(s, n)')
      BY <1>4
    <3>2. /\ Len(sink'.q) = Len(sink.q) + 1
          /\ \A k \in 0 .. Len(sink.q) : Arriving(s, k)' = Arriving(s, k)
      BY <1>3, <2>1, <3>1, SinkSent
    <3>3. CASE n <= Len(sink.q)
      BY <1>2, <1>5, <3>2, <3>3
    <3>4. CASE n = Len(sink.q) + 1
      <4>1. ~Excused'
        <5>1. sink.rx
          BY <3>1 DEF Forward, CanSend
        <5>2. ~halt /\ wpc # "failed"
          BY <1>3, <5>1 DEF JoinInv
        <5>3. UNCHANGED <<wpc, halt, crashes>>
          BY <1>9 DEF Others, writerSide, mainSide
        <5> QED BY <1>1, <5>2, <5>3 DEF Excused, TornCrash
      <4>2. FlowInv'
        BY <1>3, FlowStep
      <4>3. Arriving(s, Len(sink.q))' = Forwarded(s)'
        BY <4>1, <4>2 DEF FlowInv
      <4>4. After(s, Logged(s)', sink'.q, n) = Forwarded(s)'
        BY <3>2, <3>4, <4>3 DEF Arriving
      <4>5. book'[s] # None => book'[s] = cur'[s]
        BY <1>4 DEF IInv, NoSilentHole
      <4>6. Whole(Forwarded(s)')
        BY <4>5 DEF Whole, Forwarded
      <4> QED BY <4>4, <4>6 DEF Arriving
    <3> QED BY <1>5, <3>2, <3>3, <3>4
  <2>3. CASE EndsSession
    <3>1. sink'.q = sink.q
      BY <1>3, <2>3, ChannelFacts DEF EndsSession
    <3> QED BY <1>4, <1>8, <2>1, <3>1 DEF Logged
  <2>4. CASE Quiet
    BY <1>4, <1>8, <2>1, <2>4 DEF Logged, Quiet
  <2> QED BY <1>3, <1>9, <2>2, <2>3, <2>4, SessionEffect
<1>10. CASE WriterMoves
  <2>1. ASSUME NEW r \in Records, ~halt, Stored(r) \/ Failed(r),
               \A s \in Streams : Whole(Reads(s, Logged(s), r))
        PROVE  \A s \in Streams : Whole(Logged(s)')
    <3>1. r.s \in LogStreams /\ ~EndsTorn(log[r.s]) /\ log[r.s] \in Seq(W!Lines)
      BY <1>1, <1>3, <2>1, RecordStorable, WholeTails DEF TypeInv, PipeType
    <3>2. CASE Stored(r)
      BY <1>3, <2>1, <3>1, <3>2, StoredRead
    <3>3. CASE Failed(r)
      <4>1. \/ log' = log \/ Stored(r)
            \/ log' = [log EXCEPT ![r.s] = Append(log[r.s], Line("torn", r.s))]
        BY <1>3, <3>1, <3>3 DEF Failed, AppendFailed, Stored, Cut, TypeInv, PipeType
      <4>2. CASE log' = log
        BY <1>6, <4>2 DEF Logged
      <4>3. CASE log' = [log EXCEPT ![r.s] = Append(log[r.s], Line("torn", r.s))]
        <5> SUFFICES ASSUME NEW s \in Streams PROVE Logged(s)' = Logged(s)
          BY <1>6
        <5> DEFINE x == Line("torn", r.s)
                   lines == log[s]
                   out == log'[s]
        <5>1. x \in W!Lines /\ x.s = r.s /\ x.kind = "torn"
          BY <3>1 DEF W!Lines, Line
        <5>2. lines \in Seq(W!Lines) /\ out = IF x.s = s THEN Append(lines, x) ELSE lines
          BY <1>3, <3>1, <4>3, <5>1 DEF LogStreams, TypeInv, PipeType
        <5>3. After(s, NewReader, out, Len(out))
                = Reads(s, After(s, NewReader, lines, Len(lines)), x)
          <6> HIDE DEF lines, out, x
          <6> QED BY <5>1, <5>2, LoggedAppend
        <5>4. Logged(s)' = Reads(s, Logged(s), x)
          BY <5>3 DEF Logged
        <5>5. Reads(s, Logged(s), x) = Logged(s)
          <6> HIDE DEF x
          <6> QED BY <1>6, <5>1, ReadsNothing
        <5> QED BY <5>4, <5>5
      <4> QED BY <3>2, <4>1, <4>2, <4>3
    <3> QED BY <2>1, <3>2, <3>3
  <2>2. Halts => sink'.q = <<>>
    BY <1>3, ChannelFacts DEF Halts
  <2>3. ASSUME sink.q # <<>>, sink' = Pop(sink),
               \A s \in Streams : Logged(s)' = Reads(s, Logged(s), Head(sink.q))
        PROVE  Goal
    <3> SUFFICES ASSUME NEW s \in Streams, NEW n \in 0 .. Len(sink'.q)
                 PROVE  Whole(Arriving(s, n)')
      OBVIOUS
    <3>1. /\ Len(sink'.q) \in Nat /\ Len(sink.q) = Len(sink'.q) + 1
          /\ Arriving(s, n)' = Arriving(s, n + 1)
      BY <1>3, <2>3, SinkReceived
    <3>2. n + 1 \in 0 .. Len(sink.q)
      BY <3>1
    <3> QED BY <1>2, <3>1, <3>2
  <2>4. CASE FrameWritten
    <3> DEFINE r == Head(sink.q)
    <3>1. /\ r \in Records /\ ~halt /\ sink.q # <<>> /\ sink.q \in Seq(Frames)
          /\ r.s \in LogStreams
      BY <1>3, <2>4, SinkFrames, RecordStorable DEF FrameWritten, JoinInv
    <3>2. \A s \in Streams : Whole(Reads(s, Logged(s), r))
      <4> SUFFICES ASSUME NEW s \in Streams PROVE Whole(Reads(s, Logged(s), r))
        OBVIOUS
      <4>1. 1 \in 0 .. Len(sink.q) /\ r = sink.q[0 + 1]
        BY <3>1
      <4>2. After(s, Logged(s), sink.q, 0 + 1)
              = Reads(s, After(s, Logged(s), sink.q, 0), sink.q[0 + 1])
        BY AfterNext
      <4>3. Arriving(s, 1) = Reads(s, Logged(s), r)
        BY <4>1, <4>2, AfterNone DEF Arriving
      <4> QED BY <1>2, <4>1, <4>3
    <3>3. Written(r, Pop(sink), vchan)
      BY <2>4 DEF FrameWritten
    <3>4. CASE Halts
      <4>1. Stored(r) \/ Failed(r)
        BY <3>3 DEF Written
      <4> HIDE DEF r
      <4>2. \A s \in Streams : Whole(Logged(s)')
        BY <2>1, <3>1, <3>2, <4>1
      <4> QED BY <1>4, <1>7, <2>2, <3>4, <4>2
    <3>5. CASE Stored(r) /\ sink' = Pop(sink)
      <4>1. ~EndsTorn(log[r.s])
        BY <1>1, <1>3, <3>1, WholeTails
      <4>2. \A s \in Streams : Logged(s)' = Reads(s, Logged(s), r)
        BY <1>3, <3>1, <3>5, <4>1, StoredRead
      <4> QED BY <1>4, <2>3, <3>1, <3>5, <4>2
    <3> QED BY <3>3, <3>4, <3>5 DEF Written
  <2>5. CASE BookWritten
    <3> DEFINE r == Head(vchan.q)
    <3>1. r \in Records /\ r.kind \in {"verify", "raw"} /\ ~halt
      BY <1>3, <2>5, SweepChanTypes
         DEF BookWritten, JoinInv, TypeInv, PipeType, SweepRecords
    <3>2. r.s \in LogStreams
      BY <3>1, RecordStorable
    <3>3. Written(r, sink, Pop(vchan))
      BY <2>5 DEF BookWritten
    <3> HIDE DEF r
    <3>4. \A s \in Streams : Reads(s, Logged(s), r) = Logged(s)
      BY <1>6, <3>1, ReadsNothing
    <3>5. \A s \in Streams : Whole(Reads(s, Logged(s), r))
      BY <1>6, <3>4
    <3>6. CASE Halts
      <4>1. Stored(r) \/ Failed(r)
        BY <3>3 DEF Written
      <4>2. \A s \in Streams : Whole(Logged(s)')
        BY <2>1, <3>1, <3>5, <4>1
      <4> QED BY <1>4, <1>7, <2>2, <3>6, <4>2
    <3>7. CASE Stored(r) /\ sink' = sink
      <4>1. ~EndsTorn(log[r.s])
        BY <1>1, <1>3, <3>1, <3>2, WholeTails
      <4>2. \A s \in Streams : Logged(s)' = Logged(s)
        BY <1>3, <3>1, <3>4, <3>7, <4>1, StoredRead
      <4> QED BY <1>4, <1>8, <3>7, <4>2
    <3> QED BY <3>3, <3>6, <3>7 DEF Written
  <2>6. CASE ControlTaken
    <3>1. \A s \in Streams : Logged(s)' = Logged(s)
      BY <2>6 DEF ControlTaken, Logged
    <3>2. \A s \in Streams : Logged(s)' = Reads(s, Logged(s), Head(sink.q))
      BY <1>6, <2>6, <3>1, ReadsNothing DEF ControlTaken
    <3> QED BY <1>4, <2>3, <2>6, <3>2 DEF ControlTaken
  <2>7. CASE WriterTurns
    BY <1>4, <1>8, <2>7 DEF WriterTurns, Logged
  <2>8. CASE WriterReturns
    <3>1. sink'.q = <<>>
      BY <1>3, <2>8, ChannelFacts DEF WriterReturns
    <3>2. \A s \in Streams : Logged(s)' = Logged(s)
      BY <2>8 DEF WriterReturns, Logged
    <3> QED BY <1>4, <1>6, <1>7, <3>1, <3>2
  <2> QED BY <1>10, <2>4, <2>5, <2>6, <2>7, <2>8, WriterEffect DEF WriterMoves
<1>11. CASE Crash
  BY <1>1, <1>11 DEF Crash
<1>12. CASE SweepMoves \/ DiskMoves \/ SessionOver \/ Join \/ UNCHANGED captureVars
  <2>1. UNCHANGED <<sink, log>>
    BY <1>12 DEF SweepMoves, DiskMoves, W!DiskTurns, SessionOver, Join, captureVars,
                 writerSide
  <2> QED BY <1>4, <1>8, <2>1 DEF Logged
<1> QED BY <1>9, <1>10, <1>11, <1>12, CaptureSteps

\* The log of a stream is whole for every capture no process died on, whether
\* the session, the sweep or the writer ended first: a reader that has met no
\* gap marker since its last baseline holds the exchange's version.
THEOREM LogsAreWhole == SnapshotsLead => (CaptureSpec => []UninterruptedLogIsWhole)
<1> SUFFICES ASSUME SnapshotsLead PROVE CaptureSpec => []UninterruptedLogIsWhole
  OBVIOUS
<1>1. CaptureInit => WholeInv
  <2> SUFFICES ASSUME CaptureInit
               PROVE  IInv /\ \A s \in Streams :
                                 \A n \in 0 .. Len(sink.q) : Whole(Arriving(s, n))
    BY DEF WholeInv
  <2>1. IInv
    BY IInvInit DEF CaptureInit
  <2>2. sink.q = <<>> /\ ~Excused
    BY DEF CaptureInit, Init, NewChan, W!WriterInit, Excused, TornCrash
  <2>3. \A s \in Streams : Arriving(s, 0) = Forwarded(s)
    BY <2>2, CaptureInvInit DEF CaptureInv, FlowInv
  <2>4. \A s \in Streams : Whole(Forwarded(s))
    BY <2>1 DEF IInv, NoSilentHole, Whole, Forwarded
  <2> QED BY <2>1, <2>2, <2>3, <2>4
<1>2. CaptureInv /\ WholeInv /\ [CaptureNext]_captureVars => WholeInv'
  BY WholeStep
<1>3. CaptureInv /\ WholeInv => UninterruptedLogIsWhole
  <2> SUFFICES ASSUME CaptureInv, WholeInv, crashes = 0, NEW s \in Streams
               PROVE  Whole(Logged(s))
    BY DEF UninterruptedLogIsWhole, LogIsWhole
  <2>1. 0 \in 0 .. Len(sink.q)
    BY DEF CaptureInv, TypeInv, CaptureTypeOK, TypeOK, SinkType
  <2> QED BY <2>1, ReadersOfLogs DEF WholeInv, CaptureInv
<1> QED BY <1>1, <1>2, <1>3, CaptureInvariant, PTL DEF CaptureSpec

(***************************************************************************)
(* The report and the files, with the session and the sweep feeding them.  *)
(***************************************************************************)
ReportInv ==
    "crash" \notin Faults =>
        /\ halt => OneAhead(report, log, LogStreams)
        /\ ~halt => \A s \in LogStreams : Exact(report, log, s)

LEMMA ReportWritten ==
    ASSUME TypeInv, NEW r \in Records, NEW sk, NEW vc, Written(r, sk, vc), ~halt, ReportInv
    PROVE  ReportInv'
<1> SUFFICES ASSUME "crash" \notin Faults
             PROVE  /\ halt' => OneAhead(report', log', LogStreams)
                    /\ ~halt' => \A s \in LogStreams : Exact(report', log', s)
  BY DEF ReportInv
<1>1. /\ log \in [LogStreams -> Seq(W!Lines)] /\ report \in [LogStreams -> Nat]
      /\ Storable(W!Lines, r) /\ r.s \in LogStreams
      /\ \A s \in LogStreams : Exact(report, log, s)
  BY RecordStorable DEF TypeInv, PipeType, ReportInv
<1>2. report' = [report EXCEPT ![r.s] = @ + 1]
  BY DEF Written
<1>3. CASE Stored(r)
  <2>1. PICK lines \in Appended(log[r.s], r) : log' = [log EXCEPT ![r.s] = lines]
    BY <1>3 DEF Stored
  <2>2. \A s \in LogStreams : Exact(report', log', s)
    BY <1>1, <1>2, <2>1, CountedAppend
  <2>3. OneAhead(report', log', LogStreams)
    BY <2>2 DEF OneAhead, Exact
  <2> QED BY <2>2, <2>3
<1>4. CASE Failed(r) /\ Halts
  <2>1. PICK lines \in AppendFailed(log[r.s], r, "tear" \in Faults) :
             log' = [log EXCEPT ![r.s] = lines]
    BY <1>4 DEF Failed
  <2>2. ("tear" \in Faults) \in BOOLEAN
    OBVIOUS
  <2>3. OneAhead(report', log', LogStreams)
    BY <1>1, <1>2, <2>1, <2>2, CountedFailed
  <2> QED BY <1>4, <2>3 DEF Halts
<1> QED BY <1>3, <1>4 DEF Written

LEMMA ReportStep ==
    ASSUME TypeInv, JoinInv, ReportInv, [CaptureNext]_captureVars PROVE ReportInv'
<1>1. CASE WriterMoves
  <2>1. wpc \in {"run", "drain"} => ~halt
    BY DEF JoinInv
  <2>2. CASE FrameWritten
    <3>1. Head(sink.q) \in Records
      BY <2>2, SinkFrames DEF FrameWritten, TypeInv, CaptureTypeOK
    <3> QED BY <2>1, <2>2, <3>1, ReportWritten DEF FrameWritten
  <2>3. CASE BookWritten
    <3>1. Head(vchan.q) \in Records
      BY <2>3, SweepChanTypes DEF BookWritten, SweepRecords, TypeInv, PipeType
    <3> QED BY <2>1, <2>3, <3>1, ReportWritten DEF BookWritten
  <2>4. CASE ControlTaken \/ WriterTurns \/ WriterReturns
    BY <2>4 DEF ControlTaken, WriterTurns, WriterReturns, ReportInv
  <2> QED BY <1>1, <2>2, <2>3, <2>4, WriterEffect DEF WriterMoves
<1>2. CASE Crash
  BY <1>2 DEF Crash, W!StoreCrash, ReportInv
<1>3. CASE \/ SessionNext /\ UNCHANGED Others
           \/ SweepMoves \/ DiskMoves \/ SessionOver \/ Join \/ UNCHANGED captureVars
  <2>1. UNCHANGED <<log, halt, report>>
    BY <1>3 DEF Others, SweepMoves, DiskMoves, W!DiskTurns, SessionOver, Join,
                captureVars, writerSide
  <2> QED BY <2>1 DEF ReportInv
<1> QED BY <1>1, <1>2, <1>3, CaptureSteps

\* The writer's report is what is on disk, with the session and the sweep at
\* the other ends of its channels; a halted writer's may be ahead by the one
\* record whose append failed.
THEOREM ReportIsOnDisk == CaptureSpec => []ReportMatchesDisk
<1>1. CaptureInit => ReportInv
  <2> SUFFICES ASSUME CaptureInit
               PROVE  ~halt /\ \A s \in LogStreams : Exact(report, log, s)
    BY DEF ReportInv
  <2>1. Cardinality({}) = 0
    BY FS_EmptySet
  <2>2. Readable(<<>>) = {} /\ ~EndsTorn(<<>>)
    BY DEF Readable, EndsTorn
  <2>3. /\ log = [s \in LogStreams |-> <<>>] /\ report = [s \in LogStreams |-> 0]
        /\ halt = FALSE
    BY DEF CaptureInit, W!StoreInit, W!WriterInit
  <2>4. \A s \in LogStreams : Exact(report, log, s)
    <3> SUFFICES ASSUME NEW s \in LogStreams PROVE Exact(report, log, s)
      OBVIOUS
    <3>1. log[s] = <<>> /\ report[s] = 0
      BY <2>3
    <3>2. ~EndsTorn(log[s]) /\ Cardinality(Readable(log[s])) = 0
      BY <2>1, <2>2, <3>1
    <3> QED BY <3>1, <3>2 DEF Exact, Counts
  <2> QED BY <2>3, <2>4
<1>2. CaptureInv /\ ReportInv /\ [CaptureNext]_captureVars => ReportInv'
  BY ReportStep DEF CaptureInv
<1>3. ReportInv => ReportMatchesDisk
  <2>1. \A s : W!Ahead(s) = Counts(report, log, s)
    <3>1. \A lines : W!Cardinality(W!Readable(lines)) = Cardinality(Readable(lines))
      <4>1. \A S : W!Cardinality(S) = Cardinality(S)
        BY DEF W!Cardinality, Cardinality
      <4> QED BY <4>1, SameStore
    <3> QED BY <3>1 DEF W!Ahead, Counts
  <2> QED BY <2>1 DEF ReportInv, Exact, OneAhead, ReportMatchesDisk, W!ReportMatchesDisk
<1> QED BY <1>1, <1>2, <1>3, CaptureInvariant, PTL DEF CaptureSpec

(***************************************************************************)
(* Refinement of Session.  The writer is the consumer Session leaves open: *)
(* each of its steps receives a frame, drops the receiver, or is not seen. *)
(***************************************************************************)
LiveInv == wpc \in {"start", "run", "drain", "report"} => sink.rx

LEMMA LiveStep == ASSUME TypeInv, LiveInv, [CaptureNext]_captureVars PROVE LiveInv'
<1>1. TypeOK /\ sink \in SinkType /\ (wpc \in {"start", "run", "drain", "report"} => sink.rx)
  BY DEF TypeInv, CaptureTypeOK, TypeOK, LiveInv
<1>2. CASE SessionNext /\ UNCHANGED Others
  <2>1. wpc' = wpc
    BY <1>2 DEF Others, writerSide
  <2>2. sink'.rx = sink.rx
    <3>1. CASE Forwards
      BY <1>1, <3>1, ChannelFacts DEF Forwards, Forward
    <3>2. CASE EndsSession
      BY <1>1, <3>2, ChannelFacts DEF EndsSession
    <3>3. CASE Quiet
      BY <3>3 DEF Quiet
    <3> QED BY <1>1, <1>2, <3>1, <3>2, <3>3, SessionEffect
  <2> QED BY <1>1, <2>1, <2>2 DEF LiveInv
<1>3. CASE WriterMoves
  <2>1. Pop(sink).rx = sink.rx
    BY <1>1, ChannelFacts
  <2>2. CASE FrameWritten \/ BookWritten
    BY <1>1, <2>1, <2>2 DEF FrameWritten, BookWritten, Written, Halts, LiveInv
  <2>3. CASE ControlTaken \/ WriterTurns \/ WriterReturns
    BY <1>1, <2>1, <2>3 DEF ControlTaken, WriterTurns, WriterReturns, LiveInv
  <2> QED BY <1>3, <2>2, <2>3, WriterEffect DEF WriterMoves
<1>4. CASE Crash
  BY <1>4 DEF Crash, NewChan, LiveInv
<1>5. CASE SweepMoves \/ DiskMoves \/ SessionOver \/ Join \/ UNCHANGED captureVars
  BY <1>1, <1>5 DEF SweepMoves, DiskMoves, W!DiskTurns, SessionOver, Join, captureVars,
                    writerSide, LiveInv
<1> QED BY <1>2, <1>3, <1>4, <1>5, CaptureSteps

LEMMA CaptureStepIsSessionStep ==
    ASSUME "crash" \notin Faults, TypeInv, LiveInv, [CaptureNext]_captureVars
    PROVE  [Next]_vars
<1>1. CASE SessionNext
  BY <1>1 DEF Next
<1>2. CASE WriterMoves
  <2>1. UNCHANGED <<feedVars, sessionVars, shutdown, historyVars>>
    BY <1>2 DEF WriterMoves, sessionSide, feedVars, sessionVars, historyVars
  <2>2. \/ sink' = sink
        \/ sink.rx /\ sink.q # <<>> /\ sink' = Pop(sink)
        \/ sink.rx /\ sink' = DropRx(sink)
    BY <1>2, WriterEffect
       DEF WriterMoves, FrameWritten, BookWritten, ControlTaken, WriterTurns,
           WriterReturns, Written, Halts, LiveInv
  <2> QED BY <2>1, <2>2 DEF Next, Consume, DropReceiver, vars
<1>3. CASE Crash
  BY <1>3 DEF Crash, W!StoreCrash
<1>4. CASE SweepMoves \/ DiskMoves \/ SessionOver \/ Join \/ UNCHANGED captureVars
  BY <1>4 DEF SweepMoves, DiskMoves, SessionOver, Join, captureVars, W!DiskTurns,
              sessionSide, vars, feedVars, sessionVars, historyVars
<1> QED BY <1>1, <1>2, <1>3, <1>4, CaptureSteps

\* In a capture whose process does not die, run_session with the real writer
\* behind the sink is run_session as Session specifies it: nothing the writer,
\* the sweep or the join does is more than the consumer assumed there.
THEOREM CaptureImplementsSession == "crash" \notin Faults => (CaptureSpec => Spec)
<1> SUFFICES ASSUME "crash" \notin Faults PROVE CaptureSpec => Spec
  OBVIOUS
<1>1. CaptureInit => Init /\ LiveInv
  BY DEF CaptureInit, Init, NewChan, LiveInv
<1>2. TypeInv /\ LiveInv /\ [CaptureNext]_captureVars => LiveInv' /\ [Next]_vars
  BY LiveStep, CaptureStepIsSessionStep
<1> QED BY <1>1, <1>2, TypeInvariant, PTL DEF CaptureSpec, Spec

\* So the promise of WholeStream holds of the whole capture.
THEOREM CaptureImplementsWholeStream ==
    "crash" \notin Faults /\ SnapshotsLead => (CaptureSpec => ImplementsWholeStream)
<1> SUFFICES ASSUME "crash" \notin Faults, SnapshotsLead
             PROVE  CaptureSpec => ImplementsWholeStream
  OBVIOUS
<1> QED BY CaptureImplementsSession, SessionImplementsWholeStream, PTL
=============================================================================
