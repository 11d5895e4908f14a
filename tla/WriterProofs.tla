---------------------------- MODULE WriterProofs ----------------------------
(***************************************************************************)
(* Proofs about Writer, for every set of streams and records, every        *)
(* capacity and every DiskCheckEvery.                                      *)
(***************************************************************************)
EXTENDS Writer, StoreProofs

(***************************************************************************)
(* The channels keep their type.                                           *)
(***************************************************************************)
LEMMA ChanTypes ==
    /\ NewChan \in ChanType
    /\ \A ch \in ChanType :
          /\ DropTx(ch) \in ChanType
          /\ DropRx(ch) \in ChanType
          /\ \A r \in Records : Push(ch, r) \in ChanType
          /\ ch.q # <<>> => Pop(ch) \in ChanType /\ Head(ch.q) \in Records
<1>1. <<>> \in Seq(Records)
  OBVIOUS
<1>2. NewChan \in ChanType
  BY <1>1 DEF NewChan, ChanType
<1>3. ASSUME NEW ch \in ChanType
      PROVE  /\ DropTx(ch) \in ChanType
             /\ DropRx(ch) \in ChanType
             /\ \A r \in Records : Push(ch, r) \in ChanType
             /\ ch.q # <<>> => Pop(ch) \in ChanType /\ Head(ch.q) \in Records
  <2>1. ch.q \in Seq(Records) /\ ch.tx \in BOOLEAN /\ ch.rx \in BOOLEAN
    BY DEF ChanType
  <2>2. \A r \in Records : Append(ch.q, r) \in Seq(Records)
    BY <2>1
  <2>3. ch.q # <<>> => Tail(ch.q) \in Seq(Records) /\ Head(ch.q) \in Records
    BY <2>1
  <2> QED BY <1>1, <2>1, <2>2, <2>3 DEF ChanType, DropTx, DropRx, Push, Pop
<1> QED BY <1>2, <1>3

LEMMA RecordRouted == ASSUME NEW r \in Records PROVE r.s \in LogStreams
  BY WriterAssumption

LEMMA EveryNat == DiskCheckEvery \in Nat \ {0}
  BY WriterAssumption

\* What the writer appends are records, which the logs can hold.
LEMMA RecordStorable == ASSUME NEW r \in Records PROVE Storable(Lines, r)
<1>1. r.s \in LogStreams /\ r.kind \notin {"torn", "bad"}
  BY WriterAssumption
<1> QED BY <1>1 DEF Storable, Lines, Line

(***************************************************************************)
(* Type correctness.                                                       *)
(***************************************************************************)
LEMMA AppendOkType ==
    ASSUME TypeOK, NEW r \in Records, AppendOk(r)
    PROVE  /\ log' \in [LogStreams -> Seq(Lines)] /\ acked' \in [LogStreams -> Nat]
           /\ below' \in Nat
<1>1. r.s \in LogStreams /\ log[r.s] \in Seq(Lines)
  BY RecordRouted DEF TypeOK
<1>2. PICK lines \in Appended(log[r.s], r) : log' = [log EXCEPT ![r.s] = lines]
  BY DEF AppendOk
<1>3. lines \in Seq(Lines)
  BY <1>1, RecordStorable, AppendCounts
<1> QED BY <1>1, <1>2, <1>3 DEF AppendOk, TypeOK

LEMMA AppendErrType ==
    ASSUME TypeOK, NEW r \in Records, AppendErr(r)
    PROVE  /\ log' \in [LogStreams -> Seq(Lines)] /\ acked' \in [LogStreams -> Nat]
           /\ below' \in Nat
<1>1. r.s \in LogStreams /\ log[r.s] \in Seq(Lines)
  BY RecordRouted DEF TypeOK
<1>2. PICK lines \in AppendFailed(log[r.s], r, "tear" \in Faults) :
           log' = [log EXCEPT ![r.s] = lines]
  BY DEF AppendErr
<1>3. lines \in Seq(Lines)
  <2>1. ("tear" \in Faults) \in BOOLEAN
    OBVIOUS
  <2> QED BY <1>1, <2>1, RecordStorable, FailedCounts
<1> QED BY <1>1, <1>2, <1>3 DEF AppendErr, TypeOK

LEMMA HaltType ==
    ASSUME TypeOK, Halt
    PROVE  /\ sink' \in ChanType /\ vchan' \in ChanType
           /\ wpc' = "done" /\ halt' = TRUE
  BY ChanTypes DEF Halt, TypeOK

LEMMA PersistType ==
    ASSUME TypeOK, NEW r \in Records, NEW sk \in ChanType, NEW vc \in ChanType,
           Persist(r, sk, vc), vopen' \in BOOLEAN, verified' \in Nat, low' = low
    PROVE  TypeOK'
<1>1. report' \in [LogStreams -> Nat]
  BY RecordRouted DEF Persist, TypeOK
<1>2. /\ log' \in [LogStreams -> Seq(Lines)] /\ acked' \in [LogStreams -> Nat] /\ below' \in Nat
  BY AppendOkType, AppendErrType DEF Persist
<1>3. since' \in Nat
  BY DEF Persist, TypeOK
<1>4. CASE Halt
  BY <1>1, <1>2, <1>3, <1>4, HaltType DEF TypeOK
<1>5. CASE sink' = sk /\ vchan' = vc /\ UNCHANGED <<wpc, halt>>
  BY <1>1, <1>2, <1>3, <1>5 DEF TypeOK
<1> QED BY <1>4, <1>5 DEF Persist

\* The line a crash cuts short is one of a record in a channel.
LEMMA CrashLog ==
    ASSUME TypeOK, StoreCrash
    PROVE  \/ log' = log
           \/ \E r \in Records :
                 /\ r.s \in LogStreams /\ log[r.s] \in Seq(Lines)
                 /\ log' = [log EXCEPT ![r.s] = Cut(log[r.s], r)]
<1>1. CASE log' = log
  BY <1>1
<1>2. ASSUME NEW r \in InAppend, log' = [log EXCEPT ![r.s] = Cut(@, r)]
      PROVE  \E q \in Records :
                 /\ q.s \in LogStreams /\ log[q.s] \in Seq(Lines)
                 /\ log' = [log EXCEPT ![q.s] = Cut(log[q.s], q)]
  <2>1. r \in Records
    BY ChanTypes DEF InAppend, TypeOK
  <2>2. r.s \in LogStreams /\ log[r.s] \in Seq(Lines)
    BY <2>1, RecordRouted DEF TypeOK
  <2>3. log' = [log EXCEPT ![r.s] = Cut(log[r.s], r)]
    BY <1>2
  <2> QED BY <2>1, <2>2, <2>3
<1> QED BY <1>1, <1>2 DEF StoreCrash

LEMMA TypeStep == ASSUME TypeOK, [Next]_vars PROVE TypeOK'
<1>1. CASE WriterStart
  BY <1>1, ChanTypes DEF WriterStart, TypeOK
<1>2. CASE RecvEvent
  <2> DEFINE r == Head(sink.q)
  <2>1. r \in Records /\ Pop(sink) \in ChanType
    BY <1>2, ChanTypes DEF RecvEvent, TypeOK
  <2>2. CASE r.kind = "control"
    BY <1>2, <2>1, <2>2 DEF RecvEvent, TypeOK
  <2>3. CASE r.kind # "control"
    <3>1. Persist(r, Pop(sink), vchan) /\ UNCHANGED <<vopen, verified, low>>
      BY <1>2, <2>3 DEF RecvEvent
    <3>2. vchan \in ChanType /\ vopen' \in BOOLEAN /\ verified' \in Nat
      BY <3>1 DEF TypeOK
    <3> QED BY <2>1, <3>1, <3>2, PersistType
  <2> QED BY <2>2, <2>3
<1>3. CASE RecvVerify
  <2>1. Head(vchan.q) \in Records /\ Pop(vchan) \in ChanType /\ sink \in ChanType
    BY <1>3, ChanTypes DEF RecvVerify, TypeOK
  <2>2. /\ Persist(Head(vchan.q), sink, Pop(vchan))
        /\ vopen' \in BOOLEAN /\ verified' \in Nat /\ low' = low
    BY <1>3 DEF RecvVerify, TypeOK
  <2> QED BY <2>1, <2>2, PersistType
<1>4. CASE VerifyClosed
  BY <1>4 DEF VerifyClosed, TypeOK
<1>5. CASE SinkOver
  BY <1>5 DEF SinkOver, TypeOK
<1>6. CASE Drain
  <2> DEFINE r == Head(vchan.q)
  <2>1. r \in Records /\ Pop(vchan) \in ChanType
    BY <1>6, ChanTypes DEF Drain, TypeOK
  <2>2. /\ report' \in [LogStreams -> Nat] /\ verified' \in Nat
        /\ since' \in Nat /\ vopen' \in BOOLEAN /\ low' \in BOOLEAN
    BY <1>6, <2>1, RecordRouted DEF Drain, TypeOK
  <2>3. /\ log' \in [LogStreams -> Seq(Lines)] /\ acked' \in [LogStreams -> Nat]
        /\ below' \in Nat
    BY <1>6, <2>1, AppendOkType, AppendErrType DEF Drain
  <2>4. CASE Halt
    BY <2>2, <2>3, <2>4, HaltType DEF TypeOK
  <2>5. CASE vchan' = Pop(vchan) /\ UNCHANGED <<sink, wpc, halt>>
    BY <2>1, <2>2, <2>3, <2>5 DEF TypeOK
  <2> QED BY <1>6, <2>4, <2>5 DEF Drain
<1>7. CASE DrainOver \/ WriterReturns
  BY <1>7, ChanTypes DEF DrainOver, WriterReturns, TypeOK
<1>8. CASE DiskTurns
  BY <1>8 DEF DiskTurns, TypeOK
<1>9. CASE Crash
  <2>1. log' \in [LogStreams -> Seq(Lines)]
    <3>1. CASE log' = log
      BY <3>1 DEF TypeOK
    <3>2. ASSUME NEW r \in Records, r.s \in LogStreams, log[r.s] \in Seq(Lines),
                 log' = [log EXCEPT ![r.s] = Cut(log[r.s], r)]
          PROVE  log' \in [LogStreams -> Seq(Lines)]
      <4>1. Cut(log[r.s], r) \in Seq(Lines)
        BY <3>2, RecordStorable, CutCounts
      <4> QED BY <3>2, <4>1 DEF TypeOK
    <3> QED BY <1>9, <3>1, <3>2, CrashLog DEF Crash
  <2>2. UNCHANGED <<acked, low>> /\ below' = 0 /\ since' = 0 /\ verified' = 0
    BY <1>9 DEF Crash, StoreCrash
  <2>3. report' \in [LogStreams -> Nat]
    BY <1>9 DEF Crash, StoreCrash
  <2>4. wpc' = "start" /\ vopen' \in BOOLEAN /\ halt' \in BOOLEAN
    BY <1>9, Zenon DEF Crash, StoreCrash
  <2>5. sink' \in ChanType /\ vchan' \in ChanType
    BY <1>9, ChanTypes DEF Crash
  <2> QED BY <2>1, <2>2, <2>3, <2>4, <2>5 DEF TypeOK
<1>10. CASE ProducerLeaves
  BY <1>10, ChanTypes DEF ProducerLeaves, TypeOK, writerVars
<1>11. ASSUME NEW r \in Records, Produce(r) \/ ProduceVerify(r) PROVE TypeOK'
  BY <1>11, ChanTypes DEF Produce, ProduceVerify, TypeOK, writerVars
<1>12. CASE UNCHANGED vars
  BY <1>12 DEF vars, writerVars, TypeOK
<1> QED
  BY <1>1, <1>2, <1>3, <1>4, <1>5, <1>6, <1>7, <1>8, <1>9, <1>10, <1>11, <1>12
     DEF Next, WriterStep

\* The writer's variables keep their types in every behaviour.
THEOREM TypeCorrect == Spec => []TypeOK
<1>1. Init => TypeOK
  <2>1. NewChan \in ChanType
    BY ChanTypes
  <2>2. StoreInit => log \in [LogStreams -> Seq(Lines)]
    BY DEF StoreInit
  <2>3. StoreInit => acked \in [LogStreams -> Nat] /\ below \in Nat
    BY DEF StoreInit
  <2>4. StoreInit => low \in BOOLEAN
    BY Zenon DEF StoreInit
  <2>5. WriterInit => report \in [LogStreams -> Nat] /\ verified \in Nat /\ since \in Nat
    BY DEF WriterInit
  <2>6. WriterInit => vopen \in BOOLEAN /\ halt \in BOOLEAN /\ wpc = "start"
    BY Zenon DEF WriterInit
  <2> QED BY <2>1, <2>2, <2>3, <2>4, <2>5, <2>6 DEF Init, TypeOK
<1>2. TypeOK /\ [Next]_vars => TypeOK'
  BY TypeStep
<1> QED BY <1>1, <1>2, PTL DEF Spec

(***************************************************************************)
(* The files.                                                              *)
(***************************************************************************)
Kept(lines) == Cardinality(Readable(lines)) + Cardinality(Spoiled(lines))

\* Nothing but an append that returns Ok is acknowledged, and no append and no
\* crash takes a line back.
LEMMA AppendOkKeeps ==
    ASSUME TypeOK, TornTailCostsOneRecord, NEW r \in Records, AppendOk(r)
    PROVE  TornTailCostsOneRecord'
<1>1. r.s \in LogStreams /\ log[r.s] \in Seq(Lines) /\ acked[r.s] \in Nat
  BY RecordRouted DEF TypeOK
<1>2. PICK lines \in Appended(log[r.s], r) : log' = [log EXCEPT ![r.s] = lines]
  BY DEF AppendOk
<1>3. /\ Cardinality(Readable(log[r.s])) \in Nat
      /\ Cardinality(Spoiled(log[r.s])) \in Nat
  BY <1>1, Countable
<1>4. Kept(lines) = Kept(log[r.s]) + 1
  BY <1>1, <1>3, RecordStorable, AppendCounts DEF Kept
<1>5. Kept(log[r.s]) \in Nat /\ Kept(log[r.s]) >= acked[r.s]
  BY <1>1, <1>3 DEF TornTailCostsOneRecord, Kept
<1>6. ASSUME NEW s \in LogStreams PROVE Kept(log'[s]) >= acked'[s]
  BY <1>1, <1>2, <1>4, <1>5 DEF AppendOk, TornTailCostsOneRecord, Kept, TypeOK
<1> QED BY <1>6 DEF TornTailCostsOneRecord, Kept

LEMMA AppendErrKeeps ==
    ASSUME TypeOK, TornTailCostsOneRecord, NEW r \in Records, AppendErr(r)
    PROVE  TornTailCostsOneRecord'
<1>1. r.s \in LogStreams /\ log[r.s] \in Seq(Lines) /\ acked[r.s] \in Nat
  BY RecordRouted DEF TypeOK
<1>2. PICK lines \in AppendFailed(log[r.s], r, "tear" \in Faults) :
           log' = [log EXCEPT ![r.s] = lines]
  BY DEF AppendErr
<1>3. /\ Cardinality(Readable(log[r.s])) \in Nat
      /\ Cardinality(Spoiled(log[r.s])) \in Nat
  BY <1>1, Countable
<1>4. Kept(lines) \in {Kept(log[r.s]), Kept(log[r.s]) + 1}
  <2>1. ("tear" \in Faults) \in BOOLEAN
    OBVIOUS
  <2>2. \/ Kept(lines) = Kept(log[r.s])
        \/ lines \in Appended(log[r.s], r)
    BY <1>1, <2>1, RecordStorable, FailedCounts DEF Kept
  <2> QED BY <1>1, <1>3, <2>2, RecordStorable, AppendCounts DEF Kept
<1>5. Kept(log[r.s]) \in Nat /\ Kept(log[r.s]) >= acked[r.s]
  BY <1>1, <1>3 DEF TornTailCostsOneRecord, Kept
<1>6. ASSUME NEW s \in LogStreams PROVE Kept(log'[s]) >= acked'[s]
  BY <1>1, <1>2, <1>4, <1>5 DEF AppendErr, TornTailCostsOneRecord, Kept, TypeOK
<1> QED BY <1>6 DEF TornTailCostsOneRecord, Kept

LEMMA CrashKeeps ==
    ASSUME TypeOK, TornTailCostsOneRecord, StoreCrash
    PROVE  TornTailCostsOneRecord'
<1>1. acked' = acked
  BY DEF StoreCrash
<1>2. CASE log' = log
  BY <1>1, <1>2 DEF TornTailCostsOneRecord
<1>3. ASSUME NEW r \in Records, r.s \in LogStreams, log[r.s] \in Seq(Lines),
             log' = [log EXCEPT ![r.s] = Cut(log[r.s], r)]
      PROVE  TornTailCostsOneRecord'
  <2>1. Kept(Cut(log[r.s], r)) = Kept(log[r.s])
    BY <1>3, RecordStorable, CutCounts DEF Kept
  <2>2. ASSUME NEW s \in LogStreams PROVE Kept(log'[s]) >= acked'[s]
    BY <1>1, <1>3, <2>1 DEF TornTailCostsOneRecord, Kept, TypeOK
  <2> QED BY <2>2 DEF TornTailCostsOneRecord, Kept
<1> QED BY <1>2, <1>3, CrashLog

LEMMA KeptStep == ASSUME TypeOK, TornTailCostsOneRecord, [Next]_vars
                  PROVE  TornTailCostsOneRecord'
<1>1. CASE RecvEvent
  <2>1. Head(sink.q) \in Records
    BY <1>1, ChanTypes DEF RecvEvent, TypeOK
  <2>2. \/ AppendOk(Head(sink.q)) \/ AppendErr(Head(sink.q)) \/ UNCHANGED <<log, acked>>
    BY <1>1 DEF RecvEvent, Persist
  <2>3. CASE UNCHANGED <<log, acked>>
    BY <2>3 DEF TornTailCostsOneRecord
  <2> QED BY <2>1, <2>2, <2>3, AppendOkKeeps, AppendErrKeeps
<1>2. CASE RecvVerify \/ Drain
  <2>1. Head(vchan.q) \in Records
    BY <1>2, ChanTypes DEF RecvVerify, Drain, TypeOK
  <2>2. AppendOk(Head(vchan.q)) \/ AppendErr(Head(vchan.q))
    BY <1>2 DEF RecvVerify, Drain, Persist
  <2> QED BY <2>1, <2>2, AppendOkKeeps, AppendErrKeeps
<1>3. CASE Crash
  BY <1>3, CrashKeeps DEF Crash
<1>4. CASE \/ WriterStart \/ VerifyClosed \/ SinkOver \/ DrainOver
           \/ WriterReturns \/ ProducerLeaves \/ DiskTurns \/ UNCHANGED vars
           \/ \E r \in Records : Produce(r) \/ ProduceVerify(r)
  <2>1. UNCHANGED <<log, acked>>
    BY <1>4 DEF WriterStart, VerifyClosed, SinkOver, DrainOver,
                WriterReturns, ProducerLeaves,
                DiskTurns, Produce, ProduceVerify, vars, writerVars
  <2> QED BY <2>1 DEF TornTailCostsOneRecord
<1> QED BY <1>1, <1>2, <1>3, <1>4 DEF Next, WriterStep

\* Every append that returned Ok is a readable line, but for one record for each
\* torn tail, through any number of crashes and failed appends.
THEOREM TornTailsCostOne == Spec => []TornTailCostsOneRecord
<1>1. Init => TornTailCostsOneRecord
  <2> SUFFICES ASSUME Init, NEW s \in LogStreams PROVE Kept(log[s]) >= acked[s]
    BY DEF TornTailCostsOneRecord, Kept
  <2>1. log[s] = <<>> /\ acked[s] = 0
    BY DEF Init, StoreInit
  <2>2. <<>> \in Seq(Lines)
    OBVIOUS
  <2>3. Cardinality(Readable(<<>>)) \in Nat /\ Cardinality(Spoiled(<<>>)) \in Nat
    BY <2>2, Countable
  <2> QED BY <2>1, <2>3 DEF Kept
<1>2. TypeOK /\ TornTailCostsOneRecord /\ [Next]_vars => TornTailCostsOneRecord'
  BY KeptStep
<1> QED BY <1>1, <1>2, TypeCorrect, PTL DEF Spec

(***************************************************************************)
(* The report, for a process that does not die.  A writer that has not     *)
(* halted has met no failed append, so no line is torn and the report is   *)
(* the count of the lines.  The append that fails halts it, and a halted   *)
(* writer appends nothing more.                                            *)
(***************************************************************************)
ReportInv ==
    "crash" \notin Faults =>
        /\ halt => wpc = "done" /\ OneAhead(report, log, LogStreams)
        /\ ~halt => \A s \in LogStreams : Exact(report, log, s)

LEMMA AheadAppend ==
    ASSUME TypeOK, NEW r \in Records, AppendOk(r),
           \A s \in LogStreams : Exact(report, log, s),
           report' = [report EXCEPT ![r.s] = @ + 1]
    PROVE  \A s \in LogStreams : Exact(report', log', s)
<1>1. PICK lines \in Appended(log[r.s], r) : log' = [log EXCEPT ![r.s] = lines]
  BY DEF AppendOk
<1>2. log \in [LogStreams -> Seq(Lines)] /\ report \in [LogStreams -> Nat]
  BY DEF TypeOK
<1> QED BY <1>1, <1>2, RecordStorable, RecordRouted, CountedAppend

LEMMA AheadFailed ==
    ASSUME TypeOK, NEW r \in Records, AppendErr(r),
           \A s \in LogStreams : Exact(report, log, s),
           report' = [report EXCEPT ![r.s] = @ + 1]
    PROVE  OneAhead(report', log', LogStreams)
<1>1. PICK lines \in AppendFailed(log[r.s], r, "tear" \in Faults) :
           log' = [log EXCEPT ![r.s] = lines]
  BY DEF AppendErr
<1>2. log \in [LogStreams -> Seq(Lines)] /\ report \in [LogStreams -> Nat]
  BY DEF TypeOK
<1>3. ("tear" \in Faults) \in BOOLEAN
  OBVIOUS
<1> QED BY <1>1, <1>2, <1>3, RecordStorable, RecordRouted, CountedFailed

\* Any step that appends: the record is counted, and the writer goes on after
\* an append that returned Ok, or halts.
LEMMA ReportAppends ==
    ASSUME TypeOK, ReportInv, wpc # "done", NEW r \in Records,
           report' = [report EXCEPT ![r.s] = @ + 1],
           \/ AppendErr(r) /\ Halt
           \/ AppendOk(r) /\ (Halt \/ halt' = halt)
    PROVE  ReportInv'
<1> SUFFICES ASSUME "crash" \notin Faults
             PROVE  /\ halt' => wpc' = "done" /\ OneAhead(report', log', LogStreams)
                    /\ ~halt' => \A s \in LogStreams : Exact(report', log', s)
  BY DEF ReportInv
<1>1. ~halt /\ \A s \in LogStreams : Exact(report, log, s)
  BY DEF ReportInv
<1>2. CASE AppendErr(r) /\ Halt
  BY <1>1, <1>2, AheadFailed DEF Halt
<1>3. CASE AppendOk(r) /\ (Halt \/ halt' = halt)
  <2>1. \A s \in LogStreams : Exact(report', log', s)
    BY <1>1, <1>3, AheadAppend
  <2>2. OneAhead(report', log', LogStreams)
    BY <2>1 DEF OneAhead, Exact
  <2>3. CASE Halt
    BY <2>1, <2>2, <2>3 DEF Halt
  <2>4. CASE halt' = halt
    BY <1>1, <2>1, <2>4
  <2> QED BY <1>3, <2>3, <2>4
<1> QED BY <1>2, <1>3

LEMMA ReportFrame ==
    ASSUME ReportInv, UNCHANGED <<log, report, halt>>, wpc = "done" => wpc' = "done"
    PROVE  ReportInv'
  BY DEF ReportInv

LEMMA ReportStep == ASSUME TypeOK, ReportInv, [Next]_vars PROVE ReportInv'
<1>1. CASE RecvEvent
  <2>1. Head(sink.q) \in Records /\ wpc # "done"
    BY <1>1, ChanTypes DEF RecvEvent, TypeOK
  <2>2. CASE Head(sink.q).kind = "control"
    BY <1>1, <2>2, ReportFrame DEF RecvEvent
  <2>3. CASE Head(sink.q).kind # "control"
    BY <1>1, <2>1, <2>3, ReportAppends DEF RecvEvent, Persist
  <2> QED BY <2>2, <2>3
<1>2. CASE RecvVerify
  <2>1. Head(vchan.q) \in Records /\ wpc # "done"
    BY <1>2, ChanTypes DEF RecvVerify, TypeOK
  <2> QED BY <1>2, <2>1, ReportAppends DEF RecvVerify, Persist
<1>3. CASE Drain
  <2>1. Head(vchan.q) \in Records /\ wpc # "done"
    BY <1>3, ChanTypes DEF Drain, TypeOK
  <2> QED BY <1>3, <2>1, ReportAppends DEF Drain
<1>4. CASE Crash
  BY <1>4 DEF Crash, StoreCrash, ReportInv
<1>5. CASE \/ WriterStart \/ VerifyClosed \/ SinkOver \/ DrainOver
           \/ WriterReturns \/ ProducerLeaves \/ DiskTurns \/ UNCHANGED vars
           \/ \E r \in Records : Produce(r) \/ ProduceVerify(r)
  <2>1. UNCHANGED <<log, report, halt>> /\ (wpc = "done" => wpc' = "done")
    BY <1>5 DEF WriterStart, VerifyClosed, SinkOver, DrainOver,
                WriterReturns, ProducerLeaves,
                DiskTurns, Produce, ProduceVerify, vars, writerVars
  <2> QED BY <2>1, ReportFrame
<1> QED BY <1>1, <1>2, <1>3, <1>4, <1>5 DEF Next, WriterStep

\* The report is the count of the readable lines, but for the one record whose
\* append failed and halted the writer.
THEOREM ReportIsOnDisk == Spec => []ReportMatchesDisk
<1>1. Init => ReportInv
  <2> SUFFICES ASSUME Init
               PROVE  /\ ~halt
                      /\ \A s \in LogStreams : Exact(report, log, s)
    BY DEF ReportInv
  <2>1. Cardinality({}) = 0
    BY FS_EmptySet
  <2>2. Readable(<<>>) = {} /\ ~EndsTorn(<<>>)
    BY DEF Readable, EndsTorn
  <2>3. \A s \in LogStreams : log[s] = <<>> /\ report[s] = 0
    BY DEF Init, StoreInit, WriterInit
  <2>4. \A s \in LogStreams : Exact(report, log, s)
    BY <2>1, <2>2, <2>3 DEF Exact, Counts
  <2> QED BY <2>4 DEF Init, WriterInit
<1>2. TypeOK /\ ReportInv /\ [Next]_vars => ReportInv'
  BY ReportStep
<1>3. ReportInv => ReportMatchesDisk
  BY DEF ReportInv, Exact, OneAhead, Counts, Ahead, ReportMatchesDisk
<1> QED BY <1>1, <1>2, <1>3, TypeCorrect, PTL DEF Spec

(***************************************************************************)
(* The disk floor.                                                         *)
(***************************************************************************)
\* One record of the loop: either the check is not due, or it is made.
LEMMA PersistFloor ==
    ASSUME TypeOK, FloorInv, wpc = "run", low' = low,
           NEW r, NEW sk, NEW vc, Persist(r, sk, vc)
    PROVE  FloorInv'
<1>1. CASE wpc' = "done"
  BY <1>1 DEF FloorInv
<1>2. CASE /\ AppendOk(r)
           /\ ~(since + 1 >= DiskCheckEvery /\ low)
           /\ since' = IF since + 1 >= DiskCheckEvery THEN 0 ELSE since + 1
  <2>1. below' <= since + 1 /\ (~low => below' = 0)
    BY <1>2 DEF AppendOk, FloorInv, TypeOK
  <2> QED BY <1>2, <2>1, EveryNat DEF FloorInv, TypeOK
<1> QED BY <1>1, <1>2 DEF Persist, Halt

LEMMA FloorStep == ASSUME TypeOK, FloorInv, [Next]_vars PROVE FloorInv'
<1>1. CASE RecvEvent
  BY <1>1, PersistFloor DEF RecvEvent, FloorInv
<1>2. CASE RecvVerify
  BY <1>2, PersistFloor DEF RecvVerify
<1>3. CASE Drain
  BY <1>3 DEF Drain, Halt, FloorInv
<1>4. CASE Crash \/ DiskTurns
  BY <1>4, EveryNat DEF Crash, StoreCrash, DiskTurns, FloorInv, TypeOK
<1>5. CASE \/ WriterStart \/ VerifyClosed \/ SinkOver \/ DrainOver
           \/ WriterReturns \/ ProducerLeaves \/ UNCHANGED vars
           \/ \E r \in Records : Produce(r) \/ ProduceVerify(r)
  BY <1>5 DEF WriterStart, VerifyClosed, SinkOver, DrainOver,
                WriterReturns, ProducerLeaves,
              Produce, ProduceVerify, vars, writerVars, FloorInv
<1> QED BY <1>1, <1>2, <1>3, <1>4, <1>5 DEF Next, WriterStep

\* The records appended below the floor are counted towards the next check,
\* and no check is overdue.
THEOREM FloorCounted == Spec => []FloorInv
<1>1. Init => FloorInv
  BY EveryNat DEF Init, WriterInit, StoreInit, FloorInv
<1>2. TypeOK /\ FloorInv /\ [Next]_vars => FloorInv'
  BY FloorStep
<1> QED BY <1>1, <1>2, TypeCorrect, PTL DEF Spec

\* A running writer has appended fewer than DISK_CHECK_EVERY records since the
\* free space fell below the floor.
THEOREM FloorWatched == Spec => []FloorIsWatched
<1>1. TypeOK /\ FloorInv => FloorIsWatched
  BY EveryNat DEF FloorInv, FloorIsWatched, TypeOK
<1> QED BY <1>1, TypeCorrect, FloorCounted, PTL
=============================================================================
