------------------------------- MODULE Writer -------------------------------
(***************************************************************************)
(* writer_task of crates/kdp-cli/src/capture.rs: the consumer half of the  *)
(* capture pipeline.  It receives frames from the session's sink and books *)
(* from the verify sweep's channel, counts each record in the report,      *)
(* appends it to the log of its stream, and checks the free disk space     *)
(* once every DiskCheckEvery appends.  The end of the sink ends the loop;  *)
(* what the verify channel still holds is then drained.  A failed append   *)
(* or a failed disk check halts the writer, which drops both receivers.    *)
(***************************************************************************)
EXTENDS Integers, Mpsc, Store

CONSTANTS
    LogStreams,      \* the streams a record can be routed to
    Records,         \* what the two channels carry: records with kind and s
    SinkCapacity,    \* capacity of the sink
    VerifyCapacity,  \* capacity of the verify channel (64)
    DiskCheckEvery,  \* appends between two disk checks (500)
    Faults,          \* which of "disk", "append", "crash", "tear" may happen
    MaxLines         \* bound: lines a stand-alone writer is given per stream

ASSUME WriterAssumption ==
    /\ \A r \in Records : r.s \in LogStreams /\ r.kind \notin {"torn", "bad"}
    /\ {SinkCapacity, VerifyCapacity, DiskCheckEvery} \subseteq Nat \ {0}
    /\ Faults \subseteq {"disk", "append", "crash", "tear"}
    /\ MaxLines \in Nat

VARIABLES
    sink, vchan,        \* the two channels
    wpc,                \* where writer_task is
    since,              \* writes_since_check
    vopen,              \* verify_open
    halt,               \* report.halt_error is set
    report, verified,   \* report.per_stream and report.verify
    log,                \* the files
    low,                \* the disk guard would report less than the floor
    acked, below        \* history: appends that returned Ok, per stream; and
                        \* since the disk went low

writerVars == <<wpc, since, vopen, halt, report, verified, log, acked, below>>
vars == <<sink, vchan, writerVars, low>>

WriterInit ==
    /\ wpc = "start"
    /\ since = 0
    /\ vopen = TRUE
    /\ halt = FALSE
    /\ report = [s \in LogStreams |-> 0]
    /\ verified = 0

StoreInit ==
    /\ log = [s \in LogStreams |-> <<>>]
    /\ acked = [s \in LogStreams |-> 0]
    /\ below = 0
    /\ low = FALSE
-----------------------------------------------------------------------------
\* The start-of-run disk check: below the floor, the task returns an error.
WriterStart ==
    /\ wpc = "start"
    /\ wpc' = IF low THEN "failed" ELSE "run"
    /\ IF low THEN sink' = DropRx(sink) /\ vchan' = DropRx(vchan)
              ELSE UNCHANGED <<sink, vchan>>
    /\ UNCHANGED <<since, vopen, halt, report, verified, log, acked, below, low>>

\* streams.append returns Ok.
AppendOk(r) ==
    /\ \E lines \in Appended(log[r.s], r) : log' = [log EXCEPT ![r.s] = lines]
    /\ acked' = [acked EXCEPT ![r.s] = @ + 1]
    /\ below' = IF low THEN below + 1 ELSE 0

\* streams.append returns Err.
AppendErr(r) ==
    /\ "append" \in Faults
    /\ \E lines \in AppendFailed(log[r.s], r, "tear" \in Faults) :
          log' = [log EXCEPT ![r.s] = lines]
    /\ UNCHANGED <<acked, below>>

\* The loop is left with halt_error set; there is no drain, and returning
\* drops the receivers.
Halt ==
    /\ wpc' = "done" /\ halt' = TRUE
    /\ sink' = DropRx(sink) /\ vchan' = DropRx(vchan)

\* Plausible bugs of the loop body: a failed append uncounts a record that was
\* not counted yet; the check comes one record late; a failed append is passed
\* over.
PersistUncounts(r, sk, vc) ==
    /\ since' = since
    /\ \/ /\ AppendErr(r)
          /\ report' = [report EXCEPT ![r.s] = @ - 1]
          /\ Halt
       \/ /\ AppendOk(r)
          /\ report' = [report EXCEPT ![r.s] = @ + 1]
          /\ sink' = sk /\ vchan' = vc
          /\ UNCHANGED <<wpc, halt>>
PersistChecksLate(r, sk, vc) ==
    /\ report' = [report EXCEPT ![r.s] = @ + 1]
    /\ AppendOk(r)
    /\ IF since >= DiskCheckEvery /\ low
       THEN Halt /\ since' = since + 1
       ELSE /\ since' = IF since >= DiskCheckEvery THEN 0 ELSE since + 1
            /\ sink' = sk /\ vchan' = vc
            /\ UNCHANGED <<wpc, halt>>
PersistGoesOn(r, sk, vc) ==
    /\ report' = [report EXCEPT ![r.s] = @ + 1]
    /\ AppendErr(r) \/ AppendOk(r)
    /\ since' = since
    /\ sink' = sk /\ vchan' = vc
    /\ UNCHANGED <<wpc, halt>>

\* One record, received from a channel: `sk` and `vc` are the channels after
\* the receive.  It is counted, appended, and the disk is checked when due.
Persist(r, sk, vc) ==
    /\ report' = [report EXCEPT ![r.s] = @ + 1]
    /\ \/ /\ AppendErr(r)
          /\ Halt
          /\ since' = since
       \/ /\ AppendOk(r)
          /\ IF since + 1 >= DiskCheckEvery /\ low
             THEN Halt /\ since' = since + 1
             ELSE /\ since' = IF since + 1 >= DiskCheckEvery THEN 0 ELSE since + 1
                  /\ sink' = sk /\ vchan' = vc
                  /\ UNCHANGED <<wpc, halt>>

\* Plausible bug: a verify write does not count towards the disk check.
RecvVerifyUnchecked ==
    /\ wpc = "run" /\ vopen /\ vchan.q # <<>>
    /\ LET r == Head(vchan.q) IN
          /\ report' = [report EXCEPT ![r.s] = @ + 1]
          /\ AppendOk(r)
    /\ verified' = verified + 1
    /\ vchan' = Pop(vchan)
    /\ UNCHANGED <<sink, wpc, since, vopen, halt, low>>

\* rx.recv() yields a frame.  Control frames are counted elsewhere and skip
\* the disk check as well.
RecvEvent ==
    /\ wpc = "run" /\ sink.q # <<>>
    /\ LET r == Head(sink.q) IN
          IF r.kind = "control"
          THEN /\ sink' = Pop(sink)
               /\ UNCHANGED <<vchan, wpc, since, halt, report, log, acked, below>>
          ELSE Persist(r, Pop(sink), vchan)
    /\ UNCHANGED <<vopen, verified, low>>

\* verify_rx.recv() yields a book of the sweep.
RecvVerify ==
    /\ wpc = "run" /\ vopen /\ vchan.q # <<>>
    /\ Persist(Head(vchan.q), sink, Pop(vchan))
    /\ verified' = verified + 1
    /\ UNCHANGED <<vopen, low>>

\* Plausible bug: the end of the verify channel ends the loop.
VerifyClosedEndsLoop ==
    /\ wpc = "run" /\ vopen /\ AtEnd(vchan)
    /\ wpc' = "drain"
    /\ UNCHANGED <<sink, vchan, since, vopen, halt, report, verified, log,
                   acked, below, low>>

\* verify_rx.recv() yields None: the arm is switched off, the loop goes on.
VerifyClosed ==
    /\ wpc = "run" /\ vopen /\ AtEnd(vchan)
    /\ vopen' = FALSE
    /\ UNCHANGED <<sink, vchan, wpc, since, halt, report, verified, log, acked,
                   below, low>>

\* Plausible bugs: an empty sink is taken for a closed one; nothing is drained.
SinkOverWhenEmpty ==
    /\ wpc = "run" /\ sink.q = <<>>
    /\ wpc' = "drain"
    /\ UNCHANGED <<sink, vchan, since, vopen, halt, report, verified, log,
                   acked, below, low>>

SinkOverUndrained ==
    /\ wpc = "run" /\ AtEnd(sink)
    /\ wpc' = "report"
    /\ UNCHANGED <<sink, vchan, since, vopen, halt, report, verified, log,
                   acked, below, low>>

\* rx.recv() yields None: the session is over.
SinkOver ==
    /\ wpc = "run" /\ AtEnd(sink)
    /\ wpc' = "drain"
    /\ UNCHANGED <<sink, vchan, since, vopen, halt, report, verified, log,
                   acked, below, low>>

\* Plausible bug: a failed append is passed over.
DrainPassesOverErrors ==
    /\ wpc = "drain" /\ vchan.q # <<>>
    /\ LET r == Head(vchan.q) IN
          /\ report' = [report EXCEPT ![r.s] = @ + 1]
          /\ AppendErr(r) \/ AppendOk(r)
    /\ vchan' = Pop(vchan)
    /\ verified' = verified + 1
    /\ UNCHANGED <<sink, wpc, halt, since, vopen, low>>

\* One try_recv of the final drain: no disk check; a failed append halts.
Drain ==
    /\ wpc = "drain" /\ vchan.q # <<>>
    /\ LET r == Head(vchan.q) IN
          /\ report' = [report EXCEPT ![r.s] = @ + 1]
          /\ \/ AppendErr(r) /\ Halt
             \/ AppendOk(r) /\ vchan' = Pop(vchan) /\ UNCHANGED <<sink, wpc, halt>>
    /\ verified' = verified + 1
    /\ UNCHANGED <<since, vopen, low>>

\* try_recv finds nothing: the free space is read once more for the report.
DrainOver ==
    /\ wpc = "drain" /\ vchan.q = <<>>
    /\ wpc' = "report"
    /\ UNCHANGED <<sink, vchan, since, vopen, halt, report, verified, log,
                   acked, below, low>>

\* The task returns its report and drops the receivers, with what the sweep
\* sent in the meantime.
WriterReturns ==
    /\ wpc = "report"
    /\ wpc' = "done"
    /\ sink' = DropRx(sink) /\ vchan' = DropRx(vchan)
    /\ UNCHANGED <<since, vopen, halt, report, verified, log, acked, below, low>>

WriterStep ==
    \/ WriterStart \/ RecvEvent \/ RecvVerify \/ VerifyClosed \/ SinkOver
    \/ Drain \/ DrainOver \/ WriterReturns
-----------------------------------------------------------------------------
(***************************************************************************)
(* The surroundings: the file system, and the death of the process.        *)
(***************************************************************************)
\* Other users of the disk take or free space.
DiskTurns ==
    /\ "disk" \in Faults
    /\ low' = ~low
    /\ below' = 0
    /\ UNCHANGED <<sink, vchan, wpc, since, vopen, halt, report, verified, log,
                   acked>>

\* The records a crash may cut short: those an append may be in the middle of.
InAppend ==
    {r \in UNION {{Head(q)} : q \in {sink.q, vchan.q} \ {<<>>}} :
        r.kind # "control"}

\* The process dies and is started again on the same directory: files stay, a
\* line being written may be torn, everything else is as at the start.
StoreCrash ==
    /\ "crash" \in Faults
    /\ \/ log' = log
       \/ /\ "tear" \in Faults /\ wpc \in {"run", "drain"}
          /\ \E r \in InAppend : log' = [log EXCEPT ![r.s] = Cut(@, r)]
    /\ wpc' = "start" /\ since' = 0 /\ vopen' = TRUE /\ halt' = FALSE
    /\ report' = [s \in LogStreams |-> 0]
    /\ verified' = 0
    /\ below' = 0
    /\ UNCHANGED <<acked, low>>
-----------------------------------------------------------------------------
(***************************************************************************)
(* The writer on its own, with any producers at the other ends.            *)
(***************************************************************************)
Init ==
    /\ WriterInit
    /\ StoreInit
    /\ sink = NewChan
    /\ vchan = NewChan

Room(r) == Len(log[r.s]) + Len(sink.q) + Len(vchan.q) < MaxLines

Produce(r) ==
    /\ sink.tx /\ CanSend(sink, SinkCapacity) /\ Room(r)
    /\ sink' = Push(sink, r)
    /\ UNCHANGED <<vchan, writerVars, low>>

ProduceVerify(r) ==
    /\ vchan.tx /\ CanSend(vchan, VerifyCapacity) /\ Room(r)
    /\ r.kind # "control"
    /\ vchan' = Push(vchan, r)
    /\ UNCHANGED <<sink, writerVars, low>>

ProducerLeaves ==
    \/ sink.tx /\ sink' = DropTx(sink) /\ UNCHANGED <<vchan, writerVars, low>>
    \/ vchan.tx /\ vchan' = DropTx(vchan) /\ UNCHANGED <<sink, writerVars, low>>

Crash ==
    /\ StoreCrash
    /\ sink' = NewChan /\ vchan' = NewChan

Next ==
    \/ WriterStep \/ DiskTurns \/ Crash \/ ProducerLeaves
    \/ \E r \in Records : Produce(r) \/ ProduceVerify(r)

Spec == Init /\ [][Next]_vars
-----------------------------------------------------------------------------
Lines == Records \cup [kind : {"torn", "bad"}, s : LogStreams]
ChanType == [q : Seq(Records), tx : BOOLEAN, rx : BOOLEAN]

\* The type invariant of the writer.
TypeOK ==
    /\ sink \in ChanType /\ vchan \in ChanType
    /\ wpc \in {"start", "run", "drain", "report", "done", "failed"}
    /\ since \in Nat
    /\ vopen \in BOOLEAN /\ halt \in BOOLEAN /\ low \in BOOLEAN
    /\ report \in [LogStreams -> Nat]
    /\ verified \in Nat
    /\ log \in [LogStreams -> Seq(Lines)]
    /\ acked \in [LogStreams -> Nat]
    /\ below \in Nat

\* A running writer has appended fewer than DISK_CHECK_EVERY records since the
\* free space fell below the floor, whichever channel they came from: the
\* counter is neither reset without a check nor bypassed by the verify arm.
FloorIsWatched == wpc \in {"start", "run"} => below < DiskCheckEvery

\* Why it holds: what was appended below the floor was appended since the last
\* check, and a check is never overdue.  This is inductive.
FloorInv == wpc \in {"start", "run"} => below <= since /\ since < DiskCheckEvery

\* An append that returned Ok is a line a reader can decode, but for the first
\* append after a crash cut a line short: the file is opened for append as it
\* is, and that record shares the torn line.  A torn tail costs this one record
\* and no more: the append after it begins a line of its own.
TornTailCostsOneRecord ==
    \A s \in LogStreams :
        Cardinality(Readable(log[s])) + Cardinality(Spoiled(log[s])) >= acked[s]

\* The report is what is on disk.  It counts a record before it appends it, so
\* in a writer that halted, and only there, it may be ahead of the files, by
\* the one record whose append failed.
Ahead(s) == report[s] - Cardinality(Readable(log[s]))
ReportMatchesDisk ==
    "crash" \notin Faults =>
        \A s \in LogStreams :
            \/ Ahead(s) = 0
            \/ halt /\ Ahead(s) = 1 /\ \A r \in LogStreams \ {s} : Ahead(r) = 0
=============================================================================
