------------------------------- MODULE Capture -------------------------------
(***************************************************************************)
(* capture_session of crates/kdp-cli/src/capture.rs: the session (Session),*)
(* the verify sweep (VerifySweep) and the writer (Writer) as three tasks   *)
(* joined by the sink and the verify channel, and the death and restart of *)
(* the process around them.  When run_session returns, the sweep is        *)
(* aborted, the writer is joined, and the result is Ok unless the writer   *)
(* could not start or halted.                                              *)
(***************************************************************************)
EXTENDS Session

CONSTANTS
    VerifyOn, ChunkSize, VerifyCapacity, MaxSweeps,
    DiskCheckEvery, Faults,
    MaxFrames,      \* bound: text frames read in one process
    MaxConnects,    \* bound: connections made in one process
    MaxCrashes      \* bound: crashes

ASSUME CaptureAssumption ==
    /\ {VerifyCapacity, ChunkSize, DiskCheckEvery} \subseteq Nat \ {0}
    /\ VerifyOn \in BOOLEAN
    /\ {MaxFrames, MaxConnects, MaxCrashes, MaxSweeps} \subseteq Nat
    /\ Faults \subseteq {"disk", "append", "crash", "tear"}

VARIABLES
    spc, chunk, items, vchan, aborted, sweeps, offered,
    wpc, since, vopen, halt, report, verified, log, low, acked, below,
    frames, connects,   \* SessionStats
    mpc, result,        \* capture_session
    crashes,
    due                 \* history: outcomes offered when run_session returned

V == INSTANCE VerifySweep

\* Where records are written: the streams, and the quarantine.
LogStreams == Streams \cup {Unrouted}
\* verify_envelope of a decoded book, and of one that does not decode, which
\* goes to its ticker's order book log when the ticker is known.
VerifyRecord(t) == Frame("verify", OrderbookOf(t), None, truth[OrderbookOf(t)])
RawRecord(s) == Frame("raw", s, None, 0)
\* What a response may hold for each ticker it has an entry for.
Outcomes ==
    {o \in [Tickers -> {VerifyRecord(t) : t \in Tickers}
                        \cup {RawRecord(s) : s \in LogStreams}] :
        \A t \in Tickers : o[t].s \in {OrderbookOf(t), Unrouted}}
Records == [kind : FrameKinds \cup {"verify"}, s : LogStreams,
            seq : Nat \cup {None}, v : Nat]

W == INSTANCE Writer WITH MaxLines <- 0

sessionSide == <<seq, truth, snapped, last, pc, first, tracker, gaps, pend, end,
                 book, cur, frames, connects>>
taskSide == <<spc, chunk, items, sweeps, offered>>
sweepSide == <<taskSide, aborted>>
writerSide == <<wpc, since, vopen, halt, report, verified, log, acked, below, low>>
mainSide == <<mpc, result, crashes>>
captureVars == <<sessionSide, shutdown, sink, sweepSide, vchan, writerSide,
                 mainSide, due>>

CaptureInit ==
    /\ Init
    /\ V!SweepInit /\ vchan = V!VerifyChan
    /\ W!WriterInit /\ W!StoreInit
    /\ frames = 0 /\ connects = 0
    /\ mpc = "session" /\ result = "none"
    /\ crashes = 0
    /\ due = 0
-----------------------------------------------------------------------------
Others == <<sweepSide, vchan, writerSide, mainSide>>

\* A step of run_session that is neither a connection nor a frame.
SessionMoves ==
    /\ \/ ConnectFails \/ BackoffOver \/ ObserveShutdown \/ Disconnect
       \/ Closed \/ ReadPing \/ ReadAgain
       \/ \E s \in Streams : SendGap(s) \/ MarketMoves(s)
       \/ SendFrame \/ SinkClosed \/ RequestShutdown
       \/ \E f \in NewFrames : LoseFrame(f)
    /\ due' = IF pc # "ended" /\ pc' = "ended" THEN offered ELSE due
    /\ UNCHANGED <<frames, connects, Others>>

SessionConnects ==
    /\ connects < MaxConnects
    /\ Connect
    /\ connects' = connects + 1
    /\ UNCHANGED <<frames, due, Others>>

\* A text frame is read: stats.frames counts it.
SessionReads ==
    /\ frames < MaxFrames
    /\ \/ \E f \in NewFrames : ReadFrame(f) \/ ReadUndecodable(f)
       \/ \E c \in Channels : ReadRepeat(c)
       \/ ReadControl
    /\ frames' = frames + 1
    /\ UNCHANGED <<connects, due, Others>>

SweepMoves ==
    /\ V!SweepStep(Outcomes)
    /\ UNCHANGED <<sessionSide, shutdown, sink, writerSide, mainSide, due>>

WriterMoves ==
    /\ W!WriterStep
    /\ UNCHANGED <<sessionSide, shutdown, sweepSide, mainSide, due>>

DiskMoves ==
    /\ W!DiskTurns
    /\ UNCHANGED <<sessionSide, shutdown, sweepSide, mainSide, due>>

\* run_session has returned: the sweep is told to stop.
SessionOver ==
    /\ mpc = "session" /\ pc = "ended"
    /\ mpc' = "join"
    /\ aborted' = TRUE
    /\ UNCHANGED <<sessionSide, shutdown, sink, taskSide, vchan, writerSide,
                   result, crashes, due>>

\* Plausible bugs: a halt is only printed; the aborted sweep is awaited too.
JoinIgnoresHalt ==
    /\ mpc = "join" /\ wpc \in {"done", "failed"}
    /\ mpc' = "returned"
    /\ result' = IF wpc = "failed" THEN "Err" ELSE "Ok"
    /\ UNCHANGED <<sessionSide, shutdown, sink, sweepSide, vchan, writerSide,
                   crashes, due>>
JoinAwaitsSweep ==
    /\ mpc = "join" /\ wpc \in {"done", "failed"} /\ spc = "gone"
    /\ mpc' = "returned"
    /\ result' = IF wpc = "failed" \/ halt THEN "Err" ELSE "Ok"
    /\ UNCHANGED <<sessionSide, shutdown, sink, sweepSide, vchan, writerSide,
                   crashes, due>>

\* The writer is joined: its failure to start and a halt are errors.
Join ==
    /\ mpc = "join" /\ wpc \in {"done", "failed"}
    /\ mpc' = "returned"
    /\ result' = IF wpc = "failed" \/ halt THEN "Err" ELSE "Ok"
    /\ UNCHANGED <<sessionSide, shutdown, sink, sweepSide, vchan, writerSide,
                   crashes, due>>

(***************************************************************************)
(* A reader of stream s: the book it holds, and the version the last data  *)
(* record it read really had (see Apply of Session).                       *)
(***************************************************************************)
NewReader == [book |-> None, version |-> 0]
Reads(s, r, f) ==
    IF f.s = s THEN [book |-> Apply(r.book, f), version |-> Version(r.version, f)] ELSE r

\* Reader r of s after the first n of the records q.
After(s, r, q, n) ==
    LET at[k \in 0 .. n] == IF k = 0 THEN r ELSE Reads(s, at[k - 1], q[k])
    IN at[n]

\* What a reader makes of the log of s, and of what is still on its way to it.
Logged(s) == After(s, NewReader, log[s], Len(log[s]))
Arriving(s, n) == After(s, Logged(s), sink.q, n)

\* The process dies, with a capture running, and is started again on the same
\* directory; the files are what is left of it.
Crash ==
    /\ crashes < MaxCrashes /\ mpc # "returned"
    /\ W!StoreCrash
    /\ seq' = [c \in Channels |-> 0] /\ snapped' = {}
    /\ last' = [c \in Channels |-> NoFrame]
    /\ pc' = "connecting" /\ first' = TRUE /\ end' = "none"
    /\ tracker' = [c \in Channels |-> None]
    /\ gaps' = {} /\ pend' = NoFrame
    /\ book' = [s \in Streams |-> Logged(s)'.book]
    /\ cur' = [s \in Streams |-> Logged(s)'.version]
    /\ frames' = 0 /\ connects' = 0
    /\ shutdown' = FALSE
    /\ sink' = NewChan
    /\ spc' = IF VerifyOn THEN "start" ELSE "gone"
    /\ chunk' = 0 /\ items' = <<>> /\ sweeps' = 0 /\ offered' = 0
    /\ aborted' = FALSE
    /\ vchan' = V!VerifyChan
    /\ mpc' = "session"
    /\ crashes' = crashes + 1
    /\ due' = 0
    /\ UNCHANGED <<truth, result>>

CaptureNext ==
    \/ SessionMoves \/ SessionConnects \/ SessionReads \/ SweepMoves
    \/ WriterMoves \/ DiskMoves \/ SessionOver \/ Join \/ Crash

CaptureSpec == CaptureInit /\ [][CaptureNext]_captureVars

(***************************************************************************)
(* Fairness.  The three tasks and capture_session are scheduled by the     *)
(* runtime, and the one frame a pong or a close writes is written or fails *)
(* (no timeout guards it).  Nothing else is assumed of the exchange, and   *)
(* nothing of the REST service or of the disk.                             *)
(***************************************************************************)
SessionEnds == ObserveShutdown \/ ReadAgain \/ SendFrame \/ SinkClosed \/ Closed
               \/ \E s \in Streams : SendGap(s)

CaptureFairness ==
    /\ WF_captureVars(SessionMoves /\ SessionEnds)
    /\ WF_captureVars(WriterMoves)
    /\ WF_captureVars(SessionOver) /\ WF_captureVars(Join)

FairCaptureSpec == CaptureSpec /\ CaptureFairness
-----------------------------------------------------------------------------
\* The type invariant of the composition; the parts have their own.
CaptureTypeOK ==
    /\ TypeOK
    /\ frames \in 0 .. MaxFrames /\ connects \in 0 .. MaxConnects
    /\ spc \in {"start", "sleep", "fetch", "send", "gone"}
    /\ spc = "send" <=> items # <<>>
    /\ mpc \in {"session", "join", "returned"}
    /\ result \in {"none", "Ok", "Err"}
    /\ wpc \in {"start", "run", "drain", "report", "done", "failed"}
    /\ {offered, due} \subseteq Nat

\* What run_session has forwarded is on disk or on its way, in order and once:
\* a reader of the log of s, given what the sink still holds for s, has the
\* book and the version run_session meant it to have.  Verify records, written
\* in between by the same writer, do not disturb it.  A writer that halted is
\* excused.
NothingForwardedIsLost ==
    halt \/ wpc = "failed" \/
        \A s \in Streams :
            Arriving(s, Len(sink.q)) = [book |-> book[s], version |-> cur[s]]

\* The log of a stream is whole: a reader that has met no gap marker since its
\* last baseline holds the version the exchange gave the last record of the
\* log.  Neither a halted writer nor an interrupted session changes that.
Whole(r) == r.book \in {None, r.version}
LogIsWhole == \A s \in Streams : Whole(Logged(s))

\* The same, for a directory no process died on.  (After a restart the trade
\* tape has an unmarked hole: LogIsWhole itself then fails.)
UninterruptedLogIsWhole == crashes = 0 => LogIsWhole

\* The report of the writer is what is on disk, with session and sweep at the
\* other ends of its channels, also when one of its appends failed.
ReportMatchesDisk == W!ReportMatchesDisk

\* capture_session returns Ok only when every record that was forwarded to a
\* stream is in its log.
OkMeansComplete ==
    result = "Ok" /\ mpc = "returned" =>
        \A s \in Streams : Logged(s) = [book |-> book[s], version |-> cur[s]]

\* A book the sweep had handed to the channel when run_session returned is
\* written before capture_session returns Ok, wherever the abort met the sweep
\* and the end of the sink the writer.  (What the sweep hands over after that,
\* once the drain has found the channel empty, is dropped with the channel.)
HandedOverIsWritten ==
    result = "Ok" /\ mpc = "returned" => verified >= due

\* A capture told to stop returns, whatever the session, the sweep, the writer
\* and the disk were doing: nobody waits for the sweep's REST calls.
ShutdownReturns == shutdown ~> (mpc = "returned")
=============================================================================
