---------------------------- MODULE VerifySweep ----------------------------
(***************************************************************************)
(* verify_sweep of crates/kdp-cli/src/capture.rs: the task that fetches    *)
(* every ticker's order book over REST at an interval, chunk by chunk, and *)
(* sends each outcome to the writer.  It ends when the writer is gone or   *)
(* when capture_session aborts it.  An abort is a request: the task is     *)
(* dropped at its next await, and whatever it holds is dropped with it.    *)
(***************************************************************************)
EXTENDS Integers, Mpsc

CONSTANTS
    NumTickers,      \* the tickers of the capture
    VerifyOn,        \* verify_interval_secs > 0
    ChunkSize,       \* VERIFY_SWEEP_CHUNK_SIZE (100)
    VerifyCapacity,  \* capacity of the verify channel (64)
    MaxSweeps        \* bound: sweeps in one capture

VARIABLES
    spc, chunk, items,  \* the task: where it is, the chunk, what is unsent
    vchan,              \* the channel to the writer
    aborted,            \* sweep.abort() was called
    sweeps,             \* sweeps begun
    offered             \* history: outcomes the channel has taken

SweepInit ==
    /\ spc = IF VerifyOn THEN "start" ELSE "gone"
    /\ chunk = 0
    /\ items = <<>>
    /\ sweeps = 0
    /\ offered = 0
    /\ aborted = FALSE

\* Without a sweep the sender is dropped at once.
VerifyChan == IF VerifyOn THEN NewChan ELSE DropTx(NewChan)

\* The tickers of chunk k, in order.
ChunkTickers(k) == ((k - 1) * ChunkSize + 1) ..
                   (IF k * ChunkSize < NumTickers THEN k * ChunkSize ELSE NumTickers)
LastChunk(k) == k * ChunkSize >= NumTickers

Running == spc \in {"start", "sleep", "fetch", "send"}

\* The task is over: its sender is dropped, and so is what it holds.
Leave ==
    /\ spc' = "gone"
    /\ items' = <<>>
    /\ vchan' = DropTx(vchan)
    /\ UNCHANGED <<chunk, sweeps, offered, aborted>>

NextChunk ==
    IF LastChunk(chunk) THEN spc' = "sleep" /\ chunk' = 0
                        ELSE spc' = "fetch" /\ chunk' = chunk + 1

\* The HTTP client is built, or the sweep is disabled.
BuildClient ==
    /\ spc = "start"
    /\ spc' = "sleep"
    /\ UNCHANGED <<chunk, items, sweeps, offered, vchan, aborted>>

NoClient ==
    /\ spc = "start"
    /\ Leave

\* The interval is over.
Wake ==
    /\ spc = "sleep" /\ sweeps < MaxSweeps
    /\ spc' = "fetch" /\ chunk' = 1
    /\ sweeps' = sweeps + 1
    /\ UNCHANGED <<items, offered, vchan, aborted>>

\* The tickers a response to chunk k may have entries for, in its order.
Listed(k) ==
    {ts \in UNION {[1 .. n -> ChunkTickers(k)] : n \in 0 .. ChunkSize} :
        \A i, j \in DOMAIN ts : ts[i] = ts[j] => i = j}

\* get_orderbooks answers: `outcome` gives the record verify_envelope makes of
\* each ticker's entry.
Fetch(outcome) ==
    /\ spc = "fetch"
    /\ \E ts \in Listed(chunk) : items' = [i \in DOMAIN ts |-> outcome[ts[i]]]
    /\ IF items' = <<>> THEN NextChunk ELSE spc' = "send" /\ UNCHANGED chunk
    /\ UNCHANGED <<sweeps, offered, vchan, aborted>>

\* The chunk failed, retries included; the sweep goes on with the next one.
FetchFails ==
    /\ spc = "fetch"
    /\ NextChunk
    /\ UNCHANGED <<items, sweeps, offered, vchan, aborted>>

SendItem ==
    /\ spc = "send" /\ CanSend(vchan, VerifyCapacity)
    /\ vchan' = Push(vchan, Head(items))
    /\ items' = Tail(items)
    /\ offered' = offered + 1
    /\ IF Len(items) = 1 THEN NextChunk ELSE UNCHANGED <<spc, chunk>>
    /\ UNCHANGED <<sweeps, aborted>>

WriterGone ==
    /\ spc = "send" /\ ~vchan.rx
    /\ Leave

\* The abort takes effect.
Cancelled ==
    /\ aborted /\ Running
    /\ Leave

SweepStep(outcomes) ==
    \/ BuildClient \/ NoClient \/ Wake \/ FetchFails \/ SendItem \/ WriterGone
    \/ Cancelled
    \/ \E outcome \in outcomes : Fetch(outcome)
=============================================================================
