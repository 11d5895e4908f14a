# A TLA+ model of snapevent

snapevent records Kalshi market data: live order books and trades over a
WebSocket, written to append-only JSONL, plus the supervisors, the backfill, the
offline processor and the replay library around that recording. There is no
second chance: the exchange sells no historical order books, so a record that is
lost, or a hole nobody marked, is lost for good (ADR-003). This project models
the program from its source, checks the models with TLC, and proves the central
properties with TLAPS.

Paths below are relative to the repository; line numbers are in `PROJECT.json`.

## 1. Inventory

| Component | State it keeps | Operations | What makes it correct |
|---|---|---|---|
| sequence tracker (`kdp-kalshi/src/ws/gap.rs`) | `last_seq` per sid | `on_snapshot`, `on_sequenced`, `reset` | a lost frame is reported, a repeat is skipped |
| WebSocket session (`ws/session.rs`) | connection, trackers, `first`, stats | connect, back off, read, classify, fan out gap markers, forward, answer pings, close, end | a reader of a stream is never wrong without a marker; stopping works |
| wire decoder (`ws/protocol.rs`) | none | frame to outcome | nothing is dropped: what does not decode is kept raw |
| reconnect backoff (`ws/backoff.rs`) | `attempt` | `next`, `reset` | bounded, never zero |
| capture pipeline (`kdp-cli/src/capture.rs`) | two channels, three tasks, the report | `capture_session`, `writer_task`, `verify_sweep` | what the session forwards is on disk; Ok means complete; it returns when told |
| append-only store (`kdp-store`) | day files, open writers, disk floor | `append`, rotation, `check` | a crash costs at most the line it cut and the one glued to it |
| unit supervisor (`kdp-cli/src/supervisor.rs`) | watcher, backstop, checkpoint loop, markers, in-flight units | run a unit, reap, drain, park | a live unit is not stopped early; one that was stopped has its `.done` |
| universe, scheduled, hourly supervisors (`universe.rs`, `scheduled.rs`, `hourly.rs`) | armed units, the schedule, the hour | sweep, plan, resolve, arm, wait | no session is captured while it is archived, or again afterwards; the cap holds |
| archive and checkpoint scripts (`deploy/kdp-archive.sh`, `kdp-checkpoint.sh`) | marker files, a lock, remote copies | process, upload, verify, lock, purge, prune; expire and reap what is old; copy | nothing is deleted that is not safely uploaded |
| historical backfill (`backfill.rs`) | markets found, cursor, checkpoint file | discover, fetch, append, checkpoint, resume | a ticker marked done has its whole tape, across crashes |
| REST client (`rest.rs`, `ratelimit.rs`) | attempt, token bucket | get with retries, pages | bounded retries, paced requests |
| order book (`kdp-core/src/book.rs`) | levels and totals per side | apply snapshot, apply change | totals equal the levels, underflow is clamped |
| offline processor (`kdp-process`) | the replayed book, tables, coverage | process a ticker's log | the tables say what the log says; a hole is never covered up |
| verify engine (`kdp-process/src/verify.rs`) | recent states, one pending check | book event, gap, check, finish | a verdict is justified by the log |
| loader and replay (`kdp-load`) | lanes, last key, replayed book | merge, dedup, replay, range | one order; a range is exact |

How they interact. The session and the sweep are producers, the writer is the
only consumer; they share nothing but two bounded channels. The session never
sees the disk, the writer never sees the socket: a halted writer is noticed by
the session as a failed send, and an ended session by the writer as a closed
channel. A supervisor starts `capture_session` inside a unit and stops it through
its `shutdown` future; unit, supervisor, archive, checkpoint and nightly sweep
meet only in the session's directory, through the markers `.done` and `.archived`,
the age of its files, and a lock. The backfill appends to the same kind of logs.
The processor turns a log into tables and a manifest; the loader merges the
tables into one stream and replays it.

What is hard: one merged sequence number for all tickers of a subscription; losses
noticed only by a later frame; sends that block with the shutdown future unobserved;
two channels that end in either order; a counter shared by two receive arms; a record
counted and then not written; death of the process in the middle of a line, with a
restart on the same files; an abort that races with a drain; markers read long before
they are acted upon, and removed by their age; two archives of one session; a drain
that gives up; requests retried and runs resumed over what was already written; a
clock that is set back; verdicts about the past. `PROJECT.json` lists each of these
hazards at its line.

## 2. Modules

| Module | Models | Notes |
|---|---|---|
| `SeqTracker` | `SeqTracker`, `classify_seq` | pure operators: next `last_seq` and verdict |
| `Mpsc` | tokio's bounded channel (external) | queue, sender alive, receiver alive |
| `WholeStream` | abstract | what a recorded stream promises its reader |
| `Session` | `run_session` | and the exchange at the other end of the socket |
| `Store` | `JsonlWriter::append`, `read_envelopes` | a log is a sequence of lines, some torn or spoiled; `Readable` is the positions of those that decode |
| `Writer` | `writer_task`, `StreamSet`, `DiskGuard` | and the death of the process |
| `VerifySweep` | `verify_sweep` | chunks, answers with missing or undecodable books, abort |
| `Capture` | `capture_session` | extends `Session`, instantiates `VerifySweep` and `Writer` on shared channels |
| `Backoff` | `Backoff` | with its bit width |
| `Unit` | `run_capture_unit` | watcher, backstop, capture, markers, checkpoint, of every session |
| `Archive` | the two scripts | extends `Unit`; one process per session and kind |
| `Inflight` | `reap_inflight`, `drain_inflight`, `park_until_shutdown` | what the supervisors share |
| `Universe`, `Scheduled`, `Hourly` | the three supervisors | extend `Inflight` |
| `Supervise` | the process | composes all of them; death, stop and restart |
| `RateLimit`, `RestGet` | `TokenBucket`, `get_with_retry` | used by `Backfill` |
| `Merge` | `merge.rs` | keys, dedup, lanes, the order check |
| `Backfill` | `run_backfill` | over `RateLimit`, `RestGet`, `Store`; read back through `Merge` |
| `Book` | `Book` | levels, totals, underflows |
| `Replay` | `BookReplayer`, `RangeIter` | over `Merge` and `Book` |
| `VerifyEngine` | `VerifyEngine` | pure operators on the engine's record |
| `Process` | `process_ticker` | one action per arm of the record loop |
| `Offline` | `coverage`, `Loader` | `Process` and `Replay` end to end |
| `MCSession`, `MCWriter`, `MCCapture`, `MCSupervise`, `MCHistory`, `MCOffline` | | constants of the TLC instances |
| `SessionProofs`, `WriterProofs`, `CaptureProofs`, `SuperviseProofs`, `BackfillProofs`, `MergeProofs`, `OfflineProofs` | | theorems about the module of that name (section 5) |
| `StoreProofs` | | the lemmas on log lines that `Writer` and `Capture` share, and the induction rule |

**Session.** `pc` is the place in the two loops: `connecting` (the first `select!`),
`backoff` (`sleep_or_shutdown`), `read` (the inner `select!`), `send` (awaiting
`sink.send`), `again` (round the read loop after a ping or a repeat, which are not
forwarded), `closing` (awaiting `ws.close`), `ended`. `gaps` is what the fan-out still
owes, `pend` the frame behind it; `tracker` is the `HashMap<i64, SeqTracker>`, one sid
per channel. Each arm of the code is an action, with its whole effect: reading a data
frame decodes, classifies, moves the tracker and decides on markers in one step,
because no await lies between; each send is a step of its own, because each may wait.
A step in `send`, in the pong or in the close does not look at `shutdown`, as in the
code. `Disconnect`, which includes the idle timeout, is possible in `read` only, and
every frame, a ping included, takes the session out of `read`: the timer starts anew.

The exchange is external. It numbers the frames of a sid consecutively from 1 on
each connection, keeps the true version of every stream, and may lose, repeat or
garble a frame. `book` and `cur` are history: what a reader would hold after the
records forwarded so far, and which version the last of them really had. The
reader's rules (`Apply`) are those of the book and of the documented gap
semantics: a snapshot sets the book, a delta adds to it, a marker makes it
suspect until the next snapshot, a raw record changes nothing.

**Writer.** One action per outcome of `select!`, each with the count, the append,
the disk check that may follow and the halt. An append that fails has written
nothing, or the line (a buffer flushed on drop), or, with the fault `tear`, a
part of it. A crash leaves the files, possibly with a torn line, and restarts the
task. `acked` and `below` are history.

**Capture.** The variables of the three parts with the channels shared; each task's
step leaves the others' state alone. `Crash` restarts the whole process on its files:
the session's reader is then whoever reads the log, so `book` is recomputed from it. A
reader is the pair of a book and the version its last record really had; `Reads` is
what it holds after a sequence of lines, as a recursive function of their number,
`Logged` what it holds after the log, and `Arriving(s, n)` after the log and the first
`n` frames in the channel. `offered` counts the books that the verify channel took,
`due` what it was when `run_session` returned.

**Unit, Archive, the supervisors, Supervise.** A session is an event; its directory is
`raw` (the records in it), `done`, `archived` and `recent` (a write within
`KDP_SETTLE_MINUTES`). `unit[s]` is its task: `capture`, `mark` (write `.done`),
`spawn` (the archive), `over`; the watcher is `top`, `grace`, `notified` or `gone`.
`capture_session` is reduced to what it does to the directory: it adds records until
it was told to stop, or fails. That it returns once told is `ShutdownReturns` of
`Capture`. `arch[s][k]` is the archive the unit spawned (`explicit`) or the one of the
nightly timer (`sweep`); each step of the script between two effects is an action, and
each may fail or be the last. Deleting the files under a live writer makes the session
an `orphan`: what it writes from then on nobody will read. `aged` are the directories
that did not change for `KDP_HOT_DAYS` (their own time stamp: a record appended to an
old file does not move it): at the end of the nightly run their Parquet files expire,
and when they are archived and hold no ticker directory they are removed with their
markers; `reaped` is the history of that. A supervisor that leaves its loop waits in
`drain` for its tasks; 30 s may pass for any that has not ended (`overdue`), and then
the process exits with it. The three supervisors are loops over the same units, each a
`pc` with one action per await: a sweep of the listings finds any subset of the
markets (calls fail, pages are capped), a resolve or discovery may take any time
within its grace. `pending` is the schedule still to be armed, a set with the order of
its arm times (`IsHead` is the entry the sorted list has in front). `clock` moves
through a few instants, in minutes. `Crash` kills the process and, as systemd does
with its control group, its scripts.

**Backfill.** The markets of a run are listed (live tier or archive), read from the
`markets.jsonl` of an earlier run, or given. A listing is read page by page for as long
as it has a cursor: a page is any markets of the query in any order, repeated ones
included; the last one comes when the exchange says so, and then every market has been
on one (`listed`). Nothing bounds the number of pages. `Resolve` filters them by volume,
records them and makes the rate limiter. `pc` then follows the three nested loops;
a GET is an attempt counter and a timer, and an answer is a page, a retryable or a
final error. `sent[a]` is history: the paced requests of the last `a` units of time.
What a process holds in memory goes with it (`Ends`). The log lines and
the checkpoint lines may be cut at any point by a kill: the checkpoint's line and
its newline are separate writes, so a line may be whole and *open*. `Tape` reads
the logs back: undecodable lines are dropped (and make the manifest incomplete),
then `Merge` orders and dedups. Each trade has three times, all of them free: when it was
executed, when a live capture received it, and when a backfill fetched it.

**Process and Offline.** Each step takes the next line of a log, any line the
capture could have written: a snapshot, a delta, a gap, a REST check stamped
earlier than it is written; then the trade log. The clock may stand still or be
set back between lines. `Finish` resolves the engine, synthesizes a gap for each
mismatch, sorts and writes. `Load` merges the tables to the end or to an
`OrderViolation`. The properties compare what is read with `log`, the history of
lines.

The definitions introduced as a "plausible bug" are variants that no
specification uses. Each stands for a slip one could make in the code, and each
makes the property it is paired with (in `PROJECT.json`) fail.

## 3. Runs

| Run | Instance | Shows |
|---|---|---|
| `session_books` | 2 tickers, 5 order book frames per connection, sink of 1 | no silent hole, the inductive invariant, the refinement of `WholeStream` |
| `session_tapes` | 2 tickers, 3 trades per connection, sink of 1, with fairness | the same for tapes; a session told to stop ends; one whose consumer is gone ends, unless it lives on pings or never gets through again |
| `session_skew` | `SnapshotsLead = FALSE` | **violated**: a snapshot of one ticker hides the loss of another's delta |
| `writer` | 2 streams, check every 2, all faults, 3 lines | the floor is watched over both channels; a torn tail costs one record at most |
| `capture` | session and writer, 3 frames, failing appends, a crash | forwarded is persisted, also by a restarted process; the log of one process is whole; Ok means complete |
| `capture_live` | all three tasks, 2 tickers in 2 chunks, disk and append faults, with fairness | the sweep disturbs nothing, what it handed over is written, the report is what is on disk; a capture told to stop returns |
| `capture_crash` | trades and a crash | **violated**: a restart leaves an unmarked hole in the tape |
| `backoff_wrap` | 20-bit integers | **violated**: the delay wraps to zero |
| `supervise` | each supervisor; an hourly event with 2 markets and a daily one that overlaps it, cap of 1, 1 record, 2 checkpoints, 2 starts, stubs reaped after an hour | captured records are on disk or on the remote; archives are of stopped units; live units run; the cap; archived stays archived; checkpoints are undisturbed; a process leaves marks but for what its drain gave up on |
| `supervise_overlap` | universe only, `SweepAlone = FALSE` | **violated**: the later of two archives overwrites the good tar |
| `history` | 2 markets (overlapping pages; a cursor that never ends), four sources of the market list, live prints before (one of them slower than a later trade), 2 runs, with fairness | a ticker marked done has its whole tape; each trade is at its place in it, once; the rate is kept; discovery is exact; a run past its listing ends when it is answered |
| `offline` | one price on each side, logs of up to 5 records, clock steps of -1 to 2, window 1 | the log reads, the replay agrees, ranges are exact, coverage is the reader's suspect time, verdicts are sound |

Bounds. A silent hole needs a baseline, a lost frame and a frame that would show
it: for books of two tickers that is two snapshots and two deltas, and a fifth
frame for what comes after the markers (`BookSeqs`), for tapes three trades
(`TapeSeqs`), with as many versions; the sequence starts again on each
connection and connections are not bounded in the session runs, so reconnects in
any number and at any point are covered. A sink of one element makes every send
wait, which gives the most interleavings; a larger one removes none. `MaxVersion`
bounds how far a market moves. In the writer run three lines per stream exceed
the check interval of two, so the counter wraps, and a torn line can be followed
by the one it spoils and one more. In the composition, each run bounds frames,
connections and crashes to what its question needs: one frame and two chunks for
the sweep, three frames for a hole behind a failed append.

In `supervise`, two events make the cap bind and give the schedule an order; two
markets make a poll's page partial; two starts make one restart, at any point; two
checkpoints are one whose copies may be purged while the next one works. One record is
enough for the loss of a record: one behind the tar of an archive would need an archive
beside a capture, which `ArchivesAreOfStoppedUnits` excludes for any number. `HotMinutes`
is an hour there, so that a unit that failed before the hour, was archived and lost its
stub is armed again at its end. The two markets of the hourly event are symmetric: no
action and no property tells them apart.
The clock's instants are the
minute before the hour, when the hour is armed, and its end, when backstops and the
window are due. In `history`, two pages that overlap, three attempts, a bucket of two
and one resume give each branch of the loops; the live logs cover a trade captured
before, after and beside the fetched one, and a trade only fetched that was executed
while a live print was under way; one market closes on the boundary of two chunks and
one on the end of the window, one reaches the volume asked for, and the given list
names one twice. In `offline`, five records hold a snapshot, a change, a gap, a check
and what follows, the window of one unit lies between steps of 0, 1 and 2, and one
REST book that the log may or may not reach gives every verdict. `CHECK_DEADLOCK
FALSE` everywhere: an ended session, a returned capture, an exited supervisor and a
loaded log have stopped for good, and bounded producers run dry.

Fairness. Weak fairness of a task's own steps is what the tokio runtime gives a
task that is ready. For the session alone the following is assumed besides: the
consumer, while it lives, receives; the one frame that a pong or a close writes is
written or fails; and the idle timer expires in a read loop that no frame comes to
(weak fairness of `Disconnect`; since every frame takes the session out of `read`,
this forces nothing on a feed that keeps sending). What the exchange sends, and
whether it accepts a connection, is free, so
`ClosedSinkEndsSession` has two premises: `PingsStop`, from some time on no frame is
read that is not forwarded, and `OutagesEnd`, the session gets through to a connection again
and again. Without the first the code gives no such promise: a server that sends
nothing but pings restarts the timer for ever, and the session of a dead writer
stays. Without the second it has nothing to send. For `ShutdownReturns` the tasks
are scheduled and pongs and closes end, which in the code no timeout sees to;
nothing else is assumed of the exchange, and nothing of the REST service or of the
disk. For `RunEnds`, the run's own steps and the end of its sleeps are fair, an
answer to a request is not: the client sets no timeout. Its premise is that no request for
trades stays unanswered for ever, with whatever answer, and it speaks of a run
whose markets are listed, because the cursors of the listings have no cap. Starting
a run and killing one are not fair.

Conditions in the properties. `SnapshotsLead` and `SweepAlone` are the conditions
under which the statements of section 4 hold; the runs without them show what happens
otherwise. `Retaken` excuses the scheduled and hourly supervisors after a restart
(section 4, last list). Sessions that were `reaped` are excepted from what is said of
archived sessions (section 4, last list); `overdue` units, from the marks of an exit.
`Monotone` says that the clock was not set back.

## 4. Disagreements with the documentation

Shown by a run:

1. `gap.rs` and `capture.rs` call sequence tracking exact for transport loss. It
   is, when the exchange snapshots every ticker of a sid before any delta
   (`SnapshotsLead`, assumed in the proofs); otherwise a snapshot's new baseline
   hides the loss of another ticker's delta (`session_skew`).
2. The data guide says that an empty gaps table means a whole capture. A process
   restarted on its directory treats its first connection as the first ever and
   marks nothing (`capture_crash`).
3. `Backoff` says it saturates and never collapses to zero. `checked_shl` checks
   the shift and not the bits; with the base of 500 ms the delay is zero at the
   attempts 62 and 63 (`backoff_wrap`).
4. `kdp-archive.sh` takes care that an archive of nothing never overwrites a good
   one. Two archives of one session, the unit's and the nightly sweep's, may still
   do it: the guard is read before the upload, the lock is taken after it
   (`supervise_overlap`).

Met while modelling, without a run of their own:

- `kdp-archive.sh:217` calls an old stub pure residue, whose marker is no longer in use.
  An event that is still open `KDP_HOT_DAYS` after its archive (its unit ended at the
  backstop, or failed) loses `.done` and `.archived` with it, is listed and captured
  again under its old name, and the next archive finds no marker and copies its tar over
  the first, whose raw records are deleted. `universe.rs:231` knows of the second
  capture and accepts it; neither comment says what it does to the first one's records.
  The model has all of this (`ReapStub`); `NothingCapturedIsLost` would fail if it did
  not except the sessions that were `reaped`.
- ADR-002 (line 44) calls the log crash-safe with a discardable torn *final* line.
  The next process appends to that line, and the record glued to it is lost with
  it: one record per tear, never more (`TornTailCostsOneRecord`).
- `writer_task` drains the verify channel "rather than silently dropping
  already-fetched data" (`capture.rs:401`). What the sweep holds beyond the
  channel's 64 places is dropped by the abort.
- A capture-scheduled or capture-hourly that is restarted takes up a session again
  that is `.done` and not yet `.archived`; the sweep believes the marker and may
  archive and prune under the live capture once it has been quiet for
  `KDP_SETTLE_MINUTES`. Only `plan_arms` of the universe supervisor looks at
  `.done`. capture-hourly looks at no marker at all.
- A universe supervisor that reaches its window's bound does not tell its units to
  stop, and `drain_inflight` gives each 30 s (its comment demands that they were
  told): a unit whose own backstop is later is dropped without `.done`.
- `universe.rs:173` says that a restart can never extend the window. With `--for`
  the bound is computed from the clock of each start, so it does.
- `between(t0, t1)` stops at the first event at or after `t1`. Where a clock was
  set back behind that event, the later part of the range is silently missing,
  though `merge.rs:185` promises an error; a stream that reads to its end has no
  such place, and `RangeIsExact` is about those.
- A sequence gap is stamped with the time of the frame that revealed it and has no
  seq, so at that time the merged stream has the frame before the gap
  (`merge.rs:15` says that gaps announce holes before data).
- Coverage closes a hole at a snapshot of the same microsecond as the gap; in the
  merged stream that snapshot precedes the gap, so the reader stays suspect.
  `HoleIsSuspectTime` leaves such logs out.
- A backfill that hits its page cap marks the ticker as done all the same, and the
  discovery loops have no cap: a cursor that does not advance keeps them going, as does a
  request that is never answered. Retries of a request are not paced by the bucket.
- In the reader's tape a trade that only a backfill has sits at its execution and a
  captured one at its reception (`merge.rs:49`), so a trade executed while an earlier
  live print was under way comes before it. `TapeIsInOrder` states that rule.
- A session whose writer is gone stays as long as the exchange sends nothing but pings
  (`session.rs:140`, `210`).
- `markets.jsonl` is truncated and written line by line. A run killed between two
  lines leaves a shorter list that parses; `stream-backfill.sh:58` tests only that
  it is not empty, and never enumerates again.

## 5. Proofs

`SessionProofs`, for any number of tickers, any capacity and any bounds:

- `TypeCorrect`: `Spec => []TypeOK`.
- `IInvCorrect`: `IInv` is invariant when `SnapshotsLead`. `NoSilentHole` is not
  inductive: whether a frame is safe to apply depends on what the tracker has
  seen, what is still owed, and what the exchange has published meanwhile. `IInv`
  says it: while connected, a stream that is not suspect and owes no marker has a
  tracker; if a frame for it is in hand, the frame is a snapshot or the very next
  change; otherwise, if the tracker is level with the sid (or the snapshots are
  still coming), the stream is up to date. `FeedInv` ties the last frame of a sid
  (which may be repeated) and the frame in hand to the tracker, and bounds
  versions by the truth; `ControlInv` says that an idle session owes nothing and
  that nothing was read before the first connection. The argument, per action: a
  loss moves the sid and leaves the tracker behind, so the next delta or trade is
  a hole and puts its stream among `gaps`; a repeat equals the tracker and is
  skipped, or is a snapshot of the same version; a reconnect puts every stream
  among `gaps` before anything is read.
- `HolesAreMarked`, `LevelTrackers`: `NoSilentHole` and `LevelTrackerHidesNothing`
  follow.
- `SessionImplementsWholeStream`: each step of `Session` is a step of `WholeStream`
  or leaves it alone. A forwarded snapshot or first trade is a `Rebase`, a delta
  or trade on a good stream an `Extend` (here `IInv` is needed), a marker a
  `Suspect`.

`WriterProofs`, for any producers, capacities and faults:

- `TypeCorrect`.
- `TornTailsCostOne`: what was acknowledged is readable but for one record for each
  torn tail that was written to. The invariant counts, per stream, the readable and
  the spoiled lines (`StoreProofs`: what an append, a failed append and a cut do to
  the two counts).
- `ReportIsOnDisk`: the report counts the readable lines, exactly while the writer
  runs, and at most one ahead on one stream once it halted (`OneAhead`).
- `FloorCounted`, `FloorWatched`: `FloorInv` says that what was appended below the
  floor was appended since the last check and that no check is overdue; it is
  inductive, and `FloorIsWatched` follows.

`CaptureProofs`, for any tickers, capacities, chunk size and bounds, and the faults
named in each theorem:

- `CaptureTypeCorrect`. `TypeInv` adds what the type of the composition leaves open:
  the places of the sweep and of the join, the lines of the logs.
- `ForwardedIsKept`, `OkIsComplete`: no record is lost, reordered or written twice
  between the sink and the file, and Ok means that all are there. `FlowInv` is the
  link: the log followed by what is in the channel, read in order, is exactly what
  the session forwarded, unless the writer gave up. A send adds to the end of both
  sides, a receive and its append move one frame from the channel to the log, a
  crash empties the channel and makes the reader of the log the reference. `JoinInv`
  is the hand-over (the session ended exactly when its sender is gone; a writer that
  left its loop without an error has found the channel empty and closed), `TornInv`
  says that a log ends in a torn line only after a failed append, which halts the
  writer, or a crash. *Hypothesis*: not both `crash` and `tear` among the faults. With
  both, the record written after the crash is glued to the torn tail and lost, which
  is what `TornTailsCostOne` bounds; each of the two alone is covered.
- `HandedOver`: every book that the sweep had handed to its channel when the session
  returned is written when `capture_session` returns Ok. `HandInv` counts: what the
  channel took is what was written and what it still holds, while the writer runs; a
  writer that has drained has found it empty after the sink was over, and so after the
  session's end.
- `LogsAreWhole`: the log of a capture whose process did not die shows no hole
  without a marker. It suffices neither that the forwarded stream is whole nor that
  the log is: the writer may halt after any frame, so `WholeInv` says that the log
  followed by *every prefix* of the channel is whole, with `IInv` of the session for
  the frame that is next. *Hypothesis*: `SnapshotsLead`, as for the session.
- `ReportIsOnDisk`: the same counts as in `WriterProofs`, with both real producers.
- `CaptureImplementsSession`, `CaptureImplementsWholeStream`: while no process dies,
  every step of the composition is a step of `Session` or leaves it alone: the writer
  is no more than the consumer which `Session` leaves open (`LiveInv`: the receiver
  exists as long as the writer's loop). So the session's theorems, and with
  `SnapshotsLead` the refinement of `WholeStream`, hold of the composition.

`SuperviseProofs`, for any events, markets, instants, cap, number of restarts, and
each of the three supervisors:

- `TypeCorrect`, which includes that archives, remote and checkpoints hold nothing
  that was not captured, and `LockInv`: an archive that believes it has the lock has it.
- `MarksAreLeft`: from `TaskInv` (a running task is in flight, and one that has
  spawned its archive has left `.done`). The drain waits for each task or gives it up
  after its 30 s; the theorem names the units it gave up, and those whose stub was reaped.
- `LiveUnitsKeepRunning`: markets never reopen, so what a watcher saw settled still is.
- `CheckpointsUndisturbed`: from `LockInv`.
- `ArchivedOnce`: the guard on `.archived` is read in the step that arms, and what was
  pruned is marked (`PrunedInv`); for any `KDP_HOT_DAYS`, and until the stub is reaped.
- `StoppedBeforeArchived`: `StopInv`, what is archived or being archived has its
  `.done`, and what is being captured has not. For the scheduled and the hourly
  supervisor this needs `OnceInv`: no entry is armed twice by one process, because it
  leaves the list, or because the hours that were armed are behind the boundary.
- `CapturedStaysSafe`: the directory is whole until the session is archived, from then
  on the remote tar is; `SafeInv` says what each place of the archive script knows
  in between (before `.archived`, its tar is all that was written, and stays so
  because the unit was stopped before). *Hypothesis*: `SweepAlone`; `supervise_overlap`
  shows that it is needed. Reaped sessions are excepted, for the reason that section 4
  gives.
- `CapHolds`: `CapInv` bounds the tasks in flight, which include the capturing ones.
  `plan_arms` takes the candidates that have fewer than the free places before them;
  the lemma `FirstOnes` says that there are no more of those than free places.

`Retaken` excuses two of these properties after a restart of the scheduled and hourly
supervisors, as in the runs.

`MergeProofs`, for any three tables whose lanes have keys:

- `StreamIsMerge`: what `EventIter` gives is drawn from the lanes, each in its order and
  no event twice, in key order; it is all of them unless the order check trips, and
  over lanes that are sorted the check never trips. `Events` is a recursive function of
  the number of calls; `Progress` says what n calls of `EventNext` have made of the
  lanes: which place of which lane each event was taken from (`Drawn`), that the heads
  are what is next of each lane (`Left`), and, for sorted lanes, that no head is behind
  what came out last (`Ahead`).
- `TradeLaneIs`, for any table of trades (each row a trade_id, a source and times): the
  trade lane names each trade of the table once, in strictly
  ascending key order. `FirstCopyExists` and `OneCopyIs` say which rows a group of
  copies takes its place and its fields from; keys are totally ordered
  (`KeysAreOrdered`, by `BeforeIsLess`, which unrolls the comparison of the six
  components) and two events of one key are of one row. The sort is written by rank,
  and `SortedByRank` shows that every rank below the number of events is taken once
  (an injection of a finite set into one of its size is onto).

`BackfillProofs`, for any series, window, chunk, bucket, tape, logs left by a live
capture, and number of runs:

- `BackfillTypeCorrect`: the bounds of `TypeOK` follow from `FlowType`, which adds what the
  types of lists and pages leave open: the current ticker is one of the list, the
  cursor is a page of its tape, a listing in progress has a chunk left.
- `FoundIsExact`: `FoundInv` says that what was found are the markets of the chunks
  behind `lo` and those of the current one that the cursor has passed, each once, in
  whatever pages they came, and that `markets.jsonl` never names a
  market twice, however it was cut: a run that reads it must find it so.
- `CheckpointIsSafe`: `WalkInv` says that the log of the ticker being walked, if its
  manifest will be complete, has every trade the walk has `seen`; that the walk has
  seen what the pages behind it hold; and, at a page, that the rest is still in
  `page`. `CkptInv` is what is left of it once the ticker is marked. An append that
  glues, tears or falls back to a raw message makes the log incomplete for good
  (`CompleteGrows`), so later runs cannot break what a checkpoint line promised.
- `TapesAreInOrder`: for any times of execution, reception and fetching, each trade of a
  log is in the reader's tape once, at the reception of its live copy or, without one, at
  its execution, with the fetched fields where it was fetched. From `TradeLaneIs`: the
  lane is in key order, and the key of the copy that `OneCopy` picks leads with that time.
- `RateIsHonoured`: in each stretch of time up to `Horizon` no more requests are sent than a
  full bucket and what it gains meanwhile. `RateInv` ties the requests of the last `a`
  units to the bucket's level (`sent[a] + Level <= Capacity + a`), and says that a
  debt of one is paid before the request it was made for is sent; it holds over
  page errors, ends of runs and new limiters.

`OfflineProofs`, for any slots, snapshots, deltas, REST books, lags, window and number
of lines:

- `OfflineTypeCorrect`: the types, and that the running totals of the book are the sums
  of its levels after any snapshots and deltas, those that would take a level below
  zero included. The sum over a finite set is the fold of the community modules; that
  the recursive function inside it exists, and that a sum changes by what one of its
  terms changes (`SumTakesOut`, `SideSumChanges`), are lemmas.
- `OfflineVerdictsAreSound`: on a log whose clock never went back every check has one
  row, in order, and its outcome is justified by the log. `SoundInv` says what the
  engine's few fields know of the whole log. Its window is the last book lines, and
  what was pruned was over before the newest line's window opened (`WindowInv`); a gap
  is pending exactly when the next check would be suspect. A check that waits has met
  no equal state that was still in force when its window opened, and only book lines
  within the window came after it (`Pending`). A verdict that was given is put in terms
  that no later line changes (`Judged`; `JudgedKept`): a mismatch needs that its window
  is closed, and a match that no book line behind the equal state is stamped before the
  window opens, which is where a clock that is set back would break it. `Lags` may be
  any natural numbers: a check that is written late may match a state as late as its
  writing, and its mismatch is measured from the last book line before it. Both bounds
  are those of `Verdict`.

The other four relate the written tables, the merged stream and the log. They need
`TablesInv`, for as long as lines are still added: the book lane built from the rows
has one event for each book line of the log, in their order, and replaying its first k
events gives the state that the processor had after the k-th book line (`Tells`,
`Lined`). A line adds the rows of one event and no row of an earlier one (`OneEvent`),
so the grouping of snapshot rows in `BookLane` only grows at its end. While the clock
does not go back the lane is in key order (`Clocked`); every event of it has a seq
(`Numbered`); the gap rows are sorted once they are written, and the stream is what
`Events` makes of the tables (`StreamInv`).

- `OfflineMonotoneLogReads`: then all three lanes are sorted, and `StreamIsMerge` says
  that the check never trips.
- `OfflineReplayAgrees`: gaps and trades leave the replayed book alone, so what the first
  i events of the stream leave is what the book events among them leave, and those are
  the first ones of the lane (`Taken`, `BookOfPrefix`). The clock may have gone back.
- `OfflineRangeIsExact`: a stream in key order is cut by t0 and t1 into three runs. The
  book at t0 is that of a prefix. The pending gaps of a prefix are a run of the gap lane
  that ends with the last gap taken and starts after the last snapshot (`GapRun`, by
  induction over the stream), which are the gaps that no snapshot before t0 answers
  (`PendingAt`). That no event of the range is lost or doubled is a bijection between
  the places of the range and those of the tables, for each kind.
- `OfflineHoleIsSuspectTime`: the instants of the span that are in some hole of
  `coverage` are those after which a range opens with a non-empty run, as sets; so the
  two lengths agree, overlapping holes included.

The assumptions are those of the modules, and TLC evaluates each on the instances:
positive sizes, natural bounds, records routed to known streams, a finite number of
events, and faults that are among the named ones.

Induction over data. The library's induction theorems take an operator, which the
installed provers cannot instantiate. Where a recursive function is involved (`Reads` in
`CaptureProofs`; `Only` and `Cursors` in `BackfillProofs`; the calls of `Events` in
`MergeProofs`; the sum and `Replayed` in `OfflineProofs`) the proofs use induction on a
*set* of numbers instead (`Induction`, in `StoreProofs`), derived from the
well-foundedness of the strict subsets of finite sets; that the recursive function
exists is shown the same way.

Only model-checked: the four liveness properties, `ShutdownReturns`, `RunEnds`,
`ClosedSinkEndsSession` and `ShutdownEndsSession` (fairness and `ENABLED` are out of the
prover's reach), and the runs of section 4, which show that a documented claim does not
hold. Every other property of the passing runs is a theorem.

## 6. What is left out

Statistics, logging and printed reports; the parsing of JSON fields,
prices and names; credentials and headers; argument parsing. UTC day rotation
appears only as the possibility that a record after a torn tail starts a new
file. Corruption of the file system after a power failure (as opposed to a dead
process) is not modelled: the code flushes and does not sync.

Of the supervisors: `--for`; a `.done` that cannot be written; which strikes
`select_band` takes (any subset of the ladder here) and how schedule entries are
matched to events. Of the scripts: the
removal of aged lock files (opening one for the lock makes it new again), the
dropping of one-sided strikes, `KDP_BACKUP_RAW` or `KDP_PRUNE` set to 0. Of the
backfill: the listing of a series without `--min-close`; `--since`; a tape that changes
while it is fetched or differs between the tiers (`TradesPage` reads one constant tape);
sleeps are exact. Of the processor: the `book_top` and `raw`
tables, Parquet files, snapshot levels of quantity zero; lines that do not decode
matter only for the completeness of the manifest. Of the loader: columns, schemas
and read errors in a lane.

Not modelled at all, with the reasons in `PROJECT.json`: credentials and
handshake, the command line, the Python packages, and the scripts for mirroring,
monitoring and installation. They keep no state that another part reads.

## 7. Plan

The modules of the plan are written, and every safety and action property of the passing
runs is proved. What is left:

1. `--for`: a restarted supervisor resolves it against its own clock, so its window moves
   (`universe.rs`); `Supervise` has a fixed end.
2. The tables `book_top` and `raw` of the processor, and the listing of a series without
   `--min-close`.
3. Liveness by proof, when a prover for `ENABLED` is at hand; TLC checks it under the
   fairness of section 3.
