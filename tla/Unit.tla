-------------------------------- MODULE Unit --------------------------------
(***************************************************************************)
(* run_capture_unit of crates/kdp-cli/src/supervisor.rs: one capture unit  *)
(* per session, with its settlement watcher, its daily checkpoint and the  *)
(* markers it leaves on disk, for all three supervisors.  capture_session  *)
(* (module Capture) appears as what it does to the session's directory: it *)
(* writes records until its shutdown future resolves, or it fails.         *)
(*                                                                         *)
(* The files of a session: `raw` (records in the ticker directories),      *)
(* .done and .archived.  A record is its number in the session.            *)
(***************************************************************************)
EXTENDS Integers, FiniteSets, Sequences

CONSTANTS
    Sessions,     \* event tickers, as numbers: their order is the string order
    TickersOf,    \* the markets of each event
    Settling,     \* bound: the markets that close within the run
    Instants,     \* the moments the clock stops at, in minutes, increasing
    MaxRecords,   \* bound: records of each session
    MaxCheckpoints, \* bound: UTC midnights each session sees
    Failing,        \* sessions whose capture_session may return an error
    HotMinutes      \* KDP_HOT_DAYS, in minutes

Markets == UNION {TickersOf[s] : s \in Sessions}

ASSUME UnitAssumption ==
    /\ Sessions \subseteq Nat /\ IsFiniteSet(Sessions)
    /\ \A s \in Sessions : TickersOf[s] # {} /\ IsFiniteSet(TickersOf[s])
    /\ Settling \subseteq Markets
    /\ Instants \in Seq(Int) /\ Instants # <<>>
    /\ \A i, j \in 1 .. Len(Instants) : i < j => Instants[i] < Instants[j]
    /\ {MaxRecords, MaxCheckpoints} \subseteq [Sessions -> Nat]
    /\ Failing \subseteq Sessions
    /\ HotMinutes \in Nat

VARIABLES
    clock,      \* Utc::now()
    terminal,   \* markets whose status is terminal: closed, settled, finalized, determined
    shutdown,   \* the process-wide watch channel
    unit,       \* the task of each session
    done,       \* sessions with a .done marker
    archived,   \* sessions with an .archived marker
    raw,        \* records in each session's directory
    written,    \* history: records captured so far
    recent,     \* sessions with a write in the last KDP_SETTLE_MINUTES
    orphan,     \* sessions whose writer holds deleted files open
    aged,       \* sessions whose directory has not changed for KDP_HOT_DAYS
    reaped,     \* history: sessions whose stub directory was removed
    arch,       \* the archive processes of each session (module Archive)
    lock,       \* who holds .locks/<session>.lock
    ckpts       \* checkpoints started

worldVars == <<clock, terminal>>
dirVars == <<raw, written, recent, orphan, aged, reaped>>
archVars == <<arch, lock, ckpts>>

\* A JoinHandle that was never made, or whose task is gone.
NoUnit == [pc |-> "none", watch |-> "gone", targets |-> {}, deadline |-> 0]
Running(s) == unit[s].pc \in {"capture", "mark", "spawn"}
Capturing(s) == unit[s].pc = "capture"
\* The unit was told to stop: its watcher notified, or the process is stopping.
Told(s) == shutdown \/ unit[s].watch = "notified"

\* A unit is spawned for `targets` with a backstop at `deadline`.
ArmedUnit(targets, deadline) ==
    [pc |-> "capture", watch |-> "top", targets |-> targets, deadline |-> deadline]
-----------------------------------------------------------------------------
(***************************************************************************)
(* The settlement watcher.                                                 *)
(***************************************************************************)
\* Plausible bug: a ticker that is missing from the page counts as settled.
AllSettledOrAbsent(targets, page) == \A t \in targets : t \in page => t \in terminal
\* all_settled: a ticker absent from the page is not terminal.
AllSettled(targets, page) == \A t \in targets : t \in page /\ t \in terminal

\* poll_once: an answer is a page of the event's markets and whether more
\* pages follow, or an error.
Answers(s) ==
    [page : SUBSET TickersOf[s], cursor : BOOLEAN, ok : {TRUE}]
        \cup {[page |-> {}, cursor |-> FALSE, ok |-> FALSE]}
PollOnce(targets, a) ==
    IF ~a.ok THEN "Failed"
    ELSE IF a.cursor \/ a.page = {} THEN "NotSettled"
    ELSE IF AllSettled(targets, a.page) THEN "Settled" ELSE "NotSettled"

\* One round of the loop before the backstop: poll, then sleep until the next
\* round, or keep capturing for the grace period.
Poll(s, a) ==
    /\ Capturing(s) /\ unit[s].watch = "top" /\ clock < unit[s].deadline
    /\ unit' = [unit EXCEPT ![s].watch =
                    IF PollOnce(unit[s].targets, a) = "Settled" THEN "grace" ELSE "top"]
    /\ UNCHANGED <<worldVars, shutdown, done, archived, dirVars, archVars>>

\* The grace period is over, or the round began after the deadline: notify.
GraceOver(s) ==
    /\ Capturing(s) /\ unit[s].watch = "grace"
    /\ unit' = [unit EXCEPT ![s].watch = "notified"]
    /\ UNCHANGED <<worldVars, shutdown, done, archived, dirVars, archVars>>

Backstop(s) ==
    /\ Capturing(s) /\ unit[s].watch = "top" /\ clock >= unit[s].deadline
    /\ unit' = [unit EXCEPT ![s].watch = "notified"]
    /\ UNCHANGED <<worldVars, shutdown, done, archived, dirVars, archVars>>
-----------------------------------------------------------------------------
(***************************************************************************)
(* The capture and what follows it.                                        *)
(***************************************************************************)
\* capture_session appends a record, the first one into a new ticker directory;
\* into a file that was deleted under it, the record is written and nobody
\* will read it.
Record(s) ==
    /\ Capturing(s) /\ written[s] < MaxRecords[s]
    /\ written' = [written EXCEPT ![s] = @ + 1]
    /\ raw' = IF s \in orphan THEN raw ELSE [raw EXCEPT ![s] = @ \cup {written[s] + 1}]
    /\ recent' = recent \cup {s}
    /\ aged' = IF raw[s] = {} /\ s \notin orphan THEN aged \ {s} ELSE aged
    /\ UNCHANGED <<worldVars, shutdown, unit, done, archived, orphan, reaped, archVars>>

\* capture_session returns, Ok or with an error that is only logged; the
\* watcher and the checkpoint loop are aborted.
StopCapture(s) ==
    /\ Capturing(s) /\ (Told(s) \/ s \in Failing)
    /\ unit' = [unit EXCEPT ![s] = [NoUnit EXCEPT !.pc = "mark"]]
    /\ orphan' = orphan \ {s}
    /\ UNCHANGED <<worldVars, shutdown, done, archived, raw, written, recent, aged, reaped,
                   archVars>>

\* The .done marker, written whatever stopped the capture.
MarkDone(s) ==
    /\ unit[s].pc = "mark"
    /\ unit' = [unit EXCEPT ![s].pc = "spawn"]
    /\ done' = done \cup {s}
    /\ aged' = IF s \in done THEN aged ELSE aged \ {s}
    /\ UNCHANGED <<worldVars, shutdown, archived, raw, written, recent, orphan, reaped, archVars>>

\* The archive is spawned, detached, and the task ends.
NewArchive(pc) == [pc |-> pc, tar |-> {}, locked |-> FALSE, complete |-> FALSE]
SpawnArchive(s) ==
    /\ unit[s].pc = "spawn"
    /\ unit' = [unit EXCEPT ![s].pc = "over"]
    /\ arch' = [arch EXCEPT ![s]["explicit"] = NewArchive("guard")]
    /\ UNCHANGED <<worldVars, shutdown, done, archived, dirVars, lock, ckpts>>

\* A minute past UTC midnight the checkpoint script is spawned.  It takes the
\* lock, or finds it held and skips this checkpoint.
Checkpoint(s) ==
    /\ Capturing(s) /\ ckpts[s] < MaxCheckpoints[s]
    /\ ckpts' = [ckpts EXCEPT ![s] = @ + 1]
    /\ lock' = IF lock[s] = "free" THEN [lock EXCEPT ![s] = "checkpoint"] ELSE lock
    /\ UNCHANGED <<worldVars, shutdown, unit, done, archived, dirVars, arch>>

UnitStep(s) ==
    \/ Record(s) \/ GraceOver(s) \/ Backstop(s) \/ StopCapture(s) \/ MarkDone(s)
    \/ SpawnArchive(s)
    \/ \E a \in Answers(s) : Poll(s, a)
-----------------------------------------------------------------------------
(***************************************************************************)
(* The world.                                                              *)
(***************************************************************************)
\* The next instant of the clock.  Once KDP_HOT_DAYS of the run are over, any
\* directory may have been without a change for so long.
Directories == {s \in Sessions : written[s] > 0 \/ s \in done}
NextInstant == {Instants[i] : i \in {j \in 1 .. Len(Instants) : Instants[j] > clock}}
Tick ==
    /\ \E t \in NextInstant :
          /\ \A u \in NextInstant : t <= u
          /\ clock' = t
    /\ aged' \in IF clock' - Instants[1] > HotMinutes
                THEN {aged \cup old : old \in SUBSET Directories} ELSE {aged}
    /\ UNCHANGED <<terminal, shutdown, unit, done, archived, raw, written, recent, orphan, reaped,
                   archVars>>

\* The exchange closes a market, for good.
Settle(t) ==
    /\ t \in Settling \ terminal
    /\ terminal' = terminal \cup {t}
    /\ UNCHANGED <<clock, shutdown, unit, done, archived, dirVars, archVars>>

\* KDP_SETTLE_MINUTES pass without a write.
GoesQuiet(s) ==
    /\ s \in recent
    /\ recent' = recent \ {s}
    /\ UNCHANGED <<worldVars, shutdown, unit, done, archived, raw, written, orphan, aged, reaped,
                   archVars>>

\* Ctrl-c, or systemctl stop.
Signal ==
    /\ ~shutdown
    /\ shutdown' = TRUE
    /\ UNCHANGED <<worldVars, unit, done, archived, dirVars, archVars>>
=============================================================================
