----------------------------- MODULE Supervise -----------------------------
(***************************************************************************)
(* A supervisor process with its units, the archive and checkpoint scripts *)
(* and the nightly sweep, on one data directory.  `mode` is the supervisor *)
(* that runs: capture-universe, capture-scheduled or capture-hourly.  The  *)
(* process may die at any point and be started again by systemd, or be     *)
(* stopped and started again by the operator.                              *)
(***************************************************************************)
EXTENDS Hourly, Scheduled

CONSTANTS
    Modes,      \* the supervisors to consider
    MaxStarts   \* bound: starts of the process
ASSUME SuperviseAssumption ==
    /\ Modes \subseteq {"universe", "scheduled", "hourly"}
    /\ MaxStarts \in Nat

VARIABLES mode, starts

vars == <<world, unit, pc, inflight, overdue, pending, hourVars, until, mode, starts>>
loopVars == <<pc, inflight, overdue, pending, hourVars, until, mode, starts>>

FirstPc(m) == IF m = "scheduled" THEN "next" ELSE "top"
PendingAt(m, now) == IF m = "scheduled" THEN ArmOrder(now) ELSE {}

Init ==
    /\ mode \in Modes
    /\ until \in IF mode = "universe" THEN Bounds ELSE {NoTime}
    /\ clock = Instants[1] /\ terminal = {} /\ shutdown = FALSE
    /\ unit = [s \in Sessions |-> NoUnit]
    /\ done = {} /\ archived = {} /\ recent = {} /\ orphan = {}
    /\ aged = {} /\ reaped = {} /\ overdue = {}
    /\ raw = [s \in Sessions |-> {}] /\ written = [s \in Sessions |-> 0]
    /\ arch = [s \in Sessions |-> [k \in Kinds |-> NoArchive]]
    /\ lock = [s \in Sessions |-> "free"] /\ ckpts = [s \in Sessions |-> 0]
    /\ processed = {}
    /\ remote = [s \in Sessions |-> {}] /\ copies = [s \in Sessions |-> {}]
    /\ pc = FirstPc(mode) /\ inflight = {} /\ pending = PendingAt(mode, clock)
    /\ boundary = 0 /\ ladder = {} /\ prevCount = 0
    /\ starts = 1

Supervisor ==
    \/ mode = "universe" /\ UniverseStep /\ UNCHANGED <<pending, hourVars, until, mode, starts>>
    \/ mode = "scheduled" /\ ScheduledStep /\ UNCHANGED <<hourVars, until, mode, starts>>
    \/ mode = "hourly" /\ HourlyStep /\ UNCHANGED <<pending, until, mode, starts>>

Units ==
    /\ \E s \in Sessions : UnitStep(s)
    /\ UNCHANGED <<processed, remote, copies, loopVars>>

\* Only the universe supervisor is given a --checkpoint-cmd.
Checkpoints ==
    /\ mode = "universe"
    /\ \E s \in Sessions : Checkpoint(s)
    /\ UNCHANGED <<processed, remote, copies, loopVars>>

Scripts ==
    /\ \E s \in Sessions : ArchiveStep(s)
    /\ UNCHANGED loopVars

World ==
    /\ \/ Tick
       \/ Signal /\ pc # "exited"
       \/ \E s \in Sessions : GoesQuiet(s) \/ \E t \in TickersOf[s] : Settle(t)
    /\ UNCHANGED <<processed, remote, copies, loopVars>>

\* A new process on the same directory.
Starts ==
    /\ starts < MaxStarts
    /\ starts' = starts + 1
    /\ shutdown' = FALSE
    /\ pc' = FirstPc(mode)
    /\ pending' = PendingAt(mode, clock)
    /\ boundary' = 0 /\ ladder' = {} /\ prevCount' = 0
    /\ ProcessGone
    /\ UNCHANGED <<mode, until>>

\* The process dies without a word, and Restart= starts it again.
Crash == pc # "exited" /\ Starts
\* The operator starts it again after a clean exit.
Redeploy == pc = "exited" /\ Starts

Next == Supervisor \/ Units \/ Checkpoints \/ Scripts \/ World \/ Crash \/ Redeploy

Spec == Init /\ [][Next]_vars
-----------------------------------------------------------------------------
UnitType == [pc : {"none", "capture", "mark", "spawn", "over"},
             watch : {"top", "grace", "notified", "gone"},
             targets : SUBSET Markets, deadline : Int]
ArchiveType == [pc : {"none", "guard", "process", "upload", "copy", "lock", "purge",
                      "archived", "prune"},
                tar : SUBSET Nat, locked : BOOLEAN, complete : BOOLEAN]

Types ==
    /\ mode \in Modes /\ until \in Int /\ starts \in Nat \ {0}
    /\ clock \in Int /\ terminal \subseteq Markets /\ shutdown \in BOOLEAN
    /\ unit \in [Sessions -> UnitType]
    /\ done \subseteq Sessions /\ archived \subseteq Sessions /\ processed \subseteq Sessions
    /\ recent \subseteq Sessions /\ orphan \subseteq Sessions
    /\ aged \subseteq Sessions /\ reaped \subseteq Sessions /\ overdue \subseteq Sessions
    /\ inflight \subseteq Sessions /\ pending \subseteq Sessions
    /\ written \in [Sessions -> Nat] /\ ckpts \in [Sessions -> Nat]
    /\ raw \in [Sessions -> SUBSET Nat] /\ remote \in [Sessions -> SUBSET Nat]
    /\ copies \in [Sessions -> SUBSET Nat]
    /\ lock \in [Sessions -> {"free", "checkpoint"} \cup Kinds]
    /\ arch \in [Sessions -> [Kinds -> ArchiveType]]
    /\ \A s \in Sessions : raw[s] \cup remote[s] \cup copies[s] \subseteq 1 .. written[s]
    /\ \A s \in Sessions, k \in Kinds : arch[s][k].tar \subseteq 1 .. written[s]
    /\ pc \in {"top", "sweep", "next", "wait", "resolve", "park", "prearm", "discover",
               "ladder", "past", "drain", "exited"}
    /\ boundary \in Int /\ ladder \subseteq Markets /\ prevCount \in Nat

\* An archive that believes it has the lock has it.
LockInv == \A s \in Sessions, k \in Kinds : arch[s][k].locked => lock[s] = k

\* The type invariant of the composition: what an archive holds, the remote
\* holds or a checkpoint copied are records of the session, and the archive
\* that goes on with the destructive steps is the one holder of the flock.
TypeOK == Types /\ LockInv

\* A restarted capture-scheduled (within the event's window) or capture-hourly
\* (before the hour) takes up a session again that is .done and not yet
\* .archived, and the sweep believes the marker: that case is excused below.
Retaken == mode \in {"scheduled", "hourly"} /\ starts > 1

\* Every record a unit wrote is in the session's directory or in the verified
\* tar on the remote, whatever failed, died or was started again, until the
\* stub of the session is reaped: an event that is still open may then be
\* captured again under its name, and the next archive replaces the tar.
NothingCapturedIsLost ==
    Retaken \/ \A s \in Sessions \ reaped : 1 .. written[s] \subseteq raw[s] \cup remote[s]

\* No archive works on a session that is being captured: plan_arms skips what
\* is .done, and the sweep asks for it.
ArchivesAreOfStoppedUnits ==
    Retaken \/ \A s \in Sessions, k \in Kinds : Archiving(s, k) => ~Capturing(s)

\* A unit is not told to stop before its backstop while one of its markets is
\* live, whatever pages the polls return.
LiveUnitsRun ==
    \A s \in Sessions :
        Capturing(s) /\ unit[s].watch \in {"grace", "notified"} /\ clock < unit[s].deadline
            => unit[s].targets \subseteq terminal

\* The universe supervisor never captures more than --max-units events.
UnitsAreCapped ==
    mode = "universe" => Cardinality({s \in Sessions : Capturing(s)}) <= MaxUnits

\* A session that was archived, or whose records were pruned, is not captured
\* again, by this process or by one started later, until the nightly run reaps
\* its stub: the prune keeps the markers that plan_arms and run_scheduled ask
\* for.  (capture-hourly asks for no marker: stopped and started again within
\* the minute before the hour, it would.)
Finished(s) == s \in archived \/ (written[s] > 0 /\ raw[s] = {})
ArchivedStaysArchived ==
    [][mode # "hourly" =>
          \A s \in Sessions \ reaped : Finished(s) /\ ~Capturing(s) => ~Capturing(s)']_vars

\* A checkpoint's copy meets no purge and no deletion of the same session.
CheckpointsAreUndisturbed ==
    [][\A s \in Sessions :
          lock[s] = "checkpoint" =>
              raw[s] \subseteq raw'[s] /\ copies[s] \subseteq copies'[s]]_vars

\* A process that exits leaves no session behind that the sweep would pass
\* over: every unit it ever spawned has its .done marker, unless its stub was
\* reaped since, or the drain waited 30 s for it in vain (a unit that hangs, or
\* one that was never told to stop because the window's bound ended the loop).
ExitLeavesMarks ==
    [][pc = "drain" /\ pc' = "exited" =>
          \A s \in Sessions \ reaped : unit[s].pc # "none" => s \in done \cup overdue]_vars
=============================================================================
