----------------------------- MODULE Scheduled -----------------------------
(***************************************************************************)
(* run_scheduled of crates/kdp-cli/src/scheduled.rs: the entries of a      *)
(* schedule file, one after the other in the order of their arm times; the *)
(* supervisor waits for the arm time, resolves the entry's markets, and    *)
(* spawns a unit.  After the last entry it parks.                          *)
(***************************************************************************)
EXTENDS Inflight

CONSTANT EntryOf   \* [start, lead, minutes, predicted] of each entry
ASSUME ScheduledAssumption ==
    \A s \in Sessions :
        EntryOf[s] \in [start : Int, lead : Int, minutes : Nat, predicted : BOOLEAN]

VARIABLE pending   \* the entries still to be armed

\* arm_at: a negative lead counts as zero.
ArmAt(s) == EntryOf[s].start - (IF EntryOf[s].lead > 0 THEN EntryOf[s].lead ELSE 0)

\* arm_order at the start of a process: entries whose window is past are
\* dropped, the rest come in the order of their arm times.
ArmOrder(now) == {s \in Sessions : EntryOf[s].start + EntryOf[s].minutes > now}
ArmsBefore(s, t) == ArmAt(s) < ArmAt(t) \/ (ArmAt(s) = ArmAt(t) /\ s < t)
IsHead(s) == s \in pending /\ \A t \in pending \ {s} : ArmsBefore(s, t)

\* already_archived: only the directory of a predicted ticker is known yet.
AlreadyArchived(s) == EntryOf[s].predicted /\ s \in archived

\* The head of the for loop.
ScheduledNext ==
    /\ pc = "next"
    /\ IF shutdown \/ pending = {} THEN pc' = "park" /\ UNCHANGED pending
       ELSE \E s \in pending :
               /\ IsHead(s)
               /\ IF AlreadyArchived(s) THEN pending' = pending \ {s} /\ UNCHANGED pc
                  ELSE pc' = "wait" /\ UNCHANGED pending
    /\ UNCHANGED <<world, unit, inflight>>

\* The sleep until the arm time, which a shutdown cuts short.
ScheduledWait(s) ==
    /\ pc = "wait" /\ IsHead(s)
    /\ \/ clock >= ArmAt(s) /\ pc' = "resolve" /\ inflight' = Reaped
       \/ clock < ArmAt(s) /\ shutdown /\ pc' = "park" /\ UNCHANGED inflight
    /\ UNCHANGED <<world, unit, pending>>

\* resolve_unit returned nothing: no match within the grace, or a shutdown.
ScheduledSkip(s) ==
    /\ pc = "resolve" /\ IsHead(s)
    /\ pc' = "next" /\ pending' = pending \ {s}
    /\ UNCHANGED <<world, unit, inflight>>

\* Plausible bug: the archived guard is not read again after the resolution.
ScheduledArmUnguarded(s, found) ==
    /\ pc = "resolve" /\ IsHead(s) /\ found # {}
    /\ inflight' = inflight \cup {s}
    /\ Spawn({s}, [t \in Sessions |-> found], clock + EntryOf[s].minutes)
    /\ pc' = "next" /\ pending' = pending \ {s}
    /\ UNCHANGED world

\* resolve_unit matched the markets of `found`; a session that was archived
\* meanwhile, or in an earlier process, is not captured again.
ScheduledArm(s, found) ==
    /\ pc = "resolve" /\ IsHead(s) /\ found # {}
    /\ IF s \in archived THEN UNCHANGED <<unit, inflight>>
       ELSE /\ inflight' = inflight \cup {s}
            /\ Spawn({s}, [t \in Sessions |-> found], clock + EntryOf[s].minutes)
    /\ pc' = "next" /\ pending' = pending \ {s}
    /\ UNCHANGED world

ScheduledStep ==
    \/ /\ \/ ScheduledNext
          \/ \E s \in pending :
                \/ ScheduledWait(s) \/ ScheduledSkip(s)
                \/ \E found \in SUBSET TickersOf[s] : ScheduledArm(s, found)
          \/ Park /\ UNCHANGED pending
       /\ UNCHANGED overdue
    \/ Draining /\ UNCHANGED pending
=============================================================================
