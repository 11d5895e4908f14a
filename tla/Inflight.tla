------------------------------ MODULE Inflight ------------------------------
(***************************************************************************)
(* What the three supervisors share (crates/kdp-cli/src/supervisor.rs):    *)
(* the tasks they have spawned, reaping, parking and the bounded drain,    *)
(* which waits for each task, but no longer than 30 s.                     *)
(***************************************************************************)
EXTENDS Archive

CONSTANT MaxMinutes   \* the backstop of a unit, in minutes
ASSUME InflightAssumption == MaxMinutes \in Nat

VARIABLES
    pc,        \* where the supervisor's loop is
    inflight,  \* sessions whose JoinHandle it holds
    overdue    \* those of them that the drain no longer waits for

NoTime == -100000   \* an Option<DateTime> that is None
scriptVars == <<archVars, processed, remote, copies>>
diskVars == <<done, archived, dirVars>>
world == <<worldVars, shutdown, diskVars, scriptVars>>

\* reap_inflight, reap_named: finished tasks are dropped.
Reaped == {s \in inflight : Running(s)}

\* Units are spawned for the sessions of `arms`.
Spawn(arms, targets, deadline) ==
    unit' = [s \in Sessions |-> IF s \in arms THEN ArmedUnit(targets[s], deadline) ELSE unit[s]]

\* The process is gone, and its tasks and children with it.
ProcessGone ==
    /\ unit' = [s \in Sessions |-> NoUnit]
    /\ inflight' = {} /\ overdue' = {}
    /\ orphan' = {}
    /\ KillChildren
    /\ UNCHANGED <<worldVars, done, archived, raw, written, recent, aged, reaped, processed,
                   remote, copies>>

\* Plausible bug: the process exits without waiting for its tasks.
DrainAtOnce ==
    /\ pc = "drain"
    /\ pc' = "exited"
    /\ ProcessGone
    /\ UNCHANGED shutdown

\* 30 s pass and the task has not ended, whatever it was told.
DrainTimeout(s) ==
    /\ pc = "drain" /\ Running(s) /\ s \notin overdue
    /\ overdue' = overdue \cup {s}
    /\ UNCHANGED <<world, unit, pc, inflight>>

\* drain_inflight returns: each task has ended or is overdue.  The process exits.
Drain ==
    /\ pc = "drain"
    /\ \A s \in inflight : Running(s) => s \in overdue
    /\ pc' = "exited"
    /\ ProcessGone
    /\ UNCHANGED shutdown

Draining == Drain \/ \E s \in inflight : DrainTimeout(s)

\* park_until_shutdown: reap until the signal comes, then drain.
Park ==
    /\ pc = "park"
    /\ IF shutdown THEN pc' = "drain" /\ UNCHANGED inflight
                   ELSE inflight' = Reaped /\ UNCHANGED pc
    /\ UNCHANGED <<world, unit>>
=============================================================================
