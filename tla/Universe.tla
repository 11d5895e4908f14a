------------------------------ MODULE Universe ------------------------------
(***************************************************************************)
(* run_universe of crates/kdp-cli/src/universe.rs: sweep the listings,     *)
(* group the live markets by event, arm what the gate admits up to         *)
(* --max-units, sleep, repeat, until the signal or the window's bound.     *)
(***************************************************************************)
EXTENDS Inflight

CONSTANTS
    CohortOf,   \* [start, open, close] of each event, in minutes or NoTime
    ArmLead,    \* --arm-lead-min
    ClashSub,   \* --clash-sub
    Bounds,     \* the window's bound: NoTime when there is none
    MaxUnits    \* --max-units
ASSUME UniverseAssumption ==
    /\ \A s \in Sessions : CohortOf[s] \in [start : Int, open : Int, close : Int]
    /\ ArmLead \in Nat /\ ClashSub \in BOOLEAN /\ Bounds \subseteq Int /\ MaxUnits \in Nat

VARIABLE until   \* parse_window's answer to --until, the same in every process

\* cadence: by the lifetime alone.
Cadence(c) ==
    LET mins == c.close - c.open IN
    CASE NoTime \in {c.open, c.close} -> "Other"
      [] mins \in 50 .. 70            -> "Hourly"
      [] mins \in 1380 .. 1620        -> "Daily"
      [] mins \in 9360 .. 10860       -> "Weekly"
      [] mins > 10860                 -> "Long"
      [] OTHER                        -> "Other"

\* The admission gate of plan_arms.
Gate(c, now) ==
    LET from(t) == IF now < t THEN "deferred" ELSE "arm" IN
    IF c.start # NoTime THEN from(c.start - ArmLead)
    ELSE CASE Cadence(c) \in {"Daily", "Weekly"} /\ ClashSub -> from(c.close - 70)
           [] Cadence(c) \in {"Daily", "Weekly"} /\ ~ClashSub -> "skipped"
           [] Cadence(c) = "Long" -> "skipped"
           [] OTHER -> IF c.open = NoTime THEN "arm" ELSE from(c.open - ArmLead)

\* group_by_event over what the sweeps found: terminal markets are dropped.
GroupByEvent(found) == [s \in Sessions |-> (TickersOf[s] \cap found) \ terminal]

\* Plausible bugs: only .archived marks an event as captured; the budget does
\* not count the units in flight.
PlanArmsArchivedOnly(groups) ==
    LET admitted == {s \in Sessions \ (inflight \cup archived) :
                        groups[s] # {} /\ Gate(CohortOf[s], clock) = "arm"}
    IN  {s \in admitted : Cardinality({t \in admitted : t < s}) < MaxUnits - Cardinality(inflight)}
PlanArmsFullBudget(groups) ==
    LET admitted == {s \in Sessions \ (inflight \cup done \cup archived) :
                        groups[s] # {} /\ Gate(CohortOf[s], clock) = "arm"}
    IN  {s \in admitted : Cardinality({t \in admitted : t < s}) < MaxUnits}

\* plan_arms: not in flight, not captured before, admitted by the gate; in the
\* order of the event tickers, as many as the budget allows.
PlanArms(groups) ==
    LET admitted == {s \in Sessions \ (inflight \cup done \cup archived) :
                        groups[s] # {} /\ Gate(CohortOf[s], clock) = "arm"}
    IN  {s \in admitted : Cardinality({t \in admitted : t < s}) < MaxUnits - Cardinality(inflight)}

BoundReached == until # NoTime /\ clock >= until
\* A windowed unit runs to the bound, and for a minute at least.
UnitDeadline == IF until = NoTime THEN clock + MaxMinutes
                ELSE IF until > clock + 1 THEN until ELSE clock + 1

\* The top of the loop, on waking: stop, or reap and sweep.
UniverseTop ==
    /\ pc = "top"
    /\ IF shutdown \/ BoundReached
       THEN pc' = "drain" /\ UNCHANGED inflight
       ELSE pc' = "sweep" /\ inflight' = Reaped
    /\ UNCHANGED <<world, unit>>

\* The sweeps found the tickers of `found`: listings may fail, be cut at the
\* page cap or be filtered by volume.
UniverseArm(found) ==
    /\ pc = "sweep"
    /\ LET groups == GroupByEvent(found) arms == PlanArms(groups) IN
          /\ Spawn(arms, groups, UnitDeadline)
          /\ inflight' = inflight \cup arms
    /\ pc' = "top"
    /\ UNCHANGED world

UniverseStep ==
    \/ /\ UniverseTop \/ \E found \in SUBSET Markets : UniverseArm(found)
       /\ UNCHANGED overdue
    \/ Draining
=============================================================================
