------------------------------- MODULE Hourly -------------------------------
(***************************************************************************)
(* run_hourly of crates/kdp-cli/src/hourly.rs: at each top of the hour,    *)
(* find the event that opens there, wait for its ladder of strikes to be   *)
(* listed, choose a band, and spawn a unit while the last hour still       *)
(* settles.                                                                *)
(***************************************************************************)
EXTENDS Universe

CONSTANTS
    PreArm,         \* --pre-arm, minutes
    ListingGrace,   \* --listing-grace
    OpenSettle      \* --open-settle; the cap is a minute later
ASSUME HourlyAssumption == {PreArm, ListingGrace, OpenSettle} \subseteq Nat

VARIABLES
    boundary,   \* the hour being armed
    ladder,     \* await_full_ladder's last non-empty page
    prevCount   \* its size one poll earlier

hourVars == <<boundary, ladder, prevCount>>

\* The next top of the hour strictly after `now`.
NextBoundary(now) == (now \div 60 + 1) * 60

\* market_opening_at: the hourly event that opens at the boundary.
OpeningAt(b) == {s \in Sessions : CohortOf[s].open = b /\ Cadence(CohortOf[s]) = "Hourly"}

HourlyTop ==
    /\ pc = "top"
    /\ IF shutdown THEN pc' = "drain" /\ UNCHANGED boundary
                   ELSE pc' = "prearm" /\ boundary' = NextBoundary(clock)
    /\ UNCHANGED <<world, unit, inflight, ladder, prevCount>>

\* The sleep until the boundary less the lead.
HourlyPreArm ==
    /\ pc = "prearm"
    /\ \/ clock >= boundary - PreArm /\ pc' = "discover"
       \/ clock < boundary - PreArm /\ shutdown /\ pc' = "drain"
    /\ UNCHANGED <<world, unit, inflight, hourVars>>

\* discover_opening_hour: a shutdown, the hour, or nothing within the grace.
HourlyDiscover ==
    /\ pc = "discover"
    /\ \/ shutdown /\ pc' = "drain"
       \/ OpeningAt(boundary) # {} /\ ~shutdown /\ pc' = "ladder"
       \/ clock >= boundary + ListingGrace /\ ~shutdown /\ pc' = "past"
    /\ ladder' = {} /\ prevCount' = 0
    /\ UNCHANGED <<world, unit, inflight, boundary>>

\* select_band: the strikes of the ladder near the money, or all of them;
\* none when no market carries a floor_strike.
SelectBand(markets) == SUBSET markets

\* The unit of the hour is spawned.
ArmHour(tickers) ==
    IF tickers = {} THEN UNCHANGED <<unit, inflight>>
    ELSE \E s \in OpeningAt(boundary) :
            /\ Spawn({s}, [t \in Sessions |-> tickers], clock + MaxMinutes)
            /\ inflight' = Reaped \cup {s}

\* One round of await_full_ladder: a page (empty when the poll failed), then
\* the hour is armed if the ladder has stopped growing after the settle time,
\* or at the cap, or when a shutdown cuts the wait short.
HourlyLadder(page) ==
    /\ pc = "ladder"
    /\ LET last == IF page = {} THEN ladder ELSE page
           count == Cardinality(last)
           ready == \/ clock >= boundary + OpenSettle /\ count > 0 /\ count = prevCount
                    \/ clock >= boundary + OpenSettle + 1
                    \/ shutdown
       IN  IF ready
           THEN /\ \E tickers \in SelectBand(last) : ArmHour(tickers)
                /\ pc' = "past" /\ ladder' = {} /\ prevCount' = 0
           ELSE /\ ladder' = last /\ prevCount' = count
                /\ UNCHANGED <<unit, inflight, pc>>
    /\ UNCHANGED <<world, boundary>>

\* wait_past_or_shutdown.
HourlyPast ==
    /\ pc = "past"
    /\ \/ clock >= boundary /\ ~shutdown /\ pc' = "top"
       \/ shutdown /\ pc' = "drain"
    /\ UNCHANGED <<world, unit, inflight, hourVars>>

HourlyStep ==
    \/ /\ \/ HourlyTop \/ HourlyPreArm \/ HourlyDiscover \/ HourlyPast
          \/ \E page \in SUBSET UNION {TickersOf[s] : s \in OpeningAt(boundary)} :
                HourlyLadder(page)
       /\ UNCHANGED overdue
    \/ Draining /\ UNCHANGED hourVars
=============================================================================
