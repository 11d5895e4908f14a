----------------------------- MODULE RateLimit -----------------------------
(***************************************************************************)
(* crates/kdp-kalshi/src/ratelimit.rs: the token bucket that paces the     *)
(* backfill.  per_second(rate) gives it `rate` tokens and refills `rate`   *)
(* of them a second, so with 1/rate s as the unit of time it holds         *)
(* Capacity tokens and gains one per unit.  `idle` is now - last_now; past *)
(* Horizon the bucket is full whatever it is, and idle stays there.        *)
(***************************************************************************)
EXTENDS Integers, FiniteSetsExt

CONSTANT Capacity
ASSUME CapacityAssumption == Capacity \in Nat \ {0}

VARIABLES tokens, idle

limiter == <<tokens, idle>>
Horizon == 2 * Capacity

NewLimiter == tokens = Capacity /\ idle = 0

\* A plausible bug: last_now is not moved, and the same time refills twice.
ReserveKeepsClock ==
    /\ tokens' = Min({tokens + idle, Capacity}) - 1
    /\ idle' = idle

\* reserve(now, 1): refill for the elapsed time, take one token on credit.
Reserve ==
    /\ tokens' = Min({tokens + idle, Capacity}) - 1
    /\ idle' = 0

\* The time to sleep before the request may go out: the deficit, refilled.
Wait(t) == IF t >= 0 THEN 0 ELSE -t

\* One unit of time.
Elapse == idle' = Min({idle + 1, Horizon})
=============================================================================
