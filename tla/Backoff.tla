------------------------------ MODULE Backoff ------------------------------
(***************************************************************************)
(* The reconnect schedule of crates/kdp-kalshi/src/ws/backoff.rs.  Delays  *)
(* are milliseconds.  The shift is done in unsigned integers of Width bits *)
(* (64 in the code): checked_shl refuses a shift of Width or more, and     *)
(* drops the bits a smaller shift pushes out.                              *)
(***************************************************************************)
EXTENDS Integers

CONSTANTS
    Base, MaxDelay,  \* the base and the cap (500 and 30000)
    Width,           \* bits of the integer the shift is done in (64)
    Jitters,         \* jitter is one of 0/Jitters .. Jitters/Jitters
    MaxAttempts      \* bound: failed attempts in a row

VARIABLES attempt, delay
vars == <<attempt, delay>>

Init == attempt = 0 /\ delay = 0

\* Backoff::capped: min(max, base << attempt).
Scaled(n) == IF n < Width THEN (Base * 2^n) % 2^Width ELSE 2^Width - 1
Capped(n) == IF Scaled(n) < MaxDelay THEN Scaled(n) ELSE MaxDelay

\* Backoff::next: half of the cap, and a jittered share of the other half.
NextDelay(jitter) ==
    /\ attempt < MaxAttempts
    /\ LET half == Capped(attempt) \div 2
       IN  delay' = half + (half * jitter) \div Jitters
    /\ attempt' = attempt + 1

\* Backoff::reset, after a connection was made.
Reset == attempt > 0 /\ attempt' = 0 /\ UNCHANGED delay

Next == Reset \/ \E jitter \in 0 .. Jitters : NextDelay(jitter)
Spec == Init /\ [][Next]_vars

\* A delay handed out is never shorter than half the base, however long the
\* exchange has been unreachable: the schedule saturates, it does not wrap.
NeverCollapses == attempt > 0 => delay >= Base \div 2
=============================================================================
