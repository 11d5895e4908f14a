------------------------------ MODULE RestGet ------------------------------
(***************************************************************************)
(* get_with_retry of crates/kdp-kalshi/src/rest.rs: the retry policy every *)
(* REST read goes through.  (get_with_retry_signed is the same loop with   *)
(* headers signed anew on each attempt.)                                   *)
(***************************************************************************)
EXTENDS Integers, FiniteSetsExt

CONSTANT MaxGetAttempts   \* MAX_GET_ATTEMPTS
ASSUME AttemptsAssumption == MaxGetAttempts \in Nat \ {0}

\* What one send may come back with: a status, or a transport failure.
Answers == {"200", "429", "5xx", "4xx", "transport"}

StatusIsRetryable(a) == a \in {"429", "5xx"}

\* retry_backoff: seconds before the attempt that follows the n-th, 2 ^ (n - 1)
\* and at most 30.
RetryBackoff(n) == IF n \in 1 .. 5 THEN <<1, 2, 4, 8, 16>>[n] ELSE 30

\* A plausible bug: a rate-limit answer is retried whatever the attempt.
VerdictUnbounded(a, n) ==
    IF a = "200" THEN "page"
    ELSE IF a = "429" \/ ((StatusIsRetryable(a) \/ a = "transport") /\ n < MaxGetAttempts)
         THEN "retry" ELSE "error"

\* What get_with_retry does with the answer to its n-th attempt.
Verdict(a, n) ==
    IF a = "200" THEN "page"
    ELSE IF (StatusIsRetryable(a) \/ a = "transport") /\ n < MaxGetAttempts
         THEN "retry" ELSE "error"
=============================================================================
