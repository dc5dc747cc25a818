------------------------------ MODULE Backoff ------------------------------
(***************************************************************************)
(* The timing of wait_for_device (app/scripts/sm_dfu_host.py): one AT per  *)
(* attempt, a wait_for_response("OK", timeout) that ends on OK, on ERROR   *)
(* or on its deadline, and between two attempts a sleep that starts at     *)
(* 0.5 s and doubles up to max_backoff.  do_dfu_full calls it after the    *)
(* firmware apply with max_attempts = 10, timeout = 5.0, max_backoff = 5.0.*)
(*                                                                         *)
(* Time is counted in tenths of a second; the 10 ms poll granularity of    *)
(* the wait loop is below that resolution and left out.                    *)
(***************************************************************************)
EXTENDS Naturals

CONSTANTS
    MaxAttempts,    \* max_attempts
    Timeout,        \* timeout of one wait, in tenths of a second
    MaxBackoff      \* max_backoff, in tenths of a second

ASSUME BackoffAssumption ==
    /\ MaxAttempts \in Nat \ {0}
    /\ Timeout \in Nat
    /\ MaxBackoff \in Nat

\* backoff = 0.5 before the first attempt.
InitialBackoff == 5

Min2(a, b) == IF a <= b THEN a ELSE b

VARIABLES
    pc,         \* "attempt", "sleep", "ready" (returned True), "failed"
    attempt,    \* the loop variable of range(1, max_attempts + 1)
    backoff,    \* the next sleep
    elapsed     \* time spent in wait_for_device so far

vars == <<pc, attempt, backoff, elapsed>>

TypeOK ==
    /\ pc \in {"attempt", "sleep", "ready", "failed"}
    /\ attempt \in 1..MaxAttempts
    /\ backoff \in Nat
    /\ elapsed \in Nat

Init ==
    /\ pc = "attempt"
    /\ attempt = 1
    /\ backoff = InitialBackoff
    /\ elapsed = 0

\* send_command("AT"); wait_for_response returns True after d tenths.
Answered ==
    /\ pc = "attempt"
    /\ \E d \in 0..Timeout : elapsed' = elapsed + d
    /\ pc' = "ready"
    /\ UNCHANGED <<attempt, backoff>>

\* Mutant of NoAnswer: the sleep is taken after the last attempt too.
NoAnswerSleepsAlways ==
    /\ pc = "attempt"
    /\ \E d \in 0..Timeout : elapsed' = elapsed + d
    /\ pc' = "sleep"
    /\ UNCHANGED <<attempt, backoff>>

\* wait_for_response returns False, on ERROR (after d < timeout) or on its
\* deadline; the loop sleeps only if another attempt follows.
NoAnswer ==
    /\ pc = "attempt"
    /\ \E d \in 0..Timeout : elapsed' = elapsed + d
    /\ pc' = IF attempt < MaxAttempts THEN "sleep" ELSE "failed"
    /\ UNCHANGED <<attempt, backoff>>

\* time.sleep(backoff); backoff = min(backoff * 2, max_backoff); the for
\* loop moves on to the next attempt.
Sleep ==
    /\ pc = "sleep"
    /\ elapsed' = elapsed + backoff
    /\ backoff' = Min2(backoff * 2, MaxBackoff)
    /\ attempt' = attempt + 1
    /\ pc' = "attempt"

Next == Answered \/ NoAnswer \/ Sleep

Spec == Init /\ [][Next]_vars

(***************************************************************************)
(* Reference definitions, from the spec (section 4.1): the k-th sleep is   *)
(* min(0.5 * 2^(k-1), max_backoff), and there is one sleep between two     *)
(* consecutive attempts.                                                   *)
(***************************************************************************)
SleepRef(k) == Min2(InitialBackoff * 2^(k - 1), MaxBackoff)

SleepTotal[n \in 0..MaxAttempts] ==
    IF n = 0 THEN 0 ELSE SleepTotal[n - 1] + SleepRef(n)

\* Longest time wait_for_device can take: every wait hits its deadline
\* and every sleep between two of them is taken.
WorstCase == MaxAttempts * Timeout + SleepTotal[MaxAttempts - 1]

(***************************************************************************)
(* Properties.                                                             *)
(***************************************************************************)
\* wait_for_device never waits longer than max_attempts deadlines plus the
\* max_attempts - 1 sleeps between them: no sleep follows the last attempt.
WithinWorstCase == elapsed <= WorstCase

\* The spec (section 4.4): after the firmware apply, liveness is polled
\* "for up to 10 attempts/50s total" before the DFU is declared complete.
WithinSpecBudget == elapsed <= 500
=============================================================================
