----------------------------- MODULE LockTimeout -----------------------------
(***************************************************************************)
(* lock_file_timeout in lockfile.c: attempts to take a lock that others    *)
(* hold and release, with quadratic backoff until the time has run out.    *)
(* Times are in milliseconds.  What an attempt meets is the environment's  *)
(* choice; module Lockfile has the lock itself.                            *)
(***************************************************************************)
EXTENDS Integers

CONSTANTS
    Timeouts,   \* values of timeout_ms: 0 once, -1 for ever, else a limit
    MaxMult,    \* BACKOFF_MAX_MULTIPLIER, 1000 in the code
    Initial,    \* INITIAL_BACKOFF_MS, 1 in the code
    MaxWaited   \* bound: a call is followed for this long

ASSUME TimeoutsAssumption == Timeouts \subseteq Nat \cup {-1}
ASSUME BackoffAssumption  == MaxMult \in Nat \ {0} /\ Initial \in Nat \ {0}
ASSUME BoundAssumption    == MaxWaited \in Nat

VARIABLES
    timeout_ms, remaining_ms, n, multiplier,
    waited,     \* the sum of all sleeps
    pc          \* "try", "wait", "locked", "error" or "timeout"

vars == <<timeout_ms, remaining_ms, n, multiplier, waited, pc>>

(* Type invariant of the locals of lock_file_timeout. *)
TypeOK ==
    /\ timeout_ms \in Timeouts
    /\ remaining_ms \in Int
    /\ n \in Nat \ {0} /\ multiplier \in Nat \ {0}
    /\ waited \in Nat
    /\ pc \in {"try", "wait", "locked", "error", "timeout"}

Init ==
    /\ timeout_ms \in Timeouts
    /\ remaining_ms = IF timeout_ms > 0 THEN timeout_ms ELSE 0
    /\ n = 1 /\ multiplier = 1 /\ waited = 0
    /\ pc = "try"

(* lock_file succeeds, or fails for another reason than EEXIST. *)
Decided ==
    /\ pc = "try"
    /\ pc' \in {"locked", "error"}
    /\ UNCHANGED <<timeout_ms, remaining_ms, n, multiplier, waited>>

(* Mutant: give up when the next wait could not be completed any more. *)
OutOfTimeEarly == timeout_ms > 0 /\ remaining_ms <= multiplier

(* A positive timeout has run out. *)
OutOfTime == timeout_ms > 0 /\ remaining_ms <= 0

(* The lock is taken: one attempt only, time out, or wait. *)
Busy ==
    /\ pc = "try"
    /\ pc' = IF timeout_ms = 0 THEN "error"
             ELSE IF OutOfTime THEN "timeout" ELSE "wait"
    /\ UNCHANGED <<timeout_ms, remaining_ms, n, multiplier, waited>>

(* Mutant: the jitter is added on top of the backoff. *)
WaitsTooLong(backoff_ms) ==
    (750 * backoff_ms) \div 1000 .. (1749 * backoff_ms) \div 1000

(* (750 + rand() % 500) * backoff_ms / 1000 *)
Waits(backoff_ms) == (750 * backoff_ms) \div 1000 .. (1249 * backoff_ms) \div 1000

(* Mutant: the cap is applied before the step. *)
CappedTooEarly(m) == IF multiplier > MaxMult THEN MaxMult ELSE m

(* Mutant: the next multiplier is computed and not stored. *)
NotStored(m) == multiplier

(* The next multiplier: (n+1)^2, up to the cap. *)
Capped(m) == IF m > MaxMult THEN MaxMult ELSE m

Grown == multiplier + 2 * n + 1

(* sleep_millisec, and the step to the next square. *)
Backoff ==
    /\ pc = "wait" /\ waited <= MaxWaited
    /\ \E wait_ms \in Waits(multiplier * Initial) :
          /\ remaining_ms' = remaining_ms - wait_ms
          /\ waited' = waited + wait_ms
    /\ multiplier' = Capped(Grown)
    /\ n' = IF Grown > MaxMult THEN n ELSE n + 1
    /\ pc' = "try"
    /\ UNCHANGED timeout_ms

Returned ==
    /\ pc \in {"locked", "error", "timeout"} \/ waited > MaxWaited
    /\ UNCHANGED vars

Next == Decided \/ Busy \/ Backoff \/ Returned

(* The process runs; the lock need never become free. *)
Spec == Init /\ [][Next]_vars /\ WF_vars(Busy) /\ WF_vars(Backoff)

-----------------------------------------------------------------------------
(* Properties. *)

(* The call keeps trying "for at least timeout_ms milliseconds". *)
TimeoutNotEarly == pc = "timeout" => waited >= timeout_ms

(* The backoff is quadratic up to its cap: the longest backoff period is   *)
(* BACKOFF_MAX_MULTIPLIER * INITIAL_BACKOFF_MS.                            *)
QuadraticBackoff ==
    /\ multiplier <= MaxMult
    /\ multiplier = n * n \/ multiplier = MaxMult

(* The overrun is bounded: at most one backoff, stretched by the jitter,   *)
(* is slept past the limit.                                                *)
OverrunBounded ==
    timeout_ms > 0 => 4 * (waited - timeout_ms) <= 5 * MaxMult * Initial

(* A call with a limit returns even if the lock is never released, though  *)
(* the first waits may be of 0 ms.                                         *)
TimeoutReturns == timeout_ms >= 0 => <>(pc \in {"locked", "error", "timeout"})
=============================================================================
