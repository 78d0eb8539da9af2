-------------------------- MODULE LockTimeoutProofs --------------------------
(* Proofs about LockTimeout: for every limit and every cap of the backoff, *)
(* a call gives up neither early nor much too late.                        *)
EXTENDS LockTimeout, TLAPS

(* What is left of the limit and what has been slept add up to it; a call  *)
(* only sleeps while something is left.                                    *)
Accounts ==
    /\ timeout_ms > 0 => waited + remaining_ms = timeout_ms
    /\ timeout_ms > 0 /\ pc = "wait" => remaining_ms > 0
    /\ pc = "timeout" => timeout_ms > 0 /\ remaining_ms <= 0

Inv == TypeOK /\ Accounts /\ QuadraticBackoff /\ OverrunBounded

-----------------------------------------------------------------------------
(* The next square: (n+1)^2 = n^2 + 2n + 1. *)
LEMMA NextSquare ==
    ASSUME NEW k \in Nat
    PROVE  k * k + 2 * k + 1 = (k + 1) * (k + 1)
BY SMT

(* A larger multiplier means a longer backoff. *)
LEMMA ProductMonotone ==
    ASSUME NEW x \in Nat, NEW y \in Nat, NEW z \in Nat, x <= y
    PROVE  x * z <= y * z /\ x * z \in Nat /\ y * z \in Nat
BY SMT

(* The longest sleep is 5/4 of the backoff. *)
LEMMA WaitBounds ==
    ASSUME NEW b \in Nat, NEW w \in Waits(b)
    PROVE  w \in Nat /\ 4 * w <= 5 * b
BY SMT DEF Waits

LEMMA InvInit == Init => Inv
<1> SUFFICES ASSUME Init PROVE Inv
    OBVIOUS
<1> USE TimeoutsAssumption, BackoffAssumption DEF Init
<1>1. TypeOK
    BY DEF TypeOK
<1>2. Accounts
    BY DEF Accounts
<1>3. QuadraticBackoff
    BY DEF QuadraticBackoff
<1>4. OverrunBounded
    <2>1. MaxMult * Initial \in Nat
        BY ProductMonotone
    <2>2. 5 * MaxMult * Initial = 5 * (MaxMult * Initial)
        BY SMT
    <2>3. timeout_ms \in Int
        OBVIOUS
    <2> QED
        BY <2>1, <2>2, <2>3 DEF OverrunBounded
<1> QED
    BY <1>1, <1>2, <1>3, <1>4 DEF Inv

LEMMA BackoffStep == Inv /\ Backoff => Inv'
<1> SUFFICES ASSUME Inv, Backoff PROVE Inv'
    OBVIOUS
<1> USE TimeoutsAssumption, BackoffAssumption
<1>1. PICK w \in Waits(multiplier * Initial) :
          remaining_ms' = remaining_ms - w /\ waited' = waited + w
    BY DEF Backoff
<1>2. /\ timeout_ms \in Int /\ remaining_ms \in Int /\ waited \in Nat
      /\ n \in Nat \ {0} /\ multiplier \in Nat \ {0} /\ multiplier <= MaxMult
    BY DEF Inv, TypeOK, QuadraticBackoff
<1>3. /\ multiplier * Initial \in Nat /\ MaxMult * Initial \in Nat
      /\ multiplier * Initial <= MaxMult * Initial
    BY <1>2, ProductMonotone
<1>4. w \in Nat /\ 4 * w <= 5 * (MaxMult * Initial)
    <2>1. w \in Nat /\ 4 * w <= 5 * (multiplier * Initial)
        BY <1>1, <1>3, WaitBounds
    <2> QED
        BY <1>3, <2>1
<1>5. /\ multiplier' = Capped(Grown)
      /\ n' = IF Grown > MaxMult THEN n ELSE n + 1
      /\ pc = "wait" /\ pc' = "try" /\ timeout_ms' = timeout_ms
    BY DEF Backoff
<1>6. TypeOK'
    BY <1>1, <1>2, <1>4, <1>5 DEF Inv, TypeOK, Capped, Grown
<1>7. Accounts'
    BY <1>1, <1>2, <1>4, <1>5 DEF Inv, Accounts
<1>8. QuadraticBackoff'
    <2>1. CASE Grown > MaxMult
        BY <1>5, <2>1 DEF QuadraticBackoff, Capped
    <2>2. CASE ~(Grown > MaxMult)
        <3>1. multiplier' = multiplier + 2 * n + 1 /\ n' = n + 1 /\ multiplier' <= MaxMult
            BY <1>2, <1>5, <2>2 DEF Capped, Grown
        <3>2. multiplier # MaxMult
            BY <1>2, <2>2 DEF Grown
        <3>3. multiplier = n * n
            BY <3>2 DEF Inv, QuadraticBackoff
        <3>4. multiplier' = n' * n'
            BY <1>2, <3>1, <3>3, NextSquare
        <3> QED
            BY <3>1, <3>4 DEF QuadraticBackoff
    <2> QED
        BY <2>1, <2>2
<1>9. OverrunBounded'
    <2>1. SUFFICES ASSUME timeout_ms > 0
                   PROVE  4 * (waited' - timeout_ms) <= 5 * MaxMult * Initial
        BY <1>5 DEF OverrunBounded
    <2>2. waited + remaining_ms = timeout_ms /\ remaining_ms > 0
        BY <1>5, <2>1 DEF Inv, Accounts
    <2>3. waited' - timeout_ms <= w
        BY <1>1, <1>2, <1>4, <2>2
    <2>4. 4 * (waited' - timeout_ms) <= 5 * (MaxMult * Initial)
        BY <1>1, <1>2, <1>3, <1>4, <2>3
    <2>5. 5 * MaxMult * Initial = 5 * (MaxMult * Initial)
        BY SMT
    <2> QED
        BY <2>4, <2>5
<1> QED
    BY <1>6, <1>7, <1>8, <1>9 DEF Inv

LEMMA InvNext == Inv /\ [Next]_vars => Inv'
<1> SUFFICES ASSUME Inv, [Next]_vars PROVE Inv'
    OBVIOUS
<1> USE DEF Inv
<1>1. CASE Decided
    BY <1>1 DEF Decided, TypeOK, Accounts, QuadraticBackoff, OverrunBounded
<1>2. CASE Busy
    <2>1. timeout_ms \in Int /\ remaining_ms \in Int
        BY TimeoutsAssumption DEF TypeOK
    <2>2. Accounts'
        BY <1>2, <2>1 DEF Busy, OutOfTime, Accounts
    <2>3. TypeOK' /\ QuadraticBackoff' /\ OverrunBounded'
        BY <1>2 DEF Busy, TypeOK, QuadraticBackoff, OverrunBounded
    <2> QED
        BY <2>2, <2>3
<1>3. CASE Backoff
    BY <1>3, BackoffStep
<1>4. CASE Returned
    BY <1>4 DEF Returned, vars, TypeOK, Accounts, QuadraticBackoff, OverrunBounded
<1>5. CASE UNCHANGED vars
    BY <1>5 DEF vars, TypeOK, Accounts, QuadraticBackoff, OverrunBounded
<1> QED
    BY <1>1, <1>2, <1>3, <1>4, <1>5 DEF Next

LEMMA InvAlways == Spec => []Inv
BY InvInit, InvNext, PTL DEF Spec

-----------------------------------------------------------------------------
(* A call does not give up before timeout_ms milliseconds of waiting. *)
THEOREM NeverTooEarly == Spec => []TimeoutNotEarly
<1>1. Inv => TimeoutNotEarly
    BY TimeoutsAssumption DEF Inv, TypeOK, Accounts, TimeoutNotEarly
<1> QED
    BY <1>1, InvAlways, PTL

(* The backoff follows the squares up to its cap. *)
THEOREM BackoffQuadratic == Spec => []QuadraticBackoff
BY InvAlways, PTL DEF Inv

(* A call with a limit waits at most 5/4 of the longest backoff past it. *)
THEOREM NeverMuchTooLate == Spec => []OverrunBounded
BY InvAlways, PTL DEF Inv
=============================================================================
