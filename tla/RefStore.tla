------------------------------ MODULE RefStore ------------------------------
(***************************************************************************)
(* What a ref store promises (the contract of refs.h): every ref has one   *)
(* value, and only transactions change values.  A transaction checks the   *)
(* old values it was given and changes each of its refs at most once, from *)
(* the value the check found to the value asked for; several refs may      *)
(* change at different moments ("as atomically as possible").  One that    *)
(* reports success has made every change it did not report as rejected.    *)
(***************************************************************************)
CONSTANTS Refs, Txns, Vals, None, Keep, Any

VARIABLES
    value,   \* the value of each ref, None if it does not exist
    want,    \* per transaction and ref: new value, None to delete, or Keep
    expect,  \* per transaction and ref: the old value required, or Any
    refused, \* per transaction: the refs whose update was rejected
    applied, \* per transaction: the refs it has changed
    outcome  \* per transaction: "none", "open", "ok" or "failed"

vars == <<value, want, expect, refused, applied, outcome>>

Touched(t) == {r \in Refs : want[t][r] # Keep}

Init ==
    /\ value \in [Refs -> Vals \cup {None}]
    /\ want = [t \in Txns |-> [r \in Refs |-> Keep]]
    /\ expect = [t \in Txns |-> [r \in Refs |-> Any]]
    /\ refused = [t \in Txns |-> {}]
    /\ applied = [t \in Txns |-> {}]
    /\ outcome = [t \in Txns |-> "none"]

Begin(t) ==
    /\ outcome[t] = "none"
    /\ outcome' = [outcome EXCEPT ![t] = "open"]
    /\ \E w \in [Refs -> Vals \cup {None, Keep}],
          e \in [Refs -> Vals \cup {None, Any}] :
          /\ want' = [want EXCEPT ![t] = w]
          /\ expect' = [expect EXCEPT ![t] = e]
    /\ UNCHANGED <<value, refused, applied>>

Refuse(t, R) ==
    /\ outcome[t] = "open" /\ R \cap applied[t] = {}
    /\ refused' = [refused EXCEPT ![t] = @ \cup R]
    /\ UNCHANGED <<value, want, expect, applied, outcome>>

(* The refs of R change together: compare-and-swap, each at most once.  A  *)
(* deletion may take effect after its transaction has failed.              *)
Apply(t, R) ==
    /\ \/ outcome[t] = "open"
       \/ outcome[t] = "failed" /\ \A r \in R : want[t][r] = None
    /\ R \subseteq Touched(t) \ (applied[t] \cup refused[t])
    /\ \A r \in R : expect[t][r] \in {Any, value[r]}
    /\ value' = [r \in Refs |-> IF r \in R THEN want[t][r] ELSE value[r]]
    /\ applied' = [applied EXCEPT ![t] = @ \cup R]
    /\ UNCHANGED <<want, expect, refused, outcome>>

(* Success is only reported when nothing is left to do.                    *)
End(t) ==
    /\ outcome[t] = "open"
    /\ \E o \in {"ok", "failed"} :
          /\ o = "ok" => Touched(t) \subseteq applied[t] \cup refused[t]
          /\ outcome' = [outcome EXCEPT ![t] = o]
    /\ UNCHANGED <<value, want, expect, refused, applied>>

Next ==
    \E t \in Txns :
        \/ Begin(t) \/ End(t)
        \/ \E R \in SUBSET Refs : Refuse(t, R) \/ Apply(t, R)

Spec == Init /\ [][Next]_vars
=============================================================================
