--------------------------- MODULE MCReftableStack --------------------------
(* Two refs, two transactions, git pack-refs and a reader.                 *)
EXTENDS ReftableStack

CONSTANTS r1, r2, t1, t2, p1, p2, q1
TwoRefs == {r1, r2}
TwoTxns == {t1, t2}
F(a, b) == [r \in Refs |-> IF r = r1 THEN a ELSE b]
(* Both refs are in the oldest table and r2 has moved on; or a new store.  *)
MCBases == {<<F(r1, r2), F(Absent, r1)>>, <<>>}
MCCrowds == {{t1, t2, p1}, {t1, t2, q1}, {t2, p1, p2}, {t2, p2, q1}}
(* Both want r1 as it was: the second to lock the stack is refused that    *)
(* update.  The other plan of t1 changes nothing, or is refused.           *)
MCPlans == [t \in Txns |->
    IF t = t1 THEN {[want |-> F(None, Keep), chk |-> {r1}, allow |-> FALSE],
                    [want |-> F(Keep, r1), chk |-> {r2}, allow |-> FALSE]}
              ELSE {[want |-> F(t2, None), chk |-> {r1}, allow |-> TRUE]}]
=============================================================================
