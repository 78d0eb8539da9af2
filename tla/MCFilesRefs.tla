----------------------------- MODULE MCFilesRefs ----------------------------
(* Two refs, two transactions, pack-refs and a reader.                     *)
EXTENDS FilesRefs

CONSTANTS r1, r2, t1, t2
TwoRefs == {r1, r2}
TwoTxns == {t1, t2}
Plan(a, b, c, d) ==
    [ops |-> [r \in Refs |-> IF r = r1 THEN a ELSE b], chk |-> c, allow |-> d]
L(a, b) == [r \in Refs |-> IF r = r1 THEN a ELSE b]
MCLayouts == {L({"packed"}, {"loose"})}
MCPlans == [t \in Txns |->
    IF t = t1
    THEN {Plan("delete", "copy", TRUE, FALSE)}
    ELSE {Plan("set", "delete", FALSE, TRUE), Plan("same", "verify", TRUE, FALSE)}]
MCTarget == [q \in Readers |-> r1]
=============================================================================
