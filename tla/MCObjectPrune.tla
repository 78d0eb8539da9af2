---------------------------- MODULE MCObjectPrune ---------------------------
(* r1 names the old commit a.  b and y are old and unreachable, x is       *)
(* recent and names y.  A writer needs b for the commit c on top of a.     *)
(* Meanwhile r1 is moved to r2 and r2 to r1, or r1 to r3, which keeps no   *)
(* reflog.                                                                 *)
EXTENDS ObjectPrune

CONSTANTS a, b, c, x, y, r1, r2, r3, w1, m1, m2, m3
MCLinks == [o \in Objects |->
    CASE o = c -> {a, b} [] o = x -> {y} [] OTHER -> {}]
MCMtime == [o \in Objects |->
    CASE o \in {a, b, y} -> "old" [] o = x -> "new" [] OTHER -> "none"]
MCRef   == [r \in Refs |-> IF r = r1 THEN a ELSE None]
MCWrites == [w \in Writers |-> <<b, c>>]
MCDest  == [w \in Writers |-> r1]
MCLog   == [r \in Refs |-> IF r = r1 THEN {a} ELSE {}]
MCFrom  == [m \in Movers |-> IF m = m2 THEN r2 ELSE r1]
MCTo    == [m \in Movers |-> CASE m = m1 -> r2 [] m = m2 -> r1 [] m = m3 -> r3]
=============================================================================
