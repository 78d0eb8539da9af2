---------------------------- MODULE MCDeltaSearch ----------------------------
(* Lists without names, with pairs of the same path, and with a long run.    *)
EXTENDS DeltaSearch

MCHashes == {[o \in 1..N |-> 0], [o \in 1..N |-> 1 + o \div 2],
             [o \in 1..N |-> IF o > N - 5 THEN 1 ELSE 0]}
=============================================================================
