---------------------------- MODULE MCUtf8Capture ----------------------------
(* Every stream of up to MaxLen bytes, well-formed or not, with a buffer   *)
(* that a pending code point nearly fills.                                 *)
EXTENDS Utf8Capture

CONSTANT MaxLen

AllInputs == UNION {[1..l -> Bytes] : l \in 0..MaxLen}
=============================================================================
