---------------------------- MODULE MCLockTimeout ----------------------------
(* Limits below, at and above the cap, which is scaled down to MaxMult.    *)
EXTENDS LockTimeout

CONSTANT MaxTimeout
MCTimeouts == -1..MaxTimeout
=============================================================================
