----------------------------- MODULE MCLockfile -----------------------------
(* Three processes, one of which may be born in daemonize instead.         *)
EXTENDS Lockfile

CONSTANTS a, b, c
AllProcs == {a, b, c}
Child    == {c}
AllButWindows == FaultKinds \ {"window", "handler"}
=============================================================================
