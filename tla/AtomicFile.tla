----------------------------- MODULE AtomicFile -----------------------------
(* What lockfile.h promises of a file that is only changed under its lock: *)
(* its contents change in one step, from one complete version to the next, *)
(* every version is made from the one before it, and a writer is told of   *)
(* success exactly when it is its own update that was installed.  A        *)
(* version is the sequence of the updates that led to it.                  *)
EXTENDS Sequences

CONSTANT Writers
VARIABLES
    content,
    acked     \* the writers whose commit has just succeeded

Init == content = <<>> /\ acked = {}

(* The commit of w succeeds. *)
Update(w) ==
    /\ w \notin acked
    /\ content' = Append(content, w)
    /\ acked' = acked \cup {w}

(* w goes on, or dies. *)
Return(w) ==
    /\ w \in acked
    /\ acked' = acked \ {w}
    /\ UNCHANGED content

Next == \E w \in Writers : Update(w) \/ Return(w)
Spec == Init /\ [][Next]_<<content, acked>>
=============================================================================
