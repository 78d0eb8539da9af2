--------------------------- MODULE LockfileProofs ---------------------------
(* Proofs about Lockfile: when no signal comes between a system call and   *)
(* the update of the list of temporary files, and none while the handlers  *)
(* run, locks exclude each other and updates are atomic, for any number of *)
(* processes and lock files, with crashes, failed writes and daemonizing   *)
(* holders.                                                                *)
EXTENDS Lockfile, TLAPS

NoWindow == "window" \notin Faults /\ "handler" \notin Faults

-----------------------------------------------------------------------------
(* The inductive invariant. *)

(* Live(p): the lock file on disk is the responsibility of p, which will   *)
(* rename it, unlink it, or remove it in its exit handler.                 *)
Live(p) ==
    \/ pc[p] \in {"opened", "active", "pidopened", "held", "writing", "ready",
                  "closing", "rollback", "fork_child"}
    \/ /\ pc[p] \in {"cleanup", "cleanup_lock"}
       /\ "lock" \in listed[p] /\ owner[p] = p

(* What the list of temporary files says at each point of the protocol. *)
Listing(p) ==
    /\ pc[p] \in {"none", "idle", "opened"} => listed[p] = {}
    /\ pc[p] = "none" => mine[p] = 0
    /\ pc[p] \in {"active", "pidopened", "held", "writing", "ready", "closing",
                  "renamed", "rollback", "unlinked"}
          => "lock" \in listed[p] /\ owner[p] = p
    /\ pc[p] \in {"active", "pidopened", "closing", "renamed", "rollback",
                  "unlinked"} => "pid" \notin listed[p]
    /\ pc[p] = "fork_child" => "lock" \in listed[p]

ListOK == \A p \in Procs : Listing(p)

LiveOK == \A p \in Procs : Live(p) => lock = mine[p] /\ lock # 0

LiveOne == \A p, q \in Procs : Live(p) /\ Live(q) => p = q

(* Inodes are new when they are created; the lock file is not the file. *)
FreshOK ==
    /\ file < next /\ lock < next
    /\ lock # 0 => lock # file
    /\ \A p \in Procs : mine[p] < next

(* What is being committed was made from the current version. *)
WrittenOK ==
    \A p \in Procs : pc[p] \in {"writing", "ready", "closing"}
        => val[mine[p]] = Append(val[file], p)

(* Somebody is responsible for every lock file, unless it was killed. *)
StaleOK ==
    lock # 0 => \E p \in Procs : mine[p] = lock /\ (Live(p) \/ pc[p] = "killed")

(* A holder knows of the pid file as long as there is one. *)
PidKnown(p) ==
    /\ pc[p] \in {"opened", "active", "closing", "rollback", "cleanup_lock"}
          => pidfile = NoProc
    /\ pc[p] \in {"held", "writing", "ready", "fork_child", "cleanup"}
          /\ pidfile # NoProc => "pid" \in listed[p]

(* The pid file stands beside the lock file of the process it names. *)
PidMatches == pidfile # NoProc => lock # 0 /\ mine[pidfile] = lock

(* Whoever else is responsible for that lock is a child that the process   *)
(* has handed it over to, and the process itself never comes back.         *)
PidLive ==
    pidfile # NoProc =>
        \A q \in Procs : Live(q) /\ q # pidfile =>
            /\ q \in Children
            /\ pc[pidfile] \in {"fork_parent", "cleanup", "cleanup_lock",
                                "exiting", "dead", "killed"}

PidOK ==
    /\ PidMatches /\ PidLive
    /\ \A p \in Procs : Live(p) => PidKnown(p)

Inv == TypeOK /\ ListOK /\ LiveOK /\ LiveOne /\ FreshOK /\ WrittenOK
         /\ FileWhole /\ StaleOK /\ PidOK

-----------------------------------------------------------------------------
(* Only a free name is taken, so nobody was live. *)
LEMMA TryLockStep ==
    ASSUME Inv, NEW p \in Procs, TryLock(p)
    PROVE  Inv'
<1> USE ProcsAssumption, BoundAssumption DEF Inv, Goto, disk, TryLock, OpenExcl
<1>1. TypeOK'
    BY DEF TypeOK, Inodes, PCs, LiveOK, Live, FreshOK
<1>2. ListOK'
    BY DEF ListOK, Listing, TypeOK
<1>3. LiveOK'
    BY DEF LiveOK, Live, TypeOK, ListOK, Listing, LiveOne
<1>4. LiveOne'
    BY DEF LiveOne, Live, TypeOK, ListOK, Listing, LiveOK
<1>5. FreshOK'
    BY DEF FreshOK, TypeOK, LiveOK, Live, Inodes
<1>6. WrittenOK'
    BY DEF WrittenOK, TypeOK, LiveOK, LiveOne, Live, FreshOK, Inodes
<1>7. FileWhole'
    BY DEF FileWhole, TypeOK, LiveOK, Live, FreshOK, Inodes
<1>8. StaleOK'
    BY DEF StaleOK, Live, TypeOK, ListOK, Listing, LiveOK, LiveOne
<1>9. PidOK'
    BY DEF PidOK, PidKnown, PidMatches, PidLive, Live, TypeOK, ListOK, Listing, LiveOK, LiveOne, StaleOK
<1> QED
    BY <1>1, <1>2, <1>3, <1>4, <1>5, <1>6, <1>7, <1>8, <1>9

LEMMA ActivateStep ==
    ASSUME Inv, NEW p \in Procs, Activate(p)
    PROVE  Inv'
<1> USE ProcsAssumption, BoundAssumption DEF Inv, Goto, disk, Activate
<1>1. TypeOK'
    BY DEF TypeOK, Inodes, PCs, LiveOK, Live, FreshOK
<1>2. ListOK'
    BY DEF ListOK, Listing, TypeOK
<1>3. LiveOK'
    BY DEF LiveOK, Live, TypeOK, ListOK, Listing, LiveOne
<1>4. LiveOne'
    BY DEF LiveOne, Live, TypeOK, ListOK, Listing, LiveOK
<1>5. FreshOK'
    BY DEF FreshOK, TypeOK, LiveOK, Live, Inodes
<1>6. WrittenOK'
    BY DEF WrittenOK, TypeOK, LiveOK, LiveOne, Live, FreshOK, Inodes
<1>7. FileWhole'
    BY DEF FileWhole, TypeOK, LiveOK, Live, FreshOK, Inodes
<1>8. StaleOK'
    BY DEF StaleOK, Live, TypeOK, ListOK, Listing, LiveOK, LiveOne
<1>9. PidOK'
    BY DEF PidOK, PidKnown, PidMatches, PidLive, Live, TypeOK, ListOK, Listing, LiveOK, LiveOne, StaleOK
<1> QED
    BY <1>1, <1>2, <1>3, <1>4, <1>5, <1>6, <1>7, <1>8, <1>9

LEMMA CreatePidFileStep ==
    ASSUME Inv, NEW p \in Procs, CreatePidFile(p)
    PROVE  Inv'
<1> USE ProcsAssumption, BoundAssumption DEF Inv, Goto, disk, CreatePidFile
<1>1. TypeOK'
    BY DEF TypeOK, Inodes, PCs, LiveOK, Live, FreshOK
<1>2. ListOK'
    BY DEF ListOK, Listing, TypeOK
<1>3. LiveOK'
    BY DEF LiveOK, Live, TypeOK, ListOK, Listing, LiveOne
<1>4. LiveOne'
    BY DEF LiveOne, Live, TypeOK, ListOK, Listing, LiveOK
<1>5. FreshOK'
    BY DEF FreshOK, TypeOK, LiveOK, Live, Inodes
<1>6. WrittenOK'
    BY DEF WrittenOK, TypeOK, LiveOK, LiveOne, Live, FreshOK, Inodes
<1>7. FileWhole'
    BY DEF FileWhole, TypeOK, LiveOK, Live, FreshOK, Inodes
<1>8. StaleOK'
    BY DEF StaleOK, Live, TypeOK, ListOK, Listing, LiveOK, LiveOne
<1>9. PidOK'
    <2>1. Live(p) /\ pidfile = NoProc /\ lock = mine[p] /\ lock # 0
        BY DEF Live, LiveOK, PidOK, PidKnown
    <2>2. \A q \in Procs : Live(q)' => q = p
        BY <2>1 DEF Live, LiveOne, TypeOK
    <2>3. PidMatches' /\ PidLive'
        BY <2>1, <2>2 DEF PidOK, PidMatches, PidLive
    <2>4. PidKnown(p)'
        BY <2>1 DEF PidKnown, TypeOK
    <2> QED
        BY <2>2, <2>3, <2>4 DEF PidOK
<1> QED
    BY <1>1, <1>2, <1>3, <1>4, <1>5, <1>6, <1>7, <1>8, <1>9

LEMMA RegisterPidFileStep ==
    ASSUME Inv, NEW p \in Procs, RegisterPidFile(p)
    PROVE  Inv'
<1> USE ProcsAssumption, BoundAssumption DEF Inv, Goto, disk, RegisterPidFile
<1>1. TypeOK'
    BY DEF TypeOK, Inodes, PCs, LiveOK, Live, FreshOK
<1>2. ListOK'
    BY DEF ListOK, Listing, TypeOK
<1>3. LiveOK'
    BY DEF LiveOK, Live, TypeOK, ListOK, Listing, LiveOne
<1>4. LiveOne'
    BY DEF LiveOne, Live, TypeOK, ListOK, Listing, LiveOK
<1>5. FreshOK'
    BY DEF FreshOK, TypeOK, LiveOK, Live, Inodes
<1>6. WrittenOK'
    BY DEF WrittenOK, TypeOK, LiveOK, LiveOne, Live, FreshOK, Inodes
<1>7. FileWhole'
    BY DEF FileWhole, TypeOK, LiveOK, Live, FreshOK, Inodes
<1>8. StaleOK'
    BY DEF StaleOK, Live, TypeOK, ListOK, Listing, LiveOK, LiveOne
<1>9. PidOK'
    BY DEF PidOK, PidKnown, PidMatches, PidLive, Live, TypeOK, ListOK, Listing, LiveOK, LiveOne, StaleOK
<1> QED
    BY <1>1, <1>2, <1>3, <1>4, <1>5, <1>6, <1>7, <1>8, <1>9

LEMMA StartWritingStep ==
    ASSUME Inv, NEW p \in Procs, StartWriting(p)
    PROVE  Inv'
<1> USE ProcsAssumption, BoundAssumption DEF Inv, Goto, disk, StartWriting
<1>1. TypeOK'
    BY DEF TypeOK, Inodes, PCs, LiveOK, Live, FreshOK
<1>2. ListOK'
    BY DEF ListOK, Listing, TypeOK
<1>3. LiveOK'
    BY DEF LiveOK, Live, TypeOK, ListOK, Listing, LiveOne
<1>4. LiveOne'
    BY DEF LiveOne, Live, TypeOK, ListOK, Listing, LiveOK
<1>5. FreshOK'
    BY DEF FreshOK, TypeOK, LiveOK, Live, Inodes
<1>6. WrittenOK'
    BY DEF WrittenOK, TypeOK, LiveOK, LiveOne, Live, FreshOK, Inodes
<1>7. FileWhole'
    BY DEF FileWhole, TypeOK, LiveOK, Live, FreshOK, Inodes
<1>8. StaleOK'
    BY DEF StaleOK, Live, TypeOK, ListOK, Listing, LiveOK, LiveOne
<1>9. PidOK'
    BY DEF PidOK, PidKnown, PidMatches, PidLive, Live, TypeOK, ListOK, Listing, LiveOK, LiveOne, StaleOK
<1> QED
    BY <1>1, <1>2, <1>3, <1>4, <1>5, <1>6, <1>7, <1>8, <1>9

LEMMA EndWritingStep ==
    ASSUME Inv, NEW p \in Procs, EndWriting(p)
    PROVE  Inv'
<1> USE ProcsAssumption, BoundAssumption DEF Inv, Goto, disk, EndWriting
<1>1. TypeOK'
    BY DEF TypeOK, Inodes, PCs, LiveOK, Live, FreshOK
<1>2. ListOK'
    BY DEF ListOK, Listing, TypeOK
<1>3. LiveOK'
    BY DEF LiveOK, Live, TypeOK, ListOK, Listing, LiveOne
<1>4. LiveOne'
    BY DEF LiveOne, Live, TypeOK, ListOK, Listing, LiveOK
<1>5. FreshOK'
    BY DEF FreshOK, TypeOK, LiveOK, Live, Inodes
<1>6. WrittenOK'
    BY DEF WrittenOK, TypeOK, LiveOK, LiveOne, Live, FreshOK, Inodes
<1>7. FileWhole'
    BY DEF FileWhole, TypeOK, LiveOK, Live, FreshOK, Inodes
<1>8. StaleOK'
    BY DEF StaleOK, Live, TypeOK, ListOK, Listing, LiveOK, LiveOne
<1>9. PidOK'
    BY DEF PidOK, PidKnown, PidMatches, PidLive, Live, TypeOK, ListOK, Listing, LiveOK, LiveOne, StaleOK
<1> QED
    BY <1>1, <1>2, <1>3, <1>4, <1>5, <1>6, <1>7, <1>8, <1>9

LEMMA CommitStep ==
    ASSUME Inv, NEW p \in Procs, Commit(p)
    PROVE  Inv'
<1> USE ProcsAssumption, BoundAssumption DEF Inv, Goto, disk, Commit, DeletePidFile
<1>1. TypeOK'
    BY DEF TypeOK, Inodes, PCs, LiveOK, Live, FreshOK
<1>2. ListOK'
    BY DEF ListOK, Listing, TypeOK
<1>3. LiveOK'
    BY DEF LiveOK, Live, TypeOK, ListOK, Listing, LiveOne
<1>4. LiveOne'
    BY DEF LiveOne, Live, TypeOK, ListOK, Listing, LiveOK
<1>5. FreshOK'
    BY DEF FreshOK, TypeOK, LiveOK, Live, Inodes
<1>6. WrittenOK'
    BY DEF WrittenOK, TypeOK, LiveOK, LiveOne, Live, FreshOK, Inodes
<1>7. FileWhole'
    BY DEF FileWhole, TypeOK, LiveOK, Live, FreshOK, Inodes
<1>8. StaleOK'
    BY DEF StaleOK, Live, TypeOK, ListOK, Listing, LiveOK, LiveOne
<1>9. PidOK'
    BY DEF PidOK, PidKnown, PidMatches, PidLive, Live, TypeOK, ListOK, Listing, LiveOK, LiveOne, StaleOK
<1> QED
    BY <1>1, <1>2, <1>3, <1>4, <1>5, <1>6, <1>7, <1>8, <1>9

(* The live process renames its own, complete version. *)
LEMMA RenameStep ==
    ASSUME Inv, NEW p \in Procs, Rename(p)
    PROVE  Inv'
<1> USE ProcsAssumption, BoundAssumption DEF Inv, Goto, disk, Rename, CloseOk
<1>1. TypeOK'
    <2>1. pc' \in [Procs -> PCs]
        BY DEF TypeOK, PCs
    <2>2. file' \in Inodes /\ lock' \in Inodes
        BY DEF TypeOK, Inodes
    <2> QED
        BY <2>1, <2>2 DEF TypeOK
<1>2. ListOK'
    BY DEF ListOK, Listing, TypeOK
<1>3. LiveOK'
    BY DEF LiveOK, Live, TypeOK, ListOK, Listing, LiveOne
<1>4. LiveOne'
    BY DEF LiveOne, Live, TypeOK, ListOK, Listing, LiveOK
<1>5. FreshOK'
    BY DEF FreshOK, TypeOK, LiveOK, Live, Inodes
<1>6. WrittenOK'
    <2>1. Live(p) /\ p \in Procs
        BY DEF Live
    <2>2. ASSUME NEW q \in Procs, q # p
          PROVE  pc[q] \notin {"writing", "ready", "closing"} /\ pc'[q] = pc[q]
        BY <2>1, <2>2 DEF Live, LiveOne, TypeOK
    <2>3. pc'[p] \notin {"writing", "ready", "closing"}
        BY DEF TypeOK
    <2> QED
        BY <2>2, <2>3 DEF WrittenOK
<1>7. FileWhole'
    BY DEF FileWhole, TypeOK, LiveOK, Live, FreshOK, Inodes
<1>8. StaleOK'
    BY DEF StaleOK, Live, TypeOK, ListOK, Listing, LiveOK, LiveOne
<1>9. PidOK'
    BY DEF PidOK, PidKnown, PidMatches, PidLive, Live, TypeOK, ListOK, Listing, LiveOK, LiveOne, StaleOK
<1> QED
    BY <1>1, <1>2, <1>3, <1>4, <1>5, <1>6, <1>7, <1>8, <1>9

LEMMA RollbackStep ==
    ASSUME Inv, NEW p \in Procs, Rollback(p)
    PROVE  Inv'
<1> USE ProcsAssumption, BoundAssumption DEF Inv, Goto, disk, Rollback, DeletePidFile
<1>1. TypeOK'
    BY DEF TypeOK, Inodes, PCs, LiveOK, Live, FreshOK
<1>2. ListOK'
    BY DEF ListOK, Listing, TypeOK
<1>3. LiveOK'
    BY DEF LiveOK, Live, TypeOK, ListOK, Listing, LiveOne
<1>4. LiveOne'
    BY DEF LiveOne, Live, TypeOK, ListOK, Listing, LiveOK
<1>5. FreshOK'
    BY DEF FreshOK, TypeOK, LiveOK, Live, Inodes
<1>6. WrittenOK'
    BY DEF WrittenOK, TypeOK, LiveOK, LiveOne, Live, FreshOK, Inodes
<1>7. FileWhole'
    BY DEF FileWhole, TypeOK, LiveOK, Live, FreshOK, Inodes
<1>8. StaleOK'
    BY DEF StaleOK, Live, TypeOK, ListOK, Listing, LiveOK, LiveOne
<1>9. PidOK'
    BY DEF PidOK, PidKnown, PidMatches, PidLive, Live, TypeOK, ListOK, Listing, LiveOK, LiveOne, StaleOK
<1> QED
    BY <1>1, <1>2, <1>3, <1>4, <1>5, <1>6, <1>7, <1>8, <1>9

LEMMA UnlinkStep ==
    ASSUME Inv, NEW p \in Procs, Unlink(p)
    PROVE  Inv'
<1> USE ProcsAssumption, BoundAssumption DEF Inv, Goto, disk, Unlink
<1>1. TypeOK'
    BY DEF TypeOK, Inodes, PCs, LiveOK, Live, FreshOK
<1>2. ListOK'
    BY DEF ListOK, Listing, TypeOK
<1>3. LiveOK'
    BY DEF LiveOK, Live, TypeOK, ListOK, Listing, LiveOne
<1>4. LiveOne'
    BY DEF LiveOne, Live, TypeOK, ListOK, Listing, LiveOK
<1>5. FreshOK'
    BY DEF FreshOK, TypeOK, LiveOK, Live, Inodes
<1>6. WrittenOK'
    BY DEF WrittenOK, TypeOK, LiveOK, LiveOne, Live, FreshOK, Inodes
<1>7. FileWhole'
    BY DEF FileWhole, TypeOK, LiveOK, Live, FreshOK, Inodes
<1>8. StaleOK'
    BY DEF StaleOK, Live, TypeOK, ListOK, Listing, LiveOK, LiveOne
<1>9. PidOK'
    BY DEF PidOK, PidKnown, PidMatches, PidLive, Live, TypeOK, ListOK, Listing, LiveOK, LiveOne, StaleOK
<1> QED
    BY <1>1, <1>2, <1>3, <1>4, <1>5, <1>6, <1>7, <1>8, <1>9

LEMMA DeactivateStep ==
    ASSUME Inv, NEW p \in Procs, Deactivate(p)
    PROVE  Inv'
<1> USE ProcsAssumption, BoundAssumption DEF Inv, Goto, disk, Deactivate
<1>1. TypeOK'
    BY DEF TypeOK, Inodes, PCs, LiveOK, Live, FreshOK
<1>2. ListOK'
    BY DEF ListOK, Listing, TypeOK
<1>3. LiveOK'
    BY DEF LiveOK, Live, TypeOK, ListOK, Listing, LiveOne
<1>4. LiveOne'
    BY DEF LiveOne, Live, TypeOK, ListOK, Listing, LiveOK
<1>5. FreshOK'
    BY DEF FreshOK, TypeOK, LiveOK, Live, Inodes
<1>6. WrittenOK'
    BY DEF WrittenOK, TypeOK, LiveOK, LiveOne, Live, FreshOK, Inodes
<1>7. FileWhole'
    BY DEF FileWhole, TypeOK, LiveOK, Live, FreshOK, Inodes
<1>8. StaleOK'
    BY DEF StaleOK, Live, TypeOK, ListOK, Listing, LiveOK, LiveOne
<1>9. PidOK'
    BY DEF PidOK, PidKnown, PidMatches, PidLive, Live, TypeOK, ListOK, Listing, LiveOK, LiveOne, StaleOK
<1> QED
    BY <1>1, <1>2, <1>3, <1>4, <1>5, <1>6, <1>7, <1>8, <1>9

LEMMA ChildReassignStep ==
    ASSUME Inv, NEW p \in Procs, ChildReassign(p)
    PROVE  Inv'
<1> USE ProcsAssumption, BoundAssumption DEF Inv, Goto, disk, ChildReassign
<1>1. TypeOK'
    BY DEF TypeOK, Inodes, PCs, LiveOK, Live, FreshOK
<1>2. ListOK'
    BY DEF ListOK, Listing, TypeOK
<1>3. LiveOK'
    BY DEF LiveOK, Live, TypeOK, ListOK, Listing, LiveOne
<1>4. LiveOne'
    BY DEF LiveOne, Live, TypeOK, ListOK, Listing, LiveOK
<1>5. FreshOK'
    BY DEF FreshOK, TypeOK, LiveOK, Live, Inodes
<1>6. WrittenOK'
    BY DEF WrittenOK, TypeOK, LiveOK, LiveOne, Live, FreshOK, Inodes
<1>7. FileWhole'
    BY DEF FileWhole, TypeOK, LiveOK, Live, FreshOK, Inodes
<1>8. StaleOK'
    BY DEF StaleOK, Live, TypeOK, ListOK, Listing, LiveOK, LiveOne
<1>9. PidOK'
    BY DEF PidOK, PidKnown, PidMatches, PidLive, Live, TypeOK, ListOK, Listing, LiveOK, LiveOne, StaleOK
<1> QED
    BY <1>1, <1>2, <1>3, <1>4, <1>5, <1>6, <1>7, <1>8, <1>9

(* The parent is no longer responsible. *)
LEMMA ParentReassignStep ==
    ASSUME Inv, NEW p \in Procs, ParentReassign(p)
    PROVE  Inv'
<1> USE ProcsAssumption, BoundAssumption DEF Inv, Goto, disk, ParentReassign
<1>1. TypeOK'
    BY DEF TypeOK, Inodes, PCs, LiveOK, Live, FreshOK
<1>2. ListOK'
    BY DEF ListOK, Listing, TypeOK
<1>3. LiveOK'
    BY DEF LiveOK, Live, TypeOK, ListOK, Listing, LiveOne
<1>4. LiveOne'
    BY DEF LiveOne, Live, TypeOK, ListOK, Listing, LiveOK
<1>5. FreshOK'
    BY DEF FreshOK, TypeOK, LiveOK, Live, Inodes
<1>6. WrittenOK'
    BY DEF WrittenOK, TypeOK, LiveOK, LiveOne, Live, FreshOK, Inodes
<1>7. FileWhole'
    BY DEF FileWhole, TypeOK, LiveOK, Live, FreshOK, Inodes
<1>8. StaleOK'
    BY DEF StaleOK, Live, TypeOK, ListOK, Listing, LiveOK, LiveOne
<1>9. PidOK'
    BY DEF PidOK, PidKnown, PidMatches, PidLive, Live, TypeOK, ListOK, Listing, LiveOK, LiveOne, StaleOK
<1> QED
    BY <1>1, <1>2, <1>3, <1>4, <1>5, <1>6, <1>7, <1>8, <1>9

LEMMA ExitStep ==
    ASSUME Inv, NEW p \in Procs, Exit(p)
    PROVE  Inv'
<1> USE ProcsAssumption, BoundAssumption DEF Inv, Goto, disk, Exit
<1>1. TypeOK'
    BY DEF TypeOK, Inodes, PCs, LiveOK, Live, FreshOK
<1>2. ListOK'
    BY DEF ListOK, Listing, TypeOK
<1>3. LiveOK'
    BY DEF LiveOK, Live, TypeOK, ListOK, Listing, LiveOne
<1>4. LiveOne'
    BY DEF LiveOne, Live, TypeOK, ListOK, Listing, LiveOK
<1>5. FreshOK'
    BY DEF FreshOK, TypeOK, LiveOK, Live, Inodes
<1>6. WrittenOK'
    BY DEF WrittenOK, TypeOK, LiveOK, LiveOne, Live, FreshOK, Inodes
<1>7. FileWhole'
    BY DEF FileWhole, TypeOK, LiveOK, Live, FreshOK, Inodes
<1>8. StaleOK'
    BY DEF StaleOK, Live, TypeOK, ListOK, Listing, LiveOK, LiveOne
<1>9. PidOK'
    BY DEF PidOK, PidKnown, PidMatches, PidLive, Live, TypeOK, ListOK, Listing, LiveOK, LiveOne, StaleOK
<1> QED
    BY <1>1, <1>2, <1>3, <1>4, <1>5, <1>6, <1>7, <1>8, <1>9

(* Outside the windows the list still names the lock file. *)
LEMMA SignalStep ==
    ASSUME Inv, NEW p \in Procs, Signal(p), NoWindow
    PROVE  Inv'
<1> USE ProcsAssumption, BoundAssumption DEF Inv, Goto, disk, Signal, SignalKind, NoWindow
<1>0. \A q \in Procs : Live(q)' => Live(q)
    <2>1. pc'[p] = "cleanup" /\ \A q \in Procs \ {p} : pc'[q] = pc[q]
        BY DEF TypeOK
    <2>2. Live(p)' => Live(p)
        <3>1. SUFFICES ASSUME "lock" \in listed[p], owner[p] = p PROVE Live(p)
            BY <2>1 DEF Live
        <3>2. pc[p] \notin {"idle", "none", "dead", "killed", "cleanup",
                            "cleanup_lock", "exiting", "renamed", "unlinked", "fork_parent"}
            BY <3>1 DEF ListOK, Listing
        <3> QED
            BY <3>2 DEF TypeOK, PCs, Live
    <2>3. ASSUME NEW q \in Procs, q # p PROVE Live(q)' => Live(q)
        BY <2>1, <2>3 DEF Live
    <2> QED
        BY <2>2, <2>3
<1>1. TypeOK'
    BY DEF TypeOK, Inodes, PCs, LiveOK, Live, FreshOK
<1>2. ListOK'
    BY DEF ListOK, Listing, TypeOK
<1>3. LiveOK'
    BY <1>0 DEF LiveOK
<1>4. LiveOne'
    BY <1>0 DEF LiveOne
<1>5. FreshOK'
    BY DEF FreshOK, TypeOK, LiveOK, Live, Inodes
<1>6. WrittenOK'
    BY DEF WrittenOK, TypeOK, LiveOK, LiveOne, Live, FreshOK, Inodes
<1>7. FileWhole'
    BY DEF FileWhole, TypeOK, LiveOK, Live, FreshOK, Inodes
<1>8. StaleOK'
    BY DEF StaleOK, Live, TypeOK, ListOK, Listing, LiveOK, LiveOne
<1>9. PidOK'
    <2>1. PidMatches' /\ PidLive'
        BY <1>0 DEF PidOK, PidMatches, PidLive, TypeOK
    <2>2. ASSUME NEW q \in Procs, Live(q)' PROVE PidKnown(q)'
        <3>1. Live(q) /\ PidKnown(q)
            BY <1>0, <2>2 DEF PidOK
        <3>2. CASE q = p
            <4>1. pc[p] \notin {"pidopened", "opened", "fork_child", "cleanup", "cleanup_lock"}
                OBVIOUS
            <4>2. pidfile # NoProc => "pid" \in listed[p]
                BY <3>1, <3>2, <4>1 DEF Live, PidKnown
            <4> QED
                BY <3>2, <4>2 DEF PidKnown, TypeOK
        <3>3. CASE q # p
            BY <3>1, <3>3 DEF PidKnown, TypeOK
        <3> QED
            BY <3>2, <3>3
    <2> QED
        BY <2>1, <2>2 DEF PidOK
<1> QED
    BY <1>1, <1>2, <1>3, <1>4, <1>5, <1>6, <1>7, <1>8, <1>9

LEMMA KillStep ==
    ASSUME Inv, NEW p \in Procs, Kill(p)
    PROVE  Inv'
<1> USE ProcsAssumption, BoundAssumption DEF Inv, Goto, disk, Kill
<1>1. TypeOK'
    BY DEF TypeOK, Inodes, PCs, LiveOK, Live, FreshOK
<1>2. ListOK'
    BY DEF ListOK, Listing, TypeOK
<1>3. LiveOK'
    BY DEF LiveOK, Live, TypeOK, ListOK, Listing, LiveOne
<1>4. LiveOne'
    BY DEF LiveOne, Live, TypeOK, ListOK, Listing, LiveOK
<1>5. FreshOK'
    BY DEF FreshOK, TypeOK, LiveOK, Live, Inodes
<1>6. WrittenOK'
    BY DEF WrittenOK, TypeOK, LiveOK, LiveOne, Live, FreshOK, Inodes
<1>7. FileWhole'
    BY DEF FileWhole, TypeOK, LiveOK, Live, FreshOK, Inodes
<1>8. StaleOK'
    BY DEF StaleOK, Live, TypeOK, ListOK, Listing, LiveOK, LiveOne
<1>9. PidOK'
    BY DEF PidOK, PidKnown, PidMatches, PidLive, Live, TypeOK, ListOK, Listing, LiveOK, LiveOne, StaleOK
<1> QED
    BY <1>1, <1>2, <1>3, <1>4, <1>5, <1>6, <1>7, <1>8, <1>9

LEMMA RemovePidFileStep ==
    ASSUME Inv, NEW p \in Procs, RemovePidFile(p)
    PROVE  Inv'
<1> USE ProcsAssumption, BoundAssumption DEF Inv, Goto, disk, RemovePidFile, IsOwner
<1>1. TypeOK'
    BY DEF TypeOK, Inodes, PCs, LiveOK, Live, FreshOK
<1>2. ListOK'
    BY DEF ListOK, Listing, TypeOK
<1>3. LiveOK'
    BY DEF LiveOK, Live, TypeOK, ListOK, Listing, LiveOne
<1>4. LiveOne'
    BY DEF LiveOne, Live, TypeOK, ListOK, Listing, LiveOK
<1>5. FreshOK'
    BY DEF FreshOK, TypeOK, LiveOK, Live, Inodes
<1>6. WrittenOK'
    BY DEF WrittenOK, TypeOK, LiveOK, LiveOne, Live, FreshOK, Inodes
<1>7. FileWhole'
    BY DEF FileWhole, TypeOK, LiveOK, Live, FreshOK, Inodes
<1>8. StaleOK'
    BY DEF StaleOK, Live, TypeOK, ListOK, Listing, LiveOK, LiveOne
<1>9. PidOK'
    BY DEF PidOK, PidKnown, PidMatches, PidLive, Live, TypeOK, ListOK, Listing, LiveOK, LiveOne, StaleOK
<1> QED
    BY <1>1, <1>2, <1>3, <1>4, <1>5, <1>6, <1>7, <1>8, <1>9

(* Only the live process removes the lock file. *)
LEMMA RemoveLockFileStep ==
    ASSUME Inv, NEW p \in Procs, RemoveLockFile(p)
    PROVE  Inv'
<1> USE ProcsAssumption, BoundAssumption DEF Inv, Goto, disk, RemoveLockFile, IsOwner
<1>1. TypeOK'
    BY DEF TypeOK, Inodes, PCs, LiveOK, Live, FreshOK
<1>2. ListOK'
    BY DEF ListOK, Listing, TypeOK
<1>3. LiveOK'
    BY DEF LiveOK, Live, TypeOK, ListOK, Listing, LiveOne
<1>4. LiveOne'
    BY DEF LiveOne, Live, TypeOK, ListOK, Listing, LiveOK
<1>5. FreshOK'
    BY DEF FreshOK, TypeOK, LiveOK, Live, Inodes
<1>6. WrittenOK'
    BY DEF WrittenOK, TypeOK, LiveOK, LiveOne, Live, FreshOK, Inodes
<1>7. FileWhole'
    BY DEF FileWhole, TypeOK, LiveOK, Live, FreshOK, Inodes
<1>8. StaleOK'
    <2>1. SUFFICES ASSUME lock' # 0
                   PROVE  \E q \in Procs : mine'[q] = lock' /\ (Live(q)' \/ pc'[q] = "killed")
        BY DEF StaleOK
    <2>2. lock' = lock /\ lock # 0 /\ ~Live(p)
        BY <2>1 DEF Live
    <2>3. PICK q \in Procs : mine[q] = lock /\ (Live(q) \/ pc[q] = "killed")
        BY <2>2 DEF StaleOK
    <2>4. q # p
        BY <2>2, <2>3
    <2>5. pc'[q] = pc[q]
        BY <2>4 DEF TypeOK
    <2> QED
        BY <2>2, <2>3, <2>5 DEF Live
<1>9. PidOK'
    BY DEF PidOK, PidKnown, PidMatches, PidLive, Live, TypeOK, ListOK, Listing, LiveOK, LiveOne, StaleOK
<1> QED
    BY <1>1, <1>2, <1>3, <1>4, <1>5, <1>6, <1>7, <1>8, <1>9

LEMMA LeaveStep ==
    ASSUME Inv, NEW p \in Procs, Leave(p)
    PROVE  Inv'
<1> USE ProcsAssumption, BoundAssumption DEF Inv, Goto, disk, Leave
<1>1. TypeOK'
    BY DEF TypeOK, Inodes, PCs, LiveOK, Live, FreshOK
<1>2. ListOK'
    BY DEF ListOK, Listing, TypeOK
<1>3. LiveOK'
    BY DEF LiveOK, Live, TypeOK, ListOK, Listing, LiveOne
<1>4. LiveOne'
    BY DEF LiveOne, Live, TypeOK, ListOK, Listing, LiveOK
<1>5. FreshOK'
    BY DEF FreshOK, TypeOK, LiveOK, Live, Inodes
<1>6. WrittenOK'
    BY DEF WrittenOK, TypeOK, LiveOK, LiveOne, Live, FreshOK, Inodes
<1>7. FileWhole'
    BY DEF FileWhole, TypeOK, LiveOK, Live, FreshOK, Inodes
<1>8. StaleOK'
    BY DEF StaleOK, Live, TypeOK, ListOK, Listing, LiveOK, LiveOne
<1>9. PidOK'
    BY DEF PidOK, PidKnown, PidMatches, PidLive, Live, TypeOK, ListOK, Listing, LiveOK, LiveOne, StaleOK
<1> QED
    BY <1>1, <1>2, <1>3, <1>4, <1>5, <1>6, <1>7, <1>8, <1>9

(* The parent stays responsible for nothing, the child for the lock. *)
LEMMA ForkStep ==
    ASSUME Inv, NEW p \in Procs, NEW c \in Children, Fork(p, c)
    PROVE  Inv'
<1> USE ProcsAssumption, BoundAssumption DEF Inv, disk
<1>1. /\ p # c /\ pc[p] = "held" /\ pc[c] = "none"
      /\ pc'[p] = "fork_parent" /\ pc'[c] = "fork_child"
      /\ mine'[c] = mine[p] /\ listed'[c] = listed[p] /\ owner'[c] = owner[p]
      /\ mine'[p] = mine[p] /\ listed'[p] = listed[p] /\ owner'[p] = owner[p]
      /\ \A q \in Procs \ {p, c} :
            /\ pc'[q] = pc[q] /\ mine'[q] = mine[q]
            /\ listed'[q] = listed[q] /\ owner'[q] = owner[q]
      /\ UNCHANGED <<file, lock, pidfile, next, val, whole>>
    BY DEF Fork, TypeOK
<1>2. Live(p) /\ lock = mine[p] /\ lock # 0 /\ "lock" \in listed[p]
    BY <1>1 DEF Live, LiveOK, ListOK, Listing
<1>3. \A q \in Procs : Live(q)' => q = c
    BY <1>1, <1>2 DEF Live, LiveOne
<1>4. TypeOK'
    BY DEF TypeOK, PCs, Fork
<1>5. ListOK'
    BY <1>1, <1>2 DEF ListOK, Listing
<1>6. LiveOK' /\ LiveOne'
    BY <1>1, <1>2, <1>3 DEF LiveOK, LiveOne
<1>7. FreshOK' /\ FileWhole'
    BY <1>1 DEF FreshOK, FileWhole
<1>8. WrittenOK'
    BY <1>1 DEF WrittenOK
<1>9. StaleOK'
    BY <1>1, <1>2 DEF StaleOK, Live
<1>10. PidOK'
    <2>1. PidKnown(c)'
        BY <1>1, <1>2 DEF PidOK, PidKnown
    <2>2. PidMatches' /\ PidLive'
        <3>1. pidfile # NoProc => pidfile # c
            BY <1>1, <1>2 DEF PidOK, PidMatches, PidLive, ListOK, Listing
        <3> QED
            BY <1>1, <1>2, <1>3, <3>1 DEF PidOK, PidMatches, PidLive, TypeOK
    <2> QED
        BY <1>3, <2>1, <2>2 DEF PidOK
<1> QED
    BY <1>4, <1>5, <1>6, <1>7, <1>8, <1>9, <1>10

LEMMA InvInit == Init => Inv
<1> SUFFICES ASSUME Init PROVE Inv
    OBVIOUS
<1> USE ProcsAssumption, BoundAssumption DEF Init
<1>1. TypeOK
    BY DEF TypeOK, Inodes, PCs
<1>2. ListOK /\ LiveOK /\ LiveOne
    BY DEF ListOK, Listing, LiveOK, LiveOne, Live
<1>3. FileWhole /\ StaleOK
    <2>1. 0 \in Inodes
        BY DEF Inodes
    <2> QED
        BY <2>1 DEF FileWhole, StaleOK
<1>5. FreshOK
    BY DEF FreshOK, Inodes
<1>6. WrittenOK
    BY DEF WrittenOK
<1>4. PidOK
    BY DEF PidOK, PidMatches, PidLive, Live
<1> QED
    BY <1>1, <1>2, <1>3, <1>4, <1>5, <1>6 DEF Inv

LEMMA StutterStep == Inv /\ UNCHANGED vars => Inv'
BY DEF Inv, vars, disk, TypeOK, ListOK, Listing, LiveOK, LiveOne, Live, FreshOK,
       WrittenOK, FileWhole, StaleOK, PidOK, PidKnown, PidMatches, PidLive

LEMMA InvNext == NoWindow /\ Inv /\ [Next]_vars => Inv'
<1> SUFFICES ASSUME NoWindow, Inv, [Next]_vars PROVE Inv'
    OBVIOUS
<1>1. CASE UNCHANGED vars
    BY <1>1, StutterStep
<1>2. CASE Terminated
    BY <1>2, StutterStep DEF Terminated
<1>3. ASSUME NEW p \in Procs, Step(p) PROVE Inv'
    BY <1>3, ActivateStep, CreatePidFileStep, RegisterPidFileStep,
       StartWritingStep, EndWritingStep, CommitStep, RenameStep, UnlinkStep,
       DeactivateStep, ChildReassignStep, ParentReassignStep,
       RemovePidFileStep, RemoveLockFileStep, LeaveStep DEF Step
<1>4. ASSUME NEW p \in Procs, Choice(p) PROVE Inv'
    <2>1. ASSUME NEW c \in Children, Fork(p, c) PROVE Inv'
        BY <2>1, ForkStep
    <2> QED
        BY <1>4, <2>1, TryLockStep, RollbackStep, ExitStep, SignalStep,
           KillStep DEF Choice
<1> QED
    BY <1>1, <1>2, <1>3, <1>4 DEF Next

LEMMA InvAlways ==
    ASSUME NoWindow
    PROVE  Spec => []Inv
<1>1. Inv /\ [Next]_vars => Inv'
    BY NoWindow, InvNext
<1> QED
    BY InvInit, <1>1, PTL DEF Spec

-----------------------------------------------------------------------------
(* The theorems. *)

(* Type correctness. *)
THEOREM TypeCorrect ==
    ASSUME NoWindow
    PROVE  Spec => []TypeOK
BY InvAlways, PTL DEF Inv

(* The lock excludes: O_EXCL, the order of the steps and the ownership of  *)
(* list entries make a holder unique.                                      *)
THEOREM LockExcludes ==
    ASSUME NoWindow
    PROVE  Spec => []MutualExclusion
<1>1. Inv => MutualExclusion
    BY DEF Inv, LiveOK, LiveOne, Live, MutualExclusion, Holding
<1> QED
    BY <1>1, InvAlways, PTL

(* A reader of the file never sees a half-written version. *)
THEOREM ReadersSeeWholeFiles ==
    ASSUME NoWindow
    PROVE  Spec => []FileWhole
BY InvAlways, PTL DEF Inv

(* Exit and signal handlers leave no lock file behind. *)
THEOREM CruftRemoved ==
    ASSUME NoWindow
    PROVE  Spec => []NoStaleLock
<1>1. Inv => NoStaleLock
    BY DEF Inv, StaleOK, Live, NoStaleLock
<1> QED
    BY <1>1, InvAlways, PTL

(* The pid file stands beside a lock file and names the process that is    *)
(* responsible for it, or the one that handed it over in daemonize.        *)
THEOREM PidFileRight ==
    ASSUME NoWindow
    PROVE  Spec => []PidFileNamesHolder
<1>1. Inv => PidFileNamesHolder
    <2> SUFFICES ASSUME Inv, pidfile # NoProc PROVE PidFileNamesHolder
        BY DEF PidFileNamesHolder
    <2>1. lock # 0 /\ mine[pidfile] = lock
        BY DEF Inv, PidOK, PidMatches
    <2>2. ASSUME NEW q \in Procs, Responsible(q), q # pidfile
          PROVE  HandedOver(pidfile, q)
        <3>1. Live(q)
            BY <2>2 DEF Responsible, Holding, Live
        <3>2. mine[q] = mine[pidfile]
            BY <2>1, <3>1 DEF Inv, LiveOK
        <3> QED
            BY <2>2, <3>1, <3>2 DEF Inv, PidOK, PidLive, HandedOver
    <2> QED
        BY <2>1, <2>2 DEF PidFileNamesHolder
<1> QED
    BY <1>1, InvAlways, PTL

(* The step of the register: only a rename changes what the file's name    *)
(* refers to, and it installs an update that its process has made of the   *)
(* version before it; a process leaves "renamed" without touching the file.*)
LEMMA RegisterStep ==
    ASSUME Inv, [Next]_vars
    PROVE  [Register!Next]_<<val[file], Committed>>
<1> USE DEF Inv
<1>1. CASE UNCHANGED vars
    BY <1>1 DEF vars, disk, Committed
<1>2. CASE Terminated
    BY <1>2 DEF Terminated, vars, disk, Committed
<1>3. ASSUME NEW p \in Procs, Rename(p), pc'[p] = "renamed"
      PROVE  Register!Update(p)
    <2>1. Live(p) /\ lock = mine[p] /\ val[mine[p]] = Append(val[file], p)
        BY <1>3 DEF Rename, Live, LiveOK, WrittenOK
    <2>2. val'[file'] = Append(val[file], p)
        BY <1>3, <2>1 DEF Rename, Goto, TypeOK
    <2>3. p \notin Committed /\ Committed' = Committed \cup {p}
        BY <1>3 DEF Rename, Goto, TypeOK, Committed
    <2> QED
        BY <2>2, <2>3 DEF Register!Update
<1>4. ASSUME NEW p \in Procs, Rename(p), pc'[p] # "renamed"
      PROVE  UNCHANGED <<val[file], Committed>>
    BY <1>4 DEF Rename, Goto, TypeOK, Committed
<1>5. ASSUME NEW p \in Procs, StartWriting(p)
      PROVE  UNCHANGED <<val[file], Committed>>
    <2>1. Live(p) /\ lock = mine[p] /\ lock # 0 /\ lock # file
        BY <1>5 DEF StartWriting, Live, LiveOK, FreshOK
    <2>2. val'[file'] = val[file]
        BY <1>5, <2>1 DEF StartWriting, TypeOK
    <2>3. Committed' = Committed
        BY <1>5 DEF StartWriting, Goto, TypeOK, Committed
    <2> QED
        BY <2>2, <2>3
<1>6. ASSUME NEW p \in Procs, Step(p) \/ Choice(p), ~Rename(p), ~StartWriting(p)
      PROVE  Register!Return(p) \/ UNCHANGED <<val[file], Committed>>
    <2>1. val' = val /\ file' = file
        BY <1>6 DEF Step, Choice, Activate, CreatePidFile, RegisterPidFile,
           EndWriting, Commit, Unlink, Deactivate, ChildReassign, ParentReassign,
           RemovePidFile, RemoveLockFile, Leave, TryLock, Rollback, Exit, Signal,
           Kill, Fork, disk
    <2>2. \A q \in Procs : pc'[q] = "renamed" => pc[q] = "renamed"
        BY <1>6, ProcsAssumption
        DEF Step, Choice, Activate, CreatePidFile, RegisterPidFile,
           EndWriting, Commit, Unlink, Deactivate, ChildReassign, ParentReassign,
           RemovePidFile, RemoveLockFile, Leave, TryLock, Rollback, Exit, Signal,
           Kill, Fork, Goto, TypeOK
    <2>3. \A q \in Procs : q # p /\ pc[q] = "renamed" => pc'[q] = "renamed"
        BY <1>6, ProcsAssumption
        DEF Step, Choice, Activate, CreatePidFile, RegisterPidFile,
           EndWriting, Commit, Unlink, Deactivate, ChildReassign, ParentReassign,
           RemovePidFile, RemoveLockFile, Leave, TryLock, Rollback, Exit, Signal,
           Kill, Fork, Goto, TypeOK
    <2>4. \/ Committed' = Committed
          \/ p \in Committed /\ Committed' = Committed \ {p}
        BY <2>2, <2>3 DEF Committed
    <2> QED
        BY <2>1, <2>4 DEF Register!Return
<1>7. ASSUME NEW p \in Procs, Step(p) \/ Choice(p)
      PROVE  [Register!Next]_<<val[file], Committed>>
    BY <1>3, <1>4, <1>5, <1>6, <1>7 DEF Register!Next
<1> QED
    BY <1>1, <1>2, <1>7 DEF Next

(* A lock-protected file implements the atomic register. *)
THEOREM FileIsAtomic ==
    ASSUME NoWindow
    PROVE  Spec => AtomicUpdates
<1>1. Init => Register!Init
    <2> SUFFICES ASSUME Init PROVE val[file] = <<>> /\ Committed = {}
        BY DEF Register!Init
    <2>1. val[file] = <<>>
        BY BoundAssumption DEF Init, Inodes
    <2>2. \A p \in Procs : pc[p] # "renamed"
        BY DEF Init
    <2> QED
        BY <2>1, <2>2 DEF Committed
<1>2. Inv /\ [Next]_vars => [Register!Next]_<<val[file], Committed>>
    BY RegisterStep
<1> QED
    BY <1>1, <1>2, InvAlways, PTL DEF Spec, AtomicUpdates, Register!Spec
=============================================================================
