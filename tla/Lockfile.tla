------------------------------ MODULE Lockfile ------------------------------
(***************************************************************************)
(* Lock files: lockfile.c on top of tempfile.c, for one protected file.    *)
(*                                                                         *)
(* Processes take "<file>.lock" with O_CREAT|O_EXCL, write the new         *)
(* contents into it and rename it over the file, or remove it.  Each keeps *)
(* a list of its temporary files, which its exit handler and its signal    *)
(* handler remove BY NAME.  The state is the directory (which inode the    *)
(* names refer to) and, for each process, its place in the protocol and    *)
(* its list.                                                               *)
(*                                                                         *)
(* The time between attempts is the subject of module LockTimeout: here an *)
(* attempt that finds the lock taken changes nothing and may be repeated.  *)
(***************************************************************************)
EXTENDS Naturals, Sequences

CONSTANTS
    Procs,       \* the processes
    Children,    \* those that only come to life when another daemonizes
    NoProc,      \* "no pid file"
    MaxLocks,    \* bound: how many lock files are ever created
    PidEnabled,  \* core.lockfilePid
    Faults       \* which failures may happen, a subset of FaultKinds

FaultKinds == {"signal", "window", "handler", "kill", "write", "perm", "rename"}

ASSUME ProcsAssumption  == Children \subseteq Procs /\ NoProc \notin Procs
ASSUME BoundAssumption  == MaxLocks \in Nat
ASSUME ConfigAssumption == PidEnabled \in BOOLEAN
ASSUME FaultsAssumption == Faults \subseteq FaultKinds

Inodes == 0..MaxLocks

VARIABLES
    file,    \* the inode that <file> names; inode 0 is its first version
    lock,    \* the inode that <file>.lock names, 0 if there is none
    pidfile, \* the process named in <file>~pid.lock, or NoProc
    next,    \* the next new inode
    val,     \* contents of an inode: the updates made so far
    whole,   \* have the contents of the inode been written completely?
    pc,      \* where each process is
    mine,    \* the inode a process created last (the one its fd refers to)
    listed,  \* tempfile_list: which of "lock" and "pid" are registered
    owner    \* the owner recorded in the entries of that list

disk == <<file, lock, pidfile, next, val, whole>>
vars == <<disk, pc, mine, listed, owner>>

PCs == {"none", "idle", "opened", "active", "pidopened", "held", "writing",
        "ready", "closing", "renamed", "rollback", "unlinked", "fork_parent",
        "fork_child", "cleanup", "cleanup_lock", "exiting", "dead", "killed"}

(* Type invariant of the directory and of the tempfile lists; every list   *)
(* entry is owned by a process (the owner field is never left at 0).       *)
TypeOK ==
    /\ file \in Inodes /\ lock \in Inodes
    /\ pidfile \in Procs \cup {NoProc}
    /\ next \in 1..(MaxLocks + 1)
    /\ val \in [Inodes -> Seq(Procs)]
    /\ whole \in [Inodes -> BOOLEAN]
    /\ pc \in [Procs -> PCs]
    /\ mine \in [Procs -> Inodes]
    /\ listed \in [Procs -> SUBSET {"lock", "pid"}]
    /\ owner \in [Procs -> Procs]

Init ==
    /\ file = 0 /\ lock = 0 /\ pidfile = NoProc /\ next = 1
    /\ val = [i \in Inodes |-> <<>>]
    /\ whole = [i \in Inodes |-> i = 0]
    /\ pc = [p \in Procs |-> IF p \in Children THEN "none" ELSE "idle"]
    /\ mine = [p \in Procs |-> 0]
    /\ listed = [p \in Procs |-> {}]
    /\ owner = [p \in Procs |-> p]

Goto(p, l) == pc' = [pc EXCEPT ![p] = l]

-----------------------------------------------------------------------------
(* Taking the lock: lock_file. *)

(* Mutant: open() without O_EXCL. *)
OpenAnyway == TRUE

(* open(O_CREAT|O_EXCL) succeeds only if the name is free. *)
OpenExcl == lock = 0

(* create_tempfile_mode: the lock file exists, nothing is registered yet. *)
TryLock(p) ==
    /\ pc[p] = "idle" /\ OpenExcl /\ next <= MaxLocks
    /\ lock' = next /\ next' = next + 1
    /\ mine' = [mine EXCEPT ![p] = next]
    /\ Goto(p, "opened")
    /\ UNCHANGED <<file, pidfile, val, whole, listed, owner>>

(* activate_tempfile; then adjust_shared_perm may fail. *)
Activate(p) ==
    /\ pc[p] = "opened"
    /\ listed' = [listed EXCEPT ![p] = @ \cup {"lock"}]
    /\ owner' = [owner EXCEPT ![p] = p]
    /\ \/ Goto(p, "active")
       \/ "perm" \in Faults /\ Goto(p, "rollback")
    /\ UNCHANGED <<disk, mine>>

(* create_lock_pid_file: open(O_EXCL) and write the pid.  Where a pid file *)
(* exists already, or cannot be written, the lock goes without one.        *)
CreatePidFile(p) ==
    /\ pc[p] = "active"
    /\ \/ /\ PidEnabled /\ pidfile = NoProc
          /\ pidfile' = p /\ Goto(p, "pidopened")
       \/ /\ ~PidEnabled \/ pidfile # NoProc \/ "write" \in Faults
          /\ UNCHANGED pidfile /\ Goto(p, "held")
    /\ UNCHANGED <<file, lock, next, val, whole, mine, listed, owner>>

(* register_tempfile for the pid file. *)
RegisterPidFile(p) ==
    /\ pc[p] = "pidopened"
    /\ listed' = [listed EXCEPT ![p] = @ \cup {"pid"}]
    /\ Goto(p, "held")
    /\ UNCHANGED <<disk, mine, owner>>

-----------------------------------------------------------------------------
(* Using the lock. *)

(* The holder reads the file and starts to write a new version of it. *)
StartWriting(p) ==
    /\ pc[p] = "held"
    /\ val' = [val EXCEPT ![mine[p]] = Append(val[file], p)]
    /\ Goto(p, "writing")
    /\ UNCHANGED <<file, lock, pidfile, next, whole, mine, listed, owner>>

(* The last write; it may fail (ENOSPC), which the stream remembers. *)
EndWriting(p) ==
    /\ pc[p] = "writing"
    /\ \/ whole' = [whole EXCEPT ![mine[p]] = TRUE]
       \/ "write" \in Faults /\ UNCHANGED whole
    /\ Goto(p, "ready")
    /\ UNCHANGED <<file, lock, pidfile, next, val, mine, listed, owner>>

(* delete_tempfile for the pid file, if this process registered one. *)
DeletePidFile(p) ==
    /\ pidfile' = IF "pid" \in listed[p] THEN NoProc ELSE pidfile
    /\ listed' = [listed EXCEPT ![p] = @ \ {"pid"}]

(* Mutant: commit_lock_file leaves the pid file for later. *)
CommitKeepsPidFile(p) ==
    /\ pc[p] = "ready"
    /\ Goto(p, "closing")
    /\ UNCHANGED <<disk, mine, listed, owner>>

(* commit_lock_file, first half. *)
Commit(p) ==
    /\ pc[p] = "ready"
    /\ DeletePidFile(p)
    /\ Goto(p, "closing")
    /\ UNCHANGED <<file, lock, next, val, whole, mine, owner>>

(* Mutant: the result of close_tempfile_gently is ignored. *)
CloseUnchecked(p) == TRUE

(* close_tempfile_gently: ferror() or fclose() tells of a failed write. *)
CloseOk(p) == whole[mine[p]]

(* rename_tempfile: close and rename, or delete the lock file. *)
Rename(p) ==
    /\ pc[p] = "closing"
    /\ \/ /\ CloseOk(p) /\ lock # 0
          /\ file' = lock /\ lock' = 0
          /\ Goto(p, "renamed")
       \/ /\ ~CloseOk(p) \/ lock = 0 \/ "rename" \in Faults
          /\ Goto(p, "rollback")
          /\ UNCHANGED <<file, lock>>
    /\ UNCHANGED <<pidfile, next, val, whole, mine, listed, owner>>

(* rollback_lock_file, at any time while the lock is held. *)
Rollback(p) ==
    /\ pc[p] \in {"held", "writing", "ready"}
    /\ DeletePidFile(p)
    /\ Goto(p, "rollback")
    /\ UNCHANGED <<file, lock, next, val, whole, mine, owner>>

(* delete_tempfile: unlink() whatever has the name. *)
Unlink(p) ==
    /\ pc[p] = "rollback"
    /\ lock' = 0
    /\ Goto(p, "unlinked")
    /\ UNCHANGED <<file, pidfile, next, val, whole, mine, listed, owner>>

(* deactivate_tempfile, after rename() or unlink(). *)
Deactivate(p) ==
    /\ pc[p] \in {"renamed", "unlinked"}
    /\ listed' = [listed EXCEPT ![p] = @ \ {"lock"}]
    /\ Goto(p, "idle")
    /\ UNCHANGED <<disk, mine, owner>>

-----------------------------------------------------------------------------
(* daemonize: the child goes on with the lock of its parent. *)

Fork(p, c) ==
    /\ pc[p] = "held" /\ pc[c] = "none"
    /\ pc' = [pc EXCEPT ![p] = "fork_parent", ![c] = "fork_child"]
    /\ mine' = [mine EXCEPT ![c] = mine[p]]
    /\ listed' = [listed EXCEPT ![c] = listed[p]]
    /\ owner' = [owner EXCEPT ![c] = owner[p]]
    /\ UNCHANGED disk

(* Mutant: the child does not take the list over. *)
ChildKeepsOwner(c) ==
    /\ pc[c] = "fork_child"
    /\ Goto(c, "held")
    /\ UNCHANGED <<disk, mine, listed, owner>>

(* Mutant: the result of fork() is recorded instead of getpid(). *)
ChildRecordsForkResult(c) ==
    /\ pc[c] = "fork_child"
    /\ owner' = [owner EXCEPT ![c] = 0]
    /\ Goto(c, "held")
    /\ UNCHANGED <<disk, mine, listed>>

(* reassign_tempfile_ownership in the child. *)
ChildReassign(c) ==
    /\ pc[c] = "fork_child"
    /\ owner' = [owner EXCEPT ![c] = c]
    /\ Goto(c, "held")
    /\ UNCHANGED <<disk, mine, listed>>

(* reassign_tempfile_ownership in the parent, and exit(0).  c stands for   *)
(* the result of fork(): the child has, and keeps, the inode of p.         *)
ParentReassign(p) ==
    /\ pc[p] = "fork_parent"
    /\ \E c \in Procs \ {p} :
          mine[c] = mine[p] /\ owner' = [owner EXCEPT ![p] = c]
    /\ Goto(p, "cleanup")
    /\ UNCHANGED <<disk, mine, listed>>

-----------------------------------------------------------------------------
(* The end of a process. *)

(* exit() or die(), with or without the lock: the atexit handler runs. *)
Exit(p) ==
    /\ pc[p] \in {"idle", "held", "writing", "ready"}
    /\ Goto(p, "cleanup")
    /\ UNCHANGED <<disk, mine, listed, owner>>

(* Where a signal finds the process.  Between a system call and the update *)
(* of the list, and in daemonize, the list does not say what is on disk    *)
(* ("window"); nor does it once the exit or signal handler has begun,      *)
(* which removes files but no entries ("handler").                         *)
SignalKind(p) ==
    CASE pc[p] \in {"opened", "pidopened", "renamed", "unlinked",
                    "fork_parent", "fork_child"}       -> "window"
      [] pc[p] \in {"cleanup", "cleanup_lock", "exiting"} -> "handler"
      [] OTHER                                            -> "signal"

(* A signal whose handler is remove_tempfiles_on_signal. *)
Signal(p) ==
    /\ pc[p] \notin {"none", "dead", "killed"}
    /\ SignalKind(p) \in Faults
    /\ Goto(p, "cleanup")
    /\ UNCHANGED <<disk, mine, listed, owner>>

(* SIGKILL or a crash: no handler runs. *)
Kill(p) ==
    /\ pc[p] \notin {"none", "dead", "killed"}
    /\ "kill" \in Faults
    /\ Goto(p, "killed")
    /\ UNCHANGED <<disk, mine, listed, owner>>

(* Mutant: a process removes the files of others as well. *)
RemovesAll(p) == TRUE

(* remove_tempfiles skips entries that belong to another process. *)
IsOwner(p) == owner[p] = p

(* remove_tempfiles goes through the list, newest entry first: the pid     *)
(* file was registered after the lock file.                                *)
RemovePidFile(p) ==
    /\ pc[p] = "cleanup"
    /\ pidfile' = IF "pid" \in listed[p] /\ IsOwner(p) THEN NoProc ELSE pidfile
    /\ Goto(p, "cleanup_lock")
    /\ UNCHANGED <<file, lock, next, val, whole, mine, listed, owner>>

(* Mutant: the exit handler leaves the lock file. *)
RemoveNothing(p) ==
    /\ pc[p] = "cleanup_lock"
    /\ Goto(p, "exiting")
    /\ UNCHANGED <<disk, mine, listed, owner>>

RemoveLockFile(p) ==
    /\ pc[p] = "cleanup_lock"
    /\ lock' = IF "lock" \in listed[p] /\ IsOwner(p) THEN 0 ELSE lock
    /\ Goto(p, "exiting")
    /\ UNCHANGED <<file, pidfile, next, val, whole, mine, listed, owner>>

(* The other exit handlers, and the end of the process. *)
Leave(p) ==
    /\ pc[p] = "exiting"
    /\ Goto(p, "dead")
    /\ UNCHANGED <<disk, mine, listed, owner>>

-----------------------------------------------------------------------------
(* The steps a process takes by itself once it has started to take a lock. *)
Step(p) ==
    \/ Activate(p) \/ CreatePidFile(p) \/ RegisterPidFile(p)
    \/ StartWriting(p) \/ EndWriting(p) \/ Commit(p) \/ Rename(p)
    \/ Unlink(p) \/ Deactivate(p)
    \/ ChildReassign(p) \/ ParentReassign(p)
    \/ RemovePidFile(p) \/ RemoveLockFile(p) \/ Leave(p)

Choice(p) ==
    \/ TryLock(p) \/ Rollback(p) \/ Exit(p) \/ Signal(p) \/ Kill(p)
    \/ \E c \in Children : Fork(p, c)

Terminated ==
    /\ \A p \in Procs : pc[p] \in {"none", "idle", "dead", "killed"}
    /\ UNCHANGED vars

Next == (\E p \in Procs : Step(p) \/ Choice(p)) \/ Terminated

(* A process that has begun to take the lock goes on. *)
Fairness == \A p \in Procs : WF_vars(Step(p))

Spec == Init /\ [][Next]_vars /\ Fairness

-----------------------------------------------------------------------------
(* Properties. *)

(* The processes that rely on the lock being theirs. *)
Holding(p) ==
    \/ pc[p] \in {"opened", "active", "pidopened", "held", "writing", "ready",
                  "closing", "rollback", "fork_child"}
    \/ pc[p] = "cleanup_lock" /\ "lock" \in listed[p] /\ owner[p] = p

(* At most one process holds the lock of a file, and the lock file on disk *)
(* is the one it created (or was handed over in daemonize).                *)
MutualExclusion ==
    \A p \in Procs : Holding(p) =>
        /\ lock = mine[p]
        /\ \A q \in Procs : Holding(q) => q = p

(* Readers, who take no lock, only ever see complete contents: a version   *)
(* whose writing failed is not committed.                                  *)
FileWhole == whole[file]

(* The file behaves like an atomic register (AtomicFile): each new version *)
(* is made from the current one, no update is lost, and a commit that      *)
(* succeeds has installed the version of the process that made it.         *)
Committed == {p \in Procs : pc[p] = "renamed"}
Register == INSTANCE AtomicFile
                WITH Writers <- Procs, content <- val[file], acked <- Committed
AtomicUpdates == Register!Spec

(* A lock file that nobody is going to remove is left only by a process    *)
(* that had no chance to run its handlers.                                 *)
NoStaleLock ==
    lock # 0 => \E p \in Procs : /\ mine[p] = lock
                                 /\ pc[p] \notin {"none", "idle", "exiting", "dead"}

(* Those that are going to rename or remove the lock file on disk. *)
Responsible(p) ==
    \/ Holding(p)
    \/ pc[p] = "cleanup" /\ "lock" \in listed[p] /\ owner[p] = p

(* p has daemonized, with q as its child, and is on its way out. *)
HandedOver(p, q) ==
    /\ q \in Children /\ mine[q] = mine[p]
    /\ pc[p] \in {"fork_parent", "cleanup", "cleanup_lock", "exiting", "dead", "killed"}

(* A pid file stands beside a lock file, and names the process that made   *)
(* it.  If any process is responsible for the lock it is that one, so that *)
(* "held by process N, which is no longer running" means a stale lock -    *)
(* with one exception: N may have handed the lock over to its child in     *)
(* daemonize, which does not rewrite the pid file.                         *)
PidFileNamesHolder ==
    pidfile # NoProc =>
        /\ lock # 0 /\ mine[pidfile] = lock
        /\ \A q \in Procs :
              Responsible(q) => q = pidfile \/ HandedOver(pidfile, q)

(* Every lock is released, unless a process was killed. *)
LockReleased ==
    \A i \in Inodes \ {0} :
        lock = i ~> (lock # i \/ \E p \in Procs : pc[p] = "killed")

(* The first promise of lockfile.h, "Mutual exclusion": two processes are  *)
(* never both in the middle of an update.                                  *)
OneWriter ==
    \A p, q \in Procs :
        pc[p] \in {"held", "writing", "ready"}
        /\ pc[q] \in {"held", "writing", "ready"} => p = q
=============================================================================
