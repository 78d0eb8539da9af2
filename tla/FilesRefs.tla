------------------------------ MODULE FilesRefs -----------------------------
(***************************************************************************)
(* The "files" ref store: refs/files-backend.c over refs/packed-backend.c. *)
(*                                                                         *)
(* A ref's value is its loose file or, if it has none, its entry in        *)
(* packed-refs.  Transactions lock each ref ("<ref>.lock"), and            *)
(* packed-refs too when they delete; pack-refs copies loose values into    *)
(* packed-refs under that lock and only then, without it, removes the      *)
(* loose files one by one; readers take no lock at all.                    *)
(*                                                                         *)
(* Values are object names: transaction t brings the new object t, and ref *)
(* r first names the object r.  The wait for a lock is the subject of      *)
(* LockTimeout; here an attempt on a taken lock may fail at any time.      *)
(***************************************************************************)
EXTENDS Naturals, FiniteSets

CONSTANTS
    Refs,        \* the refs
    Txns,        \* the transactions; each is run once, by a process of its own
    Packers,     \* the processes that run pack-refs
    Readers,     \* the processes that resolve a ref
    Target,      \* the ref each of them resolves: [Readers -> Refs]
    Layouts,     \* where the refs may be at first: [Refs -> SUBSET {"loose", "packed"}]
    Plans,       \* what each transaction may ask for: sets of records of PlanType
    Attempts,    \* remaining_retries of a reader (3 in the code)
    OptimizeAuto, \* pack-refs --auto
    Reuse,       \* may a ref be given a value it had before?
    Faults,      \* which failures may happen, a subset of FaultKinds
    MaxFaults,   \* bound: how many failures happen, killed processes included
    None, Keep, Any, Free, NoFile

FaultKinds == {"kill", "reflog", "rename", "unlink", "packed"}
Ops   == {"skip", "verify", "set", "same", "copy", "delete"}
PlanType == [ops : [Refs -> Ops], chk : BOOLEAN, allow : BOOLEAN]
Vals  == Txns \cup Refs
Procs == Txns \cup Packers
Value0 == Vals \cup {None}

ASSUME KindsAssumption ==
    /\ Txns \cap Packers = {} /\ Txns \cap Readers = {} /\ Txns \cap Refs = {}
    /\ Packers \cap Readers = {}
    /\ None \notin Vals /\ Keep \notin Value0 /\ Any \notin Value0
    /\ Free \notin Procs /\ NoFile \notin [Refs -> Value0]
ASSUME InputAssumption ==
    /\ Layouts \subseteq [Refs -> SUBSET {"loose", "packed"}]
    /\ Plans \in [Txns -> SUBSET PlanType]
    /\ Target \in [Readers -> Refs]
ASSUME BoundsAssumption == Attempts \in Nat \ {0} /\ MaxFaults \in Nat
ASSUME ModesAssumption ==
    OptimizeAuto \in BOOLEAN /\ Reuse \in BOOLEAN /\ Faults \subseteq FaultKinds

VARIABLES
    loose,    \* the loose ref files
    packed,   \* the packed-refs file
    log,      \* the values a ref's reflog mentions; {} if there is no reflog
    reflock,  \* who holds <ref>.lock
    plock,    \* who holds packed-refs.lock
    pnew,     \* packed-refs.new as each process wrote it, or NoFile
    pc,       \* where each process is
    st,       \* how far a transaction or a packer is with each ref
    want,     \* update->new_oid, None to delete, Keep without REF_HAVE_NEW
    expect,   \* update->old_oid, Any without REF_HAVE_OLD
    allow,    \* REF_TRANSACTION_FLAG_ALLOW_FAILURE
    prev,     \* lock->old_oid: the value read under the lock
    isloose,  \* not REF_ISPACKED: was a loose file found under the lock?
    pack,     \* a packer's loose ref cache
    tries,    \* a reader's remaining_retries
    result,   \* what it found
    seen,     \* history: the values its ref had while it was reading
    asked,    \* history: the values each ref had or was to be given
    faults    \* history: how many failures happened so far

disk    == <<loose, packed, log>>
locks   == <<reflock, plock, pnew>>
request == <<want, expect, allow, asked>>
found   == <<prev, isloose>>
reader  == <<tries, result>>
vars == <<disk, locks, request, found, reader, pc, st, pack, seen, faults>>

Statuses == {"skip", "todo", "locked", "ready", "rejected", "logged",
             "unlogged", "unpacked", "listed", "read", "unlinked", "done", "late"}
TxnPCs  == {"idle", "lock", "pwrite", "prepared", "update", "unlink", "undo",
            "failed", "done", "crashed"}
PackPCs == {"idle", "count", "locked", "scan", "written", "committed",
            "prune", "done", "crashed"}
ReadPCs == {"idle", "stat", "open", "packed", "done"}

(* files_read_raw_ref: the loose file wins over packed-refs.               *)
Value(r) == IF loose[r] # None THEN loose[r] ELSE packed[r]

(* Type invariant of the ref store and of the processes that use it.       *)
TypeOK ==
    /\ loose \in [Refs -> Value0] /\ packed \in [Refs -> Value0]
    /\ log \in [Refs -> SUBSET Value0]
    /\ reflock \in [Refs -> Procs \cup {Free}] /\ plock \in Procs \cup {Free}
    /\ pnew \in [Procs -> [Refs -> Value0] \cup {NoFile}]
    /\ pc \in [Procs \cup Readers -> TxnPCs \cup PackPCs \cup ReadPCs]
    /\ \A t \in Txns : pc[t] \in TxnPCs
    /\ \A p \in Packers : pc[p] \in PackPCs
    /\ \A q \in Readers : pc[q] \in ReadPCs
    /\ st \in [Procs -> [Refs -> Statuses]]
    /\ want \in [Txns -> [Refs -> Value0 \cup {Keep}]]
    /\ expect \in [Txns -> [Refs -> Value0 \cup {Any}]]
    /\ allow \in [Txns -> BOOLEAN]
    /\ prev \in [Txns -> [Refs -> Value0]]
    /\ isloose \in [Txns -> [Refs -> BOOLEAN]]
    /\ pack \in [Packers -> [Refs -> Value0]]
    /\ tries \in [Readers -> 0..Attempts]
    /\ result \in [Readers -> Value0] /\ seen \in [Readers -> SUBSET Value0]
    /\ asked \in [Refs -> SUBSET Vals]
    /\ faults \in 0..MaxFaults

(* Each ref starts absent, loose, packed or both; the updates make the     *)
(* states in which packed-refs has an older value.                         *)
Init ==
    /\ \E l \in Layouts :
         /\ loose = [r \in Refs |-> IF "loose" \in l[r] THEN r ELSE None]
         /\ packed = [r \in Refs |-> IF "packed" \in l[r] THEN r ELSE None]
    /\ log = [r \in Refs |-> IF Value(r) = None THEN {} ELSE {r}]
    /\ reflock = [r \in Refs |-> Free] /\ plock = Free
    /\ pnew = [p \in Procs |-> NoFile]
    /\ pc = [p \in Procs \cup Readers |-> "idle"]
    /\ st = [p \in Procs |-> [r \in Refs |-> "skip"]]
    /\ want = [t \in Txns |-> [r \in Refs |-> Keep]]
    /\ expect = [t \in Txns |-> [r \in Refs |-> Any]]
    /\ allow = [t \in Txns |-> FALSE]
    /\ prev = [t \in Txns |-> [r \in Refs |-> None]]
    /\ isloose = [t \in Txns |-> [r \in Refs |-> FALSE]]
    /\ pack = [p \in Packers |-> [r \in Refs |-> None]]
    /\ tries = [q \in Readers |-> Attempts]
    /\ result = [q \in Readers |-> None] /\ seen = [q \in Readers |-> {}]
    /\ asked = [r \in Refs |-> {r}]
    /\ faults = 0

Goto(p, l)    == pc' = [pc EXCEPT ![p] = l]
Mark(p, r, s) == st' = [st EXCEPT ![p][r] = s]

(* Reading goes through three stages; seen records the values meanwhile.   *)
(* A deletion that has rewritten packed-refs but not yet removed the loose *)
(* file may be noticed early.                                              *)
Reading(q) == pc[q] \in {"stat", "open", "packed"}
Half(t, r)     == st[t][r] = "unpacked" /\ prev[t][r] = Value(r)
HalfDeleted(r) == \E t \in Txns : Half(t, r)
Appears(r) == {Value(r)} \cup (IF HalfDeleted(r) THEN {None} ELSE {})
Observe ==
    seen' = [q \in Readers |->
               IF Reading(q)
               THEN seen[q] \cup Appears(Target[q]) \cup Appears(Target[q])'
               ELSE IF pc'[q] = "idle" THEN {} ELSE seen[q]]

-----------------------------------------------------------------------------
(* Transactions: asking for updates. *)

Expected(op, r, chk) ==
    IF op \in {"verify", "same"} \/ (chk /\ op # "skip")
    THEN (IF op = "delete" /\ Value(r) = None THEN Any ELSE Value(r))
    ELSE Any

(* The values of the refs that a plan deletes.                             *)
Moved(plan) == {Value(r) : r \in {s \in Refs : plan[s] = "delete"}} \ {None}

(* The caller has read the refs and asks for: no change but a check        *)
(* ("verify"), its new object, the value it read, the value of a ref it    *)
(* deletes (a rename), or a deletion.                                      *)
Begin(t) ==
    /\ pc[t] = "idle"
    /\ \E req \in Plans[t] :
         LET plan == req.ops IN
         \E w \in [Refs -> Value0 \cup {Keep}] :
           /\ \A r \in Refs :
                CASE plan[r] \in {"skip", "verify"} -> w[r] = Keep
                  [] plan[r] = "set"    -> w[r] = t
                  [] plan[r] = "same"   -> w[r] = Value(r) /\ Value(r) # None
                  [] plan[r] = "copy"   -> w[r] \in Moved(plan)
                  [] plan[r] = "delete" -> w[r] = None
           /\ Reuse \/ \A r \in Refs : plan[r] \in {"set", "copy"}
                                         => w[r] \notin asked[r]
           /\ want' = [want EXCEPT ![t] = w]
           /\ expect' = [expect EXCEPT ![t] =
                           [r \in Refs |-> Expected(plan[r], r, req.chk)]]
           /\ asked' = [r \in Refs |-> asked[r] \cup ({w[r]} \cap Vals)]
           /\ allow' = [allow EXCEPT ![t] = req.allow]
           /\ st' = [st EXCEPT ![t] = [r \in Refs |->
                       IF plan[r] = "skip" THEN "skip" ELSE "todo"]]
    /\ Goto(t, "lock")
    /\ UNCHANGED <<disk, locks, found, reader, pack, faults>>

-----------------------------------------------------------------------------
(* Transactions: files_transaction_prepare. *)

(* A failure of the environment: killed, or a system call that fails.      *)
Fault(kind) ==
    kind \in Faults /\ faults < MaxFaults /\ faults' = faults + 1
NoFault == UNCHANGED faults

NoneAt(p, s)   == \A r \in Refs : st[p][r] # s
Deleting(t, r) == st[t][r] = "ready" /\ want[t][r] = None
Deletes(t)     == \E r \in Refs : Deleting(t, r)
Checked(t)     == pc[t] = "lock" /\ NoneAt(t, "todo") /\ NoneAt(t, "locked")

(* REF_TRANSACTION_PREPARED: packed-refs is locked only if a ref is        *)
(* deleted.                                                                *)
Prepared(t) == pc[t] = "prepared" \/ (Checked(t) /\ ~Deletes(t))

(* lock_raw_ref, first half: refs are locked one at a time in the order of *)
(* the updates, which is the caller's.                                     *)
LockRef(t, r) ==
    /\ pc[t] = "lock" /\ st[t][r] = "todo" /\ NoneAt(t, "locked")
    /\ reflock[r] = Free
    /\ reflock' = [reflock EXCEPT ![r] = t]
    /\ Mark(t, r, "locked")
    /\ UNCHANGED <<disk, plock, pnew, pc, request, found, reader, pack, faults>>

(* ref_transaction_maybe_set_rejected: with ALLOW_FAILURE only this update *)
(* fails, else the transaction does.                                       *)
Reject(t, r) ==
    IF allow[t] THEN Mark(t, r, "rejected") /\ UNCHANGED pc
                ELSE Goto(t, "undo") /\ UNCHANGED st

(* Mutant: the wait for a lock has no timeout.                             *)
LockRefWait(t, r) == FALSE /\ UNCHANGED vars

LockRefTimeout(t, r) ==
    /\ pc[t] = "lock" /\ st[t][r] = "todo" /\ NoneAt(t, "locked")
    /\ reflock[r] # Free
    /\ Reject(t, r)
    /\ UNCHANGED <<disk, locks, request, found, reader, pack, faults>>

(* Mutant: the old value given by the caller is not compared.              *)
CheckOldNever(t, r, v) == TRUE

(* check_old_oid *)
CheckOld(t, r, v) == expect[t][r] \in {Any, v}

(* lock_raw_ref, second half, and the rest of lock_ref_for_update: read    *)
(* the ref under the lock, check, and write the new value into the lock    *)
(* file.  Nothing is written for a ref that has the value already.  A ref  *)
(* that is missing but must exist is unlocked at once.                     *)
CheckRef(t, r) ==
    /\ pc[t] = "lock" /\ st[t][r] = "locked"
    /\ prev' = [prev EXCEPT ![t][r] = Value(r)]
    /\ isloose' = [isloose EXCEPT ![t][r] = loose[r] # None \/ packed[r] = None]
    /\ IF CheckOld(t, r, Value(r))
       THEN /\ Mark(t, r, IF want[t][r] = Keep
                             \/ (want[t][r] # None /\ want[t][r] = Value(r))
                          THEN "done" ELSE "ready")
            /\ UNCHANGED <<pc, reflock>>
       ELSE /\ Reject(t, r)
            /\ reflock' = IF Value(r) = None
                          THEN [reflock EXCEPT ![r] = Free] ELSE reflock
    /\ UNCHANGED <<disk, plock, pnew, request, reader, pack, faults>>

(* packed_refs_lock *)
LockPacked(t) ==
    /\ Checked(t) /\ Deletes(t)
    /\ \/ plock = Free /\ plock' = t /\ Goto(t, "pwrite")
       \/ plock # Free /\ UNCHANGED plock /\ Goto(t, "undo")
    /\ UNCHANGED <<disk, reflock, pnew, request, found, reader, st, pack, faults>>

(* Mutant: the packed versions are left alone when the ref is loose.       *)
PackedWithoutIgnoringLoose(t) ==
    [r \in Refs |-> IF Deleting(t, r) /\ ~isloose[t][r] THEN None ELSE packed[r]]

(* write_with_updates for a transaction that only deletes.                 *)
PackedWithout(t) ==
    [r \in Refs |-> IF Deleting(t, r) THEN None ELSE packed[r]]

(* is_packed_transaction_needed: if packed-refs has none of the refs it is *)
(* not rewritten, but stays locked.  packed-refs.new is one file, created  *)
(* with O_EXCL under packed-refs.lock, so that no two processes that run   *)
(* have one; pnew[t] is what t wrote.  The one a killed process leaves is  *)
(* removed along with its lock, or fails the next writer (Fault).          *)
WritePacked(t) ==
    /\ pc[t] = "pwrite"
    /\ \/ /\ pnew' = [pnew EXCEPT ![t] =
                        IF \E r \in Refs : Deleting(t, r) /\ packed[r] # None
                        THEN PackedWithout(t) ELSE NoFile]
          /\ Goto(t, "prepared") /\ NoFault
       \/ Fault("packed") /\ Goto(t, "undo") /\ UNCHANGED pnew
    /\ UNCHANGED <<disk, reflock, plock, request, found, reader, st, pack>>

(* ref_transaction_abort, asked for by the caller or by a hook.            *)
Abort(t) ==
    /\ Prepared(t) /\ Goto(t, "undo")
    /\ UNCHANGED <<disk, locks, request, found, reader, st, pack, faults>>

-----------------------------------------------------------------------------
(* Transactions: files_transaction_finish. *)

(* "Perform updates first so live commits remain referenced" *)
Finish(t) ==
    /\ Prepared(t) /\ Goto(t, "update")
    /\ UNCHANGED <<disk, locks, request, found, reader, st, pack, faults>>

Fails(t, kind) == Fault(kind) /\ Goto(t, "undo") /\ UNCHANGED st

(* parse_and_write_reflog: the entry names the old and the new value.      *)
WriteReflog(t, r) ==
    /\ pc[t] = "update" /\ st[t][r] = "ready" /\ want[t][r] # None
    /\ NoneAt(t, "logged")
    /\ \/ /\ log' = [log EXCEPT ![r] = @ \cup ({prev[t][r], want[t][r]} \ {None})]
          /\ Mark(t, r, "logged") /\ UNCHANGED pc /\ NoFault
       \/ Fails(t, "reflog") /\ UNCHANGED log
    /\ UNCHANGED <<loose, packed, locks, request, found, reader, pack>>

(* Mutant: the update is made without its reflog entry.                    *)
CommitRefUnlogged(t, r) ==
    /\ pc[t] = "update" /\ st[t][r] \in {"ready", "logged"} /\ want[t][r] # None
    /\ loose' = [loose EXCEPT ![r] = want[t][r]]
    /\ reflock' = [reflock EXCEPT ![r] = Free]
    /\ Mark(t, r, "done")
    /\ UNCHANGED <<packed, log, plock, pnew, request, found, reader, pc, pack, faults>>

(* commit_ref: <ref>.lock becomes <ref>, which also ends the lock.         *)
CommitRef(t, r) ==
    /\ pc[t] = "update" /\ st[t][r] = "logged"
    /\ \/ /\ loose' = [loose EXCEPT ![r] = want[t][r]]
          /\ reflock' = [reflock EXCEPT ![r] = Free]
          /\ Mark(t, r, "done") /\ UNCHANGED pc /\ NoFault
       \/ Fails(t, "rename") /\ UNCHANGED <<loose, reflock>>
    /\ UNCHANGED <<packed, log, plock, pnew, request, found, reader, pack>>

(* Mutant: the deletions do not wait for the updates.                      *)
UpdatesDoneEarly(t) == pc[t] = "update" /\ NoneAt(t, "logged")

(* "Now that updates are safely completed" *)
UpdatesDone(t) ==
    /\ pc[t] = "update" /\ NoneAt(t, "logged")
    /\ \A r \in Refs : st[t][r] = "ready" => want[t][r] = None

(* The reflogs of the deleted refs go first; failing to remove one is only *)
(* warned about.                                                           *)
DeleteReflog(t, r) ==
    /\ UpdatesDone(t) /\ Deleting(t, r)
    /\ \/ log' = [log EXCEPT ![r] = {}] /\ NoFault
       \/ Fault("unlink") /\ UNCHANGED log
    /\ Mark(t, r, "unlogged")
    /\ UNCHANGED <<loose, packed, locks, request, found, reader, pc, pack>>

(* The packed versions of the deleted refs, all in one rename.             *)
CommitPacked(t) ==
    /\ UpdatesDone(t) /\ ~Deletes(t)
    /\ \/ /\ packed' = IF pnew[t] # NoFile THEN pnew[t] ELSE packed
          /\ st' = [st EXCEPT ![t] = [r \in Refs |->
                      IF st[t][r] # "unlogged" THEN st[t][r]
                      ELSE IF isloose[t][r] THEN "unpacked" ELSE "done"]]
          /\ Goto(t, "unlink") /\ NoFault
       \/ pnew[t] # NoFile /\ Fails(t, "rename") /\ UNCHANGED packed
    /\ pnew' = [pnew EXCEPT ![t] = NoFile]
    /\ UNCHANGED <<loose, log, reflock, plock, request, found, reader, pack>>

(* unlink_or_msg of the loose file, which need not exist.                  *)
UnlinkLoose(t, r) ==
    /\ pc[t] = "unlink" /\ st[t][r] = "unpacked"
    /\ \/ /\ loose' = [loose EXCEPT ![r] = None]
          /\ Mark(t, r, "done") /\ UNCHANGED pc /\ NoFault
       \/ Fails(t, "unlink") /\ UNCHANGED loose
    /\ UNCHANGED <<packed, log, locks, request, found, reader, pack>>

Cleanup(t) == pc[t] = "undo" \/ (pc[t] = "unlink" /\ NoneAt(t, "unpacked"))

(* files_transaction_cleanup: the ref locks first, then packed-refs.       *)
ReleaseRef(t, r) ==
    /\ Cleanup(t) /\ reflock[r] = t
    /\ reflock' = [reflock EXCEPT ![r] = Free]
    /\ UNCHANGED <<disk, plock, pnew, request, found, reader, pc, st, pack, faults>>

ReleaseAll(t) ==
    /\ Cleanup(t) /\ \A r \in Refs : reflock[r] # t
    /\ pnew' = [pnew EXCEPT ![t] = NoFile]
    /\ plock' = IF plock = t THEN Free ELSE plock
    /\ Goto(t, IF pc[t] = "undo" THEN "failed" ELSE "done")
    /\ UNCHANGED <<disk, reflock, request, found, reader, st, pack, faults>>

-----------------------------------------------------------------------------
(* pack-refs: files_optimize. *)

AllRead(p) == NoneAt(p, "listed")

(* With --auto should_pack_refs has filled the loose ref cache already,    *)
(* before packed-refs is locked, and the cache is used again after it.     *)
PackLock(p) ==
    /\ pc[p] = (IF OptimizeAuto THEN "count" ELSE "idle") /\ AllRead(p)
    /\ plock = Free /\ plock' = p
    /\ Goto(p, IF OptimizeAuto THEN "scan" ELSE "locked")
    /\ UNCHANGED <<disk, reflock, pnew, request, found, reader, st, pack, faults>>

(* LOCK_DIE_ON_ERROR; with --auto also when there are too few loose refs.  *)
PackGiveUp(p) ==
    /\ pc[p] = (IF OptimizeAuto THEN "count" ELSE "idle") /\ AllRead(p)
    /\ plock # Free \/ OptimizeAuto
    /\ Goto(p, "done")
    /\ UNCHANGED <<disk, locks, request, found, reader, st, pack, faults>>

(* loose_fill_ref_dir: readdir, then each entry is resolved.               *)
PackList(p) ==
    /\ pc[p] = (IF OptimizeAuto THEN "idle" ELSE "locked")
    /\ st' = [st EXCEPT ![p] =
                [r \in Refs |-> IF loose[r] # None THEN "listed" ELSE "done"]]
    /\ Goto(p, IF OptimizeAuto THEN "count" ELSE "scan")
    /\ UNCHANGED <<disk, locks, request, found, reader, pack, faults>>

(* A ref that is gone by now is broken: neither packed nor pruned.         *)
PackRead(p, r) ==
    /\ pc[p] \in {"count", "scan"} /\ st[p][r] = "listed"
    /\ pack' = [pack EXCEPT ![p][r] = Value(r)]
    /\ Mark(p, r, IF Value(r) = None THEN "done" ELSE "read")
    /\ UNCHANGED <<disk, locks, request, found, reader, pc, faults>>

(* write_with_updates for a transaction that only sets values.             *)
PackedWith(p) ==
    [r \in Refs |-> IF st[p][r] = "read" THEN pack[p][r] ELSE packed[r]]

(* A failure to write dies, and dying releases the lock.                   *)
PackWrite(p) ==
    /\ pc[p] = "scan" /\ AllRead(p)
    /\ \/ /\ pnew' = [pnew EXCEPT ![p] = PackedWith(p)]
          /\ Goto(p, "written") /\ UNCHANGED plock /\ NoFault
       \/ Fault("packed") /\ Goto(p, "done") /\ plock' = Free /\ UNCHANGED pnew
    /\ UNCHANGED <<disk, reflock, request, found, reader, st, pack>>

(* The rename of packed-refs.new; a failure dies and releases the lock.    *)
PackCommit(p) ==
    /\ pc[p] = "written"
    /\ \/ packed' = pnew[p] /\ Goto(p, "committed") /\ UNCHANGED plock /\ NoFault
       \/ Fault("rename") /\ Goto(p, "done") /\ plock' = Free /\ UNCHANGED packed
    /\ pnew' = [pnew EXCEPT ![p] = NoFile]
    /\ UNCHANGED <<loose, log, reflock, request, found, reader, st, pack>>

(* packed_refs_unlock; without REFS_OPTIMIZE_PRUNE nothing is left to do.  *)
PackUnlock(p) ==
    /\ pc[p] = "committed" /\ plock' = Free /\ Goto(p, "prune")
    /\ \/ UNCHANGED st
       \/ st' = [st EXCEPT ![p] = [r \in Refs |-> "done"]]
    /\ UNCHANGED <<disk, reflock, pnew, request, found, reader, pack, faults>>

(* prune_ref: a transaction of one deletion with REF_IS_PRUNING, whose     *)
(* failure is reported and skips the ref.                                  *)
PruneLock(p, r) ==
    /\ pc[p] = "prune" /\ st[p][r] = "read"
    /\ NoneAt(p, "locked") /\ NoneAt(p, "ready") /\ NoneAt(p, "unlinked")
    /\ IF reflock[r] = Free
       THEN reflock' = [reflock EXCEPT ![r] = p] /\ Mark(p, r, "locked")
       ELSE UNCHANGED reflock /\ Mark(p, r, "done")
    /\ UNCHANGED <<disk, plock, pnew, request, found, reader, pc, pack, faults>>

(* REF_HAVE_OLD and not REF_ISPACKED *)
PruneMatches(p, r) == loose[r] # None /\ loose[r] = pack[p][r]

PruneCheck(p, r) ==
    /\ pc[p] = "prune" /\ st[p][r] = "locked"
    /\ Mark(p, r, IF PruneMatches(p, r) THEN "ready" ELSE "unlinked")
    /\ UNCHANGED <<disk, locks, request, found, reader, pc, pack, faults>>

(* If a deletion of the ref stopped half-way, having removed the packed    *)
(* version only, this completes it, late: "late" in st records that.       *)
PruneUnlink(p, r) ==
    /\ pc[p] = "prune" /\ st[p][r] = "ready"
    /\ \/ /\ loose' = [loose EXCEPT ![r] = None]
          /\ IF packed[r] = None /\ HalfDeleted(r)
             THEN \E t \in Txns : /\ Half(t, r)
                                  /\ st' = [st EXCEPT ![p][r] = "unlinked", ![t][r] = "late"]
             ELSE Mark(p, r, "unlinked")
          /\ NoFault
       \/ Fault("unlink") /\ UNCHANGED loose /\ Mark(p, r, "unlinked")
    /\ UNCHANGED <<packed, log, locks, request, found, reader, pc, pack>>

PruneUnlock(p, r) ==
    /\ pc[p] = "prune" /\ st[p][r] = "unlinked"
    /\ reflock' = [reflock EXCEPT ![r] = Free]
    /\ Mark(p, r, "done")
    /\ UNCHANGED <<disk, plock, pnew, request, found, reader, pc, pack, faults>>

PackDone(p) ==
    /\ pc[p] = "prune" /\ \A r \in Refs : st[p][r] = "done"
    /\ Goto(p, "done")
    /\ st' = [st EXCEPT ![p] = [r \in Refs |-> "skip"]]
    /\ pack' = [pack EXCEPT ![p] = [r \in Refs |-> None]]
    /\ UNCHANGED <<disk, locks, request, found, reader, faults>>

-----------------------------------------------------------------------------
(* Readers: read_ref_internal. *)

(* stat_ref: one attempt less; lstat() decides between the two files.      *)
ReadStat(q) ==
    /\ pc[q] \in {"idle", "stat"}
    /\ tries' = [tries EXCEPT ![q] = @ - 1]
    /\ Goto(q, IF loose[Target[q]] # None THEN "open" ELSE "packed")
    /\ UNCHANGED <<disk, locks, request, found, result, st, pack, faults>>

(* Mutant: a loose file that vanished is reported as a missing ref.        *)
ReadOpenOnce(q) ==
    /\ pc[q] = "open"
    /\ Goto(q, "done") /\ result' = [result EXCEPT ![q] = loose[Target[q]]]
    /\ UNCHANGED <<disk, locks, request, found, tries, st, pack, faults>>

(* The file may be gone since: try again, or give up with ENOENT.          *)
ReadOpen(q) ==
    /\ pc[q] = "open"
    /\ \/ /\ loose[Target[q]] # None \/ tries[q] = 0
          /\ Goto(q, "done") /\ result' = [result EXCEPT ![q] = loose[Target[q]]]
       \/ /\ loose[Target[q]] = None /\ tries[q] > 0
          /\ Goto(q, "stat") /\ UNCHANGED result
    /\ UNCHANGED <<disk, locks, request, found, tries, st, pack, faults>>

ReadPacked(q) ==
    /\ pc[q] = "packed" /\ Goto(q, "done")
    /\ result' = [result EXCEPT ![q] = packed[Target[q]]]
    /\ UNCHANGED <<disk, locks, request, found, tries, st, pack, faults>>

(* Another read.                                                           *)
ReadAgain(q) ==
    /\ pc[q] = "done" /\ Goto(q, "idle")
    /\ tries' = [tries EXCEPT ![q] = Attempts]
    /\ result' = [result EXCEPT ![q] = None]
    /\ UNCHANGED <<disk, locks, request, found, st, pack, faults>>

-----------------------------------------------------------------------------
(* Processes killed while they hold locks, and the user who removes them.  *)

Crash(p) ==
    /\ pc[p] \notin {"idle", "done", "failed", "crashed"}
    /\ Fault("kill") /\ Goto(p, "crashed")
    /\ UNCHANGED <<disk, locks, request, found, reader, st, pack>>

RemoveRefLock(r) ==
    /\ reflock[r] \in Procs /\ pc[reflock[r]] = "crashed"
    /\ reflock' = [reflock EXCEPT ![r] = Free]
    /\ UNCHANGED <<disk, plock, pnew, request, found, reader, pc, st, pack, faults>>

RemovePackedLock ==
    /\ plock \in Procs /\ pc[plock] = "crashed"
    /\ plock' = Free
    /\ UNCHANGED <<disk, reflock, pnew, request, found, reader, pc, st, pack, faults>>

-----------------------------------------------------------------------------
TxnStep(t) ==
    \/ LockPacked(t) \/ WritePacked(t) \/ Finish(t)
    \/ CommitPacked(t) \/ ReleaseAll(t)
    \/ \E r \in Refs :
         \/ LockRef(t, r) \/ LockRefTimeout(t, r) \/ CheckRef(t, r)
         \/ WriteReflog(t, r) \/ CommitRef(t, r) \/ DeleteReflog(t, r)
         \/ UnlinkLoose(t, r) \/ ReleaseRef(t, r)

PackStep(p) ==
    \/ PackLock(p) \/ PackGiveUp(p) \/ PackList(p) \/ PackWrite(p)
    \/ PackCommit(p) \/ PackUnlock(p) \/ PackDone(p)
    \/ \E r \in Refs : \/ PackRead(p, r) \/ PruneLock(p, r) \/ PruneCheck(p, r)
                       \/ PruneUnlink(p, r) \/ PruneUnlock(p, r)

ReadStep(q) == ReadStat(q) \/ ReadOpen(q) \/ ReadPacked(q) \/ ReadAgain(q)

Step ==
    \/ \E t \in Txns : Begin(t) \/ TxnStep(t) \/ Abort(t)
    \/ \E p \in Packers : PackStep(p)
    \/ \E q \in Readers : ReadStep(q)
    \/ \E p \in Procs : Crash(p)
    \/ \E r \in Refs : RemoveRefLock(r)
    \/ RemovePackedLock

Next == Step /\ Observe

(* As long as some process can go on, one does; nobody has to begin        *)
(* anything, nor to remove a lock.  (This is weaker than fairness to each  *)
(* process, which the scheduler gives.)                                    *)
Running ==
    \/ \E t \in Txns : TxnStep(t)
    \/ \E p \in Packers : pc[p] # "idle" /\ PackStep(p)

Fairness == WF_vars(Running /\ Observe)

Spec == Init /\ [][Next]_vars /\ Fairness

-----------------------------------------------------------------------------
Outcome(t) == CASE pc[t] = "idle"   -> "none"
                [] pc[t] = "done"   -> "ok"
                [] pc[t] = "failed" -> "failed"
                [] OTHER            -> "open"

Store == INSTANCE RefStore WITH
    value   <- [r \in Refs |-> Value(r)],
    refused <- [t \in Txns |-> {r \in Refs : st[t][r] = "rejected"}],
    applied <- [t \in Txns |-> {r \in Refs :
                  st[t][r] \in {"done", "late"} /\ want[t][r] # Keep}],
    outcome <- [t \in Txns |-> Outcome(t)]

(* Seen through files_read_raw_ref the store is the abstract one, unless a *)
(* ref returns to a value it had (Reuse) or --auto is given: packing,      *)
(* pruning, faults and removed locks never change a value, a transaction   *)
(* changes a ref once, from the value it was told to expect, and success   *)
(* means that all of it is done.                                           *)
ImplementsRefStore == Store!Spec

(* A lock-free read returns a value that its ref had during the read; it   *)
(* reports a ref as missing that existed all the time only if it lost the  *)
(* race in each of its attempts.                                           *)
ReadsCurrent ==
    \A q \in Readers : pc[q] = "done" =>
        result[q] \in seen[q] \/ (result[q] = None /\ tries[q] = 0)

(* The state is well-typed, and a reflog that exists mentions the current  *)
(* value: updates are logged before they are visible, and a reflog is      *)
(* removed before its ref.                                                 *)
ReflogNamesValue ==
    TypeOK /\ \A r \in Refs : log[r] # {} /\ Value(r) # None => Value(r) \in log[r]

(* "leave it locked, so that somebody else doesn't pack a reference that   *)
(* we are trying to delete": a ref that was deleted stays deleted unless   *)
(* another transaction gives it a value.                                   *)
DeletedStaysDeleted ==
    \A t \in Txns, r \in Refs :
        /\ st[t][r] = "done" /\ want[t][r] = None
        /\ \A u \in Txns : want[u][r] \notin Vals
        => Value(r) = None

Referenced(v) == \E r \in Refs : Value(r) = v

(* "Perform updates first so live commits remain referenced": a step that  *)
(* removes the last ref to an object belongs to a transaction that has     *)
(* made all of its own updates.                                            *)
LiveCommitsReferenced ==
    [][\A v \in Vals : Referenced(v) /\ ~Referenced(v)' =>
         \E t \in Txns, r \in Refs :
            /\ st[t][r] # st'[t][r] /\ st'[t][r] \in {"done", "late"}
            /\ Value(r) = v
            /\ \A s \in Refs : want[t][s] = v => st[t][s] \in {"done", "rejected"}
      ]_vars

(* Every transaction and every pack-refs that starts ends, though others   *)
(* take the same locks in the opposite order or died with them.            *)
TransactionsEnd ==
    <>[](\A p \in Procs : pc[p] \in {"idle", "done", "failed", "crashed"})
=============================================================================
