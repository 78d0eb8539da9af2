---------------------------- MODULE ReftableStack ---------------------------
(***************************************************************************)
(* The reftable ref store: refs/reftable-backend.c over reftable/stack.c.  *)
(*                                                                         *)
(* The store is a stack of immutable table files.  tables.list names them, *)
(* oldest first; a record in a newer table hides those in older ones, and  *)
(* a deletion is a record too.  A transaction adds one table, under        *)
(* tables.list.lock.  Compaction merges neighbouring tables: it locks      *)
(* them one by one, gives up the list lock while it merges, and takes it   *)
(* again to put the new table in the place of the old ones.  Readers take  *)
(* no lock: they read the list and open the tables, which may be gone.     *)
(*                                                                         *)
(* One stack.  Log records take the same way as ref records and are left   *)
(* out; table names are unique (update indices and 32 random bits); file   *)
(* sizes, which choose what to compact, are arbitrary.                     *)
(***************************************************************************)
EXTENDS Integers, Sequences, FiniteSets, FiniteSetsExt

CONSTANTS
    Refs,          \* the refs
    Txns,          \* the transactions, each run once in a process of its own
    AutoCompacting,\* those without opts.disable_auto_compact
    Optimizers,    \* processes that run git pack-refs (reftable_be_optimize)
    AutoOptimizing,\* those that run it with --auto
    Readers,       \* processes that look up refs
    Bases,         \* the stacks at first: sequences of functions on Refs
    Plans,         \* what each transaction may ask for: sets of records
    Attempts,      \* reloads before the deadline counts (3 in the code)
    Faults,        \* which failures may happen, a subset of FaultKinds
    MaxFaults,     \* bound: how many failures happen
    Crowds,        \* bound: the sets of processes that may be active together
    None, Keep, Any, Absent, Free, NoTable

FaultKinds == {"kill", "io"}
Procs  == Txns \cup Optimizers
Users  == Procs \cup Readers
Vals   == Txns \cup Refs
Value0 == Vals \cup {None}
PlanType == [want : [Refs -> Vals \cup {None, Keep}], chk : SUBSET Refs,
             allow : BOOLEAN]
Content == [max : Nat, recs : [Refs -> Value0 \cup {Absent}]]

ASSUME KindsAssumption ==
    /\ Txns \cap Optimizers = {} /\ Procs \cap Readers = {}
    /\ Txns \cap Refs = {} /\ AutoCompacting \subseteq Txns
    /\ AutoOptimizing \subseteq Optimizers
    /\ None \notin Vals /\ Keep \notin Value0 /\ Any \notin Value0
    /\ Absent \notin Value0 /\ Free \notin Procs /\ NoTable \notin Content
ASSUME InputAssumption ==
    /\ \A b \in Bases : b \in Seq([Refs -> Value0 \cup {Absent}])
    /\ \A t \in Txns : Plans[t] \subseteq PlanType
    /\ Attempts \in Nat \ {0} /\ MaxFaults \in Nat /\ Faults \subseteq FaultKinds

(* Table names: who wrote the table.  A process adds and merges once.      *)
Tables ==
    ((UNION {DOMAIN b : b \in Bases}) \X {"base"})
      \cup (Txns \X {"add"}) \cup (Procs \X {"merge"})
Added(t)  == <<t, "add">>
Merged(p) == <<p, "merge">>

VARIABLES
    list,     \* tables.list
    files,    \* the table files in the directory
    data,     \* what was written to each: [max, recs], or NoTable
    llock,    \* who holds tables.list.lock
    tlock,    \* who holds <table>.lock
    tables,   \* st->tables of each process: open files, even if unlinked
    names,    \* the names a reload has read
    opened,   \* how many of them it has opened
    tries,    \* how often it has tried
    pc, ret,  \* where each process is, and where a reload returns to
    want, expect, allow,   \* the updates of a transaction
    refused,  \* the updates it has rejected
    committed,\* history: has it made its updates?
    first, last,  \* the range of st->tables a process compacts
    seen,     \* history: the states of the store since a read began
    faults    \* history: how many failures happened so far

disk    == <<list, files, data>>
locks   == <<llock, tlock>>
loading == <<names, opened, tries, ret>>
request == <<want, expect, allow>>
txn     == <<refused, committed>>
range   == <<first, last>>
vars == <<disk, locks, tables, loading, pc, request, txn, range, seen, faults>>

PCs == {"idle", "load", "open", "missing", "start", "check", "write", "commit",
        "auto", "lock", "locktables", "merge", "relock", "install", "replace",
        "unlink", "clean", "sweep", "undo", "end", "done", "failed", "crashed"}

(* Type invariant of the stack on disk and of the processes' handles.      *)
TypeOK ==
    /\ list \in Seq(Tables) /\ files \subseteq Tables
    /\ data \in [Tables -> Content \cup {NoTable}]
    /\ \A id \in files : data[id] # NoTable
    /\ llock \in Procs \cup {Free} /\ tlock \in [Tables -> Procs \cup {Free}]
    /\ tables \in [Users -> Seq(Tables)] /\ names \in [Users -> Seq(Tables)]
    /\ opened \in [Users -> Nat] /\ tries \in [Users -> 0..(Attempts + 1)]
    /\ \A p \in Users : opened[p] \in 0..Len(names[p])
    /\ pc \in [Users -> PCs] /\ ret \in [Users -> PCs]
    /\ want \in [Txns -> [Refs -> Value0 \cup {Keep}]]
    /\ expect \in [Txns -> [Refs -> Value0 \cup {Any}]]
    /\ allow \in [Txns -> BOOLEAN]
    /\ refused \in [Txns -> SUBSET Refs] /\ committed \in [Txns -> BOOLEAN]
    /\ first \in [Procs -> Nat] /\ last \in [Procs -> Nat]
    /\ seen \in [Readers -> SUBSET [Refs -> Value0]]
    /\ faults \in 0..MaxFaults

(* The newest record of a ref in a stack of tables.                        *)
Newest(ts, r) ==
    LET S == {i \in 1..Len(ts) : data[ts[i]].recs[r] # Absent}
    IN  IF S = {} THEN Absent ELSE data[ts[Max(S)]].recs[r]

(* The refs as reftable_merged_table shows them; deletions are suppressed. *)
View(ts) ==
    [r \in Refs |-> LET v == Newest(ts, r) IN IF v = Absent THEN None ELSE v]

(* Every handle is opened before anything happens.                         *)
Init ==
    /\ \E b \in Bases :
         /\ list = [i \in 1..Len(b) |-> <<i, "base">>]
         /\ data = [id \in Tables |->
              IF id[2] = "base" /\ id[1] <= Len(b)
              THEN [max |-> id[1], recs |-> b[id[1]]] ELSE NoTable]
    /\ files = Range(list)
    /\ llock = Free /\ tlock = [id \in Tables |-> Free]
    /\ tables = [p \in Users |-> list] /\ names = [p \in Users |-> <<>>]
    /\ opened = [p \in Users |-> 0] /\ tries = [p \in Users |-> 0]
    /\ pc = [p \in Users |-> "idle"] /\ ret = [p \in Users |-> "idle"]
    /\ want = [t \in Txns |-> [r \in Refs |-> Keep]]
    /\ expect = [t \in Txns |-> [r \in Refs |-> Any]]
    /\ allow = [t \in Txns |-> FALSE]
    /\ refused = [t \in Txns |-> {}] /\ committed = [t \in Txns |-> FALSE]
    /\ first = [p \in Procs |-> 0] /\ last = [p \in Procs |-> 0]
    /\ seen = [q \in Readers |-> {}]
    /\ faults = 0

Goto(p, l) == pc' = [pc EXCEPT ![p] = l]
Ended(p) == pc[p] \in {"idle", "done", "failed", "crashed"}

(* The process is gone, and its handle with it.  A command exits without   *)
(* reftable_stack_destroy (only repo_clear and a migration of the store    *)
(* call it), so stale tables are left to reftable_stack_clean (Sweep).     *)
Exit(p, l) ==
    /\ Goto(p, l)
    /\ tables' = [tables EXCEPT ![p] = <<>>]
    /\ names' = [names EXCEPT ![p] = <<>>] /\ opened' = [opened EXCEPT ![p] = 0]
    /\ tries' = [tries EXCEPT ![p] = 0] /\ ret' = [ret EXCEPT ![p] = "idle"]
    /\ first' = [first EXCEPT ![p] = 0] /\ last' = [last EXCEPT ![p] = 0]

(* Who may be at work while p is: see Crowds.                              *)
MayStart(p) ==
    pc[p] = "idle" /\ \E c \in Crowds : {u \in Users : pc[u] # "idle"} \cup {p} \subseteq c
Fault(kind) == kind \in Faults /\ faults < MaxFaults /\ faults' = faults + 1
NoFault == UNCHANGED faults

(* What the readers that are at work could have seen so far.               *)
Observe ==
    seen' = [q \in Readers |->
               IF Ended(q) /\ pc'[q] = pc[q] THEN seen[q]
               ELSE seen[q] \cup {View(list), View(list)'}]

-----------------------------------------------------------------------------
(* Reading the stack: reftable_stack_reload. *)

(* stack_uptodate: the same file, or one with the same names.              *)
Uptodate(p) == tables[p] = list

(* reftable_stack_reload_maybe_reuse, then go on at l.                     *)
Reload(p, l) ==
    /\ Goto(p, "load") /\ ret' = [ret EXCEPT ![p] = l]
    /\ tries' = [tries EXCEPT ![p] = 0]
    /\ UNCHANGED <<names, opened>>

ReloadIfStale(p, l) ==
    IF Uptodate(p) THEN Goto(p, l) /\ UNCHANGED loading ELSE Reload(p, l)

(* One more attempt: read the list.  After the first few the deadline may  *)
(* have passed: the reload then returns without an error and leaves the    *)
(* handle as it was.                                                       *)
Load(p) ==
    /\ pc[p] = "load"
    /\ \/ /\ tries' = [tries EXCEPT ![p] = IF @ < Attempts THEN @ + 1 ELSE @]
          /\ names' = [names EXCEPT ![p] = list]
          /\ opened' = [opened EXCEPT ![p] = 0]
          /\ Goto(p, "open")
       \/ /\ tries[p] = Attempts /\ tries' = [tries EXCEPT ![p] = @ + 1]
          /\ Goto(p, ret[p]) /\ UNCHANGED <<names, opened>>
    /\ UNCHANGED <<disk, locks, tables, ret, request, txn, range, faults>>

(* The positions of the names still to open; a table the handle has open   *)
(* already is reused.                                                      *)
ToOpen(p) == {i \in (opened[p] + 1)..Len(names[p]) :
                names[p][i] \notin Range(tables[p])}

OpenTable(p) ==
    /\ pc[p] = "open" /\ ToOpen(p) # {}
    /\ IF names[p][Min(ToOpen(p))] \in files
       THEN opened' = [opened EXCEPT ![p] = Min(ToOpen(p))] /\ UNCHANGED pc
       ELSE Goto(p, "missing") /\ UNCHANGED opened
    /\ UNCHANGED <<disk, locks, tables, names, tries, ret, request, txn, range, faults>>

(* Mutant: the tables that are reused are unlinked as well.                *)
ObsoleteAll(p) == Range(tables[p])

(* The old tables that the new list does not name.                         *)
Obsolete(p) == Range(tables[p]) \ Range(names[p])

(* All are open: the old tables are closed, "and proactively" unlinked.    *)
SwitchTables(p) ==
    /\ pc[p] = "open" /\ ToOpen(p) = {}
    /\ tables' = [tables EXCEPT ![p] = names[p]]
    /\ files' = files \ Obsolete(p)
    /\ names' = [names EXCEPT ![p] = <<>>] /\ opened' = [opened EXCEPT ![p] = 0]
    /\ Goto(p, ret[p])
    /\ UNCHANGED <<list, data, locks, tries, ret, request, txn, range, faults>>

(* Mutant: a stack of the tables that could be opened.                     *)
TableMissingIgnored(p) ==
    /\ pc[p] = "missing"
    /\ tables' = [tables EXCEPT ![p] = SubSeq(names[p], 1, opened[p])]
    /\ Goto(p, ret[p])
    /\ UNCHANGED <<disk, locks, loading, request, txn, range, faults>>

(* A table is gone: an error only if the list has not changed since.       *)
TableMissing(p) ==
    /\ pc[p] = "missing"
    /\ Goto(p, IF list # names[p] THEN "load"
               ELSE IF p \in Readers THEN "failed" ELSE "undo")
    /\ UNCHANGED <<disk, locks, tables, loading, request, txn, range, faults>>

-----------------------------------------------------------------------------
(* Transactions. *)

(* The caller has looked at the refs through its handle.                   *)
Begin(t) ==
    /\ MayStart(t)
    /\ \E plan \in Plans[t] :
         /\ want' = [want EXCEPT ![t] = plan.want]
         /\ expect' = [expect EXCEPT ![t] = [r \in Refs |->
              IF r \in plan.chk THEN View(tables[t])[r] ELSE Any]]
         /\ allow' = [allow EXCEPT ![t] = plan.allow]
    /\ Goto(t, "start")
    /\ UNCHANGED <<disk, locks, tables, loading, txn, range, faults>>

(* reftable_stack_init_addition with REFTABLE_STACK_NEW_ADDITION_RELOAD:   *)
(* the whole stack is locked, and brought up to date under the lock.       *)
LockStack(t) ==
    /\ pc[t] = "start" /\ llock = Free
    /\ llock' = t
    /\ ReloadIfStale(t, "check")
    /\ UNCHANGED <<disk, tlock, tables, request, txn, range, faults>>

(* Mutant: the wait for a lock has no timeout.                             *)
LockWait(p) == FALSE /\ UNCHANGED vars

(* A compaction that fails for a lock or an outdated handle is none of the *)
(* transaction's concern; git pack-refs reports it.                        *)
CompactFailed(p) == IF p \in Txns THEN "end" ELSE "undo"

(* "cannot lock references" *)
LockTimeout(p) ==
    /\ llock # Free
    /\ \/ pc[p] \in {"start", "clean"} /\ Goto(p, "undo")
       \/ pc[p] \in {"lock", "relock"} /\ Goto(p, CompactFailed(p))
    /\ UNCHANGED <<disk, locks, tables, loading, request, txn, range, faults>>

(* prepare_single_update: does the ref have the value that is required?    *)
OldMatches(t, r) == expect[t][r] \in {Any, View(tables[t])[r]}

(* A rejected update fails the transaction unless ALLOW_FAILURE is set.    *)
PrepareUpdates(t) ==
    /\ pc[t] = "check"
    /\ LET R == {r \in Refs : ~OldMatches(t, r)} IN
         IF R = {} \/ allow[t]
         THEN refused' = [refused EXCEPT ![t] = R] /\ Goto(t, "write")
         ELSE UNCHANGED refused /\ Goto(t, "undo")
    /\ UNCHANGED <<disk, locks, tables, loading, request, committed, range, faults>>

(* reftable_be_transaction_abort of a prepared transaction.                *)
Abort(t) ==
    /\ pc[t] = "write" /\ Goto(t, "undo")
    /\ UNCHANGED <<disk, locks, tables, loading, request, txn, range, faults>>

(* queue_transaction_update: a no-op update is not written.                *)
Queued(t) == {r \in Refs : /\ want[t][r] \notin {Keep, View(tables[t])[r]}
                           /\ r \notin refused[t]}

NextUpdateIndex(ts) == IF ts = <<>> THEN 1 ELSE data[ts[Len(ts)]].max + 1

(* reftable_addition_add: the table is written to a temporary file, which  *)
(* is renamed; without records there is no table, and nothing to commit.   *)
AddTable(t) ==
    /\ pc[t] = "write"
    /\ \/ /\ Queued(t) # {} /\ Goto(t, "commit") /\ NoFault
          /\ files' = files \cup {Added(t)}
          /\ data' = [data EXCEPT ![Added(t)] =
               [max  |-> NextUpdateIndex(tables[t]),
                recs |-> [r \in Refs |->
                            IF r \in Queued(t) THEN want[t][r] ELSE Absent]]]
          /\ UNCHANGED committed
       \/ /\ Queued(t) = {} /\ Goto(t, "end") /\ NoFault
          /\ committed' = [committed EXCEPT ![t] = TRUE]
          /\ UNCHANGED <<files, data>>
       \/ Fault("io") /\ Goto(t, "undo") /\ UNCHANGED <<files, data, committed>>
    /\ UNCHANGED <<list, locks, tables, loading, request, refused, range>>

(* reftable_addition_commit: the lock file becomes the list.               *)
CommitAddition(t) ==
    /\ pc[t] = "commit"
    /\ \/ /\ list' = Append(tables[t], Added(t))
          /\ llock' = Free
          /\ committed' = [committed EXCEPT ![t] = TRUE]
          /\ Reload(t, "auto") /\ NoFault
       \/ Fault("io") /\ Goto(t, "undo") /\ UNCHANGED <<list, llock, committed, loading>>
    /\ UNCHANGED <<files, data, tlock, tables, request, refused, range>>

-----------------------------------------------------------------------------
(* Compaction: stack_compact_range. *)

(* Compact tables i to j of the handle; fewer than two need none.          *)
Compact(p, i, j, l) ==
    IF i < j
    THEN /\ first' = [first EXCEPT ![p] = i] /\ last' = [last EXCEPT ![p] = j]
         /\ Goto(p, "lock")
    ELSE Goto(p, l) /\ UNCHANGED range

(* reftable_stack_auto_compact: some sizes make any range the one to       *)
(* compact, or none.                                                       *)
AutoCompact(t) ==
    /\ pc[t] = "auto"
    /\ \/ t \in AutoCompacting /\ \E i, j \in 1..Len(tables[t]) : Compact(t, i, j, "end")
       \/ Goto(t, "end") /\ UNCHANGED range
    /\ UNCHANGED <<disk, locks, tables, loading, request, txn, faults>>

(* reftable_be_optimize: all tables or, with --auto, any range.            *)
Optimize(p) ==
    /\ MayStart(p)
    /\ IF p \in AutoOptimizing
       THEN \E i, j \in {1} \cup 1..Len(tables[p]) : Compact(p, i, j, "clean")
       ELSE Compact(p, 1, Len(tables[p]), "clean")
    /\ UNCHANGED <<disk, locks, tables, loading, request, txn, faults>>

BestEffort(p) == p \in Txns \cup AutoOptimizing

(* An outdated handle cannot tell which tables are meant: give up.         *)
CompactLock(p) ==
    /\ pc[p] = "lock" /\ llock = Free
    /\ llock' = p
    /\ Goto(p, IF Uptodate(p) THEN "locktables" ELSE CompactFailed(p))
    /\ UNCHANGED <<disk, tlock, tables, loading, request, txn, range, faults>>

Locked(p) == {id \in Tables : tlock[id] = p}

(* The tables are locked from the last to the first, without waiting; if   *)
(* one is taken a best-effort compaction is content with two or more.      *)
(* Any other error ends the compaction.                                    *)
LockTable(p) ==
    LET i == last[p] - Cardinality(Locked(p))
        id == tables[p][i] IN
    /\ pc[p] = "locktables"
    /\ \/ NoFault /\
          CASE i < first[p] ->
                 Goto(p, "merge") /\ UNCHANGED <<tlock, first>>
            [] i >= first[p] /\ tlock[id] = Free ->
                 /\ tlock' = [tlock EXCEPT ![id] = p]
                 /\ UNCHANGED <<pc, first>>
            [] i >= first[p] /\ tlock[id] # Free /\ BestEffort(p) /\ last[p] - i >= 2 ->
                 /\ first' = [first EXCEPT ![p] = i + 1]
                 /\ Goto(p, "merge") /\ UNCHANGED tlock
            [] OTHER -> Goto(p, CompactFailed(p)) /\ UNCHANGED <<tlock, first>>
       \/ Fault("io") /\ Goto(p, "undo") /\ UNCHANGED <<tlock, first>>
    /\ UNCHANGED <<disk, llock, tables, loading, request, txn, last>>

(* The list lock is released while the tables are merged into a temporary  *)
(* file, which may fail.                                                   *)
MergeTables(p) ==
    /\ pc[p] = "merge"
    /\ llock' = Free
    /\ \/ Goto(p, "relock") /\ NoFault
       \/ Fault("io") /\ Goto(p, "undo")
    /\ UNCHANGED <<disk, tlock, tables, loading, request, txn, range>>

Merging(p) == SubSeq(tables[p], first[p], last[p])

(* Where the merged tables are in a list.                                  *)
Offsets(p, l) ==
    {k \in 0..(Len(l) - Len(Merging(p))) : SubSeq(l, k + 1, k + Len(Merging(p))) = Merging(p)}

(* The tables should still be there, as they are locked.                   *)
CompactRelock(p) ==
    /\ pc[p] = "relock" /\ llock = Free
    /\ llock' = p
    /\ Goto(p, IF Offsets(p, list) # {} THEN "install" ELSE CompactFailed(p))
    /\ UNCHANGED <<disk, tlock, tables, loading, request, txn, range, faults>>

(* Mutant: deletions are dropped wherever the range begins.                *)
CompactedDropping(p) ==
    [r \in Refs |-> LET m == Newest(Merging(p), r) IN IF m = None THEN Absent ELSE m]

(* stack_write_compact: a deletion is needed as long as there are older    *)
(* tables.                                                                 *)
Compacted(p) ==
    [r \in Refs |-> LET m == Newest(Merging(p), r) IN
                    IF first[p] = 1 /\ m = None THEN Absent ELSE m]

IsEmptyTable(p) == \A r \in Refs : Compacted(p)[r] = Absent

InstallTable(p) ==
    /\ pc[p] = "install"
    /\ \/ IsEmptyTable(p) /\ Goto(p, "replace") /\ NoFault /\ UNCHANGED <<files, data>>
       \/ /\ ~IsEmptyTable(p) /\ Goto(p, "replace") /\ NoFault
          /\ files' = files \cup {Merged(p)}
          /\ data' = [data EXCEPT ![Merged(p)] =
               [max |-> data[tables[p][last[p]]].max, recs |-> Compacted(p)]]
       \/ Fault("io") /\ Goto(p, "undo") /\ UNCHANGED <<files, data>>
    /\ UNCHANGED <<list, locks, tables, loading, request, txn, range>>

(* The list with the merged table, if any, in the place of the old ones.   *)
Replaced(p) ==
    LET k == Min(Offsets(p, list)) IN
    SubSeq(list, 1, k)
      \o (IF IsEmptyTable(p) THEN <<>> ELSE <<Merged(p)>>)
      \o SubSeq(list, k + Len(Merging(p)) + 1, Len(list))

ReplaceTables(p) ==
    /\ pc[p] = "replace"
    /\ \/ /\ list' = Replaced(p) /\ llock' = Free
          /\ Reload(p, "unlink") /\ NoFault /\ UNCHANGED files
       \/ /\ Fault("io") /\ Goto(p, "undo")
          /\ files' = files \ {Merged(p)}
          /\ UNCHANGED <<list, llock, loading>>
    /\ UNCHANGED <<data, tlock, tables, request, txn, range>>

(* Readers may still have the old tables open.                             *)
UnlinkTables(p) ==
    /\ pc[p] = "unlink" /\ Goto(p, "end")
    /\ files' = files \ Locked(p)
    /\ UNCHANGED <<list, data, locks, tables, loading, request, txn, range, faults>>

-----------------------------------------------------------------------------
(* The end of an operation, and stale tables. *)

(* reftable_addition_close removes a table that was not committed; then,   *)
(* as at the end of stack_compact_range, the list lock is released.        *)
ReleaseList(p) ==
    /\ pc[p] \in {"undo", "end"} /\ llock = p
    /\ llock' = Free
    /\ files' = IF p \in Txns /\ ~committed[p] THEN files \ {Added(p)} ELSE files
    /\ UNCHANGED <<list, data, tlock, tables, loading, pc, request, txn, range, faults>>

ReleaseTable(p, id) ==
    /\ pc[p] \in {"undo", "end"} /\ llock # p /\ tlock[id] = p
    /\ tlock' = [tlock EXCEPT ![id] = Free]
    /\ UNCHANGED <<disk, llock, tables, loading, pc, request, txn, range, faults>>

(* After the compaction git pack-refs cleans up, if it succeeded.          *)
Finish(p) ==
    /\ pc[p] \in {"undo", "end"} /\ llock # p /\ Locked(p) = {}
    /\ IF pc[p] = "end" /\ p \in Optimizers
       THEN Goto(p, "clean") /\ UNCHANGED <<tables, loading, range>>
       ELSE Exit(p, IF pc[p] = "end" THEN "done" ELSE "failed")
    /\ UNCHANGED <<disk, locks, request, txn, faults>>

(* reftable_stack_clean does not reload: an outdated handle is an error.   *)
CleanLock(p) ==
    /\ pc[p] = "clean" /\ llock = Free
    /\ llock' = p
    /\ Goto(p, IF Uptodate(p) THEN "sweep" ELSE "undo")
    /\ UNCHANGED <<disk, tlock, tables, loading, request, txn, range, faults>>

(* remove_maybe_stale_table: not listed, and not newer than the stack.     *)
Stale(p) ==
    {id \in files \ Range(tables[p]) :
        data[id].max <= Max({data[i].max : i \in Range(tables[p])} \cup {0})}

Sweep(p) ==
    /\ pc[p] = "sweep" /\ Stale(p) # {}
    /\ \E id \in Stale(p) : files' = files \ {id}
    /\ UNCHANGED <<list, data, locks, tables, loading, pc, request, txn, range, faults>>

CleanDone(p) ==
    /\ pc[p] = "sweep" /\ Stale(p) = {}
    /\ llock' = Free /\ Exit(p, "done")
    /\ UNCHANGED <<disk, tlock, request, txn, faults>>

-----------------------------------------------------------------------------
(* Readers: backend_for with reload. *)

Read(q) ==
    /\ MayStart(q) /\ ReloadIfStale(q, "done")
    /\ UNCHANGED <<disk, locks, tables, request, txn, range, faults>>

-----------------------------------------------------------------------------
(* Processes killed while they hold locks, and the user who removes them.  *)

Crash(p) ==
    /\ ~Ended(p) /\ Fault("kill") /\ Exit(p, "crashed")
    /\ UNCHANGED <<disk, locks, request, txn>>

RemoveListLock ==
    /\ llock \in Procs /\ pc[llock] = "crashed" /\ llock' = Free
    /\ UNCHANGED <<disk, tlock, tables, loading, pc, request, txn, range, faults>>

RemoveTableLock(id) ==
    /\ tlock[id] \in Procs /\ pc[tlock[id]] = "crashed"
    /\ tlock' = [tlock EXCEPT ![id] = Free]
    /\ UNCHANGED <<disk, llock, tables, loading, pc, request, txn, range, faults>>

-----------------------------------------------------------------------------
LoadStep(p) == Load(p) \/ OpenTable(p) \/ SwitchTables(p) \/ TableMissing(p)

TxnStep(t) ==
    LockStack(t) \/ PrepareUpdates(t) \/ AddTable(t) \/ CommitAddition(t) \/ AutoCompact(t)

CompactStep(p) ==
    \/ CompactLock(p) \/ LockTable(p) \/ MergeTables(p) \/ CompactRelock(p)
    \/ InstallTable(p) \/ ReplaceTables(p) \/ UnlinkTables(p)
    \/ LockTimeout(p) \/ ReleaseList(p) \/ Finish(p)
    \/ \E id \in Tables : ReleaseTable(p, id)

CleanStep(p) == CleanLock(p) \/ Sweep(p) \/ CleanDone(p)

ProcStep(p) ==
    \/ LoadStep(p) \/ CompactStep(p)
    \/ p \in Txns /\ TxnStep(p)
    \/ p \in Optimizers /\ CleanStep(p)

ReadStep(q) == Read(q) \/ LoadStep(q)

Step ==
    \/ \E p \in Procs : ProcStep(p) \/ Crash(p)
    \/ \E t \in Txns : Begin(t) \/ Abort(t)
    \/ \E p \in Optimizers : Optimize(p)
    \/ \E q \in Readers : ReadStep(q)
    \/ RemoveListLock
    \/ \E id \in Tables : RemoveTableLock(id)

Next == Step /\ Observe

(* As long as some process can go on, one does; nobody has to begin        *)
(* anything, nor to remove a lock.  (This is weaker than fairness to each  *)
(* process, which the scheduler gives.)                                    *)
Fairness == WF_vars((\E p \in Procs : ProcStep(p)) /\ Observe)

Spec == Init /\ [][Next]_vars /\ Fairness

-----------------------------------------------------------------------------
Outcome(t) == CASE pc[t] = "idle"   -> "none"
                [] pc[t] = "done"   -> "ok"
                [] pc[t] = "failed" -> "failed"
                [] OTHER            -> "open"

Store == INSTANCE RefStore WITH
    value   <- View(list),
    applied <- [t \in Txns |-> IF ~committed[t] THEN {}
                               ELSE {r \in Refs \ refused[t] : want[t][r] # Keep}],
    outcome <- [t \in Txns |-> Outcome(t)]

(* Seen through tables.list the store is the abstract one: a transaction   *)
(* changes all its refs in one step, from the values it was told to        *)
(* expect, and compaction, cleaning and faults change none.                *)
ImplementsRefStore == Store!Spec

(* The state is well-typed, every table that tables.list names is in the   *)
(* directory, once in the list, and newer tables have greater update       *)
(* indices.                                                                *)
ListSound ==
    /\ TypeOK
    /\ Range(list) \subseteq files
    /\ \A i, j \in 1..Len(list) : i < j => data[list[i]].max < data[list[j]].max

(* A lock-free read succeeds, and what it returns is the whole store as it *)
(* was at one moment of the read, unless the deadline passed.              *)
SnapshotReads ==
    \A q \in Readers :
        /\ pc[q] # "failed"
        /\ pc[q] = "done" => View(tables[q]) \in seen[q] \/ tries[q] > Attempts

(* Every operation that starts ends, though others hold the locks, died    *)
(* with them, or keep replacing the tables it wants to open.               *)
OperationsEnd == <>[](\A p \in Procs : Ended(p))
=============================================================================
