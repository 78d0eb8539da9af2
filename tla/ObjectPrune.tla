----------------------------- MODULE ObjectPrune ----------------------------
(***************************************************************************)
(* Loose objects: writers that add objects and then a ref that needs them  *)
(* (object-file.c, odb/source-loose.c), against git prune --expire         *)
(* (builtin/prune.c, reachable.c), which takes no lock.                    *)
(*                                                                         *)
(* A writer that finds an object freshens its mtime instead of writing it  *)
(* again.  prune reads the refs, then the reflogs, one by one, marks what  *)
(* they reach, adds what recent objects reach, and then looks at every     *)
(* loose file: one that is neither marked nor recent is removed.           *)
(*                                                                         *)
(* HEAD, the index and the files of a rebase are roots like refs.  Packs   *)
(* are left out: objects in them are not pruned.                           *)
(***************************************************************************)
EXTENDS Naturals, FiniteSets, Sequences

CONSTANTS
    Objects,   \* object names
    Links,     \* what each object names: [Objects -> SUBSET Objects]
    Refs,
    Mtime0,    \* the loose files at first: [Objects -> Stamps]
    Ref0,      \* the refs at first: [Refs -> Objects \cup {None}]
    Writers,   \* processes that write objects and then a ref
    Writes,    \* the objects each of them writes, in its order
    Dest,      \* the ref it then sets to the last of them
    Movers,    \* processes that move a ref in one transaction
    From, To,  \* the refs each of them moves from and to
    Pruner,    \* the process that runs git prune
    AutoLog,   \* the refs that get a reflog by themselves
    Log0,      \* the reflogs at first: [Refs -> SUBSET Objects]
    MaxFaults, \* bound: how often utime() fails
    None

Stamps == {"none", "old", "new"}  \* no file; mtime <= expire; mtime > expire
Procs  == Writers \cup Movers

ASSUME GraphAssumption ==
    /\ IsFiniteSet(Objects) /\ None \notin Objects
    /\ Links \in [Objects -> SUBSET Objects]
    /\ Mtime0 \in [Objects -> Stamps] /\ Ref0 \in [Refs -> Objects \cup {None}]
ASSUME ProcAssumption ==
    /\ Writers \cap Movers = {} /\ Pruner \notin Procs /\ None \notin Procs
    /\ \A w \in Writers : Writes[w] \in Seq(Objects) /\ Writes[w] # <<>>
    /\ Dest \in [Writers -> Refs] /\ From \in [Movers -> Refs] /\ To \in [Movers -> Refs]
    /\ \A m \in Movers : From[m] # To[m]
    /\ AutoLog \subseteq Refs /\ Log0 \in [Refs -> SUBSET Objects] /\ MaxFaults \in Nat

VARIABLES
    mtime,   \* the loose object files
    ref,     \* the refs
    log,     \* the objects that each ref's reflog mentions
    reflock, \* who holds <ref>.lock
    pc,      \* where each process is
    base,    \* the value a writer or mover expects its ref to have
    next,    \* how many objects a writer has written
    todo,    \* the refs, or the objects, that prune has still to look at
    pending, \* revs->pending: the roots found so far
    marked,  \* the objects with SEEN
    doomed,  \* the object prune has found old, and is about to remove
    live,    \* history: the objects that refs reached all the time since prune began
    moved,   \* history: the objects that movers have moved since then
    astray,  \* history: the objects given to a ref where prune may miss them
    recent,  \* history: those that recent objects reached when it began
    stale,   \* history: objects a writer took for safe that were doomed, or not freshened
    faults   \* history: how often utime() failed

objects == <<mtime, stale, faults>>
refs    == <<ref, log, reflock>>
prune   == <<todo, pending, marked, doomed, recent>>
history == <<live, moved, astray>>
vars == <<objects, refs, pc, base, next, prune, history>>

WritePCs == {"idle", "freshen", "create", "update", "lock", "log", "set",
             "done", "failed"}
MovePCs  == {"idle", "log", "set", "unlog", "delete", "done", "failed"}
PrunePCs == {"idle", "refs", "logs", "walk", "scan", "prune", "died"}

(* Type invariant of the object store, the refs and the processes.         *)
TypeOK ==
    /\ mtime \in [Objects -> Stamps] /\ ref \in [Refs -> Objects \cup {None}]
    /\ log \in [Refs -> SUBSET Objects] /\ reflock \in [Refs -> Procs \cup {None}]
    /\ \A w \in Writers : pc[w] \in WritePCs /\ next[w] \in 0..Len(Writes[w])
    /\ \A m \in Movers : pc[m] \in MovePCs
    /\ pc[Pruner] \in PrunePCs
    /\ base \in [Procs -> Objects \cup {None}]
    /\ todo \subseteq Refs \cup Objects /\ pending \subseteq Objects
    /\ marked \subseteq Objects /\ doomed \in Objects \cup {None}
    /\ live \subseteq Objects /\ recent \subseteq Objects /\ stale \subseteq Objects
    /\ moved \subseteq Objects /\ astray \subseteq Objects
    /\ faults \in 0..MaxFaults

Present == {o \in Objects : mtime[o] # "none"}
Roots   == {ref[r] : r \in Refs} \ {None}

(* traverse_commit_list: what S reaches through the objects of P, which    *)
(* can be read: the least set with S and with what its members in P name.  *)
Closed(C, P)  == \A o \in C \cap P : Links[o] \subseteq C
Closure(S, P) ==
    {o \in Objects : \A C \in SUBSET Objects : S \subseteq C /\ Closed(C, P) => o \in C}

Init ==
    /\ mtime = Mtime0 /\ ref = Ref0
    /\ log = Log0
    /\ reflock = [r \in Refs |-> None]
    /\ pc = [p \in Procs \cup {Pruner} |-> "idle"]
    /\ base = [p \in Procs |-> None] /\ next = [w \in Writers |-> 0]
    /\ todo = {} /\ pending = {} /\ marked = {} /\ doomed = None
    /\ live = {} /\ moved = {} /\ astray = {} /\ recent = {} /\ stale = {}
    /\ faults = 0

Goto(p, l) == pc' = [pc EXCEPT ![p] = l]

(* What the refs name, directly or through objects that exist.             *)
Reached == Closure(Roots, Present)

Tip(w) == Writes[w][Len(Writes[w])]

(* The processes that give a ref a value in this step, and the value.      *)
Setting  == {p \in Procs : pc[p] = "set" /\ pc'[p] # "set"}
Given(p) == IF p \in Writers THEN Tip(p) ELSE base[p]

(* An old object that a ref gets behind prune's back is found in the ref's *)
(* reflog: but the ref may have none, and if the object is moved on to yet *)
(* another ref the reflog is deleted, perhaps before prune gets to it.     *)
(* A writer's object is recent, and found as such, if utime() worked.      *)
Lost == {p \in Setting :
           /\ pc[Pruner] \in {"refs", "logs"} /\ mtime[Given(p)] = "old"
           /\ p \in Movers => Given(p) \notin log[To[p]] \/ Given(p) \in moved}

Observe ==
    /\ live' = IF pc'[Pruner] = "idle" THEN {}
               ELSE IF pc[Pruner] = "idle" THEN Present \cap Reached
               ELSE live \cap Reached'
    /\ moved' = IF pc'[Pruner] = "idle" THEN {}
                ELSE moved \cup {Given(p) : p \in Setting \cap Movers}
    /\ astray' = astray \cup {Given(p) : p \in Lost}

-----------------------------------------------------------------------------
(* Writers. *)

RootsOf(r) == {ref[r]} \ {None}
Written(w) == {Writes[w][i] : i \in 1..Len(Writes[w])}

(* The writer has read its ref, and builds on that: what its objects name, *)
(* it writes too or has from there.                                        *)
Start(w) ==
    /\ pc[w] = "idle" /\ Goto(w, "freshen")
    /\ Closure({Tip(w)}, Objects) \subseteq
          Written(w) \cup Closure(RootsOf(Dest[w]), Objects)
    /\ base' = [base EXCEPT ![w] = ref[Dest[w]]]
    /\ UNCHANGED <<objects, refs, next, prune>>

Current(w) == Writes[w][next[w] + 1]

(* The object is there, as far as the writer can tell: the next one.       *)
Proceed(w) ==
    /\ next' = [next EXCEPT ![w] = @ + 1]
    /\ Goto(w, IF next[w] + 1 = Len(Writes[w]) THEN "update" ELSE "freshen")

Touch(o) ==
    /\ mtime' = [mtime EXCEPT ![o] = "new"]
    /\ stale' = IF doomed = o THEN stale \cup {o} ELSE stale

(* Mutant: an object that exists is not freshened.                         *)
FreshenObjectNot(w) ==
    /\ pc[w] = "freshen"
    /\ IF Current(w) \in Present THEN Proceed(w) ELSE Goto(w, "create") /\ UNCHANGED next
    /\ UNCHANGED <<objects, refs, base, prune>>

(* odb_freshen_object: utime() on the file.  If there is none, or utime()  *)
(* fails, the object has to be written.                                    *)
FreshenObject(w) ==
    /\ pc[w] = "freshen"
    /\ \/ Current(w) \in Present /\ Touch(Current(w)) /\ Proceed(w) /\ UNCHANGED faults
       \/ /\ Current(w) \notin Present
          /\ Goto(w, "create") /\ UNCHANGED <<objects, next>>
       \/ /\ Current(w) \in Present
          /\ faults < MaxFaults /\ faults' = faults + 1
          /\ Goto(w, "create") /\ UNCHANGED <<mtime, stale, next>>
    /\ UNCHANGED <<refs, base, prune>>

(* write_loose_object: the file is linked into place.  If there is one     *)
(* already (EEXIST) the new one is dropped, and the old keeps its mtime.   *)
(* A writer whose write fails gives up: it takes no further step.          *)
WriteObject(w) ==
    /\ pc[w] = "create"
    /\ IF Current(w) \notin Present THEN Touch(Current(w))
       ELSE /\ UNCHANGED mtime
            /\ stale' = IF mtime[Current(w)] = "old" \/ doomed = Current(w)
                        THEN stale \cup {Current(w)} ELSE stale
    /\ Proceed(w)
    /\ UNCHANGED <<faults, refs, base, prune>>

(* ref_transaction_update looks at the new value only, not at what it      *)
(* names, and before anything is locked.                                   *)
QueueUpdate(w) ==
    /\ pc[w] = "update"
    /\ Goto(w, IF Tip(w) \in Present THEN "lock" ELSE "failed")
    /\ UNCHANGED <<objects, refs, base, next, prune>>

(* The ref is locked and compared with the value the writer knew.          *)
LockRef(w) ==
    /\ pc[w] = "lock"
    /\ IF reflock[Dest[w]] = None /\ ref[Dest[w]] = base[w]
       THEN reflock' = [reflock EXCEPT ![Dest[w]] = w] /\ Goto(w, "log")
       ELSE Goto(w, "failed") /\ UNCHANGED reflock
    /\ UNCHANGED <<objects, ref, log, base, next, prune>>

(* log_ref_setup: an entry is written if should_autocreate_reflog says so  *)
(* (branches, remote-tracking refs, notes and HEAD, but none of them in a  *)
(* bare repository by default) or if the ref has a reflog already.         *)
Log(r, o) ==
    log' = IF r \in AutoLog \/ log[r] # {} THEN [log EXCEPT ![r] = @ \cup {o}] ELSE log

WriteLog(w) ==
    /\ pc[w] = "log" /\ Goto(w, "set") /\ Log(Dest[w], Tip(w))
    /\ UNCHANGED <<objects, ref, reflock, base, next, prune>>

SetRef(w) ==
    /\ pc[w] = "set" /\ Goto(w, "done")
    /\ ref' = [ref EXCEPT ![Dest[w]] = Tip(w)]
    /\ reflock' = [reflock EXCEPT ![Dest[w]] = None]
    /\ UNCHANGED <<objects, log, base, next, prune>>

-----------------------------------------------------------------------------
(* Movers: a transaction of the files backend that creates one ref and     *)
(* deletes another (the steps are those of FilesRefs).                     *)

MoveLock(m) ==
    /\ pc[m] = "idle" /\ ref[From[m]] # None
    /\ reflock[From[m]] = None /\ reflock[To[m]] = None
    /\ reflock' = [reflock EXCEPT ![From[m]] = m, ![To[m]] = m]
    /\ base' = [base EXCEPT ![m] = ref[From[m]]]
    /\ Goto(m, "log")
    /\ UNCHANGED <<objects, ref, log, next, prune>>

MoveLog(m) ==
    /\ pc[m] = "log" /\ Goto(m, "set") /\ Log(To[m], base[m])
    /\ UNCHANGED <<objects, ref, reflock, base, next, prune>>

MoveSet(m) ==
    /\ pc[m] = "set" /\ Goto(m, "unlog")
    /\ ref' = [ref EXCEPT ![To[m]] = base[m]]
    /\ reflock' = [reflock EXCEPT ![To[m]] = None]
    /\ UNCHANGED <<objects, log, base, next, prune>>

MoveUnlog(m) ==
    /\ pc[m] = "unlog" /\ Goto(m, "delete")
    /\ log' = [log EXCEPT ![From[m]] = {}]
    /\ UNCHANGED <<objects, ref, reflock, base, next, prune>>

MoveDelete(m) ==
    /\ pc[m] = "delete" /\ Goto(m, "done")
    /\ ref' = [ref EXCEPT ![From[m]] = None]
    /\ reflock' = [reflock EXCEPT ![From[m]] = None]
    /\ UNCHANGED <<objects, log, base, next, prune>>

-----------------------------------------------------------------------------
(* git prune. *)

(* cmd_prune; mark_reachable_objects begins at the first loose object.     *)
PruneStart ==
    /\ pc[Pruner] = "idle" /\ Goto(Pruner, "refs")
    /\ todo' = Refs
    /\ recent' = Present \cap Closure({o \in Objects : mtime[o] = "new"}, Present)
    /\ UNCHANGED <<objects, refs, base, next, pending, marked, doomed>>

(* add_one_ref dies if the object is not there.                            *)
PruneRef(r) ==
    /\ pc[Pruner] = "refs" /\ r \in todo /\ todo' = todo \ {r}
    /\ IF RootsOf(r) \cap Objects \subseteq Present
       THEN pending' = pending \cup RootsOf(r) /\ UNCHANGED pc
       ELSE Goto(Pruner, "died") /\ UNCHANGED pending
    /\ UNCHANGED <<objects, refs, base, next, marked, doomed, recent>>

(* Mutant: the reflogs are not read.                                       *)
PruneRefsDoneNoLogs ==
    /\ pc[Pruner] = "refs" /\ todo = {} /\ Goto(Pruner, "walk")
    /\ UNCHANGED <<objects, refs, base, next, prune>>

PruneRefsDone ==
    /\ pc[Pruner] = "refs" /\ todo = {} /\ Goto(Pruner, "logs")
    /\ todo' = Refs
    /\ UNCHANGED <<objects, refs, base, next, pending, marked, doomed, recent>>

(* handle_one_reflog_commit: objects that were pruned are only warned      *)
(* about.                                                                  *)
PruneLog(r) ==
    /\ pc[Pruner] = "logs" /\ r \in todo /\ todo' = todo \ {r}
    /\ pending' = pending \cup (log[r] \cap Present)
    /\ UNCHANGED <<objects, refs, pc, base, next, marked, doomed, recent>>

(* The walk dies if something is missing.                                  *)
PruneWalk ==
    /\ pc[Pruner] \in {"logs", "walk"} /\ todo = {}
    /\ marked' = Closure(pending, Present) /\ pending' = {}
    /\ todo' = {o \in Objects : mtime[o] = "new"}
    /\ Goto(Pruner, IF marked' \subseteq Present THEN "scan" ELSE "died")
    /\ UNCHANGED <<objects, refs, base, next, doomed, recent>>

(* add_recent_object.  The files are visited in some order: one that was   *)
(* recent when the scan began is added, one that becomes recent meanwhile  *)
(* may be, and the others are passed over.                                 *)
PruneScan(o) ==
    /\ pc[Pruner] = "scan" /\ mtime[o] = "new" /\ o \notin pending
    /\ todo' = todo \ {o}
    /\ pending' = pending \cup {o}
    /\ UNCHANGED <<objects, refs, pc, base, next, marked, doomed, recent>>

(* Mutant: recent objects are kept, but not what they name.                *)
MarkRecentShallow == marked' = marked \cup pending

(* The second walk, with ignore_missing_links.                             *)
MarkRecent == marked' = marked \cup Closure(pending, Present)

PruneMark ==
    /\ pc[Pruner] = "scan" /\ todo = {} /\ Goto(Pruner, "prune")
    /\ MarkRecent /\ pending' = {}
    /\ UNCHANGED <<objects, refs, base, next, todo, doomed, recent>>

(* prune_object, up to lstat(), for one loose file after the other; files  *)
(* may have come and gone since.  Only these are removed:                  *)
PruneStat(o) ==
    /\ pc[Pruner] = "prune" /\ doomed = None
    /\ o \notin marked /\ mtime[o] = "old"
    /\ doomed' = o
    /\ UNCHANGED <<objects, refs, pc, base, next, todo, pending, marked, recent>>

PruneUnlink ==
    /\ pc[Pruner] = "prune" /\ doomed # None
    /\ mtime' = [mtime EXCEPT ![doomed] = "none"]
    /\ doomed' = None
    /\ UNCHANGED <<stale, faults, refs, pc, base, next, todo, pending, marked, recent>>

(* All files have been visited, or prune was stopped.  It may be run       *)
(* again, before anything that is recent now gets old.                     *)
PruneDone ==
    /\ pc[Pruner] = "prune" /\ doomed = None
    /\ Goto(Pruner, "idle") /\ marked' = {} /\ recent' = {}
    /\ UNCHANGED <<objects, refs, base, next, todo, pending, doomed>>

-----------------------------------------------------------------------------
WriteStep(w) ==
    \/ Start(w) \/ FreshenObject(w) \/ WriteObject(w)
    \/ QueueUpdate(w) \/ LockRef(w) \/ WriteLog(w) \/ SetRef(w)

MoveStep(m) ==
    MoveLock(m) \/ MoveLog(m) \/ MoveSet(m) \/ MoveUnlog(m) \/ MoveDelete(m)

PruneStep ==
    \/ PruneStart \/ PruneRefsDone \/ PruneWalk \/ PruneMark \/ PruneUnlink \/ PruneDone
    \/ \E r \in Refs : PruneRef(r) \/ PruneLog(r)
    \/ \E o \in Objects : PruneScan(o) \/ PruneStat(o)

Step ==
    \/ \E w \in Writers : WriteStep(w)
    \/ \E m \in Movers : MoveStep(m)
    \/ PruneStep

Next == Step /\ Observe

Spec == Init /\ [][Next]_vars

-----------------------------------------------------------------------------
(* What prune may not find although some ref has it: old objects that were *)
(* moved to a ref without a reflog, or moved twice, while it read the refs *)
(* and the reflogs, or that a writer could not freshen.                    *)
Unfindable == Closure(astray, Objects)

(* The state is well-typed, and what refs reached all the time while prune *)
(* ran is not pruned, although prune reads the refs one by one while some  *)
(* of them are moved - except for what Unfindable says.                    *)
ReachableKept ==
    TypeOK /\ (pc[Pruner] # "idle" => live \subseteq Present \cup Unfindable)

(* What was recent when prune began is kept, with all it names, even if    *)
(* that is old.                                                            *)
RecentKept == recent \subseteq Present

(* When a writer has set its ref everything that the ref reaches exists,   *)
(* unless prune's lstat() came just before a utime() and its unlink()      *)
(* after it, or utime() failed, or it is Unfindable: an object that is     *)
(* found is as good as one that is written.                                *)
WritesComplete ==
    \A w \in Writers : pc[w] = "done" =>
        Closure({Tip(w)}, Objects) \subseteq Present \cup stale \cup Unfindable
=============================================================================
