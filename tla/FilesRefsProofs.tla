--------------------------- MODULE FilesRefsProofs ---------------------------
(* Proofs about FilesRefs, for any number of refs, transactions, pack-refs   *)
(* processes and readers: lock-free reads, reflogs and deletions stay right, *)
(* and the store implements RefStore.                                        *)
EXTENDS FilesRefs, TLAPS

(* The hypotheses of the theorems below, all three restrictions of what the  *)
(* code allows, and needed: outside them the properties fail.  With --auto   *)
(* deleted refs come back (MCFilesRefsAuto); a ref that leaves its packed    *)
(* value and returns to it is taken by prune_ref for one nobody touched; and *)
(* an interrupted deletion can be completed by one pack-refs and undone by   *)
(* another.                                                                  *)
Whole ==
    /\ ~OptimizeAuto /\ ~Reuse
    /\ (\A p, q \in Packers : p = q) \/ Faults \cap {"kill", "unlink"} = {}

-----------------------------------------------------------------------------
(* The inductive invariant: one process. *)

Working == {"lock", "pwrite", "prepared", "update", "unlink", "prune"}
Checks  == {"ready", "logged", "unlogged", "unpacked"}
Held    == Checks \cup {"locked", "unlinked"}
Stopped == {"undo", "failed", "crashed"}

(* How far a transaction can be with a ref.                                  *)
TxnAt(l, s) ==
    /\ s \in {"skip", "todo", "locked", "ready", "rejected", "logged", "unlogged",
              "unpacked", "done", "late"}
    /\ l = "idle"   => s = "skip"
    /\ l = "lock"   => s \in {"skip", "todo", "locked", "ready", "rejected", "done"}
    /\ l \in {"pwrite", "prepared"} => s \in {"skip", "ready", "rejected", "done"}
    /\ l = "update" => s \in {"skip", "ready", "rejected", "logged", "unlogged", "done"}
    /\ l = "unlink" => s \in {"skip", "rejected", "done", "unpacked"}
    /\ l = "done"   => s \in {"skip", "rejected", "done"}

(* What it wants there, and what it found.                                   *)
TxnRef(t, r) ==
    /\ TxnAt(pc[t], st[t][r])
    /\ pc[t] = "idle" => want[t][r] = Keep /\ expect[t][r] = Any
    /\ st[t][r] = "skip" => want[t][r] = Keep
    /\ st[t][r] = "ready" => want[t][r] # Keep
    /\ st[t][r] = "logged" => want[t][r] \in Vals
    /\ st[t][r] \in {"ready", "logged"} /\ want[t][r] \in Vals => want[t][r] # prev[t][r]
    /\ st[t][r] \in {"unlogged", "unpacked", "late"} => want[t][r] = None
    /\ st[t][r] \in Checks => CheckOld(t, r, prev[t][r])

(* How far pack-refs can be with a ref.                                      *)
PackAt(l, s) ==
    /\ l # "count"
    /\ s \in {"skip", "listed", "read", "locked", "ready", "unlinked", "done"}
    /\ l \in {"idle", "locked"} => s = "skip"
    /\ l = "scan" => s \in {"listed", "read", "done"}
    /\ l \in {"written", "committed"} => s \in {"read", "done"}
    /\ l = "prune" => s \in {"read", "locked", "ready", "unlinked", "done"}

PackRef(p, r) ==
    /\ PackAt(pc[p], st[p][r])
    /\ st[p][r] \in {"read", "locked", "ready"} => pack[p][r] # None
    /\ pc[p] = "prune" /\ st[p][r] = "ready" => loose[r] = pack[p][r]

(* Whoever works on a ref holds its lock.                                    *)
HoldsRef(p, r) == pc[p] \in Working /\ st[p][r] \in Held => reflock[r] = p

(* Whoever may rewrite packed-refs, or relies on it, holds its lock.         *)
Removing(t, r) == want[t][r] = None /\ st[t][r] \in {"ready", "unlogged", "unpacked"}
NeedsPacked(p) ==
    \/ pc[p] \in {"pwrite", "prepared", "locked", "scan", "written", "committed"}
    \/ p \in Txns /\ pc[p] \in {"update", "unlink"}
         /\ (pnew[p] # NoFile \/ \E r \in Refs : Removing(p, r))
HoldsPacked(p) == NeedsPacked(p) => plock = p

(* The ref is as it was when it was read under the lock.                     *)
TxnSees(t, r) ==
    /\ pc[t] \in Working /\ st[t][r] \in Checks =>
         /\ prev[t][r] = Value(r)
         /\ ~isloose[t][r] => loose[r] = None
         /\ isloose[t][r] /\ prev[t][r] # None => loose[r] # None
    /\ pc[t] = "update" /\ st[t][r] = "logged" => want[t][r] \in log[r]
    /\ pc[t] = "unlink" /\ st[t][r] = "unpacked" => packed[r] = None

(* packed-refs.new is packed-refs without the refs that are deleted, and is  *)
(* left out only if they are not there.                                      *)
TxnFile(t) ==
    /\ pc[t] \in {"idle", "lock", "pwrite", "unlink"} => pnew[t] = NoFile
    /\ pc[t] \in {"prepared", "update"} => \A r \in Refs :
         IF Removing(t, r)
         THEN (pnew[t] = NoFile => packed[r] = None) /\ (pnew[t] # NoFile => pnew[t][r] = None)
         ELSE pnew[t] # NoFile => pnew[t][r] = packed[r]

PackFile(p) ==
    pc[p] = "written" =>
        /\ pnew[p] # NoFile
        /\ \A r \in Refs : pnew[p][r] = IF st[p][r] = "read" THEN pack[p][r] ELSE packed[r]

TxnInv(t)  == TxnFile(t) /\ HoldsPacked(t)
                /\ \A r \in Refs : TxnRef(t, r) /\ HoldsRef(t, r) /\ TxnSees(t, r)
PackInv(p) == PackFile(p) /\ HoldsPacked(p)
                /\ \A r \in Refs : PackRef(p, r) /\ HoldsRef(p, r)
ProcInv == (\A t \in Txns : TxnInv(t)) /\ \A p \in Packers : PackInv(p)

-----------------------------------------------------------------------------
(* The inductive invariant: what the processes have to do with each other.   *)

(* Every value that is around for r.                                         *)
Around(r) ==
    {loose[r], packed[r]} \cup {pack[p][r] : p \in Packers}
      \cup {pnew[p][r] : p \in {u \in Procs : pnew[u] # NoFile}}

(* A transaction has still to write its value.                               *)
Pending(t, r) ==
    /\ want[t][r] \in Vals /\ want[t][r] # expect[t][r]
    /\ st[t][r] \in {"todo", "locked", "ready", "logged"}

(* What is around was asked for, and a value to be written is not around.    *)
FreshInv ==
    \A r \in Refs :
        /\ Around(r) \subseteq asked[r] \cup {None}
        /\ \A t \in Txns : want[t][r] \in asked[r] \cup {None, Keep}
        /\ \A t \in Txns : Pending(t, r) =>
             want[t][r] \notin Around(r) /\ \A u \in Txns \ {t} : want[u][r] # want[t][r]

(* p may still remove the loose file of r.                                   *)
MayPrune(p, r) == pc[p] \in {"committed", "prune"} /\ st[p][r] \in {"read", "locked", "ready"}

(* A value that nobody has packed yet.                                       *)
Newer(r) == loose[r] # None /\ \A p \in Packers : MayPrune(p, r) => pack[p][r] # loose[r]

(* What pack-refs is about to pack is the value, unless there is a newer one *)
(* in a loose file that stays; what it packed is in packed-refs.             *)
Packing(p, r) == pc[p] \in {"scan", "written"} /\ st[p][r] = "read"
Current(p, r) == Packing(p, r) => pack[p][r] = Value(r) \/ Newer(r)
Packed(p, r) ==
    MayPrune(p, r) /\ loose[r] = pack[p][r] =>
        packed[r] = loose[r] \/ (packed[r] = None /\ HalfDeleted(r))
PackersInv == \A p \in Packers, r \in Refs : Current(p, r) /\ Packed(p, r)

(* Without interruptions a deletion is half done only while it is going on.  *)
StoppedInv ==
    Faults \cap {"kill", "unlink"} = {} =>
        \A t \in Txns, r \in Refs : st[t][r] = "unpacked" => pc[t] = "unlink"

LogInv == \A r \in Refs : log[r] # {} /\ Value(r) # None => Value(r) \in log[r]

(* A reader that has found no loose file will find in packed-refs what the   *)
(* ref was meanwhile; one that is to look again has attempts left.           *)
ReadOK(q) ==
    /\ pc[q] \in {"idle", "stat"} => tries[q] > 0
    /\ pc[q] = "packed" =>
         /\ packed[Target[q]] \in seen[q] \cup Appears(Target[q])
         /\ \A p \in Packers :
              Packing(p, Target[q]) => pack[p][Target[q]] \in seen[q] \cup Appears(Target[q])
    /\ pc[q] = "done" => result[q] \in seen[q] \/ (result[q] = None /\ tries[q] = 0)
ReadInv == \A q \in Readers : ReadOK(q)

Inv ==
    /\ TypeOK /\ ProcInv /\ FreshInv /\ PackersInv /\ StoppedInv /\ LogInv /\ ReadInv
    /\ DeletedStaysDeleted

-----------------------------------------------------------------------------
(* Types. *)

(* The names that the model uses differ.                                     *)
LEMMA Kinds ==
    /\ None \notin Vals /\ Keep \notin Vals /\ Any \notin Vals /\ Keep # None /\ Any # None
    /\ \A t \in Txns : t \in Procs /\ t \notin Packers /\ t \notin Readers /\ t \in Vals
    /\ \A p \in Packers : p \in Procs /\ p \notin Txns /\ p \notin Readers
    /\ \A q \in Readers : q \notin Procs
    /\ \A p \in Procs : p \in Txns \/ p \in Packers
    /\ Free \notin Procs
BY KindsAssumption DEF Procs, Vals, Value0

LEMMA TypeInit == Init => TypeOK
<1> SUFFICES ASSUME Init PROVE TypeOK
    OBVIOUS
<1> USE InputAssumption, BoundsAssumption, Kinds DEF Init, Value0
<1>1. loose \in [Refs -> Value0] /\ packed \in [Refs -> Value0] /\ log \in [Refs -> SUBSET Value0]
    BY DEF Vals, Value
<1>2. asked \in [Refs -> SUBSET Vals] /\ tries \in [Readers -> 0..Attempts]
    BY DEF Vals
<1> QED
    BY <1>1, <1>2 DEF TypeOK, Statuses, TxnPCs, PackPCs, ReadPCs

(* The parts of the type invariant.                                          *)
PlaceOK ==
    /\ pc \in [Procs \cup Readers -> TxnPCs \cup PackPCs \cup ReadPCs]
    /\ \A t \in Txns : pc[t] \in TxnPCs
    /\ \A p \in Packers : pc[p] \in PackPCs
    /\ \A q \in Readers : pc[q] \in ReadPCs
StatusOK == st \in [Procs -> [Refs -> Statuses]]
DiskOK ==
    /\ loose \in [Refs -> Value0] /\ packed \in [Refs -> Value0]
    /\ log \in [Refs -> SUBSET Value0]
LockOK ==
    /\ reflock \in [Refs -> Procs \cup {Free}] /\ plock \in Procs \cup {Free}
    /\ pnew \in [Procs -> [Refs -> Value0] \cup {NoFile}]
RequestOK ==
    /\ want \in [Txns -> [Refs -> Value0 \cup {Keep}]]
    /\ expect \in [Txns -> [Refs -> Value0 \cup {Any}]]
    /\ allow \in [Txns -> BOOLEAN]
    /\ asked \in [Refs -> SUBSET Vals]
FoundOK ==
    /\ prev \in [Txns -> [Refs -> Value0]]
    /\ isloose \in [Txns -> [Refs -> BOOLEAN]]
PackOK == pack \in [Packers -> [Refs -> Value0]]
ReaderOK == tries \in [Readers -> 0..Attempts] /\ result \in [Readers -> Value0]
RestOK == seen \in [Readers -> SUBSET Value0] /\ faults \in 0..MaxFaults

LEMMA TypeParts ==
    TypeOK <=> /\ PlaceOK /\ StatusOK /\ DiskOK /\ LockOK /\ RequestOK /\ FoundOK
               /\ PackOK /\ ReaderOK /\ RestOK
BY DEF TypeOK, PlaceOK, StatusOK, DiskOK, LockOK, RequestOK, FoundOK, PackOK, ReaderOK, RestOK

(* One process goes somewhere, or gets on with one ref.                      *)
Goes(p, l) == PlaceOK' /\ pc'[p] = l /\ \A u \in (Procs \cup Readers) \ {p} : pc'[u] = pc[u]
Stays == PlaceOK' /\ pc' = pc
Marks(p, r, s) ==
    /\ StatusOK' /\ st'[p][r] = s /\ \A x \in Refs \ {r} : st'[p][x] = st[p][x]
    /\ \A u \in Procs \ {p} : st'[u] = st[u]

LEMMA TxnGoes ==
    ASSUME TypeOK, NEW t \in Txns, NEW l \in TxnPCs, Goto(t, l) PROVE Goes(t, l)
<1>1. t \in Procs /\ t \notin Packers /\ t \notin Readers
    BY Kinds
<1> QED
    BY <1>1, TypeParts DEF Goto, Goes, PlaceOK

LEMMA PackGoes ==
    ASSUME TypeOK, NEW p \in Packers, NEW l \in PackPCs, Goto(p, l) PROVE Goes(p, l)
<1>1. p \in Procs /\ p \notin Txns /\ p \notin Readers
    BY Kinds
<1> QED
    BY <1>1, TypeParts DEF Goto, Goes, PlaceOK

LEMMA ReadGoes ==
    ASSUME TypeOK, NEW q \in Readers, NEW l \in ReadPCs, Goto(q, l) PROVE Goes(q, l)
<1>1. q \notin Procs /\ q \notin Txns /\ q \notin Packers
    BY Kinds
<1> QED
    BY <1>1, TypeParts DEF Goto, Goes, PlaceOK

LEMMA MarkMarks ==
    ASSUME TypeOK, NEW p \in Procs, NEW r \in Refs, NEW s \in Statuses, Mark(p, r, s)
    PROVE  Marks(p, r, s)
BY TypeParts DEF Mark, Marks, StatusOK

-----------------------------------------------------------------------------
(* What a step of one process does to the others. *)

(* It leaves what is theirs, but may mark a deletion that stopped as         *)
(* completed.                                                                *)
Frame(p) ==
    /\ \A u \in (Procs \cup Readers) \ {p} : pc'[u] = pc[u]
    /\ \A u \in Procs \ {p} : pnew'[u] = pnew[u]
    /\ \A u \in Procs \ {p} : \A x \in Refs :
         \/ st'[u][x] = st[u][x]
         \/ st[u][x] = "unpacked" /\ st'[u][x] = "late" /\ u \in Txns /\ pc[u] \notin Working
    /\ \A u \in Txns \ {p} : /\ want'[u] = want[u] /\ expect'[u] = expect[u]
                             /\ prev'[u] = prev[u] /\ isloose'[u] = isloose[u]
    /\ \A u \in Packers \ {p} : pack'[u] = pack[u]

(* It respects their locks.                                                  *)
Respects(p) ==
    /\ \A x \in Refs : reflock[x] \in Procs \ {p} =>
         /\ reflock'[x] = reflock[x] /\ loose'[x] = loose[x] /\ log'[x] = log[x]
         /\ Value(x)' = Value(x)
    /\ plock \in Procs \ {p} => plock' = plock /\ packed' = packed

LEMMA OtherTxns ==
    ASSUME NEW p, Frame(p), Respects(p), NEW t \in Txns \ {p}, TxnInv(t)
    PROVE  TxnInv(t)'
<1>0. t \in Procs /\ t \in (Procs \cup Readers) \ {p}
    BY Kinds
<1>1. /\ pc'[t] = pc[t] /\ pnew'[t] = pnew[t] /\ want'[t] = want[t] /\ expect'[t] = expect[t]
      /\ prev'[t] = prev[t] /\ isloose'[t] = isloose[t]
    BY <1>0 DEF Frame
<1>2. \A x \in Refs : \/ st'[t][x] = st[t][x]
                      \/ st[t][x] = "unpacked" /\ st'[t][x] = "late" /\ pc[t] \notin Working
    BY <1>0 DEF Frame
<1>3. ASSUME NEW x \in Refs PROVE TxnRef(t, x)'
    <2>1. TxnRef(t, x)
        BY DEF TxnInv
    <2>2. CASE st'[t][x] = st[t][x]
        BY <1>1, <2>1, <2>2 DEF TxnRef, CheckOld
    <2>3. CASE st[t][x] = "unpacked" /\ st'[t][x] = "late" /\ pc[t] \notin Working
        BY <1>1, <2>1, <2>3 DEF TxnRef, TxnAt, CheckOld, Working, Checks
    <2> QED
        BY <1>2, <2>2, <2>3
<1>4. ASSUME NEW x \in Refs, pc[t] \in Working, st'[t][x] \in Held
      PROVE  /\ st'[t][x] = st[t][x] /\ reflock'[x] = t /\ loose'[x] = loose[x]
             /\ log'[x] = log[x] /\ Value(x)' = Value(x)
    <2>1. st'[t][x] = st[t][x]
        BY <1>2, <1>4
    <2>2. reflock[x] = t
        BY <1>4, <2>1 DEF TxnInv, HoldsRef
    <2> QED
        BY <1>0, <2>1, <2>2 DEF Respects
<1>5. ASSUME NEW x \in Refs PROVE HoldsRef(t, x)'
    BY <1>1, <1>4 DEF HoldsRef
<1>6. \A x \in Refs : Removing(t, x)' => Removing(t, x)
    BY <1>1, <1>2 DEF Removing
<1>7. NeedsPacked(t)' => NeedsPacked(t)
    BY <1>1, <1>6 DEF NeedsPacked
<1>8. NeedsPacked(t) => plock' = t /\ packed' = packed
    BY <1>0 DEF TxnInv, HoldsPacked, Respects
<1>9. ASSUME NEW x \in Refs PROVE TxnSees(t, x)'
    <2>1. TxnSees(t, x)
        BY DEF TxnInv
    <2>2. pc[t] = "unlink" /\ st'[t][x] = "unpacked" => packed'[x] = packed[x]
        <3> SUFFICES ASSUME pc[t] = "unlink", st'[t][x] = "unpacked" PROVE NeedsPacked(t)
            BY <1>8
        <3>1. st[t][x] = "unpacked" /\ want[t][x] = None
            BY <1>4 DEF Working, Held, Checks, TxnInv, TxnRef
        <3> QED
            BY <3>1 DEF NeedsPacked, Removing
    <2> QED
        BY <1>1, <1>4, <2>1, <2>2 DEF TxnSees, Working, Held, Checks
<1>10. TxnFile(t)'
    <2>1. ASSUME pc[t] \in {"prepared", "update"}, NEW x \in Refs
          PROVE  Removing(t, x)' <=> Removing(t, x)
        BY <1>1, <1>2, <2>1 DEF Removing, Working
    <2>2. ASSUME pc[t] \in {"prepared", "update"}, NeedsPacked(t)
          PROVE  TxnFile(t)'
        BY <1>1, <1>8, <2>1, <2>2 DEF TxnInv, TxnFile
    <2>3. ASSUME pc[t] \in {"prepared", "update"}, ~NeedsPacked(t)
          PROVE  TxnFile(t)'
        <3>1. pnew[t] = NoFile /\ \A x \in Refs : ~Removing(t, x)
            BY <2>3 DEF NeedsPacked
        <3> QED
            BY <1>1, <2>1, <2>3, <3>1 DEF TxnFile
    <2>4. CASE pc[t] \notin {"prepared", "update"}
        BY <1>1, <2>4 DEF TxnInv, TxnFile
    <2> QED
        BY <2>2, <2>3, <2>4
<1> QED
    BY <1>3, <1>5, <1>7, <1>8, <1>9, <1>10 DEF TxnInv, HoldsPacked

LEMMA OtherPackers ==
    ASSUME NEW p, Frame(p), Respects(p), NEW k \in Packers \ {p}, PackInv(k)
    PROVE  PackInv(k)'
<1>0. k \in Procs /\ k \in (Procs \cup Readers) \ {p} /\ k \notin Txns
    BY Kinds
<1>1. pc'[k] = pc[k] /\ pnew'[k] = pnew[k] /\ pack'[k] = pack[k]
    BY <1>0 DEF Frame
<1>2. \A x \in Refs : st'[k][x] = st[k][x]
    BY <1>0 DEF Frame
<1>3. ASSUME NEW x \in Refs, pc[k] \in Working, st[k][x] \in Held
      PROVE  reflock'[x] = k /\ loose'[x] = loose[x]
    BY <1>0, <1>3 DEF PackInv, HoldsRef, Respects
<1>4. ASSUME NEW x \in Refs PROVE HoldsRef(k, x)' /\ PackRef(k, x)'
    <2>1. PackRef(k, x) /\ HoldsRef(k, x)
        BY DEF PackInv
    <2> QED
        BY <1>1, <1>2, <1>3, <2>1 DEF HoldsRef, PackRef, Working, Held, Checks
<1>5. HoldsPacked(k)' /\ PackFile(k)'
    BY <1>0, <1>1, <1>2 DEF PackInv, HoldsPacked, NeedsPacked, PackFile, Respects
<1> QED
    BY <1>4, <1>5 DEF PackInv

-----------------------------------------------------------------------------
(* The steps of a transaction. *)

TypesNext ==
    /\ PlaceOK' /\ StatusOK' /\ DiskOK' /\ LockOK' /\ RequestOK' /\ FoundOK'
    /\ PackOK' /\ ReaderOK' /\ faults' \in 0..MaxFaults

(* What has to be shown of a step of t, or of p.                             *)
TxnGood(t)  == TypesNext /\ TxnInv(t)' /\ Frame(t) /\ Respects(t)
PackGood(p) == TypesNext /\ PackInv(p)' /\ Frame(p) /\ Respects(p)

(* Where t goes on nothing changes for the refs that it leaves alone.        *)
LEMMA TxnKeeps ==
    ASSUME PlaceOK, NEW t \in Txns, NEW x \in Refs, TxnRef(t, x), HoldsRef(t, x), TxnSees(t, x),
           st'[t][x] = st[t][x], want'[t][x] = want[t][x], expect'[t][x] = expect[t][x],
           prev'[t][x] = prev[t][x], isloose'[t][x] = isloose[t][x],
           loose'[x] = loose[x], packed'[x] = packed[x], log[x] \subseteq log'[x],
           pc'[t] \in Working => pc[t] \in Working /\ reflock'[x] = reflock[x],
           pc'[t] # "idle", TxnAt(pc'[t], st[t][x])
    PROVE  TxnRef(t, x)' /\ HoldsRef(t, x)' /\ TxnSees(t, x)'
<1>1. TxnRef(t, x)'
    BY DEF TxnRef, CheckOld
<1>2. HoldsRef(t, x)'
    BY DEF HoldsRef
<1>3. Value(x)' = Value(x)
    BY DEF Value
<1>4. /\ pc'[t] = "update" /\ st[t][x] = "logged" => pc[t] = "update"
      /\ pc'[t] = "unlink" /\ st[t][x] = "unpacked" => pc[t] = "unlink"
    BY DEF TxnRef, TxnAt, Working, PlaceOK, TxnPCs
<1>5. TxnSees(t, x)'
    BY <1>3, <1>4 DEF TxnSees
<1> QED
    BY <1>1, <1>2, <1>5

(* A transaction that gives up, or is killed, holds nothing against anyone.  *)
LEMMA TxnStops ==
    ASSUME TypeOK, NEW t \in Txns, TxnInv(t), pc'[t] \in Stopped,
           \A x \in Refs : TxnAt("undo", st'[t][x]),
           \A x \in Refs : TxnRef(t, x) => TxnRef(t, x)'
    PROVE  TxnInv(t)'
<1>1. pc'[t] \notin Working /\ ~NeedsPacked(t)' /\ TxnFile(t)'
    BY DEF Stopped, Working, NeedsPacked, TxnFile
<1>2. \A x \in Refs : HoldsRef(t, x)' /\ TxnSees(t, x)'
    BY <1>1 DEF HoldsRef, TxnSees, Working
<1> QED
    BY <1>1, <1>2 DEF TxnInv, HoldsPacked

LEMMA TxnGivesUp ==
    ASSUME TypeOK, NEW t \in Txns, TxnInv(t), NEW l \in Stopped, Goes(t, l), pc[t] # "idle",
           UNCHANGED <<st, want, expect, prev>>
    PROVE  TxnInv(t)'
<1>1. pc'[t] = l /\ pc'[t] # "idle"
    BY DEF Goes, Stopped
<1>2. ASSUME NEW x \in Refs PROVE TxnRef(t, x)' /\ TxnAt("undo", st'[t][x])
    <2>1. TxnRef(t, x)
        BY DEF TxnInv
    <2>2. TxnAt("undo", st'[t][x]) /\ TxnAt(l, st'[t][x])
        BY <2>1 DEF TxnRef, TxnAt, Stopped
    <2> QED
        BY <1>1, <2>1, <2>2 DEF TxnRef, CheckOld
<1> QED
    BY <1>1, <1>2, TxnStops

(* Steps that touch neither files nor requests.                              *)
LEMMA QuietFrame ==
    ASSUME TypeOK, NEW p \in Procs, \A u \in (Procs \cup Readers) \ {p} : pc'[u] = pc[u],
           \A u \in Procs \ {p} : pnew'[u] = pnew[u] /\ st'[u] = st[u],
           \A u \in Txns \ {p} : prev'[u] = prev[u] /\ isloose'[u] = isloose[u]
                                   /\ want'[u] = want[u] /\ expect'[u] = expect[u],
           \A u \in Packers \ {p} : pack'[u] = pack[u]
    PROVE  Frame(p)
BY DEF Frame

LEMMA QuietRespects ==
    ASSUME NEW p \in Procs, UNCHANGED <<loose, packed, log>>,
           \A x \in Refs : reflock[x] \in Procs \ {p} => reflock'[x] = reflock[x],
           plock \in Procs \ {p} => plock' = plock
    PROVE  Respects(p)
BY DEF Respects, Value

LEMMA LockRefGood ==
    ASSUME TypeOK, NEW t \in Txns, TxnInv(t), NEW r \in Refs, LockRef(t, r)
    PROVE  TxnGood(t)
<1>0. t \in Procs /\ Free \notin Procs
    BY Kinds
<1>1. /\ pc[t] = "lock" /\ st[t][r] = "todo" /\ reflock[r] = Free
      /\ reflock' = [reflock EXCEPT ![r] = t] /\ Marks(t, r, "locked")
      /\ UNCHANGED <<loose, packed, log, plock, pnew, pc, want, expect, allow, asked,
                     prev, isloose, tries, result, pack, faults>>
    BY <1>0, MarkMarks DEF LockRef, disk, request, found, reader, Statuses
<1>2. TypesNext
    BY <1>0, <1>1, TypeParts DEF TypesNext, Marks, PlaceOK, DiskOK, LockOK, RequestOK, FoundOK,
                            PackOK, ReaderOK, RestOK
<1>3. reflock'[r] = t /\ \A x \in Refs \ {r} : reflock'[x] = reflock[x]
    BY <1>1, TypeParts DEF LockOK
<1>4. Frame(t) /\ Respects(t)
    BY <1>0, <1>1, <1>3, QuietFrame, QuietRespects DEF Marks
<1>5. ASSUME NEW x \in Refs PROVE TxnRef(t, x)' /\ HoldsRef(t, x)' /\ TxnSees(t, x)'
    <2>1. TxnRef(t, x) /\ HoldsRef(t, x) /\ TxnSees(t, x)
        BY DEF TxnInv
    <2>2. CASE x = r
        BY <1>1, <1>3, <2>1, <2>2 DEF Marks, TxnRef, TxnAt, HoldsRef, TxnSees, Checks
    <2>3. CASE x # r
        BY <1>1, <1>3, <2>1, <2>3, TxnKeeps, TypeParts DEF Marks, TxnRef
    <2> QED
        BY <2>2, <2>3
<1>6. TxnFile(t)' /\ HoldsPacked(t)'
    BY <1>1 DEF TxnInv, TxnFile, HoldsPacked, NeedsPacked
<1> QED
    BY <1>2, <1>4, <1>5, <1>6 DEF TxnGood, TxnInv

LEMMA LockRefTimeoutGood ==
    ASSUME TypeOK, NEW t \in Txns, TxnInv(t), NEW r \in Refs, LockRefTimeout(t, r)
    PROVE  TxnGood(t)
<1>0. t \in Procs
    BY Kinds
<1>1. /\ pc[t] = "lock" /\ st[t][r] = "todo"
      /\ UNCHANGED <<loose, packed, log, reflock, plock, pnew, want, expect, allow, asked,
                     prev, isloose, tries, result, pack, faults>>
      /\ \/ pc' = pc /\ Marks(t, r, "rejected")
         \/ Goes(t, "undo") /\ UNCHANGED st
    BY <1>0, MarkMarks, TxnGoes
       DEF LockRefTimeout, Reject, disk, locks, request, found, reader, Statuses, TxnPCs
<1>2. TypesNext
    BY <1>1, TypeParts DEF TypesNext, Marks, Goes, PlaceOK, StatusOK, DiskOK, LockOK, RequestOK,
                           FoundOK, PackOK, ReaderOK, RestOK
<1>3. Frame(t) /\ Respects(t)
    BY <1>0, <1>1, QuietFrame, QuietRespects DEF Marks, Goes
<1>4. CASE Goes(t, "undo") /\ UNCHANGED st
    BY <1>1, <1>2, <1>3, <1>4, TxnGivesUp DEF TxnGood, Stopped
<1>5. CASE pc' = pc /\ Marks(t, r, "rejected")
    <2>1. ASSUME NEW x \in Refs PROVE TxnRef(t, x)' /\ HoldsRef(t, x)' /\ TxnSees(t, x)'
        <3>1. TxnRef(t, x) /\ HoldsRef(t, x) /\ TxnSees(t, x)
            BY DEF TxnInv
        <3>2. CASE x = r
            BY <1>1, <1>5, <3>1, <3>2 DEF Marks, TxnRef, TxnAt, HoldsRef, TxnSees, Checks, Held
        <3>3. CASE x # r
            BY <1>1, <1>5, <3>1, <3>3, TxnKeeps, TypeParts DEF Marks, TxnRef
        <3> QED
            BY <3>2, <3>3
    <2>2. TxnFile(t)' /\ HoldsPacked(t)'
        BY <1>1, <1>5 DEF TxnInv, TxnFile, HoldsPacked, NeedsPacked
    <2> QED
        BY <1>2, <1>3, <2>1, <2>2 DEF TxnGood, TxnInv
<1> QED
    BY <1>1, <1>4, <1>5

LEMMA CheckRefGood ==
    ASSUME TypeOK, NEW t \in Txns, TxnInv(t), NEW r \in Refs, CheckRef(t, r)
    PROVE  TxnGood(t)
<1>0. t \in Procs /\ Keep # None /\ Free \notin Procs /\ None \notin Vals /\ Keep \notin Vals
    BY Kinds
<1>1. /\ pc[t] = "lock" /\ st[t][r] = "locked" /\ reflock[r] = t
      /\ UNCHANGED <<loose, packed, log, plock, pnew, want, expect, allow, asked,
                     tries, result, pack, faults>>
      /\ reflock' = reflock \/ reflock' = [reflock EXCEPT ![r] = Free]
      /\ \/ /\ pc' = pc /\ reflock' = reflock /\ CheckOld(t, r, Value(r))
            /\ \/ Marks(t, r, "done")
               \/ /\ Marks(t, r, "ready") /\ want[t][r] # Keep
                  /\ want[t][r] # None => want[t][r] # Value(r)
         \/ pc' = pc /\ Marks(t, r, "rejected")
         \/ Goes(t, "undo") /\ UNCHANGED st
    <2>1. reflock[r] = t
        BY DEF CheckRef, TxnInv, HoldsRef, Working, Held
    <2> QED
        BY <1>0, <2>1, MarkMarks, TxnGoes
           DEF CheckRef, Reject, disk, locks, request, found, reader, Statuses, TxnPCs
<1>2. /\ prev' = [prev EXCEPT ![t][r] = Value(r)]
      /\ isloose' = [isloose EXCEPT ![t][r] = loose[r] # None \/ packed[r] = None]
    BY DEF CheckRef
<1>3. /\ FoundOK' /\ prev'[t][r] = Value(r)
      /\ isloose'[t][r] = (loose[r] # None \/ packed[r] = None)
      /\ \A x \in Refs \ {r} : prev'[t][x] = prev[t][x] /\ isloose'[t][x] = isloose[t][x]
      /\ \A u \in Txns \ {t} : prev'[u] = prev[u] /\ isloose'[u] = isloose[u]
    <2>1. Value(r) \in Value0
        BY TypeParts DEF Value, DiskOK
    <2> QED
        BY <1>2, <2>1, TypeParts DEF FoundOK
<1>4. LockOK' /\ \A x \in Refs \ {r} : reflock'[x] = reflock[x]
    BY <1>1, TypeParts DEF LockOK
<1>5. TypesNext
    BY <1>1, <1>3, <1>4, TypeParts DEF TypesNext, Marks, Goes, PlaceOK, StatusOK, DiskOK,
                           RequestOK, PackOK, ReaderOK, RestOK
<1>6. Frame(t) /\ Respects(t)
    BY <1>0, <1>1, <1>3, <1>4, QuietFrame, QuietRespects DEF Marks, Goes
<1>7. ASSUME NEW x \in Refs, x # r, pc' = pc, st'[t][x] = st[t][x]
      PROVE  TxnRef(t, x)' /\ HoldsRef(t, x)' /\ TxnSees(t, x)'
    BY <1>1, <1>3, <1>4, <1>7, TxnKeeps, TypeParts DEF TxnInv, TxnRef
<1>8. CASE Goes(t, "undo") /\ UNCHANGED st
    <2>1. pc'[t] = "undo" /\ st' = st
        BY <1>8 DEF Goes
    <2>2. ASSUME NEW x \in Refs PROVE TxnRef(t, x)' /\ TxnAt("undo", st'[t][x])
        <3>1. TxnRef(t, x)
            BY DEF TxnInv
        <3>2. TxnAt("undo", st'[t][x])
            BY <2>1, <3>1 DEF TxnRef, TxnAt
        <3>3. x = r \/ prev'[t][x] = prev[t][x]
            BY <1>3
        <3> QED
            BY <1>1, <2>1, <3>1, <3>2, <3>3 DEF TxnRef, CheckOld, Checks
    <2> QED
        BY <1>5, <1>6, <2>1, <2>2, TxnStops DEF TxnGood, Stopped
<1>9. CASE pc' = pc /\ (Marks(t, r, "done") \/ Marks(t, r, "rejected"))
    <2>1. TxnRef(t, r)' /\ HoldsRef(t, r)' /\ TxnSees(t, r)'
        BY <1>1, <1>9 DEF Marks, TxnInv, TxnRef, TxnAt, HoldsRef, TxnSees, Checks, Held
    <2>2. TxnFile(t)' /\ HoldsPacked(t)'
        BY <1>1, <1>9 DEF TxnInv, TxnFile, HoldsPacked, NeedsPacked
    <2> QED
        BY <1>5, <1>6, <1>7, <1>9, <2>1, <2>2 DEF TxnGood, TxnInv, Marks
<1>10. CASE /\ pc' = pc /\ reflock' = reflock /\ Marks(t, r, "ready") /\ want[t][r] # Keep
            /\ CheckOld(t, r, Value(r)) /\ (want[t][r] # None => want[t][r] # Value(r))
    <2>1. TxnRef(t, r)'
        BY <1>0, <1>1, <1>3, <1>10 DEF Marks, TxnInv, TxnRef, TxnAt, CheckOld
    <2>2. HoldsRef(t, r)'
        BY <1>1, <1>10 DEF HoldsRef
    <2>3. Value(r)' = Value(r)
        BY <1>1 DEF Value
    <2>4. TxnSees(t, r)'
        BY <1>1, <1>3, <1>10, <2>3 DEF Marks, TxnSees, Value
    <2>5. TxnFile(t)' /\ HoldsPacked(t)'
        BY <1>1, <1>10 DEF TxnInv, TxnFile, HoldsPacked, NeedsPacked
    <2> QED
        BY <1>5, <1>6, <1>7, <1>10, <2>1, <2>2, <2>4, <2>5 DEF TxnGood, TxnInv, Marks
<1> QED
    BY <1>1, <1>8, <1>9, <1>10

LEMMA LockPackedGood ==
    ASSUME TypeOK, NEW t \in Txns, TxnInv(t), LockPacked(t)
    PROVE  TxnGood(t)
<1>0. t \in Procs /\ Free \notin Procs
    BY Kinds
<1>1. /\ pc[t] = "lock" /\ NoneAt(t, "todo") /\ NoneAt(t, "locked")
      /\ UNCHANGED <<loose, packed, log, reflock, pnew, want, expect, allow, asked,
                     prev, isloose, tries, result, st, pack, faults>>
      /\ \/ plock = Free /\ plock' = t /\ Goes(t, "pwrite")
         \/ UNCHANGED plock /\ Goes(t, "undo")
    BY TxnGoes DEF LockPacked, Checked, disk, request, found, reader, TxnPCs
<1>2. TypesNext
    BY <1>0, <1>1, TypeParts DEF TypesNext, Goes, StatusOK, DiskOK, LockOK, RequestOK,
                           FoundOK, PackOK, ReaderOK, RestOK
<1>3. Frame(t) /\ Respects(t)
    BY <1>0, <1>1, QuietFrame, QuietRespects DEF Goes
<1>4. CASE Goes(t, "undo")
    BY <1>1, <1>2, <1>3, <1>4, TxnGivesUp DEF TxnGood, Stopped
<1>5. CASE plock' = t /\ Goes(t, "pwrite")
    <2>1. pc'[t] = "pwrite"
        BY <1>5 DEF Goes
    <2>2. ASSUME NEW x \in Refs PROVE TxnRef(t, x)' /\ HoldsRef(t, x)' /\ TxnSees(t, x)'
        <3>1. TxnRef(t, x) /\ HoldsRef(t, x) /\ TxnSees(t, x)
            BY DEF TxnInv
        <3>2. TxnAt(pc'[t], st[t][x])
            BY <1>1, <2>1, <3>1 DEF NoneAt, TxnRef, TxnAt
        <3> QED
            BY <1>1, <2>1, <3>1, <3>2, TxnKeeps, TypeParts DEF Working
    <2>3. TxnFile(t)' /\ HoldsPacked(t)'
        BY <1>1, <1>5, <2>1 DEF TxnInv, TxnFile, HoldsPacked
    <2> QED
        BY <1>2, <1>3, <2>2, <2>3 DEF TxnGood, TxnInv
<1> QED
    BY <1>1, <1>4, <1>5

LEMMA WritePackedGood ==
    ASSUME TypeOK, NEW t \in Txns, TxnInv(t), WritePacked(t)
    PROVE  TxnGood(t)
<1>0. t \in Procs /\ Free \notin Procs
    BY Kinds
<1> DEFINE f == IF \E r \in Refs : Deleting(t, r) /\ packed[r] # None
                THEN PackedWithout(t) ELSE NoFile
<1>1. /\ pc[t] = "pwrite" /\ plock = t
      /\ UNCHANGED <<loose, packed, log, reflock, plock, want, expect, allow, asked,
                     prev, isloose, tries, result, st, pack>>
      /\ \/ pnew' = [pnew EXCEPT ![t] = f] /\ Goes(t, "prepared") /\ faults' = faults
         \/ UNCHANGED pnew /\ Goes(t, "undo") /\ faults' \in 0..MaxFaults
    <2>1. plock = t
        BY DEF WritePacked, TxnInv, HoldsPacked, NeedsPacked
    <2>2. Fault("packed") => faults' \in 0..MaxFaults
        BY BoundsAssumption, TypeParts DEF Fault, RestOK
    <2> QED
        BY <2>1, <2>2, TxnGoes DEF WritePacked, NoFault, disk, request, found, reader, TxnPCs
<1>2. LockOK' /\ \A u \in Procs \ {t} : pnew'[u] = pnew[u]
    <2>1. f \in [Refs -> Value0] \cup {NoFile}
        BY TypeParts DEF PackedWithout, DiskOK, Value0
    <2> HIDE DEF f
    <2> QED
        BY <1>1, <2>1, TypeParts DEF LockOK
<1>3. TypesNext
    BY <1>1, <1>2, TypeParts DEF TypesNext, Goes, StatusOK, DiskOK, RequestOK,
                           FoundOK, PackOK, ReaderOK, RestOK
<1>4. Frame(t) /\ Respects(t)
    <2> HIDE DEF f
    <2> QED
        BY <1>0, <1>1, <1>2, QuietFrame, QuietRespects DEF Goes
<1>5. CASE Goes(t, "undo")
    <2> HIDE DEF f
    <2> QED
        BY <1>1, <1>3, <1>4, <1>5, TxnGivesUp DEF TxnGood, Stopped
<1>6. CASE pnew' = [pnew EXCEPT ![t] = f] /\ Goes(t, "prepared")
    <2>1. pc'[t] = "prepared" /\ pnew'[t] = f
        BY <1>0, <1>6, TypeParts DEF Goes, LockOK
    <2>2. ASSUME NEW x \in Refs PROVE TxnRef(t, x)' /\ HoldsRef(t, x)' /\ TxnSees(t, x)'
        <3>1. TxnRef(t, x) /\ HoldsRef(t, x) /\ TxnSees(t, x)
            BY DEF TxnInv
        <3>2. TxnAt(pc'[t], st[t][x])
            BY <1>1, <2>1, <3>1 DEF TxnRef, TxnAt
        <3> HIDE DEF f
        <3> QED
            BY <1>1, <2>1, <3>1, <3>2, TxnKeeps, TypeParts DEF Working
    <2>3. HoldsPacked(t)'
        BY <1>1 DEF HoldsPacked
    <2>4. ASSUME NEW x \in Refs PROVE Deleting(t, x) <=> Removing(t, x)
        BY <1>1 DEF Deleting, Removing, TxnInv, TxnRef, TxnAt
    <2>5. \A x \in Refs : Removing(t, x)' <=> Removing(t, x)
        BY <1>1 DEF Removing
    <2>6. NoFile # PackedWithout(t)
        BY KindsAssumption, TypeParts DEF PackedWithout, DiskOK, Value0
    <2>7. TxnFile(t)'
        BY <1>1, <2>1, <2>4, <2>5, <2>6 DEF TxnFile, PackedWithout
    <2> QED
        BY <1>3, <1>4, <2>2, <2>3, <2>7 DEF TxnGood, TxnInv
<1> QED
    BY <1>1, <1>5, <1>6

(* Abort and Finish need the transaction to be prepared.                     *)
LEMMA PreparedGood ==
    ASSUME TypeOK, NEW t \in Txns, TxnInv(t), Abort(t) \/ Finish(t)
    PROVE  TxnGood(t)
<1>0. t \in Procs
    BY Kinds
<1>1. /\ Prepared(t) /\ (Goes(t, "undo") \/ Goes(t, "update"))
      /\ UNCHANGED <<loose, packed, log, reflock, plock, pnew, want, expect, allow, asked,
                     prev, isloose, tries, result, st, pack, faults>>
    BY TxnGoes DEF Abort, Finish, disk, locks, request, found, reader, TxnPCs
<1>2. TypesNext
    BY <1>1, TypeParts DEF TypesNext, Goes, StatusOK, DiskOK, LockOK, RequestOK,
                           FoundOK, PackOK, ReaderOK, RestOK
<1>3. Frame(t) /\ Respects(t)
    BY <1>0, <1>1, QuietFrame, QuietRespects DEF Goes
<1>p. /\ pc[t] \in {"lock", "prepared"}
      /\ pc[t] = "lock" => NoneAt(t, "todo") /\ NoneAt(t, "locked") /\ ~Deletes(t)
    BY <1>1 DEF Prepared, Checked
<1>4. CASE Goes(t, "undo")
    BY <1>1, <1>2, <1>3, <1>4, <1>p, TxnGivesUp DEF TxnGood, Stopped
<1>5. CASE Goes(t, "update")
    <2>1. pc'[t] = "update"
        BY <1>5 DEF Goes
    <2>2. ASSUME NEW x \in Refs PROVE TxnRef(t, x)' /\ HoldsRef(t, x)' /\ TxnSees(t, x)'
        <3>1. TxnRef(t, x) /\ HoldsRef(t, x) /\ TxnSees(t, x)
            BY DEF TxnInv
        <3>2. TxnAt(pc'[t], st[t][x])
            BY <1>p, <2>1, <3>1 DEF NoneAt, TxnRef, TxnAt
        <3> QED
            BY <1>1, <1>p, <2>1, <3>1, <3>2, TxnKeeps, TypeParts DEF Working
    <2>3. \A x \in Refs : Removing(t, x)' <=> Removing(t, x)
        BY <1>1 DEF Removing
    <2>4. pc[t] = "lock" => pnew[t] = NoFile /\ \A x \in Refs : ~Removing(t, x)
        BY <1>p DEF Removing, Deletes, Deleting, TxnInv, TxnFile, TxnRef, TxnAt, NoneAt
    <2>5. TxnFile(t)'
        BY <1>1, <1>p, <2>1, <2>3, <2>4 DEF TxnInv, TxnFile
    <2>6. HoldsPacked(t)'
        BY <1>1, <1>p, <2>1, <2>3, <2>4 DEF TxnInv, HoldsPacked, NeedsPacked
    <2> QED
        BY <1>2, <1>3, <2>2, <2>5, <2>6 DEF TxnGood, TxnInv
<1> QED
    BY <1>1, <1>4, <1>5

(* A failure uses up one of MaxFaults.                                       *)
LEMMA FaultTypes ==
    ASSUME TypeOK, NEW k, Fault(k) PROVE faults' \in 0..MaxFaults /\ k \in Faults
BY BoundsAssumption, TypeParts DEF Fault, RestOK

LEMMA FailsGoes ==
    ASSUME TypeOK, NEW t \in Txns, NEW k, Fails(t, k)
    PROVE  Goes(t, "undo") /\ UNCHANGED st /\ faults' \in 0..MaxFaults /\ k \in Faults
BY FaultTypes, TxnGoes DEF Fails, TxnPCs

(* What Begin asks for.                                                      *)
LEMMA BeginFacts ==
    ASSUME TypeOK, NEW t \in Txns, Begin(t)
    PROVE  /\ pc[t] = "idle" /\ Goes(t, "lock")
           /\ UNCHANGED <<loose, packed, log, reflock, plock, pnew, prev, isloose, tries,
                          result, pack, faults>>
           /\ RequestOK' /\ StatusOK' /\ \A u \in Procs \ {t} : st'[u] = st[u]
           /\ \A u \in Txns \ {t} : want'[u] = want[u] /\ expect'[u] = expect[u]
           /\ \A r \in Refs :
                /\ asked'[r] = asked[r] \cup ({want'[t][r]} \cap Vals)
                /\ \/ st'[t][r] = "skip" /\ want'[t][r] = Keep
                   \/ st'[t][r] = "todo" /\ want'[t][r] \in {None, Keep}
                   \/ /\ st'[t][r] = "todo" /\ want'[t][r] \in Vals
                      /\ want'[t][r] = Value(r) /\ expect'[t][r] = Value(r)
                   \/ /\ st'[t][r] = "todo" /\ want'[t][r] \in Vals
                      /\ Reuse \/ want'[t][r] \notin asked[r]
<1>0. t \in Procs /\ t \in Vals /\ Keep \notin Vals /\ Keep # None
    BY Kinds
<1>1. pc[t] = "idle" /\ Goes(t, "lock")
    BY TxnGoes DEF Begin, TxnPCs
<1>2. PICK req \in Plans[t], w \in [Refs -> Value0 \cup {Keep}] :
        /\ \A r \in Refs :
             CASE req.ops[r] \in {"skip", "verify"} -> w[r] = Keep
               [] req.ops[r] = "set"    -> w[r] = t
               [] req.ops[r] = "same"   -> w[r] = Value(r) /\ Value(r) # None
               [] req.ops[r] = "copy"   -> w[r] \in Moved(req.ops)
               [] req.ops[r] = "delete" -> w[r] = None
        /\ Reuse \/ \A r \in Refs : req.ops[r] \in {"set", "copy"} => w[r] \notin asked[r]
        /\ want' = [want EXCEPT ![t] = w]
        /\ expect' = [expect EXCEPT ![t] = [r \in Refs |-> Expected(req.ops[r], r, req.chk)]]
        /\ asked' = [r \in Refs |-> asked[r] \cup ({w[r]} \cap Vals)]
        /\ allow' = [allow EXCEPT ![t] = req.allow]
        /\ st' = [st EXCEPT ![t] = [r \in Refs |->
                    IF req.ops[r] = "skip" THEN "skip" ELSE "todo"]]
    BY DEF Begin
<1>3. req \in PlanType /\ \A r \in Refs : req.ops[r] \in Ops
    BY InputAssumption DEF PlanType
<1>4. \A r \in Refs : Value(r) \in Value0 /\ Expected(req.ops[r], r, req.chk) \in Value0 \cup {Any}
    BY TypeParts DEF Value, DiskOK, Expected, Value0
<1>5. RequestOK'
    <2>1. want' \in [Txns -> [Refs -> Value0 \cup {Keep}]]
        BY <1>2, TypeParts DEF RequestOK
    <2>2. expect' \in [Txns -> [Refs -> Value0 \cup {Any}]]
        <3>1. [r \in Refs |-> Expected(req.ops[r], r, req.chk)] \in [Refs -> Value0 \cup {Any}]
            BY <1>4
        <3> QED
            BY <1>2, <3>1, TypeParts DEF RequestOK
    <2>3. allow' \in [Txns -> BOOLEAN] /\ asked' \in [Refs -> SUBSET Vals]
        BY <1>2, <1>3, TypeParts DEF RequestOK, PlanType
    <2> QED
        BY <2>1, <2>2, <2>3 DEF RequestOK
<1>6. StatusOK' /\ \A u \in Procs \ {t} : st'[u] = st[u]
    <2>1. [r \in Refs |-> IF req.ops[r] = "skip" THEN "skip" ELSE "todo"] \in [Refs -> Statuses]
        BY DEF Statuses
    <2> QED
        BY <1>2, <2>1, TypeParts DEF StatusOK
<1>7. \A u \in Txns \ {t} : want'[u] = want[u] /\ expect'[u] = expect[u]
    BY <1>2, TypeParts DEF RequestOK
<1>8. ASSUME NEW r \in Refs
      PROVE  /\ asked'[r] = asked[r] \cup ({want'[t][r]} \cap Vals)
             /\ \/ st'[t][r] = "skip" /\ want'[t][r] = Keep
                \/ st'[t][r] = "todo" /\ want'[t][r] \in {None, Keep}
                \/ /\ st'[t][r] = "todo" /\ want'[t][r] \in Vals
                   /\ want'[t][r] = Value(r) /\ expect'[t][r] = Value(r)
                \/ /\ st'[t][r] = "todo" /\ want'[t][r] \in Vals
                   /\ Reuse \/ want'[t][r] \notin asked[r]
    <2>1. /\ want'[t][r] = w[r] /\ expect'[t][r] = Expected(req.ops[r], r, req.chk)
          /\ st'[t][r] = IF req.ops[r] = "skip" THEN "skip" ELSE "todo"
          /\ asked'[r] = asked[r] \cup ({w[r]} \cap Vals)
        BY <1>0, <1>2, TypeParts DEF RequestOK, StatusOK
    <2>2. /\ req.ops[r] \in {"skip", "verify"} => w[r] = Keep
          /\ req.ops[r] = "set" => w[r] = t
          /\ req.ops[r] = "same" => w[r] = Value(r) /\ Value(r) # None
          /\ req.ops[r] = "copy" => w[r] \in Moved(req.ops)
          /\ req.ops[r] = "delete" => w[r] = None
        BY <1>2
    <2>3. Moved(req.ops) \subseteq Vals
        BY <1>4 DEF Moved, Value0
    <2>4. req.ops[r] \in {"skip", "verify", "set", "same", "copy", "delete"}
        BY <1>3 DEF Ops
    <2>5. req.ops[r] = "same" => expect'[t][r] = Value(r) /\ w[r] \in Vals
        BY <1>4, <2>1, <2>2 DEF Expected, Value0
    <2>6. req.ops[r] \in {"set", "copy"} => w[r] \in Vals /\ (Reuse \/ w[r] \notin asked[r])
        BY <1>0, <1>2, <2>2, <2>3
    <2>7. CASE req.ops[r] = "skip"
        BY <2>1, <2>2, <2>7
    <2>8. CASE req.ops[r] \in {"verify", "delete"}
        BY <2>1, <2>2, <2>8
    <2>9. CASE req.ops[r] = "same"
        BY <2>1, <2>2, <2>5, <2>9
    <2>10. CASE req.ops[r] \in {"set", "copy"}
        BY <2>1, <2>6, <2>10
    <2> QED
        BY <2>1, <2>4, <2>7, <2>8, <2>9, <2>10
<1> QED
    BY <1>1, <1>5, <1>6, <1>7, <1>8 DEF Begin, disk, locks, found, reader

LEMMA BeginGood ==
    ASSUME TypeOK, NEW t \in Txns, TxnInv(t), Begin(t)
    PROVE  TxnGood(t)
<1>0. t \in Procs
    BY Kinds
<1>1. TypesNext
    BY BeginFacts, TypeParts DEF TypesNext, Goes, DiskOK, LockOK, FoundOK, PackOK, ReaderOK, RestOK
<1>2. Frame(t) /\ Respects(t)
    BY <1>0, BeginFacts, QuietFrame, QuietRespects DEF Goes
<1>3. pc'[t] = "lock" /\ pc[t] = "idle" /\ pnew'[t] = pnew[t]
    BY BeginFacts DEF Goes
<1>4. ASSUME NEW x \in Refs PROVE TxnRef(t, x)' /\ HoldsRef(t, x)' /\ TxnSees(t, x)'
    <2>1. st'[t][x] \in {"skip", "todo"} /\ (st'[t][x] = "skip" => want'[t][x] = Keep)
        BY BeginFacts
    <2> QED
        BY <1>3, <2>1 DEF TxnRef, TxnAt, HoldsRef, TxnSees, Held, Checks
<1>5. TxnFile(t)' /\ HoldsPacked(t)'
    BY <1>3 DEF TxnInv, TxnFile, HoldsPacked, NeedsPacked
<1> QED
    BY <1>1, <1>2, <1>4, <1>5 DEF TxnGood, TxnInv

LEMMA WriteReflogGood ==
    ASSUME TypeOK, NEW t \in Txns, TxnInv(t), NEW r \in Refs, WriteReflog(t, r)
    PROVE  TxnGood(t)
<1>0. t \in Procs
    BY Kinds
<1>1. /\ pc[t] = "update" /\ st[t][r] = "ready" /\ want[t][r] # None /\ reflock[r] = t
      /\ UNCHANGED <<loose, packed, reflock, plock, pnew, want, expect, allow, asked,
                     prev, isloose, tries, result, pack>>
      /\ \/ /\ log' = [log EXCEPT ![r] = @ \cup ({prev[t][r], want[t][r]} \ {None})]
            /\ Marks(t, r, "logged") /\ pc' = pc /\ faults' = faults
         \/ Goes(t, "undo") /\ UNCHANGED <<st, log>> /\ faults' \in 0..MaxFaults
    <2>1. reflock[r] = t
        BY DEF WriteReflog, TxnInv, HoldsRef, Working, Held, Checks
    <2> QED
        BY <1>0, <2>1, MarkMarks, FailsGoes
           DEF WriteReflog, NoFault, locks, request, found, reader, Statuses
<1>2. want[t][r] \in Vals /\ prev[t][r] \in Value0
    <2>1. want[t][r] \in Value0 \cup {Keep} /\ want[t][r] # Keep
        BY <1>1, TypeParts DEF TxnInv, TxnRef, RequestOK
    <2> QED
        BY <1>1, <2>1, TypeParts DEF Value0, FoundOK
<1>3. /\ DiskOK' /\ \A x \in Refs : log[x] \subseteq log'[x] /\ (x # r => log'[x] = log[x])
      /\ Marks(t, r, "logged") => want[t][r] \in log'[r]
    <2>1. CASE log' = [log EXCEPT ![r] = @ \cup ({prev[t][r], want[t][r]} \ {None})]
        <3>1. want[t][r] \in Value0
            BY <1>2 DEF Value0
        <3>2. log' \in [Refs -> SUBSET Value0]
            BY <1>2, <2>1, <3>1, TypeParts DEF DiskOK
        <3>3. DiskOK'
            BY <1>1, <3>2, TypeParts DEF DiskOK
        <3> QED
            BY <1>1, <2>1, <3>3, TypeParts DEF DiskOK
    <2>2. CASE UNCHANGED <<st, log>>
        BY <1>1, <2>2, TypeParts DEF DiskOK, Marks
    <2> QED
        BY <1>1, <2>1, <2>2
<1>4. TypesNext
    BY <1>1, <1>3, TypeParts DEF TypesNext, Marks, Goes, PlaceOK, StatusOK, LockOK, RequestOK,
                           FoundOK, PackOK, ReaderOK, RestOK
<1>5. Frame(t)
    BY <1>0, <1>1, QuietFrame DEF Marks, Goes
<1>6. Respects(t)
    BY <1>0, <1>1, <1>3 DEF Respects, Value
<1>7. CASE Goes(t, "undo") /\ UNCHANGED st
    BY <1>1, <1>4, <1>5, <1>6, <1>7, TxnGivesUp DEF TxnGood, Stopped
<1>8. CASE Marks(t, r, "logged") /\ pc' = pc
    <2>1. ASSUME NEW x \in Refs PROVE TxnRef(t, x)' /\ HoldsRef(t, x)' /\ TxnSees(t, x)'
        <3>1. TxnRef(t, x) /\ HoldsRef(t, x) /\ TxnSees(t, x)
            BY DEF TxnInv
        <3>2. CASE x = r
            <4>1. st'[t][x] = "logged" /\ st[t][x] = "ready"
                BY <1>1, <1>8, <3>2 DEF Marks
            <4>2. TxnRef(t, x)'
                BY <1>1, <1>2, <1>8, <3>1, <3>2, <4>1 DEF TxnRef, TxnAt, CheckOld, Checks
            <4>3. HoldsRef(t, x)'
                BY <1>1, <3>2 DEF HoldsRef
            <4>4. Value(x)' = Value(x)
                BY <1>1 DEF Value
            <4>5. TxnSees(t, x)'
                BY <1>1, <1>3, <1>8, <3>1, <3>2, <4>1, <4>4 DEF TxnSees, Checks, Working
            <4> QED
                BY <4>2, <4>3, <4>5
        <3>3. CASE x # r
            <4>1. TxnAt(pc'[t], st[t][x]) /\ st'[t][x] = st[t][x]
                BY <1>8, <3>1, <3>3 DEF Marks, TxnRef
            <4> QED
                BY <1>1, <1>3, <1>8, <3>1, <3>3, <4>1, TxnKeeps, TypeParts
        <3> QED
            BY <3>2, <3>3
    <2>2. \A x \in Refs : Removing(t, x)' <=> Removing(t, x)
        BY <1>1, <1>8 DEF Removing, Marks
    <2>3. TxnFile(t)' /\ HoldsPacked(t)'
        BY <1>1, <1>8, <2>2 DEF TxnInv, TxnFile, HoldsPacked, NeedsPacked
    <2> QED
        BY <1>4, <1>5, <1>6, <2>1, <2>3 DEF TxnGood, TxnInv
<1> QED
    BY <1>1, <1>7, <1>8

LEMMA CommitRefGood ==
    ASSUME TypeOK, NEW t \in Txns, TxnInv(t), NEW r \in Refs, CommitRef(t, r)
    PROVE  TxnGood(t)
<1>0. t \in Procs /\ Free \notin Procs
    BY Kinds
<1>1. /\ pc[t] = "update" /\ st[t][r] = "logged" /\ reflock[r] = t /\ want[t][r] \in Vals
      /\ UNCHANGED <<packed, log, plock, pnew, want, expect, allow, asked,
                     prev, isloose, tries, result, pack>>
      /\ \/ /\ loose' = [loose EXCEPT ![r] = want[t][r]]
            /\ reflock' = [reflock EXCEPT ![r] = Free]
            /\ Marks(t, r, "done") /\ pc' = pc /\ faults' = faults
         \/ Goes(t, "undo") /\ UNCHANGED <<st, loose, reflock>> /\ faults' \in 0..MaxFaults
    <2>1. reflock[r] = t /\ want[t][r] \in Vals
        BY DEF CommitRef, TxnInv, TxnRef, HoldsRef, Working, Held, Checks
    <2> QED
        BY <1>0, <2>1, MarkMarks, FailsGoes
           DEF CommitRef, NoFault, request, found, reader, Statuses
<1>2. DiskOK' /\ LockOK'
      /\ \A x \in Refs \ {r} : loose'[x] = loose[x] /\ reflock'[x] = reflock[x]
    BY <1>1, TypeParts DEF DiskOK, LockOK, Value0
<1>3. TypesNext
    BY <1>1, <1>2, TypeParts DEF TypesNext, Marks, Goes, PlaceOK, StatusOK, RequestOK,
                           FoundOK, PackOK, ReaderOK, RestOK
<1>4. Frame(t)
    BY <1>0, <1>1, QuietFrame DEF Marks, Goes
<1>5. Respects(t)
    BY <1>0, <1>1, <1>2 DEF Respects, Value
<1>6. CASE Goes(t, "undo") /\ UNCHANGED st
    BY <1>1, <1>3, <1>4, <1>5, <1>6, TxnGivesUp DEF TxnGood, Stopped
<1>7. CASE Marks(t, r, "done") /\ pc' = pc
    <2>1. ASSUME NEW x \in Refs PROVE TxnRef(t, x)' /\ HoldsRef(t, x)' /\ TxnSees(t, x)'
        <3>1. TxnRef(t, x) /\ HoldsRef(t, x) /\ TxnSees(t, x)
            BY DEF TxnInv
        <3>2. CASE x = r
            BY <1>1, <1>7, <3>1, <3>2
               DEF Marks, TxnRef, TxnAt, HoldsRef, TxnSees, Checks, Held
        <3>3. CASE x # r
            <4>1. TxnAt(pc'[t], st[t][x]) /\ st'[t][x] = st[t][x]
                BY <1>7, <3>1, <3>3 DEF Marks, TxnRef
            <4> QED
                BY <1>1, <1>2, <1>7, <3>1, <3>3, <4>1, TxnKeeps, TypeParts
        <3> QED
            BY <3>2, <3>3
    <2>2. \A x \in Refs : Removing(t, x)' <=> Removing(t, x)
        BY <1>1, <1>7 DEF Removing, Marks
    <2>3. TxnFile(t)' /\ HoldsPacked(t)'
        BY <1>1, <1>7, <2>2 DEF TxnInv, TxnFile, HoldsPacked, NeedsPacked
    <2> QED
        BY <1>3, <1>4, <1>5, <2>1, <2>3 DEF TxnGood, TxnInv
<1> QED
    BY <1>1, <1>6, <1>7

LEMMA DeleteReflogGood ==
    ASSUME TypeOK, NEW t \in Txns, TxnInv(t), NEW r \in Refs, DeleteReflog(t, r)
    PROVE  TxnGood(t)
<1>0. t \in Procs
    BY Kinds
<1>1. /\ pc[t] = "update" /\ st[t][r] = "ready" /\ want[t][r] = None /\ reflock[r] = t
      /\ NoneAt(t, "logged") /\ Marks(t, r, "unlogged")
      /\ UNCHANGED <<loose, packed, reflock, plock, pnew, pc, want, expect, allow, asked,
                     prev, isloose, tries, result, pack>>
      /\ faults' \in 0..MaxFaults /\ (log' = log \/ log' = [log EXCEPT ![r] = {}])
    <2>1. /\ pc[t] = "update" /\ st[t][r] = "ready" /\ want[t][r] = None /\ NoneAt(t, "logged")
          /\ Mark(t, r, "unlogged")
        BY DEF DeleteReflog, UpdatesDone, Deleting
    <2>2. reflock[r] = t
        BY <2>1 DEF TxnInv, HoldsRef, Working, Held, Checks
    <2>3. faults' \in 0..MaxFaults
        BY FaultTypes, TypeParts DEF DeleteReflog, NoFault, RestOK
    <2> QED
        BY <1>0, <2>1, <2>2, <2>3, MarkMarks
           DEF DeleteReflog, locks, request, found, reader, Statuses
<1>2. DiskOK' /\ \A x \in Refs \ {r} : log'[x] = log[x]
    BY <1>1, TypeParts DEF DiskOK
<1>3. TypesNext
    BY <1>1, <1>2, TypeParts DEF TypesNext, Marks, PlaceOK, LockOK, RequestOK,
                           FoundOK, PackOK, ReaderOK
<1>4. Frame(t)
    BY <1>0, <1>1, QuietFrame DEF Marks
<1>5. Respects(t)
    BY <1>0, <1>1, <1>2 DEF Respects, Value
<1>6. ASSUME NEW x \in Refs PROVE TxnRef(t, x)' /\ HoldsRef(t, x)' /\ TxnSees(t, x)'
    <2>1. TxnRef(t, x) /\ HoldsRef(t, x) /\ TxnSees(t, x)
        BY DEF TxnInv
    <2>2. CASE x = r
        <3>1. st'[t][x] = "unlogged" /\ st[t][x] = "ready"
            BY <1>1, <2>2 DEF Marks
        <3>2. TxnRef(t, x)'
            BY <1>1, <2>1, <2>2, <3>1 DEF TxnRef, TxnAt, CheckOld, Checks
        <3>3. HoldsRef(t, x)'
            BY <1>1, <2>2 DEF HoldsRef
        <3>4. Value(x)' = Value(x)
            BY <1>1 DEF Value
        <3>5. TxnSees(t, x)'
            BY <1>1, <2>1, <3>1, <3>4 DEF TxnSees, Checks, Working
        <3> QED
            BY <3>2, <3>3, <3>5
    <2>3. CASE x # r
        <3>1. TxnAt(pc'[t], st[t][x]) /\ st'[t][x] = st[t][x]
            BY <1>1, <2>1, <2>3 DEF Marks, TxnRef
        <3> QED
            BY <1>1, <1>2, <2>1, <2>3, <3>1, TxnKeeps, TypeParts
    <2> QED
        BY <2>2, <2>3
<1>7. \A x \in Refs : Removing(t, x)' <=> Removing(t, x)
    BY <1>1 DEF Removing, Marks
<1>8. TxnFile(t)' /\ HoldsPacked(t)'
    BY <1>1, <1>7 DEF TxnInv, TxnFile, HoldsPacked, NeedsPacked
<1> QED
    BY <1>3, <1>4, <1>5, <1>6, <1>8 DEF TxnGood, TxnInv

(* What CommitPacked does when it succeeds.                                  *)
LEMMA CommitPackedFacts ==
    ASSUME TypeOK, NEW t \in Txns, TxnInv(t), CommitPacked(t)
    PROVE  /\ pc[t] = "update" /\ pnew' = [pnew EXCEPT ![t] = NoFile]
           /\ \A x \in Refs : st[t][x] \in {"skip", "rejected", "unlogged", "done"}
           /\ UNCHANGED <<loose, log, reflock, plock, want, expect, allow, asked,
                          prev, isloose, tries, result, pack>>
           /\ \/ Goes(t, "undo") /\ UNCHANGED <<st, packed>> /\ faults' \in 0..MaxFaults
              \/ /\ Goes(t, "unlink") /\ faults' = faults
                 /\ StatusOK' /\ \A u \in Procs \ {t} : st'[u] = st[u]
                 /\ packed' \in [Refs -> Value0]
                 /\ \A x \in Refs :
                      IF st[t][x] = "unlogged"
                      THEN /\ want[t][x] = None /\ packed'[x] = None /\ reflock[x] = t
                           /\ st'[t][x] = IF isloose[t][x] THEN "unpacked" ELSE "done"
                      ELSE st'[t][x] = st[t][x] /\ packed'[x] = packed[x]
<1>0. t \in Procs
    BY Kinds
<1>1. /\ pc[t] = "update" /\ pnew' = [pnew EXCEPT ![t] = NoFile]
      /\ UNCHANGED <<loose, log, reflock, plock, want, expect, allow, asked,
                     prev, isloose, tries, result, pack>>
    BY DEF CommitPacked, UpdatesDone, request, found, reader
<1>2. \A x \in Refs : st[t][x] \in {"skip", "rejected", "unlogged", "done"}
    BY <1>1 DEF CommitPacked, UpdatesDone, Deletes, Deleting, NoneAt, TxnInv, TxnRef, TxnAt
<1>3. CASE Goes(t, "undo") /\ UNCHANGED <<st, packed>> /\ faults' \in 0..MaxFaults
    BY <1>1, <1>2, <1>3
<1>4. CASE /\ packed' = (IF pnew[t] # NoFile THEN pnew[t] ELSE packed)
           /\ st' = [st EXCEPT ![t] = [r \in Refs |->
                       IF st[t][r] # "unlogged" THEN st[t][r]
                       ELSE IF isloose[t][r] THEN "unpacked" ELSE "done"]]
           /\ Goto(t, "unlink") /\ NoFault
    <2>1. Goes(t, "unlink") /\ faults' = faults
        BY <1>4, TxnGoes DEF NoFault, TxnPCs
    <2>2. [r \in Refs |-> IF st[t][r] # "unlogged" THEN st[t][r]
                          ELSE IF isloose[t][r] THEN "unpacked" ELSE "done"]
            \in [Refs -> Statuses]
        BY <1>0, TypeParts DEF StatusOK, Statuses
    <2>3. StatusOK' /\ \A u \in Procs \ {t} : st'[u] = st[u]
        BY <1>4, <2>2, TypeParts DEF StatusOK
    <2>4. packed' \in [Refs -> Value0]
        BY <1>0, <1>4, TypeParts DEF LockOK, DiskOK
    <2>5. ASSUME NEW x \in Refs
          PROVE  IF st[t][x] = "unlogged"
                 THEN /\ want[t][x] = None /\ packed'[x] = None /\ reflock[x] = t
                      /\ st'[t][x] = IF isloose[t][x] THEN "unpacked" ELSE "done"
                 ELSE st'[t][x] = st[t][x] /\ packed'[x] = packed[x]
        <3>1. st'[t][x] = IF st[t][x] # "unlogged" THEN st[t][x]
                          ELSE IF isloose[t][x] THEN "unpacked" ELSE "done"
            BY <1>0, <1>4, TypeParts DEF StatusOK
        <3>2. Removing(t, x) <=> st[t][x] = "unlogged"
            BY <1>2 DEF Removing, TxnInv, TxnRef
        <3>3. IF Removing(t, x) THEN packed'[x] = None ELSE packed'[x] = packed[x]
            BY <1>1, <1>4 DEF TxnInv, TxnFile
        <3>4. st[t][x] = "unlogged" => want[t][x] = None /\ reflock[x] = t
            BY <1>1 DEF TxnInv, TxnRef, HoldsRef, Working, Held, Checks
        <3> QED
            BY <3>1, <3>2, <3>3, <3>4
    <2> QED
        BY <1>1, <1>2, <2>1, <2>3, <2>4, <2>5
<1>5. \/ Goes(t, "undo") /\ UNCHANGED <<st, packed>> /\ faults' \in 0..MaxFaults
      \/ /\ packed' = (IF pnew[t] # NoFile THEN pnew[t] ELSE packed)
         /\ st' = [st EXCEPT ![t] = [r \in Refs |->
                     IF st[t][r] # "unlogged" THEN st[t][r]
                     ELSE IF isloose[t][r] THEN "unpacked" ELSE "done"]]
         /\ Goto(t, "unlink") /\ NoFault
    BY FailsGoes DEF CommitPacked
<1> QED
    BY <1>3, <1>4, <1>5

LEMMA CommitPackedGood ==
    ASSUME TypeOK, NEW t \in Txns, TxnInv(t), CommitPacked(t)
    PROVE  TxnGood(t)
<1>0. t \in Procs
    BY Kinds
<1>1. /\ pc[t] = "update" /\ pnew' = [pnew EXCEPT ![t] = NoFile]
      /\ UNCHANGED <<loose, log, reflock, plock, want, expect, allow, asked,
                     prev, isloose, tries, result, pack>>
      /\ Goes(t, "undo") \/ Goes(t, "unlink")
    BY CommitPackedFacts
<1>2. LockOK' /\ pnew'[t] = NoFile /\ \A u \in Procs \ {t} : pnew'[u] = pnew[u]
    BY <1>0, <1>1, TypeParts DEF LockOK
<1>3. DiskOK' /\ StatusOK' /\ faults' \in 0..MaxFaults
    BY <1>1, CommitPackedFacts, TypeParts DEF DiskOK, StatusOK, RestOK
<1>4. TypesNext
    BY <1>1, <1>2, <1>3, TypeParts DEF TypesNext, Goes, RequestOK, FoundOK, PackOK, ReaderOK
<1>5. Frame(t)
    BY <1>0, <1>1, <1>2, CommitPackedFacts, QuietFrame DEF Goes
<1>6. ASSUME NEW x \in Refs, reflock[x] # t PROVE packed'[x] = packed[x]
    BY <1>6, CommitPackedFacts
<1>7. plock # t => packed' = packed
    <2> SUFFICES ASSUME plock # t PROVE packed' = packed
        OBVIOUS
    <2>1. \A x \in Refs : st[t][x] # "unlogged"
        BY <1>1 DEF TxnInv, TxnRef, HoldsPacked, NeedsPacked, Removing
    <2>2. \A x \in Refs : packed'[x] = packed[x]
        BY <2>1, CommitPackedFacts
    <2> QED
        BY <1>3, <2>2, TypeParts DEF DiskOK
<1>8. Respects(t)
    BY <1>0, <1>1, <1>6, <1>7 DEF Respects, Value
<1>9. CASE Goes(t, "undo") /\ UNCHANGED <<st, packed>>
    BY <1>1, <1>4, <1>5, <1>8, <1>9, TxnGivesUp DEF TxnGood, Stopped
<1>10. CASE /\ Goes(t, "unlink")
            /\ \A x \in Refs :
                 IF st[t][x] = "unlogged"
                 THEN /\ want[t][x] = None /\ packed'[x] = None /\ reflock[x] = t
                      /\ st'[t][x] = IF isloose[t][x] THEN "unpacked" ELSE "done"
                 ELSE st'[t][x] = st[t][x] /\ packed'[x] = packed[x]
    <2>1. pc'[t] = "unlink"
        BY <1>10 DEF Goes
    <2>2. ASSUME NEW x \in Refs PROVE TxnRef(t, x)' /\ HoldsRef(t, x)' /\ TxnSees(t, x)'
        <3>1. /\ TxnRef(t, x) /\ HoldsRef(t, x) /\ TxnSees(t, x)
              /\ st[t][x] \in {"skip", "rejected", "unlogged", "done"}
            BY CommitPackedFacts DEF TxnInv
        <3>2. CASE st[t][x] # "unlogged"
            <4>1. TxnAt(pc'[t], st[t][x]) /\ st'[t][x] = st[t][x] /\ packed'[x] = packed[x]
                BY <1>10, <2>1, <3>1, <3>2 DEF TxnAt
            <4> QED
                BY <1>1, <2>1, <3>1, <4>1, TxnKeeps, TypeParts DEF Working
        <3>3. CASE st[t][x] = "unlogged"
            <4>1. /\ want[t][x] = None /\ packed'[x] = None /\ reflock[x] = t
                  /\ st'[t][x] = IF isloose[t][x] THEN "unpacked" ELSE "done"
                BY <1>10, <3>3
            <4>2. TxnRef(t, x)'
                BY <1>1, <2>1, <3>1, <3>3, <4>1 DEF TxnRef, TxnAt, CheckOld, Checks
            <4>3. HoldsRef(t, x)'
                BY <1>1, <4>1 DEF HoldsRef
            <4>4. /\ prev[t][x] = Value(x) /\ (~isloose[t][x] => loose[x] = None)
                  /\ (isloose[t][x] /\ prev[t][x] # None => loose[x] # None)
                BY <1>1, <3>1, <3>3 DEF TxnSees, Working, Checks
            <4>5. isloose[t][x] => Value(x)' = prev[t][x]
                BY <1>1, <4>1, <4>4 DEF Value
            <4>6. TxnSees(t, x)'
                BY <1>1, <2>1, <4>1, <4>4, <4>5 DEF TxnSees, Checks
            <4> QED
                BY <4>2, <4>3, <4>6
        <3> QED
            BY <3>2, <3>3
    <2>3. TxnFile(t)'
        BY <1>2, <2>1 DEF TxnFile
    <2>4. HoldsPacked(t)'
        <3> SUFFICES ASSUME NEW x \in Refs, Removing(t, x)' PROVE plock = t
            BY <1>1, <1>2, <2>1 DEF HoldsPacked, NeedsPacked
        <3>1. st[t][x] = "unlogged" /\ want[t][x] = None
            BY <1>10, CommitPackedFacts DEF Removing
        <3> QED
            BY <1>1, <3>1 DEF TxnInv, HoldsPacked, NeedsPacked, Removing
    <2> QED
        BY <1>4, <1>5, <1>8, <2>2, <2>3, <2>4 DEF TxnGood, TxnInv
<1> QED
    BY <1>9, <1>10, CommitPackedFacts

LEMMA UnlinkLooseGood ==
    ASSUME TypeOK, NEW t \in Txns, TxnInv(t), NEW r \in Refs, UnlinkLoose(t, r)
    PROVE  TxnGood(t)
<1>0. t \in Procs /\ None \in Value0
    BY Kinds DEF Value0
<1>1. /\ pc[t] = "unlink" /\ st[t][r] = "unpacked" /\ reflock[r] = t
      /\ UNCHANGED <<packed, log, reflock, plock, pnew, want, expect, allow, asked,
                     prev, isloose, tries, result, pack>>
      /\ \/ /\ loose' = [loose EXCEPT ![r] = None]
            /\ Marks(t, r, "done") /\ pc' = pc /\ faults' = faults
         \/ Goes(t, "undo") /\ UNCHANGED <<st, loose>> /\ faults' \in 0..MaxFaults
    <2>1. reflock[r] = t
        BY DEF UnlinkLoose, TxnInv, HoldsRef, Working, Held, Checks
    <2> QED
        BY <1>0, <2>1, MarkMarks, FailsGoes
           DEF UnlinkLoose, NoFault, locks, request, found, reader, Statuses
<1>2. DiskOK' /\ \A x \in Refs \ {r} : loose'[x] = loose[x]
    BY <1>0, <1>1, TypeParts DEF DiskOK
<1>3. TypesNext
    BY <1>1, <1>2, TypeParts DEF TypesNext, Marks, Goes, PlaceOK, StatusOK, LockOK, RequestOK,
                           FoundOK, PackOK, ReaderOK, RestOK
<1>4. Frame(t)
    BY <1>0, <1>1, QuietFrame DEF Marks, Goes
<1>5. Respects(t)
    BY <1>0, <1>1, <1>2 DEF Respects, Value
<1>6. CASE Goes(t, "undo") /\ UNCHANGED st
    BY <1>1, <1>3, <1>4, <1>5, <1>6, TxnGivesUp DEF TxnGood, Stopped
<1>7. CASE Marks(t, r, "done") /\ pc' = pc
    <2>1. ASSUME NEW x \in Refs PROVE TxnRef(t, x)' /\ HoldsRef(t, x)' /\ TxnSees(t, x)'
        <3>1. TxnRef(t, x) /\ HoldsRef(t, x) /\ TxnSees(t, x)
            BY DEF TxnInv
        <3>2. CASE x = r
            BY <1>1, <1>7, <3>1, <3>2
               DEF Marks, TxnRef, TxnAt, HoldsRef, TxnSees, Checks, Held
        <3>3. CASE x # r
            <4>1. TxnAt(pc'[t], st[t][x]) /\ st'[t][x] = st[t][x]
                BY <1>7, <3>1, <3>3 DEF Marks, TxnRef
            <4> QED
                BY <1>1, <1>2, <1>7, <3>1, <3>3, <4>1, TxnKeeps, TypeParts
        <3> QED
            BY <3>2, <3>3
    <2>2. \A x \in Refs : Removing(t, x)' => Removing(t, x)
        BY <1>1, <1>7 DEF Removing, Marks
    <2>3. TxnFile(t)' /\ HoldsPacked(t)'
        BY <1>1, <1>7, <2>2 DEF TxnInv, TxnFile, HoldsPacked, NeedsPacked
    <2> QED
        BY <1>3, <1>4, <1>5, <2>1, <2>3 DEF TxnGood, TxnInv
<1> QED
    BY <1>1, <1>6, <1>7

(* A transaction that has done all it can only releases its locks.           *)
LEMMA TxnRests ==
    ASSUME TypeOK, NEW t \in Txns, TxnInv(t), pc[t] = "unlink", NoneAt(t, "unpacked"),
           pc'[t] \in {"unlink", "done"}, pnew'[t] = NoFile,
           UNCHANGED <<st, want, expect, prev>>
    PROVE  TxnInv(t)'
<1>1. ASSUME NEW x \in Refs PROVE TxnRef(t, x)' /\ HoldsRef(t, x)' /\ TxnSees(t, x)'
    <2>1. TxnRef(t, x) /\ st'[t][x] \in {"skip", "rejected", "done"}
        BY DEF TxnInv, TxnRef, TxnAt, NoneAt
    <2>2. TxnRef(t, x)'
        BY <2>1 DEF TxnRef, TxnAt, CheckOld, Checks
    <2> QED
        BY <2>1, <2>2 DEF HoldsRef, TxnSees, Held, Checks
<1>2. \A x \in Refs : ~Removing(t, x)'
    BY DEF Removing, TxnInv, TxnRef, TxnAt, NoneAt
<1>3. TxnFile(t)' /\ HoldsPacked(t)'
    BY <1>2 DEF TxnFile, HoldsPacked, NeedsPacked
<1> QED
    BY <1>1, <1>3 DEF TxnInv

LEMMA ReleaseRefGood ==
    ASSUME TypeOK, NEW t \in Txns, TxnInv(t), NEW r \in Refs, ReleaseRef(t, r)
    PROVE  TxnGood(t)
<1>0. t \in Procs
    BY Kinds
<1>1. /\ Cleanup(t) /\ reflock[r] = t /\ reflock' = [reflock EXCEPT ![r] = Free]
      /\ UNCHANGED <<loose, packed, log, plock, pnew, want, expect, allow, asked, pc,
                     prev, isloose, tries, result, st, pack, faults>>
    BY DEF ReleaseRef, disk, request, found, reader
<1>2. LockOK' /\ \A x \in Refs \ {r} : reflock'[x] = reflock[x]
    BY <1>1, TypeParts DEF LockOK
<1>3. TypesNext
    BY <1>1, <1>2, TypeParts DEF TypesNext, PlaceOK, StatusOK, DiskOK, RequestOK,
                           FoundOK, PackOK, ReaderOK, RestOK
<1>4. Frame(t) /\ Respects(t)
    BY <1>0, <1>1, <1>2, QuietFrame, QuietRespects
<1>5. CASE pc[t] = "undo"
    BY <1>1, <1>3, <1>4, <1>5, TxnGivesUp DEF TxnGood, Goes, Stopped, TypesNext
<1>6. CASE pc[t] = "unlink" /\ NoneAt(t, "unpacked")
    <2>1. pnew'[t] = NoFile
        BY <1>1, <1>6 DEF TxnInv, TxnFile
    <2> QED
        BY <1>1, <1>3, <1>4, <1>6, <2>1, TxnRests DEF TxnGood
<1> QED
    BY <1>1, <1>5, <1>6 DEF Cleanup

LEMMA ReleaseAllGood ==
    ASSUME TypeOK, NEW t \in Txns, TxnInv(t), ReleaseAll(t)
    PROVE  TxnGood(t)
<1>0. t \in Procs
    BY Kinds
<1>1. /\ Cleanup(t) /\ pnew' = [pnew EXCEPT ![t] = NoFile] /\ plock' \in {plock, Free}
      /\ plock # t => plock' = plock
      /\ pc[t] = "undo" => Goes(t, "failed")
      /\ pc[t] # "undo" => Goes(t, "done")
      /\ UNCHANGED <<loose, packed, log, reflock, want, expect, allow, asked,
                     prev, isloose, tries, result, st, pack, faults>>
    BY TxnGoes DEF ReleaseAll, disk, request, found, reader, TxnPCs
<1>2. LockOK' /\ pnew'[t] = NoFile /\ \A u \in Procs \ {t} : pnew'[u] = pnew[u]
    BY <1>0, <1>1, TypeParts DEF LockOK
<1>3. TypesNext
    BY <1>1, <1>2, TypeParts DEF TypesNext, Goes, StatusOK, DiskOK, RequestOK,
                           FoundOK, PackOK, ReaderOK, RestOK
<1>4. Frame(t) /\ Respects(t)
    BY <1>0, <1>1, <1>2, QuietFrame, QuietRespects DEF Goes
<1>5. CASE pc[t] = "undo"
    BY <1>1, <1>3, <1>4, <1>5, TxnGivesUp DEF TxnGood, Stopped
<1>6. CASE pc[t] = "unlink" /\ NoneAt(t, "unpacked")
    <2>1. pc'[t] = "done"
        BY <1>1, <1>6 DEF Goes
    <2> QED
        BY <1>1, <1>2, <1>3, <1>4, <1>6, <2>1, TxnRests DEF TxnGood
<1> QED
    BY <1>1, <1>5, <1>6 DEF Cleanup

(* pack-refs that has ended or was killed holds nothing against anyone.      *)
LEMMA PackStops ==
    ASSUME NEW p \in Packers, PackInv(p), pc'[p] \in {"done", "crashed"},
           UNCHANGED <<st, pack>>
    PROVE  PackInv(p)'
<1>1. p \notin Txns
    BY Kinds
<1>2. \A x \in Refs : PackRef(p, x)' /\ HoldsRef(p, x)'
    BY DEF PackInv, PackRef, PackAt, HoldsRef, Working
<1>3. PackFile(p)' /\ HoldsPacked(p)'
    BY <1>1 DEF PackFile, HoldsPacked, NeedsPacked
<1> QED
    BY <1>2, <1>3 DEF PackInv

(* What has to be shown of a step of the transaction or packer p.            *)
ProcGood(p) == (p \in Txns => TxnGood(p)) /\ (p \in Packers => PackGood(p))

LEMMA CrashGood ==
    ASSUME TypeOK, ProcInv, NEW p \in Procs, Crash(p)
    PROVE  ProcGood(p)
<1>1. /\ pc[p] # "idle"
      /\ UNCHANGED <<loose, packed, log, reflock, plock, pnew, want, expect, allow, asked,
                     prev, isloose, tries, result, st, pack>>
      /\ Goes(p, "crashed") /\ faults' \in 0..MaxFaults
    BY Kinds, TxnGoes, PackGoes, FaultTypes
       DEF Crash, disk, locks, request, found, reader, TxnPCs, PackPCs
<1>2. TypesNext
    BY <1>1, TypeParts DEF TypesNext, Goes, StatusOK, DiskOK, LockOK, RequestOK,
                           FoundOK, PackOK, ReaderOK
<1>3. Frame(p) /\ Respects(p)
    BY <1>1, QuietFrame, QuietRespects DEF Goes
<1>4. p \in Txns => TxnInv(p)'
    BY <1>1, TxnGivesUp DEF ProcInv, Stopped
<1>5. p \in Packers => PackInv(p)'
    BY <1>1, PackStops DEF ProcInv, Goes
<1> QED
    BY <1>2, <1>3, <1>4, <1>5 DEF ProcGood, TxnGood, PackGood

(* A lock file that is removed is the one of a process that was killed.      *)
LEMMA RemoveLockGood ==
    ASSUME TypeOK, ProcInv, RemovePackedLock \/ \E r \in Refs : RemoveRefLock(r)
    PROVE  \E p \in Procs : ProcGood(p) /\ pc' = pc /\ pc[p] = "crashed"
<1>1. PICK p \in Procs :
      /\ pc[p] = "crashed"
      /\ UNCHANGED <<loose, packed, log, pnew, want, expect, allow, asked, pc,
                     prev, isloose, tries, result, st, pack, faults>>
      /\ \/ plock = p /\ plock' = Free /\ reflock' = reflock
         \/ /\ plock' = plock
            /\ \E r \in Refs : reflock[r] = p /\ reflock' = [reflock EXCEPT ![r] = Free]
    BY DEF RemovePackedLock, RemoveRefLock, disk, request, found, reader
<1>2. LockOK' /\ \A x \in Refs : reflock[x] # p => reflock'[x] = reflock[x]
    BY <1>1, TypeParts DEF LockOK
<1>3. TypesNext
    BY <1>1, <1>2, TypeParts DEF TypesNext, PlaceOK, StatusOK, DiskOK, RequestOK,
                           FoundOK, PackOK, ReaderOK, RestOK
<1>4. Frame(p) /\ Respects(p)
    BY <1>1, <1>2, QuietFrame, QuietRespects
<1>5. p \in Txns => TxnInv(p)'
    BY <1>1, <1>3, TxnGivesUp DEF ProcInv, Stopped, Goes, TypesNext
<1>6. p \in Packers => PackInv(p)'
    BY <1>1, PackStops DEF ProcInv
<1> QED
    BY <1>1, <1>3, <1>4, <1>5, <1>6 DEF ProcGood, TxnGood, PackGood

-----------------------------------------------------------------------------
(* The steps of pack-refs. *)

(* Steps of p that leave the files of the store alone.                       *)
LEMMA PackQuiet ==
    ASSUME TypeOK, NEW p \in Packers, PlaceOK', StatusOK', LockOK', PackOK',
           faults' \in 0..MaxFaults,
           UNCHANGED <<loose, packed, log, want, expect, allow, asked, prev, isloose,
                       tries, result>>,
           \A u \in (Procs \cup Readers) \ {p} : pc'[u] = pc[u],
           \A u \in Procs \ {p} : pnew'[u] = pnew[u] /\ st'[u] = st[u],
           \A u \in Packers \ {p} : pack'[u] = pack[u],
           \A x \in Refs : reflock[x] \in Procs \ {p} => reflock'[x] = reflock[x],
           plock \in Procs \ {p} => plock' = plock
    PROVE  TypesNext /\ Frame(p) /\ Respects(p)
<1>1. p \in Procs
    BY Kinds
<1>2. TypesNext
    BY TypeParts DEF TypesNext, DiskOK, RequestOK, FoundOK, ReaderOK
<1> QED
    BY <1>1, <1>2, QuietFrame, QuietRespects

(* The lock of packed-refs is taken, or not.                                 *)
LEMMA PackLockGood ==
    ASSUME TypeOK, ~OptimizeAuto, NEW p \in Packers, PackInv(p), PackLock(p) \/ PackGiveUp(p)
    PROVE  PackGood(p)
<1>0. p \in Procs /\ p \notin Txns /\ Free \notin Procs
    BY Kinds
<1>1. /\ pc[p] = "idle"
      /\ UNCHANGED <<loose, packed, log, reflock, pnew, want, expect, allow, asked,
                     prev, isloose, tries, result, st, pack, faults>>
      /\ \/ plock = Free /\ plock' = p /\ Goes(p, "locked")
         \/ plock' = plock /\ Goes(p, "done")
    BY PackGoes DEF PackLock, PackGiveUp, disk, locks, request, found, reader, PackPCs
<1>2. LockOK' /\ PackOK' /\ StatusOK' /\ faults' \in 0..MaxFaults
    BY <1>0, <1>1, TypeParts DEF LockOK, PackOK, StatusOK, RestOK
<1>3. TypesNext /\ Frame(p) /\ Respects(p)
    BY <1>0, <1>1, <1>2, PackQuiet DEF Goes
<1>4. CASE Goes(p, "done")
    BY <1>1, <1>3, <1>4, PackStops DEF PackGood, Goes
<1>5. CASE plock' = p /\ Goes(p, "locked")
    <2>1. pc'[p] = "locked"
        BY <1>5 DEF Goes
    <2>2. \A x \in Refs : PackRef(p, x)' /\ HoldsRef(p, x)'
        BY <1>1, <2>1 DEF PackInv, PackRef, PackAt, HoldsRef, Working
    <2>3. PackFile(p)' /\ HoldsPacked(p)'
        BY <1>5, <2>1 DEF PackFile, HoldsPacked
    <2> QED
        BY <1>3, <2>2, <2>3 DEF PackGood, PackInv
<1> QED
    BY <1>1, <1>4, <1>5

LEMMA PackListGood ==
    ASSUME TypeOK, ~OptimizeAuto, NEW p \in Packers, PackInv(p), PackList(p)
    PROVE  PackGood(p)
<1>0. p \in Procs
    BY Kinds
<1>1. /\ pc[p] = "locked" /\ Goes(p, "scan")
      /\ st' = [st EXCEPT ![p] = [r \in Refs |-> IF loose[r] # None THEN "listed" ELSE "done"]]
      /\ UNCHANGED <<loose, packed, log, reflock, plock, pnew, want, expect, allow, asked,
                     prev, isloose, tries, result, pack, faults>>
    BY PackGoes DEF PackList, disk, locks, request, found, reader, PackPCs
<1>2. /\ StatusOK' /\ \A u \in Procs \ {p} : st'[u] = st[u]
      /\ \A x \in Refs : st'[p][x] \in {"listed", "done"}
    <2>1. [r \in Refs |-> IF loose[r] # None THEN "listed" ELSE "done"] \in [Refs -> Statuses]
        BY DEF Statuses
    <2> QED
        BY <1>0, <1>1, <2>1, TypeParts DEF StatusOK
<1>3. LockOK' /\ PackOK' /\ faults' \in 0..MaxFaults
    BY <1>1, TypeParts DEF LockOK, PackOK, RestOK
<1>4. TypesNext /\ Frame(p) /\ Respects(p)
    BY <1>0, <1>1, <1>2, <1>3, PackQuiet DEF Goes
<1>5. pc'[p] = "scan" /\ plock' = p
    BY <1>1 DEF Goes, PackInv, HoldsPacked, NeedsPacked
<1>6. \A x \in Refs : PackRef(p, x)' /\ HoldsRef(p, x)'
    BY <1>2, <1>5 DEF PackRef, PackAt, HoldsRef, Working
<1>7. PackFile(p)' /\ HoldsPacked(p)'
    BY <1>5 DEF PackFile, HoldsPacked
<1> QED
    BY <1>4, <1>6, <1>7 DEF PackGood, PackInv

(* What PackRead reads.                                                      *)
LEMMA PackReadFacts ==
    ASSUME TypeOK, ~OptimizeAuto, NEW p \in Packers, PackInv(p), NEW r \in Refs, PackRead(p, r)
    PROVE  /\ pc[p] = "scan" /\ pc' = pc /\ plock = p /\ st[p][r] = "listed"
           /\ UNCHANGED <<loose, packed, log, reflock, plock, pnew, want, expect, allow, asked,
                          prev, isloose, tries, result, faults>>
           /\ PackOK' /\ pack'[p][r] = Value(r)
           /\ \A x \in Refs \ {r} : pack'[p][x] = pack[p][x]
           /\ \A u \in Packers \ {p} : pack'[u] = pack[u]
           /\ Marks(p, r, IF Value(r) = None THEN "done" ELSE "read")
<1>0. p \in Procs /\ p \notin Txns
    BY Kinds
<1>1. /\ pc[p] \in {"count", "scan"} /\ pc' = pc /\ st[p][r] = "listed"
      /\ pack' = [pack EXCEPT ![p][r] = Value(r)]
      /\ Mark(p, r, IF Value(r) = None THEN "done" ELSE "read")
      /\ UNCHANGED <<loose, packed, log, reflock, plock, pnew, want, expect, allow, asked,
                     prev, isloose, tries, result, faults>>
    BY DEF PackRead, disk, locks, request, found, reader
<1>2. Value(r) \in Value0
    BY TypeParts DEF Value, DiskOK
<1>3. /\ PackOK' /\ pack'[p][r] = Value(r) /\ \A x \in Refs \ {r} : pack'[p][x] = pack[p][x]
      /\ \A u \in Packers \ {p} : pack'[u] = pack[u]
    BY <1>1, <1>2, TypeParts DEF PackOK
<1>4. Marks(p, r, IF Value(r) = None THEN "done" ELSE "read")
    BY <1>0, <1>1, MarkMarks DEF Statuses
<1>5. pc[p] = "scan" /\ plock = p
    BY <1>1 DEF PackInv, PackRef, PackAt, HoldsPacked, NeedsPacked
<1> QED
    BY <1>1, <1>3, <1>4, <1>5

LEMMA PackReadGood ==
    ASSUME TypeOK, ~OptimizeAuto, NEW p \in Packers, PackInv(p), NEW r \in Refs, PackRead(p, r)
    PROVE  PackGood(p)
<1>0. p \in Procs
    BY Kinds
<1>1. /\ pc[p] = "scan" /\ pc' = pc /\ plock = p
      /\ UNCHANGED <<loose, packed, log, reflock, plock, pnew, want, expect, allow, asked,
                     prev, isloose, tries, result, faults>>
      /\ PackOK' /\ pack'[p][r] = Value(r)
      /\ \A x \in Refs \ {r} : pack'[p][x] = pack[p][x]
      /\ \A u \in Packers \ {p} : pack'[u] = pack[u]
      /\ Marks(p, r, IF Value(r) = None THEN "done" ELSE "read")
    BY PackReadFacts
<1>2. PlaceOK' /\ LockOK' /\ StatusOK' /\ faults' \in 0..MaxFaults
    BY <1>1, TypeParts DEF PlaceOK, LockOK, RestOK, Marks
<1>3. TypesNext /\ Frame(p) /\ Respects(p)
    BY <1>0, <1>1, <1>2, PackQuiet DEF Marks
<1>4. \A x \in Refs : PackRef(p, x)' /\ HoldsRef(p, x)'
    BY <1>1 DEF PackInv, PackRef, PackAt, HoldsRef, Marks, Working
<1>5. PackFile(p)' /\ HoldsPacked(p)'
    BY <1>1 DEF PackFile, HoldsPacked
<1> QED
    BY <1>3, <1>4, <1>5 DEF PackGood, PackInv

LEMMA PackWriteGood ==
    ASSUME TypeOK, NEW p \in Packers, PackInv(p), PackWrite(p)
    PROVE  PackGood(p)
<1>0. p \in Procs /\ p \notin Txns /\ Free \notin Procs
    BY Kinds
<1>1. /\ pc[p] = "scan" /\ plock = p /\ NoneAt(p, "listed")
      /\ UNCHANGED <<loose, packed, log, reflock, want, expect, allow, asked,
                     prev, isloose, tries, result, st, pack>>
      /\ \/ /\ pnew' = [pnew EXCEPT ![p] = PackedWith(p)] /\ Goes(p, "written")
            /\ plock' = plock /\ faults' = faults
         \/ pnew' = pnew /\ Goes(p, "done") /\ plock' = Free /\ faults' \in 0..MaxFaults
    <2>1. plock = p
        BY DEF PackWrite, PackInv, HoldsPacked, NeedsPacked
    <2> QED
        BY <2>1, PackGoes, FaultTypes
           DEF PackWrite, AllRead, NoFault, disk, request, found, reader, PackPCs
<1>2. PackedWith(p) \in [Refs -> Value0]
    BY TypeParts DEF PackedWith, PackOK, DiskOK
<1>3. /\ PlaceOK' /\ LockOK' /\ StatusOK' /\ PackOK' /\ faults' \in 0..MaxFaults
      /\ \A u \in Procs \ {p} : pnew'[u] = pnew[u]
    BY <1>0, <1>1, <1>2, TypeParts DEF Goes, LockOK, StatusOK, PackOK, RestOK
<1>4. TypesNext /\ Frame(p) /\ Respects(p)
    BY <1>0, <1>1, <1>3, PackQuiet DEF Goes
<1>5. CASE Goes(p, "done")
    BY <1>1, <1>4, <1>5, PackStops DEF PackGood, Goes
<1>6. CASE pnew' = [pnew EXCEPT ![p] = PackedWith(p)] /\ Goes(p, "written") /\ plock' = plock
    <2>1. pc'[p] = "written" /\ pnew'[p] = PackedWith(p) /\ PackedWith(p) # NoFile
        BY <1>0, <1>2, <1>6, KindsAssumption, TypeParts DEF Goes, LockOK
    <2>2. \A x \in Refs : PackRef(p, x)' /\ HoldsRef(p, x)'
        BY <1>1, <2>1 DEF PackInv, PackRef, PackAt, NoneAt, HoldsRef, Working
    <2>3. PackFile(p)' /\ HoldsPacked(p)'
        BY <1>1, <1>6, <2>1 DEF PackFile, PackedWith, HoldsPacked
    <2> QED
        BY <1>4, <2>2, <2>3 DEF PackGood, PackInv
<1> QED
    BY <1>1, <1>5, <1>6

(* The rename of packed-refs.new, done.                                      *)
PackInstalls(p) ==
    /\ pc[p] = "written" /\ Goto(p, "committed")
    /\ packed' = pnew[p] /\ pnew' = [pnew EXCEPT ![p] = NoFile]
    /\ UNCHANGED <<loose, log, reflock, plock, request, found, reader, st, pack, faults>>

(* The rename of packed-refs.new, failed.                                    *)
PackCommitFails(p) ==
    /\ pc[p] = "written" /\ Goto(p, "done") /\ plock' = Free /\ Fault("rename")
    /\ pnew' = [pnew EXCEPT ![p] = NoFile]
    /\ UNCHANGED <<disk, reflock, request, found, reader, st, pack>>

LEMMA PackCommitCases ==
    ASSUME NEW p \in Packers, PackCommit(p)
    PROVE  PackInstalls(p) \/ PackCommitFails(p)
BY DEF PackCommit, PackInstalls, PackCommitFails, NoFault, disk

(* Packing changes no value.                                                 *)
LEMMA PackCommitFacts ==
    ASSUME TypeOK, NEW p \in Packers, PackInv(p), \A x \in Refs : Current(p, x), PackInstalls(p)
    PROVE  /\ pc[p] = "written" /\ plock = p /\ Goes(p, "committed")
           /\ pnew' = [pnew EXCEPT ![p] = NoFile] /\ packed' = pnew[p] /\ pnew[p] # NoFile
           /\ UNCHANGED <<loose, log, reflock, plock, want, expect, allow, asked,
                          prev, isloose, tries, result, st, pack, faults>>
           /\ packed' \in [Refs -> Value0]
           /\ \A x \in Refs :
                /\ packed'[x] = IF st[p][x] = "read" THEN pack[p][x] ELSE packed[x]
                /\ Value(x)' = Value(x)
<1>0. p \in Procs
    BY Kinds
<1>1. /\ pc[p] = "written" /\ Goes(p, "committed")
      /\ pnew' = [pnew EXCEPT ![p] = NoFile] /\ packed' = pnew[p]
      /\ UNCHANGED <<loose, log, reflock, plock, want, expect, allow, asked,
                     prev, isloose, tries, result, st, pack, faults>>
    BY PackGoes DEF PackInstalls, request, found, reader, PackPCs
<1>2. plock = p /\ pnew[p] # NoFile
    BY <1>1 DEF PackInv, PackFile, HoldsPacked, NeedsPacked
<1>3. packed' \in [Refs -> Value0]
    BY <1>0, <1>1, <1>2, TypeParts DEF LockOK
<1>4. ASSUME NEW x \in Refs
      PROVE  packed'[x] = IF st[p][x] = "read" THEN pack[p][x] ELSE packed[x]
    BY <1>1 DEF PackInv, PackFile
<1>5. ASSUME NEW x \in Refs PROVE Value(x)' = Value(x)
    BY <1>1, <1>4 DEF Current, Packing, Newer, Value
<1> QED
    BY <1>1, <1>2, <1>3, <1>4, <1>5

LEMMA PackCommitFailsGood ==
    ASSUME TypeOK, NEW p \in Packers, PackInv(p), PackCommitFails(p)
    PROVE  PackGood(p)
<1>0. p \in Procs /\ p \notin Txns /\ Free \notin Procs
    BY Kinds
<1>1. /\ plock = p
      /\ UNCHANGED <<loose, packed, log, reflock, want, expect, allow, asked,
                     prev, isloose, tries, result, st, pack>>
      /\ pnew' = [pnew EXCEPT ![p] = NoFile] /\ Goes(p, "done")
      /\ plock' = Free /\ faults' \in 0..MaxFaults
    <2>1. plock = p
        BY DEF PackCommitFails, PackInv, HoldsPacked, NeedsPacked
    <2> QED
        BY <2>1, PackGoes, FaultTypes
           DEF PackCommitFails, disk, request, found, reader, PackPCs
<1>2. /\ PlaceOK' /\ LockOK' /\ StatusOK' /\ PackOK' /\ faults' \in 0..MaxFaults
      /\ \A u \in Procs \ {p} : pnew'[u] = pnew[u]
    BY <1>0, <1>1, TypeParts DEF Goes, LockOK, StatusOK, PackOK, RestOK
<1>3. TypesNext /\ Frame(p) /\ Respects(p)
    BY <1>0, <1>1, <1>2, PackQuiet DEF Goes
<1> QED
    BY <1>1, <1>3, PackStops DEF PackGood, Goes

LEMMA PackCommitGood ==
    ASSUME TypeOK, NEW p \in Packers, PackInv(p), \A x \in Refs : Current(p, x), PackInstalls(p)
    PROVE  PackGood(p)
<1>0. p \in Procs
    BY Kinds
<1>1. /\ pc[p] = "written" /\ plock = p /\ Goes(p, "committed")
      /\ pnew' = [pnew EXCEPT ![p] = NoFile] /\ packed' \in [Refs -> Value0]
      /\ UNCHANGED <<loose, log, reflock, plock, want, expect, allow, asked,
                     prev, isloose, tries, result, st, pack, faults>>
      /\ \A x \in Refs : Value(x)' = Value(x)
    BY PackCommitFacts
<1>2. LockOK' /\ \A u \in Procs \ {p} : pnew'[u] = pnew[u]
    BY <1>1, TypeParts DEF LockOK
<1>3. TypesNext
    BY <1>1, <1>2, TypeParts DEF TypesNext, Goes, StatusOK, DiskOK, RequestOK, FoundOK,
                                 PackOK, ReaderOK, RestOK
<1>4. Frame(p)
    BY <1>0, <1>1, <1>2, QuietFrame DEF Goes
<1>5. Respects(p)
    BY <1>1 DEF Respects
<1>6. pc'[p] = "committed"
    BY <1>1 DEF Goes
<1>7. \A x \in Refs : PackRef(p, x)' /\ HoldsRef(p, x)'
    BY <1>1, <1>6 DEF PackInv, PackRef, PackAt, HoldsRef, Working
<1>8. PackFile(p)' /\ HoldsPacked(p)'
    BY <1>1, <1>6 DEF PackFile, HoldsPacked
<1> QED
    BY <1>3, <1>4, <1>5, <1>7, <1>8 DEF PackGood, PackInv

LEMMA PackUnlockGood ==
    ASSUME TypeOK, NEW p \in Packers, PackInv(p), PackUnlock(p)
    PROVE  PackGood(p)
<1>0. p \in Procs /\ p \notin Txns /\ Free \notin Procs
    BY Kinds
<1>1. /\ pc[p] = "committed" /\ plock = p /\ plock' = Free /\ Goes(p, "prune")
      /\ UNCHANGED <<loose, packed, log, reflock, pnew, want, expect, allow, asked,
                     prev, isloose, tries, result, pack, faults>>
      /\ st' = st \/ st' = [st EXCEPT ![p] = [r \in Refs |-> "done"]]
    BY PackGoes DEF PackUnlock, PackInv, HoldsPacked, NeedsPacked,
                    disk, request, found, reader, PackPCs
<1>2. /\ StatusOK' /\ \A u \in Procs \ {p} : st'[u] = st[u]
      /\ \A x \in Refs : st'[p][x] \in {st[p][x], "done"}
    <2>1. [r \in Refs |-> "done"] \in [Refs -> Statuses]
        BY DEF Statuses
    <2> QED
        BY <1>0, <1>1, <2>1, TypeParts DEF StatusOK
<1>3. LockOK' /\ PackOK' /\ faults' \in 0..MaxFaults
    BY <1>1, TypeParts DEF LockOK, PackOK, RestOK
<1>4. TypesNext /\ Frame(p) /\ Respects(p)
    BY <1>0, <1>1, <1>2, <1>3, PackQuiet DEF Goes
<1>5. pc'[p] = "prune"
    BY <1>1 DEF Goes
<1>6. \A x \in Refs : PackRef(p, x)' /\ HoldsRef(p, x)'
    BY <1>1, <1>2, <1>5 DEF PackInv, PackRef, PackAt, HoldsRef, Held, Checks
<1>7. PackFile(p)' /\ HoldsPacked(p)'
    BY <1>0, <1>5 DEF PackFile, HoldsPacked, NeedsPacked
<1> QED
    BY <1>4, <1>6, <1>7 DEF PackGood, PackInv

(* Steps of prune_ref that mark one ref and leave the store's files alone.   *)
LEMMA PruneMarks ==
    ASSUME TypeOK, NEW p \in Packers, PackInv(p), NEW r \in Refs,
           NEW s \in {"locked", "ready", "unlinked", "done"}, pc[p] = "prune",
           Marks(p, r, s), LockOK',
           UNCHANGED <<loose, packed, log, plock, pnew, want, expect, allow, asked, pc,
                       prev, isloose, tries, result, pack, faults>>,
           \A x \in Refs \ {r} : reflock'[x] = reflock[x],
           reflock[r] \in Procs \ {p} => reflock'[r] = reflock[r],
           s # "done" => reflock'[r] = p,
           s \in {"locked", "ready"} => pack[p][r] # None,
           s = "ready" => loose[r] = pack[p][r]
    PROVE  PackGood(p)
<1>0. p \in Procs /\ p \notin Txns
    BY Kinds
<1>1. PlaceOK' /\ PackOK' /\ StatusOK' /\ faults' \in 0..MaxFaults
    BY TypeParts DEF PlaceOK, PackOK, RestOK, Marks
<1>2. TypesNext /\ Frame(p) /\ Respects(p)
    BY <1>0, <1>1, PackQuiet DEF Marks
<1>3. ASSUME NEW x \in Refs PROVE PackRef(p, x)' /\ HoldsRef(p, x)'
    <2>1. PackRef(p, x) /\ HoldsRef(p, x)
        BY DEF PackInv
    <2>2. CASE x = r
        <3>1. st'[p][x] = s /\ pc'[p] = "prune"
            BY <2>2 DEF Marks
        <3>2. PackAt("prune", s)
            BY DEF PackAt
        <3> QED
            BY <2>2, <3>1, <3>2 DEF PackRef, HoldsRef, Held, Checks
    <2>3. CASE x # r
        BY <2>1, <2>3 DEF Marks, PackRef, HoldsRef
    <2> QED
        BY <2>2, <2>3
<1>4. PackFile(p)' /\ HoldsPacked(p)'
    BY <1>0 DEF PackFile, HoldsPacked, NeedsPacked
<1> QED
    BY <1>2, <1>3, <1>4 DEF PackGood, PackInv

LEMMA PruneLockGood ==
    ASSUME TypeOK, NEW p \in Packers, PackInv(p), NEW r \in Refs,
           PruneLock(p, r) \/ PruneCheck(p, r) \/ PruneUnlock(p, r)
    PROVE  PackGood(p)
<1>0. p \in Procs /\ Free \notin Procs
    BY Kinds
<1>1. /\ pc[p] = "prune"
      /\ UNCHANGED <<loose, packed, log, plock, pnew, want, expect, allow, asked, pc,
                     prev, isloose, tries, result, pack, faults>>
    BY DEF PruneLock, PruneCheck, PruneUnlock, disk, locks, request, found, reader
<1>2. /\ st[p][r] \in {"read", "locked", "ready"} => pack[p][r] # None
      /\ st[p][r] \in {"locked", "unlinked"} => reflock[r] = p
    BY <1>1 DEF PackInv, PackRef, HoldsRef, Working, Held
<1>3. CASE PruneLock(p, r)
    <2>1. /\ st[p][r] = "read"
          /\ \/ reflock[r] = Free /\ reflock' = [reflock EXCEPT ![r] = p] /\ Mark(p, r, "locked")
             \/ reflock' = reflock /\ Mark(p, r, "done")
        BY <1>3 DEF PruneLock
    <2>2. /\ LockOK' /\ \A x \in Refs \ {r} : reflock'[x] = reflock[x]
          /\ reflock[r] \in Procs \ {p} => reflock'[r] = reflock[r]
        BY <1>0, <1>1, <2>1, TypeParts DEF LockOK
    <2>3. CASE reflock' = reflock /\ Mark(p, r, "done")
        <3>1. Marks(p, r, "done")
            BY <1>0, <2>3, MarkMarks DEF Statuses
        <3> QED
            BY <1>1, <2>2, <3>1, PruneMarks
    <2>4. CASE reflock' = [reflock EXCEPT ![r] = p] /\ Mark(p, r, "locked")
        <3>1. Marks(p, r, "locked") /\ reflock'[r] = p
            BY <1>0, <2>4, MarkMarks, TypeParts DEF LockOK, Statuses
        <3> QED
            BY <1>1, <1>2, <2>1, <2>2, <3>1, PruneMarks
    <2> QED
        BY <2>1, <2>3, <2>4
<1>4. CASE PruneCheck(p, r)
    <2>1. /\ st[p][r] = "locked" /\ reflock' = reflock
          /\ \/ PruneMatches(p, r) /\ Marks(p, r, "ready")
             \/ Marks(p, r, "unlinked")
        BY <1>0, <1>4, MarkMarks DEF PruneCheck, locks, Statuses
    <2>2. LockOK' /\ reflock'[r] = p
        BY <1>1, <1>2, <2>1, TypeParts DEF LockOK
    <2> QED
        BY <1>1, <1>2, <2>1, <2>2, PruneMarks DEF PruneMatches
<1>5. CASE PruneUnlock(p, r)
    <2>1. /\ st[p][r] = "unlinked" /\ reflock' = [reflock EXCEPT ![r] = Free]
          /\ Marks(p, r, "done")
        BY <1>0, <1>5, MarkMarks DEF PruneUnlock, Statuses
    <2>2. LockOK' /\ \A x \in Refs \ {r} : reflock'[x] = reflock[x]
        BY <1>1, <2>1, TypeParts DEF LockOK
    <2> QED
        BY <1>0, <1>1, <1>2, <2>1, <2>2, PruneMarks
<1> QED
    BY <1>3, <1>4, <1>5

(* What pruning removes, and the deletion that it may complete.              *)
LEMMA PruneUnlinkFacts ==
    ASSUME TypeOK, ProcInv, NEW p \in Packers, NEW r \in Refs, PruneUnlink(p, r)
    PROVE  /\ pc[p] = "prune" /\ st[p][r] = "ready" /\ reflock[r] = p /\ loose[r] = pack[p][r]
           /\ loose[r] # None /\ DiskOK' /\ StatusOK' /\ faults' \in 0..MaxFaults
           /\ UNCHANGED <<packed, log, reflock, plock, pnew, want, expect, allow, asked,
                          prev, isloose, tries, result, pc, pack>>
           /\ st'[p][r] = "unlinked" /\ \A x \in Refs \ {r} : loose'[x] = loose[x]
           /\ \A u \in Procs : \A x \in Refs \ {r} : st'[u][x] = st[u][x]
           /\ \/ /\ loose'[r] = loose[r] /\ "unlink" \in Faults
                 /\ \A u \in Procs \ {p} : st'[u] = st[u]
              \/ /\ loose'[r] = None /\ ~(packed[r] = None /\ HalfDeleted(r))
                 /\ \A u \in Procs \ {p} : st'[u] = st[u]
              \/ /\ loose'[r] = None /\ packed[r] = None
                 /\ \E t \in Txns : /\ Half(t, r) /\ pc[t] \notin Working
                                    /\ st'[t][r] = "late"
                                    /\ \A u \in Procs \ {p, t} : st'[u] = st[u]
<1>0. p \in Procs /\ p \notin Txns /\ None \in Value0
    BY Kinds DEF Value0
<1>1. /\ pc[p] = "prune" /\ st[p][r] = "ready"
      /\ UNCHANGED <<packed, log, reflock, plock, pnew, want, expect, allow, asked,
                     prev, isloose, tries, result, pc, pack>>
    BY DEF PruneUnlink, locks, request, found, reader
<1>2. reflock[r] = p /\ loose[r] = pack[p][r] /\ loose[r] # None
    BY <1>1 DEF ProcInv, PackInv, PackRef, HoldsRef, Working, Held, Checks
<1>3. CASE Fault("unlink") /\ UNCHANGED loose /\ Mark(p, r, "unlinked")
    <2>1. Marks(p, r, "unlinked") /\ faults' \in 0..MaxFaults /\ "unlink" \in Faults
        BY <1>0, <1>3, MarkMarks, FaultTypes DEF Statuses
    <2>2. DiskOK'
        BY <1>1, <1>3, TypeParts DEF DiskOK
    <2> QED
        BY <1>1, <1>2, <1>3, <2>1, <2>2 DEF Marks
<1>4. ASSUME loose' = [loose EXCEPT ![r] = None], NoFault
      PROVE  /\ DiskOK' /\ loose'[r] = None /\ \A x \in Refs \ {r} : loose'[x] = loose[x]
             /\ faults' \in 0..MaxFaults
    BY <1>0, <1>1, <1>4, TypeParts DEF DiskOK, RestOK, NoFault
<1>5. CASE /\ loose' = [loose EXCEPT ![r] = None] /\ NoFault
           /\ ~(packed[r] = None /\ HalfDeleted(r)) /\ Mark(p, r, "unlinked")
    <2>1. Marks(p, r, "unlinked")
        BY <1>0, <1>5, MarkMarks DEF Statuses
    <2> QED
        BY <1>1, <1>2, <1>4, <1>5, <2>1 DEF Marks
<1>6. ASSUME loose' = [loose EXCEPT ![r] = None], NoFault, packed[r] = None,
             NEW t \in Txns, Half(t, r),
             st' = [st EXCEPT ![p][r] = "unlinked", ![t][r] = "late"]
      PROVE  /\ StatusOK' /\ st'[p][r] = "unlinked" /\ st'[t][r] = "late"
             /\ \A u \in Procs : \A x \in Refs \ {r} : st'[u][x] = st[u][x]
             /\ \A u \in Procs \ {p, t} : st'[u] = st[u]
             /\ pc[t] \notin Working
    <2>1. t \in Procs /\ t # p
        BY <1>0, Kinds
    <2>2. /\ StatusOK' /\ st'[p][r] = "unlinked" /\ st'[t][r] = "late"
          /\ \A u \in Procs : \A x \in Refs \ {r} : st'[u][x] = st[u][x]
          /\ \A u \in Procs \ {p, t} : st'[u] = st[u]
        BY <1>0, <1>6, <2>1, TypeParts DEF StatusOK, Statuses
    <2>3. pc[t] \notin Working
        BY <1>2, <1>6, <2>1 DEF Half, ProcInv, TxnInv, HoldsRef, Held, Checks
    <2> QED
        BY <2>2, <2>3
<1>7. \/ Fault("unlink") /\ UNCHANGED loose /\ Mark(p, r, "unlinked")
      \/ /\ loose' = [loose EXCEPT ![r] = None] /\ NoFault
         /\ ~(packed[r] = None /\ HalfDeleted(r)) /\ Mark(p, r, "unlinked")
      \/ /\ loose' = [loose EXCEPT ![r] = None] /\ NoFault /\ packed[r] = None
         /\ \E t \in Txns : /\ Half(t, r)
                            /\ st' = [st EXCEPT ![p][r] = "unlinked", ![t][r] = "late"]
    BY DEF PruneUnlink
<1> QED
    BY <1>1, <1>2, <1>3, <1>4, <1>5, <1>6, <1>7

LEMMA PruneUnlinkGood ==
    ASSUME TypeOK, ProcInv, NEW p \in Packers, NEW r \in Refs, PruneUnlink(p, r)
    PROVE  PackGood(p)
<1>0. p \in Procs /\ p \notin Txns
    BY Kinds
<1>1. /\ pc[p] = "prune" /\ reflock[r] = p /\ DiskOK' /\ StatusOK' /\ faults' \in 0..MaxFaults
      /\ UNCHANGED <<packed, log, reflock, plock, pnew, want, expect, allow, asked,
                     prev, isloose, tries, result, pc, pack>>
      /\ st'[p][r] = "unlinked" /\ \A x \in Refs \ {r} : loose'[x] = loose[x]
      /\ \A u \in Procs : \A x \in Refs \ {r} : st'[u][x] = st[u][x]
    BY PruneUnlinkFacts
<1>2. ASSUME NEW u \in Procs \ {p}, st'[u][r] # st[u][r]
      PROVE  st[u][r] = "unpacked" /\ st'[u][r] = "late" /\ u \in Txns /\ pc[u] \notin Working
    BY <1>2, PruneUnlinkFacts DEF Half
<1>3. TypesNext
    BY <1>1, TypeParts DEF TypesNext, PlaceOK, LockOK, RequestOK, FoundOK, PackOK, ReaderOK
<1>4. Frame(p)
    BY <1>1, <1>2 DEF Frame
<1>5. Respects(p)
    BY <1>1 DEF Respects, Value
<1>6. ASSUME NEW x \in Refs PROVE PackRef(p, x)' /\ HoldsRef(p, x)'
    <2>1. PackRef(p, x) /\ HoldsRef(p, x)
        BY DEF ProcInv, PackInv
    <2>2. CASE x = r
        BY <1>1, <2>2 DEF PackRef, PackAt, HoldsRef
    <2>3. CASE x # r
        BY <1>0, <1>1, <2>1, <2>3 DEF PackRef, HoldsRef
    <2> QED
        BY <2>2, <2>3
<1>7. PackFile(p)' /\ HoldsPacked(p)'
    BY <1>0, <1>1 DEF PackFile, HoldsPacked, NeedsPacked
<1> QED
    BY <1>3, <1>4, <1>5, <1>6, <1>7 DEF PackGood, PackInv

LEMMA PackDoneGood ==
    ASSUME TypeOK, NEW p \in Packers, PackInv(p), PackDone(p)
    PROVE  /\ PackGood(p) /\ pack'[p] = [r \in Refs |-> None] /\ pc'[p] = "done"
           /\ \A x \in Refs : st[p][x] = "done" /\ st'[p][x] = "skip"
<1>0. p \in Procs /\ p \notin Txns /\ None \in Value0
    BY Kinds DEF Value0
<1>1. /\ pc[p] = "prune" /\ \A x \in Refs : st[p][x] = "done"
      /\ Goes(p, "done")
      /\ st' = [st EXCEPT ![p] = [r \in Refs |-> "skip"]]
      /\ pack' = [pack EXCEPT ![p] = [r \in Refs |-> None]]
      /\ UNCHANGED <<loose, packed, log, reflock, plock, pnew, want, expect, allow, asked,
                     prev, isloose, tries, result, faults>>
    BY PackGoes DEF PackDone, disk, locks, request, found, reader, PackPCs
<1>2. /\ StatusOK' /\ \A u \in Procs \ {p} : st'[u] = st[u]
      /\ \A x \in Refs : st'[p][x] = "skip"
    <2>1. [r \in Refs |-> "skip"] \in [Refs -> Statuses]
        BY DEF Statuses
    <2> QED
        BY <1>0, <1>1, <2>1, TypeParts DEF StatusOK
<1>3. /\ PackOK' /\ \A u \in Packers \ {p} : pack'[u] = pack[u]
      /\ pack'[p] = [r \in Refs |-> None]
    <2>1. [r \in Refs |-> None] \in [Refs -> Value0]
        BY <1>0
    <2> QED
        BY <1>1, <2>1, TypeParts DEF PackOK
<1>4. LockOK' /\ faults' \in 0..MaxFaults
    BY <1>1, TypeParts DEF LockOK, RestOK
<1>5. TypesNext /\ Frame(p) /\ Respects(p)
    BY <1>0, <1>1, <1>2, <1>3, <1>4, PackQuiet DEF Goes
<1>6. pc'[p] = "done"
    BY <1>1 DEF Goes
<1>7. \A x \in Refs : PackRef(p, x)' /\ HoldsRef(p, x)'
    BY <1>2, <1>6 DEF PackRef, PackAt, HoldsRef, Working
<1>8. PackFile(p)' /\ HoldsPacked(p)'
    BY <1>0, <1>6 DEF PackFile, HoldsPacked, NeedsPacked
<1> QED
    BY <1>1, <1>2, <1>3, <1>5, <1>6, <1>7, <1>8 DEF PackGood, PackInv

-----------------------------------------------------------------------------
(* Steps that leave the store as it is. *)

Interrupts == Faults \cap {"kill", "unlink"} # {}

(* A step of the transaction t that only prepares, or gives up.              *)
TxnCalm(t) ==
    /\ UNCHANGED <<loose, packed, pack, want, expect, asked>>
    /\ \A u \in Procs \ {t} : st'[u] = st[u] /\ pnew'[u] = pnew[u]
    /\ \A u \in (Procs \cup Readers) \ {t} : pc'[u] = pc[u]
    /\ \A u \in Txns, x \in Refs : st[u][x] = "unpacked" => prev'[u][x] = prev[u][x]
    /\ \A x \in Refs :
         \/ st'[t][x] = st[t][x]
         \/ /\ st[t][x] \in {"todo", "locked", "ready", "logged"}
            /\ st'[t][x] \in {"locked", "ready", "logged", "unlogged", "rejected", "done"}
            /\ st'[t][x] = "done" => want[t][x] # None
    /\ \/ pnew'[t] \in {pnew[t], NoFile}
       \/ \A x \in Refs : pnew'[t][x] \in {packed[x], None}
    /\ pc[t] = "unlink" => pc'[t] = "unlink" \/ NoneAt(t, "unpacked") \/ Interrupts

LEMMA LockRefCalm ==
    ASSUME TypeOK, NEW t \in Txns, NEW r \in Refs, LockRef(t, r) \/ LockRefTimeout(t, r)
    PROVE  TxnCalm(t)
<1>0. t \in Procs
    BY Kinds
<1>1. /\ pc[t] = "lock" /\ st[t][r] = "todo"
      /\ UNCHANGED <<loose, packed, pnew, want, expect, asked, prev, pack>>
      /\ \/ pc' = pc /\ (Marks(t, r, "rejected") \/ Marks(t, r, "locked"))
         \/ Goes(t, "undo") /\ UNCHANGED st
    BY <1>0, MarkMarks, TxnGoes
       DEF LockRef, LockRefTimeout, Reject, disk, locks, request, found, Statuses, TxnPCs
<1> QED
    BY <1>0, <1>1 DEF TxnCalm, Marks, Goes

LEMMA CheckRefCalm ==
    ASSUME TypeOK, NEW t \in Txns, NEW r \in Refs, CheckRef(t, r)
    PROVE  TxnCalm(t)
<1>0. t \in Procs /\ Keep # None
    BY Kinds
<1>1. /\ pc[t] = "lock" /\ st[t][r] = "locked"
      /\ UNCHANGED <<loose, packed, pnew, want, expect, asked, pack>>
      /\ prev' = [prev EXCEPT ![t][r] = Value(r)]
      /\ \/ pc' = pc /\ (Marks(t, r, "rejected") \/ Marks(t, r, "ready"))
         \/ pc' = pc /\ Marks(t, r, "done") /\ want[t][r] # None
         \/ Goes(t, "undo") /\ UNCHANGED st
    BY <1>0, MarkMarks, TxnGoes DEF CheckRef, Reject, disk, request, Statuses, TxnPCs
<1>2. \A u \in Txns, x \in Refs : st[u][x] = "unpacked" => prev'[u][x] = prev[u][x]
    BY <1>1, TypeParts DEF FoundOK
<1> QED
    BY <1>0, <1>1, <1>2 DEF TxnCalm, Marks, Goes

LEMMA PrepareCalm ==
    ASSUME TypeOK, NEW t \in Txns, LockPacked(t) \/ WritePacked(t) \/ Abort(t) \/ Finish(t)
    PROVE  TxnCalm(t)
<1>0. t \in Procs
    BY Kinds
<1>1. /\ pc[t] \in {"lock", "pwrite", "prepared"}
      /\ \E l \in TxnPCs : Goes(t, l)
      /\ UNCHANGED <<loose, packed, want, expect, asked, prev, pack, st>>
      /\ \/ pnew' = pnew
         \/ /\ pnew' = [pnew EXCEPT ![t] =
                          IF \E r \in Refs : Deleting(t, r) /\ packed[r] # None
                          THEN PackedWithout(t) ELSE NoFile]
    BY TxnGoes DEF LockPacked, WritePacked, Abort, Finish, Checked, Prepared,
                   disk, locks, request, found, TxnPCs
<1>2. pnew'[t] = pnew[t] \/ pnew'[t] = NoFile \/ pnew'[t] = PackedWithout(t)
    BY <1>0, <1>1, TypeParts DEF LockOK
<1>3. \A u \in Procs \ {t} : pnew'[u] = pnew[u]
    BY <1>0, <1>1, TypeParts DEF LockOK
<1>4. \/ pnew'[t] \in {pnew[t], NoFile}
      \/ \A x \in Refs : pnew'[t][x] \in {packed[x], None}
    BY <1>2 DEF PackedWithout
<1> QED
    BY <1>0, <1>1, <1>3, <1>4 DEF TxnCalm, Goes

LEMMA ReflogCalm ==
    ASSUME TypeOK, NEW t \in Txns, NEW r \in Refs, WriteReflog(t, r) \/ DeleteReflog(t, r)
    PROVE  TxnCalm(t)
<1>0. t \in Procs
    BY Kinds
<1>1. /\ pc[t] = "update" /\ st[t][r] = "ready"
      /\ UNCHANGED <<loose, packed, pnew, want, expect, asked, prev, pack>>
      /\ \/ pc' = pc /\ (Marks(t, r, "logged") \/ Marks(t, r, "unlogged"))
         \/ Goes(t, "undo") /\ UNCHANGED st
    BY <1>0, MarkMarks, FailsGoes
       DEF WriteReflog, DeleteReflog, UpdatesDone, Deleting, locks, request, found, Statuses
<1> QED
    BY <1>0, <1>1 DEF TxnCalm, Marks, Goes

LEMMA ReleaseCalm ==
    ASSUME TypeOK, NEW t \in Txns, ReleaseAll(t) \/ \E r \in Refs : ReleaseRef(t, r)
    PROVE  TxnCalm(t)
<1>0. t \in Procs
    BY Kinds
<1>1. /\ pc' = pc \/ (\E l \in TxnPCs : Goes(t, l))
      /\ pc[t] = "unlink" => NoneAt(t, "unpacked")
      /\ UNCHANGED <<loose, packed, want, expect, asked, prev, pack, st>>
      /\ pnew' = pnew \/ pnew' = [pnew EXCEPT ![t] = NoFile]
    BY TxnGoes DEF ReleaseAll, ReleaseRef, Cleanup, disk, locks, request, found, TxnPCs
<1>2. pnew'[t] \in {pnew[t], NoFile} /\ \A u \in Procs \ {t} : pnew'[u] = pnew[u]
    BY <1>0, <1>1, TypeParts DEF LockOK
<1> QED
    BY <1>0, <1>1, <1>2 DEF TxnCalm, Goes

(* A step of pack-refs that only reads, or takes and releases locks.         *)
PackCalm(p) ==
    /\ UNCHANGED <<loose, packed, want, expect, asked, prev>>
    /\ \A u \in Procs \ {p} : st'[u] = st[u] /\ pnew'[u] = pnew[u]
    /\ \A u \in (Procs \cup Readers) \ {p} : pc'[u] = pc[u]
    /\ \A u \in Packers \ {p} : pack'[u] = pack[u]
    /\ \A x \in Refs :
         /\ MayPrune(p, x)' => MayPrune(p, x) /\ pack'[p][x] = pack[p][x]
         /\ Packing(p, x)' => (Packing(p, x) /\ pack'[p][x] = pack[p][x]) \/ pack'[p][x] = Value(x)
         /\ pack'[p][x] \in {pack[p][x], Value(x), None}
    /\ \/ pnew'[p] \in {pnew[p], NoFile}
       \/ \A x \in Refs : pnew'[p][x] \in {pack[p][x], packed[x]}

LEMMA PackLockCalm ==
    ASSUME TypeOK, ~OptimizeAuto, NEW p \in Packers, PackInv(p),
           PackLock(p) \/ PackGiveUp(p) \/ PackList(p) \/ PackUnlock(p)
    PROVE  PackCalm(p)
<1>0. p \in Procs
    BY Kinds
<1>1. /\ UNCHANGED <<loose, packed, pnew, want, expect, asked, prev, pack>>
      /\ \/ pc[p] = "idle" /\ st' = st /\ (Goes(p, "locked") \/ Goes(p, "done"))
         \/ /\ pc[p] = "locked" /\ Goes(p, "scan")
            /\ st' = [st EXCEPT ![p] = [r \in Refs |-> IF loose[r] # None THEN "listed" ELSE "done"]]
         \/ /\ pc[p] = "committed" /\ Goes(p, "prune")
            /\ st' = st \/ st' = [st EXCEPT ![p] = [r \in Refs |-> "done"]]
    BY PackGoes DEF PackLock, PackGiveUp, PackList, PackUnlock, disk, locks, request, found, PackPCs
<1>2. \A u \in Procs \ {p} : st'[u] = st[u]
    BY <1>1, TypeParts DEF StatusOK
<1>3. ASSUME NEW x \in Refs
      PROVE  (MayPrune(p, x)' => MayPrune(p, x)) /\ ~Packing(p, x)'
    <2>1. CASE pc[p] = "idle" /\ (Goes(p, "locked") \/ Goes(p, "done"))
        BY <2>1 DEF MayPrune, Packing, Goes
    <2>2. CASE /\ pc[p] = "locked" /\ Goes(p, "scan")
               /\ st' = [st EXCEPT ![p] = [r \in Refs |-> IF loose[r] # None THEN "listed" ELSE "done"]]
        <3>1. st'[p][x] \in {"listed", "done"}
            BY <1>0, <2>2, TypeParts DEF StatusOK
        <3> QED
            BY <2>2, <3>1 DEF MayPrune, Packing, Goes
    <2>3. CASE /\ pc[p] = "committed" /\ Goes(p, "prune")
               /\ st' = st \/ st' = [st EXCEPT ![p] = [r \in Refs |-> "done"]]
        <3>1. st'[p][x] \in {st[p][x], "done"}
            BY <1>0, <2>3, TypeParts DEF StatusOK
        <3> QED
            BY <2>3, <3>1 DEF MayPrune, Packing, Goes
    <2> QED
        BY <1>1, <2>1, <2>2, <2>3
<1> QED
    BY <1>1, <1>2, <1>3 DEF PackCalm, Goes

LEMMA PackReadCalm ==
    ASSUME TypeOK, ~OptimizeAuto, NEW p \in Packers, PackInv(p), NEW r \in Refs, PackRead(p, r)
    PROVE  PackCalm(p)
<1>1. /\ pc[p] = "scan" /\ pc' = pc
      /\ UNCHANGED <<loose, packed, pnew, want, expect, asked, prev>>
      /\ PackOK' /\ pack'[p][r] = Value(r)
      /\ \A x \in Refs \ {r} : pack'[p][x] = pack[p][x]
      /\ \A u \in Packers \ {p} : pack'[u] = pack[u]
      /\ Marks(p, r, IF Value(r) = None THEN "done" ELSE "read")
    BY PackReadFacts
<1>2. ASSUME NEW x \in Refs
      PROVE  /\ ~MayPrune(p, x)'
             /\ Packing(p, x)' => (Packing(p, x) /\ pack'[p][x] = pack[p][x]) \/ pack'[p][x] = Value(x)
             /\ pack'[p][x] \in {pack[p][x], Value(x)}
    BY <1>1 DEF MayPrune, Packing, Marks
<1> QED
    BY <1>1, <1>2 DEF PackCalm, Marks

LEMMA PackWriteCalm ==
    ASSUME TypeOK, NEW p \in Packers, PackInv(p), PackWrite(p)
    PROVE  PackCalm(p)
<1>0. p \in Procs
    BY Kinds
<1>1. /\ pc[p] = "scan" /\ (Goes(p, "written") \/ Goes(p, "done"))
      /\ UNCHANGED <<loose, packed, want, expect, asked, prev, st, pack>>
      /\ pnew' = pnew \/ pnew' = [pnew EXCEPT ![p] = PackedWith(p)]
    BY PackGoes DEF PackWrite, disk, request, found, PackPCs
<1>2. /\ pnew'[p] = pnew[p] \/ pnew'[p] = PackedWith(p)
      /\ \A u \in Procs \ {p} : pnew'[u] = pnew[u]
    BY <1>0, <1>1, TypeParts DEF LockOK
<1>3. \/ pnew'[p] \in {pnew[p], NoFile}
      \/ \A x \in Refs : pnew'[p][x] \in {pack[p][x], packed[x]}
    BY <1>2 DEF PackedWith
<1>4. \A x \in Refs : ~MayPrune(p, x)' /\ (Packing(p, x)' => Packing(p, x))
    BY <1>1 DEF MayPrune, Packing, Goes
<1> QED
    BY <1>1, <1>2, <1>3, <1>4 DEF PackCalm, Goes

LEMMA PackCommitFailsCalm ==
    ASSUME TypeOK, NEW p \in Packers, PackInv(p), PackCommitFails(p)
    PROVE  PackCalm(p)
<1>0. p \in Procs
    BY Kinds
<1>1. /\ Goes(p, "done") /\ pnew' = [pnew EXCEPT ![p] = NoFile]
      /\ UNCHANGED <<loose, packed, want, expect, asked, prev, st, pack>>
    BY PackGoes DEF PackCommitFails, disk, request, found, PackPCs
<1>2. pnew'[p] = NoFile /\ \A u \in Procs \ {p} : pnew'[u] = pnew[u]
    BY <1>0, <1>1, TypeParts DEF LockOK
<1>3. \A x \in Refs : ~MayPrune(p, x)' /\ ~Packing(p, x)'
    BY <1>1 DEF MayPrune, Packing, Goes
<1> QED
    BY <1>1, <1>2, <1>3 DEF PackCalm, Goes

LEMMA PruneCalm ==
    ASSUME TypeOK, NEW p \in Packers, PackInv(p), NEW r \in Refs,
           PruneLock(p, r) \/ PruneCheck(p, r) \/ PruneUnlock(p, r)
    PROVE  PackCalm(p)
<1>0. p \in Procs
    BY Kinds
<1>1. /\ pc[p] = "prune"
      /\ UNCHANGED <<loose, packed, pnew, want, expect, asked, prev, pc, pack>>
      /\ st[p][r] \in {"read", "locked"} \/ Marks(p, r, "done")
      /\ \E s \in {"locked", "ready", "unlinked", "done"} : Marks(p, r, s)
    BY <1>0, MarkMarks DEF PruneLock, PruneCheck, PruneUnlock, disk, locks, request, found, Statuses
<1>2. \A x \in Refs : (MayPrune(p, x)' => MayPrune(p, x)) /\ ~Packing(p, x)'
    BY <1>1 DEF MayPrune, Packing, Marks
<1> QED
    BY <1>1, <1>2 DEF PackCalm, Marks

LEMMA PackDoneCalm ==
    ASSUME TypeOK, NEW p \in Packers, PackInv(p), PackDone(p)
    PROVE  PackCalm(p)
<1>0. p \in Procs
    BY Kinds
<1>1. /\ UNCHANGED <<loose, packed, pnew, want, expect, asked, prev>>
      /\ Goes(p, "done")
      /\ st' = [st EXCEPT ![p] = [r \in Refs |-> "skip"]]
      /\ pack' = [pack EXCEPT ![p] = [r \in Refs |-> None]]
    BY PackGoes DEF PackDone, disk, locks, request, found, PackPCs
<1>2. \A u \in Procs \ {p} : st'[u] = st[u]
    BY <1>1, TypeParts DEF StatusOK
<1>3. (\A u \in Packers \ {p} : pack'[u] = pack[u]) /\ \A x \in Refs : pack'[p][x] = None
    BY <1>1, TypeParts DEF PackOK
<1>4. \A x \in Refs : ~MayPrune(p, x)' /\ ~Packing(p, x)'
    BY <1>1 DEF MayPrune, Packing, Goes
<1> QED
    BY <1>1, <1>2, <1>3, <1>4 DEF PackCalm, Goes

ProcCalm(p) == (p \in Txns => TxnCalm(p)) /\ (p \in Packers => PackCalm(p))

(* Being killed, and removing the locks of a process that was killed.        *)
LEMMA CrashCalm ==
    ASSUME TypeOK, NEW p \in Procs, Crash(p) PROVE ProcCalm(p)
<1>1. /\ Goes(p, "crashed") /\ "kill" \in Faults
      /\ UNCHANGED <<loose, packed, pnew, want, expect, asked, prev, st, pack>>
    BY Kinds, TxnGoes, PackGoes, FaultTypes
       DEF Crash, disk, locks, request, found, TxnPCs, PackPCs
<1>2. \A x \in Refs : ~MayPrune(p, x)' /\ ~Packing(p, x)'
    BY <1>1 DEF MayPrune, Packing, Goes
<1>3. Interrupts
    BY <1>1 DEF Interrupts
<1> QED
    BY <1>1, <1>2, <1>3 DEF ProcCalm, TxnCalm, PackCalm, Goes

LEMMA RemoveLockCalm ==
    ASSUME TypeOK, NEW p \in Procs, RemovePackedLock \/ \E r \in Refs : RemoveRefLock(r)
    PROVE  ProcCalm(p)
<1>1. UNCHANGED <<loose, packed, pnew, want, expect, asked, prev, st, pack, pc>>
    BY DEF RemovePackedLock, RemoveRefLock, disk, request, found
<1>2. \A x \in Refs : (MayPrune(p, x)' => MayPrune(p, x)) /\ (Packing(p, x)' => Packing(p, x))
    BY <1>1 DEF MayPrune, Packing
<1> QED
    BY <1>1, <1>2 DEF ProcCalm, TxnCalm, PackCalm

(* What these steps have in common.                                          *)
Calm ==
    /\ UNCHANGED <<loose, packed, want, expect, asked>>
    /\ \A p \in Packers, x \in Refs :
         /\ MayPrune(p, x)' => MayPrune(p, x) /\ pack'[p][x] = pack[p][x]
         /\ Packing(p, x)' => (Packing(p, x) /\ pack'[p][x] = pack[p][x]) \/ pack'[p][x] = Value(x)
    /\ \A t \in Txns, x \in Refs :
         /\ Half(t, x)' <=> Half(t, x)
         /\ st'[t][x] = "unpacked" =>
              st[t][x] = "unpacked" /\ (pc[t] = "unlink" => pc'[t] = "unlink" \/ Interrupts)
         /\ Pending(t, x)' => Pending(t, x)
         /\ st'[t][x] = "done" /\ want[t][x] = None => st[t][x] = "done"
    /\ \A x \in Refs : Around(x)' \subseteq Around(x) \cup {None}

LEMMA TxnCalmIsCalm ==
    ASSUME TypeOK, NEW t \in Txns, TxnCalm(t) PROVE Calm
<1>0. t \in Procs /\ t \notin Packers /\ \A p \in Packers : p \in Procs
    BY Kinds
<1>1. UNCHANGED <<loose, packed, pack, want, expect, asked>>
    BY DEF TxnCalm
<1>2. \A p \in Packers : st'[p] = st[p] /\ pc'[p] = pc[p]
    BY <1>0 DEF TxnCalm
<1>3. ASSUME NEW p \in Packers, NEW x \in Refs
      PROVE  (MayPrune(p, x)' => MayPrune(p, x)) /\ (Packing(p, x)' => Packing(p, x))
    BY <1>2 DEF MayPrune, Packing
<1>4. ASSUME NEW u \in Txns, NEW x \in Refs
      PROVE  /\ Half(u, x)' <=> Half(u, x)
             /\ st'[u][x] = "unpacked" =>
                  st[u][x] = "unpacked" /\ (pc[u] = "unlink" => pc'[u] = "unlink" \/ Interrupts)
             /\ Pending(u, x)' => Pending(u, x)
             /\ st'[u][x] = "done" /\ want[u][x] = None => st[u][x] = "done"
    <2>0. u \in Procs
        BY Kinds
    <2>1. Value(x)' = Value(x)
        BY <1>1 DEF Value
    <2>2. CASE u # t
        <3>1. st'[u] = st[u] /\ pc'[u] = pc[u]
            BY <2>0, <2>2 DEF TxnCalm
        <3>2. st[u][x] = "unpacked" => prev'[u][x] = prev[u][x]
            BY DEF TxnCalm
        <3> QED
            BY <1>1, <2>1, <3>1, <3>2 DEF Half, Pending
    <2>3. CASE u = t
        <3>1. \/ st'[u][x] = st[u][x]
              \/ /\ st[u][x] \in {"todo", "locked", "ready", "logged"}
                 /\ st'[u][x] \in {"locked", "ready", "logged", "unlogged", "rejected", "done"}
                 /\ st'[u][x] = "done" => want[u][x] # None
            BY <2>3 DEF TxnCalm
        <3>2. st[u][x] = "unpacked" => prev'[u][x] = prev[u][x]
            BY DEF TxnCalm
        <3>3. st[u][x] = "unpacked" /\ pc[u] = "unlink" => pc'[u] = "unlink" \/ Interrupts
            BY <2>3 DEF TxnCalm, NoneAt
        <3> QED
            BY <1>1, <2>1, <3>1, <3>2, <3>3 DEF Half, Pending
    <2> QED
        BY <2>2, <2>3
<1>5. ASSUME NEW x \in Refs PROVE Around(x)' \subseteq Around(x) \cup {None}
    <2>1. ASSUME NEW u \in Procs, pnew'[u] # NoFile
          PROVE  pnew'[u][x] \in Around(x) \cup {None}
        <3>1. CASE pnew'[u] = pnew[u]
            BY <2>1, <3>1 DEF Around
        <3>2. CASE pnew'[u] # pnew[u]
            BY <2>1, <3>2 DEF TxnCalm, Around
        <3> QED
            BY <3>1, <3>2
    <2>2. \A u \in Packers : pack[u][x] \in Around(x)
        BY DEF Around
    <2>3. loose[x] \in Around(x) /\ packed[x] \in Around(x)
        BY DEF Around
    <2> QED
        BY <1>1, <2>1, <2>2, <2>3 DEF Around
<1> QED
    BY <1>1, <1>3, <1>4, <1>5 DEF Calm

LEMMA PackCalmIsCalm ==
    ASSUME TypeOK, NEW p \in Packers, PackCalm(p) PROVE Calm
<1>0. p \in Procs /\ p \notin Txns /\ \A u \in Packers : u \in Procs
    BY Kinds
<1>1. UNCHANGED <<loose, packed, want, expect, asked, prev>>
    BY DEF PackCalm
<1>2. ASSUME NEW u \in Packers, NEW x \in Refs
      PROVE  /\ MayPrune(u, x)' => MayPrune(u, x) /\ pack'[u][x] = pack[u][x]
             /\ Packing(u, x)' => (Packing(u, x) /\ pack'[u][x] = pack[u][x]) \/ pack'[u][x] = Value(x)
    <2>1. CASE u = p
        BY <2>1 DEF PackCalm
    <2>2. CASE u # p
        <3>1. st'[u] = st[u] /\ pc'[u] = pc[u] /\ pack'[u] = pack[u]
            BY <1>0, <2>2 DEF PackCalm
        <3> QED
            BY <3>1 DEF MayPrune, Packing
    <2> QED
        BY <2>1, <2>2
<1>3. ASSUME NEW u \in Txns, NEW x \in Refs
      PROVE  /\ Half(u, x)' <=> Half(u, x)
             /\ st'[u][x] = "unpacked" =>
                  st[u][x] = "unpacked" /\ (pc[u] = "unlink" => pc'[u] = "unlink" \/ Interrupts)
             /\ Pending(u, x)' => Pending(u, x)
             /\ st'[u][x] = "done" /\ want[u][x] = None => st[u][x] = "done"
    <2>1. st'[u] = st[u] /\ pc'[u] = pc[u]
        BY <1>0, Kinds DEF PackCalm
    <2>2. Value(x)' = Value(x)
        BY <1>1 DEF Value
    <2> QED
        BY <1>1, <2>1, <2>2 DEF Half, Pending
<1>4. ASSUME NEW x \in Refs PROVE Around(x)' \subseteq Around(x) \cup {None}
    <2>1. ASSUME NEW u \in Procs, pnew'[u] # NoFile
          PROVE  pnew'[u][x] \in Around(x)
        <3>1. CASE pnew'[u] = pnew[u]
            BY <2>1, <3>1 DEF Around
        <3>2. CASE pnew'[u] # pnew[u]
            BY <2>1, <3>2 DEF PackCalm, Around
        <3> QED
            BY <3>1, <3>2
    <2>2. \A u \in Packers : pack'[u][x] \in Around(x) \cup {None}
        BY DEF PackCalm, Around, Value
    <2>3. loose[x] \in Around(x) /\ packed[x] \in Around(x)
        BY DEF Around
    <2> QED
        BY <1>1, <2>1, <2>2, <2>3 DEF Around
<1> QED
    BY <1>1, <1>2, <1>3, <1>4 DEF Calm

(* The steps of a reader.                                                    *)
LEMMA ReadGood ==
    ASSUME TypeOK, ReadInv, NEW q \in Readers, ReadStep(q)
    PROVE  /\ TypesNext /\ Frame(q) /\ Respects(q) /\ Calm
           /\ UNCHANGED <<loose, packed, log, st, prev, want, expect, allow, faults>>
           /\ \A u \in (Procs \cup Readers) \ {q} : pc'[u] = pc[u]
           /\ \A u \in Readers \ {q} : tries'[u] = tries[u] /\ result'[u] = result[u]
<1>0. q \notin Procs /\ q \notin Txns /\ q \notin Packers
    BY Kinds
<1>1. /\ UNCHANGED <<loose, packed, log, reflock, plock, pnew, want, expect, allow, asked,
                     prev, isloose, st, pack, faults>>
      /\ \E l \in ReadPCs : Goes(q, l)
    BY ReadGoes DEF ReadStep, ReadStat, ReadOpen, ReadPacked, ReadAgain,
                    disk, locks, request, found, ReadPCs
<1>2. ReaderOK' /\ \A u \in Readers \ {q} : tries'[u] = tries[u] /\ result'[u] = result[u]
    <2>1. CASE ReadStat(q)
        <3>1. tries[q] > 0
            BY <2>1 DEF ReadInv, ReadOK, ReadStat
        <3>2. tries' = [tries EXCEPT ![q] = tries[q] - 1] /\ result' = result
            BY <2>1 DEF ReadStat
        <3>3. tries[q] - 1 \in 0..Attempts
            BY <3>1, TypeParts, BoundsAssumption DEF ReaderOK
        <3> QED
            BY <3>2, <3>3, TypeParts DEF ReaderOK
    <2>2. CASE ReadOpen(q) \/ ReadPacked(q)
        <3>1. Target[q] \in Refs
            BY InputAssumption
        <3>2. /\ tries' = tries
              /\ \/ result' = result
                 \/ \E v \in Value0 : result' = [result EXCEPT ![q] = v]
            BY <2>2, <3>1, TypeParts DEF ReadOpen, ReadPacked, DiskOK
        <3> QED
            BY <3>2, TypeParts DEF ReaderOK
    <2>3. CASE ReadAgain(q)
        <3>1. /\ tries' = [tries EXCEPT ![q] = Attempts] /\ result' = [result EXCEPT ![q] = None]
              /\ Attempts \in 0..Attempts /\ None \in Value0
            BY <2>3, BoundsAssumption DEF ReadAgain, Value0
        <3> QED
            BY <3>1, TypeParts DEF ReaderOK
    <2> QED
        BY <2>1, <2>2, <2>3 DEF ReadStep
<1>3. TypesNext
    BY <1>1, <1>2, TypeParts DEF TypesNext, Goes, StatusOK, DiskOK, LockOK, RequestOK,
                                 FoundOK, PackOK, RestOK
<1>4. Frame(q) /\ Respects(q)
    BY <1>1 DEF Frame, Respects, Value, Goes
<1>5. \A u \in Procs : pc'[u] = pc[u]
    BY <1>0, <1>1 DEF Goes
<1>6. Calm
    <2>1. \A x \in Refs : Value(x)' = Value(x) /\ Around(x)' = Around(x)
        BY <1>1 DEF Value, Around
    <2>2. \A p \in Packers, x \in Refs : (MayPrune(p, x)' => MayPrune(p, x)) /\ (Packing(p, x)' => Packing(p, x))
        BY <1>1, <1>5, Kinds DEF MayPrune, Packing
    <2>3. \A t \in Txns, x \in Refs : (Half(t, x)' <=> Half(t, x)) /\ (Pending(t, x)' => Pending(t, x))
        BY <1>1, <2>1 DEF Half, Pending
    <2> QED
        BY <1>1, <1>5, <2>1, <2>2, <2>3, Kinds DEF Calm
<1> QED
    BY <1>1, <1>2, <1>3, <1>4, <1>6 DEF Goes

-----------------------------------------------------------------------------
(* What calm steps preserve. *)

LEMMA CalmFresh ==
    ASSUME TypeOK, FreshInv, Calm PROVE FreshInv'
<1>1. UNCHANGED <<want, expect, asked>>
    BY DEF Calm
<1>2. \A t \in Txns, x \in Refs : Pending(t, x)' => Pending(t, x)
    BY DEF Calm
<1>3. \A x \in Refs : Around(x)' \subseteq Around(x) \cup {None}
    BY DEF Calm
<1>4. \A t \in Txns, x \in Refs : Pending(t, x) => want[t][x] # None
    BY Kinds DEF Pending
<1> QED
    BY <1>1, <1>2, <1>3, <1>4 DEF FreshInv

LEMMA CalmPackers ==
    ASSUME TypeOK, PackersInv, Calm PROVE PackersInv'
<1>1. UNCHANGED <<loose, packed>>
    BY DEF Calm
<1>2. ASSUME NEW x \in Refs
      PROVE  /\ Value(x)' = Value(x) /\ (HalfDeleted(x)' <=> HalfDeleted(x))
             /\ Newer(x) => Newer(x)'
    <2>1. Value(x)' = Value(x)
        BY <1>1 DEF Value
    <2>2. HalfDeleted(x)' <=> HalfDeleted(x)
        BY DEF Calm, HalfDeleted
    <2>3. Newer(x) => Newer(x)'
        BY <1>1 DEF Calm, Newer
    <2> QED
        BY <2>1, <2>2, <2>3
<1>3. ASSUME NEW p \in Packers, NEW x \in Refs PROVE Current(p, x)' /\ Packed(p, x)'
    <2>1. Current(p, x) /\ Packed(p, x)
        BY DEF PackersInv
    <2>2. /\ MayPrune(p, x)' => MayPrune(p, x) /\ pack'[p][x] = pack[p][x]
          /\ Packing(p, x)' => (Packing(p, x) /\ pack'[p][x] = pack[p][x]) \/ pack'[p][x] = Value(x)
        BY DEF Calm
    <2> QED
        BY <1>1, <1>2, <2>1, <2>2 DEF Current, Packed
<1> QED
    BY <1>3 DEF PackersInv

LEMMA CalmDeleted ==
    ASSUME TypeOK, StoppedInv, DeletedStaysDeleted, Calm
    PROVE  StoppedInv' /\ DeletedStaysDeleted'
<1>1. StoppedInv'
    BY DEF StoppedInv, Calm, Interrupts
<1>2. UNCHANGED <<want, loose, packed>>
    BY DEF Calm
<1>3. \A x \in Refs : Value(x)' = Value(x)
    BY <1>2 DEF Value
<1>4. DeletedStaysDeleted'
    BY <1>2, <1>3 DEF DeletedStaysDeleted, Calm
<1> QED
    BY <1>1, <1>4

(* A reader has seen what its ref was before and after each step.            *)
LEMMA Sees ==
    ASSUME TypeOK, Observe, NEW q \in Readers, Reading(q)
    PROVE  seen'[q] = seen[q] \cup Appears(Target[q]) \cup Appears(Target[q])'
BY DEF Observe

LEMMA ReadOthers ==
    ASSUME TypeOK, Observe, NEW q \in Readers, ReadOK(q),
           pc'[q] = pc[q], tries'[q] = tries[q], result'[q] = result[q],
           \/ packed'[Target[q]] = packed[Target[q]]
           \/ packed'[Target[q]] \in Appears(Target[q])'
           \/ \E p \in Packers : Packing(p, Target[q]) /\ packed'[Target[q]] = pack[p][Target[q]],
           \A p \in Packers : Packing(p, Target[q])' =>
               \/ Packing(p, Target[q]) /\ pack'[p][Target[q]] = pack[p][Target[q]]
               \/ pack'[p][Target[q]] = Value(Target[q])
    PROVE  ReadOK(q)'
<1>1. pc'[q] \in {"idle", "stat"} => tries'[q] > 0
    BY DEF ReadOK
<1>2. CASE pc[q] = "packed"
    <2>1. seen'[q] = seen[q] \cup Appears(Target[q]) \cup Appears(Target[q])'
        BY <1>2, Sees DEF Reading
    <2>2. Value(Target[q]) \in Appears(Target[q])
        BY DEF Appears
    <2>3. packed'[Target[q]] \in seen'[q]
        BY <1>2, <2>1 DEF ReadOK
    <2>4. \A p \in Packers : Packing(p, Target[q])' => pack'[p][Target[q]] \in seen'[q]
        BY <1>2, <2>1, <2>2 DEF ReadOK
    <2> QED
        BY <1>1, <1>2, <2>3, <2>4 DEF ReadOK
<1>3. CASE pc[q] = "done"
    <2>1. seen'[q] = seen[q]
        BY <1>3 DEF Observe, Reading
    <2> QED
        BY <1>1, <1>3, <2>1 DEF ReadOK
<1>4. CASE pc[q] \notin {"packed", "done"}
    BY <1>1, <1>4 DEF ReadOK
<1> QED
    BY <1>2, <1>3, <1>4

LEMMA CalmReads ==
    ASSUME TypeOK, ReadInv, Observe, Calm, NEW p, Frame(p), p \notin Readers,
           UNCHANGED <<tries, result>>
    PROVE  ReadInv'
<1> SUFFICES ASSUME NEW q \in Readers PROVE ReadOK(q)'
    BY DEF ReadInv
<1>1. Target[q] \in Refs
    BY InputAssumption
<1>2. pc'[q] = pc[q] /\ ReadOK(q) /\ packed' = packed
    BY DEF Frame, ReadInv, Calm
<1>3. \A u \in Packers : Packing(u, Target[q])' =>
               \/ Packing(u, Target[q]) /\ pack'[u][Target[q]] = pack[u][Target[q]]
               \/ pack'[u][Target[q]] = Value(Target[q])
    BY <1>1 DEF Calm
<1> QED
    BY <1>2, <1>3, ReadOthers

(* A step of a reader itself.                                                *)
LEMMA ReadReads ==
    ASSUME TypeOK, ReadInv, PackersInv, Observe, NEW q \in Readers, ReadStep(q)
    PROVE  ReadInv'
<1>0. q \in Readers /\ Target[q] \in Refs /\ ReadOK(q) /\ q \in Procs \cup Readers
    BY InputAssumption DEF ReadInv
<1>1. /\ Calm /\ UNCHANGED <<loose, packed, log, st, prev, want, expect, allow, faults>>
      /\ \A u \in (Procs \cup Readers) \ {q} : pc'[u] = pc[u]
      /\ \A u \in Readers \ {q} : tries'[u] = tries[u] /\ result'[u] = result[u]
    BY ReadGood
<1>2. ASSUME NEW u \in Readers, u # q PROVE ReadOK(u)'
    <2>1. Target[u] \in Refs /\ ReadOK(u)
        BY InputAssumption DEF ReadInv
    <2>2. \A p \in Packers : Packing(p, Target[u])' =>
                   \/ Packing(p, Target[u]) /\ pack'[p][Target[u]] = pack[p][Target[u]]
                   \/ pack'[p][Target[u]] = Value(Target[u])
        BY <1>1, <2>1 DEF Calm
    <2> QED
        BY <1>1, <1>2, <2>1, <2>2, ReadOthers
<1> SUFFICES ReadOK(q)'
    BY <1>2 DEF ReadInv
<1>3. pc \in [Procs \cup Readers -> TxnPCs \cup PackPCs \cup ReadPCs]
      /\ tries \in [Readers -> 0..Attempts] /\ result \in [Readers -> Value0]
    BY TypeParts DEF PlaceOK, ReaderOK
<1>v. Value(Target[q])' = Value(Target[q])
    BY <1>1 DEF Value
<1>4. CASE ReadStat(q)
    <2>1. CASE loose[Target[q]] # None
        <3>1. pc'[q] = "open"
            BY <1>0, <1>3, <1>4, <2>1 DEF ReadStat, Goto
        <3> QED
            BY <3>1 DEF ReadOK
    <2>2. CASE loose[Target[q]] = None
        <3>1. pc'[q] = "packed"
            BY <1>0, <1>3, <1>4, <2>2 DEF ReadStat, Goto
        <3>2. packed'[Target[q]] = Value(Target[q])'
            BY <1>1, <2>2 DEF Value
        <3>3. ASSUME NEW p \in Packers, Packing(p, Target[q])'
              PROVE  pack'[p][Target[q]] = Value(Target[q])
            <4>1. Current(p, Target[q])
                BY <1>0 DEF PackersInv
            <4> QED
                BY <1>0, <1>1, <2>2, <3>3, <4>1 DEF Calm, Current, Newer
        <3> QED
            BY <1>v, <3>1, <3>2, <3>3 DEF ReadOK, Appears
    <2> QED
        BY <2>1, <2>2
<1>5. CASE ReadOpen(q)
    <2>1. pc[q] = "open" /\ tries' = tries
        BY <1>5 DEF ReadOpen
    <2>2. seen'[q] = seen[q] \cup Appears(Target[q]) \cup Appears(Target[q])'
        BY <2>1, Sees DEF Reading
    <2>3. CASE /\ loose[Target[q]] # None \/ tries[q] = 0
               /\ Goto(q, "done") /\ result' = [result EXCEPT ![q] = loose[Target[q]]]
        <3>1. pc'[q] = "done" /\ result'[q] = loose[Target[q]]
            BY <1>0, <1>3, <2>3 DEF Goto
        <3>2. loose[Target[q]] # None => loose[Target[q]] \in seen'[q]
            BY <2>2 DEF Appears, Value
        <3> QED
            BY <2>1, <2>3, <3>1, <3>2 DEF ReadOK
    <2>4. CASE tries[q] > 0 /\ Goto(q, "stat")
        <3>1. pc'[q] = "stat"
            BY <1>0, <1>3, <2>4 DEF Goto
        <3> QED
            BY <2>1, <2>4, <3>1 DEF ReadOK
    <2> QED
        BY <1>5, <2>3, <2>4 DEF ReadOpen
<1>6. CASE ReadPacked(q)
    <2>1. pc[q] = "packed" /\ pc'[q] = "done" /\ result'[q] = packed[Target[q]]
        BY <1>0, <1>3, <1>6 DEF ReadPacked, Goto
    <2>2. seen'[q] = seen[q] \cup Appears(Target[q]) \cup Appears(Target[q])'
        BY <2>1, Sees DEF Reading
    <2> QED
        BY <1>0, <2>1, <2>2 DEF ReadOK
<1>7. CASE ReadAgain(q)
    <2>1. pc'[q] = "idle" /\ tries'[q] = Attempts
        BY <1>0, <1>3, <1>7 DEF ReadAgain, Goto
    <2>2. tries'[q] > 0
        BY <2>1, BoundsAssumption
    <2> QED
        BY <2>1, <2>2 DEF ReadOK
<1> QED
    BY <1>4, <1>5, <1>6, <1>7 DEF ReadStep

-----------------------------------------------------------------------------
(* A transaction sets a ref. *)

GivesUp(t) == UNCHANGED <<log, st>> /\ pc'[t] = "undo"

Commits(t, r) ==
    /\ pc[t] = "update" /\ st[t][r] = "logged" /\ reflock[r] = t
    /\ want[t][r] \in Vals /\ want[t][r] \in log[r] /\ prev[t][r] = Value(r)
    /\ CheckOld(t, r, Value(r)) /\ Pending(t, r)
    /\ loose'[r] = want[t][r] /\ \A x \in Refs \ {r} : loose'[x] = loose[x]
    /\ Marks(t, r, "done") /\ UNCHANGED <<packed, log, pnew, want, expect, asked, prev, pc, pack>>

LEMMA CommitRefCases ==
    ASSUME TypeOK, NEW t \in Txns, TxnInv(t), NEW r \in Refs, CommitRef(t, r)
    PROVE  Commits(t, r) \/ (TxnCalm(t) /\ GivesUp(t))
<1>0. t \in Procs /\ Any \notin Vals
    BY Kinds
<1>1. /\ pc[t] = "update" /\ st[t][r] = "logged"
      /\ UNCHANGED <<packed, log, pnew, want, expect, asked, prev, pack>>
      /\ \/ loose' = [loose EXCEPT ![r] = want[t][r]] /\ Marks(t, r, "done") /\ pc' = pc
         \/ UNCHANGED <<loose, st>> /\ Goes(t, "undo")
    BY <1>0, MarkMarks, FailsGoes DEF CommitRef, locks, request, found, Statuses
<1>2. CASE UNCHANGED <<loose, st>> /\ Goes(t, "undo")
    BY <1>1, <1>2 DEF TxnCalm, Goes, GivesUp
<1>3. CASE loose' = [loose EXCEPT ![r] = want[t][r]] /\ Marks(t, r, "done") /\ pc' = pc
    <2>1. /\ reflock[r] = t /\ want[t][r] \in Vals /\ want[t][r] \in log[r]
          /\ prev[t][r] = Value(r) /\ want[t][r] # prev[t][r] /\ CheckOld(t, r, prev[t][r])
        BY <1>1 DEF TxnInv, TxnRef, HoldsRef, TxnSees, Working, Held, Checks
    <2>2. Pending(t, r)
        BY <1>0, <1>1, <2>1 DEF Pending, CheckOld
    <2>3. loose'[r] = want[t][r] /\ \A x \in Refs \ {r} : loose'[x] = loose[x]
        BY <1>3, TypeParts DEF DiskOK
    <2> QED
        BY <1>1, <1>3, <2>1, <2>2, <2>3 DEF Commits
<1> QED
    BY <1>1, <1>2, <1>3

LEMMA CommitsKeeps ==
    ASSUME TypeOK, FreshInv, PackersInv, StoppedInv, LogInv, DeletedStaysDeleted,
           NEW t \in Txns, NEW r \in Refs, Commits(t, r)
    PROVE  FreshInv' /\ PackersInv' /\ StoppedInv' /\ LogInv' /\ DeletedStaysDeleted'
<1>0. t \in Procs /\ t \notin Packers /\ \A p \in Packers : p \in Procs
    BY Kinds
<1>1. UNCHANGED <<packed, log, pnew, want, expect, asked, prev, pc, pack>>
    BY DEF Commits
<1>2. /\ st'[t][r] = "done" /\ \A x \in Refs \ {r} : st'[t][x] = st[t][x]
      /\ \A u \in Procs \ {t} : st'[u] = st[u]
    BY DEF Commits, Marks
<1>3. ASSUME NEW u \in Txns, NEW x \in Refs
      PROVE  st'[u][x] = st[u][x] \/ (u = t /\ x = r /\ st'[u][x] = "done")
    BY <1>2, Kinds
<1>4. \A x \in Refs \ {r} : loose'[x] = loose[x] /\ Value(x)' = Value(x)
    BY <1>1 DEF Commits, Value
<1>5. loose'[r] = want[t][r] /\ want[t][r] \in Vals /\ want[t][r] # None
      /\ Value(r)' = want[t][r] /\ want[t][r] \in log[r]
    BY Kinds DEF Commits, Value
<1>6. want[t][r] \notin Around(r) /\ \A u \in Txns \ {t} : want[u][r] # want[t][r]
    BY DEF Commits, FreshInv
<1>7. FreshInv'
    <2>1. ASSUME NEW x \in Refs, x # r PROVE Around(x)' = Around(x)
        BY <1>1, <1>4, <2>1 DEF Around
    <2>2. Around(r)' \subseteq Around(r) \cup {want[t][r]}
        BY <1>1, <1>5 DEF Around
    <2>3. ASSUME NEW u \in Txns, NEW x \in Refs, Pending(u, x)'
          PROVE  Pending(u, x) /\ ~(u = t /\ x = r)
        BY <1>1, <1>3, <2>3 DEF Pending, Commits, Marks
    <2>4. ASSUME NEW x \in Refs PROVE Around(x)' \subseteq asked[x] \cup {None}
        <3>1. want[t][r] \in asked[r] \cup {None}
            BY <1>5, Kinds DEF FreshInv
        <3> QED
            BY <2>1, <2>2, <3>1 DEF FreshInv
    <2>5. ASSUME NEW u \in Txns, NEW x \in Refs, Pending(u, x)'
          PROVE  want[u][x] \notin Around(x)' /\ \A v \in Txns \ {u} : want[v][x] # want[u][x]
        <3>1. /\ want[u][x] \notin Around(x) /\ \A v \in Txns \ {u} : want[v][x] # want[u][x]
            BY <2>3, <2>5 DEF FreshInv
        <3>2. CASE x = r
            BY <2>2, <2>3, <2>5, <3>1, <3>2
        <3>3. CASE x # r
            BY <2>1, <3>1, <3>3
        <3> QED
            BY <3>2, <3>3
    <2> QED
        BY <1>1, <2>4, <2>5 DEF FreshInv
<1>8. ASSUME NEW p \in Packers, NEW x \in Refs PROVE Current(p, x)' /\ Packed(p, x)'
    <2>1. \A k \in Packers : /\ MayPrune(k, x)' <=> MayPrune(k, x)
                             /\ Packing(k, x)' <=> Packing(k, x)
        BY <1>0, <1>1, <1>2 DEF MayPrune, Packing
    <2>2. CASE x = r
        <3>1. \A k \in Packers : pack[k][r] # want[t][r]
            BY <1>6 DEF Around
        <3>2. Newer(r)'
            BY <1>1, <1>5, <3>1 DEF Newer
        <3> QED
            BY <1>1, <1>5, <2>2, <3>1, <3>2 DEF Current, Packed
    <2>3. CASE x # r
        <3>1. Newer(x)' <=> Newer(x)
            BY <1>1, <1>4, <2>1, <2>3 DEF Newer
        <3>2. HalfDeleted(x)' <=> HalfDeleted(x)
            BY <1>1, <1>3, <1>4, <2>3 DEF HalfDeleted, Half
        <3>3. Current(p, x) /\ Packed(p, x)
            BY DEF PackersInv
        <3> QED
            BY <1>1, <1>4, <2>1, <2>3, <3>1, <3>2, <3>3 DEF Current, Packed
    <2> QED
        BY <2>2, <2>3
<1>9. StoppedInv'
    BY <1>1, <1>3 DEF StoppedInv
<1>10. LogInv'
    BY <1>1, <1>4, <1>5 DEF LogInv
<1>11. DeletedStaysDeleted'
    BY <1>1, <1>3, <1>4, <1>5 DEF DeletedStaysDeleted
<1> QED
    BY <1>7, <1>8, <1>9, <1>10, <1>11 DEF PackersInv

-----------------------------------------------------------------------------
(* A transaction removes refs from packed-refs, then their loose files. *)

Unpacks(t) ==
    /\ pc[t] = "update" /\ pc'[t] = "unlink" /\ pnew'[t] = NoFile
    /\ \A u \in Procs \ {t} : pc'[u] = pc[u] /\ st'[u] = st[u] /\ pnew'[u] = pnew[u]
    /\ UNCHANGED <<loose, log, want, expect, asked, prev, pack>>
    /\ \A x \in Refs : st[t][x] \in {"skip", "rejected", "unlogged", "done"}
    /\ \A x \in Refs : IF st[t][x] # "unlogged"
         THEN st'[t][x] = st[t][x] /\ packed'[x] = packed[x]
         ELSE /\ want[t][x] = None /\ packed'[x] = None /\ plock = t
              /\ prev[t][x] = Value(x) /\ CheckOld(t, x, Value(x))
              /\ \/ st'[t][x] = "unpacked" /\ Value(x)' = Value(x)
                 \/ st'[t][x] = "done" /\ loose[x] = None

LEMMA CommitPackedCases ==
    ASSUME TypeOK, NEW t \in Txns, TxnInv(t), CommitPacked(t)
    PROVE  Unpacks(t) \/ (TxnCalm(t) /\ GivesUp(t))
<1>0. t \in Procs /\ t \in (Procs \cup Readers) /\ t \notin Readers
    BY Kinds
<1>1. /\ pc[t] = "update" /\ pnew' = [pnew EXCEPT ![t] = NoFile]
      /\ \A x \in Refs : st[t][x] \in {"skip", "rejected", "unlogged", "done"}
      /\ UNCHANGED <<loose, log, want, expect, asked, prev, pack>>
    BY CommitPackedFacts
<1>2. pnew'[t] = NoFile /\ \A u \in Procs \ {t} : pnew'[u] = pnew[u]
    BY <1>0, <1>1, TypeParts DEF LockOK
<1>3. CASE Goes(t, "undo") /\ UNCHANGED <<st, packed>>
    BY <1>1, <1>2, <1>3 DEF TxnCalm, Goes, GivesUp
<1>4. CASE /\ Goes(t, "unlink") /\ \A u \in Procs \ {t} : st'[u] = st[u]
           /\ \A x \in Refs :
                IF st[t][x] = "unlogged"
                THEN /\ want[t][x] = None /\ packed'[x] = None /\ reflock[x] = t
                     /\ st'[t][x] = IF isloose[t][x] THEN "unpacked" ELSE "done"
                ELSE st'[t][x] = st[t][x] /\ packed'[x] = packed[x]
    <2>1. ASSUME NEW x \in Refs, st[t][x] = "unlogged"
          PROVE  /\ want[t][x] = None /\ packed'[x] = None /\ plock = t
                 /\ prev[t][x] = Value(x) /\ CheckOld(t, x, Value(x))
                 /\ \/ st'[t][x] = "unpacked" /\ Value(x)' = Value(x)
                    \/ st'[t][x] = "done" /\ loose[x] = None
        <3>1. /\ want[t][x] = None /\ packed'[x] = None
              /\ st'[t][x] = IF isloose[t][x] THEN "unpacked" ELSE "done"
            BY <1>4, <2>1
        <3>2. TxnSees(t, x) /\ TxnRef(t, x)
            BY DEF TxnInv
        <3>3. /\ prev[t][x] = Value(x) /\ (~isloose[t][x] => loose[x] = None)
              /\ (isloose[t][x] /\ prev[t][x] # None => loose[x] # None)
              /\ CheckOld(t, x, prev[t][x])
            BY <1>1, <2>1, <3>2 DEF TxnSees, TxnRef, Working, Checks
        <3>4. plock = t
            BY <1>1, <2>1, <3>1 DEF TxnInv, HoldsPacked, NeedsPacked, Removing
        <3>5. isloose[t][x] => Value(x)' = Value(x)
            BY <1>1, <3>1, <3>3 DEF Value
        <3> QED
            BY <3>1, <3>3, <3>4, <3>5
    <2> QED
        BY <1>0, <1>1, <1>2, <1>4, <2>1 DEF Unpacks, Goes
<1> QED
    BY <1>3, <1>4, CommitPackedFacts

LEMMA UnpacksKeeps ==
    ASSUME TypeOK, ProcInv, FreshInv, PackersInv, StoppedInv, LogInv, DeletedStaysDeleted,
           NEW t \in Txns, Unpacks(t)
    PROVE  /\ FreshInv' /\ PackersInv' /\ StoppedInv' /\ LogInv' /\ DeletedStaysDeleted'
           /\ \A x \in Refs : packed'[x] = packed[x] \/ packed'[x] \in Appears(x)'
<1>0. t \in Procs /\ t \notin Packers /\ \A p \in Packers : p \in Procs
    BY Kinds
<1>1. UNCHANGED <<loose, log, want, expect, asked, prev, pack>>
    BY DEF Unpacks
<1>2. ASSUME NEW x \in Refs
      PROVE  \/ /\ st'[t][x] = st[t][x] /\ packed'[x] = packed[x] /\ st[t][x] # "unlogged"
                /\ Value(x)' = Value(x)
             \/ /\ st[t][x] = "unlogged" /\ st'[t][x] = "unpacked" /\ packed'[x] = None
                /\ want[t][x] = None
                /\ plock = t /\ Value(x)' = Value(x) /\ prev[t][x] = Value(x)
             \/ /\ st[t][x] = "unlogged" /\ st'[t][x] = "done" /\ packed'[x] = None
                /\ want[t][x] = None
                /\ plock = t /\ loose[x] = None /\ Value(x)' = None
    BY <1>1 DEF Unpacks, Value
<1>3. ASSUME NEW u \in Txns, u # t PROVE st'[u] = st[u] /\ pc'[u] = pc[u]
    BY <1>3, Kinds DEF Unpacks
<1>4. ASSUME NEW p \in Packers PROVE st'[p] = st[p] /\ pc'[p] = pc[p]
    BY <1>0 DEF Unpacks
<1>5. FreshInv'
    <2>1. ASSUME NEW u \in Txns, NEW x \in Refs, Pending(u, x)' PROVE Pending(u, x)
        BY <1>1, <1>2, <1>3, <2>1 DEF Pending
    <2>2. ASSUME NEW x \in Refs PROVE Around(x)' \subseteq Around(x) \cup {None}
        <3>1. packed'[x] \in {packed[x], None}
            BY <1>2
        <3>2. \A u \in Procs : pnew'[u] # NoFile => pnew'[u] = pnew[u]
            BY DEF Unpacks
        <3> QED
            BY <1>1, <3>1, <3>2 DEF Around
    <2>3. \A u \in Txns, x \in Refs : Pending(u, x) => want[u][x] # None
        BY Kinds DEF Pending
    <2> QED
        BY <1>1, <2>1, <2>2, <2>3 DEF FreshInv
<1>6. ASSUME NEW x \in Refs, HalfDeleted(x), Value(x)' = Value(x) PROVE HalfDeleted(x)'
    <2>1. PICK u \in Txns : Half(u, x)
        BY <1>6 DEF HalfDeleted
    <2>2. st'[u][x] = "unpacked"
        BY <1>3, <2>1 DEF Half, Unpacks
    <2> QED
        BY <1>1, <1>6, <2>1, <2>2 DEF HalfDeleted, Half
<1>7. ASSUME NEW p \in Packers, NEW x \in Refs PROVE Current(p, x)' /\ Packed(p, x)'
    <2>0. Current(p, x) /\ Packed(p, x) /\ PackRef(p, x) /\ HoldsPacked(p)
        BY DEF PackersInv, ProcInv, PackInv
    <2>1. \A k \in Packers : /\ MayPrune(k, x)' <=> MayPrune(k, x)
                             /\ Packing(k, x)' <=> Packing(k, x)
        BY <1>4 DEF MayPrune, Packing
    <2>2. Newer(x)' <=> Newer(x)
        BY <1>1, <2>1 DEF Newer
    <2>3. CASE packed'[x] = packed[x] /\ Value(x)' = Value(x)
        BY <1>1, <1>6, <2>0, <2>1, <2>2, <2>3 DEF Current, Packed
    <2>4. CASE plock = t /\ packed'[x] = None
        <3>1. ~Packing(p, x)
            BY <1>0, <2>0, <2>4 DEF Packing, HoldsPacked, NeedsPacked
        <3>2. MayPrune(p, x) => pack[p][x] # None
            BY <2>0 DEF MayPrune, PackRef
        <3>3. st'[t][x] = "unpacked" /\ Value(x)' = Value(x) /\ prev[t][x] = Value(x) => HalfDeleted(x)'
            BY <1>1 DEF HalfDeleted, Half
        <3>4. loose[x] # None => HalfDeleted(x)' \/ packed'[x] = packed[x]
            BY <1>2, <3>3
        <3>5. packed'[x] = packed[x] => Value(x)' = Value(x)
            BY <1>1 DEF Value
        <3> QED
            BY <1>1, <2>1, <2>3, <2>4, <3>1, <3>2, <3>4, <3>5 DEF Current, Packed
    <2> QED
        BY <1>2, <2>3, <2>4
<1>8. StoppedInv'
    BY <1>2, <1>3 DEF StoppedInv, Unpacks
<1>9. LogInv'
    BY <1>1, <1>2 DEF LogInv
<1>10. DeletedStaysDeleted'
    <2> SUFFICES ASSUME NEW u \in Txns, NEW x \in Refs, st'[u][x] = "done", want[u][x] = None,
                        \A v \in Txns : want[v][x] \notin Vals
                 PROVE  Value(x)' = None
        BY <1>1 DEF DeletedStaysDeleted
    <2>1. Value(x)' \in {Value(x), None}
        BY <1>2
    <2>2. st[u][x] = "done" \/ Value(x)' = None
        BY <1>2, <1>3
    <2> QED
        BY <2>1, <2>2 DEF DeletedStaysDeleted
<1>11. ASSUME NEW x \in Refs PROVE packed'[x] = packed[x] \/ packed'[x] \in Appears(x)'
    BY <1>1, <1>2 DEF Appears, HalfDeleted, Half
<1> QED
    BY <1>5, <1>7, <1>8, <1>9, <1>10, <1>11 DEF PackersInv

Unlinks(t, r) ==
    /\ pc[t] = "unlink" /\ st[t][r] = "unpacked" /\ reflock[r] = t /\ plock = t
    /\ want[t][r] = None /\ packed[r] = None /\ prev[t][r] = Value(r) /\ CheckOld(t, r, Value(r))
    /\ loose'[r] = None /\ \A x \in Refs \ {r} : loose'[x] = loose[x]
    /\ Marks(t, r, "done") /\ UNCHANGED <<packed, log, pnew, want, expect, asked, prev, pc, pack>>

LEMMA UnlinkLooseCases ==
    ASSUME TypeOK, NEW t \in Txns, TxnInv(t), NEW r \in Refs, UnlinkLoose(t, r)
    PROVE  Unlinks(t, r) \/ (TxnCalm(t) /\ GivesUp(t))
<1>0. t \in Procs
    BY Kinds
<1>1. /\ pc[t] = "unlink" /\ st[t][r] = "unpacked"
      /\ UNCHANGED <<packed, log, pnew, want, expect, asked, prev, pack>>
      /\ \/ loose' = [loose EXCEPT ![r] = None] /\ Marks(t, r, "done") /\ pc' = pc
         \/ UNCHANGED <<loose, st>> /\ Goes(t, "undo") /\ "unlink" \in Faults
    BY <1>0, MarkMarks, FailsGoes DEF UnlinkLoose, locks, request, found, Statuses
<1>2. CASE UNCHANGED <<loose, st>> /\ Goes(t, "undo") /\ "unlink" \in Faults
    <2>1. Interrupts
        BY <1>2 DEF Interrupts
    <2> QED
        BY <1>1, <1>2, <2>1 DEF TxnCalm, Goes, GivesUp
<1>3. CASE loose' = [loose EXCEPT ![r] = None] /\ Marks(t, r, "done") /\ pc' = pc
    <2>1. /\ reflock[r] = t /\ want[t][r] = None /\ packed[r] = None
          /\ prev[t][r] = Value(r) /\ CheckOld(t, r, prev[t][r])
        BY <1>1 DEF TxnInv, TxnRef, HoldsRef, TxnSees, Working, Held, Checks
    <2>2. plock = t
        BY <1>1, <2>1 DEF TxnInv, HoldsPacked, NeedsPacked, Removing
    <2>3. loose'[r] = None /\ \A x \in Refs \ {r} : loose'[x] = loose[x]
        BY <1>3, TypeParts DEF DiskOK
    <2> QED
        BY <1>1, <1>3, <2>1, <2>2, <2>3 DEF Unlinks
<1> QED
    BY <1>1, <1>2, <1>3

LEMMA UnlinksKeeps ==
    ASSUME TypeOK, ProcInv, FreshInv, PackersInv, StoppedInv, LogInv, DeletedStaysDeleted,
           NEW t \in Txns, NEW r \in Refs, Unlinks(t, r)
    PROVE  FreshInv' /\ PackersInv' /\ StoppedInv' /\ LogInv' /\ DeletedStaysDeleted'
<1>0. t \in Procs /\ t \notin Packers /\ \A p \in Packers : p \in Procs
    BY Kinds
<1>1. UNCHANGED <<packed, log, pnew, want, expect, asked, prev, pc, pack>>
    BY DEF Unlinks
<1>2. /\ st'[t][r] = "done" /\ \A x \in Refs \ {r} : st'[t][x] = st[t][x]
      /\ \A u \in Procs \ {t} : st'[u] = st[u]
    BY DEF Unlinks, Marks
<1>3. ASSUME NEW u \in Txns, NEW x \in Refs
      PROVE  st'[u][x] = st[u][x] \/ (u = t /\ x = r /\ st'[u][x] = "done")
    BY <1>2, Kinds
<1>4. \A x \in Refs \ {r} : loose'[x] = loose[x] /\ Value(x)' = Value(x)
    BY <1>1 DEF Unlinks, Value
<1>5. loose'[r] = None /\ Value(r)' = None /\ plock = t
    BY <1>1 DEF Unlinks, Value
<1>6. FreshInv'
    <2>1. ASSUME NEW u \in Txns, NEW x \in Refs, Pending(u, x)' PROVE Pending(u, x)
        BY <1>1, <1>3, <2>1 DEF Pending
    <2>2. ASSUME NEW x \in Refs PROVE Around(x)' \subseteq Around(x) \cup {None}
        BY <1>1, <1>4, <1>5 DEF Around
    <2>3. \A u \in Txns, x \in Refs : Pending(u, x) => want[u][x] # None
        BY Kinds DEF Pending
    <2> QED
        BY <1>1, <2>1, <2>2, <2>3 DEF FreshInv
<1>7. ASSUME NEW p \in Packers, NEW x \in Refs PROVE Current(p, x)' /\ Packed(p, x)'
    <2>0. Current(p, x) /\ Packed(p, x) /\ PackRef(p, x) /\ HoldsPacked(p)
        BY DEF PackersInv, ProcInv, PackInv
    <2>1. \A k \in Packers : /\ MayPrune(k, x)' <=> MayPrune(k, x)
                             /\ Packing(k, x)' <=> Packing(k, x)
        BY <1>0, <1>1, <1>2 DEF MayPrune, Packing
    <2>2. CASE x = r
        <3>1. ~Packing(p, x)
            BY <1>0, <1>5, <2>0 DEF Packing, HoldsPacked, NeedsPacked
        <3>2. MayPrune(p, x) => pack[p][x] # None
            BY <2>0 DEF MayPrune, PackRef
        <3> QED
            BY <1>1, <1>5, <2>1, <2>2, <3>1, <3>2 DEF Current, Packed
    <2>3. CASE x # r
        <3>1. Newer(x)' <=> Newer(x)
            BY <1>1, <1>4, <2>1, <2>3 DEF Newer
        <3>2. HalfDeleted(x)' <=> HalfDeleted(x)
            BY <1>1, <1>3, <1>4, <2>3 DEF HalfDeleted, Half
        <3> QED
            BY <1>1, <1>4, <2>0, <2>1, <2>3, <3>1, <3>2 DEF Current, Packed
    <2> QED
        BY <2>2, <2>3
<1>8. StoppedInv'
    BY <1>1, <1>3 DEF StoppedInv
<1>9. LogInv'
    BY <1>1, <1>4, <1>5 DEF LogInv
<1>10. DeletedStaysDeleted'
    BY <1>1, <1>3, <1>4, <1>5 DEF DeletedStaysDeleted
<1> QED
    BY <1>6, <1>7, <1>8, <1>9, <1>10 DEF PackersInv

-----------------------------------------------------------------------------
(* pack-refs rewrites packed-refs, then removes loose files. *)

LEMMA PackCommitKeeps ==
    ASSUME TypeOK, ProcInv, FreshInv, PackersInv, StoppedInv, LogInv, DeletedStaysDeleted,
           NEW p \in Packers, PackInstalls(p)
    PROVE  /\ FreshInv' /\ PackersInv' /\ StoppedInv' /\ LogInv' /\ DeletedStaysDeleted'
           /\ \A x \in Refs : Value(x)' = Value(x)
           /\ \A x \in Refs : \/ packed'[x] = packed[x]
                              \/ Packing(p, x) /\ packed'[x] = pack[p][x]
           /\ \A k \in Packers, x \in Refs : Packing(k, x)' => Packing(k, x) /\ pack'[k][x] = pack[k][x]
<1>0. p \in Procs /\ p \notin Txns /\ \A k \in Packers : k \in Procs
    BY Kinds
<1>1. /\ pc[p] = "written" /\ plock = p /\ Goes(p, "committed")
      /\ pnew' = [pnew EXCEPT ![p] = NoFile] /\ packed' = pnew[p] /\ pnew[p] # NoFile
      /\ UNCHANGED <<loose, log, want, expect, asked, prev, st, pack>>
      /\ \A x \in Refs : packed'[x] = IF st[p][x] = "read" THEN pack[p][x] ELSE packed[x]
    BY PackCommitFacts DEF ProcInv, PackersInv
<1>2. \A x \in Refs : Value(x)' = Value(x)
    BY PackCommitFacts DEF ProcInv, PackersInv
<1>3. pc'[p] = "committed" /\ \A u \in Procs \ {p} : pc'[u] = pc[u]
    BY <1>1 DEF Goes
<1>4. \A u \in Txns : pc'[u] = pc[u]
    BY <1>0, <1>3, Kinds
<1>5. FreshInv'
    <2>1. \A u \in Txns, x \in Refs : Pending(u, x)' => Pending(u, x)
        BY <1>1 DEF Pending
    <2>2. ASSUME NEW x \in Refs PROVE Around(x)' \subseteq Around(x)
        <3>1. \A u \in Procs : pnew'[u] # NoFile => pnew'[u] = pnew[u]
            BY <1>0, <1>1, TypeParts DEF LockOK
        <3>2. packed'[x] \in Around(x)
            BY <1>0, <1>1 DEF Around
        <3> QED
            BY <1>1, <3>1, <3>2 DEF Around
    <2> QED
        BY <1>1, <2>1, <2>2 DEF FreshInv
<1>6. \A x \in Refs : HalfDeleted(x)' <=> HalfDeleted(x)
    BY <1>1, <1>2 DEF HalfDeleted, Half
<1>7. ASSUME NEW k \in Packers, k # p, NEW x \in Refs
      PROVE  /\ MayPrune(k, x)' <=> MayPrune(k, x)
             /\ ~Packing(k, x) /\ ~Packing(k, x)'
    <2>1. pc'[k] = pc[k] /\ HoldsPacked(k)
        BY <1>0, <1>3, <1>7 DEF ProcInv, PackInv
    <2> QED
        BY <1>1, <1>7, <2>1 DEF MayPrune, Packing, HoldsPacked, NeedsPacked
<1>8. ASSUME NEW x \in Refs PROVE ~Packing(p, x)'
    BY <1>3 DEF Packing
<1>9. ASSUME NEW k \in Packers, NEW x \in Refs PROVE Current(k, x)' /\ Packed(k, x)'
    <2>1. Current(p, x) /\ Packed(k, x)
        BY DEF PackersInv
    <2>2. Current(k, x)'
        BY <1>7, <1>8 DEF Current
    <2>3. CASE k = p
        <3>1. MayPrune(p, x)' => st[p][x] = "read"
            BY <1>1 DEF MayPrune, ProcInv, PackInv, PackRef, PackAt
        <3> QED
            BY <1>1, <2>2, <2>3, <3>1 DEF Packed
    <2>4. CASE k # p
        <3> SUFFICES ASSUME MayPrune(k, x)', loose'[x] = pack'[k][x]
                     PROVE  packed'[x] = loose'[x] \/ (packed'[x] = None /\ HalfDeleted(x)')
            BY <2>2 DEF Packed
        <3>1. MayPrune(k, x) /\ loose[x] = pack[k][x]
            BY <1>1, <1>7, <2>4
        <3>2. pack[k][x] # None
            BY <3>1 DEF MayPrune, ProcInv, PackInv, PackRef
        <3>3. Packing(p, x) => pack[p][x] = loose[x]
            BY <2>1, <3>1, <3>2 DEF Current, Newer, Value
        <3> QED
            BY <1>1, <1>6, <2>1, <3>1, <3>3 DEF Packed, Packing
    <2> QED
        BY <2>3, <2>4
<1>10. StoppedInv'
    BY <1>1, <1>4 DEF StoppedInv
<1>11. LogInv' /\ DeletedStaysDeleted'
    BY <1>1, <1>2 DEF LogInv, DeletedStaysDeleted
<1>12. ASSUME NEW x \in Refs
       PROVE  packed'[x] = packed[x] \/ (Packing(p, x) /\ packed'[x] = pack[p][x])
    BY <1>1 DEF Packing
<1> QED
    BY <1>2, <1>5, <1>7, <1>8, <1>9, <1>10, <1>11, <1>12 DEF PackersInv

LEMMA PruneUnlinkKeeps ==
    ASSUME Whole, TypeOK, ProcInv, FreshInv, PackersInv, StoppedInv, LogInv, DeletedStaysDeleted,
           NEW p \in Packers, NEW r \in Refs, PruneUnlink(p, r)
    PROVE  /\ FreshInv' /\ PackersInv' /\ StoppedInv' /\ LogInv' /\ DeletedStaysDeleted'
           /\ \A x \in Refs \ {r} : Value(x)' = Value(x)
           /\ \/ Value(r)' = Value(r) /\ \A u \in Procs \ {p} : st'[u] = st[u]
              \/ /\ Value(r)' = None
                 /\ \E t \in Txns : /\ Half(t, r) /\ pc[t] \notin Working
                                    /\ st'[t][r] = "late"
                                    /\ \A u \in Procs \ {p, t} : st'[u] = st[u]
           /\ \A k \in Packers, x \in Refs : Packing(k, x)' => Packing(k, x) /\ pack'[k][x] = pack[k][x]
<1>0. p \in Procs /\ p \notin Txns /\ \A k \in Packers : k \in Procs /\ k \notin Txns
    BY Kinds
<1>1. /\ pc[p] = "prune" /\ st[p][r] = "ready" /\ reflock[r] = p /\ loose[r] = pack[p][r]
      /\ loose[r] # None
      /\ UNCHANGED <<packed, log, pnew, want, expect, asked, prev, pc, pack>>
      /\ st'[p][r] = "unlinked" /\ \A x \in Refs \ {r} : loose'[x] = loose[x]
      /\ \A u \in Procs : \A x \in Refs \ {r} : st'[u][x] = st[u][x]
    BY PruneUnlinkFacts
<1>2. \/ loose'[r] = loose[r] /\ \A u \in Procs \ {p} : st'[u] = st[u]
      \/ /\ loose'[r] = None /\ ~(packed[r] = None /\ HalfDeleted(r))
         /\ \A u \in Procs \ {p} : st'[u] = st[u]
      \/ /\ loose'[r] = None /\ packed[r] = None
         /\ \E t \in Txns : /\ Half(t, r) /\ pc[t] \notin Working /\ st'[t][r] = "late"
                            /\ \A u \in Procs \ {p, t} : st'[u] = st[u]
    BY PruneUnlinkFacts
<1>3. MayPrune(p, r) /\ (packed[r] = loose[r] \/ (packed[r] = None /\ HalfDeleted(r)))
    BY <1>1 DEF PackersInv, Packed, MayPrune
<1>4. \A x \in Refs \ {r} : Value(x)' = Value(x)
    BY <1>1 DEF Value
<1>5. \/ /\ Value(r)' = Value(r) /\ \A u \in Procs \ {p} : st'[u] = st[u]
         /\ loose'[r] = loose[r] \/ (loose'[r] = None /\ packed[r] = loose[r])
      \/ /\ Value(r)' = None /\ loose'[r] = None
         /\ \E t \in Txns : /\ Half(t, r) /\ pc[t] \notin Working /\ st'[t][r] = "late"
                            /\ \A u \in Procs \ {p, t} : st'[u] = st[u]
    BY <1>1, <1>2, <1>3 DEF Value
<1>6. ASSUME NEW u \in Txns, NEW x \in Refs
      PROVE  st'[u][x] = st[u][x] \/ (x = r /\ st'[u][x] = "late" /\ Half(u, x))
    <2>1. u \in Procs \ {p}
        BY <1>0, Kinds
    <2> QED
        BY <1>1, <1>5, <2>1
<1>7. ASSUME NEW k \in Packers, NEW x \in Refs
      PROVE  /\ MayPrune(k, x)' => MayPrune(k, x)
             /\ Packing(k, x)' => Packing(k, x) /\ k # p
    <2>1. st'[k][x] = st[k][x] \/ (k = p /\ x = r)
        BY <1>0, <1>1, <1>5
    <2> QED
        BY <1>1, <2>1 DEF MayPrune, Packing
<1>8. FreshInv'
    <2>1. ASSUME NEW u \in Txns, NEW x \in Refs, Pending(u, x)' PROVE Pending(u, x)
        BY <1>1, <1>6, <2>1 DEF Pending
    <2>2. ASSUME NEW x \in Refs PROVE Around(x)' \subseteq Around(x) \cup {None}
        BY <1>1, <1>2 DEF Around
    <2>3. \A u \in Txns, x \in Refs : Pending(u, x) => want[u][x] # None
        BY Kinds DEF Pending
    <2> QED
        BY <1>1, <2>1, <2>2, <2>3 DEF FreshInv
<1>9. ASSUME NEW k \in Packers, NEW x \in Refs PROVE Current(k, x)' /\ Packed(k, x)'
    <2>0. Current(k, x) /\ Packed(k, x) /\ PackRef(k, x)
        BY DEF PackersInv, ProcInv, PackInv
    <2>1. CASE loose'[x] = loose[x] /\ Value(x)' = Value(x) /\ \A u \in Txns : st'[u][x] = st[u][x]
        <3>1. Newer(x) => Newer(x)'
            BY <1>1, <1>7, <2>1 DEF Newer
        <3>2. HalfDeleted(x)' <=> HalfDeleted(x)
            BY <1>1, <2>1 DEF HalfDeleted, Half
        <3> QED
            BY <1>1, <1>7, <2>0, <2>1, <3>1, <3>2 DEF Current, Packed
    <2>2. CASE x = r /\ loose'[r] = None
        <3>1. Packed(k, x)'
            BY <1>1, <1>7, <2>0, <2>2 DEF Packed, MayPrune, PackRef
        <3>2. ASSUME Packing(k, x)' PROVE pack[k][r] = Value(r)'
            <4>1. Packing(k, r) /\ k # p
                BY <1>7, <2>2, <3>2
            <4>2. ~Newer(r)
                BY <1>1, <1>3 DEF Newer
            <4>3. pack[k][r] = Value(r)
                BY <2>0, <2>2, <4>1, <4>2 DEF Current
            <4>4. \A t \in Txns : Half(t, r) => pc[t] \in Working
                BY <4>1 DEF Whole, StoppedInv, Half, Working
            <4> QED
                BY <1>5, <4>3, <4>4
        <3> QED
            BY <1>1, <2>2, <3>1, <3>2 DEF Current
    <2>3. CASE x # r
        BY <1>1, <1>4, <1>6, <2>1, <2>3
    <2>4. CASE x = r /\ loose'[r] = loose[r]
        <3>1. \A u \in Txns : st'[u][x] = st[u][x]
            BY <1>0, <1>1, <1>5, <2>4, Kinds
        <3>2. Value(x)' = Value(x)
            BY <1>1, <2>4 DEF Value
        <3> QED
            BY <2>1, <2>4, <3>1, <3>2
    <2> QED
        BY <1>2, <2>2, <2>3, <2>4
<1>10. StoppedInv'
    BY <1>1, <1>6 DEF StoppedInv
<1>11. LogInv'
    BY <1>1, <1>4, <1>5 DEF LogInv
<1>12. DeletedStaysDeleted'
    BY <1>1, <1>4, <1>5, <1>6 DEF DeletedStaysDeleted
<1> QED
    BY <1>1, <1>4, <1>5, <1>7, <1>8, <1>9, <1>10, <1>11, <1>12 DEF PackersInv

-----------------------------------------------------------------------------
(* The other steps, and all of them together. *)

LEMMA BeginKeeps ==
    ASSUME Whole, TypeOK, ProcInv, FreshInv, PackersInv, StoppedInv, LogInv, DeletedStaysDeleted,
           NEW t \in Txns, Begin(t)
    PROVE  /\ FreshInv' /\ PackersInv' /\ StoppedInv' /\ LogInv' /\ DeletedStaysDeleted'
           /\ UNCHANGED <<packed, pack>>
           /\ \A k \in Packers, x \in Refs : Packing(k, x)' => Packing(k, x)
<1>0. t \in Procs /\ t \notin Packers /\ \A p \in Packers : p \in Procs
    BY Kinds
<1>1. /\ pc[t] = "idle" /\ Goes(t, "lock")
      /\ UNCHANGED <<loose, packed, log, pnew, prev, pack>>
      /\ \A u \in Procs \ {t} : st'[u] = st[u]
      /\ \A u \in Txns \ {t} : want'[u] = want[u] /\ expect'[u] = expect[u]
    BY BeginFacts
<1>2. ASSUME NEW x \in Refs
      PROVE  /\ asked'[x] = asked[x] \cup ({want'[t][x]} \cap Vals)
             /\ st'[t][x] \in {"skip", "todo"} /\ st[t][x] = "skip" /\ want[t][x] = Keep
             /\ \/ want'[t][x] \in {None, Keep}
                \/ want'[t][x] \in Vals /\ want'[t][x] = Value(x) /\ expect'[t][x] = Value(x)
                \/ want'[t][x] \in Vals /\ want'[t][x] \notin asked[x]
    <2>1. st[t][x] = "skip" /\ want[t][x] = Keep
        BY <1>1 DEF ProcInv, TxnInv, TxnRef, TxnAt
    <2> QED
        BY <2>1, BeginFacts DEF Whole
<1>3. \A x \in Refs : Value(x)' = Value(x) /\ Around(x)' = Around(x) /\ Value(x) \in Around(x)
    BY <1>1 DEF Value, Around
<1>4. FreshInv'
    <2>1. ASSUME NEW x \in Refs PROVE Around(x)' \subseteq asked'[x] \cup {None}
        BY <1>2, <1>3 DEF FreshInv
    <2>2. ASSUME NEW x \in Refs, NEW u \in Txns PROVE want'[u][x] \in asked'[x] \cup {None, Keep}
        BY <1>1, <1>2 DEF FreshInv
    <2>3. ASSUME NEW x \in Refs, NEW u \in Txns, Pending(u, x)'
          PROVE  want'[u][x] \notin Around(x)' /\ \A v \in Txns \ {u} : want'[v][x] # want'[u][x]
        <3>0. None \notin Vals /\ Keep \notin Vals
            BY Kinds
        <3>1. CASE u = t
            <4>1. want'[t][x] \in Vals /\ want'[t][x] # expect'[t][x]
                BY <2>3, <3>1 DEF Pending
            <4>2. want'[t][x] \notin asked[x]
                BY <1>2, <3>0, <4>1
            <4>3. \A v \in Txns \ {t} : want'[v][x] \in asked[x] \cup {None, Keep}
                BY <1>1 DEF FreshInv
            <4> QED
                BY <1>3, <3>0, <3>1, <4>1, <4>2, <4>3 DEF FreshInv
        <3>2. CASE u # t
            <4>1. Pending(u, x) /\ want'[u] = want[u] /\ want[u][x] \in Vals
                BY <1>0, <1>1, <2>3, <3>2, Kinds DEF Pending
            <4>2. /\ want[u][x] \notin Around(x) /\ want[u][x] \in asked[x]
                  /\ \A v \in Txns \ {u} : want[v][x] # want[u][x]
                BY <3>0, <4>1 DEF FreshInv
            <4>3. want'[t][x] # want[u][x]
                BY <1>2, <1>3, <3>0, <4>1, <4>2
            <4> QED
                BY <1>1, <1>3, <4>1, <4>2, <4>3
        <3> QED
            BY <3>1, <3>2
    <2> QED
        BY <2>1, <2>2, <2>3 DEF FreshInv
<1>5. ASSUME NEW u \in Txns, NEW x \in Refs
      PROVE  /\ st'[u][x] = "unpacked" <=> st[u][x] = "unpacked"
             /\ st'[u][x] \in {"unpacked", "done"} => st'[u][x] = st[u][x] /\ u # t
    BY <1>1, <1>2, Kinds
<1>6. ASSUME NEW k \in Packers, NEW x \in Refs
      PROVE  (MayPrune(k, x)' <=> MayPrune(k, x)) /\ (Packing(k, x)' <=> Packing(k, x))
    BY <1>0, <1>1 DEF MayPrune, Packing, Goes
<1>7. PackersInv'
    <2>1. \A x \in Refs : HalfDeleted(x)' <=> HalfDeleted(x)
        BY <1>1, <1>3, <1>5 DEF HalfDeleted, Half
    <2>2. \A x \in Refs : Newer(x)' <=> Newer(x)
        BY <1>1, <1>6 DEF Newer
    <2> QED
        BY <1>1, <1>3, <1>6, <2>1, <2>2 DEF PackersInv, Current, Packed
<1>8. StoppedInv'
    BY <1>1, <1>5, Kinds DEF StoppedInv, Goes
<1>9. LogInv'
    BY <1>1, <1>3 DEF LogInv
<1>10. DeletedStaysDeleted'
    <2> SUFFICES ASSUME NEW u \in Txns, NEW x \in Refs, st'[u][x] = "done", want'[u][x] = None,
                        \A v \in Txns : want'[v][x] \notin Vals
                 PROVE  Value(x)' = None
        BY DEF DeletedStaysDeleted
    <2>1. st[u][x] = "done" /\ want[u][x] = None
        BY <1>1, <1>5
    <2>2. \A v \in Txns : want[v][x] \notin Vals
        BY <1>1, <1>2, Kinds
    <2> QED
        BY <1>3, <2>1, <2>2 DEF DeletedStaysDeleted
<1> QED
    BY <1>1, <1>4, <1>6, <1>7, <1>8, <1>9, <1>10

LEMMA ReflogKeeps ==
    ASSUME TypeOK, NEW t \in Txns, TxnInv(t), LogInv, NEW r \in Refs,
           WriteReflog(t, r) \/ DeleteReflog(t, r)
    PROVE  LogInv'
<1>1. UNCHANGED <<loose, packed>>
    BY DEF WriteReflog, DeleteReflog
<1>2. \A x \in Refs : Value(x)' = Value(x)
    BY <1>1 DEF Value
<1>3. CASE log' = log
    BY <1>2, <1>3 DEF LogInv
<1>4. CASE log' = [log EXCEPT ![r] = {}]
    <2>1. \A x \in Refs : log'[x] \in {log[x], {}}
        BY <1>4, TypeParts DEF DiskOK
    <2> QED
        BY <1>2, <2>1 DEF LogInv
<1>5. CASE /\ pc[t] = "update" /\ st[t][r] = "ready"
           /\ log' = [log EXCEPT ![r] = log[r] \cup ({prev[t][r], want[t][r]} \ {None})]
    <2>1. prev[t][r] = Value(r)
        BY <1>5 DEF TxnInv, TxnSees, Working, Checks
    <2>2. /\ log'[r] = log[r] \cup ({prev[t][r], want[t][r]} \ {None})
          /\ \A x \in Refs \ {r} : log'[x] = log[x]
        BY <1>5, TypeParts DEF DiskOK
    <2> QED
        BY <1>2, <2>1, <2>2 DEF LogInv
<1> QED
    BY <1>3, <1>4, <1>5 DEF WriteReflog, DeleteReflog

Cross == FreshInv /\ PackersInv /\ StoppedInv /\ LogInv /\ DeletedStaysDeleted
Kept  == TypesNext /\ ProcInv' /\ Cross' /\ ReadInv'

LEMMA ProcNext ==
    ASSUME TypeOK, ProcInv, NEW p \in Procs, ProcGood(p)
    PROVE  TypesNext /\ ProcInv' /\ Frame(p)
<1>1. TypesNext /\ Frame(p) /\ Respects(p)
    BY Kinds DEF ProcGood, TxnGood, PackGood
<1>2. \A t \in Txns : TxnInv(t)'
    <2> SUFFICES ASSUME NEW t \in Txns PROVE TxnInv(t)'
        OBVIOUS
    <2>1. CASE t = p
        BY <2>1 DEF ProcGood, TxnGood
    <2>2. CASE t # p
        BY <1>1, <2>2, OtherTxns DEF ProcInv
    <2> QED
        BY <2>1, <2>2
<1>3. \A k \in Packers : PackInv(k)'
    <2> SUFFICES ASSUME NEW k \in Packers PROVE PackInv(k)'
        OBVIOUS
    <2>1. CASE k = p
        BY <2>1 DEF ProcGood, PackGood
    <2>2. CASE k # p
        BY <1>1, <2>2, OtherPackers DEF ProcInv
    <2> QED
        BY <2>1, <2>2
<1> QED
    BY <1>1, <1>2, <1>3 DEF ProcInv

LEMMA CalmCross ==
    ASSUME TypeOK, Cross, Calm, log' = log \/ LogInv' PROVE Cross'
<1>1. FreshInv' /\ PackersInv' /\ StoppedInv' /\ DeletedStaysDeleted'
    BY CalmFresh, CalmPackers, CalmDeleted DEF Cross
<1>2. LogInv'
    <2>1. \A x \in Refs : Value(x)' = Value(x)
        BY DEF Calm, Value
    <2> QED
        BY <2>1 DEF Cross, LogInv
<1> QED
    BY <1>1, <1>2 DEF Cross

LEMMA CalmKept ==
    ASSUME Inv, Observe, NEW p \in Procs, ProcGood(p), Calm, UNCHANGED <<tries, result>>,
           log' = log \/ LogInv'
    PROVE  Kept
<1>1. TypesNext /\ ProcInv' /\ Frame(p)
    BY ProcNext DEF Inv
<1>2. Cross'
    BY CalmCross DEF Inv, Cross
<1>3. ReadInv'
    BY <1>1, CalmReads, Kinds DEF Inv
<1> QED
    BY <1>1, <1>2, <1>3 DEF Kept

(* The readers after a step of p that changes the store.                     *)
LEMMA LoudReads ==
    ASSUME Inv, Observe, NEW p \in Procs, Frame(p), UNCHANGED <<tries, result>>,
           \A x \in Refs : \/ packed'[x] = packed[x]
                           \/ packed'[x] \in Appears(x)'
                           \/ \E k \in Packers : Packing(k, x) /\ packed'[x] = pack[k][x],
           \A k \in Packers, x \in Refs :
               Packing(k, x)' => Packing(k, x) /\ pack'[k][x] = pack[k][x]
    PROVE  ReadInv'
<1> SUFFICES ASSUME NEW q \in Readers PROVE ReadOK(q)'
    BY DEF ReadInv
<1>1. /\ TypeOK /\ ReadOK(q) /\ Target[q] \in Refs /\ pc'[q] = pc[q]
    BY InputAssumption, Kinds DEF Inv, ReadInv, Frame
<1>2. \/ packed'[Target[q]] = packed[Target[q]]
      \/ packed'[Target[q]] \in Appears(Target[q])'
      \/ \E k \in Packers : Packing(k, Target[q]) /\ packed'[Target[q]] = pack[k][Target[q]]
    BY <1>1
<1>3. \A k \in Packers : Packing(k, Target[q])' =>
               \/ Packing(k, Target[q]) /\ pack'[k][Target[q]] = pack[k][Target[q]]
               \/ pack'[k][Target[q]] = Value(Target[q])
    BY <1>1
<1> QED
    BY <1>1, <1>2, <1>3, ReadOthers

(* The packers are where they were after a step of a transaction.            *)
LEMMA TxnPacking ==
    ASSUME NEW t \in Txns, Frame(t)
    PROVE  \A k \in Packers, x \in Refs :
               (Packing(k, x)' => Packing(k, x)) /\ pack'[k][x] = pack[k][x]
<1>1. \A k \in Packers : k \in Procs \ {t} /\ k \in (Procs \cup Readers) \ {t} /\ k \notin Txns
    BY Kinds
<1> QED
    BY <1>1 DEF Frame, Packing

LEMMA TxnKept ==
    ASSUME Whole, Inv, Observe, NEW t \in Txns, Begin(t) \/ TxnStep(t) \/ Abort(t)
    PROVE  Kept
<1>0. /\ TypeOK /\ ProcInv /\ TxnInv(t) /\ Cross /\ ReadInv /\ t \in Procs /\ t \notin Packers
      /\ FreshInv /\ PackersInv /\ StoppedInv /\ LogInv /\ DeletedStaysDeleted
    BY Kinds DEF Inv, ProcInv, Cross
<1>1. UNCHANGED <<tries, result>>
    BY DEF Begin, TxnStep, Abort, LockPacked, WritePacked, Finish, CommitPacked, ReleaseAll,
           LockRef, LockRefTimeout, CheckRef, WriteReflog, CommitRef, DeleteReflog,
           UnlinkLoose, ReleaseRef, reader
<1>2. ASSUME TxnGood(t), TxnCalm(t), log' = log \/ LogInv' PROVE Kept
    <2>1. Calm
        BY <1>0, <1>2, TxnCalmIsCalm
    <2>2. ProcGood(t)
        BY <1>0, <1>2 DEF ProcGood
    <2> QED
        BY <1>0, <1>1, <1>2, <2>1, <2>2, CalmKept
<1>3. ASSUME TxnGood(t), Cross',
             \A x \in Refs : packed'[x] = packed[x] \/ packed'[x] \in Appears(x)'
      PROVE  Kept
    <2>1. TypesNext /\ ProcInv' /\ Frame(t)
        BY <1>0, <1>3, ProcNext DEF ProcGood
    <2>2. ReadInv'
        BY <1>0, <1>1, <1>3, <2>1, TxnPacking, LoudReads
    <2> QED
        BY <1>3, <2>1, <2>2 DEF Kept
<1>4. CASE Begin(t)
    <2>1. Cross' /\ packed' = packed
        BY <1>0, <1>4, BeginKeeps DEF Cross
    <2> QED
        BY <1>0, <1>3, <1>4, <2>1, BeginGood
<1>5. CASE LockPacked(t) \/ WritePacked(t) \/ Abort(t) \/ Finish(t)
    <2>1. log' = log
        BY <1>5 DEF LockPacked, WritePacked, Abort, Finish, disk
    <2> QED
        BY <1>0, <1>2, <1>5, <2>1, LockPackedGood, WritePackedGood, PreparedGood, PrepareCalm
<1>6. CASE ReleaseAll(t) \/ \E r \in Refs : ReleaseRef(t, r)
    <2>1. log' = log
        BY <1>6 DEF ReleaseAll, ReleaseRef, disk
    <2>2. TxnGood(t)
        BY <1>0, <1>6, ReleaseAllGood, ReleaseRefGood
    <2> QED
        BY <1>0, <1>2, <1>6, <2>1, <2>2, ReleaseCalm
<1>7. CASE CommitPacked(t)
    <2>1. TxnGood(t)
        BY <1>0, <1>7, CommitPackedGood
    <2>2. CASE Unpacks(t)
        <3>1. Cross' /\ \A x \in Refs : packed'[x] = packed[x] \/ packed'[x] \in Appears(x)'
            BY <1>0, <2>2, UnpacksKeeps DEF Cross
        <3> QED
            BY <1>3, <2>1, <3>1
    <2> QED
        BY <1>0, <1>2, <1>7, <2>1, <2>2, CommitPackedCases DEF GivesUp
<1>8. ASSUME NEW r \in Refs, LockRef(t, r) \/ LockRefTimeout(t, r) \/ CheckRef(t, r) PROVE Kept
    <2>1. log' = log
        BY <1>8 DEF LockRef, LockRefTimeout, CheckRef, disk
    <2> QED
        BY <1>0, <1>2, <1>8, <2>1, LockRefGood, LockRefTimeoutGood, CheckRefGood,
           LockRefCalm, CheckRefCalm
<1>9. ASSUME NEW r \in Refs, WriteReflog(t, r) \/ DeleteReflog(t, r) PROVE Kept
    BY <1>0, <1>2, <1>9, WriteReflogGood, DeleteReflogGood, ReflogCalm, ReflogKeeps
<1>10. ASSUME NEW r \in Refs, CommitRef(t, r) PROVE Kept
    <2>1. TxnGood(t)
        BY <1>0, <1>10, CommitRefGood
    <2>2. CASE Commits(t, r)
        <3>1. Cross' /\ packed' = packed
            BY <1>0, <2>2, CommitsKeeps DEF Cross, Commits
        <3> QED
            BY <1>3, <2>1, <3>1
    <2> QED
        BY <1>0, <1>2, <1>10, <2>1, <2>2, CommitRefCases DEF GivesUp
<1>11. ASSUME NEW r \in Refs, UnlinkLoose(t, r) PROVE Kept
    <2>1. TxnGood(t)
        BY <1>0, <1>11, UnlinkLooseGood
    <2>2. CASE Unlinks(t, r)
        <3>1. Cross' /\ packed' = packed
            BY <1>0, <2>2, UnlinksKeeps DEF Cross, Unlinks
        <3> QED
            BY <1>3, <2>1, <3>1
    <2> QED
        BY <1>0, <1>2, <1>11, <2>1, <2>2, UnlinkLooseCases DEF GivesUp
<1> QED
    BY <1>4, <1>5, <1>6, <1>7, <1>8, <1>9, <1>10, <1>11 DEF TxnStep

LEMMA PackKept ==
    ASSUME Whole, Inv, Observe, NEW p \in Packers, PackStep(p)
    PROVE  Kept
<1>0. /\ TypeOK /\ ProcInv /\ PackInv(p) /\ Cross /\ ReadInv /\ p \in Procs /\ p \notin Txns
      /\ FreshInv /\ PackersInv /\ StoppedInv /\ LogInv /\ DeletedStaysDeleted
      /\ ~OptimizeAuto /\ \A x \in Refs : Current(p, x)
    BY Kinds DEF Inv, ProcInv, Cross, PackersInv, Whole
<1>1. UNCHANGED <<tries, result, log>>
    BY DEF PackStep, PackLock, PackGiveUp, PackList, PackWrite, PackCommit, PackUnlock, PackDone,
           PackRead, PruneLock, PruneCheck, PruneUnlink, PruneUnlock, reader, disk
<1>2. ASSUME PackGood(p), PackCalm(p) PROVE Kept
    <2>1. Calm
        BY <1>0, <1>2, PackCalmIsCalm
    <2>2. ProcGood(p)
        BY <1>0, <1>2 DEF ProcGood
    <2> QED
        BY <1>0, <1>1, <2>1, <2>2, CalmKept
<1>3. CASE PackLock(p) \/ PackGiveUp(p) \/ PackList(p) \/ PackUnlock(p)
    BY <1>0, <1>2, <1>3, PackLockGood, PackListGood, PackUnlockGood, PackLockCalm
<1>4. CASE PackWrite(p)
    BY <1>0, <1>2, <1>4, PackWriteGood, PackWriteCalm
<1>5. CASE PackDone(p)
    BY <1>0, <1>2, <1>5, PackDoneGood, PackDoneCalm
<1>6. ASSUME NEW r \in Refs, PackRead(p, r) PROVE Kept
    BY <1>0, <1>2, <1>6, PackReadGood, PackReadCalm
<1>7. ASSUME NEW r \in Refs, PruneLock(p, r) \/ PruneCheck(p, r) \/ PruneUnlock(p, r) PROVE Kept
    BY <1>0, <1>2, <1>7, PruneLockGood, PruneCalm
<1>8. CASE PackInstalls(p)
    <2>1. TypesNext /\ ProcInv' /\ Frame(p)
        BY <1>0, <1>8, PackCommitGood, ProcNext DEF ProcGood
    <2>2. /\ Cross'
          /\ \A x \in Refs : \/ packed'[x] = packed[x]
                             \/ Packing(p, x) /\ packed'[x] = pack[p][x]
          /\ \A k \in Packers, x \in Refs : Packing(k, x)' => Packing(k, x) /\ pack'[k][x] = pack[k][x]
        BY <1>0, <1>8, PackCommitKeeps DEF Cross
    <2>3. ReadInv'
        BY <1>0, <1>1, <2>1, <2>2, LoudReads
    <2> QED
        BY <2>1, <2>2, <2>3 DEF Kept
<1>9. ASSUME NEW r \in Refs, PruneUnlink(p, r) PROVE Kept
    <2>1. TypesNext /\ ProcInv' /\ Frame(p)
        BY <1>0, <1>9, PruneUnlinkGood, ProcNext DEF ProcGood
    <2>2. /\ Cross'
          /\ \A k \in Packers, x \in Refs : Packing(k, x)' => Packing(k, x) /\ pack'[k][x] = pack[k][x]
        BY <1>0, <1>9, PruneUnlinkKeeps DEF Cross
    <2>3. packed' = packed
        BY <1>9 DEF PruneUnlink
    <2>4. ReadInv'
        BY <1>0, <1>1, <2>1, <2>2, <2>3, LoudReads
    <2> QED
        BY <2>1, <2>2, <2>4 DEF Kept
<1>10. CASE PackCommitFails(p)
    BY <1>0, <1>2, <1>10, PackCommitFailsGood, PackCommitFailsCalm
<1> QED
    BY <1>3, <1>4, <1>5, <1>6, <1>7, <1>8, <1>9, <1>10, PackCommitCases DEF PackStep

LEMMA OtherKept ==
    ASSUME Whole, Inv, Observe,
           \/ \E p \in Procs : Crash(p)
           \/ \E r \in Refs : RemoveRefLock(r)
           \/ RemovePackedLock
           \/ \E q \in Readers : ReadStep(q)
    PROVE  Kept
<1>0. TypeOK /\ ProcInv /\ Cross /\ ReadInv /\ PackersInv
    BY DEF Inv, Cross
<1>1. ASSUME NEW p \in Procs, ProcGood(p), ProcCalm(p), UNCHANGED <<tries, result, log>> PROVE Kept
    <2>1. Calm
        BY <1>0, <1>1, Kinds, TxnCalmIsCalm, PackCalmIsCalm DEF ProcCalm
    <2> QED
        BY <1>1, <2>1, CalmKept
<1>2. ASSUME NEW p \in Procs, Crash(p) PROVE Kept
    <2>1. UNCHANGED <<tries, result, log>>
        BY <1>2 DEF Crash, reader, disk
    <2> QED
        BY <1>0, <1>1, <1>2, <2>1, CrashGood, CrashCalm
<1>3. CASE RemovePackedLock \/ \E r \in Refs : RemoveRefLock(r)
    <2>1. UNCHANGED <<tries, result, log>>
        BY <1>3 DEF RemovePackedLock, RemoveRefLock, reader, disk
    <2>2. PICK p \in Procs : ProcGood(p)
        BY <1>0, <1>3, RemoveLockGood
    <2>3. ProcCalm(p)
        BY <1>0, <1>3, RemoveLockCalm
    <2> QED
        BY <1>1, <2>1, <2>2, <2>3
<1>4. ASSUME NEW q \in Readers, ReadStep(q) PROVE Kept
    <2>1. TypesNext /\ Frame(q) /\ Respects(q) /\ Calm /\ log' = log
        BY <1>0, <1>4, ReadGood
    <2>2. ProcInv'
        <3>1. \A t \in Txns : t # q
            BY Kinds
        <3>2. \A k \in Packers : k # q
            BY Kinds
        <3> QED
            BY <1>0, <2>1, <3>1, <3>2, OtherTxns, OtherPackers DEF ProcInv
    <2>3. Cross'
        BY <1>0, <2>1, CalmCross
    <2>4. ReadInv'
        BY <1>0, <1>4, ReadReads
    <2> QED
        BY <2>1, <2>2, <2>3, <2>4 DEF Kept
<1> QED
    BY <1>2, <1>3, <1>4

LEMMA ObserveTypes ==
    ASSUME TypeOK, DiskOK', Observe PROVE seen' \in [Readers -> SUBSET Value0]
<1>1. ASSUME NEW r \in Refs PROVE Appears(r) \subseteq Value0 /\ Appears(r)' \subseteq Value0
    <2>1. Value(r) \in Value0 /\ Value(r)' \in Value0
        BY TypeParts DEF DiskOK, Value
    <2>2. None \in Value0
        BY DEF Value0
    <2>3. Appears(r) \subseteq Value0
        BY <2>1, <2>2 DEF Appears
    <2>4. Appears(r)' \subseteq Value0
        BY <2>1, <2>2 DEF Appears
    <2> QED
        BY <2>3, <2>4
<1>2. ASSUME NEW q \in Readers
      PROVE  /\ seen[q] \subseteq Value0
             /\ Appears(Target[q]) \subseteq Value0 /\ Appears(Target[q])' \subseteq Value0
    BY <1>1, InputAssumption, TypeParts DEF RestOK
<1> QED
    BY <1>2 DEF Observe

LEMMA InvNext ==
    ASSUME Whole, Inv, [Next]_vars PROVE Inv'
<1>1. CASE UNCHANGED vars
    <2> USE <1>1 DEF vars, disk, locks, request, found, reader
    <2>1. TypeOK'
        BY DEF Inv, TypeOK
    <2>2. \A x \in Refs : Value(x)' = Value(x) /\ Around(x)' = Around(x)
        BY DEF Value, Around
    <2>3. \A t \in Txns, x \in Refs : (Half(t, x)' <=> Half(t, x)) /\ (Pending(t, x)' <=> Pending(t, x))
        BY <2>2 DEF Half, Pending
    <2>4. \A x \in Refs : (HalfDeleted(x)' <=> HalfDeleted(x)) /\ Appears(x)' = Appears(x)
        BY <2>2, <2>3 DEF HalfDeleted, Appears
    <2>5. \A p \in Packers, x \in Refs :
            (MayPrune(p, x)' <=> MayPrune(p, x)) /\ (Packing(p, x)' <=> Packing(p, x))
        BY DEF MayPrune, Packing
    <2>6. Calm
        BY <2>2, <2>3, <2>5 DEF Calm
    <2>7. Cross'
        BY <2>6, CalmCross DEF Inv, Cross
    <2>8. ReadInv'
        <3> SUFFICES ASSUME NEW q \in Readers PROVE ReadOK(q)'
            BY DEF ReadInv
        <3>1. Target[q] \in Refs /\ ReadOK(q)
            BY InputAssumption DEF Inv, ReadInv
        <3> QED
            BY <2>4, <2>5, <3>1 DEF ReadOK
    <2>9. ProcInv'
        <3>1. Frame(Free) /\ Respects(Free)
            BY <2>2 DEF Frame, Respects
        <3>2. Free \notin Txns /\ Free \notin Packers
            BY Kinds
        <3> QED
            BY <3>1, <3>2, OtherTxns, OtherPackers DEF Inv, ProcInv
    <2> QED
        BY <2>1, <2>7, <2>8, <2>9 DEF Inv, Cross
<1>2. CASE Next
    <2>1. Kept /\ Observe
        BY <1>2, TxnKept, PackKept, OtherKept DEF Next, Step
    <2>2. seen' \in [Readers -> SUBSET Value0]
        BY <2>1, ObserveTypes DEF Inv, Kept, TypesNext
    <2>3. TypeOK'
        BY <2>1, <2>2 DEF Kept, TypesNext, TypeOK, PlaceOK, StatusOK, DiskOK, LockOK, RequestOK,
                          FoundOK, PackOK, ReaderOK
    <2> QED
        BY <2>1, <2>3 DEF Kept, Inv, Cross
<1> QED
    BY <1>1, <1>2

LEMMA InvInit ==
    ASSUME Init PROVE Inv
<1>1. TypeOK
    BY TypeInit
<1>2. /\ \A t \in Txns : t \in Procs /\ t \in Procs \cup Readers
      /\ \A p \in Packers : p \in Procs /\ p \in Procs \cup Readers /\ p \notin Txns
    BY Kinds
<1>3. /\ \A p \in Procs \cup Readers : pc[p] = "idle"
      /\ \A p \in Procs : pnew[p] = NoFile /\ \A x \in Refs : st[p][x] = "skip"
      /\ \A t \in Txns, x \in Refs : want[t][x] = Keep /\ expect[t][x] = Any
      /\ \A p \in Packers, x \in Refs : pack[p][x] = None
      /\ \A q \in Readers : tries[q] = Attempts
      /\ \A x \in Refs : asked[x] = {x}
      /\ \A x \in Refs : loose[x] \in {x, None} /\ packed[x] \in {x, None}
      /\ \A x \in Refs : log[x] = IF Value(x) = None THEN {} ELSE {x}
    BY DEF Init
<1>4. ASSUME NEW t \in Txns PROVE TxnInv(t)
    <2>1. pc[t] = "idle" /\ pnew[t] = NoFile
        BY <1>2, <1>3
    <2>2. ASSUME NEW x \in Refs PROVE TxnRef(t, x) /\ HoldsRef(t, x) /\ TxnSees(t, x)
        <3>1. st[t][x] = "skip" /\ want[t][x] = Keep /\ expect[t][x] = Any
            BY <1>2, <1>3
        <3> QED
            BY <2>1, <3>1 DEF TxnRef, TxnAt, HoldsRef, TxnSees, Working, Checks, Held
    <2>3. TxnFile(t) /\ HoldsPacked(t)
        BY <2>1 DEF TxnFile, HoldsPacked, NeedsPacked
    <2> QED
        BY <2>2, <2>3 DEF TxnInv
<1>5. ASSUME NEW p \in Packers PROVE PackInv(p)
    <2>1. pc[p] = "idle" /\ p \notin Txns
        BY <1>2, <1>3
    <2>2. ASSUME NEW x \in Refs PROVE PackRef(p, x) /\ HoldsRef(p, x)
        <3>1. st[p][x] = "skip"
            BY <1>2, <1>3
        <3> QED
            BY <2>1, <3>1 DEF PackRef, PackAt, HoldsRef, Working
    <2>3. PackFile(p) /\ HoldsPacked(p)
        BY <2>1 DEF PackFile, HoldsPacked, NeedsPacked
    <2> QED
        BY <2>2, <2>3 DEF PackInv
<1>6. FreshInv
    <2>1. \A x \in Refs : Around(x) \subseteq {x, None}
        BY <1>3 DEF Around
    <2>2. \A t \in Txns, x \in Refs : ~Pending(t, x)
        BY <1>3, Kinds DEF Pending
    <2> QED
        BY <1>3, <2>1, <2>2 DEF FreshInv
<1>7. PackersInv
    BY <1>2, <1>3 DEF PackersInv, Current, Packed, MayPrune, Packing
<1>8. StoppedInv /\ DeletedStaysDeleted
    BY <1>2, <1>3, Kinds DEF StoppedInv, DeletedStaysDeleted
<1>9. LogInv
    BY <1>3 DEF LogInv, Value
<1>10. ReadInv
    <2>1. Attempts > 0
        BY BoundsAssumption
    <2> QED
        BY <1>3, <2>1 DEF ReadInv, ReadOK
<1> QED
    BY <1>1, <1>4, <1>5, <1>6, <1>7, <1>8, <1>9, <1>10 DEF Inv, ProcInv

-----------------------------------------------------------------------------
(* The theorems about FilesRefs itself. *)

LEMMA InvHolds == Whole /\ Spec => []Inv
<1>1. ASSUME Whole PROVE Spec => []Inv
    <2>1. Init => Inv
        BY InvInit
    <2>2. Inv /\ [Next]_vars => Inv'
        BY <1>1, InvNext
    <2> QED
        BY <2>1, <2>2, PTL DEF Spec
<1> QED
    BY <1>1

(* Under Whole a lock-free read (read_ref_internal) returns a value that its *)
(* ref had while it was reading, or gives up after losing the race each time.*)
THEOREM ReadsAreCurrent == Whole /\ Spec => []ReadsCurrent
<1>1. Inv => ReadsCurrent
    BY DEF Inv, ReadInv, ReadOK, ReadsCurrent
<1> QED
    BY <1>1, InvHolds, PTL

(* Under Whole the state is well-typed and a reflog mentions its ref's value *)
(* (parse_and_write_reflog before commit_ref, delete_reflog before unlink).  *)
THEOREM ReflogsNameValues == Whole /\ Spec => []ReflogNamesValue
<1>1. Inv => ReflogNamesValue
    BY DEF Inv, LogInv, ReflogNamesValue
<1> QED
    BY <1>1, InvHolds, PTL

(* Under Whole what a transaction deleted stays deleted until one sets it:   *)
(* packed-refs stays locked until the loose file is gone.                    *)
THEOREM DeletionsLast == Whole /\ Spec => []DeletedStaysDeleted
<1>1. Inv => DeletedStaysDeleted
    BY DEF Inv
<1> QED
    BY <1>1, InvHolds, PTL

-----------------------------------------------------------------------------
(* The refinement: what a step is, seen through Store. *)

Did(t, r)      == st[t][r] \in {"done", "late"} /\ want[t][r] # Keep
Rejected(t, r) == st[t][r] = "rejected"
Open == {"lock", "pwrite", "prepared", "update", "unlink", "undo", "crashed"}

LEMMA OutcomeIs ==
    /\ \A t \in Txns : pc[t] \in Open => Outcome(t) = "open"
    /\ \A t \in Txns : pc'[t] \in Open => Outcome(t)' = "open"
    /\ \A t \in Txns : pc'[t] = pc[t] => Outcome(t)' = Outcome(t)
BY DEF Outcome, Open

(* Nothing happens, seen through Store.                                      *)
Stutters ==
    /\ \A r \in Refs : Value(r)' = Value(r)
    /\ UNCHANGED <<want, expect>>
    /\ \A t \in Txns, r \in Refs : Did(t, r)' <=> Did(t, r)
    /\ \A t \in Txns, r \in Refs : Rejected(t, r)' <=> Rejected(t, r)
    /\ \A t \in Txns : Outcome(t)' = Outcome(t)

LEMMA StoreStutters ==
    ASSUME Stutters PROVE UNCHANGED Store!vars
<1>1. [r \in Refs |-> Value(r)]' = [r \in Refs |-> Value(r)]
    BY DEF Stutters
<1>2. [t \in Txns |-> {r \in Refs : st[t][r] = "rejected"}]'
        = [t \in Txns |-> {r \in Refs : st[t][r] = "rejected"}]
    BY DEF Stutters, Rejected
<1>3. [t \in Txns |-> {r \in Refs : st[t][r] \in {"done", "late"} /\ want[t][r] # Keep}]'
        = [t \in Txns |-> {r \in Refs : st[t][r] \in {"done", "late"} /\ want[t][r] # Keep}]
    BY DEF Stutters, Did
<1>4. [t \in Txns |-> Outcome(t)]' = [t \in Txns |-> Outcome(t)]
    BY DEF Stutters
<1>5. UNCHANGED <<want, expect>>
    BY DEF Stutters
<1> QED
    BY <1>1, <1>2, <1>3, <1>4, <1>5 DEF Store!vars

(* t changes the refs of R.                                                  *)
Applies(t, R) ==
    /\ \/ Outcome(t) = "open"
       \/ Outcome(t) = "failed" /\ \A r \in R : want[t][r] = None
    /\ \A r \in R : /\ want[t][r] # Keep /\ ~Did(t, r) /\ ~Rejected(t, r)
                    /\ CheckOld(t, r, Value(r))
    /\ \A r \in Refs : Value(r)' = IF r \in R THEN want[t][r] ELSE Value(r)
    /\ UNCHANGED <<want, expect>>
    /\ \A u \in Txns, r \in Refs : Did(u, r)' <=> (Did(u, r) \/ (u = t /\ r \in R))
    /\ \A u \in Txns, r \in Refs : Rejected(u, r)' <=> Rejected(u, r)
    /\ \A u \in Txns : Outcome(u)' = Outcome(u)

LEMMA StoreApplies ==
    ASSUME NEW t \in Txns, NEW R \in SUBSET Refs, Applies(t, R) PROVE Store!Apply(t, R)
<1> DEFINE V == [r \in Refs |-> Value(r)]
           D == [u \in Txns |-> {r \in Refs : st[u][r] \in {"done", "late"} /\ want[u][r] # Keep}]
           J == [u \in Txns |-> {r \in Refs : st[u][r] = "rejected"}]
           O == [u \in Txns |-> Outcome(u)]
<1>1. V' = [r \in Refs |-> IF r \in R THEN want[t][r] ELSE V[r]]
    BY DEF Applies
<1>2. J' = J
    BY DEF Applies, Rejected
<1>3. D' = [D EXCEPT ![t] = D[t] \cup R]
    <2>1. ASSUME NEW u \in Txns
          PROVE  {r \in Refs : st'[u][r] \in {"done", "late"} /\ want'[u][r] # Keep}
                   = IF u = t THEN D[t] \cup R ELSE D[u]
        BY <2>1 DEF Applies, Did
    <2>2. D' = [u \in Txns |-> IF u = t THEN D[t] \cup R ELSE D[u]]
        BY <2>1
    <2> HIDE DEF D
    <2> QED
        BY <2>2 DEF D
<1>4. O' = O
    BY DEF Applies
<1>5. R \subseteq {r \in Refs : want[t][r] # Keep} \ (D[t] \cup J[t])
    BY DEF Applies, Did, Rejected
<1>6. \A r \in R : expect[t][r] \in {Any, V[r]}
    BY DEF Applies, CheckOld
<1>7. O[t] = "open" \/ (O[t] = "failed" /\ \A r \in R : want[t][r] = None)
    BY DEF Applies
<1>8. UNCHANGED <<want, expect>>
    BY DEF Applies
<1> QED
    BY <1>1, <1>2, <1>3, <1>4, <1>5, <1>6, <1>7, <1>8 DEF Store!Apply, Store!Touched

(* The update of r by t is rejected.                                         *)
Refuses(t, r) ==
    /\ Outcome(t) = "open" /\ ~Did(t, r)
    /\ \A x \in Refs : Value(x)' = Value(x)
    /\ UNCHANGED <<want, expect>>
    /\ \A u \in Txns, x \in Refs : Did(u, x)' <=> Did(u, x)
    /\ \A u \in Txns, x \in Refs : Rejected(u, x)' <=> (Rejected(u, x) \/ (u = t /\ x = r))
    /\ \A u \in Txns : Outcome(u)' = Outcome(u)

LEMMA StoreRefuses ==
    ASSUME NEW t \in Txns, NEW r \in Refs, Refuses(t, r) PROVE Store!Refuse(t, {r})
<1> DEFINE V == [x \in Refs |-> Value(x)]
           D == [u \in Txns |-> {x \in Refs : st[u][x] \in {"done", "late"} /\ want[u][x] # Keep}]
           J == [u \in Txns |-> {x \in Refs : st[u][x] = "rejected"}]
           O == [u \in Txns |-> Outcome(u)]
<1>1. V' = V /\ O' = O /\ UNCHANGED <<want, expect>>
    BY DEF Refuses
<1>2. D' = D
    BY DEF Refuses, Did
<1>3. J' = [J EXCEPT ![t] = J[t] \cup {r}]
    <2>1. ASSUME NEW u \in Txns
          PROVE  {x \in Refs : st'[u][x] = "rejected"} = IF u = t THEN J[t] \cup {r} ELSE J[u]
        BY <2>1 DEF Refuses, Rejected
    <2>2. J' = [u \in Txns |-> IF u = t THEN J[t] \cup {r} ELSE J[u]]
        BY <2>1
    <2> HIDE DEF J
    <2> QED
        BY <2>2 DEF J
<1>4. O[t] = "open" /\ {r} \cap D[t] = {}
    BY DEF Refuses, Did
<1> QED
    BY <1>1, <1>2, <1>3, <1>4 DEF Store!Refuse

(* t begins.                                                                 *)
Begins(t) ==
    /\ Outcome(t) = "none" /\ Outcome(t)' = "open"
    /\ \A u \in Txns \ {t} : Outcome(u)' = Outcome(u)
    /\ want' = [want EXCEPT ![t] = want'[t]] /\ want'[t] \in [Refs -> Vals \cup {None, Keep}]
    /\ expect' = [expect EXCEPT ![t] = expect'[t]]
    /\ expect'[t] \in [Refs -> Vals \cup {None, Any}]
    /\ \A x \in Refs : Value(x)' = Value(x)
    /\ \A u \in Txns, x \in Refs : Did(u, x)' <=> Did(u, x)
    /\ \A u \in Txns, x \in Refs : Rejected(u, x)' <=> Rejected(u, x)

LEMMA StoreBegins ==
    ASSUME NEW t \in Txns, Begins(t) PROVE Store!Begin(t)
<1> DEFINE V == [x \in Refs |-> Value(x)]
           D == [u \in Txns |-> {x \in Refs : st[u][x] \in {"done", "late"} /\ want[u][x] # Keep}]
           J == [u \in Txns |-> {x \in Refs : st[u][x] = "rejected"}]
           O == [u \in Txns |-> Outcome(u)]
<1>1. V' = V
    BY DEF Begins
<1>2. D' = D /\ J' = J
    BY DEF Begins, Did, Rejected
<1>3. O' = [O EXCEPT ![t] = "open"] /\ O[t] = "none"
    <2>1. \A u \in Txns : Outcome(u)' = IF u = t THEN "open" ELSE Outcome(u)
        BY DEF Begins
    <2> QED
        BY <2>1 DEF Begins
<1>4. \E w \in [Refs -> Vals \cup {None, Keep}], e \in [Refs -> Vals \cup {None, Any}] :
          want' = [want EXCEPT ![t] = w] /\ expect' = [expect EXCEPT ![t] = e]
    BY DEF Begins
<1> QED
    BY <1>1, <1>2, <1>3, <1>4 DEF Store!Begin

(* t ends, with success only if nothing is left to do.                       *)
Ends(t) ==
    /\ Outcome(t) = "open" /\ Outcome(t)' \in {"ok", "failed"}
    /\ Outcome(t)' = "ok" =>
         \A x \in Refs : want[t][x] # Keep => Did(t, x) \/ Rejected(t, x)
    /\ \A u \in Txns \ {t} : Outcome(u)' = Outcome(u)
    /\ UNCHANGED <<want, expect>>
    /\ \A x \in Refs : Value(x)' = Value(x)
    /\ \A u \in Txns, x \in Refs : Did(u, x)' <=> Did(u, x)
    /\ \A u \in Txns, x \in Refs : Rejected(u, x)' <=> Rejected(u, x)

LEMMA StoreEnds ==
    ASSUME NEW t \in Txns, Ends(t) PROVE Store!End(t)
<1> DEFINE V == [x \in Refs |-> Value(x)]
           D == [u \in Txns |-> {x \in Refs : st[u][x] \in {"done", "late"} /\ want[u][x] # Keep}]
           J == [u \in Txns |-> {x \in Refs : st[u][x] = "rejected"}]
           O == [u \in Txns |-> Outcome(u)]
<1>1. V' = V /\ UNCHANGED <<want, expect>>
    BY DEF Ends
<1>2. D' = D /\ J' = J
    BY DEF Ends, Did, Rejected
<1>3. PICK o \in {"ok", "failed"} : Outcome(t)' = o
    BY DEF Ends
<1>4. O' = [O EXCEPT ![t] = o] /\ O[t] = "open"
    <2>1. \A u \in Txns : Outcome(u)' = IF u = t THEN o ELSE Outcome(u)
        BY <1>3 DEF Ends
    <2> QED
        BY <2>1 DEF Ends
<1>5. o = "ok" => {x \in Refs : want[t][x] # Keep} \subseteq D[t] \cup J[t]
    BY <1>3 DEF Ends, Did, Rejected
<1> QED
    BY <1>1, <1>2, <1>4, <1>5 DEF Store!End, Store!Touched

Maps ==
    \/ Stutters
    \/ \E t \in Txns : \/ Begins(t) \/ Ends(t)
                       \/ \E r \in Refs : Refuses(t, r)
                       \/ \E R \in SUBSET Refs : Applies(t, R)

LEMMA StoreMaps == ASSUME Maps PROVE [Store!Next]_(Store!vars)
<1>1. CASE Stutters
    BY <1>1, StoreStutters
<1>2. ASSUME NEW t \in Txns, Begins(t) \/ Ends(t) PROVE Store!Next
    BY <1>2, StoreBegins, StoreEnds DEF Store!Next
<1>3. ASSUME NEW t \in Txns, NEW r \in Refs, Refuses(t, r) PROVE Store!Next
    <2>1. Store!Refuse(t, {r}) /\ {r} \in SUBSET Refs
        BY <1>3, StoreRefuses
    <2> QED
        BY <2>1 DEF Store!Next
<1>4. ASSUME NEW t \in Txns, NEW R \in SUBSET Refs, Applies(t, R) PROVE Store!Next
    BY <1>4, StoreApplies DEF Store!Next
<1> QED
    BY <1>1, <1>2, <1>3, <1>4 DEF Maps

(* A transaction that prepares a step, or gives up.                          *)
Visible == {"rejected", "done", "late"}

LEMMA CalmStutters ==
    ASSUME NEW t \in Txns, TxnCalm(t), Outcome(t)' = Outcome(t),
           \A x \in Refs : \/ st'[t][x] = st[t][x]
                           \/ st'[t][x] \notin Visible
                           \/ st'[t][x] = "done" /\ want[t][x] = Keep
    PROVE  Stutters
<1>1. UNCHANGED <<loose, packed, want, expect>>
    BY DEF TxnCalm
<1>2. \A x \in Refs : Value(x)' = Value(x)
    BY <1>1 DEF Value
<1>3. \A u \in Txns : Outcome(u)' = Outcome(u)
    BY OutcomeIs, Kinds DEF TxnCalm
<1>4. ASSUME NEW u \in Txns, NEW x \in Refs
      PROVE  \/ st'[u][x] = st[u][x]
             \/ st[u][x] \notin Visible /\ st'[u][x] \notin Visible
             \/ st[u][x] \notin Visible /\ st'[u][x] = "done" /\ want[u][x] = Keep
    BY Kinds DEF TxnCalm, Visible
<1> QED
    BY <1>1, <1>2, <1>3, <1>4 DEF Stutters, Did, Rejected, Visible

(* It locks a ref and checks its value.                                      *)
LEMMA LockRefMaps ==
    ASSUME TypeOK, NEW t \in Txns, NEW r \in Refs, LockRef(t, r) \/ LockRefTimeout(t, r)
    PROVE  Maps
<1>0. t \in Procs /\ TxnCalm(t) /\ \A u \in Txns \ {t} : u \in Procs \ {t} /\ u \in (Procs \cup Readers) \ {t}
    BY Kinds, LockRefCalm
<1>1. /\ pc[t] = "lock" /\ st[t][r] = "todo"
      /\ UNCHANGED <<loose, packed, want, expect>>
      /\ \/ pc' = pc /\ (Marks(t, r, "rejected") \/ Marks(t, r, "locked"))
         \/ Goes(t, "undo") /\ UNCHANGED st
    BY <1>0, MarkMarks, TxnGoes
       DEF LockRef, LockRefTimeout, Reject, disk, locks, request, found, Statuses, TxnPCs
<1>2. Outcome(t) = "open" /\ Outcome(t)' = "open"
    BY <1>1, OutcomeIs DEF Goes, Open
<1>3. CASE Marks(t, r, "rejected") /\ pc' = pc
    <2>1. \A x \in Refs : Value(x)' = Value(x)
        BY <1>1 DEF Value
    <2>2. \A u \in Txns : Outcome(u)' = Outcome(u)
        BY <1>3, OutcomeIs
    <2>3. \A u \in Txns, x \in Refs :
            IF u = t /\ x = r THEN st[u][x] = "todo" /\ st'[u][x] = "rejected"
                              ELSE st'[u][x] = st[u][x]
        BY <1>0, <1>1, <1>3 DEF Marks
    <2>4. Refuses(t, r)
        BY <1>1, <1>2, <2>1, <2>2, <2>3 DEF Refuses, Did, Rejected
    <2> QED
        BY <2>4 DEF Maps
<1>4. CASE Marks(t, r, "locked") \/ UNCHANGED st
    BY <1>0, <1>2, <1>4, CalmStutters DEF Marks, Visible, Maps
<1> QED
    BY <1>1, <1>3, <1>4

LEMMA CheckRefMaps ==
    ASSUME TypeOK, NEW t \in Txns, NEW r \in Refs, CheckRef(t, r)
    PROVE  Maps
<1>0. t \in Procs /\ TxnCalm(t) /\ \A u \in Txns \ {t} : u \in Procs \ {t} /\ u \in (Procs \cup Readers) \ {t}
    BY Kinds, CheckRefCalm
<1>1. /\ pc[t] = "lock" /\ st[t][r] = "locked"
      /\ UNCHANGED <<loose, packed, want, expect>>
      /\ \/ pc' = pc /\ Marks(t, r, "rejected")
         \/ pc' = pc /\ Marks(t, r, "ready")
         \/ pc' = pc /\ Marks(t, r, "done") /\ want[t][r] = Keep
         \/ pc' = pc /\ Marks(t, r, "done") /\ want[t][r] = Value(r) /\ CheckOld(t, r, Value(r))
         \/ Goes(t, "undo") /\ UNCHANGED st
    BY <1>0, MarkMarks, TxnGoes DEF CheckRef, Reject, disk, request, Statuses, TxnPCs
<1>2. Outcome(t) = "open" /\ Outcome(t)' = "open"
    BY <1>1, OutcomeIs DEF Goes, Open
<1>3. \A x \in Refs : Value(x)' = Value(x)
    BY <1>1 DEF Value
<1>4. CASE Marks(t, r, "rejected") /\ pc' = pc
    <2>2. \A u \in Txns : Outcome(u)' = Outcome(u)
        BY <1>4, OutcomeIs
    <2>3. \A u \in Txns, x \in Refs :
            IF u = t /\ x = r THEN st[u][x] = "locked" /\ st'[u][x] = "rejected"
                              ELSE st'[u][x] = st[u][x]
        BY <1>0, <1>1, <1>4 DEF Marks
    <2>4. Refuses(t, r)
        BY <1>1, <1>2, <1>3, <2>2, <2>3 DEF Refuses, Did, Rejected
    <2> QED
        BY <2>4 DEF Maps
<1>5. CASE Marks(t, r, "ready") \/ UNCHANGED st \/ (Marks(t, r, "done") /\ want[t][r] = Keep)
    BY <1>0, <1>2, <1>5, CalmStutters DEF Marks, Visible, Maps
<1>6. CASE pc' = pc /\ Marks(t, r, "done") /\ want[t][r] # Keep
             /\ want[t][r] = Value(r) /\ CheckOld(t, r, Value(r))
    <2>2. \A u \in Txns : Outcome(u)' = Outcome(u)
        BY <1>6, OutcomeIs
    <2>3. \A u \in Txns, x \in Refs :
            IF u = t /\ x = r THEN st[u][x] = "locked" /\ st'[u][x] = "done"
                              ELSE st'[u][x] = st[u][x]
        BY <1>0, <1>1, <1>6 DEF Marks
    <2>4. Applies(t, {r})
        BY <1>1, <1>2, <1>3, <1>6, <2>2, <2>3 DEF Applies, Did, Rejected
    <2> QED
        BY <2>4 DEF Maps
<1> QED
    BY <1>1, <1>4, <1>5, <1>6

(* It asks for updates.                                                      *)
LEMMA BeginMaps ==
    ASSUME TypeOK, ProcInv, NEW t \in Txns, Begin(t) PROVE Maps
<1>0. t \in Procs /\ \A u \in Txns \ {t} : u \in Procs \ {t} /\ u \in (Procs \cup Readers) \ {t}
    BY Kinds
<1>1. /\ pc[t] = "idle" /\ Goes(t, "lock") /\ UNCHANGED <<loose, packed>>
      /\ RequestOK' /\ \A u \in Procs \ {t} : st'[u] = st[u]
      /\ \A u \in Txns \ {t} : want'[u] = want[u] /\ expect'[u] = expect[u]
      /\ \A x \in Refs : st'[t][x] \in {"skip", "todo"}
    BY BeginFacts
<1>2. \A x \in Refs : Value(x)' = Value(x)
    BY <1>1 DEF Value
<1>3. \A x \in Refs : st[t][x] = "skip"
    BY <1>1 DEF ProcInv, TxnInv, TxnRef, TxnAt
<1>4. /\ want' = [want EXCEPT ![t] = want'[t]] /\ want'[t] \in [Refs -> Vals \cup {None, Keep}]
      /\ expect' = [expect EXCEPT ![t] = expect'[t]]
      /\ expect'[t] \in [Refs -> Vals \cup {None, Any}]
    <2>1. /\ want \in [Txns -> [Refs -> Value0 \cup {Keep}]]
          /\ want' \in [Txns -> [Refs -> Value0 \cup {Keep}]]
          /\ expect \in [Txns -> [Refs -> Value0 \cup {Any}]]
          /\ expect' \in [Txns -> [Refs -> Value0 \cup {Any}]]
        BY <1>1, TypeParts DEF RequestOK
    <2>2. Value0 \cup {Keep} = Vals \cup {None, Keep} /\ Value0 \cup {Any} = Vals \cup {None, Any}
        BY DEF Value0
    <2>3. want' = [want EXCEPT ![t] = want'[t]]
        BY <1>1, <2>1
    <2>4. expect' = [expect EXCEPT ![t] = expect'[t]]
        BY <1>1, <2>1
    <2> QED
        BY <2>1, <2>2, <2>3, <2>4
<1>5. /\ Outcome(t) = "none" /\ Outcome(t)' = "open"
      /\ \A u \in Txns \ {t} : Outcome(u)' = Outcome(u)
    <2>1. Outcome(t) = "none"
        BY <1>1 DEF Outcome
    <2> QED
        BY <1>0, <1>1, <2>1, OutcomeIs DEF Goes, Open
<1>6. ASSUME NEW u \in Txns, NEW x \in Refs
      PROVE  (Did(u, x)' <=> Did(u, x)) /\ (Rejected(u, x)' <=> Rejected(u, x))
    <2>1. CASE u = t
        BY <1>1, <1>3, <2>1 DEF Did, Rejected
    <2>2. CASE u # t
        BY <1>0, <1>1, <2>2 DEF Did, Rejected
    <2> QED
        BY <2>1, <2>2
<1>7. Begins(t)
    BY <1>2, <1>4, <1>5, <1>6 DEF Begins
<1> QED
    BY <1>7 DEF Maps

(* It prepares, logs, or gives up: the store does not change.                *)
LEMMA PrepareMaps ==
    ASSUME TypeOK, NEW t \in Txns, LockPacked(t) \/ WritePacked(t) \/ Abort(t) \/ Finish(t)
    PROVE  Maps
<1>1. /\ pc[t] \in {"lock", "pwrite", "prepared"} /\ UNCHANGED st
      /\ \E l \in {"pwrite", "prepared", "update", "undo"} : Goes(t, l)
    BY TxnGoes DEF LockPacked, WritePacked, Abort, Finish, Checked, Prepared, TxnPCs
<1>2. Outcome(t)' = Outcome(t)
    BY <1>1, OutcomeIs DEF Goes, Open
<1> QED
    BY <1>1, <1>2, PrepareCalm, CalmStutters DEF Maps

LEMMA ReflogMaps ==
    ASSUME TypeOK, NEW t \in Txns, NEW r \in Refs, WriteReflog(t, r) \/ DeleteReflog(t, r)
    PROVE  Maps
<1>0. t \in Procs
    BY Kinds
<1>1. /\ pc[t] = "update"
      /\ \/ pc' = pc /\ (Marks(t, r, "logged") \/ Marks(t, r, "unlogged"))
         \/ Goes(t, "undo") /\ UNCHANGED st
    BY <1>0, MarkMarks, FailsGoes DEF WriteReflog, DeleteReflog, UpdatesDone, Statuses
<1>2. Outcome(t)' = Outcome(t)
    BY <1>1, OutcomeIs DEF Goes, Open
<1> QED
    BY <1>1, <1>2, ReflogCalm, CalmStutters DEF Maps, Marks, Visible

LEMMA GivesUpMaps ==
    ASSUME NEW t \in Txns, pc[t] \in Open, TxnCalm(t), GivesUp(t) PROVE Maps
<1>1. pc'[t] \in Open /\ UNCHANGED st
    BY DEF GivesUp, Open
<1>2. Outcome(t)' = Outcome(t)
    BY <1>1, OutcomeIs
<1> QED
    BY <1>1, <1>2, CalmStutters DEF Maps

(* It releases its locks and ends.                                           *)
LEMMA ReleaseMaps ==
    ASSUME TypeOK, NEW t \in Txns, TxnInv(t), ReleaseAll(t) \/ \E r \in Refs : ReleaseRef(t, r)
    PROVE  Maps
<1>1. TxnCalm(t) /\ UNCHANGED <<st, loose, packed, want, expect>> /\ Cleanup(t)
    BY ReleaseCalm DEF ReleaseAll, ReleaseRef, TxnCalm
<1>2. CASE \E r \in Refs : ReleaseRef(t, r)
    <2>1. pc' = pc
        BY <1>2 DEF ReleaseRef
    <2>2. Outcome(t)' = Outcome(t)
        BY <2>1, OutcomeIs
    <2> QED
        BY <1>1, <2>2, CalmStutters DEF Maps
<1>3. CASE ReleaseAll(t)
    <2>1. Goes(t, IF pc[t] = "undo" THEN "failed" ELSE "done")
        BY <1>3, TxnGoes DEF ReleaseAll, TxnPCs
    <2>2. pc[t] \in {"undo", "unlink"} /\ pc'[t] = IF pc[t] = "undo" THEN "failed" ELSE "done"
        BY <1>1, <2>1 DEF Goes, Cleanup
    <2>3. Outcome(t) = "open" /\ Outcome(t)' = IF pc[t] = "undo" THEN "failed" ELSE "ok"
        BY <2>2 DEF Outcome
    <2>4. ASSUME pc[t] # "undo", NEW x \in Refs, want[t][x] # Keep
          PROVE  Did(t, x) \/ Rejected(t, x)
        <3>1. pc[t] = "unlink" /\ st[t][x] # "unpacked"
            BY <1>1, <2>2, <2>4 DEF Cleanup, NoneAt
        <3>2. TxnRef(t, x)
            BY DEF TxnInv
        <3> QED
            BY <2>4, <3>1, <3>2 DEF TxnRef, TxnAt, Did, Rejected
    <2>5. \A u \in Txns \ {t} : Outcome(u)' = Outcome(u)
        BY <2>1, OutcomeIs, Kinds DEF Goes
    <2>6. \A x \in Refs : Value(x)' = Value(x)
        BY <1>1 DEF Value
    <2>7. \A u \in Txns, x \in Refs : (Did(u, x)' <=> Did(u, x)) /\ (Rejected(u, x)' <=> Rejected(u, x))
        BY <1>1 DEF Did, Rejected
    <2>8. Ends(t)
        BY <1>1, <2>3, <2>4, <2>5, <2>6, <2>7 DEF Ends
    <2> QED
        BY <2>8 DEF Maps
<1> QED
    BY <1>2, <1>3

(* It changes refs.                                                          *)
LEMMA CommitsMaps ==
    ASSUME NEW t \in Txns, NEW r \in Refs, Commits(t, r) \/ Unlinks(t, r) PROVE Maps
<1>0. t \in Procs /\ Keep \notin Vals /\ Keep # None /\ None \notin Vals
      /\ \A u \in Txns \ {t} : u \in Procs \ {t}
    BY Kinds
<1>1. /\ pc[t] \in {"update", "unlink"} /\ st[t][r] \in {"logged", "unpacked"}
      /\ want[t][r] # Keep /\ CheckOld(t, r, Value(r))
      /\ Marks(t, r, "done") /\ UNCHANGED <<packed, want, expect, pc>>
      /\ \A x \in Refs \ {r} : loose'[x] = loose[x]
    BY <1>0 DEF Commits, Unlinks
<1>2. Value(r)' = want[t][r]
    BY <1>0 DEF Commits, Unlinks, Value
<1>3. \A x \in Refs \ {r} : Value(x)' = Value(x)
    BY <1>1 DEF Value
<1>4. Outcome(t) = "open" /\ \A u \in Txns : Outcome(u)' = Outcome(u)
    BY <1>1, OutcomeIs DEF Open
<1>5. \A u \in Txns, x \in Refs :
        IF u = t /\ x = r THEN st[u][x] \in {"logged", "unpacked"} /\ st'[u][x] = "done"
                          ELSE st'[u][x] = st[u][x]
    BY <1>0, <1>1 DEF Marks
<1>6. Applies(t, {r})
    BY <1>1, <1>2, <1>3, <1>4, <1>5 DEF Applies, Did, Rejected
<1> QED
    BY <1>6 DEF Maps

LEMMA UnpacksMaps ==
    ASSUME NEW t \in Txns, Unpacks(t) PROVE Maps
<1> DEFINE R == {x \in Refs : st[t][x] = "unlogged" /\ st'[t][x] = "done"}
<1>0. t \in Procs /\ Keep # None /\ \A u \in Txns \ {t} : u \in Procs \ {t}
    BY Kinds
<1>1. /\ pc[t] = "update" /\ pc'[t] = "unlink" /\ UNCHANGED <<loose, want, expect>>
      /\ \A u \in Procs \ {t} : pc'[u] = pc[u] /\ st'[u] = st[u]
    BY DEF Unpacks
<1>2. ASSUME NEW x \in Refs
      PROVE  \/ x \notin R /\ Value(x)' = Value(x) /\ st'[t][x] = st[t][x]
             \/ /\ x \notin R /\ Value(x)' = Value(x)
                /\ st[t][x] = "unlogged" /\ st'[t][x] = "unpacked"
             \/ /\ x \in R /\ Value(x)' = None /\ want[t][x] = None /\ CheckOld(t, x, Value(x))
                /\ st[t][x] = "unlogged" /\ st'[t][x] = "done"
    BY <1>1 DEF Unpacks, Value
<1>3. Outcome(t) = "open" /\ \A u \in Txns : Outcome(u)' = Outcome(u)
    BY <1>0, <1>1, OutcomeIs DEF Open
<1>4. ASSUME NEW u \in Txns, NEW x \in Refs
      PROVE  /\ Did(u, x)' <=> (Did(u, x) \/ (u = t /\ x \in R))
             /\ Rejected(u, x)' <=> Rejected(u, x)
    <2>1. CASE u = t
        BY <1>0, <1>1, <1>2, <2>1 DEF Did, Rejected
    <2>2. CASE u # t
        BY <1>0, <1>1, <2>2 DEF Did, Rejected
    <2> QED
        BY <2>1, <2>2
<1>5. \A x \in R : /\ x \in Refs /\ want[t][x] = None /\ ~Did(t, x) /\ ~Rejected(t, x)
                   /\ CheckOld(t, x, Value(x))
    BY <1>2 DEF Did, Rejected
<1>6. \A x \in Refs : Value(x)' = IF x \in R THEN want[t][x] ELSE Value(x)
    BY <1>2
<1> HIDE DEF R
<1>7. Applies(t, R)
    BY <1>0, <1>1, <1>3, <1>4, <1>5, <1>6 DEF Applies
<1>8. R \in SUBSET Refs
    BY <1>5
<1> QED
    BY <1>7, <1>8 DEF Maps

LEMMA TxnMaps ==
    ASSUME Inv, NEW t \in Txns, Begin(t) \/ TxnStep(t) \/ Abort(t) PROVE Maps
<1>0. TypeOK /\ ProcInv /\ TxnInv(t)
    BY DEF Inv, ProcInv
<1>1. CASE Begin(t)
    BY <1>0, <1>1, BeginMaps
<1>2. CASE LockPacked(t) \/ WritePacked(t) \/ Abort(t) \/ Finish(t)
    BY <1>0, <1>2, PrepareMaps
<1>3. CASE ReleaseAll(t) \/ \E r \in Refs : ReleaseRef(t, r)
    BY <1>0, <1>3, ReleaseMaps
<1>4. CASE CommitPacked(t)
    <2>1. pc[t] \in Open
        BY <1>4 DEF CommitPacked, UpdatesDone, Open
    <2> QED
        BY <1>0, <1>4, <2>1, CommitPackedCases, UnpacksMaps, GivesUpMaps
<1>5. ASSUME NEW r \in Refs, CommitRef(t, r) PROVE Maps
    <2>1. pc[t] \in Open
        BY <1>5 DEF CommitRef, Open
    <2> QED
        BY <1>0, <1>5, <2>1, CommitRefCases, CommitsMaps, GivesUpMaps
<1>6. ASSUME NEW r \in Refs, UnlinkLoose(t, r) PROVE Maps
    <2>1. pc[t] \in Open
        BY <1>6 DEF UnlinkLoose, Open
    <2> QED
        BY <1>0, <1>6, <2>1, UnlinkLooseCases, CommitsMaps, GivesUpMaps
<1>7. ASSUME NEW r \in Refs, LockRef(t, r) \/ LockRefTimeout(t, r) \/ CheckRef(t, r) PROVE Maps
    BY <1>0, <1>7, LockRefMaps, CheckRefMaps
<1>8. ASSUME NEW r \in Refs, WriteReflog(t, r) \/ DeleteReflog(t, r) PROVE Maps
    BY <1>0, <1>8, ReflogMaps
<1> QED
    BY <1>1, <1>2, <1>3, <1>4, <1>5, <1>6, <1>7, <1>8 DEF TxnStep

(* Whatever leaves the values and the transactions alone is a stutter.       *)
LEMMA AloneMaps ==
    ASSUME \A x \in Refs : Value(x)' = Value(x), UNCHANGED <<want, expect>>,
           \A u \in Txns : pc'[u] = pc[u] /\ st'[u] = st[u]
    PROVE  Maps
<1>1. \A u \in Txns : Outcome(u)' = Outcome(u)
    BY OutcomeIs
<1>2. \A u \in Txns, x \in Refs : (Did(u, x)' <=> Did(u, x)) /\ (Rejected(u, x)' <=> Rejected(u, x))
    BY DEF Did, Rejected
<1> QED
    BY <1>1, <1>2 DEF Maps, Stutters

(* pack-refs removes a loose file: a stutter, or the end of a deletion that  *)
(* had stopped.                                                              *)
LEMMA PruneUnlinkMaps ==
    ASSUME Whole, Inv, NEW p \in Packers, NEW r \in Refs, PruneUnlink(p, r) PROVE Maps
<1>0. \A u \in Txns : u \in Procs \ {p}
    BY Kinds
<1>1. UNCHANGED <<want, expect, pc, packed>>
    BY DEF PruneUnlink, request
<1>2. /\ \A x \in Refs \ {r} : Value(x)' = Value(x)
      /\ \A u \in Procs : \A x \in Refs \ {r} : st'[u][x] = st[u][x]
      /\ \/ Value(r)' = Value(r) /\ \A u \in Procs \ {p} : st'[u] = st[u]
         \/ /\ Value(r)' = None
            /\ \E t \in Txns : /\ Half(t, r) /\ pc[t] \notin Working /\ st'[t][r] = "late"
                               /\ \A u \in Procs \ {p, t} : st'[u] = st[u]
    BY PruneUnlinkKeeps, PruneUnlinkFacts DEF Inv, ProcInv
<1>3. CASE Value(r)' = Value(r) /\ \A u \in Procs \ {p} : st'[u] = st[u]
    BY <1>0, <1>1, <1>2, <1>3, AloneMaps
<1>4. ASSUME Value(r)' = None, NEW t \in Txns, Half(t, r), pc[t] \notin Working,
             st'[t][r] = "late", \A u \in Procs \ {p, t} : st'[u] = st[u]
      PROVE  Maps
    <2>1. TxnRef(t, r) /\ st[t][r] = "unpacked" /\ prev[t][r] = Value(r)
        BY <1>4 DEF Inv, ProcInv, TxnInv, Half
    <2>2. /\ want[t][r] = None /\ CheckOld(t, r, Value(r)) /\ pc[t] \in TxnPCs
          /\ pc[t] \in {"undo", "failed", "crashed"}
        BY <1>4, <2>1 DEF Inv, TypeOK, TxnRef, TxnAt, Checks, Working, TxnPCs
    <2>3. Outcome(t) \in {"open", "failed"} /\ \A u \in Txns : Outcome(u)' = Outcome(u)
        BY <1>1, <2>2, OutcomeIs DEF Open, Outcome
    <2>4. \A u \in Txns, x \in Refs :
            IF u = t /\ x = r THEN st[u][x] = "unpacked" /\ st'[u][x] = "late"
                              ELSE st'[u][x] = st[u][x]
        BY <1>0, <1>2, <1>4, <2>1
    <2>5. Keep # None
        BY Kinds
    <2>6. Applies(t, {r})
        BY <1>1, <1>2, <1>4, <2>2, <2>3, <2>4, <2>5 DEF Applies, Did, Rejected
    <2> QED
        BY <2>6 DEF Maps
<1> QED
    BY <1>2, <1>3, <1>4

LEMMA PackMaps ==
    ASSUME Whole, Inv, NEW p \in Packers, PackStep(p) PROVE Maps
<1>0. /\ TypeOK /\ ProcInv /\ PackInv(p) /\ PackersInv /\ ~OptimizeAuto
      /\ \A u \in Txns : u \in Procs \ {p} /\ u \in (Procs \cup Readers) \ {p}
    BY Kinds DEF Inv, ProcInv, Whole
<1>1. ASSUME PackCalm(p) PROVE Maps
    <2>1. /\ UNCHANGED <<loose, packed, want, expect>>
          /\ \A u \in Txns : pc'[u] = pc[u] /\ st'[u] = st[u]
        BY <1>0, <1>1 DEF PackCalm
    <2>2. \A x \in Refs : Value(x)' = Value(x)
        BY <2>1 DEF Value
    <2> QED
        BY <2>1, <2>2, AloneMaps
<1>2. CASE PackLock(p) \/ PackGiveUp(p) \/ PackList(p) \/ PackUnlock(p)
    BY <1>0, <1>1, <1>2, PackLockCalm
<1>3. CASE PackWrite(p) \/ PackDone(p)
    BY <1>0, <1>1, <1>3, PackWriteCalm, PackDoneCalm
<1>4. ASSUME NEW r \in Refs, PackRead(p, r) PROVE Maps
    BY <1>0, <1>1, <1>4, PackReadCalm
<1>5. ASSUME NEW r \in Refs, PruneLock(p, r) \/ PruneCheck(p, r) \/ PruneUnlock(p, r) PROVE Maps
    BY <1>0, <1>1, <1>5, PruneCalm
<1>6. CASE PackInstalls(p)
    <2>1. \A x \in Refs : Value(x)' = Value(x)
        BY <1>6, PackCommitKeeps DEF Inv
    <2>2. Goes(p, "committed") /\ UNCHANGED <<want, expect, st>>
        BY <1>0, <1>6, PackGoes DEF PackInstalls, request, PackPCs
    <2>3. \A u \in Txns : pc'[u] = pc[u]
        BY <1>0, <2>2 DEF Goes
    <2> QED
        BY <2>1, <2>2, <2>3, AloneMaps
<1>7. ASSUME NEW r \in Refs, PruneUnlink(p, r) PROVE Maps
    BY <1>7, PruneUnlinkMaps
<1>8. CASE PackCommitFails(p)
    BY <1>0, <1>1, <1>8, PackCommitFailsCalm
<1> QED
    BY <1>2, <1>3, <1>4, <1>5, <1>6, <1>7, <1>8, PackCommitCases DEF PackStep

(* Readers, and processes that die or whose locks are removed.               *)
LEMMA OtherMaps ==
    ASSUME Inv,
           \/ \E p \in Procs : Crash(p)
           \/ \E r \in Refs : RemoveRefLock(r)
           \/ RemovePackedLock
           \/ \E q \in Readers : ReadStep(q)
    PROVE  Maps
<1>0. TypeOK /\ ReadInv
    BY DEF Inv
<1>1. UNCHANGED <<loose, packed, want, expect, st>>
    BY <1>0, ReadGood DEF Crash, RemoveRefLock, RemovePackedLock, disk, request
<1>2. \A x \in Refs : Value(x)' = Value(x)
    BY <1>1 DEF Value
<1>3. ASSUME NEW p \in Procs, Crash(p) PROVE Maps
    <2>1. /\ pc[p] \notin {"idle", "done", "failed", "crashed"}
          /\ pc'[p] = "crashed" /\ \A u \in (Procs \cup Readers) \ {p} : pc'[u] = pc[u]
        <3>1. Goes(p, "crashed")
            BY <1>0, <1>3, Kinds, TxnGoes, PackGoes DEF Crash, TxnPCs, PackPCs
        <3> QED
            BY <1>3, <3>1 DEF Goes, Crash
    <2>2. ASSUME NEW u \in Txns PROVE Outcome(u)' = Outcome(u)
        <3>1. CASE u = p
            <4>1. pc[u] \in Open
                BY <1>0, <2>1, <3>1 DEF TypeOK, TxnPCs, Open
            <4> QED
                BY <2>1, <3>1, <4>1, OutcomeIs DEF Open
        <3>2. CASE u # p
            BY <2>1, <3>2, OutcomeIs, Kinds
        <3> QED
            BY <3>1, <3>2
    <2>3. \A u \in Txns, x \in Refs :
            (Did(u, x)' <=> Did(u, x)) /\ (Rejected(u, x)' <=> Rejected(u, x))
        BY <1>1 DEF Did, Rejected
    <2> QED
        BY <1>1, <1>2, <2>2, <2>3 DEF Maps, Stutters
<1>4. ASSUME \A u \in Txns : pc'[u] = pc[u] PROVE Maps
    BY <1>1, <1>2, <1>4, AloneMaps
<1>5. CASE RemovePackedLock \/ \E r \in Refs : RemoveRefLock(r)
    BY <1>4, <1>5 DEF RemovePackedLock, RemoveRefLock
<1>6. ASSUME NEW q \in Readers, ReadStep(q) PROVE Maps
    BY <1>0, <1>4, <1>6, ReadGood, Kinds
<1> QED
    BY <1>3, <1>5, <1>6

LEMMA StoreNext ==
    ASSUME Whole, Inv, [Next]_vars PROVE [Store!Next]_(Store!vars)
<1>1. CASE UNCHANGED vars
    <2>1. UNCHANGED <<loose, packed, want, expect, pc, st>>
        BY <1>1 DEF vars, disk, request
    <2>2. \A x \in Refs : Value(x)' = Value(x)
        BY <2>1 DEF Value
    <2> QED
        BY <2>1, <2>2, AloneMaps, StoreMaps
<1>2. CASE Next
    BY <1>2, TxnMaps, PackMaps, OtherMaps, StoreMaps DEF Next, Step
<1> QED
    BY <1>1, <1>2

LEMMA StoreInit == ASSUME Init PROVE Store!Init
<1>1. \A x \in Refs : Value(x) \in Vals \cup {None}
    <2>1. PICK l \in Layouts :
            /\ loose = [r \in Refs |-> IF "loose" \in l[r] THEN r ELSE None]
            /\ packed = [r \in Refs |-> IF "packed" \in l[r] THEN r ELSE None]
        BY DEF Init
    <2> QED
        BY <2>1 DEF Value, Vals
<1>2. /\ want = [t \in Txns |-> [r \in Refs |-> Keep]]
      /\ expect = [t \in Txns |-> [r \in Refs |-> Any]]
    BY DEF Init
<1>3. \A t \in Txns : pc[t] = "idle" /\ \A r \in Refs : st[t][r] = "skip"
    BY Kinds DEF Init
<1>4. [t \in Txns |-> {r \in Refs : st[t][r] = "rejected"}] = [t \in Txns |-> {}]
    BY <1>3
<1>5. [t \in Txns |-> {r \in Refs : st[t][r] \in {"done", "late"} /\ want[t][r] # Keep}]
        = [t \in Txns |-> {}]
    BY <1>3
<1>6. [t \in Txns |-> Outcome(t)] = [t \in Txns |-> "none"]
    BY <1>3 DEF Outcome
<1>7. [r \in Refs |-> Value(r)] \in [Refs -> Vals \cup {None}]
    BY <1>1
<1> QED
    BY <1>2, <1>4, <1>5, <1>6, <1>7 DEF Store!Init

(* Under Whole (no --auto, no ref back at an earlier value, no second        *)
(* pack-refs beside an interrupted deletion) the files backend implements    *)
(* the contract of a ref store: packing, pruning, reading, faults and stale  *)
(* locks are invisible, each transaction changes a ref at most once, from    *)
(* the value it was told to expect to the value asked for, and reports       *)
(* success only when nothing is left to do.                                  *)
THEOREM FilesImplementRefStore == Whole /\ Spec => ImplementsRefStore
<1>1. ASSUME Whole PROVE Spec => ImplementsRefStore
    <2>1. Init => Store!Init
        BY StoreInit
    <2>2. Inv /\ [Next]_vars => [Store!Next]_(Store!vars)
        BY <1>1, StoreNext
    <2>3. Spec => []Inv
        BY <1>1, InvHolds
    <2> QED
        BY <2>1, <2>2, <2>3, PTL DEF Spec, ImplementsRefStore, Store!Spec
<1> QED
    BY <1>1

=============================================================================
