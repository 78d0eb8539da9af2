------------------------- MODULE ReftableStackProofs -------------------------
(* Proofs about ReftableStack, for any number of refs, transactions,         *)
(* pack-refs processes and readers and any stack of tables at first: the     *)
(* list always names what is there, readers get snapshots, and the store     *)
(* implements RefStore.                                                      *)
EXTENDS ReftableStack, FiniteSetTheorems, SequenceTheorems, WellFoundedInduction, TLAPS

-----------------------------------------------------------------------------
(* The inductive invariant. *)

Loading(p) == pc[p] \in {"load", "open", "missing"}
At(p, L)   == pc[p] \in L \/ (Loading(p) /\ ret[p] \in L)

BeforeCommit == {"idle", "start", "check", "write", "commit"}
Choosing     == {"auto", "lock"}
Compacting   == {"locktables", "merge", "relock", "install", "replace"}
Replacing    == {"merge", "relock", "install", "replace"}
Early        == BeforeCommit \cup Choosing \cup Compacting

(* The tables that are in no list yet: not committed, or not merged.         *)
Unlisted ==
    {Added(t) : t \in {u \in Txns : ~committed[u]}}
      \cup {Merged(p) : p \in {u \in Procs : At(u, Early)}}

(* A stack of tables as tables.list names it at some time.                   *)
SoundIn(d, U, s) ==
    /\ s \in Seq(Tables)
    /\ \A i \in 1..Len(s) : s[i] \notin U /\ d[s[i]] # NoTable
    /\ \A i, j \in 1..Len(s) : i < j => d[s[i]].max < d[s[j]].max
Sound(s) == SoundIn(data, Unlisted, s)

StackInv ==
    /\ Sound(list) /\ Range(list) \subseteq files
    /\ \A id \in Unlisted : tlock[id] = Free

(* Where each kind of process can be.                                        *)
PlaceOK(u) ==
    IF u \in Readers
    THEN pc[u] \in {"idle", "load", "open", "missing", "done"} /\ (Loading(u) => ret[u] = "done")
    ELSE /\ Loading(u) => ret[u] \in {"check", "auto", "unlink"}
         /\ u \in Optimizers =>
              ~At(u, {"start", "check", "write", "commit", "auto"})
         /\ u \in Txns => ~At(u, {"clean", "sweep"})

(* What a handle, and a reload, has.  Tables that a reload leaves out, and   *)
(* one that it misses, are not in the list any more.                         *)
HandleOK(u) ==
    /\ Sound(tables[u]) /\ Sound(names[u])
    /\ pc[u] = "open" => \A i \in 1..Len(tables[u]) :
         tables[u][i] \in Range(names[u]) \/ tables[u][i] \notin Range(list)
    /\ pc[u] = "missing" => \E i \in 1..Len(names[u]) : names[u][i] \notin Range(list)

(* Who holds the lock of the list, and has an up-to-date handle.             *)
ListLockOK(p) ==
    /\ pc[p] \in {"check", "write", "commit", "locktables", "merge", "sweep"} =>
         llock = p /\ tables[p] = list
    /\ pc[p] \in {"install", "replace"} => llock = p /\ Offsets(p, list) # {}
    /\ Loading(p) /\ ret[p] = "check" =>
         /\ llock = p /\ pc[p] # "missing"
         /\ pc[p] = "load" => tries[p] = 0
         /\ pc[p] = "open" => names[p] = list

(* The tables that p has locked: those it merges, from the last one on.      *)
TableLocksOK(p) ==
    /\ At(p, BeforeCommit \cup Choosing) => Locked(p) = {}
    /\ pc[p] \in {"lock"} \cup Compacting =>
         first[p] \in 1..last[p] /\ last[p] \in 1..Len(tables[p])
    /\ pc[p] = "locktables" =>
         \E n \in 0..(last[p] - first[p] + 1) :
            /\ IsFiniteSet(Locked(p)) /\ Cardinality(Locked(p)) = n
            /\ Locked(p) = {tables[p][i] : i \in (last[p] - n + 1)..last[p]}
    /\ pc[p] \in Replacing => Locked(p) = {tables[p][i] : i \in first[p]..last[p]}
    /\ At(p, {"unlink"}) => Locked(p) \cap Range(list) = {}

(* The table that was written is there.                                      *)
WrittenOK(p) ==
    /\ p \in Txns /\ At(p, BeforeCommit) => ~committed[p]
    /\ pc[p] = "commit" =>
         /\ Added(p) \in files
         /\ data[Added(p)] = [max  |-> NextUpdateIndex(tables[p]),
                              recs |-> [r \in Refs |->
                                 IF r \in Queued(p) THEN want[p][r] ELSE Absent]]
    /\ pc[p] = "replace" /\ ~IsEmptyTable(p) =>
         /\ Merged(p) \in files
         /\ data[Merged(p)] = [max |-> data[tables[p][last[p]]].max, recs |-> Compacted(p)]

UsersInv == \A u \in Users : PlaceOK(u) /\ HandleOK(u)
ProcsInv == \A p \in Procs : ListLockOK(p) /\ TableLocksOK(p) /\ WrittenOK(p)

Inv == TypeOK /\ StackInv /\ UsersInv /\ ProcsInv

(* A reader: what it opens, and what it has got, was the store at some time. *)
ReadOK(q) ==
    /\ pc[q] \in {"open", "missing"} => View(names[q]) \in seen[q]
    /\ pc[q] = "done" => View(tables[q]) \in seen[q] \/ tries[q] > Attempts
ReadInv == \A q \in Readers : ReadOK(q)

(* The tables that are merged stay in the list, and at its bottom if they    *)
(* were there.                                                               *)
BottomOK(p) ==
    /\ pc[p] \in Compacting => Locked(p) \subseteq Range(list)
    /\ pc[p] \in Replacing /\ first[p] = 1 => list[1] = tables[p][1]

(* What a transaction was told to expect is there until it commits.          *)
Unchecked == {"idle", "start", "check"}
Undone    == BeforeCommit \cup {"undo", "failed", "crashed"}
ExpectOK(t) ==
    /\ At(t, Unchecked) => refused[t] = {}
    /\ pc[t] \in {"write", "commit"} =>
         \A r \in Refs \ refused[t] : expect[t][r] \in {Any, View(list)[r]}
    /\ ~At(t, Undone) => committed[t]

StoreInv == (\A p \in Procs : BottomOK(p)) /\ \A t \in Txns : ExpectOK(t)

-----------------------------------------------------------------------------
(* Names and numbers. *)

(* The names that the model uses differ.                                     *)
LEMMA Kinds ==
    /\ None \notin Vals /\ Keep \notin Value0 /\ Any \notin Value0 /\ Absent \notin Value0
    /\ \A t \in Txns : t \in Procs /\ t \notin Optimizers /\ t \in Users /\ t \notin Readers
    /\ \A p \in Optimizers : p \in Procs /\ p \notin Txns
    /\ \A p \in Procs : p \in Users /\ p \notin Readers /\ (p \in Txns \/ p \in Optimizers)
    /\ \A q \in Readers : q \in Users /\ q \notin Procs
    /\ \A u \in Users : u \in Procs \/ u \in Readers
    /\ Free \notin Procs /\ NoTable \notin Content
BY KindsAssumption DEF Procs, Users, Vals, Value0

LEMMA TableNames ==
    /\ \A t \in Txns : Added(t) \in Tables
    /\ \A p \in Procs : Merged(p) \in Tables
    /\ \A t, u \in Txns : Added(t) = Added(u) => t = u
    /\ \A p, q \in Procs : Merged(p) = Merged(q) => p = q
    /\ \A t \in Txns, p \in Procs : Added(t) # Merged(p)
BY DEF Added, Merged, Tables

LEMMA RangeMembers ==
    ASSUME NEW s \in Seq(Tables)
    PROVE  \A x : x \in Range(s) <=> \E i \in 1..Len(s) : x = s[i]
BY DEF Range

LEMMA LeastNat ==
    ASSUME NEW S, S \subseteq Nat, S # {}
    PROVE  \E x \in S : \A y \in S : x <= y
<1>1. PICK x \in S : \A y \in S : ~ (<<y, x>> \in OpToRel(<, Nat))
    BY WFMin, NatLessThanWellFounded
<1>2. ASSUME NEW y \in S PROVE x <= y
    <2>1. ~ (y < x)
        BY <1>1 DEF OpToRel
    <2> QED
        BY <2>1
<1> QED
    BY <1>2

LEMMA MinProperties ==
    ASSUME NEW S, S \subseteq Nat, S # {}
    PROVE  Min(S) \in S /\ \A y \in S : Min(S) <= y
BY LeastNat DEF Min

LEMMA MaxProperties ==
    ASSUME NEW b \in Nat, NEW S, S \subseteq 1..b, S # {}
    PROVE  Max(S) \in S /\ \A y \in S : Max(S) >= y
<1> DEFINE D == {d \in Nat : \E y \in S : d = b - y}
<1>1. D \subseteq Nat /\ D # {}
    <2>1. PICK y \in S : TRUE
        OBVIOUS
    <2>2. b - y \in D
        OBVIOUS
    <2> QED
        BY <2>2
<1>2. PICK d \in D : \A e \in D : d <= e
    <2> HIDE DEF D
    <2> QED
        BY <1>1, LeastNat
<1>3. PICK x \in S : d = b - x
    BY <1>2
<1>4. ASSUME NEW y \in S PROVE x >= y
    <2>1. b - y \in D
        OBVIOUS
    <2>2. d <= b - y
        <3> HIDE DEF D
        <3> QED
            BY <1>2, <2>1
    <2>3. x \in Int /\ y \in Int /\ b \in Int
        OBVIOUS
    <2> QED
        BY <1>3, <2>2, <2>3
<1> QED
    BY <1>4 DEF Max

-----------------------------------------------------------------------------
(* What a stack shows. *)

(* Newest and View, with the contents of the tables as a parameter.          *)
Holding(d, ts, r) == {i \in 1..Len(ts) : d[ts[i]].recs[r] # Absent}
NewestIn(d, ts, r) ==
    IF Holding(d, ts, r) = {} THEN Absent ELSE d[ts[Max(Holding(d, ts, r))]].recs[r]
ViewIn(d, ts) ==
    [r \in Refs |-> IF NewestIn(d, ts, r) = Absent THEN None ELSE NewestIn(d, ts, r)]

(* Table i has a record of r, and no newer one has.                          *)
Decides(d, ts, r, i) ==
    /\ i \in 1..Len(ts) /\ d[ts[i]].recs[r] # Absent
    /\ \A j \in (i + 1)..Len(ts) : d[ts[j]].recs[r] = Absent

LEMMA NewestProperties ==
    ASSUME NEW d, NEW ts, Len(ts) \in Nat, NEW r, Holding(d, ts, r) # {}
    PROVE  \E i : Decides(d, ts, r, i) /\ NewestIn(d, ts, r) = d[ts[i]].recs[r]
<1>1. Holding(d, ts, r) \subseteq 1..Len(ts)
    BY DEF Holding
<1>2. /\ Max(Holding(d, ts, r)) \in Holding(d, ts, r)
      /\ \A y \in Holding(d, ts, r) : Max(Holding(d, ts, r)) >= y
    BY <1>1, MaxProperties
<1> DEFINE m == Max(Holding(d, ts, r))
<1>3. m \in 1..Len(ts) /\ d[ts[m]].recs[r] # Absent
    BY <1>2 DEF Holding
<1>4. NewestIn(d, ts, r) = d[ts[m]].recs[r]
    BY DEF NewestIn
<1>5. ASSUME NEW j \in (m + 1)..Len(ts) PROVE d[ts[j]].recs[r] = Absent
    <2> HIDE DEF m
    <2>1. j \in 1..Len(ts) /\ ~ (m >= j)
        BY <1>3
    <2>2. j \notin Holding(d, ts, r)
        BY <1>2, <2>1 DEF m
    <2> QED
        BY <2>1, <2>2 DEF Holding
<1> QED
    BY <1>3, <1>4, <1>5 DEF Decides

(* The record that decides can be found in any way.                          *)
LEMMA NewestIs ==
    ASSUME NEW d, NEW ts, Len(ts) \in Nat, NEW r, NEW i, Decides(d, ts, r, i)
    PROVE  NewestIn(d, ts, r) = d[ts[i]].recs[r]
<1>1. i \in Holding(d, ts, r)
    BY DEF Holding, Decides
<1>2. PICK k : Decides(d, ts, r, k) /\ NewestIn(d, ts, r) = d[ts[k]].recs[r]
    BY <1>1, NewestProperties
<1>3. i = k
    BY <1>2 DEF Decides
<1> QED
    BY <1>2, <1>3

LEMMA NewestNone ==
    ASSUME NEW d, NEW ts, NEW r, \A i \in 1..Len(ts) : d[ts[i]].recs[r] = Absent
    PROVE  NewestIn(d, ts, r) = Absent
BY DEF NewestIn, Holding

(* It depends on the tables of the stack only.                               *)
LEMMA NewestSame ==
    ASSUME NEW d, NEW e, NEW ts, Len(ts) \in Nat, NEW r,
           \A i \in 1..Len(ts) : d[ts[i]] = e[ts[i]]
    PROVE  NewestIn(d, ts, r) = NewestIn(e, ts, r)
<1>1. Holding(d, ts, r) = Holding(e, ts, r)
    BY DEF Holding
<1>2. Holding(d, ts, r) # {} => Max(Holding(d, ts, r)) \in 1..Len(ts)
    <2>1. Holding(d, ts, r) \subseteq 1..Len(ts)
        BY DEF Holding
    <2>2. Holding(d, ts, r) # {} => Max(Holding(d, ts, r)) \in Holding(d, ts, r)
        BY <2>1, MaxProperties
    <2> QED
        BY <2>1, <2>2
<1> QED
    BY <1>1, <1>2 DEF NewestIn

LEMMA ViewSame ==
    ASSUME NEW d, NEW e, NEW ts, Len(ts) \in Nat, \A i \in 1..Len(ts) : d[ts[i]] = e[ts[i]]
    PROVE  ViewIn(d, ts) = ViewIn(e, ts)
<1>1. \A r \in Refs : NewestIn(d, ts, r) = NewestIn(e, ts, r)
    BY NewestSame
<1> QED
    BY <1>1 DEF ViewIn

-----------------------------------------------------------------------------
(* Types, in groups. *)

DiskOK ==
    /\ list \in Seq(Tables) /\ files \subseteq Tables
    /\ data \in [Tables -> Content \cup {NoTable}]
    /\ \A id \in files : data[id] # NoTable
LocksOK == llock \in Procs \cup {Free} /\ tlock \in [Tables -> Procs \cup {Free}]
HandlesOK ==
    /\ tables \in [Users -> Seq(Tables)] /\ names \in [Users -> Seq(Tables)]
    /\ opened \in [Users -> Nat] /\ tries \in [Users -> 0..(Attempts + 1)]
    /\ \A p \in Users : opened[p] \in 0..Len(names[p])
PlacesOK == pc \in [Users -> PCs] /\ ret \in [Users -> PCs]
TxnsOK ==
    /\ want \in [Txns -> [Refs -> Value0 \cup {Keep}]]
    /\ expect \in [Txns -> [Refs -> Value0 \cup {Any}]]
    /\ allow \in [Txns -> BOOLEAN]
    /\ refused \in [Txns -> SUBSET Refs] /\ committed \in [Txns -> BOOLEAN]
RangesOK == first \in [Procs -> Nat] /\ last \in [Procs -> Nat]
FaultsOK == faults \in 0..MaxFaults
SeenOK == seen \in [Readers -> SUBSET [Refs -> Value0]]

LEMMA TypeParts ==
    TypeOK <=> DiskOK /\ LocksOK /\ HandlesOK /\ PlacesOK /\ TxnsOK /\ RangesOK
                 /\ FaultsOK /\ SeenOK
BY DEF TypeOK, DiskOK, LocksOK, HandlesOK, PlacesOK, TxnsOK, RangesOK, FaultsOK, SeenOK

LEMMA RecordType ==
    ASSUME DiskOK, NEW id \in Tables, data[id] # NoTable
    PROVE  data[id] \in Content /\ data[id].max \in Nat
           /\ \A r \in Refs : data[id].recs[r] \in Value0 \cup {Absent}
BY DEF DiskOK, Content

LEMMA SoundTypes ==
    ASSUME DiskOK, NEW s, Sound(s)
    PROVE  /\ s \in Seq(Tables) /\ Len(s) \in Nat
           /\ \A i \in 1..Len(s) : /\ s[i] \in Tables \ Unlisted
                                   /\ data[s[i]].max \in Nat
                                   /\ \A r \in Refs : data[s[i]].recs[r] \in Value0 \cup {Absent}
           /\ \A i, j \in 1..Len(s) : s[i] = s[j] => i = j
<1>1. s \in Seq(Tables) /\ Len(s) \in Nat /\ \A i \in 1..Len(s) : s[i] \in Tables \ Unlisted
    BY DEF Sound, SoundIn
<1>2. ASSUME NEW i \in 1..Len(s)
      PROVE  data[s[i]].max \in Nat /\ \A r \in Refs : data[s[i]].recs[r] \in Value0 \cup {Absent}
    BY <1>1, RecordType DEF Sound, SoundIn
<1>3. ASSUME NEW i \in 1..Len(s), NEW j \in 1..Len(s), i < j PROVE s[i] # s[j]
    <2>1. data[s[i]].max < data[s[j]].max
        BY <1>3 DEF Sound, SoundIn
    <2>2. data[s[i]].max \in Nat
        BY <1>2
    <2> QED
        BY <2>1, <2>2
<1>4. ASSUME NEW i \in 1..Len(s), NEW j \in 1..Len(s), s[i] = s[j] PROVE i = j
    <2>1. ~ (i < j) /\ ~ (j < i)
        BY <1>3, <1>4
    <2> QED
        BY <1>1, <2>1
<1> QED
    BY <1>1, <1>2, <1>4

LEMMA NewestType ==
    ASSUME DiskOK, NEW s, Sound(s), NEW r \in Refs
    PROVE  NewestIn(data, s, r) \in Value0 \cup {Absent}
<1>1. CASE Holding(data, s, r) = {}
    BY <1>1 DEF NewestIn
<1>2. CASE Holding(data, s, r) # {}
    <2>1. Len(s) \in Nat
        BY SoundTypes
    <2>2. PICK i : Decides(data, s, r, i) /\ NewestIn(data, s, r) = data[s[i]].recs[r]
        BY <1>2, <2>1, NewestProperties
    <2>3. i \in 1..Len(s)
        BY <2>2 DEF Decides
    <2> QED
        BY <2>2, <2>3, SoundTypes
<1> QED
    BY <1>1, <1>2

LEMMA ViewIs ==
    ASSUME NEW s
    PROVE  View(s) = ViewIn(data, s) /\ \A r : Newest(s, r) = NewestIn(data, s, r)
BY DEF View, ViewIn, Newest, NewestIn, Holding

LEMMA ViewType ==
    ASSUME DiskOK, NEW s, Sound(s)
    PROVE  View(s) \in [Refs -> Value0]
<1>1. ViewIn(data, s) \in [Refs -> Value0]
    BY NewestType DEF ViewIn, Value0
<1> QED
    BY <1>1, ViewIs

(* What was written to the tables of a stack is not written again.           *)
LEMMA SoundStays ==
    ASSUME NEW d, NEW e, NEW U, NEW W, NEW s, SoundIn(d, U, s), W \subseteq U,
           \A id \in Tables \ U : d[id] = e[id]
    PROVE  SoundIn(e, W, s) /\ \A i \in 1..Len(s) : d[s[i]] = e[s[i]]
<1>1. \A i \in 1..Len(s) : s[i] \in Tables \ U
    BY DEF SoundIn
<1>2. \A i \in 1..Len(s) : d[s[i]] = e[s[i]]
    BY <1>1
<1> QED
    BY <1>1, <1>2 DEF SoundIn

-----------------------------------------------------------------------------
(* What a step of p leaves alone. *)

OnlyPlace(p) ==
    /\ PlacesOK' /\ PlaceOK(p)' /\ (At(p, Early)' => At(p, Early))
    /\ \A u \in Users \ {p} : pc'[u] = pc[u] /\ ret'[u] = ret[u]
OnlyHandle(p) ==
    /\ HandlesOK'
    /\ \A u \in Users \ {p} : /\ tables'[u] = tables[u] /\ names'[u] = names[u]
                              /\ opened'[u] = opened[u] /\ tries'[u] = tries[u]
OnlyRange(p) ==
    RangesOK' /\ \A u \in Procs \ {p} : first'[u] = first[u] /\ last'[u] = last[u]
OnlyTxn(p) ==
    /\ TxnsOK' /\ \A t \in Txns : committed[t] => committed'[t]
    /\ \A t \in Txns \ {p} : /\ want'[t] = want[t] /\ expect'[t] = expect[t]
                             /\ refused'[t] = refused[t] /\ committed'[t] = committed[t]
OnlyLocks(p) ==
    /\ LocksOK' /\ (llock' = llock \/ {llock, llock'} \subseteq {Free, p})
    /\ \A u \in Procs \ {p} : Locked(u)' = Locked(u)
Only(p) ==
    OnlyPlace(p) /\ OnlyHandle(p) /\ OnlyRange(p) /\ OnlyTxn(p) /\ OnlyLocks(p) /\ FaultsOK'

LEMMA StaysAlone ==
    ASSUME TypeOK, NEW p
    PROVE  /\ UNCHANGED <<tables, names, opened, tries>> => OnlyHandle(p)
           /\ UNCHANGED <<first, last>> => OnlyRange(p)
           /\ UNCHANGED <<want, expect, allow, refused, committed>> => OnlyTxn(p)
           /\ UNCHANGED tlock => \A u \in Procs \ {p} : Locked(u)' = Locked(u)
           /\ UNCHANGED <<llock, tlock>> => OnlyLocks(p)
           /\ UNCHANGED faults => FaultsOK'
<1> USE TypeParts
<1>1. UNCHANGED <<tables, names, opened, tries>> => OnlyHandle(p)
    BY DEF HandlesOK, OnlyHandle
<1>2. UNCHANGED <<first, last>> => OnlyRange(p)
    BY DEF RangesOK, OnlyRange
<1>3. UNCHANGED <<want, expect, allow, refused, committed>> => OnlyTxn(p)
    BY DEF TxnsOK, OnlyTxn
<1>4. UNCHANGED tlock => \A u \in Procs \ {p} : Locked(u)' = Locked(u)
    BY DEF Locked
<1>5. UNCHANGED <<llock, tlock>> => OnlyLocks(p)
    BY <1>4 DEF LocksOK, OnlyLocks
<1>6. UNCHANGED faults => FaultsOK'
    BY DEF FaultsOK
<1> QED
    BY <1>1, <1>2, <1>3, <1>4, <1>5, <1>6

LEMMA InvParts ==
    ASSUME Inv
    PROVE  /\ TypeOK /\ DiskOK /\ LocksOK /\ HandlesOK /\ PlacesOK /\ TxnsOK /\ RangesOK
           /\ FaultsOK /\ SeenOK
           /\ \A u \in Users : PlaceOK(u) /\ HandleOK(u)
           /\ \A p \in Procs : ListLockOK(p) /\ TableLocksOK(p) /\ WrittenOK(p)
           /\ StackInv
BY TypeParts DEF Inv, UsersInv, ProcsInv

(* Steps of p that set its own entries.                                      *)
LEMMA SetTries ==
    ASSUME TypeOK, NEW p \in Users, NEW n \in 0..(Attempts + 1),
           tries' = [tries EXCEPT ![p] = n], UNCHANGED <<tables, names, opened>>
    PROVE  OnlyHandle(p)
BY TypeParts DEF HandlesOK, OnlyHandle

LEMMA SetHandle ==
    ASSUME TypeOK, NEW p \in Users, NEW ts \in Seq(Tables), NEW ns \in Seq(Tables),
           NEW k \in 0..Len(ns), NEW n \in 0..(Attempts + 1),
           tables' = [tables EXCEPT ![p] = ts], names' = [names EXCEPT ![p] = ns],
           opened' = [opened EXCEPT ![p] = k], tries' = [tries EXCEPT ![p] = n]
    PROVE  OnlyHandle(p)
<1>1. Len(ns) \in Nat /\ k \in Nat
    OBVIOUS
<1>2. /\ tables' \in [Users -> Seq(Tables)] /\ names' \in [Users -> Seq(Tables)]
      /\ opened' \in [Users -> Nat] /\ tries' \in [Users -> 0..(Attempts + 1)]
    BY <1>1, TypeParts DEF HandlesOK
<1>3. \A u \in Users : opened'[u] \in 0..Len(names'[u])
    BY TypeParts DEF HandlesOK
<1> QED
    BY <1>2, <1>3, TypeParts DEF HandlesOK, OnlyHandle

LEMMA ExitHandle ==
    ASSUME TypeOK, NEW p \in Users, NEW l, Exit(p, l)
    PROVE  OnlyHandle(p) /\ (p \in Procs => OnlyRange(p))
<1>1. <<>> \in Seq(Tables) /\ 0 \in 0..Len(<<>>) /\ 0 \in 0..(Attempts + 1)
    BY InputAssumption
<1>2. OnlyHandle(p)
    BY <1>1, SetHandle DEF Exit
<1> QED
    BY <1>2, TypeParts DEF Exit, OnlyRange, RangesOK

LEMMA ReloadHandle ==
    ASSUME TypeOK, NEW p \in Users, NEW l, UNCHANGED tables,
           Reload(p, l) \/ ReloadIfStale(p, l)
    PROVE  OnlyHandle(p)
<1>1. 0 \in 0..(Attempts + 1)
    BY InputAssumption
<1>2. CASE Reload(p, l)
    BY <1>1, <1>2, SetTries DEF Reload
<1>3. CASE Uptodate(p) /\ Goto(p, l) /\ UNCHANGED loading
    BY <1>3, StaysAlone DEF loading
<1> QED
    BY <1>2, <1>3 DEF ReloadIfStale

LEMMA LoadOnly ==
    ASSUME Inv, NEW p \in Users, Load(p) PROVE Only(p)
<1>1. OnlyPlace(p)
    BY Kinds, InvParts DEF Load, Goto, OnlyPlace, PlacesOK, PlaceOK, At,
       Loading, PCs, Early, BeforeCommit, Choosing, Compacting
<1>2. /\ tries[p] \in 0..(Attempts + 1) /\ list \in Seq(Tables) /\ 0 \in 0..Len(list)
      /\ (IF tries[p] < Attempts THEN tries[p] + 1 ELSE tries[p]) \in 0..(Attempts + 1)
      /\ tries[p] = Attempts => tries[p] + 1 \in 0..(Attempts + 1)
    BY InvParts, InputAssumption DEF HandlesOK, DiskOK
<1>3. OnlyHandle(p)
    <2>1. CASE /\ tries' = [tries EXCEPT ![p] = IF @ < Attempts THEN @ + 1 ELSE @]
               /\ names' = [names EXCEPT ![p] = list] /\ opened' = [opened EXCEPT ![p] = 0]
        <3>1. /\ tables' = [tables EXCEPT ![p] = tables[p]] /\ tables[p] \in Seq(Tables)
              /\ tries' = [tries EXCEPT ![p] = IF tries[p] < Attempts THEN tries[p] + 1
                                               ELSE tries[p]]
            BY <2>1, InvParts DEF Load, HandlesOK
        <3> QED
            BY <1>2, <2>1, <3>1, InvParts, SetHandle
    <2>2. CASE /\ tries[p] = Attempts /\ tries' = [tries EXCEPT ![p] = @ + 1]
               /\ UNCHANGED <<names, opened>>
        <3>1. tries' = [tries EXCEPT ![p] = tries[p] + 1] /\ UNCHANGED tables
            BY <2>2, InvParts DEF Load, HandlesOK
        <3> QED
            BY <1>2, <2>2, <3>1, InvParts, SetTries
    <2> QED
        BY <2>1, <2>2 DEF Load
<1> QED
    BY <1>1, <1>3, InvParts, StaysAlone DEF Only, Load, locks, loading, request,
       txn, range

LEMMA OpenTableOnly ==
    ASSUME Inv, NEW p \in Users, OpenTable(p) PROVE Only(p)
<1>1. OnlyPlace(p)
    BY Kinds, InvParts DEF OpenTable, Goto, OnlyPlace, PlacesOK, PlaceOK, At,
       Loading, PCs, Early, BeforeCommit, Choosing, Compacting
<1>2. Min(ToOpen(p)) \in 0..Len(names[p])
    <2>1. opened[p] \in Nat /\ Len(names[p]) \in Nat
        BY InvParts DEF HandlesOK
    <2>2. ToOpen(p) \subseteq Nat /\ ToOpen(p) \subseteq 0..Len(names[p]) /\ ToOpen(p) # {}
        BY <2>1 DEF ToOpen, OpenTable
    <2>3. Min(ToOpen(p)) \in ToOpen(p)
        BY <2>2, MinProperties
    <2> QED
        BY <2>2, <2>3
<1>3. OnlyHandle(p)
    <2>1. CASE opened' = [opened EXCEPT ![p] = Min(ToOpen(p))]
        <3>1. /\ tables' = [tables EXCEPT ![p] = tables[p]] /\ tables[p] \in Seq(Tables)
              /\ names' = [names EXCEPT ![p] = names[p]] /\ names[p] \in Seq(Tables)
              /\ tries' = [tries EXCEPT ![p] = tries[p]] /\ tries[p] \in 0..(Attempts + 1)
            BY InvParts DEF OpenTable, HandlesOK
        <3> QED
            BY <1>2, <2>1, <3>1, InvParts, SetHandle
    <2>2. CASE UNCHANGED opened
        BY <2>2, InvParts, StaysAlone DEF OpenTable
    <2> QED
        BY <2>1, <2>2 DEF OpenTable
<1> QED
    BY <1>1, <1>3, InvParts, StaysAlone DEF Only, OpenTable, locks, loading,
       request, txn, range

LEMMA SwitchTablesOnly ==
    ASSUME Inv, NEW p \in Users, SwitchTables(p) PROVE Only(p)
<1>1. OnlyPlace(p)
    BY Kinds, InvParts DEF SwitchTables, Goto, OnlyPlace, PlacesOK, PlaceOK,
       At, Loading, PCs, Early, BeforeCommit, Choosing, Compacting
<1>2. OnlyHandle(p)
    BY Kinds, InvParts DEF SwitchTables, OnlyHandle, HandlesOK
<1> QED
    BY <1>1, <1>2, InvParts, StaysAlone DEF Only, SwitchTables, locks,
       loading, request, txn, range

LEMMA TableMissingOnly ==
    ASSUME Inv, NEW p \in Users, TableMissing(p) PROVE Only(p) /\ pc'[p] = "load"
<1>1. list # names[p]
    <2>1. PICK i \in 1..Len(names[p]) : names[p][i] \notin Range(list)
        BY InvParts DEF HandleOK, TableMissing
    <2>2. list \in Seq(Tables)
        BY InvParts DEF DiskOK
    <2>3. \A j \in 1..Len(list) : list[j] \in Range(list)
        BY <2>2 DEF Range
    <2> QED
        BY <2>1, <2>3
<1>2. pc[p] = "missing" /\ Goto(p, "load") /\ UNCHANGED ret
    BY <1>1 DEF TableMissing, loading
<1>3. OnlyPlace(p) /\ pc'[p] = "load"
    BY <1>2, Kinds, InvParts DEF Goto, OnlyPlace, PlacesOK, PlaceOK, At, Loading, PCs, Early,
       BeforeCommit, Choosing, Compacting
<1> QED
    BY <1>3, InvParts, StaysAlone DEF Only, TableMissing, locks, loading,
       request, txn, range

LEMMA BeginOnly ==
    ASSUME Inv, NEW p \in Txns, Begin(p) PROVE Only(p)
<1>1. pc[p] = "idle" /\ Goto(p, "start") /\ UNCHANGED loading
    BY DEF Begin, MayStart
<1>2. OnlyPlace(p)
    BY <1>1, Kinds, InvParts DEF Goto, loading, OnlyPlace, PlacesOK, PlaceOK, At, Loading, PCs,
       Early, BeforeCommit, Choosing, Compacting
<1>3. View(tables[p]) \in [Refs -> Value0]
    BY Kinds, InvParts, ViewType DEF HandleOK
<1>4. PICK plan \in Plans[p] :
        /\ want' = [want EXCEPT ![p] = plan.want]
        /\ expect' = [expect EXCEPT ![p] = [r \in Refs |->
              IF r \in plan.chk THEN View(tables[p])[r] ELSE Any]]
        /\ allow' = [allow EXCEPT ![p] = plan.allow]
    BY DEF Begin
<1>5. plan.want \in [Refs -> Value0 \cup {Keep}] /\ plan.allow \in BOOLEAN
    BY <1>4, InputAssumption DEF PlanType, Value0
<1>6. [r \in Refs |-> IF r \in plan.chk THEN View(tables[p])[r] ELSE Any]
        \in [Refs -> Value0 \cup {Any}]
    BY <1>3
<1>7. OnlyTxn(p)
    BY <1>4, <1>5, <1>6, InvParts DEF Begin, txn, OnlyTxn, TxnsOK
<1> QED
    BY <1>2, <1>7, InvParts, StaysAlone DEF Only, Begin, locks, loading, range

LEMMA LockStackOnly ==
    ASSUME Inv, NEW p \in Txns, LockStack(p) PROVE Only(p)
<1>1. OnlyPlace(p)
    BY Kinds, InvParts DEF LockStack, ReloadIfStale, Reload, loading, Goto,
       OnlyPlace, PlacesOK, PlaceOK, At, Loading, PCs, Early, BeforeCommit,
       Choosing, Compacting
<1>2. OnlyHandle(p)
    BY Kinds, InvParts, ReloadHandle DEF LockStack, OnlyHandle, HandlesOK
<1>3. OnlyLocks(p)
    BY Kinds, InvParts DEF LockStack, OnlyLocks, LocksOK, Locked
<1> QED
    BY <1>1, <1>2, <1>3, InvParts, StaysAlone DEF Only, LockStack, locks,
       loading, request, txn, range

LEMMA LockTimeoutOnly ==
    ASSUME Inv, NEW p \in Procs, LockTimeout(p) PROVE Only(p)
<1>1. OnlyPlace(p)
    BY Kinds, InvParts DEF LockTimeout, CompactFailed, loading, Goto,
       OnlyPlace, PlacesOK, PlaceOK, At, Loading, PCs, Early, BeforeCommit,
       Choosing, Compacting
<1> QED
    BY <1>1, InvParts, StaysAlone DEF Only, LockTimeout, locks, loading,
       request, txn, range

LEMMA PrepareUpdatesOnly ==
    ASSUME Inv, NEW p \in Txns, PrepareUpdates(p) PROVE Only(p)
<1>1. OnlyPlace(p)
    BY Kinds, InvParts DEF PrepareUpdates, loading, Goto, OnlyPlace, PlacesOK,
       PlaceOK, At, Loading, PCs, Early, BeforeCommit, Choosing, Compacting
<1>2. OnlyTxn(p)
    BY Kinds, InvParts DEF PrepareUpdates, request, OnlyTxn, TxnsOK
<1> QED
    BY <1>1, <1>2, InvParts, StaysAlone DEF Only, PrepareUpdates, locks,
       loading, request, txn, range

LEMMA AbortOnly ==
    ASSUME Inv, NEW p \in Txns, Abort(p) PROVE Only(p)
<1>1. OnlyPlace(p)
    BY Kinds, InvParts DEF Abort, loading, Goto, OnlyPlace, PlacesOK, PlaceOK,
       At, Loading, PCs, Early, BeforeCommit, Choosing, Compacting
<1> QED
    BY <1>1, InvParts, StaysAlone DEF Only, Abort, locks, loading, request,
       txn, range

LEMMA AddTableOnly ==
    ASSUME Inv, NEW p \in Txns, AddTable(p) PROVE Only(p)
<1>1. OnlyPlace(p)
    BY Kinds, InvParts DEF AddTable, loading, Goto, OnlyPlace, PlacesOK,
       PlaceOK, At, Loading, PCs, Early, BeforeCommit, Choosing, Compacting
<1>2. OnlyTxn(p)
    BY Kinds, InvParts DEF AddTable, request, OnlyTxn, TxnsOK
<1>3. FaultsOK'
    BY Kinds, InvParts, InputAssumption DEF AddTable, NoFault, Fault, FaultsOK
<1> QED
    BY <1>1, <1>2, <1>3, InvParts, StaysAlone DEF Only, AddTable, locks,
       loading, request, txn, range

LEMMA CommitAdditionOnly ==
    ASSUME Inv, NEW p \in Txns, CommitAddition(p) PROVE Only(p)
<1>1. OnlyPlace(p)
    BY Kinds, InvParts DEF CommitAddition, Reload, loading, Goto, OnlyPlace,
       PlacesOK, PlaceOK, At, Loading, PCs, Early, BeforeCommit, Choosing,
       Compacting
<1>2. OnlyHandle(p)
    BY Kinds, InvParts, ReloadHandle, StaysAlone DEF CommitAddition, loading,
       OnlyHandle, HandlesOK
<1>3. OnlyTxn(p)
    BY Kinds, InvParts DEF CommitAddition, request, OnlyTxn, TxnsOK
<1>4. OnlyLocks(p)
    BY Kinds, InvParts DEF CommitAddition, OnlyLocks, LocksOK, Locked,
       ListLockOK
<1>5. FaultsOK'
    BY Kinds, InvParts, InputAssumption DEF CommitAddition, NoFault, Fault,
       FaultsOK
<1> QED
    BY <1>1, <1>2, <1>3, <1>4, <1>5, InvParts, StaysAlone DEF Only,
       CommitAddition, locks, loading, request, txn, range

(* Where p has nothing to lose.                                              *)
Resting == {"undo", "end", "clean", "done", "failed", "crashed"}

(* The range to compact, if there is one.                                    *)
Chosen(p) ==
    \/ pc'[p] \in Resting /\ UNCHANGED range
    \/ \E i, j \in 1..Len(tables[p]) :
         /\ i < j /\ pc'[p] = "lock"
         /\ first' = [first EXCEPT ![p] = i] /\ last' = [last EXCEPT ![p] = j]

LEMMA AutoCompactOnly ==
    ASSUME Inv, NEW p \in Txns, AutoCompact(p) PROVE Only(p) /\ Chosen(p)
<1>1. Chosen(p)
    <2>1. Len(tables[p]) \in Nat /\ p \in Users
        BY InvParts, Kinds DEF HandlesOK
    <2> QED
        BY <2>1, InvParts DEF AutoCompact, Compact, Chosen, Goto, PlacesOK, Resting
<1>2. OnlyPlace(p)
    BY Kinds, InvParts DEF AutoCompact, Compact, loading, Goto, OnlyPlace,
       PlacesOK, PlaceOK, At, Loading, PCs, Early, BeforeCommit, Choosing,
       Compacting
<1>3. OnlyRange(p)
    BY <1>1, InvParts, StaysAlone DEF Chosen, range, OnlyRange, RangesOK
<1> QED
    BY <1>1, <1>2, <1>3, InvParts, StaysAlone DEF Only, AutoCompact, locks, loading,
       request, txn, range

LEMMA OptimizeOnly ==
    ASSUME Inv, NEW p \in Optimizers, Optimize(p) PROVE Only(p) /\ Chosen(p)
<1>1. Chosen(p)
    <2>1. Len(tables[p]) \in Nat /\ p \in Users
        BY InvParts, Kinds DEF HandlesOK
    <2> QED
        BY <2>1, InvParts DEF Optimize, Compact, Chosen, Goto, PlacesOK, Resting
<1>2. OnlyPlace(p)
    BY Kinds, InvParts DEF Optimize, Compact, MayStart, loading, Goto, OnlyPlace,
       PlacesOK, PlaceOK, At, Loading, PCs, Early, BeforeCommit, Choosing,
       Compacting
<1>3. OnlyRange(p)
    BY <1>1, InvParts, StaysAlone DEF Chosen, range, OnlyRange, RangesOK
<1> QED
    BY <1>1, <1>2, <1>3, InvParts, StaysAlone DEF Only, Optimize, locks, loading,
       request, txn, range

LEMMA CompactLockOnly ==
    ASSUME Inv, NEW p \in Procs, CompactLock(p) PROVE Only(p)
<1>1. OnlyPlace(p)
    BY Kinds, InvParts DEF CompactLock, CompactFailed, loading, Goto,
       OnlyPlace, PlacesOK, PlaceOK, At, Loading, PCs, Early, BeforeCommit,
       Choosing, Compacting
<1>2. OnlyLocks(p)
    BY Kinds, InvParts DEF CompactLock, OnlyLocks, LocksOK, Locked
<1> QED
    BY <1>1, <1>2, InvParts, StaysAlone DEF Only, CompactLock, locks, loading,
       request, txn, range

LEMMA LockTableOnly ==
    ASSUME Inv, NEW p \in Procs, LockTable(p) PROVE Only(p)
<1>1. OnlyPlace(p)
    BY Kinds, InvParts DEF LockTable, CompactFailed, loading, Goto, OnlyPlace,
       PlacesOK, PlaceOK, At, Loading, PCs, Early, BeforeCommit, Choosing,
       Compacting
<1>2. Cardinality(Locked(p)) \in Nat /\ first[p] \in Nat /\ last[p] \in Nat
    BY InvParts DEF TableLocksOK, LockTable, RangesOK
<1> DEFINE i == last[p] - Cardinality(Locked(p))
<1>3. UNCHANGED first \/ (i >= first[p] /\ first' = [first EXCEPT ![p] = i + 1])
    BY DEF LockTable
<1>4. i >= first[p] => i + 1 \in Nat
    BY <1>2
<1>5. OnlyRange(p)
    <2> HIDE DEF i
    <2> QED
        BY <1>3, <1>4, InvParts DEF LockTable, OnlyRange, RangesOK
<1>6. OnlyLocks(p)
    BY Kinds, InvParts DEF LockTable, OnlyLocks, LocksOK, Locked
<1>7. FaultsOK'
    BY Kinds, InvParts, InputAssumption DEF LockTable, NoFault, Fault, FaultsOK
<1> QED
    BY <1>1, <1>5, <1>6, <1>7, InvParts, StaysAlone DEF Only, LockTable, locks,
       loading, request, txn, range

LEMMA MergeTablesOnly ==
    ASSUME Inv, NEW p \in Procs, MergeTables(p) PROVE Only(p)
<1>1. OnlyPlace(p)
    BY Kinds, InvParts DEF MergeTables, loading, Goto, OnlyPlace, PlacesOK,
       PlaceOK, At, Loading, PCs, Early, BeforeCommit, Choosing, Compacting
<1>2. OnlyLocks(p)
    BY Kinds, InvParts DEF MergeTables, OnlyLocks, LocksOK, Locked, ListLockOK
<1>3. FaultsOK'
    BY Kinds, InvParts, InputAssumption DEF MergeTables, NoFault, Fault,
       FaultsOK
<1> QED
    BY <1>1, <1>2, <1>3, InvParts, StaysAlone DEF Only, MergeTables, locks,
       loading, request, txn, range

LEMMA CompactRelockOnly ==
    ASSUME Inv, NEW p \in Procs, CompactRelock(p) PROVE Only(p)
<1>1. OnlyPlace(p)
    BY Kinds, InvParts DEF CompactRelock, CompactFailed, loading, Goto,
       OnlyPlace, PlacesOK, PlaceOK, At, Loading, PCs, Early, BeforeCommit,
       Choosing, Compacting
<1>2. OnlyLocks(p)
    BY Kinds, InvParts DEF CompactRelock, OnlyLocks, LocksOK, Locked
<1> QED
    BY <1>1, <1>2, InvParts, StaysAlone DEF Only, CompactRelock, locks,
       loading, request, txn, range

LEMMA InstallTableOnly ==
    ASSUME Inv, NEW p \in Procs, InstallTable(p) PROVE Only(p)
<1>1. OnlyPlace(p)
    BY Kinds, InvParts DEF InstallTable, loading, Goto, OnlyPlace, PlacesOK,
       PlaceOK, At, Loading, PCs, Early, BeforeCommit, Choosing, Compacting
<1>2. FaultsOK'
    BY Kinds, InvParts, InputAssumption DEF InstallTable, NoFault, Fault,
       FaultsOK
<1> QED
    BY <1>1, <1>2, InvParts, StaysAlone DEF Only, InstallTable, locks,
       loading, request, txn, range

LEMMA ReplaceTablesOnly ==
    ASSUME Inv, NEW p \in Procs, ReplaceTables(p) PROVE Only(p)
<1>1. OnlyPlace(p)
    BY Kinds, InvParts DEF ReplaceTables, Reload, loading, Goto, OnlyPlace,
       PlacesOK, PlaceOK, At, Loading, PCs, Early, BeforeCommit, Choosing,
       Compacting
<1>2. OnlyHandle(p)
    BY Kinds, InvParts, ReloadHandle, StaysAlone DEF ReplaceTables, loading,
       OnlyHandle, HandlesOK
<1>3. OnlyLocks(p)
    BY Kinds, InvParts DEF ReplaceTables, OnlyLocks, LocksOK, Locked,
       ListLockOK
<1>4. FaultsOK'
    BY Kinds, InvParts, InputAssumption DEF ReplaceTables, NoFault, Fault,
       FaultsOK
<1> QED
    BY <1>1, <1>2, <1>3, <1>4, InvParts, StaysAlone DEF Only, ReplaceTables,
       locks, loading, request, txn, range

LEMMA UnlinkTablesOnly ==
    ASSUME Inv, NEW p \in Procs, UnlinkTables(p) PROVE Only(p)
<1>1. OnlyPlace(p)
    BY Kinds, InvParts DEF UnlinkTables, loading, Goto, OnlyPlace, PlacesOK,
       PlaceOK, At, Loading, PCs, Early, BeforeCommit, Choosing, Compacting
<1> QED
    BY <1>1, InvParts, StaysAlone DEF Only, UnlinkTables, locks, loading,
       request, txn, range

LEMMA ReleaseListOnly ==
    ASSUME Inv, NEW p \in Procs, ReleaseList(p) PROVE Only(p)
<1>1. OnlyPlace(p)
    BY Kinds, InvParts DEF ReleaseList, loading, Goto, OnlyPlace, PlacesOK,
       PlaceOK, At, Loading, PCs, Early, BeforeCommit, Choosing, Compacting
<1>2. OnlyLocks(p)
    BY Kinds, InvParts DEF ReleaseList, OnlyLocks, LocksOK, Locked
<1> QED
    BY <1>1, <1>2, InvParts, StaysAlone DEF Only, ReleaseList, locks, loading,
       request, txn, range

LEMMA ReleaseTableOnly ==
    ASSUME Inv, NEW p \in Procs, NEW id \in Tables, ReleaseTable(p, id) PROVE Only(p)
<1>1. OnlyPlace(p)
    BY Kinds, InvParts DEF ReleaseTable, loading, Goto, OnlyPlace, PlacesOK,
       PlaceOK, At, Loading, PCs, Early, BeforeCommit, Choosing, Compacting
<1>2. OnlyLocks(p)
    BY Kinds, InvParts DEF ReleaseTable, OnlyLocks, LocksOK, Locked
<1> QED
    BY <1>1, <1>2, InvParts, StaysAlone DEF Only, ReleaseTable, locks,
       loading, request, txn, range

LEMMA FinishOnly ==
    ASSUME Inv, NEW p \in Procs, Finish(p) PROVE Only(p)
<1>1. OnlyPlace(p)
    BY Kinds, InvParts DEF Finish, Exit, loading, Goto, OnlyPlace, PlacesOK,
       PlaceOK, At, Loading, PCs, Early, BeforeCommit, Choosing, Compacting
<1>2. OnlyHandle(p)
    BY Kinds, InvParts, ExitHandle, StaysAlone DEF Finish, loading,
       OnlyHandle, HandlesOK
<1>3. OnlyRange(p)
    BY Kinds, InvParts, ExitHandle, StaysAlone DEF Finish, range, OnlyRange,
       RangesOK
<1> QED
    BY <1>1, <1>2, <1>3, InvParts, StaysAlone DEF Only, Finish, locks,
       loading, request, txn, range

LEMMA CleanLockOnly ==
    ASSUME Inv, NEW p \in Optimizers, CleanLock(p) PROVE Only(p)
<1>1. OnlyPlace(p)
    BY Kinds, InvParts DEF CleanLock, loading, Goto, OnlyPlace, PlacesOK,
       PlaceOK, At, Loading, PCs, Early, BeforeCommit, Choosing, Compacting
<1>2. OnlyLocks(p)
    BY Kinds, InvParts DEF CleanLock, OnlyLocks, LocksOK, Locked
<1> QED
    BY <1>1, <1>2, InvParts, StaysAlone DEF Only, CleanLock, locks, loading,
       request, txn, range

LEMMA SweepOnly ==
    ASSUME Inv, NEW p \in Optimizers, Sweep(p) PROVE Only(p)
<1>1. OnlyPlace(p)
    BY Kinds, InvParts DEF Sweep, loading, Goto, OnlyPlace, PlacesOK, PlaceOK,
       At, Loading, PCs, Early, BeforeCommit, Choosing, Compacting
<1> QED
    BY <1>1, InvParts, StaysAlone DEF Only, Sweep, locks, loading, request,
       txn, range

LEMMA CleanDoneOnly ==
    ASSUME Inv, NEW p \in Optimizers, CleanDone(p) PROVE Only(p)
<1>1. OnlyPlace(p)
    BY Kinds, InvParts DEF CleanDone, Exit, loading, Goto, OnlyPlace,
       PlacesOK, PlaceOK, At, Loading, PCs, Early, BeforeCommit, Choosing,
       Compacting
<1>2. OnlyHandle(p)
    BY Kinds, InvParts, ExitHandle, StaysAlone DEF CleanDone, loading,
       OnlyHandle, HandlesOK
<1>3. OnlyRange(p)
    BY Kinds, InvParts, ExitHandle, StaysAlone DEF CleanDone, range,
       OnlyRange, RangesOK
<1>4. OnlyLocks(p)
    BY Kinds, InvParts DEF CleanDone, OnlyLocks, LocksOK, Locked, ListLockOK
<1> QED
    BY <1>1, <1>2, <1>3, <1>4, InvParts, StaysAlone DEF Only, CleanDone,
       locks, loading, request, txn, range

LEMMA ReadOnly ==
    ASSUME Inv, NEW p \in Readers, Read(p) PROVE Only(p)
<1>1. OnlyPlace(p)
    BY Kinds, InvParts DEF Read, ReloadIfStale, Reload, MayStart, loading,
       Goto, OnlyPlace, PlacesOK, PlaceOK, At, Loading, PCs, Early,
       BeforeCommit, Choosing, Compacting
<1>2. OnlyHandle(p)
    BY Kinds, InvParts, ReloadHandle DEF Read, OnlyHandle, HandlesOK
<1> QED
    BY <1>1, <1>2, InvParts, StaysAlone DEF Only, Read, locks, loading,
       request, txn, range

LEMMA CrashOnly ==
    ASSUME Inv, NEW p \in Procs, Crash(p) PROVE Only(p)
<1>1. OnlyPlace(p)
    BY Kinds, InvParts DEF Crash, Exit, Ended, Goto, OnlyPlace, PlacesOK,
       PlaceOK, At, Loading, PCs, Early, BeforeCommit, Choosing, Compacting
<1>2. OnlyHandle(p)
    BY Kinds, InvParts, ExitHandle DEF Crash, OnlyHandle, HandlesOK
<1>3. OnlyRange(p)
    BY Kinds, InvParts, ExitHandle DEF Crash, OnlyRange, RangesOK
<1>4. FaultsOK'
    BY Kinds, InvParts, InputAssumption DEF Crash, Fault, FaultsOK
<1> QED
    BY <1>1, <1>2, <1>3, <1>4, InvParts, StaysAlone DEF Only, Crash, locks,
       loading, request, txn, range

-----------------------------------------------------------------------------
(* What a step of p does to the shared files, and what it means to others. *)

Writes(p) ==
    /\ DiskOK'
    /\ \/ list' = list
       \/ llock = p /\ \A i \in 1..Len(list') : list'[i] \in Range(list) \cup Unlisted
    /\ \A id \in Tables : \/ data'[id] = data[id]
                          \/ id \in Unlisted /\ id \in {Added(p), Merged(p)}
    /\ \A id \in Unlisted \cap files : id \in files' \cup {Added(p), Merged(p)} \/ llock = p

LEMMA UnlistedShrinks ==
    ASSUME Inv, NEW p \in Users, Only(p) PROVE Unlisted' \subseteq Unlisted
<1>1. \A t \in Txns : ~committed'[t] => ~committed[t]
    BY DEF Only, OnlyTxn
<1>2. \A u \in Procs : At(u, Early)' => At(u, Early)
    BY Kinds DEF Only, OnlyPlace, At, Loading
<1> QED
    BY <1>1, <1>2 DEF Unlisted

(* A table that was in the list once and is not any more does not come back. *)
LEMMA GoneStays ==
    ASSUME Inv, NEW p, Writes(p), NEW id, id \notin Unlisted, id \notin Range(list)
    PROVE  id \notin Range(list')
<1>1. list' \in Seq(Tables)
    BY DEF Writes, DiskOK
<1>2. \A x : x \in Range(list') <=> \E i \in 1..Len(list') : x = list'[i]
    BY <1>1, RangeMembers
<1> QED
    BY <1>2 DEF Writes

(* Stacks, and what they show, stay.                                         *)
LEMMA StacksStay ==
    ASSUME Inv, NEW p \in Users, Only(p), Writes(p), NEW s, SoundIn(data, Unlisted, s)
    PROVE  /\ SoundIn(data', Unlisted', s)
           /\ \A i \in 1..Len(s) : data'[s[i]] = data[s[i]]
           /\ ViewIn(data', s) = ViewIn(data, s)
           /\ \A r : NewestIn(data', s, r) = NewestIn(data, s, r)
<1>1. \A id \in Tables \ Unlisted : data[id] = data'[id]
    BY DEF Writes
<1>0. Unlisted' \subseteq Unlisted
    BY UnlistedShrinks
<1>2. SoundIn(data', Unlisted', s)
    BY <1>0, <1>1, SoundStays
<1>4. \A i \in 1..Len(s) : data[s[i]] = data'[s[i]]
    BY <1>1 DEF SoundIn
<1>3. Len(s) \in Nat
    BY DEF SoundIn
<1> QED
    BY <1>2, <1>3, <1>4, ViewSame, NewestSame

LEMMA SoundSub ==
    ASSUME NEW d, NEW U, NEW s, SoundIn(d, U, s), NEW a \in Nat \ {0}, NEW b \in 0..Len(s), a <= b + 1
    PROVE  /\ SoundIn(d, U, SubSeq(s, a, b)) /\ Len(SubSeq(s, a, b)) = b - a + 1
           /\ \A i \in 1..(b - a + 1) : SubSeq(s, a, b)[i] = s[a + i - 1]
<1> DEFINE t == SubSeq(s, a, b)
<1>1. s \in Seq(Tables) /\ Len(s) \in Nat /\ b \in Nat
    BY DEF SoundIn
<1>2. t \in Seq(Tables) /\ Len(t) = b - a + 1 /\ \A i \in 1..(b - a + 1) : t[i] = s[a + i - 1]
    BY <1>1, SubSeqProperties
<1>3. \A i \in 1..(b - a + 1) : a + i - 1 \in 1..Len(s)
    BY <1>1
<1> HIDE DEF t
<1>4. \A i \in 1..Len(t) : t[i] \notin U /\ d[t[i]] # NoTable
    BY <1>2, <1>3 DEF SoundIn
<1>5. ASSUME NEW i \in 1..Len(t), NEW j \in 1..Len(t), i < j
      PROVE  d[t[i]].max < d[t[j]].max
    <2>0. i \in 1..(b - a + 1) /\ j \in 1..(b - a + 1)
        BY <1>2
    <2>1. t[i] = s[a + i - 1] /\ t[j] = s[a + j - 1]
        BY <1>2, <2>0
    <2>2. a + i - 1 \in 1..Len(s) /\ a + j - 1 \in 1..Len(s) /\ a + i - 1 < a + j - 1
        BY <1>1, <1>5, <2>0
    <2> QED
        BY <2>1, <2>2 DEF SoundIn
<1>6. SoundIn(d, U, t)
    BY <1>2, <1>4, <1>5 DEF SoundIn
<1> QED
    BY <1>2, <1>6 DEF t

(* Compacted with everything it depends on as a parameter.                   *)
CompactedIn(d, s, oldest) ==
    [r \in Refs |-> IF oldest /\ NewestIn(d, s, r) = None THEN Absent ELSE NewestIn(d, s, r)]

LEMMA CompactedIs ==
    ASSUME NEW p
    PROVE  /\ Compacted(p) = CompactedIn(data, Merging(p), first[p] = 1)
           /\ Compacted(p)' = CompactedIn(data', Merging(p)', first'[p] = 1)
BY DEF Compacted, CompactedIn, Newest, NewestIn, Holding

LEMMA MergingSound ==
    ASSUME Inv, NEW p \in Procs, pc[p] \in {"lock"} \cup Compacting
    PROVE  /\ SoundIn(data, Unlisted, Merging(p)) /\ Len(Merging(p)) = last[p] - first[p] + 1
           /\ \A i \in 1..(last[p] - first[p] + 1) : Merging(p)[i] = tables[p][first[p] + i - 1]
<1>1. /\ SoundIn(data, Unlisted, tables[p]) /\ Len(tables[p]) \in Nat
      /\ first[p] \in 1..last[p] /\ last[p] \in 1..Len(tables[p])
    BY Kinds, InvParts DEF HandleOK, Sound, TableLocksOK, HandlesOK
<1>2. first[p] \in Nat \ {0} /\ last[p] \in 0..Len(tables[p]) /\ first[p] <= last[p] + 1
    BY <1>1
<1> QED
    BY <1>1, <1>2, SoundSub DEF Merging

LEMMA OthersHandle ==
    ASSUME Inv, NEW p \in Users, Only(p), Writes(p), NEW u \in Users \ {p}
    PROVE  PlaceOK(u)' /\ HandleOK(u)'
<1>1. /\ pc'[u] = pc[u] /\ ret'[u] = ret[u] /\ tables'[u] = tables[u] /\ names'[u] = names[u]
      /\ tables[u] \in Seq(Tables) /\ names[u] \in Seq(Tables)
    BY InvParts DEF Only, OnlyPlace, OnlyHandle, HandlesOK
<1>2. PlaceOK(u)'
    BY <1>1, InvParts DEF PlaceOK, At, Loading
<1>3. SoundIn(data, Unlisted, tables[u]) /\ SoundIn(data, Unlisted, names[u])
    BY InvParts DEF HandleOK, Sound
<1>4. SoundIn(data', Unlisted', tables[u]) /\ SoundIn(data', Unlisted', names[u])
    BY <1>3, StacksStay
<1>5. \A i \in 1..Len(tables[u]) : tables[u][i] \notin Range(list) => tables[u][i] \notin Range(list')
    BY <1>3, GoneStays DEF SoundIn
<1>6. \A i \in 1..Len(names[u]) : names[u][i] \notin Range(list) => names[u][i] \notin Range(list')
    BY <1>3, GoneStays DEF SoundIn
<1>7. pc[u] = "open" => \A i \in 1..Len(tables[u]) :
        tables[u][i] \in Range(names[u]) \/ tables[u][i] \notin Range(list')
    BY <1>5, InvParts DEF HandleOK
<1>8. pc[u] = "missing" => \E i \in 1..Len(names[u]) : names[u][i] \notin Range(list')
    BY <1>6, InvParts DEF HandleOK
<1>9. HandleOK(u)'
    BY <1>1, <1>4, <1>7, <1>8 DEF HandleOK, Sound
<1> QED
    BY <1>2, <1>9

LEMMA OthersLocks ==
    ASSUME Inv, NEW p \in Users, Only(p), Writes(p), NEW u \in Procs \ {p}
    PROVE  /\ ListLockOK(u)' /\ TableLocksOK(u)'
           /\ llock = u => list' = list /\ llock' = u
<1>1. /\ pc'[u] = pc[u] /\ ret'[u] = ret[u] /\ tables'[u] = tables[u] /\ names'[u] = names[u]
      /\ tries'[u] = tries[u] /\ first'[u] = first[u] /\ last'[u] = last[u]
      /\ Locked(u)' = Locked(u) /\ u \in Users
    BY Kinds DEF Only, OnlyPlace, OnlyHandle, OnlyRange, OnlyLocks
<1>2. llock = u => llock' = u /\ list' = list
    BY Kinds DEF Only, OnlyLocks, Writes
<1>3. Loading(u)' = Loading(u) /\ \A L : At(u, L)' = At(u, L)
    BY <1>1 DEF At, Loading
<1>4. list' = list => Offsets(u, list)' = Offsets(u, list)
    BY <1>1 DEF Offsets, Merging
<1>5. ListLockOK(u)'
    BY <1>1, <1>2, <1>3, <1>4, InvParts DEF ListLockOK, Loading
<1>6. Locked(u) \cap Range(list) = {} => Locked(u) \cap Range(list') = {}
    <2>1. \A id \in Locked(u) : id \notin Unlisted
        BY Kinds, InvParts DEF StackInv, Locked
    <2> QED
        BY <2>1, GoneStays
<1>7. TableLocksOK(u)'
    BY <1>1, <1>3, <1>6, InvParts DEF TableLocksOK, At, Loading
<1> QED
    BY <1>2, <1>5, <1>7

LEMMA OthersWritten ==
    ASSUME Inv, NEW p \in Users, Only(p), Writes(p), NEW u \in Procs \ {p}
    PROVE  WrittenOK(u)'
<1>1. /\ pc'[u] = pc[u] /\ ret'[u] = ret[u] /\ tables'[u] = tables[u]
      /\ first'[u] = first[u] /\ last'[u] = last[u] /\ u \in Users /\ llock' \in Procs \cup {Free}
    BY Kinds DEF Only, OnlyPlace, OnlyHandle, OnlyRange, OnlyLocks, LocksOK
<1>2. u \in Txns => /\ want'[u] = want[u] /\ refused'[u] = refused[u]
                    /\ committed'[u] = committed[u]
    BY DEF Only, OnlyTxn
<1>3. \A L : At(u, L)' = At(u, L)
    BY <1>1 DEF At, Loading
<1>4. SoundIn(data, Unlisted, tables[u]) /\ tables[u] \in Seq(Tables)
    BY <1>1, InvParts DEF HandleOK, Sound, HandlesOK
<1>5. ViewIn(data', tables[u]) = ViewIn(data, tables[u])
      /\ \A i \in 1..Len(tables[u]) : data'[tables[u][i]] = data[tables[u][i]]
    BY <1>4, StacksStay
<1>6. ASSUME pc[u] = "commit"
      PROVE  /\ Added(u) \in files'
             /\ data'[Added(u)] = [max  |-> NextUpdateIndex(tables[u])',
                                   recs |-> [r \in Refs |->
                                      IF r \in Queued(u)' THEN want'[u][r] ELSE Absent]]
    <2>1. u \in Txns /\ ~committed[u] /\ llock = u
        BY <1>1, <1>6, Kinds, InvParts DEF PlaceOK, At, WrittenOK, ListLockOK, BeforeCommit
    <2>2. Added(u) \in Unlisted /\ Added(u) \in Tables
        BY <2>1, TableNames DEF Unlisted
    <2>3. Added(u) # Added(p) /\ Added(u) # Merged(p)
        BY DEF Added, Merged
    <2>4. Added(u) \in files' /\ data'[Added(u)] = data[Added(u)]
        BY <1>6, <2>1, <2>2, <2>3, InvParts DEF Writes, WrittenOK
    <2>5. Queued(u)' = Queued(u)
        <3>1. View(tables[u]) = ViewIn(data, tables[u])
            BY ViewIs
        <3>2. View(tables[u])' = ViewIn(data', tables'[u])
            BY DEF View, ViewIn, Newest, NewestIn, Holding
        <3> QED
            BY <1>1, <1>2, <1>5, <2>1, <3>1, <3>2 DEF Queued
    <2>6. NextUpdateIndex(tables[u])' = NextUpdateIndex(tables[u])
        <3>1. tables[u] # <<>> => Len(tables[u]) \in 1..Len(tables[u])
            BY <1>4
        <3> QED
            BY <1>1, <1>5, <3>1 DEF NextUpdateIndex
    <2> QED
        BY <1>2, <1>6, <2>1, <2>4, <2>5, <2>6, InvParts DEF WrittenOK
<1>7. ASSUME pc[u] = "replace", ~IsEmptyTable(u)'
      PROVE  /\ Merged(u) \in files'
             /\ data'[Merged(u)] = [max |-> data'[tables'[u][last'[u]]].max, recs |-> Compacted(u)']
    <2>1. llock = u /\ At(u, Early)
        BY <1>7, InvParts DEF ListLockOK, At, Early, Compacting
    <2>2. Merged(u) \in Unlisted /\ Merged(u) \in Tables
        BY <2>1, TableNames DEF Unlisted
    <2>3. Merged(u) # Added(p) /\ Merged(u) # Merged(p)
        BY DEF Added, Merged
    <2>4. data'[Merged(u)] = data[Merged(u)] /\ (Merged(u) \in files => Merged(u) \in files')
        BY <2>1, <2>2, <2>3 DEF Writes
    <2>5. SoundIn(data, Unlisted, Merging(u))
        BY <1>7, MergingSound DEF Compacting
    <2>6. Compacted(u)' = Compacted(u)
        <3>1. Merging(u)' = Merging(u)
            BY <1>1 DEF Merging
        <3>2. \A r : NewestIn(data', Merging(u), r) = NewestIn(data, Merging(u), r)
            BY <2>5, StacksStay
        <3> QED
            BY <1>1, <3>1, <3>2, CompactedIs DEF CompactedIn
    <2>7. ~IsEmptyTable(u)
        BY <1>7, <2>6 DEF IsEmptyTable
    <2>8. data'[tables[u][last[u]]] = data[tables[u][last[u]]]
        BY <1>5, <1>7, InvParts DEF TableLocksOK, Compacting
    <2> QED
        BY <1>1, <1>7, <2>4, <2>6, <2>7, <2>8, InvParts DEF WrittenOK
<1> QED
    BY <1>1, <1>2, <1>3, <1>6, <1>7, InvParts DEF WrittenOK

-----------------------------------------------------------------------------
(* Putting a step together. *)

LEMMA ViewInType ==
    ASSUME NEW d \in [Tables -> Content \cup {NoTable}], NEW U, NEW s, SoundIn(d, U, s)
    PROVE  ViewIn(d, s) \in [Refs -> Value0]
<1>1. /\ Len(s) \in Nat
      /\ \A i \in 1..Len(s) : \A r \in Refs : d[s[i]].recs[r] \in Value0 \cup {Absent}
    BY DEF SoundIn, Content
<1>2. ASSUME NEW r \in Refs PROVE NewestIn(d, s, r) \in Value0 \cup {Absent}
    <2>1. CASE Holding(d, s, r) = {}
        BY <2>1 DEF NewestIn
    <2>2. CASE Holding(d, s, r) # {}
        <3>1. PICK i : Decides(d, s, r, i) /\ NewestIn(d, s, r) = d[s[i]].recs[r]
            BY <1>1, <2>2, NewestProperties
        <3>2. i \in 1..Len(s)
            BY <3>1 DEF Decides
        <3> QED
            BY <1>1, <3>1, <3>2
    <2> QED
        BY <2>1, <2>2
<1> QED
    BY <1>2 DEF ViewIn, Value0

LEMMA SeenStays ==
    ASSUME Inv, DiskOK', StackInv', Observe PROVE SeenOK'
<1>1. View(list) \in [Refs -> Value0]
    <2>1. SoundIn(data, Unlisted, list) /\ data \in [Tables -> Content \cup {NoTable}]
        BY InvParts DEF StackInv, Sound, DiskOK
    <2> QED
        BY <2>1, ViewInType, ViewIs
<1>2. View(list)' \in [Refs -> Value0]
    <2>1. SoundIn(data', Unlisted', list') /\ data' \in [Tables -> Content \cup {NoTable}]
        BY DEF StackInv, Sound, DiskOK
    <2>2. View(list)' = ViewIn(data', list')
        BY DEF View, ViewIn, Newest, NewestIn, Holding
    <2> QED
        BY <2>1, <2>2, ViewInType
<1> QED
    BY <1>1, <1>2, InvParts DEF SeenOK, Observe

(* What has to be shown of a step of p.                                      *)
Mine(p) ==
    /\ HandleOK(p)'
    /\ p \in Procs => ListLockOK(p)' /\ TableLocksOK(p)' /\ WrittenOK(p)'

LEMMA StepKeeps ==
    ASSUME Inv, NEW p \in Users, Only(p), Writes(p), StackInv', Mine(p), Observe
    PROVE  Inv'
<1>1. TypeOK'
    BY SeenStays, TypeParts, PTL DEF Only, OnlyPlace, OnlyHandle, OnlyRange, OnlyTxn, OnlyLocks, Writes
<1>2. UsersInv'
    BY OthersHandle DEF UsersInv, Mine, Only, OnlyPlace
<1>3. ProcsInv'
    BY OthersLocks, OthersWritten DEF ProcsInv, Mine
<1> QED
    BY <1>1, <1>2, <1>3 DEF Inv

LEMMA StackStays ==
    ASSUME Inv, NEW p \in Users, Only(p), Writes(p), list' = list, Range(list) \subseteq files',
           \A id \in Unlisted : tlock'[id] = Free
    PROVE  StackInv'
<1>1. SoundIn(data', Unlisted', list)
    BY InvParts, StacksStay DEF StackInv, Sound
<1> QED
    BY <1>1, UnlistedShrinks DEF StackInv, Sound

(* A step that writes no file and takes no lock of a table.                  *)
LEMMA QuietStep ==
    ASSUME Inv, NEW p \in Users, Only(p), UNCHANGED <<list, files, data, tlock>>
    PROVE  Writes(p) /\ StackInv'
<1>1. Writes(p)
    BY InvParts DEF Writes, DiskOK
<1> QED
    BY <1>1, InvParts, StackStays DEF StackInv

LEMMA HandleStays ==
    ASSUME Inv, NEW p \in Users, Only(p), Writes(p), tables'[p] = tables[p], names'[p] = names[p],
           pc'[p] \notin {"open", "missing"}
    PROVE  HandleOK(p)'
<1>1. SoundIn(data', Unlisted', tables[p]) /\ SoundIn(data', Unlisted', names[p])
    BY InvParts, StacksStay DEF HandleOK, Sound
<1> QED
    BY <1>1 DEF HandleOK, Sound

LEMMA RestingMine ==
    ASSUME NEW p, HandleOK(p)', pc'[p] \in Resting PROVE Mine(p)
BY DEF Mine, ListLockOK, TableLocksOK, WrittenOK, Resting, At, Loading, BeforeCommit, Choosing,
       Compacting, Replacing

LEMMA ExitMine ==
    ASSUME Inv, NEW p \in Users, NEW l \in Resting, Exit(p, l) PROVE Mine(p)
<1>1. /\ pc'[p] = l /\ tables'[p] = <<>> /\ names'[p] = <<>>
    BY InvParts DEF Exit, Goto, HandlesOK, PlacesOK
<1>2. SoundIn(data', Unlisted', <<>>)
    BY DEF SoundIn
<1>3. HandleOK(p)'
    BY <1>1, <1>2 DEF HandleOK, Sound, Resting
<1> QED
    BY <1>1, <1>3, RestingMine

(* Quiet steps that end at rest.                                             *)
LEMMA QuietEnds ==
    ASSUME Inv, NEW p \in Users, Only(p), UNCHANGED <<list, files, data, tlock, tables, names>>,
           pc'[p] \in Resting, Observe
    PROVE  Inv'
<1>1. Writes(p) /\ StackInv'
    BY QuietStep
<1>2. HandleOK(p)'
    BY <1>1, HandleStays DEF Resting
<1> QED
    BY <1>1, <1>2, RestingMine, StepKeeps

-----------------------------------------------------------------------------
(* Reloading. *)

LEMMA LoadingPlaces ==
    ASSUME Inv, NEW p \in Users, Loading(p)
    PROVE  /\ p \in Procs => ret[p] \in {"check", "auto", "unlink"}
           /\ p \in Readers => ret[p] = "done"
BY Kinds, InvParts DEF PlaceOK

(* What does not change while p is loading, and when it stops.               *)
LEMMA LoadingMine ==
    ASSUME Inv, NEW p \in Procs, Loading(p), Only(p), Writes(p), UNCHANGED <<locks, range, txn>>,
           ret'[p] = ret[p], Loading(p)' \/ pc'[p] = ret[p], list' = list
    PROVE  TableLocksOK(p)' /\ WrittenOK(p)'
<1>1. ret[p] \in {"check", "auto", "unlink"}
    BY Kinds, LoadingPlaces
<1>3. At(p, BeforeCommit \cup Choosing)' => At(p, BeforeCommit \cup Choosing)
    BY <1>1 DEF At, Loading, BeforeCommit, Choosing
<1>4. At(p, BeforeCommit)' => At(p, BeforeCommit)
    BY <1>1 DEF At, Loading, BeforeCommit
<1>5. At(p, {"unlink"})' => At(p, {"unlink"})
    BY <1>1 DEF At, Loading
<1>6. pc'[p] \notin {"lock", "commit"} \cup Compacting /\ pc'[p] \notin Replacing
    BY <1>1 DEF Loading, Compacting, Replacing
<1>7. Locked(p)' = Locked(p) /\ committed' = committed
    BY DEF locks, Locked, txn
<1>8. TableLocksOK(p)'
    BY <1>3, <1>5, <1>6, <1>7, InvParts DEF TableLocksOK, Compacting
<1>9. WrittenOK(p)'
    BY <1>4, <1>6, <1>7, InvParts DEF WrittenOK, Compacting
<1> QED
    BY <1>8, <1>9

LEMMA LoadInv ==
    ASSUME Inv, NEW p \in Users, Load(p), Observe PROVE Inv'
<1>1. Only(p)
    BY LoadOnly
<1>2. Writes(p) /\ StackInv'
    BY <1>1, QuietStep DEF Load, disk, locks
<1>3. /\ tables'[p] = tables[p] /\ ret'[p] = ret[p] /\ list' = list /\ pc[p] = "load"
      /\ UNCHANGED <<locks, range, txn>>
    BY DEF Load, disk
<1>4. \/ pc'[p] = "open" /\ names'[p] = list
      \/ pc'[p] = ret[p] /\ names'[p] = names[p] /\ tries[p] = Attempts
    BY InvParts DEF Load, Goto, PlacesOK, HandlesOK
<1>5. HandleOK(p)'
    <2>1. CASE pc'[p] = "open" /\ names'[p] = list
        <3>1. SoundIn(data', Unlisted', tables[p]) /\ SoundIn(data', Unlisted', list)
            BY <1>1, <1>2, InvParts, StacksStay DEF HandleOK, StackInv, Sound
        <3> QED
            BY <1>3, <2>1, <3>1 DEF HandleOK, Sound
    <2>2. CASE pc'[p] = ret[p] /\ names'[p] = names[p]
        BY <1>1, <1>2, <1>3, <2>2, Kinds, LoadingPlaces, HandleStays DEF Loading
    <2> QED
        BY <1>4, <2>1, <2>2
<1>6. ASSUME p \in Procs PROVE ListLockOK(p)' /\ TableLocksOK(p)' /\ WrittenOK(p)'
    <2>1. ret[p] \in {"check", "auto", "unlink"}
        BY <1>3, <1>6, LoadingPlaces DEF Loading
    <2>2. ret[p] = "check" => llock = p /\ tries[p] = 0
        BY <1>3, <1>6, InvParts DEF ListLockOK, Loading
    <2>3. ret[p] = "check" => pc'[p] = "open" /\ names'[p] = list
        BY <1>4, <2>2, InputAssumption
    <2>4. ListLockOK(p)'
        BY <1>3, <1>4, <2>1, <2>2, <2>3 DEF ListLockOK, Loading, locks
    <2> QED
        BY <1>1, <1>2, <1>3, <1>4, <1>6, <2>4, LoadingMine DEF Loading
<1> QED
    BY <1>1, <1>2, <1>5, <1>6, StepKeeps DEF Mine

LEMMA OpenTableInv ==
    ASSUME Inv, NEW p \in Users, OpenTable(p), Observe PROVE Inv'
<1>1. Only(p)
    BY OpenTableOnly
<1>2. Writes(p) /\ StackInv'
    BY <1>1, QuietStep DEF OpenTable, disk, locks
<1>3. /\ UNCHANGED <<tables, names, ret, tries, list, locks, range, txn>> /\ pc[p] = "open"
    BY DEF OpenTable, disk
<1>4. Min(ToOpen(p)) \in 1..Len(names[p])
    <2>1. opened[p] \in Nat /\ Len(names[p]) \in Nat
        BY InvParts DEF HandlesOK
    <2>2. ToOpen(p) \subseteq Nat /\ ToOpen(p) \subseteq 1..Len(names[p]) /\ ToOpen(p) # {}
        BY <2>1 DEF ToOpen, OpenTable
    <2>3. Min(ToOpen(p)) \in ToOpen(p)
        BY <2>2, MinProperties
    <2> QED
        BY <2>2, <2>3
<1>5. \/ pc'[p] = "open"
      \/ pc'[p] = "missing" /\ names[p][Min(ToOpen(p))] \notin files
    BY <1>3, InvParts DEF OpenTable, Goto, PlacesOK
<1>6. pc'[p] = "missing" => names[p][Min(ToOpen(p))] \notin Range(list)
    BY <1>5, InvParts DEF StackInv
<1>7. HandleOK(p)'
    <2>1. SoundIn(data', Unlisted', tables[p]) /\ SoundIn(data', Unlisted', names[p])
        BY <1>1, <1>2, InvParts, StacksStay DEF HandleOK, Sound
    <2> QED
        BY <1>3, <1>4, <1>6, <2>1, InvParts DEF HandleOK, Sound
<1>8. ASSUME p \in Procs PROVE ListLockOK(p)' /\ TableLocksOK(p)' /\ WrittenOK(p)'
    <2>1. ret[p] = "check" => llock = p /\ names[p] = list
        BY <1>3, <1>8, InvParts DEF ListLockOK, Loading
    <2>2. ret[p] = "check" => pc'[p] = "open"
        <3>1. list \in Seq(Tables)
            BY InvParts DEF DiskOK
        <3> QED
            BY <1>4, <1>5, <1>6, <2>1, <3>1, RangeMembers
    <2>3. ListLockOK(p)'
        BY <1>3, <1>5, <2>1, <2>2 DEF ListLockOK, Loading, locks
    <2> QED
        BY <1>1, <1>2, <1>3, <1>5, <1>8, <2>3, LoadingMine DEF Loading
<1> QED
    BY <1>1, <1>2, <1>7, <1>8, StepKeeps DEF Mine

LEMMA SwitchTablesInv ==
    ASSUME Inv, NEW p \in Users, SwitchTables(p), Observe PROVE Inv'
<1>1. Only(p)
    BY SwitchTablesOnly
<1>2. /\ tables'[p] = names[p] /\ names'[p] = <<>> /\ pc'[p] = ret[p] /\ pc[p] = "open"
      /\ UNCHANGED <<list, data, ret, tries, locks, range, txn>> /\ files' = files \ Obsolete(p)
    BY InvParts DEF SwitchTables, Goto, PlacesOK, HandlesOK
<1>3. tables[p] \in Seq(Tables) /\ names[p] \in Seq(Tables) /\ list \in Seq(Tables)
    BY InvParts DEF HandlesOK, DiskOK
<1>4. \A id \in Obsolete(p) : id \notin Range(list) /\ id \notin Unlisted
    <2> SUFFICES ASSUME NEW id \in Obsolete(p) PROVE id \notin Range(list) /\ id \notin Unlisted
        OBVIOUS
    <2>1. PICK i \in 1..Len(tables[p]) : id = tables[p][i]
        BY <1>3, RangeMembers DEF Obsolete
    <2>2. id \notin Range(names[p])
        BY DEF Obsolete
    <2> QED
        BY <1>2, <2>1, <2>2, InvParts DEF HandleOK, Sound, SoundIn
<1>5. Writes(p)
    BY <1>2, <1>4, InvParts DEF Writes, DiskOK
<1>6. StackInv'
    <2>1. Range(list) \subseteq files'
        BY <1>2, <1>4, InvParts DEF StackInv
    <2> QED
        BY <1>1, <1>2, <1>5, <2>1, InvParts, StackStays DEF StackInv, locks
<1>7. HandleOK(p)'
    <2>1. SoundIn(data', Unlisted', names[p])
        BY <1>1, <1>5, InvParts, StacksStay DEF HandleOK, Sound
    <2>2. pc'[p] \notin {"open", "missing"}
        BY <1>2, Kinds, LoadingPlaces DEF Loading
    <2>3. SoundIn(data', Unlisted', <<>>)
        BY DEF SoundIn
    <2> QED
        BY <1>2, <2>1, <2>2, <2>3 DEF HandleOK, Sound
<1>8. ASSUME p \in Procs PROVE ListLockOK(p)' /\ TableLocksOK(p)' /\ WrittenOK(p)'
    <2>1. ret[p] = "check" => llock = p /\ names[p] = list
        BY <1>2, <1>8, InvParts DEF ListLockOK, Loading
    <2>2. ret[p] \in {"check", "auto", "unlink"}
        BY <1>2, <1>8, LoadingPlaces DEF Loading
    <2>3. ListLockOK(p)'
        BY <1>2, <2>1, <2>2 DEF ListLockOK, Loading, locks
    <2> QED
        BY <1>1, <1>2, <1>5, <1>8, <2>3, LoadingMine DEF Loading
<1> QED
    BY <1>1, <1>5, <1>6, <1>7, <1>8, StepKeeps DEF Mine

LEMMA TableMissingInv ==
    ASSUME Inv, NEW p \in Users, TableMissing(p), Observe PROVE Inv'
<1>1. Only(p) /\ pc'[p] = "load"
    BY TableMissingOnly
<1>2. Writes(p) /\ StackInv'
    BY <1>1, QuietStep DEF TableMissing, disk, locks
<1>3. UNCHANGED <<tables, names, ret, tries, list, locks, range, txn>> /\ pc[p] = "missing"
    BY DEF TableMissing, disk, loading
<1>4. HandleOK(p)'
    BY <1>1, <1>2, <1>3, HandleStays
<1>5. ASSUME p \in Procs PROVE ListLockOK(p)' /\ TableLocksOK(p)' /\ WrittenOK(p)'
    <2>1. ret[p] # "check"
        BY <1>3, <1>5, InvParts DEF ListLockOK, Loading
    <2>2. ListLockOK(p)'
        BY <1>1, <1>3, <2>1 DEF ListLockOK
    <2> QED
        BY <1>1, <1>2, <1>3, <1>5, <2>2, LoadingMine DEF Loading
<1> QED
    BY <1>1, <1>2, <1>4, <1>5, StepKeeps DEF Mine

-----------------------------------------------------------------------------
(* Transactions. *)

LEMMA BeginInv ==
    ASSUME Inv, NEW p \in Txns, Begin(p), Observe PROVE Inv'
<1>1. Only(p) /\ p \in Users /\ p \in Procs
    BY BeginOnly, Kinds
<1>2. Writes(p) /\ StackInv'
    BY <1>1, QuietStep DEF Begin, disk, locks
<1>3. /\ UNCHANGED <<tables, names, ret, committed, tlock>>
      /\ pc[p] = "idle" /\ pc'[p] = "start"
    BY <1>1, InvParts DEF Begin, MayStart, loading, locks, txn, Goto, PlacesOK
<1>4. HandleOK(p)'
    BY <1>1, <1>2, <1>3, HandleStays
<1>5. ListLockOK(p)' /\ TableLocksOK(p)' /\ WrittenOK(p)'
    <2>1. Locked(p)' = {} /\ ~committed'[p]
        BY <1>1, <1>3, InvParts DEF TableLocksOK, WrittenOK, At, BeforeCommit, Locked
    <2> QED
        BY <1>3, <2>1 DEF ListLockOK, TableLocksOK, WrittenOK, At, Loading, BeforeCommit, Choosing,
           Compacting, Replacing
<1> QED
    BY <1>1, <1>2, <1>4, <1>5, StepKeeps DEF Mine

LEMMA LockStackInv ==
    ASSUME Inv, NEW p \in Txns, LockStack(p), Observe PROVE Inv'
<1>1. Only(p) /\ p \in Users /\ p \in Procs
    BY LockStackOnly, Kinds
<1>2. Writes(p) /\ StackInv'
    BY <1>1, QuietStep DEF LockStack, disk
<1>3. /\ UNCHANGED <<tables, names, committed, tlock, list>> /\ llock' = p /\ pc[p] = "start"
      /\ \/ pc'[p] = "check" /\ tables[p] = list
         \/ pc'[p] = "load" /\ ret'[p] = "check" /\ tries'[p] = 0
    BY <1>1, InvParts DEF LockStack, ReloadIfStale, Reload, Uptodate, disk, loading, txn, Goto,
       PlacesOK, HandlesOK
<1>4. HandleOK(p)'
    BY <1>1, <1>2, <1>3, HandleStays
<1>5. ListLockOK(p)' /\ TableLocksOK(p)' /\ WrittenOK(p)'
    <2>1. Locked(p)' = {} /\ ~committed'[p]
        BY <1>1, <1>3, InvParts DEF TableLocksOK, WrittenOK, At, BeforeCommit, Locked
    <2> QED
        BY <1>3, <2>1 DEF ListLockOK, TableLocksOK, WrittenOK, At, Loading, BeforeCommit, Choosing,
           Compacting, Replacing
<1> QED
    BY <1>1, <1>2, <1>4, <1>5, StepKeeps DEF Mine

LEMMA LockTimeoutInv ==
    ASSUME Inv, NEW p \in Procs, LockTimeout(p), Observe PROVE Inv'
<1>1. Only(p) /\ p \in Users
    BY LockTimeoutOnly, Kinds
<1>2. UNCHANGED <<list, files, data, tlock, tables, names>> /\ pc'[p] \in Resting
    BY <1>1, InvParts DEF LockTimeout, CompactFailed, disk, locks, loading, Goto, PlacesOK, Resting
<1> QED
    BY <1>1, <1>2, QuietEnds

LEMMA PrepareUpdatesInv ==
    ASSUME Inv, NEW p \in Txns, PrepareUpdates(p), Observe PROVE Inv'
<1>1. Only(p) /\ p \in Users /\ p \in Procs
    BY PrepareUpdatesOnly, Kinds
<1>2. /\ UNCHANGED <<list, files, data, tlock, llock, tables, names, committed>>
      /\ pc[p] = "check" /\ pc'[p] \in {"write", "undo"}
    BY <1>1, InvParts DEF PrepareUpdates, disk, locks, loading, Goto, PlacesOK
<1>3. CASE pc'[p] = "undo"
    BY <1>1, <1>2, <1>3, QuietEnds DEF Resting
<1>4. CASE pc'[p] = "write"
    <2>1. Writes(p) /\ StackInv'
        BY <1>1, <1>2, QuietStep
    <2>2. HandleOK(p)'
        BY <1>1, <1>2, <1>4, <2>1, HandleStays
    <2>3. Locked(p)' = {} /\ ~committed'[p] /\ llock' = p /\ tables'[p] = list'
        BY <1>1, <1>2, InvParts DEF TableLocksOK, WrittenOK, ListLockOK, At, BeforeCommit, Locked
    <2>4. ListLockOK(p)' /\ TableLocksOK(p)' /\ WrittenOK(p)'
        BY <1>4, <2>3 DEF ListLockOK, TableLocksOK, WrittenOK, At, Loading, BeforeCommit, Choosing,
           Compacting, Replacing
    <2> QED
        BY <1>1, <2>1, <2>2, <2>4, StepKeeps DEF Mine
<1> QED
    BY <1>2, <1>3, <1>4

LEMMA AbortInv ==
    ASSUME Inv, NEW p \in Txns, Abort(p), Observe PROVE Inv'
<1>1. Only(p) /\ p \in Users
    BY AbortOnly, Kinds
<1>2. UNCHANGED <<list, files, data, tlock, tables, names>> /\ pc'[p] \in Resting
    BY <1>1, InvParts DEF Abort, disk, locks, loading, Goto, PlacesOK, Resting
<1> QED
    BY <1>1, <1>2, QuietEnds

(* A new table is written under a name that no list has.                     *)
LEMMA AddTableInv ==
    ASSUME Inv, NEW p \in Txns, AddTable(p), Observe PROVE Inv'
<1>1. Only(p) /\ p \in Users /\ p \in Procs
    BY AddTableOnly, Kinds
<1>2. UNCHANGED <<list, tlock, llock, tables, names, want, refused>> /\ pc[p] = "write"
    BY DEF AddTable, locks, loading, request
<1>3. CASE UNCHANGED <<files, data>> /\ pc'[p] \in Resting
    BY <1>1, <1>2, <1>3, QuietEnds
<1>4. CASE /\ Goto(p, "commit") /\ UNCHANGED committed
           /\ files' = files \cup {Added(p)}
           /\ data' = [data EXCEPT ![Added(p)] =
                [max  |-> NextUpdateIndex(tables[p]),
                 recs |-> [r \in Refs |-> IF r \in Queued(p) THEN want[p][r] ELSE Absent]]]
    <2> DEFINE rec == [max  |-> NextUpdateIndex(tables[p]),
                       recs |-> [r \in Refs |-> IF r \in Queued(p) THEN want[p][r] ELSE Absent]]
    <2>1. /\ llock = p /\ tables[p] = list /\ Locked(p) = {} /\ ~committed[p]
          /\ Sound(tables[p]) /\ tables[p] \in Seq(Tables)
        BY <1>1, <1>2, InvParts DEF ListLockOK, TableLocksOK, WrittenOK, HandleOK, HandlesOK, At,
           BeforeCommit
    <2>2. Added(p) \in Unlisted /\ Added(p) \in Tables
        BY <2>1, TableNames DEF Unlisted
    <2>3. rec \in Content
        <3>1. NextUpdateIndex(tables[p]) \in Nat
            BY <2>1, InvParts, SoundTypes DEF NextUpdateIndex
        <3>2. \A r \in Queued(p) : want[p][r] \in Value0
            BY InvParts DEF TxnsOK, Queued
        <3> QED
            BY <3>1, <3>2 DEF Content
    <2>4. data'[Added(p)] = rec /\ \A id \in Tables \ {Added(p)} : data'[id] = data[id]
        BY <1>4, <2>2, InvParts DEF DiskOK
    <2>5. DiskOK'
        <3>1. data' \in [Tables -> Content \cup {NoTable}]
            BY <1>4, <2>3, InvParts DEF DiskOK
        <3> QED
            BY <1>2, <1>4, <2>2, <2>3, <2>4, <3>1, Kinds, InvParts DEF DiskOK
    <2>6. Writes(p)
        BY <1>2, <1>4, <2>2, <2>4, <2>5 DEF Writes
    <2>7. StackInv'
        BY <1>1, <1>2, <1>4, <2>6, InvParts, StackStays DEF StackInv
    <2>8. pc'[p] = "commit"
        BY <1>1, <1>4, InvParts DEF Goto, PlacesOK
    <2>9. HandleOK(p)'
        BY <1>1, <1>2, <2>6, <2>8, HandleStays
    <2>10. Queued(p)' = Queued(p) /\ NextUpdateIndex(tables[p])' = NextUpdateIndex(tables[p])
        <3>1. /\ ViewIn(data', tables[p]) = ViewIn(data, tables[p])
              /\ \A i \in 1..Len(tables[p]) : data'[tables[p][i]] = data[tables[p][i]]
            BY <1>1, <2>1, <2>6, StacksStay DEF Sound
        <3>2. View(tables[p])' = View(tables[p])
            <4>1. View(tables[p])' = ViewIn(data', tables'[p])
                BY DEF View, ViewIn, Newest, NewestIn, Holding
            <4> QED
                BY <1>2, <3>1, <4>1, ViewIs
        <3>3. tables[p] # <<>> => Len(tables[p]) \in 1..Len(tables[p])
            BY <2>1
        <3> QED
            BY <1>2, <3>1, <3>2, <3>3 DEF Queued, NextUpdateIndex
    <2>11. WrittenOK(p)'
        BY <1>2, <1>4, <2>1, <2>4, <2>8, <2>10 DEF WrittenOK
    <2>12. ListLockOK(p)' /\ TableLocksOK(p)'
        <3>1. Locked(p)' = {}
            BY <1>2, <2>1 DEF Locked
        <3> QED
            BY <1>2, <2>1, <2>8, <3>1 DEF ListLockOK, TableLocksOK, At, Loading, BeforeCommit,
               Choosing, Compacting, Replacing
    <2> QED
        BY <1>1, <2>6, <2>7, <2>9, <2>11, <2>12, StepKeeps DEF Mine
<1> QED
    BY <1>1, <1>3, <1>4, InvParts DEF AddTable, Goto, PlacesOK, Resting

LEMMA AppendSound ==
    ASSUME NEW d, NEW U, NEW s, SoundIn(d, U, s), NEW id \in Tables \ U, d[id] # NoTable,
           \A i \in 1..Len(s) : d[s[i]].max < d[id].max
    PROVE  /\ SoundIn(d, U, Append(s, id))
           /\ \A i \in 1..Len(Append(s, id)) : Append(s, id)[i] = id \/ \E j \in 1..Len(s) : Append(s, id)[i] = s[j]
<1> DEFINE t == Append(s, id)
<1>1. s \in Seq(Tables) /\ Len(s) \in Nat
    BY DEF SoundIn
<1>2. /\ t \in Seq(Tables) /\ Len(t) = Len(s) + 1 /\ t[Len(t)] = id
      /\ \A i \in 1..Len(s) : t[i] = s[i]
    BY <1>1
<1> HIDE DEF t
<1>3. \A i \in 1..Len(t) : i \in 1..Len(s) \/ i = Len(t)
    BY <1>1, <1>2
<1>4. \A i \in 1..Len(t) : t[i] \notin U /\ d[t[i]] # NoTable
    BY <1>2, <1>3 DEF SoundIn
<1>5. ASSUME NEW i \in 1..Len(t), NEW j \in 1..Len(t), i < j
      PROVE  d[t[i]].max < d[t[j]].max
    <2>1. i \in 1..Len(s)
        BY <1>1, <1>2, <1>5
    <2>2. CASE j \in 1..Len(s)
        BY <1>2, <1>5, <2>1, <2>2 DEF SoundIn
    <2>3. CASE j = Len(t)
        BY <1>2, <2>1, <2>3
    <2> QED
        BY <1>3, <2>2, <2>3
<1>6. SoundIn(d, U, t)
    BY <1>2, <1>4, <1>5 DEF SoundIn
<1>7. \A i \in 1..Len(t) : t[i] = id \/ \E j \in 1..Len(s) : t[i] = s[j]
    BY <1>2, <1>3
<1> QED
    BY <1>6, <1>7 DEF t

(* The new table is newer than those of the list, which nobody has changed.  *)
LEMMA CommitAdditionInv ==
    ASSUME Inv, NEW p \in Txns, CommitAddition(p), Observe PROVE Inv'
<1>1. Only(p) /\ p \in Users /\ p \in Procs
    BY CommitAdditionOnly, Kinds
<1>2. UNCHANGED <<files, data, tlock, tables>> /\ pc[p] = "commit"
    BY DEF CommitAddition
<1>3. CASE Goto(p, "undo") /\ UNCHANGED <<list, loading>>
    <2>1. pc'[p] \in Resting
        BY <1>1, <1>3, InvParts DEF Goto, PlacesOK, Resting
    <2> QED
        BY <1>1, <1>2, <1>3, <2>1, QuietEnds DEF loading
<1>4. CASE /\ list' = Append(tables[p], Added(p)) /\ Reload(p, "auto")
           /\ committed' = [committed EXCEPT ![p] = TRUE]
    <2>1. /\ llock = p /\ tables[p] = list /\ Locked(p) = {} /\ ~committed[p]
          /\ Sound(list) /\ list \in Seq(Tables) /\ Range(list) \subseteq files
        BY <1>1, <1>2, InvParts DEF ListLockOK, TableLocksOK, WrittenOK, StackInv, DiskOK, At,
           BeforeCommit
    <2>14. Added(p) \in files /\ data[Added(p)].max = NextUpdateIndex(list)
        <3>1. /\ Added(p) \in files
              /\ data[Added(p)] = [max  |-> NextUpdateIndex(tables[p]),
                                  recs |-> [r \in Refs |->
                                     IF r \in Queued(p) THEN want[p][r] ELSE Absent]]
            BY <1>1, <1>2, InvParts DEF WrittenOK
        <3> QED
            BY <2>1, <3>1
    <2>2. Added(p) \in Unlisted /\ Added(p) \in Tables
        BY <2>1, TableNames DEF Unlisted
    <2>3. Added(p) \notin Unlisted'
        <3>1. committed'[p]
            BY <1>4, InvParts DEF TxnsOK
        <3> QED
            BY <3>1, TableNames DEF Unlisted
    <2>4. \A i \in 1..Len(list) : data[list[i]].max < data[Added(p)].max
        <3> SUFFICES ASSUME NEW i \in 1..Len(list) PROVE data[list[i]].max < NextUpdateIndex(list)
            BY <2>14
        <3>1. /\ Len(list) \in 1..Len(list) /\ list # <<>>
              /\ data[list[i]].max \in Nat /\ data[list[Len(list)]].max \in Nat
            BY <2>1, InvParts, SoundTypes
        <3>2. data[list[i]].max <= data[list[Len(list)]].max
            <4>1. i = Len(list) \/ i < Len(list)
                BY <2>1
            <4> QED
                BY <2>1, <3>1, <4>1 DEF Sound, SoundIn
        <3> QED
            BY <3>1, <3>2 DEF NextUpdateIndex
    <2>5. SoundIn(data, Unlisted', list)
        BY <1>1, <2>1, UnlistedShrinks, SoundStays DEF Sound
    <2>6. /\ SoundIn(data, Unlisted', list')
          /\ \A i \in 1..Len(list') : list'[i] = Added(p) \/ \E j \in 1..Len(list) : list'[i] = list[j]
        BY <1>4, <2>1, <2>2, <2>3, <2>4, <2>5, <2>14, InvParts, AppendSound DEF DiskOK
    <2>7. DiskOK'
        BY <1>2, <2>6, InvParts DEF DiskOK, SoundIn
    <2>8. \A i \in 1..Len(list') : list'[i] \in Range(list) \cup {Added(p)}
        BY <2>1, <2>6, RangeMembers
    <2>9. Writes(p)
        BY <1>2, <2>1, <2>2, <2>7, <2>8 DEF Writes
    <2>10. StackInv'
        <3>1. Range(list') \subseteq files
            <4>1. list' \in Seq(Tables)
                BY <2>7 DEF DiskOK
            <4> QED
                BY <2>1, <2>8, <2>14, <4>1, RangeMembers
        <3> QED
            BY <1>1, <1>2, <2>6, <3>1, InvParts, UnlistedShrinks DEF StackInv, Sound
    <2>11. names'[p] = names[p] /\ pc'[p] = "load" /\ ret'[p] = "auto" /\ Locked(p)' = {}
        BY <1>1, <1>2, <1>4, <2>1, InvParts DEF Reload, Goto, PlacesOK, Locked
    <2>12. HandleOK(p)'
        BY <1>1, <1>2, <2>9, <2>11, HandleStays
    <2>13. ListLockOK(p)' /\ TableLocksOK(p)' /\ WrittenOK(p)'
        BY <2>11 DEF ListLockOK, TableLocksOK, WrittenOK, At, Loading, BeforeCommit, Choosing,
           Compacting, Replacing
    <2> QED
        BY <1>1, <2>9, <2>10, <2>12, <2>13, StepKeeps DEF Mine
<1> QED
    BY <1>3, <1>4 DEF CommitAddition

-----------------------------------------------------------------------------
(* Compaction. *)

LEMMA ChosenInv ==
    ASSUME Inv, NEW p \in Procs, Only(p), Chosen(p), UNCHANGED <<disk, locks, tables, names>>,
           At(p, BeforeCommit \cup Choosing), Observe
    PROVE  Inv'
<1>1. p \in Users /\ UNCHANGED <<list, files, data, tlock, tables, names>>
    BY Kinds DEF disk, locks
<1>2. CASE pc'[p] \in Resting
    BY <1>1, <1>2, QuietEnds
<1>3. CASE \E i, j \in 1..Len(tables[p]) :
             /\ i < j /\ pc'[p] = "lock"
             /\ first' = [first EXCEPT ![p] = i] /\ last' = [last EXCEPT ![p] = j]
    <2>1. Writes(p) /\ StackInv'
        BY <1>1, QuietStep
    <2>2. HandleOK(p)'
        BY <1>1, <1>3, <2>1, HandleStays
    <2>3. Locked(p)' = {} /\ pc'[p] = "lock"
        BY <1>1, <1>3, InvParts DEF TableLocksOK, Locked
    <2>4. first'[p] \in 1..last'[p] /\ last'[p] \in 1..Len(tables'[p])
        <3>1. Len(tables[p]) \in Nat
            BY <1>1, InvParts DEF HandlesOK
        <3> QED
            BY <1>1, <1>3, <3>1, InvParts DEF RangesOK
    <2>5. ListLockOK(p)' /\ TableLocksOK(p)' /\ WrittenOK(p)'
        BY <2>3, <2>4 DEF ListLockOK, TableLocksOK, WrittenOK, At, Loading, BeforeCommit, Choosing,
           Compacting, Replacing
    <2> QED
        BY <1>1, <2>1, <2>2, <2>5, StepKeeps DEF Mine
<1> QED
    BY <1>2, <1>3 DEF Chosen

LEMMA AutoCompactInv ==
    ASSUME Inv, NEW p \in Txns, AutoCompact(p), Observe PROVE Inv'
BY AutoCompactOnly, ChosenInv, Kinds DEF AutoCompact, loading, At, Choosing

LEMMA OptimizeInv ==
    ASSUME Inv, NEW p \in Optimizers, Optimize(p), Observe PROVE Inv'
BY OptimizeOnly, ChosenInv, Kinds DEF Optimize, MayStart, loading, At, BeforeCommit

LEMMA CompactLockInv ==
    ASSUME Inv, NEW p \in Procs, CompactLock(p), Observe PROVE Inv'
<1>1. Only(p) /\ p \in Users
    BY CompactLockOnly, Kinds
<1>2. UNCHANGED <<list, files, data, tlock, tables, names, range>> /\ pc[p] = "lock" /\ llock' = p
    BY DEF CompactLock, disk, loading
<1>3. CASE pc'[p] \in Resting
    BY <1>1, <1>2, <1>3, QuietEnds
<1>4. CASE pc'[p] = "locktables" /\ tables[p] = list
    <2>1. Writes(p) /\ StackInv'
        BY <1>1, <1>2, QuietStep
    <2>2. HandleOK(p)'
        BY <1>1, <1>2, <1>4, <2>1, HandleStays
    <2>3. Locked(p)' = {}
        BY <1>2, InvParts DEF TableLocksOK, Locked, At, Choosing
    <2>4. first'[p] \in 1..last'[p] /\ last'[p] \in 1..Len(tables'[p])
        BY <1>2, InvParts DEF TableLocksOK, range
    <2>5. \E n \in 0..(last'[p] - first'[p] + 1) :
            /\ IsFiniteSet(Locked(p)') /\ Cardinality(Locked(p)') = n
            /\ Locked(p)' = {tables'[p][i] : i \in (last'[p] - n + 1)..last'[p]}
        <3>1. 0 \in 0..(last'[p] - first'[p] + 1) /\ (last'[p] - 0 + 1)..last'[p] = {}
            BY <2>4, InvParts DEF Only, OnlyRange, RangesOK
        <3>2. IsFiniteSet(Locked(p)') /\ Cardinality(Locked(p)') = 0
            BY <2>3, FS_EmptySet
        <3>3. Locked(p)' = {tables'[p][i] : i \in (last'[p] - 0 + 1)..last'[p]}
            BY <2>3, <3>1
        <3> QED
            BY <3>1, <3>2, <3>3
    <2>6. TableLocksOK(p)'
        BY <1>4, <2>3, <2>4, <2>5 DEF TableLocksOK, At, Loading, BeforeCommit, Choosing, Compacting,
           Replacing
    <2>7. ListLockOK(p)' /\ WrittenOK(p)'
        BY <1>2, <1>4 DEF ListLockOK, WrittenOK, At, Loading, BeforeCommit
    <2> QED
        BY <1>1, <2>1, <2>2, <2>6, <2>7, StepKeeps DEF Mine
<1> QED
    BY <1>1, <1>3, <1>4, InvParts DEF CompactLock, CompactFailed, Uptodate, Goto, PlacesOK, Resting

(* The tables are locked one by one, from the last to the first.             *)
LEMMA LockTableInv ==
    ASSUME Inv, NEW p \in Procs, LockTable(p), Observe PROVE Inv'
<1>1. Only(p) /\ p \in Users
    BY LockTableOnly, Kinds
<1>2. /\ UNCHANGED <<list, files, data, llock, tables, names, last>> /\ pc[p] = "locktables"
      /\ llock = p /\ tables[p] = list
    BY InvParts DEF LockTable, disk, loading, ListLockOK
<1>3. PICK n \in 0..(last[p] - first[p] + 1) :
            /\ IsFiniteSet(Locked(p)) /\ Cardinality(Locked(p)) = n
            /\ Locked(p) = {tables[p][i] : i \in (last[p] - n + 1)..last[p]}
    BY <1>2, InvParts DEF TableLocksOK
<1>4. /\ first[p] \in 1..last[p] /\ last[p] \in 1..Len(tables[p]) /\ Len(tables[p]) \in Nat
      /\ first[p] \in Nat /\ last[p] \in Nat /\ n \in Nat
    BY <1>1, <1>2, <1>3, InvParts DEF TableLocksOK, Compacting, HandlesOK, RangesOK
<1> DEFINE i == last[p] - n
           id == tables[p][i]
<1>5. CASE pc'[p] \in Resting /\ UNCHANGED tlock
    BY <1>1, <1>2, <1>5, QuietEnds
<1>6. ASSUME UNCHANGED tlock, pc'[p] = "merge", first'[p] = last[p] - n + 1, n > 0 PROVE Inv'
    <2>1. Writes(p) /\ StackInv'
        BY <1>1, <1>2, <1>6, QuietStep
    <2>2. HandleOK(p)'
        BY <1>1, <1>2, <1>6, <2>1, HandleStays
    <2>3. Locked(p)' = Locked(p)
        BY <1>6 DEF Locked
    <2>4. first'[p] \in 1..last'[p] /\ last'[p] \in 1..Len(tables'[p])
        BY <1>2, <1>3, <1>4, <1>6
    <2>5. Locked(p)' = {tables'[p][j] : j \in first'[p]..last'[p]}
        BY <1>2, <1>3, <1>6, <2>3
    <2>6. TableLocksOK(p)'
        BY <1>6, <2>4, <2>5 DEF TableLocksOK, At, Loading, BeforeCommit, Choosing, Compacting
    <2>7. ListLockOK(p)' /\ WrittenOK(p)'
        BY <1>2, <1>6 DEF ListLockOK, WrittenOK, At, Loading, BeforeCommit
    <2> QED
        BY <1>1, <2>1, <2>2, <2>6, <2>7, StepKeeps DEF Mine
<1>7. CASE i < first[p] /\ Goto(p, "merge") /\ UNCHANGED <<tlock, first>>
    <2>1. pc'[p] = "merge" /\ first'[p] = last[p] - n + 1 /\ n > 0
        BY <1>1, <1>3, <1>4, <1>7, InvParts DEF Goto, PlacesOK
    <2> QED
        BY <1>6, <1>7, <2>1
<1>8. CASE i >= first[p] /\ last[p] - i >= 2 /\ first' = [first EXCEPT ![p] = i + 1]
           /\ Goto(p, "merge") /\ UNCHANGED tlock
    <2>1. pc'[p] = "merge" /\ first'[p] = last[p] - n + 1 /\ n > 0
        BY <1>1, <1>4, <1>8, InvParts DEF Goto, PlacesOK, RangesOK
    <2> QED
        BY <1>6, <1>8, <2>1
<1>9. CASE i >= first[p] /\ tlock[id] = Free /\ tlock' = [tlock EXCEPT ![id] = p]
           /\ UNCHANGED <<pc, first>>
    <2>1. i \in 1..Len(tables[p]) /\ i \in Nat /\ n + 1 \in 0..(last[p] - first[p] + 1)
        BY <1>4, <1>9
    <2>2. id \in Tables /\ id \notin Unlisted
        BY <1>1, <2>1, InvParts DEF HandleOK, Sound, SoundIn
    <2>3. Locked(p)' = Locked(p) \cup {id} /\ id \notin Locked(p)
        BY <1>9, <2>2, Kinds, InvParts DEF Locked, LocksOK
    <2>4. IsFiniteSet(Locked(p)') /\ Cardinality(Locked(p)') = n + 1
        <3> HIDE DEF id
        <3>1. /\ IsFiniteSet(Locked(p) \cup {id})
              /\ Cardinality(Locked(p) \cup {id}) = Cardinality(Locked(p)) + 1
            BY <1>3, <2>3, FS_AddElement
        <3> QED
            BY <1>3, <2>3, <3>1
    <2>5. Locked(p)' = {tables[p][j] : j \in (last[p] - (n + 1) + 1)..last[p]}
        <3>1. \A j : j \in (last[p] - (n + 1) + 1)..last[p] <=> j = i \/ j \in (last[p] - n + 1)..last[p]
            BY <1>4, <2>1
        <3> HIDE DEF i
        <3> QED
            BY <1>3, <2>3, <3>1
    <2>6. Writes(p)
        BY <1>2, InvParts DEF Writes, DiskOK
    <2>7. StackInv'
        <3>1. \A x \in Unlisted : tlock'[x] = Free
            BY <1>9, <2>2, InvParts DEF StackInv, LocksOK
        <3> QED
            BY <1>1, <1>2, <2>6, <3>1, InvParts, StackStays DEF StackInv
    <2>8. HandleOK(p)'
        BY <1>1, <1>2, <1>9, <2>6, HandleStays
    <2>9. TableLocksOK(p)'
        <3>1. pc'[p] = "locktables" /\ first'[p] = first[p] /\ last'[p] = last[p] /\ tables'[p] = tables[p]
            BY <1>2, <1>9
        <3>2. \E m \in 0..(last'[p] - first'[p] + 1) :
                /\ IsFiniteSet(Locked(p)') /\ Cardinality(Locked(p)') = m
                /\ Locked(p)' = {tables'[p][j] : j \in (last'[p] - m + 1)..last'[p]}
            BY <2>1, <2>4, <2>5, <3>1
        <3> QED
            BY <1>4, <3>1, <3>2 DEF TableLocksOK, At, Loading, BeforeCommit, Choosing, Compacting,
               Replacing
    <2>10. ListLockOK(p)' /\ WrittenOK(p)'
        BY <1>2, <1>9 DEF ListLockOK, WrittenOK, At, Loading, BeforeCommit
    <2> QED
        BY <1>1, <2>6, <2>7, <2>8, <2>9, <2>10, StepKeeps DEF Mine
<1>10. \/ i < first[p] /\ Goto(p, "merge") /\ UNCHANGED <<tlock, first>>
       \/ i >= first[p] /\ tlock[id] = Free /\ tlock' = [tlock EXCEPT ![id] = p]
            /\ UNCHANGED <<pc, first>>
       \/ i >= first[p] /\ last[p] - i >= 2 /\ first' = [first EXCEPT ![p] = i + 1]
            /\ Goto(p, "merge") /\ UNCHANGED tlock
       \/ (Goto(p, CompactFailed(p)) \/ Goto(p, "undo")) /\ UNCHANGED tlock
    BY <1>3 DEF LockTable
<1>11. Goto(p, CompactFailed(p)) \/ Goto(p, "undo") => pc'[p] \in Resting
    BY <1>1, InvParts DEF CompactFailed, Goto, PlacesOK, Resting
<1> QED
    BY <1>5, <1>7, <1>8, <1>9, <1>10, <1>11

LEMMA MergeTablesInv ==
    ASSUME Inv, NEW p \in Procs, MergeTables(p), Observe PROVE Inv'
<1>1. Only(p) /\ p \in Users
    BY MergeTablesOnly, Kinds
<1>2. /\ UNCHANGED <<list, files, data, tlock, tables, names, range>> /\ pc[p] = "merge"
      /\ pc'[p] \in {"relock", "undo"}
    BY <1>1, InvParts DEF MergeTables, disk, loading, Goto, PlacesOK
<1>3. CASE pc'[p] = "undo"
    BY <1>1, <1>2, <1>3, QuietEnds DEF Resting
<1>4. CASE pc'[p] = "relock"
    <2>1. Writes(p) /\ StackInv'
        BY <1>1, <1>2, QuietStep
    <2>2. HandleOK(p)'
        BY <1>1, <1>2, <1>4, <2>1, HandleStays
    <2>3. Locked(p)' = Locked(p) /\ first' = first /\ last' = last
        BY <1>2 DEF Locked, range
    <2>4. TableLocksOK(p)'
        BY <1>2, <1>4, <2>3, InvParts DEF TableLocksOK, At, Loading, BeforeCommit, Choosing,
           Compacting, Replacing
    <2>5. ListLockOK(p)' /\ WrittenOK(p)'
        BY <1>4 DEF ListLockOK, WrittenOK, At, Loading, BeforeCommit
    <2> QED
        BY <1>1, <2>1, <2>2, <2>4, <2>5, StepKeeps DEF Mine
<1> QED
    BY <1>2, <1>3, <1>4

LEMMA CompactRelockInv ==
    ASSUME Inv, NEW p \in Procs, CompactRelock(p), Observe PROVE Inv'
<1>1. Only(p) /\ p \in Users
    BY CompactRelockOnly, Kinds
<1>2. UNCHANGED <<list, files, data, tlock, tables, names, range>> /\ pc[p] = "relock" /\ llock' = p
    BY DEF CompactRelock, disk, loading
<1>3. CASE pc'[p] \in Resting
    BY <1>1, <1>2, <1>3, QuietEnds
<1>4. CASE pc'[p] = "install" /\ Offsets(p, list) # {}
    <2>1. Writes(p) /\ StackInv'
        BY <1>1, <1>2, QuietStep
    <2>2. HandleOK(p)'
        BY <1>1, <1>2, <1>4, <2>1, HandleStays
    <2>3. Locked(p)' = Locked(p) /\ first' = first /\ last' = last
        BY <1>2 DEF Locked, range
    <2>4. TableLocksOK(p)'
        BY <1>2, <1>4, <2>3, InvParts DEF TableLocksOK, At, Loading, BeforeCommit, Choosing,
           Compacting, Replacing
    <2>5. Offsets(p, list)' # {}
        BY <1>2, <1>4, <2>3 DEF Offsets, Merging
    <2>6. ListLockOK(p)' /\ WrittenOK(p)'
        BY <1>2, <1>4, <2>5 DEF ListLockOK, WrittenOK, At, Loading, BeforeCommit
    <2> QED
        BY <1>1, <2>1, <2>2, <2>4, <2>6, StepKeeps DEF Mine
<1> QED
    BY <1>1, <1>3, <1>4, InvParts DEF CompactRelock, CompactFailed, Goto, PlacesOK, Resting

LEMMA CompactedStays ==
    ASSUME Inv, NEW p \in Procs, Only(p), Writes(p), pc[p] \in Compacting,
           UNCHANGED <<tables, first, last>>
    PROVE  /\ Compacted(p)' = Compacted(p) /\ IsEmptyTable(p)' = IsEmptyTable(p)
           /\ data'[tables[p][last[p]]] = data[tables[p][last[p]]]
<1>1. p \in Users /\ SoundIn(data, Unlisted, Merging(p)) /\ SoundIn(data, Unlisted, tables[p])
    BY Kinds, MergingSound, InvParts DEF HandleOK, Sound
<1>2. Merging(p)' = Merging(p)
    BY DEF Merging
<1>3. \A r : NewestIn(data', Merging(p), r) = NewestIn(data, Merging(p), r)
    BY <1>1, StacksStay
<1>4. Compacted(p)' = Compacted(p)
    BY <1>2, <1>3, CompactedIs DEF CompactedIn
<1>5. data'[tables[p][last[p]]] = data[tables[p][last[p]]]
    <2>1. last[p] \in 1..Len(tables[p])
        BY InvParts DEF TableLocksOK
    <2> QED
        BY <1>1, <2>1, StacksStay
<1> QED
    BY <1>4, <1>5 DEF IsEmptyTable

LEMMA InstallTableInv ==
    ASSUME Inv, NEW p \in Procs, InstallTable(p), Observe PROVE Inv'
<1>1. Only(p) /\ p \in Users
    BY InstallTableOnly, Kinds
<1>2. /\ UNCHANGED <<list, tlock, llock, tables, names, first, last>> /\ pc[p] = "install"
      /\ llock = p /\ Offsets(p, list) # {}
    BY InvParts DEF InstallTable, locks, loading, range, ListLockOK
<1>3. CASE UNCHANGED <<files, data>> /\ pc'[p] \in Resting
    BY <1>1, <1>2, <1>3, QuietEnds
<1>4. ASSUME Goto(p, "replace"), Writes(p), Range(list) \subseteq files', WrittenOK(p)' PROVE Inv'
    <2>1. pc'[p] = "replace"
        BY <1>1, <1>4, InvParts DEF Goto, PlacesOK
    <2>2. StackInv'
        BY <1>1, <1>2, <1>4, InvParts, StackStays DEF StackInv
    <2>3. HandleOK(p)'
        BY <1>1, <1>2, <1>4, <2>1, HandleStays
    <2>4. Locked(p)' = Locked(p) /\ Offsets(p, list)' = Offsets(p, list)
        BY <1>2 DEF Locked, Offsets, Merging
    <2>5. ListLockOK(p)' /\ TableLocksOK(p)'
        BY <1>2, <2>1, <2>4, InvParts DEF ListLockOK, TableLocksOK, At, Loading, BeforeCommit,
           Choosing, Compacting, Replacing
    <2> QED
        BY <1>1, <1>4, <2>2, <2>3, <2>5, StepKeeps DEF Mine
<1>5. CASE IsEmptyTable(p) /\ Goto(p, "replace") /\ UNCHANGED <<files, data>>
    <2>1. Writes(p)
        BY <1>2, <1>5, InvParts DEF Writes, DiskOK
    <2>2. IsEmptyTable(p)' /\ pc'[p] = "replace"
        BY <1>1, <1>2, <1>5, <2>1, InvParts, CompactedStays DEF Compacting, Goto, PlacesOK
    <2>3. WrittenOK(p)'
        BY <2>2 DEF WrittenOK, At, Loading, BeforeCommit
    <2> QED
        BY <1>4, <1>5, <2>1, <2>3, InvParts DEF StackInv
<1>6. CASE /\ Goto(p, "replace") /\ files' = files \cup {Merged(p)}
           /\ data' = [data EXCEPT ![Merged(p)] =
                [max |-> data[tables[p][last[p]]].max, recs |-> Compacted(p)]]
    <2> DEFINE rec == [max |-> data[tables[p][last[p]]].max, recs |-> Compacted(p)]
    <2>1. Merged(p) \in Unlisted /\ Merged(p) \in Tables
        BY <1>2, TableNames DEF Unlisted, At, Early, Compacting
    <2>2. rec \in Content
        <3>1. data[tables[p][last[p]]].max \in Nat
            BY <1>1, <1>2, InvParts, SoundTypes DEF HandleOK, TableLocksOK, Compacting
        <3>2. Sound(Merging(p))
            BY <1>2, MergingSound DEF Sound, Compacting
        <3>3. \A r \in Refs : NewestIn(data, Merging(p), r) \in Value0 \cup {Absent}
            BY <3>2, InvParts, NewestType
        <3>4. Compacted(p) \in [Refs -> Value0 \cup {Absent}]
            BY <3>3, CompactedIs DEF CompactedIn
        <3> QED
            BY <3>1, <3>4 DEF Content
    <2>3. data'[Merged(p)] = rec /\ \A id \in Tables \ {Merged(p)} : data'[id] = data[id]
        BY <1>6, <2>1, InvParts DEF DiskOK
    <2>4. DiskOK'
        <3>1. data' \in [Tables -> Content \cup {NoTable}]
            BY <1>6, <2>2, InvParts DEF DiskOK
        <3> QED
            BY <1>2, <1>6, <2>1, <2>2, <2>3, <3>1, Kinds, InvParts DEF DiskOK
    <2>5. Writes(p)
        BY <1>2, <1>6, <2>1, <2>3, <2>4 DEF Writes
    <2>6. Compacted(p)' = Compacted(p) /\ data'[tables[p][last[p]]] = data[tables[p][last[p]]]
        BY <1>1, <1>2, <2>5, CompactedStays DEF Compacting
    <2>7. pc'[p] = "replace"
        BY <1>1, <1>6, InvParts DEF Goto, PlacesOK
    <2>8. WrittenOK(p)'
        BY <1>2, <1>6, <2>3, <2>6, <2>7 DEF WrittenOK, At, Loading, BeforeCommit
    <2> QED
        BY <1>4, <1>6, <2>5, <2>8, InvParts DEF StackInv
<1>7. Goto(p, "undo") => pc'[p] \in Resting
    BY <1>1, InvParts DEF Goto, PlacesOK, Resting
<1> QED
    BY <1>3, <1>5, <1>6, <1>7 DEF InstallTable

(* The list in three parts: those below, those that are merged, those above. *)
Below(p) == SubSeq(list, 1, Min(Offsets(p, list)))
Above(p) == SubSeq(list, Min(Offsets(p, list)) + Len(Merging(p)) + 1, Len(list))

LEMMA ListParts ==
    ASSUME Inv, NEW p \in Procs, pc[p] \in Compacting, Offsets(p, list) # {}
    PROVE  LET k == Min(Offsets(p, list))
               m == Len(Merging(p)) IN
           /\ k \in Nat /\ m \in Nat \ {0} /\ Len(list) \in Nat /\ k + m <= Len(list)
           /\ \A i \in 1..m : list[k + i] = Merging(p)[i]
           /\ Sound(Below(p)) /\ Len(Below(p)) = k /\ \A i \in 1..k : Below(p)[i] = list[i]
           /\ Sound(Above(p)) /\ Len(Above(p)) = Len(list) - k - m
           /\ \A i \in 1..(Len(list) - k - m) : Above(p)[i] = list[k + m + i]
<1> DEFINE k == Min(Offsets(p, list))
           m == Len(Merging(p))
<1>1. SoundIn(data, Unlisted, list) /\ Len(list) \in Nat /\ list \in Seq(Tables)
    BY InvParts DEF StackInv, Sound, DiskOK
<1>2. SoundIn(data, Unlisted, Merging(p)) /\ m = last[p] - first[p] + 1 /\ m \in Nat
    BY MergingSound DEF SoundIn
<1>3. m \in Nat \ {0}
    BY <1>2, InvParts DEF TableLocksOK, RangesOK
<1>4. Offsets(p, list) \subseteq Nat
    BY <1>1, <1>3 DEF Offsets
<1>5. k \in Offsets(p, list)
    BY <1>4, MinProperties
<1>6. k \in 0..(Len(list) - m) /\ SubSeq(list, k + 1, k + m) = Merging(p)
    <2> HIDE DEF k
    <2> QED
        BY <1>5 DEF Offsets
<1> HIDE DEF k, m
<1>7. k \in Nat /\ k + m <= Len(list)
    BY <1>1, <1>3, <1>6
<1>8. \A i \in 1..m : list[k + i] = Merging(p)[i]
    <2>1. k + 1 \in Nat \ {0} /\ k + m \in 0..Len(list) /\ k + 1 <= k + m + 1
        BY <1>1, <1>3, <1>7
    <2>2. \A i \in 1..((k + m) - (k + 1) + 1) : SubSeq(list, k + 1, k + m)[i] = list[(k + 1) + i - 1]
        BY <1>1, <2>1, SoundSub
    <2>3. (k + m) - (k + 1) + 1 = m /\ \A i \in 1..m : (k + 1) + i - 1 = k + i
        BY <1>3, <1>7
    <2> QED
        BY <1>6, <2>2, <2>3
<1>9. Sound(Below(p)) /\ Len(Below(p)) = k /\ \A i \in 1..k : Below(p)[i] = list[i]
    <2>1. 1 \in Nat \ {0} /\ k \in 0..Len(list) /\ 1 <= k + 1
        BY <1>1, <1>3, <1>7
    <2>2. /\ SoundIn(data, Unlisted, SubSeq(list, 1, k)) /\ Len(SubSeq(list, 1, k)) = k - 1 + 1
          /\ \A i \in 1..(k - 1 + 1) : SubSeq(list, 1, k)[i] = list[1 + i - 1]
        BY <1>1, <2>1, SoundSub
    <2>3. k - 1 + 1 = k /\ \A i \in 1..k : 1 + i - 1 = i
        BY <1>7
    <2>4. Below(p) = SubSeq(list, 1, k)
        BY DEF Below, k
    <2> QED
        BY <2>2, <2>3, <2>4 DEF Sound
<1>10. /\ Sound(Above(p)) /\ Len(Above(p)) = Len(list) - k - m
       /\ \A i \in 1..(Len(list) - k - m) : Above(p)[i] = list[k + m + i]
    <2> DEFINE a == k + m + 1
    <2>1. a \in Nat \ {0} /\ Len(list) \in 0..Len(list) /\ a <= Len(list) + 1
        BY <1>1, <1>3, <1>7
    <2>2. Len(list) - a + 1 = Len(list) - k - m
          /\ \A i \in 1..(Len(list) - k - m) : a + i - 1 = k + m + i
        BY <1>1, <1>3, <1>7
    <2>3. Above(p) = SubSeq(list, a, Len(list))
        BY DEF Above, k, m
    <2> HIDE DEF a
    <2>4. /\ SoundIn(data, Unlisted, SubSeq(list, a, Len(list)))
          /\ Len(SubSeq(list, a, Len(list))) = Len(list) - a + 1
          /\ \A i \in 1..(Len(list) - a + 1) : SubSeq(list, a, Len(list))[i] = list[a + i - 1]
        BY <1>1, <2>1, SoundSub
    <2> QED
        BY <2>2, <2>3, <2>4 DEF Sound
<1> QED
    BY <1>1, <1>3, <1>7, <1>8, <1>9, <1>10 DEF k, m

LEMMA ConcatSound ==
    ASSUME NEW d, NEW U, NEW a, NEW b, SoundIn(d, U, a), SoundIn(d, U, b),
           \A i \in 1..Len(a), j \in 1..Len(b) : d[a[i]].max < d[b[j]].max
    PROVE  /\ SoundIn(d, U, a \o b) /\ Len(a \o b) = Len(a) + Len(b)
           /\ \A i \in 1..Len(a) : (a \o b)[i] = a[i]
           /\ \A j \in 1..Len(b) : (a \o b)[Len(a) + j] = b[j]
           /\ \A i \in 1..Len(a \o b) :
                i \in 1..Len(a) \/ (i > Len(a) /\ \E j \in 1..Len(b) : i = Len(a) + j)
<1> DEFINE t == a \o b
<1>1. a \in Seq(Tables) /\ Len(a) \in Nat /\ b \in Seq(Tables) /\ Len(b) \in Nat
    BY DEF SoundIn
<1>2. /\ t \in Seq(Tables) /\ Len(t) = Len(a) + Len(b)
      /\ \A i \in 1..(Len(a) + Len(b)) : t[i] = IF i <= Len(a) THEN a[i] ELSE b[i - Len(a)]
    BY <1>1, ConcatProperties
<1> HIDE DEF t
<1>3. (\A i \in 1..Len(a) : t[i] = a[i]) /\ \A j \in 1..Len(b) : t[Len(a) + j] = b[j]
    <2>1. \A i \in 1..Len(a) : i \in 1..(Len(a) + Len(b)) /\ i <= Len(a)
        BY <1>1
    <2>2. \A j \in 1..Len(b) : /\ Len(a) + j \in 1..(Len(a) + Len(b))
                               /\ ~ (Len(a) + j <= Len(a)) /\ Len(a) + j - Len(a) = j
        BY <1>1
    <2> QED
        BY <1>2, <2>1, <2>2
<1>4. \A i \in 1..Len(t) :
            i \in 1..Len(a) \/ (i > Len(a) /\ \E j \in 1..Len(b) : i = Len(a) + j)
    <2> SUFFICES ASSUME NEW i \in 1..Len(t), i > Len(a) PROVE \E j \in 1..Len(b) : i = Len(a) + j
        BY <1>1, <1>2
    <2>1. i - Len(a) \in 1..Len(b) /\ i = Len(a) + (i - Len(a))
        BY <1>1, <1>2
    <2> QED
        BY <2>1
<1>5. \A i \in 1..Len(t) : t[i] \notin U /\ d[t[i]] # NoTable
    <2> SUFFICES ASSUME NEW i \in 1..Len(t) PROVE t[i] \notin U /\ d[t[i]] # NoTable
        OBVIOUS
    <2>1. CASE i \in 1..Len(a)
        BY <1>3, <2>1 DEF SoundIn
    <2>2. CASE \E j \in 1..Len(b) : i = Len(a) + j
        BY <1>3, <2>2 DEF SoundIn
    <2> QED
        BY <1>4, <2>1, <2>2
<1>6. ASSUME NEW i \in 1..Len(t), NEW j \in 1..Len(t), i < j
      PROVE  d[t[i]].max < d[t[j]].max
    <2>1. CASE i \in 1..Len(a) /\ j \in 1..Len(a)
        BY <1>3, <1>6, <2>1 DEF SoundIn
    <2>2. CASE i \in 1..Len(a) /\ \E y \in 1..Len(b) : j = Len(a) + y
        BY <1>3, <2>2
    <2>3. CASE i > Len(a) /\ \E x \in 1..Len(b) : i = Len(a) + x
        <3>1. PICK x \in 1..Len(b) : i = Len(a) + x
            BY <2>3
        <3>2. j \notin 1..Len(a)
            BY <1>1, <1>2, <1>6, <2>3
        <3>3. PICK y \in 1..Len(b) : j = Len(a) + y
            BY <1>4, <3>2
        <3>4. x < y
            BY <1>1, <1>6, <3>1, <3>3
        <3> QED
            BY <1>3, <3>1, <3>3, <3>4 DEF SoundIn
    <2> QED
        BY <1>4, <2>1, <2>2, <2>3
<1>7. SoundIn(d, U, t)
    BY <1>2, <1>5, <1>6 DEF SoundIn
<1> QED
    BY <1>2, <1>3, <1>4, <1>7 DEF t

LEMMA ConcatHas ==
    ASSUME NEW d, NEW U, NEW a, NEW b, SoundIn(d, U, a), SoundIn(d, U, b),
           \A i \in 1..Len(a), j \in 1..Len(b) : d[a[i]].max < d[b[j]].max
    PROVE  /\ SoundIn(d, U, a \o b)
           /\ \A i \in 1..Len(a \o b) : \/ \E x \in 1..Len(a) : (a \o b)[i] = a[x]
                                        \/ \E x \in 1..Len(b) : (a \o b)[i] = b[x]
BY ConcatSound

(* The new list is sound once the merged table counts as listed, and has     *)
(* none of the tables that were merged.                                      *)
LEMMA ReplacedSound ==
    ASSUME Inv, NEW p \in Procs, pc[p] = "replace"
    PROVE  /\ SoundIn(data, Unlisted \ {Merged(p)}, Replaced(p))
           /\ \A i \in 1..Len(Replaced(p)) :
                \/ Replaced(p)[i] = Merged(p) /\ ~IsEmptyTable(p)
                \/ Replaced(p)[i] \in Range(list) \ Locked(p)
<1> DEFINE k == Min(Offsets(p, list))
           m == Len(Merging(p))
           U == Unlisted \ {Merged(p)}
           Mid == IF IsEmptyTable(p) THEN <<>> ELSE <<Merged(p)>>
           A == Below(p)
           B == Above(p)
<1>0. pc[p] \in Compacting /\ Offsets(p, list) # {}
    BY InvParts DEF ListLockOK, Compacting
<1>1. /\ k \in Nat /\ m \in Nat \ {0} /\ Len(list) \in Nat /\ k + m <= Len(list)
      /\ \A i \in 1..m : list[k + i] = Merging(p)[i]
      /\ Sound(A) /\ Len(A) = k /\ \A i \in 1..k : A[i] = list[i]
      /\ Sound(B) /\ Len(B) = Len(list) - k - m
      /\ \A i \in 1..(Len(list) - k - m) : B[i] = list[k + m + i]
    BY <1>0, ListParts
<1>2. Replaced(p) = (A \o Mid) \o B
    BY DEF Replaced, Below, Above
<1>3. SoundIn(data, U, A) /\ SoundIn(data, U, B)
    BY <1>1, SoundStays DEF Sound
<1>4. /\ Sound(list) /\ list \in Seq(Tables)
      /\ \A i \in 1..Len(list) : data[list[i]].max \in Nat
      /\ \A i, j \in 1..Len(list) : list[i] = list[j] => i = j
      /\ \A i, j \in 1..Len(list) : i < j => data[list[i]].max < data[list[j]].max
    BY InvParts, SoundTypes DEF StackInv, Sound, SoundIn
<1>5. Merged(p) \in Tables
    BY TableNames
<1>6. ~IsEmptyTable(p) => data[Merged(p)] # NoTable /\ data[Merged(p)].max = data[list[k + m]].max
    <2> SUFFICES ASSUME ~IsEmptyTable(p)
                 PROVE  data[Merged(p)] # NoTable /\ data[Merged(p)].max = data[list[k + m]].max
        OBVIOUS
    <2>1. /\ Merged(p) \in files
          /\ data[Merged(p)] = [max |-> data[tables[p][last[p]]].max, recs |-> Compacted(p)]
        BY InvParts DEF WrittenOK
    <2>2. m = last[p] - first[p] + 1 /\ first[p] \in Nat /\ last[p] \in Nat
        BY <1>0, MergingSound, InvParts DEF RangesOK
    <2>3. m \in 1..m /\ m \in 1..(last[p] - first[p] + 1) /\ first[p] + m - 1 = last[p]
        BY <1>1, <2>2
    <2>4. list[k + m] = tables[p][last[p]]
        BY <1>0, <1>1, <2>3, MergingSound
    <2> QED
        BY <2>1, <2>4, InvParts DEF DiskOK
<1>7. SoundIn(data, U, Mid) /\ Len(Mid) \in {0, 1}
      /\ \A i \in 1..Len(Mid) : Mid[i] = Merged(p) /\ ~IsEmptyTable(p)
    <2>1. CASE IsEmptyTable(p)
        BY <2>1 DEF SoundIn
    <2>2. CASE ~IsEmptyTable(p)
        <3>1. Mid \in Seq(Tables) /\ Len(Mid) = 1 /\ Mid[1] = Merged(p)
            BY <1>5, <2>2
        <3> HIDE DEF Mid
        <3> QED
            BY <1>6, <2>2, <3>1 DEF SoundIn
    <2> QED
        BY <2>1, <2>2
<1>8. Locked(p) = {list[i] : i \in (k + 1)..(k + m)}
    <2>1. Locked(p) = {tables[p][i] : i \in first[p]..last[p]}
        BY InvParts DEF TableLocksOK, Replacing
    <2>2. m = last[p] - first[p] + 1 /\ first[p] \in Nat /\ last[p] \in Nat
        BY <1>0, MergingSound, InvParts DEF RangesOK
    <2>3. \A i \in 1..m : list[k + i] = tables[p][first[p] + i - 1]
        BY <1>0, <1>1, <2>2, MergingSound
    <2>6. k \in Nat /\ m \in Nat
        BY <1>1
    <2> HIDE DEF k, m
    <2>4. \A i \in first[p]..last[p] : \E j \in (k + 1)..(k + m) : tables[p][i] = list[j]
        <3> SUFFICES ASSUME NEW i \in first[p]..last[p]
                     PROVE  \E j \in (k + 1)..(k + m) : tables[p][i] = list[j]
            OBVIOUS
        <3>1. /\ i - first[p] + 1 \in 1..m /\ k + (i - first[p] + 1) \in (k + 1)..(k + m)
              /\ first[p] + (i - first[p] + 1) - 1 = i
            BY <2>2, <2>6
        <3> QED
            BY <2>3, <3>1
    <2>5. \A j \in (k + 1)..(k + m) : \E i \in first[p]..last[p] : tables[p][i] = list[j]
        <3> SUFFICES ASSUME NEW j \in (k + 1)..(k + m)
                     PROVE  \E i \in first[p]..last[p] : tables[p][i] = list[j]
            OBVIOUS
        <3>1. /\ j - k \in 1..m /\ first[p] + (j - k) - 1 \in first[p]..last[p] /\ k + (j - k) = j
            BY <2>2, <2>6
        <3> QED
            BY <2>3, <3>1
    <2> QED
        BY <2>1, <2>4, <2>5
<1> HIDE DEF k, m, U, Mid, A, B
<1>9. /\ \A i \in 1..Len(A) : \E x \in 1..k : A[i] = list[x]
      /\ \A i \in 1..Len(B) : \E x \in (k + m + 1)..Len(list) : B[i] = list[x]
    <2>1. \A i \in 1..Len(A) : i \in 1..k
        BY <1>1
    <2>2. \A i \in 1..Len(B) : k + m + i \in (k + m + 1)..Len(list)
        BY <1>1
    <2> QED
        BY <1>1, <2>1, <2>2
<1>10. /\ \A x \in 1..k : x \in 1..Len(list) /\ x < k + m
       /\ \A y \in (k + m + 1)..Len(list) : y \in 1..Len(list) /\ k + m < y
       /\ \A x \in 1..k, y \in (k + m + 1)..Len(list) : x < y
       /\ k + m \in 1..Len(list)
       /\ \A z \in (k + 1)..(k + m) : /\ z \in 1..Len(list) /\ z \notin 1..k
                                      /\ z \notin (k + m + 1)..Len(list)
    BY <1>1
<1>11. /\ SoundIn(data, U, A \o Mid) /\ Len(A \o Mid) = Len(A) + Len(Mid)
       /\ \A i \in 1..Len(A \o Mid) : \/ \E x \in 1..Len(A) : (A \o Mid)[i] = A[x]
                                      \/ \E x \in 1..Len(Mid) : (A \o Mid)[i] = Mid[x]
    <2>1. \A i \in 1..Len(A), j \in 1..Len(Mid) : data[A[i]].max < data[Mid[j]].max
        <3> SUFFICES ASSUME NEW i \in 1..Len(A), NEW j \in 1..Len(Mid)
                     PROVE  data[A[i]].max < data[Mid[j]].max
            OBVIOUS
        <3>1. PICK x \in 1..k : A[i] = list[x]
            BY <1>9
        <3>2. data[list[x]].max < data[list[k + m]].max
            BY <1>4, <1>10
        <3> QED
            BY <1>6, <1>7, <3>1, <3>2
    <2> QED
        BY <1>3, <1>7, <2>1, ConcatSound
<1>12. /\ SoundIn(data, U, (A \o Mid) \o B)
       /\ \A i \in 1..Len((A \o Mid) \o B) :
            \/ \E x \in 1..Len(A \o Mid) : ((A \o Mid) \o B)[i] = (A \o Mid)[x]
            \/ \E x \in 1..Len(B) : ((A \o Mid) \o B)[i] = B[x]
    <2>1. \A i \in 1..Len(A), j \in 1..Len(B) : data[A[i]].max < data[B[j]].max
        <3> SUFFICES ASSUME NEW i \in 1..Len(A), NEW j \in 1..Len(B)
                     PROVE  data[A[i]].max < data[B[j]].max
            OBVIOUS
        <3>1. PICK x \in 1..k : A[i] = list[x]
            BY <1>9
        <3>2. PICK y \in (k + m + 1)..Len(list) : B[j] = list[y]
            BY <1>9
        <3>3. data[list[x]].max < data[list[y]].max
            BY <1>4, <1>10
        <3> QED
            BY <3>1, <3>2, <3>3
    <2>2. \A i \in 1..Len(Mid), j \in 1..Len(B) : data[Mid[i]].max < data[B[j]].max
        BY <1>4, <1>6, <1>7, <1>9, <1>10
    <2>3. \A i \in 1..Len(A \o Mid), j \in 1..Len(B) : data[(A \o Mid)[i]].max < data[B[j]].max
        BY <1>11, <2>1, <2>2
    <2>4. SoundIn(data, U, A \o Mid) /\ SoundIn(data, U, B)
        BY <1>3, <1>11
    <2>5. ASSUME NEW c, c = A \o Mid PROVE
             /\ SoundIn(data, U, c \o B)
             /\ \A i \in 1..Len(c \o B) : \/ \E x \in 1..Len(c) : (c \o B)[i] = c[x]
                                        \/ \E x \in 1..Len(B) : (c \o B)[i] = B[x]
        <3>1. SoundIn(data, U, c)
            BY <2>4, <2>5, Zenon
        <3>2. \A i \in 1..Len(c), j \in 1..Len(B) : data[c[i]].max < data[B[j]].max
            BY <2>3, <2>5, Zenon
        <3>3. SoundIn(data, U, B)
            BY <2>4
        <3> QED
            BY <3>1, <3>2, <3>3, ConcatHas
    <2> QED
        BY <2>5, Zenon
<1>13. /\ \A i \in 1..Len(A) : A[i] \in Range(list) \ Locked(p)
       /\ \A i \in 1..Len(B) : B[i] \in Range(list) \ Locked(p)
    <2>1. \A x \in 1..Len(list) : list[x] \in Range(list)
        BY <1>4, RangeMembers
    <2>2. \A x \in 1..k : list[x] \notin Locked(p)
        BY <1>4, <1>8, <1>10
    <2>3. \A x \in (k + m + 1)..Len(list) : list[x] \notin Locked(p)
        BY <1>4, <1>8, <1>10
    <2> QED
        BY <1>9, <1>10, <2>1, <2>2, <2>3
<1>14. \A i \in 1..Len(Replaced(p)) :
         \/ Replaced(p)[i] = Merged(p) /\ ~IsEmptyTable(p)
         \/ Replaced(p)[i] \in Range(list) \ Locked(p)
    BY <1>2, <1>7, <1>11, <1>12, <1>13
<1> QED
    BY <1>2, <1>12, <1>14 DEF U

LEMMA ReplaceTablesInv ==
    ASSUME Inv, NEW p \in Procs, ReplaceTables(p), Observe PROVE Inv'
<1>1. Only(p) /\ p \in Users
    BY ReplaceTablesOnly, Kinds
<1>2. UNCHANGED <<data, tlock, tables, first, last>> /\ pc[p] = "replace" /\ llock = p
    BY InvParts DEF ReplaceTables, range, ListLockOK
<1>3. Merged(p) \in Unlisted /\ Merged(p) \in Tables
    BY <1>2, TableNames DEF Unlisted, At, Early, Compacting
<1>4. list \in Seq(Tables) /\ Range(list) \subseteq files /\ Merged(p) \notin Range(list)
    <2>1. list \in Seq(Tables)
        BY InvParts DEF DiskOK
    <2> QED
        BY <1>3, <2>1, InvParts, RangeMembers DEF StackInv, Sound, SoundIn
<1>5. CASE Goto(p, "undo") /\ files' = files \ {Merged(p)} /\ UNCHANGED <<list, loading>>
    <2>1. pc'[p] \in Resting
        BY <1>1, <1>5, InvParts DEF Goto, PlacesOK, Resting
    <2>2. Writes(p)
        BY <1>2, <1>5, InvParts DEF Writes, DiskOK
    <2>3. StackInv'
        BY <1>1, <1>2, <1>4, <1>5, <2>2, InvParts, StackStays DEF StackInv
    <2>4. HandleOK(p)'
        BY <1>1, <1>2, <1>5, <2>1, <2>2, HandleStays DEF loading, Resting
    <2> QED
        BY <1>1, <2>1, <2>2, <2>3, <2>4, RestingMine, StepKeeps
<1>6. CASE list' = Replaced(p) /\ Reload(p, "unlink") /\ UNCHANGED files
    <2>1. names'[p] = names[p] /\ pc'[p] = "load" /\ ret'[p] = "unlink" /\ Locked(p)' = Locked(p)
        BY <1>1, <1>2, <1>6, InvParts DEF Reload, Goto, PlacesOK, Locked
    <2>2. Unlisted' \subseteq Unlisted \ {Merged(p)}
        <3>1. ~At(p, Early)'
            BY <2>1 DEF At, Loading, Early, BeforeCommit, Choosing, Compacting
        <3> QED
            BY <1>1, <3>1, UnlistedShrinks, TableNames DEF Unlisted
    <2>3. SoundIn(data, Unlisted', list')
        BY <1>2, <1>6, <2>2, ReplacedSound, SoundStays
    <2>4. \A i \in 1..Len(list') : \/ list'[i] = Merged(p) /\ ~IsEmptyTable(p)
                                   \/ list'[i] \in Range(list) \ Locked(p)
        BY <1>2, <1>6, ReplacedSound
    <2>5. list' \in Seq(Tables)
        BY <2>3 DEF SoundIn
    <2>6. Writes(p)
        BY <1>2, <1>3, <1>6, <2>4, <2>5, InvParts DEF Writes, DiskOK
    <2>7. StackInv'
        <3>1. Range(list') \subseteq files
            <4>1. ~IsEmptyTable(p) => Merged(p) \in files
                BY <1>2, InvParts DEF WrittenOK
            <4>2. \A i \in 1..Len(list') : list'[i] \in files
                BY <1>4, <2>4, <4>1
            <4> QED
                BY <2>5, <4>2, RangeMembers
        <3> QED
            BY <1>1, <1>2, <1>6, <2>3, <3>1, InvParts, UnlistedShrinks DEF StackInv, Sound
    <2>8. HandleOK(p)'
        BY <1>1, <1>2, <2>1, <2>6, HandleStays
    <2>9. Locked(p)' \cap Range(list') = {}
        <3>1. Merged(p) \notin Locked(p)
            BY <1>3, Kinds, InvParts DEF StackInv, Locked
        <3> QED
            BY <2>1, <2>4, <2>5, <3>1, RangeMembers
    <2>10. ListLockOK(p)' /\ TableLocksOK(p)' /\ WrittenOK(p)'
        BY <2>1, <2>9 DEF ListLockOK, TableLocksOK, WrittenOK, At, Loading, BeforeCommit, Choosing,
           Compacting, Replacing
    <2> QED
        BY <1>1, <2>6, <2>7, <2>8, <2>10, StepKeeps DEF Mine
<1> QED
    BY <1>5, <1>6 DEF ReplaceTables

(* Files that are removed are neither in the list nor about to be.           *)
LEMMA FilesShrink ==
    ASSUME Inv, NEW p \in Users, Only(p), NEW R, files' = files \ R, R \cap Range(list) = {},
           UNCHANGED <<list, data, tlock>>,
           llock = p \/ \A id \in R : id \in Unlisted => id \in {Added(p), Merged(p)}
    PROVE  Writes(p) /\ StackInv'
<1>1. Writes(p)
    BY InvParts DEF Writes, DiskOK
<1>2. Range(list) \subseteq files'
    BY InvParts DEF StackInv
<1> QED
    BY <1>1, <1>2, InvParts, StackStays DEF StackInv

LEMMA UnlinkTablesInv ==
    ASSUME Inv, NEW p \in Procs, UnlinkTables(p), Observe PROVE Inv'
<1>1. Only(p) /\ p \in Users
    BY UnlinkTablesOnly, Kinds
<1>2. /\ UNCHANGED <<list, data, tlock, tables, names>> /\ files' = files \ Locked(p)
      /\ pc[p] = "unlink" /\ pc'[p] \in Resting
    BY <1>1, InvParts DEF UnlinkTables, locks, loading, Goto, PlacesOK, Resting
<1>3. Locked(p) \cap Range(list) = {}
    BY <1>2, InvParts DEF TableLocksOK, At
<1>4. \A id \in Locked(p) : id \notin Unlisted
    BY Kinds, InvParts DEF StackInv, Locked
<1>5. Writes(p) /\ StackInv'
    BY <1>1, <1>2, <1>3, <1>4, FilesShrink
<1>6. HandleOK(p)'
    BY <1>1, <1>2, <1>5, HandleStays DEF Resting
<1> QED
    BY <1>1, <1>2, <1>5, <1>6, RestingMine, StepKeeps

-----------------------------------------------------------------------------
(* The end of an operation, and stale tables. *)

LEMMA ReleaseListInv ==
    ASSUME Inv, NEW p \in Procs, ReleaseList(p), Observe PROVE Inv'
<1>1. Only(p) /\ p \in Users
    BY ReleaseListOnly, Kinds
<1>2. UNCHANGED <<list, data, tlock, tables, names>> /\ pc'[p] \in Resting
    BY DEF ReleaseList, loading, Resting
<1> DEFINE R == IF p \in Txns /\ ~committed[p] THEN {Added(p)} ELSE {}
<1>3. files' = files \ R
    BY DEF ReleaseList
<1>4. R \cap Range(list) = {}
    <2>1. R \subseteq Unlisted
        BY DEF Unlisted
    <2>2. list \in Seq(Tables) /\ \A i \in 1..Len(list) : list[i] \notin Unlisted
        BY InvParts DEF StackInv, Sound, SoundIn
    <2> HIDE DEF R
    <2> QED
        BY <2>1, <2>2, RangeMembers
<1>5. \A id \in R : id \in Unlisted => id \in {Added(p), Merged(p)}
    OBVIOUS
<1>6. Writes(p) /\ StackInv'
    <2> HIDE DEF R
    <2> QED
        BY <1>1, <1>2, <1>3, <1>4, <1>5, FilesShrink
<1>7. HandleOK(p)'
    BY <1>1, <1>2, <1>6, HandleStays DEF Resting
<1> QED
    BY <1>1, <1>2, <1>6, <1>7, RestingMine, StepKeeps

(* A lock of a table that is released by p, or by the user for p.            *)
LEMMA TableUnlocked ==
    ASSUME Inv, NEW p \in Procs, Only(p), NEW id \in Tables, tlock' = [tlock EXCEPT ![id] = Free],
           UNCHANGED <<list, files, data, tables, names>>, pc'[p] \in Resting, Observe
    PROVE  Inv'
<1>1. p \in Users
    BY Kinds
<1>2. Writes(p)
    BY InvParts DEF Writes, DiskOK
<1>3. \A x \in Unlisted : tlock'[x] = Free
    BY InvParts DEF StackInv, LocksOK
<1>4. StackInv'
    BY <1>1, <1>2, <1>3, InvParts, StackStays DEF StackInv
<1>5. HandleOK(p)'
    BY <1>1, <1>2, HandleStays DEF Resting
<1> QED
    BY <1>1, <1>2, <1>4, <1>5, RestingMine, StepKeeps

LEMMA ReleaseTableInv ==
    ASSUME Inv, NEW p \in Procs, NEW id \in Tables, ReleaseTable(p, id), Observe PROVE Inv'
BY ReleaseTableOnly, TableUnlocked DEF ReleaseTable, disk, loading, Resting

LEMMA ExitInv ==
    ASSUME Inv, NEW p \in Users, Only(p), UNCHANGED <<list, files, data, tlock>>,
           NEW l \in Resting, Exit(p, l), Observe
    PROVE  Inv'
BY QuietStep, ExitMine, StepKeeps

LEMMA FinishInv ==
    ASSUME Inv, NEW p \in Procs, Finish(p), Observe PROVE Inv'
<1>1. Only(p) /\ p \in Users /\ UNCHANGED <<list, files, data, tlock>>
    BY FinishOnly, Kinds DEF Finish, disk, locks
<1>2. CASE Goto(p, "clean") /\ UNCHANGED <<tables, loading>>
    <2>1. pc'[p] \in Resting
        BY <1>1, <1>2, InvParts DEF Goto, PlacesOK, Resting
    <2> QED
        BY <1>1, <1>2, <2>1, QuietEnds DEF loading
<1>3. CASE Exit(p, IF pc[p] = "end" THEN "done" ELSE "failed")
    BY <1>1, <1>3, ExitInv DEF Resting
<1> QED
    BY <1>2, <1>3 DEF Finish

LEMMA CleanLockInv ==
    ASSUME Inv, NEW p \in Optimizers, CleanLock(p), Observe PROVE Inv'
<1>1. Only(p) /\ p \in Users /\ p \in Procs
    BY CleanLockOnly, Kinds
<1>2. UNCHANGED <<list, files, data, tlock, tables, names>> /\ llock' = p
    BY DEF CleanLock, disk, loading
<1>3. CASE pc'[p] \in Resting
    BY <1>1, <1>2, <1>3, QuietEnds
<1>4. CASE pc'[p] = "sweep" /\ tables[p] = list
    <2>1. Writes(p) /\ StackInv'
        BY <1>1, <1>2, QuietStep
    <2>2. HandleOK(p)'
        BY <1>1, <1>2, <1>4, <2>1, HandleStays
    <2>3. ListLockOK(p)' /\ TableLocksOK(p)' /\ WrittenOK(p)'
        BY <1>2, <1>4 DEF ListLockOK, TableLocksOK, WrittenOK, At, Loading, BeforeCommit, Choosing,
           Compacting, Replacing
    <2> QED
        BY <1>1, <2>1, <2>2, <2>3, StepKeeps DEF Mine
<1> QED
    BY <1>1, <1>3, <1>4, InvParts DEF CleanLock, Uptodate, Goto, PlacesOK, Resting

LEMMA SweepInv ==
    ASSUME Inv, NEW p \in Optimizers, Sweep(p), Observe PROVE Inv'
<1>1. Only(p) /\ p \in Users /\ p \in Procs
    BY SweepOnly, Kinds
<1>2. /\ UNCHANGED <<list, data, llock, tlock, tables, names, pc>> /\ pc[p] = "sweep"
      /\ llock = p /\ tables[p] = list
    BY <1>1, InvParts DEF Sweep, locks, loading, ListLockOK
<1>3. PICK id \in Stale(p) : files' = files \ {id}
    BY DEF Sweep
<1>4. {id} \cap Range(list) = {}
    BY <1>2, <1>3 DEF Stale
<1>5. Writes(p) /\ StackInv'
    BY <1>1, <1>2, <1>3, <1>4, FilesShrink
<1>6. HandleOK(p)'
    BY <1>1, <1>2, <1>5, HandleStays
<1>7. ListLockOK(p)' /\ TableLocksOK(p)' /\ WrittenOK(p)'
    BY <1>2 DEF ListLockOK, TableLocksOK, WrittenOK, At, Loading, BeforeCommit, Choosing,
       Compacting, Replacing
<1> QED
    BY <1>1, <1>5, <1>6, <1>7, StepKeeps DEF Mine

LEMMA CleanDoneInv ==
    ASSUME Inv, NEW p \in Optimizers, CleanDone(p), Observe PROVE Inv'
<1>1. "done" \in Resting /\ p \in Users
    BY Kinds DEF Resting
<1> QED
    BY <1>1, CleanDoneOnly, ExitInv DEF CleanDone, disk

LEMMA ReadStepInv ==
    ASSUME Inv, NEW p \in Readers, Read(p), Observe PROVE Inv'
<1>1. Only(p) /\ p \in Users /\ p \notin Procs
    BY ReadOnly, Kinds
<1>2. UNCHANGED <<list, files, data, tlock, tables, names>> /\ pc'[p] \in {"load", "done"}
    BY <1>1, InvParts DEF Read, ReloadIfStale, Reload, disk, locks, loading, Goto, PlacesOK
<1>3. Writes(p) /\ StackInv'
    BY <1>1, <1>2, QuietStep
<1>4. HandleOK(p)'
    BY <1>1, <1>2, <1>3, HandleStays
<1> QED
    BY <1>1, <1>3, <1>4, StepKeeps DEF Mine

LEMMA CrashInv ==
    ASSUME Inv, NEW p \in Procs, Crash(p), Observe PROVE Inv'
<1>1. "crashed" \in Resting /\ p \in Users
    BY Kinds DEF Resting
<1> QED
    BY <1>1, CrashOnly, ExitInv DEF Crash, disk, locks

(* The user removes a lock of a process that is gone.                        *)
LEMMA RemovesOnly ==
    ASSUME Inv, NEW p \in Procs, OnlyLocks(p),
           UNCHANGED <<tables, loading, pc, request, txn, range, faults>>
    PROVE  Only(p)
<1>1. OnlyPlace(p)
    BY Kinds, InvParts DEF OnlyPlace, PlacesOK, PlaceOK, At, Loading, loading
<1> QED
    BY <1>1, InvParts, StaysAlone DEF Only, loading, request, txn, range

LEMMA RemoveListLockInv ==
    ASSUME Inv, RemoveListLock, Observe PROVE Inv'
<1>1. PICK p \in Procs : p = llock
    BY DEF RemoveListLock
<1>2. OnlyLocks(p)
    BY <1>1, InvParts DEF RemoveListLock, OnlyLocks, LocksOK, Locked
<1>3. Only(p)
    BY <1>2, RemovesOnly DEF RemoveListLock
<1>4. UNCHANGED <<list, files, data, tlock, tables, names>> /\ pc'[p] \in Resting /\ p \in Users
    BY <1>1, Kinds DEF RemoveListLock, disk, loading, Resting
<1> QED
    BY <1>3, <1>4, QuietEnds

LEMMA RemoveTableLockInv ==
    ASSUME Inv, NEW id \in Tables, RemoveTableLock(id), Observe PROVE Inv'
<1>1. PICK p \in Procs : p = tlock[id]
    BY DEF RemoveTableLock
<1>2. OnlyLocks(p)
    BY <1>1, Kinds, InvParts DEF RemoveTableLock, OnlyLocks, LocksOK, Locked
<1>3. Only(p)
    BY <1>2, RemovesOnly DEF RemoveTableLock
<1> QED
    BY <1>1, <1>3, TableUnlocked DEF RemoveTableLock, disk, loading, Resting

-----------------------------------------------------------------------------
(* The list is sound. *)

LEMMA InitInv ==
    ASSUME Init PROVE Inv
<1>1. PICK b \in Bases :
         /\ list = [i \in 1..Len(b) |-> <<i, "base">>]
         /\ data = [id \in Tables |->
              IF id[2] = "base" /\ id[1] <= Len(b)
              THEN [max |-> id[1], recs |-> b[id[1]]] ELSE NoTable]
    BY DEF Init
<1>2. b \in Seq([Refs -> Value0 \cup {Absent}]) /\ Len(b) \in Nat /\ DOMAIN b = 1..Len(b)
    BY InputAssumption
<1>3. \A i \in 1..Len(b) : <<i, "base">> \in Tables
    BY <1>1, <1>2 DEF Tables
<1>4. list \in Seq(Tables) /\ Len(list) = Len(b) /\ \A i \in 1..Len(list) : list[i] = <<i, "base">>
    BY <1>1, <1>2, <1>3
<1>5. ASSUME NEW i \in 1..Len(list)
      PROVE  /\ data[list[i]] = [max |-> i, recs |-> b[i]] /\ data[list[i]] \in Content
             /\ data[list[i]].max = i
    BY <1>1, <1>2, <1>3, <1>4, <1>5 DEF Content
<1>6. data \in [Tables -> Content \cup {NoTable}]
    <2> SUFFICES ASSUME NEW id \in Tables, id[2] = "base", id[1] <= Len(b)
                 PROVE  [max |-> id[1], recs |-> b[id[1]]] \in Content
        BY <1>1
    <2>1. id[1] \in UNION {DOMAIN c : c \in Bases}
        BY DEF Tables
    <2>2. PICK c \in Bases : id[1] \in DOMAIN c
        BY <2>1
    <2>3. c \in Seq([Refs -> Value0 \cup {Absent}])
        BY InputAssumption
    <2>4. id[1] \in Nat \ {0}
        BY <2>2, <2>3
    <2>5. id[1] \in 1..Len(b)
        BY <1>2, <2>4
    <2> QED
        BY <1>2, <2>4, <2>5 DEF Content
<1>7. files = Range(list) /\ files \subseteq Tables /\ \A id \in files : data[id] # NoTable
    <2>1. files = Range(list)
        BY DEF Init
    <2>2. ASSUME NEW id \in files PROVE id \in Tables /\ data[id] # NoTable
        <3>1. PICK i \in 1..Len(list) : id = list[i]
            BY <1>4, <2>1, RangeMembers
        <3>2. data[list[i]] \in Content
            BY <1>5
        <3>3. list[i] \in Tables
            <4>1. list \in Seq(Tables)
                BY <1>4
            <4> QED
                BY <4>1
        <3> QED
            BY <3>1, <3>2, <3>3, Kinds
    <2> QED
        BY <2>1, <2>2
<1>8. TypeOK
    <2>1. DiskOK
        BY <1>4, <1>6, <1>7 DEF DiskOK
    <2>2. LocksOK /\ PlacesOK /\ TxnsOK /\ RangesOK /\ FaultsOK /\ SeenOK
        BY InputAssumption DEF Init, LocksOK, PlacesOK, PCs, TxnsOK, RangesOK, FaultsOK, SeenOK
    <2>3. HandlesOK
        BY <1>4, InputAssumption DEF Init, HandlesOK
    <2> QED
        BY <2>1, <2>2, <2>3, TypeParts
<1>9. Sound(list) /\ Sound(<<>>)
    <2>1. \A i \in 1..Len(list) : list[i] \notin Unlisted
        BY <1>4 DEF Unlisted, Added, Merged
    <2>2. \A i, j \in 1..Len(list) : i < j => data[list[i]].max < data[list[j]].max
        BY <1>5
    <2> QED
        <3>1. \A i \in 1..Len(list) : data[list[i]] # NoTable
            BY <1>5, Kinds
        <3>2. Sound(list)
            BY <1>4, <2>1, <2>2, <3>1 DEF Sound, SoundIn
        <3>3. Sound(<<>>)
            BY DEF Sound, SoundIn
        <3> QED
            BY <3>2, <3>3
<1>10. StackInv
    <2>1. Unlisted \subseteq Tables
        BY TableNames DEF Unlisted
    <2> QED
        BY <1>7, <1>9, <2>1 DEF StackInv, Init
<1>11. UsersInv
    BY <1>9 DEF UsersInv, PlaceOK, HandleOK, At, Loading, Init
<1>12. ProcsInv
    <2>1. \A p \in Procs : Locked(p) = {}
        BY Kinds DEF Init, Locked
    <2> QED
        <3> SUFFICES ASSUME NEW p \in Procs PROVE ListLockOK(p) /\ TableLocksOK(p) /\ WrittenOK(p)
            BY DEF ProcsInv
        <3>1. pc[p] = "idle" /\ (p \in Txns => ~committed[p])
            BY Kinds DEF Init
        <3> QED
            BY <2>1, <3>1 DEF ListLockOK, TableLocksOK, WrittenOK, At, Loading, Choosing, Compacting,
               Replacing
<1> QED
    BY <1>8, <1>10, <1>11, <1>12 DEF Inv

LEMMA LoadStepInv ==
    ASSUME Inv, NEW p \in Users, LoadStep(p), Observe PROVE Inv'
BY LoadInv, OpenTableInv, SwitchTablesInv, TableMissingInv DEF LoadStep

LEMMA ProcStepInv ==
    ASSUME Inv, NEW p \in Procs, ProcStep(p), Observe PROVE Inv'
<1>1. CASE LoadStep(p)
    BY <1>1, LoadStepInv, Kinds
<1>2. CASE CompactStep(p)
    BY <1>2, CompactLockInv, LockTableInv, MergeTablesInv, CompactRelockInv, InstallTableInv,
       ReplaceTablesInv, UnlinkTablesInv, LockTimeoutInv, ReleaseListInv, FinishInv,
       ReleaseTableInv DEF CompactStep
<1>3. CASE p \in Txns /\ TxnStep(p)
    BY <1>3, LockStackInv, PrepareUpdatesInv, AddTableInv, CommitAdditionInv, AutoCompactInv
       DEF TxnStep
<1>4. CASE p \in Optimizers /\ CleanStep(p)
    BY <1>4, CleanLockInv, SweepInv, CleanDoneInv DEF CleanStep
<1> QED
    BY <1>1, <1>2, <1>3, <1>4 DEF ProcStep

LEMMA NextInv ==
    ASSUME Inv, Next PROVE Inv'
<1>1. Observe /\ Step
    BY DEF Next
<1>2. ASSUME NEW q \in Readers, ReadStep(q) PROVE Inv'
    BY <1>1, <1>2, LoadStepInv, ReadStepInv, Kinds DEF ReadStep
<1>3. ASSUME NEW p \in Procs, ProcStep(p) \/ Crash(p) PROVE Inv'
    BY <1>1, <1>3, ProcStepInv, CrashInv
<1>4. ASSUME NEW t \in Txns, Begin(t) \/ Abort(t) PROVE Inv'
    BY <1>1, <1>4, BeginInv, AbortInv
<1>5. ASSUME NEW p \in Optimizers, Optimize(p) PROVE Inv'
    BY <1>1, <1>5, OptimizeInv
<1>6. ASSUME NEW id \in Tables, RemoveTableLock(id) PROVE Inv'
    BY <1>1, <1>6, RemoveTableLockInv
<1>7. ASSUME RemoveListLock PROVE Inv'
    BY <1>1, <1>7, RemoveListLockInv
<1> QED
    BY <1>1, <1>2, <1>3, <1>4, <1>5, <1>6, <1>7 DEF Step

LEMMA InvListSound ==
    Inv => ListSound
BY DEF Inv, ListSound, StackInv, Sound, SoundIn

LEMMA AlwaysInv ==
    Spec => []Inv
<1>1. Init => Inv
    BY InitInv
<1>2. Inv /\ [Next]_vars => Inv'
    <2> SUFFICES ASSUME Inv, [Next]_vars PROVE Inv'
        OBVIOUS
    <2>1. CASE Next
        BY <2>1, NextInv
    <2>2. CASE UNCHANGED vars
        <3>1. /\ UNCHANGED <<list, files, data, llock, tlock, tables, names, opened, tries, pc, ret>>
              /\ UNCHANGED <<want, expect, allow, refused, committed, first, last, seen, faults>>
            BY <2>2 DEF vars, disk, locks, loading, request, txn, range
        <3>2. TypeOK'
            BY <3>1 DEF Inv, TypeOK
        <3>3. Unlisted' = Unlisted
            BY <3>1 DEF Unlisted, At, Loading
        <3>4. StackInv'
            BY <3>1, <3>3 DEF Inv, StackInv, Sound
        <3>5. UsersInv'
            BY <3>1, <3>3 DEF Inv, UsersInv, PlaceOK, HandleOK, At, Loading, Sound
        <3>6. ASSUME NEW p \in Procs PROVE ListLockOK(p)' /\ TableLocksOK(p)' /\ WrittenOK(p)'
            <4>1. ListLockOK(p)' = ListLockOK(p)
                BY <3>1 DEF ListLockOK, Offsets, Merging, Loading
            <4>2. TableLocksOK(p)' = TableLocksOK(p)
                BY <3>1 DEF TableLocksOK, Locked, At, Loading
            <4>3. WrittenOK(p)' = WrittenOK(p)
                BY <3>1 DEF WrittenOK, At, Loading, NextUpdateIndex, Queued, IsEmptyTable, Compacted,
                   Merging, Newest, View
            <4> QED
                BY <4>1, <4>2, <4>3, InvParts
        <3> QED
            BY <3>2, <3>4, <3>5, <3>6 DEF Inv, ProcsInv
    <2> QED
        BY <2>1, <2>2
<1> QED
    BY <1>1, <1>2, PTL DEF Spec

(* tables.list always names tables that are in the directory, each once and  *)
(* in the order of their update indices, whoever compacts, cleans, fails or  *)
(* dies: no addition, replacement, unlink or sweep takes a listed table.     *)
THEOREM ListIsSound ==
    Spec => []ListSound
BY AlwaysInv, InvListSound, PTL

-----------------------------------------------------------------------------
(* Readers. *)

LEMMA ProcStepOnly ==
    ASSUME Inv, NEW p \in Procs, ProcStep(p) PROVE Only(p)
<1>1. CASE LoadStep(p)
    BY <1>1, LoadOnly, OpenTableOnly, SwitchTablesOnly, TableMissingOnly, Kinds DEF LoadStep
<1>2. CASE CompactStep(p)
    BY <1>2, CompactLockOnly, LockTableOnly, MergeTablesOnly, CompactRelockOnly, InstallTableOnly,
       ReplaceTablesOnly, UnlinkTablesOnly, LockTimeoutOnly, ReleaseListOnly, FinishOnly,
       ReleaseTableOnly DEF CompactStep
<1>3. CASE p \in Txns /\ TxnStep(p)
    BY <1>3, LockStackOnly, PrepareUpdatesOnly, AddTableOnly, CommitAdditionOnly, AutoCompactOnly
       DEF TxnStep
<1>4. CASE p \in Optimizers /\ CleanStep(p)
    BY <1>4, CleanLockOnly, SweepOnly, CleanDoneOnly DEF CleanStep
<1> QED
    BY <1>1, <1>2, <1>3, <1>4 DEF ProcStep

(* Every step is somebody's; the user acts for the process that is gone.     *)
LEMMA StepOnly ==
    ASSUME Inv, Step
    PROVE  \E p \in Users : Only(p) /\ (p \in Readers => ReadStep(p))
<1>1. ASSUME NEW q \in Readers, ReadStep(q) PROVE Only(q) /\ q \in Users
    BY <1>1, ReadOnly, LoadOnly, OpenTableOnly, SwitchTablesOnly, TableMissingOnly, Kinds
       DEF ReadStep, LoadStep
<1>2. ASSUME NEW p \in Procs, ProcStep(p) \/ Crash(p) PROVE Only(p) /\ p \in Users /\ p \notin Readers
    BY <1>2, ProcStepOnly, CrashOnly, Kinds
<1>3. ASSUME NEW t \in Txns, Begin(t) \/ Abort(t) PROVE Only(t) /\ t \in Users /\ t \notin Readers
    BY <1>3, BeginOnly, AbortOnly, Kinds
<1>4. ASSUME NEW p \in Optimizers, Optimize(p) PROVE Only(p) /\ p \in Users /\ p \notin Readers
    BY <1>4, OptimizeOnly, Kinds
<1>5. ASSUME RemoveListLock PROVE \E p \in Users : Only(p) /\ p \notin Readers
    <2>1. PICK p \in Procs : p = llock
        BY <1>5 DEF RemoveListLock
    <2>2. OnlyLocks(p)
        BY <1>5, <2>1, InvParts DEF RemoveListLock, OnlyLocks, LocksOK, Locked
    <2> QED
        BY <1>5, <2>2, RemovesOnly, Kinds DEF RemoveListLock
<1>6. ASSUME NEW id \in Tables, RemoveTableLock(id) PROVE \E p \in Users : Only(p) /\ p \notin Readers
    <2>1. PICK p \in Procs : p = tlock[id]
        BY <1>6 DEF RemoveTableLock
    <2>2. OnlyLocks(p)
        BY <1>6, <2>1, Kinds, InvParts DEF RemoveTableLock, OnlyLocks, LocksOK, Locked
    <2> QED
        BY <1>6, <2>2, RemovesOnly, Kinds DEF RemoveTableLock
<1> QED
    BY <1>1, <1>2, <1>3, <1>4, <1>5, <1>6 DEF Step

(* Only tables that no list has are written.                                 *)
LEMMA DataStays ==
    ASSUME Inv, Step PROVE \A id \in Tables \ Unlisted : data'[id] = data[id]
<1>1. CASE UNCHANGED data
    BY <1>1
<1>2. ASSUME NEW t \in Txns, AddTable(t) PROVE \A id \in Tables \ Unlisted : data'[id] = data[id]
    <2>1. Added(t) \in Unlisted
        BY <1>2, Kinds, InvParts DEF AddTable, WrittenOK, At, BeforeCommit, Unlisted
    <2> QED
        BY <1>2, <2>1, InvParts DEF AddTable, DiskOK
<1>3. ASSUME NEW p \in Procs, InstallTable(p)
      PROVE  \A id \in Tables \ Unlisted : data'[id] = data[id]
    <2>1. Merged(p) \in Unlisted
        BY <1>3 DEF InstallTable, Unlisted, At, Early, Compacting
    <2> QED
        BY <1>3, <2>1, InvParts DEF InstallTable, DiskOK
<1>4. ASSUME NEW p, LoadStep(p) \/ CleanStep(p) PROVE UNCHANGED data
    BY <1>4 DEF LoadStep, CleanStep, Load, OpenTable, SwitchTables, TableMissing, CleanLock, Sweep,
       CleanDone, disk
<1>5. ASSUME NEW p, CompactStep(p) PROVE UNCHANGED data \/ InstallTable(p)
    BY <1>5 DEF CompactStep, CompactLock, LockTable, MergeTables, CompactRelock, ReplaceTables,
       UnlinkTables, LockTimeout, ReleaseList, Finish, ReleaseTable, disk
<1>6. ASSUME NEW p, TxnStep(p) PROVE UNCHANGED data \/ AddTable(p)
    BY <1>6 DEF TxnStep, LockStack, PrepareUpdates, CommitAddition, AutoCompact, disk
<1>7. ASSUME NEW p, Crash(p) \/ Begin(p) \/ Abort(p) \/ Optimize(p) \/ Read(p) PROVE UNCHANGED data
    BY <1>7 DEF Crash, Begin, Abort, Optimize, Read, disk
<1>8. ASSUME RemoveListLock \/ \E id \in Tables : RemoveTableLock(id) PROVE UNCHANGED data
    BY <1>8 DEF RemoveListLock, RemoveTableLock, disk
<1> QED
    BY <1>1, <1>2, <1>3, <1>4, <1>5, <1>6, <1>7, <1>8 DEF Step, ProcStep, ReadStep

LEMMA ViewStays ==
    ASSUME Inv, Step, NEW s, Sound(s)
    PROVE  /\ View(s) = ViewIn(data, s) /\ ViewIn(data', s) = ViewIn(data, s)
           /\ \A i \in 1..Len(s) : data'[s[i]] = data[s[i]]
<1>1. Len(s) \in Nat /\ \A i \in 1..Len(s) : s[i] \in Tables \ Unlisted
    BY DEF Sound, SoundIn
<1>2. \A i \in 1..Len(s) : data'[s[i]] = data[s[i]]
    BY <1>1, DataStays
<1> QED
    BY <1>1, <1>2, ViewSame, ViewIs

LEMMA ReadKept ==
    ASSUME Inv, ReadInv, Step, Observe, NEW q \in Readers PROVE ReadOK(q)'
<1> DEFINE N == ViewIn(data', names'[q])
           T == ViewIn(data', tables'[q])
<1>1. View(names[q])' = N /\ View(tables[q])' = T
    BY DEF View, ViewIn, Newest, NewestIn, Holding
<1>2. q \in Users /\ Sound(names[q]) /\ Sound(tables[q]) /\ Sound(list)
    BY Kinds, InvParts DEF HandleOK, StackInv
<1>3. /\ ViewIn(data', names[q]) = View(names[q]) /\ ViewIn(data', tables[q]) = View(tables[q])
      /\ ViewIn(data', list) = View(list)
    BY <1>2, ViewStays
<1>4. /\ seen[q] \subseteq seen'[q]
      /\ ~Ended(q) \/ pc'[q] # pc[q] => View(list) \in seen'[q]
    BY DEF Observe
<1>5. /\ pc[q] \in {"open", "missing"} => View(names[q]) \in seen[q]
      /\ pc[q] = "done" => View(tables[q]) \in seen[q] \/ tries[q] > Attempts
    BY DEF ReadInv, ReadOK
<1> HIDE DEF N, T
<1>6. SUFFICES /\ pc'[q] \in {"open", "missing"} => N \in seen'[q]
               /\ pc'[q] = "done" => T \in seen'[q] \/ tries'[q] > Attempts
    BY <1>1 DEF ReadOK
<1>7. CASE pc'[q] = pc[q] /\ names'[q] = names[q] /\ tables'[q] = tables[q] /\ tries'[q] = tries[q]
    BY <1>3, <1>4, <1>5, <1>7 DEF N, T
<1>8. CASE Read(q)
    <2>1. pc[q] = "idle" /\ pc'[q] \in {"load", "done"} /\ tables' = tables
          /\ (pc'[q] = "done" => tables[q] = list)
        BY <1>2, <1>8, InvParts DEF Read, MayStart, ReloadIfStale, Reload, Uptodate, Goto, PlacesOK
    <2> QED
        BY <1>3, <1>4, <2>1 DEF T
<1>9. CASE Load(q)
    <2>1. pc[q] = "load" /\ ret[q] = "done" /\ tries[q] \in 0..(Attempts + 1) /\ Attempts \in Nat
        BY <1>2, <1>9, InvParts, LoadingPlaces, InputAssumption DEF Load, Loading, HandlesOK
    <2>2. \/ pc'[q] = "open" /\ names'[q] = list
          \/ pc'[q] = "done" /\ tries'[q] = Attempts + 1
        BY <1>2, <1>9, <2>1, InvParts DEF Load, Goto, PlacesOK, HandlesOK
    <2> QED
        BY <1>3, <1>4, <2>1, <2>2 DEF N, Ended
<1>10. CASE OpenTable(q)
    <2>1. pc[q] = "open" /\ pc'[q] \in {"open", "missing"} /\ names' = names
        BY <1>2, <1>10, InvParts DEF OpenTable, Goto, PlacesOK
    <2> QED
        BY <1>3, <1>4, <1>5, <2>1 DEF N
<1>11. CASE SwitchTables(q)
    <2>1. pc[q] = "open" /\ pc'[q] = "done" /\ tables'[q] = names[q]
        BY <1>2, <1>11, InvParts, LoadingPlaces DEF SwitchTables, Goto, PlacesOK, HandlesOK, Loading
    <2> QED
        BY <1>3, <1>4, <1>5, <2>1 DEF T
<1>12. CASE TableMissing(q)
    BY <1>2, <1>12, TableMissingOnly
<1>13. PICK p \in Users : Only(p) /\ (p \in Readers => ReadStep(p))
    BY StepOnly
<1>14. CASE p # q
    BY <1>2, <1>7, <1>13, <1>14 DEF Only, OnlyPlace, OnlyHandle
<1> QED
    BY <1>8, <1>9, <1>10, <1>11, <1>12, <1>13, <1>14 DEF ReadStep, LoadStep

LEMMA AlwaysRead ==
    Spec => []ReadInv
<1>1. Init => ReadInv
    BY Kinds DEF Init, ReadInv, ReadOK
<1>2. Inv /\ ReadInv /\ [Next]_vars => ReadInv'
    <2> SUFFICES ASSUME Inv, ReadInv, [Next]_vars PROVE ReadInv'
        OBVIOUS
    <2>1. CASE Next
        BY <2>1, ReadKept DEF Next, ReadInv
    <2>2. CASE UNCHANGED vars
        <3>1. UNCHANGED <<list, data, tables, names, tries, pc, seen>>
            BY <2>2 DEF vars, disk, loading
        <3>2. \A q : View(names[q])' = View(names[q]) /\ View(tables[q])' = View(tables[q])
            BY <3>1 DEF View, Newest
        <3> QED
            BY <3>1, <3>2 DEF ReadInv, ReadOK
    <2> QED
        BY <2>1, <2>2
<1> QED
    BY <1>1, <1>2, AlwaysInv, PTL DEF Spec

LEMMA InvSnapshotReads ==
    Inv /\ ReadInv => SnapshotReads
BY Kinds DEF Inv, UsersInv, PlaceOK, ReadInv, ReadOK, SnapshotReads

(* A reader, which takes no lock, never fails for a table that compaction    *)
(* has replaced under it, and what it gets is the whole store as it was at   *)
(* one moment of the read, unless its deadline passed.                       *)
THEOREM ReadsAreSnapshots ==
    Spec => []SnapshotReads
BY AlwaysInv, AlwaysRead, InvSnapshotReads, PTL

-----------------------------------------------------------------------------
(* What stacks show when tables are added or merged. *)

(* The newer tables hide the older ones.                                     *)
Over(new, old) == IF new = Absent THEN old ELSE new

Joins(t, a, b) ==
    /\ Len(t) = Len(a) + Len(b)
    /\ \A i \in 1..(Len(a) + Len(b)) : t[i] = IF i <= Len(a) THEN a[i] ELSE b[i - Len(a)]

LEMMA NewestSplit ==
    ASSUME NEW d, NEW a \in Seq(Tables), NEW b \in Seq(Tables), NEW t \in Seq(Tables), NEW r,
           Joins(t, a, b)
    PROVE  NewestIn(d, t, r) = Over(NewestIn(d, b, r), NewestIn(d, a, r))
<1>1. Len(a) \in Nat /\ Len(b) \in Nat
    OBVIOUS
<1>2. /\ Len(t) = Len(a) + Len(b) /\ Len(t) \in Nat
      /\ \A i \in 1..(Len(a) + Len(b)) : t[i] = IF i <= Len(a) THEN a[i] ELSE b[i - Len(a)]
    BY <1>1 DEF Joins
<1>3. \A i \in 1..Len(a) : i \in 1..Len(t) /\ t[i] = a[i]
    BY <1>1, <1>2
<1>4. \A j \in 1..Len(b) : Len(a) + j \in 1..Len(t) /\ t[Len(a) + j] = b[j]
    <2>1. \A j \in 1..Len(b) : /\ Len(a) + j \in 1..(Len(a) + Len(b))
                               /\ ~ (Len(a) + j <= Len(a)) /\ Len(a) + j - Len(a) = j
        BY <1>1
    <2> QED
        BY <1>2, <2>1
<1>5. \A i \in 1..Len(t) : i \notin 1..Len(a) => i - Len(a) \in 1..Len(b) /\ t[i] = b[i - Len(a)]
    BY <1>1, <1>2
<1>6. CASE Holding(d, b, r) # {}
    <2>0. PICK j : Decides(d, b, r, j) /\ NewestIn(d, b, r) = d[b[j]].recs[r]
        BY <1>1, <1>6, NewestProperties
    <2>1. /\ j \in 1..Len(b)
          /\ d[b[j]].recs[r] # Absent /\ NewestIn(d, b, r) = d[b[j]].recs[r]
          /\ \A k \in (j + 1)..Len(b) : d[b[k]].recs[r] = Absent
        BY <2>0 DEF Decides
    <2>6. j \in 1..Len(b)
        BY <2>1
    <2>5. PICK x \in 1..Len(t) : x = Len(a) + j
        BY <1>4, <2>6
    <2>2. ASSUME NEW k \in (x + 1)..Len(t) PROVE d[t[k]].recs[r] = Absent
        <3>1. k \in 1..Len(t) /\ k \notin 1..Len(a) /\ k - Len(a) \in (j + 1)..Len(b)
            BY <1>1, <1>2, <2>5, <2>6
        <3> QED
            BY <1>5, <2>1, <3>1
    <2>3. t[x] = b[j] /\ d[t[x]].recs[r] # Absent /\ Len(t) \in Nat
        BY <1>2, <1>4, <2>1, <2>5
    <2>4. NewestIn(d, t, r) = d[t[x]].recs[r]
        <3>1. \A k \in (x + 1)..Len(t) : d[t[k]].recs[r] = Absent
            BY <2>2
        <3>2. d[t[x]].recs[r] # Absent /\ Len(t) \in Nat
            BY <2>3
        <3>3. Decides(d, t, r, x)
            BY <3>1, <3>2 DEF Decides
        <3> QED
            BY <3>2, <3>3, NewestIs
    <2> QED
        BY <2>1, <2>3, <2>4 DEF Over
<1>7. CASE Holding(d, b, r) = {}
    <2>1. NewestIn(d, b, r) = Absent /\ \A j \in 1..Len(b) : d[b[j]].recs[r] = Absent
        BY <1>7 DEF NewestIn, Holding
    <2>2. CASE Holding(d, a, r) # {}
        <3>0. PICK j : Decides(d, a, r, j) /\ NewestIn(d, a, r) = d[a[j]].recs[r]
            BY <1>1, <2>2, NewestProperties
        <3>1. /\ j \in 1..Len(a)
              /\ d[a[j]].recs[r] # Absent /\ NewestIn(d, a, r) = d[a[j]].recs[r]
              /\ \A k \in (j + 1)..Len(a) : d[a[k]].recs[r] = Absent
            BY <3>0 DEF Decides
        <3>2. ASSUME NEW k \in (j + 1)..Len(t) PROVE d[t[k]].recs[r] = Absent
            <4>1. k \in 1..Len(t)
                <5>1. j \in 1..Len(a)
                    BY <3>1
                <5> QED
                    BY <1>1, <1>2, <5>1
            <4>2. CASE k \in 1..Len(a)
                BY <1>1, <1>3, <3>1, <4>2
            <4>3. CASE k \notin 1..Len(a)
                BY <1>5, <2>1, <4>1, <4>3
            <4> QED
                BY <4>2, <4>3
        <3>4. j \in 1..Len(t) /\ d[t[j]].recs[r] # Absent /\ Len(t) \in Nat
            BY <1>2, <1>3, <3>1
        <3>3. NewestIn(d, t, r) = d[t[j]].recs[r]
            <4>1. \A k \in (j + 1)..Len(t) : d[t[k]].recs[r] = Absent
                BY <3>2
            <4>2. Decides(d, t, r, j)
                BY <3>4, <4>1 DEF Decides
            <4> QED
                BY <3>4, <4>2, NewestIs
        <3> QED
            BY <1>3, <2>1, <3>1, <3>3 DEF Over
    <2>3. CASE Holding(d, a, r) = {}
        <3>1. NewestIn(d, a, r) = Absent /\ \A j \in 1..Len(a) : d[a[j]].recs[r] = Absent
            BY <2>3 DEF NewestIn, Holding
        <3>2. \A i \in 1..Len(t) : d[t[i]].recs[r] = Absent
            BY <1>3, <1>5, <2>1, <3>1
        <3>3. NewestIn(d, t, r) = Absent
            BY <3>2, NewestNone
        <3> QED
            BY <2>1, <3>1, <3>3 DEF Over
    <2> QED
        BY <2>2, <2>3
<1> QED
    BY <1>6, <1>7

LEMMA NewestConcat ==
    ASSUME NEW d, NEW a \in Seq(Tables), NEW b \in Seq(Tables), NEW r
    PROVE  NewestIn(d, a \o b, r) = Over(NewestIn(d, b, r), NewestIn(d, a, r))
<1>1. ASSUME NEW t, t = a \o b
      PROVE  NewestIn(d, t, r) = Over(NewestIn(d, b, r), NewestIn(d, a, r))
    <2>1. t \in Seq(Tables) /\ Joins(t, a, b)
        BY <1>1, ConcatProperties DEF Joins
    <2> QED
        BY <2>1, NewestSplit
<1> QED
    BY <1>1, Zenon

LEMMA NewestOne ==
    ASSUME NEW d, NEW id \in Tables, NEW r
    PROVE  NewestIn(d, <<id>>, r) = d[id].recs[r] /\ NewestIn(d, <<>>, r) = Absent
<1>1. <<id>> \in Seq(Tables) /\ Len(<<id>>) = 1 /\ <<id>>[1] = id
    OBVIOUS
<1> DEFINE s == <<id>>
<1>2. s \in Seq(Tables) /\ Len(s) = 1 /\ s[1] = id
    BY <1>1
<1> HIDE DEF s
<1>3. NewestIn(d, s, r) = d[id].recs[r]
    <2>1. CASE d[id].recs[r] = Absent
        <3>1. \A i \in 1..Len(s) : d[s[i]].recs[r] = Absent
            BY <1>2, <2>1
        <3> QED
            BY <2>1, <3>1, NewestNone
    <2>2. CASE d[id].recs[r] # Absent
        <3>1. Len(s) \in Nat /\ Decides(d, s, r, 1)
            BY <1>2, <2>2 DEF Decides
        <3>2. NewestIn(d, s, r) = d[s[1]].recs[r]
            BY <3>1, NewestIs
        <3> QED
            BY <1>2, <3>2
    <2> QED
        BY <2>1, <2>2
<1>4. NewestIn(d, <<>>, r) = Absent
    BY DEF NewestIn, Holding
<1> QED
    BY <1>3, <1>4 DEF s

(* A transaction's table shows what it changes, and nothing else.            *)
LEMMA AppendView ==
    ASSUME NEW d, NEW s \in Seq(Tables), NEW id \in Tables, NEW r \in Refs
    PROVE  ViewIn(d, Append(s, id))[r] = IF d[id].recs[r] = Absent THEN ViewIn(d, s)[r]
                                         ELSE d[id].recs[r]
<1>1. Append(s, id) = s \o <<id>> /\ <<id>> \in Seq(Tables)
    BY AppendIsConcat
<1>2. NewestIn(d, s \o <<id>>, r) = Over(NewestIn(d, <<id>>, r), NewestIn(d, s, r))
    BY <1>1, NewestConcat
<1>3. NewestIn(d, Append(s, id), r) = Over(d[id].recs[r], NewestIn(d, s, r))
    BY <1>1, <1>2, NewestOne
<1> QED
    BY <1>3 DEF ViewIn, Over

(* Merging shows nothing new: a deletion is left out only at the bottom.     *)
LEMMA ReplacedView ==
    ASSUME Inv, NEW p \in Procs, BottomOK(p), pc[p] = "replace"
    PROVE  ViewIn(data, Replaced(p)) = ViewIn(data, list)
<1> DEFINE k == Min(Offsets(p, list))
           M == Merging(p)
           A == Below(p)
           B == Above(p)
           Mid == IF IsEmptyTable(p) THEN <<>> ELSE <<Merged(p)>>
<1>0. pc[p] \in Compacting /\ pc[p] \in Replacing /\ Offsets(p, list) # {}
    BY InvParts DEF ListLockOK, Compacting, Replacing
<1>1. /\ k \in Nat /\ Len(M) \in Nat \ {0} /\ Len(list) \in Nat /\ k + Len(M) <= Len(list)
      /\ \A i \in 1..Len(M) : list[k + i] = M[i]
      /\ Sound(A) /\ Len(A) = k /\ \A i \in 1..k : A[i] = list[i]
      /\ Sound(B) /\ Len(B) = Len(list) - k - Len(M)
      /\ \A i \in 1..(Len(list) - k - Len(M)) : B[i] = list[k + Len(M) + i]
    BY <1>0, ListParts
<1>2. /\ SoundIn(data, Unlisted, M) /\ Len(M) = last[p] - first[p] + 1
      /\ \A i \in 1..(last[p] - first[p] + 1) : M[i] = tables[p][first[p] + i - 1]
    BY <1>0, MergingSound
<1>3. Replaced(p) = (A \o Mid) \o B
    BY DEF Replaced, Below, Above
<1>4. A \in Seq(Tables) /\ B \in Seq(Tables) /\ M \in Seq(Tables) /\ list \in Seq(Tables)
    BY <1>1, <1>2, InvParts DEF Sound, SoundIn, DiskOK
<1>5. Mid \in Seq(Tables)
    BY TableNames
<1>6. \A r \in Refs : NewestIn(data, Mid, r) = Compacted(p)[r]
    <2>1. CASE IsEmptyTable(p)
        BY <2>1, TableNames, NewestOne DEF IsEmptyTable
    <2>2. CASE ~IsEmptyTable(p)
        <3>1. data[Merged(p)].recs = Compacted(p)
            <4>1. data[Merged(p)] = [max |-> data[tables[p][last[p]]].max, recs |-> Compacted(p)]
                BY <2>2, InvParts DEF WrittenOK
            <4> QED
                BY <4>1
        <3> QED
            BY <2>2, <3>1, TableNames, NewestOne
    <2> QED
        BY <2>1, <2>2
<1> HIDE DEF k, M, A, B, Mid
<1>7. list = (A \o M) \o B
    <2> DEFINE C == A \o M
    <2>1. /\ C \in Seq(Tables) /\ Len(C) = k + Len(M)
          /\ \A i \in 1..(k + Len(M)) : C[i] = IF i <= k THEN A[i] ELSE M[i - k]
        <3>1. C \in Seq(Tables) /\ Joins(C, A, M)
            BY <1>4, ConcatProperties DEF Joins
        <3>2. Len(A) = k
            BY <1>1
        <3> HIDE DEF C
        <3> QED
            BY <3>1, <3>2 DEF Joins
    <2> HIDE DEF C
    <2>2. ASSUME NEW i \in 1..(k + Len(M)) PROVE C[i] = list[i]
        <3>1. CASE i <= k
            BY <1>1, <2>1, <3>1
        <3>2. CASE ~ (i <= k)
            <4>1. i - k \in 1..Len(M) /\ k + (i - k) = i
                BY <1>1, <3>2
            <4> QED
                BY <1>1, <2>1, <3>2, <4>1
        <3> QED
            BY <3>1, <3>2
    <2>3. /\ C \o B \in Seq(Tables) /\ Len(C \o B) = Len(C) + Len(B)
          /\ \A i \in 1..(Len(C) + Len(B)) : (C \o B)[i] = IF i <= Len(C) THEN C[i] ELSE B[i - Len(C)]
        BY <1>4, <2>1, ConcatProperties
    <2>4. Len(C) + Len(B) = Len(list)
        BY <1>1, <2>1
    <2>5. ASSUME NEW i \in 1..Len(list) PROVE (C \o B)[i] = list[i]
        <3>1. CASE i <= Len(C)
            <4>1. i \in 1..(k + Len(M))
                BY <1>1, <2>1, <3>1
            <4> QED
                BY <2>2, <2>3, <2>4, <3>1, <4>1
        <3>2. CASE ~ (i <= Len(C))
            <4>1. i - Len(C) \in 1..(Len(list) - k - Len(M)) /\ k + Len(M) + (i - Len(C)) = i
                BY <1>1, <2>1, <3>2
            <4>2. B[i - Len(C)] = list[i]
                BY <1>1, <4>1
            <4> QED
                BY <2>3, <2>4, <3>2, <4>2
        <3> QED
            BY <3>1, <3>2
    <2>6. list = C \o B
        BY <1>4, <2>3, <2>4, <2>5, SeqEqual
    <2> QED
        BY <2>6 DEF C
<1>8. first[p] = 1 => \A r : NewestIn(data, A, r) = Absent
    <2> SUFFICES ASSUME first[p] = 1 PROVE Len(A) = 0
        BY NewestNone
    <2>1. M[1] = tables[p][1] /\ 1 \in 1..Len(M)
        <3>1. 1 \in 1..(last[p] - first[p] + 1) /\ first[p] + 1 - 1 = 1
            BY <1>1, <1>2
        <3> QED
            BY <1>2, <3>1
    <2>2. list[k + 1] = list[1]
        BY <1>0, <1>1, <2>1 DEF BottomOK
    <2>3. k + 1 \in 1..Len(list) /\ 1 \in 1..Len(list)
        BY <1>1
    <2>4. k + 1 = 1
        BY <2>2, <2>3, InvParts, SoundTypes DEF StackInv
    <2> QED
        BY <1>1, <2>4
<1>9. ASSUME NEW r \in Refs PROVE ViewIn(data, Replaced(p))[r] = ViewIn(data, list)[r]
    <2>1. A \o Mid \in Seq(Tables) /\ A \o M \in Seq(Tables)
        BY <1>4, <1>5, ConcatProperties
    <2>2. NewestIn(data, Replaced(p), r) =
            Over(NewestIn(data, B, r), Over(Compacted(p)[r], NewestIn(data, A, r)))
        <3>1. NewestIn(data, A \o Mid, r) = Over(NewestIn(data, Mid, r), NewestIn(data, A, r))
            BY <1>4, <1>5, NewestConcat
        <3>2. ASSUME NEW c, c = A \o Mid
              PROVE  NewestIn(data, c \o B, r) = Over(NewestIn(data, B, r), NewestIn(data, c, r))
            <4>1. c \in Seq(Tables)
                BY <2>1, <3>2, Zenon
            <4> QED
                BY <1>4, <4>1, NewestConcat
        <3> QED
            BY <1>3, <1>6, <3>1, <3>2, Zenon
    <2>3. NewestIn(data, list, r) =
            Over(NewestIn(data, B, r), Over(NewestIn(data, M, r), NewestIn(data, A, r)))
        <3>1. NewestIn(data, A \o M, r) = Over(NewestIn(data, M, r), NewestIn(data, A, r))
            BY <1>4, NewestConcat
        <3>2. ASSUME NEW c, c = A \o M
              PROVE  NewestIn(data, c \o B, r) = Over(NewestIn(data, B, r), NewestIn(data, c, r))
            <4>1. c \in Seq(Tables)
                BY <2>1, <3>2, Zenon
            <4> QED
                BY <1>4, <4>1, NewestConcat
        <3> QED
            BY <1>7, <3>1, <3>2, Zenon
    <2>4. Compacted(p)[r] = IF first[p] = 1 /\ NewestIn(data, M, r) = None THEN Absent
                            ELSE NewestIn(data, M, r)
        BY CompactedIs DEF CompactedIn, M
    <2>5. Absent # None
        BY Kinds DEF Value0
    <2> QED
        BY <1>8, <2>2, <2>3, <2>4, <2>5 DEF ViewIn, Over
<1> QED
    BY <1>9 DEF ViewIn

-----------------------------------------------------------------------------
(* The refinement: what a step is, seen through Store. *)

Changed(t) == IF ~committed[t] THEN {} ELSE {r \in Refs \ refused[t] : want[t][r] # Keep}

Stutters ==
    /\ View(list)' = View(list) /\ UNCHANGED <<want, expect, refused>>
    /\ \A t \in Txns : Changed(t)' = Changed(t) /\ Outcome(t)' = Outcome(t)

LEMMA StoreStutters ==
    ASSUME Stutters PROVE UNCHANGED Store!vars
<1>1. [t \in Txns |-> IF ~committed[t] THEN {} ELSE {r \in Refs \ refused[t] : want[t][r] # Keep}]'
        = [t \in Txns |-> IF ~committed[t] THEN {} ELSE {r \in Refs \ refused[t] : want[t][r] # Keep}]
    BY DEF Stutters, Changed
<1>2. [t \in Txns |-> Outcome(t)]' = [t \in Txns |-> Outcome(t)]
    BY DEF Stutters
<1>3. View(list)' = View(list) /\ UNCHANGED <<want, expect, refused>>
    BY DEF Stutters
<1> QED
    BY <1>1, <1>2, <1>3 DEF Store!vars

(* t changes all its refs that were not refused.                             *)
Applies(t) ==
    /\ Outcome(t) = "open" /\ Changed(t) = {}
    /\ \A r \in Changed(t)' : r \notin refused[t] /\ expect[t][r] \in {Any, View(list)[r]}
    /\ View(list)' = [r \in Refs |-> IF r \in Changed(t)' THEN want[t][r] ELSE View(list)[r]]
    /\ UNCHANGED <<want, expect, refused>>
    /\ \A u \in Txns : (u # t => Changed(u)' = Changed(u)) /\ Outcome(u)' = Outcome(u)

LEMMA StoreApplies ==
    ASSUME NEW t \in Txns, Applies(t), NEW R, R = Changed(t)' PROVE Store!Apply(t, R)
<1> DEFINE D == [u \in Txns |-> IF ~committed[u] THEN {}
                                ELSE {r \in Refs \ refused[u] : want[u][r] # Keep}]
           O == [u \in Txns |-> Outcome(u)]
<1>1. O' = O /\ O[t] = "open"
    BY DEF Applies
<1>2. D[t] = {} /\ \A u \in Txns : D'[u] = IF u = t THEN R ELSE D[u]
    <2>1. \A u \in Txns : D[u] = Changed(u) /\ D'[u] = Changed(u)'
        BY DEF Changed
    <2> HIDE DEF D
    <2> QED
        BY <2>1 DEF Applies
<1>3. D' = [D EXCEPT ![t] = D[t] \cup R]
    <2>1. D' = [u \in Txns |-> IF u = t THEN R ELSE D[u]]
        BY <1>2
    <2>2. D = [u \in Txns |-> D[u]]
        OBVIOUS
    <2> HIDE DEF D
    <2> QED
        BY <1>2, <2>1, <2>2
<1>4. R \subseteq {r \in Refs : want[t][r] # Keep} \ (D[t] \cup refused[t])
    <2>1. R \subseteq {r \in Refs : want'[t][r] # Keep} /\ want' = want
        BY DEF Applies, Changed
    <2>2. \A r \in R : r \notin refused[t]
        BY DEF Applies
    <2> HIDE DEF D
    <2> QED
        BY <1>2, <2>1, <2>2
<1>5. /\ \A r \in R : expect[t][r] \in {Any, View(list)[r]}
      /\ View(list)' = [r \in Refs |-> IF r \in R THEN want[t][r] ELSE View(list)[r]]
      /\ UNCHANGED <<want, expect, refused>>
    BY DEF Applies
<1> QED
    BY <1>1, <1>3, <1>4, <1>5 DEF Store!Apply, Store!Touched

Refuses(t, R) ==
    /\ Outcome(t) = "open" /\ Changed(t) = {} /\ refused[t] = {}
    /\ refused' = [refused EXCEPT ![t] = R]
    /\ View(list)' = View(list) /\ UNCHANGED <<want, expect>>
    /\ \A u \in Txns : Changed(u)' = Changed(u) /\ Outcome(u)' = Outcome(u)

LEMMA StoreRefuses ==
    ASSUME NEW t \in Txns, NEW R \in SUBSET Refs, Refuses(t, R) PROVE Store!Refuse(t, R)
<1> DEFINE D == [u \in Txns |-> IF ~committed[u] THEN {}
                                ELSE {r \in Refs \ refused[u] : want[u][r] # Keep}]
           O == [u \in Txns |-> Outcome(u)]
<1>1. O' = O /\ O[t] = "open"
    BY DEF Refuses
<1>2. D' = D /\ R \cap D[t] = {}
    BY DEF Refuses, Changed
<1>3. refused' = [refused EXCEPT ![t] = refused[t] \cup R]
    BY DEF Refuses
<1>4. View(list)' = View(list) /\ UNCHANGED <<want, expect>>
    BY DEF Refuses
<1> QED
    BY <1>1, <1>2, <1>3, <1>4 DEF Store!Refuse

Begins(t) ==
    /\ Outcome(t) = "none" /\ Outcome(t)' = "open"
    /\ \A u \in Txns : Changed(u)' = Changed(u) /\ (u # t => Outcome(u)' = Outcome(u))
    /\ \E w \in [Refs -> Vals \cup {None, Keep}], e \in [Refs -> Vals \cup {None, Any}] :
         want' = [want EXCEPT ![t] = w] /\ expect' = [expect EXCEPT ![t] = e]
    /\ View(list)' = View(list) /\ UNCHANGED refused

LEMMA StoreBegins ==
    ASSUME NEW t \in Txns, Begins(t) PROVE Store!Begin(t)
<1> DEFINE D == [u \in Txns |-> IF ~committed[u] THEN {}
                                ELSE {r \in Refs \ refused[u] : want[u][r] # Keep}]
           O == [u \in Txns |-> Outcome(u)]
<1>1. O' = [O EXCEPT ![t] = "open"] /\ O[t] = "none"
    <2>1. \A u \in Txns : Outcome(u)' = IF u = t THEN "open" ELSE Outcome(u)
        BY DEF Begins
    <2> QED
        BY <2>1 DEF Begins
<1>2. D' = D
    BY DEF Begins, Changed
<1>3. /\ \E w \in [Refs -> Vals \cup {None, Keep}], e \in [Refs -> Vals \cup {None, Any}] :
           want' = [want EXCEPT ![t] = w] /\ expect' = [expect EXCEPT ![t] = e]
      /\ View(list)' = View(list) /\ UNCHANGED refused
    BY DEF Begins
<1> QED
    BY <1>1, <1>2, <1>3 DEF Store!Begin

Ends(t) ==
    /\ Outcome(t) = "open" /\ Outcome(t)' \in {"ok", "failed"}
    /\ Outcome(t)' = "ok" => committed[t]
    /\ \A u \in Txns : Changed(u)' = Changed(u) /\ (u # t => Outcome(u)' = Outcome(u))
    /\ View(list)' = View(list) /\ UNCHANGED <<want, expect, refused>>

LEMMA StoreEnds ==
    ASSUME NEW t \in Txns, Ends(t) PROVE Store!End(t)
<1> DEFINE D == [u \in Txns |-> IF ~committed[u] THEN {}
                                ELSE {r \in Refs \ refused[u] : want[u][r] # Keep}]
           O == [u \in Txns |-> Outcome(u)]
<1>1. PICK o \in {"ok", "failed"} : Outcome(t)' = o
    BY DEF Ends
<1>2. O' = [O EXCEPT ![t] = o] /\ O[t] = "open"
    <2>1. \A u \in Txns : Outcome(u)' = IF u = t THEN o ELSE Outcome(u)
        BY <1>1 DEF Ends
    <2> QED
        BY <2>1 DEF Ends
<1>3. D' = D
    BY DEF Ends, Changed
<1>4. o = "ok" => {x \in Refs : want[t][x] # Keep} \subseteq D[t] \cup refused[t]
    BY <1>1 DEF Ends
<1>5. View(list)' = View(list) /\ UNCHANGED <<want, expect, refused>>
    BY DEF Ends
<1> QED
    BY <1>2, <1>3, <1>4, <1>5 DEF Store!End, Store!Touched

Maps ==
    \/ Stutters
    \/ \E t \in Txns : \/ Begins(t) \/ Ends(t) \/ Applies(t)
                       \/ \E R \in SUBSET Refs : Refuses(t, R)

LEMMA StoreMaps == ASSUME Maps PROVE [Store!Next]_(Store!vars)
<1>1. CASE Stutters
    BY <1>1, StoreStutters
<1>2. ASSUME NEW t \in Txns, Begins(t) \/ Ends(t) PROVE Store!Next
    BY <1>2, StoreBegins, StoreEnds DEF Store!Next
<1>3. ASSUME NEW t \in Txns, NEW R \in SUBSET Refs, Refuses(t, R) PROVE Store!Next
    BY <1>3, StoreRefuses DEF Store!Next
<1>4. ASSUME NEW t \in Txns, Applies(t) PROVE Store!Next
    <2>1. PICK R \in SUBSET Refs : R = Changed(t)'
        BY DEF Changed
    <2>2. Store!Apply(t, R)
        BY <1>4, <2>1, StoreApplies
    <2> QED
        BY <2>1, <2>2 DEF Store!Next
<1> QED
    BY <1>1, <1>2, <1>3, <1>4 DEF Maps

-----------------------------------------------------------------------------
(* What has to be shown of a step of p. *)

Lists(p) ==
    \/ list' = list
    \/ p \in Txns /\ list' = Append(list, Added(p)) /\ llock = p
    \/ p \in Procs /\ pc[p] = "replace" /\ list' = Replaced(p) /\ llock = p

Good(p) ==
    /\ Only(p) /\ Lists(p) /\ Maps
    /\ p \in Procs => BottomOK(p)'
    /\ p \in Txns => ExpectOK(p)'

Joined(a, b, c) == (a \o b) \o c

LEMMA JoinedHas ==
    ASSUME NEW a \in Seq(Tables), NEW b \in Seq(Tables), NEW c \in Seq(Tables), NEW s,
           s = Joined(a, b, c)
    PROVE  /\ s \in Seq(Tables)
           /\ \A i \in 1..Len(a) : i \in 1..Len(s) /\ s[i] = a[i]
           /\ \A i \in 1..Len(c) : \E j \in 1..Len(s) : s[j] = c[i]
<1>1. ASSUME NEW t, t = a \o b PROVE t \in Seq(Tables) /\ Joins(t, a, b)
    BY <1>1, ConcatProperties DEF Joins
<1>2. PICK t \in Seq(Tables) : t = a \o b /\ Joins(t, a, b)
    BY <1>1, Zenon
<1>3. s \in Seq(Tables) /\ Joins(s, t, c)
    <2>1. s = t \o c
        BY <1>2, Zenon DEF Joined
    <2> QED
        BY <2>1, ConcatProperties DEF Joins
<1>4. Len(a) \in Nat /\ Len(b) \in Nat /\ Len(c) \in Nat /\ Len(t) \in Nat /\ Len(s) \in Nat
    BY <1>3
<1>5. /\ Len(t) = Len(a) + Len(b)
      /\ \A i \in 1..(Len(a) + Len(b)) : t[i] = IF i <= Len(a) THEN a[i] ELSE b[i - Len(a)]
    BY <1>2 DEF Joins
<1>6. /\ Len(s) = Len(t) + Len(c)
      /\ \A i \in 1..(Len(t) + Len(c)) : s[i] = IF i <= Len(t) THEN t[i] ELSE c[i - Len(t)]
    BY <1>3 DEF Joins
<1>7. ASSUME NEW i \in 1..Len(a) PROVE i \in 1..Len(s) /\ s[i] = a[i]
    <2>1. /\ i \in 1..(Len(a) + Len(b)) /\ i <= Len(a)
          /\ i \in 1..(Len(t) + Len(c)) /\ i <= Len(t)
        BY <1>4, <1>5
    <2> QED
        BY <1>5, <1>6, <2>1
<1>8. ASSUME NEW i \in 1..Len(c) PROVE \E j \in 1..Len(s) : s[j] = c[i]
    <2>1. /\ Len(t) + i \in 1..(Len(t) + Len(c)) /\ ~ (Len(t) + i <= Len(t))
          /\ Len(t) + i - Len(t) = i
        BY <1>4
    <2> QED
        BY <1>6, <2>1
<1> QED
    BY <1>3, <1>7, <1>8

(* The tables that others merge stay where they are.                         *)
LEMMA BottomOthers ==
    ASSUME Inv, StoreInv, NEW p \in Users, Only(p), Lists(p), NEW q \in Procs \ {p}
    PROVE  BottomOK(q)'
<1>1. /\ pc'[q] = pc[q] /\ first'[q] = first[q] /\ tables'[q] = tables[q] /\ Locked(q)' = Locked(q)
      /\ q \in Users /\ BottomOK(q)
    BY Kinds DEF Only, OnlyPlace, OnlyRange, OnlyHandle, OnlyLocks, StoreInv
<1>2. list \in Seq(Tables) /\ Len(list) \in Nat
    BY InvParts DEF DiskOK
<1>3. CASE list' = list
    BY <1>1, <1>3 DEF BottomOK
<1>4. pc[q] \in Replacing /\ first[q] = 1 => list[1] \in Locked(q) /\ list[1] \in Range(list)
    <2> SUFFICES ASSUME pc[q] \in Replacing, first[q] = 1
                 PROVE  list[1] \in Locked(q) /\ list[1] \in Range(list)
        OBVIOUS
    <2>1. Locked(q) = {tables[q][i] : i \in first[q]..last[q]} /\ first[q] \in 1..last[q]
        BY InvParts DEF TableLocksOK, Replacing, Compacting
    <2>2. first[q] \in first[q]..last[q]
        BY <2>1, InvParts DEF RangesOK
    <2>3. list[1] \in Locked(q)
        BY <1>1, <2>1, <2>2 DEF BottomOK
    <2> QED
        BY <1>1, <2>3 DEF BottomOK, Replacing, Compacting
<1>5. CASE p \in Txns /\ list' = Append(list, Added(p))
    <2>1. /\ list' \in Seq(Tables) /\ Len(list') = Len(list) + 1
          /\ \A i \in 1..Len(list) : list'[i] = list[i]
        BY <1>2, <1>5, TableNames
    <2>2. Range(list) \subseteq Range(list')
        <3>1. ASSUME NEW x \in Range(list) PROVE x \in Range(list')
            <4>1. PICK i \in 1..Len(list) : x = list[i]
                BY <1>2, RangeMembers
            <4>2. i \in 1..Len(list') /\ x = list'[i]
                BY <1>2, <2>1, <4>1
            <4> QED
                BY <2>1, <4>2, RangeMembers
        <3> QED
            BY <3>1
    <2>3. list[1] \in Range(list) => list'[1] = list[1]
        <3>1. ASSUME NEW i \in 1..Len(list) PROVE 1 \in 1..Len(list)
            BY <1>2
        <3> QED
            BY <1>2, <2>1, <3>1, RangeMembers
    <2> QED
        BY <1>1, <1>4, <2>2, <2>3 DEF BottomOK
<1>6. CASE p \in Procs /\ pc[p] = "replace" /\ list' = Replaced(p)
    <2> DEFINE k == Min(Offsets(p, list))
               m == Len(Merging(p))
               Mid == IF IsEmptyTable(p) THEN <<>> ELSE <<Merged(p)>>
               A == Below(p)
               B == Above(p)
    <2>1. /\ k \in Nat /\ m \in Nat \ {0} /\ k + m <= Len(list)
          /\ \A i \in 1..m : list[k + i] = Merging(p)[i]
          /\ Sound(A) /\ Len(A) = k /\ \A i \in 1..k : A[i] = list[i]
          /\ Sound(B) /\ Len(B) = Len(list) - k - m
          /\ \A i \in 1..(Len(list) - k - m) : B[i] = list[k + m + i]
        BY <1>6, InvParts, ListParts DEF ListLockOK, Compacting
    <2>2. Locked(p) = {tables[p][i] : i \in first[p]..last[p]}
        BY <1>6, InvParts DEF TableLocksOK, Replacing
    <2>3. /\ m = last[p] - first[p] + 1 /\ first[p] \in Nat /\ last[p] \in Nat
          /\ \A i \in 1..(last[p] - first[p] + 1) : Merging(p)[i] = tables[p][first[p] + i - 1]
        BY <1>6, MergingSound, InvParts DEF RangesOK, Compacting
    <2>4. ASSUME NEW i \in 1..m PROVE list[k + i] \in Locked(p)
        <3>1. first[p] + i - 1 \in first[p]..last[p] /\ i \in 1..(last[p] - first[p] + 1)
            BY <2>3
        <3>2. list[k + i] = tables[p][first[p] + i - 1]
            <4>1. list[k + i] = Merging(p)[i]
                BY <2>1
            <4>2. Merging(p)[i] = tables[p][first[p] + i - 1]
                BY <2>3, <3>1
            <4> QED
                BY <4>1, <4>2, Zenon
        <3>3. tables[p][first[p] + i - 1] \in Locked(p)
            BY <2>2, <3>1
        <3> QED
            BY <3>2, <3>3, Zenon
    <2>5. \A id \in Locked(q) : id \notin Locked(p)
        BY DEF Locked
    <2>6. A \in Seq(Tables) /\ B \in Seq(Tables) /\ Mid \in Seq(Tables) /\ list' = Joined(A, Mid, B)
        BY <1>6, <2>1, TableNames DEF Sound, SoundIn, Replaced, Below, Above, Joined
    <2> HIDE DEF k, m, Mid, A, B
    <2>7. /\ list' \in Seq(Tables)
          /\ \A i \in 1..Len(A) : i \in 1..Len(list') /\ list'[i] = A[i]
          /\ \A i \in 1..Len(B) : \E j \in 1..Len(list') : list'[j] = B[i]
        <3>1. PICK a \in Seq(Tables), b \in Seq(Tables), c \in Seq(Tables) :
                a = A /\ b = Mid /\ c = B
            BY <2>6
        <3>2. PICK s : s = list'
            OBVIOUS
        <3>3. s = Joined(a, b, c)
            BY <2>6, <3>1, <3>2
        <3>4. /\ s \in Seq(Tables)
              /\ \A i \in 1..Len(a) : i \in 1..Len(s) /\ s[i] = a[i]
              /\ \A i \in 1..Len(c) : \E j \in 1..Len(s) : s[j] = c[i]
            BY <3>3, JoinedHas
        <3> QED
            BY <3>1, <3>2, <3>4
    <2>8. ASSUME NEW id \in Locked(q) \cap Range(list) PROVE id \in Range(list')
        <3>1. PICK x \in 1..Len(list) : id = list[x]
            BY <1>2, RangeMembers
        <3>2. ~ (x \in (k + 1)..(k + m))
            <4>1. ASSUME x \in (k + 1)..(k + m) PROVE FALSE
                <5>1. x - k \in 1..m /\ k + (x - k) = x
                    BY <2>1, <4>1
                <5> QED
                    BY <2>4, <2>5, <2>8, <3>1, <5>1
            <4> QED
                BY <4>1
        <3>3. CASE x \in 1..k
            <4>1. A[x] = id /\ x \in 1..Len(A)
                BY <2>1, <3>1, <3>3
            <4> QED
                BY <2>7, <4>1, RangeMembers
        <3>4. CASE x > k + m
            <4>1. x - (k + m) \in 1..(Len(list) - k - m) /\ k + m + (x - (k + m)) = x
                BY <1>2, <2>1, <3>4
            <4>2. B[x - (k + m)] = id /\ x - (k + m) \in 1..Len(B)
                BY <2>1, <3>1, <4>1
            <4> QED
                BY <2>7, <4>2, RangeMembers
        <3> QED
            BY <1>2, <2>1, <3>2, <3>3, <3>4
    <2>9. ASSUME list[1] \in Locked(q) PROVE list'[1] = list[1]
        <3>1. k # 0
            <4>1. 1 \in 1..m /\ (k = 0 => k + 1 = 1)
                BY <2>1
            <4> QED
                BY <2>4, <2>5, <2>9, <4>1
        <3>2. 1 \in 1..k /\ 1 \in 1..Len(A)
            BY <2>1, <3>1
        <3> QED
            BY <2>1, <2>7, <3>2
    <2> QED
        BY <1>1, <1>4, <2>8, <2>9 DEF BottomOK
<1> QED
    BY <1>3, <1>5, <1>6 DEF Lists

LEMMA ExpectOthers ==
    ASSUME Inv, StoreInv, Step, NEW p \in Users, Only(p), Lists(p), NEW t \in Txns \ {p}
    PROVE  ExpectOK(t)'
<1>1. /\ pc'[t] = pc[t] /\ ret'[t] = ret[t] /\ t \in Users /\ t \in Procs /\ ExpectOK(t)
      /\ expect'[t] = expect[t] /\ refused'[t] = refused[t] /\ committed'[t] = committed[t]
    BY Kinds DEF Only, OnlyPlace, OnlyTxn, StoreInv
<1>2. \A L : At(t, L)' = At(t, L)
    BY <1>1 DEF At, Loading
<1>3. pc[t] \in {"write", "commit"} => list' = list
    BY <1>1, Kinds, InvParts DEF ListLockOK, Lists
<1>4. list' = list => View(list)' = View(list)
    <2>1. View(list)' = ViewIn(data', list')
        BY DEF View, ViewIn, Newest, NewestIn, Holding
    <2> QED
        BY <2>1, InvParts, ViewStays DEF StackInv
<1> QED
    BY <1>1, <1>2, <1>3, <1>4 DEF ExpectOK

LEMMA GoodKeeps ==
    ASSUME Inv, StoreInv, Step, NEW p \in Users, Good(p) PROVE StoreInv'
BY BottomOthers, ExpectOthers DEF StoreInv, Good

(* Steps that change neither the list nor a transaction.                     *)
Calm(p) ==
    /\ Outcome(p)' = Outcome(p) /\ pc'[p] \notin {"write", "commit"}
    /\ At(p, Unchecked)' => At(p, Unchecked)
    /\ At(p, Undone) => At(p, Undone)'

LEMMA CalmGood ==
    ASSUME Inv, StoreInv, Step, NEW p \in Users, Only(p), list' = list, UNCHANGED <<request, txn>>,
           p \in Txns => Calm(p), p \in Procs => BottomOK(p)'
    PROVE  Good(p)
<1>1. View(list)' = View(list)
    <2>1. View(list)' = ViewIn(data', list')
        BY DEF View, ViewIn, Newest, NewestIn, Holding
    <2> QED
        BY <2>1, InvParts, ViewStays DEF StackInv
<1>2. UNCHANGED <<want, expect, refused, committed>>
    BY DEF request, txn
<1>3. \A t \in Txns : Changed(t)' = Changed(t)
    BY <1>2 DEF Changed
<1>4. \A t \in Txns : Outcome(t)' = Outcome(t)
    BY Kinds DEF Calm, Outcome, Only, OnlyPlace
<1>5. Maps
    BY <1>1, <1>2, <1>3, <1>4 DEF Maps, Stutters
<1>6. p \in Txns => ExpectOK(p)'
    BY <1>2 DEF Calm, ExpectOK, StoreInv
<1> QED
    BY <1>5, <1>6 DEF Good, Lists

LEMMA NotMerging ==
    ASSUME NEW p, pc'[p] \notin Compacting PROVE BottomOK(p)'
BY DEF BottomOK, Replacing, Compacting

(* Where a process stands when the list lock and the handle agree.           *)
Fresh == \A p \in Procs : pc[p] \in {"locktables", "merge"} => BottomOK(p)

LEMMA BottomFresh == Inv => Fresh
<1> SUFFICES ASSUME Inv, NEW p \in Procs, pc[p] \in {"locktables", "merge"} PROVE BottomOK(p)
    BY DEF Fresh
<1>1. tables[p] = list /\ list \in Seq(Tables) /\ Len(list) \in Nat
    BY InvParts DEF ListLockOK, DiskOK
<1>2. first[p] \in 1..last[p] /\ last[p] \in 1..Len(list)
    BY <1>1, InvParts DEF TableLocksOK, Compacting
<1>3. ASSUME NEW i \in first[p]..last[p] PROVE i \in 1..Len(list)
    BY <1>1, <1>2
<1>4. PICK m \in first[p]..(last[p] + 1) : Locked(p) = {list[i] : i \in m..last[p]}
    <2>1. CASE pc[p] = "locktables"
        <3>1. PICK n \in 0..(last[p] - first[p] + 1) :
                Locked(p) = {tables[p][i] : i \in (last[p] - n + 1)..last[p]}
            BY <2>1, InvParts DEF TableLocksOK
        <3>2. last[p] - n + 1 \in first[p]..(last[p] + 1)
            BY <1>2, <3>1
        <3> QED
            BY <1>1, <3>1, <3>2
    <2>2. CASE pc[p] = "merge"
        <3>1. Locked(p) = {tables[p][i] : i \in first[p]..last[p]}
            BY <2>2, InvParts DEF TableLocksOK, Replacing
        <3>2. first[p] \in first[p]..(last[p] + 1)
            BY <1>2
        <3> QED
            BY <1>1, <3>1, <3>2
    <2> QED
        BY <2>1, <2>2
<1>5. Locked(p) \subseteq Range(list)
    <2>1. ASSUME NEW i \in m..last[p] PROVE list[i] \in Range(list)
        <3>1. i \in first[p]..last[p]
            BY <1>2, <1>4
        <3> QED
            BY <1>1, <1>3, <3>1, RangeMembers
    <2> QED
        BY <1>4, <2>1
<1> QED
    BY <1>1, <1>5 DEF BottomOK

LEMMA BottomStays ==
    ASSUME StoreInv, NEW p \in Procs, pc[p] \in Replacing, UNCHANGED <<list, tlock, tables, first>>
    PROVE  BottomOK(p)'
BY DEF StoreInv, BottomOK, Replacing, Compacting, Locked

-----------------------------------------------------------------------------
(* The steps that show nothing. *)

LEMMA LoadStepGood ==
    ASSUME Inv, StoreInv, Step, NEW p \in Users, LoadStep(p) PROVE Good(p)
<1>1. Only(p)
    BY LoadOnly, OpenTableOnly, SwitchTablesOnly, TableMissingOnly DEF LoadStep
<1>2. UNCHANGED <<list, request, txn, ret>>
    BY DEF LoadStep, Load, OpenTable, SwitchTables, TableMissing, disk, loading
<1>3. Loading(p)
    BY DEF LoadStep, Load, OpenTable, SwitchTables, TableMissing, Loading
<1>4. p \in Procs => pc'[p] \in {"load", "open", "missing", ret[p]}
    <2>1. CASE TableMissing(p)
        BY <2>1, TableMissingOnly
    <2>2. CASE Load(p) \/ OpenTable(p) \/ SwitchTables(p)
        BY <1>3, <2>2, InvParts DEF Load, OpenTable, SwitchTables, Goto, PlacesOK, Loading
    <2> QED
        BY <2>1, <2>2 DEF LoadStep
<1>5. p \in Procs => ret[p] \in {"check", "auto", "unlink"}
    BY <1>3, LoadingPlaces
<1>6. p \in Procs => BottomOK(p)'
    BY <1>4, <1>5, NotMerging DEF Compacting
<1>7. p \in Txns => Calm(p)
    BY <1>2, <1>3, <1>4, <1>5, Kinds DEF Calm, Outcome, At, Loading, Unchecked, Undone, BeforeCommit
<1> QED
    BY <1>1, <1>2, <1>6, <1>7, CalmGood

(* A process that moves on, but not into a compaction.                       *)
LEMMA MovesGood ==
    ASSUME Inv, StoreInv, Step, NEW p \in Procs, Only(p), UNCHANGED <<list, request, txn>>,
           pc'[p] \notin Compacting, p \in Txns => Calm(p)
    PROVE  Good(p)
BY NotMerging, CalmGood, Kinds

LEMMA TxnMovesGood ==
    ASSUME Inv, StoreInv, Step, NEW p \in Txns, LockStack(p) \/ Abort(p) \/ AutoCompact(p)
    PROVE  Good(p)
<1>0. p \in Procs /\ p \in Users
    BY Kinds
<1>1. Only(p)
    BY LockStackOnly, AbortOnly, AutoCompactOnly
<1>2. UNCHANGED <<list, request, txn>>
    BY DEF LockStack, Abort, AutoCompact, disk
<1>3. \/ pc[p] = "start" /\ pc'[p] = "check"
      \/ pc[p] = "start" /\ pc'[p] = "load" /\ ret'[p] = "check"
      \/ pc[p] = "write" /\ pc'[p] = "undo"
      \/ pc[p] = "auto" /\ pc'[p] \in {"lock", "end"}
    BY <1>0, InvParts DEF LockStack, Abort, AutoCompact, ReloadIfStale, Reload, Compact, Goto, PlacesOK
<1>4. Calm(p) /\ pc'[p] \notin Compacting
    BY <1>3 DEF Calm, Outcome, At, Loading, Unchecked, Undone, BeforeCommit, Compacting
<1> QED
    BY <1>0, <1>1, <1>2, <1>4, MovesGood

LEMMA CleanersGood ==
    ASSUME Inv, StoreInv, Step, NEW p \in Optimizers, Optimize(p) \/ CleanStep(p)
    PROVE  Good(p)
<1>0. p \in Procs /\ p \in Users /\ p \notin Txns
    BY Kinds
<1>1. Only(p)
    BY OptimizeOnly, CleanLockOnly, SweepOnly, CleanDoneOnly DEF CleanStep
<1>2. UNCHANGED <<list, request, txn>>
    BY DEF Optimize, CleanStep, CleanLock, Sweep, CleanDone, disk
<1>3. pc'[p] \notin Compacting
    BY <1>0, InvParts DEF Optimize, CleanStep, CleanLock, Sweep, CleanDone, Compact, Exit, Goto,
       PlacesOK, Compacting
<1> QED
    BY <1>0, <1>1, <1>2, <1>3, MovesGood

LEMMA CompactMovesGood ==
    ASSUME Inv, StoreInv, Step, NEW p \in Procs, LockTimeout(p) \/ UnlinkTables(p)
    PROVE  Good(p)
<1>0. p \in Users
    BY Kinds
<1>1. Only(p)
    BY LockTimeoutOnly, UnlinkTablesOnly
<1>2. UNCHANGED <<list, request, txn>>
    BY DEF LockTimeout, UnlinkTables, disk
<1>3. /\ pc[p] \in {"start", "clean", "lock", "relock", "unlink"} /\ pc'[p] \in {"undo", "end"}
      /\ pc[p] = "start" => pc'[p] = "undo"
    BY <1>0, InvParts DEF LockTimeout, UnlinkTables, CompactFailed, Goto, PlacesOK
<1>4. Calm(p) /\ pc'[p] \notin Compacting
    BY <1>3 DEF Calm, Outcome, At, Loading, Unchecked, Undone, BeforeCommit, Compacting
<1> QED
    BY <1>1, <1>2, <1>4, MovesGood

LEMMA RestGood ==
    ASSUME Inv, StoreInv, Step, NEW p \in Procs, Only(p), UNCHANGED <<list, request, txn, pc, ret>>,
           pc[p] \in {"undo", "end", "crashed"}
    PROVE  Good(p)
<1>1. Calm(p) /\ pc'[p] \notin Compacting
    BY DEF Calm, Outcome, At, Loading, Unchecked, Undone, BeforeCommit, Compacting
<1> QED
    BY <1>1, MovesGood

LEMMA ReleasesGood ==
    ASSUME Inv, StoreInv, Step, NEW p \in Procs,
           ReleaseList(p) \/ \E id \in Tables : ReleaseTable(p, id)
    PROVE  Good(p)
<1>1. Only(p)
    BY ReleaseListOnly, ReleaseTableOnly
<1>2. UNCHANGED <<list, request, txn, pc, ret>> /\ pc[p] \in {"undo", "end", "crashed"}
    BY DEF ReleaseList, ReleaseTable, disk, loading
<1> QED
    BY <1>1, <1>2, RestGood

LEMMA CrashGood ==
    ASSUME Inv, StoreInv, Step, NEW p \in Procs, Crash(p) PROVE Good(p)
<1>1. UNCHANGED <<list, request, txn>>
    BY DEF Crash, disk
<1>2. pc[p] \notin {"idle", "done", "failed", "crashed"} /\ pc'[p] = "crashed"
    BY Kinds, InvParts DEF Crash, Ended, Exit, Goto, PlacesOK
<1>3. Calm(p) /\ pc'[p] \notin Compacting
    BY <1>2 DEF Calm, Outcome, At, Loading, Unchecked, Undone, BeforeCommit, Compacting
<1> QED
    BY <1>1, <1>3, CrashOnly, MovesGood

LEMMA ReadGood ==
    ASSUME Inv, StoreInv, Step, NEW q \in Readers, Read(q) PROVE Good(q)
<1>1. UNCHANGED <<list, request, txn>>
    BY DEF Read, disk
<1> QED
    BY <1>1, Kinds, ReadOnly, CalmGood

LEMMA CompactsGood ==
    ASSUME Inv, StoreInv, Step, Inv', NEW p \in Procs, CompactLock(p) \/ LockTable(p)
    PROVE  Good(p)
<1>0. p \in Users
    BY Kinds
<1>1. Only(p)
    BY CompactLockOnly, LockTableOnly
<1>2. UNCHANGED <<list, request, txn>>
    BY DEF CompactLock, LockTable, disk
<1>3. /\ pc[p] \in {"lock", "locktables"}
      /\ pc'[p] \in {"locktables", "merge", "end", "undo"}
    <2>1. CASE CompactLock(p)
        BY <1>0, <2>1, InvParts DEF CompactLock, CompactFailed, Goto, PlacesOK
    <2>2. CASE LockTable(p)
        <3>1. /\ pc[p] = "locktables"
              /\ pc' = pc \/ Goto(p, "merge") \/ Goto(p, CompactFailed(p)) \/ Goto(p, "undo")
            BY <2>2 DEF LockTable
        <3> QED
            BY <1>0, <3>1, InvParts DEF CompactFailed, Goto, PlacesOK
    <2> QED
        BY <2>1, <2>2
<1>4. BottomOK(p)'
    <2>1. Fresh'
        BY BottomFresh, PTL
    <2> QED
        BY <1>3, <2>1, NotMerging DEF Fresh, Compacting
<1>5. Calm(p)
    BY <1>3 DEF Calm, Outcome, At, Loading, Unchecked, Undone, BeforeCommit
<1> QED
    BY <1>0, <1>1, <1>2, <1>4, <1>5, CalmGood

LEMMA MergesGood ==
    ASSUME Inv, StoreInv, Step, NEW p \in Procs,
           MergeTables(p) \/ CompactRelock(p) \/ InstallTable(p)
    PROVE  Good(p)
<1>0. p \in Users
    BY Kinds
<1>1. Only(p)
    BY MergeTablesOnly, CompactRelockOnly, InstallTableOnly
<1>2. UNCHANGED <<list, request, txn, tlock, tables, first>>
    BY DEF MergeTables, CompactRelock, InstallTable, disk, locks, range
<1>3. /\ pc[p] \in {"merge", "relock", "install"}
      /\ pc'[p] \in {"relock", "install", "replace", "undo", "end"}
    BY <1>0, InvParts DEF MergeTables, CompactRelock, InstallTable, CompactFailed, Goto, PlacesOK
<1>4. BottomOK(p)'
    BY <1>2, <1>3, BottomStays DEF Replacing
<1>5. Calm(p)
    BY <1>3 DEF Calm, Outcome, At, Loading, Unchecked, Undone, BeforeCommit
<1> QED
    BY <1>0, <1>1, <1>2, <1>4, <1>5, CalmGood

LEMMA RemovesGood ==
    ASSUME Inv, StoreInv, Step, RemoveListLock \/ \E id \in Tables : RemoveTableLock(id)
    PROVE  \E p \in Users : Good(p)
<1>1. CASE RemoveListLock
    <2>1. PICK p \in Procs : p = llock
        BY <1>1 DEF RemoveListLock
    <2>2. OnlyLocks(p)
        BY <1>1, <2>1, InvParts DEF RemoveListLock, OnlyLocks, LocksOK, Locked
    <2>3. Only(p)
        BY <1>1, <2>2, RemovesOnly, Kinds DEF RemoveListLock
    <2>4. UNCHANGED <<list, request, txn, pc, ret>> /\ pc[p] \in {"undo", "end", "crashed"}
        BY <1>1, <2>1 DEF RemoveListLock, disk, loading
    <2> QED
        BY <2>3, <2>4, RestGood, Kinds
<1>2. ASSUME NEW id \in Tables, RemoveTableLock(id) PROVE \E p \in Users : Good(p)
    <2>1. PICK p \in Procs : p = tlock[id]
        BY <1>2 DEF RemoveTableLock
    <2>2. OnlyLocks(p)
        BY <1>2, <2>1, Kinds, InvParts DEF RemoveTableLock, OnlyLocks, LocksOK, Locked
    <2>3. Only(p)
        BY <1>2, <2>2, RemovesOnly, Kinds DEF RemoveTableLock
    <2>4. UNCHANGED <<list, request, txn, pc, ret>> /\ pc[p] \in {"undo", "end", "crashed"}
        BY <1>2, <2>1 DEF RemoveTableLock, disk, loading
    <2> QED
        BY <2>3, <2>4, RestGood, Kinds
<1> QED
    BY <1>1, <1>2

-----------------------------------------------------------------------------
(* The steps that show something. *)

LEMMA ListStays ==
    ASSUME Inv, Step, list' = list PROVE View(list)' = View(list)
<1>1. View(list)' = ViewIn(data', list')
    BY DEF View, ViewIn, Newest, NewestIn, Holding
<1> QED
    BY <1>1, InvParts, ViewStays DEF StackInv

LEMMA FinishGood ==
    ASSUME Inv, StoreInv, Step, NEW p \in Procs, Finish(p) PROVE Good(p)
<1>0. p \in Users /\ Only(p)
    BY Kinds, FinishOnly
<1>1. UNCHANGED <<list, want, expect, refused, committed>>
    BY DEF Finish, disk, request, txn
<1>2. /\ pc[p] \in {"undo", "end"} /\ pc'[p] \in {"clean", "done", "failed"}
      /\ p \in Txns => pc'[p] = IF pc[p] = "end" THEN "done" ELSE "failed"
    BY <1>0, Kinds, InvParts DEF Finish, Exit, Goto, PlacesOK
<1>3. CASE p \notin Txns
    <2>1. pc'[p] \notin Compacting /\ UNCHANGED <<request, txn>>
        BY <1>2 DEF Compacting, Finish
    <2> QED
        BY <1>0, <1>1, <1>3, <2>1, MovesGood
<1>4. CASE p \in Txns
    <2>1. View(list)' = View(list)
        BY <1>1, ListStays
    <2>2. \A u \in Txns : Changed(u)' = Changed(u) /\ (u # p => Outcome(u)' = Outcome(u))
        BY <1>0, <1>1, Kinds DEF Changed, Outcome, Only, OnlyPlace
    <2>3. pc[p] = "end" => committed[p]
        BY <1>4 DEF StoreInv, ExpectOK, At, Loading, Undone, BeforeCommit
    <2>4. /\ Outcome(p) = "open"
          /\ Outcome(p)' = IF pc[p] = "end" THEN "ok" ELSE "failed"
        BY <1>2, <1>4 DEF Outcome
    <2>5. Maps
        BY <1>1, <1>4, <2>1, <2>2, <2>3, <2>4 DEF Maps, Ends
    <2>6. ExpectOK(p)'
        BY <1>1, <1>2, <1>4, <2>3 DEF ExpectOK, At, Loading, Unchecked, Undone, BeforeCommit
    <2>7. BottomOK(p)'
        BY <1>2, NotMerging DEF Compacting
    <2> QED
        BY <1>0, <1>1, <2>5, <2>6, <2>7 DEF Good, Lists
<1> QED
    BY <1>3, <1>4

LEMMA BeginGood ==
    ASSUME Inv, StoreInv, Step, NEW t \in Txns, Begin(t) PROVE Good(t)
<1>0. t \in Procs /\ t \in Users /\ Only(t)
    BY Kinds, BeginOnly
<1>1. UNCHANGED <<list, refused, committed>>
    BY DEF Begin, disk, txn
<1>2. pc[t] = "idle" /\ pc'[t] = "start"
    BY <1>0, InvParts DEF Begin, MayStart, Goto, PlacesOK
<1>3. View(list)' = View(list)
    BY <1>1, ListStays
<1>4. ~committed[t] /\ ~committed'[t]
    BY <1>0, <1>1, <1>2, InvParts DEF WrittenOK, At, BeforeCommit
<1>5. \A u \in Txns : Changed(u)' = Changed(u) /\ (u # t => Outcome(u)' = Outcome(u))
    BY <1>0, <1>1, <1>4, Kinds DEF Changed, Outcome, Only, OnlyPlace, OnlyTxn
<1>6. \E w \in [Refs -> Vals \cup {None, Keep}], e \in [Refs -> Vals \cup {None, Any}] :
         want' = [want EXCEPT ![t] = w] /\ expect' = [expect EXCEPT ![t] = e]
    <2>1. View(tables[t]) \in [Refs -> Value0]
        BY <1>0, InvParts, ViewType DEF HandleOK
    <2>2. PICK plan \in Plans[t] :
            /\ want' = [want EXCEPT ![t] = plan.want]
            /\ expect' = [expect EXCEPT ![t] = [r \in Refs |->
                  IF r \in plan.chk THEN View(tables[t])[r] ELSE Any]]
        BY DEF Begin
    <2>3. plan.want \in [Refs -> Vals \cup {None, Keep}]
        BY <2>2, InputAssumption DEF PlanType
    <2>4. [r \in Refs |-> IF r \in plan.chk THEN View(tables[t])[r] ELSE Any]
            \in [Refs -> Vals \cup {None, Any}]
        BY <2>1 DEF Value0
    <2> QED
        BY <2>2, <2>3, <2>4
<1>7. Begins(t)
    BY <1>1, <1>2, <1>3, <1>5, <1>6 DEF Begins, Outcome
<1>8. BottomOK(t)'
    BY <1>2, NotMerging DEF Compacting
<1>9. ExpectOK(t)'
    BY <1>1, <1>2 DEF StoreInv, ExpectOK, At, Loading, Unchecked, Undone, BeforeCommit
<1> QED
    BY <1>0, <1>1, <1>7, <1>8, <1>9 DEF Good, Lists, Maps

LEMMA PrepareUpdatesGood ==
    ASSUME Inv, StoreInv, Step, NEW t \in Txns, PrepareUpdates(t) PROVE Good(t)
<1> DEFINE R == {r \in Refs : ~OldMatches(t, r)}
<1>0. t \in Procs /\ t \in Users /\ Only(t)
    BY Kinds, PrepareUpdatesOnly
<1>1. UNCHANGED <<list, want, expect, allow, committed>> /\ pc[t] = "check"
    BY DEF PrepareUpdates, disk, request
<1>2. CASE UNCHANGED refused /\ Goto(t, "undo")
    <2>1. pc'[t] = "undo"
        BY <1>0, <1>2, InvParts DEF Goto, PlacesOK
    <2>2. Calm(t) /\ pc'[t] \notin Compacting
        BY <1>1, <2>1 DEF Calm, Outcome, At, Loading, Unchecked, Undone, BeforeCommit, Compacting
    <2> QED
        BY <1>0, <1>1, <1>2, <2>2, MovesGood DEF request, txn
<1>3. CASE refused' = [refused EXCEPT ![t] = R] /\ Goto(t, "write")
    <2>1. pc'[t] = "write" /\ refused'[t] = R /\ tables[t] = list
        BY <1>0, <1>1, <1>3, InvParts DEF Goto, PlacesOK, TxnsOK, ListLockOK
    <2>2. View(list)' = View(list)
        BY <1>1, ListStays
    <2>3. ~committed[t] /\ ~committed'[t] /\ refused[t] = {}
        BY <1>0, <1>1, InvParts DEF WrittenOK, At, BeforeCommit, StoreInv, ExpectOK, Unchecked
    <2>4. \A u \in Txns : Changed(u)' = Changed(u)
        BY <1>0, <1>1, <2>3 DEF Changed, Only, OnlyTxn
    <2>5. Outcome(t) = "open" /\ \A u \in Txns : Outcome(u)' = Outcome(u)
        BY <1>0, <1>1, <2>1, Kinds DEF Outcome, Only, OnlyPlace
    <2>6. Changed(t) = {}
        BY <2>3 DEF Changed
    <2>7. Refuses(t, R) /\ R \in SUBSET Refs
        BY <1>1, <1>3, <2>2, <2>3, <2>4, <2>5, <2>6 DEF Refuses
    <2>8. \A r \in Refs \ R : expect[t][r] \in {Any, View(list)[r]}
        BY <2>1 DEF OldMatches
    <2> HIDE DEF R
    <2>9. Maps
        BY <2>7 DEF Maps
    <2>10. BottomOK(t)'
        BY <2>1, NotMerging DEF Compacting
    <2>11. ExpectOK(t)'
        <3>1. ~At(t, Unchecked)' /\ At(t, Undone)'
            BY <2>1 DEF At, Loading, Unchecked, Undone, BeforeCommit
        <3>2. \A r \in Refs \ refused'[t] : expect'[t][r] \in {Any, (View(list)')[r]}
            BY <1>1, <2>1, <2>2, <2>8
        <3> QED
            BY <3>1, <3>2 DEF ExpectOK
    <2> QED
        BY <1>0, <1>1, <2>9, <2>10, <2>11 DEF Good, Lists
<1> QED
    BY <1>2, <1>3 DEF PrepareUpdates

(* A transaction before it commits, at the list that its handle shows.       *)
LEMMA Ready ==
    ASSUME Inv, StoreInv, NEW t \in Txns, pc[t] \in {"write", "commit"}
    PROVE  /\ tables[t] = list /\ llock = t /\ ~committed[t] /\ Changed(t) = {}
           /\ Outcome(t) = "open"
           /\ \A r \in Refs \ refused[t] : expect[t][r] \in {Any, View(list)[r]}
<1>1. tables[t] = list /\ llock = t
    BY Kinds, InvParts DEF ListLockOK
<1>2. ~committed[t]
    BY Kinds, InvParts DEF WrittenOK, At, BeforeCommit
<1> QED
    BY <1>1, <1>2 DEF Changed, Outcome, StoreInv, ExpectOK

LEMMA AddTableGood ==
    ASSUME Inv, StoreInv, Step, NEW t \in Txns, AddTable(t) PROVE Good(t)
<1>0. t \in Procs /\ t \in Users /\ Only(t)
    BY Kinds, AddTableOnly
<1>1. UNCHANGED <<list, want, expect, allow, refused>> /\ pc[t] = "write"
    BY DEF AddTable, request
<1>2. /\ tables[t] = list /\ ~committed[t] /\ Changed(t) = {} /\ Outcome(t) = "open"
      /\ \A r \in Refs \ refused[t] : expect[t][r] \in {Any, View(list)[r]}
    BY <1>1, Ready
<1>3. View(list)' = View(list)
    BY <1>1, ListStays
<1>4. CASE Goto(t, "commit") /\ UNCHANGED committed
    <2>1. pc'[t] = "commit"
        BY <1>0, <1>4, InvParts DEF Goto, PlacesOK
    <2>2. Maps
        <3>1. \A u \in Txns : Changed(u)' = Changed(u)
            BY <1>1, <1>4 DEF Changed
        <3>2. \A u \in Txns : Outcome(u)' = Outcome(u)
            BY <1>0, <1>1, <2>1, Kinds DEF Outcome, Only, OnlyPlace
        <3> QED
            BY <1>1, <1>3, <3>1, <3>2 DEF Maps, Stutters
    <2>3. BottomOK(t)'
        BY <2>1, NotMerging DEF Compacting
    <2>4. ExpectOK(t)'
        <3>1. ~At(t, Unchecked)' /\ At(t, Undone)'
            BY <2>1 DEF At, Loading, Unchecked, Undone, BeforeCommit
        <3>2. \A r \in Refs \ refused'[t] : expect'[t][r] \in {Any, (View(list)')[r]}
            BY <1>1, <1>2, <1>3
        <3> QED
            BY <3>1, <3>2 DEF ExpectOK
    <2> QED
        BY <1>0, <1>1, <2>2, <2>3, <2>4 DEF Good, Lists
<1>5. CASE Queued(t) = {} /\ Goto(t, "end") /\ committed' = [committed EXCEPT ![t] = TRUE]
    <2>1. pc'[t] = "end" /\ committed'[t] /\ \A u \in Txns \ {t} : committed'[u] = committed[u]
        BY <1>0, <1>5, InvParts DEF Goto, PlacesOK, TxnsOK
    <2>2. Changed(t)' = {r \in Refs \ refused[t] : want[t][r] # Keep}
        BY <1>1, <2>1 DEF Changed
    <2>3. ASSUME NEW r \in Refs, r \in Changed(t)' PROVE want[t][r] = View(list)[r]
        BY <1>2, <1>5, <2>2, <2>3 DEF Queued
    <2>4. View(list)' = [r \in Refs |-> IF r \in Changed(t)' THEN want[t][r] ELSE View(list)[r]]
        <3>1. View(list) = [r \in Refs |-> View(list)[r]]
            BY DEF View
        <3> QED
            BY <1>3, <2>3, <3>1
    <2>5. \A r \in Changed(t)' : r \notin refused[t] /\ expect[t][r] \in {Any, View(list)[r]}
        BY <1>2, <2>2
    <2>6. \A u \in Txns : (u # t => Changed(u)' = Changed(u)) /\ Outcome(u)' = Outcome(u)
        BY <1>0, <1>1, <2>1, Kinds DEF Changed, Outcome, Only, OnlyPlace
    <2>7. Maps
        BY <1>1, <1>2, <2>4, <2>5, <2>6 DEF Maps, Applies
    <2>8. BottomOK(t)'
        BY <2>1, NotMerging DEF Compacting
    <2>9. ExpectOK(t)'
        BY <2>1 DEF ExpectOK, At, Loading, Unchecked, Undone, BeforeCommit
    <2> QED
        BY <1>0, <1>1, <2>7, <2>8, <2>9 DEF Good, Lists
<1>6. CASE Goto(t, "undo") /\ UNCHANGED committed
    <2>1. pc'[t] = "undo"
        BY <1>0, <1>6, InvParts DEF Goto, PlacesOK
    <2>2. Calm(t) /\ pc'[t] \notin Compacting
        BY <1>1, <2>1 DEF Calm, Outcome, At, Loading, Unchecked, Undone, BeforeCommit, Compacting
    <2> QED
        BY <1>0, <1>1, <1>6, <2>2, MovesGood DEF request, txn
<1> QED
    BY <1>4, <1>5, <1>6 DEF AddTable

LEMMA CommitAdditionGood ==
    ASSUME Inv, StoreInv, Step, NEW t \in Txns, CommitAddition(t) PROVE Good(t)
<1>0. t \in Procs /\ t \in Users /\ Only(t)
    BY Kinds, CommitAdditionOnly
<1>1. UNCHANGED <<data, want, expect, allow, refused>> /\ pc[t] = "commit"
    BY DEF CommitAddition, request
<1>2. /\ tables[t] = list /\ llock = t /\ ~committed[t] /\ Changed(t) = {} /\ Outcome(t) = "open"
      /\ \A r \in Refs \ refused[t] : expect[t][r] \in {Any, View(list)[r]}
    BY <1>1, Ready
<1>3. CASE /\ list' = Append(tables[t], Added(t)) /\ committed' = [committed EXCEPT ![t] = TRUE]
           /\ Reload(t, "auto")
    <2>1. /\ pc'[t] = "load" /\ ret'[t] = "auto" /\ committed'[t]
          /\ \A u \in Txns \ {t} : committed'[u] = committed[u]
        BY <1>0, <1>3, InvParts DEF Reload, Goto, PlacesOK, TxnsOK
    <2>2. Changed(t)' = {r \in Refs \ refused[t] : want[t][r] # Keep}
        BY <1>1, <2>1 DEF Changed
    <2>3. View(list)' = ViewIn(data, Append(list, Added(t))) /\ View(list) = ViewIn(data, list)
        <3>1. View(list)' = ViewIn(data', list')
            BY DEF View, ViewIn, Newest, NewestIn, Holding
        <3> QED
            BY <1>1, <1>2, <1>3, <3>1, ViewIs
    <2>4. ASSUME NEW r \in Refs
          PROVE  ViewIn(data, Append(list, Added(t)))[r] =
                   IF r \in Changed(t)' THEN want[t][r] ELSE View(list)[r]
        <3>1. data[Added(t)].recs[r] = IF r \in Queued(t) THEN want[t][r] ELSE Absent
            <4>1. data[Added(t)] = [max  |-> NextUpdateIndex(tables[t]),
                              recs |-> [x \in Refs |->
                                 IF x \in Queued(t) THEN want[t][x] ELSE Absent]]
                BY <1>0, <1>1, InvParts DEF WrittenOK
            <4> QED
                BY <4>1
        <3>2. ViewIn(data, Append(list, Added(t)))[r] =
                IF data[Added(t)].recs[r] = Absent THEN ViewIn(data, list)[r]
                ELSE data[Added(t)].recs[r]
            <4>1. list \in Seq(Tables) /\ Added(t) \in Tables
                BY InvParts, TableNames DEF DiskOK
            <4> QED
                BY <4>1, AppendView
        <3>3. r \in Queued(t) <=> /\ want[t][r] # Keep /\ want[t][r] # View(list)[r]
                                  /\ r \notin refused[t]
            BY <1>2 DEF Queued
        <3>4. r \in Changed(t)' <=> want[t][r] # Keep /\ r \notin refused[t]
            BY <2>2
        <3>5. want[t][r] # Keep => want[t][r] # Absent
            BY Kinds, InvParts DEF TxnsOK
        <3> QED
            BY <2>3, <3>1, <3>2, <3>3, <3>4, <3>5
    <2>5. View(list)' = [r \in Refs |-> IF r \in Changed(t)' THEN want[t][r] ELSE View(list)[r]]
        <3>1. ViewIn(data, Append(list, Added(t)))
                = [r \in Refs |-> ViewIn(data, Append(list, Added(t)))[r]]
            BY DEF ViewIn
        <3> QED
            BY <2>3, <2>4, <3>1
    <2>6. \A r \in Changed(t)' : r \notin refused[t] /\ expect[t][r] \in {Any, View(list)[r]}
        BY <1>2, <2>2
    <2>7. \A u \in Txns : (u # t => Changed(u)' = Changed(u)) /\ Outcome(u)' = Outcome(u)
        BY <1>0, <1>1, <2>1, Kinds DEF Changed, Outcome, Only, OnlyPlace
    <2>8. Maps
        BY <1>1, <1>2, <2>5, <2>6, <2>7 DEF Maps, Applies
    <2>9. BottomOK(t)'
        BY <2>1, NotMerging DEF Compacting
    <2>10. ExpectOK(t)'
        BY <2>1 DEF ExpectOK, At, Loading, Unchecked, Undone, BeforeCommit
    <2> QED
        BY <1>0, <1>2, <1>3, <2>8, <2>9, <2>10 DEF Good, Lists
<1>4. CASE Goto(t, "undo") /\ UNCHANGED <<list, committed>>
    <2>1. pc'[t] = "undo"
        BY <1>0, <1>4, InvParts DEF Goto, PlacesOK
    <2>2. Calm(t) /\ pc'[t] \notin Compacting
        BY <1>1, <2>1 DEF Calm, Outcome, At, Loading, Unchecked, Undone, BeforeCommit, Compacting
    <2> QED
        BY <1>0, <1>1, <1>4, <2>2, MovesGood DEF request, txn
<1> QED
    BY <1>3, <1>4 DEF CommitAddition

LEMMA ReplaceTablesGood ==
    ASSUME Inv, StoreInv, Step, NEW p \in Procs, ReplaceTables(p) PROVE Good(p)
<1>0. p \in Users /\ Only(p)
    BY Kinds, ReplaceTablesOnly
<1>1. UNCHANGED <<data, request, txn>> /\ pc[p] = "replace"
    BY DEF ReplaceTables
<1>2. CASE list' = Replaced(p) /\ Reload(p, "unlink")
    <2>1. pc'[p] = "load" /\ ret'[p] = "unlink" /\ llock = p
        BY <1>0, <1>1, <1>2, InvParts DEF Reload, Goto, PlacesOK, ListLockOK
    <2>2. View(list)' = View(list)
        <3>1. View(list)' = ViewIn(data, Replaced(p)) /\ View(list) = ViewIn(data, list)
            <4>1. View(list)' = ViewIn(data', list')
                BY DEF View, ViewIn, Newest, NewestIn, Holding
            <4> QED
                BY <1>1, <1>2, <4>1, ViewIs
        <3>2. ViewIn(data, Replaced(p)) = ViewIn(data, list)
            BY <1>1, ReplacedView DEF StoreInv
        <3> QED
            BY <3>1, <3>2
    <2>3. UNCHANGED <<want, expect, refused, committed>>
        BY <1>1 DEF request, txn
    <2>4. \A u \in Txns : Changed(u)' = Changed(u)
        BY <2>3 DEF Changed
    <2>5. \A u \in Txns : Outcome(u)' = Outcome(u)
        BY <1>0, <1>1, <2>1, Kinds DEF Outcome, Only, OnlyPlace
    <2>6. Maps
        BY <2>2, <2>3, <2>4, <2>5 DEF Maps, Stutters
    <2>7. BottomOK(p)'
        BY <2>1, NotMerging DEF Compacting
    <2>8. p \in Txns => ExpectOK(p)'
        BY <1>1, <2>1, <2>3 DEF StoreInv, ExpectOK, At, Loading, Unchecked, Undone, BeforeCommit
    <2> QED
        BY <1>0, <1>1, <1>2, <2>1, <2>6, <2>7, <2>8 DEF Good, Lists
<1>3. CASE Goto(p, "undo") /\ UNCHANGED list
    <2>1. pc'[p] = "undo"
        BY <1>0, <1>3, InvParts DEF Goto, PlacesOK
    <2>2. Calm(p) /\ pc'[p] \notin Compacting
        BY <1>1, <2>1 DEF Calm, Outcome, At, Loading, Unchecked, Undone, BeforeCommit, Compacting
    <2> QED
        BY <1>0, <1>1, <1>3, <2>2, MovesGood
<1> QED
    BY <1>2, <1>3 DEF ReplaceTables

-----------------------------------------------------------------------------
(* All steps together. *)

LEMMA ProcStepGood ==
    ASSUME Inv, StoreInv, Step, Inv', NEW p \in Procs, ProcStep(p) PROVE Good(p)
<1>1. CASE LoadStep(p)
    BY <1>1, LoadStepGood, Kinds
<1>2. CASE CompactStep(p)
    BY <1>2, CompactsGood, MergesGood, ReplaceTablesGood, CompactMovesGood, ReleasesGood, FinishGood
       DEF CompactStep
<1>3. CASE p \in Txns /\ TxnStep(p)
    BY <1>3, TxnMovesGood, PrepareUpdatesGood, AddTableGood, CommitAdditionGood DEF TxnStep
<1>4. CASE p \in Optimizers /\ CleanStep(p)
    BY <1>4, CleanersGood
<1> QED
    BY <1>1, <1>2, <1>3, <1>4 DEF ProcStep

LEMMA StepGood ==
    ASSUME Inv, StoreInv, Step, Inv' PROVE \E p \in Users : Good(p)
<1>1. ASSUME NEW p \in Procs, ProcStep(p) \/ Crash(p) PROVE Good(p) /\ p \in Users
    BY <1>1, ProcStepGood, CrashGood, Kinds
<1>2. ASSUME NEW t \in Txns, Begin(t) \/ Abort(t) PROVE Good(t) /\ t \in Users
    BY <1>2, BeginGood, TxnMovesGood, Kinds
<1>3. ASSUME NEW p \in Optimizers, Optimize(p) PROVE Good(p) /\ p \in Users
    BY <1>3, CleanersGood, Kinds
<1>4. ASSUME NEW q \in Readers, ReadStep(q) PROVE Good(q) /\ q \in Users
    BY <1>4, ReadGood, LoadStepGood, Kinds DEF ReadStep
<1> QED
    BY <1>1, <1>2, <1>3, <1>4, RemovesGood DEF Step

LEMMA StoreNext ==
    ASSUME Inv, StoreInv, [Next]_vars, Inv' PROVE StoreInv' /\ [Store!Next]_(Store!vars)
<1>1. CASE Next
    <2>1. Step
        BY <1>1 DEF Next
    <2>2. PICK p \in Users : Good(p)
        BY <2>1, StepGood
    <2> QED
        BY <2>1, <2>2, GoodKeeps, StoreMaps DEF Good
<1>2. CASE UNCHANGED vars
    <2>1. /\ UNCHANGED <<list, data, tlock, tables, pc, ret, first>>
          /\ UNCHANGED <<want, expect, refused, committed>>
        BY <1>2 DEF vars, disk, locks, loading, request, txn, range
    <2>2. View(list)' = View(list)
        BY <2>1 DEF View, Newest
    <2>3. Stutters
        BY <2>1, <2>2 DEF Stutters, Changed, Outcome
    <2>4. \A q \in Procs : BottomOK(q)'
        BY <2>1 DEF StoreInv, BottomOK, Locked
    <2>5. \A t \in Txns : ExpectOK(t)'
        BY <2>1, <2>2 DEF StoreInv, ExpectOK, At, Loading
    <2> QED
        BY <2>3, <2>4, <2>5, StoreStutters DEF StoreInv
<1> QED
    BY <1>1, <1>2

LEMMA StoreInit == ASSUME Init PROVE StoreInv /\ Store!Init
<1>1. \A u \in Users : pc[u] = "idle"
    BY DEF Init
<1>2. StoreInv
    BY <1>1, Kinds DEF Init, StoreInv, BottomOK, ExpectOK, At, Loading, Compacting, Replacing,
       Undone, BeforeCommit
<1>3. View(list) \in [Refs -> Vals \cup {None}]
    <2>1. Inv
        BY InitInv
    <2> QED
        BY <2>1, InvParts, ViewType DEF StackInv, Value0
<1>4. /\ want = [t \in Txns |-> [r \in Refs |-> Keep]]
      /\ expect = [t \in Txns |-> [r \in Refs |-> Any]]
      /\ refused = [t \in Txns |-> {}]
    BY DEF Init
<1>5. [t \in Txns |-> IF ~committed[t] THEN {} ELSE {r \in Refs \ refused[t] : want[t][r] # Keep}]
        = [t \in Txns |-> {}]
    BY DEF Init
<1>6. [t \in Txns |-> Outcome(t)] = [t \in Txns |-> "none"]
    BY <1>1, Kinds DEF Outcome
<1> QED
    BY <1>2, <1>3, <1>4, <1>5, <1>6 DEF Store!Init

(* The reftable backend implements the contract of a ref store: a            *)
(* transaction changes all its refs in the one step that renames its list    *)
(* over tables.list, from the values it was told to expect, and reports      *)
(* success only then; compaction, which leaves records out and tables away,  *)
(* and cleaning, reading, faults and stale locks show nothing.               *)
THEOREM ReftableImplementsRefStore ==
    Spec => ImplementsRefStore
<1>1. Init => StoreInv /\ Store!Init
    BY StoreInit
<1>2. Inv /\ StoreInv /\ [Next]_vars /\ Inv' => StoreInv' /\ [Store!Next]_(Store!vars)
    BY StoreNext
<1>3. Spec => []Inv
    BY AlwaysInv
<1> QED
    BY <1>1, <1>2, <1>3, PTL DEF Spec, ImplementsRefStore, Store!Spec

=============================================================================
