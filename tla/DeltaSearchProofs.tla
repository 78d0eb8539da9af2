-------------------------- MODULE DeltaSearchProofs --------------------------
(* Proofs about DeltaSearch: for every number of objects and threads, every  *)
(* window and all name hashes, each item is searched once, and all have been *)
(* when the main thread goes on.                                             *)
EXTENDS DeltaSearch, FiniteSetTheorems, WellFoundedInduction, TLAPS

(* The first item that thread i has left, and is o one of those it has left? *)
From(i)  == IF Objects THEN list[i] + size[i] - remaining[i] ELSE list[i]
Has(i, o) == From(i) <= o /\ o < From(i) + remaining[i]

(* The segments are within the list; before it is split nothing runs.        *)
SegmentsOK ==
    /\ \A i \in T : /\ remaining[i] <= size[i]
                    /\ list[i] + (IF Objects THEN size[i] ELSE remaining[i]) <= N + 1
    /\ main = "partition" =>
         /\ created = 0 /\ \A i \in T : remaining[i] = 0
         /\ \A o \in Items : times[o] = 0

(* What is left of each thread when it is at each place.  A thread that has  *)
(* not begun its segment has all of it left.                                 *)
Waiting(i) == pc[i] \in {"wait", "sleep"}
ThreadOK(i) ==
    /\ pc[i] = "none" => working[i] /\ ~ready[i]
    /\ pc[i] = "none" /\ i <= created => remaining[i] = 0
    /\ i > created => pc[i] = "none" /\ main \in {"partition", "create", "died"}
    /\ pc[i] \in {"none", "check"} => remaining[i] = size[i]
    /\ pc[i] = "check" => remaining[i] > 0 \/ (main = "join" /\ target = i)
    /\ pc[i] = "begin" => /\ remaining[i] > 0
                          /\ Objects => remaining[i] = size[i]
    /\ pc[i] = "take" => /\ ~Objects => remaining[i] > 0
                         /\ remaining[i] > 0 => next[i] = From(i)
    /\ pc[i] \in {"finish", "stopped"} => remaining[i] = 0
    /\ pc[i] \in {"check", "begin", "take", "finish", "stopped"} =>
         working[i] /\ ~ready[i]
    /\ ~working[i] => remaining[i] = 0 /\ ~ready[i] /\ Waiting(i)
    /\ Waiting(i) /\ working[i] =>
         /\ remaining[i] = size[i]
         /\ ready[i] \/ (main = "give" /\ target = i)
    /\ ready[i] => Waiting(i) /\ working[i]
                   /\ (remaining[i] > 0 \/ (main = "join" /\ target = i))
ThreadsOK == \A i \in T : ThreadOK(i)

(* The thread that the main thread serves.                                   *)
TargetOK ==
    /\ main = "give" => Waiting(target) /\ working[target] /\ ~ready[target]
    /\ main = "join" => /\ remaining[target] = 0
                        /\ \/ Waiting(target) /\ ready[target]
                           \/ pc[target] \in {"check", "stopped"}

(* active_threads counts the threads that run or have not been joined.       *)
Running ==
    {i \in T : pc[i] \notin {"none", "stopped"} \/ (main = "join" /\ i = target)}
ActiveOK == active = Cardinality(Running) /\ (main = "done" => active = 0)

(* An item was searched and is nobody's, or was not and has one owner.       *)
OwnersOK ==
    main # "partition" =>
        \A o \in Items :
            /\ times[o] \in {0, 1}
            /\ times[o] = 0 <=> \E i \in T : Has(i, o)
            /\ \A i, j \in T : Has(i, o) /\ Has(j, o) => i = j

Inv == TypeOK /\ SegmentsOK /\ ThreadsOK /\ TargetOK /\ ActiveOK /\ OwnersOK

-----------------------------------------------------------------------------
(* The operators. *)

(* A non-empty set of numbers has a least element, and if it is bounded a    *)
(* greatest one; Min and Max find them.                                      *)
LEMMA LeastNat ==
    ASSUME NEW S, S \subseteq Nat, S # {}
    PROVE  \E x \in S : \A y \in S : x <= y
<1>1. PICK x \in S : \A y \in S : ~ (<<y, x>> \in OpToRel(<, Nat))
    BY WFMin, NatLessThanWellFounded
<1>2. ASSUME NEW y \in S PROVE x <= y
    <2>1. ~ (y < x)
        BY <1>1 DEF OpToRel
    <2> QED
        BY <2>1
<1> QED
    BY <1>2

LEMMA MinProperties ==
    ASSUME NEW S, S \subseteq Nat, S # {}
    PROVE  Min(S) \in S /\ \A y \in S : Min(S) <= y
BY LeastNat DEF Min

LEMMA MaxProperties ==
    ASSUME NEW S, NEW b \in Nat, S \subseteq 0..b, S # {}
    PROVE  Max(S) \in S /\ \A y \in S : Max(S) >= y
<1> DEFINE D == {d \in Nat : \E y \in S : d = b - y}
<1>1. D \subseteq Nat /\ D # {}
    <2>1. PICK y \in S : TRUE
        OBVIOUS
    <2>2. b - y \in D
        OBVIOUS
    <2> QED
        BY <2>2
<1>2. PICK d \in D : \A e \in D : d <= e
    <2> HIDE DEF D
    <2> QED
        BY <1>1, LeastNat
<1>3. PICK x \in S : d = b - x
    BY <1>2
<1>4. ASSUME NEW y \in S PROVE x >= y
    <2>1. b - y \in D
        OBVIOUS
    <2> QED
        BY <1>2, <1>3, <2>1
<1> QED
    BY <1>4 DEF Max

(* An equal share is not more than there is.                                 *)
LEMMA DivideProperties ==
    /\ \A a \in Nat, k \in Nat \ {0} : a \div k \in Int /\ 0 <= a \div k /\ a \div k <= a
    /\ \A a \in Nat : a \div 1 = a
    /\ \A a \in Nat : a > 2 => 1 <= a \div 2 /\ a \div 2 < a
OBVIOUS

(* A share is part of what is left, and the last thread gets all of that.    *)
LEMMA ShareProperties ==
    ASSUME NEW i \in T, NEW from \in 0..N
    PROVE  /\ Share(i, from) \in 0..(N - from)
           /\ i = Threads => Share(i, from) = N - from
<1> DEFINE left  == N - from
           share == left \div (Threads - i + 1)
           least == IF Objects /\ share < MinSegment /\ i < Threads THEN 0 ELSE share
           S     == {k \in least..left : k = left \/ ~SamePath(from + k + 1)}
<1>1. left \in Nat /\ Threads - i + 1 \in Nat \ {0} /\ i <= Threads
    BY SizesAssumption DEF T
<1>2. share \in Int /\ 0 <= share /\ share <= left
    <2> HIDE DEF left
    <2> QED
        BY <1>1, DivideProperties
<1>3. i = Threads => share = left
    <2>1. i = Threads => Threads - i + 1 = 1
        BY SizesAssumption
    <2> HIDE DEF left
    <2> QED
        BY <1>1, <2>1, DivideProperties
<1>4. least \in 0..left /\ (i = Threads => least = left)
    <2> HIDE DEF left, share
    <2> QED
        BY <1>1, <1>2, <1>3, SizesAssumption DEF T
<1>5. S \subseteq Nat /\ left \in S /\ \A k \in S : least <= k /\ k <= left
    <2> HIDE DEF left, least
    <2> QED
        BY <1>1, <1>4
<1>6. Min(S) \in S
    <2> HIDE DEF S
    <2> QED
        BY <1>5, MinProperties
<1>7. Share(i, from) = IF least = 0 THEN 0 ELSE Min(S)
    BY DEF Share
<1> HIDE DEF left, least, S
<1>8. Min(S) \in Nat /\ least <= Min(S) /\ Min(S) <= left
    BY <1>5, <1>6
<1>9. Share(i, from) \in 0..left /\ (i = Threads => Share(i, from) = left)
    BY <1>1, <1>4, <1>7, <1>8
<1> QED
    BY <1>9 DEF left

(* The main thread picks an idle thread, and one with something to share.    *)
LEMMA TargetProperties ==
    ASSUME Inv, Idle # {}
    PROVE  Min(Idle) \in Idle /\ Idle \subseteq T
<1>1. Idle \subseteq Nat /\ Idle \subseteq T
    BY SizesAssumption DEF Idle, T
<1> QED
    BY <1>1, MinProperties

LEMMA VictimProperties ==
    ASSUME Inv, Rich # {}
    PROVE  /\ Victim \in T /\ remaining[Victim] > 2
           /\ StolenSize(Victim) \in 1..(remaining[Victim] - 1)
<1> DEFINE D == {d \in Nat : \E i \in Rich : d = N - remaining[i]}
           S == {i \in Rich : \A j \in Rich : remaining[j] <= remaining[i]}
<1>1. Rich \subseteq T /\ T \subseteq Nat
    BY SizesAssumption DEF Rich, T
<1>2. \A i \in T : remaining[i] \in 0..N
    BY DEF Inv, TypeOK
<1>3. D \subseteq Nat /\ D # {}
    <2>1. PICK i \in Rich : TRUE
        OBVIOUS
    <2>2. N - remaining[i] \in D
        BY <1>1, <1>2, SizesAssumption
    <2> QED
        BY <2>2
<1>4. PICK d \in D : \A e \in D : d <= e
    <2> HIDE DEF D
    <2> QED
        BY <1>3, LeastNat
<1>5. PICK i \in Rich : d = N - remaining[i]
    BY <1>4
<1>6. ASSUME NEW j \in Rich PROVE remaining[j] <= remaining[i]
    <2>1. N - remaining[j] \in D
        BY <1>1, <1>2, SizesAssumption
    <2> QED
        BY <1>1, <1>2, <1>4, <1>5, <2>1, SizesAssumption
<1>7. Victim \in Rich
    <2>1. S \subseteq Nat /\ S # {}
        BY <1>1, <1>5, <1>6
    <2>2. Victim = Min(S)
        BY DEF Victim
    <2> HIDE DEF S
    <2>3. Victim \in S
        BY <2>1, <2>2, MinProperties
    <2> QED
        BY <2>3 DEF S
<1> DEFINE v == Victim
           half == remaining[v] \div 2
           cuts == {k \in 1..half : ~SamePath(StolenFrom(v, k))}
<1>8. v \in T /\ remaining[v] \in Nat /\ remaining[v] > 2
    <2>1. MinSegment \in Int /\ MinSegment >= 2
        BY SizesAssumption DEF MinSegment
    <2>2. remaining[v] > MinSegment /\ v \in T
        BY <1>7 DEF Rich
    <2> HIDE DEF v
    <2> QED
        BY <1>2, <2>1, <2>2
<1>9. half \in Int /\ 1 <= half /\ half < remaining[v]
    <2> HIDE DEF v
    <2> QED
        BY <1>8, DivideProperties
<1>10. cuts # {} => Max(cuts) \in 1..half
    <2>1. cuts \subseteq 1..half /\ cuts \subseteq 0..half /\ half \in Nat
        <3> HIDE DEF half, v
        <3> QED
            BY <1>9
    <2> HIDE DEF cuts, half
    <2> QED
        BY <2>1, MaxProperties
<1>11. StolenSize(v) = IF cuts = {} THEN half ELSE Max(cuts)
    BY DEF StolenSize
<1> HIDE DEF cuts, half, v
<1>12. StolenSize(v) \in 1..(remaining[v] - 1)
    BY <1>8, <1>9, <1>10, <1>11
<1> QED
    BY <1>8, <1>12 DEF v

-----------------------------------------------------------------------------
(* The invariant holds at first, and every step preserves it. *)

LEMMA InitInv == Init => Inv
<1> SUFFICES ASSUME Init PROVE Inv
    OBVIOUS
<1> USE SizesAssumption DEF Init
<1>1. TypeOK
    BY DEF TypeOK, T, Items, ThreadPCs, MainPCs
<1>2. SegmentsOK
    BY DEF SegmentsOK
<1>3. ThreadsOK
    BY DEF ThreadsOK, ThreadOK, Waiting, T
<1>4. TargetOK
    BY DEF TargetOK
<1>5. ActiveOK
    <2>1. Running = {}
        BY DEF Running
    <2> QED
        BY <2>1, FS_EmptySet DEF ActiveOK
<1>6. OwnersOK
    BY DEF OwnersOK
<1> QED
    BY <1>1, <1>2, <1>3, <1>4, <1>5, <1>6 DEF Inv

(* A step that leaves the segments alone leaves the owners alone, and one    *)
(* that starts, stops and joins nobody the count.                            *)
LEMMA OwnersSame ==
    ASSUME OwnersOK, UNCHANGED <<mode, segments, times>>,
           main' # "partition" => main # "partition"
    PROVE  OwnersOK'
BY DEF OwnersOK, Has, From, Objects, segments

LEMMA SubsetCount ==
    ASSUME NEW S \in SUBSET T
    PROVE  IsFiniteSet(S) /\ Cardinality(S) \in 0..Threads
<1>1. IsFiniteSet(T) /\ Cardinality(T) = Threads
    BY FS_Interval, SizesAssumption DEF T
<1>2. IsFiniteSet(S) /\ Cardinality(S) <= Threads
    BY <1>1, FS_Subset
<1> QED
    BY <1>2, FS_CardinalityType, SizesAssumption

LEMMA RunningFinite == IsFiniteSet(Running) /\ Cardinality(Running) \in 0..Threads
<1>1. Running \in SUBSET T
    BY DEF Running
<1> QED
    BY <1>1, SubsetCount

LEMMA ActiveSame ==
    ASSUME ActiveOK, active' = active, Running' = Running,
           main' = "done" => main = "done" \/ active = 0
    PROVE  ActiveOK'
BY DEF ActiveOK

LEMMA PartitionStep ==
    ASSUME Inv, Partition
    PROVE  Inv'
<1> PICK before \in [1..(Threads + 1) -> 0..N] :
          /\ before[1] = 0
          /\ \A i \in T : before[i + 1] = before[i] + Share(i, before[i])
          /\ list' = [i \in T |-> before[i] + 1]
          /\ size' = [i \in T |-> before[i + 1] - before[i]]
    BY DEF Partition
<1> USE SizesAssumption DEF Inv
<1>1. \A i \in T : i \in 1..(Threads + 1) /\ i + 1 \in 1..(Threads + 1)
    BY DEF T
<1>2. ASSUME NEW i \in T PROVE before[i] <= before[i + 1]
    <2>1. before[i] \in 0..N /\ before[i + 1] = before[i] + Share(i, before[i])
        BY <1>1
    <2>2. Share(i, before[i]) \in 0..(N - before[i])
        BY <2>1, ShareProperties
    <2> QED
        BY <2>1, <2>2
<1>3. before[Threads + 1] = N
    <2>1. Threads \in T /\ before[Threads] \in 0..N
        BY DEF T
    <2> QED
        BY <2>1, ShareProperties
<1>4. ASSUME NEW i \in T, NEW j \in T, i < j
      PROVE  before[i + 1] <= before[j]
    <2> DEFINE Bad == {k \in Nat : k \in (i + 1)..j /\ ~(before[i + 1] <= before[k])}
    <2>1. SUFFICES ASSUME ~(before[i + 1] <= before[j]) PROVE FALSE
        OBVIOUS
    <2>2. Bad \subseteq Nat /\ j \in Bad
        <3>1. j \in Nat /\ j \in (i + 1)..j
            BY <1>4 DEF T
        <3> QED
            BY <2>1, <3>1
    <2>3. PICK k \in Bad : \A m \in Bad : k <= m
        <3> HIDE DEF Bad
        <3> QED
            BY <2>2, LeastNat
    <2>4. k # i + 1 /\ k \in (i + 1)..j
        <3>1. before[i + 1] \in 0..N
            BY <1>1
        <3> QED
            BY <2>3, <3>1
    <2>5. k - 1 \in T /\ k - 1 \notin Bad /\ k - 1 \in (i + 1)..j
        BY <2>3, <2>4 DEF T
    <2>6. before[i + 1] <= before[k - 1] /\ before[k - 1] <= before[k]
        BY <1>2, <2>4, <2>5 DEF T
    <2>7. before[i + 1] \in Int /\ before[k - 1] \in Int /\ before[k] \in Int
        BY <1>1, <2>4, <2>5 DEF T
    <2> QED
        BY <2>3, <2>6, <2>7
<1>5. \A i \in T : /\ list'[i] = before[i] + 1 /\ size'[i] = before[i + 1] - before[i]
                   /\ remaining'[i] = size'[i]
                   /\ before[i] \in 0..N /\ before[i + 1] \in 0..N
    BY <1>1 DEF Partition
<1>6. /\ main' = "create" /\ main = "partition"
      /\ UNCHANGED <<mode, hash, working, ready, pc, next, created, target, active, times>>
    BY DEF Partition
<1>7. TypeOK'
    <2>1. list' \in [T -> 1..(N + 1)] /\ size' \in [T -> 0..N] /\ remaining' \in [T -> 0..N]
        BY <1>1, <1>2, <1>5 DEF Partition
    <2> QED
        BY <1>6, <2>1 DEF TypeOK, MainPCs
<1>8. SegmentsOK'
    BY <1>5, <1>6 DEF SegmentsOK, Objects
<1>9. ThreadsOK'
    <2>1. created = 0 /\ \A i \in T : i > created /\ i \in Nat
        BY <1>6 DEF SegmentsOK, T
    <2>2. \A i \in T : pc[i] = "none" /\ working[i] /\ ~ready[i]
        BY <2>1 DEF ThreadsOK, ThreadOK
    <2> QED
        BY <1>5, <1>6, <2>1, <2>2 DEF ThreadsOK, ThreadOK, Waiting
<1>10. TargetOK'
    BY <1>6 DEF TargetOK
<1>11. ActiveOK'
    <2>1. Running' = Running
        BY <1>6 DEF Running
    <2> QED
        BY <1>6, <2>1, ActiveSame
<1>12. OwnersOK'
    <2> SUFFICES ASSUME NEW o \in Items
                 PROVE  /\ times'[o] \in {0, 1}
                        /\ times'[o] = 0 <=> \E i \in T : Has(i, o)'
                        /\ \A i, j \in T : Has(i, o)' /\ Has(j, o)' => i = j
        BY DEF OwnersOK
    <2>1. \A i \in T : Has(i, o)' <=> before[i] < o /\ o <= before[i + 1]
        BY <1>5 DEF Has, From, Objects, Items
    <2>2. times'[o] = 0
        BY <1>6 DEF SegmentsOK
    <2>3. \E i \in T : before[i] < o /\ o <= before[i + 1]
        <3> DEFINE Above == {k \in Nat : k \in 1..(Threads + 1) /\ o <= before[k]}
        <3>1. Above \subseteq Nat /\ Threads + 1 \in Above
            BY <1>3 DEF Items
        <3>2. PICK k \in Above : \A m \in Above : k <= m
            <4> HIDE DEF Above
            <4> QED
                BY <3>1, LeastNat
        <3>3. k # 1 /\ k \in 1..(Threads + 1)
            BY <3>2 DEF Items
        <3>4. k - 1 \in T /\ k - 1 \notin Above /\ k - 1 \in 1..(Threads + 1)
            BY <3>2, <3>3 DEF T
        <3>5. before[k - 1] < o /\ o <= before[(k - 1) + 1]
            <4>1. before[k - 1] \in Int /\ o \in Int /\ (k - 1) + 1 = k
                BY <3>3, <3>4 DEF Items
            <4> QED
                BY <3>2, <3>4, <4>1
        <3> QED
            BY <3>4, <3>5
    <2>4. ASSUME NEW i \in T, NEW j \in T, i < j,
                 before[i] < o, o <= before[i + 1], before[j] < o
          PROVE  FALSE
        BY <1>4, <1>5, <2>4 DEF Items
    <2>5. \A i, j \in T : i < j \/ j < i \/ i = j
        BY DEF T
    <2> QED
        BY <2>1, <2>2, <2>3, <2>4, <2>5
<1> QED
    BY <1>7, <1>8, <1>9, <1>10, <1>11, <1>12

LEMMA CreateStep ==
    ASSUME Inv, Create
    PROVE  Inv'
<1> USE SizesAssumption DEF Inv
<1> DEFINE i == created + 1
<1>1. /\ main = "create" /\ i \in T /\ main' \in {"create", "died"}
      /\ UNCHANGED <<mode, hash, list, size, remaining, working, ready, next, target, times>>
    BY DEF Create, TypeOK, T, segments
<1>2. OwnersOK'
    BY <1>1, OwnersSame DEF segments
<1>3. pc[i] = "none" /\ remaining[i] = size[i] /\ size[i] \in 0..N
    BY <1>1 DEF ThreadsOK, ThreadOK, TypeOK
<1>4. \/ size[i] = 0 /\ created' = i /\ UNCHANGED <<pc, active, main>>
      \/ /\ size[i] > 0 /\ created' = i /\ pc' = [pc EXCEPT ![i] = "check"]
         /\ active' = active + 1 /\ UNCHANGED main
      \/ size[i] > 0 /\ main' = "died" /\ UNCHANGED <<created, pc, active>>
    BY DEF Create
<1>5. ActiveOK' /\ active' \in 0..Threads
    <2>1. Running' = IF pc' = pc THEN Running ELSE Running \cup {i}
        BY <1>1, <1>3, <1>4 DEF Running, TypeOK
    <2>2. i \notin Running
        BY <1>1, <1>3 DEF Running
    <2>3. IsFiniteSet(Running) /\ Cardinality(Running \cup {i}) = Cardinality(Running) + 1
        BY <2>2, RunningFinite, FS_AddElement
    <2>4. active' = Cardinality(Running')
        <3>1. CASE pc' = pc
            BY <1>1, <1>3, <1>4, <2>1, <3>1 DEF ActiveOK, TypeOK
        <3>2. CASE pc' # pc
            BY <1>1, <1>4, <2>1, <2>3, <3>2 DEF ActiveOK
        <3> QED
            BY <3>1, <3>2
    <2>5. Cardinality(Running') \in 0..Threads
        <3>1. \A S \in SUBSET T : Cardinality(S) \in 0..Threads
            BY SubsetCount
        <3> QED
            BY <3>1 DEF Running
    <2> QED
        BY <1>1, <2>4, <2>5 DEF ActiveOK
<1>6. TypeOK'
    <2>1. created' \in 0..Threads /\ main' \in MainPCs
        <3>1. created' \in {created, i} /\ main' \in {"create", "died"}
            BY <1>1, <1>4
        <3>2. created \in 0..Threads /\ i \in 0..Threads
            BY <1>1 DEF TypeOK, T
        <3> HIDE DEF i
        <3> QED
            BY <3>1, <3>2 DEF MainPCs
    <2>2. pc' \in [T -> ThreadPCs]
        BY <1>1, <1>4 DEF TypeOK, ThreadPCs
    <2> QED
        BY <1>1, <1>5, <2>1, <2>2 DEF TypeOK
<1>7. SegmentsOK'
    BY <1>1 DEF SegmentsOK, Objects
<1>8. ThreadsOK'
    <2> SUFFICES ASSUME NEW k \in T PROVE ThreadOK(k)'
        BY DEF ThreadsOK
    <2>1. ThreadOK(k) /\ ThreadOK(i)
        BY <1>1 DEF ThreadsOK
    <2>2. created \in 0..Threads /\ k \in Nat /\ remaining[k] \in 0..N /\ From(k)' = From(k)
        BY <1>1 DEF TypeOK, T, From, Objects
    <2>3. CASE k = i
        BY <1>1, <1>3, <1>4, <2>1, <2>2, <2>3 DEF ThreadOK, TypeOK, Waiting, Objects
    <2>4. CASE k # i
        <3>1. pc'[k] = pc[k] /\ (k > created' <=> k > created)
            BY <1>1, <1>4, <2>2, <2>4 DEF TypeOK
        <3> QED
            BY <1>1, <1>4, <2>1, <2>2, <2>4, <3>1 DEF ThreadOK, Waiting, Objects
    <2> QED
        BY <2>3, <2>4
<1>9. TargetOK'
    BY <1>1 DEF TargetOK
<1> QED
    BY <1>2, <1>5, <1>6, <1>7, <1>8, <1>9

LEMMA CreatedStep ==
    ASSUME Inv, Created
    PROVE  Inv'
<1> USE SizesAssumption DEF Inv, Created, segments
<1>1. OwnersOK'
    BY OwnersSame
<1>2. ActiveOK'
    BY ActiveSame DEF Running
<1>3. TypeOK' /\ SegmentsOK' /\ TargetOK'
    BY DEF TypeOK, MainPCs, SegmentsOK, Objects, TargetOK
<1>4. ThreadsOK'
    BY DEF ThreadsOK, ThreadOK, TypeOK, Waiting, From, Objects, T
<1> QED
    BY <1>1, <1>2, <1>3, <1>4

LEMMA ScanStep ==
    ASSUME Inv, Scan
    PROVE  Inv'
<1> USE SizesAssumption DEF Inv
<1> PICK g : g = target'
    OBVIOUS
<1> PICK v : v = Victim
    OBVIOUS
<1> PICK sub : sub = IF Rich = {} THEN 0 ELSE StolenSize(v)
    OBVIOUS
<1>1. /\ g \in T /\ ~working[g] /\ remaining[g] = 0 /\ ~ready[g] /\ Waiting(g)
    BY TargetProperties DEF Scan, Idle, ThreadsOK, ThreadOK
<1>2. /\ main = "scan" /\ main' = "give" /\ working' = [working EXCEPT ![g] = TRUE]
      /\ UNCHANGED <<mode, hash, ready, pc, next, created, active, times>>
    BY DEF Scan
<1>3. Rich # {} => /\ v \in T /\ v # g /\ remaining[v] > 2
                   /\ sub \in 1..(remaining[v] - 1)
                   /\ Waiting(v) => ready[v]
    BY <1>1, <1>2, VictimProperties DEF ThreadsOK, ThreadOK
<1>4. /\ list' = IF Rich = {} THEN list ELSE [list EXCEPT ![g] = StolenFrom(v, sub)]
      /\ size' = [k \in T |-> IF k = g THEN sub
                              ELSE IF Rich # {} /\ k = v THEN size[k] - sub ELSE size[k]]
      /\ remaining' = [k \in T |-> IF k = g THEN sub
                              ELSE IF Rich # {} /\ k = v THEN remaining[k] - sub
                              ELSE remaining[k]]
    BY DEF Scan
<1>5. \A k \in T : /\ list[k] \in 1..(N + 1) /\ size[k] \in 0..N /\ remaining[k] \in 0..N
                   /\ remaining[k] <= size[k]
                   /\ list[k] + (IF Objects THEN size[k] ELSE remaining[k]) <= N + 1
    BY DEF TypeOK, SegmentsOK
<1>6. Rich = {} => /\ sub = 0 /\ list' = list
                   /\ \A k \in T \ {g} : size'[k] = size[k] /\ remaining'[k] = remaining[k]
    BY <1>4
<1>7. Rich # {} =>
          /\ list'[g] = IF Objects THEN list[v] + size[v] - sub
                        ELSE list[v] + remaining[v] - sub
          /\ size'[v] = size[v] - sub /\ remaining'[v] = remaining[v] - sub
          /\ \A k \in T \ {g} : list'[k] = list[k]
          /\ \A k \in T \ {g, v} : size'[k] = size[k] /\ remaining'[k] = remaining[k]
    BY <1>1, <1>3, <1>4 DEF StolenFrom, TypeOK
<1>8. size'[g] = sub /\ remaining'[g] = sub
    BY <1>1, <1>4
<1>9. Objects' = Objects
    BY <1>2 DEF Objects
<1>10. TypeOK'
    <2>1. CASE Rich = {}
        <3>1. list' \in [T -> 1..(N + 1)] /\ size' \in [T -> 0..N] /\ remaining' \in [T -> 0..N]
            BY <1>1, <1>4, <1>5, <1>6, <2>1 DEF TypeOK
        <3> QED
            BY <1>1, <1>2, <3>1 DEF TypeOK, MainPCs
    <2>2. CASE Rich # {}
        <3>1. size' \in [T -> 0..N] /\ remaining' \in [T -> 0..N]
            BY <1>1, <1>3, <1>4, <1>5, <2>2
        <3>2. StolenFrom(v, sub) \in 1..(N + 1)
            BY <1>1, <1>3, <1>5, <2>2 DEF StolenFrom
        <3>3. list' \in [T -> 1..(N + 1)]
            BY <1>1, <1>4, <3>2, <2>2 DEF TypeOK
        <3> QED
            BY <1>1, <1>2, <3>1, <3>3 DEF TypeOK, MainPCs
    <2> QED
        BY <2>1, <2>2
<1>11. SegmentsOK'
    <2>1. CASE Rich = {}
        BY <1>1, <1>2, <1>5, <1>6, <1>8, <1>9, <2>1 DEF SegmentsOK
    <2>2. CASE Rich # {}
        BY <1>1, <1>2, <1>3, <1>5, <1>7, <1>8, <1>9, <2>2 DEF SegmentsOK
    <2> QED
        BY <2>1, <2>2
<1>12. ThreadsOK'
    <2> SUFFICES ASSUME NEW k \in T PROVE ThreadOK(k)'
        BY DEF ThreadsOK
    <2>1. ThreadOK(k) /\ working[k] \in BOOLEAN
        BY DEF ThreadsOK, TypeOK
    <2>2. CASE k = g
        <3>1. working'[k] = TRUE
            BY <1>1, <1>2, <2>2 DEF TypeOK
        <3> QED
            BY <1>1, <1>2, <1>8, <2>1, <2>2, <3>1 DEF ThreadOK, Waiting
    <2>3. CASE k # g
        <3>1. working'[k] = working[k] /\ list'[k] = list[k]
            BY <1>1, <1>2, <1>6, <1>7, <2>3 DEF TypeOK
        <3>2. CASE Rich # {} /\ k = v
            <4>1. /\ remaining'[k] = remaining[k] - sub /\ size'[k] = size[k] - sub
                  /\ remaining'[k] > 0 /\ remaining[k] > 0
                BY <1>3, <1>5, <1>7, <3>2
            <4>2. From(k)' = From(k)
                BY <1>3, <1>5, <1>9, <3>1, <3>2, <4>1 DEF From
            <4> QED
                BY <1>2, <1>3, <1>5, <1>9, <2>1, <2>3, <3>1, <3>2, <4>1, <4>2
                   DEF ThreadOK, Waiting
        <3>3. CASE ~(Rich # {} /\ k = v)
            <4>1. remaining'[k] = remaining[k] /\ size'[k] = size[k]
                BY <1>6, <1>7, <2>3, <3>3
            <4>2. From(k)' = From(k)
                BY <1>9, <3>1, <4>1 DEF From
            <4> QED
                BY <1>2, <1>9, <2>1, <2>3, <3>1, <4>1, <4>2 DEF ThreadOK, Waiting
        <3> QED
            BY <3>2, <3>3
    <2> QED
        BY <2>2, <2>3
<1>13. TargetOK'
    BY <1>1, <1>2 DEF TargetOK, Waiting, TypeOK
<1>14. ActiveOK'
    <2>1. Running' = Running
        BY <1>2 DEF Running
    <2> QED
        BY <1>2, <2>1, ActiveSame
<1>15. OwnersOK'
    <2> SUFFICES ASSUME NEW o \in Items
                 PROVE  /\ times'[o] \in {0, 1}
                        /\ times'[o] = 0 <=> \E i \in T : Has(i, o)'
                        /\ \A i, j \in T : Has(i, o)' /\ Has(j, o)' => i = j
        BY DEF OwnersOK
    <2>1. /\ times[o] \in {0, 1} /\ times'[o] = times[o]
          /\ times[o] = 0 <=> \E i \in T : Has(i, o)
          /\ \A i, j \in T : Has(i, o) /\ Has(j, o) => i = j
        BY <1>2 DEF OwnersOK
    <2>2. o \in Int /\ ~Has(g, o)
        BY <1>1, <1>5 DEF Has, From, Items
    <2>3. CASE Rich = {}
        <3>1. \A k \in T : Has(k, o)' <=> Has(k, o)
            BY <1>1, <1>5, <1>6, <1>8, <1>9, <2>2, <2>3 DEF Has, From, Items
        <3> QED
            BY <2>1, <3>1
    <2>4. CASE Rich # {}
        <3>1. \A k \in T \ {g, v} : Has(k, o)' <=> Has(k, o)
            BY <1>7, <1>9, <2>4 DEF Has, From
        <3>2. Has(v, o) <=> Has(v, o)' \/ Has(g, o)'
            BY <1>1, <1>3, <1>5, <1>7, <1>8, <1>9, <2>2, <2>4 DEF Has, From
        <3>3. ~(Has(v, o)' /\ Has(g, o)')
            BY <1>1, <1>3, <1>5, <1>7, <1>8, <1>9, <2>2, <2>4 DEF Has, From
        <3> QED
            BY <1>1, <1>3, <2>1, <2>2, <2>4, <3>1, <3>2, <3>3
    <2> QED
        BY <2>3, <2>4
<1> QED
    BY <1>10, <1>11, <1>12, <1>13, <1>14, <1>15

LEMMA ScanSleepStep ==
    ASSUME Inv, ScanSleep
    PROVE  Inv'
<1> USE SizesAssumption DEF Inv, ScanSleep, segments
<1>1. OwnersOK'
    BY OwnersSame
<1>2. ActiveOK'
    BY ActiveSame DEF Running
<1>3. TypeOK' /\ SegmentsOK' /\ TargetOK'
    BY DEF TypeOK, MainPCs, SegmentsOK, Objects, TargetOK
<1>4. ThreadsOK'
    BY DEF ThreadsOK, ThreadOK, TypeOK, Waiting, From, Objects, T
<1> QED
    BY <1>1, <1>2, <1>3, <1>4

LEMMA GiveStep ==
    ASSUME Inv, Give
    PROVE  Inv'
<1> USE SizesAssumption DEF Inv
<1>1. /\ main = "give" /\ main' \in {"join", "scan"}
      /\ main' = "join" <=> size[target] = 0
      /\ ready' = [ready EXCEPT ![target] = TRUE]
      /\ pc' = IF pc[target] = "sleep" THEN [pc EXCEPT ![target] = "wait"] ELSE pc
      /\ UNCHANGED <<mode, hash, list, size, remaining, working, next, created, target,
                     active, times>>
    BY DEF Give, SetReady, segments
<1>2. /\ target \in T /\ Waiting(target) /\ working[target]
      /\ remaining[target] = size[target] /\ remaining[target] \in 0..N
    BY <1>1 DEF TargetOK, ThreadsOK, ThreadOK, TypeOK
<1>3. \A k \in T : k # target => pc'[k] = pc[k] /\ ready'[k] = ready[k]
    BY <1>1 DEF TypeOK
<1>4. pc'[target] = "wait" /\ ready'[target] = TRUE
    BY <1>1, <1>2 DEF Waiting, TypeOK
<1>5. OwnersOK'
    BY <1>1, OwnersSame DEF segments
<1>6. ActiveOK'
    <2>1. Running' = Running
        BY <1>1, <1>2, <1>3, <1>4 DEF Running, Waiting
    <2> QED
        BY <1>1, <2>1, ActiveSame
<1>7. TypeOK'
    <2>1. pc' \in [T -> ThreadPCs] /\ ready' \in [T -> BOOLEAN]
        BY <1>1, <1>2 DEF TypeOK, ThreadPCs
    <2> QED
        BY <1>1, <2>1 DEF TypeOK, MainPCs
<1>8. SegmentsOK' /\ TargetOK'
    BY <1>1, <1>2, <1>4 DEF SegmentsOK, Objects, TargetOK, Waiting
<1>9. ThreadsOK'
    <2> SUFFICES ASSUME NEW k \in T PROVE ThreadOK(k)'
        BY DEF ThreadsOK
    <2>1. ThreadOK(k) /\ From(k)' = From(k)
        BY <1>1 DEF ThreadsOK, From, Objects
    <2>2. CASE k = target
        BY <1>1, <1>2, <1>4, <2>1, <2>2 DEF ThreadOK, Waiting, Objects
    <2>3. CASE k # target
        BY <1>1, <1>2, <1>3, <2>1, <2>3 DEF ThreadOK, Waiting, Objects
    <2> QED
        BY <2>2, <2>3
<1> QED
    BY <1>5, <1>6, <1>7, <1>8, <1>9

LEMMA JoinStep ==
    ASSUME Inv, Join
    PROVE  Inv'
<1> USE SizesAssumption DEF Inv
<1>1. /\ main = "join" /\ main' = "scan" /\ active' = active - 1
      /\ pc[target] = "stopped" /\ target \in T
      /\ UNCHANGED <<mode, hash, list, size, remaining, working, ready, pc, next, created,
                     target, times>>
    BY DEF Join, segments, TypeOK
<1>2. OwnersOK'
    BY <1>1, OwnersSame DEF segments
<1>3. ActiveOK' /\ active' \in 0..Threads
    <2>1. Running' = Running \ {target} /\ target \in Running
        BY <1>1 DEF Running
    <2>2. Cardinality(Running \ {target}) = Cardinality(Running) - 1
        BY <2>1, RunningFinite, FS_RemoveElement
    <2>3. active' = Cardinality(Running')
        BY <1>1, <2>1, <2>2 DEF ActiveOK
    <2>4. Running' \in SUBSET T
        BY DEF Running
    <2>5. Cardinality(Running') \in 0..Threads
        BY <2>4, SubsetCount
    <2> QED
        BY <1>1, <2>3, <2>5 DEF ActiveOK
<1>4. TypeOK'
    BY <1>1, <1>3 DEF TypeOK, MainPCs
<1>5. SegmentsOK' /\ TargetOK'
    BY <1>1 DEF SegmentsOK, Objects, TargetOK
<1>6. ThreadsOK'
    BY <1>1 DEF ThreadsOK, ThreadOK, Waiting, From, Objects
<1> QED
    BY <1>2, <1>3, <1>4, <1>5, <1>6

LEMMA AllJoinedStep ==
    ASSUME Inv, AllJoined
    PROVE  Inv'
<1> USE SizesAssumption DEF Inv, AllJoined, segments
<1>1. OwnersOK'
    BY OwnersSame
<1>2. ActiveOK'
    BY ActiveSame DEF Running
<1>3. TypeOK' /\ SegmentsOK' /\ TargetOK'
    BY DEF TypeOK, MainPCs, SegmentsOK, Objects, TargetOK
<1>4. ThreadsOK'
    BY DEF ThreadsOK, ThreadOK, TypeOK, Waiting, From, Objects, T
<1> QED
    BY <1>1, <1>2, <1>3, <1>4

LEMMA CheckStep ==
    ASSUME Inv, NEW i \in T, Check(i)
    PROVE  Inv'
<1> USE SizesAssumption DEF Inv
<1>1. /\ pc[i] = "check" /\ remaining[i] \in 0..N
      /\ pc' = [pc EXCEPT ![i] = IF remaining[i] > 0 THEN "begin" ELSE "stopped"]
      /\ UNCHANGED <<mode, hash, list, size, remaining, working, ready, next, main, created,
                     target, active, times>>
    BY DEF Check, Goto, segments, TypeOK
<1>2. /\ pc'[i] = IF remaining[i] > 0 THEN "begin" ELSE "stopped"
      /\ \A k \in T : k # i => pc'[k] = pc[k]
    BY <1>1 DEF TypeOK
<1>3. remaining[i] = 0 => main = "join" /\ target = i
    BY <1>1 DEF ThreadsOK, ThreadOK
<1>4. OwnersOK'
    BY <1>1, OwnersSame DEF segments
<1>5. ActiveOK'
    <2>1. Running' = Running
        BY <1>1, <1>2, <1>3 DEF Running
    <2> QED
        BY <1>1, <2>1, ActiveSame
<1>6. TypeOK'
    BY <1>1 DEF TypeOK, ThreadPCs
<1>7. SegmentsOK' /\ TargetOK'
    BY <1>1, <1>2, <1>3 DEF SegmentsOK, Objects, TargetOK, Waiting, TypeOK
<1>8. ThreadsOK'
    <2> SUFFICES ASSUME NEW k \in T PROVE ThreadOK(k)'
        BY DEF ThreadsOK
    <2>1. ThreadOK(k) /\ From(k)' = From(k)
        BY <1>1 DEF ThreadsOK, From, Objects
    <2> QED
        BY <1>1, <1>2, <2>1 DEF ThreadOK, Waiting, Objects
<1> QED
    BY <1>4, <1>5, <1>6, <1>7, <1>8

LEMMA BeginStep ==
    ASSUME Inv, NEW i \in T, Begin(i)
    PROVE  Inv'
<1> USE SizesAssumption DEF Inv
<1>1. /\ pc[i] = "begin" /\ pc' = [pc EXCEPT ![i] = "take"]
      /\ next' = [next EXCEPT ![i] = list[i]] /\ list[i] \in 1..(N + 1)
      /\ UNCHANGED <<mode, hash, list, size, remaining, working, ready, main, created,
                     target, active, times>>
    BY DEF Begin, Goto, segments, TypeOK
<1>2. /\ pc'[i] = "take" /\ next'[i] = list[i]
      /\ \A k \in T : k # i => pc'[k] = pc[k] /\ next'[k] = next[k]
    BY <1>1 DEF TypeOK
<1>3. OwnersOK'
    BY <1>1, OwnersSame DEF segments
<1>4. ActiveOK'
    <2>1. Running' = Running
        BY <1>1, <1>2 DEF Running
    <2> QED
        BY <1>1, <2>1, ActiveSame
<1>5. TypeOK'
    BY <1>1 DEF TypeOK, ThreadPCs
<1>6. SegmentsOK' /\ TargetOK'
    BY <1>1, <1>2 DEF SegmentsOK, Objects, TargetOK, Waiting, TypeOK
<1>7. ThreadsOK'
    <2> SUFFICES ASSUME NEW k \in T PROVE ThreadOK(k)'
        BY DEF ThreadsOK
    <2>1. ThreadOK(k) /\ From(k)' = From(k) /\ size[k] \in Int /\ list[k] \in Int
        BY <1>1 DEF ThreadsOK, From, Objects, TypeOK
    <2>2. CASE k = i
        <3>1. next'[k] = From(k)'
            BY <1>1, <1>2, <2>1, <2>2 DEF ThreadOK, From
        <3> QED
            BY <1>1, <1>2, <2>1, <2>2, <3>1 DEF ThreadOK, Waiting, Objects
    <2>3. CASE k # i
        BY <1>1, <1>2, <2>1, <2>3 DEF ThreadOK, Waiting, Objects
    <2> QED
        BY <2>2, <2>3
<1> QED
    BY <1>3, <1>4, <1>5, <1>6, <1>7

(* Thread i has searched the first item of its segment and dropped it.       *)
LEMMA SearchedFirst ==
    ASSUME Inv, main # "partition", NEW i \in T, remaining[i] > 0, From(i) \in Items,
           times' = [times EXCEPT ![From(i)] = @ + 1],
           From(i)' = From(i) + 1, remaining'[i] = remaining[i] - 1,
           \A k \in T : k # i => From(k)' = From(k) /\ remaining'[k] = remaining[k]
    PROVE  OwnersOK'
<1> USE SizesAssumption DEF Inv
<1>1. From(i) \in Int /\ remaining[i] \in Int /\ \A k \in T : remaining[k] \in Int
    BY DEF TypeOK, Items
<1> SUFFICES ASSUME NEW o \in Items
             PROVE  /\ times'[o] \in {0, 1}
                    /\ times'[o] = 0 <=> \E k \in T : Has(k, o)'
                    /\ \A k, j \in T : Has(k, o)' /\ Has(j, o)' => k = j
    BY DEF OwnersOK
<1>2. /\ times[o] \in {0, 1}
      /\ times[o] = 0 <=> \E k \in T : Has(k, o)
      /\ \A k, j \in T : Has(k, o) /\ Has(j, o) => k = j
    BY DEF OwnersOK
<1>3. \A k \in T : k # i => (Has(k, o)' <=> Has(k, o))
    BY DEF Has
<1>4. o \in Int /\ (Has(i, o)' <=> Has(i, o) /\ o # From(i))
    BY <1>1 DEF Has, Items
<1>5. times'[o] = IF o = From(i) THEN times[o] + 1 ELSE times[o]
    BY DEF TypeOK
<1>6. CASE o = From(i)
    <2>1. Has(i, o)
        BY <1>1, <1>6 DEF Has
    <2> QED
        BY <1>2, <1>3, <1>4, <1>5, <1>6, <2>1
<1>7. CASE o # From(i)
    BY <1>2, <1>3, <1>4, <1>5, <1>7
<1> QED
    BY <1>6, <1>7

LEMMA TakeStep ==
    ASSUME Inv, NEW i \in T, Take(i)
    PROVE  Inv'
<1> USE SizesAssumption DEF Inv
<1>1. /\ pc[i] = "take" /\ Objects /\ Objects'
      /\ UNCHANGED <<mode, hash, list, size, working, ready, main, created, target, active>>
    BY DEF Take, Objects
<1>2. /\ \A k \in T : /\ remaining[k] \in 0..N /\ remaining[k] <= size[k] /\ size[k] \in 0..N
                       /\ list[k] \in 1..(N + 1) /\ list[k] + size[k] <= N + 1
      /\ main # "partition"
    <2>1. main = "partition" => created < i
        BY DEF SegmentsOK, T
    <2> QED
        BY <1>1, <2>1 DEF TypeOK, SegmentsOK, ThreadsOK, ThreadOK
<1>3. CASE remaining[i] > 0
    <2>1. /\ next' = [next EXCEPT ![i] = @ + 1]
          /\ remaining' = [remaining EXCEPT ![i] = @ - 1]
          /\ times' = [times EXCEPT ![next[i]] = @ + 1] /\ pc' = pc
        BY <1>2, <1>3 DEF Take, Search
    <2>2. next[i] = From(i) /\ From(i) \in Items
        <3>1. next[i] = From(i)
            BY <1>1, <1>3 DEF ThreadsOK, ThreadOK
        <3>2. From(i) = list[i] + size[i] - remaining[i]
            BY <1>1 DEF From
        <3> QED
            BY <1>2, <1>3, <3>1, <3>2 DEF Items
    <2>3. /\ next'[i] = next[i] + 1 /\ remaining'[i] = remaining[i] - 1
          /\ \A k \in T : k # i => next'[k] = next[k] /\ remaining'[k] = remaining[k]
        BY <2>1 DEF TypeOK
    <2>4. From(i)' = From(i) + 1 /\ \A k \in T : k # i => From(k)' = From(k)
        BY <1>1, <1>2, <2>3 DEF From
    <2>5. OwnersOK'
        BY <1>2, <1>3, <2>1, <2>2, <2>3, <2>4, SearchedFirst
    <2>6. ActiveOK'
        <3>1. Running' = Running
            BY <1>1, <2>1 DEF Running
        <3> QED
            BY <1>1, <3>1, ActiveSame
    <2>7. TypeOK'
        <3>1. next' \in [T -> 1..(N + 1)]
            BY <2>1, <2>2 DEF TypeOK, Items
        <3>2. remaining' \in [T -> 0..N]
            BY <1>2, <1>3, <2>1 DEF TypeOK
        <3>3. times' \in [Items -> Nat]
            BY <2>1, <2>2 DEF TypeOK
        <3> QED
            BY <1>1, <2>1, <3>1, <3>2, <3>3 DEF TypeOK
    <2>8. SegmentsOK'
        BY <1>1, <1>2, <1>3, <2>3 DEF SegmentsOK
    <2>9. TargetOK'
        BY <1>1, <1>3, <2>1, <2>3 DEF TargetOK, Waiting, TypeOK
    <2>10. ThreadsOK'
        <3> SUFFICES ASSUME NEW k \in T PROVE ThreadOK(k)'
            BY DEF ThreadsOK
        <3>1. ThreadOK(k)
            BY DEF ThreadsOK
        <3>2. CASE k = i
            BY <1>1, <1>2, <2>1, <2>2, <2>3, <2>4, <3>1, <3>2 DEF ThreadOK, Waiting
        <3>3. CASE k # i
            BY <1>1, <2>1, <2>3, <2>4, <3>1, <3>3 DEF ThreadOK, Waiting
        <3> QED
            BY <3>2, <3>3
    <2> QED
        BY <2>5, <2>6, <2>7, <2>8, <2>9, <2>10
<1>4. CASE remaining[i] = 0
    <2>1. pc' = [pc EXCEPT ![i] = "finish"] /\ UNCHANGED <<next, remaining, times>>
        BY <1>4 DEF Take, Goto
    <2>2. pc'[i] = "finish" /\ \A k \in T : k # i => pc'[k] = pc[k]
        BY <2>1 DEF TypeOK
    <2>3. OwnersOK'
        BY <1>1, <2>1, OwnersSame DEF segments
    <2>4. ActiveOK'
        <3>1. Running' = Running
            BY <1>1, <2>2 DEF Running
        <3> QED
            BY <1>1, <3>1, ActiveSame
    <2>5. TypeOK'
        BY <1>1, <2>1 DEF TypeOK, ThreadPCs
    <2>6. SegmentsOK' /\ TargetOK'
        BY <1>1, <2>1, <2>2 DEF SegmentsOK, Objects, TargetOK, Waiting, TypeOK
    <2>7. ThreadsOK'
        <3> SUFFICES ASSUME NEW k \in T PROVE ThreadOK(k)'
            BY DEF ThreadsOK
        <3>1. ThreadOK(k) /\ From(k)' = From(k)
            BY <1>1, <2>1 DEF ThreadsOK, From, Objects
        <3> QED
            BY <1>1, <1>4, <2>1, <2>2, <3>1 DEF ThreadOK, Waiting
    <2> QED
        BY <2>3, <2>4, <2>5, <2>6, <2>7
<1> QED
    BY <1>2, <1>3, <1>4

LEMMA FinishStep ==
    ASSUME Inv, NEW i \in T, Finish(i)
    PROVE  Inv'
<1> USE SizesAssumption DEF Inv
<1>1. /\ pc[i] = "finish" /\ pc' = [pc EXCEPT ![i] = "wait"]
      /\ working' = [working EXCEPT ![i] = FALSE]
      /\ main' = IF main = "sleep" THEN "scan" ELSE main
      /\ UNCHANGED <<mode, hash, list, size, remaining, ready, next, created, target,
                     active, times>>
    BY DEF Finish, Idles, Goto, segments
<1>2. /\ pc'[i] = "wait" /\ working'[i] = FALSE
      /\ \A k \in T : k # i => pc'[k] = pc[k] /\ working'[k] = working[k]
    BY <1>1 DEF TypeOK
<1>3. OwnersOK'
    BY <1>1, OwnersSame DEF segments
<1>4. ActiveOK'
    <2>1. Running' = Running
        BY <1>1, <1>2 DEF Running
    <2> QED
        BY <1>1, <2>1, ActiveSame
<1>5. TypeOK'
    BY <1>1 DEF TypeOK, ThreadPCs, MainPCs
<1>6. SegmentsOK' /\ TargetOK'
    BY <1>1, <1>2 DEF SegmentsOK, Objects, TargetOK, Waiting, TypeOK
<1>7. ThreadsOK'
    <2> SUFFICES ASSUME NEW k \in T PROVE ThreadOK(k)'
        BY DEF ThreadsOK
    <2>1. ThreadOK(k) /\ From(k)' = From(k)
        BY <1>1 DEF ThreadsOK, From, Objects
    <2> QED
        BY <1>1, <1>2, <2>1 DEF ThreadOK, Waiting, Objects
<1> QED
    BY <1>3, <1>4, <1>5, <1>6, <1>7

LEMMA RegionDoneStep ==
    ASSUME Inv, NEW i \in T, RegionDone(i)
    PROVE  Inv'
<1> USE SizesAssumption DEF Inv
<1>1. /\ pc[i] = "take" /\ ~Objects /\ ~Objects'
      /\ times' = [times EXCEPT ![next[i]] = @ + 1]
      /\ remaining' = [remaining EXCEPT ![i] = @ - 1]
      /\ list' = [list EXCEPT ![i] = @ + 1]
      /\ UNCHANGED <<mode, hash, size, ready, next, created, target, active>>
    BY DEF RegionDone, Search, Objects
<1>2. \/ /\ remaining[i] > 1 /\ pc' = [pc EXCEPT ![i] = "begin"]
         /\ UNCHANGED <<working, main>>
      \/ /\ remaining[i] = 1 /\ pc' = [pc EXCEPT ![i] = "wait"]
         /\ working' = [working EXCEPT ![i] = FALSE]
         /\ main' = IF main = "sleep" THEN "scan" ELSE main
    BY DEF RegionDone, Idles, Goto
<1>3. /\ \A k \in T : /\ remaining[k] \in 0..N /\ remaining[k] <= size[k]
                       /\ list[k] \in 1..(N + 1) /\ list[k] + remaining[k] <= N + 1
      /\ main # "partition"
    <2>1. main = "partition" => created < i
        BY DEF SegmentsOK, T
    <2> QED
        BY <1>1, <2>1 DEF TypeOK, SegmentsOK, ThreadsOK, ThreadOK
<1>4. remaining[i] > 0 /\ next[i] = From(i) /\ From(i) = list[i] /\ From(i) \in Items
    <2>1. remaining[i] > 0 /\ next[i] = From(i)
        BY <1>1 DEF ThreadsOK, ThreadOK
    <2>2. From(i) = list[i]
        BY <1>1 DEF From
    <2> QED
        BY <1>3, <2>1, <2>2 DEF Items
<1>5. /\ list'[i] = list[i] + 1 /\ remaining'[i] = remaining[i] - 1
      /\ \A k \in T : k # i => list'[k] = list[k] /\ remaining'[k] = remaining[k]
    BY <1>1 DEF TypeOK
<1>6. /\ \A k \in T : k # i => pc'[k] = pc[k] /\ working'[k] = working[k]
      /\ remaining[i] > 1 => pc'[i] = "begin" /\ working'[i] = working[i]
      /\ remaining[i] = 1 => pc'[i] = "wait" /\ working'[i] = FALSE
    BY <1>2 DEF TypeOK
<1>7. From(i)' = From(i) + 1 /\ \A k \in T : k # i => From(k)' = From(k)
    BY <1>1, <1>4, <1>5 DEF From
<1>8. OwnersOK'
    BY <1>1, <1>3, <1>4, <1>5, <1>7, SearchedFirst
<1>9. ActiveOK'
    <2>1. Running' = Running
        BY <1>1, <1>2, <1>6 DEF Running
    <2> QED
        BY <1>1, <1>2, <2>1, ActiveSame
<1>10. TypeOK'
    <2>1. list' \in [T -> 1..(N + 1)] /\ remaining' \in [T -> 0..N]
        BY <1>1, <1>3, <1>4 DEF TypeOK
    <2>2. times' \in [Items -> Nat]
        BY <1>1, <1>4 DEF TypeOK
    <2>3. pc' \in [T -> ThreadPCs] /\ working' \in [T -> BOOLEAN] /\ main' \in MainPCs
        BY <1>2 DEF TypeOK, ThreadPCs, MainPCs
    <2> QED
        BY <1>1, <2>1, <2>2, <2>3 DEF TypeOK
<1>11. SegmentsOK'
    BY <1>1, <1>2, <1>3, <1>4, <1>5 DEF SegmentsOK, TypeOK
<1>12. TargetOK'
    BY <1>1, <1>2, <1>3, <1>4, <1>5, <1>6 DEF TargetOK, Waiting, TypeOK
<1>13. ThreadsOK'
    <2> SUFFICES ASSUME NEW k \in T PROVE ThreadOK(k)'
        BY DEF ThreadsOK
    <2>1. ThreadOK(k)
        BY DEF ThreadsOK
    <2>2. CASE k = i
        BY <1>1, <1>2, <1>3, <1>4, <1>5, <1>6, <2>1, <2>2 DEF ThreadOK, Waiting
    <2>3. CASE k # i
        BY <1>1, <1>2, <1>5, <1>6, <1>7, <2>1, <2>3 DEF ThreadOK, Waiting
    <2> QED
        BY <2>2, <2>3
<1> QED
    BY <1>8, <1>9, <1>10, <1>11, <1>12, <1>13

LEMMA WaitStep ==
    ASSUME Inv, NEW i \in T, Wait(i)
    PROVE  Inv'
<1> USE SizesAssumption DEF Inv
<1>1. /\ pc[i] = "wait"
      /\ UNCHANGED <<mode, hash, list, size, remaining, working, next, main, created,
                     target, active, times>>
    BY DEF Wait, segments
<1>2. \/ ready[i] /\ ready' = [ready EXCEPT ![i] = FALSE] /\ pc' = [pc EXCEPT ![i] = "check"]
      \/ ~ready[i] /\ pc' = [pc EXCEPT ![i] = "sleep"] /\ UNCHANGED ready
    BY DEF Wait, Goto
<1>3. /\ \A k \in T : k # i => pc'[k] = pc[k] /\ ready'[k] = ready[k]
      /\ ready'[i] = FALSE /\ pc'[i] = IF ready[i] THEN "check" ELSE "sleep"
    BY <1>2 DEF TypeOK
<1>4. OwnersOK'
    BY <1>1, OwnersSame DEF segments
<1>5. ActiveOK'
    <2>1. Running' = Running
        BY <1>1, <1>3 DEF Running
    <2> QED
        BY <1>1, <2>1, ActiveSame
<1>6. TypeOK'
    <2>1. pc' \in [T -> ThreadPCs] /\ ready' \in [T -> BOOLEAN]
        BY <1>2 DEF TypeOK, ThreadPCs
    <2> QED
        BY <1>1, <2>1 DEF TypeOK
<1>7. SegmentsOK' /\ TargetOK'
    BY <1>1, <1>3 DEF SegmentsOK, Objects, TargetOK, Waiting, TypeOK
<1>8. ThreadsOK'
    <2> SUFFICES ASSUME NEW k \in T PROVE ThreadOK(k)'
        BY DEF ThreadsOK
    <2>1. ThreadOK(k) /\ From(k)' = From(k)
        BY <1>1 DEF ThreadsOK, From, Objects
    <2> QED
        BY <1>1, <1>3, <2>1 DEF ThreadOK, Waiting, Objects
<1> QED
    BY <1>4, <1>5, <1>6, <1>7, <1>8

LEMMA InvInductive == Inv /\ [Next]_vars => Inv'
<1> SUFFICES ASSUME Inv, [Next]_vars PROVE Inv'
    OBVIOUS
<1>1. CASE UNCHANGED vars
    <2> USE <1>1 DEF vars, segments
    <2>1. TypeOK' /\ SegmentsOK' /\ TargetOK'
        BY DEF Inv, TypeOK, SegmentsOK, TargetOK, Waiting, Objects
    <2>2. ThreadsOK'
        BY DEF Inv, ThreadsOK, ThreadOK, Waiting, From, Objects
    <2>3. ActiveOK'
        BY ActiveSame DEF Inv, Running
    <2>4. OwnersOK'
        BY OwnersSame DEF Inv
    <2> QED
        BY <2>1, <2>2, <2>3, <2>4 DEF Inv
<1>2. CASE MainStep
    BY <1>2, PartitionStep, CreateStep, CreatedStep, ScanStep, ScanSleepStep, GiveStep,
       JoinStep, AllJoinedStep DEF MainStep
<1>3. ASSUME NEW i \in T, ThreadStep(i) PROVE Inv'
    BY <1>3, CheckStep, BeginStep, TakeStep, FinishStep, RegionDoneStep, WaitStep
       DEF ThreadStep
<1> QED
    BY <1>1, <1>2, <1>3 DEF Next

-----------------------------------------------------------------------------
(* The properties. *)

(* The invariant says what EachOnce says with intervals and cardinalities.   *)
LEMMA InvEachOnce == Inv => EachOnce
<1> SUFFICES ASSUME Inv PROVE EachOnce
    OBVIOUS
<1> USE SizesAssumption DEF Inv
<1>1. \A i \in T : /\ From(i) \in Int /\ remaining[i] \in Nat
                   /\ Pending(i) = From(i)..(From(i) + remaining[i] - 1)
    BY DEF TypeOK, From, Pending, Items
<1>2. OwnsNext
    <2> SUFFICES ASSUME NEW i \in T, pc[i] = "take", remaining[i] > 0
                 PROVE  next[i] = Min(Pending(i))
        BY DEF OwnsNext
    <2>1. next[i] = From(i) /\ next[i] \in Nat
        BY DEF ThreadsOK, ThreadOK, TypeOK
    <2>2. From(i) \in Pending(i) /\ Pending(i) \subseteq Nat
        BY <1>1, <2>1
    <2>3. Min(Pending(i)) \in Pending(i) /\ Min(Pending(i)) <= From(i)
        BY <2>2, MinProperties
    <2> QED
        BY <1>1, <2>1, <2>3
<1>3. ASSUME main \notin {"partition", "died"}, NEW o \in Items
      PROVE  times[o] + Cardinality({i \in T : o \in Pending(i)}) = 1
    <2> DEFINE S == {i \in T : o \in Pending(i)}
    <2>1. \A i \in T : i \in S <=> Has(i, o)
        BY <1>1 DEF Has, Items
    <2>2. /\ times[o] \in {0, 1}
          /\ times[o] = 0 <=> \E i \in T : Has(i, o)
          /\ \A i, j \in T : Has(i, o) /\ Has(j, o) => i = j
        BY <1>3 DEF OwnersOK
    <2>3. S \subseteq T
        OBVIOUS
    <2> HIDE DEF S
    <2>4. CASE times[o] = 1
        <3>1. S = {}
            BY <2>1, <2>2, <2>3, <2>4
        <3> QED
            BY <2>4, <3>1, FS_EmptySet DEF S
    <2>5. CASE times[o] = 0
        <3>1. PICK i \in T : Has(i, o)
            BY <2>2, <2>5
        <3>2. S = {i}
            BY <2>1, <2>2, <2>3, <3>1
        <3>3. Cardinality(S) = 1
            BY <3>2, FS_Singleton
        <3> QED
            BY <2>5, <3>3 DEF S
    <2> QED
        BY <2>2, <2>4, <2>5
<1> QED
    BY <1>2, <1>3 DEF EachOnce

LEMMA InvComplete == Inv => CompleteWhenDone
<1> SUFFICES ASSUME Inv, main = "done"
             PROVE  /\ \A o \in Items : times[o] = 1
                    /\ \A i \in T : pc[i] \in {"none", "stopped"}
    BY DEF CompleteWhenDone
<1> USE SizesAssumption DEF Inv
<1>1. Running = {}
    BY RunningFinite, FS_EmptySet DEF ActiveOK
<1>2. \A i \in T : pc[i] \in {"none", "stopped"}
    BY <1>1 DEF Running
<1>3. \A i \in T : remaining[i] = 0
    BY <1>2 DEF ThreadsOK, ThreadOK, TypeOK, T
<1>4. \A i \in T, o \in Items : ~Has(i, o)
    BY <1>3 DEF Has, From, TypeOK, Items
<1> QED
    BY <1>2, <1>4 DEF OwnersOK

(* Inv, which ties the segments, the threads' places and the thread that is  *)
(* being helped together, holds for every number of threads and items.       *)
THEOREM InvHolds == Spec => []Inv
BY InitInv, InvInductive, PTL DEF Spec

(* Every item of the list is searched by exactly one thread, however the     *)
(* segments are split and stolen, and no thread's private pointer leaves its *)
(* segment: ll_find_deltas and ll_find_deltas_by_region for all sizes.       *)
THEOREM EachSearchedOnce == Spec => []EachOnce
BY InvHolds, InvEachOnce, PTL

(* When ll_find_deltas returns everything has been searched and every thread *)
(* was joined.                                                               *)
THEOREM SearchComplete == Spec => []CompleteWhenDone
BY InvHolds, InvComplete, PTL
=============================================================================
