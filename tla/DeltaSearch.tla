----------------------------- MODULE DeltaSearch -----------------------------
(* The threads of pack-objects that look for deltas (builtin/pack-objects.c): *)
(* ll_find_deltas splits the list of objects among threads; a thread that    *)
(* has finished gets half of what is left of the largest segment.            *)
(* ll_find_deltas_by_region does the same with regions of objects that       *)
(* share a path (--path-walk).  The two differ in how a thread counts down   *)
(* and in where a segment may be cut.                                        *)
(*                                                                           *)
(* Items are the positions 1..N of the list.  A critical section under       *)
(* progress_mutex or under a thread's own mutex is one step: none of them    *)
(* blocks but in pthread_cond_wait, which is a step of its own.              *)
EXTENDS Integers, FiniteSets, FiniteSetsExt

CONSTANTS
    N,          \* how many objects, or regions
    Threads,    \* delta_search_threads
    Window,     \* --window; ll_find_deltas is called with window + 1
    Hashes,     \* name hashes the objects may have: functions from 1..N; 0 is none
    Modes       \* subset of {"objects", "regions"}

ASSUME SizesAssumption ==
    N \in Nat \ {0} /\ Threads \in Nat \ {0, 1} /\ Window \in Nat \ {0}
ASSUME HashesAssumption == Hashes \subseteq [1..N -> Nat]
ASSUME ModesAssumption == Modes \subseteq {"objects", "regions"}

VARIABLES
    mode,       \* which of the two functions runs
    hash,       \* the hash of each object
    list,       \* p[i].list or p[i].regions: where the segment begins
    size,       \* p[i].list_size
    remaining,  \* p[i].remaining
    working,    \* p[i].working
    ready,      \* p[i].data_ready
    pc,         \* where each thread is
    next,       \* find_deltas: the thread's own copy of list, which it advances
    main,       \* where the main thread is
    created,    \* how many of the threads it has started or passed over
    target,     \* the idle thread that it serves
    active,     \* active_threads
    times       \* history: how often each item was searched

segments == <<list, size, remaining>>
vars == <<mode, hash, segments, working, ready, pc, next, main, created, target,
          active, times>>

T == 1..Threads
Items == 1..N
ThreadPCs == {"none", "check", "begin", "take", "finish", "wait", "sleep", "stopped"}
MainPCs == {"partition", "create", "scan", "sleep", "give", "join", "done", "died"}

(* Type invariant of the segments and of the threads.                        *)
TypeOK ==
    /\ mode \in Modes /\ hash \in Hashes
    /\ list \in [T -> 1..(N + 1)] /\ next \in [T -> 1..(N + 1)]
    /\ size \in [T -> 0..N] /\ remaining \in [T -> 0..N]
    /\ working \in [T -> BOOLEAN] /\ ready \in [T -> BOOLEAN]
    /\ pc \in [T -> ThreadPCs] /\ main \in MainPCs
    /\ created \in 0..Threads /\ target \in T /\ active \in 0..Threads
    /\ times \in [Items -> Nat]

Init ==
    /\ mode \in Modes /\ hash \in Hashes
    /\ list = [i \in T |-> 1] /\ size = [i \in T |-> 0]
    /\ remaining = [i \in T |-> 0]
    /\ working = [i \in T |-> TRUE] /\ ready = [i \in T |-> FALSE]
    /\ pc = [i \in T |-> "none"] /\ next = [i \in T |-> 1]
    /\ main = "partition" /\ created = 0 /\ target = 1 /\ active = 0
    /\ times = [o \in Items |-> 0]

-----------------------------------------------------------------------------
(* The main thread: splitting the list. *)

Objects == mode = "objects"
MinSegment == 2 * (IF Objects THEN Window + 1 ELSE Window)

(* Is there no path boundary in front of item o?                             *)
SamePath(o) == Objects /\ hash[o] # 0 /\ hash[o] = hash[o - 1]

(* The size of thread i's segment when the first `from` items are given out: *)
(* an equal share, none if that is too little, up to a path boundary.        *)
Share(i, from) ==
    LET left  == N - from
        share == left \div (Threads - i + 1)
        least == IF Objects /\ share < MinSegment /\ i < Threads THEN 0 ELSE share
    IN IF least = 0 THEN 0
       ELSE Min({k \in least..left : k = left \/ ~SamePath(from + k + 1)})

(* before[i] items are given out when it is thread i's turn.                 *)
Partition ==
    /\ main = "partition"
    /\ \E before \in [1..(Threads + 1) -> 0..N] :
          /\ before[1] = 0
          /\ \A i \in T : before[i + 1] = before[i] + Share(i, before[i])
          /\ list' = [i \in T |-> before[i] + 1]
          /\ size' = [i \in T |-> before[i + 1] - before[i]]
    /\ remaining' = size'
    /\ main' = "create"
    /\ UNCHANGED <<mode, hash, working, ready, pc, next, created, target, active, times>>

(* Threads that have nothing to do are not started, nor given work later.    *)
(* die() when pthread_create fails ends every thread.                        *)
Create ==
    /\ main = "create" /\ created < Threads
    /\ LET i == created + 1 IN
       \/ /\ size[i] = 0
          /\ created' = i /\ UNCHANGED <<pc, active, main>>
       \/ /\ size[i] > 0
          /\ created' = i /\ pc' = [pc EXCEPT ![i] = "check"]
          /\ active' = active + 1 /\ UNCHANGED main
       \/ /\ size[i] > 0
          /\ main' = "died" /\ UNCHANGED <<created, pc, active>>
    /\ UNCHANGED <<mode, hash, segments, working, ready, next, target, times>>

Created ==
    /\ main = "create" /\ created = Threads
    /\ main' = "scan"
    /\ UNCHANGED <<mode, hash, segments, working, ready, pc, next, created, target,
                   active, times>>

-----------------------------------------------------------------------------
(* The main thread: giving work to idle threads. *)

Idle == {i \in T : ~working[i]}

(* Threads with more left than is worth keeping together, and the first of   *)
(* those with the most.                                                      *)
Rich == {i \in T : remaining[i] > MinSegment}
Victim == Min({i \in Rich : \A j \in Rich : remaining[j] <= remaining[i]})

(* Mutant: the segment is taken from where the regions end, as if the        *)
(* thread did not advance its pointer.                                       *)
StolenFromOfSize(v, sub) == list[v] + size[v] - sub

(* The first of the last sub items.  A thread of ll_find_deltas leaves list  *)
(* where it was; the other one advances regions.                             *)
StolenFrom(v, sub) ==
    (IF Objects THEN list[v] + size[v] ELSE list[v] + remaining[v]) - sub

(* Half of the victim's items, or fewer to begin at a path boundary.         *)
StolenSize(v) ==
    LET half == remaining[v] \div 2
        cuts == {k \in 1..half : ~SamePath(StolenFrom(v, k))}
    IN IF cuts = {} THEN half ELSE Max(cuts)

Scan ==
    /\ main = "scan" /\ active > 0 /\ Idle # {}
    /\ target' = Min(Idle)
    /\ LET v   == Victim
           sub == IF Rich = {} THEN 0 ELSE StolenSize(v)
       IN /\ list' = IF Rich = {} THEN list
                     ELSE [list EXCEPT ![target'] = StolenFrom(v, sub)]
          /\ size' = [i \in T |-> IF i = target' THEN sub
                                  ELSE IF Rich # {} /\ i = v THEN size[i] - sub
                                  ELSE size[i]]
          /\ remaining' = [i \in T |-> IF i = target' THEN sub
                                  ELSE IF Rich # {} /\ i = v THEN remaining[i] - sub
                                  ELSE remaining[i]]
    /\ working' = [working EXCEPT ![target'] = TRUE]
    /\ main' = "give"
    /\ UNCHANGED <<mode, hash, ready, pc, next, created, active, times>>

(* pthread_cond_wait on progress_cond.                                       *)
ScanSleep ==
    /\ main = "scan" /\ active > 0 /\ Idle = {}
    /\ main' = "sleep"
    /\ UNCHANGED <<mode, hash, segments, working, ready, pc, next, created, target,
                   active, times>>

(* Mutant: the condition is signalled, data_ready is not set.                *)
SetReadyNever == UNCHANGED ready

SetReady == ready' = [ready EXCEPT ![target] = TRUE]

(* data_ready and the signal, under the thread's own mutex; the thread may   *)
(* not have come to wait yet.                                                *)
Give ==
    /\ main = "give"
    /\ SetReady
    /\ pc' = IF pc[target] = "sleep" THEN [pc EXCEPT ![target] = "wait"] ELSE pc
    /\ main' = IF size[target] = 0 THEN "join" ELSE "scan"
    /\ UNCHANGED <<mode, hash, segments, working, next, created, target, active, times>>

(* Mutant: a thread that was given nothing is not waited for.                *)
JoinDetached ==
    /\ main = "join"
    /\ active' = active - 1 /\ main' = "scan"
    /\ UNCHANGED <<mode, hash, segments, working, ready, pc, next, created, target, times>>

(* pthread_join of a thread that was given nothing.                          *)
Join ==
    /\ main = "join" /\ pc[target] = "stopped"
    /\ active' = active - 1 /\ main' = "scan"
    /\ UNCHANGED <<mode, hash, segments, working, ready, pc, next, created, target, times>>

AllJoined ==
    /\ main = "scan" /\ active = 0
    /\ main' = "done"
    /\ UNCHANGED <<mode, hash, segments, working, ready, pc, next, created, target,
                   active, times>>

-----------------------------------------------------------------------------
(* threaded_find_deltas and threaded_find_deltas_by_path. *)

Alive == main # "died"
Goto(i, l) == pc' = [pc EXCEPT ![i] = l]

(* while (me->remaining) *)
Check(i) ==
    /\ Alive /\ pc[i] = "check"
    /\ Goto(i, IF remaining[i] > 0 THEN "begin" ELSE "stopped")
    /\ UNCHANGED <<mode, hash, segments, working, ready, next, main, created, target,
                   active, times>>

(* me->list, or me->regions, is read without progress_mutex.                 *)
Begin(i) ==
    /\ Alive /\ pc[i] = "begin"
    /\ next' = [next EXCEPT ![i] = list[i]]
    /\ Goto(i, "take")
    /\ UNCHANGED <<mode, hash, segments, working, ready, main, created, target,
                   active, times>>

Search(o) == times' = [times EXCEPT ![o] = @ + 1]

(* The head of the loop in find_deltas: the next object is taken under the   *)
(* lock and searched after it.                                               *)
Take(i) ==
    /\ Alive /\ Objects /\ pc[i] = "take"
    /\ \/ /\ remaining[i] > 0
          /\ next' = [next EXCEPT ![i] = @ + 1]
          /\ remaining' = [remaining EXCEPT ![i] = @ - 1]
          /\ Search(next[i]) /\ UNCHANGED pc
       \/ /\ remaining[i] = 0 /\ Goto(i, "finish")
          /\ UNCHANGED <<next, remaining, times>>
    /\ UNCHANGED <<mode, hash, list, size, working, ready, main, created, target, active>>

(* working is cleared and progress_cond signalled.                           *)
Idles(i) ==
    /\ working' = [working EXCEPT ![i] = FALSE]
    /\ main' = IF main = "sleep" THEN "scan" ELSE main

Finish(i) ==
    /\ Alive /\ pc[i] = "finish"
    /\ Idles(i) /\ Goto(i, "wait")
    /\ UNCHANGED <<mode, hash, segments, ready, next, created, target, active, times>>

(* The end of find_deltas_for_region; the lock is kept from the countdown to *)
(* the signal when no region is left.                                        *)
RegionDone(i) ==
    /\ Alive /\ ~Objects /\ pc[i] = "take"
    /\ Search(next[i])
    /\ remaining' = [remaining EXCEPT ![i] = @ - 1]
    /\ list' = [list EXCEPT ![i] = @ + 1]
    /\ \/ remaining[i] > 1 /\ Goto(i, "begin") /\ UNCHANGED <<working, main>>
       \/ remaining[i] = 1 /\ Goto(i, "wait") /\ Idles(i)
    /\ UNCHANGED <<mode, hash, size, ready, next, created, target, active>>

(* while (!me->data_ready) pthread_cond_wait(&me->cond, &me->mutex)          *)
Wait(i) ==
    /\ Alive /\ pc[i] = "wait"
    /\ \/ ready[i] /\ ready' = [ready EXCEPT ![i] = FALSE] /\ Goto(i, "check")
       \/ ~ready[i] /\ Goto(i, "sleep") /\ UNCHANGED ready
    /\ UNCHANGED <<mode, hash, segments, working, next, main, created, target,
                   active, times>>

-----------------------------------------------------------------------------
MainStep == Partition \/ Create \/ Created \/ Scan \/ ScanSleep \/ Give \/ Join \/ AllJoined
ThreadStep(i) == Check(i) \/ Begin(i) \/ Take(i) \/ Finish(i) \/ RegionDone(i) \/ Wait(i)

Next == MainStep \/ \E i \in T : ThreadStep(i)

(* Every thread that can run eventually does.                                *)
Fairness == WF_vars(MainStep) /\ \A i \in T : WF_vars(ThreadStep(i))

Spec == Init /\ [][Next]_vars /\ Fairness

-----------------------------------------------------------------------------
(* What thread i has still to search, as the main thread reckons it.         *)
Pending(i) ==
    LET from == IF Objects THEN list[i] + size[i] - remaining[i] ELSE list[i]
    IN from..(from + remaining[i] - 1)

(* "don't access object entries ahead in the list because they can be        *)
(* stolen": what a thread's private pointer is at is the first item that the *)
(* shared counters leave to it.                                              *)
OwnsNext ==
    \A i \in T : Alive /\ pc[i] = "take" /\ remaining[i] > 0 =>
        next[i] = Min(Pending(i))

(* However the segments are split and split again, every item was searched   *)
(* once and is nobody's, or was not and is in exactly one segment; and no    *)
(* thread is about to take an item that is not its own.                      *)
EachOnce ==
    /\ TypeOK
    /\ main \notin {"partition", "died"} =>
         \A o \in Items :
             times[o] + Cardinality({i \in T : o \in Pending(i)}) = 1
    /\ OwnsNext

(* When the main thread goes on to write the pack, everything was searched   *)
(* and no thread runs.                                                       *)
CompleteWhenDone ==
    main = "done" => /\ \A o \in Items : times[o] = 1
                     /\ \A i \in T : pc[i] \in {"none", "stopped"}

(* No wakeup is lost and no thread waits for another forever.                *)
SearchEnds == <>(main \in {"done", "died"})
=============================================================================
