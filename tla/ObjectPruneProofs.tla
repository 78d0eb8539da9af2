-------------------------- MODULE ObjectPruneProofs --------------------------
(* Proofs about ObjectPrune: for every object graph and any number of refs   *)
(* and processes, whichever refs have reflogs, git prune keeps what is       *)
(* recent, what a writer took for safe and what stayed reachable, unless it  *)
(* is one of the objects that prune cannot find (Unfindable).                *)
EXTENDS ObjectPrune, SequenceTheorems, TLAPS

-----------------------------------------------------------------------------
(* What reachability means. *)

(* Closure is a closed set around its roots, and the least one.              *)
LEMMA ClosureProperties ==
    ASSUME NEW S \in SUBSET Objects, NEW P
    PROVE  /\ S \subseteq Closure(S, P) /\ Closure(S, P) \subseteq Objects
           /\ Closed(Closure(S, P), P)
           /\ \A C \in SUBSET Objects : S \subseteq C /\ Closed(C, P) => Closure(S, P) \subseteq C
<1>1. S \subseteq Closure(S, P) /\ Closure(S, P) \subseteq Objects
    BY DEF Closure
<1>2. \A C \in SUBSET Objects : S \subseteq C /\ Closed(C, P) => Closure(S, P) \subseteq C
    BY DEF Closure
<1>3. ASSUME NEW o \in Closure(S, P) \cap P, NEW x \in Links[o]
      PROVE  x \in Closure(S, P)
    <2>1. o \in Objects /\ x \in Objects
        BY <1>1, <1>3, GraphAssumption
    <2>2. ASSUME NEW C \in SUBSET Objects, S \subseteq C, Closed(C, P)
          PROVE  x \in C
        BY <1>2, <1>3, <2>2 DEF Closed
    <2> QED
        BY <2>1, <2>2 DEF Closure
<1>4. Closed(Closure(S, P), P)
    BY <1>3 DEF Closed
<1> QED
    BY <1>1, <1>2, <1>4

(* More roots and more objects that can be read reach more.                  *)
LEMMA ClosureMonotone ==
    ASSUME NEW S \in SUBSET Objects, NEW U \in SUBSET Objects, NEW P, NEW Q,
           S \subseteq Closure(U, Q), P \subseteq Q
    PROVE  Closure(S, P) \subseteq Closure(U, Q)
<1>1. Closed(Closure(U, Q), P) /\ Closure(U, Q) \in SUBSET Objects
    BY ClosureProperties DEF Closed
<1> QED
    BY <1>1, ClosureProperties

(* What is reached and exists is reached from a root that exists.            *)
LEMMA ClosureOfReadable ==
    ASSUME NEW S \in SUBSET Objects, NEW P
    PROVE  P \cap Closure(S, P) \subseteq Closure(S \cap P, P)
<1> DEFINE C == Closure(S \cap P, P) \cup (S \ P)
<1>1. S \subseteq C /\ C \in SUBSET Objects
    BY ClosureProperties
<1>2. Closed(C, P)
    BY ClosureProperties DEF Closed
<1>3. Closure(S, P) \subseteq C
    <2> HIDE DEF C
    <2> QED
        BY <1>1, <1>2, ClosureProperties
<1> QED
    BY <1>3

-----------------------------------------------------------------------------
(* Types. *)

PCs == WritePCs \cup MovePCs \cup PrunePCs
Known(m) == pc[m] \in {"log", "set", "unlog", "delete"} => base[m] \in Objects
Progress(w) ==
    /\ pc[w] = "idle" => next[w] = 0
    /\ pc[w] \in {"freshen", "create"} => next[w] < Len(Writes[w])
    /\ pc[w] \in {"update", "lock", "log", "set", "done"} => next[w] = Len(Writes[w])

(* TypeOK, and how far a writer is; a mover knows an object.                 *)
TypeInv ==
    /\ TypeOK
    /\ pc \in [Procs \cup {Pruner} -> PCs] /\ next \in [Writers -> Nat]
    /\ \A m \in Movers : Known(m)
    /\ \A w \in Writers : Progress(w)

HistoryTypes == live \subseteq Objects /\ moved \subseteq Objects /\ astray \subseteq Objects

LEMMA WritesProperties ==
    ASSUME NEW w \in Writers
    PROVE  /\ Len(Writes[w]) \in Nat \ {0} /\ Tip(w) \in Objects
           /\ \A n \in 0..(Len(Writes[w]) - 1) : Writes[w][n + 1] \in Objects
<1>1. Writes[w] \in Seq(Objects) /\ Writes[w] # <<>>
    BY ProcAssumption
<1>2. Len(Writes[w]) \in Nat /\ Len(Writes[w]) # 0
    BY <1>1, EmptySeq, LenProperties
<1>3. \A n \in 1..Len(Writes[w]) : Writes[w][n] \in Objects
    BY <1>1, ElementOfSeq
<1> QED
    BY <1>2, <1>3 DEF Tip

LEMMA InitTypes == Init => TypeInv
<1> SUFFICES ASSUME Init PROVE TypeInv
    OBVIOUS
<1> USE GraphAssumption, ProcAssumption DEF Init
<1>1. \A w \in Writers : Len(Writes[w]) \in Nat
    BY WritesProperties
<1>2. TypeOK
    <2> QED
        BY <1>1 DEF TypeOK, WritePCs, MovePCs, PrunePCs, Procs, Stamps
<1> QED
    BY <1>2 DEF TypeInv, PCs, WritePCs, Known, Progress, Procs

(* A step of a writer keeps the types, and does nothing to prune's own       *)
(* state: it only makes objects recent and reflogs longer.                   *)
Harmless ==
    /\ UNCHANGED prune /\ pc'[Pruner] = pc[Pruner]
    /\ \A o \in Objects : mtime'[o] \in {mtime[o], "new"}
    /\ stale \subseteq stale'

(* The types of a step in which process p goes from its place to l.          *)
LEMMA StepTypes ==
    ASSUME TypeInv, NEW p \in Procs, NEW l, pc' = [pc EXCEPT ![p] = l],
           p \in Writers => l \in WritePCs /\ next'[p] \in 0..Len(Writes[p]) /\ Progress(p)',
           p \in Movers => l \in MovePCs /\ Known(p)',
           next' \in [Writers -> Nat], \A u \in Writers \ {p} : next'[u] = next[u],
           base' \in [Procs -> Objects \cup {None}],
           \A u \in Procs \ {p} : base'[u] = base[u],
           mtime' \in [Objects -> Stamps], stale' \subseteq Objects, faults' \in 0..MaxFaults,
           ref' \in [Refs -> Objects \cup {None}], log' \in [Refs -> SUBSET Objects],
           reflock' \in [Refs -> Procs \cup {None}], UNCHANGED prune, HistoryTypes'
    PROVE  TypeInv' /\ pc'[Pruner] = pc[Pruner]
<1> USE ProcAssumption DEF TypeInv
<1>1. p \in Writers \/ p \in Movers
    BY DEF Procs
<1>2. p # Pruner /\ pc' \in [Procs \cup {Pruner} -> PCs]
    BY <1>1 DEF PCs
<1>3. pc'[p] = l /\ \A u \in (Procs \cup {Pruner}) \ {p} : pc'[u] = pc[u]
    OBVIOUS
<1>4. \A u \in Writers : u \in Procs /\ u # Pruner /\ u \notin Movers
    BY DEF Procs
<1>5. \A u \in Movers : u \in Procs /\ u # Pruner /\ u \notin Writers
    BY DEF Procs
<1>6. TypeOK'
    BY <1>1, <1>2, <1>3, <1>4, <1>5 DEF TypeOK, HistoryTypes, prune
<1>7. ASSUME NEW u \in Writers PROVE Progress(u)'
    BY <1>3, <1>4, <1>7 DEF Progress
<1>8. ASSUME NEW u \in Movers PROVE Known(u)'
    BY <1>3, <1>5, <1>8 DEF Known
<1> QED
    BY <1>2, <1>3, <1>6, <1>7, <1>8

(* The object is there: the next one, or the ref.                            *)
LEMMA ProceedTypes ==
    ASSUME TypeInv, NEW w \in Writers, next[w] < Len(Writes[w]), Proceed(w)
    PROVE  \E l \in WritePCs :
              /\ pc' = [pc EXCEPT ![w] = l]
              /\ next' \in [Writers -> Nat] /\ \A u \in Writers \ {w} : next'[u] = next[u]
              /\ next'[w] = next[w] + 1 /\ next'[w] \in 0..Len(Writes[w])
              /\ Progress(w)' /\ l \in {"update", "freshen"}
<1> USE DEF TypeInv
<1> DEFINE l == IF next[w] + 1 = Len(Writes[w]) THEN "update" ELSE "freshen"
<1>1. Len(Writes[w]) \in Nat /\ next[w] \in Nat /\ w \in Procs
    BY WritesProperties DEF Procs
<1>2. /\ pc' = [pc EXCEPT ![w] = l] /\ pc'[w] = l
      /\ next' = [next EXCEPT ![w] = @ + 1] /\ next'[w] = next[w] + 1
    BY <1>1 DEF Proceed, Goto
<1>3. next[w] + 1 <= Len(Writes[w])
    BY <1>1
<1>4. Progress(w)'
    BY <1>1, <1>2, <1>3 DEF Progress
<1>5. next' \in [Writers -> Nat] /\ \A u \in Writers \ {w} : next'[u] = next[u]
    BY <1>1, <1>2
<1>6. l \in WritePCs /\ l \in {"update", "freshen"}
    BY DEF WritePCs
<1>7. next'[w] \in 0..Len(Writes[w])
    BY <1>1, <1>2, <1>3
<1> QED
    BY <1>2, <1>4, <1>5, <1>6, <1>7

LEMMA WriterTypes ==
    ASSUME TypeInv, NEW w \in Writers, WriteStep(w), HistoryTypes'
    PROVE  TypeInv' /\ Harmless
<1> USE GraphAssumption, ProcAssumption DEF TypeInv, objects, refs, prune
<1>0. /\ Len(Writes[w]) \in Nat \ {0} /\ Tip(w) \in Objects
      /\ next[w] \in Nat /\ w \in Procs /\ w # Pruner /\ w \notin Movers
      /\ next[w] < Len(Writes[w]) => Current(w) \in Objects
      /\ next[w] \in 0..Len(Writes[w]) /\ Progress(w) /\ Dest[w] \in Refs
    BY WritesProperties DEF Procs, Current, TypeOK
<1>T. /\ mtime \in [Objects -> Stamps] /\ stale \subseteq Objects /\ faults \in 0..MaxFaults
      /\ ref \in [Refs -> Objects \cup {None}] /\ log \in [Refs -> SUBSET Objects]
      /\ reflock \in [Refs -> Procs \cup {None}] /\ base \in [Procs -> Objects \cup {None}]
    BY DEF TypeOK
<1>1. CASE Start(w)
    <2>1. /\ pc[w] = "idle" /\ pc' = [pc EXCEPT ![w] = "freshen"] /\ pc'[w] = "freshen"
          /\ base' = [base EXCEPT ![w] = ref[Dest[w]]]
          /\ UNCHANGED <<mtime, stale, faults, ref, log, reflock, next, prune>>
        BY <1>0, <1>1 DEF Start, Goto
    <2>2. Progress(w)' /\ next \in [Writers -> Nat]
        BY <1>0, <2>1 DEF Progress
    <2>3. base' \in [Procs -> Objects \cup {None}] /\ \A u \in Procs \ {w} : base'[u] = base[u]
        BY <1>0, <1>T, <2>1
    <2>4. TypeInv' /\ pc'[Pruner] = pc[Pruner]
        BY <1>0, <1>T, <2>1, <2>2, <2>3, StepTypes DEF WritePCs
    <2> QED
        BY <2>1, <2>4 DEF Harmless
<1>2. CASE FreshenObject(w)
    <2>1. /\ pc[w] = "freshen" /\ next[w] < Len(Writes[w]) /\ Current(w) \in Objects
          /\ UNCHANGED <<ref, log, reflock, base, prune>>
        BY <1>0, <1>2 DEF FreshenObject, Progress
    <2>2. CASE Touch(Current(w)) /\ Proceed(w) /\ UNCHANGED faults
        <3>1. PICK l \in WritePCs :
                /\ pc' = [pc EXCEPT ![w] = l]
                /\ next' \in [Writers -> Nat] /\ \A u \in Writers \ {w} : next'[u] = next[u]
                /\ next'[w] \in 0..Len(Writes[w]) /\ Progress(w)'
            BY <2>1, <2>2, ProceedTypes
        <3>2. /\ mtime' \in [Objects -> Stamps] /\ stale' \subseteq Objects
              /\ \A o \in Objects : mtime'[o] \in {mtime[o], "new"}
              /\ stale \subseteq stale'
            BY <1>T, <2>1, <2>2 DEF Touch, Stamps
        <3>3. TypeInv' /\ pc'[Pruner] = pc[Pruner]
            BY <1>0, <1>T, <2>1, <2>2, <3>1, <3>2, StepTypes
        <3> QED
            BY <2>1, <3>2, <3>3 DEF Harmless
    <2>3. CASE /\ pc' = [pc EXCEPT ![w] = "create"] /\ UNCHANGED <<mtime, stale, next>>
               /\ faults' \in 0..MaxFaults
        <3>1. Progress(w)'
            BY <1>0, <2>1, <2>3 DEF Progress
        <3>2. TypeInv' /\ pc'[Pruner] = pc[Pruner]
            BY <1>0, <1>T, <2>1, <2>3, <3>1, StepTypes DEF WritePCs
        <3> QED
            BY <2>1, <2>3, <3>2 DEF Harmless
    <2>4. \/ Touch(Current(w)) /\ Proceed(w) /\ UNCHANGED faults
          \/ /\ pc' = [pc EXCEPT ![w] = "create"] /\ UNCHANGED <<mtime, stale, next>>
             /\ faults' \in 0..MaxFaults
        BY <1>2, <1>T DEF FreshenObject, Goto
    <2> QED
        BY <2>2, <2>3, <2>4
<1>3. CASE WriteObject(w)
    <2>1. /\ pc[w] = "create" /\ next[w] < Len(Writes[w]) /\ Current(w) \in Objects
          /\ Proceed(w) /\ UNCHANGED <<faults, ref, log, reflock, base, prune>>
        BY <1>0, <1>3 DEF WriteObject, Progress
    <2>2. PICK l \in WritePCs :
            /\ pc' = [pc EXCEPT ![w] = l]
            /\ next' \in [Writers -> Nat] /\ \A u \in Writers \ {w} : next'[u] = next[u]
            /\ next'[w] \in 0..Len(Writes[w]) /\ Progress(w)'
        BY <2>1, ProceedTypes
    <2>3. /\ mtime' \in [Objects -> Stamps] /\ stale' \subseteq Objects
          /\ \A o \in Objects : mtime'[o] \in {mtime[o], "new"}
          /\ stale \subseteq stale'
        BY <1>3, <1>T, <2>1 DEF WriteObject, Touch, Stamps
    <2>4. TypeInv' /\ pc'[Pruner] = pc[Pruner]
        BY <1>0, <1>T, <2>1, <2>2, <2>3, StepTypes
    <2> QED
        BY <2>1, <2>3, <2>4 DEF Harmless
<1>4. CASE QueueUpdate(w)
    <2>1. PICK l \in {"lock", "failed"} :
            /\ pc[w] = "update" /\ pc' = [pc EXCEPT ![w] = l] /\ pc'[w] = l
            /\ UNCHANGED <<mtime, stale, faults, ref, log, reflock, base, next, prune>>
        BY <1>0, <1>4 DEF QueueUpdate, Goto
    <2>2. Progress(w)'
        BY <1>0, <2>1 DEF Progress
    <2>3. TypeInv' /\ pc'[Pruner] = pc[Pruner]
        BY <1>0, <1>T, <2>1, <2>2, StepTypes DEF WritePCs
    <2> QED
        BY <2>1, <2>3 DEF Harmless
<1>5. CASE LockRef(w)
    <2>1. PICK l \in {"log", "failed"} :
            /\ pc[w] = "lock" /\ pc' = [pc EXCEPT ![w] = l] /\ pc'[w] = l
            /\ reflock' \in [Refs -> Procs \cup {None}]
            /\ UNCHANGED <<mtime, stale, faults, ref, log, base, next, prune>>
        BY <1>0, <1>5, <1>T DEF LockRef, Goto
    <2>2. Progress(w)'
        BY <1>0, <2>1 DEF Progress
    <2>3. TypeInv' /\ pc'[Pruner] = pc[Pruner]
        BY <1>0, <1>T, <2>1, <2>2, StepTypes DEF WritePCs
    <2> QED
        BY <2>1, <2>3 DEF Harmless
<1>6. CASE WriteLog(w)
    <2>1. /\ pc[w] = "log" /\ pc' = [pc EXCEPT ![w] = "set"] /\ pc'[w] = "set"
          /\ log' \in [Refs -> SUBSET Objects]
          /\ UNCHANGED <<mtime, stale, faults, ref, reflock, base, next, prune>>
        BY <1>0, <1>6, <1>T DEF WriteLog, Log, Goto
    <2>2. Progress(w)'
        BY <1>0, <2>1 DEF Progress
    <2>3. TypeInv' /\ pc'[Pruner] = pc[Pruner]
        BY <1>0, <1>T, <2>1, <2>2, StepTypes DEF WritePCs
    <2> QED
        BY <2>1, <2>3 DEF Harmless
<1>7. CASE SetRef(w)
    <2>1. /\ pc[w] = "set" /\ pc' = [pc EXCEPT ![w] = "done"] /\ pc'[w] = "done"
          /\ ref' \in [Refs -> Objects \cup {None}] /\ reflock' \in [Refs -> Procs \cup {None}]
          /\ UNCHANGED <<mtime, stale, faults, log, base, next, prune>>
        BY <1>0, <1>7, <1>T DEF SetRef, Goto
    <2>2. Progress(w)'
        BY <1>0, <2>1 DEF Progress
    <2>3. TypeInv' /\ pc'[Pruner] = pc[Pruner]
        BY <1>0, <1>T, <2>1, <2>2, StepTypes DEF WritePCs
    <2> QED
        BY <2>1, <2>3 DEF Harmless
<1> QED
    BY <1>1, <1>2, <1>3, <1>4, <1>5, <1>6, <1>7 DEF WriteStep

LEMMA MoverTypes ==
    ASSUME TypeInv, NEW m \in Movers, MoveStep(m), HistoryTypes'
    PROVE  TypeInv' /\ Harmless
<1> USE GraphAssumption, ProcAssumption DEF TypeInv, objects, refs, prune
<1>0. /\ m \in Procs /\ m # Pruner /\ m \notin Writers /\ Known(m)
      /\ From[m] \in Refs /\ To[m] \in Refs
    BY DEF Procs
<1>T. /\ mtime \in [Objects -> Stamps] /\ stale \subseteq Objects /\ faults \in 0..MaxFaults
      /\ ref \in [Refs -> Objects \cup {None}] /\ log \in [Refs -> SUBSET Objects]
      /\ reflock \in [Refs -> Procs \cup {None}] /\ base \in [Procs -> Objects \cup {None}]
      /\ next \in [Writers -> Nat]
    BY DEF TypeOK
<1>1. CASE MoveLock(m)
    <2>1. /\ pc[m] = "idle" /\ pc' = [pc EXCEPT ![m] = "log"] /\ pc'[m] = "log"
          /\ base' = [base EXCEPT ![m] = ref[From[m]]] /\ ref[From[m]] # None
          /\ reflock' \in [Refs -> Procs \cup {None}]
          /\ UNCHANGED <<mtime, stale, faults, ref, log, next, prune>>
        BY <1>0, <1>1, <1>T DEF MoveLock, Goto
    <2>2. Known(m)' /\ base' \in [Procs -> Objects \cup {None}]
        BY <1>0, <1>T, <2>1 DEF Known
    <2>3. TypeInv' /\ pc'[Pruner] = pc[Pruner]
        BY <1>0, <1>T, <2>1, <2>2, StepTypes DEF MovePCs
    <2> QED
        BY <2>1, <2>3 DEF Harmless
<1>2. CASE MoveLog(m)
    <2>1. /\ pc[m] = "log" /\ pc' = [pc EXCEPT ![m] = "set"] /\ pc'[m] = "set"
          /\ log' \in [Refs -> SUBSET Objects]
          /\ UNCHANGED <<mtime, stale, faults, ref, reflock, base, next, prune>>
        BY <1>0, <1>2, <1>T DEF MoveLog, Log, Goto, Known
    <2>2. Known(m)' /\ base' \in [Procs -> Objects \cup {None}]
        BY <1>0, <1>T, <2>1 DEF Known
    <2>3. TypeInv' /\ pc'[Pruner] = pc[Pruner]
        BY <1>0, <1>T, <2>1, <2>2, StepTypes DEF MovePCs
    <2> QED
        BY <2>1, <2>3 DEF Harmless
<1>3. CASE MoveSet(m)
    <2>1. /\ pc[m] = "set" /\ pc' = [pc EXCEPT ![m] = "unlog"] /\ pc'[m] = "unlog"
          /\ ref' \in [Refs -> Objects \cup {None}] /\ reflock' \in [Refs -> Procs \cup {None}]
          /\ UNCHANGED <<mtime, stale, faults, log, base, next, prune>>
        BY <1>0, <1>3, <1>T DEF MoveSet, Goto, Known
    <2>2. Known(m)' /\ base' \in [Procs -> Objects \cup {None}]
        BY <1>0, <1>T, <2>1 DEF Known
    <2>3. TypeInv' /\ pc'[Pruner] = pc[Pruner]
        BY <1>0, <1>T, <2>1, <2>2, StepTypes DEF MovePCs
    <2> QED
        BY <2>1, <2>3 DEF Harmless
<1>4. CASE MoveUnlog(m)
    <2>1. /\ pc[m] = "unlog" /\ pc' = [pc EXCEPT ![m] = "delete"] /\ pc'[m] = "delete"
          /\ log' \in [Refs -> SUBSET Objects]
          /\ UNCHANGED <<mtime, stale, faults, ref, reflock, base, next, prune>>
        BY <1>0, <1>4, <1>T DEF MoveUnlog, Goto
    <2>2. Known(m)' /\ base' \in [Procs -> Objects \cup {None}]
        BY <1>0, <1>T, <2>1 DEF Known
    <2>3. TypeInv' /\ pc'[Pruner] = pc[Pruner]
        BY <1>0, <1>T, <2>1, <2>2, StepTypes DEF MovePCs
    <2> QED
        BY <2>1, <2>3 DEF Harmless
<1>5. CASE MoveDelete(m)
    <2>1. /\ pc[m] = "delete" /\ pc' = [pc EXCEPT ![m] = "done"] /\ pc'[m] = "done"
          /\ ref' \in [Refs -> Objects \cup {None}] /\ reflock' \in [Refs -> Procs \cup {None}]
          /\ UNCHANGED <<mtime, stale, faults, log, base, next, prune>>
        BY <1>0, <1>5, <1>T DEF MoveDelete, Goto
    <2>2. Known(m)' /\ base' \in [Procs -> Objects \cup {None}]
        BY <1>0, <1>T, <2>1 DEF Known
    <2>3. TypeInv' /\ pc'[Pruner] = pc[Pruner]
        BY <1>0, <1>T, <2>1, <2>2, StepTypes DEF MovePCs
    <2> QED
        BY <2>1, <2>3 DEF Harmless
<1> QED
    BY <1>1, <1>2, <1>3, <1>4, <1>5 DEF MoveStep

(* A step of prune leaves the writers, the movers and the refs alone, and    *)
(* removes only the object that is doomed.                                   *)
Pruning ==
    /\ UNCHANGED <<refs, base, next, stale, faults>>
    /\ \A p \in Procs : pc'[p] = pc[p]
    /\ \A o \in Objects : mtime'[o] = mtime[o] \/ (o = doomed /\ mtime'[o] = "none")

LEMMA PrunerTypes ==
    ASSUME TypeInv, PruneStep, HistoryTypes'
    PROVE  TypeInv' /\ Pruning
<1> USE GraphAssumption, ProcAssumption DEF TypeInv, objects, refs, prune
<1>1. /\ UNCHANGED <<ref, log, reflock, base, next, stale, faults>>
      /\ pc' = pc \/ \E l \in PrunePCs : pc' = [pc EXCEPT ![Pruner] = l]
    <2> USE DEF Goto, PrunePCs
    <2>1. CASE PruneStart
        BY <2>1 DEF PruneStart
    <2>2. CASE PruneRefsDone
        BY <2>2 DEF PruneRefsDone
    <2>3. CASE PruneWalk
        BY <2>3 DEF PruneWalk
    <2>4. CASE PruneMark
        BY <2>4 DEF PruneMark
    <2>5. CASE PruneUnlink
        BY <2>5 DEF PruneUnlink
    <2>6. CASE PruneDone
        BY <2>6 DEF PruneDone
    <2>7. ASSUME NEW r \in Refs, PruneRef(r) \/ PruneLog(r)
          PROVE  /\ UNCHANGED <<ref, log, reflock, base, next, stale, faults>>
                 /\ pc' = pc \/ \E l \in PrunePCs : pc' = [pc EXCEPT ![Pruner] = l]
        BY <2>7 DEF PruneRef, PruneLog
    <2>8. ASSUME NEW o \in Objects, PruneScan(o) \/ PruneStat(o)
          PROVE  /\ UNCHANGED <<ref, log, reflock, base, next, stale, faults>>
                 /\ pc' = pc \/ \E l \in PrunePCs : pc' = [pc EXCEPT ![Pruner] = l]
        BY <2>8 DEF PruneScan, PruneStat
    <2> QED
        BY <2>1, <2>2, <2>3, <2>4, <2>5, <2>6, <2>7, <2>8 DEF PruneStep
<1>2. /\ todo' \subseteq Refs \cup Objects /\ pending' \subseteq Objects
      /\ marked' \subseteq Objects /\ recent' \subseteq Objects
      /\ doomed' \in Objects \cup {None} /\ mtime' \in [Objects -> Stamps]
      /\ \A o \in Objects : mtime'[o] = mtime[o] \/ (o = doomed /\ mtime'[o] = "none")
    <2>0. /\ \A S, P : Closure(S, P) \subseteq Objects
          /\ \A r \in Refs : RootsOf(r) \subseteq Objects /\ log[r] \subseteq Objects
        BY DEF Closure, RootsOf, TypeOK
    <2> DEFINE G == /\ todo' \subseteq Refs \cup Objects /\ pending' \subseteq Objects
                    /\ marked' \subseteq Objects /\ recent' \subseteq Objects
                    /\ doomed' \in Objects \cup {None} /\ mtime' \in [Objects -> Stamps]
                    /\ \A o \in Objects : mtime'[o] = mtime[o]
                                            \/ (o = doomed /\ mtime'[o] = "none")
    <2> USE DEF TypeOK
    <2>1. CASE PruneStart
        BY <2>0, <2>1 DEF PruneStart
    <2>2. CASE PruneRefsDone
        BY <2>2 DEF PruneRefsDone
    <2>3. CASE PruneWalk
        BY <2>0, <2>3 DEF PruneWalk
    <2>4. CASE PruneMark
        BY <2>0, <2>4 DEF PruneMark, MarkRecent
    <2>5. CASE PruneUnlink
        BY <2>5 DEF PruneUnlink, Stamps
    <2>6. CASE PruneDone
        BY <2>6 DEF PruneDone
    <2>7. ASSUME NEW r \in Refs, PruneRef(r) \/ PruneLog(r) PROVE G
        BY <2>0, <2>7 DEF PruneRef, PruneLog
    <2>8. ASSUME NEW o \in Objects, PruneScan(o) \/ PruneStat(o) PROVE G
        BY <2>8 DEF PruneScan, PruneStat
    <2> QED
        BY <2>1, <2>2, <2>3, <2>4, <2>5, <2>6, <2>7, <2>8 DEF PruneStep
<1>3. /\ pc' \in [Procs \cup {Pruner} -> PCs] /\ pc'[Pruner] \in PrunePCs
      /\ \A p \in Procs : pc'[p] = pc[p]
    BY <1>1 DEF PCs, TypeOK
<1>4. \A p \in Writers \cup Movers : p \in Procs
    BY DEF Procs
<1>5. TypeOK'
    BY <1>1, <1>2, <1>3, <1>4 DEF TypeOK, HistoryTypes
<1>6. (\A m \in Movers : Known(m)') /\ \A w \in Writers : Progress(w)'
    BY <1>1, <1>3, <1>4 DEF Known, Progress
<1> QED
    BY <1>1, <1>2, <1>3, <1>5, <1>6 DEF Pruning

-----------------------------------------------------------------------------
(* Recent objects, and objects that were written. *)

New == {o \in Objects : mtime[o] = "new"}

(* What recent objects reached stays reached by them until it is marked, and *)
(* what is marked is not doomed.                                             *)
RecentInv ==
    /\ pc[Pruner] # "walk" /\ (pc[Pruner] # "prune" => doomed = None)
    /\ pc[Pruner] = "idle" => recent = {}
    /\ pc[Pruner] \in {"refs", "logs"} => recent \subseteq Closure(New, Present)
    /\ pc[Pruner] = "scan" => /\ pending \cup todo \subseteq Objects
                              /\ recent \subseteq Closure(pending \cup todo, Present)
    /\ pc[Pruner] = "prune" => recent \subseteq marked
    /\ doomed \notin marked
    /\ recent \subseteq Present

(* What a writer has dealt with is recent and not doomed, or in stale.       *)
Safe(o) == o \in stale \/ (mtime[o] = "new" /\ doomed # o)
WrittenInv ==
    \A w \in Writers : \A i \in 1..next[w] : Safe(Writes[w][i])

-----------------------------------------------------------------------------
(* Objects that stay reachable. *)

(* Who changes a ref holds its lock, so a mover knows what it moves.         *)
LockInv ==
    /\ \A w \in Writers : pc[w] \in {"log", "set"} => reflock[Dest[w]] = w
    /\ \A m \in Movers :
          /\ pc[m] \in {"log", "set", "unlog", "delete"} =>
                reflock[From[m]] = m /\ ref[From[m]] = base[m]
          /\ pc[m] \in {"log", "set"} => reflock[To[m]] = m

(* While prune reads refs and reflogs a value is safe, or will be read as a  *)
(* ref, or as an entry of a reflog.                                          *)
Reading   == pc[Pruner] \in {"refs", "logs"}
Found(v)  == mtime[v] # "old" \/ v \in pending \cup astray
Queued(r) == pc[Pruner] = "refs" /\ r \in todo
InLog(r)  == ref[r] \in moved \cap log[r] /\ (pc[Pruner] = "logs" => r \in todo)

(* A value that was not moved has been in its ref since prune began.  A      *)
(* value that was moved once is in the reflog of the ref it was moved to,    *)
(* and when it is moved on it is counted as astray: so a mover that is about *)
(* to delete a reflog deletes nothing that prune needs.                      *)
FoundInv ==
    Reading =>
      /\ \A r \in Refs : ref[r] = None \/ Found(ref[r]) \/ Queued(r) \/ InLog(r)
      /\ \A m \in Movers : pc[m] \in {"unlog", "delete"} => Found(base[m]) \/ Queued(From[m])

(* What stayed reachable is reached from the refs until the reflogs are      *)
(* read; then it is marked, or reached from a recent object, or unfindable.  *)
LiveInv ==
    /\ pc[Pruner] = "idle" => live = {}
    /\ pc[Pruner] # "prune" => live \subseteq Present
    /\ Reading => live \subseteq Closure(Roots, Present)
    /\ pc[Pruner] = "scan" =>
         live \subseteq (marked \cup Closure(pending \cup todo, Present)) \cup Unfindable
    /\ pc[Pruner] = "prune" => live \subseteq marked \cup Unfindable
    /\ live \subseteq Present \cup Unfindable

-----------------------------------------------------------------------------
(* The steps of writers and movers. *)

(* While nothing is removed there is more to read and more to reach.         *)
LEMMA HarmlessGrows ==
    ASSUME TypeInv, TypeInv', Harmless
    PROVE  /\ New \subseteq New' /\ Present \subseteq Present'
           /\ New' \in SUBSET Objects /\ Present' \in SUBSET Objects
           /\ \A S \in SUBSET Objects : Closure(S, Present) \subseteq Closure(S, Present')
           /\ \A o \in Objects : Safe(o) => Safe(o)'
<1>1. New \subseteq New' /\ Present \subseteq Present'
    BY DEF New, Present, Harmless
<1>2. New' \in SUBSET Objects /\ Present' \in SUBSET Objects
    BY DEF New, Present
<1>3. ASSUME NEW S \in SUBSET Objects PROVE Closure(S, Present) \subseteq Closure(S, Present')
    BY <1>1, ClosureProperties, ClosureMonotone
<1>4. \A o \in Objects : Safe(o) => Safe(o)'
    BY DEF Harmless, Safe, prune
<1> QED
    BY <1>1, <1>2, <1>3, <1>4

LEMMA HarmlessRecent ==
    ASSUME TypeInv, TypeInv', Harmless, RecentInv
    PROVE  RecentInv'
<1>1. New \subseteq New' /\ Present \subseteq Present'
    BY HarmlessGrows
<1>2. New \in SUBSET Objects /\ New' \in SUBSET Objects
    BY DEF New
<1>3. Closure(New, Present) \subseteq Closure(New', Present')
    <2>1. New \subseteq Closure(New', Present')
        BY <1>1, <1>2, ClosureProperties
    <2> QED
        BY <1>1, <1>2, <2>1, ClosureMonotone
<1>4. pc[Pruner] = "scan" =>
        Closure(pending \cup todo, Present) \subseteq Closure(pending \cup todo, Present')
    <2>1. pc[Pruner] = "scan" => pending \cup todo \in SUBSET Objects
        BY DEF RecentInv
    <2> QED
        BY <2>1, HarmlessGrows
<1>5. /\ UNCHANGED <<todo, pending, marked, doomed, recent>> /\ pc'[Pruner] = pc[Pruner]
    BY DEF Harmless, prune
<1>6. pc'[Pruner] = "scan" => /\ pending' \cup todo' \subseteq Objects
                             /\ recent' \subseteq Closure(pending \cup todo, Present)'
    BY <1>4, <1>5 DEF RecentInv
<1>7. pc'[Pruner] \in {"refs", "logs"} => recent' \subseteq Closure(New, Present)'
    BY <1>3, <1>5 DEF RecentInv
<1> QED
    BY <1>1, <1>5, <1>6, <1>7 DEF RecentInv

(* An object that a writer has freshened or written is safe.                 *)
LEMMA WriterWritten ==
    ASSUME TypeInv, TypeInv', Harmless, WrittenInv, NEW w \in Writers, WriteStep(w)
    PROVE  WrittenInv'
<1> USE DEF TypeInv
<1>0. /\ \A u \in Writers : \A i \in 1..next[u] : Writes[u][i] \in Objects
      /\ Len(Writes[w]) \in Nat /\ next[w] \in Nat
    <2> SUFFICES ASSUME NEW u \in Writers, NEW i \in 1..next[u]
                 PROVE  Writes[u][i] \in Objects
        BY WritesProperties
    <2>1. next[u] \in 0..Len(Writes[u]) /\ Len(Writes[u]) \in Nat
        BY WritesProperties DEF TypeOK
    <2>2. i - 1 \in 0..(Len(Writes[u]) - 1) /\ i = (i - 1) + 1
        BY <2>1
    <2> QED
        BY <2>2, WritesProperties
<1>1. CASE UNCHANGED next
    BY <1>0, <1>1, HarmlessGrows DEF WrittenInv
<1>2. ASSUME NEW c \in Objects, c = Current(w), Safe(c)', Proceed(w) PROVE WrittenInv'
    <2>1. next'[w] = next[w] + 1 /\ \A u \in Writers \ {w} : next'[u] = next[u]
        BY <1>0, <1>2 DEF Proceed
    <2> SUFFICES ASSUME NEW u \in Writers, NEW i \in 1..next'[u]
                 PROVE  Safe(Writes[u][i])'
        BY DEF WrittenInv
    <2>2. CASE u = w /\ i = next[w] + 1
        <3>1. c = Writes[u][i]
            BY <1>2, <2>2 DEF Current
        <3> QED
            BY <1>2, <3>1 DEF Safe
    <2>3. CASE ~(u = w /\ i = next[w] + 1)
        <3>1. next[u] \in Nat
            OBVIOUS
        <3>2. i \in 1..next[u]
            <4>1. CASE u = w
                BY <1>0, <2>1, <2>3, <4>1
            <4>2. CASE u # w
                BY <2>1, <4>2
            <4> QED
                BY <4>1, <4>2
        <3> QED
            BY <1>0, <3>2, HarmlessGrows DEF WrittenInv
    <2> QED
        BY <2>2, <2>3
<1>3. \/ UNCHANGED next
      \/ Proceed(w) /\ \E c \in Objects : c = Current(w) /\ Safe(c)'
    <2>c. PICK c : c = Current(w)
        OBVIOUS
    <2>0. doomed' = doomed /\ mtime \in [Objects -> Stamps]
        BY DEF Harmless, prune, TypeOK
    <2>1. pc[w] \in {"freshen", "create"} => c \in Objects
        <3>1. pc[w] \in {"freshen", "create"} => next[w] \in 0..(Len(Writes[w]) - 1)
            BY <1>0, WritesProperties DEF Progress
        <3> QED
            BY <2>c, <3>1, WritesProperties DEF Current
    <2>2. ASSUME c \in Objects, Touch(c) PROVE Safe(c)'
        BY <2>0, <2>2 DEF Touch, Safe
    <2>3. CASE FreshenObject(w)
        <3>1. UNCHANGED next \/ (Proceed(w) /\ Touch(c) /\ c \in Objects)
            BY <2>1, <2>c, <2>3 DEF FreshenObject
        <3> QED
            BY <2>c, <2>2, <3>1
    <2>4. CASE WriteObject(w)
        <3>1. Proceed(w) /\ c \in Objects
            BY <2>1, <2>4 DEF WriteObject
        <3>2. CASE c \notin Present
            <4>1. Touch(c)
                BY <2>c, <2>4, <3>2 DEF WriteObject
            <4> QED
                BY <2>c, <2>2, <3>1, <4>1
        <3>3. CASE c \in Present
            <4>1. /\ mtime' = mtime
                  /\ stale' = IF mtime[c] = "old" \/ doomed = c THEN stale \cup {c} ELSE stale
                BY <2>c, <2>4, <3>3 DEF WriteObject
            <4>2. mtime[c] \in {"old", "new"}
                BY <2>0, <3>1, <3>3 DEF Present, Stamps
            <4>3. Safe(c)'
                BY <2>0, <4>1, <4>2 DEF Safe
            <4> QED
                BY <2>c, <3>1, <4>3
        <3> QED
            BY <3>2, <3>3
    <2>5. CASE ~FreshenObject(w) /\ ~WriteObject(w)
        BY <2>5 DEF WriteStep, Start, QueueUpdate, LockRef, WriteLog, SetRef
    <2> QED
        BY <2>3, <2>4, <2>5
<1> QED
    BY <1>1, <1>2, <1>3

(* A mover writes no objects.                                                *)
LEMMA MoverWritten ==
    ASSUME TypeInv, TypeInv', Harmless, WrittenInv, NEW m \in Movers, MoveStep(m)
    PROVE  WrittenInv'
<1>1. next' = next
    BY DEF MoveStep, MoveLock, MoveLog, MoveSet, MoveUnlog, MoveDelete
<1>2. ASSUME NEW u \in Writers, NEW i \in 1..next[u] PROVE Safe(Writes[u][i])'
    <2>1. next[u] \in 0..Len(Writes[u]) /\ Len(Writes[u]) \in Nat
        BY WritesProperties DEF TypeInv, TypeOK
    <2>2. i - 1 \in 0..(Len(Writes[u]) - 1) /\ i = (i - 1) + 1
        BY <2>1
    <2>3. Writes[u][i] \in Objects
        BY <2>2, WritesProperties
    <2> QED
        BY <1>2, <2>3, HarmlessGrows DEF WrittenInv
<1> QED
    BY <1>1, <1>2 DEF WrittenInv

-----------------------------------------------------------------------------
(* The steps of prune. *)

(* Only PruneUnlink removes anything.                                        *)
LEMMA PruneRemoves ==
    ASSUME TypeInv, PruneStep
    PROVE  /\ mtime' = mtime \/ (PruneUnlink /\ doomed \in Objects)
           /\ doomed' = doomed \/ doomed' = None
                \/ \E o \in Objects : PruneStat(o) /\ doomed' = o
<1> USE DEF objects
<1>1. CASE PruneUnlink
    BY <1>1 DEF PruneUnlink, TypeInv, TypeOK
<1>2. ASSUME NEW o \in Objects, PruneScan(o) \/ PruneStat(o)
      PROVE  mtime' = mtime /\ (doomed' = doomed \/ (PruneStat(o) /\ doomed' = o))
    BY <1>2 DEF PruneScan, PruneStat
<1>3. ASSUME NEW r \in Refs, PruneRef(r) \/ PruneLog(r)
      PROVE  mtime' = mtime /\ doomed' = doomed
    BY <1>3 DEF PruneRef, PruneLog
<1>4. CASE PruneStart \/ PruneRefsDone \/ PruneWalk \/ PruneMark \/ PruneDone
    BY <1>4 DEF PruneStart, PruneRefsDone, PruneWalk, PruneMark, PruneDone
<1> QED
    BY <1>1, <1>2, <1>3, <1>4 DEF PruneStep

(* An object that is recent is not found old.                                *)
LEMMA PrunerWritten ==
    ASSUME TypeInv, TypeInv', Pruning, PruneStep, WrittenInv
    PROVE  WrittenInv'
<1>1. ASSUME NEW o \in Objects, Safe(o) PROVE Safe(o)'
    <2>1. o # None
        BY GraphAssumption
    <2>2. doomed' = doomed \/ doomed' = None \/ (doomed' # None /\ mtime[doomed'] = "old")
        BY PruneRemoves DEF PruneStat
    <2> QED
        BY <1>1, <2>1, <2>2 DEF Safe, Pruning
<1>2. ASSUME NEW u \in Writers, NEW i \in 1..next[u] PROVE Safe(Writes[u][i])'
    <2>1. next[u] \in 0..Len(Writes[u]) /\ Len(Writes[u]) \in Nat
        BY WritesProperties DEF TypeInv, TypeOK
    <2>2. i - 1 \in 0..(Len(Writes[u]) - 1) /\ i = (i - 1) + 1
        BY <2>1
    <2>3. Writes[u][i] \in Objects
        BY <2>2, WritesProperties
    <2> QED
        BY <1>1, <1>2, <2>3 DEF WrittenInv
<1> QED
    BY <1>2 DEF WrittenInv, Pruning

LEMMA PrunerRecent ==
    ASSUME TypeInv, TypeInv', Pruning, PruneStep, RecentInv
    PROVE  RecentInv'
<1> USE GraphAssumption DEF TypeInv
<1>0. /\ New \in SUBSET Objects /\ Present \in SUBSET Objects
      /\ mtime' = mtime => New' = New /\ Present' = Present
      /\ Pruner \in DOMAIN pc /\ doomed \in Objects \cup {None}
    BY DEF New, Present, TypeOK
<1>1. CASE PruneStart
    <2>1. /\ pc[Pruner] = "idle" /\ pc'[Pruner] = "refs" /\ mtime' = mtime
          /\ recent' = Present \cap Closure(New, Present)
          /\ UNCHANGED <<doomed, marked>>
        BY <1>0, <1>1 DEF PruneStart, Goto, objects, New
    <2> QED
        BY <1>0, <2>1 DEF RecentInv
<1>2. CASE PruneRefsDone
    <2>1. /\ pc[Pruner] = "refs" /\ pc'[Pruner] = "logs" /\ mtime' = mtime
          /\ UNCHANGED <<doomed, marked, recent>>
        BY <1>0, <1>2 DEF PruneRefsDone, Goto, objects
    <2> QED
        BY <1>0, <2>1 DEF RecentInv
<1>3. CASE PruneWalk
    <2>1. /\ pc[Pruner] = "logs" /\ pc'[Pruner] \in {"scan", "died"} /\ mtime' = mtime
          /\ pending' = {} /\ todo' = New /\ UNCHANGED <<doomed, recent>>
          /\ marked' \subseteq Objects
        BY <1>0, <1>3 DEF PruneWalk, Goto, objects, New, RecentInv, TypeOK
    <2>2. recent' \subseteq Closure(New, Present) /\ pending' \cup todo' = New
          /\ doomed' \notin marked'
        BY <2>1 DEF RecentInv
    <2>3. recent' \subseteq Closure(pending \cup todo, Present)'
        BY <1>0, <2>1, <2>2
    <2> QED
        BY <1>0, <2>1, <2>2, <2>3 DEF RecentInv
<1>4. CASE PruneMark
    <2>1. /\ pc[Pruner] = "scan" /\ pc'[Pruner] = "prune" /\ mtime' = mtime
          /\ todo = {} /\ marked' = marked \cup Closure(pending, Present)
          /\ UNCHANGED <<doomed, recent>> /\ marked' \subseteq Objects
        BY <1>0, <1>4 DEF PruneMark, MarkRecent, Goto, objects, TypeOK
    <2>2. recent \subseteq Closure(pending \cup todo, Present) /\ doomed = None
        BY <2>1 DEF RecentInv
    <2>3. pending \cup todo = pending
        BY <2>1
    <2>4. recent' \subseteq marked'
        BY <2>1, <2>2, <2>3
    <2> QED
        BY <1>0, <2>1, <2>2, <2>4 DEF RecentInv
<1>5. CASE PruneUnlink
    <2>1. /\ pc[Pruner] = "prune" /\ pc'[Pruner] = "prune"
          /\ mtime' = [mtime EXCEPT ![doomed] = "none"] /\ doomed' = None
          /\ UNCHANGED <<marked, recent>> /\ marked' \subseteq Objects
        BY <1>0, <1>5 DEF PruneUnlink, TypeOK
    <2>2. recent \subseteq marked /\ doomed \notin marked /\ recent \subseteq Present
        BY <2>1 DEF RecentInv
    <2>3. recent' \subseteq Present'
        BY <2>1, <2>2 DEF Present, TypeOK
    <2> QED
        BY <2>1, <2>2, <2>3 DEF RecentInv
<1>6. CASE PruneDone
    <2>1. /\ pc[Pruner] = "prune" /\ pc'[Pruner] = "idle" /\ mtime' = mtime
          /\ marked' = {} /\ recent' = {} /\ doomed' = None
        BY <1>0, <1>6 DEF PruneDone, Goto, objects
    <2> QED
        BY <2>1 DEF RecentInv
<1>7. ASSUME NEW r \in Refs, PruneRef(r) \/ PruneLog(r) PROVE RecentInv'
    <2>1. /\ mtime' = mtime /\ UNCHANGED <<doomed, marked, recent>>
          /\ \/ pc[Pruner] = "refs" /\ pc'[Pruner] \in {"refs", "died"}
             \/ pc[Pruner] = "logs" /\ pc'[Pruner] = "logs"
        BY <1>0, <1>7 DEF PruneRef, PruneLog, Goto, objects
    <2> QED
        BY <1>0, <2>1 DEF RecentInv
<1>8. ASSUME NEW o \in Objects, PruneScan(o) PROVE RecentInv'
    <2>1. /\ pc[Pruner] = "scan" /\ pc'[Pruner] = "scan" /\ mtime' = mtime
          /\ todo' = todo \ {o} /\ pending' = pending \cup {o}
          /\ UNCHANGED <<doomed, marked, recent>>
        BY <1>0, <1>8 DEF PruneScan, objects
    <2>2. /\ pending \cup todo \in SUBSET Objects /\ pending' \cup todo' \in SUBSET Objects
          /\ pending \cup todo \subseteq pending' \cup todo'
        BY <2>1 DEF RecentInv
    <2>3. Closure(pending \cup todo, Present) \subseteq Closure(pending' \cup todo', Present)
        BY <2>2, ClosureProperties, ClosureMonotone
    <2>4. recent' \subseteq Closure(pending \cup todo, Present)'
        BY <1>0, <2>1, <2>3 DEF RecentInv
    <2> QED
        BY <1>0, <2>1, <2>2, <2>4 DEF RecentInv
<1>9. ASSUME NEW o \in Objects, PruneStat(o) PROVE RecentInv'
    <2>1. /\ pc[Pruner] = "prune" /\ pc'[Pruner] = "prune" /\ mtime' = mtime
          /\ doomed' = o /\ o \notin marked /\ UNCHANGED <<marked, recent>>
        BY <1>0, <1>9 DEF PruneStat, objects
    <2> QED
        BY <1>0, <2>1 DEF RecentInv
<1> QED
    BY <1>1, <1>2, <1>3, <1>4, <1>5, <1>6, <1>7, <1>8, <1>9 DEF PruneStep

-----------------------------------------------------------------------------
(* The locks. *)

LEMMA WriterLocks ==
    ASSUME TypeInv, LockInv, NEW w \in Writers, WriteStep(w)
    PROVE  LockInv'
<1> USE ProcAssumption DEF TypeInv
<1>0. /\ Dest[w] \in Refs /\ w \in Procs /\ w # None /\ w \notin Movers
      /\ \A u \in Writers : Dest[u] \in Refs /\ u \in Procs /\ u # None /\ u \notin Movers
      /\ \A m \in Movers : m \in Procs /\ m # w /\ m # None /\ From[m] \in Refs /\ To[m] \in Refs
      /\ ref \in [Refs -> Objects \cup {None}] /\ reflock \in [Refs -> Procs \cup {None}]
    BY DEF Procs, TypeOK
<1>1. \A u \in Procs \ {w} : pc'[u] = pc[u] /\ base'[u] = base[u]
    BY <1>0 DEF WriteStep, Start, FreshenObject, WriteObject, QueueUpdate, LockRef, WriteLog,
                SetRef, Proceed, Goto, TypeOK
<1>2. CASE UNCHANGED <<ref, reflock>> /\ (pc'[w] \in {"log", "set"} => pc[w] = "log")
    BY <1>0, <1>1, <1>2 DEF LockInv
<1>3. CASE LockRef(w)
    <2>1. /\ ref' = ref
          /\ \/ /\ reflock[Dest[w]] = None /\ reflock' = [reflock EXCEPT ![Dest[w]] = w]
             \/ pc'[w] = "failed" /\ reflock' = reflock
        BY <1>0, <1>3 DEF LockRef, Goto
    <2> QED
        BY <1>0, <1>1, <2>1 DEF LockInv
<1>4. CASE SetRef(w)
    <2>1. /\ pc[w] = "set" /\ pc'[w] = "done"
          /\ ref' = [ref EXCEPT ![Dest[w]] = Tip(w)]
          /\ reflock' = [reflock EXCEPT ![Dest[w]] = None]
        BY <1>0, <1>4 DEF SetRef, Goto
    <2>2. reflock[Dest[w]] = w
        BY <2>1 DEF LockInv
    <2> QED
        BY <1>0, <1>1, <2>1, <2>2 DEF LockInv
<1>5. LockRef(w) \/ SetRef(w)
        \/ (UNCHANGED <<ref, reflock>> /\ (pc'[w] \in {"log", "set"} => pc[w] = "log"))
    BY <1>0 DEF WriteStep, Start, FreshenObject, WriteObject, QueueUpdate, WriteLog,
                Proceed, Goto, refs, TypeOK
<1> QED
    BY <1>2, <1>3, <1>4, <1>5

LEMMA MoverLocks ==
    ASSUME TypeInv, LockInv, NEW m \in Movers, MoveStep(m)
    PROVE  LockInv'
<1> USE ProcAssumption DEF TypeInv
<1>0. /\ From[m] \in Refs /\ To[m] \in Refs /\ From[m] # To[m] /\ m \in Procs /\ m # None
      /\ \A u \in Writers : Dest[u] \in Refs /\ u \in Procs /\ u # m /\ u # None
      /\ \A n \in Movers : n \in Procs /\ n # None /\ From[n] \in Refs /\ To[n] \in Refs
      /\ ref \in [Refs -> Objects \cup {None}] /\ reflock \in [Refs -> Procs \cup {None}]
      /\ base \in [Procs -> Objects \cup {None}]
    BY DEF Procs, TypeOK
<1>1. \A u \in Procs \ {m} : pc'[u] = pc[u] /\ base'[u] = base[u]
    BY <1>0 DEF MoveStep, MoveLock, MoveLog, MoveSet, MoveUnlog, MoveDelete, Goto
<1>2. CASE MoveLock(m)
    <2>1. /\ reflock[From[m]] = None /\ reflock[To[m]] = None
          /\ reflock' = [reflock EXCEPT ![From[m]] = m, ![To[m]] = m]
          /\ base'[m] = ref[From[m]] /\ ref' = ref
        BY <1>0, <1>2 DEF MoveLock
    <2>2. /\ reflock'[From[m]] = m /\ reflock'[To[m]] = m
          /\ \A r \in Refs \ {From[m], To[m]} : reflock'[r] = reflock[r]
        BY <1>0, <2>1
    <2> QED
        BY <1>0, <1>1, <2>1, <2>2 DEF LockInv
<1>3. CASE MoveLog(m) \/ MoveUnlog(m)
    <2>1. /\ pc[m] \in {"log", "unlog"} /\ UNCHANGED <<ref, reflock, base>>
          /\ pc'[m] \in {"log", "set"} => pc[m] = "log"
        BY <1>0, <1>3 DEF MoveLog, MoveUnlog, Goto
    <2> QED
        BY <1>0, <1>1, <2>1 DEF LockInv
<1>4. CASE MoveSet(m)
    <2>1. /\ pc[m] = "set" /\ pc'[m] = "unlog" /\ base' = base
          /\ ref' = [ref EXCEPT ![To[m]] = base[m]]
          /\ reflock' = [reflock EXCEPT ![To[m]] = None]
        BY <1>0, <1>4 DEF MoveSet, Goto
    <2>2. reflock[To[m]] = m /\ reflock[From[m]] = m /\ ref[From[m]] = base[m]
        BY <2>1 DEF LockInv
    <2> QED
        BY <1>0, <1>1, <2>1, <2>2 DEF LockInv
<1>5. CASE MoveDelete(m)
    <2>1. /\ pc[m] = "delete" /\ pc'[m] = "done" /\ base' = base
          /\ ref' = [ref EXCEPT ![From[m]] = None]
          /\ reflock' = [reflock EXCEPT ![From[m]] = None]
        BY <1>0, <1>5 DEF MoveDelete, Goto
    <2>2. reflock[From[m]] = m
        BY <2>1 DEF LockInv
    <2> QED
        BY <1>0, <1>1, <2>1, <2>2 DEF LockInv
<1> QED
    BY <1>2, <1>3, <1>4, <1>5 DEF MoveStep

LEMMA PrunerLocks ==
    ASSUME LockInv, Pruning PROVE LockInv'
BY DEF LockInv, Pruning, refs, Procs

-----------------------------------------------------------------------------
(* What prune will still find. *)

LEMMA ObserveTypes ==
    ASSUME TypeInv, Observe
    PROVE  HistoryTypes'
<1>1. ASSUME NEW p \in Setting PROVE Given(p) \in Objects
    <2>1. CASE p \in Writers
        BY <2>1, WritesProperties DEF Given
    <2>2. CASE p \notin Writers
        BY <1>1, <2>2 DEF Given, Setting, Procs, TypeInv, Known
    <2> QED
        BY <2>1, <2>2
<1>2. Lost \subseteq Setting
    BY DEF Lost
<1>3. Present \subseteq Objects
    BY DEF Present
<1> QED
    BY <1>1, <1>2, <1>3 DEF Observe, HistoryTypes, TypeInv, TypeOK

(* The history of a step that does not end a run of prune.                   *)
LEMMA ObserveGrows ==
    ASSUME Observe, pc'[Pruner] # "idle"
    PROVE  /\ moved \subseteq moved' /\ astray \subseteq astray'
           /\ \A p \in Setting : p \in Movers => Given(p) \in moved'
           /\ \A p \in Lost : Given(p) \in astray'
BY DEF Observe

(* What is found stays found when writers and movers take a step.            *)
LEMMA FoundGrows ==
    ASSUME Harmless, Observe, pc[Pruner] # "idle", NEW v \in Objects, Found(v)
    PROVE  Found(v)'
BY ObserveGrows DEF Found, Harmless, prune

LEMMA WriterFound ==
    ASSUME TypeInv, Harmless, Observe, FoundInv, NEW w \in Writers, WriteStep(w)
    PROVE  FoundInv'
<1> USE ProcAssumption DEF TypeInv
<1>0. /\ Tip(w) \in Objects /\ Dest[w] \in Refs /\ w \in Procs /\ w \notin Movers
      /\ \A m \in Movers : m \in Procs /\ m # w
      /\ ref \in [Refs -> Objects \cup {None}] /\ log \in [Refs -> SUBSET Objects]
    BY WritesProperties DEF Procs, TypeOK
<1> SUFFICES ASSUME Reading' PROVE FoundInv'
    BY DEF FoundInv
<1>1. /\ Reading /\ pc'[Pruner] = pc[Pruner] /\ pc[Pruner] # "idle"
      /\ UNCHANGED <<todo, pending>> /\ moved \subseteq moved'
    BY ObserveGrows DEF Reading, Harmless, prune
<1>2. /\ \A u \in Procs \ {w} : pc'[u] = pc[u] /\ base'[u] = base[u]
      /\ \A r \in Refs : log[r] \subseteq log'[r]
    <2>1. \A u \in Procs \ {w} : pc'[u] = pc[u] /\ base'[u] = base[u]
        BY <1>0 DEF WriteStep, Start, FreshenObject, WriteObject, QueueUpdate, LockRef,
                    WriteLog, SetRef, Proceed, Goto, TypeOK
    <2>2. CASE WriteLog(w)
        BY <1>0, <2>1, <2>2 DEF WriteLog, Log
    <2>3. CASE ~WriteLog(w)
        <3>1. log' = log
            BY <2>3 DEF WriteStep, Start, FreshenObject, WriteObject, QueueUpdate, LockRef,
                        SetRef, refs
        <3> QED
            BY <2>1, <3>1
    <2> QED
        BY <2>2, <2>3
<1>3. ASSUME NEW r \in Refs, ref'[r] = ref[r]
      PROVE  ref'[r] = None \/ Found(ref[r])' \/ Queued(r)' \/ InLog(r)'
    <2>1. ref[r] = None \/ Found(ref[r]) \/ Queued(r) \/ InLog(r)
        BY <1>1 DEF FoundInv
    <2>2. CASE Found(ref[r]) /\ ref[r] # None
        <3>1. PICK v \in Objects : v = ref[r] /\ Found(v)
            BY <1>0, <2>2
        <3>2. Found(v)'
            BY <1>1, <3>1, FoundGrows
        <3> QED
            BY <1>3, <3>1, <3>2 DEF Found
    <2>3. CASE Queued(r)
        BY <1>1, <2>3 DEF Queued
    <2>4. CASE InLog(r)
        BY <1>1, <1>2, <1>3, <2>4 DEF InLog
    <2> QED
        BY <1>3, <2>1, <2>2, <2>3, <2>4
<1>4. ASSUME NEW r \in Refs, ref'[r] # ref[r] PROVE Found(ref[r])'
    <2>1. SetRef(w) /\ r = Dest[w] /\ ref'[r] = Tip(w)
        BY <1>0, <1>4 DEF WriteStep, Start, FreshenObject, WriteObject, QueueUpdate, LockRef,
                          WriteLog, SetRef, refs
    <2>2. w \in Setting /\ Given(w) = Tip(w) /\ mtime' = mtime
        BY <1>0, <2>1 DEF SetRef, Setting, Given, Goto, objects
    <2>3. CASE mtime[Tip(w)] = "old"
        <3>1. w \in Lost
            BY <1>0, <1>1, <2>2, <2>3 DEF Lost, Reading
        <3> QED
            BY <1>1, <2>1, <2>2, <3>1, ObserveGrows DEF Found
    <2>4. CASE mtime[Tip(w)] # "old"
        BY <2>1, <2>2, <2>4 DEF Found
    <2> QED
        BY <2>3, <2>4
<1>5. ASSUME NEW m \in Movers, pc'[m] \in {"unlog", "delete"}
      PROVE  Found(base[m])' \/ Queued(From[m])'
    <2>1. pc[m] \in {"unlog", "delete"} /\ base'[m] = base[m]
        BY <1>0, <1>2, <1>5
    <2>2. PICK v \in Objects : v = base[m]
        BY <1>5, <2>1 DEF Known
    <2>3. Found(v) \/ Queued(From[m])
        BY <1>1, <2>1, <2>2 DEF FoundInv
    <2>4. Found(v) => Found(v)'
        BY <1>1, FoundGrows
    <2> QED
        BY <1>1, <2>1, <2>2, <2>3, <2>4 DEF Queued, Found
<1> QED
    BY <1>3, <1>4, <1>5 DEF FoundInv

LEMMA MoverFound ==
    ASSUME TypeInv, Harmless, Observe, LockInv, FoundInv, NEW m \in Movers, MoveStep(m)
    PROVE  FoundInv'
<1> USE ProcAssumption DEF TypeInv
<1>0. /\ From[m] \in Refs /\ To[m] \in Refs /\ m \in Procs /\ m \notin Writers
      /\ \A n \in Movers : n \in Procs /\ From[n] \in Refs
      /\ ref \in [Refs -> Objects \cup {None}] /\ log \in [Refs -> SUBSET Objects]
    BY DEF Procs, TypeOK
<1> SUFFICES ASSUME Reading' PROVE FoundInv'
    BY DEF FoundInv
<1>1. /\ Reading /\ pc'[Pruner] = pc[Pruner] /\ pc[Pruner] # "idle"
      /\ UNCHANGED <<todo, pending>> /\ moved \subseteq moved'
    BY ObserveGrows DEF Reading, Harmless, prune
<1>2. \A u \in Procs \ {m} : pc'[u] = pc[u] /\ base'[u] = base[u]
    BY <1>0 DEF MoveStep, MoveLock, MoveLog, MoveSet, MoveUnlog, MoveDelete, Goto, TypeOK
<1>3. ASSUME NEW r \in Refs, ref'[r] = ref[r], log[r] \subseteq log'[r]
      PROVE  ref'[r] = None \/ Found(ref[r])' \/ Queued(r)' \/ InLog(r)'
    <2>1. ref[r] = None \/ Found(ref[r]) \/ Queued(r) \/ InLog(r)
        BY <1>1 DEF FoundInv
    <2>2. CASE Found(ref[r]) /\ ref[r] # None
        <3>1. PICK v \in Objects : v = ref[r] /\ Found(v)
            BY <1>0, <2>2
        <3>2. Found(v)'
            BY <1>1, <3>1, FoundGrows
        <3> QED
            BY <1>3, <3>1, <3>2 DEF Found
    <2>3. CASE Queued(r)
        BY <1>1, <2>3 DEF Queued
    <2>4. CASE InLog(r)
        BY <1>1, <1>3, <2>4 DEF InLog
    <2> QED
        BY <1>3, <2>1, <2>2, <2>3, <2>4
<1>4. ASSUME NEW n \in Movers, pc[n] \in {"unlog", "delete"}, base'[n] = base[n]
      PROVE  Found(base[n])' \/ Queued(From[n])'
    <2>1. PICK v \in Objects : v = base[n]
        BY <1>4 DEF Known
    <2>2. Found(v) \/ Queued(From[n])
        BY <1>1, <1>4, <2>1 DEF FoundInv
    <2>3. Found(v) => Found(v)'
        BY <1>1, FoundGrows
    <2> QED
        BY <1>1, <1>4, <2>1, <2>2, <2>3 DEF Queued, Found
<1>5. CASE MoveLock(m) \/ MoveLog(m)
    <2>1. /\ ref' = ref /\ \A r \in Refs : log[r] \subseteq log'[r]
          /\ pc'[m] \in {"log", "set"}
        BY <1>0, <1>5 DEF MoveLock, MoveLog, Log, Goto
    <2>2. ASSUME NEW n \in Movers, pc'[n] \in {"unlog", "delete"}
          PROVE  Found(base[n])' \/ Queued(From[n])'
        BY <1>0, <1>2, <1>4, <2>1, <2>2
    <2> QED
        BY <1>3, <2>1, <2>2 DEF FoundInv
<1>6. CASE MoveSet(m)
    <2>1. /\ pc[m] = "set" /\ pc'[m] = "unlog" /\ UNCHANGED <<base, log, mtime>>
          /\ ref' = [ref EXCEPT ![To[m]] = base[m]]
        BY <1>0, <1>6 DEF MoveSet, Goto, objects
    <2>2. PICK v \in Objects : v = base[m] /\ v = ref[From[m]]
        BY <2>1 DEF Known, LockInv
    <2>3. m \in Setting /\ Given(m) = v
        BY <1>0, <2>1, <2>2 DEF Setting, Given
    <2>4. v \in moved'
        BY <1>1, <2>3, ObserveGrows
    <2>5. Found(v)' \/ (v \in log[To[m]] /\ Queued(From[m])')
        <3>1. CASE v \notin moved /\ v \in log[To[m]]
            <4>1. Found(v) \/ Queued(From[m])
                <5>1. v # None /\ ~InLog(From[m])
                    BY <2>2, <3>1, GraphAssumption DEF InLog
                <5>2. \/ ref[From[m]] = None \/ Found(ref[From[m]])
                      \/ Queued(From[m]) \/ InLog(From[m])
                    BY <1>0, <1>1 DEF FoundInv
                <5> QED
                    BY <2>2, <5>1, <5>2
            <4>2. Found(v) => Found(v)'
                BY <1>1, FoundGrows
            <4> QED
                BY <1>1, <3>1, <4>1, <4>2 DEF Queued
        <3>2. CASE v \in moved \/ v \notin log[To[m]]
            <4>1. CASE mtime[v] = "old"
                BY <1>0, <1>1, <2>3, <3>2, <4>1, ObserveGrows DEF Lost, Reading, Found
            <4>2. CASE mtime[v] # "old"
                BY <2>1, <4>2 DEF Found
            <4> QED
                BY <4>1, <4>2
        <3> QED
            BY <3>1, <3>2
    <2>6. ASSUME NEW r \in Refs
          PROVE  ref'[r] = None \/ Found(ref[r])' \/ Queued(r)' \/ InLog(r)'
        <3>1. CASE r = To[m]
            <4>1. ref'[r] = v
                BY <1>0, <2>1, <2>2, <3>1
            <4>2. Found(v)' => Found(ref[r])'
                BY <4>1 DEF Found
            <4>3. v \in log[To[m]] /\ Queued(From[m])' => InLog(r)'
                BY <2>1, <2>4, <3>1, <4>1 DEF InLog, Queued
            <4> QED
                BY <2>5, <4>2, <4>3
        <3>2. CASE r # To[m]
            BY <1>0, <1>3, <2>1, <3>2
        <3> QED
            BY <3>1, <3>2
    <2>7. ASSUME NEW n \in Movers, pc'[n] \in {"unlog", "delete"}
          PROVE  Found(base[n])' \/ Queued(From[n])'
        <3>1. CASE n = m
            BY <2>1, <2>2, <2>5, <3>1 DEF Found
        <3>2. CASE n # m
            BY <1>0, <1>2, <1>4, <2>7, <3>2
        <3> QED
            BY <3>1, <3>2
    <2> QED
        BY <2>6, <2>7 DEF FoundInv
<1>7. CASE MoveUnlog(m)
    <2>1. /\ pc[m] = "unlog" /\ pc'[m] = "delete" /\ UNCHANGED <<base, ref>>
          /\ log' = [log EXCEPT ![From[m]] = {}]
        BY <1>0, <1>7 DEF MoveUnlog, Goto
    <2>2. ref[From[m]] = base[m]
        BY <2>1 DEF LockInv
    <2>3. ASSUME NEW n \in Movers, pc'[n] \in {"unlog", "delete"}
          PROVE  Found(base[n])' \/ Queued(From[n])'
        BY <1>0, <1>2, <1>4, <2>1, <2>3
    <2>4. ASSUME NEW r \in Refs
          PROVE  ref'[r] = None \/ Found(ref[r])' \/ Queued(r)' \/ InLog(r)'
        <3>1. CASE r = From[m]
            BY <2>1, <2>2, <2>3, <3>1 DEF Found
        <3>2. CASE r # From[m]
            BY <1>0, <1>3, <2>1, <3>2
        <3> QED
            BY <3>1, <3>2
    <2> QED
        BY <2>3, <2>4 DEF FoundInv
<1>8. CASE MoveDelete(m)
    <2>1. /\ pc'[m] = "done" /\ UNCHANGED <<base, log>>
          /\ ref' = [ref EXCEPT ![From[m]] = None]
        BY <1>0, <1>8 DEF MoveDelete, Goto
    <2>2. ASSUME NEW n \in Movers, pc'[n] \in {"unlog", "delete"}
          PROVE  Found(base[n])' \/ Queued(From[n])'
        BY <1>0, <1>2, <1>4, <2>1, <2>2
    <2>3. ASSUME NEW r \in Refs
          PROVE  ref'[r] = None \/ Found(ref[r])' \/ Queued(r)' \/ InLog(r)'
        <3>1. CASE r = From[m]
            BY <1>0, <2>1, <3>1
        <3>2. CASE r # From[m]
            BY <1>0, <1>3, <2>1, <3>2
        <3> QED
            BY <3>1, <3>2
    <2> QED
        BY <2>2, <2>3 DEF FoundInv
<1> QED
    BY <1>5, <1>6, <1>7, <1>8 DEF MoveStep

(* Reading a ref or a reflog puts what was queued among the roots.           *)
LEMMA PrunerFound ==
    ASSUME TypeInv, TypeInv', Pruning, PruneStep, RecentInv, LockInv, FoundInv, Observe
    PROVE  FoundInv'
<1> USE GraphAssumption, ProcAssumption DEF TypeInv
<1>0. /\ UNCHANGED <<ref, log, base>> /\ \A p \in Procs : pc'[p] = pc[p]
      /\ Pruner \in DOMAIN pc /\ \A m \in Movers : m \in Procs
      /\ ref \in [Refs -> Objects \cup {None}] /\ mtime \in [Objects -> Stamps]
    BY DEF Pruning, refs, Procs, TypeOK
<1> SUFFICES ASSUME Reading' PROVE FoundInv'
    BY DEF FoundInv
<1>1. moved \subseteq moved' /\ astray \subseteq astray'
    BY ObserveGrows DEF Reading
<1>2. CASE PruneStart
    <2>1. pc'[Pruner] = "refs" /\ todo' = Refs
        BY <1>0, <1>2 DEF PruneStart, Goto
    <2> QED
        BY <2>1 DEF FoundInv, Queued
<1>3. ASSUME NEW r \in Refs, PruneRef(r) PROVE FoundInv'
    <2>1. /\ pc[Pruner] = "refs" /\ pc'[Pruner] = "refs" /\ todo' = todo \ {r}
          /\ pending' = pending \cup RootsOf(r) /\ mtime' = mtime
        BY <1>0, <1>3 DEF PruneRef, Goto, objects, Reading
    <2>2. ASSUME NEW q \in Refs
          PROVE  ref'[q] = None \/ Found(ref[q])' \/ Queued(q)' \/ InLog(q)'
        <3>1. ref[q] = None \/ Found(ref[q]) \/ Queued(q) \/ InLog(q)
            BY <2>1 DEF FoundInv, Reading
        <3>2. CASE q = r
            BY <1>0, <2>1, <3>2 DEF RootsOf, Found
        <3>3. CASE q # r
            BY <1>0, <1>1, <2>1, <3>1, <3>3 DEF Found, Queued, InLog
        <3> QED
            BY <3>2, <3>3
    <2>3. ASSUME NEW m \in Movers, pc'[m] \in {"unlog", "delete"}
          PROVE  Found(base[m])' \/ Queued(From[m])'
        <3>1. pc[m] = pc'[m] /\ base[m] \in Objects /\ base[m] = ref[From[m]]
            BY <1>0, <2>3 DEF Known, LockInv
        <3>2. Found(base[m]) \/ Queued(From[m])
            BY <2>1, <2>3, <3>1 DEF FoundInv, Reading
        <3>3. CASE From[m] = r
            BY <1>0, <2>1, <3>1, <3>3 DEF RootsOf, Found
        <3>4. CASE From[m] # r
            BY <1>0, <1>1, <2>1, <3>2, <3>4 DEF Found, Queued
        <3> QED
            BY <3>3, <3>4
    <2> QED
        BY <2>2, <2>3 DEF FoundInv
<1>4. CASE PruneRefsDone
    <2>1. /\ pc[Pruner] = "refs" /\ pc'[Pruner] = "logs" /\ todo = {} /\ todo' = Refs
          /\ pending' = pending /\ mtime' = mtime
        BY <1>0, <1>4 DEF PruneRefsDone, Goto, objects
    <2>2. ASSUME NEW q \in Refs
          PROVE  ref'[q] = None \/ Found(ref[q])' \/ Queued(q)' \/ InLog(q)'
        <3>1. ref[q] = None \/ Found(ref[q]) \/ InLog(q)
            BY <2>1 DEF FoundInv, Reading, Queued
        <3> QED
            BY <1>0, <1>1, <2>1, <3>1 DEF Found, InLog
    <2>3. ASSUME NEW m \in Movers, pc'[m] \in {"unlog", "delete"}
          PROVE  Found(base[m])'
        <3>1. Found(base[m])
            BY <1>0, <2>1, <2>3 DEF FoundInv, Reading, Queued
        <3> QED
            BY <1>0, <1>1, <2>1, <3>1 DEF Found
    <2> QED
        BY <2>2, <2>3 DEF FoundInv
<1>5. ASSUME NEW r \in Refs, PruneLog(r) PROVE FoundInv'
    <2>1. /\ pc[Pruner] = "logs" /\ pc'[Pruner] = "logs" /\ todo' = todo \ {r}
          /\ pending' = pending \cup (log[r] \cap Present) /\ mtime' = mtime
        BY <1>0, <1>5 DEF PruneLog, objects
    <2>2. ASSUME NEW q \in Refs
          PROVE  ref'[q] = None \/ Found(ref[q])' \/ Queued(q)' \/ InLog(q)'
        <3>1. ref[q] = None \/ Found(ref[q]) \/ InLog(q)
            BY <2>1 DEF FoundInv, Reading, Queued
        <3>2. CASE Found(ref[q])
            BY <1>0, <1>1, <2>1, <3>2 DEF Found
        <3>3. CASE InLog(q) /\ q = r /\ ref[q] # None
            <4>1. ref[q] \in log[r] /\ ref[q] \in Objects
                BY <1>0, <3>3 DEF InLog
            <4>2. mtime[ref[q]] = "old" => ref[q] \in Present
                BY <4>1 DEF Present
            <4> QED
                BY <1>0, <2>1, <4>1, <4>2 DEF Found
        <3>4. CASE InLog(q) /\ q # r
            BY <1>0, <1>1, <2>1, <3>4 DEF InLog
        <3> QED
            BY <1>0, <3>1, <3>2, <3>3, <3>4
    <2>3. ASSUME NEW m \in Movers, pc'[m] \in {"unlog", "delete"}
          PROVE  Found(base[m])'
        <3>1. Found(base[m])
            BY <1>0, <2>1, <2>3 DEF FoundInv, Reading, Queued
        <3> QED
            BY <1>0, <1>1, <2>1, <3>1 DEF Found
    <2> QED
        BY <2>2, <2>3 DEF FoundInv
<1>6. CASE PruneWalk \/ PruneMark \/ PruneUnlink \/ PruneDone
    BY <1>0, <1>6 DEF PruneWalk, PruneMark, PruneUnlink, PruneDone, Goto, Reading
<1>7. ASSUME NEW o \in Objects, PruneScan(o) \/ PruneStat(o) PROVE FoundInv'
    BY <1>7 DEF PruneScan, PruneStat, Reading
<1> QED
    BY <1>2, <1>3, <1>4, <1>5, <1>6, <1>7 DEF PruneStep

-----------------------------------------------------------------------------
(* What stays reachable. *)

(* Reachability through more objects, and from more roots.                   *)
LEMMA ReachMore ==
    ASSUME NEW S \in SUBSET Objects, NEW U \in SUBSET Objects, NEW P, NEW Q,
           S \subseteq U, P \subseteq Q
    PROVE  Closure(S, P) \subseteq Closure(U, Q)
BY ClosureProperties, ClosureMonotone

(* What two sets reach together one of them reaches alone.                   *)
LEMMA ReachEither ==
    ASSUME NEW S \in SUBSET Objects, NEW U \in SUBSET Objects, NEW P
    PROVE  Closure(S \cup U, P) \subseteq Closure(S, P) \cup Closure(U, P)
<1> DEFINE C == Closure(S, P) \cup Closure(U, P)
<1>1. S \cup U \subseteq C /\ C \in SUBSET Objects
    BY ClosureProperties
<1>2. Closed(C, P)
    BY ClosureProperties DEF Closed
<1> HIDE DEF C
<1>3. Closure(S \cup U, P) \subseteq C
    BY <1>1, <1>2, ClosureProperties
<1> QED
    BY <1>3 DEF C

LEMMA UnfindableGrows ==
    ASSUME TypeInv, HistoryTypes', Observe
    PROVE  Unfindable \subseteq Unfindable'
<1>1. astray \subseteq astray' /\ astray \in SUBSET Objects /\ astray' \in SUBSET Objects
    BY DEF Observe, HistoryTypes, TypeInv, TypeOK
<1>2. Closure(astray, Objects) \subseteq Closure(astray', Objects)
    BY <1>1, ReachMore
<1> QED
    BY <1>2 DEF Unfindable

LEMMA HarmlessLive ==
    ASSUME TypeInv, TypeInv', HistoryTypes', Harmless, RecentInv, LiveInv, Observe
    PROVE  LiveInv'
<1>1. /\ UNCHANGED <<todo, pending, marked>> /\ pc'[Pruner] = pc[Pruner]
      /\ Present \subseteq Present' /\ Unfindable \subseteq Unfindable'
    BY HarmlessGrows, UnfindableGrows DEF Harmless, prune
<1>2. /\ pc'[Pruner] = "idle" => live' = {}
      /\ pc'[Pruner] # "idle" => live' = live \cap Closure(Roots, Present)'
      /\ live' \subseteq live
    BY <1>1 DEF Observe, Reached, LiveInv
<1>3. pc[Pruner] = "scan" =>
        Closure(pending \cup todo, Present) \subseteq Closure(pending \cup todo, Present)'
    <2>1. pc[Pruner] = "scan" => pending \cup todo \in SUBSET Objects
        BY DEF RecentInv
    <2>2. pc[Pruner] = "scan" =>
            Closure(pending \cup todo, Present) \subseteq Closure(pending \cup todo, Present')
        BY <2>1, HarmlessGrows
    <2> QED
        BY <1>1, <2>2
<1>4. pc'[Pruner] = "scan" =>
        live' \subseteq (marked' \cup Closure(pending \cup todo, Present)') \cup Unfindable'
    BY <1>1, <1>2, <1>3 DEF LiveInv
<1>5. /\ pc'[Pruner] # "prune" => live' \subseteq Present'
      /\ Reading' => live' \subseteq Closure(Roots, Present)'
      /\ pc'[Pruner] = "prune" => live' \subseteq marked' \cup Unfindable'
      /\ live' \subseteq Present' \cup Unfindable'
    BY <1>1, <1>2 DEF LiveInv, Reading
<1> QED
    BY <1>2, <1>4, <1>5 DEF LiveInv

(* When the reflogs are read everything a ref names is a root, or recent, or *)
(* astray.                                                                   *)
LEMMA WalkFinds ==
    ASSUME TypeInv, FoundInv, LiveInv, pc[Pruner] = "logs", todo = {}
    PROVE  live \subseteq (Closure(pending, Present) \cup Closure(New, Present)) \cup Unfindable
<1> USE DEF TypeInv
<1>0. /\ Roots \cap Present \in SUBSET Objects /\ Roots \in SUBSET Objects
      /\ New \in SUBSET Objects /\ pending \in SUBSET Objects /\ astray \in SUBSET Objects
      /\ pending \cup New \in SUBSET Objects /\ (pending \cup New) \cup astray \in SUBSET Objects
      /\ Present \subseteq Objects
    BY DEF Roots, Present, New, TypeOK
<1>1. Roots \cap Present \subseteq (pending \cup New) \cup astray
    <2> SUFFICES ASSUME NEW r \in Refs, ref[r] # None, ref[r] \in Present
                 PROVE  ref[r] \in (pending \cup New) \cup astray
        BY DEF Roots
    <2>1. Found(ref[r])
        BY DEF FoundInv, Reading, Queued, InLog
    <2>2. mtime[ref[r]] # "old" => ref[r] \in New
        BY DEF Present, New, TypeOK, Stamps
    <2> QED
        BY <2>1, <2>2 DEF Found
<1>2. live \subseteq Closure(Roots \cap Present, Present)
    BY <1>0, ClosureOfReadable DEF LiveInv, Reading
<1>3. Closure(Roots \cap Present, Present) \subseteq
        Closure((pending \cup New) \cup astray, Present)
    BY <1>0, <1>1, ReachMore
<1>4. Closure((pending \cup New) \cup astray, Present) \subseteq
        Closure(pending \cup New, Present) \cup Closure(astray, Present)
    BY <1>0, ReachEither
<1>5. Closure(pending \cup New, Present) \subseteq
        Closure(pending, Present) \cup Closure(New, Present)
    BY <1>0, ReachEither
<1>6. Closure(astray, Present) \subseteq Unfindable
    BY <1>0, ReachMore DEF Unfindable
<1> QED
    BY <1>2, <1>3, <1>4, <1>5, <1>6

LEMMA PrunerLive ==
    ASSUME TypeInv, TypeInv', HistoryTypes', Pruning, PruneStep, RecentInv, RecentInv',
           FoundInv, LiveInv, Observe
    PROVE  LiveInv'
<1> USE GraphAssumption DEF TypeInv
<1>0. /\ Roots' = Roots /\ Roots \in SUBSET Objects
      /\ mtime' = mtime => Present' = Present
      /\ Present \in SUBSET Objects /\ pending \in SUBSET Objects
      /\ Pruner \in DOMAIN pc /\ Unfindable \subseteq Unfindable'
    BY UnfindableGrows DEF Pruning, refs, Roots, Present, TypeOK
<1>1. ASSUME pc[Pruner] # "idle"
      PROVE  /\ pc'[Pruner] = "idle" => live' = {}
             /\ pc'[Pruner] # "idle" => live' = live \cap Closure(Roots, Present)'
             /\ live' \subseteq live
    BY <1>1 DEF Observe, Reached
<1>2. CASE PruneStart
    <2>1. pc[Pruner] = "idle" /\ pc'[Pruner] = "refs" /\ mtime' = mtime
        BY <1>0, <1>2 DEF PruneStart, Goto, objects
    <2>2. live' = Present \cap Closure(Roots, Present) /\ Present' = Present
        BY <1>0, <2>1 DEF Observe, Reached
    <2>3. live' \subseteq Closure(Roots, Present)'
        BY <1>0, <2>2
    <2> QED
        BY <2>1, <2>2, <2>3 DEF LiveInv
<1>3. CASE PruneRefsDone \/ \E r \in Refs : PruneRef(r) \/ PruneLog(r)
    <2>1. /\ pc[Pruner] \in {"refs", "logs"} /\ pc'[Pruner] \in {"refs", "logs", "died"}
          /\ mtime' = mtime
        BY <1>0, <1>3 DEF PruneRef, PruneLog, PruneRefsDone, Goto, objects
    <2>2. live' = live \cap Closure(Roots, Present)' /\ Present' = Present /\ live' \subseteq live
        BY <1>0, <1>1, <2>1
    <2> QED
        BY <1>0, <2>1, <2>2 DEF LiveInv
<1>4. CASE PruneWalk
    <2>1. /\ pc[Pruner] = "logs" /\ pc'[Pruner] \in {"scan", "died"} /\ mtime' = mtime
          /\ todo = {} /\ marked' = Closure(pending, Present) /\ pending' = {} /\ todo' = New
        BY <1>0, <1>4 DEF PruneWalk, Goto, objects, RecentInv, New
    <2>2. Present' = Present /\ live' \subseteq live
        BY <1>0, <1>1, <2>1
    <2>3. pending' \cup todo' = New
        BY <2>1
    <2>4. live' \subseteq (marked' \cup Closure(pending \cup todo, Present)') \cup Unfindable'
        BY <1>0, <2>1, <2>2, <2>3, WalkFinds
    <2>5. live' \subseteq Present'
        BY <2>1, <2>2 DEF LiveInv
    <2> QED
        BY <2>1, <2>4, <2>5 DEF LiveInv, Reading
<1>5. ASSUME NEW o \in Objects, PruneScan(o) PROVE LiveInv'
    <2>1. /\ pc[Pruner] = "scan" /\ pc'[Pruner] = "scan" /\ mtime' = mtime /\ marked' = marked
          /\ todo' = todo \ {o} /\ pending' = pending \cup {o}
        BY <1>5 DEF PruneScan, objects
    <2>2. Present' = Present /\ live' \subseteq live
        BY <1>0, <1>1, <2>1
    <2>3. /\ pending \cup todo \in SUBSET Objects /\ pending' \cup todo' \in SUBSET Objects
          /\ pending \cup todo \subseteq pending' \cup todo'
        BY <2>1 DEF RecentInv
    <2>4. Closure(pending \cup todo, Present) \subseteq Closure(pending' \cup todo', Present)
        BY <2>3, ReachMore
    <2>5. live' \subseteq (marked' \cup Closure(pending \cup todo, Present)') \cup Unfindable'
        BY <1>0, <2>1, <2>2, <2>4 DEF LiveInv
    <2>6. live' \subseteq Present'
        BY <2>1, <2>2 DEF LiveInv
    <2> QED
        BY <2>1, <2>5, <2>6 DEF LiveInv, Reading
<1>6. CASE PruneMark
    <2>1. /\ pc[Pruner] = "scan" /\ pc'[Pruner] = "prune" /\ mtime' = mtime /\ todo = {}
          /\ marked' = marked \cup Closure(pending, Present)
        BY <1>0, <1>6 DEF PruneMark, MarkRecent, Goto, objects
    <2>2. Present' = Present /\ live' \subseteq live
        BY <1>0, <1>1, <2>1
    <2>3. pending \cup todo = pending
        BY <2>1
    <2>4. live' \subseteq marked' \cup Unfindable'
        BY <1>0, <2>1, <2>2, <2>3 DEF LiveInv
    <2>5. live' \subseteq Present'
        BY <2>1, <2>2 DEF LiveInv
    <2> QED
        BY <2>1, <2>4, <2>5 DEF LiveInv, Reading
<1>7. ASSUME NEW o \in Objects, PruneStat(o) PROVE LiveInv'
    <2>1. /\ pc[Pruner] = "prune" /\ pc'[Pruner] = "prune" /\ mtime' = mtime /\ marked' = marked
        BY <1>7 DEF PruneStat, objects
    <2>2. Present' = Present /\ live' \subseteq live
        BY <1>0, <1>1, <2>1
    <2> QED
        BY <1>0, <2>1, <2>2 DEF LiveInv, Reading
<1>8. CASE PruneUnlink
    <2>1. /\ pc[Pruner] = "prune" /\ pc'[Pruner] = "prune"
          /\ mtime' = [mtime EXCEPT ![doomed] = "none"] /\ marked' = marked
        BY <1>8 DEF PruneUnlink
    <2>2. live' \subseteq live
        BY <1>1, <2>1
    <2>3. /\ live \subseteq marked \cup Unfindable /\ doomed \notin marked
          /\ live \subseteq Present \cup Unfindable
        BY <2>1 DEF LiveInv, RecentInv
    <2>4. Present \ {doomed} \subseteq Present'
        BY <2>1 DEF Present, TypeOK
    <2>5. live' \subseteq Present' \cup Unfindable'
        BY <1>0, <2>2, <2>3, <2>4
    <2> QED
        BY <1>0, <2>1, <2>2, <2>3, <2>5 DEF LiveInv, Reading
<1>9. CASE PruneDone
    <2>1. pc'[Pruner] = "idle" /\ pc[Pruner] # "idle"
        BY <1>0, <1>9 DEF PruneDone, Goto
    <2> QED
        BY <1>1, <2>1 DEF LiveInv, Reading
<1> QED
    BY <1>2, <1>3, <1>4, <1>5, <1>6, <1>7, <1>8, <1>9 DEF PruneStep

-----------------------------------------------------------------------------
(* The theorems. *)

(* What is said of objects, and what is said of refs and prune's roots.      *)
ObjectInv == TypeInv /\ RecentInv /\ WrittenInv
ReachInv  == LockInv /\ FoundInv /\ LiveInv

LEMMA InitObjects == Init => ObjectInv
<1> SUFFICES ASSUME Init PROVE RecentInv /\ WrittenInv
    BY InitTypes DEF ObjectInv
<1>1. pc[Pruner] = "idle"
    BY DEF Init
<1>2. RecentInv
    BY <1>1 DEF Init, RecentInv
<1>3. \A w \in Writers : next[w] = 0
    BY DEF Init
<1>4. WrittenInv
    BY <1>3 DEF WrittenInv
<1> QED
    BY <1>2, <1>4

LEMMA NextObjects == ObjectInv /\ [Next]_vars => ObjectInv'
<1> SUFFICES ASSUME ObjectInv, [Next]_vars PROVE ObjectInv'
    OBVIOUS
<1> USE DEF ObjectInv
<1>1. CASE Next
    <2>0. Observe /\ HistoryTypes'
        BY <1>1, ObserveTypes DEF Next
    <2>1. ASSUME NEW w \in Writers, WriteStep(w) PROVE ObjectInv'
        BY <2>0, <2>1, WriterTypes, HarmlessRecent, WriterWritten
    <2>2. ASSUME NEW m \in Movers, MoveStep(m) PROVE ObjectInv'
        BY <2>0, <2>2, MoverTypes, HarmlessRecent, MoverWritten
    <2>3. CASE PruneStep
        BY <2>0, <2>3, PrunerTypes, PrunerRecent, PrunerWritten
    <2> QED
        BY <1>1, <2>1, <2>2, <2>3 DEF Next, Step
<1>2. CASE UNCHANGED vars
    <2>1. UNCHANGED <<mtime, stale, faults, ref, log, reflock, pc, base, next,
                      todo, pending, marked, doomed, recent, live, moved, astray>>
        BY <1>2 DEF vars, objects, refs, prune, history
    <2>2. TypeInv'
        BY <2>1 DEF TypeInv, TypeOK, Known, Progress
    <2>3. RecentInv'
        BY <2>1 DEF RecentInv, New, Present
    <2>4. WrittenInv'
        BY <2>1 DEF WrittenInv, Safe
    <2> QED
        BY <2>2, <2>3, <2>4
<1> QED
    BY <1>1, <1>2

LEMMA NextReach == ObjectInv /\ ObjectInv' /\ ReachInv /\ [Next]_vars => ReachInv'
<1> SUFFICES ASSUME ObjectInv, ObjectInv', ReachInv, [Next]_vars PROVE ReachInv'
    OBVIOUS
<1> USE DEF ObjectInv, ReachInv
<1>1. CASE Next
    <2>0. Observe /\ HistoryTypes'
        BY <1>1, ObserveTypes DEF Next
    <2>1. ASSUME NEW w \in Writers, WriteStep(w) PROVE ReachInv'
        BY <2>0, <2>1, WriterTypes, WriterLocks, WriterFound, HarmlessLive
    <2>2. ASSUME NEW m \in Movers, MoveStep(m) PROVE ReachInv'
        BY <2>0, <2>2, MoverTypes, MoverLocks, MoverFound, HarmlessLive
    <2>3. CASE PruneStep
        BY <2>0, <2>3, PrunerTypes, PrunerLocks, PrunerFound, PrunerLive
    <2> QED
        BY <1>1, <2>1, <2>2, <2>3 DEF Next, Step
<1>2. CASE UNCHANGED vars
    <2>1. UNCHANGED <<mtime, ref, log, reflock, pc, base, todo, pending, marked, live,
                      moved, astray>>
        BY <1>2 DEF vars, objects, refs, prune, history
    <2>2. LockInv' /\ FoundInv'
        BY <2>1 DEF LockInv, FoundInv, Reading, Found, Queued, InLog
    <2>3. LiveInv'
        BY <2>1 DEF LiveInv, Reading, Roots, Present, Unfindable
    <2> QED
        BY <2>2, <2>3
<1> QED
    BY <1>1, <1>2

(* The state is well-typed, however the processes of writers, movers and     *)
(* prune interleave.                                                         *)
THEOREM TypesHold == Spec => []TypeOK
<1>1. ObjectInv => TypeOK
    BY DEF ObjectInv, TypeInv
<1> QED
    BY <1>1, InitObjects, NextObjects, PTL DEF Spec

(* prune keeps what was recent when it began and all that this names, however *)
(* many writers and movers run meanwhile, with reflogs or without            *)
(* (add_unseen_recent_objects_to_traversal, prune_object).                   *)
THEOREM RecentIsKept == Spec => []RecentKept
<1>1. ObjectInv => RecentKept
    BY DEF ObjectInv, RecentInv, RecentKept
<1> QED
    BY <1>1, InitObjects, NextObjects, PTL DEF Spec

(* What refs reached all the time since prune began is there, for any number *)
(* of movers and whichever refs have reflogs, unless it is Unfindable        *)
(* (add_one_ref, handle_one_reflog, add_unseen_recent_objects_to_traversal). *)
THEOREM ReachableIsKept == Spec => []ReachableKept
<1>1. Init => ReachInv
    <2> SUFFICES ASSUME Init PROVE ReachInv
        OBVIOUS
    <2>1. /\ pc[Pruner] = "idle" /\ live = {}
          /\ \A p \in Writers \cup Movers : pc[p] = "idle"
        BY DEF Init, Procs
    <2> QED
        BY <2>1 DEF ReachInv, LockInv, FoundInv, Reading, LiveInv
<1>2. ObjectInv /\ ReachInv => ReachableKept
    BY DEF ObjectInv, TypeInv, ReachInv, LiveInv, ReachableKept
<1>3. Init => ObjectInv /\ ReachInv
    BY <1>1, InitObjects
<1>4. (ObjectInv /\ ReachInv) /\ [Next]_vars => (ObjectInv /\ ReachInv)'
    BY NextObjects, NextReach
<1> QED
    BY <1>2, <1>3, <1>4, PTL DEF Spec

(* When a writer is done each object that it wrote, or found and freshened,  *)
(* exists, unless prune had already decided to remove it or utime() failed   *)
(* (freshen_file, finalize_object_file_flags, prune_object).                 *)
WrittenKept ==
    \A w \in Writers : pc[w] = "done" => Written(w) \subseteq Present \cup stale

(* Every writer, with whatever it writes, leaves what WrittenKept says.      *)
THEOREM WrittenIsKept == Spec => []WrittenKept
<1>1. ObjectInv => WrittenKept
    <2> SUFFICES ASSUME ObjectInv, NEW w \in Writers, pc[w] = "done",
                        NEW i \in 1..Len(Writes[w])
                 PROVE  Writes[w][i] \in Present \cup stale
        BY DEF WrittenKept, Written
    <2>1. next[w] = Len(Writes[w]) /\ Len(Writes[w]) \in Nat
        BY WritesProperties DEF ObjectInv, TypeInv, Progress
    <2>2. Safe(Writes[w][i])
        BY <2>1 DEF ObjectInv, WrittenInv
    <2>3. i - 1 \in 0..(Len(Writes[w]) - 1) /\ i = (i - 1) + 1
        BY <2>1
    <2>4. Writes[w][i] \in Objects
        BY <2>3, WritesProperties
    <2> QED
        BY <2>2, <2>4 DEF Safe, Present
<1> QED
    BY <1>1, InitObjects, NextObjects, PTL DEF Spec
=============================================================================
