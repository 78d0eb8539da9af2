-------------------------- MODULE Utf8CaptureProofs --------------------------
(* Proofs about Utf8Capture: for every set of inputs and every buffer size *)
(* the chunks lose nothing and pending[3] is large enough.                 *)
EXTENDS Utf8Capture, SequenceTheorems, WellFoundedInduction, TLAPS

-----------------------------------------------------------------------------
(* The operators. *)

(* A non-empty set of numbers has a least element. *)
LEMMA LeastNat ==
    ASSUME NEW T, T \subseteq Nat, T # {}
    PROVE  \E x \in T : \A y \in T : x <= y
<1>1. \E x \in T : \A y \in T : ~ (<<y, x>> \in OpToRel(<, Nat))
    BY WFMin, NatLessThanWellFounded
<1>2. PICK x \in T : \A y \in T : ~ (<<y, x>> \in OpToRel(<, Nat))
    BY <1>1
<1>3. ASSUME NEW y \in T PROVE x <= y
    <2>1. x \in Nat /\ y \in Nat
        OBVIOUS
    <2>2. ~ (y < x)
        BY <1>2, <2>1 DEF OpToRel
    <2> QED
        BY <2>1, <2>2
<1> QED
    BY <1>3

(* The backward loop of incomplete_utf8_suffix stops at a byte of data,    *)
(* and only continuation bytes follow it.                                  *)
LEMMA LastStartProperties ==
    ASSUME NEW data \in Seq(Bytes), data # <<>>
    PROVE  /\ LastStart(data) \in 1..Len(data)
           /\ LastStart(data) = 1 \/ data[LastStart(data)] # Cont
           /\ \A j \in (LastStart(data) + 1)..Len(data) : data[j] = Cont
<1> DEFINE Stops == {i \in 1..Len(data) : i = 1 \/ data[i] # Cont}
           Dist  == {d \in Nat : \E i \in Stops : d = Len(data) - i}
<1>1. Len(data) \in Nat /\ Len(data) >= 1
    BY EmptySeq, LenProperties
<1>2. Len(data) - 1 \in Dist
    BY <1>1
<1>3. PICK d \in Dist : \A e \in Dist : d <= e
    <2>1. Dist \subseteq Nat /\ Dist # {}
        BY <1>2
    <2> HIDE DEF Dist
    <2> QED
        BY <2>1, LeastNat
<1>4. PICK i \in Stops : d = Len(data) - i
    BY <1>3
<1>5. ASSUME NEW j \in (i + 1)..Len(data) PROVE data[j] = Cont
    <2>1. SUFFICES ASSUME data[j] # Cont PROVE FALSE
        OBVIOUS
    <2>2. j \in Stops /\ Len(data) - j \in Nat
        BY <1>1, <2>1
    <2>3. Len(data) - j \in Dist
        BY <2>2
    <2>4. d <= Len(data) - j
        BY <1>3, <2>3
    <2> QED
        BY <1>1, <1>4, <2>4
<1>6. \E k \in 1..Len(data) :
          /\ k = 1 \/ data[k] # Cont
          /\ \A j \in (k + 1)..Len(data) : data[j] = Cont
    BY <1>5
<1> QED
    BY <1>6 DEF LastStart

(* At most three bytes are held back, and they are the start of a longer   *)
(* code point.                                                             *)
LEMMA SuffixProperties ==
    ASSUME NEW data \in Seq(Bytes)
    PROVE  LET len == incomplete_utf8_suffix(data)
           IN  /\ len \in 0..3 /\ len <= Len(data)
               /\ len > 0 =>
                     /\ len < Expected(data[Len(data) - len + 1])
                     /\ \A j \in (Len(data) - len + 2)..Len(data) : data[j] = Cont
<1>1. CASE data = <<>>
    BY <1>1, EmptySeq DEF incomplete_utf8_suffix
<1>2. CASE data # <<>>
    <2> DEFINE start == LastStart(data)
               len   == Len(data) - start + 1
    <2>1. /\ start \in 1..Len(data) /\ Len(data) \in Nat
          /\ \A j \in (start + 1)..Len(data) : data[j] = Cont
        BY <1>2, LastStartProperties, LenProperties
    <2>2. Expected(data[start]) \in 0..4
        BY DEF Expected
    <2>3. incomplete_utf8_suffix(data)
              = IF len < Expected(data[start]) THEN len ELSE 0
        BY <1>2 DEF incomplete_utf8_suffix
    <2> HIDE DEF start
    <2>4. CASE len < Expected(data[start])
        <3>1. incomplete_utf8_suffix(data) = len /\ len \in 1..3
            BY <2>1, <2>2, <2>3, <2>4
        <3>2. Len(data) - len + 1 = start
            BY <2>1
        <3> QED
            BY <2>1, <2>4, <3>1, <3>2
    <2>5. CASE ~(len < Expected(data[start]))
        BY <2>1, <2>3, <2>5
    <2> QED
        BY <2>4, <2>5
<1> QED
    BY <1>1, <1>2

(* A sequence cut in two is the two parts put together again. *)
LEMMA CutInTwo ==
    ASSUME NEW s \in Seq(Bytes), NEW k \in 0..Len(s)
    PROVE  /\ SubSeq(s, 1, k) \in Seq(Bytes)
           /\ SubSeq(s, k + 1, Len(s)) \in Seq(Bytes)
           /\ Len(SubSeq(s, k + 1, Len(s))) = Len(s) - k
           /\ \A i \in 1..(Len(s) - k) : SubSeq(s, k + 1, Len(s))[i] = s[k + i]
           /\ SubSeq(s, 1, k) \o SubSeq(s, k + 1, Len(s)) = s
<1>1. Len(s) \in Nat /\ k \in Nat /\ k <= Len(s)
    BY LenProperties
<1>2. \A i \in 1..Len(s) : s[i] \in Bytes
    BY ElementOfSeq
<1>3. SubSeq(s, 1, k) \in Seq(Bytes)
    BY <1>1, <1>2, SubSeqProperties
<1>4. /\ SubSeq(s, k + 1, Len(s)) \in Seq(Bytes)
      /\ Len(SubSeq(s, k + 1, Len(s))) = Len(s) - k
      /\ \A i \in 1..(Len(s) - k) : SubSeq(s, k + 1, Len(s))[i] = s[k + i]
    <2>1. k + 1 \in Int /\ Len(s) \in Int /\ \A i \in (k + 1)..Len(s) : s[i] \in Bytes
        BY <1>1, <1>2
    <2> QED
        BY <1>1, <2>1, SubSeqProperties
<1>5. SubSeq(s, 1, k) \o SubSeq(s, k + 1, Len(s)) = SubSeq(s, 1, Len(s))
    <2>1. 1 \in 1..(Len(s) + 1) /\ k \in (1 - 1)..Len(s) /\ Len(s) \in k..Len(s)
        BY <1>1
    <2> QED
        BY <2>1, ConcatAdjacentSubSeq
<1>6. SubSeq(s, 1, Len(s)) = s
    BY SubSeqFull
<1> QED
    BY <1>3, <1>4, <1>5, <1>6
-----------------------------------------------------------------------------
(* What is held back, in the terms of the code. *)
Held ==
    /\ Len(pending) <= 3
    /\ pending # <<>> =>
          /\ Len(pending) < Expected(pending[1])
          /\ \A i \in 2..Len(pending) : pending[i] = Cont

(* The inductive invariant: the end of the input is only reached when      *)
(* everything has been read.                                               *)

Inv == TypeOK /\ Held /\ Lossless /\ (pc = "flush" => input = <<>>)

LEMMA Assoc ==
    \A s, t, u \in Seq(Bytes) : (s \o t) \o u = s \o (t \o u)
BY ConcatAssociative

(* One turn of the reader's loop, when read() has returned k bytes. *)
LEMMA ChunkStep ==
    ASSUME TypeOK, Held, Lossless, pc = "read",
           NEW k \in 1..(BufSize - Len(pending)), k <= Len(input),
           NEW data, data = pending \o SubSeq(input, 1, k),
           NEW keep, keep = Len(data) - incomplete_utf8_suffix(data)
    PROVE  /\ data \in Seq(Bytes) /\ keep \in 0..Len(data)
           /\ SubSeq(data, 1, keep) \in Seq(Bytes)
           /\ SubSeq(input, k + 1, Len(input)) \in Seq(Bytes)
           /\ SubSeq(data, keep + 1, Len(data)) \in Seq(Bytes)
           /\ Len(SubSeq(data, keep + 1, Len(data))) <= 3
           /\ SubSeq(data, keep + 1, Len(data)) # <<>> =>
                 /\ Len(SubSeq(data, keep + 1, Len(data)))
                       < Expected(SubSeq(data, keep + 1, Len(data))[1])
                 /\ \A i \in 2..Len(SubSeq(data, keep + 1, Len(data))) :
                       SubSeq(data, keep + 1, Len(data))[i] = Cont
           /\ (sent \o SubSeq(data, 1, keep)) \o SubSeq(data, keep + 1, Len(data))
                   \o SubSeq(input, k + 1, Len(input)) = whole
<1> DEFINE got  == SubSeq(input, 1, k)
           rest == SubSeq(input, k + 1, Len(input))
           out  == SubSeq(data, 1, keep)
           held == SubSeq(data, keep + 1, Len(data))
           len  == incomplete_utf8_suffix(data)
<1>1. input \in Seq(Bytes) /\ pending \in Seq(Bytes) /\ sent \in Seq(Bytes)
    BY DEF TypeOK
<1>2. k \in 0..Len(input)
    BY <1>1, LenProperties, BufSizeAssumption DEF Held
<1>3. got \in Seq(Bytes) /\ rest \in Seq(Bytes) /\ got \o rest = input
    BY <1>1, <1>2, CutInTwo
<1> HIDE DEF got, rest
<1>4. data = pending \o got
    BY DEF got
<1>5. data \in Seq(Bytes)
    BY <1>1, <1>3, <1>4, ConcatProperties
<1>6. /\ len \in 0..3 /\ len <= Len(data) /\ Len(data) \in Nat
      /\ len > 0 => /\ len < Expected(data[Len(data) - len + 1])
                    /\ \A j \in (Len(data) - len + 2)..Len(data) : data[j] = Cont
    BY <1>5, SuffixProperties, LenProperties
<1> HIDE DEF len
<1>7. keep = Len(data) - len /\ keep \in 0..Len(data)
    BY <1>6 DEF len
<1>8. /\ out \in Seq(Bytes) /\ held \in Seq(Bytes)
      /\ out \o held = data /\ Len(held) = len
      /\ \A i \in 1..len : held[i] = data[keep + i]
    <2>1. /\ out \in Seq(Bytes) /\ held \in Seq(Bytes)
          /\ out \o held = data /\ Len(held) = Len(data) - keep
          /\ \A i \in 1..(Len(data) - keep) : held[i] = data[keep + i]
        BY <1>5, <1>7, CutInTwo, Zenon
    <2>2. Len(data) - keep = len
        BY <1>6, <1>7
    <2> QED
        BY <2>1, <2>2, Zenon
<1> HIDE DEF out, held
<1>9. held # <<>> => /\ len < Expected(held[1])
                      /\ \A i \in 2..len : held[i] = Cont
    <2>1. SUFFICES ASSUME held # <<>>
                   PROVE  /\ len < Expected(held[1])
                          /\ \A i \in 2..len : held[i] = Cont
        OBVIOUS
    <2>2. len > 0
        BY <1>6, <1>8, <2>1, EmptySeq
    <2>3. held[1] = data[Len(data) - len + 1]
        <3>1. 1 \in 1..len /\ keep + 1 = Len(data) - len + 1
            BY <1>6, <1>7, <2>2
        <3> QED
            BY <1>8, <3>1, Zenon
    <2>4. ASSUME NEW i \in 2..len PROVE held[i] = Cont
        <3>1. held[i] = data[keep + i]
            <4>1. i \in 1..len
                BY <1>6
            <4> QED
                BY <1>8, <4>1, Zenon
        <3>2. keep + i \in (Len(data) - len + 2)..Len(data)
            BY <1>6, <1>7
        <3> QED
            BY <1>6, <2>2, <3>1, <3>2
    <2> QED
        BY <1>6, <2>2, <2>3, <2>4
<1>10. (sent \o out) \o held \o rest = whole
    <2>1. sent \o pending \o input = whole
        BY DEF Lossless
    <2>2. (sent \o out) \o held = sent \o (out \o held)
        BY <1>1, <1>8, Assoc, Zenon
    <2>3. sent \o (pending \o got) = (sent \o pending) \o got
        BY <1>1, <1>3, Assoc, Zenon
    <2>4. sent \o pending \in Seq(Bytes)
        BY <1>1, ConcatProperties
    <2>5. ((sent \o pending) \o got) \o rest = (sent \o pending) \o (got \o rest)
        BY <1>3, <2>4, Assoc, Zenon
    <2> QED
        BY <1>3, <1>4, <1>8, <2>1, <2>2, <2>3, <2>5, Zenon
<1>11. Len(held) <= 3
    BY <1>6, <1>8
<1> QED
    BY <1>3, <1>5, <1>7, <1>8, <1>9, <1>10, <1>11, Zenon DEF out, held, rest

LEMMA InvInit == Init => Inv
<1> SUFFICES ASSUME Init PROVE Inv
    OBVIOUS
<1>1. whole \in Seq(Bytes)
    BY InputsAssumption DEF Init
<1>2. TypeOK
    BY <1>1, EmptySeq DEF Init, TypeOK
<1>3. Held
    BY EmptySeq DEF Init, Held
<1>4. <<>> \o <<>> \o whole = whole
    BY <1>1, EmptySeq, ConcatEmptySeq
<1>5. Lossless
    BY <1>4 DEF Init, Lossless
<1> QED
    BY <1>2, <1>3, <1>5 DEF Inv, Init

LEMMA EmitPatchType ==
    ASSUME NEW chunk \in Seq(Bytes), sent \in Seq(Bytes), cuts \subseteq Nat,
           EmitPatch(chunk)
    PROVE  sent' \in Seq(Bytes) /\ cuts' \subseteq Nat
<1>1. sent' \in Seq(Bytes)
    BY ConcatProperties DEF EmitPatch
<1>2. Len(sent') \in Nat
    BY <1>1, LenProperties
<1> QED
    BY <1>1, <1>2 DEF EmitPatch

LEMMA InvNext == Inv /\ [Next]_vars => Inv'
<1> SUFFICES ASSUME Inv, [Next]_vars PROVE Inv'
    OBVIOUS
<1> USE DEF Inv
<1>1. CASE ReadChunk
    <2>1. PICK k \in 1..(BufSize - Len(pending)) :
              /\ k <= Len(input)
              /\ LET data == pending \o SubSeq(input, 1, k)
                     keep == Len(data) - incomplete_utf8_suffix(data)
                 IN  /\ input' = SubSeq(input, k + 1, Len(input))
                     /\ pending' = SubSeq(data, keep + 1, Len(data))
                     /\ IF keep > 0 THEN EmitPatch(SubSeq(data, 1, keep))
                                    ELSE UNCHANGED <<sent, cuts>>
                     /\ \/ pc' = "read"
                        \/ keep > 0 /\ pc' = "stopped"
        BY <1>1 DEF ReadChunk
    <2> DEFINE data == pending \o SubSeq(input, 1, k)
               keep == Len(data) - incomplete_utf8_suffix(data)
    <2>2. pc = "read" /\ whole' = whole
        BY <1>1 DEF ReadChunk
    <2>3. /\ data \in Seq(Bytes) /\ keep \in 0..Len(data)
          /\ SubSeq(data, 1, keep) \in Seq(Bytes)
          /\ SubSeq(input, k + 1, Len(input)) \in Seq(Bytes)
          /\ SubSeq(data, keep + 1, Len(data)) \in Seq(Bytes)
          /\ Len(SubSeq(data, keep + 1, Len(data))) <= 3
          /\ SubSeq(data, keep + 1, Len(data)) # <<>> =>
                /\ Len(SubSeq(data, keep + 1, Len(data)))
                      < Expected(SubSeq(data, keep + 1, Len(data))[1])
                /\ \A i \in 2..Len(SubSeq(data, keep + 1, Len(data))) :
                      SubSeq(data, keep + 1, Len(data))[i] = Cont
          /\ (sent \o SubSeq(data, 1, keep)) \o SubSeq(data, keep + 1, Len(data))
                  \o SubSeq(input, k + 1, Len(input)) = whole
        BY <2>1, <2>2, ChunkStep
    <2>4. /\ input' = SubSeq(input, k + 1, Len(input))
          /\ pending' = SubSeq(data, keep + 1, Len(data))
          /\ IF keep > 0 THEN EmitPatch(SubSeq(data, 1, keep))
                         ELSE UNCHANGED <<sent, cuts>>
          /\ pc' \in {"read", "stopped"}
        BY <2>1
    <2>5. sent \in Seq(Bytes) /\ cuts \subseteq Nat
        BY DEF TypeOK
    <2> HIDE DEF data, keep
    <2>6. sent' = sent \o SubSeq(data, 1, keep)
        <3>1. CASE keep > 0
            BY <2>4, <3>1 DEF EmitPatch
        <3>2. CASE ~(keep > 0)
            <4>1. keep = 0 /\ SubSeq(data, 1, keep) = <<>>
                <5>1. Len(data) \in Nat
                    BY <2>3, LenProperties
                <5>2. keep = 0
                    BY <2>3, <3>2, <5>1
                <5> QED
                    BY <5>2, SubSeqEmpty
            <4> QED
                BY <2>4, <2>5, <3>2, <4>1, ConcatEmptySeq
        <3> QED
            BY <3>1, <3>2
    <2>7. sent' \in Seq(Bytes) /\ cuts' \subseteq Nat
        BY <2>3, <2>4, <2>5, EmitPatchType
    <2>8. TypeOK'
        BY <2>2, <2>3, <2>4, <2>7 DEF TypeOK
    <2>9. Held'
        BY <2>3, <2>4 DEF Held
    <2>10. Lossless'
        BY <2>2, <2>3, <2>4, <2>6 DEF Lossless
    <2> QED
        BY <2>4, <2>8, <2>9, <2>10
<1>2. CASE ReadEof
    BY <1>2 DEF ReadEof, TypeOK, Held, Lossless
<1>3. CASE ReadError
    BY <1>3 DEF ReadError, TypeOK, Held, Lossless
<1>4. CASE Flush
    <2>1. /\ pc = "flush" /\ pc' = "done" /\ pending' = <<>>
          /\ whole' = whole /\ input' = input
        BY <1>4 DEF Flush
    <2>2. /\ sent \in Seq(Bytes) /\ pending \in Seq(Bytes) /\ input \in Seq(Bytes)
          /\ cuts \subseteq Nat
        BY DEF TypeOK
    <2>3. sent' = sent \o pending /\ sent' \in Seq(Bytes) /\ cuts' \subseteq Nat
        <3>1. CASE pending # <<>>
            <4>1. EmitPatch(pending)
                BY <1>4, <3>1 DEF Flush
            <4> QED
                BY <2>2, <4>1, EmitPatchType DEF EmitPatch
        <3>2. CASE pending = <<>>
            BY <1>4, <2>2, <3>2, ConcatEmptySeq DEF Flush
        <3> QED
            BY <3>1, <3>2
    <2>4. TypeOK'
        BY <2>1, <2>2, <2>3, EmptySeq DEF TypeOK
    <2>5. Held'
        BY <2>1, EmptySeq DEF Held
    <2>6. Lossless'
        <3>1. sent \o pending \o input = whole /\ input = <<>>
            BY <2>1 DEF Lossless
        <3>2. (sent \o pending) \o <<>> = sent \o pending
            BY <2>2, <2>3, ConcatEmptySeq
        <3>3. sent' = whole'
            BY <2>1, <2>3, <3>1, <3>2
        <3> QED
            BY <2>1, <3>3 DEF Lossless
    <2> QED
        BY <2>1, <2>4, <2>5, <2>6
<1>5. CASE Ended
    BY <1>5 DEF Ended, vars, TypeOK, Held, Lossless
<1>6. CASE UNCHANGED vars
    BY <1>6 DEF vars, TypeOK, Held, Lossless
<1> QED
    BY <1>1, <1>2, <1>3, <1>4, <1>5, <1>6 DEF Next

-----------------------------------------------------------------------------
(* The theorems. *)

LEMMA InvAlways == Spec => []Inv
BY InvInit, InvNext, PTL DEF Spec

(* Type correctness. *)
THEOREM TypeCorrect == Spec => []TypeOK
BY InvAlways, PTL DEF Inv

(* pending[3] holds every incomplete suffix, for any input, well-formed or *)
(* not, however read() splits it.                                          *)
THEOREM PendingFits == Spec => []HeldBack
<1>1. Inv => HeldBack
    <2>1. \A b : Expected(b) <= CodePointLength(b) /\ Expected(b) \in Nat
                   /\ CodePointLength(b) \in Nat
        BY DEF Expected, CodePointLength, Ascii, Lead2, Lead3, Lead4
    <2>2. Inv => Len(pending) \in Nat
        BY LenProperties DEF Inv, TypeOK
    <2> QED
        BY <2>1, <2>2 DEF Inv, Held, HeldBack
<1> QED
    BY <1>1, InvAlways, PTL

(* No byte of a header is lost, repeated or reordered by the chunking.     *)
THEOREM ChunksLossless == Spec => []Lossless
BY InvAlways, PTL DEF Inv

-----------------------------------------------------------------------------
(* Code points stay whole. *)

Leads == {Lead2, Lead3, Lead4}

(* No code point of whole goes on after its c-th byte. *)
Ends(c) == \A i \in 1..c : whole[i] \in Leads => i + CodePointLength(whole[i]) - 1 <= c

LEMMA Lengths ==
    /\ \A b : CodePointLength(b) \in 0..4 /\ Expected(b) \in 0..4
    /\ \A b \in Leads : CodePointLength(b) >= 2 /\ Expected(b) = CodePointLength(b) /\ b # Cont
    /\ \A b : Expected(b) > 0 => b \in Leads
BY DEF CodePointLength, Expected, Leads, Lead2, Lead3, Lead4, Ascii, Cont

(* A well-formed stream cut between code points is well-formed. *)
LEMMA PrefixWellFormed ==
    ASSUME NEW c, whole \in Seq(Bytes), c \in 0..Len(whole), WellFormed(whole), Ends(c)
    PROVE  WellFormed(SubSeq(whole, 1, c))
<1> DEFINE p == SubSeq(whole, 1, c)
<1>0. Len(whole) \in Nat /\ c \in Nat /\ c <= Len(whole)
    BY LenProperties
<1>1. Len(p) = c /\ \A i \in 1..c : p[i] = whole[i]
    <2>1. \A i \in 1..c : whole[i] \in Bytes
        BY <1>0, ElementOfSeq
    <2>2. 1 \in Int /\ c \in Int
        BY <1>0
    <2>3. Len(p) = IF 1 <= c THEN c - 1 + 1 ELSE 0
        BY <2>1, <2>2, SubSeqProperties
    <2>4. \A i \in 1..(c - 1 + 1) : p[i] = whole[1 + i - 1]
        BY <2>1, <2>2, SubSeqProperties
    <2> HIDE DEF p
    <2>5. c - 1 + 1 = c /\ \A i \in 1..c : 1 + i - 1 = i
        BY <1>0
    <2> QED
        BY <1>0, <2>3, <2>4, <2>5
<1> HIDE DEF p
<1>2. ASSUME NEW i \in 1..c
      PROVE  /\ p[i] # Other
             /\ p[i] \in {Lead2, Lead3, Lead4} =>
                   /\ i + CodePointLength(p[i]) - 1 <= c
                   /\ \A j \in (i + 1)..(i + CodePointLength(p[i]) - 1) : p[j] = Cont
             /\ p[i] = Cont => \E k \in 1..3 : /\ k < i
                                               /\ k < CodePointLength(p[i - k])
                                               /\ \A j \in 1..(k - 1) : p[i - j] = Cont
    <2>1. p[i] = whole[i] /\ i \in 1..Len(whole)
        BY <1>0, <1>1
    <2>2. /\ whole[i] # Other
          /\ whole[i] \in {Lead2, Lead3, Lead4} =>
                \A j \in (i + 1)..(i + CodePointLength(whole[i]) - 1) : whole[j] = Cont
          /\ whole[i] = Cont => \E k \in 1..3 : /\ k < i
                                                /\ k < CodePointLength(whole[i - k])
                                                /\ \A j \in 1..(k - 1) : whole[i - j] = Cont
        BY <2>1 DEF WellFormed
    <2>3. ASSUME whole[i] \in {Lead2, Lead3, Lead4}
          PROVE  /\ i + CodePointLength(whole[i]) - 1 <= c
                 /\ \A j \in (i + 1)..(i + CodePointLength(whole[i]) - 1) : p[j] = Cont
        <3>1. i + CodePointLength(whole[i]) - 1 <= c
            BY <2>3 DEF Ends, Leads
        <3>2. ASSUME NEW j \in (i + 1)..(i + CodePointLength(whole[i]) - 1) PROVE p[j] = Cont
            <4>1. CodePointLength(whole[i]) \in Nat
                BY Lengths
            <4>2. j \in 1..c
                BY <1>0, <3>1, <4>1
            <4> QED
                BY <1>1, <2>2, <2>3, <4>2
        <3> QED
            BY <3>1, <3>2
    <2>4. ASSUME whole[i] = Cont
          PROVE  \E k \in 1..3 : /\ k < i /\ k < CodePointLength(p[i - k])
                                 /\ \A j \in 1..(k - 1) : p[i - j] = Cont
        <3>1. PICK k \in 1..3 : /\ k < i /\ k < CodePointLength(whole[i - k])
                                /\ \A j \in 1..(k - 1) : whole[i - j] = Cont
            BY <2>2, <2>4
        <3>2. i - k \in 1..c /\ \A j \in 1..(k - 1) : i - j \in 1..c
            BY <1>0, <3>1
        <3>3. p[i - k] = whole[i - k] /\ \A j \in 1..(k - 1) : p[i - j] = whole[i - j]
            BY <1>1, <3>2
        <3> QED
            BY <3>1, <3>3
    <2> QED
        BY <2>1, <2>2, <2>3, <2>4
<1>3. WellFormed(p)
    BY <1>1, <1>2 DEF WellFormed
<1> QED
    BY <1>3 DEF p

(* What the reader holds back makes its cut one between code points. *)
LEMMA CutBetween ==
    ASSUME sent \in Seq(Bytes), NEW data \in Seq(Bytes), NEW rest \in Seq(Bytes),
           whole = (sent \o data) \o rest, data # <<>>, WellFormed(whole), Ends(Len(sent)),
           NEW len, len = incomplete_utf8_suffix(data),
           NEW c, c = Len(sent) + (Len(data) - len)
    PROVE  c \in 0..Len(whole) /\ Ends(c)
<1> DEFINE s == Len(sent)
           d == Len(data)
<1>1. /\ s \in Nat /\ d \in Nat /\ Len(rest) \in Nat /\ Len(whole) = s + d + Len(rest)
      /\ sent \o data \in Seq(Bytes) /\ Len(sent \o data) = s + d
    BY ConcatProperties, LenProperties
<1>2. ASSUME NEW j \in 1..d PROVE whole[s + j] = data[j]
    <2>1. (sent \o data)[s + j] = data[j]
        <3>1. s + j \in 1..(s + d) /\ ~(s + j <= s) /\ (s + j) - s = j
            BY <1>1
        <3> QED
            BY <3>1, ConcatProperties
    <2>2. whole[s + j] = (sent \o data)[s + j]
        <3>1. s + j \in 1..(s + d) /\ s + j \in 1..(s + d + Len(rest)) /\ s + j <= s + d
            BY <1>1
        <3> QED
            BY <1>1, <3>1, ConcatProperties
    <2> QED
        BY <2>1, <2>2
<1>3. /\ len \in 0..3 /\ len <= d
      /\ len > 0 => len < Expected(data[d - len + 1])
    BY SuffixProperties
<1>4. c \in Nat /\ c <= s + d /\ c >= s /\ c \in 0..Len(whole)
    BY <1>1, <1>3
<1> SUFFICES ASSUME NEW i \in 1..c, whole[i] \in Leads, ~(i + CodePointLength(whole[i]) - 1 <= c)
             PROVE  FALSE
    BY <1>4 DEF Ends
<1> DEFINE n == CodePointLength(whole[i])
<1>5. n \in Nat /\ i + n - 1 > c /\ i \in 1..Len(whole)
    <2>1. n \in 0..4
        BY Lengths
    <2>2. ~(i + n - 1 <= c)
        OBVIOUS
    <2> HIDE DEF n
    <2> QED
        BY <1>1, <1>4, <2>1, <2>2
<1>6. \A j \in (i + 1)..(i + n - 1) : whole[j] = Cont
    BY <1>5 DEF WellFormed, Leads
<1> HIDE DEF n, s, d
<1>7. i > s
    BY <1>1, <1>4, <1>5 DEF Ends, n, s
<1>8. CASE len > 0
    <2>0. Expected(data[d - len + 1]) \in 0..4
        BY Lengths
    <2>1. data[d - len + 1] \in Leads /\ data[d - len + 1] # Cont
        <3>1. Expected(data[d - len + 1]) > 0
            BY <1>3, <1>8, <2>0
        <3> QED
            BY <3>1, Lengths
    <2>2. d - len + 1 \in 1..d /\ s + (d - len + 1) = c + 1
        BY <1>1, <1>3, <1>8 DEF s, d
    <2>3. whole[c + 1] = data[d - len + 1]
        BY <1>2, <2>2
    <2>4. c + 1 \in (i + 1)..(i + n - 1)
        BY <1>4, <1>5
    <2> QED
        BY <1>6, <2>1, <2>3, <2>4
<1>9. CASE len = 0
    <2>1. c = s + d
        BY <1>1, <1>9 DEF s, d
    <2> DEFINE a == i - s
               l == LastStart(data)
    <2>2. a \in 1..d /\ data[a] = whole[i]
        <3>1. a \in 1..d /\ s + a = i
            BY <1>1, <1>4, <1>7, <2>1
        <3> QED
            BY <1>2, <3>1
    <2>3. data[a] \in Leads /\ data[a] # Cont
        BY <2>2, Lengths
    <2>4. ASSUME NEW j \in (a + 1)..d PROVE data[j] = Cont
        <3>1. j \in 1..d /\ s + j \in (i + 1)..(i + n - 1)
            BY <1>1, <1>4, <1>5, <1>7, <2>1, <2>2
        <3> QED
            BY <1>2, <1>6, <3>1
    <2>5. /\ l \in 1..d /\ (l = 1 \/ data[l] # Cont)
          /\ \A j \in (l + 1)..d : data[j] = Cont
        BY LastStartProperties DEF d
    <2> HIDE DEF a, l
    <2>6. l = a
        <3>1. ~(l < a)
            <4> SUFFICES ASSUME l < a PROVE FALSE
                OBVIOUS
            <4>1. a \in (l + 1)..d
                BY <1>1, <2>2, <2>5
            <4> QED
                BY <2>3, <2>5, <4>1
        <3>2. ~(a < l)
            <4> SUFFICES ASSUME a < l PROVE FALSE
                OBVIOUS
            <4>1. l \in (a + 1)..d /\ l # 1
                BY <1>1, <2>2, <2>5
            <4> QED
                BY <2>4, <2>5, <4>1
        <3> QED
            BY <1>1, <2>2, <2>5, <3>1, <3>2
    <2>7. Expected(data[a]) = n
        BY <2>2, <2>3, Lengths DEF n
    <2>8. d - a + 1 < n
        BY <1>1, <1>4, <1>5, <1>7, <2>1 DEF a
    <2>9. len = d - a + 1
        BY <2>6, <2>7, <2>8 DEF incomplete_utf8_suffix, l, d
    <2>10. d - a + 1 > 0
        BY <1>1, <2>2
    <2> QED
        BY <1>9, <2>9, <2>10
<1> QED
    BY <1>3, <1>8, <1>9

(* Every cut so far, and the next one if nothing more is emitted. *)
CutsOK ==
    WellFormed(whole) => \A c \in cuts \cup {Len(sent)} : c \in 0..Len(whole) /\ Ends(c)

LEMMA CutsInit == Init => CutsOK
<1> SUFFICES ASSUME Init PROVE 0 \in 0..Len(whole) /\ Ends(0)
    BY EmptySeq DEF Init, CutsOK
<1>1. Len(whole) \in Nat
    BY InputsAssumption, LenProperties DEF Init
<1> QED
    BY <1>1 DEF Ends

LEMMA CutsNext == Inv /\ CutsOK /\ [Next]_vars => CutsOK'
<1> SUFFICES ASSUME Inv, CutsOK, [Next]_vars PROVE CutsOK'
    OBVIOUS
<1>0. /\ whole \in Seq(Bytes) /\ sent \in Seq(Bytes) /\ input \in Seq(Bytes)
      /\ pending \in Seq(Bytes)
    BY InputsAssumption DEF Inv, TypeOK
<1>1. whole' = whole
    BY DEF Next, ReadChunk, ReadEof, ReadError, Flush, Ended, vars
<1>2. ASSUME WellFormed(whole) =>
                /\ cuts' \subseteq cuts \cup {Len(sent')}
                /\ Len(sent') \in 0..Len(whole) /\ Ends(Len(sent'))
      PROVE  CutsOK'
    BY <1>1, <1>2 DEF CutsOK, Ends
<1>3. CASE UNCHANGED <<sent, cuts>>
    BY <1>1, <1>3 DEF CutsOK, Ends
<1>4. CASE ReadChunk
    <2>1. PICK k \in 1..(BufSize - Len(pending)) :
              /\ k <= Len(input)
              /\ LET data == pending \o SubSeq(input, 1, k)
                     keep == Len(data) - incomplete_utf8_suffix(data)
                 IN  IF keep > 0 THEN EmitPatch(SubSeq(data, 1, keep))
                                 ELSE UNCHANGED <<sent, cuts>>
        BY <1>4 DEF ReadChunk
    <2> DEFINE got  == SubSeq(input, 1, k)
               rest == SubSeq(input, k + 1, Len(input))
               data == pending \o got
               len  == incomplete_utf8_suffix(data)
               keep == Len(data) - len
               out  == SubSeq(data, 1, keep)
    <2>2. pc = "read" /\ input # <<>>
        BY <1>4 DEF ReadChunk
    <2>3. k \in 0..Len(input) /\ k >= 1
        <3>1. Len(pending) \in Nat /\ Len(input) \in Nat
            BY <1>0, LenProperties
        <3> QED
            BY <2>1, <3>1, BufSizeAssumption
    <2>4. got \in Seq(Bytes) /\ rest \in Seq(Bytes) /\ got \o rest = input
        BY <1>0, <2>3, CutInTwo
    <2>5. data \in Seq(Bytes) /\ Len(data) = Len(pending) + Len(got)
        BY <1>0, <2>4, ConcatProperties
    <2>6. whole = (sent \o data) \o rest
        <3>1. sent \o pending \o input = whole
            BY <2>2 DEF Inv, Lossless
        <3>2. sent \o (pending \o got) = (sent \o pending) \o got
            BY <1>0, <2>4, Assoc, ZenonT(30)
        <3>3. sent \o pending \in Seq(Bytes)
            BY <1>0, ConcatProperties
        <3>4. ((sent \o pending) \o got) \o rest = (sent \o pending) \o (got \o rest)
            BY <2>4, <3>3, Assoc, Zenon
        <3> QED
            BY <2>4, <3>1, <3>2, <3>4, Zenon
    <2>7. Len(got) = k
        <3>1. \A i \in 1..k : input[i] \in Bytes
            BY <1>0, <2>3, ElementOfSeq
        <3>2. Len(got) = IF 1 <= k THEN k - 1 + 1 ELSE 0
            BY <2>3, <3>1, SubSeqProperties
        <3> HIDE DEF got
        <3> QED
            BY <2>3, <3>2
    <2>8. data # <<>>
        <3>1. Len(pending) \in Nat
            BY <1>0, LenProperties
        <3> HIDE DEF data
        <3>2. Len(data) # 0
            BY <2>3, <2>5, <2>7, <3>1
        <3> QED
            BY <3>2, EmptySeq
    <2>9. len \in 0..3 /\ len <= Len(data) /\ Len(data) \in Nat
        BY <2>5, SuffixProperties, LenProperties
    <2>10. IF keep > 0 THEN EmitPatch(out) ELSE UNCHANGED <<sent, cuts>>
        BY <2>1
    <2>11. keep > 0 => Len(out) = keep /\ out \in Seq(Bytes)
        <3> SUFFICES ASSUME keep > 0 PROVE Len(out) = keep /\ out \in Seq(Bytes)
            OBVIOUS
        <3> HIDE DEF data, len
        <3>1. keep \in 1..Len(data) /\ keep \in Nat
            BY <2>9
        <3>2. \A i \in 1..keep : data[i] \in Bytes
            BY <2>5, <2>9, <3>1, ElementOfSeq
        <3>3. Len(out) = (IF 1 <= keep THEN keep - 1 + 1 ELSE 0) /\ out \in Seq(Bytes)
            BY <3>1, <3>2, SubSeqProperties
        <3> HIDE DEF keep, out
        <3> QED
            BY <3>1, <3>3
    <2>12. WellFormed(whole) =>
              Len(sent) + keep \in 0..Len(whole) /\ Ends(Len(sent) + keep)
        <3> SUFFICES ASSUME WellFormed(whole)
                     PROVE  Len(sent) + keep \in 0..Len(whole) /\ Ends(Len(sent) + keep)
            OBVIOUS
        <3>1. Ends(Len(sent))
            BY DEF CutsOK
        <3> HIDE DEF data, rest
        <3> QED
            BY <1>0, <2>4, <2>5, <2>6, <2>8, <3>1, CutBetween
    <2> HIDE DEF out, keep, data
    <2>13. CASE keep > 0
        <3>1. sent' = sent \o out /\ cuts' = cuts \cup {Len(sent')}
            BY <2>10, <2>13 DEF EmitPatch
        <3>2. Len(sent') = Len(sent) + keep
            BY <1>0, <2>11, <2>13, <3>1, ConcatProperties
        <3> QED
            BY <1>2, <2>12, <3>1, <3>2
    <2>14. CASE ~(keep > 0)
        BY <1>3, <2>10, <2>14
    <2> QED
        BY <2>13, <2>14
<1>5. CASE Flush
    <2>1. CASE pending = <<>>
        BY <1>3, <1>5, <2>1 DEF Flush
    <2>2. CASE pending # <<>>
        <3>1. sent' = whole' /\ cuts' = cuts \cup {Len(sent')}
            <4>1. Lossless' /\ pc' = "done"
                BY <1>5, InvNext DEF Inv, Flush
            <4> QED
                BY <1>5, <2>2, <4>1 DEF Flush, EmitPatch, Lossless
        <3>2. Len(whole) \in Nat /\ Len(whole) \in 0..Len(whole)
            BY <1>0, LenProperties
        <3>3. WellFormed(whole) => Ends(Len(whole))
            BY DEF WellFormed, Ends, Leads
        <3> QED
            BY <1>1, <1>2, <3>1, <3>2, <3>3
    <2> QED
        BY <2>1, <2>2
<1> QED
    BY <1>3, <1>4, <1>5 DEF Next, ReadEof, ReadError, Ended, vars

(* The renderer is given a stream of whole code points, if Git writes one, *)
(* however read() cuts it.                                                 *)
THEOREM NoCodePointSplit == Spec => []CodePointsWhole
<1>1. Inv /\ CutsOK => CodePointsWhole
    BY PrefixWellFormed, InputsAssumption DEF Inv, TypeOK, CutsOK, CodePointsWhole
<1> QED
    BY <1>1, CutsInit, CutsNext, InvAlways, PTL DEF Spec

=============================================================================
