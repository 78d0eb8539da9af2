----------------------------- MODULE Utf8Capture -----------------------------
(***************************************************************************)
(* The reader of a metadata capture cuts a byte stream into chunks for a   *)
(* renderer that accepts UTF-8: diff_pretty_capture_reader and             *)
(* incomplete_utf8_suffix in diff-pretty.c.  Module DiffPretty has the     *)
(* threads around it.                                                      *)
(*                                                                         *)
(* A byte is abstracted to the class that the code tells apart.            *)
(***************************************************************************)
EXTENDS Naturals, Sequences

CONSTANTS
    Inputs,   \* the byte streams that may come through the pipe
    BufSize   \* sizeof(buffer), 8192 + 3 in the code

Ascii == "00..7f"
Cont  == "80..bf"
Lead2 == "c0..df"
Lead3 == "e0..ef"
Lead4 == "f0..f7"
Other == "f8..ff"
Bytes == {Ascii, Cont, Lead2, Lead3, Lead4, Other}

ASSUME InputsAssumption  == Inputs \subseteq Seq(Bytes)
ASSUME BufSizeAssumption == BufSize \in Nat /\ BufSize > 3

VARIABLES
    whole,    \* everything that is written to the pipe
    input,    \* what of it has not been read yet
    pending,  \* pending[0 .. pending_len - 1]
    sent,     \* the bytes given to diff_pretty_emit_patch
    cuts,     \* the lengths of "sent" after each of those calls
    pc        \* "read", "flush", "done" or "stopped"

vars == <<whole, input, pending, sent, cuts, pc>>

-----------------------------------------------------------------------------
(* Mutant: the mask for three-byte leads is confused with the two-byte one. *)
ExpectedConfused(b) ==
    CASE b \in {Lead2, Lead3} -> 2 [] b = Lead4 -> 4 [] OTHER -> 0

(* How many bytes a code point with this first byte has; 0 where the code  *)
(* gives up.                                                               *)
Expected(b) ==
    CASE b = Lead2 -> 2 [] b = Lead3 -> 3 [] b = Lead4 -> 4 [] OTHER -> 0

(* The backward loop over continuation bytes stops here, at the latest at  *)
(* the first byte.                                                         *)
LastStart(data) ==
    CHOOSE i \in 1..Len(data) :
        /\ i = 1 \/ data[i] # Cont
        /\ \A j \in (i + 1)..Len(data) : data[j] = Cont

(* Mutant: a complete last code point is held back too. *)
CompleteSuffix(data) ==
    IF data = <<>> THEN 0
    ELSE LET len == Len(data) - LastStart(data) + 1
         IN  IF len <= Expected(data[LastStart(data)]) THEN len ELSE 0

(* The length of the truncated code point at the end of data. *)
incomplete_utf8_suffix(data) ==
    IF data = <<>> THEN 0
    ELSE LET len == Len(data) - LastStart(data) + 1
         IN  IF len < Expected(data[LastStart(data)]) THEN len ELSE 0

(* diff_pretty_emit_patch with this chunk. *)
EmitPatch(chunk) ==
    /\ sent' = sent \o chunk
    /\ cuts' = cuts \cup {Len(sent')}

-----------------------------------------------------------------------------
Init ==
    /\ whole \in Inputs
    /\ input = whole
    /\ pending = <<>> /\ sent = <<>> /\ cuts = {}
    /\ pc = "read"

(* One turn of the loop: read() returns between one byte and what fits     *)
(* behind the pending bytes; all but an incomplete suffix is emitted.      *)
ReadChunk ==
    /\ pc = "read" /\ input # <<>>
    /\ \E k \in 1..(BufSize - Len(pending)) :
          /\ k <= Len(input)
          /\ LET data == pending \o SubSeq(input, 1, k)
                 keep == Len(data) - incomplete_utf8_suffix(data)
             IN  /\ input' = SubSeq(input, k + 1, Len(input))
                 /\ pending' = SubSeq(data, keep + 1, Len(data))
                 /\ IF keep > 0 THEN EmitPatch(SubSeq(data, 1, keep))
                                ELSE UNCHANGED <<sent, cuts>>
                 /\ \/ pc' = "read"
                    \/ keep > 0 /\ pc' = "stopped"   \* q, or a failure
    /\ UNCHANGED whole

(* read() returns 0: the writer has closed its end. *)
ReadEof ==
    /\ pc = "read" /\ input = <<>>
    /\ pc' = "flush"
    /\ UNCHANGED <<whole, input, pending, sent, cuts>>

(* read() fails. *)
ReadError ==
    /\ pc = "read"
    /\ pc' = "stopped"
    /\ UNCHANGED <<whole, input, pending, sent, cuts>>

(* Mutant: what is pending at the end of the input is forgotten. *)
FlushNothing ==
    /\ pc = "flush"
    /\ pending' = <<>>
    /\ pc' = "done"
    /\ UNCHANGED <<whole, input, sent, cuts>>

(* The pending bytes are emitted as they are when the input has ended. *)
Flush ==
    /\ pc = "flush"
    /\ IF pending # <<>> THEN EmitPatch(pending) ELSE UNCHANGED <<sent, cuts>>
    /\ pending' = <<>>
    /\ pc' = "done"
    /\ UNCHANGED <<whole, input>>

Ended == pc \in {"done", "stopped"} /\ UNCHANGED vars

Next == ReadChunk \/ ReadEof \/ ReadError \/ Flush \/ Ended

Spec == Init /\ [][Next]_vars

-----------------------------------------------------------------------------
(* Properties. *)

(* Type invariant of the reader's buffers. *)
TypeOK ==
    /\ whole \in Inputs
    /\ input \in Seq(Bytes) /\ pending \in Seq(Bytes) /\ sent \in Seq(Bytes)
    /\ cuts \subseteq Nat
    /\ pc \in {"read", "flush", "done", "stopped"}

(* The reference the code is measured with: how long UTF-8 makes a code    *)
(* point that begins with a byte of this class; 0 where none begins.       *)
CodePointLength(b) ==
    CASE b = Ascii -> 1 [] b = Lead2 -> 2 [] b = Lead3 -> 3 [] b = Lead4 -> 4
      [] OTHER -> 0

(* pending[3] is never overrun, so that read() always has room: what is    *)
(* held back is a first byte and too few continuation bytes.               *)
HeldBack ==
    /\ Len(pending) <= 3
    /\ pending # <<>> =>
          /\ Len(pending) < CodePointLength(pending[1])
          /\ \A i \in 2..Len(pending) : pending[i] = Cont

(* However read() splits the stream, no byte is lost, repeated or moved,   *)
(* and at the end of the input the renderer has been given all of it.      *)
Lossless ==
    /\ pc \in {"read", "flush"} => sent \o pending \o input = whole
    /\ pc = "done" => sent = whole

(* Well-formed UTF-8 by byte classes: a first byte is followed by exactly  *)
(* its continuation bytes.                                                 *)
WellFormed(s) ==
    \A i \in 1..Len(s) :
        /\ s[i] # Other
        /\ s[i] \in {Lead2, Lead3, Lead4} =>
              /\ i + CodePointLength(s[i]) - 1 <= Len(s)
              /\ \A j \in (i + 1)..(i + CodePointLength(s[i]) - 1) : s[j] = Cont
        /\ s[i] = Cont => \E k \in 1..3 : /\ k < i
                                          /\ k < CodePointLength(s[i - k])
                                          /\ \A j \in 1..(k - 1) : s[i - j] = Cont

(* What the comment of incomplete_utf8_suffix asks for: the renderer is    *)
(* never given the first bytes of a code point without the rest.           *)
CodePointsWhole ==
    WellFormed(whole) => \A c \in cuts : WellFormed(SubSeq(whole, 1, c))
=============================================================================
