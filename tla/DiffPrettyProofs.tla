-------------------------- MODULE DiffPrettyProofs --------------------------
(***************************************************************************)
(* Proofs about DiffPretty for every set of commands, every pipe capacity  *)
(* and (where not said otherwise) every set of faults.                     *)
(*                                                                         *)
(* The inductive invariant follows the life of the reader thread: while it *)
(* lives, the main thread is inside the capture (or, when show_log died,   *)
(* on its way out); when it does not, nothing is in flight.  What is in    *)
(* flight is described by positions: the items rendered, in the reader's   *)
(* buffer and in the pipe are consecutive numbers.                         *)
(***************************************************************************)
EXTENDS DiffPretty, TLAPS

(* The reader thread has been started and has not ended. *)
Alive == rpc \in {"read", "read_error", "emit", "push", "close"}

CapturePCs == {"show_log", "fclose_error", "join"}
EndPCs     == {"end", "finish", "page", "abort", "clear"}

(* The main thread is inside the turn of a commit. *)
InCommit ==
    \/ pc \in {"diff", "capture_begin", "events", "push_event", "after_diff",
               "commit_done"} \cup CapturePCs
    \/ pc \in EndPCs /\ ret = "after_diff"

(* The current commit exists, and so does the diff that follows a header. *)
PlaceOK ==
    /\ InCommit => ci <= Len(job.commits)
    /\ pc \in {"capture_begin"} \cup CapturePCs =>
          /\ ret \in {"events", "commit_done"}
          /\ ret = "events" => di <= Len(Commit.diffs)
    /\ pc \in EndPCs => ret \in {"after_diff", "finish_pager", "atexit"}

(* Where the main thread is while the reader lives. *)
ReaderOK ==
    /\ Alive => \/ pc \in CapturePCs /\ stream = "pipe" /\ native_session = "live"
                \/ /\ MayFail("show_log") /\ reported
                   /\ pc \in {"exit", "done"} \cup EndPCs
                   /\ pc \in EndPCs => ret = "atexit"
                   /\ pc = "exit" => native_session = "live"
    /\ (ropen => Alive) /\ (Alive => ropen)
    /\ pipe # <<>> => ropen
    /\ rpc \notin {"emit", "push"} => rbuf = <<>>
    /\ pc \in CapturePCs /\ stream = "pipe" => rpc # "none" /\ native_session = "live"
    /\ pc = "show_log" /\ stream = "pipe" => wopen
    /\ pc = "fclose_error" => stream = "pipe"
    /\ pc \in {"fclose_error", "join"} => ~wopen
    /\ native_capture => stream = "pipe"
    /\ stream = "pipe" => pc \in CapturePCs \cup {"exit", "done", "killed"} \cup EndPCs
    /\ stream = "pipe" /\ pc \in EndPCs => ret = "atexit"

(* A reader that stops does so at the end of its input, or because the     *)
(* route is closed.                                                        *)
StopOK ==
    rpc \in {"close", "done"} => (~wopen /\ pipe = <<>>) \/ ~Accepting

(* The session through diff_pretty_end. *)
SessionOK ==
    /\ native_session = "freed" => pc = "clear"
    /\ pc \in {"end", "finish", "page", "abort"} => native_session = "live"
    /\ pc \in {"clear"} => native_session = "freed"
    /\ pager_in_use => native_session # "NULL"
    /\ pc = "done" => native_session = "NULL"
    /\ pc = "setup" => native_session = "NULL" /\ ~native_failed
    /\ native_quit => native_session # "NULL"
    /\ pc = "push_event" => Accepting
    /\ ~MayFail("show_log") /\ pc \in {"finish", "page"} => Accepting

(* The error of the renderer is printed by the time its session is gone. *)
ErrorOK ==
    native_failed /\ (native_session = "NULL" \/ pc \in EndPCs \ {"end"}) => reported

(* What has been given to the native route is in the renderer, in the      *)
(* reader, or in the pipe, in this order.                                  *)
OrderOK ==
    /\ RenderedInOrder
    /\ Accepting \/ rpc = "push" =>
          \A i \in 1..Len(rbuf) : rbuf[i] = Len(rendered) + i
    /\ Accepting =>
          /\ \A i \in 1..Len(pipe) : pipe[i] = Len(rendered) + Len(rbuf) + i
          /\ written = Len(rendered) + Len(rbuf) + Len(pipe)
                        + (IF pc = "push_event" THEN 1 ELSE 0)
    /\ pc = "setup" =>
          written = 0 /\ rendered = <<>> /\ rpc = "none"

Inv ==
    TypeOK /\ PlaceOK /\ ReaderOK /\ StopOK /\ SessionOK /\ ErrorOK /\ OrderOK

-----------------------------------------------------------------------------
(* What the current commit is made of. *)
LEMMA CommitFacts ==
    ASSUME TypeOK, ci <= Len(job.commits)
    PROVE  /\ Commit.header \in Nat
           /\ Commit.diffs \in Seq(Nat)
           /\ \A i \in Nat \ {0} : i <= Len(Commit.diffs) => Commit.diffs[i] \in Nat
           /\ Commit.combined => Commit.diffs[1] \in Nat
<1>1. job \in JobType /\ ci \in Nat \ {0}
    BY JobsAssumption DEF TypeOK, MainTypeOK
<1>2. job.commits \in Seq(CommitType)
    BY <1>1 DEF JobType
<1>3. Commit \in CommitType
    BY <1>1, <1>2 DEF Commit
<1>4. Commit.header \in Nat /\ Commit.diffs \in Seq(Nat)
      /\ (Commit.combined => Len(Commit.diffs) = 1)
    BY <1>3 DEF CommitType
<1> QED
    BY <1>4

(* The number of symbols of the diff after a header. *)
LEMMA NextCount ==
    ASSUME Inv, pc \in CapturePCs
    PROVE  (IF ret = "events" THEN Commit.diffs[di] ELSE 0) \in Nat
<1>1. ci <= Len(job.commits) /\ (ret = "events" => di <= Len(Commit.diffs))
    BY DEF Inv, PlaceOK, InCommit
<1>2. ret = "events" => Commit.diffs[di] \in Nat
    BY <1>1, CommitFacts DEF Inv, TypeOK, MainTypeOK
<1> QED
    BY <1>2

-----------------------------------------------------------------------------
(* Every step preserves the invariant. *)

LEMMA SetupStep ==
    ASSUME Inv, Setup
    PROVE  Inv'
<1> USE DEF Inv, TypeOK, Setup,
       MainPCs, ReaderPCs, CapturePCs, EndPCs, main, flags, reader, chan,
       output, result, Active, Accepting, Die, MayFail, Alive, Running
<1>1. TypeOK'
    <2>1. MainTypeOK'
        BY DEF MainTypeOK
    <2>2. FlagTypeOK'
        <3>1. native_session' \in {"NULL", "live", "freed"}
              /\ UNCHANGED <<native_quit, native_capture, shown, wopen, ropen>>
            BY DEF FlagTypeOK
        <3>2. native_failed' \in BOOLEAN /\ pager_in_use' \in BOOLEAN
            BY DEF FlagTypeOK
        <3>3. native_command_session' \in BOOLEAN /\ reported' \in BOOLEAN
            BY DEF FlagTypeOK
        <3> QED
            BY <3>1, <3>2, <3>3 DEF FlagTypeOK
    <2>3. ReaderTypeOK'
        BY DEF ReaderTypeOK
    <2>4. OutputTypeOK'
        BY DEF OutputTypeOK
    <2> QED
        BY <2>1, <2>2, <2>3, <2>4 DEF TypeOK
<1>2. PlaceOK'
    BY DEF MainTypeOK, PlaceOK, InCommit, Commit
<1>3. ReaderOK'
    BY DEF MainTypeOK, FlagTypeOK, PlaceOK, ReaderOK, SessionOK
<1>4. StopOK'
    BY DEF FlagTypeOK, ReaderTypeOK, ReaderOK, StopOK, SessionOK, OrderOK
<1>5. SessionOK'
    BY DEF MainTypeOK, FlagTypeOK, SessionOK, ReaderOK, StopOK
<1>6. ErrorOK'
    BY DEF FlagTypeOK, ErrorOK, SessionOK, ReaderOK
<1>7. OrderOK'
    BY DEF FlagTypeOK, ReaderTypeOK, OutputTypeOK, OrderOK, RenderedInOrder,
           ReaderOK, StopOK, SessionOK
<1> QED
    BY <1>1, <1>2, <1>3, <1>4, <1>5, <1>6, <1>7

LEMMA NextCommitStep ==
    ASSUME Inv, NextCommit
    PROVE  Inv'
<1> USE DEF Inv, TypeOK, NextCommit,
       MainPCs, ReaderPCs, CapturePCs, EndPCs, main, flags, reader, chan,
       output, result, Active, Accepting, Die, MayFail, Alive, Running
<1>1. TypeOK'
    <2>1. MainTypeOK'
        BY DEF MainTypeOK
    <2>2. FlagTypeOK'
        BY DEF FlagTypeOK
    <2>3. ReaderTypeOK'
        BY DEF ReaderTypeOK
    <2>4. OutputTypeOK'
        BY DEF OutputTypeOK
    <2> QED
        BY <2>1, <2>2, <2>3, <2>4 DEF TypeOK
<1>2. PlaceOK'
    BY DEF MainTypeOK, PlaceOK, InCommit, Commit
<1>3. ReaderOK'
    BY DEF MainTypeOK, FlagTypeOK, PlaceOK, ReaderOK, SessionOK
<1>4. StopOK'
    BY DEF FlagTypeOK, ReaderTypeOK, ReaderOK, StopOK, SessionOK
<1>5. SessionOK'
    BY DEF MainTypeOK, FlagTypeOK, SessionOK, ReaderOK, StopOK
<1>6. ErrorOK'
    BY DEF FlagTypeOK, ErrorOK, SessionOK, ReaderOK
<1>7. OrderOK'
    BY DEF FlagTypeOK, ReaderTypeOK, OutputTypeOK, OrderOK, RenderedInOrder,
           ReaderOK, StopOK, SessionOK
<1> QED
    BY <1>1, <1>2, <1>3, <1>4, <1>5, <1>6, <1>7

LEMMA CombinedMergeStep ==
    ASSUME Inv, CombinedMerge
    PROVE  Inv'
<1> USE DEF Inv, TypeOK, CombinedMerge,
       MainPCs, ReaderPCs, CapturePCs, EndPCs, main, flags, reader, chan,
       output, result, Active, Accepting, Die, MayFail, Alive, Running
<1>1. TypeOK'
    <2>1. MainTypeOK'
        BY DEF MainTypeOK
    <2>2. FlagTypeOK'
        BY DEF FlagTypeOK
    <2>3. ReaderTypeOK'
        BY DEF ReaderTypeOK
    <2>4. OutputTypeOK'
        <3>1. ci <= Len(job.commits)
            BY DEF PlaceOK, InCommit
        <3>2. Commit.header \in Nat /\ Commit.diffs[1] \in Nat
            BY <3>1, CommitFacts
        <3> QED
            BY <3>2 DEF OutputTypeOK
    <2> QED
        BY <2>1, <2>2, <2>3, <2>4 DEF TypeOK
<1>2. PlaceOK'
    BY DEF MainTypeOK, PlaceOK, InCommit, Commit
<1>3. ReaderOK'
    BY DEF MainTypeOK, FlagTypeOK, PlaceOK, ReaderOK, SessionOK
<1>4. StopOK'
    BY DEF FlagTypeOK, ReaderTypeOK, ReaderOK, StopOK, SessionOK
<1>5. SessionOK'
    BY DEF MainTypeOK, FlagTypeOK, SessionOK, ReaderOK, StopOK
<1>6. ErrorOK'
    BY DEF FlagTypeOK, ErrorOK, SessionOK, ReaderOK
<1>7. OrderOK'
    BY DEF FlagTypeOK, ReaderTypeOK, OutputTypeOK, OrderOK, RenderedInOrder,
           ReaderOK, StopOK, SessionOK
<1> QED
    BY <1>1, <1>2, <1>3, <1>4, <1>5, <1>6, <1>7

LEMMA DiffParentStep ==
    ASSUME Inv, DiffParent
    PROVE  Inv'
<1> USE DEF Inv, TypeOK, DiffParent,
       MainPCs, ReaderPCs, CapturePCs, EndPCs, main, flags, reader, chan,
       output, result, Active, Accepting, Die, MayFail, Alive, Running
<1>1. TypeOK'
    <2>1. MainTypeOK'
        <3>1. ci <= Len(job.commits)
            BY DEF PlaceOK, InCommit
        <3>2. Commit.diffs[di] \in Nat
            BY <3>1, CommitFacts DEF MainTypeOK
        <3> QED
            BY <3>2 DEF MainTypeOK
    <2>2. FlagTypeOK'
        BY DEF FlagTypeOK
    <2>3. ReaderTypeOK'
        BY DEF ReaderTypeOK
    <2>4. OutputTypeOK'
        BY DEF OutputTypeOK
    <2> QED
        BY <2>1, <2>2, <2>3, <2>4 DEF TypeOK
<1>2. PlaceOK'
    BY DEF MainTypeOK, PlaceOK, InCommit, Commit
<1>3. ReaderOK'
    BY DEF MainTypeOK, FlagTypeOK, PlaceOK, ReaderOK, SessionOK
<1>4. StopOK'
    BY DEF FlagTypeOK, ReaderTypeOK, ReaderOK, StopOK, SessionOK
<1>5. SessionOK'
    BY DEF MainTypeOK, FlagTypeOK, SessionOK, ReaderOK, StopOK
<1>6. ErrorOK'
    BY DEF FlagTypeOK, ErrorOK, SessionOK, ReaderOK
<1>7. OrderOK'
    BY DEF FlagTypeOK, ReaderTypeOK, OutputTypeOK, OrderOK, RenderedInOrder,
           ReaderOK, StopOK, SessionOK
<1> QED
    BY <1>1, <1>2, <1>3, <1>4, <1>5, <1>6, <1>7

LEMMA DiffDoneStep ==
    ASSUME Inv, DiffDone
    PROVE  Inv'
<1> USE DEF Inv, TypeOK, DiffDone,
       MainPCs, ReaderPCs, CapturePCs, EndPCs, main, flags, reader, chan,
       output, result, Active, Accepting, Die, MayFail, Alive, Running
<1>1. TypeOK'
    <2>1. MainTypeOK'
        BY DEF MainTypeOK
    <2>2. FlagTypeOK'
        BY DEF FlagTypeOK
    <2>3. ReaderTypeOK'
        BY DEF ReaderTypeOK
    <2>4. OutputTypeOK'
        BY DEF OutputTypeOK
    <2> QED
        BY <2>1, <2>2, <2>3, <2>4 DEF TypeOK
<1>2. PlaceOK'
    BY DEF MainTypeOK, PlaceOK, InCommit, Commit
<1>3. ReaderOK'
    BY DEF MainTypeOK, FlagTypeOK, PlaceOK, ReaderOK, SessionOK
<1>4. StopOK'
    BY DEF FlagTypeOK, ReaderTypeOK, ReaderOK, StopOK, SessionOK
<1>5. SessionOK'
    BY DEF MainTypeOK, FlagTypeOK, SessionOK, ReaderOK, StopOK
<1>6. ErrorOK'
    BY DEF FlagTypeOK, ErrorOK, SessionOK, ReaderOK
<1>7. OrderOK'
    BY DEF FlagTypeOK, ReaderTypeOK, OutputTypeOK, OrderOK, RenderedInOrder,
           ReaderOK, StopOK, SessionOK
<1> QED
    BY <1>1, <1>2, <1>3, <1>4, <1>5, <1>6, <1>7

LEMMA CaptureBeginStep ==
    ASSUME Inv, CaptureBegin
    PROVE  Inv'
<1> USE DEF Inv, TypeOK, CaptureBegin,
       MainPCs, ReaderPCs, CapturePCs, EndPCs, main, flags, reader, chan,
       output, result, Active, Accepting, Die, MayFail, Alive, Running
<1>1. TypeOK'
    <2>1. MainTypeOK'
        <3>1. ci <= Len(job.commits)
            BY DEF PlaceOK, InCommit
        <3>2. Commit.header \in Nat
            BY <3>1, CommitFacts
        <3> QED
            BY <3>2 DEF MainTypeOK
    <2>2. FlagTypeOK'
        <3>1. /\ native_failed' \in {native_failed, TRUE}
              /\ native_capture' \in {native_capture, TRUE}
              /\ reported' \in {reported, TRUE}
              /\ wopen' \in {wopen, TRUE} /\ ropen' \in {ropen, TRUE}
            OBVIOUS
        <3>2. UNCHANGED <<native_session, native_quit, native_command_session,
                          pager_in_use, shown>>
            OBVIOUS
        <3> HIDE DEF CaptureBegin
        <3> QED
            BY <3>1, <3>2, ZenonT(30) DEF FlagTypeOK
    <2>3. ReaderTypeOK'
        <3>1. (rbuf' = <<>> /\ pipe' = <<>>) \/ (rbuf' = rbuf /\ pipe' = pipe)
            OBVIOUS
        <3>2. rpc' \in ReaderPCs /\ reader_status' \in {0, -1}
            BY DEF ReaderTypeOK
        <3>3. CASE rbuf' = <<>> /\ pipe' = <<>>
            BY <3>2, <3>3 DEF ReaderTypeOK
        <3>4. CASE rbuf' = rbuf /\ pipe' = pipe
            BY <3>2, <3>4 DEF ReaderTypeOK
        <3> QED
            BY <3>1, <3>3, <3>4
    <2>4. OutputTypeOK'
        BY DEF OutputTypeOK
    <2> QED
        BY <2>1, <2>2, <2>3, <2>4 DEF TypeOK
<1>2. PlaceOK'
    BY DEF MainTypeOK, PlaceOK, InCommit, Commit
<1>3. ReaderOK'
    BY DEF MainTypeOK, FlagTypeOK, PlaceOK, ReaderOK, SessionOK
<1>4. StopOK'
    BY DEF FlagTypeOK, ReaderTypeOK, ReaderOK, StopOK, SessionOK
<1>5. SessionOK'
    BY DEF MainTypeOK, FlagTypeOK, SessionOK, ReaderOK, StopOK
<1>6. ErrorOK'
    BY DEF FlagTypeOK, ErrorOK, SessionOK, ReaderOK
<1>7. OrderOK'
    BY DEF FlagTypeOK, ReaderTypeOK, OutputTypeOK, OrderOK, RenderedInOrder,
           ReaderOK, StopOK, SessionOK
<1> QED
    BY <1>1, <1>2, <1>3, <1>4, <1>5, <1>6, <1>7

LEMMA ShowLogWriteStep ==
    ASSUME Inv, ShowLogWrite
    PROVE  Inv'
<1> USE DEF Inv, TypeOK, ShowLogWrite,
       MainPCs, ReaderPCs, CapturePCs, EndPCs, main, flags, reader, chan,
       output, result, Active, Accepting, Die, MayFail, Alive, Running
<1>1. TypeOK'
    <2>1. MainTypeOK'
        BY DEF MainTypeOK
    <2>2. FlagTypeOK'
        BY DEF FlagTypeOK
    <2>3. ReaderTypeOK'
        <3>1. (rbuf' = rbuf /\ pipe' = pipe) \/ (rbuf' = rbuf /\ pipe' = Append(pipe, written + 1))
            OBVIOUS
        <3>2. rpc' \in ReaderPCs /\ reader_status' \in {0, -1} /\ written \in Nat
            BY DEF ReaderTypeOK, OutputTypeOK
        <3>3. CASE rbuf' = rbuf /\ pipe' = pipe
            BY <3>2, <3>3 DEF ReaderTypeOK, OutputTypeOK
        <3>4. CASE rbuf' = rbuf /\ pipe' = Append(pipe, written + 1)
            BY <3>2, <3>4 DEF ReaderTypeOK, OutputTypeOK
        <3> QED
            BY <3>1, <3>3, <3>4
    <2>4. OutputTypeOK'
        BY DEF OutputTypeOK
    <2> QED
        BY <2>1, <2>2, <2>3, <2>4 DEF TypeOK
<1>2. PlaceOK'
    BY DEF MainTypeOK, PlaceOK, InCommit, Commit
<1>3. ReaderOK'
    <2>1. /\ pc = "show_log" /\ pc' \in {"show_log", "killed"}
          /\ pc' = "killed" => ~ropen
          /\ UNCHANGED <<ret, stream, native_session, native_capture, rpc, rbuf,
                         wopen, ropen, reported>>
        OBVIOUS
    <2>2. pipe' # <<>> => ropen
        BY DEF ReaderOK
    <2> HIDE DEF ShowLogWrite
    <2> QED
        BY <2>1, <2>2 DEF ReaderOK
<1>4. StopOK'
    BY DEF FlagTypeOK, ReaderTypeOK, ReaderOK, StopOK, SessionOK
<1>5. SessionOK'
    BY DEF MainTypeOK, FlagTypeOK, SessionOK, ReaderOK, StopOK
<1>6. ErrorOK'
    BY DEF FlagTypeOK, ErrorOK, SessionOK, ReaderOK
<1>7. OrderOK'
    <2>1. CASE pipe' = pipe /\ written' = written
        BY <2>1 DEF OrderOK, RenderedInOrder
    <2>2. CASE /\ ropen /\ stream = "pipe" /\ pc' = pc
               /\ written' = written + 1 /\ pipe' = Append(pipe, written + 1)
        <3>1. UNCHANGED <<flags, rpc, rbuf, rendered>>
            OBVIOUS
        <3>2. pc = "show_log"
            OBVIOUS
        <3> HIDE DEF ShowLogWrite
        <3>3. /\ Len(pipe') = Len(pipe) + 1
              /\ \A i \in 1..Len(pipe) : pipe'[i] = pipe[i]
              /\ pipe'[Len(pipe) + 1] = written + 1
            BY <2>2 DEF ReaderTypeOK, OutputTypeOK
        <3>4. Accepting => written' = Len(rendered) + Len(rbuf) + Len(pipe')
            BY <2>2, <3>2, <3>3 DEF OrderOK, ReaderTypeOK, OutputTypeOK
        <3>5. Accepting => \A i \in 1..Len(pipe') :
                              pipe'[i] = Len(rendered) + Len(rbuf) + i
            <4>1. SUFFICES ASSUME Accepting, NEW i \in 1..Len(pipe')
                           PROVE  pipe'[i] = Len(rendered) + Len(rbuf) + i
                OBVIOUS
            <4>2. CASE i \in 1..Len(pipe)
                BY <3>3, <4>1, <4>2 DEF OrderOK
            <4>3. CASE i = Len(pipe) + 1
                BY <2>2, <3>3, <3>4, <4>1, <4>3 DEF ReaderTypeOK, OutputTypeOK
            <4> QED
                BY <3>3, <4>2, <4>3 DEF ReaderTypeOK
        <3> QED
            BY <2>2, <3>1, <3>2, <3>4, <3>5 DEF OrderOK, RenderedInOrder
    <2> QED
        BY <2>1, <2>2
<1> QED
    BY <1>1, <1>2, <1>3, <1>4, <1>5, <1>6, <1>7

LEMMA ShowLogDiesStep ==
    ASSUME Inv, ShowLogDies
    PROVE  Inv'
<1> USE DEF Inv, TypeOK, ShowLogDies,
       MainPCs, ReaderPCs, CapturePCs, EndPCs, main, flags, reader, chan,
       output, result, Active, Accepting, Die, MayFail, Alive, Running
<1>1. TypeOK'
    <2>1. MainTypeOK'
        BY DEF MainTypeOK
    <2>2. FlagTypeOK'
        BY DEF FlagTypeOK
    <2>3. ReaderTypeOK'
        BY DEF ReaderTypeOK
    <2>4. OutputTypeOK'
        BY DEF OutputTypeOK
    <2> QED
        BY <2>1, <2>2, <2>3, <2>4 DEF TypeOK
<1>2. PlaceOK'
    BY DEF MainTypeOK, PlaceOK, InCommit, Commit
<1>3. ReaderOK'
    BY DEF MainTypeOK, FlagTypeOK, PlaceOK, ReaderOK, SessionOK
<1>4. StopOK'
    BY DEF FlagTypeOK, ReaderTypeOK, ReaderOK, StopOK, SessionOK
<1>5. SessionOK'
    BY DEF MainTypeOK, FlagTypeOK, SessionOK, ReaderOK, StopOK
<1>6. ErrorOK'
    BY DEF FlagTypeOK, ErrorOK, SessionOK, ReaderOK
<1>7. OrderOK'
    BY DEF FlagTypeOK, ReaderTypeOK, OutputTypeOK, OrderOK, RenderedInOrder,
           ReaderOK, StopOK, SessionOK
<1> QED
    BY <1>1, <1>2, <1>3, <1>4, <1>5, <1>6, <1>7

LEMMA CaptureCloseStep ==
    ASSUME Inv, CaptureClose
    PROVE  Inv'
<1> USE DEF Inv, TypeOK, CaptureClose,
       MainPCs, ReaderPCs, CapturePCs, EndPCs, main, flags, reader, chan,
       output, result, Active, Accepting, Die, MayFail, Alive, Running
<1>1. TypeOK'
    <2>1. MainTypeOK'
        <3>1. (IF ret = "events" THEN Commit.diffs[di] ELSE 0) \in Nat
            BY NextCount
        <3> QED
            BY <3>1 DEF MainTypeOK, PlaceOK
    <2>2. FlagTypeOK'
        BY DEF FlagTypeOK
    <2>3. ReaderTypeOK'
        BY DEF ReaderTypeOK
    <2>4. OutputTypeOK'
        BY DEF OutputTypeOK
    <2> QED
        BY <2>1, <2>2, <2>3, <2>4 DEF TypeOK
<1>2. PlaceOK'
    BY DEF MainTypeOK, PlaceOK, InCommit, Commit
<1>3. ReaderOK'
    BY DEF MainTypeOK, FlagTypeOK, PlaceOK, ReaderOK, SessionOK
<1>4. StopOK'
    BY DEF FlagTypeOK, ReaderTypeOK, ReaderOK, StopOK, SessionOK
<1>5. SessionOK'
    BY DEF MainTypeOK, FlagTypeOK, SessionOK, ReaderOK, StopOK
<1>6. ErrorOK'
    <2>1. pc' \in {"events", "commit_done", "join", "fclose_error", "exit"}
        BY DEF PlaceOK
    <2>2. native_failed' = native_failed /\ native_session' = native_session
          /\ (reported => reported')
        OBVIOUS
    <2> QED
        BY <2>1, <2>2 DEF ErrorOK
<1>7. OrderOK'
    <2>1. /\ pc' \in {"events", "commit_done", "join", "fclose_error", "exit"}
          /\ pc \in {"show_log", "join"}
        BY DEF PlaceOK
    <2>2. UNCHANGED <<flags, rpc, rbuf, pipe, written, rendered>>
        OBVIOUS
    <2> HIDE DEF CaptureClose
    <2> QED
        BY <2>1, <2>2 DEF OrderOK, RenderedInOrder
<1> QED
    BY <1>1, <1>2, <1>3, <1>4, <1>5, <1>6, <1>7

LEMMA CloseFailedStep ==
    ASSUME Inv, CloseFailed
    PROVE  Inv'
<1> USE DEF Inv, TypeOK, CloseFailed,
       MainPCs, ReaderPCs, CapturePCs, EndPCs, main, flags, reader, chan,
       output, result, Active, Accepting, Die, MayFail, Alive, Running
<1>1. TypeOK'
    <2>1. MainTypeOK'
        BY DEF MainTypeOK
    <2>2. FlagTypeOK'
        BY DEF FlagTypeOK
    <2>3. ReaderTypeOK'
        BY DEF ReaderTypeOK
    <2>4. OutputTypeOK'
        BY DEF OutputTypeOK
    <2> QED
        BY <2>1, <2>2, <2>3, <2>4 DEF TypeOK
<1>2. PlaceOK'
    BY DEF MainTypeOK, PlaceOK, InCommit, Commit
<1>3. ReaderOK'
    BY DEF MainTypeOK, FlagTypeOK, PlaceOK, ReaderOK, SessionOK
<1>4. StopOK'
    BY DEF FlagTypeOK, ReaderTypeOK, ReaderOK, StopOK, SessionOK
<1>5. SessionOK'
    BY DEF MainTypeOK, FlagTypeOK, SessionOK, ReaderOK, StopOK
<1>6. ErrorOK'
    BY DEF FlagTypeOK, ErrorOK, SessionOK, ReaderOK
<1>7. OrderOK'
    BY DEF FlagTypeOK, ReaderTypeOK, OutputTypeOK, OrderOK, RenderedInOrder,
           ReaderOK, StopOK, SessionOK
<1> QED
    BY <1>1, <1>2, <1>3, <1>4, <1>5, <1>6, <1>7

LEMMA CaptureJoinStep ==
    ASSUME Inv, CaptureJoin
    PROVE  Inv'
<1> USE DEF Inv, TypeOK, CaptureJoin, ReaderJoined,
       MainPCs, ReaderPCs, CapturePCs, EndPCs, main, flags, reader, chan,
       output, result, Active, Accepting, Die, MayFail, Alive, Running
<1>1. TypeOK'
    <2>1. MainTypeOK'
        <3>1. (IF ret = "events" THEN Commit.diffs[di] ELSE 0) \in Nat
            BY NextCount
        <3> QED
            BY <3>1 DEF MainTypeOK, PlaceOK
    <2>2. FlagTypeOK'
        BY DEF FlagTypeOK
    <2>3. ReaderTypeOK'
        BY DEF ReaderTypeOK
    <2>4. OutputTypeOK'
        BY DEF OutputTypeOK
    <2> QED
        BY <2>1, <2>2, <2>3, <2>4 DEF TypeOK
<1>2. PlaceOK'
    BY DEF MainTypeOK, PlaceOK, InCommit, Commit
<1>3. ReaderOK'
    BY DEF MainTypeOK, FlagTypeOK, PlaceOK, ReaderOK, SessionOK
<1>4. StopOK'
    BY DEF FlagTypeOK, ReaderTypeOK, ReaderOK, StopOK, SessionOK
<1>5. SessionOK'
    BY DEF MainTypeOK, FlagTypeOK, SessionOK, ReaderOK, StopOK
<1>6. ErrorOK'
    <2>1. pc' \in {"events", "commit_done", "join", "fclose_error", "exit"}
        BY DEF PlaceOK
    <2>2. native_failed' = native_failed /\ native_session' = native_session
          /\ (reported => reported')
        OBVIOUS
    <2> QED
        BY <2>1, <2>2 DEF ErrorOK
<1>7. OrderOK'
    <2>1. /\ pc' \in {"events", "commit_done", "join", "fclose_error", "exit"}
          /\ pc \in {"show_log", "join"}
        BY DEF PlaceOK
    <2>2. UNCHANGED <<flags, rpc, rbuf, pipe, written, rendered>>
        OBVIOUS
    <2> HIDE DEF CaptureJoin
    <2> QED
        BY <2>1, <2>2 DEF OrderOK, RenderedInOrder
<1> QED
    BY <1>1, <1>2, <1>3, <1>4, <1>5, <1>6, <1>7

LEMMA EmitSymbolStep ==
    ASSUME Inv, EmitSymbol
    PROVE  Inv'
<1> USE DEF Inv, TypeOK, EmitSymbol,
       MainPCs, ReaderPCs, CapturePCs, EndPCs, main, flags, reader, chan,
       output, result, Active, Accepting, Die, MayFail, Alive, Running
<1>1. TypeOK'
    <2>1. MainTypeOK'
        BY DEF MainTypeOK
    <2>2. FlagTypeOK'
        BY DEF FlagTypeOK
    <2>3. ReaderTypeOK'
        BY DEF ReaderTypeOK
    <2>4. OutputTypeOK'
        BY DEF OutputTypeOK
    <2> QED
        BY <2>1, <2>2, <2>3, <2>4 DEF TypeOK
<1>2. PlaceOK'
    BY DEF MainTypeOK, PlaceOK, InCommit, Commit
<1>3. ReaderOK'
    BY DEF MainTypeOK, FlagTypeOK, PlaceOK, ReaderOK, SessionOK
<1>4. StopOK'
    BY DEF FlagTypeOK, ReaderTypeOK, ReaderOK, StopOK, SessionOK
<1>5. SessionOK'
    BY DEF MainTypeOK, FlagTypeOK, SessionOK, ReaderOK, StopOK
<1>6. ErrorOK'
    BY DEF FlagTypeOK, ErrorOK, SessionOK, ReaderOK
<1>7. OrderOK'
    BY DEF FlagTypeOK, ReaderTypeOK, OutputTypeOK, OrderOK, RenderedInOrder,
           ReaderOK, StopOK, SessionOK
<1> QED
    BY <1>1, <1>2, <1>3, <1>4, <1>5, <1>6, <1>7

LEMMA PushEventReturnsStep ==
    ASSUME Inv, PushEventReturns
    PROVE  Inv'
<1> USE DEF Inv, TypeOK, PushEventReturns,
       MainPCs, ReaderPCs, CapturePCs, EndPCs, main, flags, reader, chan,
       output, result, Active, Accepting, Die, MayFail, Alive, Running
<1>1. TypeOK'
    <2>1. MainTypeOK'
        BY DEF MainTypeOK
    <2>2. FlagTypeOK'
        BY DEF FlagTypeOK
    <2>3. ReaderTypeOK'
        BY DEF ReaderTypeOK
    <2>4. OutputTypeOK'
        <3>1. rendered' \in Seq(Nat)
            BY DEF OutputTypeOK
        <3> QED
            BY <3>1 DEF OutputTypeOK
    <2> QED
        BY <2>1, <2>2, <2>3, <2>4 DEF TypeOK
<1>2. PlaceOK'
    BY DEF MainTypeOK, PlaceOK, InCommit, Commit
<1>3. ReaderOK'
    BY DEF MainTypeOK, FlagTypeOK, PlaceOK, ReaderOK, SessionOK
<1>4. StopOK'
    BY DEF FlagTypeOK, ReaderTypeOK, ReaderOK, StopOK, SessionOK
<1>5. SessionOK'
    BY DEF MainTypeOK, FlagTypeOK, SessionOK, ReaderOK, StopOK
<1>6. ErrorOK'
    BY DEF FlagTypeOK, ErrorOK, SessionOK, ReaderOK
<1>7. OrderOK'
    <2>1. rbuf = <<>> /\ pipe = <<>> /\ ~Alive /\ Accepting
        BY DEF ReaderOK, SessionOK, ReaderTypeOK
    <2>2. UNCHANGED <<rpc, rbuf, pipe, written, native_session>> /\ pc' = "events"
        OBVIOUS
    <2>3. written = Len(rendered) + 1
        BY <2>1 DEF OrderOK, OutputTypeOK
    <2>4. CASE rendered' = Append(rendered, written)
               /\ UNCHANGED <<native_failed, native_quit>>
        <3> HIDE DEF PushEventReturns
        <3>1. /\ Len(rendered') = Len(rendered) + 1
              /\ \A i \in 1..Len(rendered) : rendered'[i] = rendered[i]
              /\ rendered'[Len(rendered) + 1] = written
            BY <2>4 DEF OutputTypeOK
        <3>2. RenderedInOrder'
            BY <2>3, <3>1 DEF OrderOK, RenderedInOrder, OutputTypeOK
        <3> QED
            BY <2>1, <2>2, <2>3, <3>1, <3>2 DEF OrderOK, OutputTypeOK
    <2>5. CASE rendered' = rendered /\ (native_quit' \/ native_failed')
        BY <2>1, <2>2, <2>5 DEF OrderOK, RenderedInOrder
    <2> QED
        BY <2>4, <2>5
<1> QED
    BY <1>1, <1>2, <1>3, <1>4, <1>5, <1>6, <1>7

LEMMA EventsDoneStep ==
    ASSUME Inv, EventsDone
    PROVE  Inv'
<1> USE DEF Inv, TypeOK, EventsDone,
       MainPCs, ReaderPCs, CapturePCs, EndPCs, main, flags, reader, chan,
       output, result, Active, Accepting, Die, MayFail, Alive, Running
<1>1. TypeOK'
    <2>1. MainTypeOK'
        BY DEF MainTypeOK
    <2>2. FlagTypeOK'
        BY DEF FlagTypeOK
    <2>3. ReaderTypeOK'
        BY DEF ReaderTypeOK
    <2>4. OutputTypeOK'
        BY DEF OutputTypeOK
    <2> QED
        BY <2>1, <2>2, <2>3, <2>4 DEF TypeOK
<1>2. PlaceOK'
    BY DEF MainTypeOK, PlaceOK, InCommit, Commit
<1>3. ReaderOK'
    BY DEF MainTypeOK, FlagTypeOK, PlaceOK, ReaderOK, SessionOK
<1>4. StopOK'
    BY DEF FlagTypeOK, ReaderTypeOK, ReaderOK, StopOK, SessionOK
<1>5. SessionOK'
    BY DEF MainTypeOK, FlagTypeOK, SessionOK, ReaderOK, StopOK
<1>6. ErrorOK'
    BY DEF FlagTypeOK, ErrorOK, SessionOK, ReaderOK
<1>7. OrderOK'
    BY DEF FlagTypeOK, ReaderTypeOK, OutputTypeOK, OrderOK, RenderedInOrder,
           ReaderOK, StopOK, SessionOK
<1> QED
    BY <1>1, <1>2, <1>3, <1>4, <1>5, <1>6, <1>7

LEMMA AfterDiffStep ==
    ASSUME Inv, AfterDiff
    PROVE  Inv'
<1> USE DEF Inv, TypeOK, AfterDiff,
       MainPCs, ReaderPCs, CapturePCs, EndPCs, main, flags, reader, chan,
       output, result, Active, Accepting, Die, MayFail, Alive, Running
<1>1. TypeOK'
    <2>1. MainTypeOK'
        BY DEF MainTypeOK
    <2>2. FlagTypeOK'
        BY DEF FlagTypeOK
    <2>3. ReaderTypeOK'
        BY DEF ReaderTypeOK
    <2>4. OutputTypeOK'
        BY DEF OutputTypeOK
    <2> QED
        BY <2>1, <2>2, <2>3, <2>4 DEF TypeOK
<1>2. PlaceOK'
    BY DEF MainTypeOK, PlaceOK, InCommit, Commit
<1>3. ReaderOK'
    BY DEF MainTypeOK, FlagTypeOK, PlaceOK, ReaderOK, SessionOK
<1>4. StopOK'
    BY DEF FlagTypeOK, ReaderTypeOK, ReaderOK, StopOK, SessionOK
<1>5. SessionOK'
    BY DEF MainTypeOK, FlagTypeOK, SessionOK, ReaderOK, StopOK
<1>6. ErrorOK'
    BY DEF FlagTypeOK, ErrorOK, SessionOK, ReaderOK
<1>7. OrderOK'
    BY DEF FlagTypeOK, ReaderTypeOK, OutputTypeOK, OrderOK, RenderedInOrder,
           ReaderOK, StopOK, SessionOK
<1> QED
    BY <1>1, <1>2, <1>3, <1>4, <1>5, <1>6, <1>7

LEMMA CommitDoneStep ==
    ASSUME Inv, CommitDone
    PROVE  Inv'
<1> USE DEF Inv, TypeOK, CommitDone,
       MainPCs, ReaderPCs, CapturePCs, EndPCs, main, flags, reader, chan,
       output, result, Active, Accepting, Die, MayFail, Alive, Running
<1>1. TypeOK'
    <2>1. MainTypeOK'
        BY DEF MainTypeOK
    <2>2. FlagTypeOK'
        BY DEF FlagTypeOK
    <2>3. ReaderTypeOK'
        BY DEF ReaderTypeOK
    <2>4. OutputTypeOK'
        BY DEF OutputTypeOK
    <2> QED
        BY <2>1, <2>2, <2>3, <2>4 DEF TypeOK
<1>2. PlaceOK'
    BY DEF MainTypeOK, PlaceOK, InCommit, Commit
<1>3. ReaderOK'
    BY DEF MainTypeOK, FlagTypeOK, PlaceOK, ReaderOK, SessionOK
<1>4. StopOK'
    BY DEF FlagTypeOK, ReaderTypeOK, ReaderOK, StopOK, SessionOK
<1>5. SessionOK'
    BY DEF MainTypeOK, FlagTypeOK, SessionOK, ReaderOK, StopOK
<1>6. ErrorOK'
    BY DEF FlagTypeOK, ErrorOK, SessionOK, ReaderOK
<1>7. OrderOK'
    BY DEF FlagTypeOK, ReaderTypeOK, OutputTypeOK, OrderOK, RenderedInOrder,
           ReaderOK, StopOK, SessionOK
<1> QED
    BY <1>1, <1>2, <1>3, <1>4, <1>5, <1>6, <1>7

LEMMA FinishPagerStep ==
    ASSUME Inv, FinishPager
    PROVE  Inv'
<1> USE DEF Inv, TypeOK, FinishPager,
       MainPCs, ReaderPCs, CapturePCs, EndPCs, main, flags, reader, chan,
       output, result, Active, Accepting, Die, MayFail, Alive, Running
<1>1. TypeOK'
    <2>1. MainTypeOK'
        BY DEF MainTypeOK
    <2>2. FlagTypeOK'
        BY DEF FlagTypeOK
    <2>3. ReaderTypeOK'
        BY DEF ReaderTypeOK
    <2>4. OutputTypeOK'
        BY DEF OutputTypeOK
    <2> QED
        BY <2>1, <2>2, <2>3, <2>4 DEF TypeOK
<1>2. PlaceOK'
    BY DEF MainTypeOK, PlaceOK, InCommit, Commit
<1>3. ReaderOK'
    BY DEF MainTypeOK, FlagTypeOK, PlaceOK, ReaderOK, SessionOK
<1>4. StopOK'
    BY DEF FlagTypeOK, ReaderTypeOK, ReaderOK, StopOK, SessionOK
<1>5. SessionOK'
    BY DEF MainTypeOK, FlagTypeOK, SessionOK, ReaderOK, StopOK
<1>6. ErrorOK'
    BY DEF FlagTypeOK, ErrorOK, SessionOK, ReaderOK
<1>7. OrderOK'
    BY DEF FlagTypeOK, ReaderTypeOK, OutputTypeOK, OrderOK, RenderedInOrder,
           ReaderOK, StopOK, SessionOK
<1> QED
    BY <1>1, <1>2, <1>3, <1>4, <1>5, <1>6, <1>7

LEMMA EndStep ==
    ASSUME Inv, End
    PROVE  Inv'
<1> USE DEF Inv, TypeOK, End, DropSession, ErrorPrinted,
       MainPCs, ReaderPCs, CapturePCs, EndPCs, main, flags, reader, chan,
       output, result, Active, Accepting, Die, MayFail, Alive, Running
<1>1. TypeOK'
    <2>1. MainTypeOK'
        BY DEF MainTypeOK
    <2>2. FlagTypeOK'
        BY DEF FlagTypeOK
    <2>3. ReaderTypeOK'
        BY DEF ReaderTypeOK
    <2>4. OutputTypeOK'
        BY DEF OutputTypeOK
    <2> QED
        BY <2>1, <2>2, <2>3, <2>4 DEF TypeOK
<1>2. PlaceOK'
    BY DEF MainTypeOK, PlaceOK, InCommit, Commit
<1>3. ReaderOK'
    BY DEF MainTypeOK, FlagTypeOK, PlaceOK, ReaderOK, SessionOK
<1>4. StopOK'
    BY DEF FlagTypeOK, ReaderTypeOK, ReaderOK, StopOK, SessionOK
<1>5. SessionOK'
    BY DEF MainTypeOK, FlagTypeOK, SessionOK, ReaderOK, StopOK
<1>6. ErrorOK'
    BY DEF FlagTypeOK, ErrorOK, SessionOK, ReaderOK
<1>7. OrderOK'
    BY DEF FlagTypeOK, ReaderTypeOK, OutputTypeOK, OrderOK, RenderedInOrder,
           ReaderOK, StopOK, SessionOK
<1> QED
    BY <1>1, <1>2, <1>3, <1>4, <1>5, <1>6, <1>7

LEMMA FinishReturnsStep ==
    ASSUME Inv, FinishReturns
    PROVE  Inv'
<1> USE DEF Inv, TypeOK, FinishReturns, EndFails,
       MainPCs, ReaderPCs, CapturePCs, EndPCs, main, flags, reader, chan,
       output, result, Active, Accepting, Die, MayFail, Alive, Running
<1>1. TypeOK'
    <2>1. MainTypeOK'
        BY DEF MainTypeOK
    <2>2. FlagTypeOK'
        BY DEF FlagTypeOK
    <2>3. ReaderTypeOK'
        BY DEF ReaderTypeOK
    <2>4. OutputTypeOK'
        BY DEF OutputTypeOK
    <2> QED
        BY <2>1, <2>2, <2>3, <2>4 DEF TypeOK
<1>2. PlaceOK'
    BY DEF MainTypeOK, PlaceOK, InCommit, Commit
<1>3. ReaderOK'
    BY DEF MainTypeOK, FlagTypeOK, PlaceOK, ReaderOK, SessionOK
<1>4. StopOK'
    BY DEF FlagTypeOK, ReaderTypeOK, ReaderOK, StopOK, SessionOK
<1>5. SessionOK'
    BY DEF MainTypeOK, FlagTypeOK, SessionOK, ReaderOK, StopOK
<1>6. ErrorOK'
    BY DEF FlagTypeOK, ErrorOK, SessionOK, ReaderOK
<1>7. OrderOK'
    BY DEF FlagTypeOK, ReaderTypeOK, OutputTypeOK, OrderOK, RenderedInOrder,
           ReaderOK, StopOK, SessionOK
<1> QED
    BY <1>1, <1>2, <1>3, <1>4, <1>5, <1>6, <1>7

LEMMA PageReturnsStep ==
    ASSUME Inv, PageReturns
    PROVE  Inv'
<1> USE DEF Inv, TypeOK, PageReturns, EndFails,
       MainPCs, ReaderPCs, CapturePCs, EndPCs, main, flags, reader, chan,
       output, result, Active, Accepting, Die, MayFail, Alive, Running
<1>1. TypeOK'
    <2>1. MainTypeOK'
        BY DEF MainTypeOK
    <2>2. FlagTypeOK'
        BY DEF FlagTypeOK
    <2>3. ReaderTypeOK'
        BY DEF ReaderTypeOK
    <2>4. OutputTypeOK'
        BY DEF OutputTypeOK
    <2> QED
        BY <2>1, <2>2, <2>3, <2>4 DEF TypeOK
<1>2. PlaceOK'
    BY DEF MainTypeOK, PlaceOK, InCommit, Commit
<1>3. ReaderOK'
    BY DEF MainTypeOK, FlagTypeOK, PlaceOK, ReaderOK, SessionOK
<1>4. StopOK'
    BY DEF FlagTypeOK, ReaderTypeOK, ReaderOK, StopOK, SessionOK
<1>5. SessionOK'
    BY DEF MainTypeOK, FlagTypeOK, SessionOK, ReaderOK, StopOK
<1>6. ErrorOK'
    BY DEF FlagTypeOK, ErrorOK, SessionOK, ReaderOK
<1>7. OrderOK'
    BY DEF FlagTypeOK, ReaderTypeOK, OutputTypeOK, OrderOK, RenderedInOrder,
           ReaderOK, StopOK, SessionOK
<1> QED
    BY <1>1, <1>2, <1>3, <1>4, <1>5, <1>6, <1>7

LEMMA AbortReturnsStep ==
    ASSUME Inv, AbortReturns
    PROVE  Inv'
<1> USE DEF Inv, TypeOK, AbortReturns,
       MainPCs, ReaderPCs, CapturePCs, EndPCs, main, flags, reader, chan,
       output, result, Active, Accepting, Die, MayFail, Alive, Running
<1>1. TypeOK'
    <2>1. MainTypeOK'
        BY DEF MainTypeOK
    <2>2. FlagTypeOK'
        BY DEF FlagTypeOK
    <2>3. ReaderTypeOK'
        BY DEF ReaderTypeOK
    <2>4. OutputTypeOK'
        BY DEF OutputTypeOK
    <2> QED
        BY <2>1, <2>2, <2>3, <2>4 DEF TypeOK
<1>2. PlaceOK'
    BY DEF MainTypeOK, PlaceOK, InCommit, Commit
<1>3. ReaderOK'
    BY DEF MainTypeOK, FlagTypeOK, PlaceOK, ReaderOK, SessionOK
<1>4. StopOK'
    BY DEF FlagTypeOK, ReaderTypeOK, ReaderOK, StopOK, SessionOK
<1>5. SessionOK'
    BY DEF MainTypeOK, FlagTypeOK, SessionOK, ReaderOK, StopOK
<1>6. ErrorOK'
    BY DEF FlagTypeOK, ErrorOK, SessionOK, ReaderOK
<1>7. OrderOK'
    BY DEF FlagTypeOK, ReaderTypeOK, OutputTypeOK, OrderOK, RenderedInOrder,
           ReaderOK, StopOK, SessionOK
<1> QED
    BY <1>1, <1>2, <1>3, <1>4, <1>5, <1>6, <1>7

LEMMA EndReturnsStep ==
    ASSUME Inv, EndReturns
    PROVE  Inv'
<1> USE DEF Inv, TypeOK, EndReturns,
       MainPCs, ReaderPCs, CapturePCs, EndPCs, main, flags, reader, chan,
       output, result, Active, Accepting, Die, MayFail, Alive, Running
<1>1. TypeOK'
    <2>1. MainTypeOK'
        BY DEF MainTypeOK
    <2>2. FlagTypeOK'
        BY DEF FlagTypeOK
    <2>3. ReaderTypeOK'
        BY DEF ReaderTypeOK
    <2>4. OutputTypeOK'
        BY DEF OutputTypeOK
    <2> QED
        BY <2>1, <2>2, <2>3, <2>4 DEF TypeOK
<1>2. PlaceOK'
    BY DEF MainTypeOK, PlaceOK, InCommit, Commit
<1>3. ReaderOK'
    BY DEF MainTypeOK, FlagTypeOK, PlaceOK, ReaderOK, SessionOK
<1>4. StopOK'
    BY DEF FlagTypeOK, ReaderTypeOK, ReaderOK, StopOK, SessionOK
<1>5. SessionOK'
    BY DEF MainTypeOK, FlagTypeOK, SessionOK, ReaderOK, StopOK
<1>6. ErrorOK'
    BY DEF FlagTypeOK, ErrorOK, SessionOK, ReaderOK
<1>7. OrderOK'
    BY DEF FlagTypeOK, ReaderTypeOK, OutputTypeOK, OrderOK, RenderedInOrder,
           ReaderOK, StopOK, SessionOK
<1> QED
    BY <1>1, <1>2, <1>3, <1>4, <1>5, <1>6, <1>7

LEMMA ExitStep ==
    ASSUME Inv, Exit
    PROVE  Inv'
<1> USE DEF Inv, TypeOK, Exit, AtexitEnds,
       MainPCs, ReaderPCs, CapturePCs, EndPCs, main, flags, reader, chan,
       output, result, Active, Accepting, Die, MayFail, Alive, Running
<1>1. TypeOK'
    <2>1. MainTypeOK'
        BY DEF MainTypeOK
    <2>2. FlagTypeOK'
        BY DEF FlagTypeOK
    <2>3. ReaderTypeOK'
        BY DEF ReaderTypeOK
    <2>4. OutputTypeOK'
        BY DEF OutputTypeOK
    <2> QED
        BY <2>1, <2>2, <2>3, <2>4 DEF TypeOK
<1>2. PlaceOK'
    BY DEF MainTypeOK, PlaceOK, InCommit, Commit
<1>3. ReaderOK'
    BY DEF MainTypeOK, FlagTypeOK, PlaceOK, ReaderOK, SessionOK
<1>4. StopOK'
    BY DEF FlagTypeOK, ReaderTypeOK, ReaderOK, StopOK, SessionOK
<1>5. SessionOK'
    BY DEF MainTypeOK, FlagTypeOK, SessionOK, ReaderOK, StopOK
<1>6. ErrorOK'
    BY DEF FlagTypeOK, ErrorOK, SessionOK, ReaderOK
<1>7. OrderOK'
    BY DEF FlagTypeOK, ReaderTypeOK, OutputTypeOK, OrderOK, RenderedInOrder,
           ReaderOK, StopOK, SessionOK
<1> QED
    BY <1>1, <1>2, <1>3, <1>4, <1>5, <1>6, <1>7

LEMMA ReaderReadStep ==
    ASSUME Inv, ReaderRead
    PROVE  Inv'
<1> USE DEF Inv, TypeOK, ReaderRead,
       MainPCs, ReaderPCs, CapturePCs, EndPCs, main, flags, reader, chan,
       output, result, Active, Accepting, Die, MayFail, Alive, Running
<1>1. TypeOK'
    <2>1. MainTypeOK'
        BY DEF MainTypeOK
    <2>2. FlagTypeOK'
        BY DEF FlagTypeOK
    <2>3. ReaderTypeOK'
        BY DEF ReaderTypeOK
    <2>4. OutputTypeOK'
        BY DEF OutputTypeOK
    <2> QED
        BY <2>1, <2>2, <2>3, <2>4 DEF TypeOK
<1>2. PlaceOK'
    BY DEF MainTypeOK, PlaceOK, InCommit, Commit
<1>3. ReaderOK'
    BY DEF MainTypeOK, FlagTypeOK, PlaceOK, ReaderOK, SessionOK
<1>4. StopOK'
    BY DEF FlagTypeOK, ReaderTypeOK, ReaderOK, StopOK, SessionOK
<1>5. SessionOK'
    BY DEF MainTypeOK, FlagTypeOK, SessionOK, ReaderOK, StopOK
<1>6. ErrorOK'
    BY DEF FlagTypeOK, ErrorOK, SessionOK, ReaderOK
<1>7. OrderOK'
    <2>1. PICK k \in 1..Len(pipe) : /\ rbuf' = SubSeq(pipe, 1, k)
                                    /\ pipe' = SubSeq(pipe, k + 1, Len(pipe))
        OBVIOUS
    <2>2. rbuf = <<>> /\ pc' = pc /\ rpc' = "emit"
          /\ UNCHANGED <<flags, written, rendered>>
        BY DEF ReaderOK
    <2>3. pc # "setup" /\ pc # "push_event"
        BY DEF ReaderOK
    <2> HIDE DEF ReaderRead
    <2>4. /\ Len(rbuf') = k /\ Len(pipe') = Len(pipe) - k
          /\ \A i \in 1..k : rbuf'[i] = pipe[i]
          /\ \A i \in 1..(Len(pipe) - k) : pipe'[i] = pipe[k + i]
        BY <2>1 DEF ReaderTypeOK
    <2>5. Accepting => /\ \A i \in 1..Len(pipe) : pipe[i] = Len(rendered) + i
                       /\ written = Len(rendered) + Len(pipe)
        BY <2>2, <2>3 DEF OrderOK, ReaderTypeOK, OutputTypeOK
    <2>6. Accepting => \A i \in 1..Len(rbuf') : rbuf'[i] = Len(rendered) + i
        BY <2>1, <2>4, <2>5 DEF ReaderTypeOK, OutputTypeOK
    <2>7. Accepting => \A i \in 1..Len(pipe') : pipe'[i] = Len(rendered) + Len(rbuf') + i
        BY <2>1, <2>4, <2>5 DEF ReaderTypeOK, OutputTypeOK
    <2>8. Accepting => written = Len(rendered) + Len(rbuf') + Len(pipe')
        <3>1. Len(pipe) \in Nat /\ Len(rendered) \in Nat /\ k \in Nat
            BY DEF ReaderTypeOK, OutputTypeOK
        <3> QED
            BY <2>4, <2>5, <3>1
    <2> QED
        BY <2>2, <2>3, <2>6, <2>7, <2>8 DEF OrderOK, RenderedInOrder
<1> QED
    BY <1>1, <1>2, <1>3, <1>4, <1>5, <1>6, <1>7

LEMMA ReaderEofStep ==
    ASSUME Inv, ReaderEof
    PROVE  Inv'
<1> USE DEF Inv, TypeOK, ReaderEof, AtEof,
       MainPCs, ReaderPCs, CapturePCs, EndPCs, main, flags, reader, chan,
       output, result, Active, Accepting, Die, MayFail, Alive, Running
<1>1. TypeOK'
    <2>1. MainTypeOK'
        BY DEF MainTypeOK
    <2>2. FlagTypeOK'
        BY DEF FlagTypeOK
    <2>3. ReaderTypeOK'
        BY DEF ReaderTypeOK
    <2>4. OutputTypeOK'
        BY DEF OutputTypeOK
    <2> QED
        BY <2>1, <2>2, <2>3, <2>4 DEF TypeOK
<1>2. PlaceOK'
    BY DEF MainTypeOK, PlaceOK, InCommit, Commit
<1>3. ReaderOK'
    BY DEF MainTypeOK, FlagTypeOK, PlaceOK, ReaderOK, SessionOK
<1>4. StopOK'
    BY DEF FlagTypeOK, ReaderTypeOK, ReaderOK, StopOK, SessionOK
<1>5. SessionOK'
    BY DEF MainTypeOK, FlagTypeOK, SessionOK, ReaderOK, StopOK
<1>6. ErrorOK'
    BY DEF FlagTypeOK, ErrorOK, SessionOK, ReaderOK
<1>7. OrderOK'
    BY DEF FlagTypeOK, ReaderTypeOK, OutputTypeOK, OrderOK, RenderedInOrder,
           ReaderOK, StopOK, SessionOK
<1> QED
    BY <1>1, <1>2, <1>3, <1>4, <1>5, <1>6, <1>7

LEMMA ReaderReadFailsStep ==
    ASSUME Inv, ReaderReadFails
    PROVE  Inv'
<1> USE DEF Inv, TypeOK, ReaderReadFails,
       MainPCs, ReaderPCs, CapturePCs, EndPCs, main, flags, reader, chan,
       output, result, Active, Accepting, Die, MayFail, Alive, Running
<1>1. TypeOK'
    <2>1. MainTypeOK'
        BY DEF MainTypeOK
    <2>2. FlagTypeOK'
        BY DEF FlagTypeOK
    <2>3. ReaderTypeOK'
        BY DEF ReaderTypeOK
    <2>4. OutputTypeOK'
        BY DEF OutputTypeOK
    <2> QED
        BY <2>1, <2>2, <2>3, <2>4 DEF TypeOK
<1>2. PlaceOK'
    BY DEF MainTypeOK, PlaceOK, InCommit, Commit
<1>3. ReaderOK'
    BY DEF MainTypeOK, FlagTypeOK, PlaceOK, ReaderOK, SessionOK
<1>4. StopOK'
    BY DEF FlagTypeOK, ReaderTypeOK, ReaderOK, StopOK, SessionOK
<1>5. SessionOK'
    BY DEF MainTypeOK, FlagTypeOK, SessionOK, ReaderOK, StopOK
<1>6. ErrorOK'
    BY DEF FlagTypeOK, ErrorOK, SessionOK, ReaderOK
<1>7. OrderOK'
    BY DEF FlagTypeOK, ReaderTypeOK, OutputTypeOK, OrderOK, RenderedInOrder,
           ReaderOK, StopOK, SessionOK
<1> QED
    BY <1>1, <1>2, <1>3, <1>4, <1>5, <1>6, <1>7

LEMMA ReaderRemembersStep ==
    ASSUME Inv, ReaderRemembers
    PROVE  Inv'
<1> USE DEF Inv, TypeOK, ReaderRemembers,
       MainPCs, ReaderPCs, CapturePCs, EndPCs, main, flags, reader, chan,
       output, result, Active, Accepting, Die, MayFail, Alive, Running
<1>1. TypeOK'
    <2>1. MainTypeOK'
        BY DEF MainTypeOK
    <2>2. FlagTypeOK'
        BY DEF FlagTypeOK
    <2>3. ReaderTypeOK'
        BY DEF ReaderTypeOK
    <2>4. OutputTypeOK'
        BY DEF OutputTypeOK
    <2> QED
        BY <2>1, <2>2, <2>3, <2>4 DEF TypeOK
<1>2. PlaceOK'
    BY DEF MainTypeOK, PlaceOK, InCommit, Commit
<1>3. ReaderOK'
    BY DEF MainTypeOK, FlagTypeOK, PlaceOK, ReaderOK, SessionOK
<1>4. StopOK'
    BY DEF FlagTypeOK, ReaderTypeOK, ReaderOK, StopOK, SessionOK
<1>5. SessionOK'
    BY DEF MainTypeOK, FlagTypeOK, SessionOK, ReaderOK, StopOK
<1>6. ErrorOK'
    BY DEF FlagTypeOK, ErrorOK, SessionOK, ReaderOK
<1>7. OrderOK'
    BY DEF FlagTypeOK, ReaderTypeOK, OutputTypeOK, OrderOK, RenderedInOrder,
           ReaderOK, StopOK, SessionOK
<1> QED
    BY <1>1, <1>2, <1>3, <1>4, <1>5, <1>6, <1>7

LEMMA ReaderEmitStep ==
    ASSUME Inv, ReaderEmit
    PROVE  Inv'
<1> USE DEF Inv, TypeOK, ReaderEmit,
       MainPCs, ReaderPCs, CapturePCs, EndPCs, main, flags, reader, chan,
       output, result, Active, Accepting, Die, MayFail, Alive, Running
<1>1. TypeOK'
    <2>1. MainTypeOK'
        BY DEF MainTypeOK
    <2>2. FlagTypeOK'
        BY DEF FlagTypeOK
    <2>3. ReaderTypeOK'
        <3>1. (rbuf' = <<>> /\ pipe' = pipe) \/ (rbuf' = rbuf /\ pipe' = pipe)
            OBVIOUS
        <3>2. rpc' \in ReaderPCs /\ reader_status' \in {0, -1}
            BY DEF ReaderTypeOK
        <3>3. CASE rbuf' = <<>> /\ pipe' = pipe
            BY <3>2, <3>3 DEF ReaderTypeOK
        <3>4. CASE rbuf' = rbuf /\ pipe' = pipe
            BY <3>2, <3>4 DEF ReaderTypeOK
        <3> QED
            BY <3>1, <3>3, <3>4
    <2>4. OutputTypeOK'
        BY DEF OutputTypeOK
    <2> QED
        BY <2>1, <2>2, <2>3, <2>4 DEF TypeOK
<1>2. PlaceOK'
    BY DEF MainTypeOK, PlaceOK, InCommit, Commit
<1>3. ReaderOK'
    BY DEF MainTypeOK, FlagTypeOK, PlaceOK, ReaderOK, SessionOK
<1>4. StopOK'
    BY DEF FlagTypeOK, ReaderTypeOK, ReaderOK, StopOK, SessionOK
<1>5. SessionOK'
    BY DEF MainTypeOK, FlagTypeOK, SessionOK, ReaderOK, StopOK
<1>6. ErrorOK'
    BY DEF FlagTypeOK, ErrorOK, SessionOK, ReaderOK
<1>7. OrderOK'
    BY ZenonT(30) DEF FlagTypeOK, ReaderTypeOK, OutputTypeOK, OrderOK, RenderedInOrder,
           ReaderOK, StopOK, SessionOK
<1> QED
    BY <1>1, <1>2, <1>3, <1>4, <1>5, <1>6, <1>7

LEMMA ReaderPushReturnsStep ==
    ASSUME Inv, ReaderPushReturns
    PROVE  Inv'
<1> USE DEF Inv, TypeOK, ReaderPushReturns,
       MainPCs, ReaderPCs, CapturePCs, EndPCs, main, flags, reader, chan,
       output, result, Active, Accepting, Die, MayFail, Alive, Running
<1>1. TypeOK'
    <2>1. MainTypeOK'
        BY DEF MainTypeOK
    <2>2. FlagTypeOK'
        BY DEF FlagTypeOK
    <2>3. ReaderTypeOK'
        <3>1. (rbuf' = <<>> /\ pipe' = pipe)
            OBVIOUS
        <3>2. rpc' \in ReaderPCs /\ reader_status' \in {0, -1}
            BY DEF ReaderTypeOK
        <3>3. CASE rbuf' = <<>> /\ pipe' = pipe
            BY <3>2, <3>3 DEF ReaderTypeOK
        <3> QED
            BY <3>1, <3>3
    <2>4. OutputTypeOK'
        <3>1. (rendered' = rendered \o rbuf) \/ (rendered' = rendered)
            OBVIOUS
        <3>2. rbuf \in Seq(Nat)
            BY DEF ReaderTypeOK
        <3>3. CASE rendered' = rendered \o rbuf
            BY <3>2, <3>3 DEF OutputTypeOK, ReaderTypeOK
        <3>4. CASE rendered' = rendered
            BY <3>2, <3>4 DEF OutputTypeOK, ReaderTypeOK
        <3> QED
            BY <3>1, <3>3, <3>4
    <2> QED
        BY <2>1, <2>2, <2>3, <2>4 DEF TypeOK
<1>2. PlaceOK'
    BY DEF MainTypeOK, PlaceOK, InCommit, Commit
<1>3. ReaderOK'
    BY DEF MainTypeOK, FlagTypeOK, PlaceOK, ReaderOK, SessionOK
<1>4. StopOK'
    BY DEF FlagTypeOK, ReaderTypeOK, ReaderOK, StopOK, SessionOK
<1>5. SessionOK'
    <2>1. pc \notin {"push_event", "setup", "done"}
          /\ (~MayFail("show_log") => pc \in CapturePCs)
        BY DEF ReaderOK
    <2>2. native_session # "NULL"
        BY <2>1 DEF ReaderOK, SessionOK
    <2> QED
        BY <2>1, <2>2 DEF FlagTypeOK, SessionOK
<1>6. ErrorOK'
    BY DEF FlagTypeOK, ErrorOK, SessionOK, ReaderOK
<1>7. OrderOK'
    <2>1. /\ rbuf' = <<>> /\ rpc' \in {"read", "close"} /\ pc' = pc
          /\ UNCHANGED <<native_session, pipe, written>>
        OBVIOUS
    <2>2. pc # "setup" /\ pc # "push_event"
        BY DEF ReaderOK
    <2>3. \A i \in 1..Len(rbuf) : rbuf[i] = Len(rendered) + i
        BY DEF OrderOK
    <2>4. CASE rendered' = rendered \o rbuf /\ UNCHANGED <<native_failed, native_quit>>
        <3> HIDE DEF ReaderPushReturns
        <3>1. /\ Len(rendered') = Len(rendered) + Len(rbuf)
              /\ \A i \in 1..Len(rendered) : rendered'[i] = rendered[i]
              /\ \A i \in 1..Len(rbuf) : rendered'[Len(rendered) + i] = rbuf[i]
            BY <2>4 DEF ReaderTypeOK, OutputTypeOK
        <3>2. RenderedInOrder'
            <4>1. SUFFICES ASSUME NEW i \in 1..Len(rendered') PROVE rendered'[i] = i
                BY DEF RenderedInOrder
            <4>2. CASE i <= Len(rendered)
                BY <3>1, <4>2 DEF OrderOK, RenderedInOrder, OutputTypeOK
            <4>3. CASE i > Len(rendered)
                <5>1. i - Len(rendered) \in 1..Len(rbuf)
                    BY <3>1, <4>3 DEF ReaderTypeOK, OutputTypeOK
                <5>2. rendered'[Len(rendered) + (i - Len(rendered))]
                        = Len(rendered) + (i - Len(rendered))
                    BY <2>3, <3>1, <5>1
                <5> QED
                    BY <5>2 DEF OutputTypeOK
            <4> QED
                BY <3>1, <4>2, <4>3 DEF ReaderTypeOK, OutputTypeOK
        <3>3. Accepting => /\ \A i \in 1..Len(pipe) : pipe[i] = Len(rendered') + i
                           /\ written = Len(rendered') + Len(pipe)
            BY <2>2, <3>1 DEF OrderOK, ReaderTypeOK, OutputTypeOK
        <3> QED
            BY <2>1, <2>2, <2>4, <3>2, <3>3 DEF OrderOK, ReaderTypeOK, OutputTypeOK
    <2>5. CASE rendered' = rendered /\ (native_quit' \/ native_failed')
        BY <2>1, <2>2, <2>5 DEF OrderOK, RenderedInOrder
    <2> QED
        BY <2>4, <2>5
<1> QED
    BY <1>1, <1>2, <1>3, <1>4, <1>5, <1>6, <1>7

LEMMA ReaderCloseStep ==
    ASSUME Inv, ReaderClose
    PROVE  Inv'
<1> USE DEF Inv, TypeOK, ReaderClose,
       MainPCs, ReaderPCs, CapturePCs, EndPCs, main, flags, reader, chan,
       output, result, Active, Accepting, Die, MayFail, Alive, Running
<1>1. TypeOK'
    <2>1. MainTypeOK'
        BY DEF MainTypeOK
    <2>2. FlagTypeOK'
        BY DEF FlagTypeOK
    <2>3. ReaderTypeOK'
        <3>1. (rbuf' = rbuf /\ pipe' = <<>>)
            OBVIOUS
        <3>2. rpc' \in ReaderPCs /\ reader_status' \in {0, -1}
            BY DEF ReaderTypeOK
        <3>3. CASE rbuf' = rbuf /\ pipe' = <<>>
            BY <3>2, <3>3 DEF ReaderTypeOK
        <3> QED
            BY <3>1, <3>3
    <2>4. OutputTypeOK'
        BY DEF OutputTypeOK
    <2> QED
        BY <2>1, <2>2, <2>3, <2>4 DEF TypeOK
<1>2. PlaceOK'
    BY DEF MainTypeOK, PlaceOK, InCommit, Commit
<1>3. ReaderOK'
    BY DEF MainTypeOK, FlagTypeOK, PlaceOK, ReaderOK, SessionOK
<1>4. StopOK'
    BY DEF FlagTypeOK, ReaderTypeOK, ReaderOK, StopOK, SessionOK
<1>5. SessionOK'
    BY DEF MainTypeOK, FlagTypeOK, SessionOK, ReaderOK, StopOK
<1>6. ErrorOK'
    BY DEF FlagTypeOK, ErrorOK, SessionOK, ReaderOK
<1>7. OrderOK'
    BY DEF FlagTypeOK, ReaderTypeOK, OutputTypeOK, OrderOK, RenderedInOrder,
           ReaderOK, StopOK, SessionOK
<1> QED
    BY <1>1, <1>2, <1>3, <1>4, <1>5, <1>6, <1>7

LEMMA InvInit == Init => Inv
<1> SUFFICES ASSUME Init PROVE Inv
    OBVIOUS
<1> USE DEF Init, MainPCs, ReaderPCs, CapturePCs, EndPCs, Alive, Accepting, Active
<1>1. MainTypeOK
    BY DEF MainTypeOK
<1>2. FlagTypeOK
    BY DEF FlagTypeOK
<1>3. ReaderTypeOK
    BY DEF ReaderTypeOK
<1>4. OutputTypeOK
    BY DEF OutputTypeOK
<1>5. PlaceOK
    BY DEF PlaceOK, InCommit
<1>6. ReaderOK /\ StopOK
    BY DEF ReaderOK, StopOK
<1>7. SessionOK /\ ErrorOK
    BY DEF SessionOK, ErrorOK
<1>8. OrderOK
    BY DEF OrderOK, RenderedInOrder
<1> QED
    BY <1>1, <1>2, <1>3, <1>4, <1>5, <1>6, <1>7, <1>8 DEF Inv, TypeOK

LEMMA StutterStep == Inv /\ UNCHANGED vars => Inv'
<1> SUFFICES ASSUME Inv, UNCHANGED vars PROVE Inv'
    OBVIOUS
<1> USE DEF Inv, vars, main, flags, reader, chan, output, result
<1>1. TypeOK'
    BY DEF TypeOK, MainTypeOK, FlagTypeOK, ReaderTypeOK, OutputTypeOK
<1>2. PlaceOK'
    BY DEF PlaceOK, InCommit, Commit
<1>3. ReaderOK' /\ StopOK'
    BY DEF MayFail, ReaderOK, StopOK, Alive, Accepting, Active
<1>4. SessionOK' /\ ErrorOK'
    BY DEF MayFail, SessionOK, ErrorOK, Accepting, Active
<1>5. OrderOK'
    BY DEF OrderOK, RenderedInOrder, Accepting, Active
<1> QED
    BY <1>1, <1>2, <1>3, <1>4, <1>5

LEMMA InvNext == Inv /\ [Next]_vars => Inv'
<1> SUFFICES ASSUME Inv, [Next]_vars PROVE Inv'
    OBVIOUS
<1>1. CASE UNCHANGED vars
    BY <1>1, StutterStep
<1>2. CASE Main
    BY <1>2, SetupStep, NextCommitStep, CombinedMergeStep, DiffParentStep,
       DiffDoneStep, CaptureBeginStep, ShowLogWriteStep, ShowLogDiesStep,
       CaptureCloseStep, CloseFailedStep, CaptureJoinStep, EmitSymbolStep,
       PushEventReturnsStep, EventsDoneStep, AfterDiffStep, CommitDoneStep,
       FinishPagerStep, EndStep, FinishReturnsStep, PageReturnsStep,
       AbortReturnsStep, EndReturnsStep, ExitStep DEF Main, MainRuns
<1>3. CASE Reader
    BY <1>3, ReaderReadStep, ReaderEofStep, ReaderReadFailsStep,
       ReaderRemembersStep, ReaderEmitStep, ReaderPushReturnsStep,
       ReaderCloseStep DEF Reader, ReaderRuns
<1>4. CASE Terminated
    BY <1>4, StutterStep DEF Terminated
<1> QED
    BY <1>1, <1>2, <1>3, <1>4 DEF Next

LEMMA InvAlways == Spec => []Inv
<1>1. Inv /\ [Next]_vars => Inv'
    BY InvNext
<1> QED
    BY InvInit, <1>1, PTL DEF Spec

-----------------------------------------------------------------------------
(* The theorems. *)

(* Type correctness of the pager's state, whatever fails. *)
THEOREM TypeCorrect == Spec => []TypeOK
BY InvAlways, PTL DEF Inv

(* The renderer gets the items in the order Git produced them and without  *)
(* a gap, whatever fails and whenever the user quits.                      *)
THEOREM RenderingInOrder == Spec => []RenderedInOrder
BY InvAlways, PTL DEF Inv, OrderOK

(* diff_pretty_atexit frees the session on every way out of the process. *)
THEOREM SessionIsReleased == Spec => []SessionReleased
<1>1. Inv => SessionReleased
    BY DEF Inv, SessionOK, SessionReleased
<1> QED
    BY <1>1, InvAlways, PTL

(* A failure of the renderer is reported before the process ends. *)
THEOREM FailuresAreReported == Spec => []FailureReported
<1>1. Inv => FailureReported
    BY DEF Inv, SessionOK, ErrorOK, FailureReported
<1> QED
    BY <1>1, InvAlways, PTL

(* Unless show_log dies or the pipe's writing end cannot be closed, the    *)
(* two threads never meet in the renderer and the reader finds the session *)
(* alive.                                                                  *)
THEOREM FfiCallsExclude == Spec => []FfiExclusive
<1> DEFINE ClosedWell == MayFail("fclose") \/ pc # "fclose_error"
<1>1. Init => ClosedWell
    BY DEF Init
<1>2. Inv /\ ClosedWell /\ [Next]_vars => ClosedWell'
    <2> SUFFICES ASSUME Inv, ClosedWell, [Next]_vars
                 PROVE  ClosedWell'
        OBVIOUS
    <2>1. CASE UNCHANGED vars
        BY <2>1 DEF vars, MayFail
    <2>2. CASE Main
        BY <2>2 DEF Main, MainRuns, Setup, NextCommit, CombinedMerge, DiffParent,
           DiffDone, CaptureBegin, ShowLogWrite, ShowLogDies, CaptureClose,
           CloseFailed, CaptureJoin, EmitSymbol, PushEventReturns,
           EventsDone, AfterDiff, CommitDone, FinishPager, End,
           FinishReturns, PageReturns, AbortReturns, EndReturns, Exit,
           EndFails, Die, MayFail, Inv, TypeOK, MainTypeOK
    <2>3. CASE Reader
        BY <2>3 DEF Reader, ReaderRuns, ReaderRead, ReaderEof, ReaderReadFails,
           ReaderRemembers, ReaderEmit, ReaderPushReturns, ReaderClose, MayFail
    <2>4. CASE Terminated
        BY <2>4 DEF Terminated, vars, MayFail
    <2> QED
        BY <2>1, <2>2, <2>3, <2>4 DEF Next
<1>3. Inv /\ ClosedWell => FfiExclusive
    BY DEF Inv, ReaderOK, FfiExclusive, ReaderInFfi, MainInFfi, Running, Alive,
       CapturePCs
<1> QED
    BY <1>1, <1>2, <1>3, InvAlways, PTL DEF Spec

(* Unless show_log dies, the pager opens on a complete rendering.          *)
THEOREM PagerShowsEverything == Spec => []PagedComplete
<1>1. Inv => PagedComplete
    <2> SUFFICES ASSUME Inv, ~MayFail("show_log"), pc = "page"
                 PROVE  Len(rendered) = written /\ pipe = <<>> /\ rbuf = <<>>
        BY DEF PagedComplete
    <2>1. Accepting
        BY DEF Inv, SessionOK
    <2>2. ~Alive
        BY DEF Inv, ReaderOK, CapturePCs
    <2>3. pipe = <<>> /\ rbuf = <<>>
        BY <2>2 DEF Inv, ReaderOK, Alive
    <2>4. written = Len(rendered)
        BY <2>1, <2>3 DEF Inv, OrderOK, TypeOK, OutputTypeOK
    <2> QED
        BY <2>3, <2>4
<1> QED
    BY <1>1, InvAlways, PTL

(* SIGPIPE kills Git only after the user quit or the rendering failed. *)
THEOREM OnlyQuitOrFailureKills == Spec => []KilledOnlyAfterReaderStopped
<1>1. Init => KilledOnlyAfterReaderStopped
    BY DEF Init, KilledOnlyAfterReaderStopped
<1>2. Inv /\ KilledOnlyAfterReaderStopped /\ [Next]_vars
        => KilledOnlyAfterReaderStopped'
    <2> SUFFICES ASSUME Inv, KilledOnlyAfterReaderStopped, [Next]_vars,
                        pc' = "killed"
                 PROVE  native_quit' \/ native_failed'
        BY DEF KilledOnlyAfterReaderStopped
    <2>1. CASE UNCHANGED vars
        BY <2>1 DEF KilledOnlyAfterReaderStopped, vars, flags
    <2>2. CASE pc = "killed" /\ Next
        BY <2>2 DEF KilledOnlyAfterReaderStopped, Next, Terminated, Running,
           vars, flags, Main, MainRuns, Setup, NextCommit, CombinedMerge, DiffParent,
           DiffDone, CaptureBegin, ShowLogWrite, ShowLogDies, CaptureClose,
           CloseFailed, CaptureJoin, EmitSymbol, PushEventReturns, EventsDone,
           AfterDiff, CommitDone, FinishPager, End, FinishReturns, PageReturns,
           AbortReturns, EndReturns, Exit, Reader, ReaderRuns, ReaderRead, ReaderEof,
           ReaderReadFails, ReaderRemembers, ReaderEmit, ReaderPushReturns,
           ReaderClose
    <2>3. CASE pc # "killed" /\ ShowLogWrite
        <3>1. /\ pc = "show_log" /\ stream = "pipe" /\ ~ropen
              /\ native_quit' = native_quit /\ native_failed' = native_failed
            BY <2>3 DEF ShowLogWrite, flags
        <3>2. rpc = "done" /\ wopen /\ native_session = "live"
            BY <3>1 DEF Inv, ReaderOK, TypeOK, ReaderTypeOK, ReaderPCs, Alive,
               CapturePCs
        <3> QED
            BY <3>1, <3>2 DEF Inv, StopOK, Accepting, Active
    <2>4. CASE pc # "killed" /\ Next /\ ~ShowLogWrite
        <3>1. CASE Main
            BY <2>4, <3>1 DEF Main, MainRuns, Setup, NextCommit, CombinedMerge, DiffParent,
               DiffDone, CaptureBegin, ShowLogDies, CaptureClose, CloseFailed,
               CaptureJoin, EmitSymbol, PushEventReturns, EventsDone, AfterDiff,
               CommitDone, FinishPager, End, FinishReturns, PageReturns,
               AbortReturns, EndReturns, Exit, EndFails, Die, Inv, TypeOK,
               MainTypeOK
        <3>2. CASE Reader \/ Terminated
            BY <2>4, <3>2 DEF Reader, ReaderRuns, ReaderRead, ReaderEof, ReaderReadFails,
               ReaderRemembers, ReaderEmit, ReaderPushReturns, ReaderClose,
               Terminated, vars
        <3> QED
            BY <2>4, <3>1, <3>2 DEF Next
    <2> QED
        BY <2>1, <2>2, <2>3, <2>4
<1> QED
    BY <1>1, <1>2, InvAlways, PTL DEF Spec

-----------------------------------------------------------------------------
(* What q means for the two threads: the reader does not push after it,    *)
(* and q and a failure do not both outlive the capture they happen in.     *)
QuitOK ==
    /\ rpc = "push" => ~native_quit
    /\ native_quit /\ native_failed =>
          stream = "pipe" \/ pc \in EndPCs \cup {"exit", "done"}
    /\ pc = "fclose_error" => status = -1
    /\ pc \in CapturePCs /\ stream = "pipe" /\ native_failed /\ rpc = "done" =>
          (status = -1 /\ pc # "show_log") \/ reader_status = -1

LEMMA QuitMain ==
    ASSUME Inv, QuitOK, Main
    PROVE  QuitOK'
<1> USE DEF Inv, QuitOK, ReaderOK, SessionOK, CapturePCs, EndPCs, Alive, Active, Accepting,
            main, flags, reader, chan, output, result, Die
<1>1. CASE Setup
    BY <1>1 DEF Setup, OrderOK
<1>2. CASE NextCommit \/ CombinedMerge \/ DiffParent \/ DiffDone
    BY <1>2 DEF NextCommit, CombinedMerge, DiffParent, DiffDone
<1>3. CASE CaptureBegin
    BY <1>3 DEF CaptureBegin
<1>4. CASE ShowLogWrite \/ ShowLogDies
    BY <1>4 DEF ShowLogWrite, ShowLogDies
<1>5. CASE CaptureClose \/ CloseFailed
    BY <1>5 DEF CaptureClose, CloseFailed, PlaceOK
<1>6. CASE CaptureJoin
    BY <1>6 DEF CaptureJoin, ReaderJoined, PlaceOK
<1>7. CASE EmitSymbol \/ EventsDone \/ AfterDiff \/ CommitDone \/ FinishPager
    BY <1>7 DEF EmitSymbol, EventsDone, AfterDiff, CommitDone, FinishPager
<1>8. CASE PushEventReturns
    BY <1>8 DEF PushEventReturns
<1>9. CASE End \/ FinishReturns \/ PageReturns \/ AbortReturns
    BY <1>9 DEF End, FinishReturns, PageReturns, AbortReturns, EndFails
<1>10. CASE EndReturns \/ Exit
    BY <1>10 DEF EndReturns, Exit
<1> QED
    BY <1>1, <1>2, <1>3, <1>4, <1>5, <1>6, <1>7, <1>8, <1>9, <1>10 DEF Main, MainRuns

LEMMA QuitReader ==
    ASSUME Inv, QuitOK, Reader
    PROVE  QuitOK'
BY DEF Inv, QuitOK, ReaderOK, CapturePCs, EndPCs, Alive, Active, Accepting,
       main, flags, reader, chan, output, result, Reader, ReaderRuns, ReaderRead, ReaderEof,
       ReaderReadFails, ReaderRemembers, ReaderEmit, ReaderPushReturns, ReaderClose, Running

LEMMA QuitAlways == Spec => []QuitOK
<1>1. Init => QuitOK
    BY DEF Init, QuitOK, CapturePCs
<1>2. Inv /\ QuitOK /\ [Next]_vars => QuitOK'
    <2>1. QuitOK /\ UNCHANGED vars => QuitOK'
        BY DEF QuitOK, vars, main, flags, reader
    <2> QED
        BY <2>1, QuitMain, QuitReader DEF Next, Terminated
<1> QED
    BY <1>1, <1>2, InvAlways, PTL DEF Spec

(* After q no symbol of a diff and no header reaches the renderer, and     *)
(* emit_diff_symbol_from_struct drops the symbols instead of writing them  *)
(* to the terminal.                                                        *)
THEOREM QuitDropsTheRest == Spec => QuitDropsDiff
<1>1. ASSUME Inv, QuitOK, [Next]_vars, native_session # "NULL", native_quit
      PROVE  rendered' = rendered
    <2>1. pc # "push_event" /\ rpc # "push"
        BY <1>1 DEF Inv, SessionOK, QuitOK, Accepting
    <2>2. CASE Main
        BY <2>1, <2>2 DEF Main, MainRuns, Setup, NextCommit, CombinedMerge, DiffParent, DiffDone,
           CaptureBegin, ShowLogWrite, ShowLogDies, CaptureClose, CloseFailed, CaptureJoin,
           EmitSymbol, PushEventReturns, EventsDone, AfterDiff, CommitDone, FinishPager, End,
           FinishReturns, PageReturns, AbortReturns, EndReturns, Exit, output
    <2>3. CASE Reader
        BY <2>1, <2>3 DEF Reader, ReaderRuns, ReaderRead, ReaderEof, ReaderReadFails,
           ReaderRemembers, ReaderEmit, ReaderPushReturns, ReaderClose, output
    <2>4. CASE UNCHANGED vars \/ Terminated
        BY <2>4 DEF Terminated, vars, output
    <2> QED
        BY <1>1, <2>2, <2>3, <2>4 DEF Next
<1>2. ASSUME Inv, QuitOK, [Next]_vars, native_session # "NULL", native_quit, pc = "events"
      PROVE  direct' = direct
    <2>0. ~native_failed
        BY <1>2 DEF Inv, QuitOK, ReaderOK, CapturePCs, EndPCs
    <2>1. CASE EmitSymbol
        BY <1>2, <2>0, <2>1 DEF EmitSymbol, Active, Accepting
    <2>2. CASE MainRuns /\ ~EmitSymbol
        <3>1. EventsDone
            BY <1>2, <2>2 DEF MainRuns, Setup, NextCommit, CombinedMerge, DiffParent,
               DiffDone, CaptureBegin, ShowLogWrite, CaptureClose, CloseFailed,
               CaptureJoin, PushEventReturns, AfterDiff, CommitDone, FinishPager, End,
               FinishReturns, PageReturns, AbortReturns, EndReturns, Exit
        <3> QED
            BY <3>1 DEF EventsDone, output
    <2>3. CASE ShowLogDies \/ UNCHANGED vars \/ Terminated
        BY <1>2, <2>3 DEF ShowLogDies, Terminated, vars, output
    <2>4. CASE Reader
        BY <2>4 DEF Reader, ReaderRuns, ReaderRead, ReaderEof, ReaderReadFails,
           ReaderRemembers, ReaderEmit, ReaderPushReturns, ReaderClose, output
    <2> QED
        BY <1>2, <2>1, <2>2, <2>3, <2>4 DEF Next, Main
<1>3. Inv /\ QuitOK /\ [Next]_vars =>
        [native_session # "NULL" /\ native_quit =>
           rendered' = rendered /\ (pc = "events" => direct' = direct)]_vars
    BY <1>1, <1>2
<1> QED
    BY <1>3, InvAlways, QuitAlways, PTL DEF Spec, QuitDropsDiff

=============================================================================
