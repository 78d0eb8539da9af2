----------------------------- MODULE DiffPretty -----------------------------
(***************************************************************************)
(* The native diff pager: diff-pretty.c and the commands that drive it     *)
(* (git diff, git log, git show).                                          *)
(*                                                                         *)
(* The main thread walks the commits.  A commit's header (show_log) is     *)
(* written to a pipe that a reader thread drains into the renderer; the    *)
(* lines of its diffs are pushed to the renderer by the main thread        *)
(* itself.  Both threads share one renderer session, which is not made for *)
(* concurrent use, and the flags native_failed and native_quit.            *)
(*                                                                         *)
(* Data is abstracted to items: the items given to the native route are    *)
(* numbered 1, 2, ... in the order Git produced them.  One item is one     *)
(* write of show_log or one diff symbol.  How the reader cuts its input    *)
(* into UTF-8 chunks is the subject of module Utf8Capture.                 *)
(***************************************************************************)
EXTENDS Naturals, Integers, Sequences

CONSTANTS
    Jobs,     \* the commands that may run, see JobType
    PipeCap   \* how many items the metadata pipe holds (PIPE_BUF abstracted)

FaultKinds ==
    {"begin", "pipe", "read", "push", "finish", "page", "fclose", "show_log"}

(* A commit: the number of writes of its header, and for each parent it is *)
(* compared with the number of symbols of that diff (0: no changes).  For  *)
(* a combined merge there is one entry, written by combine-diff.c.         *)
CommitType ==
    {c \in [header : Nat, diffs : Seq(Nat), combined : BOOLEAN] :
        c.combined => Len(c.diffs) = 1}

(* "native": the configured pager is builtin:diff-pretty and the command's *)
(* own conditions for using it hold.  "faults": which calls may fail.      *)
JobType == [cmd : {"diff", "log", "show"}, native : BOOLEAN,
            commits : Seq(CommitType), faults : SUBSET FaultKinds]

ASSUME JobsAssumption   == Jobs \subseteq JobType
ASSUME PipeAssumption   == PipeCap \in Nat \ {0}

VARIABLES
    job,                     \* the command line
    pc,                      \* where the main thread is
    ret,                     \* where it continues after a header or an end
    ci, di,                  \* current commit and current diff of it
    n,                       \* items left in the current header or diff
    shown,                   \* has this commit's header been shown?
    stream,                  \* opt->diffopt.file: "stdout" or "pipe"
    status,                  \* diff_pretty_end's / capture_end's local status
    native_session,          \* "NULL", "live", or "freed" (a dangling pointer)
    native_failed, native_quit, native_command_session,
    native_capture,          \* is a capture registered?
    pager_in_use,            \* GIT_PAGER_IN_USE in the environment
    rpc, reader_status, rbuf,\* the reader thread and its buffer
    pipe, wopen, ropen,      \* the pipe and its two ends
    written,                 \* items given to the native route so far
    rendered,                \* items the renderer accepted, in order
    direct,                  \* items written to the terminal directly
    code, reported           \* exit status; was an error reported?

main   == <<ret, ci, di, n, shown, stream, status>>
flags  == <<native_session, native_failed, native_quit,
            native_command_session, pager_in_use>>
reader == <<rpc, reader_status, rbuf>>
chan   == <<pipe, wopen, ropen>>
output == <<written, rendered, direct>>
result == <<code, reported>>
vars   == <<job, pc, main, flags, native_capture, reader, chan, output, result>>

MainPCs ==
    {"setup", "commit", "diff", "capture_begin", "show_log", "fclose_error",
     "join", "events", "push_event", "after_diff", "commit_done",
     "finish_pager", "end", "finish", "page", "abort", "clear", "exit",
     "done", "killed"}

ReaderPCs == {"none", "read", "read_error", "emit", "push", "close", "done"}

(* The types, in the groups the proofs use: the main thread, ... *)
MainTypeOK ==
    /\ job \in Jobs
    /\ pc \in MainPCs
    /\ ret \in {"events", "commit_done", "after_diff", "finish_pager", "atexit"}
    /\ ci \in Nat \ {0} /\ di \in Nat \ {0} /\ n \in Nat
    /\ stream \in {"stdout", "pipe"}
    /\ status \in {0, -1}

(* ... the flags, ... *)
FlagTypeOK ==
    /\ native_session \in {"NULL", "live", "freed"}
    /\ native_failed \in BOOLEAN /\ native_quit \in BOOLEAN
    /\ native_command_session \in BOOLEAN
    /\ native_capture \in BOOLEAN /\ pager_in_use \in BOOLEAN
    /\ shown \in BOOLEAN /\ reported \in BOOLEAN
    /\ wopen \in BOOLEAN /\ ropen \in BOOLEAN

(* ... the reader thread and the pipe, ... *)
ReaderTypeOK ==
    /\ rpc \in ReaderPCs
    /\ reader_status \in {0, -1}
    /\ rbuf \in Seq(Nat) /\ pipe \in Seq(Nat)

(* ... and what has come out. *)
OutputTypeOK ==
    /\ written \in Nat /\ direct \in Nat
    /\ rendered \in Seq(Nat)
    /\ code \in {0, 128}

(* Type invariant of the static variables of diff-pretty.c, the capture    *)
(* and the command: in particular an exit status is 0 or 128.              *)
TypeOK == MainTypeOK /\ FlagTypeOK /\ ReaderTypeOK /\ OutputTypeOK

Init ==
    /\ job \in Jobs
    /\ pc = "setup" /\ ret = "events"
    /\ ci = 1 /\ di = 1 /\ n = 0
    /\ shown = FALSE /\ stream = "stdout" /\ status = 0
    /\ native_session = "NULL"
    /\ native_failed = FALSE /\ native_quit = FALSE
    /\ native_command_session = FALSE
    /\ native_capture = FALSE /\ pager_in_use = FALSE
    /\ rpc = "none" /\ reader_status = 0 /\ rbuf = <<>>
    /\ pipe = <<>> /\ wopen = FALSE /\ ropen = FALSE
    /\ written = 0 /\ rendered = <<>> /\ direct = 0
    /\ code = 0 /\ reported = FALSE

-----------------------------------------------------------------------------
(* Mutant: the route is given up after q. *)
ActiveUntilQuit == native_session # "NULL" /\ ~native_failed /\ ~native_quit

(* diff_pretty_active: is the diff routed to the renderer? *)
Active == native_session # "NULL" /\ ~native_failed

(* Mutant: emit_event and emit_patch go on after q. *)
AcceptingAfterQuit == native_session # "NULL" /\ ~native_failed

(* The guard that emit_event, emit_patch and capture_begin share. *)
Accepting == Active /\ ~native_quit

(* Mutant: exit(-1). *)
DieMinusOne == pc' = "exit" /\ code' = 255 /\ reported' = TRUE

(* die(): the error is on stderr, the process goes on to exit(). *)
Die == pc' = "exit" /\ code' = 128 /\ reported' = TRUE

(* May the call named f fail? *)
MayFail(f) == f \in job.faults

Commit == job.commits[ci]

-----------------------------------------------------------------------------
(* The main thread. *)

(* setup_diff_pager (git diff) or setup_native_{log,show}_pager: open the  *)
(* renderer session, which git log and git show keep for the whole command.*)
Setup ==
    /\ pc = "setup"
    /\ \/ /\ ~job.native
          /\ pc' = "commit"
          /\ UNCHANGED <<flags, result>>
       \/ /\ job.native
          /\ native_session' = "live"
          /\ native_command_session' = (job.cmd # "diff")
          /\ pager_in_use' = TRUE
          /\ pc' = "commit"
          /\ UNCHANGED <<native_failed, native_quit, result>>
       \/ /\ job.native /\ MayFail("begin")
          /\ native_failed' = TRUE
          /\ Die
          /\ UNCHANGED <<native_session, native_quit, native_command_session,
                         pager_in_use>>
    /\ UNCHANGED <<job, main, native_capture, reader, chan, output>>

(* The head of the commit loops of cmd_log_walk_no_free and cmd_show. *)
NextCommit ==
    /\ pc = "commit"
    /\ pc' = IF ci <= Len(job.commits) THEN "diff" ELSE "finish_pager"
    /\ di' = 1 /\ shown' = FALSE
    /\ UNCHANGED <<job, ret, ci, n, stream, status, flags, native_capture,
                   reader, chan, output, result>>

(* diff_tree_combined writes the header and the combined diff of a merge   *)
(* with show_log and printf: no capture, no event.                         *)
CombinedMerge ==
    /\ pc = "diff" /\ Commit.combined
    /\ direct' = direct + Commit.header + Commit.diffs[1]
    /\ shown' = TRUE
    /\ pc' = "commit_done"
    /\ UNCHANGED <<job, ret, ci, di, n, stream, status, flags, native_capture,
                   reader, chan, written, rendered, result>>

(* One turn of log_tree_diff's loop over the parents, up to the header: an *)
(* empty queue is flushed without output.  git diff has no loginfo.        *)
DiffParent ==
    /\ pc = "diff" /\ ~Commit.combined /\ di <= Len(Commit.diffs)
    /\ IF Commit.diffs[di] = 0
       THEN pc' = "after_diff" /\ UNCHANGED <<ret, n, shown>>
       ELSE IF job.cmd = "diff"
       THEN pc' = "events" /\ n' = Commit.diffs[di] /\ UNCHANGED <<ret, shown>>
       ELSE /\ pc' = "capture_begin" /\ ret' = "events" /\ shown' = TRUE
            /\ UNCHANGED n
    /\ UNCHANGED <<job, ci, di, stream, status, flags, native_capture, reader,
                   chan, output, result>>

(* After the last parent log_tree_commit shows a header that no diff has   *)
(* shown (always_show_header).                                             *)
DiffDone ==
    /\ pc = "diff" /\ ~Commit.combined /\ di > Len(Commit.diffs)
    /\ IF shown \/ job.cmd = "diff"
       THEN pc' = "commit_done" /\ UNCHANGED <<ret, shown>>
       ELSE pc' = "capture_begin" /\ ret' = "commit_done" /\ shown' = TRUE
    /\ UNCHANGED <<job, ci, di, n, stream, status, flags, native_capture,
                   reader, chan, output, result>>

(* diff_pretty_capture_begin: nothing when the native route is closed, an  *)
(* error for a nested capture or a failing pipe/fdopen/pthread_create,     *)
(* else the reader thread starts and the header goes to the pipe.          *)
CaptureBegin ==
    /\ pc = "capture_begin"
    /\ n' = Commit.header
    /\ \/ /\ ~Accepting
          /\ pc' = "show_log"
          /\ UNCHANGED <<stream, native_failed, native_capture, reader, chan, result>>
       \/ /\ Accepting /\ (native_capture \/ MayFail("pipe"))
          /\ native_failed' = TRUE
          /\ Die
          /\ UNCHANGED <<stream, native_capture, reader, chan>>
       \/ /\ Accepting /\ ~native_capture
          /\ native_capture' = TRUE
          /\ stream' = "pipe"
          /\ pipe' = <<>> /\ wopen' = TRUE /\ ropen' = TRUE
          /\ rpc' = "read" /\ reader_status' = 0 /\ rbuf' = <<>>
          /\ pc' = "show_log"
          /\ UNCHANGED <<native_failed, result>>
    /\ UNCHANGED <<job, ret, ci, di, shown, status, native_session, native_quit,
                   native_command_session, pager_in_use, output>>

(* show_log and the separator after it, one unbuffered write at a time.  A *)
(* write blocks while the pipe is full; SIGPIPE, at its default action,    *)
(* kills the process once the reader has closed its end.                   *)
ShowLogWrite ==
    /\ pc = "show_log" /\ n > 0
    /\ \/ /\ stream = "stdout"
          /\ direct' = direct + 1 /\ n' = n - 1
          /\ UNCHANGED <<pc, pipe, written>>
       \/ /\ stream = "pipe" /\ ropen /\ Len(pipe) < PipeCap
          /\ written' = written + 1
          /\ pipe' = Append(pipe, written')
          /\ n' = n - 1
          /\ UNCHANGED <<pc, direct>>
       \/ /\ stream = "pipe" /\ ~ropen
          /\ pc' = "killed"
          /\ UNCHANGED <<n, pipe, written, direct>>
    /\ UNCHANGED <<job, ret, ci, di, shown, stream, status, flags,
                   native_capture, reader, wopen, ropen, rendered, result>>

(* show_log may die: the object of a commit known from the commit-graph    *)
(* cannot be read, a notes object is corrupt, memory is exhausted.         *)
ShowLogDies ==
    /\ pc = "show_log" /\ MayFail("show_log")
    /\ Die
    /\ UNCHANGED <<job, main, flags, native_capture, reader, chan, output>>

(* diff_pretty_capture_end, up to pthread_join.  The status of a failing   *)
(* fclose is kept while the reader is joined.                              *)
CaptureClose ==
    /\ pc = "show_log" /\ n = 0
    /\ \/ /\ stream = "stdout"
          /\ pc' = ret
          /\ n' = IF ret = "events" THEN Commit.diffs[di] ELSE 0
          /\ UNCHANGED <<wopen, status>>
       \/ /\ stream = "pipe"
          /\ wopen' = FALSE /\ status' = 0
          /\ pc' = "join"
          /\ UNCHANGED n
       \/ /\ stream = "pipe" /\ MayFail("fclose")
          /\ wopen' = FALSE /\ status' = -1
          /\ pc' = "fclose_error"
          /\ UNCHANGED n
    /\ UNCHANGED <<job, ret, ci, di, shown, stream, flags, native_capture,
                   reader, pipe, ropen, output, result>>

(* remember_native_error asks the session for its last error. *)
CloseFailed ==
    /\ pc = "fclose_error"
    /\ native_failed' = TRUE
    /\ pc' = "join"
    /\ UNCHANGED <<job, main, native_session, native_quit,
                   native_command_session, pager_in_use, native_capture,
                   reader, chan, output, result>>

(* Mutant: the reader is detached instead of joined. *)
ReaderDetached == TRUE

(* pthread_join has the reader thread's end to return for. *)
ReaderJoined == rpc = "done"

(* pthread_join returns, the capture is freed and the stream restored. *)
CaptureJoin ==
    /\ pc = "join" /\ ReaderJoined
    /\ native_capture' = FALSE /\ stream' = "stdout"
    /\ IF status = -1 \/ reader_status = -1
       THEN Die /\ UNCHANGED n
       ELSE /\ pc' = ret
            /\ n' = IF ret = "events" THEN Commit.diffs[di] ELSE 0
            /\ UNCHANGED result
    /\ UNCHANGED <<job, ret, ci, di, shown, status, flags, reader, chan, output>>

(* emit_diff_symbol_from_struct: one symbol goes to the renderer, is       *)
(* dropped after q, or is written directly when the route is not active.   *)
EmitSymbol ==
    /\ pc = "events" /\ n > 0
    /\ n' = n - 1
    /\ \/ /\ Accepting
          /\ written' = written + 1
          /\ pc' = "push_event"
          /\ UNCHANGED direct
       \/ /\ Active /\ native_quit
          /\ UNCHANGED <<pc, written, direct>>
       \/ /\ ~Active
          /\ direct' = direct + 1
          /\ UNCHANGED <<pc, written>>
    /\ UNCHANGED <<job, ret, ci, di, shown, stream, status, flags,
                   native_capture, reader, chan, rendered, result>>

(* diff_pretty_push_event returns: accepted, q, or an error. *)
PushEventReturns ==
    /\ pc = "push_event"
    /\ pc' = "events"
    /\ \/ /\ rendered' = Append(rendered, written)
          /\ UNCHANGED <<native_failed, native_quit>>
       \/ /\ native_quit' = TRUE
          /\ UNCHANGED <<rendered, native_failed>>
       \/ /\ MayFail("push")
          /\ native_failed' = TRUE
          /\ UNCHANGED <<rendered, native_quit>>
    /\ UNCHANGED <<job, main, native_session, native_command_session,
                   pager_in_use, native_capture, reader, chan, written, direct,
                   result>>

EventsDone ==
    /\ pc = "events" /\ n = 0
    /\ pc' = "after_diff"
    /\ UNCHANGED <<job, main, flags, native_capture, reader, chan, output, result>>

(* The end of diff_flush: a session that belongs to this one diff ends. *)
AfterDiff ==
    /\ pc = "after_diff"
    /\ IF Active /\ ~native_command_session
       THEN pc' = "end" /\ ret' = "after_diff" /\ UNCHANGED di
       ELSE pc' = "diff" /\ di' = di + 1 /\ UNCHANGED ret
    /\ UNCHANGED <<job, ci, n, shown, stream, status, flags, native_capture,
                   reader, chan, output, result>>

(* The end of a turn of the commit loop.  The walk of git log stops after  *)
(* q; in git show it is a walk of one commit, and the loop over the        *)
(* pending objects around it goes on.                                      *)
CommitDone ==
    /\ pc = "commit_done"
    /\ IF job.cmd = "log" /\ native_session # "NULL" /\ native_quit
       THEN pc' = "finish_pager" /\ UNCHANGED ci
       ELSE pc' = "commit" /\ ci' = ci + 1
    /\ UNCHANGED <<job, ret, di, n, shown, stream, status, flags,
                   native_capture, reader, chan, output, result>>

(* finish_native_log_pager; git diff has no such call. *)
FinishPager ==
    /\ pc = "finish_pager"
    /\ IF Active /\ job.cmd # "diff"
       THEN pc' = "end" /\ ret' = "finish_pager"
       ELSE pc' = "exit" /\ UNCHANGED ret
    /\ UNCHANGED <<job, ci, di, n, shown, stream, status, flags,
                   native_capture, reader, chan, output, result>>

(* Mutant: a failed rendering is paged all the same. *)
DropSessionOnQuit == native_quit

(* After a failure or q there is nothing to finish and page. *)
DropSession == native_failed \/ native_quit

(* Mutant: the remembered error is not printed. *)
ErrorForgotten == reported

(* fprintf(stderr, "diff-pretty: ...") for a remembered error.  Its guard  *)
(* *native_error holds after every remember_native_error, as long as       *)
(* diff_pretty_last_error (external) returns NULL or a message, never "".  *)
ErrorPrinted == reported \/ native_failed

(* diff_pretty_end: choose between finishing, and dropping the session.    *)
(* A remembered error is printed.                                          *)
End ==
    /\ pc = "end"
    /\ pc' = IF DropSession THEN "abort" ELSE "finish"
    /\ status' = IF native_failed THEN -1 ELSE 0
    /\ reported' = ErrorPrinted
    /\ UNCHANGED <<job, ret, ci, di, n, shown, stream, flags, native_capture,
                   reader, chan, output, code>>

EndFails ==
    /\ native_failed' = TRUE /\ status' = -1 /\ reported' = TRUE
    /\ pc' = "abort"

(* diff_pretty_finish returns. *)
FinishReturns ==
    /\ pc = "finish"
    /\ \/ pc' = "page" /\ UNCHANGED <<native_failed, status, reported>>
       \/ MayFail("finish") /\ EndFails
    /\ UNCHANGED <<job, ret, ci, di, n, shown, stream, native_session,
                   native_quit, native_command_session, pager_in_use,
                   native_capture, reader, chan, output, code>>

(* diff_pretty_page returns when the user leaves the pager. *)
PageReturns ==
    /\ pc = "page"
    /\ \/ pc' = "abort" /\ UNCHANGED <<native_failed, status, reported>>
       \/ MayFail("page") /\ EndFails
    /\ UNCHANGED <<job, ret, ci, di, n, shown, stream, native_session,
                   native_quit, native_command_session, pager_in_use,
                   native_capture, reader, chan, output, code>>

(* diff_pretty_abort frees the session; native_session still points to it. *)
AbortReturns ==
    /\ pc = "abort"
    /\ native_session' = "freed"
    /\ pc' = "clear"
    /\ UNCHANGED <<job, main, native_failed, native_quit,
                   native_command_session, pager_in_use, native_capture,
                   reader, chan, output, result>>

(* The rest of diff_pretty_end, and what its caller does with the status. *)
EndReturns ==
    /\ pc = "clear"
    /\ native_session' = "NULL" /\ native_quit' = FALSE
    /\ native_command_session' = FALSE /\ pager_in_use' = FALSE
    /\ \/ ret = "atexit" /\ pc' = "done" /\ UNCHANGED <<di, result>>
       \/ ret # "atexit" /\ status = -1 /\ Die /\ UNCHANGED di
       \/ /\ ret = "after_diff" /\ status = 0
          /\ pc' = "diff" /\ di' = di + 1
          /\ UNCHANGED result
       \/ /\ ret = "finish_pager" /\ status = 0
          /\ pc' = "exit"
          /\ UNCHANGED <<di, result>>
    /\ UNCHANGED <<job, ret, ci, n, shown, stream, status, native_failed,
                   native_capture, reader, chan, output>>

(* Mutant: no atexit handler. *)
NoAtexit == FALSE

(* diff_pretty_atexit is registered when a session is opened, and does     *)
(* nothing once the session has ended.                                     *)
AtexitEnds == native_session # "NULL"

(* exit() runs diff_pretty_atexit. *)
Exit ==
    /\ pc = "exit"
    /\ IF AtexitEnds
       THEN pc' = "end" /\ ret' = "atexit"
       ELSE pc' = "done" /\ UNCHANGED ret
    /\ UNCHANGED <<job, ci, di, n, shown, stream, status, flags,
                   native_capture, reader, chan, output, result>>

-----------------------------------------------------------------------------
(* The reader thread, diff_pretty_capture_reader.  It ends with the process.*)
Running == pc \notin {"done", "killed"}

(* read() returns some of what is in the pipe. *)
ReaderRead ==
    /\ Running /\ rpc = "read" /\ pipe # <<>>
    /\ \E k \in 1..Len(pipe) :
          /\ rbuf' = SubSeq(pipe, 1, k)
          /\ pipe' = SubSeq(pipe, k + 1, Len(pipe))
    /\ rpc' = "emit"
    /\ UNCHANGED <<job, pc, main, flags, native_capture, reader_status, wopen,
                   ropen, output, result>>

(* Mutant: an empty pipe is taken for its end. *)
AtEmptyPipe == pipe = <<>>

(* read() returns 0.  Items are whole code points here, so that nothing is *)
(* pending: see Utf8Capture for what the thread pushes before it ends.     *)
AtEof == pipe = <<>> /\ ~wopen

ReaderEof ==
    /\ Running /\ rpc = "read" /\ AtEof
    /\ rpc' = "close"
    /\ UNCHANGED <<job, pc, main, flags, native_capture, reader_status, rbuf,
                   chan, output, result>>

(* read() fails; remember_native_error calls into the session. *)
ReaderReadFails ==
    /\ Running /\ rpc = "read" /\ MayFail("read")
    /\ rpc' = "read_error"
    /\ UNCHANGED <<job, pc, main, flags, native_capture, reader_status, rbuf,
                   chan, output, result>>

ReaderRemembers ==
    /\ Running /\ rpc = "read_error"
    /\ native_failed' = TRUE
    /\ reader_status' = -1
    /\ rpc' = "close"
    /\ UNCHANGED <<job, pc, main, native_session, native_quit,
                   native_command_session, pager_in_use, native_capture, rbuf,
                   chan, output, result>>

(* diff_pretty_emit_patch: push, or drop the chunk when the route is       *)
(* closed; the loop ends after a failure or q.                             *)
ReaderEmit ==
    /\ Running /\ rpc = "emit"
    /\ IF Accepting
       THEN rpc' = "push" /\ UNCHANGED rbuf
       ELSE /\ rpc' = IF native_failed \/ native_quit THEN "close" ELSE "read"
            /\ rbuf' = <<>>
    /\ UNCHANGED <<job, pc, main, flags, native_capture, reader_status, chan,
                   output, result>>

(* diff_pretty_push_patch returns: accepted, q, or an error. *)
ReaderPushReturns ==
    /\ Running /\ rpc = "push"
    /\ rbuf' = <<>>
    /\ \/ /\ rendered' = rendered \o rbuf
          /\ rpc' = IF native_failed \/ native_quit THEN "close" ELSE "read"
          /\ UNCHANGED <<native_failed, native_quit>>
       \/ /\ native_quit' = TRUE
          /\ rpc' = "close"
          /\ UNCHANGED <<rendered, native_failed>>
       \/ /\ MayFail("push")
          /\ native_failed' = TRUE
          /\ rpc' = "close"
          /\ UNCHANGED <<rendered, native_quit>>
    /\ UNCHANGED <<job, pc, main, native_session, native_command_session,
                   pager_in_use, native_capture, reader_status, chan, written,
                   direct, result>>

(* Mutant: the reader ends without close(read_fd). *)
ReaderLeaksFd ==
    /\ Running /\ rpc = "close"
    /\ reader_status' = IF native_failed THEN -1 ELSE reader_status
    /\ rpc' = "done"
    /\ UNCHANGED <<job, pc, main, flags, native_capture, rbuf, chan, output, result>>

(* The reader's status, close(read_fd), and the end of the thread. *)
ReaderClose ==
    /\ Running /\ rpc = "close"
    /\ reader_status' = IF native_failed THEN -1 ELSE reader_status
    /\ ropen' = FALSE /\ pipe' = <<>>
    /\ rpc' = "done"
    /\ UNCHANGED <<job, pc, main, flags, native_capture, rbuf, wopen, output,
                   result>>

-----------------------------------------------------------------------------
(* Next-state relation and specification. *)
MainRuns ==
    \/ Setup \/ NextCommit \/ CombinedMerge \/ DiffParent \/ DiffDone
    \/ CaptureBegin \/ ShowLogWrite \/ CaptureClose
    \/ CloseFailed \/ CaptureJoin
    \/ EmitSymbol \/ PushEventReturns \/ EventsDone \/ AfterDiff
    \/ CommitDone \/ FinishPager
    \/ End \/ FinishReturns \/ PageReturns \/ AbortReturns \/ EndReturns
    \/ Exit

Main == MainRuns \/ ShowLogDies

ReaderRuns ==
    \/ ReaderRead \/ ReaderEof \/ ReaderRemembers
    \/ ReaderEmit \/ ReaderPushReturns \/ ReaderClose

Reader == ReaderRuns \/ ReaderReadFails

(* The process is gone: only this may go on for ever. *)
Terminated == ~Running /\ UNCHANGED vars

Next == Main \/ Reader \/ Terminated

(* Both threads are scheduled, every call into the renderer returns, and   *)
(* the user leaves the pager at some point.  Nothing makes a blocked write *)
(* or read fail: fairness leaves ShowLogDies and ReaderReadFails out.      *)
Spec == Init /\ [][Next]_vars /\ WF_vars(MainRuns) /\ WF_vars(ReaderRuns)

-----------------------------------------------------------------------------
(* Properties. *)

MainInFfi == pc \in {"push_event", "fclose_error", "finish", "page", "abort"}
ReaderInFfi == rpc \in {"push", "read_error"} /\ Running

(* The renderer session is used by one thread at a time, and the reader is *)
(* never in it once diff_pretty_end has freed it: the capture ends with a  *)
(* join before the main thread makes its next call.  (Unless show_log dies *)
(* or fclose fails: see SessionOutlivesCapture.)                           *)
FfiExclusive ==
    ~MayFail("show_log") /\ ~MayFail("fclose") /\ ReaderInFfi => ~MainInFfi /\ native_session = "live"

(* The renderer sees what Git produced, in that order, without a gap: an   *)
(* event is never pushed before the header captured ahead of it, and       *)
(* nothing is pushed after an item was lost to q or to an error.           *)
RenderedInOrder ==
    \A i \in 1..Len(rendered) : rendered[i] = i

(* When the pager opens, everything the command routed to it is rendered   *)
(* and nothing is left in the pipe or in the reader, unless show_log died. *)
PagedComplete ==
    ~MayFail("show_log") /\ pc = "page" => Len(rendered) = written /\ pipe = <<>> /\ rbuf = <<>>

(* However the process exits, the session it opened is freed and           *)
(* GIT_PAGER_IN_USE is no longer set.                                      *)
SessionReleased ==
    pc = "done" => native_session = "NULL" /\ ~pager_in_use

(* A rendering failure never passes silently: the process that meets one   *)
(* and exits has reported an error.                                        *)
FailureReported ==
    pc = "done" /\ native_failed => reported

(* Git is killed by SIGPIPE in the middle of a header only because the     *)
(* user quit or the rendering failed.                                      *)
KilledOnlyAfterReaderStopped ==
    pc = "killed" => native_quit \/ native_failed

(* After q the renderer is given nothing more, by either thread, and the   *)
(* lines of a diff do not fall back to the terminal (diff_pretty_active    *)
(* stays true, so that they are dropped).                                  *)
QuitDropsDiff ==
    [][native_session # "NULL" /\ native_quit =>
         rendered' = rendered /\ (pc = "events" => direct' = direct)]_vars

(* Every command comes to its end: the writer of a header is not left      *)
(* blocked on a pipe nobody reads, nor the join on a reader that waits for *)
(* more input.                                                             *)
Terminates == <>(pc \in {"done", "killed"})

(* What the comment in diff_pretty_active says of q, for the terminal as a *)
(* whole: once the user has quit, nothing more is written to it directly.  *)
QuitSilencesTerminal ==
    [][native_session # "NULL" /\ native_quit => direct' = direct]_vars

(* What the comment of diff_pretty_setup_log says: the session stays alive *)
(* until the metadata that is being captured has been emitted.             *)
SessionOutlivesCapture ==
    ReaderInFfi => native_session = "live"
=============================================================================
