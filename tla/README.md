# TLA+ models of git-minimal-musl-static

The repository builds a small static Git (2.55.0, `src/git-2.55.0/`) with one
addition of its own: a native diff pager, `diff-pretty.c`, which feeds
`git diff`, `git log` and `git show` to an in-process renderer reached through
a C FFI. This directory models that pager and the parts of Git on which the
integrity of a repository rests when several commands run at once or die
half-way: the lock file, both ref stores, loose objects against `git prune`, and
the threads that search for deltas when a pack is written.
It states what makes them correct and checks it with TLC on small instances;
the safety properties and the refinements are also proved with TLAPS, for every
value of the constants (section 4).

Paths below are relative to `src/git-2.55.0/`.

## 1. Inventory

| Component | State | Operations | Hard behaviour | What makes it correct |
|---|---|---|---|---|
| Native diff pager (`diff-pretty.c`) | session pointer, flags `native_failed`, `native_quit`, `native_command_session`, the current capture (pipe, reader thread), `GIT_PAGER_IN_USE` | setup, emit event, emit patch, capture begin/end, end, atexit | two threads share a session that is not thread-safe; a full pipe; q at any time; failures in either thread; `die()` in the middle of a capture | threads never in the session together; items rendered in order and without gaps; the pager opens on all of them; the session is freed and errors are reported on every exit; no deadlock |
| UTF-8 chunking (`diff-pretty.c:25-193`) | up to 3 pending bytes, a buffer | read, emit all but a truncated code point, flush | any split of the stream by `read()`; malformed input | nothing lost, doubled or moved; code points whole; `pending[3]` not overrun |
| Lock files, temporary files (`lockfile.c`, `tempfile.c`, `daemonize` in `setup.c`) | the names `<file>`, `<file>.lock`, `<file>~pid.lock`; per process the list of temporary files and their owner | lock, write, commit, rollback, reassign ownership, exit handler, signal handler | several processes; crash, signal, failed write or rename at any step; fork with the lock held | one holder; atomic replacement; no lost update; no stale lock except after SIGKILL; the pid file names the process responsible for the lock, or the one that handed it over in `daemonize` |
| Timed locking (`lockfile.c:203-246`) | remaining time, `n`, `multiplier` | attempt, wait | wait of 0 ms, jitter, cap on the multiplier | not early, bounded overrun, quadratic backoff, returns |
| `git log/show/diff` commands (`builtin/log.c`, `log-tree.c`, `combine-diff.c`, `builtin/diff.c`) | walk over commits, `loginfo` | loops that call the pager | which paths bypass the pager | only the loops and calls that drive the pager are modelled, inside `DiffPretty` |
| Ref store, files backend (`refs/files-backend.c`, `refs/packed-backend.c`) | loose refs, `packed-refs`, reflogs, locks of each | transaction prepare/finish/abort, read, pack-refs with prune | readers take no lock; crash between the renames of one transaction; pack against update | read is linearizable per ref; a pruned ref is never lost; a deleted ref does not come back |
| Ref store, reftable backend (`refs/reftable-backend.c`, `reftable/stack.c`) | `tables.list`, tables, a lock on the list and one on each table; per process the tables it has open | transaction, auto-compaction, pack-refs, clean, reload | the list is unlocked while tables are merged; readers during compaction; crash before cleanup | transactions atomic, compaction changes no ref, a listed table exists, a reader gets one version of the store |
| Object store and gc (`object-file.c`, `odb/`, `builtin/prune.c`, `builtin/gc.c`) | loose objects with mtimes, packs, `gc.pid` | write/freshen, repack, prune | writer that finds an object present against a prune that is about to delete it | a reachable object is never pruned; an object a writer relied on is still there when its ref is set |
| Subprocess pool, simple IPC, parallel checkout (`run-command.c`, `compat/simple-ipc/`, `parallel-checkout.c`) | children or worker threads, queues | start, feed, collect, stop | shutdown while work is queued, dying workers | every task reported once, shutdown ends |
| Delta search of pack-objects (`builtin/pack-objects.c`) | a segment of the object list per thread, its counters, two flags | take an object, run out, steal half of the largest segment, stop | the owner advances without a lock on its pointer while the main thread cuts the tail off; signals sent before anybody waits | every object searched exactly once; all threads joined before the pack is written; no lost wakeup |
| Index, config, diff engine, history, pack formats, transport, tracing, build | — | — | mostly formats and sequential algorithms | see "Not modelled" |

Interactions. The commands call `diff_pretty_setup*` once, then per commit
`diff_pretty_capture_begin`, `show_log`, `diff_pretty_capture_end` and, for
every diff symbol, `diff_pretty_emit_event` (from
`emit_diff_symbol_from_struct`, `diff.c`). `diff_flush` ends a session that
belongs to one diff, `finish_native_log_pager` one that belongs to the command,
`atexit` whatever is left. Refs, index, config, shallow files and `gc.pid` are
all written through `hold_lock_file_for_update` / `commit_lock_file`, which
register a temporary file whose handlers run at exit and on signals. `refs.c`
gives both ref stores one interface (transactions with expected old values);
`git prune` reads refs and reflogs through it, without a lock, while other
commands write objects and then move refs.

The hazards that follow from this, each at its line, are listed in
`PROJECT.json` with the properties that address them.

## 2. Modules

| Module | Models | Uses |
|---|---|---|
| `DiffPretty` | `diff-pretty.c` and its callers: both threads, the pipe, the session | — |
| `Utf8Capture` | `incomplete_utf8_suffix` and the reader's buffer | — |
| `Lockfile` | `lockfile.c`, `tempfile.c`, `daemonize` for one protected file | instantiates `AtomicFile` |
| `AtomicFile` | abstract: a register whose every version is made from the one before, with an acknowledgement for the writer whose version was installed | — |
| `LockTimeout` | `lock_file_timeout` | — |
| `RefStore` | abstract: refs as compare-and-swap registers, changed only by transactions | — |
| `FilesRefs` | `refs/files-backend.c` over `refs/packed-backend.c` | instantiates `RefStore` |
| `ReftableStack` | `refs/reftable-backend.c` over `reftable/stack.c` | instantiates `RefStore` |
| `ObjectPrune` | loose objects, refs and reflogs, `git prune` | — |
| `DeltaSearch` | the threads of the delta search, by object and by path region | — |
| `MC…` | constants for TLC | the module named |
| `…Proofs` | theorems | the module named, `TLAPS` |

Definitions whose comment begins with "Mutant" are not part of the models: each
is a plausible bug in the definition that follows it, used to confirm that a
property notices that bug.

### DiffPretty

State. One variable per static variable of `diff-pretty.c` (same names), the
main thread's place (`pc`, `ret`, commit `ci`, diff `di`, items left `n`), the
reader thread (`rpc`, `reader_status`, `rbuf`), the pipe with its two ends, and
three records of output: `written` (items given to the native route),
`rendered` (items the renderer accepted) and `direct` (items written straight
to the terminal). `native_session` distinguishes `NULL`, a live session, and a
pointer to a session already freed inside `diff_pretty_end`.

Actions. A function is one action unless the other thread can observe its
middle: a call into the renderer is two steps (`EmitSymbol` /
`PushEventReturns`, `ReaderEmit` / `ReaderPushReturns`, `End` / `FinishReturns`
/ `PageReturns` / `AbortReturns` / `EndReturns`), so that "both threads inside
the FFI" is a state of the model. `CaptureBegin` is
`diff_pretty_capture_begin` with its early return, its nested-capture error and
its resource failures; `CaptureClose`, `CloseFailed` and `CaptureJoin` are
`diff_pretty_capture_end` around `fclose`, `remember_native_error` and
`pthread_join`. `NextCommit`, `DiffParent`, `DiffDone`, `CombinedMerge`,
`AfterDiff`, `CommitDone` and `FinishPager` are the loops of `builtin/log.c` and
`log-tree.c`. A command is a constant (`Jobs`): which command, whether it is
native, for each commit the number of writes in its header and of symbols in
each of its diffs, and which calls may fail (`job.faults`).

Data. An item is a number: one write of `show_log` or one diff symbol. Text is
left out. The writes of `show_log` are unbuffered (`setvbuf(_IONBF)` in
`diff_pretty_capture_begin`), so one item at a time may block.

The flags `native_failed` and `native_quit` are written by both threads without
a lock. In the reachable states the main thread does not touch them between
`capture_begin` and the join, except after a failing `fclose` and inside exit
handlers after a `die()`; reads and writes are single steps of the model.

The error that `diff_pretty_last_error` returns belongs to the library: it is
taken to be `NULL` or a message, never an empty string, which
`diff_pretty_end` would not print.

### Utf8Capture

Bytes are reduced to the six classes the code's masks tell apart. `ReadChunk`
lets `read()` return any number of bytes from 1 to the room behind the pending
ones.

### Lockfile

State. A small file system: the inodes that the file and its lock name, the
process recorded in the pid file, and for each inode its contents (the sequence
of updates it contains) and whether it was written completely. Per process: its
place, the inode its descriptor refers to, and its list of temporary files with
the owner that `remove_tempfiles` compares with `getpid()`.

Actions. One per system call or list update, since every process may be
interrupted between two of them: `TryLock` (open), `Activate`, `CreatePidFile`,
`RegisterPidFile`; `Commit`, `Rename`, `Deactivate`; `Rollback`, `Unlink`;
`Fork`, `ChildReassign`, `ParentReassign`; `Exit`, `Signal`, `Kill`, and the
handler's `RemovePidFile`, `RemoveLockFile`, `Leave`. Unlink and rename act on
whatever the NAME refers to, as in the kernel.

Signals are three separate faults, by the place they fall on (`SignalKind`).
`"window"`: a system call is done and the list not yet updated (between `open`
and `activate_tempfile`, `unlink` or `rename` and `deactivate_tempfile`, `fork`
and `reassign_tempfiles_owner`). `"handler"`: the process is in
`remove_tempfiles` already, from a handler or from `exit`, which unlinks a name
and leaves the entry active, so that a second signal unlinks the name again.
`"signal"`: anywhere else. Windows and handlers are real: the run
`lockfile_signal` shows what a signal in a window does, and a signal in a
handler does the same. The run `lockfile` and the proofs have only the third
kind.

After `daemonize` the child holds the lock and the pid file still names the
parent, which has exited: nothing rewrites it. `PidFileNamesHolder` says that
there is no other exception.

### LockTimeout

The loop of `lock_file_timeout` with its integer arithmetic. Whether an attempt
finds the lock taken is the environment's choice. `MaxMult` and `Initial` are
`BACKOFF_MAX_MULTIPLIER` (1000) and `INITIAL_BACKOFF_MS` (1).

### RefStore

What the callers of `refs.h` may rely on. A transaction is begun, may have
updates rejected, changes each of its refs at most once and only from the value
it was told to expect, and ends in success (nothing left to do) or failure. Refs
of one transaction may change in one step or in several: the reftable backend
does the first, the files backend the second. Nothing else changes a value.

### FilesRefs

State. The loose files, `packed-refs`, the values each reflog mentions, the
owners of the locks, each process's `packed-refs.new`; per transaction and ref
the update (`want`, `expect`), what was found under the lock (`prev`,
`isloose`), and how far it is (`st`); a packer's loose-ref cache (`pack`); a
reader's place and `remaining_retries`.

Actions. One per system call that others can see. A transaction locks and checks
one ref after the other (`LockRef`, `LockRefTimeout`, `CheckRef`), locks
`packed-refs` if it deletes (`LockPacked`, `WritePacked`), and then follows the
order of `files_transaction_finish`: reflog and rename per update, reflogs of
deleted refs, the packed versions in one rename, the loose files one by one,
then the locks. `pack-refs` locks, lists and reads the loose refs, writes,
renames and unlocks, and only then prunes, each ref in a small transaction
(`PruneLock` to `PruneUnlock`). A reader is `ReadStat` / `ReadOpen` /
`ReadPacked`. Any process may be killed anywhere, and its locks removed by hand.

Data. Transaction `t` brings the new object `t`, and ref `r` first names the
object `r`, so every value tells where it came from. Waiting for a lock is the
subject of `LockTimeout`: here an attempt on a taken lock may fail at any time.
Reflogs are kept for every ref. The order in which refs are locked is
arbitrary, as it is the caller's. Updates are of ordinary refs: the parts of
`lock_ref_for_update` about HEAD and symbolic refs are left out. The name
`packed-refs.new` is opened with `O_EXCL`, but only under the lock on
`packed-refs`, so that the model can keep one content per process.

`Reuse = FALSE` leaves a behaviour of the program out: with it no ref is given a
value that it had before. `prune_ref` compares nothing but the value, so with
`Reuse = TRUE` a ref that left its packed value and came back to it can be lost
(section 5), and the refinement of `RefStore` does not hold. What the run `refs`
and the proofs show about pruning is about refs that do not return to a value.

### ReftableStack

State. `tables.list`, the files in the directory, what was written to each, the
list lock and the table locks; per process the tables its handle has open (which
stay readable when unlinked), the names a reload has read and how many it has
opened. A table holds a maximal update index and for every ref a value, a
deletion or nothing; `View` is what the merged table shows.

Actions. A transaction locks the list and reloads (`LockStack`), checks, adds a
table, commits by renaming the lock to `tables.list`, reloads, and may compact.
`stack_compact_range` is cut where it can be interrupted: list lock, one table
lock after the other, release and merge, second list lock with the search for
the moved range, the new table, the new list, reload, unlink. `git pack-refs`
adds cleaning (`CleanLock`, `Sweep`). A reload (`Load`, `OpenTable`,
`SwitchTables`, `TableMissing`) opens one table per step. Sizes of tables are
left out: any range may be chosen where sizes decide. `Exit` changes no file:
only `repo_clear` and a migration of the store call `reftable_stack_destroy`
(through `reftable_be_release`), not a command that ends.

### ObjectPrune

State. For each loose object no file, an old or a recent one (`mtime` against
the expiry time); refs and reflogs; per process its place; prune's `pending` and
`SEEN` sets and the object between its `lstat()` and `unlink()`. Writers freshen
or write their objects in order and then set a ref; a mover creates one ref and
deletes another in one transaction, in the order of `FilesRefs`. Prune reads ref
by ref, reflog by reflog, walks, scans for recent objects, walks again, and
removes file by file. An object that is recent stays so: prune runs, even
repeatedly, are short compared with the expiry time.

A ref has a reflog if it gets one by itself (`AutoLog`: `should_autocreate_reflog`,
by default branches, remote-tracking refs, notes and HEAD, and none in a bare
repository) or has one already (`Log0`). A writer begins with what its tip
reaches either among its own objects or in what its ref reached (`Start`). A
writer whose write fails gives up, and takes no further step.

History variables say where prune cannot be expected to look: `moved` (objects
that a mover has moved since prune began) and `astray` (old objects given to a
ref after prune began to read, of which the ref's reflog says nothing, or which
had been moved before). `ReachableKept` exempts what is reachable only through
those (`Unfindable`): such losses happen (section 5), and the property says that
there are no others.

### DeltaSearch

State. The fields of `struct thread_params` (same names), the private pointer of
`find_deltas` (`next`), where each thread and the main thread are, and how often
each item was searched. `mode` says which of the two variants runs; items are
objects or regions.

Actions. A critical section is one step. `Partition` cuts the list at path
boundaries, `Create` starts the threads one by one while the first ones run
already, `Scan` chooses an idle thread and a victim and moves the tail of its
segment, `Give` sets `data_ready` and signals, `Join` waits for a thread that got
nothing. `Check`, `Begin`, `Take`, `Finish`, `Wait` are the loop of a thread;
`RegionDone` is the other variant's, which counts a region only when it is done
and advances `regions` with it. A thread in `pthread_cond_wait` is in a state of
its own and leaves it only when signalled, so a lost signal would be noticed.
What a search does with an object (the window, the deltas) is left out.

## 3. Runs

`tlc -workers 2 -config X.cfg M` in this directory.

| Run | cfg | States | Shows |
|---|---|---|---|
| `pager` | `MCDiffPretty` | 11,183 | `FfiExclusive`, `RenderedInOrder`, `PagedComplete`, `QuitDropsDiff`, `SessionReleased`, `FailureReported`, `KilledOnlyAfterReaderStopped`, and every command `Terminates`, with q at any push and every failure of pipe, read and renderer; each command also with `die()` in `show_log` and a failing `fclose` |
| `utf8_chunks` | `MCUtf8Capture` | 3,372,400 | `HeldBack`, `Lossless`, `CodePointsWhole` for all streams of up to 6 byte classes |
| `lockfile` | `MCLockfile` | 321,098 | `MutualExclusion`, `FileWhole`, `NoStaleLock`, `PidFileNamesHolder`, refinement of `AtomicFile`, `LockReleased`, with failed writes, renames and permissions, signals outside windows and handlers, SIGKILL, and a holder that daemonizes |
| `refs` | `MCFilesRefs` | 887,391 | refinement of `RefStore`; `ReadsCurrent`, `ReflogNamesValue`, `DeletedStaysDeleted`, `LiveCommitsReferenced`, `TransactionsEnd`; one fault of any kind |
| `reftable` | `MCReftableStack` | 589,036 | refinement of `RefStore`; `ListSound`, `SnapshotReads`, `OperationsEnd`; one I/O error or SIGKILL |
| `prune` | `MCObjectPrune` | 269,339 | `ReachableKept`, `RecentKept`, `WritesComplete`; refs with and without reflogs, one failing `utime()` |
| `delta_threads` | `MCDeltaSearch` | 594,449 | `EachOnce`, `CompleteWhenDone`, `SearchEnds` for both variants of the search |
| `lock_timeout` | `MCLockTimeout` | 5,635 | `TimeoutNotEarly`, `QuadraticBackoff`, `OverrunBounded`, `TimeoutReturns` |
| `pager_after_quit` | `MCDiffPrettyQuit` | — | violated: see finding 1 |
| `pager_die_in_capture` | `MCDiffPrettyFree` | — | violated: see finding 2 |
| `lockfile_signal` | `MCLockfileSignal` | — | violated: see finding 3 |
| `refs_pack_auto` | `MCFilesRefsAuto` | — | violated: see finding 4 |

Bounds and why they are enough.

* Pager: at most two commits, headers of up to 4 writes with a pipe of 2 (a
  writer blocks even after the reader took one item and stopped), diffs of 0 to 3 symbols, a merge shown per parent
  and one shown combined, a commit without a diff. State that survives from one
  commit to the next is only the flags and the session, so a second commit is
  where a mistake in them shows. The proofs remove the bounds.
* UTF-8: the longest code point has 4 bytes and at most 3 are held back, so 6
  bytes with a buffer of 5 contain every pair (held back, next read) that
  matters; `BufSize` 5 makes a full buffer with pending bytes reachable.
* Lock: two processes that compete and one born in `daemonize`; two lock files
  let every lock be followed by a second one. In `lockfile_signal` all three
  compete for up to three lock files: the victim's handler, the lock it removes,
  and the third that enters; its only fault is `"window"`. `MaxLocks` is the only bound in the guards.
* Timeout: `MaxMult` 18 lies between two squares, so the cap takes effect off
  the quadratic curve; timeouts from -1 to 40 lie below, at and above it.
  `MaxWaited` only cuts a call with timeout -1, which has no end; every other
  call returns before it.

* Files backend: r1 packed and r2 loose. One transaction moves r1 to r2 with
  checks; the other sets r1 and deletes r2 with ALLOW_FAILURE, or only checks.
  Together with a packer and a reader of r1 this gives: opposite lock orders, a
  deletion of a ref that is being packed or pruned, a packed value older than
  the loose one, a half-done deletion followed by a prune, and a reader that
  loses the race between the two files. `MaxFaults` 1 is one killed process or
  one failing call at any place.
* Reftable: a stack of two tables (a ref hidden by the second) or an empty one.
  Two transactions want r1 as it was, so that one loses; one compacts afterwards.
  Two `pack-refs`, one of them with `--auto`. `Crowds` lists which of the five
  processes run together, three at a time; all five at once is beyond reach.
  `Attempts` is 1 (3 in the code): a reload may give up earlier, which only adds
  behaviours, and it may still try again any number of times.
* Delta search: 15 items for three threads and a window of 1, so that segments
  of 5 are above the limit for stealing (4 objects, 2 regions), may be split
  several times and by different threads; three lists: no names, pairs of equal
  paths, and a run of equal paths at the end, which makes segments of unequal
  length and threads that never start.
* Prune: one old object that a writer needs for a commit on top of another, one
  old object that a recent one names. Three movers of the old commit at once:
  from r1 to r2, back from r2 to r1, and from r1 to r3, which keeps no reflog;
  so a move behind prune's back, one out of sight of any reflog, and one that
  deletes the reflog that told of another all occur, each beside the writer.

No run uses symmetry. Deadlock is checked in the pager, lock and timeout runs,
where an explicit `Terminated` / `Returned` / `Ended` step marks the states in
which the program may stop; in `refs`, `reftable`, `prune` and
`delta_threads` a state in which every command has ended has no successor, and
that commands do end is `TransactionsEnd`, `OperationsEnd` and `SearchEnds`.

Fairness.

* `DiffPretty`: weak fairness of each thread. Both are scheduled by the kernel,
  calls into the renderer are assumed to return, and the user leaves the pager
  at some point (`PageReturns`). Nothing says that a push is accepted or that q
  is ever pressed, and fairness does not include the failures `ShowLogDies` and
  `ReaderReadFails`: a blocked write or read may not count on them to get away.
* `Lockfile`: weak fairness of `Step(p)`, the steps a running process takes by
  itself. Nothing forces a process to take a lock, to exit, or to roll back. A
  process blocked for ever while holding a lock is outside `LockReleased`.
* `LockTimeout`: weak fairness of `Busy` and `Backoff` (the process runs, sleeps
  end). The attempt need never succeed.
* `FilesRefs`, `ReftableStack`: as long as some transaction or packer that has
  started can take a step, one of them does. This is less than the scheduler
  gives (it is fair to each process); it suffices because each operation takes
  finitely many steps. Nobody has to begin anything, to read, to die, or to
  remove a lock that a dead process left.

* `DeltaSearch`: weak fairness of each thread (the kernel schedules it, mutexes
  are held briefly). No spurious wakeup is needed for `SearchEnds`.

## 4. Proofs

`tlapm <M>Proofs.tla`. Eight modules, all obligations proved. Each has an
inductive invariant and one lemma per action.

**DiffPrettyProofs** (any jobs, pipe capacity and faults). None of the
properties is inductive: that a rendered item is number `i` depends on what is
in the pipe and the reader's buffer, and this depends on where both threads are.
`Inv` has seven parts: the types; `PlaceOK` (the current commit and diff exist);
`ReaderOK` (while the reader lives the main thread is inside the capture with a
live session, or, if `show_log` died, on its way out); `StopOK` (a reader stops
at the end of input or because the route is closed); `SessionOK` and `ErrorOK`
(the session and the report through `diff_pretty_end`); `OrderOK` (renderer,
buffer and pipe hold consecutive numbers that add up to `written`). `QuitOK` is a
separate invariant: after q the reader does not push again.
Theorems: `TypeCorrect`, `RenderingInOrder`, `SessionIsReleased`,
`FailuresAreReported`, `OnlyQuitOrFailureKills` and the action property
`QuitDropsTheRest` (after q neither thread gives the renderer anything, and no
diff symbol goes to the terminal) for every command; `PagerShowsEverything` for those in which
`show_log` does not die; `FfiCallsExclude` if in addition `fclose` does not fail (both exceptions are
needed: finding 2, and the note on `fclose` below).

**Utf8CaptureProofs** (any input and any buffer larger than 3 bytes).
`PendingFits`, `ChunksLossless`, `NoCodePointSplit`, `TypeCorrect`. `NoCodePointSplit`
needs that every cut made so far lies between two code points, and that
the bytes pending begin at such a place; it is about positions in the input, so
no induction over the input is needed. The lemmas say that the backward
loop has a result (`CHOOSE` finds an index), that the suffix held back is
shorter than its first byte announces (the code's table against the reference
`CodePointLength`), and that cutting and joining sequences
gives back the whole.

**LockfileProofs** (any number of processes, children and lock files), assuming
that no signal falls in a window or in a handler. `Inv` says which process is responsible for
the lock file on disk (`Live`): it is unique, the lock is the inode it created,
its list says so (`ListOK`), inodes are fresh (`FreshOK`), what it is about to
commit was made from the current version (`WrittenOK`), and which process the pid
file names (`PidOK`). Theorems: `TypeCorrect`, `LockExcludes`, `ReadersSeeWholeFiles`,
`CruftRemoved`, `PidFileRight`, and `FileIsAtomic`: `Spec` implements
`AtomicFile` under the mapping content = the contents of the inode that the file
names, acked = the processes just past a successful `rename()`. `rename()` acts
on a name, so this is where a process could be told of success and have
installed somebody else's version.

**LockTimeoutProofs** (any timeouts, cap and initial backoff): `NeverTooEarly`,
`BackoffQuadratic`, `NeverMuchTooLate`. The strengthening is that time waited
and time remaining add up to the limit.

**DeltaSearchProofs** (any number of threads and items, any window, paths and
cuts). `EachSearchedOnce` and `SearchComplete`. `Inv` says what each thread has
left at each place (`ThreadOK`: a thread that has not begun its segment has all
of it, one that waits with `working` set has just been given its own), that the
thread being served waits for it (`TargetOK`), that `active_threads` counts those
that run or are not joined (`ActiveOK`), and the point of it all, `OwnersOK`: an
item has been searched and is nobody's, or has not and has exactly one owner.
That a non-empty set of numbers has a least element comes from the library's
well-foundedness theorem, which takes no operator as a parameter; it also gives
the existence of the cut points in `Partition`.

**ObjectPruneProofs** (any objects, links, writers, movers and reflogs, any
number of prune runs). `TypesHold`, `RecentIsKept`, `WrittenIsKept` and
`ReachableIsKept`, without hypotheses. What recent objects reach stays reached by
them until it is marked (`RecentInv`); what a writer has dealt with is recent and
not doomed, or one of the two known exceptions (`WrittenInv`). `ReachableIsKept`
rests on three facts: who changes a ref holds its lock, so that a mover knows
what it moves (`LockInv`); while prune reads, what a ref names was found, or is
not old, or will be read as a ref or in a reflog, or is astray (`FoundInv`); and
so what stayed reachable is marked, or reached from a recent object, or
`Unfindable` (`LiveInv`). `Closure` is the least closed set, so that these are
arguments about closed sets and not about lengths of paths.

**FilesRefsProofs** (any number of refs, transactions, readers, attempts and
plans). `ReadsAreCurrent`, `ReflogsNameValues`, `DeletionsLast`, and `FilesImplementRefStore`: `Spec` implements `RefStore` under
the mapping value = the loose value or else the packed one, applied = the refs a
transaction is done with or deletes late. All four assume `Whole`, which
excludes three things that the code allows and does not guard against, because
the properties fail there: `--auto` (finding 4), a value that comes back
(section 5), and two packers together with an interrupted deletion (section 5).
One packer with every fault, and any number of packers with faults other than a kill or a
failing unlink, are covered. `Inv` has, per process, how far it can be with each
ref (`TxnRef`, `PackRef`), which locks it must own for that (`HoldsRef`,
`HoldsPacked`), that what it read under the lock is still true (`TxnSees`), and
what its `packed-refs.new` contains (`TxnFile`, `PackFile`). Between processes:
a value still to be written is nowhere yet (`FreshInv`); what a packer is about
to pack is the value of the ref or a newer loose file will stay, and what it
packed is in `packed-refs` as long as it may prune (`PackersInv`); a reader that
found no loose file finds in `packed-refs` a value the ref had meanwhile, even
after a packer's rename (`ReadOK`). The refinement adds one lemma per action:
each is a step of `RefStore` or changes none of its variables.

**ReftableStackProofs** (any number of refs, transactions, `pack-refs` processes
and readers, any stack at first, all faults; `Attempts` at least 1, as the code
compares the deadline only after the third attempt). `ListIsSound`,
`ReadsAreSnapshots` and `ReftableImplementsRefStore`, without further
hypotheses. The parts of `Inv`: a stack that a list or a handle names is `Sound`
(its tables were written, are of rising update index, and none is `Unlisted`,
that is, still to be committed or installed by its writer, so that what they
contain does not change any more); whoever is past its check holds the list lock
and has an up-to-date handle, and whoever installs a merged table holds it and
finds its tables in the list (`ListLockOK`); which tables a compaction has
locked, from the last one down, and that those it unlinks are not listed
(`TableLocksOK`); what was written (`WrittenOK`); and that a table which a
reload misses or leaves out is not in the list (`HandleOK`), so that neither the
unlinking of old tables in `SwitchTables` nor a reader's failure can concern a
listed one. Tables that others have locked stay in the list and neighbours
whatever is replaced or appended. A reader's snapshot needs `ReadInv`: the names
it opens were the list at a moment of the read, and `View` of them is still what
it was. The refinement needs `StoreInv`: tables that are merged stay in the list,
and at its bottom if they were there, which is what makes it right to leave out
deletions when the range begins at the first table; and the values that a
transaction was told to expect are there until it commits. `NewestConcat` says
how the view of a stack comes from the views of its parts; with it `ReplacedView`
shows that the merged table shows what its parts showed.

Only model-checked: the liveness properties (`Terminates`, `LockReleased`,
`TimeoutReturns`, `TransactionsEnd`, `OperationsEnd`, `SearchEnds`), since
fairness is out of the prover's reach; `WritesComplete`, of which `WrittenIsKept`
proves the part about the objects a writer dealt with itself (that the ones it
builds on are still there depends on who else keeps them reachable); and
`LiveCommitsReferenced`, which is not true of every plan: a transaction that
copies a ref without checking its old value may copy a stale one.

## 5. Findings

1. *`pager_after_quit`.* `diff-pretty.c:111` keeps the native route selected
   after q "so Git does not fall back to writing the rest of the diff directly
   to the terminal". Diff symbols are dropped as intended (`QuitDropsDiff`), but
   `diff_pretty_capture_begin` returns 0 after q and `show_log` then writes to
   stdout. `git log` leaves its loop after q; the loop of `git show` over
   several objects does not, so the header of the next commit is written to the
   terminal.
2. *`pager_die_in_capture`.* If `show_log` dies during a capture, `exit()` runs
   `diff_pretty_end`, which frees the session although the reader thread may be
   inside `diff_pretty_push_patch`.
3. *`lockfile_signal`.* `delete_tempfile` and `rename_tempfile` take the entry
   off the list only after `unlink()`/`rename()` (`tempfile.c:369`, `:348`), while
   `lockfile.h` promises mutual exclusion. In the trace one process rolls back:
   it has unlinked its lock, and a signal comes before `deactivate_tempfile`. By
   the time its handler runs through the list another process has taken the
   lock; the handler unlinks that one's file, and a third process enters. A
   second signal inside the handler, whose own `unlink` leaves the entry active
   (`tempfile.c:83`), has the same effect.
4. *`refs_pack_auto`.* `pack-refs --auto` counts the loose refs before it locks
   `packed-refs` (`files-backend.c:1440`) and then packs what it had read
   (`:1480`). A ref deleted in between comes back with its old value, which the
   comment at `:3053` says the lock prevents. Without `--auto` the refs are read
   under the lock, and the run `refs` finds nothing of the kind.

Observations that no run states as a violation:

* After a failed push `diff_pretty_active()` is false, so the command's own
  checks skip `diff_pretty_end`; the rest of the diff goes to the terminal, the
  error is printed only by the atexit handler and the exit status is 0.
  (`FailureReported` asks for the message, not the status.)
* When the reader stops after q, the next write of `show_log` raises SIGPIPE at
  its default action: Git is killed, no exit handler runs, and the session is not
  freed by it (`KilledOnlyAfterReaderStopped`; `SessionReleased` is about exits).
* Combined diffs are written to stdout although a session is active.
* If `fclose` fails, `diff_pretty_last_error` is called before the join, while
  the reader may be inside a push.
* After `daemonize` the pid file names a process that has exited. Of the callers
  only `maintenance_run_tasks` (`builtin/gc.c:1786-1827`) holds a lock of
  `lockfile.c` across it; when that lock is taken it prints a warning of its own,
  so that `unable_to_lock_message` (`lockfile.c:281-285`), which would call such
  a lock stale, is not reached from there.
* A signal between `open(O_EXCL)` and `activate_tempfile` leaves a stale lock.
* Files backend: a deletion first removes the packed version, then the loose
  file. If it stops in between the ref still exists; a packer that had packed
  the ref before may prune the loose file later, which completes the deletion
  after its transaction has failed (`"late"` in `FilesRefs`, and the reason why
  `RefStore` lets a failed transaction still delete). A lock-free reader may
  also see the ref as missing while the deletion is half done.
* With two packers such an interrupted deletion can do worse: one removes the
  loose file, which completes the deletion late, while the other, which had read
  the loose file under the lock before, writes its value to `packed-refs`: the
  ref comes back. It takes an interrupted deletion and two `pack-refs` at once,
  and is why the theorems about `FilesRefs` exclude that combination.
* `prune_ref` (`files-backend.c:1319`, "make sure nobody touched the ref")
  compares only the value. A ref that was packed, then deleted (which removes
  the packed version) and created again with the value it had, by a rename and a
  rename back between packing and `prune_ref`, counts as untouched: the loose
  file, by then its only copy, is removed. With `Reuse = TRUE` and these two
  transactions TLC finds the refinement of `RefStore` violated; the run `refs`
  has `Reuse = FALSE`.
* With `core.filesRefLockTimeout=-1` (wait for ever) opposite lock orders are a
  deadlock; `TransactionsEnd` is about finite timeouts.
* Reftable: after `tables.list` is replaced a transaction still reloads and
  compacts, and an I/O error there makes it report failure although it is
  committed. A reload that meets a changing list for 3 seconds returns success
  with the old tables (`SnapshotReads` exempts that).
* Prune: `lstat()` and `unlink()` are two steps; an object freshened in between
  is removed although its writer relies on it. If `utime()` fails the object is
  written again, but the new file is dropped because the name exists
  (`finalize_object_file_flags`), so the object stays old although the comment at
  `object-file.c:75` says it is not safe to skip the write. `WritesComplete`
  exempts these two cases and says there is no other.
* Prune reads refs and reflogs one by one, and a commit can be hidden from it
  although it is referenced all the time: moved to a ref that prune has read
  already and that keeps no reflog (any ref, in a bare repository with default
  settings; a ref outside the logged namespaces in others), or moved twice while
  prune reads, the second move deleting the reflog that told of the first; or
  given to a ref by a writer whose `utime()` had failed. If the commit is old,
  prune removes it. `ReachableKept` exempts these cases (`Unfindable`) and says
  that there is no other.

## 6. Plan

Modelled so far: the pager, lock files, both ref stores, loose objects against
prune, the delta search. Their safety properties and refinements are proved, but
for the two that section 4 names. What could still be proved:

1. `LiveCommitsReferenced`, from a hypothesis about the plans: a transaction that
   copies a value to another ref checks that the first still has it.
2. The refinement of `FilesRefs` without `Whole`, by a contract that states the
   three exceptions instead of excluding them.

Further modules, if the project grows: `SimpleIpc` (accept thread, worker pool,
FIFO, shutdown), `RunProcesses` (`run_processes_parallel`), `ParallelCheckout`.

## 7. Not modelled

The renderer behind the FFI (external, a prebuilt library): modelled only by
the results its calls can return. The external pager process, option parsing and
message texts. Formats and sequential algorithms (index, packs, the choice of deltas, diff and
merge engines, revision walk, config) whose correctness is about data rather
than steps. Network protocols. `mks_tempfile` and template directories (random
names), `reopen_tempfile`. Build scripts and the smoke test.

Of the ref stores: symbolic refs and HEAD, conflicts between `a` and `a/b` and
the removal of empty directories, initial transactions (`git clone`), reflog
expiry, worktrees and their stacks, log records of reftable, the file formats.
Of the object store: packs, cruft packs and `git repack`, `gc.pid`, alternates,
temporary files. Simple IPC, the subprocess pool and parallel checkout are
concurrent and could be modelled in the same way; they do not touch the
integrity of a repository.
