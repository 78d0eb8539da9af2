---------------------------- MODULE MCDiffPretty ----------------------------
(* Commands for model checking DiffPretty: up to two commits, headers      *)
(* longer than the pipe, diffs with and without changes, a merge shown     *)
(* against two parents and one shown as a combined diff.                   *)
EXTENDS DiffPretty

C(h, d, comb) == [header |-> h, diffs |-> d, combined |-> comb]

Plain   == C(2, <<1>>, FALSE)
Long    == C(4, <<2>>, FALSE)
Empty   == C(1, <<0>>, FALSE)
NoDiff  == C(2, <<>>, FALSE)
ByParent == C(1, <<1, 1>>, FALSE)
Combined == C(1, <<1>>, TRUE)

LogJobs ==
    {[cmd |-> "log", native |-> nat, commits |-> cs] :
        nat \in BOOLEAN,
        cs \in {<<Plain, Long>>, <<Empty, Plain>>, <<NoDiff, ByParent>>}}

ShowJobs ==
    {[cmd |-> "show", native |-> TRUE, commits |-> cs] :
        cs \in {<<Long>>, <<Plain, Combined>>, <<ByParent, Plain>>}}

DiffJobs ==
    {[cmd |-> "diff", native |-> nat, commits |-> <<c>>] :
        nat \in BOOLEAN, c \in {C(0, <<3>>, FALSE), C(0, <<0>>, FALSE)}}

(* The same commands, with each of the given sets of failures. *)
Failing(jobs, kinds) ==
    {[cmd |-> j.cmd, native |-> j.native, commits |-> j.commits, faults |-> f] :
        j \in jobs, f \in kinds}

LibraryFaults == {"begin", "pipe", "read", "push", "finish", "page"}

Commands == LogJobs \cup ShowJobs \cup DiffJobs
MCJobs    == Failing(Commands, {LibraryFaults, FaultKinds})
MCDieJobs == Failing(Commands, {FaultKinds})

(* git show of two commits with one parent each. *)
MCShowTwo ==
    {[cmd |-> "show", native |-> TRUE, commits |-> <<Plain, Plain>>,
      faults |-> LibraryFaults]}
=============================================================================
