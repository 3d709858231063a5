---------------------------- MODULE ModelSetup -----------------------------
(***************************************************************************)
(* The model setup server of the launchers (scripts/model_setup_server.py): *)
(* a page on localhost starts, cancels and resumes the download of a model, *)
(* whose files are the shards of one set.  HTTP requests run on threads of *)
(* their own; a download runs on one more.                                 *)
(*                                                                         *)
(* A file is a number of chunks, and its content is what the server sends, *)
(* so only lengths are kept: of the finished file and of the .downloading  *)
(* one.  What the remote server does is nondeterministic: it fails, honours *)
(* a Range or not, hides the size, closes the connection early.  The       *)
(* process may end at any time, because finish() ends it or because its    *)
(* window is closed, and be started again; the files stay.  There is one   *)
(* process at a time, though free_port() would let a second one run.       *)
(* Recommendations, speeds and messages are left out.                      *)
(***************************************************************************)
EXTENDS Integers, Sequences, FiniteSets

CONSTANTS
    Files,     \* names of files
    Recs,      \* recommendations
    FilesOf,   \* the files of each, the shards in order
    Size,      \* chunks in each file
    Threads,   \* threads that may download
    Requests,  \* HTTP requests to cancel that are in progress
    NoFile, NoRec

ASSUME ConstantsAssumption ==
    /\ FilesOf \in [Recs -> Seq(Files)] /\ \A r \in Recs : FilesOf[r] # <<>>
    /\ Size \in [Files -> Nat \ {0}]
    /\ NoFile \notin Files /\ NoRec \notin Recs

VARIABLES
    disk,       \* chunks of the file itself, 0 when there is none
    partial,    \* chunks of its .downloading file
    selection,  \* what SELECTION_FILE names
    status,     \* Application.status
    cancelEvent,
    worker,     \* install() on each thread: see WorkerType
    canceling   \* how far each request to cancel is

vars == <<disk, partial, selection, status, cancelEvent, worker, canceling>>

Blank == [active |-> FALSE, complete |-> FALSE, stage |-> "idle"]
NoWork == [pc |-> "none", rec |-> NoRec, files |-> << >>, known |-> {}, i |-> 1, left |-> 0]

Installing == {t \in Threads : worker[t].pc # "none"}

\* complete_models(): the first shard of a set that is all there.  Sizes do
\* not matter, as long as they are not 0.
ShardSet(r) == {FilesOf[r][i] : i \in DOMAIN FilesOf[r]}
Installed(r) == \A f \in ShardSet(r) : disk[f] > 0

Unfinished(t) == worker[t].i <= Len(worker[t].files)
Current(t) == worker[t].files[worker[t].i]
Elems(s) == {s[i] : i \in DOMAIN s}

-----------------------------------------------------------------------------
(* The requests                                                            *)

\* mutated: a download that is still stopping does not count
MayStart_NotCanceling == ~(status.active /\ status.stage # "canceling")

MayStart == ~status.active

Start(r) ==
    /\ MayStart
    /\ \E t \in Threads \ Installing :
          worker' = [worker EXCEPT ![t] = [NoWork EXCEPT !.pc = "preflight", !.rec = r]]
    /\ status' = [Blank EXCEPT !.active = TRUE, !.stage = "preflight"]
    /\ cancelEvent' = FALSE
    /\ UNCHANGED <<disk, partial, selection, canceling>>

\* cancel() looks at the status, sets the event and changes the status, all
\* without the lock in between.
CancelChecks(q) ==
    /\ canceling[q] = "no" /\ status.active
    /\ canceling' = [canceling EXCEPT ![q] = "checked"]
    /\ UNCHANGED <<disk, partial, selection, status, cancelEvent, worker>>

CancelSets(q) ==
    /\ canceling[q] = "checked"
    /\ cancelEvent' = TRUE
    /\ canceling' = [canceling EXCEPT ![q] = "set"]
    /\ UNCHANGED <<disk, partial, selection, status, worker>>

CancelTells(q) ==
    /\ canceling[q] = "set"
    /\ status' = [status EXCEPT !.stage = "canceling"]
    /\ canceling' = [canceling EXCEPT ![q] = "no"]
    /\ UNCHANGED <<disk, partial, selection, cancelEvent, worker>>

-----------------------------------------------------------------------------
(* install()                                                               *)

\* mutated: an exception leaves the download active
Ended_Active(stage) == [status EXCEPT !.complete = (stage = "complete"), !.stage = stage]

\* The last update of a download
Ended(stage) ==
    [active |-> FALSE, complete |-> (stage = "complete"), stage |-> stage]

Ends(t, stage) ==
    /\ status' = Ended(stage)
    /\ worker' = [worker EXCEPT ![t] = NoWork]

Goes(t, pc) == worker' = [worker EXCEPT ![t].pc = pc]

\* disk_check
Preflight(t) ==
    /\ worker[t].pc = "preflight"
    /\ \/ Goes(t, "list") /\ status' = [status EXCEPT !.stage = "metadata"]
       \/ Ends(t, "error")
    /\ UNCHANGED <<disk, partial, selection, cancelEvent, canceling>>

\* repo_files: the shards that the repository has, in order; some may be missing
Listings(r) ==
    UNION {{[k \in 1 .. n |-> FilesOf[r][p[k]]] :
               p \in {q \in [1 .. n -> DOMAIN FilesOf[r]] :
                        \A j, k \in 1 .. n : j < k => q[j] < q[k]}} :
           n \in DOMAIN FilesOf[r]}

\* repo_files and remote_size, which may not learn the size of any file
ListFiles(t) ==
    /\ worker[t].pc = "list"
    /\ \/ \E files \in Listings(worker[t].rec) : \E known \in SUBSET Elems(files) :
             worker' = [worker EXCEPT ![t].pc = "next", ![t].files = files, ![t].known = known]
          /\ UNCHANGED status
       \/ Ends(t, "error")
    /\ UNCHANGED <<disk, partial, selection, cancelEvent, canceling>>

AlreadyThere(t) ==
    LET f == Current(t) IN
    disk[f] > 0 /\ (f \in worker[t].known => disk[f] = Size[f])

NextFile(t) ==
    /\ worker[t].pc = "next"
    /\ \/ ~Unfinished(t) /\ Goes(t, "select") /\ UNCHANGED status
       \/ Unfinished(t) /\ cancelEvent /\ Ends(t, "canceled")
       \/ /\ Unfinished(t) /\ ~cancelEvent /\ AlreadyThere(t)
          /\ worker' = [worker EXCEPT ![t].i = @ + 1]
          /\ UNCHANGED status
       \/ /\ Unfinished(t) /\ ~cancelEvent /\ ~AlreadyThere(t)
          /\ Goes(t, "connect") /\ UNCHANGED status
    /\ UNCHANGED <<disk, partial, selection, cancelEvent, canceling>>

\* mutated: the answer is appended whether it is a part or the whole
Restarted_Appends(f, from) == partial[f]

\* What the .downloading file holds once it is open, if the answer begins at
\* `from`: "wb" unless the server answered 206
Restarted(f, from) == from

\* A server answers a Range with 206, or 200 and the whole file, or 416 when
\* nothing is left of it; it may fail.
Connect(t) ==
    LET f == Current(t) IN
    /\ worker[t].pc = "connect"
    /\ \/ \E from \in {0, partial[f]} :
             /\ from < Size[f]
             /\ partial' = [partial EXCEPT ![f] = Restarted(f, from)]
             /\ worker' = [worker EXCEPT ![t].pc = "read", ![t].left = Size[f] - from]
             /\ UNCHANGED status
       \/ Ends(t, "error") /\ UNCHANGED partial
    /\ UNCHANGED <<disk, selection, cancelEvent, canceling>>

\* The event is looked at before each read, which may take long.
LookAtEvent(t) ==
    /\ worker[t].pc = "read"
    /\ \/ ~cancelEvent /\ Goes(t, "reading") /\ UNCHANGED status
       \/ cancelEvent /\ Ends(t, "canceled")
    /\ UNCHANGED <<disk, partial, selection, cancelEvent, canceling>>

ReadChunk(t) ==
    /\ worker[t].pc = "reading" /\ worker[t].left > 0
    /\ partial' = [partial EXCEPT ![Current(t)] = @ + 1]
    /\ worker' = [worker EXCEPT ![t].pc = "read", ![t].left = @ - 1]
    /\ status' = [status EXCEPT !.stage = "download"]
    /\ UNCHANGED <<disk, selection, cancelEvent, canceling>>

ReadFails(t) ==
    /\ worker[t].pc = "reading"
    /\ Ends(t, "error")
    /\ UNCHANGED <<disk, partial, selection, cancelEvent, canceling>>

\* The connection ends, at the end of the file or before.  read() does not
\* tell them apart.
EndOfFile(t) ==
    LET f == Current(t) IN
    /\ worker[t].pc = "reading"
    /\ IF partial[f] = 0 THEN Ends(t, "error") /\ UNCHANGED <<disk, partial>>
       ELSE /\ disk' = [disk EXCEPT ![f] = partial[f]]
            /\ partial' = [partial EXCEPT ![f] = 0]
            /\ worker' = [worker EXCEPT ![t].pc = "next", ![t].i = @ + 1]
            /\ UNCHANGED status
    /\ UNCHANGED <<selection, cancelEvent, canceling>>

\* mutated: what the repository lists counts as the set
Complete_Listed(t) == \A f \in Elems(worker[t].files) : disk[f] > 0

\* complete_models() has the set, whoever downloaded its shards, and its first
\* shard is one that the repository lists.
Complete(t) ==
    /\ FilesOf[worker[t].rec][1] \in Elems(worker[t].files)
    /\ Installed(worker[t].rec)

\* The write may fail, when the selection was emptied or before.
Select(t) ==
    /\ worker[t].pc = "select"
    /\ \/ /\ Complete(t)
          /\ selection' = FilesOf[worker[t].rec][1]
          /\ Goes(t, "report") /\ UNCHANGED status
       \/ /\ Complete(t)
          /\ selection' \in {selection, NoFile}
          /\ Ends(t, "error")
       \/ ~Complete(t) /\ Ends(t, "error") /\ UNCHANGED selection
    /\ UNCHANGED <<disk, partial, cancelEvent, canceling>>

Report(t) ==
    /\ worker[t].pc = "report"
    /\ Ends(t, "complete")
    /\ UNCHANGED <<disk, partial, selection, cancelEvent, canceling>>

Install(t) ==
    \/ Preflight(t) \/ ListFiles(t) \/ NextFile(t) \/ Connect(t) \/ LookAtEvent(t)
    \/ ReadChunk(t) \/ ReadFails(t) \/ EndOfFile(t) \/ Select(t) \/ Report(t)

-----------------------------------------------------------------------------
\* The process ends, its threads with it, and another is started.  A crash
\* while SELECTION_FILE is written leaves it empty.
Restart ==
    /\ status' = Blank
    /\ cancelEvent' = FALSE
    /\ worker' = [t \in Threads |-> NoWork]
    /\ canceling' = [q \in Requests |-> "no"]
    /\ \/ UNCHANGED selection
       \/ selection' = NoFile /\ \E t \in Threads : worker[t].pc = "report"
    /\ UNCHANGED <<disk, partial>>

Init ==
    /\ disk = [f \in Files |-> 0]
    /\ partial = [f \in Files |-> 0]
    /\ selection = NoFile
    /\ status = Blank
    /\ cancelEvent = FALSE
    /\ worker = [t \in Threads |-> NoWork]
    /\ canceling = [q \in Requests |-> "no"]

Cancel(q) == CancelChecks(q) \/ CancelSets(q) \/ CancelTells(q)

Next ==
    \/ \E r \in Recs : Start(r)
    \/ \E q \in Requests : Cancel(q)
    \/ \E t \in Threads : Install(t)
    \/ Restart

Spec == Init /\ [][Next]_vars

\* A connection that says nothing for 45 s raises an exception, so a thread
\* that downloads goes on, and so does a request that has been read.
FairSpec ==
    /\ Spec
    /\ \A t \in Threads : WF_vars(Install(t))
    /\ \A q \in Requests : WF_vars(CancelSets(q) \/ CancelTells(q))

-----------------------------------------------------------------------------
(* Properties                                                              *)

WorkerType ==
    [pc : {"none", "preflight", "list", "next", "connect", "read", "reading", "select", "report"},
     rec : Recs \cup {NoRec}, files : Seq(Files), known : SUBSET Files, i : Nat, left : Nat]

\* The type invariant; a file is never longer than what the server has, though
\* it was downloaded in parts, by several processes.
TypeOK ==
    /\ disk \in [Files -> Nat] /\ partial \in [Files -> Nat]
    /\ \A f \in Files : disk[f] <= Size[f] /\ partial[f] <= Size[f]
    /\ selection \in Files \cup {NoFile}
    /\ status \in [active : BOOLEAN, complete : BOOLEAN,
                   stage : {"idle", "preflight", "metadata", "download", "canceling",
                            "complete", "canceled", "error"}]
    /\ cancelEvent \in BOOLEAN
    /\ worker \in [Threads -> WorkerType]
    /\ canceling \in [Requests -> {"no", "checked", "set"}]

\* Two downloads never run at once, whatever is canceled and started again:
\* they would append to the same file.
OneWorker == Cardinality(Installing) <= 1

\* SELECTION_FILE never names a set of shards that is not all there, nor does
\* the page say that such a model is ready.
SelectionIsInstalled ==
    /\ selection # NoFile =>
          \E r \in Recs : selection = FilesOf[r][1] /\ Installed(r)
    /\ status.complete => \E r \in Recs : Installed(r)

\* "Partial progress was saved": a .downloading file gets shorter only when
\* the server does not send the part asked for, or when it becomes the file.
ProgressIsKept ==
    [][\A f \in Files :
          partial'[f] < partial[f] =>
             \/ disk'[f] = partial[f]
             \/ \E t \in Threads : worker[t].pc = "connect" /\ Connect(t)]_vars

\* A download that is active ends, with one outcome or another.
DownloadEnds == status.active ~> ~status.active

\* A cancellation that the page shows has an outcome too.
CancelEnds == (status.stage = "canceling") ~> (status.stage # "canceling")

\* The file of a model that is ready is whole.
ReadyIsWhole ==
    status.complete => \E r \in Recs : \A f \in ShardSet(r) : disk[f] = Size[f]
=============================================================================
