-------------------------- MODULE ModelSetupProofs --------------------------
(***************************************************************************)
(* What a download of ModelSetup keeps true, for any recommendations and   *)
(* files, any number of threads and of requests to cancel, and whatever    *)
(* the remote server answers.                                              *)
(***************************************************************************)
EXTENDS ModelSetup, FiniteSetTheorems, TLAPS

Busy(t) == worker[t].pc # "none"
InFile(t) == worker[t].pc \in {"connect", "read", "reading"}

\* One thread at most, and the status says so, whatever cancel() writes in it.
Exclusive ==
    /\ \A t, u \in Threads : Busy(t) /\ Busy(u) => t = u
    /\ \A t \in Threads : Busy(t) => status.active /\ worker[t].rec \in Recs /\ worker[t].i > 0

\* What is there and what is still to come make no more than the file.
Fits ==
    \A t \in Threads : InFile(t) =>
        /\ Unfinished(t)
        /\ worker[t].pc # "connect" => partial[Current(t)] + worker[t].left <= Size[Current(t)]

AboutToReport == \A t \in Threads : worker[t].pc = "report" => Installed(worker[t].rec)

\* The inductive invariant
Inv == TypeOK /\ Exclusive /\ Fits /\ AboutToReport /\ SelectionIsInstalled

-----------------------------------------------------------------------------
\* The files of a recommendation are files.
LEMMA FilesAreFiles ==
    ASSUME NEW r \in Recs
    PROVE  /\ Len(FilesOf[r]) \in Nat \ {0} /\ DOMAIN FilesOf[r] = 1 .. Len(FilesOf[r])
           /\ \A i \in 1 .. Len(FilesOf[r]) : FilesOf[r][i] \in Files
           /\ ShardSet(r) \subseteq Files
BY ConstantsAssumption DEF ShardSet

\* What a repository lists are files of the recommendation, in a sequence.
LEMMA ListedAreFiles ==
    ASSUME NEW r \in Recs, NEW files \in Listings(r)
    PROVE  files \in Seq(Files) /\ Elems(files) \subseteq Files
<1>1. PICK n \in DOMAIN FilesOf[r] :
        \E p \in [1 .. n -> DOMAIN FilesOf[r]] : files = [k \in 1 .. n |-> FilesOf[r][p[k]]]
  BY DEF Listings
<1>2. PICK p \in [1 .. n -> DOMAIN FilesOf[r]] : files = [k \in 1 .. n |-> FilesOf[r][p[k]]]
  BY <1>1
<1>3. n \in Nat /\ \A k \in 1 .. n : FilesOf[r][p[k]] \in Files
  BY FilesAreFiles
<1>4. files \in Seq(Files)
  BY <1>2, <1>3
<1> QED BY <1>4 DEF Elems

LEMMA CurrentIsFile ==
    ASSUME TypeOK, Exclusive, NEW t \in Threads, Busy(t), Unfinished(t)
    PROVE  Current(t) \in Files
<1>1. worker[t].files \in Seq(Files) /\ worker[t].i \in Nat /\ worker[t].i > 0
  BY DEF TypeOK, Exclusive, WorkerType
<1> QED BY <1>1 DEF Current, Unfinished

\* A model that is installed stays so as long as no file gets empty.
LEMMA StaysInstalled ==
    ASSUME \A f \in Files : disk[f] > 0 => disk'[f] > 0
    PROVE  \A r \in Recs : Installed(r) => Installed(r)'
BY FilesAreFiles DEF Installed, ShardSet

StatusType ==
    [active : BOOLEAN, complete : BOOLEAN,
     stage : {"idle", "preflight", "metadata", "download", "canceling", "complete", "canceled", "error"}]

LEMMA NothingIsTyped == NoWork \in WorkerType /\ Blank \in StatusType
<1>1. NoWork \in WorkerType
  BY DEF NoWork, WorkerType
<1>2. Blank \in StatusType
  BY DEF Blank, StatusType
<1> QED BY <1>1, <1>2

LEMMA InvInit == Init => Inv
<1> SUFFICES ASSUME Init PROVE Inv OBVIOUS
<1>1. TypeOK
  <2>1. disk \in [Files -> Nat] /\ partial \in [Files -> Nat]
    BY DEF Init
  <2>2. \A f \in Files : disk[f] <= Size[f] /\ partial[f] <= Size[f]
    BY ConstantsAssumption DEF Init
  <2>3. worker \in [Threads -> WorkerType]
    BY NothingIsTyped DEF Init
  <2>4. status \in StatusType /\ selection \in Files \cup {NoFile} /\ cancelEvent \in BOOLEAN
    BY NothingIsTyped DEF Init
  <2>5. canceling \in [Requests -> {"no", "checked", "set"}]
    BY DEF Init
  <2> QED BY <2>1, <2>2, <2>3, <2>4, <2>5 DEF TypeOK, StatusType
<1>2. Exclusive /\ Fits /\ AboutToReport
  BY DEF Init, Exclusive, Fits, AboutToReport, NoWork, Busy, InFile
<1>3. SelectionIsInstalled
  BY DEF Init, SelectionIsInstalled, Blank
<1> QED BY <1>1, <1>2, <1>3 DEF Inv

-----------------------------------------------------------------------------
(* The requests                                                            *)

LEMMA StartKeeps == ASSUME Inv, NEW r \in Recs, Start(r) PROVE Inv'
<1> USE DEF Inv
<1>1. PICK t \in Threads \ Installing :
        worker' = [worker EXCEPT ![t] = [NoWork EXCEPT !.pc = "preflight", !.rec = r]]
  BY DEF Start
<1>2. \A u \in Threads : ~Busy(u)
  BY DEF Start, MayStart, Exclusive
<1> DEFINE W == [NoWork EXCEPT !.pc = "preflight", !.rec = r]
<1>3. W \in WorkerType /\ W.pc = "preflight" /\ W.rec = r /\ W.i = 1
  <2>1. NoWork \in WorkerType /\ NoWork.i = 1
    BY NothingIsTyped DEF NoWork
  <2> QED BY <2>1 DEF WorkerType
<1>4. worker \in [Threads -> WorkerType]
  BY DEF TypeOK
<1> HIDE DEF W
<1>5. worker' \in [Threads -> WorkerType] /\ worker'[t] = W
      /\ \A u \in Threads \ {t} : worker'[u] = worker[u]
  BY <1>1, <1>3, <1>4 DEF W
<1>6. status' \in StatusType /\ status'.active /\ ~status'.complete
  BY DEF Start, Blank, StatusType
<1>7. TypeOK'
  BY <1>5, <1>6 DEF TypeOK, Start, StatusType
<1>8. Exclusive' /\ Fits' /\ AboutToReport'
  BY <1>2, <1>3, <1>5, <1>6 DEF Exclusive, Fits, AboutToReport, Busy, InFile
<1>9. SelectionIsInstalled'
  BY <1>6 DEF SelectionIsInstalled, Installed, Start
<1> QED BY <1>7, <1>8, <1>9

LEMMA CancelKeeps == ASSUME Inv, NEW q \in Requests, Cancel(q) PROVE Inv'
<1> USE DEF Inv
<1>1. UNCHANGED <<disk, partial, selection, worker>>
  BY DEF Cancel, CancelChecks, CancelSets, CancelTells
<1>2. status \in StatusType /\ status' \in StatusType
      /\ status'.active = status.active /\ status'.complete = status.complete
  BY DEF Cancel, CancelChecks, CancelSets, CancelTells, TypeOK, StatusType
<1>3. canceling' \in [Requests -> {"no", "checked", "set"}] /\ cancelEvent' \in BOOLEAN
  BY DEF Cancel, CancelChecks, CancelSets, CancelTells, TypeOK
<1>4. TypeOK'
  BY <1>1, <1>2, <1>3 DEF TypeOK, StatusType
<1>5. Exclusive' /\ Fits' /\ AboutToReport'
  BY <1>1, <1>2 DEF Exclusive, Fits, AboutToReport, Busy, InFile, Unfinished, Current, Installed
<1>6. SelectionIsInstalled'
  BY <1>1, <1>2 DEF SelectionIsInstalled, Installed
<1> QED BY <1>4, <1>5, <1>6

LEMMA RestartKeeps == ASSUME Inv, Restart PROVE Inv'
<1> USE DEF Inv
<1>1. TypeOK'
  <2>1. worker' \in [Threads -> WorkerType] /\ status' \in StatusType
    BY NothingIsTyped DEF Restart
  <2>2. canceling' \in [Requests -> {"no", "checked", "set"}] /\ cancelEvent' \in BOOLEAN
    BY DEF Restart
  <2>3. UNCHANGED <<disk, partial>> /\ selection' \in Files \cup {NoFile}
    BY DEF Restart, TypeOK
  <2> QED BY <2>1, <2>2, <2>3 DEF TypeOK, StatusType
<1>2. \A t \in Threads : worker'[t].pc = "none"
  BY DEF Restart, NoWork
<1>3. Exclusive' /\ Fits' /\ AboutToReport'
  BY <1>2 DEF Exclusive, Fits, AboutToReport, Busy, InFile
<1>4. SelectionIsInstalled'
  BY DEF SelectionIsInstalled, Installed, Restart, Blank
<1> QED BY <1>1, <1>3, <1>4

-----------------------------------------------------------------------------
(* The download                                                            *)

\* What a step of the one thread that downloads must do for the invariant; w
\* is what it makes of itself.
LEMMA OneMoves ==
    ASSUME Inv, NEW t \in Threads, Busy(t), NEW w \in WorkerType,
           worker' = [worker EXCEPT ![t] = w],
           w.pc # "none" => status'.active /\ w.rec \in Recs /\ w.i > 0,
           w.pc \in {"connect", "read", "reading"} => w.i <= Len(w.files),
           w.pc \in {"read", "reading"} =>
               partial'[w.files[w.i]] + w.left <= Size[w.files[w.i]],
           w.pc = "report" => Installed(w.rec)'
    PROVE  worker' \in [Threads -> WorkerType] /\ Exclusive' /\ Fits' /\ AboutToReport'
<1> USE DEF Inv
<1>1. worker \in [Threads -> WorkerType] /\ \A u \in Threads \ {t} : worker[u].pc = "none"
  BY DEF TypeOK, Exclusive, Busy
<1>2. worker' \in [Threads -> WorkerType] /\ worker'[t] = w
      /\ \A u \in Threads \ {t} : worker'[u].pc = "none"
  BY <1>1
<1>3. Exclusive'
  BY <1>2 DEF Exclusive, Busy
<1>4. Fits'
  BY <1>2 DEF Fits, InFile, Unfinished, Current
<1>5. AboutToReport'
  <2> SUFFICES ASSUME NEW u \in Threads, worker'[u].pc = "report" PROVE Installed(w.rec)' /\ worker'[u] = w
    BY DEF AboutToReport, Installed
  <2> QED BY <1>2
<1> QED BY <1>2, <1>3, <1>4, <1>5

\* Steps that touch neither the files nor the selection.
FilesKept == UNCHANGED <<disk, partial, selection, cancelEvent, canceling>>

LEMMA SelectionKept ==
    ASSUME Inv, UNCHANGED <<disk, selection>>, status'.complete => status.complete
    PROVE  SelectionIsInstalled'
BY DEF Inv, SelectionIsInstalled, Installed

LEMMA EndKeeps ==
    ASSUME Inv, NEW t \in Threads, Busy(t), NEW stage \in {"canceled", "error", "complete"},
           Ends(t, stage), UNCHANGED <<disk, partial, cancelEvent, canceling>>,
           selection' \in Files \cup {NoFile}, SelectionIsInstalled'
    PROVE  Inv'
<1>1. status' \in StatusType
  BY DEF Ends, Ended, StatusType
<1>2. worker' \in [Threads -> WorkerType] /\ Exclusive' /\ Fits' /\ AboutToReport'
  BY OneMoves, NothingIsTyped DEF Ends, NoWork
<1>3. TypeOK'
  BY <1>1, <1>2 DEF Inv, TypeOK, StatusType
<1> QED BY <1>2, <1>3 DEF Inv

LEMMA FailureKeeps ==
    ASSUME Inv, NEW t \in Threads, Busy(t), NEW stage \in {"canceled", "error"},
           Ends(t, stage), FilesKept
    PROVE  Inv'
<1>1. ~status'.complete
  BY DEF Ends, Ended
<1>2. SelectionIsInstalled'
  BY <1>1, SelectionKept DEF FilesKept
<1> QED BY <1>2, EndKeeps DEF FilesKept, Inv, TypeOK

LEMMA WorkerFacts ==
    ASSUME Inv, NEW t \in Threads, Busy(t)
    PROVE  /\ worker[t] \in WorkerType /\ worker[t].rec \in Recs /\ status.active
           /\ worker[t].i \in Nat /\ worker[t].i > 0 /\ worker[t].left \in Nat
BY DEF Inv, TypeOK, Exclusive, WorkerType

\* A step that changes no file.  FilesKept is what install() leaves alone when
\* it only goes on to its next line.
LEMMA MoveKeeps ==
    ASSUME Inv, NEW t \in Threads, Busy(t), NEW w \in WorkerType, w.rec = worker[t].rec, w.i > 0,
           worker' = [worker EXCEPT ![t] = w],
           FilesKept, status' \in StatusType, status'.active, status'.complete => status.complete,
           w.pc \in {"connect", "read", "reading"} => w.i <= Len(w.files),
           w.pc \in {"read", "reading"} =>
               partial[w.files[w.i]] + w.left <= Size[w.files[w.i]],
           w.pc # "report"
    PROVE  Inv'
<1>1. partial' = partial
  BY DEF FilesKept
<1>2. worker' \in [Threads -> WorkerType] /\ Exclusive' /\ Fits' /\ AboutToReport'
  BY <1>1, OneMoves, WorkerFacts
<1>3. SelectionIsInstalled'
  BY SelectionKept DEF FilesKept
<1>4. TypeOK'
  BY <1>2 DEF Inv, TypeOK, StatusType, FilesKept
<1> QED BY <1>2, <1>3, <1>4 DEF Inv

LEMMA StatusFacts ==
    ASSUME Inv, NEW t \in Threads, Busy(t),
           NEW stage \in {"metadata", "download"},
           status' = status \/ status' = [status EXCEPT !.stage = stage]
    PROVE  status' \in StatusType /\ status'.active /\ (status'.complete => status.complete)
<1>1. status \in StatusType /\ status.active
  BY WorkerFacts DEF Inv, TypeOK, StatusType
<1> QED BY <1>1 DEF StatusType

LEMMA PreflightKeeps == ASSUME Inv, NEW t \in Threads, Preflight(t) PROVE Inv'
<1>1. Busy(t) /\ FilesKept
  BY DEF Preflight, Busy, FilesKept
<1>2. CASE Ends(t, "error")
  BY <1>1, <1>2, FailureKeeps
<1>3. CASE Goes(t, "list") /\ status' = [status EXCEPT !.stage = "metadata"]
  <2> DEFINE w == [worker[t] EXCEPT !.pc = "list"]
  <2>1. w \in WorkerType /\ w.rec = worker[t].rec /\ w.i > 0 /\ w.pc = "list"
    BY <1>1, WorkerFacts DEF WorkerType
  <2>2. worker' = [worker EXCEPT ![t] = w]
    BY <1>3 DEF Goes
  <2>3. status' \in StatusType /\ status'.active /\ (status'.complete => status.complete)
    BY <1>1, <1>3, StatusFacts
  <2> HIDE DEF w
  <2> QED BY <1>1, <2>1, <2>2, <2>3, MoveKeeps
<1> QED BY <1>2, <1>3 DEF Preflight

LEMMA ListFilesKeeps == ASSUME Inv, NEW t \in Threads, ListFiles(t) PROVE Inv'
<1>1. Busy(t) /\ FilesKept
  BY DEF ListFiles, Busy, FilesKept
<1>2. CASE Ends(t, "error")
  BY <1>1, <1>2, FailureKeeps
<1>3. ASSUME NEW files \in Listings(worker[t].rec), NEW known \in SUBSET Elems(files),
             worker' = [worker EXCEPT ![t].pc = "next", ![t].files = files, ![t].known = known],
             UNCHANGED status
      PROVE  Inv'
  <2> DEFINE w == [worker[t] EXCEPT !.pc = "next", !.files = files, !.known = known]
  <2>1. files \in Seq(Files) /\ known \subseteq Files
    <3>1. PICK r \in Recs : r = worker[t].rec
      BY <1>1, WorkerFacts
    <3> QED BY <1>3, <3>1, ListedAreFiles
  <2>2. w \in WorkerType /\ w.rec = worker[t].rec /\ w.i > 0 /\ w.pc = "next"
    BY <1>1, <2>1, WorkerFacts DEF WorkerType
  <2>3. worker' = [worker EXCEPT ![t] = w]
    BY <1>3
  <2>4. status' \in StatusType /\ status'.active /\ (status'.complete => status.complete)
    BY <1>1, <1>3, StatusFacts
  <2> HIDE DEF w
  <2> QED BY <1>1, <2>2, <2>3, <2>4, MoveKeeps
<1> QED BY <1>2, <1>3 DEF ListFiles

LEMMA NextFileKeeps == ASSUME Inv, NEW t \in Threads, NextFile(t) PROVE Inv'
<1>1. Busy(t) /\ FilesKept
  BY DEF NextFile, Busy, FilesKept
<1>2. CASE Ends(t, "canceled")
  BY <1>1, <1>2, FailureKeeps
<1>3. ASSUME NEW w \in WorkerType, worker' = [worker EXCEPT ![t] = w], UNCHANGED status,
             w.rec = worker[t].rec, w.i > 0, w.pc \in {"select", "next", "connect"},
             w.pc = "connect" => w.i <= Len(w.files)
      PROVE  Inv'
  <2>1. status' \in StatusType /\ status'.active /\ (status'.complete => status.complete)
    BY <1>1, <1>3, StatusFacts
  <2> QED BY <1>1, <1>3, <2>1, MoveKeeps
<1>4. CASE Goes(t, "select") /\ UNCHANGED status
  <2> DEFINE w == [worker[t] EXCEPT !.pc = "select"]
  <2>1. w \in WorkerType /\ w.rec = worker[t].rec /\ w.i > 0 /\ w.pc = "select"
    BY <1>1, WorkerFacts DEF WorkerType
  <2>2. worker' = [worker EXCEPT ![t] = w]
    BY <1>4 DEF Goes
  <2> HIDE DEF w
  <2> QED BY <1>3, <1>4, <2>1, <2>2
<1>5. CASE worker' = [worker EXCEPT ![t].i = @ + 1] /\ UNCHANGED status
  <2> DEFINE w == [worker[t] EXCEPT !.i = @ + 1]
  <2>1. w \in WorkerType /\ w.rec = worker[t].rec /\ w.i > 0 /\ w.pc = "next"
    BY <1>1, WorkerFacts DEF WorkerType, NextFile
  <2>2. worker' = [worker EXCEPT ![t] = w]
    BY <1>5
  <2> HIDE DEF w
  <2> QED BY <1>3, <1>5, <2>1, <2>2
<1>6. CASE Unfinished(t) /\ Goes(t, "connect") /\ UNCHANGED status
  <2> DEFINE w == [worker[t] EXCEPT !.pc = "connect"]
  <2>1. /\ w \in WorkerType /\ w.rec = worker[t].rec /\ w.files = worker[t].files
        /\ w.i = worker[t].i /\ w.i > 0 /\ w.pc = "connect"
    BY <1>1, WorkerFacts DEF WorkerType
  <2>2. worker' = [worker EXCEPT ![t] = w]
    BY <1>6 DEF Goes
  <2>3. w.i <= Len(w.files)
    BY <1>6, <2>1 DEF Unfinished
  <2> HIDE DEF w
  <2> QED BY <1>3, <1>6, <2>1, <2>2, <2>3
<1> QED BY <1>2, <1>4, <1>5, <1>6 DEF NextFile

\* Steps that change how long the .downloading file of the thread is.
LEMMA ContentKeeps ==
    ASSUME Inv, NEW t \in Threads, Busy(t), Unfinished(t), NEW w \in WorkerType,
           NEW n \in Nat, n <= Size[Current(t)],
           partial' = [partial EXCEPT ![Current(t)] = n],
           UNCHANGED <<disk, selection, cancelEvent, canceling>>,
           worker' = [worker EXCEPT ![t] = w],
           \/ w = NoWork
           \/ /\ w.rec = worker[t].rec /\ w.files = worker[t].files /\ w.i = worker[t].i
              /\ n + w.left <= Size[Current(t)]
              /\ w.pc \in {"read", "reading"} /\ status'.active,
           status' \in StatusType, status'.complete => status.complete
    PROVE  Inv'
<1>1. Current(t) \in Files
  BY CurrentIsFile DEF Inv
<1>2. partial' \in [Files -> Nat] /\ partial'[Current(t)] = n
      /\ \A f \in Files : partial'[f] <= Size[f]
  BY <1>1 DEF Inv, TypeOK
<1>3. worker' \in [Threads -> WorkerType] /\ Exclusive' /\ Fits' /\ AboutToReport'
  <2>1. CASE w = NoWork
    BY <2>1, OneMoves DEF NoWork
  <2>2. CASE w # NoWork
    <3>1. /\ w.rec = worker[t].rec /\ w.files = worker[t].files /\ w.i = worker[t].i
          /\ w.pc \in {"read", "reading"} /\ status'.active
          /\ n + w.left <= Size[Current(t)]
      BY <2>2
    <3>2. w.i <= Len(w.files) /\ w.files[w.i] = Current(t)
      BY <3>1 DEF Unfinished, Current
    <3> QED BY <1>2, <3>1, <3>2, OneMoves, WorkerFacts
  <2> QED BY <2>1, <2>2
<1>4. SelectionIsInstalled'
  BY SelectionKept
<1>5. TypeOK'
  BY <1>2, <1>3 DEF Inv, TypeOK, StatusType
<1> QED BY <1>3, <1>4, <1>5 DEF Inv

\* A download that is in a file has a file, which is no longer than the server's.
LEMMA InFileFacts ==
    ASSUME Inv, NEW t \in Threads, InFile(t)
    PROVE  /\ Busy(t) /\ Unfinished(t) /\ Current(t) \in Files
           /\ partial[Current(t)] \in Nat /\ Size[Current(t)] \in Nat /\ disk \in [Files -> Nat]
           /\ partial \in [Files -> Nat] /\ partial[Current(t)] <= Size[Current(t)]
<1>1. Busy(t) /\ Unfinished(t)
  BY DEF Inv, Fits, InFile, Busy
<1>2. Current(t) \in Files
  BY <1>1, CurrentIsFile DEF Inv
<1> QED BY <1>1, <1>2, ConstantsAssumption DEF Inv, TypeOK

LEMMA ConnectKeeps == ASSUME Inv, NEW t \in Threads, Connect(t) PROVE Inv'
<1> DEFINE f == Current(t)
<1>1. InFile(t)
  BY DEF Connect, InFile
<1>2. CASE Ends(t, "error") /\ UNCHANGED partial
  BY <1>1, <1>2, FailureKeeps, InFileFacts DEF Connect, FilesKept
<1>3. ASSUME NEW from \in {0, partial[f]}, from < Size[f],
             partial' = [partial EXCEPT ![f] = Restarted(f, from)],
             worker' = [worker EXCEPT ![t].pc = "read", ![t].left = Size[f] - from],
             UNCHANGED status
      PROVE  Inv'
  <2> DEFINE w == [worker[t] EXCEPT !.pc = "read", !.left = Size[f] - from]
  <2>1. from \in Nat /\ Size[f] - from \in Nat /\ from + (Size[f] - from) <= Size[f]
    BY <1>1, <1>3, InFileFacts
  <2>2. /\ w \in WorkerType /\ w.rec = worker[t].rec /\ w.files = worker[t].files
        /\ w.i = worker[t].i /\ w.pc = "read" /\ w.left = Size[f] - from
    BY <1>1, <2>1, WorkerFacts, InFileFacts DEF WorkerType
  <2>3. worker' = [worker EXCEPT ![t] = w]
    BY <1>3
  <2>4. status' \in StatusType /\ status'.active /\ (status'.complete => status.complete)
    BY <1>1, <1>3, StatusFacts, InFileFacts
  <2>5. partial' = [partial EXCEPT ![Current(t)] = from]
    BY <1>3 DEF Restarted
  <2>6. from + w.left <= Size[Current(t)] /\ from <= Size[Current(t)]
    BY <1>3, <2>1, <2>2, InFileFacts, <1>1
  <2> HIDE DEF w
  <2> QED BY <1>1, <2>1, <2>2, <2>3, <2>4, <2>5, <2>6, ContentKeeps, InFileFacts DEF Connect
<1> QED BY <1>2, <1>3 DEF Connect

LEMMA LookAtEventKeeps == ASSUME Inv, NEW t \in Threads, LookAtEvent(t) PROVE Inv'
<1>1. InFile(t) /\ worker[t].pc = "read"
  BY DEF LookAtEvent, InFile
<1>2. CASE Goes(t, "reading") /\ UNCHANGED status
  <2> DEFINE w == [worker[t] EXCEPT !.pc = "reading"]
  <2>1. /\ w \in WorkerType /\ w.rec = worker[t].rec /\ w.files = worker[t].files
        /\ w.i = worker[t].i /\ w.i > 0 /\ w.pc = "reading" /\ w.left = worker[t].left
    BY <1>1, WorkerFacts, InFileFacts DEF WorkerType
  <2>2. worker' = [worker EXCEPT ![t] = w]
    BY <1>2 DEF Goes
  <2>3. status' \in StatusType /\ status'.active /\ (status'.complete => status.complete)
    BY <1>1, <1>2, StatusFacts, InFileFacts
  <2>4. w.i <= Len(w.files) /\ partial[w.files[w.i]] + w.left <= Size[w.files[w.i]]
    BY <1>1, <2>1 DEF Inv, Fits, Unfinished, Current
  <2>5. FilesKept
    BY <1>2 DEF LookAtEvent, FilesKept
  <2> HIDE DEF w
  <2> QED BY <1>1, <2>1, <2>2, <2>3, <2>4, <2>5, MoveKeeps, InFileFacts
<1>3. CASE Ends(t, "canceled")
  BY <1>1, <1>3, FailureKeeps, InFileFacts DEF LookAtEvent, FilesKept
<1> QED BY <1>2, <1>3 DEF LookAtEvent

LEMMA ReadChunkKeeps == ASSUME Inv, NEW t \in Threads, ReadChunk(t) PROVE Inv'
<1>1. InFile(t) /\ worker[t].pc = "reading" /\ worker[t].left > 0
  BY DEF ReadChunk, InFile
<1> DEFINE w == [worker[t] EXCEPT !.pc = "read", !.left = @ - 1]
           n == partial[Current(t)] + 1
<1>2. worker[t].left \in Nat /\ partial[Current(t)] + worker[t].left <= Size[Current(t)]
  BY <1>1, WorkerFacts, InFileFacts DEF Inv, Fits
<1>3. /\ w \in WorkerType /\ w.rec = worker[t].rec /\ w.files = worker[t].files
      /\ w.i = worker[t].i /\ w.pc = "read" /\ w.left = worker[t].left - 1
  <2>1. worker[t] \in WorkerType /\ worker[t].left - 1 \in Nat
    BY <1>1, <1>2, WorkerFacts, InFileFacts
  <2> QED BY <2>1 DEF WorkerType
<1>4. n \in Nat /\ n <= Size[Current(t)] /\ n + w.left <= Size[Current(t)]
  BY <1>1, <1>2, <1>3, InFileFacts
<1>5. worker' = [worker EXCEPT ![t] = w] /\ partial' = [partial EXCEPT ![Current(t)] = n]
  BY DEF ReadChunk
<1>6. status' \in StatusType /\ status'.active /\ (status'.complete => status.complete)
  BY <1>1, StatusFacts, InFileFacts DEF ReadChunk
<1>7. UNCHANGED <<disk, selection, cancelEvent, canceling>>
  BY DEF ReadChunk
<1> HIDE DEF w, n
<1> QED BY <1>1, <1>3, <1>4, <1>5, <1>6, <1>7, ContentKeeps, InFileFacts

LEMMA ReadFailsKeeps == ASSUME Inv, NEW t \in Threads, ReadFails(t) PROVE Inv'
BY FailureKeeps DEF ReadFails, Busy, FilesKept

LEMMA EndOfFileKeeps == ASSUME Inv, NEW t \in Threads, EndOfFile(t) PROVE Inv'
<1> DEFINE f == Current(t)
<1>1. InFile(t)
  BY DEF EndOfFile, InFile
<1>2. CASE partial[f] = 0
  BY <1>1, <1>2, FailureKeeps, InFileFacts DEF EndOfFile, FilesKept
<1>3. CASE partial[f] # 0
  <2>1. /\ disk' = [disk EXCEPT ![f] = partial[f]] /\ partial' = [partial EXCEPT ![f] = 0]
        /\ worker' = [worker EXCEPT ![t].pc = "next", ![t].i = @ + 1]
        /\ UNCHANGED <<status, selection, cancelEvent, canceling>>
    BY <1>3 DEF EndOfFile
  <2> DEFINE w == [worker[t] EXCEPT !.pc = "next", !.i = @ + 1]
  <2>2. w \in WorkerType /\ w.rec = worker[t].rec /\ w.i > 0 /\ w.pc = "next"
    <3>1. worker[t] \in WorkerType /\ worker[t].i + 1 \in Nat \ {0}
      BY <1>1, WorkerFacts, InFileFacts
    <3>2. w \in WorkerType /\ w.i = worker[t].i + 1
      BY <3>1 DEF WorkerType
    <3>3. w.rec = worker[t].rec /\ w.pc = "next"
      BY <3>1 DEF WorkerType
    <3> QED BY <3>1, <3>2, <3>3
  <2>3. worker' = [worker EXCEPT ![t] = w]
    BY <2>1
  <2>4. disk' \in [Files -> Nat] /\ partial' \in [Files -> Nat]
        /\ \A g \in Files : disk'[g] <= Size[g] /\ partial'[g] <= Size[g]
    BY <1>1, <2>1, InFileFacts DEF Inv, TypeOK
  <2>5. \A g \in Files : disk[g] > 0 => disk'[g] > 0
    BY <1>1, <1>3, <2>1, InFileFacts
  <2>6. SelectionIsInstalled'
    <3>1. \A r \in Recs : Installed(r) => Installed(r)'
      BY <2>5, StaysInstalled
    <3>2. SelectionIsInstalled
      BY DEF Inv
    <3> QED BY <2>1, <3>1, <3>2 DEF SelectionIsInstalled
  <2> HIDE DEF w
  <2>7. worker' \in [Threads -> WorkerType] /\ Exclusive' /\ Fits' /\ AboutToReport'
    BY <1>1, <2>1, <2>2, <2>3, OneMoves, WorkerFacts, InFileFacts
  <2>8. TypeOK'
    BY <2>1, <2>4, <2>7 DEF Inv, TypeOK, StatusType
  <2> QED BY <2>6, <2>7, <2>8 DEF Inv
<1> QED BY <1>2, <1>3

LEMMA SelectKeeps == ASSUME Inv, NEW t \in Threads, Select(t) PROVE Inv'
<1>1. Busy(t) /\ UNCHANGED <<disk, partial, cancelEvent, canceling>>
  BY DEF Select, Busy
<1>2. CASE Ends(t, "error") /\ UNCHANGED selection
  BY <1>1, <1>2, FailureKeeps DEF FilesKept
<1>3. CASE /\ Complete(t) /\ selection' = FilesOf[worker[t].rec][1]
           /\ Goes(t, "report") /\ UNCHANGED status
  <2>1. /\ Installed(worker[t].rec) /\ selection' = FilesOf[worker[t].rec][1]
        /\ Goes(t, "report") /\ UNCHANGED status
    BY <1>3 DEF Complete
  <2>2. PICK w \in WorkerType : w = [worker[t] EXCEPT !.pc = "report"]
    BY <1>1, WorkerFacts DEF WorkerType
  <2>3. /\ worker' = [worker EXCEPT ![t] = w] /\ w.rec = worker[t].rec /\ w.i = worker[t].i
        /\ w.pc = "report"
    BY <1>1, <2>1, <2>2, WorkerFacts DEF Goes, WorkerType
  <2>4. Installed(w.rec)'
    BY <1>1, <2>1, <2>3 DEF Installed
  <2>5. worker' \in [Threads -> WorkerType] /\ Exclusive' /\ Fits' /\ AboutToReport'
    BY <1>1, <2>1, <2>2, <2>3, <2>4, OneMoves, WorkerFacts
  <2>6. selection' \in Files
    BY <1>1, <2>1, WorkerFacts, FilesAreFiles
  <2>7. SelectionIsInstalled'
    <3>1. worker[t].rec \in Recs /\ SelectionIsInstalled
      BY <1>1, WorkerFacts DEF Inv
    <3>2. \A r \in Recs : Installed(r) => Installed(r)'
      BY <1>1 DEF Installed
    <3> QED BY <2>1, <3>1, <3>2 DEF SelectionIsInstalled
  <2>8. TypeOK'
    BY <1>1, <2>1, <2>5, <2>6 DEF Inv, TypeOK
  <2> QED BY <2>5, <2>7, <2>8 DEF Inv
<1>4. CASE selection' \in {selection, NoFile} /\ Ends(t, "error")
  <2>1. ~status'.complete
    BY <1>4 DEF Ends, Ended
  <2>2. SelectionIsInstalled'
    BY <1>1, <1>4, <2>1 DEF Inv, SelectionIsInstalled, Installed
  <2>3. selection' \in Files \cup {NoFile}
    BY <1>4 DEF Inv, TypeOK
  <2> QED BY <1>1, <1>4, <2>2, <2>3, EndKeeps
<1> QED BY <1>2, <1>3, <1>4 DEF Select

LEMMA ReportKeeps == ASSUME Inv, NEW t \in Threads, Report(t) PROVE Inv'
<1>1. Busy(t) /\ FilesKept /\ Ends(t, "complete")
  BY DEF Report, Busy, FilesKept
<1>2. worker[t].rec \in Recs /\ Installed(worker[t].rec) /\ SelectionIsInstalled
  BY <1>1, WorkerFacts DEF Inv, AboutToReport, Report
<1>3. SelectionIsInstalled'
  BY <1>1, <1>2 DEF SelectionIsInstalled, Installed, FilesKept
<1> QED BY <1>1, <1>3, EndKeeps DEF FilesKept, Inv, TypeOK

LEMMA InvNext == Inv /\ [Next]_vars => Inv'
<1> SUFFICES ASSUME Inv, [Next]_vars PROVE Inv' OBVIOUS
<1>1. CASE \E r \in Recs : Start(r)
  BY <1>1, StartKeeps
<1>2. CASE \E q \in Requests : Cancel(q)
  BY <1>2, CancelKeeps
<1>3. CASE \E t \in Threads : Install(t)
  BY <1>3, PreflightKeeps, ListFilesKeeps, NextFileKeeps, ConnectKeeps, LookAtEventKeeps,
     ReadChunkKeeps, ReadFailsKeeps, EndOfFileKeeps, SelectKeeps, ReportKeeps DEF Install
<1>4. CASE Restart
  BY <1>4, RestartKeeps
<1>5. CASE UNCHANGED vars
  BY <1>5 DEF vars, Inv, TypeOK, WorkerType, Exclusive, Fits, AboutToReport, SelectionIsInstalled,
              Busy, InFile, Unfinished, Current, Installed
<1> QED BY <1>1, <1>2, <1>3, <1>4, <1>5 DEF Next

LEMMA Invariance == Spec => []Inv
BY InvInit, InvNext, PTL DEF Spec

-----------------------------------------------------------------------------
(* The theorems                                                            *)

\* A file is never longer than what the server has: download_file() appends
\* to what an earlier process left only what the server sends from there.
THEOREM TypeCorrect == Spec => []TypeOK
<1>1. Inv => TypeOK
  BY DEF Inv
<1> QED BY <1>1, Invariance, PTL

\* start() and install() never let two downloads write at once, however
\* cancel() interleaves with them.
THEOREM OneDownloadAtATime == Spec => []OneWorker
<1>1. Inv => OneWorker
  <2> SUFFICES ASSUME Inv PROVE OneWorker OBVIOUS
  <2>1. CASE Installing = {}
    BY <2>1, FS_EmptySet DEF OneWorker
  <2>2. CASE Installing # {}
    <3>1. PICK t \in Threads : Busy(t)
      BY <2>2 DEF Installing, Busy
    <3>2. Installing = {t}
      BY <3>1 DEF Inv, Exclusive, Busy, Installing
    <3> QED BY <3>2, FS_Singleton DEF OneWorker
  <2> QED BY <2>1, <2>2
<1> QED BY <1>1, Invariance, PTL

\* The file that the launchers read the model's name from names a model all
\* of whose shards are there, and install() says ready of such a model only.
THEOREM SelectionIsWhole == Spec => []SelectionIsInstalled
<1>1. Inv => SelectionIsInstalled
  BY DEF Inv
<1> QED BY <1>1, Invariance, PTL

LEMMA FileKeepsProgress ==
    ASSUME Inv, NEW t \in Threads, Install(t), NEW f \in Files, partial'[f] < partial[f]
    PROVE  disk'[f] = partial[f] \/ (worker[t].pc = "connect" /\ Connect(t))
<1>1. partial \in [Files -> Nat] /\ disk \in [Files -> Nat]
  BY DEF Inv, TypeOK
<1>2. CASE UNCHANGED partial
  BY <1>1, <1>2
<1>3. CASE Connect(t)
  BY <1>3 DEF Connect
<1>4. CASE ReadChunk(t)
  BY <1>1, <1>4 DEF ReadChunk
<1>5. CASE EndOfFile(t)
  BY <1>1, <1>5 DEF EndOfFile
<1> QED
  BY <1>2, <1>3, <1>4, <1>5
  DEF Install, Preflight, ListFiles, NextFile, LookAtEvent, ReadFails, Select, Report

\* What was downloaded of a file survives failures, cancellations and ends of
\* the process, unless the server insists on sending it again.
THEOREM PartialProgressIsSaved == Spec => ProgressIsKept
<1> DEFINE Keeps ==
      \A f \in Files :
          partial'[f] < partial[f] =>
             \/ disk'[f] = partial[f]
             \/ \E t \in Threads : worker[t].pc = "connect" /\ Connect(t)
<1>1. ASSUME Inv, [Next]_vars PROVE [Keeps]_vars
  <2> SUFFICES ASSUME NEW f \in Files, partial'[f] < partial[f]
               PROVE  \/ disk'[f] = partial[f]
                      \/ \E t \in Threads : worker[t].pc = "connect" /\ Connect(t)
    OBVIOUS
  <2>1. partial[f] \in Nat
    BY <1>1 DEF Inv, TypeOK
  <2>2. CASE UNCHANGED partial
    BY <2>1, <2>2
  <2>3. CASE \E t \in Threads : Install(t)
    BY <1>1, <2>3, FileKeepsProgress
  <2> QED
    BY <1>1, <2>2, <2>3
    DEF Next, vars, Start, Cancel, CancelChecks, CancelSets, CancelTells, Restart
<1> QED BY <1>1, Invariance, PTL DEF Spec, ProgressIsKept

=============================================================================
