---------------------------- MODULE RouterProofs ----------------------------
(***************************************************************************)
(* What the router keeps true of its models, for any names, any number of  *)
(* HTTP threads and any limit: its list is true, no more processes serve   *)
(* models than models_max, and every thread and every reload has an owner. *)
(***************************************************************************)
EXTENDS Router, Sequences, FiniteSetTheorems, TLAPS

\* What the status st of a model says of its instance i; held: the thread that
\* manages it can be joined, by the list or by the shutdown.
Agrees(st, i, held) ==
    /\ st \in RunningStatus => i.mode = "normal" /\ i.th \notin {"none", "over"} /\ held
    /\ st \notin RunningStatus /\ i.mode = "normal" =>
          i.proc \in {"none", "gone"} /\ i.th \in {"none", "over"}
    /\ i.proc \notin {"none", "gone"} => i.th \in {"reading", "answering"}
    /\ i.th # "none" => i.proc # "none"
    /\ i.pipe # "none" => i.th = "reading"
    /\ i.pipe = "result" \/ i.th = "answering" => i.proc \in {"fetched", "gone"}
    /\ i.mode = "normal" =>
          i.pipe # "result" /\ i.th # "answering" /\ i.proc \notin {"fetch", "fetched"}
    /\ i.mode = "download" => i.pipe \in {"none", "result"} /\ i.proc \in {"fetch", "fetched", "gone"}

Held(m) == m \in joinable \/ shut # "no"
ListAgrees == \A m \in Models : Agrees(status[m], inst[m], Held(m))

\* The names in what an HTTP thread is doing
Names(w) ==
    /\ w.pc \notin {"idle", "read", "begin", "stop", "join", "apply", "join_apply"} => w.m \in Models
    /\ w.back # "none" => w.m \in Models
    /\ w.pc \in {"stop_lru", "await_lru"} => w.victim \in Models

RequestsName == \A c \in Clients : Names(client[c])

WithinLimit == ModelsMax > 0 => Cardinality(RunningModels) <= ModelsMax

\* The count that load() made is still right when the old thread is joined.
CountHolds == \A c \in Clients : Holds(c, "join_spawn") => ~LimitReached

ShutdownIsAlone == shut # "no" => \A c \in Clients : client[c].pc = "idle"

\* The inductive invariant
Inv == TypeOK /\ RequestsName /\ ListAgrees /\ WithinLimit /\ CountHolds /\ ShutdownIsAlone

-----------------------------------------------------------------------------
(* What the parts say of each other                                        *)

Pcs == {"idle", "lookup", "wait", "proxy", "touch", "unload", "await_cancel", "remove",
        "await_gone", "join_remove", "load", "stop_lru", "await_lru", "spawn", "join_spawn",
        "exists", "read", "begin", "stop", "join", "apply", "join_apply"}

LEMMA RunningIsFinite ==
    IsFiniteSet(RunningModels) /\ Cardinality(RunningModels) \in Nat
BY ConstantsAssumption, FS_Subset, FS_CardinalityType DEF RunningModels

\* Fewer models run: what was below the limit still is.
LEMMA FewerRun ==
    ASSUME \A m \in Models : Running(m)' => Running(m)
    PROVE  /\ WithinLimit => WithinLimit'
           /\ LimitReached' => LimitReached
<1>1. RunningModels' \subseteq RunningModels
  BY DEF RunningModels
<1>2. IsFiniteSet(RunningModels') /\ Cardinality(RunningModels') <= Cardinality(RunningModels)
  BY <1>1, RunningIsFinite, FS_Subset
<1>3. Cardinality(RunningModels') \in Nat /\ ModelsMax \in Nat
  BY <1>2, FS_CardinalityType, ConstantsAssumption
<1> QED BY <1>2, <1>3, RunningIsFinite DEF WithinLimit, LimitReached

\* A model that the list agrees with runs if it has a process that serves it.
LEMMA ServingRuns ==
    ASSUME ListAgrees, NEW m \in Serving
    PROVE  m \in RunningModels
BY DEF ListAgrees, Agrees, Serving, Alive, RunningModels, Running

LEMMA ThreadFacts ==
    ASSUME Inv, NEW m \in Models
    PROVE  inst[m] \in InstanceType /\ status[m] \in Status /\ Agrees(status[m], inst[m], Held(m))
BY DEF Inv, TypeOK, ListAgrees

LEMMA RequestFacts ==
    ASSUME Inv, NEW c \in Clients
    PROVE  client[c] \in ClientType /\ Names(client[c]) /\ (client[c].pc # "idle" => shut = "no")
BY DEF Inv, TypeOK, RequestsName, ShutdownIsAlone

LEMMA IdleIsTyped == Idle \in ClientType /\ Idle.pc = "idle" /\ Names(Idle)
<1>1. Idle \in ClientType
  BY DEF Idle, ClientType
<1>2. Idle.pc = "idle" /\ Names(Idle)
  BY DEF Idle, Names
<1> QED BY <1>1, <1>2

LEMMA InvInit == Init => Inv
<1> SUFFICES ASSUME Init PROVE Inv OBVIOUS
<1>1. NoInstance \in InstanceType
  BY DEF NoInstance, InstanceType
<1>2. \A m \in Models : inst[m] = NoInstance /\ status[m] \in {"unloaded", "absent"}
  BY DEF Init
<1>3. TypeOK
  BY <1>1, IdleIsTyped, ConstantsAssumption DEF Init, TypeOK, Status, RunningStatus
<1>4. RequestsName
  BY IdleIsTyped DEF Init, RequestsName
<1>5. ListAgrees
  BY <1>2 DEF ListAgrees, Agrees, NoInstance, RunningStatus
<1>6. WithinLimit
  <2>1. RunningModels = {}
    BY <1>2 DEF RunningModels, Running, RunningStatus
  <2> QED BY <2>1, FS_EmptySet, ConstantsAssumption DEF WithinLimit
<1>7. CountHolds /\ ShutdownIsAlone
  BY IdleIsTyped DEF Init, CountHolds, Holds, ShutdownIsAlone
<1> QED BY <1>3, <1>4, <1>5, <1>6, <1>7 DEF Inv

-----------------------------------------------------------------------------
(* The child and the threads of an instance                                *)

\* What a step of them must do for the invariant; i is what it makes of the
\* instance and st of the status.
LEMMA InstanceStep ==
    ASSUME Inv, NEW m \in Models, NEW i \in InstanceType, NEW st \in Status,
           inst' = [inst EXCEPT ![m] = i], status' = [status EXCEPT ![m] = st],
           Agrees(st, i, Held(m)), st \in RunningStatus => Running(m),
           UNCHANGED <<joinable, isReloading, lock, client, shut>>,
           stopping' \subseteq Models, needReload' \in BOOLEAN
    PROVE  Inv'
<1>1. TypeOK'
  BY DEF Inv, TypeOK
<1>2. ListAgrees'
  <2> SUFFICES ASSUME NEW n \in Models PROVE Agrees(status'[n], inst'[n], Held(n)')
    BY DEF ListAgrees
  <2>1. Held(n)' = Held(n)
    BY DEF Held
  <2>2. CASE n = m
    BY <2>1, <2>2 DEF Inv, TypeOK
  <2>3. CASE n # m
    <3>1. status'[n] = status[n] /\ inst'[n] = inst[n]
      BY <2>3 DEF Inv, TypeOK
    <3> QED BY <2>1, <3>1, ThreadFacts
  <2> QED BY <2>2, <2>3
<1>3. \A n \in Models : Running(n)' => Running(n)
  BY DEF Running, Inv, TypeOK
<1>4. WithinLimit' /\ (LimitReached' => LimitReached)
  BY <1>3, FewerRun DEF Inv
<1>5. RequestsName' /\ CountHolds' /\ ShutdownIsAlone'
  BY <1>4 DEF Inv, RequestsName, CountHolds, Holds, ShutdownIsAlone
<1> QED BY <1>1, <1>2, <1>4, <1>5 DEF Inv

\* The status stays what it is.
LEMMA InstanceOnly ==
    ASSUME Inv, NEW m \in Models, NEW i \in InstanceType, inst' = [inst EXCEPT ![m] = i],
           Agrees(status[m], i, Held(m)),
           UNCHANGED <<status, joinable, isReloading, needReload, lock, client, shut>>,
           stopping' \subseteq Models
    PROVE  Inv'
<1>1. status' = [status EXCEPT ![m] = status[m]] /\ status[m] \in Status
  BY DEF Inv, TypeOK
<1>2. status[m] \in RunningStatus => Running(m)
  BY DEF Running
<1>3. needReload' \in BOOLEAN
  BY DEF Inv, TypeOK
<1> QED BY <1>1, <1>2, <1>3, InstanceStep

LEMMA ChildKeeps == ASSUME Inv, NEW m \in Models, ChildStep(m) PROVE Inv'
<1>1. inst[m] \in InstanceType /\ Agrees(status[m], inst[m], Held(m)) /\ inst \in [Models -> InstanceType]
  BY ThreadFacts DEF Inv, TypeOK
<1>2. stopping' \subseteq Models /\ UNCHANGED <<status, joinable, isReloading, needReload, lock, client, shut>>
  BY DEF ChildStep, ChildReports, ChildObeys, ChildCrashes, Inv, TypeOK
<1>3. CASE ChildObeys(m) \/ ChildCrashes(m)
  <2> DEFINE i == [inst[m] EXCEPT !.proc = "gone"]
  <2>1. i \in InstanceType
    BY <1>1 DEF InstanceType
  <2>2. inst' = [inst EXCEPT ![m] = i]
    BY <1>3 DEF ChildObeys, ChildCrashes
  <2>3. Agrees(status[m], i, Held(m))
    BY <1>1 DEF Agrees, InstanceType
  <2> HIDE DEF i
  <2> QED BY <1>2, <2>1, <2>2, <2>3, InstanceOnly
<1>4. CASE ChildReports(m)
  <2>1. PICK r \in Reports[inst[m].proc] : inst' = [inst EXCEPT ![m].pipe = r[1], ![m].proc = r[2]]
    BY <1>4 DEF ChildReports
  <2>2. \/ inst[m].proc \in {"boot", "ready", "sleep", "wake"} /\ r[1] \in {"ready", "sleeping", "loading"}
           /\ r[2] \in {"ready", "sleep", "wake"}
        \/ inst[m].proc = "fetch" /\ r[1] = "result" /\ r[2] = "fetched"
    BY <1>4 DEF ChildReports, Reports
  <2> DEFINE i == [inst[m] EXCEPT !.pipe = r[1], !.proc = r[2]]
  <2>3. i \in InstanceType
    BY <1>1, <2>2 DEF InstanceType
  <2>4. inst' = [inst EXCEPT ![m] = i]
    BY <2>1
  <2>5. i.pipe = r[1] /\ i.proc = r[2] /\ i.th = inst[m].th /\ i.mode = inst[m].mode
    BY <1>1 DEF InstanceType
  <2>6. inst[m].th = "reading" /\ (inst[m].proc = "fetch" <=> inst[m].mode = "download")
    BY <1>1, <2>2 DEF Agrees, InstanceType
  <2> HIDE DEF i
  <2>7. Agrees(status[m], i, Held(m))
    BY <1>1, <2>2, <2>5, <2>6 DEF Agrees, RunningStatus
  <2> QED BY <1>2, <2>3, <2>4, <2>7, InstanceOnly
<1> QED BY <1>3, <1>4 DEF ChildStep

LEMMA ReadReportKeeps == ASSUME Inv, NEW m \in Models, ReadReport(m) PROVE Inv'
<1>1. /\ inst[m] \in InstanceType /\ Agrees(status[m], inst[m], Held(m)) /\ inst \in [Models -> InstanceType]
      /\ status \in [Models -> Status] /\ needReload \in BOOLEAN /\ stopping' \subseteq Models
  BY ThreadFacts DEF Inv, TypeOK, ReadReport
<1>2. UNCHANGED <<joinable, isReloading, lock, client, shut>>
  BY DEF ReadReport
<1>3. CASE inst[m].pipe = "result"
  <2> DEFINE i == [inst[m] EXCEPT !.pipe = "none", !.th = "answering"]
             st == IF InMapping(m) THEN "downloaded" ELSE status[m]
  <2>1. i \in InstanceType /\ st \in Status
    BY <1>1 DEF InstanceType, Status
  <2>2. inst' = [inst EXCEPT ![m] = i] /\ status' = [status EXCEPT ![m] = st] /\ needReload' \in BOOLEAN
    BY <1>1, <1>3 DEF ReadReport, InMapping
  <2>3. Agrees(st, i, Held(m)) /\ st \notin RunningStatus
    BY <1>1, <1>3 DEF Agrees, InstanceType, RunningStatus
  <2> HIDE DEF i, st
  <2> QED BY <1>1, <1>2, <2>1, <2>2, <2>3, InstanceStep
<1>4. CASE inst[m].pipe # "result"
  <2> DEFINE i == [inst[m] EXCEPT !.pipe = "none"]
             st == IF InMapping(m) THEN Reported(inst[m].pipe) ELSE status[m]
  <2>1. inst[m].th = "reading" /\ inst[m].pipe \in {"ready", "sleeping", "loading"}
    BY <1>1, <1>4 DEF ReadReport, InstanceType
  <2>2. inst[m].mode = "normal" /\ status[m] \in RunningStatus /\ InMapping(m)
    BY <1>1, <2>1 DEF Agrees, InMapping, RunningStatus, InstanceType
  <2>3. i \in InstanceType /\ st \in RunningStatus /\ st \in Status
    BY <1>1, <2>1, <2>2 DEF InstanceType, Status, RunningStatus, Reported
  <2>4. inst' = [inst EXCEPT ![m] = i] /\ status' = [status EXCEPT ![m] = st] /\ needReload' \in BOOLEAN
    BY <1>1, <1>4 DEF ReadReport
  <2>5. Agrees(st, i, Held(m)) /\ Running(m)
    BY <1>1, <2>2, <2>3 DEF Agrees, InstanceType, Running
  <2> HIDE DEF i, st
  <2> QED BY <1>1, <1>2, <2>3, <2>4, <2>5, InstanceStep
<1> QED BY <1>3, <1>4

LEMMA ManagerKeeps == ASSUME Inv, NEW m \in Models, Manage(m) PROVE Inv'
<1>1. /\ inst[m] \in InstanceType /\ Agrees(status[m], inst[m], Held(m)) /\ inst \in [Models -> InstanceType]
      /\ status \in [Models -> Status] /\ needReload \in BOOLEAN /\ stopping \subseteq Models
  BY ThreadFacts DEF Inv, TypeOK
<1>2. CASE AnswerResult(m)
  <2> DEFINE i == [inst[m] EXCEPT !.th = "reading", !.exit = @ \/ InMapping(m), !.stopped = @ \/ InMapping(m)]
  <2>1. i \in InstanceType
    BY <1>1 DEF InstanceType
  <2>2. inst' = [inst EXCEPT ![m] = i]
    BY <1>2 DEF AnswerResult
  <2>3. Agrees(status[m], i, Held(m))
    BY <1>1, <1>2 DEF AnswerResult, Agrees, InstanceType
  <2> HIDE DEF i
  <2> QED BY <1>1, <1>2, <2>1, <2>2, <2>3, InstanceOnly DEF AnswerResult
<1>3. CASE SeeEof(m)
  <2> DEFINE i == [inst[m] EXCEPT !.th = "eof", !.stopped = TRUE]
  <2>1. i \in InstanceType
    BY <1>1 DEF InstanceType
  <2>2. inst' = [inst EXCEPT ![m] = i]
    BY <1>3 DEF SeeEof
  <2>3. Agrees(status[m], i, Held(m))
    BY <1>1, <1>3 DEF SeeEof, Agrees, InstanceType
  <2> HIDE DEF i
  <2> QED BY <1>1, <1>3, <2>1, <2>2, <2>3, InstanceOnly DEF SeeEof
<1>4. CASE Release(m)
  <2> DEFINE i == [inst[m] EXCEPT !.th = "released"]
  <2>1. i \in InstanceType
    BY <1>1 DEF InstanceType
  <2>2. inst' = [inst EXCEPT ![m] = i] /\ stopping' \subseteq Models
    BY <1>1, <1>4 DEF Release
  <2>3. Agrees(status[m], i, Held(m))
    BY <1>1, <1>4 DEF Release, Agrees, InstanceType
  <2> HIDE DEF i
  <2> QED BY <1>1, <1>4, <2>1, <2>2, <2>3, InstanceOnly DEF Release
<1>5. CASE Finish(m)
  <2> DEFINE i == [inst[m] EXCEPT !.th = "over"]
             st == IF inst[m].mode = "normal" THEN EndStatus(m) ELSE status[m]
  <2>1. i \in InstanceType /\ st \in Status
    BY <1>1 DEF InstanceType, EndStatus, Status
  <2>2. inst' = [inst EXCEPT ![m] = i] /\ status' = [status EXCEPT ![m] = st]
    BY <1>1, <1>5 DEF Finish, InstanceType
  <2>3. Agrees(st, i, Held(m)) /\ st \notin RunningStatus
    BY <1>1, <1>5 DEF Finish, Agrees, InstanceType, EndStatus, InMapping, RunningStatus
  <2> HIDE DEF i, st
  <2> QED BY <1>1, <1>5, <2>1, <2>2, <2>3, InstanceStep DEF Finish
<1> QED BY <1>2, <1>3, <1>4, <1>5, ReadReportKeeps DEF Manage

LEMMA StopThreadKeeps == ASSUME Inv, NEW m \in Models, StopThread(m) PROVE Inv'
<1>1. inst[m] \in InstanceType /\ Agrees(status[m], inst[m], Held(m)) /\ inst \in [Models -> InstanceType]
  BY ThreadFacts DEF Inv, TypeOK
<1>2. stopping' \subseteq Models /\ UNCHANGED <<status, joinable, isReloading, needReload, lock, client, shut>>
  BY DEF StopThread, StopRequested, StopSeen, StopKills, Inv, TypeOK
<1>3. ASSUME NEW i \in InstanceType, inst' = [inst EXCEPT ![m] = i],
             i.th = inst[m].th, i.mode = inst[m].mode, i.pipe = inst[m].pipe,
             i.proc = inst[m].proc \/ (i.proc = "gone" /\ inst[m].proc # "none")
      PROVE  Inv'
  <2>1. Agrees(status[m], i, Held(m))
    BY <1>1, <1>3 DEF Agrees, InstanceType
  <2> QED BY <1>2, <1>3, <2>1, InstanceOnly
<1>4. CASE StopRequested(m)
  <2> DEFINE i == IF inst[m].stopped THEN [inst[m] EXCEPT !.stop = "over"]
                  ELSE [inst[m] EXCEPT !.stop = "asked", !.exit = TRUE]
  <2>1. i \in InstanceType /\ i.th = inst[m].th /\ i.mode = inst[m].mode /\ i.pipe = inst[m].pipe
        /\ i.proc = inst[m].proc
    BY <1>1 DEF InstanceType
  <2>2. inst' = [inst EXCEPT ![m] = i]
    BY <1>4 DEF StopRequested
  <2> HIDE DEF i
  <2> QED BY <1>3, <2>1, <2>2
<1>5. CASE StopSeen(m)
  <2> DEFINE i == [inst[m] EXCEPT !.stop = "over"]
  <2>1. i \in InstanceType /\ i.th = inst[m].th /\ i.mode = inst[m].mode /\ i.pipe = inst[m].pipe
        /\ i.proc = inst[m].proc
    BY <1>1 DEF InstanceType
  <2>2. inst' = [inst EXCEPT ![m] = i]
    BY <1>5 DEF StopSeen
  <2> HIDE DEF i
  <2> QED BY <1>3, <2>1, <2>2
<1>6. CASE StopKills(m)
  <2> DEFINE i == [inst[m] EXCEPT !.stop = "over", !.proc = IF Alive(m) THEN "gone" ELSE @]
  <2>1. i \in InstanceType /\ i.th = inst[m].th /\ i.mode = inst[m].mode /\ i.pipe = inst[m].pipe
        /\ (i.proc = inst[m].proc \/ (i.proc = "gone" /\ inst[m].proc # "none"))
    BY <1>1 DEF InstanceType, Alive
  <2>2. inst' = [inst EXCEPT ![m] = i]
    BY <1>6 DEF StopKills
  <2> HIDE DEF i
  <2> QED BY <1>3, <2>1, <2>2
<1> QED BY <1>4, <1>5, <1>6 DEF StopThread

-----------------------------------------------------------------------------
(* The HTTP threads                                                        *)

Shared == <<status, inst, joinable, stopping, isReloading, needReload>>

\* What a step of an HTTP thread must do, unless it starts a process; w is
\* what the thread makes of itself.
LEMMA RequestStep ==
    ASSUME Inv, NEW c \in Clients, NEW w \in ClientType, client' = [client EXCEPT ![c] = w],
           Names(w), w.pc = "join_spawn" => ~LimitReached, UNCHANGED shut, shut = "no",
           status' \in [Models -> Status], inst' \in [Models -> InstanceType],
           joinable' \subseteq Models, stopping' \subseteq Models,
           isReloading' \in BOOLEAN, needReload' \in BOOLEAN,
           lock' \in {lock, c, Free, Aborted},
           ListAgrees', \A m \in Models : Running(m)' => Running(m)
    PROVE  Inv'
<1>1. client' \in [Clients -> ClientType] /\ client'[c] = w
      /\ \A d \in Clients \ {c} : client'[d] = client[d]
  BY DEF Inv, TypeOK
<1>2. TypeOK'
  BY <1>1 DEF Inv, TypeOK
<1>3. RequestsName'
  BY <1>1 DEF Inv, RequestsName
<1>4. WithinLimit' /\ (LimitReached' => LimitReached)
  BY FewerRun DEF Inv
<1>5. CountHolds'
  <2> SUFFICES ASSUME NEW d \in Clients, Holds(d, "join_spawn")' PROVE ~LimitReached'
    BY DEF CountHolds
  <2>1. lock' = d
    BY DEF Holds
  <2>2. CASE d = c
    BY <1>1, <1>4, <2>2 DEF Holds
  <2>3. CASE d # c
    <3>1. client[d].pc = "join_spawn" /\ lock = d
      BY <1>1, <2>1, <2>3, ConstantsAssumption DEF Holds
    <3> QED BY <1>4, <3>1 DEF Inv, CountHolds, Holds
  <2> QED BY <2>2, <2>3
<1>6. ShutdownIsAlone'
  BY DEF ShutdownIsAlone
<1> QED BY <1>2, <1>3, <1>4, <1>5, <1>6 DEF Inv

\* The thread only goes on; it may take the mutex.
LEMMA RequestMoves ==
    ASSUME Inv, NEW c \in Clients, NEW w \in ClientType, client' = [client EXCEPT ![c] = w],
           Names(w), w.pc # "join_spawn", UNCHANGED <<Shared, shut>>, shut = "no",
           lock' \in {lock, c, Free}
    PROVE  Inv'
<1>1. TypeOK /\ ListAgrees
  BY DEF Inv
<1>2. UNCHANGED <<status, inst, joinable, stopping, isReloading, needReload, shut>>
  BY DEF Shared
<1>3. ListAgrees'
  BY <1>1, <1>2 DEF ListAgrees, Held
<1>4. \A m \in Models : Running(m)' => Running(m)
  BY <1>2 DEF Running
<1>5. /\ status' \in [Models -> Status] /\ inst' \in [Models -> InstanceType]
      /\ joinable' \subseteq Models /\ stopping' \subseteq Models
      /\ isReloading' \in BOOLEAN /\ needReload' \in BOOLEAN
  BY <1>1, <1>2 DEF TypeOK
<1> QED BY <1>2, <1>3, <1>4, <1>5, RequestStep

NamingPcs == Pcs \ {"idle", "read", "begin", "stop", "join", "apply", "join_apply"}

\* What Go makes of a thread that asks for a model.
LEMMA GoMoves ==
    ASSUME Inv, NEW c \in Clients, NEW pc \in NamingPcs \cup {"idle"}, Go(c, pc),
           pc # "idle" => client[c].m \in Models,
           pc \in {"stop_lru", "await_lru"} => client[c].victim \in Models
    PROVE  \E w \in ClientType : /\ client' = [client EXCEPT ![c] = w]
                                 /\ Names(w) /\ w.pc = pc
                                 /\ pc # "idle" => w.m = client[c].m
<1>1. client[c] \in ClientType
  BY RequestFacts
<1>2. CASE pc = "idle"
  <2>1. client' = [client EXCEPT ![c] = Idle]
    BY <1>2 DEF Go
  <2> QED BY <1>2, <2>1, IdleIsTyped
<1>3. CASE pc # "idle"
  <2> DEFINE w == [client[c] EXCEPT !.pc = pc, !.back = "none"]
  <2>1. w \in ClientType /\ w.pc = pc /\ w.back = "none" /\ w.m = client[c].m /\ w.victim = client[c].victim
    BY <1>1 DEF ClientType, NamingPcs, Pcs
  <2>2. client' = [client EXCEPT ![c] = w]
    BY <1>3 DEF Go
  <2>3. Names(w)
    BY <1>3, <2>1 DEF Names
  <2> HIDE DEF w
  <2> QED BY <2>1, <2>2, <2>3
<1> QED BY <1>2, <1>3

\* A step that only Goes on
LEMMA GoKeeps ==
    ASSUME Inv, NEW c \in Clients, NEW pc \in (NamingPcs \cup {"idle"}) \ {"stop_lru", "join_spawn"},
           client[c].pc \in NamingPcs, Go(c, pc),
           pc = "await_lru" => client[c].victim \in Models,
           UNCHANGED <<Shared, shut>>, lock' \in {lock, c, Free}
    PROVE  Inv'
<1>1. shut = "no" /\ client[c].m \in Models
  BY RequestFacts DEF NamingPcs, Names, Pcs
<1>2. PICK w \in ClientType : client' = [client EXCEPT ![c] = w] /\ Names(w) /\ w.pc = pc
  BY <1>1, GoMoves
<1> QED BY <1>1, <1>2, RequestMoves

LEMMA AskKeeps ==
    ASSUME Inv, NEW c \in Clients, NEW op \in AllOps, NEW m \in Models \cup {NoModel},
           op # "reload" => m \in Models, Ask(c, op, m)
    PROVE  Inv'
<1>1. FirstStep[op] \in {"lookup", "exists", "remove", "read"} /\ (FirstStep[op] = "read" <=> op = "reload")
  BY DEF FirstStep, AllOps
<1>2. PICK w \in ClientType : w = [Idle EXCEPT !.pc = FirstStep[op], !.op = op, !.m = m]
  <2> DEFINE w == [Idle EXCEPT !.pc = FirstStep[op], !.op = op, !.m = m]
  <2>1. Idle \in ClientType
    BY IdleIsTyped
  <2>2. w \in ClientType
    BY <1>1, <2>1 DEF ClientType
  <2> QED BY <2>2
<1>3. w.pc = FirstStep[op] /\ w.m = m /\ w.back = "none"
  BY <1>2 DEF Idle
<1>4. Names(w) /\ w.pc # "join_spawn"
  BY <1>1, <1>3 DEF Names
<1>5. client' = [client EXCEPT ![c] = w] /\ UNCHANGED <<Shared, shut, lock>> /\ shut = "no"
  BY <1>2 DEF Ask, Shared
<1> QED BY <1>4, <1>5, RequestMoves

LEMMA LookupsKeep ==
    ASSUME Inv, NEW c \in Clients,
           LookupReloads(c) \/ LookUp(c) \/ EnsureReady(c) \/ Proxy(c) \/ AwaitCancel(c) \/ DownloadChecks(c)
    PROVE  Inv'
<1>1. client[c] \in ClientType /\ Names(client[c]) /\ (client[c].pc # "idle" => shut = "no")
  BY RequestFacts
<1>2. CASE LookupReloads(c)
  <2>1. PICK w \in ClientType : w = [client[c] EXCEPT !.pc = "read", !.back = client[c].pc]
    BY <1>1, <1>2 DEF LookupReloads, ClientType
  <2>2. w.pc = "read" /\ w.m = client[c].m /\ client[c].m \in Models
    BY <1>1, <1>2, <2>1 DEF LookupReloads, Names, ClientType
  <2>3. Names(w)
    BY <2>2 DEF Names
  <2>4. client' = [client EXCEPT ![c] = w] /\ UNCHANGED <<Shared, shut, lock>> /\ client[c].pc # "idle"
    BY <1>2, <2>1 DEF LookupReloads, Shared
  <2> QED BY <1>1, <2>2, <2>3, <2>4, RequestMoves
<1>3. CASE LookUp(c)
  <2>1. PICK pc \in {"idle", "proxy", "wait", "unload", "load"} : Go(c, pc)
    BY <1>3 DEF LookUp
  <2>2. client[c].pc \in NamingPcs /\ UNCHANGED <<Shared, shut, lock>>
    BY <1>3 DEF LookUp, MayLookUp, At, NamingPcs, Pcs, Shared
  <2>3. pc \in (NamingPcs \cup {"idle"}) \ {"stop_lru", "join_spawn"} /\ pc # "await_lru"
    BY <2>1 DEF NamingPcs, Pcs
  <2> QED BY <2>1, <2>2, <2>3, GoKeeps
<1>4. CASE EnsureReady(c) \/ Proxy(c) \/ AwaitCancel(c) \/ DownloadChecks(c)
  <2>1. PICK pc \in {"idle", "proxy", "touch", "spawn"} : Go(c, pc)
    BY <1>4 DEF EnsureReady, Proxy, AwaitCancel, DownloadChecks
  <2>2. client[c].pc \in NamingPcs /\ UNCHANGED <<Shared, shut, lock>>
    BY <1>4 DEF EnsureReady, Proxy, AwaitCancel, DownloadChecks, MayLookUp, At, NamingPcs, Pcs, Shared
  <2>3. pc \in (NamingPcs \cup {"idle"}) \ {"stop_lru", "join_spawn"} /\ pc # "await_lru"
    BY <2>1 DEF NamingPcs, Pcs
  <2> QED BY <2>1, <2>2, <2>3, GoKeeps
<1> QED BY <1>2, <1>3, <1>4

-----------------------------------------------------------------------------
(* Stopping                                                                *)

LEMMA InterruptAgrees ==
    ASSUME Inv, NEW m \in Models, Interrupt(m), UNCHANGED <<status, joinable, shut>>
    PROVE  inst' \in [Models -> InstanceType] /\ stopping' \subseteq Models /\ ListAgrees'
<1>1. inst[m] \in InstanceType /\ Agrees(status[m], inst[m], Held(m)) /\ inst \in [Models -> InstanceType]
  BY ThreadFacts DEF Inv, TypeOK
<1>2. stopping' \subseteq Models
  BY DEF Interrupt, StopAsked, Inv, TypeOK
<1>3. \E i \in InstanceType : inst' = [inst EXCEPT ![m] = i] /\ Agrees(status[m], i, Held(m))
  <2>1. CASE status[m] = "downloading"
    <3> DEFINE i == [inst[m] EXCEPT !.exit = TRUE, !.stopped = TRUE]
    <3>1. i \in InstanceType /\ inst' = [inst EXCEPT ![m] = i]
      BY <1>1, <2>1 DEF Interrupt, Interrupted, AskedToExit, InstanceType
    <3>2. Agrees(status[m], i, Held(m))
      BY <1>1 DEF Agrees, InstanceType
    <3> QED BY <3>1, <3>2
  <2>2. CASE status[m] = "loading"
    <3> DEFINE i == [inst[m] EXCEPT !.proc = IF inst[m].proc \in {"none", "gone"} THEN @ ELSE "gone"]
    <3>1. i \in InstanceType /\ inst' = [inst EXCEPT ![m] = i]
      BY <1>1, <2>2 DEF Interrupt, Interrupted, Killed, InstanceType
    <3>2. Agrees(status[m], i, Held(m))
      BY <1>1 DEF Agrees, InstanceType
    <3> QED BY <3>1, <3>2
  <2>3. CASE status[m] \notin {"downloading", "loading"}
    <3>1. inst' = [inst EXCEPT ![m] = inst[m]]
      BY <1>1, <2>3 DEF Interrupt, Interrupted
    <3> QED BY <1>1, <3>1
  <2> QED BY <2>1, <2>2, <2>3
<1>4. PICK i \in InstanceType : inst' = [inst EXCEPT ![m] = i] /\ Agrees(status[m], i, Held(m))
  BY <1>3
<1>5. inst' \in [Models -> InstanceType]
  BY <1>1, <1>4
<1>6. ListAgrees'
  <2> SUFFICES ASSUME NEW n \in Models PROVE Agrees(status[n], inst'[n], Held(n))
    BY DEF ListAgrees, Held
  <2>1. n # m => inst'[n] = inst[n]
    BY <1>1, <1>4
  <2>2. n = m => inst'[n] = i
    BY <1>1, <1>4
  <2> QED BY <1>4, <2>1, <2>2, ThreadFacts
<1> QED BY <1>2, <1>5, <1>6

\* A request that interrupts a model and goes on
LEMMA InterruptKeeps ==
    ASSUME Inv, NEW c \in Clients, NEW m \in Models, Interrupt(m),
           NEW w \in ClientType, client' = [client EXCEPT ![c] = w], Names(w), w.pc # "join_spawn",
           client[c].pc # "idle",
           UNCHANGED <<status, joinable, isReloading, needReload, lock, shut>>
    PROVE  Inv'
<1>1. inst' \in [Models -> InstanceType] /\ stopping' \subseteq Models /\ ListAgrees'
  BY InterruptAgrees
<1>2. \A n \in Models : Running(n)' => Running(n)
  BY DEF Running
<1>3. shut = "no"
  BY RequestFacts
<1> QED BY <1>1, <1>2, <1>3, RequestStep DEF Inv, TypeOK

LEMMA StopsKeep ==
    ASSUME Inv, NEW c \in Clients,
           Unload(c) \/ Remove(c) \/ StopLru(c) \/ \E m \in Models : ReloadStops(c, m)
    PROVE  Inv'
<1>1. client[c] \in ClientType /\ Names(client[c])
  BY RequestFacts
<1>2. CASE Unload(c) \/ Remove(c)
  <2>1. PICK pc \in {"await_cancel", "idle", "await_gone"} : Go(c, pc)
    BY <1>2 DEF Unload, Remove
  <2>2. client[c].pc # "idle" /\ client[c].m \in Models
    BY <1>1, <1>2 DEF Unload, Remove, At, Names
  <2>3. pc \in NamingPcs \cup {"idle"} /\ pc \notin {"stop_lru", "await_lru", "join_spawn"}
    BY <2>1 DEF NamingPcs, Pcs
  <2>4. PICK w \in ClientType : client' = [client EXCEPT ![c] = w] /\ Names(w) /\ w.pc = pc
    BY <2>1, <2>2, <2>3, GoMoves
  <2>5. Interrupt(client[c].m) /\ UNCHANGED <<status, joinable, isReloading, needReload, lock, shut>>
    BY <1>2 DEF Unload, Remove
  <2> QED BY <2>2, <2>3, <2>4, <2>5, InterruptKeeps
<1>3. CASE StopLru(c)
  <2>1. client[c].pc = "stop_lru" /\ client[c].m \in Models /\ client[c].victim \in Models /\ Go(c, "await_lru")
    BY <1>1, <1>3 DEF StopLru, At, Names
  <2>2. PICK w \in ClientType : client' = [client EXCEPT ![c] = w] /\ Names(w) /\ w.pc = "await_lru"
    BY <2>1, GoMoves DEF NamingPcs, Pcs
  <2>3. Interrupt(client[c].victim) /\ UNCHANGED <<status, joinable, isReloading, needReload, lock, shut>>
    BY <1>3 DEF StopLru
  <2> QED BY <2>1, <2>2, <2>3, InterruptKeeps
<1>4. ASSUME NEW m \in Models, ReloadStops(c, m) PROVE Inv'
  <2>1. PICK w \in ClientType : w = [client[c] EXCEPT !.left = client[c].left \ {m}]
    BY <1>1 DEF ClientType
  <2>2. w.pc = "stop" /\ w.m = client[c].m /\ w.back = client[c].back /\ client[c].pc = "stop"
    BY <1>1, <1>4, <2>1 DEF ReloadStops, At, ClientType
  <2>3. Names(w)
    BY <1>1, <2>2 DEF Names
  <2>4. client' = [client EXCEPT ![c] = w]
    BY <1>4, <2>1 DEF ReloadStops
  <2>5. Interrupt(m) /\ UNCHANGED <<status, joinable, isReloading, needReload, lock, shut>>
    BY <1>4 DEF ReloadStops
  <2> QED BY <2>2, <2>3, <2>4, <2>5, InterruptKeeps
<1> QED BY <1>2, <1>3, <1>4

\* mapping[...] never makes a model run.
LEMMA EntryAgrees ==
    ASSUME Inv, NEW m \in Models, status' = Entry(m) \/ UNCHANGED status,
           UNCHANGED <<inst, joinable, shut>>
    PROVE  /\ status' \in [Models -> Status] /\ ListAgrees'
           /\ \A n \in Models : Running(n)' => Running(n)
<1>1. status \in [Models -> Status]
  BY DEF Inv, TypeOK
<1>2. status' \in [Models -> Status]
      /\ \A n \in Models : status'[n] = status[n] \/ (status'[n] = "unloaded" /\ status[n] = "absent")
  BY <1>1 DEF Entry, InMapping, Status
<1>3. \A n \in Models : Running(n)' => Running(n)
  BY <1>2 DEF Running, RunningStatus
<1>4. ListAgrees'
  <2> SUFFICES ASSUME NEW n \in Models PROVE Agrees(status'[n], inst[n], Held(n))
    BY DEF ListAgrees, Held
  <2>1. Agrees(status[n], inst[n], Held(n))
    BY ThreadFacts
  <2>2. CASE status'[n] = "unloaded" /\ status[n] = "absent"
    BY <2>1, <2>2 DEF Agrees, RunningStatus
  <2> QED BY <1>2, <2>1, <2>2
<1> QED BY <1>2, <1>3, <1>4

LEMMA EntriesKeep ==
    ASSUME Inv, NEW c \in Clients, Touch(c) \/ AwaitLru(c) \/ SpawnRefused(c)
    PROVE  Inv'
<1>1. client[c] \in ClientType /\ Names(client[c]) /\ (client[c].pc # "idle" => shut = "no")
  BY RequestFacts
<1>2. ASSUME NEW m \in Models, status' = Entry(m) \/ UNCHANGED status,
             NEW w \in ClientType, client' = [client EXCEPT ![c] = w], Names(w), w.pc # "join_spawn",
             client[c].pc # "idle",
             UNCHANGED <<inst, joinable, stopping, isReloading, needReload, lock, shut>>
      PROVE  Inv'
  BY <1>1, <1>2, EntryAgrees, RequestStep DEF Inv, TypeOK
<1>3. CASE Touch(c)
  <2>1. client[c].pc = "touch" /\ client[c].m \in Models /\ Go(c, "idle")
    BY <1>1, <1>3 DEF Touch, At, Names
  <2>2. PICK w \in ClientType : client' = [client EXCEPT ![c] = w] /\ Names(w) /\ w.pc = "idle"
    BY <2>1, GoMoves
  <2> QED BY <1>2, <1>3, <2>1, <2>2 DEF Touch
<1>4. CASE AwaitLru(c)
  <2>1. client[c].pc = "await_lru" /\ client[c].m \in Models /\ client[c].victim \in Models
    BY <1>1, <1>4 DEF AwaitLru, At, Names
  <2>2. PICK w \in ClientType : w = [client[c] EXCEPT !.pc = "spawn", !.victim = NoModel]
    BY <1>1 DEF ClientType
  <2>3. w.pc = "spawn" /\ w.m = client[c].m /\ Names(w)
    BY <1>1, <2>1, <2>2 DEF Names, ClientType
  <2> QED BY <1>2, <1>4, <2>1, <2>2, <2>3 DEF AwaitLru
<1>5. CASE SpawnRefused(c)
  <2>1. client[c].pc = "spawn" /\ client[c].m \in Models
    BY <1>1, <1>5 DEF SpawnRefused, MaySpawn, At, Names
  <2>2. PICK pc \in {"idle", "wait"} : Go(c, pc)
    BY <1>5 DEF SpawnRefused, AfterLoad
  <2>3. PICK w \in ClientType : client' = [client EXCEPT ![c] = w] /\ Names(w) /\ w.pc = pc
    BY <2>1, <2>2, GoMoves DEF NamingPcs, Pcs
  <2> QED BY <1>2, <1>5, <2>1, <2>2, <2>3 DEF SpawnRefused
<1> QED BY <1>3, <1>4, <1>5

LEMMA RemovesKeep ==
    ASSUME Inv, NEW c \in Clients, RemoveJoins(c) \/ RemoveErases(c)
    PROVE  Inv'
<1> DEFINE m == client[c].m
<1>1. client[c] \in ClientType /\ client[c].pc \in {"remove", "await_gone", "join_remove"}
      /\ m \in Models /\ shut = "no"
  BY RequestFacts DEF RemoveJoins, RemoveErases, At, Holds, Names
<1>2. CASE RemoveJoins(c)
  <2>1. Go(c, "join_remove") /\ lock' = c /\ UNCHANGED <<Shared, shut>>
    BY <1>2 DEF RemoveJoins, Shared
  <2>2. client[c].pc \in NamingPcs /\ "join_remove" \in (NamingPcs \cup {"idle"}) \ {"stop_lru", "join_spawn"}
    BY <1>1 DEF NamingPcs, Pcs
  <2> QED BY <2>1, <2>2, GoKeeps
<1>3. CASE RemoveErases(c)
  <2>1. /\ status' = [status EXCEPT ![m] = "absent"] /\ joinable' = joinable \ {m} /\ lock' = Free
        /\ Go(c, "idle") /\ UNCHANGED <<inst, stopping, isReloading, needReload, shut>>
    BY <1>3 DEF RemoveErases
  <2>2. PICK w \in ClientType : client' = [client EXCEPT ![c] = w] /\ Names(w) /\ w.pc = "idle"
    BY <2>1, GoMoves
  <2>3. status' \in [Models -> Status] /\ joinable' \subseteq Models
    BY <2>1 DEF Inv, TypeOK, Status
  <2>4. \A n \in Models : Running(n)' => Running(n)
    BY <2>1 DEF Inv, TypeOK, Running, RunningStatus
  <2>5. ListAgrees'
    <3> SUFFICES ASSUME NEW n \in Models PROVE Agrees(status'[n], inst[n], Held(n)')
      BY <2>1 DEF ListAgrees
    <3>1. Agrees(status[n], inst[n], Held(n)) /\ inst[n] \in InstanceType
      BY ThreadFacts
    <3>2. CASE n # m
      <4>1. status'[n] = status[n] /\ Held(n)' = Held(n)
        BY <2>1, <3>2 DEF Inv, TypeOK, Held
      <4> QED BY <3>1, <4>1
    <3>3. CASE n = m
      <4>1. status'[n] = "absent"
        BY <1>1, <2>1, <3>3 DEF Inv, TypeOK
      <4>2. status[n] \notin RunningStatus \/ inst[n].th \in {"none", "over"}
        BY <1>3, <3>3 DEF RemoveErases, Done, RunningStatus, ThreadOver
      <4> QED BY <3>1, <4>1, <4>2 DEF Agrees, RunningStatus, InstanceType
    <3> QED BY <3>2, <3>3
  <2> QED BY <1>1, <2>1, <2>2, <2>3, <2>4, <2>5, RequestStep DEF Inv, TypeOK
<1> QED BY <1>2, <1>3

-----------------------------------------------------------------------------
(* Loading                                                                 *)

LEMMA LoadCountsKeeps == ASSUME Inv, NEW c \in Clients, LoadCounts(c) PROVE Inv'
<1>1. client[c] \in ClientType /\ client[c].pc = "load" /\ client[c].m \in Models /\ shut = "no"
  BY RequestFacts DEF LoadCounts, At, Names
<1>2. UNCHANGED <<Shared, shut, lock>>
  BY DEF LoadCounts, Shared
<1>3. CASE Go(c, "idle") \/ Go(c, "spawn")
  <2>1. PICK pc \in {"idle", "spawn"} : Go(c, pc)
    BY <1>3
  <2>2. client[c].pc \in NamingPcs /\ pc \in (NamingPcs \cup {"idle"}) \ {"stop_lru", "join_spawn"}
        /\ pc # "await_lru"
    BY <1>1, <2>1 DEF NamingPcs, Pcs
  <2> QED BY <1>2, <2>1, <2>2, GoKeeps
<1>4. ASSUME NEW v \in RunningModels,
             client' = [client EXCEPT ![c].pc = "stop_lru", ![c].victim = v, ![c].back = "none"]
      PROVE  Inv'
  <2>1. PICK w \in ClientType : w = [client[c] EXCEPT !.pc = "stop_lru", !.victim = v, !.back = "none"]
    BY <1>1 DEF ClientType, RunningModels
  <2>2. w.pc = "stop_lru" /\ w.m = client[c].m /\ w.victim = v /\ w.back = "none"
    BY <1>1, <2>1 DEF ClientType
  <2>3. Names(w)
    BY <1>1, <2>2 DEF Names, RunningModels
  <2>4. client' = [client EXCEPT ![c] = w]
    BY <1>4, <2>1
  <2> QED BY <1>1, <1>2, <2>2, <2>3, <2>4, RequestMoves
<1> QED BY <1>3, <1>4 DEF LoadCounts

LEMMA SpawnJoinsKeeps == ASSUME Inv, NEW c \in Clients, SpawnJoins(c) PROVE Inv'
<1> DEFINE m == client[c].m
<1>1. client[c].pc = "spawn" /\ m \in Models /\ shut = "no" /\ ~LimitReached
  BY RequestFacts DEF SpawnJoins, MaySpawnNow, MaySpawn, At, Names
<1>2. /\ inst' = [inst EXCEPT ![m] = Killed(@)] /\ lock' = c /\ Go(c, "join_spawn")
      /\ UNCHANGED <<status, joinable, stopping, isReloading, needReload, shut>>
  BY DEF SpawnJoins
<1>3. PICK w \in ClientType : client' = [client EXCEPT ![c] = w] /\ Names(w) /\ w.pc = "join_spawn"
  BY <1>1, <1>2, GoMoves DEF NamingPcs, Pcs
<1> DEFINE i == [inst[m] EXCEPT !.proc = IF inst[m].proc \in {"none", "gone"} THEN @ ELSE "gone"]
<1>4. inst[m] \in InstanceType /\ inst \in [Models -> InstanceType]
  BY <1>1, ThreadFacts DEF Inv, TypeOK
<1>5. i \in InstanceType /\ inst' = [inst EXCEPT ![m] = i]
  BY <1>2, <1>4 DEF Killed, InstanceType
<1>6. Agrees(status[m], i, Held(m))
  BY <1>1, <1>4, ThreadFacts DEF Agrees, InstanceType
<1> HIDE DEF i, m
<1>7. inst' \in [Models -> InstanceType]
  BY <1>4, <1>5
<1>8. ListAgrees'
  <2> SUFFICES ASSUME NEW n \in Models PROVE Agrees(status[n], inst'[n], Held(n))
    BY <1>2 DEF ListAgrees, Held
  <2>1. n # m => inst'[n] = inst[n]
    BY <1>4, <1>5
  <2>2. n = m => inst'[n] = i
    BY <1>4, <1>5
  <2> QED BY <1>6, <2>1, <2>2, ThreadFacts
<1>9. \A n \in Models : Running(n)' => Running(n)
  BY <1>2 DEF Running
<1> QED BY <1>1, <1>2, <1>3, <1>7, <1>8, <1>9, RequestStep DEF Inv, TypeOK

LEMMA SpawnKeeps == ASSUME Inv, NEW c \in Clients, Spawn(c) PROVE Inv'
<1> DEFINE m == client[c].m
           mode == IF Downloading(c) THEN "download" ELSE "normal"
           st == IF mode = "download" THEN "downloading" ELSE "loading"
<1>1. client[c].pc \in {"spawn", "join_spawn"} /\ m \in Models /\ shut = "no"
  BY RequestFacts DEF Spawn, MaySpawnNow, MaySpawn, At, Holds, Names
<1>2. ~LimitReached
  BY DEF Spawn, MaySpawnNow, Inv, CountHolds
<1>3. /\ inst' = [inst EXCEPT ![m] = NewInstance(mode)] /\ status' = [status EXCEPT ![m] = st]
      /\ joinable' = joinable \cup {m} /\ lock' = Free /\ Go(c, AfterLoad(c))
      /\ UNCHANGED <<stopping, isReloading, needReload, shut>>
  BY DEF Spawn
<1>4. PICK pc \in {"wait", "idle"} : Go(c, pc)
  BY <1>3 DEF AfterLoad
<1>5. PICK w \in ClientType : client' = [client EXCEPT ![c] = w] /\ Names(w) /\ w.pc = pc
  BY <1>1, <1>4, GoMoves DEF NamingPcs, Pcs
<1>6. NewInstance(mode) \in InstanceType /\ st \in Status
  BY DEF NewInstance, InstanceType, Status, RunningStatus
<1>7. Agrees(st, NewInstance(mode), TRUE)
  BY DEF Agrees, NewInstance, RunningStatus
<1> HIDE DEF st, mode
<1>8. TypeOK'
  BY <1>1, <1>3, <1>5, <1>6 DEF Inv, TypeOK
<1>9. ListAgrees'
  <2> SUFFICES ASSUME NEW n \in Models PROVE Agrees(status'[n], inst'[n], Held(n)')
    BY DEF ListAgrees
  <2>1. CASE n = m
    <3>1. status'[n] = st /\ inst'[n] = NewInstance(mode) /\ Held(n)'
      BY <1>3, <2>1 DEF Inv, TypeOK, Held
    <3> QED BY <1>7, <3>1
  <2>2. CASE n # m
    <3>1. status'[n] = status[n] /\ inst'[n] = inst[n] /\ Held(n)' = Held(n)
      BY <1>3, <2>2 DEF Inv, TypeOK, Held
    <3> QED BY <3>1, ThreadFacts
  <2> QED BY <2>1, <2>2
<1>10. WithinLimit'
  <2> SUFFICES ASSUME ModelsMax > 0 PROVE Cardinality(RunningModels') <= ModelsMax
    BY DEF WithinLimit
  <2>1. RunningModels' \subseteq RunningModels \cup {m}
    BY <1>3 DEF RunningModels, Running, Inv, TypeOK
  <2>2. IsFiniteSet(RunningModels \cup {m})
        /\ Cardinality(RunningModels \cup {m}) <= Cardinality(RunningModels) + 1
    <3> HIDE DEF m
    <3>1. /\ IsFiniteSet(RunningModels \cup {m})
          /\ \/ Cardinality(RunningModels \cup {m}) = Cardinality(RunningModels)
             \/ Cardinality(RunningModels \cup {m}) = Cardinality(RunningModels) + 1
      BY RunningIsFinite, FS_AddElement, Zenon
    <3> QED BY <3>1, RunningIsFinite
  <2>3. Cardinality(RunningModels') <= Cardinality(RunningModels \cup {m})
        /\ Cardinality(RunningModels') \in Nat /\ Cardinality(RunningModels \cup {m}) \in Nat
    BY <2>1, <2>2, FS_Subset, FS_CardinalityType
  <2>4. Cardinality(RunningModels) < ModelsMax
    BY <1>2, RunningIsFinite, ConstantsAssumption DEF LimitReached
  <2> QED BY <2>2, <2>3, <2>4, RunningIsFinite, ConstantsAssumption
<1>11. RequestsName'
  BY <1>5 DEF Inv, TypeOK, RequestsName
<1>12. CountHolds' /\ ShutdownIsAlone'
  BY <1>1, <1>3, ConstantsAssumption DEF CountHolds, Holds, ShutdownIsAlone
<1> QED BY <1>8, <1>9, <1>10, <1>11, <1>12 DEF Inv

-----------------------------------------------------------------------------
(* Reloading the list                                                      *)

LEMMA ReturnMoves ==
    ASSUME Inv, NEW c \in Clients, ReloadReturns(c), client[c].pc # "idle"
    PROVE  \E w \in ClientType : client' = [client EXCEPT ![c] = w] /\ Names(w)
                                 /\ w.pc \in {"idle", "lookup", "proxy"}
<1>1. client[c] \in ClientType /\ Names(client[c])
  BY RequestFacts
<1>2. CASE client[c].back = "none"
  <2>1. client' = [client EXCEPT ![c] = Idle]
    BY <1>2 DEF ReloadReturns
  <2> QED BY <2>1, IdleIsTyped
<1>3. CASE client[c].back # "none"
  <2>1. client[c].back \in {"lookup", "proxy"} /\ client[c].m \in Models
    BY <1>1, <1>3 DEF ClientType, Names
  <2>2. PICK w \in ClientType :
          w = [client[c] EXCEPT !.pc = client[c].back, !.seen = {}, !.targets = {}, !.left = {}]
    BY <1>1, <2>1 DEF ClientType
  <2>3. w.pc \in {"lookup", "proxy"} /\ w.m = client[c].m
    BY <1>1, <2>1, <2>2 DEF ClientType
  <2>4. Names(w)
    BY <2>1, <2>3 DEF Names
  <2>5. client' = [client EXCEPT ![c] = w]
    BY <1>3, <2>2 DEF ReloadReturns
  <2> QED BY <2>3, <2>4, <2>5
<1> QED BY <1>2, <1>3

LEMMA ReadsKeep ==
    ASSUME Inv, NEW c \in Clients, ReloadReads(c) \/ ReloadJoins(c) \/ ReloadHolds(c)
    PROVE  Inv'
<1>1. client[c] \in ClientType /\ Names(client[c]) /\ client[c].pc \in {"read", "join", "apply"} /\ shut = "no"
  BY RequestFacts DEF ReloadReads, ReloadJoins, ReloadHolds, At
<1>2. UNCHANGED <<Shared, shut>> /\ lock' \in {lock, c}
  BY DEF ReloadReads, ReloadJoins, ReloadHolds, Shared
<1>3. \E w \in ClientType : /\ client' = [client EXCEPT ![c] = w]
                            /\ w.m = client[c].m /\ w.back = client[c].back
                            /\ w.pc \in {"begin", "apply", "join_apply"}
  <2>1. CASE ReloadReads(c)
    <3>1. PICK s \in SUBSET Models : client' = [client EXCEPT ![c].seen = s, ![c].pc = "begin"]
      BY <2>1 DEF ReloadReads
    <3>2. PICK w \in ClientType : w = [client[c] EXCEPT !.seen = s, !.pc = "begin"]
      BY <1>1 DEF ClientType
    <3> QED BY <1>1, <3>1, <3>2 DEF ClientType
  <2>2. CASE ReloadJoins(c)
    <3>1. PICK w \in ClientType : w = [client[c] EXCEPT !.pc = "apply", !.left = {}]
      BY <1>1 DEF ClientType
    <3>2. w.m = client[c].m /\ w.back = client[c].back /\ w.pc = "apply"
      BY <1>1, <3>1 DEF ClientType
    <3>3. client' = [client EXCEPT ![c] = w]
      BY <2>2, <3>1 DEF ReloadJoins
    <3> QED BY <3>2, <3>3
  <2>3. CASE ReloadHolds(c)
    <3>1. PICK w \in ClientType : w = [client[c] EXCEPT !.pc = "join_apply"]
      BY <1>1 DEF ClientType
    <3> QED BY <1>1, <2>3, <3>1 DEF ClientType, ReloadHolds
  <2> QED BY <2>1, <2>2, <2>3
<1>4. PICK w \in ClientType : /\ client' = [client EXCEPT ![c] = w]
                              /\ w.m = client[c].m /\ w.back = client[c].back
                              /\ w.pc \in {"begin", "apply", "join_apply"}
  BY <1>3
<1>5. Names(w)
  BY <1>1, <1>4 DEF Names
<1> QED BY <1>1, <1>2, <1>4, <1>5, RequestMoves

LEMMA BeginsKeeps == ASSUME Inv, NEW c \in Clients, ReloadBegins(c) PROVE Inv'
<1>1. client[c] \in ClientType /\ Names(client[c]) /\ client[c].pc = "begin" /\ shut = "no"
  BY RequestFacts DEF ReloadBegins, At
<1>2. UNCHANGED <<inst, joinable, stopping, lock, shut>> /\ needReload' = FALSE /\ isReloading' \in BOOLEAN
  BY DEF ReloadBegins, HoldsLoads, Inv, TypeOK
<1>3. inst \in [Models -> InstanceType] /\ joinable \subseteq Models /\ stopping \subseteq Models
  BY DEF Inv, TypeOK
<1>4. CASE FirstLoad
  <2>1. /\ status' = [m \in Models |-> IF m \in client[c].seen THEN "unloaded" ELSE "absent"]
        /\ ReloadReturns(c)
    BY <1>4 DEF ReloadBegins
  <2>2. PICK w \in ClientType : client' = [client EXCEPT ![c] = w] /\ Names(w)
                                /\ w.pc \in {"idle", "lookup", "proxy"}
    BY <1>1, <2>1, ReturnMoves
  <2>3. status' \in [Models -> Status]
        /\ \A m \in Models : status[m] \notin RunningStatus /\ status'[m] \notin RunningStatus
    BY <1>4, <2>1 DEF FirstLoad, InMapping, Status, RunningStatus
  <2>4. \A m \in Models : Running(m)' => Running(m)
    BY <2>3 DEF Running
  <2>5. ListAgrees'
    <3> SUFFICES ASSUME NEW m \in Models PROVE Agrees(status'[m], inst[m], Held(m))
      BY <1>2 DEF ListAgrees, Held
    <3> QED BY <2>3, ThreadFacts DEF Agrees
  <2> QED BY <1>1, <1>2, <1>3, <2>2, <2>3, <2>4, <2>5, RequestStep
<1>5. CASE ~FirstLoad
  <2>1. PICK changed \in SUBSET (RunningModels \cap client[c].seen) :
          LET targets == (RunningModels \ client[c].seen) \cup changed IN
          client' = [client EXCEPT ![c].pc = "stop", ![c].targets = targets, ![c].left = targets]
    BY <1>5 DEF ReloadBegins
  <2> DEFINE T == (RunningModels \ client[c].seen) \cup changed
  <2>2. T \subseteq Models
    BY <2>1 DEF RunningModels
  <2>3. client' = [client EXCEPT ![c].pc = "stop", ![c].targets = T, ![c].left = T]
    BY <2>1
  <2> HIDE DEF T
  <2>4. PICK w \in ClientType : w = [client[c] EXCEPT !.pc = "stop", !.targets = T, !.left = T]
    BY <1>1, <2>2 DEF ClientType
  <2>5. w.pc = "stop" /\ w.m = client[c].m /\ w.back = client[c].back
    BY <1>1, <2>4 DEF ClientType
  <2>6. Names(w)
    BY <1>1, <2>5 DEF Names
  <2>7. client' = [client EXCEPT ![c] = w]
    BY <2>3, <2>4
  <2>8. UNCHANGED status /\ status \in [Models -> Status] /\ ListAgrees
    BY <1>5 DEF ReloadBegins, Inv, TypeOK
  <2>9. ListAgrees' /\ \A m \in Models : Running(m)' => Running(m)
    BY <1>2, <2>8 DEF ListAgrees, Held, Running
  <2> QED BY <1>1, <1>2, <1>3, <2>5, <2>6, <2>7, <2>8, <2>9, RequestStep
<1> QED BY <1>4, <1>5

LEMMA CollectsKeeps == ASSUME Inv, NEW c \in Clients, ReloadCollects(c) PROVE Inv'
<1>1. client[c] \in ClientType /\ Names(client[c]) /\ client[c].pc = "stop" /\ shut = "no"
  BY RequestFacts DEF ReloadCollects, At
<1> DEFINE T == ThreadsToJoin(c)
<1>2. T \subseteq Models
  BY DEF ThreadsToJoin, Inv, TypeOK
<1>3. PICK w \in ClientType : w = [client[c] EXCEPT !.pc = "join", !.left = T]
  BY <1>1, <1>2 DEF ClientType
<1>4. w.pc = "join" /\ w.m = client[c].m /\ w.back = client[c].back
  BY <1>1, <1>3 DEF ClientType
<1>5. Names(w)
  BY <1>1, <1>4 DEF Names
<1>6. client' = [client EXCEPT ![c] = w] /\ joinable' = joinable \ T
      /\ UNCHANGED <<status, inst, stopping, isReloading, needReload, lock, shut>>
  BY <1>3 DEF ReloadCollects
<1>7. \A m \in T : ~Running(m)
  BY DEF ReloadCollects, ThreadsToJoin, Running
<1> HIDE DEF T
<1>8. ListAgrees'
  <2> SUFFICES ASSUME NEW m \in Models PROVE Agrees(status[m], inst[m], Held(m)')
    BY <1>6 DEF ListAgrees
  <2>1. Running(m) => Held(m)' = Held(m)
    BY <1>6, <1>7 DEF Held
  <2> QED BY <2>1, ThreadFacts DEF Agrees, Running
<1>9. \A m \in Models : Running(m)' => Running(m)
  BY <1>6 DEF Running
<1> QED BY <1>1, <1>4, <1>5, <1>6, <1>8, <1>9, RequestStep DEF Inv, TypeOK

LEMMA AppliesKeeps == ASSUME Inv, NEW c \in Clients, ReloadApplies(c) PROVE Inv'
<1>1. client[c] \in ClientType /\ Names(client[c]) /\ client[c].pc \in {"apply", "join_apply"} /\ shut = "no"
  BY RequestFacts DEF ReloadApplies, At, Holds
<1>2. UNCHANGED <<inst, stopping, needReload, shut>>
  BY DEF ReloadApplies
<1>3. CASE AssertionFails(c)
  <2>1. lock' = Aborted /\ UNCHANGED <<status, joinable, isReloading, client>>
    BY <1>3 DEF ReloadApplies
  <2>2. client' = [client EXCEPT ![c] = client[c]]
    BY <2>1 DEF Inv, TypeOK
  <2>3. ListAgrees' /\ \A m \in Models : Running(m)' => Running(m)
    BY <1>2, <2>1 DEF Inv, ListAgrees, Held, Running
  <2> QED BY <1>1, <1>2, <2>1, <2>2, <2>3, RequestStep DEF Inv, TypeOK
<1>4. CASE ~AssertionFails(c)
  <2>1. /\ status' = [m \in Models |->
              IF Erased(c, m) \/ ~InMapping(m)
              THEN IF m \in client[c].seen THEN "unloaded" ELSE "absent"
              ELSE status[m]]
        /\ joinable' = {m \in joinable : ~Erased(c, m)} /\ isReloading' = FALSE /\ lock' = Free
        /\ ReloadReturns(c)
    BY <1>4 DEF ReloadApplies
  <2>2. PICK w \in ClientType : client' = [client EXCEPT ![c] = w] /\ Names(w)
                                /\ w.pc \in {"idle", "lookup", "proxy"}
    BY <1>1, <2>1, ReturnMoves
  <2>3. status' \in [Models -> Status]
    BY <2>1 DEF Inv, TypeOK, Status
  <2>4. \A m \in Models : Erased(c, m) => ~Running(m)
    <3> SUFFICES ASSUME NEW m \in Models, Erased(c, m), Running(m) PROVE FALSE
      OBVIOUS
    <3>1. status[m] # "downloaded"
      BY DEF Running, RunningStatus
    <3>2. m \notin joinable
      BY <1>4, <3>1 DEF AssertionFails
    <3> QED BY <1>1, <3>2, ThreadFacts DEF Agrees, Running, Held
  <2>5. \A m \in Models : (Running(m)' => Running(m)) /\ (status'[m] = status[m] \/ (~Running(m) /\ ~Running(m)'))
    BY <2>1, <2>4 DEF Running, RunningStatus, InMapping
  <2>6. ListAgrees'
    <3> SUFFICES ASSUME NEW m \in Models PROVE Agrees(status'[m], inst[m], Held(m)')
      BY <1>2 DEF ListAgrees
    <3>1. Running(m) => Held(m)' = Held(m)
      BY <1>2, <2>1, <2>4 DEF Held
    <3> QED BY <2>5, <3>1, ThreadFacts DEF Agrees, Running
  <2>7. joinable' \subseteq Models /\ TypeOK
    BY <2>1 DEF Inv, TypeOK
  <2> QED BY <1>1, <1>2, <2>1, <2>2, <2>3, <2>5, <2>6, <2>7, RequestStep DEF TypeOK
<1> QED BY <1>3, <1>4

-----------------------------------------------------------------------------
(* The end, and the invariant                                              *)

LEMMA UnloadAllKeeps == ASSUME Inv, UnloadAll PROVE Inv'
<1>1. /\ inst' = [m \in Models |-> [inst[m] EXCEPT !.stopped = @ \/ status[m] = "downloading"]]
      /\ stopping' = stopping \cup {m \in Models : ToldToStop(m)} /\ joinable' = {} /\ shut' = "joining"
      /\ UNCHANGED <<status, isReloading, needReload, lock, client>>
      /\ \A c \in Clients : client[c].pc = "idle"
  BY DEF UnloadAll
<1>2. \A m \in Models : inst[m] \in InstanceType
  BY DEF Inv, TypeOK
<1>3. \A m \in Models : [inst[m] EXCEPT !.stopped = @ \/ status[m] = "downloading"] \in InstanceType
  BY <1>2 DEF InstanceType
<1>4. inst' \in [Models -> InstanceType]
  BY <1>1, <1>3
<1>5. TypeOK'
  BY <1>1, <1>4 DEF Inv, TypeOK
<1>6. ListAgrees'
  <2> SUFFICES ASSUME NEW m \in Models PROVE Agrees(status[m], inst'[m], Held(m)')
    BY <1>1 DEF ListAgrees
  <2>1. inst'[m] = [inst[m] EXCEPT !.stopped = @ \/ status[m] = "downloading"] /\ Held(m)'
    BY <1>1 DEF Held
  <2> QED BY <1>2, <2>1, ThreadFacts DEF Agrees, InstanceType
<1>7. \A m \in Models : Running(m)' => Running(m)
  BY <1>1 DEF Running
<1>8. WithinLimit' /\ (LimitReached' => LimitReached)
  BY <1>7, FewerRun DEF Inv
<1>9. RequestsName' /\ CountHolds' /\ ShutdownIsAlone'
  BY <1>1, <1>8 DEF Inv, RequestsName, CountHolds, Holds, ShutdownIsAlone
<1> QED BY <1>5, <1>6, <1>8, <1>9 DEF Inv

LEMMA AllJoinedKeeps == ASSUME Inv, AllJoined PROVE Inv'
<1>1. shut # "no" /\ shut' = "done"
      /\ UNCHANGED <<status, inst, joinable, stopping, isReloading, needReload, lock, client>>
  BY DEF AllJoined
<1>2. TypeOK' /\ RequestsName' /\ ShutdownIsAlone'
  BY <1>1 DEF Inv, TypeOK, RequestsName, ShutdownIsAlone
<1>3. ListAgrees'
  BY <1>1 DEF Inv, ListAgrees, Held
<1>4. WithinLimit' /\ CountHolds'
  BY <1>1 DEF Inv, WithinLimit, CountHolds, Holds, LimitReached, RunningModels, Running
<1> QED BY <1>2, <1>3, <1>4 DEF Inv

LEMMA StutterKeeps == ASSUME Inv, UNCHANGED vars PROVE Inv'
<1>1. UNCHANGED <<status, inst, joinable, stopping, isReloading, needReload, lock, client, shut>>
  BY DEF vars
<1>2. TypeOK' /\ RequestsName' /\ ShutdownIsAlone'
  BY <1>1 DEF Inv, TypeOK, RequestsName, ShutdownIsAlone
<1>3. ListAgrees'
  BY <1>1 DEF Inv, ListAgrees, Held
<1>4. WithinLimit' /\ CountHolds'
  BY <1>1 DEF Inv, WithinLimit, CountHolds, Holds, LimitReached, RunningModels, Running
<1> QED BY <1>2, <1>3, <1>4 DEF Inv

LEMMA InvNext == Inv /\ [Next]_vars => Inv'
<1> SUFFICES ASSUME Inv, [Next]_vars PROVE Inv' OBVIOUS
<1>1. ASSUME NEW c \in Clients, ClientStep(c) PROVE Inv'
  <2>1. CASE \E op \in Ops \ {"reload"}, m \in Models : Ask(c, op, m)
    BY <2>1, AskKeeps, ConstantsAssumption
  <2>2. CASE "reload" \in Ops /\ Ask(c, "reload", NoModel)
    BY <2>2, AskKeeps, ConstantsAssumption
  <2> QED
    BY <1>1, <2>1, <2>2, LookupsKeep, EntriesKeep, StopsKeep, RemovesKeep, LoadCountsKeeps,
       SpawnJoinsKeeps, SpawnKeeps, ReadsKeep, BeginsKeeps, CollectsKeeps, AppliesKeeps
    DEF ClientStep
<1>2. CASE \E m \in Models : ChildStep(m) \/ Manage(m) \/ StopThread(m)
  BY <1>2, ChildKeeps, ManagerKeeps, StopThreadKeeps
<1>3. CASE UnloadAll \/ AllJoined \/ Ended \/ UNCHANGED vars
  BY <1>3, UnloadAllKeeps, AllJoinedKeeps, StutterKeeps DEF Ended
<1> QED BY <1>1, <1>2, <1>3 DEF Next

LEMMA Invariance == Spec => []Inv
BY InvInit, InvNext, PTL DEF Spec

-----------------------------------------------------------------------------
(* Threads and reloads have an owner                                       *)

Reloading(c) == client[c].pc \in {"stop", "join", "apply", "join_apply"}
Joins(c, m) == client[c].pc = "join" /\ m \in client[c].left

LEMMA OthersKept ==
    ASSUME Inv, NEW c \in Clients, ClientStep(c), NEW d \in Clients \ {c}
    PROVE  client'[d] = client[d] /\ shut' = shut
<1>1. client \in [Clients -> ClientType]
  BY DEF Inv, TypeOK
<1>2. CASE \/ \E op \in Ops \ {"reload"}, m \in Models : Ask(c, op, m)
           \/ "reload" \in Ops /\ Ask(c, "reload", NoModel)
           \/ LookupReloads(c) \/ LookUp(c) \/ EnsureReady(c) \/ Proxy(c) \/ Touch(c)
           \/ Unload(c) \/ AwaitCancel(c) \/ Remove(c) \/ RemoveJoins(c) \/ RemoveErases(c)
  BY <1>1, <1>2
  DEF Ask, LookupReloads, LookUp, EnsureReady, Proxy, Touch, Unload, AwaitCancel, Remove, RemoveJoins,
      RemoveErases, Go
<1>3. CASE \/ LoadCounts(c) \/ StopLru(c) \/ AwaitLru(c)
           \/ SpawnRefused(c) \/ SpawnJoins(c) \/ Spawn(c) \/ DownloadChecks(c)
  BY <1>1, <1>3 DEF LoadCounts, StopLru, AwaitLru, SpawnRefused, SpawnJoins, Spawn, DownloadChecks, Go
<1>4. CASE \/ ReloadReads(c) \/ ReloadBegins(c) \/ (\E m \in Models : ReloadStops(c, m))
           \/ ReloadCollects(c) \/ ReloadJoins(c) \/ ReloadHolds(c) \/ ReloadApplies(c)
  BY <1>1, <1>4
  DEF ReloadReads, ReloadBegins, ReloadStops, ReloadCollects, ReloadJoins, ReloadHolds, ReloadApplies,
      ReloadReturns
<1> QED BY <1>2, <1>3, <1>4 DEF ClientStep

\* What a step of an HTTP thread must do to the threads
LEMMA RequestOwns ==
    ASSUME Inv, NoThreadLost, NEW c \in Clients, ClientStep(c),
           \A m \in joinable' : InMapping(m)', joinable' \subseteq Models,
           \A m \in Models : ~ThreadOver(m)' => \/ m \in joinable' \/ Joins(c, m)'
                                                \/ ~ThreadOver(m) /\ m \notin joinable /\ ~Joins(c, m)
    PROVE  NoThreadLost'
<1> SUFFICES ASSUME NEW m \in Models, ~ThreadOver(m)', m \notin joinable', shut' # "joining"
             PROVE  \E d \in Clients : Joins(d, m)'
  BY DEF NoThreadLost, Joins
<1>1. CASE Joins(c, m)'
  BY <1>1
<1>2. CASE ~ThreadOver(m) /\ m \notin joinable /\ ~Joins(c, m)
  <2>1. PICK d \in Clients : shut = "joining" \/ Joins(d, m)
    BY <1>2 DEF NoThreadLost, Joins
  <2>2. shut = "no"
    BY RequestFacts DEF ClientStep, Ask, LookupReloads, LookUp, EnsureReady, Proxy, Touch, Unload,
       AwaitCancel, Remove, RemoveJoins, RemoveErases, LoadCounts, StopLru, AwaitLru, SpawnRefused,
       SpawnJoins, Spawn, DownloadChecks, ReloadReads, ReloadBegins, ReloadStops, ReloadCollects,
       ReloadJoins, ReloadHolds, ReloadApplies, At, Holds, MayLookUp, MaySpawn, MaySpawnNow
  <2>3. Joins(d, m) /\ d # c
    BY <1>2, <2>1, <2>2
  <2>4. client'[d] = client[d]
    BY <2>3, OthersKept
  <2> QED BY <2>3, <2>4 DEF Joins
<1> QED BY <1>1, <1>2

\* A step that neither starts nor collects a thread, and erases no entry
LEMMA PlainOwns ==
    ASSUME Inv, NoThreadLost, NEW c \in Clients, ClientStep(c), client[c].pc # "join",
           UNCHANGED joinable, \A m \in Models : InMapping(m) => InMapping(m)',
           \A m \in Models : inst'[m].th = inst[m].th
    PROVE  NoThreadLost'
<1>1. \A m \in joinable' : InMapping(m)' /\ m \in Models
  BY DEF Inv, TypeOK, NoThreadLost
<1>2. \A m \in Models : ThreadOver(m)' = ThreadOver(m) /\ ~Joins(c, m)
  BY DEF ThreadOver, Joins
<1> QED BY <1>1, <1>2, RequestOwns

LEMMA InterruptSpares ==
    ASSUME Inv, NEW m \in Models, Interrupt(m)
    PROVE  \A n \in Models : inst'[n].th = inst[n].th
<1>1. inst \in [Models -> InstanceType]
  BY DEF Inv, TypeOK
<1> QED BY <1>1 DEF Interrupt, Interrupted, AskedToExit, Killed, InstanceType

LEMMA EntrySpares ==
    ASSUME Inv, NEW m, status' = Entry(m)
    PROVE  \A n \in Models : InMapping(n) => InMapping(n)'
BY DEF Inv, TypeOK, Entry, InMapping

LEMMA LookupsOwn ==
    ASSUME Inv, NoThreadLost, NEW c \in Clients, ClientStep(c),
           \/ \E op \in Ops, m \in Models \cup {NoModel} : Ask(c, op, m)
           \/ LookupReloads(c) \/ LookUp(c) \/ EnsureReady(c) \/ Proxy(c) \/ AwaitCancel(c)
           \/ DownloadChecks(c) \/ RemoveJoins(c) \/ LoadCounts(c)
           \/ ReloadReads(c) \/ ReloadHolds(c)
    PROVE  NoThreadLost'
<1>1. UNCHANGED <<status, inst, joinable>> /\ client[c].pc # "join"
  BY DEF Ask, LookupReloads, LookUp, EnsureReady, Proxy, AwaitCancel, DownloadChecks, RemoveJoins,
         LoadCounts, ReloadReads, ReloadHolds, MayLookUp, At
<1> QED BY <1>1, PlainOwns DEF InMapping

LEMMA ChangesOwn ==
    ASSUME Inv, NoThreadLost, NEW c \in Clients, ClientStep(c),
           \/ Touch(c) \/ AwaitLru(c) \/ SpawnRefused(c) \/ SpawnJoins(c)
           \/ Unload(c) \/ Remove(c) \/ StopLru(c) \/ \E m \in Models : ReloadStops(c, m)
    PROVE  NoThreadLost'
<1>1. client[c].pc # "join" /\ UNCHANGED joinable
  BY DEF Touch, AwaitLru, SpawnRefused, SpawnJoins, Unload, Remove, StopLru, ReloadStops, At, MaySpawn,
         MaySpawnNow
<1>2. CASE Touch(c) \/ AwaitLru(c) \/ SpawnRefused(c)
  <2>1. UNCHANGED inst
    BY <1>2 DEF Touch, AwaitLru, SpawnRefused
  <2>2. \A n \in Models : InMapping(n) => InMapping(n)'
    BY <1>2, EntrySpares DEF Touch, AwaitLru, SpawnRefused, InMapping
  <2> QED BY <1>1, <2>1, <2>2, PlainOwns
<1>3. CASE SpawnJoins(c)
  <2>1. inst \in [Models -> InstanceType] /\ UNCHANGED status
    BY <1>3 DEF SpawnJoins, Inv, TypeOK
  <2>2. inst' = [inst EXCEPT ![client[c].m] = Killed(@)]
    BY <1>3 DEF SpawnJoins
  <2>3. \A n \in Models : inst'[n].th = inst[n].th
    BY <2>1, <2>2 DEF Killed, InstanceType
  <2> QED BY <1>1, <2>1, <2>3, PlainOwns DEF InMapping
<1>4. CASE Unload(c) \/ Remove(c) \/ StopLru(c) \/ \E m \in Models : ReloadStops(c, m)
  <2>1. PICK m \in Models : Interrupt(m)
    <3>1. client[c].pc \in {"unload", "remove"} => client[c].m \in Models
      BY RequestFacts DEF Names
    <3>2. client[c].pc = "stop_lru" => client[c].victim \in Models
      BY RequestFacts DEF Names
    <3> QED BY <1>4, <3>1, <3>2 DEF Unload, Remove, StopLru, ReloadStops, At
  <2>2. UNCHANGED status
    BY <1>4 DEF Unload, Remove, StopLru, ReloadStops
  <2> QED BY <1>1, <2>1, <2>2, InterruptSpares, PlainOwns DEF InMapping
<1> QED BY <1>2, <1>3, <1>4

LEMMA ErasesOwn ==
    ASSUME Inv, NoThreadLost, NEW c \in Clients, ClientStep(c), RemoveErases(c)
    PROVE  NoThreadLost'
<1> DEFINE m == client[c].m
<1>1. /\ status' = [status EXCEPT ![m] = "absent"] /\ joinable' = joinable \ {m} /\ UNCHANGED inst
      /\ client[c].pc # "join"
      /\ m \in joinable => ThreadOver(m)
  BY DEF RemoveErases, MustJoin, At, Holds
<1>2. status \in [Models -> Status] /\ joinable \subseteq Models
  BY DEF Inv, TypeOK
<1> HIDE DEF m
<1>3. \A n \in joinable' : InMapping(n)'
  BY <1>1, <1>2 DEF InMapping, NoThreadLost
<1>4. \A n \in Models : ThreadOver(n)' = ThreadOver(n) /\ ~Joins(c, n)
  BY <1>1 DEF ThreadOver, Joins
<1> QED BY <1>1, <1>2, <1>3, <1>4, RequestOwns

LEMMA SpawnOwns ==
    ASSUME Inv, NoThreadLost, NEW c \in Clients, ClientStep(c), Spawn(c)
    PROVE  NoThreadLost'
<1> DEFINE m == client[c].m
<1>1. client[c].pc \in {"spawn", "join_spawn"} /\ m \in Models
  BY RequestFacts DEF Spawn, MaySpawnNow, MaySpawn, At, Holds, Names
<1>2. /\ \E st \in {"downloading", "loading"} : status' = [status EXCEPT ![m] = st]
      /\ \E i : inst' = [inst EXCEPT ![m] = i]
      /\ joinable' = joinable \cup {m}
  BY DEF Spawn
<1>3. status \in [Models -> Status] /\ inst \in [Models -> InstanceType] /\ joinable \subseteq Models
  BY DEF Inv, TypeOK
<1> HIDE DEF m
<1>4. joinable' \subseteq Models /\ \A n \in joinable' : InMapping(n)'
  BY <1>1, <1>2, <1>3 DEF InMapping, NoThreadLost
<1>5. \A n \in Models : n = m \/ ThreadOver(n)' = ThreadOver(n)
  BY <1>2, <1>3 DEF ThreadOver
<1>6. \A n \in Models : ~Joins(c, n)
  BY <1>1 DEF Joins
<1> QED BY <1>2, <1>4, <1>5, <1>6, RequestOwns

LEMMA BeginsOwn ==
    ASSUME Inv, NoThreadLost, NEW c \in Clients, ClientStep(c), ReloadBegins(c)
    PROVE  NoThreadLost'
<1>1. client[c].pc = "begin" /\ UNCHANGED <<inst, joinable>> /\ (UNCHANGED status \/ FirstLoad)
  BY DEF ReloadBegins, At
<1>2. FirstLoad => joinable = {}
  BY DEF FirstLoad, Inv, TypeOK, NoThreadLost
<1>3. \A m \in joinable' : m \in Models /\ InMapping(m)'
  BY <1>1, <1>2 DEF InMapping, Inv, TypeOK, NoThreadLost
<1>4. \A m \in Models : ThreadOver(m)' = ThreadOver(m) /\ ~Joins(c, m)
  BY <1>1 DEF ThreadOver, Joins
<1> QED BY <1>1, <1>3, <1>4, RequestOwns

LEMMA CollectsOwn ==
    ASSUME Inv, NoThreadLost, NEW c \in Clients, ClientStep(c), ReloadCollects(c)
    PROVE  NoThreadLost'
<1> DEFINE T == ThreadsToJoin(c)
<1>1. /\ client[c].pc = "stop" /\ UNCHANGED <<inst, status>> /\ joinable' = joinable \ T
      /\ client' = [client EXCEPT ![c].pc = "join", ![c].left = T]
  BY DEF ReloadCollects, At
<1>2. client \in [Clients -> ClientType]
  BY DEF Inv, TypeOK
<1> HIDE DEF T
<1>3. client'[c].pc = "join" /\ client'[c].left = T
  BY <1>1, <1>2 DEF ClientType
<1>4. \A m \in Models : ThreadOver(m)' = ThreadOver(m) /\ ~Joins(c, m) /\ (Joins(c, m)' <=> m \in T)
  BY <1>1, <1>3 DEF ThreadOver, Joins
<1>5. \A m \in joinable' : m \in Models /\ InMapping(m)'
  BY <1>1 DEF InMapping, Inv, TypeOK, NoThreadLost
<1> QED BY <1>1, <1>4, <1>5, RequestOwns

LEMMA JoinsOwn ==
    ASSUME Inv, NoThreadLost, NEW c \in Clients, ClientStep(c), ReloadJoins(c)
    PROVE  NoThreadLost'
<1>1. UNCHANGED <<inst, status, joinable>> /\ \A m \in Models : Joins(c, m) => ThreadOver(m)
  BY DEF ReloadJoins, Joins
<1>2. \A m \in Models : ThreadOver(m)' = ThreadOver(m)
  BY <1>1 DEF ThreadOver
<1>3. \A m \in joinable' : m \in Models /\ InMapping(m)'
  BY <1>1 DEF InMapping, Inv, TypeOK, NoThreadLost
<1> QED BY <1>1, <1>2, <1>3, RequestOwns

LEMMA AppliesOwn ==
    ASSUME Inv, NoThreadLost, NEW c \in Clients, ClientStep(c), ReloadApplies(c)
    PROVE  NoThreadLost'
<1>1. UNCHANGED inst /\ client[c].pc \in {"apply", "join_apply"}
  BY DEF ReloadApplies, At, Holds
<1>2. \A m \in Models : ThreadOver(m)' = ThreadOver(m) /\ ~Joins(c, m)
  BY <1>1 DEF ThreadOver, Joins
<1>3. CASE AssertionFails(c)
  <2>1. UNCHANGED <<status, joinable>>
    BY <1>3 DEF ReloadApplies
  <2>2. \A m \in joinable' : m \in Models /\ InMapping(m)'
    BY <2>1 DEF InMapping, Inv, TypeOK, NoThreadLost
  <2> QED BY <1>2, <2>1, <2>2, RequestOwns
<1>4. CASE ~AssertionFails(c)
  <2>1. /\ status' = [m \in Models |->
              IF Erased(c, m) \/ ~InMapping(m)
              THEN IF m \in client[c].seen THEN "unloaded" ELSE "absent"
              ELSE status[m]]
        /\ joinable' = {m \in joinable : ~Erased(c, m)}
        /\ \A m \in Models : status[m] = "downloaded" => ~MustJoin(m)
    BY <1>4 DEF ReloadApplies
  <2>2. \A m \in joinable' : m \in Models /\ InMapping(m)'
    BY <2>1 DEF InMapping, Inv, TypeOK, NoThreadLost
  <2>3. \A m \in joinable : Erased(c, m) => ThreadOver(m)
    BY <1>4, <2>1 DEF AssertionFails, MustJoin, Inv, TypeOK
  <2>4. \A m \in Models : m \in joinable /\ ~ThreadOver(m) => m \in joinable'
    BY <2>1, <2>3
  <2> QED BY <1>2, <2>2, <2>4, RequestOwns
<1> QED BY <1>3, <1>4

\* A thread of an instance ends, but it does not begin, and it leaves its
\* entry in the list.
LEMMA InstanceOwns ==
    ASSUME Inv, NoThreadLost, NEW m \in Models, ChildStep(m) \/ Manage(m) \/ StopThread(m)
    PROVE  NoThreadLost'
<1>1. UNCHANGED <<joinable, client, shut>>
  BY DEF ChildStep, ChildReports, ChildObeys, ChildCrashes, Manage, ReadReport, AnswerResult, SeeEof,
         Release, Finish, StopThread, StopRequested, StopSeen, StopKills
<1>2. inst \in [Models -> InstanceType] /\ status \in [Models -> Status]
  BY DEF Inv, TypeOK
<1>3. \A n \in Models : InMapping(n) => InMapping(n)'
  BY <1>2
  DEF InMapping, ChildStep, ChildReports, ChildObeys, ChildCrashes, Manage, ReadReport, AnswerResult,
      SeeEof, Release, Finish, StopThread, StopRequested, StopSeen, StopKills, Reported, EndStatus,
      InstanceType
<1>4. \A n \in Models : ThreadOver(n) => ThreadOver(n)'
  <2> SUFFICES ASSUME NEW n \in Models, ThreadOver(n) PROVE ThreadOver(n)'
    OBVIOUS
  <2>1. inst[n] \in InstanceType /\ inst[n].th \in {"none", "over"}
    BY <1>2 DEF ThreadOver
  <2>2. CASE ChildStep(m)
    <3>1. CASE ChildReports(m)
      <4>1. PICK said, next : inst' = [inst EXCEPT ![m].pipe = said, ![m].proc = next]
        BY <3>1 DEF ChildReports
      <4> QED BY <1>2, <2>1, <4>1 DEF ThreadOver, InstanceType
    <3>2. CASE ChildObeys(m) \/ ChildCrashes(m)
      BY <1>2, <2>1, <3>2 DEF ThreadOver, ChildObeys, ChildCrashes, InstanceType
    <3> QED BY <2>2, <3>1, <3>2 DEF ChildStep
  <2>3. CASE Manage(m)
    BY <1>2, <2>1, <2>3
    DEF ThreadOver, Manage, ReadReport, AnswerResult, SeeEof, Release, Finish, InstanceType
  <2>4. CASE StopThread(m)
    BY <1>2, <2>1, <2>4 DEF ThreadOver, StopThread, StopRequested, StopSeen, StopKills, InstanceType
  <2> QED BY <2>2, <2>3, <2>4
<1> QED BY <1>1, <1>3, <1>4 DEF NoThreadLost, Inv, TypeOK

LEMMA ThreadsNext == Inv /\ NoThreadLost /\ [Next]_vars => NoThreadLost'
<1> SUFFICES ASSUME Inv, NoThreadLost, [Next]_vars PROVE NoThreadLost' OBVIOUS
<1>1. ASSUME NEW c \in Clients, ClientStep(c) PROVE NoThreadLost'
  <2>1. CASE \E op \in Ops, m \in Models \cup {NoModel} : Ask(c, op, m)
    BY <1>1, <2>1, LookupsOwn
  <2> QED
    BY <1>1, <2>1, LookupsOwn, ChangesOwn, ErasesOwn, SpawnOwns, BeginsOwn, CollectsOwn, JoinsOwn,
       AppliesOwn
    DEF ClientStep
<1>2. CASE \E m \in Models : ChildStep(m) \/ Manage(m) \/ StopThread(m)
  BY <1>2, InstanceOwns
<1>3. CASE UnloadAll
  BY <1>3 DEF UnloadAll, NoThreadLost
<1>4. CASE AllJoined
  BY <1>4 DEF AllJoined, NoThreadLost, InMapping, ThreadOver
<1>5. CASE UNCHANGED vars
  BY <1>5 DEF vars, NoThreadLost, InMapping, ThreadOver
<1> QED BY <1>1, <1>2, <1>3, <1>4, <1>5 DEF Next, Ended

\* A step of a thread that reloads the list either goes on with it or lets
\* the loads go on.
LEMMA ReloadGoesOn ==
    ASSUME Inv, NEW c \in Clients, ClientStep(c), isReloading', isReloading => Reloading(c)
    PROVE  Reloading(c)'
<1>1. client \in [Clients -> ClientType] /\ client[c] \in ClientType
  BY DEF Inv, TypeOK
<1>2. CASE ReloadBegins(c)
  <2>1. ~Reloading(c)
    BY <1>2 DEF ReloadBegins, At, Reloading
  <2>2. ~FirstLoad
    BY <1>2, <2>1 DEF ReloadBegins, HoldsLoads
  <2>3. PICK targets : client' = [client EXCEPT ![c].pc = "stop", ![c].targets = targets, ![c].left = targets]
    BY <1>2, <2>2 DEF ReloadBegins
  <2> QED BY <1>1, <2>3 DEF Reloading, ClientType
<1>3. CASE ~ReloadBegins(c)
  <2>1. isReloading' = isReloading \/ ReloadApplies(c)
    BY <1>3 DEF ClientStep, Ask, LookupReloads, LookUp, EnsureReady, Proxy, Touch, Unload,
       AwaitCancel, Remove, RemoveJoins, RemoveErases, LoadCounts, StopLru, AwaitLru, SpawnRefused,
       SpawnJoins, Spawn, DownloadChecks, ReloadReads, ReloadStops, ReloadCollects, ReloadJoins, ReloadHolds
  <2>2. CASE ReloadApplies(c)
    <3>1. client' = client /\ client[c].pc \in {"apply", "join_apply"}
      BY <2>2 DEF ReloadApplies, At, Holds
    <3> QED BY <3>1 DEF Reloading
  <2>3. CASE ~ReloadApplies(c)
    <3>1. Reloading(c)
      BY <2>1, <2>3
    <3>2. (\E m \in Models : ReloadStops(c, m)) \/ ReloadCollects(c) \/ ReloadJoins(c) \/ ReloadHolds(c)
      BY <1>3, <2>3, <3>1 DEF Reloading, ClientStep, Ask, LookupReloads, LookUp, EnsureReady, Proxy, Touch,
         Unload, AwaitCancel, Remove, RemoveJoins, RemoveErases, LoadCounts, StopLru, AwaitLru,
         SpawnRefused, SpawnJoins, Spawn, DownloadChecks, ReloadReads, At, Holds, MayLookUp, MaySpawn,
         MaySpawnNow
    <3>3. CASE \E m \in Models : ReloadStops(c, m)
      BY <1>1, <3>3 DEF ReloadStops, At, Reloading, ClientType
    <3>4. CASE ReloadCollects(c) \/ ReloadJoins(c) \/ ReloadHolds(c)
      <4>1. PICK pc \in {"join", "apply", "join_apply"} :
              \/ \E left : client' = [client EXCEPT ![c].pc = pc, ![c].left = left]
              \/ client' = [client EXCEPT ![c].pc = pc]
        BY <3>4 DEF ReloadCollects, ReloadJoins, ReloadHolds
      <4> QED BY <1>1, <4>1 DEF Reloading, ClientType
    <3> QED BY <3>2, <3>3, <3>4
  <2> QED BY <2>2, <2>3
<1> QED BY <1>2, <1>3

LEMMA ReloadsNext == Inv /\ ReloadHasOwner /\ [Next]_vars => ReloadHasOwner'
<1> SUFFICES ASSUME Inv, ReloadHasOwner, [Next]_vars, isReloading' PROVE \E d \in Clients : Reloading(d)'
  BY DEF ReloadHasOwner, Reloading
<1>1. isReloading => \E d \in Clients : Reloading(d)
  BY DEF ReloadHasOwner, Reloading
<1>2. ASSUME NEW c \in Clients, ClientStep(c) PROVE \E d \in Clients : Reloading(d)'
  <2>1. CASE \E d \in Clients \ {c} : Reloading(d)
    <3>1. PICK d \in Clients \ {c} : Reloading(d)
      BY <2>1
    <3>2. client'[d] = client[d]
      BY <1>2, OthersKept
    <3> QED BY <3>1, <3>2 DEF Reloading
  <2>2. CASE \A d \in Clients \ {c} : ~Reloading(d)
    BY <1>1, <1>2, <2>2, ReloadGoesOn
  <2> QED BY <2>1, <2>2
<1>3. CASE UNCHANGED <<isReloading, client>>
  BY <1>1, <1>3 DEF Reloading
<1>4. ASSUME NEW m \in Models, ChildStep(m) \/ Manage(m) \/ StopThread(m)
      PROVE  UNCHANGED <<isReloading, client>>
  BY <1>4 DEF ChildStep, ChildReports, ChildObeys, ChildCrashes, Manage, ReadReport, AnswerResult, SeeEof,
              Release, Finish, StopThread, StopRequested, StopSeen, StopKills
<1>5. UnloadAll \/ AllJoined \/ Ended \/ UNCHANGED vars => UNCHANGED <<isReloading, client>>
  BY DEF UnloadAll, AllJoined, Ended, vars
<1> QED BY <1>2, <1>3, <1>4, <1>5 DEF Next

-----------------------------------------------------------------------------
(* The theorems                                                            *)

\* Every variable keeps its type, for any names, HTTP threads and limit.
THEOREM TypeCorrect == Spec => []TypeOK
<1>1. Inv => TypeOK
  BY DEF Inv
<1> QED BY <1>1, Invariance, PTL

\* What the list of server_models says of a model is true: one that runs is
\* looked after by a managing thread, and one that does not has neither a
\* process that serves it nor such a thread.
THEOREM ListIsTrue == Spec => []StatusIsTrue
<1>1. Inv => StatusIsTrue
  BY DEF Inv, ListAgrees, Agrees, StatusIsTrue, RunningIsManaged, NotRunningIsOver, Running,
         Alive, ThreadOver
<1> QED BY <1>1, Invariance, PTL

\* load() never lets more processes serve models than models_max, however
\* many HTTP threads load at once and whatever is being stopped or reloaded.
THEOREM LimitIsRespected == Spec => []LimitRespected
<1>1. Inv => LimitRespected
  <2> SUFFICES ASSUME Inv, ModelsMax > 0 PROVE Cardinality(Serving) <= ModelsMax
    BY DEF LimitRespected
  <2>1. Serving \subseteq RunningModels
    BY ServingRuns DEF Inv
  <2>2. IsFiniteSet(Serving) /\ Cardinality(Serving) <= Cardinality(RunningModels)
    BY <2>1, RunningIsFinite, FS_Subset
  <2>3. Cardinality(Serving) \in Nat /\ Cardinality(RunningModels) <= ModelsMax
    BY <2>2, FS_CardinalityType DEF Inv, WithinLimit
  <2> QED BY <2>2, <2>3, RunningIsFinite, ConstantsAssumption
<1> QED BY <1>1, Invariance, PTL

\* remove(), load(), load_models() and unload_all() never lose a managing
\* thread: each is joinable through the list or being joined by someone.
THEOREM ThreadsAreOwned == Spec => []NoThreadLost
<1>1. Init => NoThreadLost
  BY DEF Init, NoThreadLost, NoInstance, ThreadOver
<1> QED BY <1>1, ThreadsNext, Invariance, PTL DEF Spec

\* While is_reloading holds loads back, a thread is in load_models() and will
\* let them go on.
THEOREM ReloadsAreOwned == Spec => []ReloadHasOwner
<1>1. Init => ReloadHasOwner
  BY DEF Init, ReloadHasOwner
<1> QED BY <1>1, ReloadsNext, Invariance, PTL DEF Spec

-----------------------------------------------------------------------------
(* What can be seen of the models (ModelHost)                              *)

Process(m) == IF Managed(m) THEN inst[m].proc ELSE "none"
Unheard(m) == IF Managed(m) THEN InPipe(m) ELSE <<>>
Listed(m) == IF Running(m) THEN status[m] ELSE "off"

Processes == [m \in Models |-> Process(m)]
Messages == [m \in Models |-> Unheard(m)]
Words == [m \in Models |-> Listed(m)]
View == <<Processes, Messages, Words>>

Looks(m) == <<Process(m), Unheard(m), Listed(m)>>

\* Where nothing can be seen of any model, the host stutters.
LEMMA NothingSeen == ASSUME \A m \in Models : Looks(m)' = Looks(m) PROVE View' = View
<1>1. \A m \in Models : Process(m)' = Process(m) /\ Unheard(m)' = Unheard(m) /\ Listed(m)' = Listed(m)
  BY DEF Looks
<1>2. Processes' = Processes
  BY <1>1 DEF Processes
<1>3. Messages' = Messages
  BY <1>1 DEF Messages
<1>4. Words' = Words
  BY <1>1 DEF Words
<1> QED BY <1>2, <1>3, <1>4 DEF View

\* A step that changes what is seen of one model
LEMMA OneSeen ==
    ASSUME NEW m \in Models, \A n \in Models \ {m} : Looks(n)' = Looks(n)
    PROVE  /\ Processes' = [Processes EXCEPT ![m] = Process(m)']
           /\ Messages' = [Messages EXCEPT ![m] = Unheard(m)']
           /\ Words' = [Words EXCEPT ![m] = Listed(m)']
<1>1. \A n \in Models \ {m} : Process(n)' = Process(n) /\ Unheard(n)' = Unheard(n) /\ Listed(n)' = Listed(n)
  BY DEF Looks
<1>2. Processes' = [Processes EXCEPT ![m] = Process(m)']
  <2>1. \A n \in Models : Process(n)' = IF n = m THEN Process(m)' ELSE Process(n)
    BY <1>1
  <2> QED BY <2>1 DEF Processes
<1>3. Messages' = [Messages EXCEPT ![m] = Unheard(m)']
  <2>1. \A n \in Models : Unheard(n)' = IF n = m THEN Unheard(m)' ELSE Unheard(n)
    BY <1>1
  <2> QED BY <2>1 DEF Messages
<1>4. Words' = [Words EXCEPT ![m] = Listed(m)']
  <2>1. \A n \in Models : Listed(n)' = IF n = m THEN Listed(m)' ELSE Listed(n)
    BY <1>1
  <2> QED BY <2>1 DEF Words
<1> QED BY <1>2, <1>3, <1>4

\* A step of the host, or one that cannot be seen
HostStep == [\E m \in Models : Host!Start(m) \/ Host!Report(m) \/ Host!End(m) \/ Host!Hear(m) \/ Host!Tell(m)]_View

\* The process of a model ends, or had ended.
LEMMA EndSeen ==
    ASSUME NEW m \in Models, \A n \in Models \ {m} : Looks(n)' = Looks(n),
           Unheard(m)' = Unheard(m), Listed(m)' = Listed(m),
           \/ Process(m)' = Process(m)
           \/ Process(m) \notin {"none", "gone"} /\ Process(m)' = "gone"
    PROVE  HostStep
<1>1. CASE Process(m)' = Process(m)
  <2>1. \A n \in Models : Looks(n)' = Looks(n)
    BY <1>1 DEF Looks
  <2> QED BY <2>1, NothingSeen DEF HostStep
<1>2. CASE Process(m) \notin {"none", "gone"} /\ Process(m)' = "gone"
  <2>1. /\ Processes' = [Processes EXCEPT ![m] = "gone"]
        /\ Messages' = [Messages EXCEPT ![m] = Unheard(m)]
        /\ Words' = [Words EXCEPT ![m] = Listed(m)]
    BY <1>2, OneSeen
  <2>2. Messages' = Messages /\ Words' = Words
    BY <2>1 DEF Messages, Words
  <2>3. Host!End(m)
    BY <1>2, <2>1, <2>2 DEF Host!End, Host!On, Host!Ended, Processes, Messages, Words, Process, Unheard, Listed
  <2> QED BY <2>3 DEF HostStep
<1> QED BY <1>1, <1>2

LEMMA ReportSeen ==
    ASSUME NEW m \in Models, \A n \in Models \ {m} : Looks(n)' = Looks(n),
           NEW t \in {<<"boot", "ready", "loaded">>, <<"ready", "sleep", "sleeping">>,
                      <<"sleep", "wake", "loading">>, <<"wake", "ready", "loaded">>},
           Process(m) = t[1], Process(m)' = t[2], Unheard(m) = <<>>, Unheard(m)' = <<t[3]>>,
           Listed(m)' = Listed(m)
    PROVE  HostStep
<1>1. /\ Processes' = [Processes EXCEPT ![m] = t[2]]
      /\ Messages' = [Messages EXCEPT ![m] = <<t[3]>>]
      /\ Words' = [Words EXCEPT ![m] = Listed(m)]
  BY OneSeen
<1>2. Words' = Words
  BY <1>1 DEF Words
<1>3. Messages' = [Messages EXCEPT ![m] = Append(@, t[3])]
  <2>1. Append(<<>>, t[3]) = <<t[3]>>
    OBVIOUS
  <2>2. Messages[m] = <<>>
    BY DEF Messages
  <2> QED BY <1>1, <2>1, <2>2
<1>4. Processes[m] = t[1] /\ t \in Host!Turns
  BY DEF Processes, Host!Turns
<1>5. Host!Report(m)
  BY <1>1, <1>2, <1>3, <1>4 DEF Host!Report, Processes, Messages, Words, Process, Unheard, Listed
<1> QED BY <1>5 DEF HostStep

LEMMA HearSeen ==
    ASSUME NEW m \in Models, \A n \in Models \ {m} : Looks(n)' = Looks(n),
           NEW word, Unheard(m) = <<word>>, Unheard(m)' = <<>>, Listed(m)' = word,
           Process(m)' = Process(m)
    PROVE  HostStep
<1>1. /\ Processes' = [Processes EXCEPT ![m] = Process(m)]
      /\ Messages' = [Messages EXCEPT ![m] = <<>>]
      /\ Words' = [Words EXCEPT ![m] = word]
  BY OneSeen
<1>2. Processes' = Processes
  BY <1>1 DEF Processes
<1>3. Messages[m] = <<word>>
  BY DEF Messages
<1>4. Head(<<word>>) = word /\ Tail(<<word>>) = <<>> /\ <<word>> # <<>>
  OBVIOUS
<1>5. Messages' = [Messages EXCEPT ![m] = Tail(@)] /\ Words' = [Words EXCEPT ![m] = Head(Messages[m])]
  BY <1>1, <1>3, <1>4
<1>6. Host!Hear(m)
  BY <1>2, <1>3, <1>4, <1>5 DEF Host!Hear, Processes, Messages, Words, Process, Unheard, Listed
<1> QED BY <1>6 DEF HostStep

LEMMA TellSeen ==
    ASSUME NEW m \in Models, \A n \in Models \ {m} : Looks(n)' = Looks(n),
           Process(m) = "gone", Process(m)' = "none", Unheard(m) = <<>>, Unheard(m)' = <<>>,
           Listed(m)' = "off"
    PROVE  HostStep
<1>1. /\ Processes' = [Processes EXCEPT ![m] = "none"]
      /\ Messages' = [Messages EXCEPT ![m] = <<>>]
      /\ Words' = [Words EXCEPT ![m] = "off"]
  BY OneSeen
<1>2. Messages' = Messages /\ Messages[m] = <<>> /\ Processes[m] = "gone"
  BY <1>1 DEF Messages, Processes
<1>3. Host!Tell(m)
  BY <1>1, <1>2 DEF Host!Tell, Host!Ended, Processes, Messages, Words, Process, Unheard, Listed
<1> QED BY <1>3 DEF HostStep

LEMMA StartSeen ==
    ASSUME Inv, ~LimitReached,
           NEW m \in Models, \A n \in Models \ {m} : Looks(n)' = Looks(n),
           Process(m) = "none", Process(m)' = "boot", Unheard(m) = <<>>, Unheard(m)' = <<>>,
           Listed(m)' = "loading"
    PROVE  HostStep
<1>1. /\ Processes' = [Processes EXCEPT ![m] = "boot"]
      /\ Messages' = [Messages EXCEPT ![m] = <<>>]
      /\ Words' = [Words EXCEPT ![m] = "loading"]
  BY OneSeen
<1>2. Messages' = Messages /\ Processes[m] = "none"
  BY <1>1 DEF Messages, Processes
<1>3. Host!On \subseteq RunningModels
  <2> SUFFICES ASSUME NEW n \in Models, Process(n) # "none" PROVE Running(n)
    BY DEF Host!On, Process, RunningModels
  <2> QED BY ThreadFacts DEF Agrees, Process, Managed, ThreadOver, Running
<1>4. ModelsMax > 0 => Host!Cardinality(Host!On) < ModelsMax
  <2>1. \A S : Host!Cardinality(S) = Cardinality(S)
    BY DEF Host!Cardinality, Cardinality
  <2> DEFINE On == Host!On
  <2>2. On \subseteq RunningModels
    BY <1>3
  <2> HIDE DEF On
  <2>3. Cardinality(On) \in Nat /\ Cardinality(On) <= Cardinality(RunningModels)
    BY <2>2, RunningIsFinite, FS_Subset, FS_CardinalityType
  <2>4. ModelsMax > 0 => Cardinality(RunningModels) < ModelsMax
    BY RunningIsFinite, ConstantsAssumption DEF LimitReached
  <2>5. ModelsMax > 0 => Cardinality(On) < ModelsMax
    BY <2>3, <2>4, RunningIsFinite, ConstantsAssumption
  <2> QED BY <2>1, <2>5 DEF On
<1>5. Host!Start(m)
  BY <1>1, <1>2, <1>4 DEF Host!Start, Host!On, Processes, Messages, Words, Process, Unheard, Listed
<1> QED BY <1>5 DEF HostStep

\* What is seen of a model depends on its instance and its status only.
LEMMA SameLooks ==
    ASSUME NEW m \in Models, inst'[m] = inst[m], status'[m] = status[m]
    PROVE  Looks(m)' = Looks(m)
BY DEF Looks, Process, Unheard, Listed, Managed, ThreadOver, InPipe, Running

\* A model that runs has a managed process; one that does not has none.
LEMMA ManagedRuns ==
    ASSUME Inv, NEW m \in Models
    PROVE  Managed(m) <=> Running(m)
BY ThreadFacts DEF Agrees, Managed, ThreadOver, Running, InstanceType

\* Of a step that changes one instance nothing else is seen.
LEMMA OthersLook ==
    ASSUME Inv, NEW m \in Models, NEW i, NEW st,
           inst' = [inst EXCEPT ![m] = i], status' = [status EXCEPT ![m] = st]
    PROVE  /\ inst'[m] = i /\ status'[m] = st
           /\ \A n \in Models \ {m} : Looks(n)' = Looks(n)
<1>1. inst'[m] = i /\ status'[m] = st
  BY DEF Inv, TypeOK
<1>2. \A n \in Models \ {m} : inst'[n] = inst[n] /\ status'[n] = status[n]
  BY DEF Inv, TypeOK
<1> QED BY <1>1, <1>2, SameLooks

\* The process of an instance may end; the rest of what is seen of it stays.
LEMMA InstanceEnds ==
    ASSUME Inv, NEW m \in Models, NEW i \in InstanceType,
           inst' = [inst EXCEPT ![m] = i], UNCHANGED status,
           i.mode = inst[m].mode, i.pipe = inst[m].pipe,
           i.th = inst[m].th \/ {i.th, inst[m].th} \cap {"none", "over"} = {},
           i.proc = inst[m].proc \/ (i.proc = "gone" /\ inst[m].proc # "none")
    PROVE  HostStep
<1>1. status' = [status EXCEPT ![m] = status[m]]
  BY DEF Inv, TypeOK
<1>2. inst'[m] = i /\ status'[m] = status[m] /\ \A n \in Models \ {m} : Looks(n)' = Looks(n)
  BY <1>1, OthersLook
<1>3. Managed(m)' <=> Managed(m)
  BY <1>2 DEF Managed, ThreadOver
<1>4. Unheard(m)' = Unheard(m) /\ Listed(m)' = Listed(m)
  BY <1>2, <1>3 DEF Unheard, InPipe, Listed, Running
<1>5. \/ Process(m)' = Process(m)
      \/ Process(m) \notin {"none", "gone"} /\ Process(m)' = "gone"
  BY <1>2, <1>3 DEF Process
<1> QED BY <1>2, <1>4, <1>5, EndSeen

LEMMA ChildLooks == ASSUME Inv, NEW m \in Models, ChildStep(m) PROVE HostStep
<1>1. inst[m] \in InstanceType /\ Agrees(status[m], inst[m], Held(m)) /\ UNCHANGED status
  BY ThreadFacts DEF ChildStep, ChildReports, ChildObeys, ChildCrashes
<1>2. CASE ChildObeys(m) \/ ChildCrashes(m)
  <2> DEFINE i == [inst[m] EXCEPT !.proc = "gone"]
  <2>1. /\ i \in InstanceType /\ i.mode = inst[m].mode /\ i.pipe = inst[m].pipe /\ i.th = inst[m].th
        /\ i.proc = "gone"
    BY <1>1 DEF InstanceType
  <2>2. inst' = [inst EXCEPT ![m] = i] /\ inst[m].proc # "none"
    BY <1>2 DEF ChildObeys, ChildCrashes, Alive
  <2> HIDE DEF i
  <2> QED BY <1>1, <2>1, <2>2, InstanceEnds
<1>3. CASE ChildReports(m)
  <2>1. PICK r \in Reports[inst[m].proc] : inst' = [inst EXCEPT ![m].pipe = r[1], ![m].proc = r[2]]
    BY <1>3 DEF ChildReports
  <2> DEFINE i == [inst[m] EXCEPT !.pipe = r[1], !.proc = r[2]]
  <2>2. /\ i.mode = inst[m].mode /\ i.th = inst[m].th /\ i.pipe = r[1] /\ i.proc = r[2]
    BY <1>1 DEF InstanceType
  <2>3. inst' = [inst EXCEPT ![m] = i] /\ inst[m].pipe = "none"
    BY <1>3, <2>1 DEF ChildReports
  <2> HIDE DEF i
  <2>4. status' = [status EXCEPT ![m] = status[m]]
    BY <1>1 DEF Inv, TypeOK
  <2>5. inst'[m] = i /\ status'[m] = status[m] /\ \A n \in Models \ {m} : Looks(n)' = Looks(n)
    BY <2>3, <2>4, OthersLook
  <2>6. (Managed(m)' <=> Managed(m)) /\ Listed(m)' = Listed(m)
    BY <2>2, <2>5 DEF Managed, ThreadOver, Listed, Running
  <2>7. CASE Managed(m)
    <3>1. /\ Process(m) = inst[m].proc /\ Process(m)' = r[2]
          /\ Unheard(m) = <<>> /\ Unheard(m)' = (IF r[1] = "none" THEN <<>> ELSE <<Reported(r[1])>>)
      BY <2>2, <2>3, <2>5, <2>6, <2>7 DEF Process, Unheard, InPipe
    <3>2. /\ inst[m].proc \in {"boot", "ready", "sleep", "wake"}
          /\ <<inst[m].proc, r[2], Reported(r[1])>> \in
                {<<"boot", "ready", "loaded">>, <<"ready", "sleep", "sleeping">>,
                 <<"sleep", "wake", "loading">>, <<"wake", "ready", "loaded">>}
          /\ r[1] # "none"
      BY <1>1, <1>3, <2>7 DEF ChildReports, Reports, Reported, Managed, Agrees
    <3> DEFINE t == <<inst[m].proc, r[2], Reported(r[1])>>
    <3>3. t[1] = inst[m].proc /\ t[2] = r[2] /\ t[3] = Reported(r[1])
      OBVIOUS
    <3>4. Process(m) = t[1] /\ Process(m)' = t[2] /\ Unheard(m)' = <<t[3]>>
      BY <3>1, <3>2, <3>3
    <3> HIDE DEF t
    <3>5. t \in {<<"boot", "ready", "loaded">>, <<"ready", "sleep", "sleeping">>,
                 <<"sleep", "wake", "loading">>, <<"wake", "ready", "loaded">>}
      BY <3>2 DEF t
    <3> QED BY <2>5, <2>6, <3>1, <3>4, <3>5, ReportSeen
  <2>8. CASE ~Managed(m)
    <3>1. Process(m)' = Process(m) /\ Unheard(m)' = Unheard(m)
      BY <2>6, <2>8 DEF Process, Unheard
    <3> QED BY <2>5, <2>6, <3>1, EndSeen
  <2> QED BY <2>7, <2>8
<1> QED BY <1>2, <1>3 DEF ChildStep

LEMMA StopThreadLooks == ASSUME Inv, NEW m \in Models, StopThread(m) PROVE HostStep
<1>1. inst[m] \in InstanceType /\ UNCHANGED status
  BY ThreadFacts DEF StopThread, StopRequested, StopSeen, StopKills
<1>2. PICK i \in InstanceType :
         /\ inst' = [inst EXCEPT ![m] = i]
         /\ i.mode = inst[m].mode /\ i.pipe = inst[m].pipe /\ i.th = inst[m].th
         /\ i.proc = inst[m].proc \/ (i.proc = "gone" /\ inst[m].proc # "none")
  <2>1. CASE StopRequested(m)
    <3> DEFINE i == IF inst[m].stopped THEN [inst[m] EXCEPT !.stop = "over"]
                    ELSE [inst[m] EXCEPT !.stop = "asked", !.exit = TRUE]
    <3>1. i \in InstanceType /\ i.mode = inst[m].mode /\ i.pipe = inst[m].pipe /\ i.th = inst[m].th
          /\ i.proc = inst[m].proc
      BY <1>1 DEF InstanceType
    <3>2. inst' = [inst EXCEPT ![m] = i]
      BY <2>1 DEF StopRequested
    <3> HIDE DEF i
    <3> QED BY <3>1, <3>2
  <2>2. CASE StopSeen(m)
    <3> DEFINE i == [inst[m] EXCEPT !.stop = "over"]
    <3>1. i \in InstanceType /\ i.mode = inst[m].mode /\ i.pipe = inst[m].pipe /\ i.th = inst[m].th
          /\ i.proc = inst[m].proc
      BY <1>1 DEF InstanceType
    <3>2. inst' = [inst EXCEPT ![m] = i]
      BY <2>2 DEF StopSeen
    <3> HIDE DEF i
    <3> QED BY <3>1, <3>2
  <2>3. CASE StopKills(m)
    <3> DEFINE i == [inst[m] EXCEPT !.stop = "over", !.proc = IF Alive(m) THEN "gone" ELSE @]
    <3>1. i \in InstanceType /\ i.mode = inst[m].mode /\ i.pipe = inst[m].pipe /\ i.th = inst[m].th
          /\ (i.proc = inst[m].proc \/ (i.proc = "gone" /\ inst[m].proc # "none"))
      BY <1>1 DEF InstanceType, Alive
    <3>2. inst' = [inst EXCEPT ![m] = i]
      BY <2>3 DEF StopKills
    <3> HIDE DEF i
    <3> QED BY <3>1, <3>2
  <2> QED BY <2>1, <2>2, <2>3 DEF StopThread
<1> QED BY <1>1, <1>2, InstanceEnds

LEMMA ManagerLooks == ASSUME Inv, NEW m \in Models, Manage(m) PROVE HostStep
<1>1. /\ inst[m] \in InstanceType /\ Agrees(status[m], inst[m], Held(m)) /\ status[m] \in Status
      /\ (Managed(m) <=> Running(m)) /\ status \in [Models -> Status]
  BY ThreadFacts, ManagedRuns DEF Inv, TypeOK
<1>2. CASE AnswerResult(m) \/ SeeEof(m) \/ Release(m)
  <2>1. PICK i \in InstanceType :
         /\ inst' = [inst EXCEPT ![m] = i]
         /\ i.mode = inst[m].mode /\ i.pipe = inst[m].pipe /\ i.proc = inst[m].proc
         /\ {i.th, inst[m].th} \cap {"none", "over"} = {}
    <3>1. CASE AnswerResult(m)
      <4> DEFINE i == [inst[m] EXCEPT !.th = "reading", !.exit = @ \/ InMapping(m), !.stopped = @ \/ InMapping(m)]
      <4>1. i \in InstanceType /\ i.mode = inst[m].mode /\ i.pipe = inst[m].pipe /\ i.proc = inst[m].proc
            /\ i.th = "reading"
        BY <1>1 DEF InstanceType
      <4>2. inst' = [inst EXCEPT ![m] = i] /\ inst[m].th = "answering"
        BY <3>1 DEF AnswerResult
      <4> HIDE DEF i
      <4> QED BY <4>1, <4>2
    <3>2. CASE SeeEof(m)
      <4> DEFINE i == [inst[m] EXCEPT !.th = "eof", !.stopped = TRUE]
      <4>1. i \in InstanceType /\ i.mode = inst[m].mode /\ i.pipe = inst[m].pipe /\ i.proc = inst[m].proc
            /\ i.th = "eof"
        BY <1>1 DEF InstanceType
      <4>2. inst' = [inst EXCEPT ![m] = i] /\ inst[m].th = "reading"
        BY <3>2 DEF SeeEof
      <4> HIDE DEF i
      <4> QED BY <4>1, <4>2
    <3>3. CASE Release(m)
      <4> DEFINE i == [inst[m] EXCEPT !.th = "released"]
      <4>1. i \in InstanceType /\ i.mode = inst[m].mode /\ i.pipe = inst[m].pipe /\ i.proc = inst[m].proc
            /\ i.th = "released"
        BY <1>1 DEF InstanceType
      <4>2. inst' = [inst EXCEPT ![m] = i] /\ inst[m].th = "eof"
        BY <3>3 DEF Release
      <4> HIDE DEF i
      <4> QED BY <4>1, <4>2
    <3> QED BY <1>2, <3>1, <3>2, <3>3
  <2>2. UNCHANGED status
    BY <1>2 DEF AnswerResult, SeeEof, Release
  <2> QED BY <2>1, <2>2, InstanceEnds
<1>3. CASE ReadReport(m) /\ inst[m].pipe = "result"
  <2> DEFINE i == [inst[m] EXCEPT !.pipe = "none", !.th = "answering"]
             st == IF InMapping(m) THEN "downloaded" ELSE status[m]
  <2>1. i.mode = inst[m].mode /\ inst[m].mode # "normal" /\ ~Running(m)
    BY <1>1, <1>3 DEF Agrees, InstanceType, Managed
  <2>2. inst' = [inst EXCEPT ![m] = i] /\ status' = [status EXCEPT ![m] = st] /\ st \notin RunningStatus
    BY <1>1, <1>3, <2>1 DEF ReadReport, InMapping, RunningStatus, Running
  <2> HIDE DEF i, st
  <2>3. inst'[m] = i /\ status'[m] = st /\ \A n \in Models \ {m} : Looks(n)' = Looks(n)
    BY <2>2, OthersLook
  <2>4. ~Managed(m) /\ ~Managed(m)' /\ ~Running(m)'
    BY <2>1, <2>2, <2>3 DEF Managed, Running
  <2>5. Process(m)' = Process(m) /\ Unheard(m)' = Unheard(m) /\ Listed(m)' = Listed(m)
    BY <2>1, <2>4 DEF Process, Unheard, Listed
  <2> QED BY <2>3, <2>5, EndSeen
<1>4. CASE ReadReport(m) /\ inst[m].pipe # "result"
  <2> DEFINE i == [inst[m] EXCEPT !.pipe = "none"]
             st == IF InMapping(m) THEN Reported(inst[m].pipe) ELSE status[m]
  <2>1. inst[m].th = "reading" /\ inst[m].pipe \in {"ready", "sleeping", "loading"}
    BY <1>1, <1>4 DEF ReadReport, InstanceType
  <2>2. Managed(m) /\ Running(m) /\ InMapping(m)
    BY <1>1, <2>1 DEF Agrees, InMapping, Running, RunningStatus, InstanceType
  <2>3. /\ i.mode = inst[m].mode /\ i.th = inst[m].th /\ i.proc = inst[m].proc /\ i.pipe = "none"
        /\ st = Reported(inst[m].pipe) /\ st \in RunningStatus
    BY <1>1, <2>1, <2>2 DEF InstanceType, RunningStatus, Reported
  <2>4. inst' = [inst EXCEPT ![m] = i] /\ status' = [status EXCEPT ![m] = st]
    BY <1>4 DEF ReadReport
  <2> HIDE DEF i, st
  <2>5. inst'[m] = i /\ status'[m] = st /\ \A n \in Models \ {m} : Looks(n)' = Looks(n)
    BY <2>4, OthersLook
  <2>6. Managed(m)' /\ Running(m)'
    BY <2>2, <2>3, <2>5 DEF Managed, ThreadOver, Running
  <2>7. /\ Unheard(m) = <<st>> /\ Unheard(m)' = <<>> /\ Listed(m)' = st /\ Process(m)' = Process(m)
    BY <2>1, <2>2, <2>3, <2>5, <2>6 DEF Unheard, InPipe, Listed, Process
  <2> QED BY <2>5, <2>7, HearSeen
<1>5. CASE Finish(m)
  <2> DEFINE i == [inst[m] EXCEPT !.th = "over"]
             st == IF inst[m].mode = "normal" THEN EndStatus(m) ELSE status[m]
  <2>1. i.mode = inst[m].mode /\ i.th = "over" /\ inst[m].th = "released"
    BY <1>1, <1>5 DEF Finish, InstanceType
  <2>2. inst' = [inst EXCEPT ![m] = i] /\ status' = [status EXCEPT ![m] = st]
    BY <1>1, <1>5 DEF Finish, InstanceType
  <2>3. inst[m].mode = "normal" => st \notin RunningStatus
    BY DEF EndStatus, InMapping, RunningStatus
  <2> HIDE DEF i, st
  <2>4. inst'[m] = i /\ status'[m] = st /\ \A n \in Models \ {m} : Looks(n)' = Looks(n)
    BY <2>2, OthersLook
  <2>5. ~Managed(m)' /\ Process(m)' = "none" /\ Unheard(m)' = <<>>
    BY <2>1, <2>4 DEF Managed, ThreadOver, Process, Unheard
  <2>6. CASE inst[m].mode = "normal"
    <3>1. Managed(m) /\ inst[m].proc = "gone" /\ inst[m].pipe = "none"
      BY <1>1, <2>1, <2>6 DEF Managed, ThreadOver, Agrees
    <3>2. Process(m) = "gone" /\ Unheard(m) = <<>> /\ Listed(m)' = "off"
      BY <2>3, <2>4, <2>6, <3>1 DEF Process, Unheard, InPipe, Listed, Running
    <3> QED BY <2>4, <2>5, <3>2, TellSeen
  <2>7. CASE inst[m].mode # "normal"
    <3>1. ~Managed(m) /\ ~Running(m) /\ st = status[m]
      BY <1>1, <2>7 DEF Managed, st
    <3>2. Process(m) = "none" /\ Unheard(m) = <<>> /\ Listed(m)' = Listed(m)
      BY <2>4, <3>1 DEF Process, Unheard, Listed, Running
    <3> QED BY <2>4, <2>5, <3>2, EndSeen
  <2> QED BY <2>6, <2>7
<1> QED BY <1>2, <1>3, <1>4, <1>5 DEF Manage

SameThread(i, j) == i.th = j.th /\ i.mode = j.mode /\ i.pipe = j.pipe

\* Nothing is seen of a model whose instance goes on and whose status stays, or
\* was and is that of a model that does not run.
StatusHolds(m) == status'[m] = status[m] \/ (~Running(m) /\ ~Running(m)')

LEMMA HoldsLooks ==
    ASSUME NEW m \in Models, SameThread(inst'[m], inst[m]), StatusHolds(m)
    PROVE  /\ (Managed(m)' <=> Managed(m)) /\ Unheard(m)' = Unheard(m) /\ Listed(m)' = Listed(m)
           /\ inst'[m].proc = inst[m].proc => Looks(m)' = Looks(m)
<1>1. Managed(m)' <=> Managed(m)
  BY DEF SameThread, Managed, ThreadOver
<1>2. Unheard(m)' = Unheard(m)
  BY <1>1 DEF SameThread, Unheard, InPipe
<1>3. Listed(m)' = Listed(m)
  BY DEF StatusHolds, Listed, Running
<1>4. inst'[m].proc = inst[m].proc => Process(m)' = Process(m)
  BY <1>1 DEF Process
<1> QED BY <1>1, <1>2, <1>3, <1>4 DEF Looks

\* A request that starts no process ends that of one model at most.
LEMMA RequestLooks ==
    ASSUME Inv, NEW m \in Models, NEW i \in InstanceType, inst' = [inst EXCEPT ![m] = i],
           SameThread(i, inst[m]), i.proc = inst[m].proc \/ (i.proc = "gone" /\ inst[m].proc # "none"),
           \A n \in Models : StatusHolds(n)
    PROVE  HostStep
<1>1. inst'[m] = i /\ \A n \in Models \ {m} : inst'[n] = inst[n]
  BY DEF Inv, TypeOK
<1>2. \A n \in Models \ {m} : Looks(n)' = Looks(n)
  BY <1>1, HoldsLooks DEF SameThread
<1>3. (Managed(m)' <=> Managed(m)) /\ Unheard(m)' = Unheard(m) /\ Listed(m)' = Listed(m)
  BY <1>1, HoldsLooks
<1>4. \/ Process(m)' = Process(m)
      \/ Process(m) \notin {"none", "gone"} /\ Process(m)' = "gone"
  BY <1>1, <1>3 DEF Process
<1> QED BY <1>2, <1>3, <1>4, EndSeen

\* A step that leaves the instances alone
LEMMA QuietLooks ==
    ASSUME UNCHANGED inst, \A n \in Models : StatusHolds(n)
    PROVE  HostStep
<1>1. \A n \in Models : Looks(n)' = Looks(n)
  BY HoldsLooks DEF SameThread
<1> QED BY <1>1, NothingSeen DEF HostStep

LEMMA InterruptLooks ==
    ASSUME Inv, NEW m \in Models, Interrupt(m), UNCHANGED status
    PROVE  HostStep
<1>1. inst[m] \in InstanceType /\ inst \in [Models -> InstanceType] /\ \A n \in Models : StatusHolds(n)
  BY ThreadFacts DEF StatusHolds, Inv, TypeOK
<1>2. PICK i \in InstanceType :
         /\ inst' = [inst EXCEPT ![m] = i] /\ SameThread(i, inst[m])
         /\ i.proc = inst[m].proc \/ (i.proc = "gone" /\ inst[m].proc # "none")
  <2>1. CASE status[m] = "downloading"
    <3> DEFINE i == [inst[m] EXCEPT !.exit = TRUE, !.stopped = TRUE]
    <3>1. i \in InstanceType /\ SameThread(i, inst[m]) /\ i.proc = inst[m].proc
      BY <1>1 DEF InstanceType, SameThread
    <3>2. inst' = [inst EXCEPT ![m] = i]
      BY <2>1 DEF Interrupt, Interrupted, AskedToExit
    <3> HIDE DEF i
    <3> QED BY <3>1, <3>2
  <2>2. CASE status[m] = "loading"
    <3> DEFINE i == [inst[m] EXCEPT !.proc = IF inst[m].proc \in {"none", "gone"} THEN @ ELSE "gone"]
    <3>1. i \in InstanceType /\ SameThread(i, inst[m])
          /\ (i.proc = inst[m].proc \/ (i.proc = "gone" /\ inst[m].proc # "none"))
      BY <1>1 DEF InstanceType, SameThread
    <3>2. inst' = [inst EXCEPT ![m] = i]
      BY <1>1, <2>2 DEF Interrupt, Interrupted, Killed, InstanceType
    <3> HIDE DEF i
    <3> QED BY <3>1, <3>2
  <2>3. CASE status[m] \notin {"downloading", "loading"}
    <3>1. inst' = [inst EXCEPT ![m] = inst[m]]
      BY <1>1, <2>3 DEF Interrupt, Interrupted
    <3> QED BY <1>1, <3>1 DEF SameThread
  <2> QED BY <2>1, <2>2, <2>3
<1> QED BY <1>1, <1>2, RequestLooks

LEMMA SpawnJoinsLooks == ASSUME Inv, NEW c \in Clients, SpawnJoins(c) PROVE HostStep
<1> DEFINE m == client[c].m
           i == [inst[m] EXCEPT !.proc = IF inst[m].proc \in {"none", "gone"} THEN @ ELSE "gone"]
<1>1. m \in Models /\ inst[m] \in InstanceType /\ \A n \in Models : StatusHolds(n)
  BY RequestFacts, ThreadFacts DEF SpawnJoins, MaySpawnNow, MaySpawn, At, Names, StatusHolds
<1>2. inst' = [inst EXCEPT ![m] = i]
  BY <1>1 DEF SpawnJoins, Killed, InstanceType, Inv, TypeOK
<1>3. i \in InstanceType /\ SameThread(i, inst[m])
      /\ (i.proc = inst[m].proc \/ (i.proc = "gone" /\ inst[m].proc # "none"))
  BY <1>1 DEF InstanceType, SameThread
<1> HIDE DEF i, m
<1> QED BY <1>1, <1>2, <1>3, RequestLooks

\* The count of load() still holds when mapping[name] becomes the new instance.
LEMMA SpawnLooks == ASSUME Inv, NEW c \in Clients, Spawn(c) PROVE HostStep
<1>1. PICK m \in Models : m = client[c].m
  BY RequestFacts DEF Spawn, MaySpawnNow, MaySpawn, At, Holds, Names
<1>2. ThreadOver(m) /\ ~LimitReached
  BY <1>1 DEF Spawn, MaySpawnNow, Inv, CountHolds
<1>3. PICK mode \in {"normal", "download"} :
         /\ inst' = [inst EXCEPT ![m] = NewInstance(mode)]
         /\ status' = [status EXCEPT ![m] = IF mode = "download" THEN "downloading" ELSE "loading"]
  BY <1>1 DEF Spawn
<1>4. /\ inst'[m] = NewInstance(mode)
      /\ status'[m] = IF mode = "download" THEN "downloading" ELSE "loading"
      /\ \A n \in Models \ {m} : Looks(n)' = Looks(n)
  BY <1>3, OthersLook
<1>5. ~Managed(m) /\ ~Running(m)
  BY <1>2, ManagedRuns DEF Managed
<1>6. Process(m) = "none" /\ Unheard(m) = <<>> /\ Listed(m) = "off"
  BY <1>5 DEF Process, Unheard, Listed
<1>7. CASE mode = "normal"
  <2>1. Managed(m)' /\ Running(m)'
    BY <1>4, <1>7 DEF NewInstance, Managed, ThreadOver, Running, RunningStatus
  <2>2. Process(m)' = "boot" /\ Unheard(m)' = <<>> /\ Listed(m)' = "loading"
    BY <1>4, <1>7, <2>1 DEF NewInstance, Process, Unheard, InPipe, Listed
  <2> QED BY <1>2, <1>4, <1>6, <2>2, StartSeen
<1>8. CASE mode = "download"
  <2>1. ~Managed(m)' /\ ~Running(m)'
    BY <1>4, <1>8 DEF NewInstance, Managed, Running, RunningStatus
  <2>2. Process(m)' = Process(m) /\ Unheard(m)' = Unheard(m) /\ Listed(m)' = Listed(m)
    BY <1>6, <2>1 DEF Process, Unheard, Listed
  <2> QED BY <1>4, <2>2, EndSeen
<1> QED BY <1>3, <1>7, <1>8

\* The steps of a request that leave the instances alone change the status of
\* no model that runs.
LEMMA QuietRequests ==
    ASSUME Inv, NEW c \in Clients,
           \/ Touch(c) \/ AwaitLru(c) \/ SpawnRefused(c) \/ RemoveErases(c)
           \/ ReloadBegins(c) \/ ReloadApplies(c)
    PROVE  HostStep
<1> SUFFICES \A n \in Models : StatusHolds(n)
  BY QuietLooks DEF Touch, AwaitLru, SpawnRefused, RemoveErases, ReloadBegins, ReloadApplies
<1> SUFFICES ASSUME NEW n \in Models PROVE StatusHolds(n)
  OBVIOUS
<1>1. status \in [Models -> Status]
  BY DEF Inv, TypeOK
<1>2. CASE Touch(c) \/ AwaitLru(c) \/ SpawnRefused(c)
  <2>1. PICK m : status' = Entry(m) \/ UNCHANGED status
    BY <1>2 DEF Touch, AwaitLru, SpawnRefused
  <2>2. status'[n] = status[n] \/ (status[n] = "absent" /\ status'[n] = "unloaded")
    BY <1>1, <2>1 DEF Entry, InMapping
  <2> QED BY <2>2 DEF StatusHolds, Running, RunningStatus
<1>3. CASE RemoveErases(c)
  <2>1. client[c].m \in Models /\ status' = [status EXCEPT ![client[c].m] = "absent"]
        /\ (status[client[c].m] \in Done \/ ThreadOver(client[c].m))
    BY <1>3, RequestFacts DEF RemoveErases, At, Holds, Names
  <2>2. ~Running(client[c].m)
    BY <2>1, ManagedRuns DEF Managed, Done, Running, RunningStatus
  <2>3. status'[n] = status[n] \/ (n = client[c].m /\ status'[n] = "absent")
    BY <1>1, <2>1
  <2> QED BY <2>2, <2>3 DEF StatusHolds, Running, RunningStatus
<1>4. CASE ReloadBegins(c)
  <2>1. CASE FirstLoad
    <3>1. status[n] = "absent" /\ status'[n] \in {"unloaded", "absent"}
      BY <1>4, <2>1 DEF ReloadBegins, FirstLoad, InMapping
    <3> QED BY <3>1 DEF StatusHolds, Running, RunningStatus
  <2>2. CASE ~FirstLoad
    BY <1>4, <2>2 DEF ReloadBegins, StatusHolds
  <2> QED BY <2>1, <2>2
<1>5. CASE ReloadApplies(c)
  <2>1. CASE AssertionFails(c)
    BY <1>5, <2>1 DEF ReloadApplies, StatusHolds
  <2>2. CASE ~AssertionFails(c)
    <3>1. status'[n] = IF Erased(c, n) \/ ~InMapping(n)
                       THEN IF n \in client[c].seen THEN "unloaded" ELSE "absent"
                       ELSE status[n]
      BY <1>5, <2>2 DEF ReloadApplies
    <3>2. Erased(c, n) => ~Running(n)
      <4> SUFFICES ASSUME Erased(c, n), Running(n) PROVE FALSE
        OBVIOUS
      <4>1. n \notin joinable
        BY <2>2 DEF AssertionFails, Running, RunningStatus
      <4>2. shut = "no"
        BY <1>5, RequestFacts DEF ReloadApplies, At, Holds
      <4> QED BY <4>1, <4>2, ThreadFacts DEF Agrees, Running, Held
    <3>3. ~InMapping(n) => ~Running(n)
      BY DEF InMapping, Running, RunningStatus
    <3> QED BY <3>1, <3>2, <3>3 DEF StatusHolds, Running, RunningStatus
  <2> QED BY <2>1, <2>2
<1> QED BY <1>2, <1>3, <1>4, <1>5

LEMMA ClientLooks == ASSUME Inv, NEW c \in Clients, ClientStep(c) PROVE HostStep
<1>1. ASSUME UNCHANGED <<inst, status>> PROVE HostStep
  BY <1>1, QuietLooks DEF StatusHolds
<1>2. CASE \/ \E op \in Ops \ {"reload"}, m \in Models : Ask(c, op, m)
           \/ "reload" \in Ops /\ Ask(c, "reload", NoModel)
           \/ LookupReloads(c) \/ LookUp(c) \/ EnsureReady(c) \/ Proxy(c) \/ AwaitCancel(c)
           \/ RemoveJoins(c) \/ LoadCounts(c) \/ DownloadChecks(c) \/ ReloadReads(c)
           \/ ReloadCollects(c) \/ ReloadJoins(c) \/ ReloadHolds(c)
  BY <1>1, <1>2
  DEF Ask, LookupReloads, LookUp, EnsureReady, Proxy, AwaitCancel, RemoveJoins, LoadCounts,
      DownloadChecks, ReloadReads, ReloadCollects, ReloadJoins, ReloadHolds
<1>3. CASE Unload(c) \/ Remove(c) \/ StopLru(c) \/ \E m \in Models : ReloadStops(c, m)
  <2>1. PICK m \in Models : Interrupt(m)
    BY <1>3, RequestFacts DEF Unload, Remove, StopLru, ReloadStops, At, Names
  <2>2. UNCHANGED status
    BY <1>3 DEF Unload, Remove, StopLru, ReloadStops
  <2> QED BY <2>1, <2>2, InterruptLooks
<1> QED BY <1>2, <1>3, SpawnJoinsLooks, SpawnLooks, QuietRequests, Zenon DEF ClientStep

LEMMA UnloadAllLooks == ASSUME Inv, UnloadAll PROVE HostStep
<1>1. \A n \in Models : inst[n] \in InstanceType /\ StatusHolds(n)
  BY DEF Inv, TypeOK, UnloadAll, StatusHolds
<1>2. \A n \in Models : inst'[n] = [inst[n] EXCEPT !.stopped = @ \/ status[n] = "downloading"]
  BY DEF UnloadAll
<1>3. \A n \in Models : SameThread(inst'[n], inst[n]) /\ inst'[n].proc = inst[n].proc
  BY <1>1, <1>2 DEF SameThread, InstanceType
<1>4. \A n \in Models : Looks(n)' = Looks(n)
  BY <1>1, <1>3, HoldsLooks
<1> QED BY <1>4, NothingSeen DEF HostStep

LEMMA NextLooks == Inv /\ [Next]_vars => HostStep
<1> SUFFICES ASSUME Inv, [Next]_vars PROVE HostStep OBVIOUS
<1>1. CASE UNCHANGED vars \/ AllJoined
  BY <1>1, QuietLooks DEF vars, AllJoined, StatusHolds
<1> QED BY <1>1, ChildLooks, ManagerLooks, StopThreadLooks, ClientLooks, UnloadAllLooks DEF Next, Ended

\* The router, with its requests, evictions, stops, reloads and the threads of
\* each instance, shows of its models no more than ModelHost: the limit of
\* load(), reports in order, and an end that is told once all has been heard.
THEOREM RouterImplementsHost == Spec => ImplementsModelHost
<1>1. Init => Host!Init
  <2> SUFFICES ASSUME Init PROVE Host!Init OBVIOUS
  <2>1. \A m \in Models : ~Managed(m) /\ ~Running(m)
    BY DEF Init, NoInstance, Managed, ThreadOver, Running, RunningStatus
  <2> QED BY <2>1 DEF Host!Init
<1>2. Inv /\ [Next]_vars => [Host!Next]_View
  BY NextLooks DEF HostStep, Host!Next
<1> QED
  BY <1>1, <1>2, Invariance, PTL
  DEF Spec, ImplementsModelHost, Host!Spec, View, Processes, Messages, Words, Process, Unheard, Listed

=============================================================================
