------------------------------- MODULE Router -------------------------------
(***************************************************************************)
(* The router of llama-server (tools/server/server-models.cpp): HTTP       *)
(* threads load, unload, download and remove models, each of which runs in *)
(* a child process that two threads of the router look after, one reading  *)
(* what the child says until its output ends, one waiting for a stop       *)
(* request.  All of them share server_models::mutex.                       *)
(*                                                                         *)
(* A step is what a thread does between taking and giving back the mutex.  *)
(* Where it blocks while it holds the mutex, to join a thread, `lock` says *)
(* so; elsewhere the mutex is free between steps.  A wait on the condition *)
(* variable is a step that is enabled when its predicate holds, and every  *)
(* change is notified.  Ports, arguments, presets, aliases, the events     *)
(* sent to clients and the proxied requests themselves are left out; so is *)
(* last_used, as any model that runs may be the least recently used one.   *)
(* No preset asks to be loaded on startup.                                 *)
(***************************************************************************)
EXTENDS Integers, FiniteSets

CONSTANTS
    Models,     \* names, all from the cache
    Clients,    \* HTTP threads of the router
    ModelsMax,  \* models_max, 0 = no limit
    Ops,        \* which of AllOps the clients ask for
    Sleeps,     \* children may fall asleep
    Installed,  \* the models that are there when the router starts
    NoModel,    \* no name
    Free,       \* nobody holds the mutex across a join
    Aborted     \* the router died of a failed assertion

AllOps == {"chat", "load", "unload", "download", "remove", "reload"}

ASSUME ConstantsAssumption ==
    /\ IsFiniteSet(Models) /\ ModelsMax \in Nat
    /\ Ops \subseteq AllOps
    /\ Sleeps \in BOOLEAN
    /\ Installed \subseteq Models /\ NoModel \notin Models
    /\ Free \notin Clients /\ Aborted \notin Clients \cup {Free}

VARIABLES
    status,      \* server_model_meta::status, Absent when not in mapping
    inst,        \* the last instance of each model: see InstanceType
    joinable,    \* the models whose instance_t::th can be joined
    stopping,    \* stopping_models
    isReloading, \* is_reloading
    needReload,  \* need_reload
    lock,        \* who keeps the mutex while it joins a thread
    client,      \* what each HTTP thread is doing: see ClientType
    shut         \* unload_all(): "no", "joining", "done"

vars == <<status, inst, joinable, stopping, isReloading, needReload, lock, client, shut>>

RunningStatus == {"loading", "loaded", "sleeping"}
Status == {"absent", "downloading", "downloaded", "unloaded"} \cup RunningStatus

Running(m) == status[m] \in RunningStatus
MutexFree == lock = Free

\* th: the managing thread; proc: the child; pipe: a message it has not read;
\* stop: the stopping_thread; exit: CMD_ROUTER_TO_CHILD_EXIT was written.
NoInstance == [th |-> "none", mode |-> "normal", proc |-> "none", pipe |-> "none",
               stop |-> "over", stopped |-> FALSE, exit |-> FALSE]
\* mutated: no stopping thread
NewInstance_NoStop(mode) ==
    [th |-> "reading", mode |-> mode, proc |-> IF mode = "normal" THEN "boot" ELSE "fetch",
     pipe |-> "none", stop |-> "none", stopped |-> FALSE, exit |-> FALSE]

NewInstance(mode) ==
    [th |-> "reading", mode |-> mode, proc |-> IF mode = "normal" THEN "boot" ELSE "fetch",
     pipe |-> "none", stop |-> "wait", stopped |-> FALSE, exit |-> FALSE]

Alive(m) == inst[m].proc \notin {"none", "gone"}
ThreadOver(m) == inst[m].th \in {"none", "over"}

-----------------------------------------------------------------------------
(* The child process                                                       *)

\* What a child reports next, and the state it is in then.
Reports ==
    [boot |-> {<<"ready", "ready">>},
     ready |-> IF Sleeps THEN {<<"sleeping", "sleep">>} ELSE {},
     sleep |-> {<<"loading", "wake">>},
     wake |-> {<<"ready", "ready">>},
     fetch |-> {<<"result", "fetched">>}]

ChildReports(m) ==
    /\ inst[m].proc \in DOMAIN Reports /\ inst[m].pipe = "none"
    /\ \E r \in Reports[inst[m].proc] :
          inst' = [inst EXCEPT ![m].pipe = r[1], ![m].proc = r[2]]
    /\ UNCHANGED <<status, joinable, stopping, isReloading, needReload, lock, client, shut>>

\* The thread that reads stdin runs once the model is loaded, and in a
\* download all along; a download reports its result before it exits.
ChildObeys(m) ==
    /\ inst[m].exit /\ inst[m].proc \in {"ready", "sleep", "wake", "fetched"}
    /\ inst' = [inst EXCEPT ![m].proc = "gone"]
    /\ UNCHANGED <<status, joinable, stopping, isReloading, needReload, lock, client, shut>>

ChildCrashes(m) ==
    /\ Alive(m)
    /\ inst' = [inst EXCEPT ![m].proc = "gone"]
    /\ UNCHANGED <<status, joinable, stopping, isReloading, needReload, lock, client, shut>>

-----------------------------------------------------------------------------
(* The threads of an instance                                              *)

InMapping(m) == status[m] # "absent"

\* mutated: a child that sleeps counts as unloaded
Reported_SleepIsUnloaded(said) ==
    CASE said = "ready" -> "loaded" [] said = "sleeping" -> "unloaded" [] OTHER -> said

Reported(said) == IF said = "ready" THEN "loaded" ELSE said

\* handle_child_state: update_status, or update_download_progress
ReadReport(m) ==
    /\ MutexFree
    /\ inst[m].th = "reading" /\ inst[m].pipe # "none"
    /\ LET said == inst[m].pipe IN
       IF said = "result"
       THEN /\ status' = [status EXCEPT ![m] = IF InMapping(m) THEN "downloaded" ELSE @]
            /\ needReload' = (needReload \/ InMapping(m))
            /\ inst' = [inst EXCEPT ![m].pipe = "none", ![m].th = "answering"]
       ELSE /\ status' = [status EXCEPT ![m] = IF InMapping(m) THEN Reported(said) ELSE @]
            /\ inst' = [inst EXCEPT ![m].pipe = "none"]
            /\ UNCHANGED needReload
    /\ UNCHANGED <<joinable, stopping, isReloading, lock, client, shut>>

\* request_exit() for a download that has reported its result
AnswerResult(m) ==
    /\ MutexFree
    /\ inst[m].th = "answering"
    /\ inst' = [inst EXCEPT ![m].th = "reading",
                            ![m].exit = @ \/ InMapping(m),
                            ![m].stopped = @ \/ InMapping(m)]
    /\ UNCHANGED <<status, joinable, stopping, isReloading, needReload, lock, client, shut>>

\* The child's output has ended; the log thread is joined.
SeeEof(m) ==
    /\ inst[m].th = "reading" /\ inst[m].pipe = "none" /\ inst[m].proc = "gone"
    /\ inst' = [inst EXCEPT ![m].th = "eof", ![m].stopped = TRUE]
    /\ UNCHANGED <<status, joinable, stopping, isReloading, needReload, lock, client, shut>>

Release(m) ==
    /\ MutexFree
    /\ inst[m].th = "eof"
    /\ inst' = [inst EXCEPT ![m].th = "released"]
    /\ stopping' = stopping \ {m}
    /\ UNCHANGED <<status, joinable, isReloading, needReload, lock, client, shut>>

EndStatus(m) == IF InMapping(m) THEN "unloaded" ELSE status[m]

\* The stopping thread is joined, the process is reaped, and the status is
\* updated; that of a download is left to the next load_models().
Finish(m) ==
    /\ inst[m].th = "released" /\ inst[m].stop = "over"
    /\ inst' = [inst EXCEPT ![m].th = "over"]
    /\ \/ /\ inst[m].mode = "normal" /\ MutexFree
          /\ status' = [status EXCEPT ![m] = EndStatus(m)]
       \/ inst[m].mode = "download" /\ UNCHANGED status
    /\ UNCHANGED <<joinable, stopping, isReloading, needReload, lock, client, shut>>

\* No thread of the router goes on after a failed assertion.
RouterRuns == lock # Aborted

Manage(m) ==
    /\ RouterRuns
    /\ ReadReport(m) \/ AnswerResult(m) \/ SeeEof(m) \/ Release(m) \/ Finish(m)

\* stopping_thread wakes up
StopRequested(m) ==
    /\ MutexFree
    /\ inst[m].stop = "wait" /\ (m \in stopping \/ inst[m].stopped)
    /\ inst' = IF inst[m].stopped
               THEN [inst EXCEPT ![m].stop = "over"]
               ELSE [inst EXCEPT ![m].stop = "asked", ![m].exit = TRUE]
    /\ UNCHANGED <<status, joinable, stopping, isReloading, needReload, lock, client, shut>>

StopSeen(m) ==
    /\ MutexFree
    /\ inst[m].stop = "asked" /\ (m \notin stopping \/ inst[m].stopped)
    /\ inst' = [inst EXCEPT ![m].stop = "over"]
    /\ UNCHANGED <<status, joinable, stopping, isReloading, needReload, lock, client, shut>>

\* mutated: it waits for the child for ever
TimedOut_Never(m) == FALSE

TimedOut(m) == m \in stopping /\ ~inst[m].stopped

\* stop_timeout has passed: the process is killed
StopKills(m) ==
    /\ MutexFree
    /\ inst[m].stop = "asked" /\ TimedOut(m)
    /\ inst' = [inst EXCEPT ![m].stop = "over",
                            ![m].proc = IF Alive(m) THEN "gone" ELSE @]
    /\ UNCHANGED <<status, joinable, stopping, isReloading, needReload, lock, client, shut>>

StopThread(m) == StopRequested(m) \/ StopSeen(m) \/ StopKills(m)

-----------------------------------------------------------------------------
(* What an HTTP thread is doing                                            *)

\* m: the model asked for; victim: the one that must go first; back: the
\* lookup that goes on after a reload; seen: the sources a reload has read;
\* targets, left: the models it stops, and those (or threads) still to treat.
Idle == [pc |-> "idle", op |-> "none", m |-> NoModel, victim |-> NoModel, back |-> "none",
         seen |-> {}, targets |-> {}, left |-> {}]

Go(c, pc) ==
    client' = [client EXCEPT ![c] = IF pc = "idle" THEN Idle ELSE [@ EXCEPT !.pc = pc, !.back = "none"]]

At(c, pc) == client[c].pc = pc /\ MutexFree
Holds(c, pc) == client[c].pc = pc /\ lock = c

FirstStep == [chat |-> "lookup", load |-> "lookup", unload |-> "lookup",
              download |-> "exists", remove |-> "remove", reload |-> "read"]

Ask(c, op, m) ==
    /\ shut = "no" /\ client[c].pc = "idle"
    /\ client' = [client EXCEPT ![c] = [Idle EXCEPT !.pc = FirstStep[op], !.op = op, !.m = m]]
    /\ UNCHANGED <<status, inst, joinable, stopping, isReloading, needReload, lock, shut>>

\* get_meta() reloads the list first when a download has finished
LookupReloads(c) ==
    /\ MutexFree
    /\ client[c].pc \in {"lookup", "proxy"} /\ client[c].back = "none" /\ needReload
    /\ client' = [client EXCEPT ![c].pc = "read", ![c].back = client[c].pc]
    /\ UNCHANGED <<status, inst, joinable, stopping, isReloading, needReload, lock, shut>>

MayLookUp(c, pc) == At(c, pc) /\ (needReload => client[c].back = pc)

\* The first lookup of the three handlers.  A chat request takes the model as
\* it is when it is loaded or sleeping, loads it when it is unloaded, and
\* otherwise waits; POST /models/load and /models/unload refuse a model that
\* is, or is not, running.
LookUp(c) ==
    /\ MayLookUp(c, "lookup")
    /\ LET st == status[client[c].m]
           op == client[c].op
       IN  Go(c, CASE st = "absent" -> "idle"
                   [] op = "chat" /\ st \in {"loaded", "sleeping"} -> "proxy"
                   [] op = "chat" /\ st \in {"loading", "downloading", "downloaded"} -> "wait"
                   [] op = "load" /\ st \in RunningStatus -> "idle"
                   [] op = "unload" -> IF st \in RunningStatus \cup {"downloading"} THEN "unload" ELSE "idle"
                   [] OTHER -> "load")
    /\ UNCHANGED <<status, inst, joinable, stopping, isReloading, needReload, lock, shut>>

\* The wait of ensure_model_ready(); a model that failed to load is an error.
EnsureReady(c) ==
    /\ At(c, "wait") /\ status[client[c].m] # "loading"
    /\ \/ Go(c, "proxy")
       \/ status[client[c].m] = "unloaded" /\ Go(c, "idle")
    /\ UNCHANGED <<status, inst, joinable, stopping, isReloading, needReload, lock, shut>>

\* proxy_request() up to the update of last_used
Proxy(c) ==
    /\ MayLookUp(c, "proxy")
    /\ Go(c, IF Running(client[c].m) THEN "touch" ELSE "idle")
    /\ UNCHANGED <<status, inst, joinable, stopping, isReloading, needReload, lock, shut>>

\* mapping[name] makes an entry when there is none.
Entry(m) == IF InMapping(m) THEN status ELSE [status EXCEPT ![m] = "unloaded"]

Touch(c) ==
    /\ At(c, "touch")
    /\ status' = Entry(client[c].m)
    /\ Go(c, "idle")
    /\ UNCHANGED <<inst, joinable, stopping, isReloading, needReload, lock, shut>>

-----------------------------------------------------------------------------
(* Stopping                                                                *)

Killed(i) == [i EXCEPT !.proc = IF i.proc \in {"none", "gone"} THEN @ ELSE "gone"]
AskedToExit(i) == [i EXCEPT !.exit = TRUE, !.stopped = TRUE]

\* What unload() and remove() do to the instance of a model: cancel a
\* download, kill a child that is still loading.
Interrupted(m) ==
    CASE status[m] = "downloading" -> [inst EXCEPT ![m] = AskedToExit(@)]
      [] status[m] = "loading" -> [inst EXCEPT ![m] = Killed(@)]
      [] OTHER -> inst

StopAsked(m) == IF Running(m) THEN stopping \cup {m} ELSE stopping

Interrupt(m) == inst' = Interrupted(m) /\ stopping' = StopAsked(m)

\* unload() of the POST handler; that of a download waits until it has ended.
Unload(c) ==
    /\ At(c, "unload")
    /\ Interrupt(client[c].m)
    /\ Go(c, IF status[client[c].m] = "downloading" THEN "await_cancel" ELSE "idle")
    /\ UNCHANGED <<status, joinable, isReloading, needReload, lock, shut>>

AwaitCancel(c) ==
    /\ At(c, "await_cancel") /\ status[client[c].m] # "downloading"
    /\ Go(c, "idle")
    /\ UNCHANGED <<status, inst, joinable, stopping, isReloading, needReload, lock, shut>>

Done == {"absent", "unloaded", "downloaded"}

\* remove() of a model that something still runs for
Remove(c) ==
    /\ At(c, "remove") /\ status[client[c].m] \notin Done
    /\ Interrupt(client[c].m)
    /\ Go(c, "await_gone")
    /\ UNCHANGED <<status, joinable, isReloading, needReload, lock, shut>>

\* mutated: nothing is joined
MustJoin_Nothing(m) == FALSE

MustJoin(m) == m \in joinable /\ ~ThreadOver(m)

\* th.join() while the mutex is held: the thread is not over yet.
RemoveJoins(c) ==
    /\ At(c, "remove") \/ At(c, "await_gone")
    /\ status[client[c].m] \in Done \ {"absent"} /\ MustJoin(client[c].m)
    /\ lock' = c
    /\ Go(c, "join_remove")
    /\ UNCHANGED <<status, inst, joinable, stopping, isReloading, needReload, shut>>

RemoveErases(c) ==
    LET m == client[c].m IN
    /\ \/ (At(c, "remove") \/ At(c, "await_gone")) /\ status[m] \in Done /\ ~MustJoin(m)
       \/ Holds(c, "join_remove") /\ ThreadOver(m)
    /\ status' = [status EXCEPT ![m] = "absent"]
    /\ joinable' = joinable \ {m}
    /\ lock' = Free
    /\ Go(c, "idle")
    /\ UNCHANGED <<inst, stopping, isReloading, needReload, shut>>

-----------------------------------------------------------------------------
(* Loading                                                                 *)

RunningModels == {m \in Models : Running(m)}
\* mutated: only the models that are ready are counted
LimitReached_Ready ==
    ModelsMax > 0 /\ Cardinality({m \in Models : status[m] = "loaded"}) >= ModelsMax

LimitReached == ModelsMax > 0 /\ Cardinality(RunningModels) >= ModelsMax

\* has_model() and the count of unload_lru(); a model that was used in this
\* very millisecond is not a candidate, so there may be no victim.
LoadCounts(c) ==
    /\ At(c, "load")
    /\ \/ ~InMapping(client[c].m) /\ Go(c, "idle")
       \/ InMapping(client[c].m) /\ Go(c, "spawn")
       \/ /\ InMapping(client[c].m) /\ LimitReached
          /\ \E v \in RunningModels :
                client' = [client EXCEPT ![c].pc = "stop_lru", ![c].victim = v, ![c].back = "none"]
    /\ UNCHANGED <<status, inst, joinable, stopping, isReloading, needReload, lock, shut>>

\* unload() of the victim; one that is downloaded anew is waited for anyway.
StopLru(c) ==
    /\ At(c, "stop_lru")
    /\ Interrupt(client[c].victim)
    /\ Go(c, "await_lru")
    /\ UNCHANGED <<status, joinable, isReloading, needReload, lock, shut>>

AwaitLru(c) ==
    /\ At(c, "await_lru") /\ status[client[c].victim] \in {"absent", "unloaded"}
    /\ status' = Entry(client[c].victim)
    /\ client' = [client EXCEPT ![c].pc = "spawn", ![c].victim = NoModel]
    /\ UNCHANGED <<inst, joinable, stopping, isReloading, needReload, lock, shut>>

\* Bound: a name whose earlier thread was taken to be joined elsewhere is not
\* started again before that thread is over.
MaySpawn(c) == At(c, "spawn") /\ ~isReloading /\ (MustJoin(client[c].m) \/ ThreadOver(client[c].m))

Downloading(c) == client[c].op = "download"
Startable(c) == Downloading(c) \/ status[client[c].m] \in {"absent", "unloaded"}
AfterLoad(c) == IF client[c].op = "chat" THEN "wait" ELSE "idle"

\* The model is not unloaded, the limit is reached, or the process cannot be
\* started: the last two are errors.  mapping[name] was looked up before.
SpawnRefused(c) ==
    /\ MaySpawn(c)
    /\ status' = IF Downloading(c) THEN status ELSE Entry(client[c].m)
    /\ Go(c, IF Startable(c) THEN "idle" ELSE AfterLoad(c))
    /\ UNCHANGED <<inst, joinable, stopping, isReloading, needReload, lock, shut>>

MaySpawnNow(c) == MaySpawn(c) /\ Startable(c) /\ ~LimitReached

\* The new process runs; the thread of the old one is joined with the mutex
\* held, after the old process is killed.
SpawnJoins(c) ==
    /\ MaySpawnNow(c) /\ MustJoin(client[c].m)
    /\ inst' = [inst EXCEPT ![client[c].m] = Killed(@)]
    /\ lock' = c
    /\ Go(c, "join_spawn")
    /\ UNCHANGED <<status, joinable, stopping, isReloading, needReload, shut>>

\* mapping[name] = the new instance
Spawn(c) ==
    LET m == client[c].m
        mode == IF Downloading(c) THEN "download" ELSE "normal"
    IN
    /\ \/ MaySpawnNow(c) /\ ThreadOver(m)
       \/ Holds(c, "join_spawn") /\ ThreadOver(m)
    /\ inst' = [inst EXCEPT ![m] = NewInstance(mode)]
    /\ status' = [status EXCEPT ![m] = IF mode = "download" THEN "downloading" ELSE "loading"]
    /\ joinable' = joinable \cup {m}
    /\ lock' = Free
    /\ Go(c, AfterLoad(c))
    /\ UNCHANGED <<stopping, isReloading, needReload, shut>>

\* POST /models refuses a name that is in the list.
DownloadChecks(c) ==
    /\ At(c, "exists")
    /\ Go(c, IF InMapping(client[c].m) THEN "idle" ELSE "spawn")
    /\ UNCHANGED <<status, inst, joinable, stopping, isReloading, needReload, lock, shut>>

-----------------------------------------------------------------------------
(* load_models()                                                           *)

\* Phase 1, without the mutex: whatever the sources hold at that moment.
ReloadReads(c) ==
    /\ client[c].pc = "read"
    /\ \E s \in SUBSET Models : client' = [client EXCEPT ![c].seen = s, ![c].pc = "begin"]
    /\ UNCHANGED <<status, inst, joinable, stopping, isReloading, needReload, lock, shut>>

\* Back to the lookup that asked for the reload, or to the end of the request
ReloadReturns(c) ==
    client' = [client EXCEPT ![c] =
        IF client[c].back = "none" THEN Idle
        ELSE [@ EXCEPT !.pc = client[c].back, !.seen = {}, !.targets = {}, !.left = {}]]

FirstLoad == \A m \in Models : ~InMapping(m)

\* mutated: the first load sets the flag too
HoldsLoads_Always == TRUE

HoldsLoads == isReloading \/ ~FirstLoad

ReloadBegins(c) ==
    /\ At(c, "begin")
    /\ needReload' = FALSE
    /\ isReloading' = HoldsLoads
    /\ IF FirstLoad
       THEN /\ status' = [m \in Models |-> IF m \in client[c].seen THEN "unloaded" ELSE "absent"]
            /\ ReloadReturns(c)
       ELSE \* the models that run and are gone, or whose preset has changed
            /\ \E changed \in SUBSET (RunningModels \cap client[c].seen) :
                  LET targets == (RunningModels \ client[c].seen) \cup changed IN
                  client' = [client EXCEPT ![c].pc = "stop", ![c].targets = targets, ![c].left = targets]
            /\ UNCHANGED status
    /\ UNCHANGED <<inst, joinable, stopping, lock, shut>>

ReloadStops(c, m) ==
    /\ At(c, "stop") /\ m \in client[c].left
    /\ Interrupt(m)
    /\ client' = [client EXCEPT ![c].left = @ \ {m}]
    /\ UNCHANGED <<status, joinable, isReloading, needReload, lock, shut>>

\* The threads it joins without the mutex
ThreadsToJoin(c) ==
    {m \in joinable :
        /\ InMapping(m)
        /\ \/ m \in client[c].targets
           \/ m \notin client[c].seen /\ status[m] # "downloading" /\ ~Running(m)}

\* unload() of a target that is downloaded anew waits until that has ended.
ReloadCollects(c) ==
    /\ At(c, "stop") /\ client[c].left = {}
    /\ \A m \in client[c].targets : status[m] \notin RunningStatus \cup {"downloading"}
    /\ client' = [client EXCEPT ![c].pc = "join", ![c].left = ThreadsToJoin(c)]
    /\ joinable' = joinable \ ThreadsToJoin(c)
    /\ UNCHANGED <<status, inst, stopping, isReloading, needReload, lock, shut>>

ReloadJoins(c) ==
    /\ client[c].pc = "join"
    /\ \A m \in client[c].left : ThreadOver(m)
    /\ client' = [client EXCEPT ![c].pc = "apply", ![c].left = {}]
    /\ UNCHANGED <<status, inst, joinable, stopping, isReloading, needReload, lock, shut>>

\* The thread of a download is joined with the mutex held.
ReloadHolds(c) ==
    /\ At(c, "apply")
    /\ \E m \in Models : status[m] = "downloaded" /\ MustJoin(m)
    /\ lock' = c
    /\ client' = [client EXCEPT ![c].pc = "join_apply"]
    /\ UNCHANGED <<status, inst, joinable, stopping, isReloading, needReload, shut>>

Erased(c, m) ==
    \/ status[m] = "downloaded"
    \/ status[m] # "downloading" /\ InMapping(m) /\ m \notin client[c].seen

\* GGML_ASSERT(!th.joinable()) of an entry that has left the sources
AssertionFails(c) == \E m \in joinable : Erased(c, m) /\ status[m] # "downloaded"

ReloadApplies(c) ==
    /\ At(c, "apply") \/ Holds(c, "join_apply")
    /\ \A m \in Models : status[m] = "downloaded" => ~MustJoin(m)
    /\ IF AssertionFails(c)
       THEN lock' = Aborted /\ UNCHANGED <<status, joinable, isReloading, client>>
       ELSE /\ status' = [m \in Models |->
                 IF Erased(c, m) \/ ~InMapping(m)
                 THEN IF m \in client[c].seen THEN "unloaded" ELSE "absent"
                 ELSE status[m]]
            /\ joinable' = {m \in joinable : ~Erased(c, m)}
            /\ isReloading' = FALSE
            /\ lock' = Free
            /\ ReloadReturns(c)
    /\ UNCHANGED <<inst, stopping, needReload, shut>>

-----------------------------------------------------------------------------
(* The end: unload_all() after the HTTP threads have ended                 *)

\* mutated: the children that run are not told
ToldToStop_None(m) == FALSE

ToldToStop(m) == Running(m)

UnloadAll ==
    /\ shut = "no" /\ MutexFree /\ \A c \in Clients : client[c].pc = "idle"
    /\ inst' = [m \in Models |-> [inst[m] EXCEPT !.stopped = @ \/ status[m] = "downloading"]]
    /\ stopping' = stopping \cup {m \in Models : ToldToStop(m)}
    /\ joinable' = {}
    /\ shut' = "joining"
    /\ UNCHANGED <<status, isReloading, needReload, lock, client>>

AllJoined ==
    /\ shut = "joining" /\ \A m \in Models : ThreadOver(m)
    /\ shut' = "done"
    /\ UNCHANGED <<status, inst, joinable, stopping, isReloading, needReload, lock, client>>

\* Children that the router leaves behind may still go on by themselves.
Ended == (shut = "done" \/ ~RouterRuns) /\ UNCHANGED vars

-----------------------------------------------------------------------------
Init ==
    /\ status = [m \in Models |-> IF m \in Installed THEN "unloaded" ELSE "absent"]
    /\ inst = [m \in Models |-> NoInstance]
    /\ joinable = {} /\ stopping = {}
    /\ isReloading = FALSE /\ needReload = FALSE
    /\ lock = Free
    /\ client = [c \in Clients |-> Idle]
    /\ shut = "no"

ClientStep(c) ==
    /\ RouterRuns
    /\ \/ \E op \in Ops \ {"reload"}, m \in Models : Ask(c, op, m)
       \/ "reload" \in Ops /\ Ask(c, "reload", NoModel)
       \/ LookupReloads(c) \/ LookUp(c) \/ EnsureReady(c) \/ Proxy(c) \/ Touch(c)
       \/ Unload(c) \/ AwaitCancel(c) \/ Remove(c) \/ RemoveJoins(c) \/ RemoveErases(c)
       \/ LoadCounts(c) \/ StopLru(c) \/ AwaitLru(c)
       \/ SpawnRefused(c) \/ SpawnJoins(c) \/ Spawn(c) \/ DownloadChecks(c)
       \/ ReloadReads(c) \/ ReloadBegins(c) \/ (\E m \in Models : ReloadStops(c, m))
       \/ ReloadCollects(c) \/ ReloadJoins(c) \/ ReloadHolds(c) \/ ReloadApplies(c)

ChildStep(m) == ChildReports(m) \/ ChildObeys(m) \/ ChildCrashes(m)

Next ==
    \/ \E c \in Clients : ClientStep(c)
    \/ \E m \in Models : ChildStep(m) \/ Manage(m) \/ StopThread(m)
    \/ UnloadAll \/ AllJoined \/ Ended

Spec == Init /\ [][Next]_vars

\* The threads of an instance run, and a download ends some day.
FairSpec ==
    /\ Spec
    /\ \A m \in Models : WF_vars(Manage(m)) /\ WF_vars(StopThread(m))
    /\ \A m \in Models : WF_vars(inst[m].mode = "download" /\ ChildReports(m))
    /\ WF_vars(AllJoined)

-----------------------------------------------------------------------------
(* Properties                                                              *)

InstanceType ==
    [th : {"none", "reading", "answering", "eof", "released", "over"},
     mode : {"normal", "download"},
     proc : {"none", "boot", "ready", "sleep", "wake", "fetch", "fetched", "gone"},
     pipe : {"none", "ready", "sleeping", "loading", "result"},
     stop : {"wait", "asked", "over"}, stopped : BOOLEAN, exit : BOOLEAN]

ClientType ==
    [pc : {"idle", "lookup", "wait", "proxy", "touch", "unload", "await_cancel", "remove",
           "await_gone", "join_remove", "load", "stop_lru", "await_lru", "spawn", "join_spawn",
           "exists", "read", "begin", "stop", "join", "apply", "join_apply"},
     op : AllOps \cup {"none"}, m : Models \cup {NoModel}, victim : Models \cup {NoModel},
     back : {"none", "lookup", "proxy"},
     seen : SUBSET Models, targets : SUBSET Models, left : SUBSET Models]

\* Every variable has its type.
TypeOK ==
    /\ status \in [Models -> Status]
    /\ inst \in [Models -> InstanceType]
    /\ joinable \subseteq Models /\ stopping \subseteq Models
    /\ isReloading \in BOOLEAN /\ needReload \in BOOLEAN
    /\ lock \in Clients \cup {Free, Aborted}
    /\ client \in [Clients -> ClientType]
    /\ shut \in {"no", "joining", "done"}

Serving == {m \in Models : inst[m].mode = "normal" /\ Alive(m)}

\* However many requests load models at once, no more processes serve models
\* than models_max allows, those being stopped included (load()).
LimitRespected == ModelsMax > 0 => Cardinality(Serving) <= ModelsMax

\* What the list says of a model is true.  One that it says runs is looked
\* after until it does not, so that whoever waits for its end is told; one that
\* it does not has no process that serves it, nor a thread that could still
\* change its status (update_status() from the managing thread, remove(),
\* load_models()).
RunningIsManaged == \A m \in Models : Running(m) => inst[m].mode = "normal" /\ ~ThreadOver(m)
NotRunningIsOver ==
    \A m \in Models : ~Running(m) /\ inst[m].mode = "normal" => ~Alive(m) /\ ThreadOver(m)
StatusIsTrue == RunningIsManaged /\ NotRunningIsOver

\* No thread is lost: one that runs belongs to an entry of the list, or to the
\* request or the shutdown that is joining it.
NoThreadLost ==
    \A m \in Models :
        /\ m \in joinable => InMapping(m)
        /\ ~ThreadOver(m) => \/ m \in joinable
                             \/ shut = "joining"
                             \/ \E c \in Clients : client[c].pc = "join" /\ m \in client[c].left

\* While loads are held back, some request is reloading the list and will let
\* them go on, whatever the order in which two reloads begin and end.
ReloadHasOwner ==
    isReloading => \E c \in Clients : client[c].pc \in {"stop", "join", "apply", "join_apply"}

\* "must have been joined above" (server-models.cpp:559): the entries that
\* load_models() erases have no thread that could be joined.
AssertionHolds == RouterRuns

\* A thread that is joined by someone who holds the mutex needs it no more
\* (remove(), load(), load_models()).
JoinIsSafe ==
    \A c \in Clients : lock = c /\ client[c].pc = "join_remove" =>
        inst[client[c].m].th = "released"

\* What can be seen of the model of an instance: the process a managing thread
\* looks after, the report in its pipe, and the word of the list.
Managed(m) == inst[m].mode = "normal" /\ ~ThreadOver(m)
InPipe(m) == IF inst[m].pipe = "none" THEN <<>> ELSE <<Reported(inst[m].pipe)>>

Host == INSTANCE ModelHost WITH
            Limit <- ModelsMax,
            process <- [m \in Models |-> IF Managed(m) THEN inst[m].proc ELSE "none"],
            unheard <- [m \in Models |-> IF Managed(m) THEN InPipe(m) ELSE <<>>],
            listed <- [m \in Models |-> IF Running(m) THEN status[m] ELSE "off"]

\* Loads, unloads, evictions, reloads, kills and crashes at once can show nobody
\* more than this: processes within models_max, one at a time for a model, each
\* listed as what it reported until it has ended (load(), update_status()).
ImplementsModelHost == Host!Spec

\* A model that is asked to stop stops running: its child exits, or is killed
\* after the timeout, and its managing thread says so (the stopping thread).
StopIsObeyed ==
    \A m \in Models : m \in stopping /\ Running(m) ~> ~Running(m)

\* Once the HTTP threads have ended, the router ends: every thread it joins
\* ends (unload_all()).
ShutdownEnds == shut = "joining" ~> shut = "done"
=============================================================================
