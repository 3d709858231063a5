---------------------------- MODULE ServerQueue ----------------------------
(***************************************************************************)
(* The request path of llama-server: HTTP handlers, each with one          *)
(* server_response_reader, post tasks to server_queue; the main thread     *)
(* runs start_loop(), takes the tasks, binds them to slots (or defers      *)
(* them), decodes, and sends results through server_response.              *)
(*                                                                         *)
(* One action is one critical section of mutex_tasks or mutex_results, or  *)
(* one step of the main thread between two of them.  Task ids stand for    *)
(* the numbers get_new_id() returns; a prompt, a token and a result's text *)
(* are abstracted away.  At most one partial result is sent per task (the  *)
(* one that follows the prompt): further tokens change nothing here.       *)
(***************************************************************************)
EXTENDS Integers, Sequences, FiniteSets

CONSTANTS
    Readers,      \* the HTTP requests, one server_response_reader each
    Tasks,        \* the ids of the tasks they post
    Slots,        \* the slot ids, 0 .. n_parallel - 1
    Users,        \* the user_ids a request may carry
    TasksOf,      \* [Readers -> Seq(Tasks)]: what a request posts, in order
    Info,         \* [Tasks -> TaskInfo]: the fields of a task the code reads
    UserCap,      \* --max-concurrent-per-user, 0 = unlimited
    SleepEnabled, \* --sleep-idle-seconds >= 0
    Faults,       \* which of FaultKinds may happen
    NoTask, NoSlot, NoUser, Main

FaultKinds == {"bad_request", "tokenize", "launch", "slot_action", "empty", "decode",
               "disconnect", "terminate"}

\* kind: "completion" is bound to a slot (COMPLETION, INFILL, EMBEDDING, RERANK);
\* "slot_action" needs an idle slot but does not hold it (SLOT_SAVE, _RESTORE,
\* _ERASE); "query" and "metrics" are answered at once (CONTROL, GET_LORA,
\* SET_LORA; METRICS, which is posted to the front).  slot is id_slot or
\* slot_action.id_slot, kids the ids of child_tasks.
TaskInfo == [kind : {"completion", "slot_action", "query", "metrics"},
             slot : Slots \cup {NoSlot},
             user : Users \cup {NoUser},
             kids : Seq(Tasks)]

Elems(s) == {s[i] : i \in DOMAIN s}
Kids(t)  == Elems(Info[t].kids)
\* id_tasks of a reader: what it posts and the children of those
Ids(r)   == Elems(TasksOf[r]) \cup UNION {Kids(t) : t \in Elems(TasksOf[r])}

ASSUME ConstantsAssumption ==
    /\ Slots \subseteq Nat /\ IsFiniteSet(Slots)
    /\ UserCap \in Nat
    /\ SleepEnabled \in BOOLEAN
    /\ Faults \subseteq FaultKinds
    /\ NoTask \notin Tasks
    /\ NoSlot \notin Slots
    /\ NoUser \notin Users
    /\ Main \notin Readers
    /\ TasksOf \in [Readers -> Seq(Tasks)]
    /\ Info \in [Tasks -> TaskInfo]
    \* the schema refuses n_cmpl > n_parallel
    /\ \A t \in Tasks : Len(Info[t].kids) < Cardinality(Slots)
    \* add_child: handle_completions_impl alone
    /\ \A t \in Tasks : Info[t].kind # "completion" => Info[t].kids = << >>

\* get_new_id() gives each id once: to one task of one request, or to one child
\* of one parent.
ASSUME IdsAreUnique ==
    /\ \A r \in Readers : \A i, j \in DOMAIN TasksOf[r] : TasksOf[r][i] = TasksOf[r][j] => i = j
    /\ \A t \in Tasks : \A i, j \in DOMAIN Info[t].kids : Info[t].kids[i] = Info[t].kids[j] => i = j
    /\ \A t, u \in Tasks : Kids(t) \cap Kids(u) # {} => t = u
    /\ \A r \in Readers : \A t \in Tasks : Elems(TasksOf[r]) \cap Kids(t) = {}
    /\ \A r, q \in Readers : Ids(r) \cap Ids(q) # {} => r = q

VARIABLES
    queue,      \* queue_tasks
    deferred,   \* queue_tasks_deferred
    running, sleeping, reqStop,
    cvWait,     \* the threads blocked on condition_tasks
    waiting,    \* waiting_task_ids
    results,    \* queue_results
    rpc,        \* where each HTTP handler is
    answered,   \* the tasks whose final result a reader has received
    mpc,        \* where the main thread is
    cur,        \* the task popped by start_loop and being processed
    todo,       \* the slots update_slots, or release_slots, has still to visit
    slots,      \* server_slot: task, state, user_id_
    userCount   \* user_counts_

queueVars  == <<queue, deferred>>
sleepVars  == <<running, sleeping, reqStop>>
resultVars == <<waiting, results>>
readerVars == <<rpc, answered>>
mainVars   == <<mpc, cur, todo>>
slotVars   == <<slots, userCount>>
vars == <<queueVars, sleepVars, cvWait, resultVars, readerVars, mainVars, slotVars>>

\* The queue holds tasks, CANCEL tasks (id is id_target) and NEXT_RESPONSE.
TaskItem(t)   == [type |-> "task", id |-> t]
CancelItem(t) == [type |-> "cancel", id |-> t]
NextItem      == [type |-> "next", id |-> NoTask]

Items   == [type : {"task", "cancel"}, id : Tasks] \cup {NextItem}
Results == [id : Tasks, kind : {"partial", "final", "error"}]
SlotRecords == [task : Tasks \cup {NoTask},
                state : {"idle", "started", "wait_other", "generating"},
                user : Users \cup {NoUser}]
IdleSlot == [task |-> NoTask, state |-> "idle", user |-> NoUser]

HasNext(r) == answered[r] # Ids(r)

-----------------------------------------------------------------------------
(* server_queue and server_response                                        *)

\* condition_tasks.notify_one(): some waiting thread, if there is one
NotifyOne == IF cvWait = {} THEN {{}} ELSE {cvWait \ {w} : w \in cvWait}

\* std::remove_if: the elements of s outside D, in order
Without(s, D) ==
    LET kept[i \in 0 .. Len(s)] ==
            IF i = 0 THEN << >>
            ELSE IF s[i] \in D THEN kept[i-1] ELSE Append(kept[i-1], s[i])
    IN  kept[Len(s)]

\* server_queue::pop_deferred_task: the first deferred task that asks for
\* this slot, otherwise the first one; it goes to the front of the queue.
IdSlot(t) == IF Info[t].kind = "completion" THEN Info[t].slot ELSE NoSlot

PopIndex(s) ==
    LET wants == {i \in DOMAIN deferred : IdSlot(deferred[i]) = s}
    IN  IF wants = {} THEN 1
        ELSE CHOOSE i \in wants : \A j \in wants : i <= j

\* mutated: the task is copied to the queue and not erased
PopDeferredTask_NoErase(s) ==
    /\ cvWait' \in NotifyOne
    /\ queue' = IF deferred = << >> THEN queue
                ELSE <<TaskItem(deferred[PopIndex(s)])>> \o queue
    /\ UNCHANGED deferred

PopDeferredTask(s) ==
    /\ cvWait' \in NotifyOne
    /\ IF deferred = << >>
       THEN UNCHANGED queueVars
       ELSE LET i == PopIndex(s) IN
            /\ queue' = <<TaskItem(deferred[i])>> \o queue
            /\ deferred' = SubSeq(deferred, 1, i-1) \o SubSeq(deferred, i+1, Len(deferred))

\* mutated: the task is dropped
Defer_Drop(t) ==
    /\ UNCHANGED deferred
    /\ cvWait' \in NotifyOne

Defer(t) ==
    /\ deferred' = Append(deferred, t)
    /\ cvWait' \in NotifyOne

\* server_response::send drops a result nobody waits for
Send(t, kind) ==
    results' = IF t \in waiting THEN Append(results, [id |-> t, kind |-> kind]) ELSE results

-----------------------------------------------------------------------------
(* Slots                                                                   *)

IsProcessing(s) == slots[s].state # "idle"
Processing == {s \in Slots : IsProcessing(s)}

\* mutated: no deferred task is popped
Release_NoPop(s) ==
    /\ slots' = [slots EXCEPT ![s] = IdleSlot]
    /\ UNCHANGED <<userCount, queueVars, cvWait>>

\* server_slot::release: reset() clears task and user_id_ before
\* callback_on_release reads user_id_ to decrement user_counts_.
Release(s) ==
    LET reset == [slots EXCEPT ![s] = IdleSlot]
        u == reset[s].user
    IN  /\ slots' = reset
        /\ userCount' = IF UserCap > 0 /\ u \in Users /\ userCount[u] > 0
                        THEN [userCount EXCEPT ![u] = @ - 1]
                        ELSE userCount
        /\ PopDeferredTask(s)

\* mutated: the cap is off by one
AtCap_OffByOne(t) ==
    /\ UserCap > 0
    /\ Info[t].user \in Users
    /\ userCount[Info[t].user] > UserCap

AtCap(t) ==
    /\ UserCap > 0
    /\ Info[t].user \in Users
    /\ userCount[Info[t].user] >= UserCap

\* An idle slot that the LRU search does not skip as another user's
MayTake(s, t) ==
    /\ ~IsProcessing(s)
    /\ slots[s].user = NoUser \/ Info[t].user \in {NoUser, slots[s].user}

\* get_available_slot: the requested slot even if it is busy; otherwise an
\* idle slot, by prompt similarity (which ignores the owner) or by LRU.
AvailableSlots(t) ==
    IF AtCap(t) THEN {NoSlot}
    ELSE IF Info[t].slot \in Slots THEN {Info[t].slot}
    ELSE (Slots \ Processing) \cup
         (IF \E s \in Slots : MayTake(s, t) THEN {} ELSE {NoSlot})

\* mutated: the count goes the wrong way
CountUser_Down(t, s) ==
    userCount' = IF s # NoSlot /\ UserCap > 0 /\ Info[t].user \in Users
                 THEN [userCount EXCEPT ![Info[t].user] = @ - 1]
                 ELSE userCount

\* get_available_slot counts the slot for the user as soon as it is chosen
CountUser(t, s) ==
    userCount' = IF s # NoSlot /\ UserCap > 0 /\ Info[t].user \in Users
                 THEN [userCount EXCEPT ![Info[t].user] = @ + 1]
                 ELSE userCount

\* get_free_slots: a distinct idle slot other than s for each child
ChildSlots(t, s) ==
    {f \in [DOMAIN Info[t].kids -> Slots \ (Processing \cup {s})] :
        \A i, j \in DOMAIN f : f[i] = f[j] => i = j}

\* launch_slots_with_parent_task and launch_slot_with_task, after n launches:
\* the children first, in order, then t itself.  add_child() does not copy
\* user_id, and a child waits for its parent's prompt.
Launched(t, s, f, n) ==
    [x \in Slots |->
        IF x = s /\ n > Len(Info[t].kids)
        THEN [task |-> t, state |-> "started", user |-> Info[t].user]
        ELSE IF \E i \in DOMAIN f : i <= n /\ f[i] = x
        THEN [task |-> Info[t].kids[CHOOSE i \in DOMAIN f : f[i] = x],
              state |-> "wait_other", user |-> NoUser]
        ELSE slots[x]]

-----------------------------------------------------------------------------
(* process_single_task, on the main thread                                 *)

\* completion, no slot (or too few for the children): defer.  The counter of
\* get_available_slot is not undone.
DeferCompletion ==
    \E s \in AvailableSlots(cur.id) :
        /\ \/ s = NoSlot
           \/ s \in Processing
           \/ ChildSlots(cur.id, s) = {}
        /\ CountUser(cur.id, s)
        /\ Defer(cur.id)
        /\ UNCHANGED <<queue, resultVars, slots>>

LaunchCompletion ==
    \E s \in AvailableSlots(cur.id) \cap (Slots \ Processing) :
        \E f \in ChildSlots(cur.id, s) :
            /\ CountUser(cur.id, s)
            /\ slots' = Launched(cur.id, s, f, Len(f) + 1)
            /\ UNCHANGED <<queueVars, cvWait, resultVars>>

\* tokenize_cli_input: a prompt of the command line cannot be tokenized, which
\* is found out before a slot is looked for
TokenizeFails ==
    /\ "tokenize" \in Faults
    /\ Send(cur.id, "error")
    /\ UNCHANGED <<queueVars, cvWait, waiting, slotVars>>

ProcessCompletion ==
    /\ cur.type = "task" /\ Info[cur.id].kind = "completion"
    /\ DeferCompletion \/ LaunchCompletion \/ TokenizeFails

\* launch_slot_with_task refuses the prompt or the sampler, after n launches of
\* the same family; its error goes out before these are undone.
LaunchFails ==
    /\ cur.type = "task" /\ Info[cur.id].kind = "completion" /\ "launch" \in Faults
    /\ \E s \in AvailableSlots(cur.id) \cap (Slots \ Processing) :
       \E f \in ChildSlots(cur.id, s) : \E n \in 0 .. Len(f) :
           /\ CountUser(cur.id, s)
           /\ slots' = Launched(cur.id, s, f, n)
           /\ todo' = {f[i] : i \in 1 .. n}
           /\ mpc' = IF n = 0 THEN "drain" ELSE "undo"
           /\ Send(IF n = Len(f) THEN cur.id ELSE Info[cur.id].kids[n+1], "error")
    /\ UNCHANGED <<queueVars, cvWait, waiting>>

\* A saved slot may be unreadable, and with a multimodal model the action is
\* refused, whatever the slot does.
ProcessSlotAction ==
    /\ cur.type = "task" /\ Info[cur.id].kind = "slot_action"
    /\ \/ /\ Info[cur.id].slot = NoSlot \/ "slot_action" \in Faults
          /\ Send(cur.id, "error") /\ UNCHANGED <<queueVars, cvWait>>
       \/ /\ Info[cur.id].slot \in Processing
          /\ Defer(cur.id) /\ UNCHANGED <<queue, results>>
       \/ /\ Info[cur.id].slot \in Slots \ Processing
          /\ Send(cur.id, "final") /\ UNCHANGED <<queueVars, cvWait>>
    /\ UNCHANGED <<waiting, slotVars>>

ProcessQuery ==
    /\ cur.type = "task" /\ Info[cur.id].kind \in {"query", "metrics"}
    /\ Send(cur.id, "final")
    /\ UNCHANGED <<queueVars, cvWait, waiting, slotVars>>

\* mutated: the slot is not released
ProcessCancel_NoRelease ==
    /\ cur.type = "cancel"
    /\ UNCHANGED <<resultVars, queueVars, cvWait, slotVars>>

ProcessCancel ==
    /\ cur.type = "cancel"
    /\ UNCHANGED resultVars
    /\ IF \E s \in Slots : slots[s].task = cur.id
       THEN Release(CHOOSE s \in Slots : slots[s].task = cur.id)
       ELSE UNCHANGED <<queueVars, cvWait, slotVars>>

ProcessNextResponse ==
    /\ cur.type = "next"
    /\ UNCHANGED <<queueVars, cvWait, resultVars, slotVars>>

ProcessSingleTask ==
    /\ mpc = "process"
    /\ \/ /\ \/ ProcessCompletion
             \/ ProcessSlotAction
             \/ ProcessQuery
             \/ ProcessCancel
             \/ ProcessNextResponse
          /\ mpc' = "drain"
          /\ UNCHANGED todo
       \/ LaunchFails
    /\ cur' = NextItem
    /\ UNCHANGED <<sleepVars, readerVars>>

\* release_slots of launch_slots_with_parent_task: one slot at a time, each with
\* the deferred task it makes room for
ReleaseLaunched ==
    /\ mpc = "undo"
    /\ \E s \in todo :
        /\ \A x \in todo : s <= x
        /\ Release(s)
        /\ todo' = todo \ {s}
    /\ mpc' = IF todo' = {} THEN "drain" ELSE "undo"
    /\ UNCHANGED <<sleepVars, resultVars, readerVars, cur>>

-----------------------------------------------------------------------------
(* start_loop and update_slots, on the main thread                         *)

PopTask ==
    /\ mpc = "drain" /\ running /\ queue # << >>
    /\ cur' = Head(queue)
    /\ queue' = Tail(queue)
    /\ mpc' = "process"
    /\ UNCHANGED <<deferred, sleepVars, cvWait, resultVars, readerVars, todo, slotVars>>

Drained ==
    /\ mpc = "drain" /\ running /\ queue = << >>
    /\ mpc' = "update"
    /\ UNCHANGED <<queueVars, sleepVars, cvWait, resultVars, readerVars, cur, todo, slotVars>>

ExitLoop ==
    /\ mpc = "drain" /\ ~running
    /\ mpc' = "exited"
    /\ UNCHANGED <<queueVars, sleepVars, cvWait, resultVars, readerVars, cur, todo, slotVars>>

\* update_slots: all slots idle, nothing to do
UpdateIdle ==
    /\ mpc = "update" /\ Processing = {}
    /\ mpc' = "idle"
    /\ UNCHANGED <<queueVars, sleepVars, cvWait, resultVars, readerVars, cur, todo, slotVars>>

\* mutated: no NEXT_RESPONSE
PostNextResponse_Not ==
    /\ mpc = "update" /\ Processing # {}
    /\ mpc' = "decode"
    /\ todo' = Slots
    /\ UNCHANGED <<queueVars, cvWait, sleepVars, resultVars, readerVars, cur, slotVars>>

\* update_slots: NEXT_RESPONSE is posted before the batch is decoded, so that
\* start_loop comes back for the next token
PostNextResponse ==
    /\ mpc = "update" /\ Processing # {}
    /\ queue' = Append(queue, NextItem)
    /\ cvWait' \in NotifyOne
    /\ mpc' = "decode"
    /\ todo' = Slots
    /\ UNCHANGED <<deferred, sleepVars, resultVars, readerVars, cur, slotVars>>

Decodable == {s \in todo : slots[s].state \in {"started", "generating"}}

\* The slots of a batch are visited in the order of their ids
Visit(s) ==
    /\ mpc = "decode" /\ s \in Decodable
    /\ \A x \in Decodable : s <= x
    /\ todo' = todo \ {s}
    /\ UNCHANGED <<sleepVars, readerVars, mpc, cur>>

\* The prompt needs another batch, or one more token is generated
KeepGoing(s) ==
    /\ Visit(s)
    /\ UNCHANGED <<queueVars, cvWait, resultVars, slotVars>>

\* mutated: the children are not activated
PromptDone_Alone(s) ==
    /\ Visit(s)
    /\ slots[s].state = "started"
    /\ slots' = [slots EXCEPT ![s].state = "generating"]
    /\ Send(slots[s].task, "partial")
    /\ UNCHANGED <<queueVars, cvWait, waiting, userCount>>

\* The prompt is decoded: the children of a parent become active too
PromptDone(s) ==
    /\ Visit(s)
    /\ slots[s].state = "started"
    /\ slots' = [x \in Slots |->
          IF x = s \/ (slots[x].state = "wait_other" /\ slots[x].task \in Kids(slots[s].task))
          THEN [slots[x] EXCEPT !.state = "generating"] ELSE slots[x]]
    /\ Send(slots[s].task, "partial")
    /\ UNCHANGED <<queueVars, cvWait, waiting, userCount>>

\* mutated: the slot is not released
SlotFinal_NoRelease(s) ==
    /\ Visit(s)
    /\ slots[s].state = "generating" \/ Kids(slots[s].task) = {}
    /\ Send(slots[s].task, "final")
    /\ UNCHANGED <<waiting, slotVars, queueVars, cvWait>>

\* The last token, or the embedding of a prompt: final response, then release
SlotFinal(s) ==
    /\ Visit(s)
    /\ slots[s].state = "generating" \/ Kids(slots[s].task) = {}
    /\ Send(slots[s].task, "final")
    /\ Release(s)
    /\ UNCHANGED waiting

\* An empty prompt is answered before anything is decoded
EmptyPrompt(s) ==
    /\ Visit(s)
    /\ slots[s].state = "started" /\ "empty" \in Faults
    /\ Send(slots[s].task, "final")
    /\ Release(s)
    /\ UNCHANGED waiting

\* An error of this slot alone: context full, prompt too large, an exception
SlotError(s) ==
    /\ Visit(s)
    /\ "decode" \in Faults
    /\ Send(slots[s].task, "error")
    /\ Release(s)
    /\ UNCHANGED waiting

\* decode() throws: abort_all_slots
StartAbort ==
    /\ mpc = "decode" /\ "decode" \in Faults
    /\ mpc' = "abort"
    /\ UNCHANGED <<queueVars, sleepVars, cvWait, resultVars, readerVars, cur, todo, slotVars>>

AbortSlot ==
    /\ mpc = "abort"
    /\ \E s \in Processing :
        /\ \A x \in Processing : s <= x
        /\ Send(slots[s].task, "error")
        /\ Release(s)
    /\ UNCHANGED <<sleepVars, waiting, readerVars, mainVars>>

UpdateDone ==
    /\ \/ mpc = "decode" /\ Decodable = {}
       \/ mpc = "abort" /\ Processing = {}
    /\ mpc' = "idle"
    /\ todo' = {}
    /\ UNCHANGED <<queueVars, sleepVars, cvWait, resultVars, readerVars, cur, slotVars>>

\* start_loop waits (wait_for, 1 s) until there is a task
WakeForTask ==
    /\ mpc = "idle" /\ (~running \/ queue # << >>)
    /\ mpc' = "drain"
    /\ UNCHANGED <<queueVars, sleepVars, cvWait, resultVars, readerVars, cur, todo, slotVars>>

\* should_sleep(): idle_sleep_ms have passed; the model is unloaded under the
\* lock.  Time is not modelled: the wait may be over at any moment.
GoToSleep ==
    /\ SleepEnabled
    /\ mpc = "idle" /\ running /\ queue = << >>
    /\ sleeping' = TRUE
    /\ reqStop' = FALSE
    /\ cvWait' = cvWait \cup {Main}
    /\ mpc' = "asleep"
    /\ UNCHANGED <<queueVars, running, resultVars, readerVars, cur, todo, slotVars>>

\* The main thread was notified.  Leaving the sleep reloads the model, which
\* creates the slots anew (but not user_counts_).
MainNotified ==
    /\ mpc = "asleep" /\ Main \notin cvWait
    /\ \/ /\ ~running
          /\ mpc' = "drain"
          /\ UNCHANGED <<sleepVars, cvWait, slots>>
       \/ /\ running /\ reqStop
          /\ sleeping' = FALSE
          /\ reqStop' = FALSE
          /\ cvWait' = {}
          /\ slots' = [s \in Slots |-> IdleSlot]
          /\ mpc' = "drain"
          /\ UNCHANGED running
       \/ /\ running /\ ~reqStop
          /\ cvWait' = cvWait \cup {Main}
          /\ UNCHANGED <<sleepVars, mpc, slots>>
    /\ UNCHANGED <<queueVars, resultVars, readerVars, cur, todo, userCount>>

-----------------------------------------------------------------------------
(* HTTP handlers                                                           *)

\* The constructor of server_res_generator: wait_until_no_sleep()
Arrive(r) ==
    /\ rpc[r] = "start"
    /\ IF SleepEnabled /\ sleeping
       THEN /\ rpc' = [rpc EXCEPT ![r] = "sleepwait"]
            /\ reqStop' = TRUE
            /\ \E w \in (IF reqStop THEN {cvWait} ELSE NotifyOne) : cvWait' = w \cup {r}
       ELSE /\ rpc' = [rpc EXCEPT ![r] = "parsing"]
            /\ UNCHANGED <<reqStop, cvWait>>
    /\ UNCHANGED <<queueVars, running, sleeping, resultVars, answered, mainVars, slotVars>>

\* wait_until_no_sleep() was notified and tests its predicate again
ReaderNotified(r) ==
    /\ rpc[r] = "sleepwait" /\ r \notin cvWait
    /\ IF sleeping
       THEN cvWait' = cvWait \cup {r} /\ UNCHANGED rpc
       ELSE rpc' = [rpc EXCEPT ![r] = "parsing"] /\ UNCHANGED cvWait
    /\ UNCHANGED <<queueVars, sleepVars, resultVars, answered, mainVars, slotVars>>

\* The handler tokenizes the prompt with the model's vocabulary, and answers
\* 400 if the request is not valid
BadRequest(r) ==
    /\ rpc[r] = "parsing" /\ "bad_request" \in Faults
    /\ rpc' = [rpc EXCEPT ![r] = "closed"]
    /\ UNCHANGED <<queueVars, sleepVars, cvWait, resultVars, answered, mainVars, slotVars>>

AddWaiting(r) ==
    /\ rpc[r] = "parsing"
    /\ waiting' = waiting \cup Ids(r)
    /\ rpc' = [rpc EXCEPT ![r] = "registered"]
    /\ UNCHANGED <<queueVars, sleepVars, cvWait, results, answered, mainVars, slotVars>>

\* server_queue::post of all the tasks; METRICS goes to the front
PostTasks(r) ==
    LET items == [i \in DOMAIN TasksOf[r] |-> TaskItem(TasksOf[r][i])]
        front == \E t \in Elems(TasksOf[r]) : Info[t].kind = "metrics"
    IN  /\ rpc[r] = "registered"
        /\ queue' = IF front THEN items \o queue ELSE queue \o items
        /\ cvWait' \in NotifyOne
        /\ rpc' = [rpc EXCEPT ![r] = "receiving"]
        /\ UNCHANGED <<deferred, sleepVars, resultVars, answered, mainVars, slotVars>>

\* recv_with_timeout and next(): the first result of one of the reader's tasks
ReceiveResult(r) ==
    /\ rpc[r] = "receiving" /\ HasNext(r)
    /\ \E i \in DOMAIN results :
        /\ results[i].id \in Ids(r)
        /\ \A j \in 1 .. i-1 : results[j].id \notin Ids(r)
        /\ results' = SubSeq(results, 1, i-1) \o SubSeq(results, i+1, Len(results))
        /\ rpc' = IF results[i].kind = "error" THEN [rpc EXCEPT ![r] = "stopping"] ELSE rpc
        /\ answered' = IF results[i].kind = "final"
                       THEN [answered EXCEPT ![r] = @ \cup {results[i].id}] ELSE answered
    /\ UNCHANGED <<queueVars, sleepVars, cvWait, waiting, mainVars, slotVars>>

\* should_stop(): the client has disconnected
Disconnect(r) ==
    /\ rpc[r] = "receiving" /\ HasNext(r) /\ "disconnect" \in Faults
    /\ rpc' = [rpc EXCEPT ![r] = "stopping"]
    /\ UNCHANGED <<queueVars, sleepVars, cvWait, resultVars, answered, mainVars, slotVars>>

AllReceived(r) ==
    /\ rpc[r] = "receiving" /\ ~HasNext(r)
    /\ rpc' = [rpc EXCEPT ![r] = "stopping"]
    /\ UNCHANGED <<queueVars, sleepVars, cvWait, resultVars, answered, mainVars, slotVars>>

\* server_response_reader::stop(), first the waiting list
StopRemove(r) ==
    /\ rpc[r] = "stopping"
    /\ waiting' = waiting \ Ids(r)
    /\ rpc' = [rpc EXCEPT ![r] = IF HasNext(r) THEN "purging" ELSE "closed"]
    /\ UNCHANGED <<queueVars, sleepVars, cvWait, results, answered, mainVars, slotVars>>

\* mutated: the pending results are not purged
StopPurge_Not(r) ==
    /\ rpc[r] = "purging"
    /\ rpc' = [rpc EXCEPT ![r] = "cancelling"]
    /\ UNCHANGED <<queueVars, sleepVars, cvWait, resultVars, answered, mainVars, slotVars>>

\* then, if a task is unfinished, the pending results of each task.  None comes
\* any more, so that it does not matter what happens from one task to the next.
StopPurge(r) ==
    /\ rpc[r] = "purging"
    /\ results' = Without(results, [id : Ids(r), kind : {"partial", "final", "error"}])
    /\ rpc' = [rpc EXCEPT ![r] = "cancelling"]
    /\ UNCHANGED <<queueVars, sleepVars, cvWait, waiting, answered, mainVars, slotVars>>

\* and a CANCEL for each task goes to the front of the queue; post() drops the
\* tasks still pending.  The ids come from an unordered_set, in any order.
StopCancel(r) ==
    /\ rpc[r] = "cancelling"
    /\ \E f \in [1 .. Cardinality(Ids(r)) -> Ids(r)] :
        /\ Elems(f) = Ids(r)
        /\ queue' = [i \in DOMAIN f |-> CancelItem(f[i])] \o
                    Without(queue, {TaskItem(t) : t \in Ids(r)})
    /\ deferred' = Without(deferred, Ids(r))
    /\ cvWait' \in NotifyOne
    /\ rpc' = [rpc EXCEPT ![r] = "closed"]
    /\ UNCHANGED <<sleepVars, resultVars, answered, mainVars, slotVars>>

\* server_queue::terminate, from the signal handler's thread
Terminate ==
    /\ running /\ "terminate" \in Faults
    /\ running' = FALSE
    /\ cvWait' = {}
    /\ UNCHANGED <<queueVars, sleeping, reqStop, resultVars, readerVars, mainVars, slotVars>>

-----------------------------------------------------------------------------
Init ==
    /\ queue = << >> /\ deferred = << >>
    /\ running = TRUE /\ sleeping = FALSE /\ reqStop = FALSE
    /\ cvWait = {}
    /\ waiting = {} /\ results = << >>
    /\ rpc = [r \in Readers |-> "start"]
    /\ answered = [r \in Readers |-> {}]
    /\ mpc = "drain" /\ cur = NextItem /\ todo = {}
    /\ slots = [s \in Slots |-> IdleSlot]
    /\ userCount = [u \in Users |-> 0]

DecodeStep(s) == PromptDone(s) \/ SlotFinal(s) \/ EmptyPrompt(s) \/ SlotError(s)

MainStep ==
    \/ PopTask \/ ProcessSingleTask \/ ReleaseLaunched \/ Drained \/ ExitLoop
    \/ UpdateIdle \/ PostNextResponse
    \/ \E s \in Slots : KeepGoing(s) \/ DecodeStep(s)
    \/ AbortSlot \/ UpdateDone
    \/ WakeForTask \/ MainNotified

ReaderStep(r) ==
    \/ Arrive(r) \/ ReaderNotified(r) \/ AddWaiting(r) \/ PostTasks(r)
    \/ ReceiveResult(r) \/ AllReceived(r) \/ StopRemove(r) \/ StopPurge(r) \/ StopCancel(r)

Next ==
    \/ MainStep \/ StartAbort \/ GoToSleep \/ Terminate
    \/ \E r \in Readers : ReaderStep(r) \/ BadRequest(r) \/ Disconnect(r)

Spec == Init /\ [][Next]_vars

\* The threads are scheduled, and a completion is finite: n_predict, the
\* context size and the end-of-generation token bound it.
Fairness ==
    /\ WF_vars(MainStep)
    /\ \A s \in Slots : SF_vars(DecodeStep(s))
    /\ \A r \in Readers : WF_vars(ReaderStep(r))

FairSpec == Spec /\ Fairness

-----------------------------------------------------------------------------
(* Properties                                                              *)

\* Every variable holds a value the code could hold.
TypeOK ==
    /\ queue \in Seq(Items)
    /\ deferred \in Seq(Tasks)
    /\ running \in BOOLEAN /\ sleeping \in BOOLEAN /\ reqStop \in BOOLEAN
    /\ cvWait \subseteq Readers \cup {Main}
    /\ waiting \subseteq Tasks
    /\ results \in Seq(Results)
    /\ rpc \in [Readers -> {"start", "sleepwait", "parsing", "registered", "receiving",
                            "stopping", "purging", "cancelling", "closed"}]
    /\ answered \in [Readers -> SUBSET Tasks]
    /\ mpc \in {"drain", "process", "undo", "update", "decode", "abort", "idle", "asleep", "exited"}
    /\ cur \in Items
    /\ todo \subseteq Slots
    /\ slots \in [Slots -> SlotRecords]
    /\ userCount \in [Users -> Nat]

\* The places a posted task can be in: the queue, the deferred queue, the hands
\* of the main thread, or a slot.
Places(t) ==
    {<<"queue", i>> : i \in {j \in DOMAIN queue : queue[j] = TaskItem(t)}}
    \cup {<<"deferred", i>> : i \in {j \in DOMAIN deferred : deferred[j] = t}}
    \cup {<<"slot", s>> : s \in {x \in Slots : slots[x].task = t}}
    \cup (IF cur = TaskItem(t) THEN {<<"cur", 0>>} ELSE {})

\* A task is never in two places at once: deferring, popping, launching and
\* cancelling move it (pop_deferred_task, defer, launch_slot_with_task), so no
\* completion is computed twice.
OnePlace == \A t \in Tasks : Cardinality(Places(t)) <= 1

QueuedResults(t, kind) == {i \in DOMAIN results : results[i] = [id |-> t, kind |-> kind]}

ParentsOf(t) == {p \in Tasks : t \in Kids(p)}

\* While a client is connected, each of its tasks is answered, or pending, or
\* running, or has a result on its way, or some task of the request has failed:
\* no interleaving of posts, deferrals, releases and cancels loses a task.
NoTaskLost ==
    \A r \in Readers : rpc[r] = "receiving" =>
        \A t \in Ids(r) \ answered[r] :
            \/ Places(t) # {}
            \/ QueuedResults(t, "final") # {}
            \/ \E p \in ParentsOf(t) : \E pl \in Places(p) : pl[1] # "slot"
            \/ \E x \in Ids(r) : QueuedResults(x, "error") # {}

Unposted(t) ==
    \E r \in Readers : /\ t \in Ids(r)
                       /\ rpc[r] \in {"start", "sleepwait", "parsing", "registered"}

Pending(t) == \E pl \in Places(t) : pl[1] # "slot"

\* Where a task is in its life; a child waits with its parent, and a task in two
\* places is in no stage.
StageOf(t) ==
    IF ~ (Cardinality(Places(t)) <= 1) THEN "none"
    ELSE IF \E s \in Slots : slots[s].task = t THEN "running"
    ELSE IF Unposted(t) THEN "new"
    ELSE IF Pending(t) \/ \E p \in ParentsOf(t) : Pending(p) THEN "waiting"
    ELSE "over"

Requested == UNION {Ids(r) : r \in Readers}

Stages == INSTANCE TaskStages WITH
             Tasks <- Requested,
             KidsOf <- [t \in Tasks |-> Kids(t)],
             Limit <- Cardinality(Slots),
             stage <- [t \in Requested |-> StageOf(t)],
             received <- UNION {answered[r] : r \in Readers}

\* Posts, deferrals, cancels, releases and failures of many requests at once never
\* take a task back: each waits, runs once at most with its family, and is over
\* before its answer is received (start_loop, process_single_task, stop).
ImplementsTaskStages == Stages!Spec

\* A task gets one final result: the assertion "duplicate result received" of
\* wait_for_all, and received_count reaching id_tasks.size() means all arrived.
NoDuplicateFinal ==
    \A r \in Readers : \A t \in Ids(r) :
        /\ Cardinality(QueuedResults(t, "final")) <= 1
        /\ (t \in answered[r] \/ QueuedResults(t, "final") # {}) =>
             /\ Places(t) = {}
             /\ t \in answered[r] => QueuedResults(t, "final") = {}

\* A reader that is gone leaves neither a waiting id nor a result behind in
\* server_response, whenever its results were sent.
NothingLeftBehind ==
    \A r \in Readers : rpc[r] = "closed" =>
        /\ waiting \cap Ids(r) = {}
        /\ \A i \in DOMAIN results : results[i].id \notin Ids(r)

\* The model is unloaded only when no slot is using it: while a slot is busy
\* update_slots keeps a NEXT_RESPONSE in the queue, so that start_loop never
\* sees it empty.
AsleepMeansIdle == sleeping => Processing = {}

\* A child waits for its parent's prompt only while the parent runs, or while
\* its request is being torn down.
WaitingChildHasParent ==
    \A s \in Slots : slots[s].state = "wait_other" =>
        \/ \E x \in Slots : slots[x].state = "started" /\ slots[s].task \in Kids(slots[x].task)
        \/ \E r \in Readers : /\ slots[s].task \in Ids(r)
                              /\ \/ rpc[r] \in {"stopping", "purging", "cancelling", "closed"}
                                 \/ \E x \in Ids(r) : QueuedResults(x, "error") # {}

\* A user never holds more than --max-concurrent-per-user slots, whoever
\* finishes, leaves or fails meanwhile (get_available_slot counts them).
CapRespected ==
    UserCap > 0 =>
        \A u \in Users : Cardinality({s \in Slots : slots[s].user = u}) <= UserCap

\* user_counts_ is the number of in-flight slots of each user: it goes up when
\* a slot is taken and down in callback_on_release (user-isolation-design.md).
UserCountExact ==
    UserCap > 0 =>
        \A u \in Users : userCount[u] = Cardinality({s \in Processing : slots[s].user = u})

\* Every request that has posted its tasks is eventually answered or gives up,
\* though its tasks be deferred behind others (server_response_reader::next).
EveryRequestEnds ==
    \A r \in Readers : rpc[r] = "receiving" ~> rpc[r] = "closed"

\* A deferred task is processed later (server-context.cpp:2734, "if no slot is
\* available, we defer this task for processing later").
DeferredIsProcessed ==
    \A t \in Tasks : t \in Elems(deferred) ~> t \notin Elems(deferred)

\* The slots of a client that is gone are freed, children waiting for their
\* parent included, whenever the cancel overtakes the launch (stop, CANCEL).
SlotsAreFreed ==
    \A r \in Readers : \A s \in Slots :
        (rpc[r] = "closed" /\ slots[s].task \in Ids(r)) ~> (slots[s].task \notin Ids(r) \/ ~running)

=============================================================================
