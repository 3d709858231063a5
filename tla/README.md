# Verification of the local LLM server

This directory holds TLA+ models of the parts of the repository that are
concurrent, persistent, or both, the TLC runs that check them on small
instances, and TLAPS proofs of what matters most. The repository packages
CachyLLama, a fork of llama.cpp, with launch scripts and a web page for choosing
a model. The fork's own logic is in its server (`tools/server`), in its
SSD-backed KV cache (`common/kv-ssd-cache.cpp`) and in the setup server of the
launchers (`src/scripts/model_setup_server.py`). Paths below are relative to
`src/llama/CachyLLama` unless they start with `src/`.

    tlc -workers 2 -config queue_family.cfg MCServerQueue      # a run
    tlc -workers 2 -config router_join.cfg MCRouter            # a counterexample
    tlapm KvSsdProofs.tla                                      # proofs

`PROJECT.json` lists the runs, the mutants that break each property, the lines
each definition models, the hazards and the theorems. Ten more configurations,
which it does not list, are counterexamples kept beside the runs: each checks one
thing that the code, a comment or a document suggests and that TLC refutes. They
are named in the section of their module.

## 1. The system

| Part | State it keeps | Operations | What is hard | Here |
| --- | --- | --- | --- | --- |
| Request path: `server-queue.*`, the task half of `server-context.cpp` | queues of pending and deferred tasks, results, slots, per-user counts, sleep flags | post, defer, pop, launch, cancel, release, decode step, send, receive, stop, sleep, wake | HTTP threads and the main thread meet under two mutexes that are never held together; parents and children; cancels that overtake posts | `ServerQueue`, `TaskStages` |
| SSD KV cache: `common/kv-ssd-cache.*` | index, hot and warm maps, byte counters, next id; `ckpt-<id>.bin` and `index.bin` | store, load, end of turn, restart | failed writes, crashes between two files, three tiers that must agree with each other and with the disk | `KvSsdCache`, `CheckpointStore` |
| Resumable streams: `server-stream.*`, the stream half of `server-http.cpp` | map of sessions, a ring buffer each, stop hook, readers' offsets | attach, mirror, drain, replay, cancel, collect, shut down | five kinds of threads on one session; cancel against teardown; a ring that drops what a reader still wants | `StreamSession` |
| Page manager: `server-context-page-manager.*`, `server-context-ssd-cache.*`, the SSD part of `server-context.cpp` | caches of conversations and users, what each slot believes is in the model's memory | find and load for an empty slot, final checkpoint, end of turn, evict a conversation, restart | a restored state, a count of tokens and a slot that must agree; directories deleted under requests that use them | `PageManager`, `PlainSlots` |
| Router: `server-models.*` | instances, their status, models being stopped | load, unload, LRU, download, remove, reload, status from children, shutdown | check and act in separate critical sections; two threads per child; processes that end by themselves; joins under a lock | `Router`, `ModelHost` |
| Model setup server: `src/scripts/model_setup_server.py` | status, cancel event, files and partial files, selection | start, cancel, download, resume, select, restart | HTTP thread against worker thread; connections and processes that end early | `ModelSetup` |
| System prompt cache: `common/kv-ssd-system-cache.*` | index and files shared by conversations | store, load, trim | as the KV cache | section 10 |
| Others | | | | not modelled: section 10 |

How they meet. An HTTP handler creates a `server_response_reader`, posts tasks
to `server_queue` and waits in `server_response`; the main thread takes tasks,
binds them to slots, decodes and answers. A streamed answer is pulled by
cpp-httplib from the handler's `next()`, which receives results from the queue;
when the request names a conversation, each chunk goes through a
`stream_session` first. When a slot finishes a turn, the context tells the page
manager, which stores the slot's state in the KV cache of its conversation and
lets the caches age; when a slot starts on a prompt, the page manager looks
for a checkpoint to restore. A router is the same program without a model: it
starts one such server per model as a child process, talks to it through its
standard input and output, and forwards requests to it by HTTP. The setup server
runs before any of them and hands over the name of a model file.

The modules meet in what they promise each other. `PageManager` treats a directory
as a set of checkpoints that are there until they are deleted, which is what
`CheckpointStore` says and `CacheImplementsStore` proves of `KvSsdCache`; it takes
requests one step at a time on one thread, which is how `ServerQueue` runs them.
`Router` knows a child by what it reports, whatever the child does inside.

## 2. `ServerQueue`: the request path

A reader is one HTTP request. Its handler is at `rpc[r]`: it wakes a sleeping
server (`wait_until_no_sleep`), registers its task ids, posts its tasks,
receives results, and finally stops in three steps: it leaves the waiting list
(`StopRemove`), purges its results (`StopPurge`) and posts its cancels
(`StopCancel`). The main thread is at `mpc`: `drain` (the inner loop of
`start_loop`), `process` (`process_single_task`), `undo` (the release of the slots
of a family that is refused after some of it was launched), `update`, `decode` and
`abort` (parts of `update_slots`), `idle`, `asleep`, `exited`. One action is one
critical section of `mutex_tasks` or of `mutex_results`, or one step of the main
thread between two of them, so the places where another thread can run are exactly
the code's. Condition variables are sets of waiting
threads: `notify_one` removes any one of them, the main thread or a client, as
both wait on `condition_tasks`.

Abstracted: tokens, prompts and texts. A task sends at most one partial result,
after its prompt; the further ones do not change what the queues do. A
completion may end at any decoding step. `Info` gives the fields the code
reads: kind, requested slot, user, children.

Faults, chosen by each configuration: a refused request, a prompt of the command
line that cannot be tokenized, a family refused before, between or after the
launches of its children, a slot action that is refused or finds no file, an empty
prompt, a failed decode, a client that goes away, `terminate()`.

| Run | Instance | Shows |
| --- | --- | --- |
| `queue_family` | 2 slots; a parent with a child, and a slot action; every fault but an empty prompt and `terminate()` | `NoTaskLost`, `NoDuplicateFinal`, `NothingLeftBehind`, `WaitingChildHasParent`, that `ServerQueue` implements `TaskStages`, and `SlotsAreFreed` under fairness |
| `queue_sleep` | 3 requests, 2 of one user with a cap of 1, and a metrics query; sleep, disconnect, decode, empty, terminate | `TypeOK`, `AsleepMeansIdle`, `CapRespected` |
| `queue_live` | parent and child against a request of two prompts, 2 slots, no faults | `EveryRequestEnds` |

`TaskStages` is what the request path promises of its tasks, without queues, threads,
cancels or failures: a task is new, waits, runs and is over, or is over without having
run, and never goes back; a parent and its children are posted, started and withdrawn
together and end one by one, unless one of the family is refused: then some of the
children have started and the rest are over (`StartInPart`); no more run at a time
than there are slots; the final result of a task is received once, after it is over.
`ImplementsTaskStages` is the
refinement. `StageOf(t)` reads the stage off the state: a task in a slot runs; one
whose handler has not posted it is new; one in the queue, the deferred queue or the
main thread's hands waits, and its children with it; any other is over. A task in two
places is in no stage, so that the refinement implies `OnePlace`. Deferring, popping
and the task that a release brings back are stutters. What `TaskStages` does not
say, that every task is over in the end, is `EveryRequestEnds`.

Two slots and three or four tasks are enough to have a task deferred for want of
a slot, a parent whose child needs the second slot, a cancel for a task in each
place a task can be in, and two clients on one condition variable. Slots are
identical but for their number, and a third one adds none of these cases.

Fairness: the main thread and each handler run (weak fairness; the OS schedules
them and no lock is held while waiting), and a slot that generates finishes
(strong fairness of `DecodeStep(s)`: `n_predict`, the context size and the
end-of-generation token bound a completion, while other steps of the main
thread come in between).

Where the code does something else than it says (counterexamples, module
`MCServerQueue`):

- `find_user_count`: `release()` resets the slot before the callback reads its
  user, so `user_counts_` never goes down and a user who has once been at the
  cap waits for ever (`server-context.cpp:510`).
- `find_deferred_stuck`: one deferred task is popped per released slot; a slot
  action uses the slot and releases nothing, so the chain of pops ends
  (`server-queue.cpp:77`).
- `find_empty_parent`: a parent whose prompt is empty is released before the
  step that activates its children (`server-context.cpp:3607`).

Seen while modelling, without a run of their own:

- A task posted to a sleeping server does not wake it (`server-queue.cpp:184`
  waits for `req_stop_sleeping` only), although `tools/server/README.md:2084`
  says that any incoming task does. TLC finds it: check `EveryRequestEnds` with
  one plain request and `SleepEnabled = TRUE`. Handlers wake the server first,
  but it may fall asleep again before they post, and a client that waits for
  the wake-up never repeats its request for one.
- `notify_one` under the comment "only main thread is waiting on this"
  (`server-queue.cpp:110`) may wake a client instead.
- A cancel that is processed while its task is in the main thread's hands finds
  it nowhere; if the task is then deferred it is run for a client that is gone.
- When a family is refused, its request ends on the error of the task that was
  refused, and the cancels of `stop()` would free a child that was launched and not
  released; so a missing release in `launch_slots_with_parent_task` would break none
  of the properties.
- The check of the number of pending tasks that would answer 429 is never
  reached (`server-context.cpp:4736`).

## 3. `KvSsdCache`: checkpoints on SSD

The cache of one conversation. `cache` is the `kv_ssd_cache` object: index, hot
and warm maps, byte counters, next id, compatibility hash. `files` is the
directory: for every `ckpt-<id>.bin` its header, and whether the blob is all
there. `diskNext` is `index.bin`, 0 when unreadable. One action is one call,
which the cache's mutex makes atomic; a crash can cut a store at the points
where the disk differs. The demotion loops are expressed by the set of victims
they can take (`LruVictims`): least recently used first, ties in any order, as
`last_access` is a clock with milliseconds and the index is a hash map.

| Run | Instance | Shows |
| --- | --- | --- |
| `kv_cache` | blobs of sizes 1 and 2, hot budget 3, warm 2, ring of 1, two models, 3 ids, 3 turns, 2 clock values; failed writes, crashes, torn files | `TypeOK`, `TiersAgree`, `BytesExact`, `HotBounded`, `MatchesDisk`, `ImplementsStore` |
| `kv_faults` | hot budget 2, a lost or stale `index.bin`, 2 ids and 2 turns | `LoadAnswersFile`, `ImplementsStore` |

`MaxId`, `MaxTurn` and `MaxClock` bound the runs and nothing else: stores, turns
(end of turn and restart) and distinct clock readings. With three checkpoints
of two sizes each budget is exceeded by one of them, by two, and met exactly;
the ring of 1 evicts; two clock values give both ties and strict orders.

`CheckpointStore` is what the cache promises its user: what is put stays until
it expires, and a get answers it, to the model that put it. `ImplementsStore`
is the refinement `Promise == INSTANCE CheckpointStore WITH stored <- ...`: the
abstract store holds the ids that have a file, with nothing to answer where the
file is not whole, so tiers, counters and restarts are invisible.

The promise has a limit, which the store states. `exposed` are the ids that may be
given to another checkpoint, and an exposed entry may be replaced or lost: here, the
files from the id on with which a restart would go on (`Resume`). A store that is
cut short exposes its own entry, which answers nothing. A store after which
`index.bin` is not written exposes its checkpoint, or all of them when the file was
truncated: the restart takes `next_id` from the index although it scans the files,
and the next store truncates the file of that id (`kv-ssd-cache.cpp:687`). The
constant `Reliable` says that `index.bin` is always written; then no whole
checkpoint is ever exposed, and none is lost before it expires. `kv_cache` checks
the first case and `kv_faults` the second. What the second means for a user is
counterexample `kv_power_cycle` (module `MCKvSsdCache`, against
`SurvivesPowerCycles`): a process that dies between the two writes loses a
checkpoint that the repository's README says survives power cycles.

Seen while modelling: `turn_id` is documented as the last turn that accessed the
checkpoint (`kv-ssd-cache.h:48`) and is never updated by a load, so one that is
used at every turn sinks and is evicted like any other; `make_room_hot` brings
the hot tier back to its budget but makes no room for the blob that comes, so
the budget can be exceeded by one blob (that is `HotBounded`); the warm budget
can be exceeded by a demotion; `kv_ssd_free`, which would write the index at
exit, is never called; `hot_window_tokens` and `slot_latest` are not used; the
directory entry of a new file is not synced, which is not modelled. A model
whose description fails has hash 0 and skips the compatibility check; that is
not modelled either.

## 4. `StreamSession`: resumable streams

A session is named by the request that created it. `worker[p]` is the HTTP
worker that serves completion `p`: `new`, `attach` (listed, hook not set),
`ask` and `receive` (the two halves of `next()`: it looks at `should_stop`, then
waits for a result), `write` (mirrored, not yet on the socket), `complete`
(`on_complete`), then again `ask`, draining, or `cleanup`, `free`, `ended`.
`killer[t]` is a thread that took a session out of the map and cancels it: the
worker of a newer completion, or one that serves a DELETE. Readers take one
round of `read_from` per step. `made[p]` is all that `next()` returned, against
which `ReplayIsContiguous` compares what readers got.

| Run | Instance | Shows |
| --- | --- | --- |
| `stream` | 2 completions of one conversation, a reader, a DELETE thread; ring of 2 bytes; up to 3 bytes and the end marker, chunks of 1 or 2 | `TypeOK`, `ReplayIsContiguous`, `DoneReaderHasAll`, `OnlyStopCutsShort`, `NoOrphan` |
| `stream_live` | the same with 1 byte and no DELETE | `CancelledEnds`, `StoppedReadersEnd` |

Three bytes and an end marker in a ring of two overflow it by a part and by a
whole chunk. A conversation is independent of every other one; two completions
and a DELETE give each pair of threads that can meet on a session, as one that
is unlisted has one canceller only. Readers do not write to the session.

Fairness: the threads run. The generation has none (a model may be silent for
ever), and neither have DELETEs, the collector, the shutdown and peers that
leave; so `CancelledEnds` rests on the flag and the polling of `should_stop`
alone, which is what the comment in `cancel()` claims. `wait_for` wakes a
reader every 200 ms, so that a notification sent without the mutex
(`finalize`) cannot be lost for good.

Counterexample `stream_cleanup` (module `MCStreamSession`, against
`NoStopAfterCleanup`): the hook tests `alive` and then calls `stop()`, with nothing
between the two that keeps the worker from running `cleanup()` and freeing the
response, although `server-stream.h:112` and `tools/server/README-dev.md:135`
say it cannot happen.

Seen while modelling:

- A reader that the ring laps gets `OFFSET_LOST`, which the GET handler drops: its
  stream ends as if the generation were over, while `server-stream.cpp:414` says
  it returns when the session is finalized.
- When the socket fails on the last chunk, `done()` is not called; the drain asks
  `next()` again, which says `[DONE]` again, and the ring holds it twice.
- Between the exchange in the map and `finalize()`, two sessions of a conversation
  are alive for a moment; `NoOrphan` is what is true instead.
- `stop_gc()` runs before the HTTP server stops, so a session may be created after
  it; it is finalized by its own worker only.

## 5. `PageManager`: conversations, users and slots

Everything here runs on the main loop, so a step is what one iteration does for
one slot: `Launch` (a task is bound to it), `WarmStart` or `ColdStart` (the first
iteration: what is in the slot is kept, or a checkpoint is looked for),
`ProcessBatch`, `FinishPrompt` (the last batch, with the final checkpoint),
`Generate`, `Release`. Between two steps of a slot the other slots may take theirs,
a decode may fail, and the process may end and start again on the same
directories.

A prompt is a sequence of tokens. `claim[s]` is `slot.prompt.tokens`, what slot `s`
believes is in its part of the model's memory; `memory[s]` is what is there. A
checkpoint copies `memory`, keeps the first tokens of the prompt to be compared,
and a count of tokens; a restore writes `memory` and computes `claim` from the
count. The two are separate variables because nothing in the code keeps them
equal; a slot where they differ is spoilt. `dirs` holds the directories, `loaded`
the caches in RAM; a directory is deleted when its cache is evicted.

The code does not keep slots from being spoilt (below), so the properties say how
far this goes, for any mix of clients and prompts. `SpoiltByRestore`: memory and
claim part in a cold start only, whose checkpoint holds other tokens than the task
or, for an anonymous request, was made on another slot; and then only the slot that
asked and the one the state went to are spoilt. `DiskIsUsed`: a cold start whose
directory holds a checkpoint of a beginning of its prompt starts from a checkpoint.
`AnswersUnlessSpoilt`, `StoresUnlessSpoilt` and `AbortsIfSpoilt`, which are proved, say
that a slot that is not spoilt answers its prompt, stores true checkpoints and does
not abort.

`PlainSlots` is what the slots promise their clients, without directories: a slot may
skip a beginning of the prompt it is sent (the README of the server, under
`cache_prompt`) and answers after all of it and nothing else; a restore on an empty
slot may spoil that slot and one other, nothing else spoils any, and what empties a
slot heals it. `ImplementsPlainSlots` is the refinement, with `context <- claim` and
`spoilt <- {s : memory[s] # claim[s]}`: stores, lookups, evictions and turns are
invisible, a cold start is a `Begin` like a warm one, a failed decode and a restart are
a `Lose`.

Abstracted: a directory is a set (tiers and files are `KvSsdCache`'s); a load that
fails is a miss; which of two equally good checkpoints wins, the oldest directory,
whether the checkpoint before the final one is too close and whether a store is
written are free choices. Left out: hybrid and recurrent models, for which
checkpoints are also made in the middle of a prompt, the prompt cache in RAM (its
effect, an emptied slot, is `ClearSlot`), `checkpoints_` and the load by id, which
nothing reads; requests with `cache_prompt` off, which keep nothing
(`server-context.cpp:3732-3735`), the shifting of chunks (`n_cache_reuse`, 3668-3731, off
by default), and the reset of a slot whose memory has lost tokens to a sliding
window (3795-3836), which full attention does not meet.

| Run | Instance | Shows |
| --- | --- | --- |
| `pages` | 2 slots; an anonymous client and a user on both; two prompts that differ in one token in the middle and in length; 1 cache of each kind; 2 checkpoints per directory; 2 turns | `TypeOK`, `SpoiltByRestore`, `DiskIsUsed`, and that `PageManager` implements `PlainSlots` |
| `pages_branch` | one slot; two prompts with the same first tokens, then different ones | violates `AnswersThePrompt` |

The code's constants are scaled together: prompts of 3 and 4 tokens, a hash of 3
tokens (1024; 2 in `pages_branch`, where the prompts share that many), 1 token withheld
from the final checkpoint (4), a final checkpoint from 2 tokens on (64), comparisons of
2 tokens at least (16), prefixes of 4 (4096). `LimitsAssumption` says how these limits
stand to each other in the code: 16 <= 64 <= 1024, and 1024 is less than 9 tenths of
4096. The first prompt is `<<1, 2, 3>>`, the second `<<1, 2, 4, 3>>`: a conversation as a chat
template writes it, the later prompt repeating the earlier but for the last token,
which is the one withheld. In this order the checkpoint of one begins the other; in the
opposite order it is of other tokens, fits all the same, and spoils the slot. So a
lookup finds a true checkpoint, a false one and none, also in the directory of another
hash; with one cache of each kind every new conversation evicts; and a checkpoint of
one slot is restored on the other, for the user where it belongs, for the anonymous
client where it came from, which may abort the server. Slots are symmetric. `MaxTurn`
and `MaxPerDir` bound the number of requests and of checkpoints.

How slots are spoilt, on the two paths that the code has: a lookup
accepts a checkpoint with one token in common, the restored count is taken as it
is (`server-context.cpp:3523`), and for a model with full attention nothing compares
the rest, so that the slot generates from the other conversation's state
(`pages_branch`). And in counterexample `pages_slots` (module `MCPageManager`, against
`NeverAborts`), `page-manager.cpp:545` leaves out `dest_seq_id`: an anonymous checkpoint is
restored into the slot that stored it, while the slot that asked believes it has the
tokens and runs into the `GGML_ABORT` that says "should not happen". `Restart` starts
the server again after it.

Seen while modelling: turns go on from the largest turn found in the directories
of conversations, not of users (`kv_ssd_get_max_turn_id_global` skips `u/`), so after a
restart an old checkpoint of a user may win a tie; the end of a turn and the model's
hash reach the caches of conversations only (`page-manager.cpp:348`); `max_conversations`
counts caches in RAM, not directories; a lookup that finds nothing has created a
cache, which may have evicted another conversation; a load by id asks the caches in
the order of a hash map (`:272`), and ids are unique in one cache only.

## 6. `Router`: models in child processes

An HTTP thread of the router is at `client[c].pc`, the place in `server_models` where it
stands; what it knows (the model asked for, the LRU victim, what a reload has read)
is in the same record, because it may be stale when it is used. An instance has a
managing thread (`th`: reading the child's output, seeing its end, releasing
`stopping_models`, over), a stopping thread (`stop`), and the child (`proc`), whose
messages wait in `pipe`. One action is one critical section of `server_models::mutex`;
where a thread is joined while the mutex is held, `lock` says by whom, and every
other action waits. Waits on the condition variable are guards.

Assumed or abstracted: models are loaded on demand (`autoload`); the two lookups of
a chat request are one; any model that runs may be the least recently used; ports,
presets and the requests that are forwarded are left out. One bound, `MaySpawn`: a
name whose former thread is being joined elsewhere is not started before that
thread is over.

| Run | Instance | Shows |
| --- | --- | --- |
| `router` | 2 models, a limit of 1, 2 clients that chat and unload, children that sleep, wake, crash, refuse to exit; shutdown | `TypeOK`, `StatusIsTrue`, that `Router` implements `ModelHost`, and under fairness `StopIsObeyed`, `ShutdownEnds` |
| `router_files` | 1 name, 2 clients that load, chat, unload, download, remove and reload | `NoThreadLost`, `ReloadHasOwner` |

Two clients and a limit of one make every pair of a count and a load meet, and the
victim of one be the wish of the other. One name is enough for the files: threads,
entries and joins are per name, and two clients give each pair of operations on it.
`router_files` does not check for deadlock, as the system really may stop: an HTTP
thread that holds the mutex joins a managing thread that needs it
(counterexample `router_join`, module `MCRouter`, against `JoinIsSafe`, which is what the
comment at `server-models.cpp:1203` says), and two reloads at once may run into
`GGML_ASSERT(!th.joinable())` (`:559`): the second erases an entry that a client
began to load again after the first (counterexample `router_assert`, module
`MCRouter`, against `AssertionHolds`, which is the comment on that line). No thread
of the router takes a step after it (`RouterRuns`); its children may.

`ModelHost` is what the router promises of its models, without threads, requests and
stops: a model is off, or one process serves it, of which there are `models_max` at
most; the list says of it what the process reported, in that order; and it is off
again only when the process has ended and nothing of what it said is unheard, and
not before may the next one start. `ImplementsModelHost` is the refinement. The
process of a model is `inst[m].proc` while a managing thread looks after it
(`Managed`), the report in its pipe is what is not heard yet, and the list says
"off" of any model that does not run. A spawn is a start, whether or not the
thread of an earlier instance was joined first; a kill by an unload, by a load that
replaces an instance or by the stop timeout is an end, like a crash; what the managing
thread reads is heard; its last update tells that the model is off. Whatever else
requests, stops, removals, downloads and reloads do is a stutter. The limit is part
of it, so the run does not check `LimitRespected`, which is proved by itself too.

Fairness: the managing and the stopping thread run, a download reports some day,
and the shutdown's joins return when the threads are over. Nothing is assumed of a
child that serves a model: `StopIsObeyed` rests on the timeout after which it is killed.

Seen while modelling: a stop that is requested after the managing thread has taken
its model out of `stopping_models` stops the next instance of that name at birth;
`unload_lru` waits for a status that another request may have replaced before it
looks, and `mapping[...]` in that wait and in `proxy_request` makes entries for names
that are gone; a download that crashes leaves its entry in `DOWNLOADING`, for which an
unload or a remove waits for ever (`:1008`); a reload that stops a model which is
downloaded anew waits for the download; `unload_all` does not cancel downloads.

## 7. `ModelSetup`: downloading a model

`worker[t]` is `install()` on a thread: at which file of the recommendation, where in
it, and what the server still has to send. A file is a number of chunks; `disk` and
`partial` are the lengths of the file and of its `.downloading` part. `cancel()` is
three steps, as it takes no lock between looking at the status, setting the event
and changing the status. The repository lists a set of shards in order, or only
some of them (`Listings`): those are downloaded, and whether the set is complete is
judged from the directory, which may hold the others from an earlier download
(`Complete`). The server answers a range with 206 or 200, may hide sizes, and may
end a connection at any point; the write of the selection may fail, before or after
the file was emptied; the process may end at any point, and another one goes on from
the files.

One process runs at a time. A second setup server would find another port
(`free_port`, `model_setup_server.py:591-600`) and use the same directory, where
nothing keeps the two from appending to one `.downloading` file; the status, the
event and the lock are of one process, and so are all properties here.

| Run | Instance | Shows |
| --- | --- | --- |
| `setup` | a model of two shards, of 2 chunks and of 1, and one of a single file of 2; 2 threads, 2 requests to cancel | `TypeOK`, `OneWorker`, `SelectionIsInstalled`, and under fairness `DownloadEnds` |

Two threads are one more than should ever be busy; two cancels let one overtake
the other; two chunks give an empty, a partial and a whole file. Fairness: a socket
that is silent for 45 s raises an exception (`download_file`), so a thread that
downloads goes on, and so does a request to cancel that was read. No fairness is
given to starts, to cancels that have not begun, or to restarts.

Two counterexamples (module `MCModelSetup`):

- `setup_cancel`, against `CancelEnds`: `cancel()` looks at the status, and the download
  ends before it writes it. The status then says `canceling` and not active, no
  thread will change it, and the page waits for an outcome, which `src/README.md:105`
  says there is.
- `setup_whole`, against `ReadyIsWhole`: `read()` returns no bytes at the end of the
  file and when the peer closes early alike, so that a truncated file is renamed to
  its final name and the model is reported ready.

Seen while modelling: a cancel aimed at one download may set the event after the
next has cleared it, and stop that one; a cancel after the last chunk leaves a
`.downloading` file that is whole, for which a resume gets 416; a file whose size the
server does not tell is taken as it is, however short.

## 8. Proofs

Eight modules, checked from nothing by `tlapm` in some twelve minutes. They assume
the named `ConstantsAssumption` of their modules; for the request path `IdsAreUnique`
(`get_new_id` gives an id to one task of one request, or to one child of one
parent); and for the cache, in all theorems but `LoadsAreFaithful` and
`CacheImplementsStore`, `NoIndexFault == "index" \notin Faults`, whose absence
`kv_power_cycle` shows.

`ServerQueueProofs`, for every set of requests, tasks, slots and users:

- `TypeCorrect`: `Spec => []TypeOK`. Its leaves are lemmas on the sequence
  operators: `Without` (written as a recursive function, so that its properties
  need an argument by least counterexample, lemmas `LeastNat` to
  `WithoutElems`), removal at an index, concatenation.
- `AsleepIsIdle`: `[]AsleepMeansIdle`. Not inductive: that no slot is busy when the
  main thread falls asleep follows from where the main thread has been. The
  strengthening (`SleepInv`) says that from the end of `update_slots` until
  `start_loop` finds its queue empty, a `NEXT_RESPONSE` is queued if a slot is
  busy (`LoopContinues`), and that the main thread of a sleeping server is blocked
  or leaving (`AsleepIsBlocked`). Posts, cancels and the pop of a deferred task
  keep `NEXT_RESPONSE` items, which is where `WithoutElems` is used.
- `CapIsRespected`: `[]CapRespected`. The counter is wrong (`find_user_count`), but
  wrong on the safe side: the strengthening is that a user's slots are at most
  the user's count, and the cap is compared with the count.

`ServerQueueTaskProofs`, the other five invariants of `ServerQueue`, again for every set
of requests, tasks, slots and users:

- `TaskInv` follows a task from its post to its answer. `TasksAgree`: it is in one
  place and there once, it is in none once its final result is sent, and its
  children are nowhere before it is launched. `ResultsInOrder`: nothing is sent for
  a task after its final result. `ReaderAgrees`: where a handler is tells whether its
  tasks can be somewhere, are in the waiting list, have results or are cancelled.
  `Accounted`: the tasks of a handler that waits are answered, somewhere or failed.
  `MainAgrees`: the main thread holds a task only while it processes it, and a slot
  has a task exactly while it is busy. `RefusedInv`: the children that a refused family
  has still to release wait in their slots, and their request has an error on its
  way. None of these is inductive alone: that no result is sent for a task after its
  last one (`ResultsInOrder`) needs that it has no place then, which needs that a
  child cannot be launched twice, and so on.
- A step is described by what it does to hands and slots (`HandStep`, `SlotStep`: which
  tasks leave their place), to the results (`MaySend`: only of a task that has a place,
  or of a child of the task in hand) and to what it answers for (`Answers`);
  `StepKept` shows that a step so described keeps `TaskInv`. Launches, posts, receives
  and cancels, which also change the handler or bring tasks in, have a lemma each.
- `TaskHasOnePlace`, `TaskIsNeverLost`, `TaskIsAnsweredOnce`, `HandlerLeavesNothing` follow.
- `RequestsImplementStages`: `Spec => ImplementsTaskStages`, with no assumption on the
  faults. `StageView` puts the stages in terms of `InHand` and `InSlot`, and then a step
  is what it does to hands and slots again: one that takes families out of hand is a
  `Withdraw` of those it takes, of none at all if it only moves them (`Withdrawn`); one
  that releases a slot is a `Finish` (`Ended`); a launch is a `Start`, or a `StartInPart` if
  one of the family is refused (`LaunchedStarts`, where those launched fit into the
  slots because each of them then has one). That
  a received task is over comes from `TasksAgree`, that it is new to its client from
  `ResultsInOrder`.
- `ChildHasParent` assumes `"empty" \notin Faults`, as the run `queue_family` does and
  `find_empty_parent` shows to be necessary. `ChildInv` names the parent and the
  request of each child that waits.

`KvSsdProofs`, for every set of blobs, sizes, budgets and models and any number
of ids, turns and crashes:

- `Invariant`: the inductive invariant `Inv`, a conjunction of `DiskInv` (every file
  below the id to resume from is whole; only that id may have a torn one) and
  `CacheInv` (`Shape`, `Placed`: tiers and maps agree; `Copies`: RAM equals the
  file; `Describes`: the index equals the header). `TiersAgree` alone is not
  inductive: a load moves an entry through states in which its tier and its map
  differ on purpose, so `Placed(c, E)` names the exceptions `E`, and each demotion
  lemma says what it does to them. `MatchesDisk` needs `DiskInv`, since a store
  that reuses an id must find no whole file there.
- `TiersAlwaysAgree`, `RamMatchesDisk`: the two properties of the run.
- `CacheImplementsStore`: `Spec => ImplementsStore`, with no assumption on the faults.
  A store is a `Save`, a `SaveUnindexed` if the index was not written, a `CutShort` if the
  process died in the middle; one that fails is a `Lose` of the entry under its id, if
  there is one; a load is a `Get`, the end of a turn an `Expire`, and a restart a stutter,
  which is where it matters that `exposed` depends on `index.bin` only. It rests on
  `KnownInv`: the invariant `Fresh` of the next theorem, and that no store takes an id
  below the one with which a restart would go on, so that what it takes is free
  or exposed; where the index is reliable, also on `Inv`, by which a load of an id
  that has no file answers nothing.
- `LoadsAreFaithful`: the action property `LoadAnswersFile`, with no assumption on the
  faults: it holds when `index.bin` is not written, is stale, and an id is given a
  second time. `Inv` does not hold then, and is more than is needed. The invariant
  here is `Fresh`: of an id that has a file, the hot copy is that file's, the warm
  copy too unless a hot one hides it, and the index names that file's model. The
  exception is what makes it inductive: a store under an old id leaves the old
  warm copy where it is, and `kv_ssd_load` never looks at it while the id is hot,
  and demoting the hot copy overwrites it.

`KvSsdBytesProofs`, on the same instance of everything:

- Both counters are sums over a set, which the library computes with a fold. A fold
  is a recursive function on the subsets of the set; that it has a value, and that
  taking an element out subtracts its size, is shown by looking at a smallest
  subset where it would not (`SmallestSubset`, `SumExists`, `BytesLess`, `BytesSplit`).
- `ByteInvariant`: `Inv` with `Sound(cache)`, which is `Counted` (the counters are the
  sums), `Recorded` (types of the index) and `Bounded` (the hot tier exceeds its budget by
  one checkpoint at most), and with the types of turns, clocks and answers. Each part
  of an operation has a lemma that says what it does to the two sums; a promotion
  that demotes the entry it promotes is the one in which a sum is off in between.
- `CountersAreExact`, `HotTierIsBounded` and `TypeCorrect` follow. In the last, that the
  counters are natural numbers says that the code's unsigned subtractions never wrap.

`PageManagerProofs`, for any slots, users, prompts and limits:

- `TypeCorrect`: `Spec => []TypeOK`, from `TypeInv`, which adds that a turn ends once for
  each slot that works, so that turns stay below the bound and those on disk below
  the next one, and that directories are finite, which lookups need.
- `PagesInvariant`: `PagesInv` says that a checkpoint was counted for some prompt, in the
  directory of that prompt or of a user (`MadeFor`, which says nothing of its state), that
  a slot at work claims a beginning of its prompt, or all of it (`AtWork`), and that a
  server that aborted has a slot that is spoilt. It holds for any clients and prompts,
  since claims are computed from the task and not from what is restored.
- `UnspoiltAnswer` and `UnspoiltDoNotAbort` follow; `UnspoiltStore` because the rest of a
  prompt completes its beginning (`RestCompletes`).
- `OnlyRestoresSpoil`: the action property `SpoiltByRestore`. `ColdSpoils` has the case of a
  checkpoint that is taken for what it is, where claim and state are cut at the same
  token; `WorkSpoilsNone` says that what is computed goes to both sides, and that
  sequences which end alike are the same only if they begin alike (`SameBeginning`).
- `SlotsKeepPromise`: `Spec => ImplementsPlainSlots`. From `PagesInv` before and after a
  step and the lemmas on who is spoilt, what is left to show is that a batch
  extends what was claimed, and that a free slot asks for nothing (`FreeAskNothing`),
  so that clearing it is a `Lose`.
- `CheckpointsAreUsed`: the action property `DiskIsUsed`. Some checkpoint wins a lookup
  because three numbers order a finite set (`FirstExists`); the one that wins leaves a
  token at least (`FoundIsRestored`). When `kv_ssd_find_continuation` prefers another
  directory, it must hold a checkpoint that fits too (`ContinuedFits`): a longer
  one scores less than 1.0, and the prompt's own scores 1.0 unless it is longer than
  the prefix that is compared; then a longer one of another hash has at most 1024
  tokens in common, which is less than 9 tenths of its count. This is where
  `LimitsAssumption` is used.

`RouterProofs`, for any names, HTTP threads and limit:

- `Inv` adds to `TypeOK` four facts. `ListAgrees`: for each model, what its status, its
  threads, its child and the pipe between them say of each other (`Agrees`); it has to
  speak of the pipe, since the status follows what is read from it, and of who
  may join the managing thread, since an entry may only be erased when nobody can.
  `WithinLimit`: the list runs no more models than the limit. `CountHolds`: a load that
  joins an old thread with the mutex held will still be within the limit when it
  goes on. `ShutdownIsAlone`: no HTTP thread is left when the shutdown begins.
  `RequestStep` and `InstanceStep` say once what a step of either kind must do; the
  lemma of each action shows that it does.
- `TypeCorrect`, `ListIsTrue` and `LimitIsRespected` follow. For the last, `LimitRespected`
  speaks of processes and `WithinLimit` of the list: `ListAgrees` is what connects them.
- `ThreadsAreOwned` and `ReloadsAreOwned`: `NoThreadLost` and `ReloadHasOwner` are inductive
  given `Inv`. In the first, the steps that matter are those that take a
  thread out of the list: each has joined it, collects it to be joined, or stops
  at the assertion.
- `RouterImplementsHost`: `Spec => ImplementsModelHost`. `Looks(m)` is what is seen of one
  model. A step that changes it for one model only is a step of the host
  (`EndSeen`, `ReportSeen`, `HearSeen`, `TellSeen`, `StartSeen`), and each action of the
  router changes it for one at most (`ChildLooks`, `ManagerLooks`, `ClientLooks` and so on).
  It rests on `Inv`: only what runs is managed (`ManagedRuns`); the thread that tells has
  an empty pipe and a process that is gone (`Agrees`); a start that joins an old
  thread first is still within the limit (`CountHolds`); and what a reload erases does not run.

`ModelSetupProofs`, for any recommendations, files, threads and requests to cancel:

- `Inv` adds to `TypeOK` that one thread at most is busy and that the status then says
  active (`Exclusive`, which no write of `cancel()` disturbs), that what is there of a
  file and what is still to come fit in it (`Fits`), and that a set of shards which is
  about to be reported is all there (`AboutToReport`). What a repository lists is a
  sequence of files of the recommendation (`ListedAreFiles`).
- `TypeCorrect` (no file is longer than the server's), `OneDownloadAtATime`,
  `SelectionIsWhole`, and the action property `PartialProgressIsSaved`, which no run checks:
  a partial file gets shorter only when the server sends it again from the start or
  when it becomes the file.

`StreamSessionProofs`, for any completions, conversations, readers and DELETEs, any
ring size and any generation; all five invariants of the run `stream`:

- `Inv` says what each side relies on. `Owned`: a session is listed under its own
  conversation, a thread that cancels one has set its flag before it goes on, and
  the worker of a session that is not listed yet cancels nothing, so that
  replacing an older one cannot overwrite a cancellation under way. `Copies`: the
  ring is the end of what was made, up to all of it until it is finalized.
  `ReadersFollow`: what a reader has received is the part of what was made before its
  offset. `EndsAgree`: a worker leaves its loop at the end of the generation or
  because of a stop, and a session that nobody stopped is finalized by its
  worker's last step.
- The heart is `AppendCopies` and `JoinContinues`: a chunk that goes into a ring which
  drops its oldest bytes keeps it a part of what was made, and the rest of the
  ring, put after what a reader has, continues it.
- `TypeCorrect`, `SessionsAreOwned`, `ReplayIsFaithful`, `TheEndIsTheEnd` and
  `NothingIsCutShort` follow.

Only model-checked: the liveness properties, which are out of the prover's reach
(`EveryRequestEnds`, `SlotsAreFreed`, `CancelledEnds`, `StoppedReadersEnd`,
`StopIsObeyed`, `ShutdownEnds`, `DownloadEnds`). Every invariant and every action
property that a passing run checks is proved.

## 9. Plan

Done: the request path, the SSD cache with its abstract store, streams, the page
manager, the router, the setup server; the refinements of `CheckpointStore`,
`PlainSlots`, `TaskStages` and `ModelHost`. What comes next, the most important first.

1. The hybrid path of the page manager: checkpoints in the middle of a prompt and
   the cut of a restored state, which only recurrent models take.
2. An abstract answer (one text, readers that each follow it from an offset of their
   own, an end that is seen once) refined by `StreamSession`.
3. `SystemCache`, if it adds to `KvSsdCache`.

## 10. Not modelled

- The prompt cache in RAM, context checkpoints, speculative decoding and sampling:
  they decide which tokens are produced, not what the queues do.
- `common/kv_page_manager.*`: only its tests use it.
- HTTP parsing, JSON, chat templates and formats, logging, arguments, downloads of
  the library: without concurrent state of their own, or third-party.
- llama's KV cells, memory modules, ggml and the rest of upstream llama.cpp.
- A second setup server on the same directory of models (section 7).
- The launch scripts and the agent installer under `src/`: sequences of commands.
- The system prompt cache (`common/kv-ssd-system-cache.*`): the file and the index of
  `KvSsdCache` once more, shared by conversations.
- Lookups of the KV cache (`find_match`, `find_continuation`) in `KvSsdCache`: they change
  nothing there. What they choose is in `PageManager` (`Matches`, `Continued`).
