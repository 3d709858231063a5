--------------------------- MODULE StreamSession ---------------------------
(***************************************************************************)
(* Resumable streams (tools/server/server-stream.cpp, and the places of    *)
(* server-http.cpp and server-context.cpp that drive them).  A completion  *)
(* that carries a conversation id mirrors what it streams into a session,  *)
(* a ring buffer that outlives the client's socket; GETs replay it from an *)
(* offset, DELETE stops it, a later completion of the same conversation    *)
(* replaces it.                                                            *)
(*                                                                         *)
(* A session is named by the request that created it.  A step is what a    *)
(* thread does under one lock, or one access to an atomic, with what only  *)
(* that thread can see.  The waits of read_from() last 200 ms at most, so  *)
(* a waiting reader is one whose Read is not enabled.  Time is left out:   *)
(* the garbage collector may find any finished session expired.            *)
(***************************************************************************)
EXTENDS Integers, Sequences, SequencesExt, FiniteSets

CONSTANTS
    Requests,   \* streamed completions with an X-Conversation-Id
    Readers,    \* GETs of /v1/stream/<conv_id>
    Stoppers,   \* HTTP workers that serve DELETEs
    Convs,      \* conversation ids
    ConvOf,     \* the conversation of each request
    Cap,        \* STREAM_SESSION_MAX_BYTES
    End,        \* the last chunk of a generation: data: [DONE]
    None,       \* no session
    MaxChunk, MaxBytes \* bounds: bytes of a chunk, of each generation before End

ASSUME ConstantsAssumption ==
    /\ ConvOf \in [Requests -> Convs]
    /\ Cap \in Nat \ {0}
    /\ End \notin Nat /\ None \notin Requests
    /\ Requests \cap Stoppers = {}
    /\ MaxChunk \in Nat \ {0} /\ MaxBytes \in [Requests -> Nat]

VARIABLES
    sessions,  \* the manager's map, from conversations to sessions
    ring,      \* stream_session: see RingType
    made,      \* all that next() has returned to the worker of a request
    worker,    \* the HTTP worker that serves a request: see WorkerType
    killer,    \* a thread that cancels and finalizes a session it unlisted
    reader,    \* a GET: see ReaderType
    shut       \* the sessions stop_gc() found, NoShutdown before it ran

vars == <<sessions, ring, made, worker, killer, reader, shut>>

Killers == Requests \cup Stoppers   \* the threads that cancel
NoShutdown == {None}
Shutting == IF shut = NoShutdown THEN {} ELSE shut

Bytes == Nat \ {0}
Size(s) == s.dropped + Len(s.buf)
IsOver(p) == made[p] # << >> /\ Last(made[p]) = End

-----------------------------------------------------------------------------
(* stream_session                                                          *)

\* mutated: a chunk larger than the ring forgets what the ring held
Append_SkipOnly(s, chunk) ==
    LET all == s.buf \o chunk
        drop == IF Len(all) > Cap THEN Len(all) - Cap ELSE 0
        skip == IF Len(chunk) >= Cap THEN Len(chunk) - Cap ELSE drop
    IN  IF s.done THEN s
        ELSE [s EXCEPT !.buf = SubSeq(all, drop + 1, Len(all)), !.dropped = @ + skip]

\* mutated: the ring grows
Append_Unbounded(s, chunk) ==
    IF s.done THEN s ELSE [s EXCEPT !.buf = s.buf \o chunk]

\* append(): the oldest bytes make room
AppendTo(s, chunk) ==
    LET all == s.buf \o chunk
        drop == IF Len(all) > Cap THEN Len(all) - Cap ELSE 0
    IN  IF s.done THEN s
        ELSE [s EXCEPT !.buf = SubSeq(all, drop + 1, Len(all)), !.dropped = @ + drop]

NewRing == [buf |-> << >>, dropped |-> 0, done |-> FALSE, cancelled |-> FALSE,
            alive |-> FALSE]

Finalized(s) == [s EXCEPT !.done = TRUE]

-----------------------------------------------------------------------------
(* Cancel and finalize a session that was taken out of the map:            *)
(* create_or_replace() and evict_and_cancel()                              *)

Idle == [at |-> "idle", victim |-> None]
Hunting(s) == [at |-> "flag", victim |-> s]
Moved(t, at) == killer' = [killer EXCEPT ![t].at = at]

\* mutated: cancel() only calls the hook
CancelFlag_HookOnly(t) ==
    /\ killer[t].at = "flag"
    /\ Moved(t, "hook")
    /\ UNCHANGED <<sessions, ring, made, worker, reader, shut>>

CancelFlag(t) ==
    /\ killer[t].at = "flag"
    /\ ring' = [ring EXCEPT ![killer[t].victim].cancelled = TRUE]
    /\ Moved(t, "hook")
    /\ UNCHANGED <<sessions, made, worker, reader, shut>>

\* The hook is copied under mu and called outside, where it looks at alive.
\* It is set with alive and cleared after it, so its copying decides nothing.
CallHook(t) ==
    /\ killer[t].at = "hook"
    /\ Moved(t, IF ring[killer[t].victim].alive THEN "stop" ELSE "finalize")
    /\ UNCHANGED <<sessions, ring, made, worker, reader, shut>>

\* res.stop(): the tasks of the request are cancelled.  The generation then
\* returns nothing more, which Receive always allows.
CallStop(t) ==
    /\ killer[t].at = "stop"
    /\ Moved(t, "finalize")
    /\ UNCHANGED <<sessions, ring, made, worker, reader, shut>>

FinalizeVictim(t) ==
    /\ killer[t].at = "finalize"
    /\ ring' = [ring EXCEPT ![killer[t].victim] = Finalized(@)]
    /\ killer' = [killer EXCEPT ![t] = Idle]
    /\ UNCHANGED <<sessions, made, worker, reader, shut>>

\* DELETE /v1/stream/<c>
Delete(t, c) ==
    /\ killer[t] = Idle
    /\ sessions[c] # None
    /\ sessions' = [sessions EXCEPT ![c] = None]
    /\ killer' = [killer EXCEPT ![t] = Hunting(sessions[c])]
    /\ UNCHANGED <<ring, made, worker, reader, shut>>

-----------------------------------------------------------------------------
(* The worker of a completion                                              *)

GoTo(p, at) == worker' = [worker EXCEPT ![p].at = at]

\* mutated: the session that was replaced is forgotten
Install_Forget(p) ==
    /\ worker[p].at = "new"
    /\ sessions' = [sessions EXCEPT ![ConvOf[p]] = p]
    /\ GoTo(p, "attach")
    /\ UNCHANGED <<ring, made, killer, reader, shut>>

\* create_or_replace(), under map_mu
Install(p) ==
    /\ worker[p].at = "new"
    /\ sessions' = [sessions EXCEPT ![ConvOf[p]] = p]
    /\ killer' = IF sessions[ConvOf[p]] = None THEN killer
                 ELSE [killer EXCEPT ![p] = Hunting(sessions[ConvOf[p]])]
    /\ GoTo(p, "attach")
    /\ UNCHANGED <<ring, made, reader, shut>>

\* stream_pipe_producer::create(): from here on cancel() finds a live hook
Attach(p) ==
    /\ worker[p].at = "attach" /\ killer[p] = Idle
    /\ ring' = [ring EXCEPT ![p].alive = TRUE]
    /\ GoTo(p, "ask")
    /\ UNCHANGED <<sessions, made, killer, reader, shut>>

\* the worker after a call of next() that said there is no more
LastCall(p) ==
    worker' = [worker EXCEPT ![p].at = IF worker[p].drain THEN "cleanup" ELSE "complete",
                             ![p].fin = @ \/ ~worker[p].drain]

\* next() starts: should_stop only looks at the session
Ask(p) ==
    /\ worker[p].at = "ask"
    /\ IF ring[p].cancelled THEN LastCall(p) ELSE GoTo(p, "receive")
    /\ UNCHANGED <<sessions, ring, made, killer, reader, shut>>

\* mutated: the last chunk is only written to the socket
Mirror_NotLast(p, chunk) ==
    /\ made' = [made EXCEPT ![p] = @ \o chunk]
    /\ ring' = IF chunk = <<End>> THEN ring ELSE [ring EXCEPT ![p] = AppendTo(@, chunk)]

\* next() returned a chunk: it goes to the ring before the socket
Mirror(p, chunk) ==
    /\ made' = [made EXCEPT ![p] = @ \o chunk]
    /\ ring' = [ring EXCEPT ![p] = AppendTo(@, chunk)]

\* a result, or a ping, of n bytes
Receive(p, n) ==
    /\ worker[p].at = "receive"
    /\ ~IsOver(p) /\ Len(made[p]) + n <= MaxBytes[p]
    /\ Mirror(p, [k \in 1..n |-> Len(made[p]) + k])
    /\ GoTo(p, IF worker[p].drain THEN "ask" ELSE "write")
    /\ UNCHANGED <<sessions, killer, reader, shut>>

\* all results were received: every further call says so again
ReceiveEnd(p) ==
    /\ worker[p].at = "receive"
    /\ Mirror(p, <<End>>)
    /\ GoTo(p, IF worker[p].drain THEN "cleanup" ELSE "write")
    /\ UNCHANGED <<sessions, killer, reader, shut>>

\* the wait for a result polls should_stop
ReceiveStopped(p) ==
    /\ worker[p].at = "receive" /\ ring[p].cancelled
    /\ LastCall(p)
    /\ UNCHANGED <<sessions, ring, made, killer, reader, shut>>

\* the chunk is written to the socket
Write(p) ==
    /\ worker[p].at = "write"
    /\ IF IsOver(p) THEN LastCall(p) ELSE GoTo(p, "ask")
    /\ UNCHANGED <<sessions, ring, made, killer, reader, shut>>

\* the peer is gone: the write fails, or httplib does not ask for more
PeerDrops(p) ==
    /\ worker[p].at \in {"ask", "write"} /\ ~worker[p].drain
    /\ GoTo(p, "complete")
    /\ UNCHANGED <<sessions, ring, made, killer, reader, shut>>

\* mutated: a generation whose peer left is abandoned
OnComplete_NoDrain(p) ==
    /\ worker[p].at = "complete"
    /\ GoTo(p, "cleanup")
    /\ UNCHANGED <<sessions, ring, made, killer, reader, shut>>

\* on_complete: close() drains what the peer did not wait for
OnComplete(p) ==
    /\ worker[p].at = "complete"
    /\ IF worker[p].fin \/ ring[p].cancelled
       THEN GoTo(p, "cleanup")
       ELSE worker' = [worker EXCEPT ![p].at = "ask", ![p].drain = TRUE]
    /\ UNCHANGED <<sessions, ring, made, killer, reader, shut>>

\* ~server_res_generator(): cleanup() ...
Cleanup(p) ==
    /\ worker[p].at = "cleanup"
    /\ ring' = [ring EXCEPT ![p].alive = FALSE]
    /\ GoTo(p, "free")
    /\ UNCHANGED <<sessions, made, killer, reader, shut>>

\* ... then the response's members go, the pipe last, which finalizes
Free(p) ==
    /\ worker[p].at = "free"
    /\ ring' = [ring EXCEPT ![p] = Finalized(@)]
    /\ GoTo(p, "ended")
    /\ UNCHANGED <<sessions, made, killer, reader, shut>>

-----------------------------------------------------------------------------
(* Readers                                                                 *)

Reading(at, s, from) == [at |-> at, s |-> s, from |-> from, offset |-> from, got |-> << >>]

\* GET /v1/stream/<c>?from=<from>, an offset up to one byte past the end; a
\* refused one changes nothing
Get(r, c) ==
    /\ reader[r].at = "new"
    /\ sessions[c] # None
    /\ LET s == ring[sessions[c]]
       IN  \E from \in s.dropped..(Size(s) + 1) :
              reader' = [reader EXCEPT ![r] = Reading("read", sessions[c], from)]
    /\ UNCHANGED <<sessions, ring, made, worker, killer, shut>>

ReadLost(r, s) ==
    /\ reader[r].offset < s.dropped
    /\ reader' = [reader EXCEPT ![r] = Reading("lost", None, 0)]

\* The chunk is copied under mu and written to the reader's socket outside.
ReadChunk(r, s) ==
    /\ s.dropped <= reader[r].offset /\ reader[r].offset < Size(s)
    /\ LET chunk == SubSeq(s.buf, reader[r].offset - s.dropped + 1, Len(s.buf))
       IN  reader' = [reader EXCEPT ![r].offset = Size(s), ![r].got = @ \o chunk]

\* mutated: the end is looked for before the bytes
ReadDone_First(r, s) ==
    /\ s.done
    /\ reader' = [reader EXCEPT ![r].at = "done"]

\* mutated: only an empty ring ends the stream
ReadDone_IfEmpty(r, s) ==
    /\ s.buf = << >> /\ s.done
    /\ reader' = [reader EXCEPT ![r].at = "done"]

ReadDone(r, s) ==
    /\ reader[r].offset >= Size(s) /\ s.done
    /\ reader' = [reader EXCEPT ![r].at = "done"]

\* one round of read_from(), under mu
Read(r) ==
    /\ reader[r].at = "read"
    /\ LET s == ring[reader[r].s]
       IN  ReadLost(r, s) \/ ReadChunk(r, s) \/ ReadDone(r, s)
    /\ UNCHANGED <<sessions, ring, made, worker, killer, shut>>

ReaderLeaves(r) ==
    /\ reader[r].at = "read"
    /\ reader' = [reader EXCEPT ![r] = Reading("left", None, 0)]
    /\ UNCHANGED <<sessions, ring, made, worker, killer, shut>>

-----------------------------------------------------------------------------
(* The manager                                                             *)

\* gc_loop(): finished sessions past their time are dropped
CollectGarbage(c) ==
    /\ shut = NoShutdown
    /\ sessions[c] # None /\ ring[sessions[c]].done
    /\ sessions' = [sessions EXCEPT ![c] = None]
    /\ UNCHANGED <<ring, made, worker, killer, reader, shut>>

Listed == {sessions[c] : c \in Convs} \ {None}

\* stop_gc() empties the map ...
StopGc ==
    /\ shut = NoShutdown
    /\ shut' = Listed
    /\ sessions' = [c \in Convs |-> None]
    /\ UNCHANGED <<ring, made, worker, killer, reader>>

\* ... and finalizes what was in it
FinalizeShut(p) ==
    /\ p \in Shutting /\ ~ring[p].done
    /\ ring' = [ring EXCEPT ![p] = Finalized(@)]
    /\ UNCHANGED <<sessions, made, worker, killer, reader, shut>>

-----------------------------------------------------------------------------

Init ==
    /\ sessions = [c \in Convs |-> None]
    /\ ring = [p \in Requests |-> NewRing]
    /\ made = [p \in Requests |-> << >>]
    /\ worker = [p \in Requests |-> [at |-> "new", drain |-> FALSE, fin |-> FALSE]]
    /\ killer = [t \in Killers |-> Idle]
    /\ reader = [r \in Readers |-> Reading("new", None, 0)]
    /\ shut = NoShutdown

Kill(t) ==
    CancelFlag(t) \/ CallHook(t) \/ CallStop(t) \/ FinalizeVictim(t)

\* what the worker does whether or not the model has more to say
Proceed(p) ==
    \/ Install(p) \/ Attach(p) \/ Ask(p) \/ ReceiveStopped(p) \/ Write(p)
    \/ OnComplete(p) \/ Cleanup(p) \/ Free(p)

Generate(p) == ReceiveEnd(p) \/ \E n \in 1..MaxChunk : Receive(p, n)

Next ==
    \/ \E t \in Killers : Kill(t)
    \/ \E t \in Stoppers, c \in Convs : Delete(t, c)
    \/ \E p \in Requests : Proceed(p) \/ Generate(p) \/ PeerDrops(p) \/ FinalizeShut(p)
    \/ \E r \in Readers : Read(r) \/ ReaderLeaves(r)
    \/ \E r \in Readers, c \in Convs : Get(r, c)
    \/ \E c \in Convs : CollectGarbage(c)
    \/ StopGc

Spec == Init /\ [][Next]_vars

\* Threads run; a generation may be silent for ever, nobody need send a
\* DELETE and a peer need not leave.
FairSpec ==
    /\ Spec
    /\ \A t \in Killers : WF_vars(Kill(t))
    /\ \A p \in Requests : WF_vars(Proceed(p)) /\ WF_vars(FinalizeShut(p))
    /\ \A r \in Readers : WF_vars(Read(r))

-----------------------------------------------------------------------------
(* Properties                                                              *)

RingType ==
    [buf : Seq(Bytes \cup {End}), dropped : Nat, done : BOOLEAN, cancelled : BOOLEAN,
     alive : BOOLEAN]

WorkerType ==
    [at : {"new", "attach", "ask", "receive", "write", "complete", "cleanup",
           "free", "ended"}, drain : BOOLEAN, fin : BOOLEAN]

ReaderType ==
    [at : {"new", "read", "done", "lost", "left"}, s : Requests \cup {None},
     from : Nat, offset : Nat, got : Seq(Bytes \cup {End})]

\* The state is well typed, and no ring is larger than the cap it was given
\* (stream_session::append, cap_bytes).
TypeOK ==
    /\ sessions \in [Convs -> Requests \cup {None}]
    /\ ring \in [Requests -> RingType]
    /\ \A p \in Requests : Len(ring[p].buf) <= Cap
    /\ made \in [Requests -> Seq(Bytes \cup {End})]
    /\ worker \in [Requests -> WorkerType]
    /\ killer \in [Killers -> [at : {"idle", "flag", "hook", "stop", "finalize"},
                               victim : Requests \cup {None}]]
    /\ reader \in [Readers -> ReaderType]
    /\ shut = NoShutdown \/ shut \subseteq Requests

\* What a reader has received is what the generation produced from the
\* offset it asked for, with no byte missing, doubled or out of order, however
\* often the ring dropped its oldest bytes and whoever read, wrote or left
\* meanwhile (read_from, append, make_stream_get_handler).
ReplayIsContiguous ==
    \A r \in Readers :
        reader[r].got # << >> =>
            reader[r].got = SubSeq(made[reader[r].s], reader[r].from + 1,
                                   reader[r].from + Len(reader[r].got))

\* A reader whose stream ended because the session is finalized has been given
\* everything up to its last byte: no append comes after (finalize and append
\* race; read_from looks at the bytes before it looks at done).
DoneReaderHasAll ==
    \A r \in Readers :
        reader[r].at = "done" =>
            reader[r].from + Len(reader[r].got) >= Size(ring[reader[r].s])

\* Only a DELETE, a newer completion of the conversation or the shutdown cuts
\* a session short: when it is finalized otherwise, it has taken all the
\* generation produced, up to its end, even when the peer dropped on the way
\* (close, ~stream_pipe_producer, README-dev "Resumable streaming").
OnlyStopCutsShort ==
    \A p \in Requests :
        ring[p].done /\ ~ring[p].cancelled /\ p \notin Shutting =>
            IsOver(p) /\ Size(ring[p]) = Len(made[p])

\* One live session per conversation: one that is neither listed nor finalized
\* is in the hands of the thread that unlisted it and will finalize it
\* (create_or_replace, evict_and_cancel, stop_gc).
NoOrphan ==
    \A p \in Requests :
        worker[p].at # "new" /\ ~ring[p].done =>
            \/ sessions[ConvOf[p]] = p
            \/ \E t \in Killers : killer[t].victim = p
            \/ p \in Shutting

\* A completion whose session was taken to be cancelled ends, even when its
\* generation is silent and the cancellation came before its stop hook was set
\* (cancel, stream_aware_should_stop).
CancelledEnds ==
    \A p \in Requests :
        (\E t \in Killers : killer[t].victim = p) ~> worker[p].at = "ended"

\* No reader hangs on a session that was stopped, replaced or shut down, even
\* when the generation is silent (finalize, read_from).
StoppedReadersEnd ==
    \A r \in Readers, p \in Requests :
        reader[r].s = p /\ (ring[p].cancelled \/ p \in Shutting)
            ~> reader[r].at \in {"done", "lost", "left"}

\* server-stream.h: "the alive guard ensures stop() is not called after
\* cleanup() has run".  A thread about to call stop() holds a response that
\* still lives.
NoStopAfterCleanup ==
    \A t \in Killers :
        killer[t].at = "stop" => worker[killer[t].victim].at \notin {"free", "ended"}

=============================================================================
