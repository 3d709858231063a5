------------------------ MODULE StreamSessionProofs ------------------------
(***************************************************************************)
(* What the resumable streams promise, for any number of completions,      *)
(* conversations, readers and DELETEs, any ring size and any generation.   *)
(***************************************************************************)
EXTENDS StreamSession, SequenceTheorems, TLAPS

Data == Bytes \cup {End}

Same(s, old) == s.buf = old.buf /\ s.dropped = old.dropped

\* Who has a session: the map, under its own conversation, or the thread that
\* took it out, which has set its flag before it goes further.
Owned ==
    /\ \A c \in Convs :
          sessions[c] # None => ConvOf[sessions[c]] = c /\ worker[sessions[c]].at # "new"
    /\ \A t \in Killers :
          /\ killer[t].at = "idle" <=> killer[t].victim = None
          /\ killer[t].at \notin {"idle", "flag"} => ring[killer[t].victim].cancelled
    /\ \A p \in Requests : worker[p].at = "new" => killer[p].at = "idle"

\* The sequence b is a part of m, which starts after its first n elements.
PartOf(b, m, n) == \A k \in 1..Len(b) : b[k] = m[n + k]

\* The ring s holds the end of what m says was produced up to Size(s).
CopyOf(s, m) ==
    /\ Size(s) <= Len(m)
    /\ ~s.done => Size(s) = Len(m)
    /\ PartOf(s.buf, m, s.dropped)

Copies == \A p \in Requests : CopyOf(ring[p], made[p])

\* A reader x has received what was produced from its first offset on.
Follows(x) ==
    /\ x.offset = x.from + Len(x.got)
    /\ x.at \notin {"read", "done"} => x.got = << >>
    /\ x.at \in {"read", "done"} =>
          /\ x.s \in Requests
          /\ x.got # << >> => x.offset <= Size(ring[x.s])
          /\ PartOf(x.got, made[x.s], x.from)
    /\ x.at = "done" => ring[x.s].done /\ x.offset >= Size(ring[x.s])

ReadersFollow == \A r \in Readers : Follows(reader[r])

\* The worker w of a generation m leaves the loop when there is no more to
\* come, and its ring s is finalized before that only by a stop.
Ends(w, s, m, stopped) ==
    /\ w.fin \/ w.at \in {"cleanup", "free", "ended"} =>
          s.cancelled \/ (m # << >> /\ Last(m) = End)
    /\ s.done => s.cancelled \/ stopped \/ (w.at = "ended" /\ Size(s) = Len(m))

EndsAgree == \A p \in Requests : Ends(worker[p], ring[p], made[p], p \in Shutting)

\* The inductive invariant
Inv == TypeOK /\ Owned /\ NoOrphan /\ Copies /\ ReadersFollow /\ EndsAgree

-----------------------------------------------------------------------------
(* The ring                                                                *)

LEMMA Joined ==
    ASSUME NEW a \in Seq(Data), NEW b \in Seq(Data)
    PROVE  /\ a \o b \in Seq(Data) /\ Len(a \o b) = Len(a) + Len(b)
           /\ Len(a) \in Nat /\ Len(b) \in Nat
           /\ \A k \in 1..Len(a) : (a \o b)[k] = a[k]
           /\ \A k \in 1..Len(b) : (a \o b)[Len(a) + k] = b[k]
BY ConcatProperties, LenProperties

LEMMA AppendShape ==
    ASSUME NEW s \in RingType, Len(s.buf) <= Cap, NEW chunk \in Seq(Data)
    PROVE  /\ AppendTo(s, chunk) \in RingType
           /\ Len(AppendTo(s, chunk).buf) <= Cap
           /\ Size(AppendTo(s, chunk)) = IF s.done THEN Size(s) ELSE Size(s) + Len(chunk)
           /\ AppendTo(s, chunk).done = s.done
           /\ AppendTo(s, chunk).cancelled = s.cancelled
           /\ AppendTo(s, chunk).alive = s.alive
           /\ s.done => AppendTo(s, chunk) = s
           /\ ~s.done => \A k \in 1..Len(AppendTo(s, chunk).buf) :
                 /\ AppendTo(s, chunk).dropped - s.dropped + k \in 1..Len(s.buf \o chunk)
                 /\ AppendTo(s, chunk).buf[k]
                       = (s.buf \o chunk)[AppendTo(s, chunk).dropped - s.dropped + k]
<1>1. CASE s.done
  BY <1>1 DEF AppendTo
<1>2. CASE ~s.done
  <2> DEFINE all == s.buf \o chunk
             drop == IF Len(all) > Cap THEN Len(all) - Cap ELSE 0
             new == SubSeq(all, drop + 1, Len(all))
  <2>1. s.buf \in Seq(Data) /\ s.dropped \in Nat /\ Cap \in Nat \ {0}
    BY ConstantsAssumption DEF RingType, Data
  <2>2. all \in Seq(Data) /\ Len(all) = Len(s.buf) + Len(chunk) /\ Len(all) \in Nat
    BY <2>1, ConcatProperties, LenProperties
  <2>3. drop \in Nat /\ drop <= Len(all) /\ Len(all) - drop <= Cap
    BY <2>1, <2>2
  <2> HIDE DEF all, drop
  <2>4. /\ new \in Seq(Data) /\ Len(new) = Len(all) - drop
        /\ \A k \in 1..Len(new) : new[k] = all[drop + k]
    <3>1. drop + 1 \in 1..Len(all) + 1 /\ Len(all) \in 0..Len(all)
      BY <2>2, <2>3
    <3>2. new \in Seq(Data)
      BY <2>2, <2>3, <3>1
    <3>3. Len(new) = Len(all) - drop
      BY <2>2, <2>3
    <3>4. \A k \in 1..Len(new) : new[k] = all[drop + k]
      BY <2>2, <2>3, <3>3
    <3> QED BY <3>2, <3>3, <3>4
  <2>5. AppendTo(s, chunk) = [s EXCEPT !.buf = new, !.dropped = @ + drop]
    BY <1>2 DEF AppendTo, all, drop
  <2> HIDE DEF new
  <2>6. /\ AppendTo(s, chunk).buf = new /\ AppendTo(s, chunk).dropped = s.dropped + drop
        /\ AppendTo(s, chunk).done = s.done
        /\ AppendTo(s, chunk).cancelled = s.cancelled /\ AppendTo(s, chunk).alive = s.alive
        /\ AppendTo(s, chunk) \in RingType
    <3>1. s.dropped + drop \in Nat /\ new \in Seq(Data)
      BY <2>1, <2>3, <2>4
    <3> QED BY <2>5, <3>1 DEF RingType, Data
  <2>7. Size(AppendTo(s, chunk)) = Size(s) + Len(chunk)
    BY <2>1, <2>2, <2>3, <2>4, <2>6, LenProperties DEF Size
  <2>8. \A k \in 1..Len(new) :
           /\ AppendTo(s, chunk).dropped - s.dropped + k = drop + k
           /\ drop + k \in 1..Len(all) /\ new[k] = all[drop + k]
    BY <2>1, <2>2, <2>3, <2>4, <2>6
  <2> QED BY <1>2, <2>2, <2>3, <2>4, <2>6, <2>7, <2>8 DEF all
<1> QED BY <1>1, <1>2

\* A chunk that goes to the ring and to what was made: the one stays a copy
\* of the other, and what was made is not touched.
LEMMA AppendCopies ==
    ASSUME NEW s \in RingType, Len(s.buf) <= Cap, NEW chunk \in Seq(Data),
           NEW m \in Seq(Data), CopyOf(s, m)
    PROVE  /\ CopyOf(AppendTo(s, chunk), m \o chunk)
           /\ Size(s) <= Size(AppendTo(s, chunk))
           /\ m \o chunk \in Seq(Data)
           /\ Len(m \o chunk) = Len(m) + Len(chunk)
           /\ \A k \in 1..Len(m) : (m \o chunk)[k] = m[k]
<1>1. /\ m \o chunk \in Seq(Data) /\ Len(m \o chunk) = Len(m) + Len(chunk)
      /\ \A k \in 1..Len(m) : (m \o chunk)[k] = m[k]
      /\ \A k \in 1..Len(chunk) : (m \o chunk)[Len(m) + k] = chunk[k]
      /\ Len(m) \in Nat /\ Len(chunk) \in Nat
  BY ConcatProperties, LenProperties
<1>2. s.buf \in Seq(Data) /\ s.dropped \in Nat /\ Len(s.buf) \in Nat
  BY LenProperties DEF RingType, Data
<1> DEFINE new == AppendTo(s, chunk)
<1>3. new.dropped \in Nat /\ new.buf \in Seq(Data) /\ Len(new.buf) \in Nat
  BY AppendShape, LenProperties DEF RingType, Data
<1>4. Size(s) \in Nat /\ Size(s) <= Len(m) /\ Size(new) >= Size(s)
  BY <1>1, <1>2, AppendShape DEF Size, CopyOf
<1>5. CASE s.done
  <2>1. new = s
    BY <1>5, AppendShape
  <2>2. \A k \in 1..Len(s.buf) : s.dropped + k \in 1..Len(m)
    BY <1>1, <1>2, <1>4 DEF Size
  <2> QED BY <1>1, <1>4, <1>5, <2>1, <2>2 DEF CopyOf, PartOf
<1>6. CASE ~s.done
  <2>1. Size(new) = Len(m \o chunk)
    BY <1>1, <1>2, <1>6, AppendShape DEF CopyOf, PartOf
  <2>2. Size(s) = s.dropped + Len(s.buf) /\ Len(m) = s.dropped + Len(s.buf)
    BY <1>6 DEF CopyOf, PartOf, Size
  <2>3. ASSUME NEW k \in 1..Len(new.buf)
        PROVE  new.buf[k] = (m \o chunk)[new.dropped + k]
    <3> DEFINE j == new.dropped - s.dropped + k
    <3>1. j \in 1..Len(s.buf \o chunk) /\ new.buf[k] = (s.buf \o chunk)[j]
      BY <1>6, AppendShape
    <3>2. new.dropped + k = s.dropped + j /\ j \in Int
      BY <1>2, <1>3
    <3> HIDE DEF j, new
    <3>3. /\ Len(s.buf \o chunk) = Len(s.buf) + Len(chunk)
          /\ \A i \in 1..Len(chunk) : (s.buf \o chunk)[Len(s.buf) + i] = chunk[i]
      BY <1>1, <1>2, ConcatProperties
    <3>4. CASE j <= Len(s.buf)
      <4>1. j \in 1..Len(s.buf)
        BY <3>1, <3>2, <3>3, <3>4, <1>1, <1>2
      <4>2. (s.buf \o chunk)[j] = s.buf[j]
        BY <4>1, <1>2, ConcatProperties
      <4>3. s.buf[j] = m[s.dropped + j]
        BY <4>1 DEF CopyOf, PartOf
      <4>4. s.dropped + j \in 1..Len(m)
        BY <4>1, <2>2, <1>1, <1>2
      <4> QED BY <1>1, <3>1, <3>2, <4>2, <4>3, <4>4
    <3>5. CASE j > Len(s.buf)
      <4> DEFINE i == j - Len(s.buf)
      <4>1. i \in 1..Len(chunk) /\ j = Len(s.buf) + i /\ s.dropped + j = Len(m) + i
        BY <3>1, <3>2, <3>3, <3>5, <1>1, <1>2, <2>2
      <4> HIDE DEF i
      <4>2. (s.buf \o chunk)[Len(s.buf) + i] = chunk[i]
        BY <4>1, <3>3
      <4> QED BY <1>1, <3>1, <3>2, <4>1, <4>2
    <3>6. j <= Len(s.buf) \/ j > Len(s.buf)
      BY <3>2, <1>2
    <3> QED BY <3>4, <3>5, <3>6
  <2>4. CopyOf(new, m \o chunk)
    <3>1. Size(new) <= Len(m \o chunk)
      BY <1>1, <2>1
    <3> HIDE DEF new
    <3> QED BY <2>1, <2>3, <3>1 DEF CopyOf, PartOf
  <2> QED BY <1>1, <1>4, <2>4
<1> QED BY <1>5, <1>6

-----------------------------------------------------------------------------
(* Steps that write nothing into a ring                                    *)

\* The flags of a ring are only ever raised; what it holds stays.
RingsStay ==
    \A p \in Requests :
        /\ Same(ring'[p], ring[p])
        /\ ring[p].done => ring'[p].done
        /\ ring[p].cancelled => ring'[p].cancelled

LEMMA QuietStep ==
    ASSUME Inv, RingsStay, UNCHANGED <<made, reader>>
    PROVE  Copies' /\ ReadersFollow'
<1>1. ASSUME NEW p \in Requests PROVE CopyOf(ring[p], made[p])'
  BY <1>1 DEF Inv, Copies, CopyOf, RingsStay, Same, Size
<1>2. ASSUME NEW r \in Readers PROVE Follows(reader[r])'
  BY <1>2 DEF Inv, ReadersFollow, Follows, RingsStay, Same, Size
<1> QED BY <1>1, <1>2 DEF Copies, ReadersFollow

LEMMA ShutGrows ==
    ASSUME UNCHANGED shut
    PROVE  Shutting' = Shutting
BY DEF Shutting

-----------------------------------------------------------------------------
(* The threads that cancel                                                 *)

LEMMA CancelFlagKeeps ==
    ASSUME Inv, NEW t \in Killers, CancelFlag(t)
    PROVE  Inv'
<1> DEFINE v == killer[t].victim
<1> USE ShutGrows
<1>1. v \in Requests
  BY DEF Inv, TypeOK, Owned, CancelFlag
<1>2. /\ ring' = [ring EXCEPT ![v].cancelled = TRUE]
      /\ killer' = [killer EXCEPT ![t].at = "hook"]
      /\ UNCHANGED <<sessions, made, worker, reader, shut>>
  BY DEF CancelFlag, Moved
<1> HIDE DEF v
<1>3. TypeOK'
  BY <1>1, <1>2 DEF Inv, TypeOK, RingType
<1>4. RingsStay
  BY <1>1, <1>2 DEF Inv, TypeOK, RingType, RingsStay, Same
<1>5. Owned'
  BY <1>1, <1>2, <1>4 DEF Inv, TypeOK, RingType, RingsStay, Owned, CancelFlag, v
<1>6. NoOrphan'
  BY <1>1, <1>2 DEF Inv, TypeOK, RingType, NoOrphan
<1>7. Copies' /\ ReadersFollow'
  BY <1>2, <1>4, QuietStep
<1>8. EndsAgree'
  BY <1>1, <1>2 DEF Inv, TypeOK, RingType, EndsAgree, Ends, Size
<1> QED BY <1>3, <1>5, <1>6, <1>7, <1>8 DEF Inv

LEMMA CallKeeps ==
    ASSUME Inv, NEW t \in Killers, CallHook(t) \/ CallStop(t)
    PROVE  Inv'
<1> USE ShutGrows
<1>1. PICK at \in {"stop", "finalize"} :
         /\ killer' = [killer EXCEPT ![t].at = at]
         /\ killer[t].at \in {"hook", "stop"}
         /\ UNCHANGED <<sessions, ring, made, worker, reader, shut>>
  BY DEF CallHook, CallStop, Moved
<1>2. TypeOK'
  BY <1>1 DEF Inv, TypeOK
<1>3. RingsStay
  BY <1>1 DEF RingsStay, Same
<1>4. Owned' /\ NoOrphan'
  BY <1>1 DEF Inv, TypeOK, Owned, NoOrphan
<1>5. Copies' /\ ReadersFollow'
  BY <1>1, <1>3, QuietStep
<1>6. EndsAgree'
  BY <1>1 DEF Inv, EndsAgree
<1> QED BY <1>2, <1>4, <1>5, <1>6 DEF Inv

LEMMA FinalizeVictimKeeps ==
    ASSUME Inv, NEW t \in Killers, FinalizeVictim(t)
    PROVE  Inv'
<1> DEFINE v == killer[t].victim
<1> USE ShutGrows
<1>1. v \in Requests /\ ring[v].cancelled
  BY DEF Inv, TypeOK, Owned, FinalizeVictim
<1>2. /\ ring' = [ring EXCEPT ![v].done = TRUE]
      /\ killer' = [killer EXCEPT ![t] = Idle]
      /\ UNCHANGED <<sessions, made, worker, reader, shut>>
  BY DEF FinalizeVictim, Finalized
<1>3. TypeOK'
  BY <1>1, <1>2 DEF Inv, TypeOK, RingType, Idle
<1>4. RingsStay
  BY <1>1, <1>2 DEF Inv, TypeOK, RingType, RingsStay, Same
<1>5. Owned'
  BY <1>1, <1>2, <1>4 DEF Inv, TypeOK, RingsStay, Owned, Idle
<1>6. NoOrphan'
  BY <1>1, <1>2 DEF Inv, TypeOK, RingType, NoOrphan
<1>7. Copies' /\ ReadersFollow'
  BY <1>2, <1>4, QuietStep
<1>8. EndsAgree'
  BY <1>1, <1>2 DEF Inv, TypeOK, RingType, EndsAgree, Ends, Size
<1> QED BY <1>3, <1>5, <1>6, <1>7, <1>8 DEF Inv

LEMMA DeleteKeeps ==
    ASSUME Inv, NEW t \in Stoppers, NEW c \in Convs, Delete(t, c)
    PROVE  Inv'
<1> USE ShutGrows
<1>1. /\ sessions[c] \in Requests /\ t \in Killers /\ t \notin Requests
      /\ killer[t] = Idle
      /\ sessions' = [sessions EXCEPT ![c] = None]
      /\ killer' = [killer EXCEPT ![t] = Hunting(sessions[c])]
      /\ UNCHANGED <<ring, made, worker, reader, shut>>
  BY ConstantsAssumption DEF Delete, Inv, TypeOK, Killers
<1>2. TypeOK'
  BY <1>1 DEF Inv, TypeOK, Hunting
<1>3. RingsStay
  BY <1>1 DEF RingsStay, Same
<1>4. Owned'
  BY <1>1, ConstantsAssumption DEF Inv, TypeOK, Owned, Hunting
<1>5. NoOrphan'
  <2>1. /\ killer'[t].victim = sessions[c] /\ killer[t].victim = None /\ None \notin Requests
        /\ \A u \in Killers \ {t} : killer'[u] = killer[u]
        /\ \A d \in Convs \ {c} : sessions'[d] = sessions[d]
        /\ \A p \in Requests : ConvOf[p] \in Convs
    BY <1>1, ConstantsAssumption DEF Inv, TypeOK, Hunting, Idle
  <2>2. ASSUME NEW p \in Requests, worker[p].at # "new", ~ring[p].done
        PROVE  \/ sessions'[ConvOf[p]] = p
               \/ \E u \in Killers : killer'[u].victim = p
               \/ p \in Shutting
    <3>1. CASE sessions[ConvOf[p]] = p
      BY <1>1, <2>1, <3>1
    <3>2. CASE \E u \in Killers : killer[u].victim = p
      BY <2>1, <3>2
    <3> QED BY <2>2, <3>1, <3>2 DEF Inv, NoOrphan
  <2> QED BY <1>1, <2>2 DEF NoOrphan
<1>6. Copies' /\ ReadersFollow'
  BY <1>1, <1>3, QuietStep
<1>7. EndsAgree'
  BY <1>1 DEF Inv, EndsAgree
<1> QED BY <1>2, <1>4, <1>5, <1>6, <1>7 DEF Inv

-----------------------------------------------------------------------------
(* The workers                                                             *)

LEMMA InstallKeeps ==
    ASSUME Inv, NEW p \in Requests, Install(p)
    PROVE  Inv'
<1> USE ShutGrows
<1>1. /\ p \in Killers /\ ConvOf[p] \in Convs /\ worker[p].at = "new"
      /\ sessions' = [sessions EXCEPT ![ConvOf[p]] = p]
      /\ killer' = IF sessions[ConvOf[p]] = None THEN killer
                   ELSE [killer EXCEPT ![p] = Hunting(sessions[ConvOf[p]])]
      /\ worker' = [worker EXCEPT ![p].at = "attach"]
      /\ UNCHANGED <<ring, made, reader, shut>>
  BY ConstantsAssumption DEF Install, GoTo, Killers
<1>2. killer[p].victim = None /\ None \notin Requests
  BY <1>1, ConstantsAssumption DEF Inv, Owned
<1>3. TypeOK'
  BY <1>1 DEF Inv, TypeOK, Hunting, WorkerType
<1>4. RingsStay
  BY <1>1 DEF RingsStay, Same
<1>5. Owned'
  BY <1>1, <1>2 DEF Inv, TypeOK, Owned, Hunting, WorkerType
<1>6. NoOrphan'
  BY <1>1, <1>2 DEF Inv, TypeOK, NoOrphan, Hunting, Owned, WorkerType
<1>7. Copies' /\ ReadersFollow'
  BY <1>1, <1>4, QuietStep
<1>8. EndsAgree'
  BY <1>1 DEF Inv, TypeOK, EndsAgree, Ends, WorkerType
<1> QED BY <1>3, <1>5, <1>6, <1>7, <1>8 DEF Inv

\* A step of a worker that changes nothing but where it is
LEMMA WorkerMoves ==
    ASSUME Inv, NEW p \in Requests, NEW w \in WorkerType,
           worker' = [worker EXCEPT ![p] = w],
           worker[p].at # "new", w.at # "new",
           Ends(w, ring[p], made[p], p \in Shutting),
           UNCHANGED <<sessions, ring, made, killer, reader, shut>>
    PROVE  Inv'
<1> USE ShutGrows
<1>1. TypeOK'
  BY DEF Inv, TypeOK
<1>2. RingsStay
  BY DEF RingsStay, Same
<1>3. Owned' /\ NoOrphan'
  BY DEF Inv, TypeOK, Owned, NoOrphan
<1>4. Copies' /\ ReadersFollow'
  BY <1>2, QuietStep
<1>5. EndsAgree'
  BY DEF Inv, TypeOK, EndsAgree
<1> QED BY <1>1, <1>3, <1>4, <1>5 DEF Inv

LEMMA LoopKeeps ==
    ASSUME Inv, NEW p \in Requests,
           Ask(p) \/ ReceiveStopped(p) \/ Write(p) \/ PeerDrops(p) \/ OnComplete(p)
    PROVE  Inv'
<1> DEFINE old == worker[p]
           over == IsOver(p) \/ ring[p].cancelled
           last == [old EXCEPT !.at = IF old.drain THEN "cleanup" ELSE "complete",
                               !.fin = @ \/ ~old.drain]
           drains == [old EXCEPT !.at = "ask", !.drain = TRUE]
           Went(at) == [old EXCEPT !.at = at]
<1>1. worker \in [Requests -> WorkerType] /\ old \in WorkerType
  BY DEF Inv, TypeOK
<1>2. /\ old.fin => over
      /\ ring[p].done => ring[p].cancelled \/ p \in Shutting \/ old.at = "ended"
  BY DEF Inv, EndsAgree, Ends, IsOver
<1>3. old.at \in {"ask", "receive", "write", "complete"}
  BY DEF Ask, ReceiveStopped, Write, PeerDrops, OnComplete
<1>4. UNCHANGED <<sessions, ring, made, killer, reader, shut>>
  BY DEF Ask, ReceiveStopped, Write, PeerDrops, OnComplete
<1>5. PICK w \in WorkerType :
         /\ worker' = [worker EXCEPT ![p] = w]
         /\ w.at \notin {"new", "free", "ended"}
         /\ w.fin \/ w.at = "cleanup" => over
  <2>1. \/ LastCall(p) /\ over
        \/ \E at \in {"ask", "receive", "complete"} : GoTo(p, at)
        \/ GoTo(p, "cleanup") /\ (old.fin \/ over)
        \/ worker' = [worker EXCEPT ![p].at = "ask", ![p].drain = TRUE]
    BY DEF Ask, ReceiveStopped, Write, PeerDrops, OnComplete
  <2>2. CASE LastCall(p) /\ over
    <3>1. worker' = [worker EXCEPT ![p] = last] /\ last \in WorkerType
      BY <1>1, <2>2 DEF LastCall, WorkerType
    <3>2. last.at \in {"cleanup", "complete"}
      BY <1>1 DEF WorkerType
    <3> QED BY <2>2, <3>1, <3>2
  <2>3. CASE \E at \in {"ask", "receive", "complete"} : GoTo(p, at)
    <3>1. PICK at \in {"ask", "receive", "complete"} : GoTo(p, at)
      BY <2>3
    <3>2. /\ worker' = [worker EXCEPT ![p] = Went(at)] /\ Went(at) \in WorkerType
          /\ Went(at).at = at /\ Went(at).fin = old.fin
      BY <1>1, <3>1 DEF GoTo, WorkerType
    <3> QED BY <1>2, <3>2
  <2>4. CASE GoTo(p, "cleanup") /\ (old.fin \/ over)
    <3>1. /\ worker' = [worker EXCEPT ![p] = Went("cleanup")] /\ Went("cleanup") \in WorkerType
          /\ Went("cleanup").at = "cleanup"
      BY <1>1, <2>4 DEF GoTo, WorkerType
    <3> QED BY <1>2, <2>4, <3>1
  <2>5. CASE worker' = [worker EXCEPT ![p].at = "ask", ![p].drain = TRUE]
    <3>1. /\ worker' = [worker EXCEPT ![p] = drains] /\ drains \in WorkerType
          /\ drains.at = "ask" /\ drains.fin = old.fin
      BY <1>1, <2>5 DEF WorkerType
    <3> QED BY <1>2, <3>1
  <2> QED BY <2>1, <2>2, <2>3, <2>4, <2>5
<1>6. Ends(w, ring[p], made[p], p \in Shutting)
  BY <1>2, <1>3, <1>5 DEF Ends, IsOver
<1> QED BY <1>3, <1>4, <1>5, <1>6, WorkerMoves

\* Attach, Cleanup, Free: a step of a worker with a flag of its ring
LEMMA FlagKeeps ==
    ASSUME Inv, NEW p \in Requests, Attach(p) \/ Cleanup(p) \/ Free(p)
    PROVE  Inv'
<1> USE ShutGrows
<1>1. PICK s \in RingType, at \in {"ask", "free", "ended"} :
         /\ ring' = [ring EXCEPT ![p] = s]
         /\ worker' = [worker EXCEPT ![p].at = at]
         /\ Same(s, ring[p]) /\ s.cancelled = ring[p].cancelled
         /\ ring[p].done => s.done
         /\ at # "ended" => s.done = ring[p].done
         /\ at = "ask" => worker[p].at = "attach"
         /\ at # "ask" => worker[p].at \in {"cleanup", "free"}
  <2>1. ring \in [Requests -> RingType]
    BY DEF Inv, TypeOK
  <2>2. CASE Attach(p)
    BY <2>1, <2>2 DEF Attach, GoTo, RingType, Same
  <2>3. CASE Cleanup(p)
    BY <2>1, <2>3 DEF Cleanup, GoTo, RingType, Same
  <2>4. CASE Free(p)
    BY <2>1, <2>4 DEF Free, GoTo, Finalized, RingType, Same
  <2> QED BY <2>2, <2>3, <2>4
<1>2. UNCHANGED <<sessions, made, killer, reader, shut>>
  BY DEF Attach, Cleanup, Free
<1>3. TypeOK'
  BY <1>1, <1>2 DEF Inv, TypeOK, WorkerType, Same
<1>4. RingsStay
  BY <1>1 DEF Inv, TypeOK, RingsStay, Same
<1>5. Owned'
  BY <1>1, <1>2, <1>4 DEF Inv, TypeOK, WorkerType, Owned, RingsStay
<1>6. NoOrphan'
  BY <1>1, <1>2 DEF Inv, TypeOK, NoOrphan, WorkerType
<1>7. Copies' /\ ReadersFollow'
  BY <1>2, <1>4, QuietStep
<1>8. EndsAgree'
  <2> SUFFICES ASSUME NEW q \in Requests
               PROVE  Ends(worker'[q], ring'[q], made[q], q \in Shutting)
    BY <1>2 DEF EndsAgree
  <2>1. CASE q # p
    BY <1>1, <2>1 DEF Inv, TypeOK, EndsAgree
  <2>2. CASE q = p
    <3>1. Size(s) = Size(ring[p]) /\ CopyOf(ring[p], made[p])
      BY <1>1 DEF Inv, Copies, Same, Size
    <3>2. worker'[p].at = at /\ worker'[p].fin = worker[p].fin /\ ring'[p] = s
      BY <1>1 DEF Inv, TypeOK, WorkerType
    <3> QED BY <1>1, <2>2, <3>1, <3>2 DEF Inv, EndsAgree, Ends, CopyOf
  <2> QED BY <2>1, <2>2
<1> QED BY <1>3, <1>5, <1>6, <1>7, <1>8 DEF Inv

\* A chunk that was received: Receive, ReceiveEnd
LEMMA MirrorKeeps ==
    ASSUME Inv, NEW p \in Requests, NEW chunk \in Seq(Data),
           NEW at \in {"ask", "write", "cleanup"},
           worker[p].at = "receive", Mirror(p, chunk), GoTo(p, at),
           IsOver(p) \/ at = "cleanup" => chunk # << >> /\ Last(chunk) = End,
           UNCHANGED <<sessions, killer, reader, shut>>
    PROVE  Inv'
<1> USE ShutGrows
<1> DEFINE m == made[p]
           s == ring[p]
           m2 == made[p] \o chunk
           s2 == AppendTo(ring[p], chunk)
<1>1. /\ made' = [made EXCEPT ![p] = m2]
      /\ ring' = [ring EXCEPT ![p] = s2]
      /\ worker' = [worker EXCEPT ![p].at = at]
  BY DEF Mirror, GoTo
<1>2. /\ s \in RingType /\ Len(s.buf) <= Cap /\ m \in Seq(Data) /\ CopyOf(s, m)
      /\ ring \in [Requests -> RingType] /\ made \in [Requests -> Seq(Data)]
      /\ worker \in [Requests -> WorkerType]
  BY DEF Inv, TypeOK, Copies, Data
<1>3. /\ s2 \in RingType /\ Len(s2.buf) <= Cap
      /\ s2.done = s.done /\ s2.cancelled = s.cancelled
      /\ s.done => s2 = s
  BY <1>2, AppendShape
<1>4. /\ CopyOf(s2, m2) /\ Size(s) <= Size(s2)
      /\ m2 \in Seq(Data) /\ Len(m2) = Len(m) + Len(chunk)
      /\ \A k \in 1..Len(m) : m2[k] = m[k]
  BY <1>2, AppendCopies
<1> HIDE DEF m2, s2
<1>5. TypeOK'
  BY <1>1, <1>2, <1>3, <1>4 DEF Inv, TypeOK, WorkerType, Data
<1>6. Owned' /\ NoOrphan'
  BY <1>1, <1>2, <1>3 DEF Inv, TypeOK, Owned, NoOrphan, WorkerType
<1>7. Copies'
  BY <1>1, <1>2, <1>4 DEF Inv, Copies
<1>8. ReadersFollow'
  <2> SUFFICES ASSUME NEW r \in Readers, reader[r].at \in {"read", "done"}, reader[r].s = p
               PROVE  Follows(reader[r])'
    BY <1>1, <1>2 DEF Inv, ReadersFollow, Follows
  <2> DEFINE x == reader[r]
  <2>1. /\ x \in ReaderType /\ Follows(x) /\ reader' = reader
        /\ ring'[p] = s2 /\ made'[p] = m2
    BY <1>1, <1>2 DEF Inv, TypeOK, ReadersFollow
  <2>2. x.from \in Nat /\ x.offset \in Nat /\ Len(x.got) \in Nat
    BY <2>1, LenProperties DEF ReaderType
  <2>3. /\ Size(s) \in Nat /\ Size(s2) \in Nat /\ Len(m) \in Nat
        /\ x.got # << >> => x.offset <= Size(s)
    BY <1>2, <1>3, <2>1, LenProperties DEF Size, RingType, Follows
  <2>4. x.got # << >> => x.offset <= Size(s2) /\ x.offset <= Len(m)
    BY <1>2, <1>4, <2>2, <2>3 DEF CopyOf
  <2>5. ASSUME NEW k \in 1..Len(x.got)
        PROVE  x.got[k] = m2[x.from + k]
    <3>1. x.got # << >>
      BY <2>5
    <3>2. x.offset = x.from + Len(x.got) /\ x.offset <= Len(m) /\ Len(m) \in Nat
      BY <2>1, <2>3, <2>4, <3>1 DEF Follows
    <3>3. x.from + k \in 1..Len(m)
      BY <2>2, <3>2
    <3> QED BY <1>4, <2>1, <3>3 DEF Follows, PartOf
  <2>6. x.at = "done" => s2 = s
    BY <1>3, <2>1 DEF Follows
  <2>7. PartOf(x.got, m2, x.from)
    BY <2>5 DEF PartOf
  <2> QED BY <1>3, <2>1, <2>4, <2>6, <2>7 DEF Follows
<1>9. EndsAgree'
  <2> SUFFICES Ends(worker'[p], s2, m2, p \in Shutting)
    BY <1>1, <1>2 DEF Inv, EndsAgree
  <2>1. worker'[p].at = at /\ worker'[p].fin = worker[p].fin
    BY <1>1, <1>2 DEF WorkerType
  <2>2. chunk # << >> /\ Last(chunk) = End => m2 # << >> /\ Last(m2) = End
    <3>1. Len(m) \in Nat /\ Len(chunk) \in Nat
      BY <1>2, LenProperties
    <3>2. chunk # << >> => Len(chunk) \in 1..Len(chunk) /\ Len(m2) # 0
      BY <1>4, <3>1, EmptySeq
    <3>3. \A k \in 1..Len(chunk) : m2[Len(m) + k] = chunk[k]
      BY <1>2, ConcatProperties DEF m2
    <3> QED BY <1>4, <3>1, <3>2, <3>3 DEF Last
  <2>3. worker[p].fin => s.cancelled \/ IsOver(p)
    BY DEF Inv, EndsAgree, Ends, IsOver
  <2>4. s.done => s.cancelled \/ p \in Shutting
    BY DEF Inv, EndsAgree, Ends
  <2> QED BY <1>3, <2>1, <2>2, <2>3, <2>4 DEF Ends
<1> QED BY <1>5, <1>6, <1>7, <1>8, <1>9 DEF Inv

LEMMA GenerateKeeps ==
    ASSUME Inv, NEW p \in Requests, Generate(p)
    PROVE  Inv'
<1>1. CASE ReceiveEnd(p)
  <2>1. PICK at \in {"ask", "write", "cleanup"} : GoTo(p, at)
    BY <1>1 DEF ReceiveEnd
  <2>2. <<End>> \in Seq(Data) /\ <<End>> # << >> /\ Last(<<End>>) = End
    BY DEF Data, Last
  <2> QED BY <1>1, <2>1, <2>2, MirrorKeeps DEF ReceiveEnd
<1>2. CASE \E n \in 1..MaxChunk : Receive(p, n)
  <2>1. PICK n \in 1..MaxChunk : Receive(p, n)
    BY <1>2
  <2> DEFINE chunk == [k \in 1..n |-> Len(made[p]) + k]
  <2>2. Len(made[p]) \in Nat /\ n \in Nat
    BY ConstantsAssumption, LenProperties DEF Inv, TypeOK
  <2>3. chunk \in Seq(Data)
    BY <2>2, IsASeq DEF Data, Bytes
  <2>4. PICK at \in {"ask", "write"} : GoTo(p, at)
    BY <2>1 DEF Receive
  <2>5. /\ worker[p].at = "receive" /\ Mirror(p, chunk) /\ ~IsOver(p)
        /\ UNCHANGED <<sessions, killer, reader, shut>>
    BY <2>1 DEF Receive
  <2> HIDE DEF chunk
  <2> QED BY <2>3, <2>4, <2>5, MirrorKeeps
<1> QED BY <1>1, <1>2 DEF Generate

-----------------------------------------------------------------------------
(* The readers                                                             *)

\* A step of a reader that changes nothing else
LEMMA ReaderMoves ==
    ASSUME Inv, NEW r \in Readers, NEW x \in ReaderType, Follows(x),
           reader' = [reader EXCEPT ![r] = x],
           UNCHANGED <<sessions, ring, made, worker, killer, shut>>
    PROVE  Inv'
<1> USE ShutGrows
<1>1. TypeOK'
  BY DEF Inv, TypeOK
<1>2. Owned' /\ NoOrphan' /\ EndsAgree'
  BY DEF Inv, Owned, NoOrphan, EndsAgree
<1>3. Copies'
  BY DEF Inv, Copies
<1>4. ReadersFollow'
  <2> SUFFICES ASSUME NEW q \in Readers PROVE Follows(reader'[q])
    BY DEF ReadersFollow, Follows
  <2> QED BY DEF Inv, TypeOK, ReadersFollow
<1> QED BY <1>1, <1>2, <1>3, <1>4 DEF Inv

\* Get, ReaderLeaves, and the read that finds its offset dropped: a reader
\* with nothing received
LEMMA ReaderStarts ==
    ASSUME Inv, NEW r \in Readers, NEW at \in {"read", "lost", "left"},
           NEW p \in Requests \cup {None}, at = "read" => p \in Requests, NEW from \in Nat,
           reader' = [reader EXCEPT ![r] = Reading(at, p, from)],
           UNCHANGED <<sessions, ring, made, worker, killer, shut>>
    PROVE  Inv'
<1>1. Reading(at, p, from) \in ReaderType /\ Follows(Reading(at, p, from))
  BY DEF Reading, ReaderType, Follows, PartOf
<1> QED BY <1>1, ReaderMoves

LEMMA Balance ==
    ASSUME NEW a \in Nat, NEW b \in Nat, NEW c \in Nat, NEW d \in Nat, a + b = c + d
    PROVE  \A j \in Nat : /\ c + j = a + (b + j - d)
                          /\ c + (d + j) = a + (b + j)
OBVIOUS

\* What a reader has, and the rest of the ring after it: together they are a
\* contiguous part of what was made.
LEMMA JoinContinues ==
    ASSUME NEW s \in RingType, NEW m \in Seq(Data), CopyOf(s, m),
           NEW got \in Seq(Data), NEW from \in Nat, NEW skip \in Nat, skip < Len(s.buf),
           from + Len(got) = s.dropped + skip,
           PartOf(got, m, from),
           NEW chunk \in Seq(Data), Len(chunk) = Len(s.buf) - skip,
           PartOf(chunk, s.buf, skip)
    PROVE  /\ got \o chunk \in Seq(Data)
           /\ Size(s) \in Nat
           /\ Size(s) = from + Len(got \o chunk)
           /\ PartOf(got \o chunk, m, from)
<1>1. s.buf \in Seq(Data) /\ s.dropped \in Nat /\ Len(s.buf) \in Nat /\ Len(got) \in Nat
  BY LenProperties DEF RingType, Data
<1>2. /\ got \o chunk \in Seq(Data) /\ Len(got \o chunk) = Len(got) + Len(chunk)
      /\ \A k \in 1..Len(got) : (got \o chunk)[k] = got[k]
      /\ \A k \in 1..Len(chunk) : (got \o chunk)[Len(got) + k] = chunk[k]
  BY Joined
<1>3. Len(got \o chunk) = Len(got) + Len(s.buf) - skip
  BY <1>1, <1>2
<1>4. /\ s.dropped + Len(s.buf) = from + (Len(got) + Len(s.buf) - skip)
      /\ \A j \in Nat : s.dropped + (skip + j) = from + (Len(got) + j)
  <2> DEFINE g == Len(got)
             d == s.dropped
             n == Len(s.buf)
  <2>1. g \in Nat /\ d \in Nat /\ n \in Nat /\ from + g = d + skip
    BY <1>1
  <2> HIDE DEF g, d, n
  <2>2. \A j \in Nat : /\ d + j = from + (g + j - skip)
                       /\ d + (skip + j) = from + (g + j)
    BY <2>1, Balance
  <2> QED BY <2>1, <2>2 DEF g, d, n
<1>5. Size(s) \in Nat /\ Size(s) = from + Len(got \o chunk)
  <2>1. s.dropped + Len(s.buf) \in Nat
    BY <1>1
  <2> QED BY <1>3, <1>4, <2>1 DEF Size
<1>6. ASSUME NEW k \in 1..Len(got \o chunk), k <= Len(got)
      PROVE  (got \o chunk)[k] = m[from + k]
  BY <1>1, <1>2, <1>6 DEF PartOf
<1>7. ASSUME NEW k \in 1..Len(got \o chunk), k > Len(got)
      PROVE  (got \o chunk)[k] = m[from + k]
  <2> DEFINE j == k - Len(got)
  <2>1. k \in Nat /\ k <= Len(got) + Len(s.buf) - skip
    BY <1>1, <1>3
  <2>2. j \in 1..Len(chunk) /\ k = Len(got) + j
    BY <1>1, <1>7, <2>1
  <2>3. skip + j \in 1..Len(s.buf)
    BY <1>1, <2>2
  <2>4. s.dropped + (skip + j) = from + k
    <3>1. j \in Nat
      BY <2>2
    <3> HIDE DEF j
    <3> QED BY <1>4, <2>2, <3>1
  <2> HIDE DEF j
  <2>5. (got \o chunk)[k] = s.buf[skip + j]
    BY <1>2, <2>2 DEF PartOf
  <2>6. s.buf[skip + j] = m[s.dropped + (skip + j)]
    BY <2>3 DEF CopyOf, PartOf
  <2> QED BY <2>4, <2>5, <2>6
<1>8. \A k \in 1..Len(got \o chunk) : k <= Len(got) \/ k > Len(got)
  BY <1>1, <1>3
<1> QED BY <1>2, <1>5, <1>6, <1>7, <1>8 DEF PartOf

LEMMA ReadChunkKeeps ==
    ASSUME Inv, NEW r \in Readers, Read(r), ReadChunk(r, ring[reader[r].s])
    PROVE  Inv'
<1> DEFINE x == reader[r]
           s == ring[x.s]
           skip == x.offset - s.dropped
           chunk == SubSeq(s.buf, x.offset - s.dropped + 1, Len(s.buf))
           y == [x EXCEPT !.offset = Size(s), !.got = @ \o chunk]
<1>1. /\ x \in ReaderType /\ x.at = "read" /\ Follows(x) /\ x.s \in Requests
      /\ s.dropped <= x.offset /\ x.offset < Size(s)
      /\ reader' = [reader EXCEPT ![r] = y]
      /\ UNCHANGED <<sessions, ring, made, worker, killer, shut>>
  BY DEF Inv, TypeOK, ReadersFollow, Follows, Read, ReadChunk
<1>2. s \in RingType /\ CopyOf(s, made[x.s]) /\ made[x.s] \in Seq(Data)
  BY <1>1 DEF Inv, TypeOK, Copies, Data
<1>3. s.dropped \in Nat /\ Len(s.buf) \in Nat
  BY <1>2, LenProperties DEF RingType
<1>4. x.got \in Seq(Data) /\ x.from \in Nat /\ x.offset \in Nat
  BY <1>1 DEF ReaderType, Data
<1>5. /\ x.offset = x.from + Len(x.got)
      /\ PartOf(x.got, made[x.s], x.from)
  BY <1>1 DEF Follows
<1>6. skip \in Nat /\ skip < Len(s.buf) /\ x.offset = s.dropped + skip
  BY <1>1, <1>3, <1>4 DEF Size
<1>7. /\ x.got \o chunk \in Seq(Data)
      /\ Size(s) \in Nat
      /\ Size(s) = x.from + Len(x.got \o chunk)
      /\ PartOf(x.got \o chunk, made[x.s], x.from)
  <2>1. chunk = SubSeq(s.buf, skip + 1, Len(s.buf)) /\ s.buf \in Seq(Data)
    BY <1>2 DEF RingType, Data
  <2> HIDE DEF chunk, skip, s, x
  <2>2. chunk \in Seq(Data)
    BY <1>3, <1>6, <2>1
  <2>3. Len(chunk) = Len(s.buf) - skip
    BY <1>3, <1>6, <2>1
  <2>4. PartOf(chunk, s.buf, skip)
    BY <1>3, <1>6, <2>1, <2>3 DEF PartOf
  <2>5. x.from + Len(x.got) = s.dropped + skip
    BY <1>5, <1>6
  <2> QED BY <1>2, <1>4, <1>5, <1>6, <2>2, <2>3, <2>4, <2>5, JoinContinues
<1> HIDE DEF chunk
<1>8. /\ y \in ReaderType /\ y.at = "read" /\ y.s = x.s /\ y.from = x.from
      /\ y.offset = Size(s) /\ y.got = x.got \o chunk
  BY <1>1, <1>7 DEF ReaderType, Data
<1>9. Follows(y)
  <2>1. Size(s) <= Size(s)
    BY <1>7
  <2>2. Size(ring[y.s]) = Size(s)
    BY <1>8
  <2> HIDE DEF y, x, s
  <2> QED BY <1>1, <1>7, <1>8, <2>1, <2>2 DEF Follows
<1> QED BY <1>1, <1>8, <1>9, ReaderMoves

LEMMA ReaderKeeps ==
    ASSUME Inv, NEW r \in Readers,
           Read(r) \/ ReaderLeaves(r) \/ \E c \in Convs : Get(r, c)
    PROVE  Inv'
<1> DEFINE x == reader[r]
           s == ring[x.s]
<1>1. x \in ReaderType /\ Follows(x) /\ reader \in [Readers -> ReaderType]
  BY DEF Inv, TypeOK, ReadersFollow
<1>2. CASE ReaderLeaves(r)
  BY <1>2, ReaderStarts DEF ReaderLeaves
<1>3. CASE \E c \in Convs : Get(r, c)
  <2>1. PICK c \in Convs : Get(r, c)
    BY <1>3
  <2>2. sessions[c] \in Requests /\ ring[sessions[c]] \in RingType
    BY <2>1 DEF Get, Inv, TypeOK
  <2>3. PICK from \in ring[sessions[c]].dropped..(Size(ring[sessions[c]]) + 1) :
           reader' = [reader EXCEPT ![r] = Reading("read", sessions[c], from)]
    BY <2>1 DEF Get
  <2>4. from \in Nat
    BY <2>2, <2>3, LenProperties DEF RingType, Size
  <2> QED BY <2>1, <2>2, <2>3, <2>4, ReaderStarts DEF Get
<1>4. CASE Read(r) /\ ReadLost(r, s)
  BY <1>4, ReaderStarts DEF Read, ReadLost
<1>5. CASE Read(r) /\ ReadDone(r, s)
  <2> DEFINE y == [x EXCEPT !.at = "done"]
  <2>1. /\ reader' = [reader EXCEPT ![r] = y] /\ x.at = "read"
        /\ x.offset >= Size(s) /\ s.done
    BY <1>1, <1>5 DEF Read, ReadDone
  <2>2. /\ y \in ReaderType /\ y.at = "done" /\ y.s = x.s /\ y.from = x.from
        /\ y.offset = x.offset /\ y.got = x.got
    BY <1>1 DEF ReaderType
  <2>3. Follows(y)
    BY <1>1, <2>1, <2>2 DEF Follows
  <2> QED BY <1>5, <2>1, <2>2, <2>3, ReaderMoves DEF Read
<1>6. CASE Read(r) /\ ReadChunk(r, s)
  BY <1>6, ReadChunkKeeps
<1> QED BY <1>2, <1>3, <1>4, <1>5, <1>6 DEF Read

-----------------------------------------------------------------------------
(* The manager                                                             *)

LEMMA CollectGarbageKeeps ==
    ASSUME Inv, NEW c \in Convs, CollectGarbage(c)
    PROVE  Inv'
<1> USE ShutGrows
<1>1. /\ sessions[c] \in Requests /\ ring[sessions[c]].done
      /\ sessions' = [sessions EXCEPT ![c] = None]
      /\ UNCHANGED <<ring, made, worker, killer, reader, shut>>
  BY DEF CollectGarbage, Inv, TypeOK
<1>2. TypeOK'
  BY <1>1 DEF Inv, TypeOK
<1>3. RingsStay
  BY <1>1 DEF RingsStay, Same
<1>4. Owned' /\ NoOrphan'
  BY <1>1, ConstantsAssumption DEF Inv, TypeOK, Owned, NoOrphan
<1>5. Copies' /\ ReadersFollow'
  BY <1>1, <1>3, QuietStep
<1>6. EndsAgree'
  BY <1>1 DEF Inv, EndsAgree
<1> QED BY <1>2, <1>4, <1>5, <1>6 DEF Inv

LEMMA StopGcKeeps ==
    ASSUME Inv, StopGc
    PROVE  Inv'
<1>1. /\ shut' = Listed /\ shut = NoShutdown
      /\ sessions' = [c \in Convs |-> None]
      /\ UNCHANGED <<ring, made, worker, killer, reader>>
  BY DEF StopGc
<1>2. Shutting = {} /\ Shutting' = Listed /\ Listed \subseteq Requests
  BY <1>1 DEF Shutting, Listed, NoShutdown, Inv, TypeOK
<1>3. TypeOK'
  BY <1>1, <1>2 DEF Inv, TypeOK
<1>4. RingsStay
  BY <1>1 DEF RingsStay, Same
<1>5. Owned'
  BY <1>1 DEF Inv, Owned
<1>6. NoOrphan'
  BY <1>1, <1>2, ConstantsAssumption DEF Inv, NoOrphan, Listed
<1>7. Copies' /\ ReadersFollow'
  BY <1>1, <1>4, QuietStep
<1>8. EndsAgree'
  BY <1>1, <1>2 DEF Inv, EndsAgree, Ends
<1> QED BY <1>3, <1>5, <1>6, <1>7, <1>8 DEF Inv

LEMMA FinalizeShutKeeps ==
    ASSUME Inv, NEW p \in Requests, FinalizeShut(p)
    PROVE  Inv'
<1> USE ShutGrows
<1>1. /\ p \in Shutting
      /\ ring' = [ring EXCEPT ![p].done = TRUE]
      /\ UNCHANGED <<sessions, made, worker, killer, reader, shut>>
  BY DEF FinalizeShut, Finalized
<1>2. TypeOK'
  BY <1>1 DEF Inv, TypeOK, RingType
<1>3. RingsStay
  BY <1>1 DEF Inv, TypeOK, RingType, RingsStay, Same
<1>4. Owned'
  BY <1>1, <1>3 DEF Inv, TypeOK, RingsStay, Owned
<1>5. NoOrphan'
  BY <1>1 DEF Inv, TypeOK, RingType, NoOrphan
<1>6. Copies' /\ ReadersFollow'
  BY <1>1, <1>3, QuietStep
<1>7. EndsAgree'
  BY <1>1 DEF Inv, TypeOK, RingType, EndsAgree, Ends, Size
<1> QED BY <1>2, <1>4, <1>5, <1>6, <1>7 DEF Inv

-----------------------------------------------------------------------------
(* The theorems                                                            *)

LEMMA InitInv ==
    Init => Inv
<1> SUFFICES ASSUME Init PROVE Inv
  OBVIOUS
<1>1. NewRing \in RingType /\ Size(NewRing) = 0 /\ Len(NewRing.buf) = 0
  BY DEF NewRing, RingType, Size
<1>2. TypeOK
  BY <1>1, ConstantsAssumption
     DEF Init, TypeOK, NewRing, WorkerType, ReaderType, Reading, Idle, NoShutdown
<1>3. Owned /\ NoOrphan
  BY DEF Init, Owned, NoOrphan, Idle, Killers
<1>4. Copies
  BY <1>1 DEF Init, Copies, CopyOf, PartOf
<1>5. ReadersFollow
  BY DEF Init, ReadersFollow, Follows, Reading
<1>6. EndsAgree
  BY DEF Init, EndsAgree, Ends, NewRing
<1> QED BY <1>2, <1>3, <1>4, <1>5, <1>6 DEF Inv

LEMMA NextInv ==
    Inv /\ [Next]_vars => Inv'
<1> SUFFICES ASSUME Inv, [Next]_vars PROVE Inv'
  OBVIOUS
<1>1. CASE \E t \in Killers : Kill(t)
  BY <1>1, CancelFlagKeeps, CallKeeps, FinalizeVictimKeeps DEF Kill
<1>2. CASE \E t \in Stoppers, c \in Convs : Delete(t, c)
  BY <1>2, DeleteKeeps
<1>3. CASE \E p \in Requests : Proceed(p) \/ Generate(p) \/ PeerDrops(p) \/ FinalizeShut(p)
  BY <1>3, InstallKeeps, LoopKeeps, FlagKeeps, GenerateKeeps, FinalizeShutKeeps DEF Proceed
<1>4. CASE \E r \in Readers : Read(r) \/ ReaderLeaves(r)
  BY <1>4, ReaderKeeps
<1>5. CASE \E r \in Readers, c \in Convs : Get(r, c)
  BY <1>5, ReaderKeeps
<1>6. CASE \E c \in Convs : CollectGarbage(c)
  BY <1>6, CollectGarbageKeeps
<1>7. CASE StopGc
  BY <1>7, StopGcKeeps
<1>8. CASE UNCHANGED vars
  BY <1>8 DEF vars, Inv, TypeOK, Owned, NoOrphan, Copies, CopyOf, ReadersFollow, Follows,
              EndsAgree, Ends, Shutting
<1> QED BY <1>1, <1>2, <1>3, <1>4, <1>5, <1>6, <1>7, <1>8 DEF Next

LEMMA Invariant ==
    Spec => []Inv
BY InitInv, NextInv, PTL DEF Spec

\* The state is well typed and no ring outgrows its cap, however chunks, drops
\* and cancellations meet (stream_session::append).
THEOREM TypeCorrect ==
    Spec => []TypeOK
<1>1. Inv => TypeOK
  BY DEF Inv
<1> QED BY <1>1, Invariant, PTL

\* Every session that is not finalized is listed, or in the hands of somebody
\* who will finalize it (create_or_replace, evict_and_cancel, stop_gc).
THEOREM SessionsAreOwned ==
    Spec => []NoOrphan
<1>1. Inv => NoOrphan
  BY DEF Inv
<1> QED BY <1>1, Invariant, PTL

\* What a reader has received is a contiguous part of the generation, from the
\* offset it asked for (stream_session::read_from).
THEOREM ReplayIsFaithful ==
    Spec => []ReplayIsContiguous
<1>1. Inv => ReplayIsContiguous
  <2> SUFFICES ASSUME Inv, NEW r \in Readers, reader[r].got # << >>
               PROVE  reader[r].got = SubSeq(made[reader[r].s], reader[r].from + 1,
                                             reader[r].from + Len(reader[r].got))
    BY DEF ReplayIsContiguous
  <2> DEFINE x == reader[r]
             m == made[x.s]
             part == SubSeq(m, x.from + 1, x.from + Len(x.got))
  <2>1. /\ x \in ReaderType /\ Follows(x) /\ x.s \in Requests
        /\ m \in Seq(Data) /\ CopyOf(ring[x.s], m) /\ ring[x.s] \in RingType
    BY DEF Inv, TypeOK, ReadersFollow, Follows, Copies, Data
  <2>2. /\ x.got \in Seq(Data) /\ x.from \in Nat /\ Len(x.got) \in Nat /\ Len(m) \in Nat
        /\ Size(ring[x.s]) \in Nat
    BY <2>1, LenProperties DEF ReaderType, Data, RingType, Size
  <2>3. x.from + Len(x.got) <= Len(m)
    <3>1. x.offset = x.from + Len(x.got) /\ x.offset <= Size(ring[x.s])
      BY <2>1 DEF Follows
    <3>2. Size(ring[x.s]) <= Len(m)
      BY <2>1 DEF CopyOf
    <3> QED BY <2>2, <3>1, <3>2
  <2>4. /\ part \in Seq(Data) /\ Len(part) = Len(x.got)
        /\ \A k \in 1..Len(x.got) : part[k] = m[x.from + k]
    <3> HIDE DEF x, m
    <3>1. part \in Seq(Data)
      BY <2>1, <2>2, <2>3
    <3>2. Len(part) = Len(x.got)
      BY <2>1, <2>2, <2>3
    <3>3. \A k \in 1..Len(x.got) : part[k] = m[x.from + k]
      BY <2>1, <2>2, <2>3
    <3> QED BY <3>1, <3>2, <3>3
  <2>5. \A k \in 1..Len(x.got) : x.got[k] = m[x.from + k]
    BY <2>1 DEF Follows, PartOf
  <2> QED BY <2>2, <2>4, <2>5, SeqEqual
<1> QED BY <1>1, Invariant, PTL

\* A reader that is told the end has been given all there was
\* (stream_session::read_from, finalize).
THEOREM TheEndIsTheEnd ==
    Spec => []DoneReaderHasAll
<1>1. Inv => DoneReaderHasAll
  BY DEF Inv, ReadersFollow, Follows, DoneReaderHasAll
<1> QED BY <1>1, Invariant, PTL

\* A session that nobody stopped is finalized with the whole generation in it,
\* whether its peer stayed or dropped (stream_pipe_producer::close).
THEOREM NothingIsCutShort ==
    Spec => []OnlyStopCutsShort
<1>1. Inv => OnlyStopCutsShort
  BY DEF Inv, EndsAgree, Ends, OnlyStopCutsShort, IsOver
<1> QED BY <1>1, Invariant, PTL

=============================================================================
