----------------------------- MODULE TaskStages -----------------------------
(***************************************************************************)
(* What the request path of llama-server promises of the tasks it is given *)
(* (tools/server/README-dev.md:104, "Example trace of a request"): a task  *)
(* is posted, waits, is bound to a slot and runs, and is over; or it is    *)
(* over without having run.  It never goes back, so nothing is computed    *)
(* twice, and its answer is received once, after it is over.  A parent and *)
(* its children are posted, start and are withdrawn together; each ends by *)
(* itself.  Queues, threads, cancels and failures cannot be seen.          *)
(***************************************************************************)
EXTENDS Integers, FiniteSets

CONSTANTS
    Tasks,   \* the tasks that clients ask for, children included
    KidsOf,  \* the children of each task
    Limit    \* n_parallel: as many tasks run at a time

VARIABLES
    stage,    \* stage[t] is "new", "waiting", "running" or "over"
    received  \* the tasks whose final result has reached the client

In(x) == {t \in Tasks : stage[t] = x}

Family(t) == {t} \cup KidsOf[t]
Families(R) == UNION {Family(t) : t \in R}

Move(T, x) == stage' = [t \in Tasks |-> IF t \in T THEN x ELSE stage[t]]

Post(R) ==
    /\ Families(R) \subseteq In("new")
    /\ Move(Families(R), "waiting")
    /\ UNCHANGED received

Start(t) ==
    /\ Family(t) \subseteq In("waiting")
    /\ Cardinality(In("running") \cup Family(t)) <= Limit
    /\ Move(Family(t), "running")
    /\ UNCHANGED received

\* The family is refused after some children have started: these are stopped,
\* one by one, and the others are over.
StartInPart(t, K) ==
    /\ Family(t) \subseteq In("waiting")
    /\ K \subseteq KidsOf[t]
    /\ Cardinality(In("running") \cup K) <= Limit
    /\ stage' = [x \in Tasks |-> IF x \in K THEN "running"
                               ELSE IF x \in Family(t) THEN "over" ELSE stage[x]]
    /\ UNCHANGED received

\* The last token, an error or a cancel
Finish(t) ==
    /\ stage[t] = "running"
    /\ Move({t}, "over")
    /\ UNCHANGED received

\* Refused, answered at once, or no longer wanted
Withdraw(R) ==
    /\ Families(R) \subseteq In("new") \cup In("waiting")
    /\ Move(Families(R), "over")
    /\ UNCHANGED received

Receive(t) ==
    /\ stage[t] = "over" /\ t \notin received
    /\ received' = received \cup {t}
    /\ UNCHANGED stage

Init == stage = [t \in Tasks |-> "new"] /\ received = {}

Next ==
    \/ \E R \in SUBSET Tasks : Post(R) \/ Withdraw(R)
    \/ \E t \in Tasks : Start(t) \/ Finish(t) \/ Receive(t)
    \/ \E t \in Tasks : \E K \in SUBSET Tasks : StartInPart(t, K)

Spec == Init /\ [][Next]_<<stage, received>>

=============================================================================
