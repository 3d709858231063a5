------------------------------ MODULE ModelHost ------------------------------
(***************************************************************************)
(* What the router promises whoever asks it for a model (tools/server/     *)
(* README.md:1661, --models-max at :218): a model is off, or a process of  *)
(* its own serves it, of which there are never more than the limit.  Its   *)
(* list says of a model what its process reported, in that order and       *)
(* nothing else; the model is off again only once its process has ended    *)
(* and all it said has been heard, and not before may the next one start.  *)
(* Threads, requests, stops and reloads of the list cannot be seen.        *)
(***************************************************************************)
EXTENDS Integers, FiniteSets, Sequences

CONSTANTS
    Models,
    Limit    \* models_max, 0 = no limit

VARIABLES
    process, \* what the process of a model does, "none" when the model is off
    unheard, \* what it reported and the list does not say yet
    listed   \* what the list says of a model

On == {m \in Models : process[m] # "none"}
Ended(m) == process[m] = "gone"

Start(m) ==
    /\ m \notin On
    /\ Limit > 0 => Cardinality(On) < Limit
    /\ process' = [process EXCEPT ![m] = "boot"]
    /\ listed' = [listed EXCEPT ![m] = "loading"]
    /\ UNCHANGED unheard

\* The life of a process and the word it reports at each turn
Turns == {<<"boot", "ready", "loaded">>, <<"ready", "sleep", "sleeping">>,
          <<"sleep", "wake", "loading">>, <<"wake", "ready", "loaded">>}

Report(m) ==
    /\ \E t \in Turns :
          /\ process[m] = t[1]
          /\ process' = [process EXCEPT ![m] = t[2]]
          /\ unheard' = [unheard EXCEPT ![m] = Append(@, t[3])]
    /\ UNCHANGED listed

\* It exits, crashes or is killed.
End(m) ==
    /\ m \in On /\ ~Ended(m)
    /\ process' = [process EXCEPT ![m] = "gone"]
    /\ UNCHANGED <<unheard, listed>>

Hear(m) ==
    /\ unheard[m] # <<>>
    /\ listed' = [listed EXCEPT ![m] = Head(unheard[m])]
    /\ unheard' = [unheard EXCEPT ![m] = Tail(@)]
    /\ UNCHANGED process

\* Whoever waits is told that the model is off.
Tell(m) ==
    /\ Ended(m) /\ unheard[m] = <<>>
    /\ process' = [process EXCEPT ![m] = "none"]
    /\ listed' = [listed EXCEPT ![m] = "off"]
    /\ UNCHANGED unheard

Init ==
    /\ process = [m \in Models |-> "none"]
    /\ unheard = [m \in Models |-> <<>>]
    /\ listed = [m \in Models |-> "off"]

Next == \E m \in Models : Start(m) \/ Report(m) \/ End(m) \/ Hear(m) \/ Tell(m)

Spec == Init /\ [][Next]_<<process, unheard, listed>>

=============================================================================
