---------------------------- MODULE MCServerQueue ----------------------------
(***************************************************************************)
(* Requests for TLC.  Each definition is one population of clients; the    *)
(* configurations choose one and the faults it meets.                      *)
(***************************************************************************)
EXTENDS ServerQueue, TLC

CONSTANTS r1, r2, r3, t1, t2, t3, t4, u1

MCSlots1 == {0}
MCSlots2 == {0, 1}

Task(kind, slot, user, kids) == [kind |-> kind, slot |-> slot, user |-> user, kids |-> kids]
Plain == Task("completion", NoSlot, NoUser, << >>)

\* one parent with one child
EmptyTasksOf == r1 :> <<t1>>
EmptyInfo == (t1 :> Task("completion", NoSlot, NoUser, <<t2>>)) @@ (t2 :> Plain)

\* a parent with one child, and a slot to save
FamilyTasksOf == (r1 :> <<t1>>) @@ (r2 :> <<t3>>)
FamilyInfo == (t1 :> Task("completion", NoSlot, NoUser, <<t2>>)) @@ (t2 :> Plain)
              @@ (t3 :> Task("slot_action", 0, NoUser, << >>))

\* a parent with one child, and two prompts in one request, one of them for slot 0
CrowdTasksOf == (r1 :> <<t1>>) @@ (r2 :> <<t3, t4>>)
CrowdInfo == (t1 :> Task("completion", NoSlot, NoUser, <<t2>>)) @@ (t2 :> Plain)
             @@ (t3 :> Task("completion", 0, NoUser, << >>)) @@ (t4 :> Plain)

\* one plain completion per request
PlainTasksOf == [r \in Readers |-> <<CASE r = r1 -> t1 [] r = r2 -> t2 [] r = r3 -> t3>>]
PlainInfo == [t \in Tasks |-> Plain]

\* a long completion, a slot to save and a completion that waits for the slot
SaveInfo == (t1 :> Plain) @@ (t2 :> Task("slot_action", 0, NoUser, << >>)) @@ (t3 :> Plain)

\* two completions of a user, and a metrics query
UserInfo == [t \in Tasks |-> IF t = t3 THEN Task("metrics", NoSlot, NoUser, << >>)
                             ELSE Task("completion", NoSlot, u1, << >>)]

=============================================================================
