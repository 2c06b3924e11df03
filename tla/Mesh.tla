-------------------------------- MODULE Mesh --------------------------------
(***************************************************************************)
(* What the mesh promises the services above it, without saying how: a     *)
(* device handles only what some device published, never its own message,  *)
(* and no message twice as long as it remembers it.  Nothing has to        *)
(* arrive.                                                                 *)
(***************************************************************************)
EXTENDS Naturals

CONSTANTS
    Node,
    Msg,
    Origin      \* [Msg -> Node], who publishes a message

VARIABLES
    published,  \* the messages given to the mesh
    remembered, \* what each device would recognise
    handled     \* how often a device's handlers were called with a message

vars == <<published, remembered, handled>>

Init ==
    /\ published = {}
    /\ remembered = [n \in Node |-> {}]
    /\ handled = [n \in Node |-> [m \in Msg |-> 0]]

\* The device remembers m from now on, and may drop others.
Remembers(n, m) ==
    \E kept \in SUBSET remembered[n] :
        remembered' = [remembered EXCEPT ![n] = kept \cup {m}]

Publish(m) ==
    /\ m \notin published
    /\ published' = published \cup {m}
    /\ Remembers(Origin[m], m)
    /\ UNCHANGED handled

Handle(n, m) ==
    /\ m \in published \ remembered[n]
    /\ handled' = [handled EXCEPT ![n][m] = @ + 1]
    /\ Remembers(n, m)
    /\ UNCHANGED published

Forget(n) ==
    /\ \E kept \in SUBSET remembered[n] :
          remembered' = [remembered EXCEPT ![n] = kept]
    /\ UNCHANGED <<published, handled>>

Next ==
    \/ \E m \in Msg : Publish(m)
    \/ \E n \in Node : \/ Forget(n)
                       \/ \E m \in Msg : Handle(n, m)

Spec == Init /\ [][Next]_vars
=============================================================================
