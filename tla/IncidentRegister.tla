-------------------------- MODULE IncidentRegister --------------------------
(***************************************************************************)
(* What incident-service promises its users, with no sessions, locks or    *)
(* messages: a numbered register in which incidents are opened, each alert *)
(* at most once, and move through the lifecycle one legal change at a time.*)
(***************************************************************************)
EXTENDS IncidentLifecycle, Sequences

CONSTANTS Alerts, NoAlert

VARIABLE register   \* the n-th incident: where it came from, and its status

Init == register = <<>>

Open(source) ==
    /\ source \in Alerts => \A n \in 1..Len(register) : register[n].source # source
    /\ register' = Append(register, [source |-> source, status |-> "open"])

Move(n, target) ==
    /\ CanTransition(register[n].status, target)
    /\ register' = [register EXCEPT ![n].status = target]

Next ==
    \/ \E source \in Alerts \cup {NoAlert} : Open(source)
    \/ \E n \in 1..Len(register) : \E target \in Statuses : Move(n, target)

Spec == Init /\ [][Next]_register
=============================================================================
