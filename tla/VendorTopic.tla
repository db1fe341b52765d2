---------------------------- MODULE VendorTopic ----------------------------
(***************************************************************************)
(* What vendor-service promises the consumers of VENDOR_LIFECYCLE_EVENTS:  *)
(* a request commits the creation of a vendor, or a step the lifecycle     *)
(* allows, and then announces it, once, or is cut off and never does.      *)
(* Nothing is promised about the order of the announcements of requests    *)
(* that overlap.                                                           *)
(***************************************************************************)
EXTENDS VendorLifecycle

CONSTANTS Handlers,      \* requests served at the same time
          VendorIds      \* the vendors
VARIABLES announced,     \* the steps on the topic, in its order
          pending        \* steps committed and not announced, by request

topicVars == <<announced, pending>>

LifecycleSteps ==
    {e \in [vendor : VendorIds, from : States \cup {""}, to : States] :
        IF e.from = "" THEN e.to = "INITIATED" ELSE ValidTransition(e.from, e.to)}

Init == announced = <<>> /\ pending = {}

CommitStep(h) ==
    /\ \A p \in pending : p.by # h
    /\ \E step \in LifecycleSteps : pending' = pending \cup {[by |-> h, step |-> step]}
    /\ UNCHANGED announced

Announce(h) ==
    \E p \in pending :
        /\ p.by = h
        /\ announced' = Append(announced, p.step)
        /\ pending' = pending \ {p}

Drop(h) ==
    \E p \in pending : p.by = h /\ pending' = pending \ {p} /\ UNCHANGED announced

Next == \E h \in Handlers : CommitStep(h) \/ Announce(h) \/ Drop(h)

Spec == Init /\ [][Next]_topicVars /\ \A h \in Handlers : WF_topicVars(Announce(h) \/ Drop(h))
=============================================================================
