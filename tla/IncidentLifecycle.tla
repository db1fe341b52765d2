-------------------------- MODULE IncidentLifecycle --------------------------
(***************************************************************************)
(* The lifecycle policy of incident-service: the status machine, the       *)
(* severity order and the flags derived from it, and the timestamps a      *)
(* status change stamps.  Pure functions of                                *)
(* services/incident-service/app/services/lifecycle.py and                 *)
(* incident_service.py; no state.                                          *)
(***************************************************************************)
EXTENDS Naturals

Statuses == {"open", "investigating", "contained", "resolved", "closed"}

Transitions ==
    [open          |-> {"investigating", "contained", "resolved", "closed"},
     investigating |-> {"contained", "resolved", "closed"},
     contained     |-> {"resolved", "investigating", "closed"},
     resolved      |-> {"closed", "investigating"},
     closed        |-> {}]

CanTransition(current, target) == target \in Transitions[current]

\* Low, Medium, High and Critical are their ranks 0 to 3.
SeverityRanks == 0..3
High == 2

RequiresCbn(severity) == severity >= High

\* settings.auto_open_min_severity is the argument minimum.
AboveAutoOpenThreshold(severity, minimum) == severity > minimum
MeetsAutoOpenThreshold(severity, minimum) == severity >= minimum

\* The nullable timestamp columns of an incident; a row holds the set of
\* those that are not NULL.
Stamps == {"contained", "resolved", "closed"}

\* A direct close that forgets the resolution time.
CloseWithoutResolving(stamped, target) == stamped \cup ({target} \cap Stamps)

\* The columns a change to target stamps, given those already set.
StampStatusTimestamps(stamped, target) ==
    stamped \cup
        CASE target = "contained" -> {"contained"}
          [] target = "resolved"  -> {"resolved"}
          [] target = "closed" /\ "closed" \notin stamped
                                  -> {"closed", "resolved"}
          [] OTHER                -> {}

\* One regulator excludes the other.
DraftsForOne(severity, ndpa) ==
    IF RequiresCbn(severity) THEN {"CBN"} ELSE IF ndpa THEN {"NDPC"} ELSE {}

\* The regulators a notification is drafted for when an incident is created.
DraftsFor(severity, ndpa) ==
    {g \in {"CBN", "NDPC"} : \/ g = "CBN" /\ RequiresCbn(severity)
                             \/ g = "NDPC" /\ ndpa}
=============================================================================
