----------------------------- MODULE MCIncident -----------------------------
(* Instances of IncidentService for TLC. *)
EXTENDS IncidentProperties, TLC

\* Handlers, alerts and analysts are interchangeable; used by safety runs only.
Symmetry == Permutations(Handlers) \cup Permutations(Alerts) \cup Permutations(Consumers)
=============================================================================
