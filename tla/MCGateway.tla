------------------------------ MODULE MCGateway ------------------------------
(* Instances of Gateway for TLC. *)
EXTENDS GatewayProperties, TLC

OneOfficer == [officer |-> "risk_officer"]

EveryPath == {Login, MfaVerify, SeedUsers, DashboardSummary, CreateVendor,
              CreateAssessment, <<"reports">>}

Interchangeable == Permutations(Slots)
=============================================================================
