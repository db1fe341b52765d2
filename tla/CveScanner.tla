----------------------------- MODULE CveScanner -----------------------------
(***************************************************************************)
(* sbom-service's CVE cross-reference, and the mock NVD and CISA KEV       *)
(* adapters it and risk-service look CVEs up in.                           *)
(*                                                                         *)
(* A CVE is [id, cvss, vector]: its CVSS score in tenths and the parts of  *)
(* its vector.  The adapters draw from seeded generators: the same name    *)
(* and version give the same CVEs, the same CVE the same verdict, and the  *)
(* draws are constants here.                                               *)
(***************************************************************************)
EXTENDS Integers, Sequences, FiniteSets, Functions

CONSTANTS NvdDraws,     \* <<name, version>> to the CVEs that are drawn for it
          KevDraws      \* CVEs that are drawn as exploited

Planted == [name |-> "left-pad", version |-> "1.0.0"]
PlantedCve == [id |-> "CVE-2024-99999", cvss |-> 98, vector |-> {"AV:N", "AC:L"}]
IsPlanted(name, version) == name = Planted.name /\ version = Planted.version

ASSUME ScannerAssumption ==
    /\ \A c \in DOMAIN NvdDraws :
          /\ Len(NvdDraws[c]) \in 0..3 /\ DOMAIN NvdDraws[c] = 1..Len(NvdDraws[c])
          /\ \A i \in DOMAIN NvdDraws[c] : NvdDraws[c][i].cvss \in 1..100
    /\ \A c, d \in DOMAIN NvdDraws : \A v \in Range(NvdDraws[c]), w \in Range(NvdDraws[d]) :
          v.id = w.id => v = w

\* NvdAdapter and KevAdapter; the planted component has the planted CVE, which is
\* exploited there.
NvdFetch(name, version) ==
    IF IsPlanted(name, version) THEN <<PlantedCve>>
    ELSE IF <<name, version>> \in DOMAIN NvdDraws THEN NvdDraws[<<name, version>>] ELSE <<>>
KevFetch(cve, name, version) == IsPlanted(name, version) \/ cve \in KevDraws

SeverityBand(cvss) ==
    CASE cvss >= 90 -> "Critical"
      [] cvss \in 70..89 -> "High"
      [] cvss \in 40..69 -> "Medium"
      [] cvss \in 1..39 -> "Low"
      [] cvss <= 0 -> "None"

Automatable(vector) == {"AV:N", "AC:L"} \subseteq vector

SsvcPriority(cvss, vector, exploited) ==
    LET urgent == Automatable(vector) /\ cvss >= 70
    IN  CASE exploited -> IF urgent THEN "Act" ELSE "Attend"
          [] ~exploited -> IF urgent THEN "Track*" ELSE "Track"

ScanComponent(component) ==
    {LET kev == KevFetch(cve.id, component.name, component.version) IN
     [cve |-> cve.id, cvss |-> cve.cvss, severity |-> SeverityBand(cve.cvss), kev |-> kev,
      ssvc |-> SsvcPriority(cve.cvss, cve.vector, kev)] :
        cve \in Range(NvdFetch(component.name, component.version))}
=============================================================================
