------------------------------- MODULE MCSbom --------------------------------
(* Instances of SbomService for TLC, and facts about its pure definitions. *)
EXTENDS SbomProperties, TLC

Npm(name, version) == <<"npm", name, version>>
LeftPad == Npm("left-pad", "1.0.0")

\* Three components that are known: one exploited but harmless, one critical, one
\* with a CVE that a critical component has as well.
Exploited == [id |-> "CVE-1", cvss |-> 35, vector |-> {}]
Worst == [id |-> "CVE-2", cvss |-> 90, vector |-> {"AV:N", "AC:L"}]
Usual == [id |-> "CVE-3", cvss |-> 89, vector |-> {"AV:N", "AC:L"}]
Draws == (<<"axios", "1">> :> <<Exploited, Usual>>) @@ (<<"axios", "2">> :> <<Worst, Usual>>)
KevListed == {"CVE-1"}

Interchangeable == Permutations(Handlers)

------------------------------------------------------------------------------
(* Bills.                                                                  *)

Text(syntax, has) == [syntax |-> syntax, valid |-> TRUE, has |-> has]
Component(name, version, purl) ==
    [name |-> name, version |-> version, ecosystem |-> "npm", purl |-> purl,
     urls |-> <<>>, parts |-> <<>>]
Whole == [subject |-> <<Component("app", "1", <<>>)>>,
          components |-> <<[Component("axios", "1", <<>>) EXCEPT
                               !.parts = <<Component("left-pad", "", LeftPad)>>, !.urls = <<"site">>]>>,
          urls |-> <<"bill">>]
Flat == [subject |-> <<>>,
         components |-> <<Component("axios", "2", Npm("axios", "")), Component("react", "", <<"malformed">>)>>,
         urls |-> <<>>]
Package(name, version, refs) ==
    [name |-> name, version |-> version, download |-> "NOASSERTION", refs |-> refs]
Packages == <<Package("axios", "1", <<<<"PACKAGE-MANAGER", "purl", Npm("axios", "1")>>>>),
              Package("react", "1", <<>>)>>
Lines(packages) ==
    <<<<"PackageVersion", "7">>>> \o
    FlattenSeq([i \in DOMAIN packages |->
        <<<<"PackageName", packages[i].name>>, <<"PackageVersion", packages[i].version>>,
          <<"PackageDownloadLocation", packages[i].download>>>> \o
        [r \in DOMAIN packages[i].refs |-> <<"ExternalRef", packages[i].refs[r]>>]])

Blank == [subject |-> <<>>, components |-> <<>>, urls |-> <<>>]

FiveBills ==
    [whole |-> [vendor |-> "acme", content |-> Text("xml", {}), hint |-> "", body |-> Whole],
     flat |-> [vendor |-> "acme", content |-> Text("json", {"components"}), hint |-> "", body |-> Flat],
     tags |-> [vendor |-> "bolt", content |-> Text("text", {"PackageName"}), hint |-> "",
               body |-> Lines(Packages)],
     blank |-> [vendor |-> "bolt", content |-> Text("json", {"bomFormat"}), hint |-> "", body |-> Blank],
     note |-> [vendor |-> "bolt", content |-> Text("text", {}), hint |-> "SPDX", body |-> <<>>]]

------------------------------------------------------------------------------
Reference(l) == <<"PACKAGE-MANAGER", "purl", l>>
SomePackages ==
    {Package(n, v, r) : n \in {"axios", ""}, v \in {"", "1"},
        r \in {<<>>, <<Reference(LeftPad)>>, <<Reference(LeftPad), Reference(Npm("axios", ""))>>,
               <<<<"SECURITY", "cpe23Type", "cpe">>, Reference(<<"malformed">>)>>}}

\* The same packages are read from both forms of SPDX, whatever comes before the first.
ASSUME FormsOfSpdxAgree ==
    \A packages \in SeqOf(SomePackages, 2) :
        ParseSpdxTagValue(Lines(packages)) = ParseSpdxJson(packages)

\* Of a CycloneDX bill the JSON reader takes the top level, the XML reader also its
\* subject and the parts; of the URLs only the JSON reader takes the bill's own.
ASSUME FormsOfCycloneDxDiffer ==
    /\ \A bill \in {Whole, Flat} :
          LET json == ParseCycloneDxJson(bill)
              xml == ParseCycloneDxXml(bill)
          IN  /\ Range(json.components) \subseteq Range(xml.components)
              /\ Range(xml.urls) \subseteq Range(json.urls)
    /\ ParseCycloneDxJson(Flat) = ParseCycloneDxXml(Flat)
    /\ Len(ParseCycloneDxJson(Whole).components) = 1
    /\ Len(ParseCycloneDxXml(Whole).components) = 3

\* Normalising again changes nothing but that the URL is then given.
ASSUME NormaliseIsIdempotent ==
    \A c \in {Component(n, v, p) : n \in {"axios", ""}, v \in {"", "1"},
                p \in {<<>>, <<"malformed">>, LeftPad, Npm("axios", "")}} :
        Normalise(Normalise(c)) = [Normalise(c) EXCEPT !.synthesised = FALSE]

\* The table in cve_scanner.py's docstring, and the planted component.
ASSUME DeployerTree ==
    /\ \A cvss \in {1, 69, 70, 100}, vector \in {{"AV:N", "AC:L"}, {"AV:N"}, {}} :
          LET row == <<Automatable(vector), SeverityBand(cvss) \in {"High", "Critical"}>>
          IN  /\ SsvcPriority(cvss, vector, TRUE) = IF row = <<TRUE, TRUE>> THEN "Act" ELSE "Attend"
              /\ SsvcPriority(cvss, vector, FALSE) = IF row = <<TRUE, TRUE>> THEN "Track*" ELSE "Track"
    /\ \E v \in ScanComponent([name |-> "left-pad", version |-> "1.0.0"]) :
          v.severity = "Critical" /\ v.kev /\ v.ssvc = "Act"

\* A URL is fetched only when that is allowed, its host is listed, and none of the
\* addresses the host has is private.
ASSUME NothingPrivateIsFetched ==
    LET urls == [scheme : {"https", "file"}, host : {"", "nvd", "intra"},
                 addresses : SUBSET {"public", "private"}]
        fetchable(hosts) == {u \in urls : IsRefFetchable(u, TRUE, hosts)}
    IN  /\ fetchable({}) = {} /\ \A u \in urls : ~IsRefFetchable(u, FALSE, {"nvd"})
        /\ fetchable({"nvd", ""}) =
              {[scheme |-> "https", host |-> "nvd", addresses |-> {"public"}]}

\* A vendor that all the others depend on through one component is on the critical
\* path with it; with two nodes nobody is.  The view shows what the edges name.
Star == {<<"acme", "x">>, <<"bolt", "x">>, <<"core", "x">>, <<"core", "y">>}
ASSUME CriticalPaths ==
    /\ CriticalPath(Star) = {"x", "core"}
    /\ CriticalPath({<<"acme", "x">>}) = {}
    /\ CriticalPathVendors(Star)["core"] = [betweenness |-> 72, dependent_component_count |-> 2]
    /\ Scores(Star \cup {<<"acme", "y">>})["x"] = 12 * 7
    /\ LET all == [NoGraph EXCEPT !.provides = Star, !.at_risk = {<<"x", "CVE-1">>, <<"y", "CVE-2">>}]
       IN  /\ SupplyChainView(all, {"bolt"}).nodes = {"bolt", "x", "CVE-1"}
           /\ Impact(all, "CVE-1") = {"acme", "bolt", "core"}
           /\ Impact(all, "CVE-2") = {"core"}
=============================================================================
