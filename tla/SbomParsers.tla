---------------------------- MODULE SbomParsers -----------------------------
(***************************************************************************)
(* sbom-service's parsers: CycloneDX (JSON and XML) and SPDX (JSON and     *)
(* tag-value) to a list of components with canonical package URLs, and the *)
(* screening of the URLs they mention.                                     *)
(*                                                                         *)
(* A package URL is <<type, name, version>>, <<>> when there is none, and  *)
(* <<"malformed">> when the library rejects it; an absent text is "".      *)
(* Namespaces, case, hashes and document names are left out.               *)
(***************************************************************************)
EXTENDS Integers, Sequences, SequencesExt

(* purl_normalizer.py                                                      *)

PurlTypeOfEcosystem ==
    [npm |-> "npm", node |-> "npm", javascript |-> "npm",
     pypi |-> "pypi", python |-> "pypi", pip |-> "pypi",
     maven |-> "maven", java |-> "maven", gem |-> "gem", ruby |-> "gem",
     golang |-> "golang", go |-> "golang", cargo |-> "cargo", rust |-> "cargo",
     nuget |-> "nuget", dotnet |-> "nuget", composer |-> "composer", php |-> "composer",
     deb |-> "deb", rpm |-> "rpm", apk |-> "apk", docker |-> "docker", oci |-> "oci",
     generic |-> "generic", library |-> "generic", application |-> "generic",
     framework |-> "generic"]
NamedEcosystems == {"npm", "pypi", "maven", "golang", "cargo", "nuget", "composer"}

PurlTypeFor(ecosystem) ==
    IF ecosystem \in DOMAIN PurlTypeOfEcosystem THEN PurlTypeOfEcosystem[ecosystem] ELSE "generic"
EcosystemFromPurlType(type) ==
    LET named == {e \in NamedEcosystems : PurlTypeOfEcosystem[e] = type}
    IN  IF named = {} THEN type ELSE CHOOSE e \in named : TRUE

OrElse(text, default) == IF text = "" THEN default ELSE text

\* It would be wrong to leave the version out of the identity of a component.
Unversioned(type, name, version) == <<type, name, "">>
Purl(type, name, version) == <<type, name, version>>

\* A component is [name, version, ecosystem, purl].
Normalise(c) ==
    LET given == Len(c.purl) = 3
        type == IF given THEN c.purl[1] ELSE PurlTypeFor(c.ecosystem)
        name == IF given THEN c.purl[2] ELSE OrElse(c.name, "unknown")
        version == IF given THEN OrElse(c.purl[3], c.version) ELSE c.version
    IN  [name |-> name, version |-> version, ecosystem |-> EcosystemFromPurlType(type),
         purl |-> Purl(type, name, version), synthesised |-> ~given]

MapSeq(Op(_), s) == [i \in DOMAIN s |-> Op(s[i])]
\* It would be wrong to trust what a bill says.
AsListed(components) == components
NormaliseAll(components) == MapSeq(Normalise, components)
Parsed(format, components, urls) ==
    [format |-> format, components |-> NormaliseAll(components), urls |-> urls]

------------------------------------------------------------------------------
(* CycloneDX: a bill is [subject, components, urls]; subject, the component *)
(* the bill is about, is a sequence of at most one; a component also has   *)
(* its own urls and the parts it is assembled from.                        *)

UrlsOf(components) == FlattenSeq(MapSeq(LAMBDA c : c.urls, components))

\* Only the top level is read.
ParseCycloneDxJson(bill) ==
    Parsed("CycloneDX", bill.components, UrlsOf(bill.components) \o bill.urls)

\* Every component element is read, the subject and the parts included; the urls
\* of the bill itself are not.
Elements(bill) ==
    FlattenSeq(MapSeq(LAMBDA c : <<c>> \o c.parts, bill.subject \o bill.components))
ParseCycloneDxXml(bill) == Parsed("CycloneDX", Elements(bill), UrlsOf(Elements(bill)))

------------------------------------------------------------------------------
(* SPDX: a package is [name, version, download, refs], a reference         *)
(* <<category, type, locator>>; what a tag-value file says is a sequence   *)
(* of <<tag, value>>.                                                      *)

NoLocation == {"NOASSERTION", "NONE"}

\* The last package URL counts.
PurlOf(refs) ==
    FoldLeft(LAMBDA purl, ref : IF Len(ref) >= 3 /\ ref[2] = "purl" THEN ref[3] ELSE purl,
             <<>>, refs)
SpdxComponent(package) ==
    [name |-> package.name, version |-> package.version, ecosystem |-> "",
     purl |-> PurlOf(package.refs)]
DownloadUrls(packages) ==
    MapSeq(LAMBDA p : p.download, SelectSeq(packages, LAMBDA p : p.download \notin NoLocation \cup {""}))
ParseSpdxJson(packages) ==
    Parsed("SPDX", MapSeq(SpdxComponent, packages), DownloadUrls(packages))

\* A PackageName ends the current package; other tags belong to it, if there is one.
ReadLine(state, line) ==
    LET tag == line[1]
        value == line[2]
    IN  CASE tag = "PackageName" ->
               [done |-> state.done \o state.current, urls |-> state.urls,
                current |-> <<[name |-> value, version |-> "", ecosystem |-> "", purl |-> <<>>]>>]
          [] tag = "PackageVersion" /\ state.current # <<>> ->
               [state EXCEPT !.current[1].version = value]
          [] tag = "PackageDownloadLocation" /\ state.current # <<>> /\ value \notin NoLocation ->
               [state EXCEPT !.urls = Append(@, value)]
          [] tag = "ExternalRef" /\ state.current # <<>> ->
               IF Len(value) >= 3 /\ value[2] = "purl"
               THEN [state EXCEPT !.current[1].purl = value[3]] ELSE state
          [] OTHER -> state
ParseSpdxTagValue(lines) ==
    LET end == FoldLeft(ReadLine, [done |-> <<>>, current |-> <<>>, urls |-> <<>>], lines)
    IN  Parsed("SPDX", end.done \o end.current, end.urls)

\* detect_and_parse: content is how the text starts and the keys or words it has.
DetectFormat(content, hint) ==
    CASE content.syntax = "json" /\ ~content.valid -> "error"
      [] content.syntax = "json" /\ content.valid ->
           IF content.has \cap {"bomFormat", "cyclonedx schema", "components"} # {} THEN "CycloneDX JSON"
           ELSE IF content.has \cap {"spdxVersion", "packages", "SPDXID"} # {} \/ hint = "SPDX"
           THEN "SPDX JSON" ELSE "CycloneDX JSON"
      [] content.syntax = "xml" -> IF content.valid THEN "CycloneDX XML" ELSE "exception"
      [] content.syntax = "text" ->
           IF content.has \cap {"SPDXVersion", "PackageName", "SPDXID"} # {} THEN "SPDX tag-value"
           ELSE "error"

\* is_ref_fetchable: a url is [scheme, host, addresses], the addresses "public" or
\* not; none when its host does not resolve.
IsRefFetchable(url, enabled, allowedHosts) ==
    /\ enabled
    /\ url.scheme \in {"http", "https"}
    /\ url.host # "" /\ url.host \in allowedHosts
    /\ url.addresses = {"public"}
=============================================================================
