-------------------------- MODULE SupplyChainGraph --------------------------
(***************************************************************************)
(* sbom-service's dependency graph of vendors, components and              *)
(* vulnerabilities: what an upsert writes, what the reads make of it.  A   *)
(* graph is [tiers, provides, at_risk, severity]: the tier of each vendor, *)
(* edges <<vendor, purl>>, edges <<purl, cve>>, and the severity of each   *)
(* CVE; components and CVEs have no other property a read shows.           *)
(***************************************************************************)
EXTENDS Integers, Sequences, FiniteSets, FiniteSetsExt, Functions

NoGraph == [tiers |-> <<>>, provides |-> {}, at_risk |-> {}, severity |-> <<>>]

Merge2(f, g) == [k \in DOMAIN f \cup DOMAIN g |-> IF k \in DOMAIN g THEN g[k] ELSE f[k]]

\* UNWIND over the vulnerabilities comes after the MERGE of the component: those
\* without any are kept.  A scan is a set of [component, vulnerabilities].
VulnerableOnly(scan) == {s \in scan : s.vulnerabilities # {}}
EveryComponent(scan) == scan

UpsertVendorSubgraph(graph, vendor, tier, scan) ==
    LET found == UNION {s.vulnerabilities : s \in scan} IN
    [tiers |-> Merge2(graph.tiers, [v \in {vendor} |-> tier]),
     provides |-> graph.provides \cup {<<vendor, s.component.purl>> : s \in EveryComponent(scan)},
     at_risk |-> graph.at_risk \cup
         UNION {{<<s.component.purl, v.cve>> : v \in s.vulnerabilities} : s \in scan},
     severity |-> Merge2(graph.severity,
                         [c \in {v.cve : v \in found} |-> (CHOOSE v \in found : v.cve = c).severity])]

\* _fetch_graph_triples: of one vendor, or of all.
FetchTriples(graph, vendors) ==
    {p \in graph.provides : p[1] \in vendors}

\* get_supply_chain_graph: the nodes and edges of the view.
SupplyChainView(graph, vendors) ==
    LET provides == FetchTriples(graph, vendors)
        components == {p[2] : p \in provides}
        at_risk == {e \in graph.at_risk : e[1] \in components}
    IN  [nodes |-> {p[1] : p \in provides} \cup components \cup {e[2] : e \in at_risk},
         edges |-> provides \cup at_risk]

\* The CVEs that reach a vendor along the graph.
Impact(graph, cve) ==
    {p[1] : p \in {q \in graph.provides : <<q[2], cve>> \in graph.at_risk}}

------------------------------------------------------------------------------
(* Betweenness, over the undirected graph of vendors and components: the   *)
(* share of the shortest paths of two others that a node is on, summed.    *)
(* It is counted in twelfths, which is exact while no two nodes have more  *)
(* than four shortest paths; networkx's normalisation does not change the  *)
(* order.  PageRank is left out.                                           *)

Nodes(provides) == {p[1] : p \in provides} \cup {p[2] : p \in provides}
Adjacent(provides, a, b) == <<a, b>> \in provides \/ <<b, a>> \in provides

\* Walks[k][a, b]: how many walks of k edges lead from a to b.
Walks(provides) ==
    LET nodes == Nodes(provides)
        w[k \in 0..Cardinality(nodes)] ==
            IF k = 0 THEN [a, b \in nodes |-> IF a = b THEN 1 ELSE 0]
            ELSE [a, b \in nodes |->
                    MapThenSumSet(LAMBDA n : w[k - 1][a, n],
                                  {n \in nodes : Adjacent(provides, n, b)})]
    IN  w

Scores(provides) ==
    LET nodes == Nodes(provides)
        walks == Walks(provides)
        joined == {p \in nodes \X nodes : p[1] # p[2] /\ \E k \in DOMAIN walks : walks[k][p] > 0}
        distance == [p \in joined |->
            CHOOSE k \in DOMAIN walks : walks[k][p] > 0 /\ \A j \in 0..(k - 1) : walks[j][p] = 0]
        onTheWay(n, p) ==
            /\ n \notin {p[1], p[2]} /\ <<p[1], n>> \in joined
            /\ distance[<<p[1], n>>] + distance[<<n, p[2]>>] = distance[p]
        count(p) == walks[distance[p]][p]
        share(n, p) == (12 * count(<<p[1], n>>) * count(<<n, p[2]>>)) \div count(p)
    IN  [n \in nodes |->
            MapThenSumSet(LAMBDA p : share(n, p), {p \in joined : onTheWay(n, p)})]

\* A node is critical when its score is positive and at least the third best.
CriticalPath(provides) ==
    LET scores == Scores(provides)
    IN  {n \in DOMAIN scores :
            /\ Cardinality(DOMAIN scores) > 2
            /\ scores[n] > 0
            /\ Cardinality({m \in DOMAIN scores : scores[m] > scores[n]}) < 3}

\* get_critical_path_vendors: what a vendor is ranked by, before PageRank.
CriticalPathVendors(provides) ==
    [v \in {p[1] : p \in provides} |->
        [betweenness |-> Scores(provides)[v],
         dependent_component_count |-> Cardinality({p \in provides : p[1] = v})]]
=============================================================================
