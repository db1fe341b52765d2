--------------------------- MODULE ControlLibrary ---------------------------
(***************************************************************************)
(* The control library of compliance-service.  Of a control the engine     *)
(* uses its framework, its domain and its weight; each table counts, for   *)
(* the domains of a framework in the order of its file, the controls of    *)
(* weight 2, 3, 4 and 5.  Titles, objectives and tags are left out.        *)
(***************************************************************************)
EXTENDS Integers, FiniteSets

Iso27001 == <<<<5, 14, 12, 6>>, <<2, 5, 1, 0>>, <<8, 6, 0, 0>>, <<5, 14, 11, 4>>>>
PciDss == <<<<0, 1, 3, 3>>, <<0, 3, 1, 1>>, <<0, 0, 3, 4>>, <<0, 1, 1, 1>>, <<1, 1, 3, 0>>,
            <<0, 2, 4, 3>>, <<0, 2, 3, 0>>, <<0, 2, 3, 3>>, <<1, 3, 1, 0>>, <<1, 1, 3, 1>>,
            <<0, 3, 2, 2>>, <<1, 2, 4, 3>>>>
Soc2 == <<<<1, 20, 10, 2>>, <<0, 2, 1, 0>>, <<0, 1, 1, 0>>, <<3, 2, 0, 0>>, <<1, 4, 4, 0>>>>
Ndpr == <<<<0, 1, 4, 0>>, <<0, 1, 2, 2>>, <<0, 4, 2, 0>>, <<0, 4, 2, 0>>, <<0, 0, 1, 2>>,
          <<0, 0, 2, 0>>, <<0, 0, 1, 2>>>>
Cbn == <<<<1, 1, 3, 0>>, <<0, 2, 1, 2>>, <<0, 2, 1, 4>>, <<0, 0, 2, 2>>, <<1, 3, 0, 0>>,
         <<0, 3, 1, 0>>>>

ControlCounts ==
    [ISO27001 |-> Iso27001, PCI_DSS |-> PciDss, SOC2 |-> Soc2, NDPR |-> Ndpr, CBN |-> Cbn]
AllFrameworks == DOMAIN ControlCounts

ControlsForFramework(fw) ==
    {c \in [framework : {fw}, domain : DOMAIN ControlCounts[fw], weight : 2..5, number : 1..37] :
        c.number <= ControlCounts[fw][c.domain][c.weight - 1]}
AllControls == UNION {ControlsForFramework(fw) : fw \in AllFrameworks}
FrameworkControlCounts == [fw \in AllFrameworks |-> Cardinality(ControlsForFramework(fw))]
LibrarySize == Cardinality(AllControls)
=============================================================================
