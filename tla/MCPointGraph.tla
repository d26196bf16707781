---------------------------- MODULE MCPointGraph ----------------------------
(***************************************************************************)
(* Every small graph, circles of negative and of zero cost included, and   *)
(* graphs of five nodes whose links cost the same: the least number where  *)
(* an order of expansion can matter then, with two ways of different length *)
(* that share no inner node, the longer one found first.                   *)
(***************************************************************************)
EXTENDS PointGraph

MCCosts == {-1, 0, 1}

Small == Size <= 3 /\ NumLinks <= 3

\* Up to renaming of nodes, order of links and links that are of no use: nodes
\* are added before links, each link leads to another node and is there once,
\* and the search is from the first node to the last.
Canonical ==
  /\ \A l \in AllLinks : l.cost = 1
  /\ NumLinks > 0 => Size = MaxNodes
  /\ \A n \in DOMAIN links :
       /\ \A l \in Range(links[n]) : l.to # n
       /\ \A i \in 1..(Len(links[n]) - 1) : links[n][i].to < links[n][i + 1].to
  /\ pc # "build" => Size = MaxNodes /\ start = 0 /\ goal = MaxNodes - 1

SmallOrCanonical == Small \/ Canonical

=============================================================================
