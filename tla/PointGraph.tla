----------------------------- MODULE PointGraph -----------------------------
(***************************************************************************)
(* PointGraph (pointgraph.cpp): the directed graph of points that scripts  *)
(* build for path finding, and its findShortestPath, link by link.         *)
(*                                                                         *)
(* The maps of a search are filled with insert, which keeps what is there, *)
(* so the score and the predecessor of a node are those of the first link  *)
(* that reached it.  Links may have any int cost.  The priority queue may  *)
(* hold a node more than once, but only its first pop does anything: it is *)
(* a set here.  Nodes of equal score may be popped in any order.           *)
(*                                                                         *)
(* fScores, with its distances and their cache of square roots, is never   *)
(* read by the search and left out: a point is just something to look up.  *)
(***************************************************************************)
EXTENDS Integers, Sequences, FiniteSetsExt

CONSTANTS
  Points,    \* points a node may have
  Costs,     \* costs a link may have
  MaxNodes,  \* bound
  MaxLinks   \* bound: links of the whole graph

ASSUME GraphConstants == Costs \subseteq Int /\ MaxNodes \in Nat /\ MaxLinks \in Nat

VARIABLES
  points,         \* the point of each node
  links,          \* the links of each node
  nodeIdByPoint,
  pc,             \* "build", "search", "trace" (reconstructPath), "done" or "endless"
  start, goal, gScores, cameFrom, openSet, hasVisited,
  current,        \* the node visited last
  todo,           \* its links that are still to be followed
  path            \* what reconstructPath has; empty for no path

builtVars  == <<points, links, nodeIdByPoint>>
searchVars == <<start, goal, gScores, cameFrom, openSet, hasVisited, current, todo>>
graphVars  == <<builtVars, searchVars, pc, path>>

Size == Cardinality(DOMAIN points)

\* The links as records that name both ends.
AllLinks == UNION {{[from |-> n, to |-> l.to, cost |-> l.cost] : l \in Range(links[n])} :
                     n \in DOMAIN links}

NumLinks == MapThenSumSet(LAMBDA n : Len(links[n]), DOMAIN links)

\* std::unordered_map::insert.
Insert(map, key, value) ==
  [k \in DOMAIN map \cup {key} |-> IF k \in DOMAIN map THEN map[k] ELSE value]

-----------------------------------------------------------------------------
GraphInit ==
  /\ points = <<>> /\ links = <<>> /\ nodeIdByPoint = <<>>
  /\ pc = "build"
  /\ start = 0 /\ goal = 0
  /\ gScores = <<>> /\ cameFrom = <<>>
  /\ openSet = {} /\ hasVisited = {}
  /\ current = 0 /\ todo = <<>>
  /\ path = <<>>

AddNode(point) ==
  /\ pc = "build" /\ Size < MaxNodes
  /\ points' = Insert(points, Size, point)
  /\ links' = Insert(links, Size, <<>>)
  /\ nodeIdByPoint' = Insert(nodeIdByPoint, point, Size)
  /\ UNCHANGED <<searchVars, pc, path>>

\* Ids out of range are refused with an exception.
AddLink(from, to, cost) ==
  /\ pc = "build" /\ NumLinks < MaxLinks
  /\ from \in DOMAIN points /\ to < Size
  /\ links' = [links EXCEPT ![from] = Append(@, [to |-> to, cost |-> cost])]
  /\ UNCHANGED <<points, nodeIdByPoint, searchVars, pc, path>>

-----------------------------------------------------------------------------
\* findShortestPath of two nodes of the graph, up to its loop.
FindShortestPath(s, g) ==
  /\ pc = "build"
  /\ pc' = "search"
  /\ start' = s /\ goal' = g
  /\ gScores' = Insert(<<>>, s, 0)
  /\ openSet' = {s}
  /\ UNCHANGED <<builtVars, cameFrom, hasVisited, current, todo, path>>

\* The loop over a node's links has ended.
AtTop == pc = "search" /\ todo = <<>>

\* Faulty: a max-heap.
BestOpenIsDearest == {n \in openSet : \A m \in openSet : gScores[n] >= gScores[m]}

\* The nodes that may be on top of the queue.
BestOpen == {n \in openSet : \A m \in openSet : gScores[n] <= gScores[m]}

SkipNode(n) ==
  /\ AtTop /\ n \in BestOpen \ {goal}
  /\ n \in hasVisited
  /\ openSet' = openSet \ {n}
  /\ UNCHANGED <<builtVars, pc, start, goal, gScores, cameFrom, hasVisited, current,
                 todo, path>>

\* Faulty: nodes are never marked as visited.
VisitNodeUnmarked(n) ==
  /\ AtTop /\ n \in BestOpen \ {goal}
  /\ n \notin hasVisited
  /\ openSet' = openSet \ {n}
  /\ current' = n /\ todo' = links[n]
  /\ UNCHANGED <<builtVars, pc, start, goal, gScores, cameFrom, hasVisited, path>>

VisitNode(n) ==
  /\ AtTop /\ n \in BestOpen \ {goal}
  /\ n \notin hasVisited
  /\ openSet' = openSet \ {n}
  /\ hasVisited' = hasVisited \cup {n}
  /\ current' = n /\ todo' = links[n]
  /\ UNCHANGED <<builtVars, pc, start, goal, gScores, cameFrom, path>>

\* Faulty: a path of equal cost counts as better.
BetterOrEqual(n, score) == n \notin DOMAIN gScores \/ score <= gScores[n]

\* score < getScoreOrInfinity(gScores, n).
Better(n, score) == n \notin DOMAIN gScores \/ score < gScores[n]

\* Faulty: the queue forgets the nodes it had.
RecordForgets(n, score) ==
  /\ cameFrom' = Insert(cameFrom, n, current)
  /\ gScores' = Insert(gScores, n, score)
  /\ openSet' = {n}

Record(n, score) ==
  /\ cameFrom' = Insert(cameFrom, n, current)
  /\ gScores' = Insert(gScores, n, score)
  /\ openSet' = openSet \cup {n}

\* A turn of the loop over the links of the current node.
FollowLink ==
  /\ pc = "search" /\ todo # <<>>
  /\ todo' = Tail(todo)
  /\ LET link      == Head(todo)
         tentative == gScores[current] + link.cost
     IN  IF Better(link.to, tentative) THEN Record(link.to, tentative)
         ELSE UNCHANGED <<cameFrom, gScores, openSet>>
  /\ UNCHANGED <<builtVars, pc, start, goal, hasVisited, current, path>>

ReachedGoal ==
  /\ AtTop /\ goal \in BestOpen
  /\ pc' = "trace" /\ path' = <<goal>>
  /\ UNCHANGED <<builtVars, searchVars>>

NoPath ==
  /\ AtTop /\ openSet = {}
  /\ pc' = "done"
  /\ UNCHANGED <<builtVars, searchVars, path>>

-----------------------------------------------------------------------------
(* reconstructPath.  A path of more nodes than there are visits one twice,  *)
(* and then goes round for ever.                                            *)

TraceBack ==
  /\ pc = "trace" /\ path[1] \in DOMAIN cameFrom /\ Len(path) <= Size
  /\ path' = <<cameFrom[path[1]]>> \o path
  /\ UNCHANGED <<builtVars, searchVars, pc>>

TraceEnds ==
  /\ pc = "trace" /\ path[1] \notin DOMAIN cameFrom
  /\ pc' = "done"
  /\ UNCHANGED <<builtVars, searchVars, path>>

TraceGoesRound ==
  /\ pc = "trace" /\ path[1] \in DOMAIN cameFrom /\ Len(path) > Size
  /\ pc' = "endless"
  /\ UNCHANGED <<builtVars, searchVars, path>>

-----------------------------------------------------------------------------
Search ==
  \/ \E n \in openSet : SkipNode(n) \/ VisitNode(n)
  \/ FollowLink
  \/ ReachedGoal \/ NoPath
  \/ TraceBack \/ TraceEnds \/ TraceGoesRound

Returned == pc \in {"done", "endless"} /\ UNCHANGED graphVars

GraphNext ==
  \/ \E p \in Points : AddNode(p)
  \/ \E n \in DOMAIN points, m \in 0..MaxNodes, c \in Costs : AddLink(n, m, c)
  \/ \E s, g \in DOMAIN points : FindShortestPath(s, g)
  \/ Search
  \/ Returned

GraphSpec == GraphInit /\ [][GraphNext]_graphVars

-----------------------------------------------------------------------------
(* Properties.                                                              *)

Found == pc = "done" /\ path # <<>>

\* The ways from a node to another along links, of at most as many nodes as
\* there are: the reference that results are compared with.
Edges == {<<l.from, l.to>> : l \in AllLinks}

FollowsLinks(p) == \A i \in 1..(Len(p) - 1) : <<p[i], p[i + 1]>> \in Edges

Ways(from, to) ==
  {p \in UNION {[1..k -> DOMAIN points] : k \in 1..Size} :
     p[1] = from /\ p[Len(p)] = to /\ FollowsLinks(p)}

\* A search that returns finds nothing only if the goal cannot be reached, and
\* otherwise a path from start to goal along links that visits no node twice,
\* although scores and predecessors may come from different links.
FindsAPath ==
  /\ pc = "done" /\ path = <<>> => Ways(start, goal) = {}
  /\ Found => IsInjective(path) /\ path \in Ways(start, goal)

\* reconstructPath ends unless a link with a negative cost, which addLink does
\* not refuse, has led back to the start and given it a predecessor.
EndlessOnlyOnNegativeCosts ==
  pc = "endless" => start \in DOMAIN cameFrom /\ \E l \in AllLinks : l.cost < 0

\* Both loops of every search end, on graphs with circles of negative cost too:
\* each turn visits a node more, leaves fewer links to follow, or fewer nodes in
\* the queue.
SearchProgresses ==
  [][pc = "search" =>
       \/ pc' # "search"
       \/ hasVisited \subseteq hasVisited' /\ hasVisited # hasVisited'
       \/ hasVisited' = hasVisited /\ Len(todo') < Len(todo)
       \/ /\ hasVisited' = hasVisited /\ todo' = todo
          /\ openSet' \subseteq openSet /\ openSet' # openSet]_graphVars

\* If all links cost the same the path is a shortest one.
UniformIsShortest ==
  Found /\ (\A l, m \in AllLinks : l.cost = m.cost /\ l.cost > 0) =>
    \A p \in Ways(start, goal) : Len(path) <= Len(p)

\* "For node n, gScores[n] is the cost of the cheapest path from start to n
\* currently known": it is no dearer than over a visited node and one link.
GScoreIsCheapestKnown ==
  todo = <<>> =>
    \A l \in AllLinks :
      l.from \in hasVisited /\ l.to \in DOMAIN gScores =>
        gScores[l.to] <= gScores[l.from] + l.cost

=============================================================================
