-------------------------- MODULE NetworkAnalysis --------------------------
(***************************************************************************)
(* The searches of the transaction graph for rings and for money that goes *)
(* in circles, on the edges that were read, while edges are recorded: the  *)
(* breadth-first and the depth-first search step by step as the service    *)
(* runs them, with what they are meant to find.  The order in which nodes  *)
(* and neighbors come up decides nothing and is left open.                 *)
(***************************************************************************)
EXTENDS Integers, FiniteSets, SequencesExt

CONSTANTS
  Entities,     \* bound: entities
  MaxEdges,     \* bound: edges recorded
  MaxBehind,    \* bound: edges recorded after a search has read them
  MaxLength     \* maxLength of findCycles, 5 in the code

VARIABLES
  edges,  \* transaction_graph_edges in the time window, in the order read
  search  \* the search for rings or cycles: the graph it read, and where it is

networkVars == <<edges, search>>

NoSearch ==
  [pc |-> "idle", graph |-> << >>, visited |-> {}, queue |-> {}, component |-> {},
   rings |-> << >>, calls |-> {}, cycles |-> {}]

Init == edges = << >> /\ search = NoSearch

EdgeRecorded(a, b) ==
  /\ Len(edges) < MaxEdges /\ (search.pc = "idle" \/ Len(edges) < Len(search.graph) + MaxBehind)
  /\ edges' = Append(edges, <<a, b>>)
  /\ UNCHANGED search

-----------------------------------------------------------------------------
(* buildTransactionGraph: the nodes of the edges, and their connections.    *)
Nodes(graph) == {graph[i][1] : i \in DOMAIN graph} \cup {graph[i][2] : i \in DOMAIN graph}
ConnectionsOf(graph, n) ==
  Cardinality({i \in DOMAIN graph : graph[i][1] = n}) + Cardinality({i \in DOMAIN graph : graph[i][2] = n})

(* Slip: an edge leads from its source only. *)
Neighbors_OneWay(graph, n) == {graph[i][2] : i \in {j \in DOMAIN graph : graph[j][1] = n}}

(* buildAdjacencyList: every edge both ways. *)
Neighbors(graph, n) ==
  {graph[i][2] : i \in {j \in DOMAIN graph : graph[j][1] = n}} \cup
  {graph[i][1] : i \in {j \in DOMAIN graph : graph[j][2] = n}}

(* analyzeComponent: is its riskScore above 50?  (Times the size.)          *)
Lesser(a, b) == IF a < b THEN a ELSE b
Connections(graph, component) ==
  SumFunctionOnSet([n \in component |-> ConnectionsOf(graph, n)], component)
Risky(graph, component) ==
  LET size == Cardinality(component) IN
    size * (30 + Lesser(5 * size, 30)) + Lesser(2 * Connections(graph, component), 25 * size) > 50 * size

-----------------------------------------------------------------------------
(* detectFraudRings and detectMoneyLaundering are given the graph as it was *)
(* read; a later call begins with a graph of its own.                       *)
RingsDetected ==
  /\ search.pc = "rings" /\ search.queue = {} /\ search.component = {}
  /\ Nodes(search.graph) \subseteq search.visited
CyclesDetected == search.pc = "cycles" /\ search.calls = {}
Idle == search.pc = "idle" \/ RingsDetected \/ CyclesDetected

DetectFraudRings ==
  /\ Idle
  /\ search' = [NoSearch EXCEPT !.pc = "rings", !.graph = edges]
  /\ UNCHANGED edges

(* The next node that was not visited: findConnectedComponent begins. *)
BeginComponent(n) ==
  /\ search.pc = "rings" /\ search.queue = {} /\ search.component = {}
  /\ n \in Nodes(search.graph) \ search.visited
  /\ search' = [search EXCEPT !.visited = @ \cup {n}, !.queue = {n}]
  /\ UNCHANGED edges

(* A neighbor is marked when it joins the queue. *)
VisitNext(current) ==
  /\ search.pc = "rings" /\ current \in search.queue
  /\ LET new == Neighbors(search.graph, current) \ search.visited IN
       search' = [search EXCEPT !.component = @ \cup {current}, !.visited = @ \cup new,
                                !.queue = (@ \ {current}) \cup new]
  /\ UNCHANGED edges

(* The queue is empty: is the component a ring? *)
ComponentFound ==
  /\ search.pc = "rings" /\ search.queue = {} /\ search.component # {}
  /\ LET found == search.component IN
       search' = [search EXCEPT !.component = {},
                    !.rings = IF Cardinality(found) >= 3 /\ Risky(search.graph, found)
                                THEN Append(@, found) ELSE @]
  /\ UNCHANGED edges

-----------------------------------------------------------------------------
(* A call of findCycles: from where, at what node, along what path.         *)
Call(start, current, path) == [start |-> start, current |-> current, path |-> path]

DetectMoneyLaundering ==
  /\ Idle
  /\ search' = [NoSearch EXCEPT !.pc = "cycles", !.graph = edges,
                                !.calls = {Call(n, n, << >>) : n \in Nodes(edges)}]
  /\ UNCHANGED edges

(* The calls change nothing but what is found, and are taken a depth at a   *)
(* time: one too long or that meets its path returns, the others call on.   *)
(* The cycles are a set: parallel edges repeat them.                        *)
FindCycles ==
  /\ search.pc = "cycles" /\ search.calls # {}
  /\ LET short == {c \in search.calls : Len(c.path) <= MaxLength}
         closing == {c \in short : c.current \in ToSet(c.path) /\ c.current = c.start /\ Len(c.path) >= 3}
         going == {c \in short : c.current \notin ToSet(c.path)} IN
       search' = [search EXCEPT
         !.cycles = @ \cup {c.path : c \in closing},
         !.calls = UNION {{Call(c.start, n, Append(c.path, c.current)) :
                             n \in Neighbors(search.graph, c.current)} : c \in going}]
  /\ UNCHANGED edges

(* calculateSimilarity reads the edges of the one and then of the other:    *)
(* shared neighbors out of all, rounded to two digits.                      *)
NeighborSet(rows, n) ==
  {e[2] : e \in {x \in ToSet(rows) : x[1] = n}} \cup {e[1] : e \in {x \in ToSet(rows) : x[1] # n /\ x[2] = n}}
Similarity(rowsOfA, a, rowsOfB, b) ==
  LET all == NeighborSet(rowsOfA, a) \cup NeighborSet(rowsOfB, b)
      common == NeighborSet(rowsOfA, a) \cap NeighborSet(rowsOfB, b) IN
    IF all = {} THEN 0 ELSE (Cardinality(common) * 10000 + Cardinality(all) \div 2) \div Cardinality(all)

Next ==
  \/ \E a, b \in Entities : EdgeRecorded(a, b)
  \/ DetectFraudRings
  \/ \E n \in Entities : BeginComponent(n) \/ VisitNext(n)
  \/ ComponentFound
  \/ DetectMoneyLaundering
  \/ FindCycles

-----------------------------------------------------------------------------
Adjacent(graph, a, b) == \E i \in DOMAIN graph : graph[i] = <<a, b>> \/ graph[i] = <<b, a>>
Closed(graph) == {S \in SUBSET Entities : \A i \in DOMAIN graph : graph[i][1] \in S <=> graph[i][2] \in S}
Clusters(graph) ==
  LET closed == Closed(graph) IN
    {{b \in Entities : \A S \in closed : a \in S => b \in S} : a \in Nodes(graph)}
Circles(graph) ==
  {path \in UNION {[1..n -> Nodes(graph)] : n \in 3..MaxLength} :
     /\ IsInjective(path)
     /\ \A i \in 1..Len(path) - 1 : Adjacent(graph, path[i], path[i + 1])
     /\ Adjacent(graph, path[Len(path)], path[1])}

(* Edges join entities, and a search was given edges that were recorded. *)
TypeOK ==
  /\ edges \in Seq(Entities \X Entities) /\ Len(edges) <= MaxEdges
  /\ search.pc \in {"idle", "rings", "cycles"}
  /\ IsPrefix(search.graph, edges)
  /\ search.queue \cup search.component \subseteq search.visited /\ search.visited \subseteq Entities
  /\ \A c \in search.calls : {c.start, c.current} \cup ToSet(c.path) \subseteq Entities

(* The rings are clusters of linked entities, whole and each once: in the   *)
(* end all of four members or more, those of three that have eight          *)
(* connections, and no other.                                               *)
RingsAreClusters ==
  LET graph == search.graph IN
  search.pc = "rings" =>
    /\ IsInjective(search.rings)
    /\ \A ring \in ToSet(search.rings) : ring \in Clusters(graph)
    /\ RingsDetected =>
         \A c \in Clusters(graph) :
           c \in ToSet(search.rings) <=>
             Cardinality(c) >= 4 \/ (Cardinality(c) = 3 /\ Connections(graph, c) >= 8)

(* The circular patterns are the closed walks of 3 to MaxLength different   *)
(* entities, each found from every entity on it.                            *)
CirclesAreFound == CyclesDetected => search.cycles = Circles(search.graph)

(* Entities that are similar at all, with edges recorded in between or not, *)
(* are linked, so that a ring of these edges with one of them has the other.*)
SimilarAreTogether ==
  LET closed == Closed(edges) IN
  Idle =>
    \A a \in Entities : \A b \in Entities \ {a}, then \in 0..Len(edges) :
      Similarity(SubSeq(edges, 1, then), a, edges, b) > 0 =>
        /\ \A S \in closed : a \in S <=> b \in S
        /\ search.graph = edges => \A ring \in ToSet(search.rings) : a \in ring <=> b \in ring
=============================================================================
