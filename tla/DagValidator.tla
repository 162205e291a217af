---------------------------- MODULE DagValidator ----------------------------
(***************************************************************************)
(* validateDag of workflows-core, which every canvas passes before it is   *)
(* stored, one action per iteration of its loops, as the API calls it: with *)
(* a single trigger and everything connected to it required.               *)
(*                                                                         *)
(* A graph is a sequence of node ids and a sequence of edges, as the canvas*)
(* lists them: ids may repeat, edges may be parallel or name no node.      *)
(***************************************************************************)
EXTENDS Naturals, Sequences, FiniteSets, SequencesExt

CONSTANTS
    NodeIds,
    Graphs     \* the graphs that are submitted: <<nodes, edges>>

ASSUME GraphAssumption == Graphs \subseteq Seq(NodeIds) \X Seq(NodeIds \X NodeIds)

VARIABLES
    nodes, edges,         \* the graph
    stage, why,           \* where validateDag is, and why it threw
    adjacency, indegree,  \* adjacency, indegreeByNode
    linked,               \* edges taken up in them so far
    started,              \* nodes getCyclePath has been started from so far
    path, visited,        \* its calls in progress (the nodes in visiting), visited
    roots,                \* rootNodeIds
    reachable, frontier,  \* of assertConnectedFromRoot: reachable, stack
    queue, order, target  \* of topologicalSort; target: the next of the last node's

graph  == <<nodes, edges>>
maps   == <<adjacency, indegree, linked>>
search == <<started, path, visited>>
reach  == <<roots, reachable, frontier>>
sort   == <<queue, order, target>>
validatorVars == <<graph, stage, why, maps, search, reach, sort>>

Nodes == ToSet(nodes)
Arcs == ToSet(edges)

ValidatorTypeOK ==
    /\ graph \in Seq(NodeIds) \X Seq(NodeIds \X NodeIds)
    /\ stage \in {"nodes", "edges", "search", "reach", "sort", "done", "thrown"}
    /\ why \in {"", "nodes", "endpoints", "cycle", "isolated", "roots", "unreachable", "order"}
    /\ adjacency \in [Nodes -> Seq(Nodes)] /\ indegree \in [Nodes -> Nat]
    /\ linked \in 0 .. Len(edges) /\ started \in 0 .. Len(nodes)
    /\ path \in Seq([node : Nodes, next : Nat \ {0}]) /\ visited \subseteq Nodes
    /\ roots \subseteq Nodes /\ reachable \subseteq Nodes /\ frontier \subseteq Nodes
    /\ queue \in Seq(Nodes) /\ order \in Seq(Nodes) /\ target \in Nat \ {0}

ValidatorInit ==
    /\ \E g \in Graphs : nodes = g[1] /\ edges = g[2]
    /\ stage = "nodes" /\ why = ""
    /\ adjacency = [n \in Nodes |-> <<>>] /\ indegree = [n \in Nodes |-> 0] /\ linked = 0
    /\ started = 0 /\ path = <<>> /\ visited = {}
    /\ roots = {} /\ reachable = {} /\ frontier = {}
    /\ queue = <<>> /\ order = <<>> /\ target = 1

Throws(reason) ==
    /\ stage' = "thrown" /\ why' = reason
    /\ UNCHANGED <<graph, maps, search, reach, sort>>

Goes(next) == stage' = next /\ UNCHANGED <<graph, why>>

-----------------------------------------------------------------------------
(* The nodes and the edges. *)
CheckNodes ==
    /\ stage = "nodes"
    /\ IF nodes = <<>> \/ ~IsInjective(nodes) THEN Throws("nodes")
       ELSE Goes("edges") /\ UNCHANGED <<maps, search, reach, sort>>

\* Mutant of Link: an edge that is there already is not listed again.
LinkOnce(e) ==
    /\ adjacency' = [adjacency EXCEPT ![e[1]] =
                        IF e[2] \in ToSet(@) THEN @ ELSE Append(@, e[2])]
    /\ indegree' = [indegree EXCEPT ![e[2]] = @ + 1]

Link(e) ==
    /\ adjacency' = [adjacency EXCEPT ![e[1]] = Append(@, e[2])]
    /\ indegree' = [indegree EXCEPT ![e[2]] = @ + 1]

TakeEdge ==
    /\ stage = "edges" /\ linked < Len(edges)
    /\ LET e == edges[linked + 1]
       IN IF ~({e[1], e[2]} \subseteq Nodes) THEN Throws("endpoints")
          ELSE IF e[1] = e[2] THEN Throws("cycle")
          ELSE Link(e) /\ linked' = linked + 1 /\ UNCHANGED <<graph, stage, why, search, reach, sort>>

(* assertNoIsolatedNodes. *)
Isolated == IF Len(nodes) <= 1 THEN {} ELSE {n \in Nodes : \A e \in Arcs : n \notin {e[1], e[2]}}

CheckIsolated ==
    /\ stage = "edges" /\ linked = Len(edges)
    /\ IF Isolated # {} THEN Throws("isolated")
       ELSE Goes("search") /\ UNCHANGED <<maps, search, reach, sort>>

-----------------------------------------------------------------------------
(* getCyclePath, called for node n; callers are the calls in progress. *)
GetCyclePath(n, callers) ==
    IF \E call \in ToSet(callers) : call.node = n THEN Throws("cycle")
    ELSE /\ path' = IF n \in visited THEN callers ELSE Append(callers, [node |-> n, next |-> 1])
         /\ UNCHANGED <<graph, stage, why, maps, visited, reach, sort>>
         /\ started' = IF callers = <<>> THEN started + 1 ELSE started

SearchFrom ==
    /\ stage = "search" /\ path = <<>> /\ started < Len(nodes)
    /\ GetCyclePath(nodes[started + 1], <<>>)

SearchTarget ==
    /\ stage = "search" /\ path # <<>>
    /\ LET call == Last(path)
       IN /\ call.next <= Len(adjacency[call.node])
          /\ GetCyclePath(adjacency[call.node][call.next],
                          [path EXCEPT ![Len(path)].next = @ + 1])

LeaveNode ==
    /\ stage = "search" /\ path # <<>>
    /\ Last(path).next > Len(adjacency[Last(path).node])
    /\ path' = Front(path) /\ visited' = visited \cup {Last(path).node}
    /\ UNCHANGED <<graph, stage, why, maps, started, reach, sort>>

RootNodes == {n \in Nodes : indegree[n] = 0}

CheckRoots ==
    /\ stage = "search" /\ path = <<>> /\ started = Len(nodes)
    /\ IF Cardinality(RootNodes) # 1 THEN Throws("roots")
       ELSE /\ roots' = RootNodes /\ frontier' = RootNodes
            /\ Goes("reach") /\ UNCHANGED <<maps, search, reachable, sort>>

-----------------------------------------------------------------------------
(* assertConnectedFromRoot.  Its stack is kept as a set: what is reachable
   does not depend on the order, and a node found there again is skipped. *)
Reach(n) ==
    /\ stage = "reach" /\ n \in frontier
    /\ reachable' = reachable \cup {n}
    /\ frontier' = (frontier \cup ToSet(adjacency[n])) \ reachable'
    /\ UNCHANGED <<graph, stage, why, maps, search, roots, sort>>

CheckReachable ==
    /\ stage = "reach" /\ frontier = {}
    /\ IF Cardinality(reachable) # Len(nodes) THEN Throws("unreachable")
       ELSE /\ \E root \in roots : queue' = <<root>>
            /\ Goes("sort") /\ UNCHANGED <<maps, search, reach, order, target>>

-----------------------------------------------------------------------------
(* topologicalSort: the queue begins with the nodes of indegree 0, which the
   roots are; a target is queued when its last edge is taken. *)
Exhausted == order # <<>> => target > Len(adjacency[Last(order)])

Shift ==
    /\ stage = "sort" /\ Exhausted /\ queue # <<>>
    /\ order' = Append(order, Head(queue)) /\ queue' = Tail(queue) /\ target' = 1
    /\ UNCHANGED <<graph, stage, why, maps, search, reach>>

TakeTarget ==
    /\ stage = "sort" /\ ~Exhausted
    /\ LET n == adjacency[Last(order)][target]
       IN /\ indegree' = [indegree EXCEPT ![n] = @ - 1]
          /\ queue' = IF indegree[n] = 1 THEN Append(queue, n) ELSE queue
    /\ target' = target + 1
    /\ UNCHANGED <<graph, stage, why, adjacency, linked, search, reach, order>>

CheckOrder ==
    /\ stage = "sort" /\ Exhausted /\ queue = <<>>
    /\ IF Len(order) # Len(nodes) THEN Throws("order")
       ELSE Goes("done") /\ UNCHANGED <<maps, search, reach, sort>>

ValidatorNext ==
    \/ CheckNodes \/ TakeEdge \/ CheckIsolated
    \/ SearchFrom \/ SearchTarget \/ LeaveNode \/ CheckRoots
    \/ (\E n \in Nodes : Reach(n)) \/ CheckReachable
    \/ Shift \/ TakeTarget \/ CheckOrder

ValidatorSpec == ValidatorInit /\ [][ValidatorNext]_validatorVars

-----------------------------------------------------------------------------
(* What a canvas has to be for the engine: an acyclic graph in which every
   step can be reached from one of them.  A graph has a cycle if in some set
   of nodes each is entered from the set; it is reachable from a node if no
   smaller set with that node is closed. *)
Acyclic == \A S \in SUBSET Nodes : S # {} => \E n \in S : \A m \in S : <<m, n>> \notin Arcs

ReachableFrom(root) ==
    \A S \in SUBSET Nodes : root \in S /\ S # Nodes => \E m \in S, n \in Nodes \ S : <<m, n>> \in Arcs

IsCanvas ==
    /\ nodes # <<>> /\ IsInjective(nodes) /\ Arcs \subseteq Nodes \X Nodes
    /\ Acyclic /\ \E root \in Nodes : ReachableFrom(root)

\* order lists every node once, and no edge goes against it
IsOrder ==
    /\ Len(order) = Len(nodes) /\ ToSet(order) = Nodes
    /\ \A e \in Arcs : \E i, j \in 1 .. Len(order) : i < j /\ order[i] = e[1] /\ order[j] = e[2]

(* validateDag accepts a graph exactly if it is a canvas the engine can run:
   acyclic, everything reached from the one root; what it returns is that
   root and an order that no edge goes against.  It speaks of a cycle only
   when there is one and of the roots only when there is none, and the checks
   of the reachable nodes and of the order, which the search for cycles and
   the one root imply, never throw. *)
ValidatorIsExact ==
    /\ stage = "done" => IsCanvas /\ IsOrder /\ roots = {order[1]}
    /\ stage = "thrown" => /\ ~IsCanvas /\ why \notin {"unreachable", "order"}
                           /\ why = "cycle" => ~Acyclic
                           /\ why = "roots" => Acyclic
=============================================================================
