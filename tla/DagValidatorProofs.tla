------------------------- MODULE DagValidatorProofs -------------------------
(***************************************************************************)
(* What validateDag computes, for every graph: any ids, any number of      *)
(* nodes and edges, repeated, parallel or dangling.                        *)
(***************************************************************************)
EXTENDS DagValidator, FiniteSetTheorems, TLAPS

\* n is listed among the targets of m.
Arc(m, n) == \E k \in 1 .. Len(adjacency[m]) : adjacency[m][k] = n

\* The adjacency lists hold the edges that have been taken up.
LinkFact ==
    /\ stage # "nodes" => nodes # <<>> /\ IsInjective(nodes)
    /\ stage \notin {"nodes", "edges"} => linked = Len(edges)
    /\ \A i \in 1 .. linked :
          /\ edges[i][1] \in Nodes /\ edges[i][2] \in Nodes /\ edges[i][1] # edges[i][2]
          /\ Arc(edges[i][1], edges[i][2])
    /\ \A m \in Nodes : \A k \in 1 .. Len(adjacency[m]) :
          \E i \in 1 .. linked : edges[i] = <<m, adjacency[m][k]>>

\* The places at which n is listed and topologicalSort has not been yet.
Taken(m, k) == m \in ToSet(order) /\ (m = Last(order) => k < target)
Left(n) == {s \in Nodes \X Nat : /\ s[2] \in 1 .. Len(adjacency[s[1]])
                                 /\ adjacency[s[1]][s[2]] = n
                                 /\ ~Taken(s[1], s[2])}

\* The indegrees count them.
CountFact == \A n \in Nodes : IsFiniteSet(Left(n)) /\ indegree[n] = Cardinality(Left(n))

\* In every set of nodes of S there is one that the set does not enter.
AcyclicIn(S) ==
    \A T \in SUBSET S : T # {} => \E n \in T : \A m \in T : ~Arc(m, n)

Calls == [node : Nodes, next : Nat \ {0}]

\* The calls in progress are a path, and what a call has been through is
\* visited but for the call it waits for.
PathFact(i) ==
    /\ path[i].node \notin visited
    /\ path[i].next - 1 <= Len(adjacency[path[i].node])
    /\ i < Len(path) => /\ path[i].next > 1
                        /\ adjacency[path[i].node][path[i].next - 1] = path[i + 1].node
    /\ \A k \in 1 .. path[i].next - 1 :
          \/ adjacency[path[i].node][k] \in visited
          \/ i < Len(path) /\ k = path[i].next - 1

\* What getCyclePath is done with is closed and has no cycle.
SearchFact ==
    /\ stage \in {"nodes", "edges"} => path = <<>> /\ visited = {} /\ started = 0
    /\ stage \in {"reach", "sort", "done"} => path = <<>> /\ visited = Nodes
    /\ \A i \in 1 .. Len(path) : PathFact(i)
    /\ \A i, j \in 1 .. Len(path) : path[i].node = path[j].node => i = j
    /\ \A i \in 1 .. started : nodes[i] \in visited \/ (path # <<>> /\ nodes[i] = path[1].node)
    /\ \A m \in visited, n \in Nodes : Arc(m, n) => n \in visited
    /\ AcyclicIn(visited)

\* There is one root, and nothing leads from what has been reached to
\* elsewhere but to the frontier.
ReachFact ==
    /\ stage \in {"nodes", "edges", "search"} => reachable = {} /\ frontier = {}
    /\ stage \in {"reach", "sort", "done"} =>
          \E root \in Nodes : /\ roots = {root}
                              /\ \A n \in Nodes : n # root <=> \E m \in Nodes : Arc(m, n)
    /\ stage = "reach" => /\ roots \subseteq reachable \cup frontier
                          /\ \A m \in reachable, n \in Nodes :
                                Arc(m, n) => n \in reachable \cup frontier

\* The nodes queued or ordered are those that nothing is left to lead to, and
\* whatever leads to an ordered one comes before it.
SortFact ==
    /\ stage \notin {"sort", "done"} => order = <<>> /\ queue = <<>> /\ target = 1
    /\ stage \in {"sort", "done"} =>
          /\ IsInjective(order) /\ IsInjective(queue) /\ ToSet(order) \cap ToSet(queue) = {}
          /\ \A n \in Nodes : indegree[n] = 0 <=> n \in ToSet(order) \cup ToSet(queue)
          /\ IF order = <<>> THEN \A n \in ToSet(queue) : roots = {n} ELSE roots = {order[1]}
          /\ \A j \in 1 .. Len(order), m \in Nodes :
                Arc(m, order[j]) => \E i \in 1 .. j - 1 : order[i] = m
    /\ stage = "done" => ToSet(order) = Nodes /\ Len(order) = Len(nodes)

\* What a refusal says.
ThrownFact ==
    /\ ~IsCanvas /\ why \notin {"unreachable", "order"}
    /\ why = "cycle" => ~Acyclic
    /\ why = "roots" => Acyclic

ValidatorInv ==
    /\ ValidatorTypeOK
    /\ IF stage = "thrown" THEN ThrownFact
       ELSE LinkFact /\ CountFact /\ SearchFact /\ ReachFact /\ SortFact
-----------------------------------------------------------------------------
(* Sequences as lists of nodes.                                            *)

\* The elements of a sequence are those at its positions.
LEMMA Members ==
    ASSUME NEW S, NEW s \in Seq(S)
    PROVE  /\ \A x : x \in ToSet(s) <=> \E i \in 1 .. Len(s) : s[i] = x
           /\ ToSet(s) \subseteq S
BY DEF ToSet

\* Adding an element to a sequence of different ones that has not got it.
LEMMA Appended ==
    ASSUME NEW S, NEW s \in Seq(S), NEW x \in S
    PROVE  /\ ToSet(Append(s, x)) = ToSet(s) \cup {x}
           /\ IsInjective(s) /\ x \notin ToSet(s) => IsInjective(Append(s, x))
           /\ Last(Append(s, x)) = x
<1>1. /\ Append(s, x) \in Seq(S) /\ Len(Append(s, x)) = Len(s) + 1
      /\ \A i \in 1 .. Len(s) : Append(s, x)[i] = s[i]
      /\ Append(s, x)[Len(s) + 1] = x
      /\ DOMAIN Append(s, x) = 1 .. Len(s) + 1 /\ DOMAIN s = 1 .. Len(s)
  OBVIOUS
<1>2. ToSet(Append(s, x)) = ToSet(s) \cup {x}
  <2>1. ToSet(Append(s, x)) = {Append(s, x)[i] : i \in 1 .. Len(s) + 1}
    BY <1>1 DEF ToSet
  <2>2. ToSet(s) = {s[i] : i \in 1 .. Len(s)}
    BY <1>1 DEF ToSet
  <2>3. Len(s) \in Nat /\ \A i \in 1 .. Len(s) + 1 : i \in 1 .. Len(s) \/ i = Len(s) + 1
    OBVIOUS
  <2> QED BY <1>1, <2>1, <2>2, <2>3
<1>3. IsInjective(s) /\ x \notin ToSet(s) => IsInjective(Append(s, x))
  BY <1>1, Members DEF IsInjective
<1> QED BY <1>1, <1>2, <1>3 DEF Last

\* Taking the first of a sequence of different elements.
LEMMA Shifted ==
    ASSUME NEW S, NEW s \in Seq(S), s # <<>>
    PROVE  /\ Head(s) \in S /\ Tail(s) \in Seq(S)
           /\ ToSet(s) = {Head(s)} \cup ToSet(Tail(s))
           /\ IsInjective(s) => IsInjective(Tail(s)) /\ Head(s) \notin ToSet(Tail(s))
<1>1. /\ Head(s) = s[1] /\ Head(s) \in S /\ Tail(s) \in Seq(S)
      /\ Len(s) \in Nat /\ Len(s) >= 1 /\ Len(Tail(s)) = Len(s) - 1
      /\ \A i \in 1 .. Len(s) - 1 : Tail(s)[i] = s[i + 1]
      /\ DOMAIN Tail(s) = 1 .. Len(s) - 1 /\ DOMAIN s = 1 .. Len(s)
  OBVIOUS
<1>2. ASSUME NEW x \in ToSet(s) PROVE x \in {Head(s)} \cup ToSet(Tail(s))
  <2>1. PICK i \in 1 .. Len(s) : s[i] = x
    BY Members
  <2>2. CASE i # 1
    <3>1. i - 1 \in 1 .. Len(Tail(s)) /\ Tail(s)[i - 1] = x
      BY <1>1, <2>1, <2>2
    <3>2. \A y : y \in ToSet(Tail(s)) <=> \E k \in 1 .. Len(Tail(s)) : Tail(s)[k] = y
      BY <1>1, Members
    <3> QED BY <3>1, <3>2
  <2> QED BY <1>1, <2>1, <2>2
<1>3. ASSUME NEW x \in ToSet(Tail(s)) PROVE \E i \in 2 .. Len(s) : s[i] = x
  <2>0. \A y : y \in ToSet(Tail(s)) <=> \E k \in 1 .. Len(Tail(s)) : Tail(s)[k] = y
    BY <1>1, Members
  <2>1. PICK i \in 1 .. Len(Tail(s)) : Tail(s)[i] = x
    BY <2>0
  <2>2. i + 1 \in 2 .. Len(s) /\ s[i + 1] = x
    BY <1>1, <2>1
  <2> QED BY <2>2
<1>4. \A x : x \in {Head(s)} \cup ToSet(Tail(s)) => x \in ToSet(s)
  BY <1>1, <1>3, Members
<1>5. ASSUME IsInjective(s) PROVE IsInjective(Tail(s)) /\ Head(s) \notin ToSet(Tail(s))
  <2>1. \A i, j \in 1 .. Len(s) : s[i] = s[j] => i = j
    BY <1>1, <1>5 DEF IsInjective
  <2>2. IsInjective(Tail(s))
    BY <1>1, <2>1 DEF IsInjective
  <2> QED BY <1>1, <1>3, <2>1, <2>2
<1> QED BY <1>1, <1>2, <1>4, <1>5

\* Putting an element in the place of another.
LEMMA Replaced ==
    ASSUME NEW S, NEW s \in Seq(S), NEW i \in 1 .. Len(s), NEW v \in S
    PROVE  /\ [s EXCEPT ![i] = v] \in Seq(S) /\ Len([s EXCEPT ![i] = v]) = Len(s)
           /\ \A j \in 1 .. Len(s) : [s EXCEPT ![i] = v][j] = IF j = i THEN v ELSE s[j]
OBVIOUS

\* A sequence of different elements is as long as they are many.
LEMMA Counted ==
    ASSUME NEW S, NEW s \in Seq(S), IsInjective(s)
    PROVE  IsFiniteSet(ToSet(s)) /\ Cardinality(ToSet(s)) = Len(s)
<1>1. s \in Bijection(1 .. Len(s), ToSet(s))
  <2>1. s \in [1 .. Len(s) -> ToSet(s)] /\ DOMAIN s = 1 .. Len(s)
    BY DEF ToSet
  <2>2. \A x, y \in 1 .. Len(s) : s[x] = s[y] => x = y
    BY <2>1 DEF IsInjective
  <2>3. \A y \in ToSet(s) : \E x \in 1 .. Len(s) : s[x] = y
    BY Members
  <2> QED BY <2>1, <2>2, <2>3 DEF Bijection, Injection, Surjection
<1>2. Len(s) \in Nat
  OBVIOUS
<1>3. IsFiniteSet(ToSet(s)) /\ Cardinality(ToSet(s)) = Len(s)
  <2>1. ExistsBijection(1 .. Len(s), ToSet(s))
    BY <1>1 DEF ExistsBijection
  <2> QED BY <1>2, <2>1, FS_CountingElements, FS_NatBijection
<1> QED BY <1>3

-----------------------------------------------------------------------------
(* Graphs.                                                                 *)

\* The types of the graph and of the adjacency lists.
LEMMA Typed ==
    ASSUME ValidatorTypeOK
    PROVE  /\ nodes \in Seq(NodeIds) /\ edges \in Seq(NodeIds \X NodeIds)
           /\ linked \in Nat /\ linked <= Len(edges) /\ Len(edges) \in Nat
           /\ adjacency \in [Nodes -> Seq(Nodes)] /\ indegree \in [Nodes -> Nat]
           /\ \A m \in Nodes : /\ adjacency[m] \in Seq(Nodes) /\ Len(adjacency[m]) \in Nat
                               /\ indegree[m] \in Nat
<1>1. nodes \in Seq(NodeIds) /\ edges \in Seq(NodeIds \X NodeIds)
  BY DEF ValidatorTypeOK, graph
<1>2. Len(edges) \in Nat
  BY <1>1
<1>3. /\ adjacency \in [Nodes -> Seq(Nodes)] /\ indegree \in [Nodes -> Nat]
      /\ linked \in 0 .. Len(edges)
  BY DEF ValidatorTypeOK
<1>4. \A m \in Nodes : adjacency[m] \in Seq(Nodes) /\ indegree[m] \in Nat
  BY <1>3
<1>5. \A m \in Nodes : Len(adjacency[m]) \in Nat
  BY <1>4
<1> QED BY <1>1, <1>2, <1>3, <1>4, <1>5

\* Of an acyclic graph that is reachable from root, root is what nothing
\* leads to.
LEMMA OneRoot ==
    ASSUME Acyclic, NEW root \in Nodes, ReachableFrom(root)
    PROVE  \A n \in Nodes : n # root <=> \E m \in Nodes : <<m, n>> \in Arcs
<1>1. ASSUME NEW n \in Nodes, n # root PROVE \E m \in Nodes : <<m, n>> \in Arcs
  <2>1. Nodes \ {n} \in SUBSET Nodes /\ root \in Nodes \ {n} /\ Nodes \ {n} # Nodes
    BY <1>1
  <2>2. PICK m \in Nodes \ {n}, x \in Nodes \ (Nodes \ {n}) : <<m, x>> \in Arcs
    BY <2>1 DEF ReachableFrom
  <2> QED BY <2>2
<1>2. PICK n \in Nodes : \A m \in Nodes : <<m, n>> \notin Arcs
  BY DEF Acyclic
<1> QED BY <1>1, <1>2

\* An acyclic graph is reachable from the one node that nothing leads to.
LEMMA RootReaches ==
    ASSUME Acyclic, NEW root \in Nodes,
           \A n \in Nodes : n # root => \E m \in Nodes : <<m, n>> \in Arcs
    PROVE  ReachableFrom(root)
<1> SUFFICES ASSUME NEW S \in SUBSET Nodes, root \in S, S # Nodes
             PROVE  \E m \in S, n \in Nodes \ S : <<m, n>> \in Arcs
  BY DEF ReachableFrom
<1>1. Nodes \ S \in SUBSET Nodes /\ Nodes \ S # {}
  OBVIOUS
<1>2. PICK n \in Nodes \ S : \A m \in Nodes \ S : <<m, n>> \notin Arcs
  BY <1>1 DEF Acyclic
<1>3. PICK m \in Nodes : <<m, n>> \in Arcs
  BY <1>2
<1> QED BY <1>2, <1>3

\* Once all edges have been taken up, the adjacency lists are the graph.
LEMMA Linked ==
    ASSUME ValidatorTypeOK, LinkFact, linked = Len(edges)
    PROVE  /\ Arcs \subseteq Nodes \X Nodes
           /\ \A m, n \in Nodes : <<m, n>> \in Arcs <=> Arc(m, n)
           /\ \A n \in Nodes : <<n, n>> \notin Arcs
<1>1. edges \in Seq(NodeIds \X NodeIds)
  BY DEF ValidatorTypeOK, graph
<1>2. \A e : e \in Arcs <=> \E i \in 1 .. linked : edges[i] = e
  BY <1>1, Members DEF Arcs
<1>3. \A i \in 1 .. linked : edges[i] = <<edges[i][1], edges[i][2]>>
  BY <1>1
<1>4. ASSUME NEW e \in Arcs PROVE e \in Nodes \X Nodes
  <2>1. PICK i \in 1 .. linked : edges[i] = e
    BY <1>2
  <2>2. e = <<e[1], e[2]>> /\ e[1] \in Nodes /\ e[2] \in Nodes
    BY <1>3, <2>1 DEF LinkFact
  <2> QED BY <2>2
<1>5. ASSUME NEW m \in Nodes, NEW n \in Nodes, <<m, n>> \in Arcs PROVE Arc(m, n) /\ m # n
  <2>1. PICK i \in 1 .. linked : edges[i] = <<m, n>>
    BY <1>2, <1>5
  <2> QED BY <2>1 DEF LinkFact
<1>6. ASSUME NEW m \in Nodes, NEW n \in Nodes, Arc(m, n) PROVE <<m, n>> \in Arcs
  <2>1. PICK k \in 1 .. Len(adjacency[m]) : adjacency[m][k] = n
    BY <1>6 DEF Arc
  <2>2. \E i \in 1 .. linked : edges[i] = <<m, n>>
    BY <2>1 DEF LinkFact
  <2> QED BY <1>2, <2>2
<1> QED BY <1>4, <1>5, <1>6

\* Once the search is over, the graph has no cycle.
LEMMA Searched ==
    ASSUME ValidatorTypeOK, LinkFact, SearchFact, linked = Len(edges), visited = Nodes
    PROVE  Acyclic
BY Linked DEF SearchFact, AcyclicIn, Acyclic

-----------------------------------------------------------------------------
(* The nodes and the edges.                                                *)

\* The initial state satisfies the invariant.
LEMMA InitValidator == ValidatorInit => ValidatorInv
<1> SUFFICES ASSUME ValidatorInit PROVE ValidatorInv
  OBVIOUS
<1>1. graph \in Seq(NodeIds) \X Seq(NodeIds \X NodeIds)
  BY GraphAssumption DEF GraphAssumption, ValidatorInit, graph
<1>2. Len(edges) \in Nat /\ Len(nodes) \in Nat
  BY <1>1 DEF graph
<1>3. ValidatorTypeOK
  <2>1. /\ <<>> \in Seq(Nodes) /\ <<>> \in Seq([node : Nodes, next : Nat \ {0}])
        /\ 0 \in 0 .. Len(edges) /\ 0 \in 0 .. Len(nodes) /\ 1 \in Nat \ {0}
    BY <1>2
  <2>2. adjacency \in [Nodes -> Seq(Nodes)] /\ indegree \in [Nodes -> Nat]
    BY <2>1 DEF ValidatorInit
  <2> QED BY <1>1, <2>1, <2>2 DEF ValidatorInit, ValidatorTypeOK
<1>4. \A m \in Nodes : adjacency[m] = <<>> /\ Len(adjacency[m]) = 0 /\ \A n : ~Arc(m, n)
  <2>1. Len(<<>>) = 0 /\ \A i : i \notin 1 .. 0
    OBVIOUS
  <2>2. \A m \in Nodes : adjacency[m] = <<>>
    BY DEF ValidatorInit
  <2> QED BY <2>1, <2>2 DEF Arc
<1>5. CountFact
  <2>1. \A n : Left(n) = {}
    BY <1>4 DEF Left
  <2> QED BY <2>1, FS_EmptySet DEF CountFact, ValidatorInit
<1>6. LinkFact
  <2>1. linked = 0 /\ stage = "nodes"
    BY DEF ValidatorInit
  <2>2. \A i : i \notin 1 .. 0
    OBVIOUS
  <2> QED BY <1>4, <2>1, <2>2 DEF LinkFact
<1>7. SearchFact
  <2>1. started = 0 /\ path = <<>> /\ visited = {} /\ stage = "nodes"
    BY DEF ValidatorInit
  <2>2. Len(<<>>) = 0 /\ \A i : i \notin 1 .. 0
    OBVIOUS
  <2> QED BY <2>1, <2>2 DEF SearchFact, AcyclicIn
<1>8. ReachFact /\ SortFact
  BY DEF ValidatorInit, ReachFact, SortFact
<1> QED BY <1>3, <1>5, <1>6, <1>7, <1>8 DEF ValidatorInv, ValidatorInit

\* An exception leaves everything but stage and why as it is.
LEMMA ThrowsKeeps ==
    ASSUME ValidatorTypeOK, NEW reason \in {"nodes", "endpoints", "cycle", "isolated", "roots"},
           Throws(reason), ~IsCanvas,
           reason = "cycle" => ~Acyclic, reason = "roots" => Acyclic
    PROVE  ValidatorInv'
<1>1. UNCHANGED <<nodes, edges>>
  BY DEF Throws, graph
<1>2. ValidatorTypeOK'
  BY DEF Throws, ValidatorTypeOK, graph, maps, search, reach, sort, Nodes
<1>3. ThrownFact'
  <2>1. (Acyclic' <=> Acyclic) /\ (IsCanvas' <=> IsCanvas)
    BY <1>1 DEF IsCanvas, Acyclic, ReachableFrom, Nodes, Arcs
  <2>2. why' = reason
    BY DEF Throws
  <2> QED BY <2>1, <2>2 DEF ThrownFact
<1> QED BY <1>2, <1>3 DEF ValidatorInv, Throws

\* What has thrown stays so.
LEMMA ThrownStays == ValidatorInv /\ stage = "thrown" => ~ValidatorNext
BY DEF ValidatorNext, CheckNodes, TakeEdge, CheckIsolated, SearchFrom, SearchTarget,
       LeaveNode, CheckRoots, Reach, CheckReachable, Shift, TakeTarget, CheckOrder

\* The indegrees stay right while the lists and the order stay.
LEMMA CountFrame ==
    ASSUME CountFact, UNCHANGED <<nodes, adjacency, indegree, order, target>>
    PROVE  CountFact'
<1>1. Nodes' = Nodes
  BY DEF Nodes
<1>2. \A m, k : Taken(m, k)' <=> Taken(m, k)
  BY DEF Taken
<1>3. \A n : Left(n)' = Left(n)
  BY <1>1, <1>2 DEF Left
<1> QED BY <1>1, <1>3 DEF CountFact

\* A step to the next stage that changes nothing else keeps what it knows.
LEMMA CheckNodesKeeps == ASSUME ValidatorInv, CheckNodes PROVE ValidatorInv'
<1>1. CASE nodes = <<>> \/ ~IsInjective(nodes)
  <2>1. Throws("nodes") /\ ~IsCanvas
    BY <1>1 DEF CheckNodes, IsCanvas
  <2> QED BY <2>1, ThrowsKeeps DEF ValidatorInv
<1>2. CASE ~(nodes = <<>> \/ ~IsInjective(nodes))
  <2>1. /\ stage = "nodes" /\ stage' = "edges"
        /\ UNCHANGED <<nodes, edges, why, adjacency, indegree, linked, started, path, visited,
                       roots, reachable, frontier, queue, order, target>>
    BY <1>2 DEF CheckNodes, Goes, graph, maps, search, reach, sort
  <2>0. ValidatorTypeOK /\ LinkFact /\ CountFact /\ SearchFact /\ ReachFact /\ SortFact
    BY <2>1 DEF ValidatorInv
  <2>2. ValidatorTypeOK' /\ LinkFact' /\ CountFact'
    <3>1. ValidatorTypeOK'
      BY <2>0, <2>1 DEF ValidatorTypeOK, graph, Nodes
    <3>2. LinkFact'
      BY <1>2, <2>0, <2>1 DEF LinkFact, Nodes, Arc
    <3>3. CountFact'
      BY <2>0, <2>1, CountFrame
    <3> QED BY <3>1, <3>2, <3>3
  <2>3. SearchFact'
    BY <2>0, <2>1 DEF SearchFact, PathFact, AcyclicIn, Nodes, Arc
  <2>4. ReachFact' /\ SortFact'
    BY <2>0, <2>1 DEF ReachFact, SortFact, Nodes, Arc
  <2> QED BY <2>1, <2>2, <2>3, <2>4 DEF ValidatorInv
<1> QED BY <1>1, <1>2

\* Taking up an edge lists its target and counts it, each once.
LEMMA TakeEdgeKeeps == ASSUME ValidatorInv, TakeEdge PROVE ValidatorInv'
<1>0. /\ stage = "edges" /\ linked < Len(edges) /\ ValidatorTypeOK
      /\ LinkFact /\ CountFact /\ SearchFact /\ ReachFact /\ SortFact
  BY DEF ValidatorInv, TakeEdge
<1>a. edges \in Seq(NodeIds \X NodeIds) /\ linked \in Nat /\ linked + 1 \in 1 .. Len(edges)
  BY <1>0, Typed
<1>1. PICK e \in NodeIds \X NodeIds : e = edges[linked + 1] /\ e = <<e[1], e[2]>>
  BY <1>a
<1>2. e \in Arcs
  BY <1>a, <1>1, Members DEF Arcs
<1>3. CASE ~({e[1], e[2]} \subseteq Nodes)
  <2>1. Throws("endpoints")
    BY <1>1, <1>3 DEF TakeEdge
  <2>2. ~IsCanvas
    BY <1>1, <1>2, <1>3 DEF IsCanvas
  <2> QED BY <1>0, <2>1, <2>2, ThrowsKeeps
<1>4. CASE {e[1], e[2]} \subseteq Nodes /\ e[1] = e[2]
  <2>1. Throws("cycle")
    BY <1>1, <1>4 DEF TakeEdge
  <2>2. ~Acyclic
    <3>1. {e[1]} \in SUBSET Nodes /\ <<e[1], e[1]>> \in Arcs
      BY <1>1, <1>2, <1>4
    <3> QED BY <3>1 DEF Acyclic
  <2> QED BY <1>0, <2>1, <2>2, ThrowsKeeps DEF IsCanvas
<1>5. CASE {e[1], e[2]} \subseteq Nodes /\ e[1] # e[2]
  <2>1. /\ adjacency' = [adjacency EXCEPT ![e[1]] = Append(@, e[2])]
        /\ indegree' = [indegree EXCEPT ![e[2]] = @ + 1]
        /\ linked' = linked + 1
        /\ UNCHANGED <<nodes, edges, stage, why, started, path, visited,
                       roots, reachable, frontier, queue, order, target>>
    BY <1>1, <1>5 DEF TakeEdge, Link, graph, search, reach, sort
  <2>2. Nodes' = Nodes /\ e[1] \in Nodes /\ e[2] \in Nodes
    BY <1>5, <2>1 DEF Nodes
  <2>3. /\ \A m \in Nodes : m # e[1] => adjacency'[m] = adjacency[m]
        /\ adjacency[e[1]] \in Seq(Nodes) /\ adjacency'[e[1]] = Append(adjacency[e[1]], e[2])
        /\ adjacency' \in [Nodes -> Seq(Nodes)]
    <3>1. adjacency \in [Nodes -> Seq(Nodes)] /\ adjacency[e[1]] \in Seq(Nodes)
      BY <1>0, <2>2, Typed
    <3>2. Append(adjacency[e[1]], e[2]) \in Seq(Nodes)
      BY <2>2, <3>1
    <3> QED BY <2>1, <2>2, <3>1, <3>2
  <2>l. \A m \in Nodes : adjacency[m] \in Seq(Nodes) /\ Len(adjacency[m]) \in Nat
    BY <1>0, Typed
  <2>k. PICK last \in Nat \ {0} : last = Len(adjacency[e[1]]) + 1
    BY <2>2, <2>l
  <2>4. /\ Len(adjacency'[e[1]]) = last /\ adjacency'[e[1]][last] = e[2]
        /\ Len(adjacency[e[1]]) = last - 1
        /\ \A k \in 1 .. last - 1 : adjacency'[e[1]][k] = adjacency[e[1]][k]
    BY <2>2, <2>3, <2>k
  <2>5. ValidatorTypeOK'
    <3>1. indegree' \in [Nodes -> Nat]
      <4>1. indegree \in [Nodes -> Nat] /\ indegree[e[2]] + 1 \in Nat
        BY <1>0, <2>2, Typed
      <4> QED BY <2>1, <4>1
    <3>2. linked' \in 0 .. Len(edges)
      BY <1>a, <2>1
    <3> QED BY <1>0, <2>1, <2>2, <2>3, <3>1, <3>2 DEF ValidatorTypeOK, graph
  <2>6. \A m \in Nodes : \A n : Arc(m, n)' <=> Arc(m, n) \/ (m = e[1] /\ n = e[2])
    <3>1. \A k : k \in 1 .. last <=> k \in 1 .. last - 1 \/ k = last
      BY <2>k
    <3>2. ASSUME NEW n PROVE Arc(e[1], n)' <=> Arc(e[1], n) \/ n = e[2]
      <4>1. Arc(e[1], n) <=> \E k \in 1 .. last - 1 : adjacency[e[1]][k] = n
        BY <2>4 DEF Arc
      <4>2. Arc(e[1], n)' <=> \E k \in 1 .. last : adjacency'[e[1]][k] = n
        BY <2>4 DEF Arc
      <4> QED BY <2>4, <3>1, <4>1, <4>2
    <3>3. ASSUME NEW m \in Nodes, m # e[1], NEW n PROVE Arc(m, n)' <=> Arc(m, n)
      BY <2>3, <3>3 DEF Arc
    <3> QED BY <3>2, <3>3
  <2>7. LinkFact'
    <3>1. /\ \A i \in 1 .. linked' : i \in 1 .. linked \/ i = linked + 1
          /\ linked + 1 \in 1 .. linked'
      BY <1>a, <2>1
    <3>2. \A i \in 1 .. linked' :
              /\ edges[i][1] \in Nodes /\ edges[i][2] \in Nodes /\ edges[i][1] # edges[i][2]
              /\ Arc(edges[i][1], edges[i][2])'
      <4> SUFFICES ASSUME NEW i \in 1 .. linked'
                   PROVE  /\ edges[i][1] \in Nodes /\ edges[i][2] \in Nodes
                          /\ edges[i][1] # edges[i][2]
                          /\ \A m, n : m = edges[i][1] /\ n = edges[i][2] => Arc(m, n)'
        BY <2>1
      <4>1. CASE i \in 1 .. linked
        BY <1>0, <2>6, <4>1 DEF LinkFact
      <4>2. CASE i = linked + 1
        BY <1>1, <1>5, <2>6, <4>2
      <4> QED BY <3>1, <4>1, <4>2
    <3>3. ASSUME NEW m \in Nodes, NEW k \in 1 .. Len(adjacency'[m])
          PROVE  \E i \in 1 .. linked' : edges[i] = <<m, adjacency'[m][k]>>
      <4>1. \A i \in 1 .. linked : i \in 1 .. linked'
        BY <1>a, <2>1
      <4>2. CASE m = e[1] /\ k = last
        BY <1>1, <2>4, <3>1, <4>2
      <4>3. CASE ~(m = e[1] /\ k = last)
        <5>1. k \in 1 .. Len(adjacency[m]) /\ adjacency'[m][k] = adjacency[m][k]
          <6>1. CASE m # e[1]
            BY <2>3, <6>1
          <6>2. CASE m = e[1]
            <7>1. k \in 1 .. last /\ k # last
              BY <2>4, <4>3, <6>2
            <7>2. k \in 1 .. last - 1
              BY <2>k, <7>1
            <7> QED BY <2>4, <6>2, <7>2
          <6> QED BY <6>1, <6>2
        <5>2. \E i \in 1 .. linked : edges[i] = <<m, adjacency[m][k]>>
          BY <1>0, <5>1 DEF LinkFact
        <5> QED BY <4>1, <5>1, <5>2
      <4> QED BY <4>2, <4>3
    <3>4. (stage # "nodes" => nodes # <<>> /\ IsInjective(nodes))'
          /\ (stage \notin {"nodes", "edges"} => linked = Len(edges))'
      BY <1>0, <2>1 DEF LinkFact
    <3>5. (\A i \in 1 .. linked :
              /\ edges[i][1] \in Nodes /\ edges[i][2] \in Nodes /\ edges[i][1] # edges[i][2]
              /\ Arc(edges[i][1], edges[i][2]))'
      BY <2>1, <2>2, <3>2
    <3>6. (\A m \in Nodes : \A k \in 1 .. Len(adjacency[m]) :
              \E i \in 1 .. linked : edges[i] = <<m, adjacency[m][k]>>)'
      <4>1. edges' = edges
        BY <2>1
      <4> QED BY <2>2, <3>3, <4>1
    <3> QED BY <3>4, <3>5, <3>6 DEF LinkFact
  <2>8. CountFact'
    <3>1. ASSUME NEW n \in Nodes
          PROVE  Left(n)' = IF n = e[2] THEN Left(n) \cup {<<e[1], last>>} ELSE Left(n)
      <4>1. \A m, k : ~Taken(m, k) /\ ~Taken(m, k)'
        BY <1>0, <2>1 DEF SortFact, Taken, ToSet
      <4>2. \A m \in Nodes, k \in Nat :
               k \in 1 .. Len(adjacency'[m]) <=>
                   k \in 1 .. Len(adjacency[m]) \/ (m = e[1] /\ k = last)
        BY <2>3, <2>4, <2>k
      <4>3. \A s \in Nodes \X Nat : s = <<s[1], s[2]>> /\ s[1] \in Nodes /\ s[2] \in Nat
        OBVIOUS
      <4>4. ASSUME NEW m \in Nodes, NEW k \in Nat
            PROVE  k \in 1 .. Len(adjacency'[m]) /\ adjacency'[m][k] = n <=>
                      \/ k \in 1 .. Len(adjacency[m]) /\ adjacency[m][k] = n
                      \/ m = e[1] /\ k = last /\ n = e[2]
        <5>1. CASE m # e[1]
          BY <2>3, <5>1
        <5>2. CASE m = e[1] /\ k = last
          BY <2>4, <2>k, <5>2
        <5>3. CASE m = e[1] /\ k # last
          BY <2>4, <2>k, <4>2, <5>3
        <5> QED BY <5>1, <5>2, <5>3
      <4> QED BY <2>2, <2>4, <4>1, <4>3, <4>4 DEF Left
    <3>2. ASSUME NEW n \in Nodes
          PROVE  IsFiniteSet(Left(n)') /\ indegree'[n] = Cardinality(Left(n)')
      <4>1. IsFiniteSet(Left(n)) /\ indegree[n] = Cardinality(Left(n)) /\ indegree[n] \in Nat
        BY <1>0 DEF CountFact, ValidatorTypeOK
      <4>2. <<e[1], last>> \notin Left(n)
        BY <2>4, <2>k DEF Left
      <4>3. n # e[2] => indegree'[n] = indegree[n]
        BY <1>0, <2>1 DEF ValidatorTypeOK
      <4>4. n = e[2] => indegree'[n] = indegree[n] + 1
        BY <1>0, <2>1 DEF ValidatorTypeOK
      <4> QED BY <3>1, <4>1, <4>2, <4>3, <4>4, FS_AddElement
    <3> QED BY <2>2, <3>2 DEF CountFact
  <2>9. SearchFact' /\ ReachFact' /\ SortFact'
    <3>1. path = <<>> /\ visited = {} /\ started = 0 /\ order = <<>> /\ queue = <<>> /\ target = 1
      BY <1>0 DEF SearchFact, SortFact
    <3>2. Len(<<>>) = 0 /\ \A i : i \notin 1 .. 0
      OBVIOUS
    <3>3. SearchFact'
      BY <1>0, <2>1, <3>1, <3>2 DEF SearchFact, AcyclicIn
    <3> QED BY <1>0, <2>1, <3>1, <3>3 DEF ReachFact, SortFact
  <2> QED BY <1>0, <2>1, <2>5, <2>7, <2>8, <2>9 DEF ValidatorInv
<1> QED BY <1>3, <1>4, <1>5

\* A graph with an isolated node among others is not reachable from any node.
LEMMA CheckIsolatedKeeps == ASSUME ValidatorInv, CheckIsolated PROVE ValidatorInv'
<1>0. /\ stage = "edges" /\ linked = Len(edges) /\ ValidatorTypeOK
      /\ LinkFact /\ CountFact /\ SearchFact /\ ReachFact /\ SortFact
  BY DEF ValidatorInv, CheckIsolated
<1>1. CASE Isolated # {}
  <2>1. Throws("isolated")
    BY <1>1 DEF CheckIsolated
  <2>2. PICK n \in Nodes : \A e \in Arcs : n \notin {e[1], e[2]}
    BY <1>1 DEF Isolated
  <2>3. ~(Len(nodes) <= 1)
    BY <1>1 DEF Isolated
  <2>4. PICK x \in Nodes : x # n
    <3>1. nodes \in Seq(NodeIds) /\ IsInjective(nodes)
      BY <1>0, Typed DEF LinkFact
    <3>2. /\ 1 \in DOMAIN nodes /\ 2 \in DOMAIN nodes
          /\ 1 \in 1 .. Len(nodes) /\ 2 \in 1 .. Len(nodes)
      BY <2>3, <3>1
    <3>3. nodes[1] # nodes[2] /\ nodes[1] \in Nodes /\ nodes[2] \in Nodes
      BY <3>1, <3>2, Members DEF IsInjective, Nodes
    <3> QED BY <3>3
  <2>5. ASSUME NEW root \in Nodes PROVE ~ReachableFrom(root)
    <3>1. PICK S \in SUBSET Nodes : root \in S /\ S # Nodes /\ (S = {n} \/ S = Nodes \ {n})
      <4>1. CASE root = n
        BY <2>4, <4>1
      <4>2. CASE root # n
        BY <4>2
      <4> QED BY <4>1, <4>2
    <3>2. \A m \in S, y \in Nodes \ S : <<m, y>> \notin Arcs
      BY <2>2, <3>1
    <3> QED BY <3>1, <3>2 DEF ReachableFrom
  <2> QED BY <1>0, <2>1, <2>5, ThrowsKeeps DEF IsCanvas
<1>2. CASE Isolated = {}
  <2>1. /\ stage' = "search"
        /\ UNCHANGED <<nodes, edges, why, adjacency, indegree, linked, started, path, visited,
                       roots, reachable, frontier, queue, order, target>>
    BY <1>2 DEF CheckIsolated, Goes, graph, maps, search, reach, sort
  <2>2. ValidatorTypeOK'
    BY <1>0, <2>1 DEF ValidatorTypeOK, graph, Nodes
  <2>3. LinkFact'
    BY <1>0, <2>1 DEF LinkFact, Nodes, Arc
  <2>4. CountFact'
    BY <1>0, <2>1, CountFrame
  <2>5. SearchFact'
    BY <1>0, <2>1 DEF SearchFact, PathFact, AcyclicIn, Nodes, Arc
  <2>6. ReachFact' /\ SortFact'
    BY <1>0, <2>1 DEF ReachFact, SortFact, Nodes, Arc
  <2> QED BY <2>1, <2>2, <2>3, <2>4, <2>5, <2>6 DEF ValidatorInv
<1> QED BY <1>1, <1>2

-----------------------------------------------------------------------------
(* The search for cycles.                                                  *)

\* A step of the search keeps the rest.
LEMMA SearchFrame ==
    ASSUME ValidatorInv, stage = "search", SearchFact',
           UNCHANGED <<graph, stage, why, maps, reach, sort>>,
           path' \in Seq([node : Nodes, next : Nat \ {0}]), visited' \subseteq Nodes,
           started' \in 0 .. Len(nodes)
    PROVE  ValidatorInv'
<1>0. /\ ValidatorTypeOK /\ LinkFact /\ CountFact /\ ReachFact /\ SortFact
      /\ UNCHANGED <<nodes, edges, why, adjacency, indegree, linked,
                     roots, reachable, frontier, queue, order, target>>
  BY DEF ValidatorInv, graph, maps, reach, sort
<1>1. ValidatorTypeOK'
  BY <1>0 DEF ValidatorTypeOK, graph, Nodes
<1>2. LinkFact'
  BY <1>0 DEF LinkFact, Nodes, Arc
<1>3. CountFact'
  BY <1>0, CountFrame
<1>4. ReachFact' /\ SortFact'
  BY <1>0 DEF ReachFact, SortFact, Nodes, Arc
<1> QED BY <1>1, <1>2, <1>3, <1>4 DEF ValidatorInv

\* The search begins at a node that is not visited yet.
LEMMA SearchFromKeeps == ASSUME ValidatorInv, SearchFrom PROVE ValidatorInv'
<1>0. /\ stage = "search" /\ path = <<>> /\ started < Len(nodes)
      /\ ValidatorTypeOK /\ LinkFact /\ SearchFact
  BY DEF ValidatorInv, SearchFrom
<1>1. nodes \in Seq(NodeIds) /\ started \in Nat /\ started + 1 \in 1 .. Len(nodes)
  <2>1. nodes \in Seq(NodeIds)
    BY <1>0, Typed
  <2>2. started \in 0 .. Len(nodes)
    BY <1>0 DEF ValidatorTypeOK
  <2> QED BY <1>0, <2>1, <2>2
<1>2. PICK n \in Nodes : n = nodes[started + 1]
  BY <1>1, Members DEF Nodes
<1>c. PICK call \in [node : Nodes, next : Nat \ {0}] :
          call = [node |-> n, next |-> 1] /\ call.node = n /\ call.next = 1
  <2>1. 1 \in Nat \ {0}
    OBVIOUS
  <2>2. [node |-> n, next |-> 1] \in [node : Nodes, next : Nat \ {0}]
    BY <2>1
  <2> QED BY <2>2
<1>3. /\ UNCHANGED <<graph, stage, why, maps, visited, reach, sort>>
      /\ started' = started + 1
      /\ path' = IF n \in visited THEN <<>> ELSE Append(<<>>, call)
  <2>1. ToSet(<<>>) = {}
    BY DEF ToSet
  <2> QED BY <1>2, <1>c, <2>1 DEF SearchFrom, GetCyclePath
<1>4. UNCHANGED <<nodes, edges, adjacency>> /\ Nodes' = Nodes
  BY <1>3 DEF graph, maps, Nodes
<1>6. /\ path' \in Seq([node : Nodes, next : Nat \ {0}])
      /\ \/ n \in visited /\ Len(path') = 0
         \/ /\ n \notin visited /\ Len(path') = 1 /\ path' # <<>>
            /\ path'[1].node = n /\ path'[1].next = 1
  <2>1. <<>> \in Seq(Calls) /\ Len(<<>>) = 0
    OBVIOUS
  <2>2. call \in Calls
    BY DEF Calls
  <2>3. /\ Append(<<>>, call) \in Seq(Calls) /\ Len(Append(<<>>, call)) = 1
        /\ Append(<<>>, call)[1] = call /\ Append(<<>>, call) # <<>>
    BY <2>1, <2>2
  <2> QED BY <1>3, <1>c, <2>1, <2>3 DEF Calls
<1>7. SearchFact'
  <2>1. \A i \in 1 .. Len(path') : PathFact(i)'
    <3>1. Len(adjacency[n]) \in Nat
      BY <1>0, Typed
    <3>2. 1 - 1 = 0 /\ 0 <= Len(adjacency[n]) /\ \A k : k \notin 1 .. 0
      BY <3>1
    <3>3. ASSUME NEW i \in 1 .. Len(path') PROVE PathFact(i)'
      <4>1. i = 1 /\ n \notin visited /\ Len(path') = 1 /\ path'[1].node = n /\ path'[1].next = 1
        <5>1. \A k : k \notin 1 .. 0 /\ (k \in 1 .. 1 => k = 1)
          OBVIOUS
        <5> QED BY <1>6, <5>1
      <4> QED BY <1>3, <1>4, <3>2, <4>1 DEF PathFact
    <3> QED BY <3>3
  <2>2. \A i, j \in 1 .. Len(path') : path'[i].node = path'[j].node => i = j
    BY <1>6
  <2>3. \A i \in 1 .. started' : nodes[i] \in visited \/ (path' # <<>> /\ nodes[i] = path'[1].node)
    <3>1. \A i \in 1 .. started' : i \in 1 .. started \/ i = started + 1
      BY <1>1, <1>3
    <3>2. \A i \in 1 .. started : nodes[i] \in visited
      BY <1>0 DEF SearchFact
    <3> QED BY <1>2, <1>6, <3>1, <3>2
  <2>a. visited' = visited /\ \A m, x : Arc(m, x)' <=> Arc(m, x)
    BY <1>3, <1>4 DEF Arc
  <2>b. \A m \in visited, x \in Nodes : Arc(m, x) => x \in visited
    BY <1>0 DEF SearchFact
  <2>4. (\A m \in visited, x \in Nodes : Arc(m, x) => x \in visited)'
    BY <1>4, <2>a, <2>b
  <2>c. AcyclicIn(visited)
    BY <1>0 DEF SearchFact
  <2>d. AcyclicIn(visited)'
    BY <2>a, <2>c DEF AcyclicIn
  <2>5. stage' = "search" /\ UNCHANGED <<nodes, visited>>
    BY <1>0, <1>3, <1>4
  <2> QED BY <2>1, <2>2, <2>3, <2>4, <2>d, <2>5 DEF SearchFact
<1>8. started' \in 0 .. Len(nodes) /\ visited' \subseteq Nodes
  <2>1. started' \in 0 .. Len(nodes)
    BY <1>1, <1>3
  <2> QED BY <1>0, <1>3, <2>1 DEF ValidatorTypeOK
<1> QED BY <1>0, <1>3, <1>6, <1>7, <1>8, SearchFrame

\* The search goes on to a node it is not at: if it were, the calls in
\* progress from there would be a cycle.
LEMMA SearchTargetKeeps == ASSUME ValidatorInv, SearchTarget PROVE ValidatorInv'
<1>0. /\ stage = "search" /\ path # <<>> /\ ValidatorTypeOK /\ LinkFact /\ SearchFact
      /\ linked = Len(edges)
  BY DEF ValidatorInv, SearchTarget, LinkFact
<1>t. \A x : x \in Calls => x.node \in Nodes /\ x.next \in Nat \ {0}
  BY DEF Calls
<1>u. \A x \in Nodes, j \in Nat \ {0} : [node |-> x, next |-> j] \in Calls
  BY DEF Calls
<1>v. path \in Seq(Calls)
  BY <1>0 DEF ValidatorTypeOK, Calls
<1>1. PICK L \in Nat \ {0} : L = Len(path)
  BY <1>0, <1>v
<1>w. \A i \in 1 .. L : path[i] \in Calls /\ path[i].node \in Nodes /\ path[i].next \in Nat \ {0}
  BY <1>t, <1>v, <1>1
<1>x. L \in 1 .. L /\ Last(path) = path[L]
  BY <1>1 DEF Last
<1>2. PICK c \in Nodes, k \in Nat \ {0} : c = path[L].node /\ k = path[L].next
  BY <1>w, <1>x
<1>3. PICK n \in Nodes : n = adjacency[c][k] /\ Arc(c, n)
  <2>1. k \in 1 .. Len(adjacency[c]) /\ adjacency[c] \in Seq(Nodes)
    <3>1. k <= Len(adjacency[c])
      BY <1>x, <1>2 DEF SearchTarget
    <3>2. adjacency[c] \in Seq(Nodes) /\ Len(adjacency[c]) \in Nat
      BY <1>0, Typed
    <3> QED BY <3>1, <3>2
  <2> QED BY <2>1 DEF Arc
<1>4. PICK callers :
          /\ callers \in Seq(Calls)
          /\ callers = [path EXCEPT ![Len(path)].next = @ + 1]
          /\ Len(callers) = L
          /\ \A i \in 1 .. L : /\ callers[i].node = path[i].node
                               /\ i # L => callers[i].next = path[i].next
          /\ callers[L].next = k + 1
  <2>1. path[L] = [node |-> c, next |-> k] /\ path[L].next = k
    BY <1>w, <1>x, <1>2 DEF Calls
  <2>r. PICK call : call = [node |-> c, next |-> k + 1]
    OBVIOUS
  <2>2. call.node = c /\ call.next = k + 1
    BY <2>r
  <2>c. call \in Calls
    <3>1. k + 1 \in Nat \ {0}
      OBVIOUS
    <3> QED BY <1>u, <2>r, <3>1
  <2>3. PICK q : /\ q = [path EXCEPT ![L] = call] /\ q \in Seq(Calls) /\ Len(q) = L
                 /\ \A i \in 1 .. L : q[i] = IF i = L THEN call ELSE path[i]
    <3>1. path \in Seq(Calls) /\ call \in Calls /\ L \in 1 .. Len(path) /\ Len(path) = L
      BY <1>v, <1>x, <1>1, <2>c
    <3>2. /\ [path EXCEPT ![L] = call] \in Seq(Calls) /\ Len([path EXCEPT ![L] = call]) = L
          /\ \A i \in 1 .. L : [path EXCEPT ![L] = call][i] = IF i = L THEN call ELSE path[i]
      BY <3>1, Replaced
    <3> QED BY <3>2, Zenon
  <2>4. [path[L] EXCEPT !.next = @ + 1] = call
    BY <2>1, <2>r
  <2>5. q = [path EXCEPT ![Len(path)].next = @ + 1]
    BY <1>1, <2>3, <2>4
  <2>6. \A i \in 1 .. L : q[i].node = path[i].node /\ (i # L => q[i].next = path[i].next)
    BY <1>2, <2>2, <2>3
  <2>7. q \in Seq(Calls) /\ Len(q) = L
    BY <2>3
  <2>8. q[L].next = k + 1
    BY <1>x, <2>2, <2>3
  <2> QED BY <2>5, <2>6, <2>7, <2>8, Zenon
<1>s. callers \in Seq(Calls) /\ Len(callers) = L /\ \A i \in 1 .. L : callers[i].node = path[i].node
  BY <1>4
<1>5. GetCyclePath(n, callers)
  BY <1>x, <1>1, <1>2, <1>3, <1>4 DEF SearchTarget
<1>6. CASE \E call \in ToSet(callers) : call.node = n
  <2>1. Throws("cycle")
    BY <1>5, <1>6 DEF GetCyclePath
  <2>2. PICK i \in 1 .. L : path[i].node = n
    BY <1>s, <1>6, Members
  <2> DEFINE S == {path[j].node : j \in i .. L}
  <2>3. S \in SUBSET Nodes /\ S # {} /\ c \in S
    BY <1>w, <1>1, <1>2, <2>2
  <2>4. ASSUME NEW x \in S PROVE \E m \in S : Arc(m, x)
    <3>1. PICK j \in i .. L : x = path[j].node
      OBVIOUS
    <3>2. CASE j = i
      BY <1>3, <2>2, <2>3, <3>1, <3>2
    <3>3. CASE j # i
      <4>1. j - 1 \in i .. L /\ j - 1 \in 1 .. L /\ j - 1 < L /\ (j - 1) + 1 = j
        BY <1>1, <2>2, <3>1, <3>3
      <4>2. PathFact(j - 1)
        BY <1>0, <1>1, <4>1 DEF SearchFact
      <4>3. path[j - 1].next \in Nat \ {0} /\ path[j - 1].node \in Nodes
        BY <1>w, <4>1
      <4>4. /\ path[j - 1].next > 1
            /\ adjacency[path[j - 1].node][path[j - 1].next - 1] = x
            /\ path[j - 1].next - 1 <= Len(adjacency[path[j - 1].node])
        BY <1>1, <3>1, <4>1, <4>2 DEF PathFact
      <4>5. path[j - 1].next - 1 \in 1 .. Len(adjacency[path[j - 1].node])
        <5>1. Len(adjacency[path[j - 1].node]) \in Nat
          BY <1>0, <4>3, Typed
        <5> QED BY <4>3, <4>4, <5>1
      <4>6. Arc(path[j - 1].node, x)
        BY <4>4, <4>5 DEF Arc
      <4> QED BY <4>1, <4>6
    <3> QED BY <3>2, <3>3
  <2>5. \A m, x \in Nodes : Arc(m, x) => <<m, x>> \in Arcs
    BY <1>0, Linked
  <2>6. ~Acyclic
    <3> HIDE DEF S
    <3> QED BY <2>3, <2>4, <2>5 DEF Acyclic
  <2> QED BY <1>0, <2>1, <2>6, ThrowsKeeps DEF IsCanvas
<1>7. CASE ~ \E call \in ToSet(callers) : call.node = n
  <2>1. /\ UNCHANGED <<graph, stage, why, maps, visited, reach, sort>>
        /\ path' = IF n \in visited THEN callers ELSE Append(callers, [node |-> n, next |-> 1])
        /\ started' = started
    <3>1. callers # <<>>
      BY <1>1, <1>4
    <3> QED BY <1>5, <1>7, <3>1 DEF GetCyclePath
  <2>2. UNCHANGED <<nodes, edges, adjacency, visited, stage>> /\ Nodes' = Nodes
    BY <2>1 DEF graph, maps, Nodes
  <2>3. PICK M, new :
            /\ M \in Nat /\ new \in Seq(Calls)
            /\ path' = new /\ Len(new) = M
            /\ \/ n \in visited /\ M = L
               \/ n \notin visited /\ M = L + 1 /\ new[M].node = n /\ new[M].next = 1
            /\ \A i \in 1 .. L : /\ new[i].node = path[i].node
                                 /\ i # L => new[i].next = path[i].next
            /\ new[L].next = k + 1
    <3>1. CASE n \in visited
      BY <1>4, <2>1, <3>1
    <3>2. CASE n \notin visited
      <4>1. PICK call \in Calls : call = [node |-> n, next |-> 1] /\ call.node = n /\ call.next = 1
        <5>1. 1 \in Nat \ {0}
          OBVIOUS
        <5> QED BY <1>u, <5>1
      <4>2. PICK new : new = Append(callers, call) /\ new \in Seq(Calls)
        <5>1. callers \in Seq(Calls) /\ call \in Calls
          BY <1>s, <4>1
        <5>2. Append(callers, call) \in Seq(Calls)
          BY <5>1
        <5> QED BY <5>2, Zenon
      <4>3. Len(new) = L + 1 /\ new[L + 1] = call /\ \A i \in 1 .. L : new[i] = callers[i]
        BY <1>s, <4>1, <4>2
      <4>4. path' = new /\ new[L + 1].node = n /\ new[L + 1].next = 1
        BY <2>1, <3>2, <4>1, <4>2, <4>3
      <4>5. L + 1 \in Nat
        OBVIOUS
      <4>6. \A i \in 1 .. L : new[i].node = path[i].node /\ (i # L => new[i].next = path[i].next)
        BY <1>4, <4>3
      <4>7. new[L].next = k + 1
        BY <1>4, <1>x, <4>3
      <4> QED BY <3>2, <4>2, <4>3, <4>4, <4>5, <4>6, <4>7
    <3> QED BY <3>1, <3>2
  <2>4. ASSUME NEW i \in 1 .. M PROVE PathFact(i)'
    <3>0. \A j \in 1 .. L : PathFact(j)
      BY <1>0, <1>1 DEF SearchFact
    <3>1. CASE i \in 1 .. L - 1
      <4>1. i \in 1 .. L /\ i + 1 \in 1 .. L /\ i < L /\ i < M /\ i # L
        BY <2>3, <3>1
      <4>2. new[i].node = path[i].node /\ new[i].next = path[i].next /\ new[i + 1].node = path[i + 1].node
        BY <2>3, <4>1
      <4>3. PathFact(i)
        BY <3>0, <4>1
      <4> QED BY <1>1, <2>2, <2>3, <4>1, <4>2, <4>3 DEF PathFact
    <3>2. CASE i = L
      <4>1. PathFact(L)
        BY <1>x, <3>0
      <4>2. c \notin visited /\ \A j \in 1 .. k - 1 : adjacency[c][j] \in visited
        BY <1>1, <1>2, <4>1 DEF PathFact
      <4>3. new[L].node = c /\ new[L].next = k + 1 /\ (k + 1) - 1 = k /\ k + 1 > 1
        BY <1>x, <1>2, <2>3
      <4>4. k <= Len(adjacency[c])
        BY <1>x, <1>2 DEF SearchTarget
      <4>5. L < M => n \notin visited /\ new[L + 1].node = n
        BY <2>3
      <4>6. \A j \in 1 .. k : j \in 1 .. k - 1 \/ j = k
        OBVIOUS
      <4>7. \A j \in 1 .. k : adjacency[c][j] \in visited \/ (L < M /\ j = k)
        BY <1>3, <2>3, <4>2, <4>6
      <4> QED BY <1>3, <2>2, <2>3, <3>2, <4>2, <4>3, <4>4, <4>5, <4>7 DEF PathFact
    <3>3. CASE i = L + 1
      <4>1. n \notin visited /\ M = L + 1 /\ new[i].node = n /\ new[i].next = 1
        BY <2>3, <3>3
      <4>2. 1 - 1 = 0 /\ 0 <= Len(adjacency[n]) /\ ~(i < M) /\ \A j : j \notin 1 .. 0
        <5>1. Len(adjacency[n]) \in Nat
          BY <1>0, Typed
        <5> QED BY <3>3, <4>1, <5>1
      <4> QED BY <2>2, <2>3, <4>1, <4>2 DEF PathFact
    <3> QED BY <2>3, <3>1, <3>2, <3>3
  <2>5. \A i, j \in 1 .. M : new[i].node = new[j].node => i = j
    <3>1. \A i, j \in 1 .. L : path[i].node = path[j].node => i = j
      BY <1>0, <1>1 DEF SearchFact
    <3>2. \A i \in 1 .. L : path[i].node # n
      <4>1. \A i \in 1 .. L : callers[i] \in ToSet(callers)
        BY <1>s, Members
      <4> QED BY <1>s, <1>7, <4>1
    <3>3. \A i \in 1 .. M : i \in 1 .. L \/ (M = L + 1 /\ i = M /\ new[i].node = n)
      BY <2>3
    <3> QED BY <2>3, <3>1, <3>2, <3>3
  <2>6. \A i \in 1 .. started : nodes[i] \in visited \/ (new # <<>> /\ nodes[i] = new[1].node)
    <3>1. new # <<>> /\ 1 \in 1 .. L /\ new[1].node = path[1].node
      <4>1. 1 \in 1 .. L /\ M # 0
        BY <2>3
      <4> QED BY <2>3, <4>1
    <3> QED BY <1>0, <3>1 DEF SearchFact
  <2>7. visited' = visited /\ \A m, x : Arc(m, x)' <=> Arc(m, x)
    BY <2>2 DEF Arc
  <2>8. /\ \A m \in visited, x \in Nodes : Arc(m, x) => x \in visited
        /\ AcyclicIn(visited)
    BY <1>0 DEF SearchFact
  <2>9. (\A m \in visited, x \in Nodes : Arc(m, x) => x \in visited)'
    BY <2>2, <2>7, <2>8
  <2>10. AcyclicIn(visited)'
    BY <2>7, <2>8 DEF AcyclicIn
  <2>11. SearchFact'
    BY <1>0, <2>1, <2>2, <2>3, <2>4, <2>5, <2>6, <2>9, <2>10 DEF SearchFact
  <2>12. /\ path' \in Seq([node : Nodes, next : Nat \ {0}])
         /\ visited' \subseteq Nodes /\ started' \in 0 .. Len(nodes)
    BY <1>0, <2>1, <2>2, <2>3 DEF Calls, ValidatorTypeOK
  <2> QED BY <1>0, <2>1, <2>11, <2>12, SearchFrame
<1> QED BY <1>6, <1>7

\* A node that is left has all its targets visited, and none of those leads
\* back to it.
LEMMA LeaveNodeKeeps == ASSUME ValidatorInv, LeaveNode PROVE ValidatorInv'
<1>0. /\ stage = "search" /\ path # <<>> /\ ValidatorTypeOK /\ LinkFact /\ SearchFact
      /\ UNCHANGED <<graph, stage, why, maps, started, reach, sort>>
  BY DEF ValidatorInv, LeaveNode
<1>t. \A x : x \in Calls => x.node \in Nodes /\ x.next \in Nat \ {0}
  BY DEF Calls
<1>v. path \in Seq(Calls)
  BY <1>0 DEF ValidatorTypeOK, Calls
<1>1. PICK L \in Nat \ {0} : L = Len(path)
  BY <1>0, <1>v
<1>w. \A i \in 1 .. L : path[i] \in Calls /\ path[i].node \in Nodes /\ path[i].next \in Nat \ {0}
  BY <1>t, <1>v, <1>1
<1>x. L \in 1 .. L /\ Last(path) = path[L]
  BY <1>1 DEF Last
<1>2. PICK c \in Nodes : c = path[L].node
  BY <1>w, <1>x
<1>p. \A i \in 1 .. L : PathFact(i)
  BY <1>0, <1>1 DEF SearchFact
<1>3. /\ \A m \in visited, x \in Nodes : Arc(m, x) => x \in visited
      /\ \A i, j \in 1 .. L : path[i].node = path[j].node => i = j
      /\ AcyclicIn(visited) /\ visited \subseteq Nodes
  BY <1>0, <1>1 DEF SearchFact, ValidatorTypeOK
<1>4. c \notin visited /\ \A x : Arc(c, x) => x \in visited
  <2>1. PathFact(L)
    BY <1>x, <1>p
  <2>2. path[L].next > Len(adjacency[c]) /\ Len(adjacency[c]) \in Nat /\ path[L].next \in Nat
    BY <1>0, <1>w, <1>x, <1>2, Typed DEF LeaveNode
  <2>3. c \notin visited /\ \A k \in 1 .. path[L].next - 1 : adjacency[c][k] \in visited
    BY <1>1, <1>2, <2>1 DEF PathFact
  <2>4. \A k \in 1 .. Len(adjacency[c]) : k \in 1 .. path[L].next - 1
    BY <2>2
  <2> QED BY <2>3, <2>4 DEF Arc
<1>5. PICK new : /\ path' = new /\ new \in Seq(Calls) /\ Len(new) = L - 1
                 /\ \A i \in 1 .. L - 1 : new[i] = path[i]
  <2>1. /\ Front(path) \in Seq(Calls) /\ Len(Front(path)) = L - 1
        /\ \A i \in 1 .. L - 1 : Front(path)[i] = path[i]
    BY <1>v, <1>1 DEF Front
  <2>2. path' = Front(path)
    BY DEF LeaveNode
  <2> QED BY <2>1, <2>2
<1>6. UNCHANGED <<nodes, edges, adjacency, stage>> /\ Nodes' = Nodes
  BY <1>0 DEF graph, maps, Nodes
<1>7. visited' = visited \cup {c} /\ \A m, x : Arc(m, x)' <=> Arc(m, x)
  BY <1>x, <1>2, <1>6 DEF LeaveNode, Arc
<1>8. ASSUME NEW i \in 1 .. L - 1 PROVE PathFact(i)'
  <2>1. i \in 1 .. L /\ i + 1 \in 1 .. L /\ i # L /\ PathFact(i) /\ i < L
    BY <1>p
  <2>2. PICK m \in Nodes, k \in Nat \ {0} : m = path[i].node /\ k = path[i].next
    BY <1>w, <2>1
  <2>3. new[i].node = m /\ new[i].next = k
    BY <1>5, <2>2
  <2>4. m # c /\ m \notin visited
    BY <1>x, <1>2, <1>3, <2>1, <2>2 DEF PathFact
  <2>5. /\ k - 1 <= Len(adjacency[m]) /\ k > 1 /\ adjacency[m][k - 1] = path[i + 1].node
        /\ \A j \in 1 .. k - 1 : adjacency[m][j] \in visited \/ j = k - 1
    BY <1>1, <2>1, <2>2 DEF PathFact
  <2>6. i < L - 1 => new[i + 1].node = path[i + 1].node
    BY <1>5
  <2>7. i < L - 1 \/ i + 1 = L
    BY <2>1
  <2>8. \A j \in 1 .. k - 1 : \/ adjacency[m][j] \in visited \cup {c}
                              \/ i < L - 1 /\ j = k - 1
    BY <1>2, <2>5, <2>7
  <2> QED BY <1>5, <1>6, <1>7, <2>3, <2>4, <2>5, <2>6, <2>8 DEF PathFact
<1>9. \A i, j \in 1 .. L - 1 : new[i].node = new[j].node => i = j
  BY <1>3, <1>5
<1>10. \A i \in 1 .. started : \/ nodes[i] \in visited \cup {c}
                               \/ new # <<>> /\ nodes[i] = new[1].node
  <2>1. \A i \in 1 .. started : nodes[i] \in visited \/ nodes[i] = path[1].node
    BY <1>0 DEF SearchFact
  <2>2. CASE L = 1
    BY <1>2, <2>1, <2>2
  <2>3. CASE L # 1
    <3>1. 1 \in 1 .. L - 1 /\ L - 1 # 0
      BY <2>3
    <3>2. new # <<>> /\ new[1] = path[1]
      BY <1>5, <3>1
    <3> QED BY <2>1, <3>2
  <2> QED BY <2>2, <2>3
<1>11. (\A m \in visited, x \in Nodes : Arc(m, x) => x \in visited)'
  BY <1>3, <1>4, <1>6, <1>7
<1>12. AcyclicIn(visited \cup {c})
  <2>1. ASSUME NEW T \in SUBSET (visited \cup {c}), T # {}
        PROVE  \E n \in T : \A m \in T : ~Arc(m, n)
    <3>1. CASE c \in T
      BY <1>3, <1>4, <3>1
    <3>2. CASE c \notin T
      BY <1>3, <2>1, <3>2 DEF AcyclicIn
    <3> QED BY <3>1, <3>2
  <2> QED BY <2>1 DEF AcyclicIn
<1>13. AcyclicIn(visited)'
  BY <1>7, <1>12 DEF AcyclicIn
<1>14. SearchFact'
  <2>1. stage' = "search" /\ started' = started /\ path' = new /\ Len(path') = L - 1
    BY <1>0, <1>5
  <2>2. (\A i \in 1 .. started : nodes[i] \in visited \/ (path # <<>> /\ nodes[i] = path[1].node))'
    BY <1>6, <1>7, <1>10, <2>1
  <2> QED BY <1>8, <1>9, <1>11, <1>13, <2>1, <2>2 DEF SearchFact
<1>15. /\ path' \in Seq([node : Nodes, next : Nat \ {0}])
       /\ visited' \subseteq Nodes /\ started' \in 0 .. Len(nodes)
  BY <1>0, <1>3, <1>5, <1>7 DEF Calls, ValidatorTypeOK
<1> QED BY <1>0, <1>14, <1>15, SearchFrame

\* While nothing is ordered, the indegree of a node is that of the graph.
LEMMA Entered ==
    ASSUME CountFact, order = <<>>
    PROVE  \A n \in Nodes : indegree[n] = 0 <=> \A m \in Nodes : ~Arc(m, n)
<1>1. \A s : s \in Nodes \X Nat => s = <<s[1], s[2]>> /\ s[1] \in Nodes /\ s[2] \in Nat
  OBVIOUS
<1>2. \A m, k : ~Taken(m, k)
  <2>1. ToSet(<<>>) = {}
    BY DEF ToSet
  <2> QED BY <2>1 DEF Taken
<1>3. ASSUME NEW n \in Nodes PROVE Left(n) = {} <=> \A m \in Nodes : ~Arc(m, n)
  <2>1. ASSUME NEW m \in Nodes, NEW k \in 1 .. Len(adjacency[m]), adjacency[m][k] = n
        PROVE  <<m, k>> \in Left(n)
    <3>1. k \in Nat
      OBVIOUS
    <3> QED BY <1>2, <2>1, <3>1 DEF Left
  <2>2. ASSUME NEW s \in Left(n) PROVE s[1] \in Nodes /\ Arc(s[1], n)
    BY <1>1 DEF Left, Arc
  <2> QED BY <2>1, <2>2 DEF Arc
<1>4. \A n \in Nodes : indegree[n] = 0 <=> Left(n) = {}
  BY FS_EmptySet DEF CountFact
<1> QED BY <1>3, <1>4

\* After the search the graph has no cycle; reached from one node, it has one
\* root.
LEMMA CheckRootsKeeps == ASSUME ValidatorInv, CheckRoots PROVE ValidatorInv'
<1>0. /\ stage = "search" /\ path = <<>> /\ started = Len(nodes) /\ ValidatorTypeOK
      /\ LinkFact /\ CountFact /\ SearchFact /\ ReachFact /\ SortFact /\ linked = Len(edges)
  BY DEF ValidatorInv, CheckRoots, LinkFact
<1>1. visited = Nodes
  <2>1. \A n \in Nodes : \E i \in 1 .. started : nodes[i] = n
    BY <1>0, Typed, Members DEF Nodes
  <2>2. \A i \in 1 .. started : nodes[i] \in visited
    BY <1>0 DEF SearchFact
  <2>3. visited \subseteq Nodes
    BY <1>0 DEF ValidatorTypeOK
  <2> QED BY <2>1, <2>2, <2>3
<1>2. Acyclic
  BY <1>0, <1>1, Searched
<1>3. \A n \in Nodes : indegree[n] = 0 <=> \A m \in Nodes : ~Arc(m, n)
  BY <1>0, Entered DEF SortFact
<1>4. \A m, n \in Nodes : <<m, n>> \in Arcs <=> Arc(m, n)
  BY <1>0, Linked
<1>5. CASE Cardinality(RootNodes) # 1
  <2>1. Throws("roots")
    BY <1>5 DEF CheckRoots
  <2>2. ASSUME NEW root \in Nodes, ReachableFrom(root) PROVE FALSE
    <3>1. \A n \in Nodes : n # root <=> \E m \in Nodes : <<m, n>> \in Arcs
      BY <1>2, <2>2, OneRoot
    <3>2. RootNodes = {root}
      <4>1. \A n \in Nodes : n # root <=> \E m \in Nodes : Arc(m, n)
        BY <1>4, <3>1
      <4>2. \A n \in Nodes : indegree[n] = 0 <=> n = root
        BY <1>3, <4>1, Zenon
      <4> QED BY <4>2 DEF RootNodes
    <3> QED BY <1>5, <3>2, FS_Singleton
  <2> QED BY <1>0, <1>2, <2>1, <2>2, ThrowsKeeps DEF IsCanvas
<1>6. CASE Cardinality(RootNodes) = 1
  <2>1. PICK root \in Nodes : RootNodes = {root}
    <3>1. IsFiniteSet(Nodes)
      BY <1>0, Typed, Counted DEF LinkFact, Nodes
    <3>2. RootNodes \subseteq Nodes
      BY DEF RootNodes
    <3>3. IsFiniteSet(RootNodes)
      BY <3>1, <3>2, FS_Subset
    <3> QED BY <1>6, <3>2, <3>3, FS_Singleton
  <2>2. /\ roots' = {root} /\ frontier' = {root} /\ stage' = "reach"
        /\ UNCHANGED <<nodes, edges, why, adjacency, indegree, linked, started, path, visited,
                       reachable, queue, order, target>>
    BY <1>6, <2>1 DEF CheckRoots, Goes, graph, maps, search, sort
  <2>3. ValidatorTypeOK'
    BY <1>0, <2>2 DEF ValidatorTypeOK, graph, Nodes
  <2>4. LinkFact'
    BY <1>0, <2>2 DEF LinkFact, Nodes, Arc
  <2>5. CountFact'
    BY <1>0, <2>2, CountFrame
  <2>6. SearchFact'
    <3>1. \A m, x : Arc(m, x)' <=> Arc(m, x)
      BY <2>2 DEF Arc
    <3>2. AcyclicIn(visited)'
      BY <1>0, <2>2, <3>1 DEF SearchFact, AcyclicIn
    <3>3. Nodes' = Nodes /\ Len(path') = 0 /\ path' = <<>>
      BY <1>0, <2>2 DEF Nodes
    <3>4. \A i : i \notin 1 .. 0
      OBVIOUS
    <3>5. (\A m \in visited, n \in Nodes : Arc(m, n) => n \in visited)'
      BY <1>0, <2>2, <3>1, <3>3 DEF SearchFact
    <3>6. (\A i \in 1 .. started : nodes[i] \in visited \/ (path # <<>> /\ nodes[i] = path[1].node))'
      BY <1>0, <2>2 DEF SearchFact
    <3> QED BY <1>1, <2>2, <3>2, <3>3, <3>4, <3>5, <3>6 DEF SearchFact
  <2>7. ReachFact'
    <3>1. \A n \in Nodes : n # root <=> \E m \in Nodes : Arc(m, n)
      BY <1>3, <2>1 DEF RootNodes
    <3>2. (\A n \in Nodes : n # root <=> \E m \in Nodes : Arc(m, n))'
      BY <2>2, <3>1 DEF Nodes, Arc
    <3>3. reachable' = {} /\ root \in Nodes'
      BY <1>0, <2>2 DEF ReachFact, Nodes
    <3> QED BY <2>2, <3>2, <3>3 DEF ReachFact
  <2>8. SortFact'
    BY <1>0, <2>2 DEF SortFact
  <2> QED BY <2>2, <2>3, <2>4, <2>5, <2>6, <2>7, <2>8 DEF ValidatorInv
<1> QED BY <1>5, <1>6

-----------------------------------------------------------------------------
(* What is reached, and the order.                                         *)

\* The steps after the search keep what it has found.
LEMMA ReachFrame ==
    ASSUME LinkFact, SearchFact,
           stage \in {"reach", "sort"}, stage' \in {"reach", "sort", "done"},
           UNCHANGED <<nodes, edges, adjacency, linked, search>>
    PROVE  /\ LinkFact' /\ SearchFact' /\ Nodes' = Nodes
           /\ \A m, x : Arc(m, x)' <=> Arc(m, x)
<1>1. /\ Nodes' = Nodes /\ \A m, x : Arc(m, x)' <=> Arc(m, x)
      /\ UNCHANGED <<started, path, visited>>
  BY DEF Nodes, Arc, search
<1>2. LinkFact'
  BY DEF LinkFact, Nodes, Arc
<1>3. path = <<>> /\ visited = Nodes
  BY DEF SearchFact
<1>4. AcyclicIn(visited)'
  BY <1>1 DEF SearchFact, AcyclicIn
<1>5. Len(path') = 0 /\ \A i : i \notin 1 .. 0
  BY <1>1, <1>3
<1>6. (\A m \in visited, n \in Nodes : Arc(m, n) => n \in visited)'
  BY <1>1, <1>3
<1>7. (\A i \in 1 .. started : nodes[i] \in visited \/ (path # <<>> /\ nodes[i] = path[1].node))'
  BY <1>1 DEF SearchFact
<1>8. SearchFact'
  BY <1>1, <1>3, <1>4, <1>5, <1>6, <1>7 DEF SearchFact
<1> QED BY <1>1, <1>2, <1>8

\* The targets of a node that is reached are reached or will be.
LEMMA ReachKeeps == ASSUME ValidatorInv, NEW r \in Nodes, Reach(r) PROVE ValidatorInv'
<1>0. /\ stage = "reach" /\ r \in frontier /\ ValidatorTypeOK
      /\ LinkFact /\ CountFact /\ SearchFact /\ ReachFact /\ SortFact
      /\ reachable' = reachable \cup {r}
      /\ frontier' = (frontier \cup ToSet(adjacency[r])) \ reachable'
      /\ UNCHANGED <<nodes, edges, stage, why, adjacency, indegree, linked, started, path,
                     visited, roots, queue, order, target>>
  BY DEF ValidatorInv, Reach, graph, maps, search, sort
<1>1. /\ LinkFact' /\ SearchFact' /\ Nodes' = Nodes /\ \A m, x : Arc(m, x)' <=> Arc(m, x)
  BY <1>0, ReachFrame DEF search
<1>2. ToSet(adjacency[r]) \subseteq Nodes /\ \A x : Arc(r, x) => x \in ToSet(adjacency[r])
  BY <1>0, Typed, Members DEF Arc
<1>3. ValidatorTypeOK'
  BY <1>0, <1>1, <1>2 DEF ValidatorTypeOK, graph
<1>4. CountFact'
  BY <1>0, CountFrame
<1>5. ReachFact'
  <2>1. /\ roots \subseteq reachable \cup frontier
        /\ \A m \in reachable, n \in Nodes : Arc(m, n) => n \in reachable \cup frontier
    BY <1>0 DEF ReachFact
  <2>2. roots \subseteq reachable' \cup frontier'
    BY <1>0, <2>1
  <2>3. \A m \in reachable', n \in Nodes : Arc(m, n) => n \in reachable' \cup frontier'
    BY <1>0, <1>2, <2>1
  <2>4. PICK root \in Nodes : roots = {root} /\ \A n \in Nodes : n # root <=> \E m \in Nodes : Arc(m, n)
    BY <1>0 DEF ReachFact
  <2>5. (\A n \in Nodes : n # root <=> \E m \in Nodes : Arc(m, n))'
    BY <1>1, <2>4
  <2>6. stage' = "reach" /\ roots' = roots
    BY <1>0
  <2>7. (roots \subseteq reachable \cup frontier)'
    BY <2>2, <2>6
  <2>8. (\A m \in reachable, n \in Nodes : Arc(m, n) => n \in reachable \cup frontier)'
    BY <1>1, <2>3
  <2> QED BY <1>1, <2>4, <2>5, <2>6, <2>7, <2>8 DEF ReachFact
<1>6. SortFact'
  BY <1>0 DEF SortFact
<1> QED BY <1>0, <1>1, <1>3, <1>4, <1>5, <1>6 DEF ValidatorInv

\* Of an acyclic graph with one root everything is reached: the check never
\* throws.
LEMMA CheckReachableKeeps == ASSUME ValidatorInv, CheckReachable PROVE ValidatorInv'
<1>0. /\ stage = "reach" /\ frontier = {} /\ ValidatorTypeOK /\ linked = Len(edges)
      /\ LinkFact /\ CountFact /\ SearchFact /\ ReachFact /\ SortFact
  BY DEF ValidatorInv, CheckReachable, LinkFact
<1>1. Acyclic
  BY <1>0, Searched DEF SearchFact
<1>2. \A m, n \in Nodes : <<m, n>> \in Arcs <=> Arc(m, n)
  BY <1>0, Linked
<1>3. PICK root \in Nodes : roots = {root} /\ \A n \in Nodes : n # root <=> \E m \in Nodes : Arc(m, n)
  BY <1>0 DEF ReachFact
<1>4. reachable = Nodes
  <2>1. /\ root \in reachable /\ reachable \subseteq Nodes
        /\ \A m \in reachable, n \in Nodes : Arc(m, n) => n \in reachable
    BY <1>0, <1>3 DEF ReachFact, ValidatorTypeOK
  <2>2. ASSUME Nodes \ reachable # {} PROVE FALSE
    <3>1. PICK n \in Nodes \ reachable : \A m \in Nodes \ reachable : <<m, n>> \notin Arcs
      BY <1>1, <2>2 DEF Acyclic
    <3>2. PICK m \in Nodes : Arc(m, n)
      BY <1>3, <2>1, <3>1
    <3> QED BY <1>2, <2>1, <3>1, <3>2
  <2> QED BY <2>1, <2>2
<1>5. Cardinality(reachable) = Len(nodes)
  BY <1>0, <1>4, Typed, Counted DEF LinkFact, Nodes
<1>6. /\ queue' = <<root>> /\ stage' = "sort"
      /\ UNCHANGED <<nodes, edges, why, adjacency, indegree, linked, started, path, visited,
                     roots, reachable, frontier, order, target>>
  BY <1>3, <1>5 DEF CheckReachable, Goes, graph, maps, search, reach
<1>7. /\ LinkFact' /\ SearchFact' /\ Nodes' = Nodes /\ \A m, x : Arc(m, x)' <=> Arc(m, x)
  BY <1>0, <1>6, ReachFrame DEF search
<1>8. ValidatorTypeOK'
  <2>1. <<root>> \in Seq(Nodes)
    OBVIOUS
  <2> QED BY <1>0, <1>6, <1>7, <2>1 DEF ValidatorTypeOK, graph
<1>9. CountFact'
  BY <1>0, <1>6, CountFrame
<1>10. ReachFact'
  <2>1. (\A n \in Nodes : n # root <=> \E m \in Nodes : Arc(m, n))'
    BY <1>3, <1>7
  <2> QED BY <1>3, <1>6, <1>7, <2>1 DEF ReachFact
<1>11. SortFact'
  <2>1. order = <<>> /\ \A n \in Nodes : indegree[n] = 0 <=> n = root
    <3>1. order = <<>>
      BY <1>0 DEF SortFact
    <3>2. \A n \in Nodes : indegree[n] = 0 <=> \A m \in Nodes : ~Arc(m, n)
      BY <1>0, <3>1, Entered
    <3> QED BY <1>3, <3>1, <3>2, Zenon
  <2>2. /\ ToSet(<<>>) = {} /\ IsInjective(<<>>) /\ Len(<<>>) = 0 /\ \A i : i \notin 1 .. 0
    BY DEF ToSet, IsInjective
  <2>3. ToSet(<<root>>) = {root} /\ IsInjective(<<root>>)
    BY DEF ToSet, IsInjective
  <2>4. UNCHANGED <<order, indegree, roots>> /\ stage' = "sort" /\ queue' = <<root>>
    BY <1>6
  <2> QED BY <1>3, <1>7, <2>1, <2>2, <2>3, <2>4 DEF SortFact
<1> QED BY <1>6, <1>7, <1>8, <1>9, <1>10, <1>11 DEF ValidatorInv

\* Whoever leads to a queued node has been gone through.
LEMMA ShiftKeeps == ASSUME ValidatorInv, Shift PROVE ValidatorInv'
<1>0. /\ stage = "sort" /\ Exhausted /\ queue # <<>> /\ ValidatorTypeOK
      /\ LinkFact /\ CountFact /\ SearchFact /\ ReachFact /\ SortFact
      /\ UNCHANGED <<nodes, edges, stage, why, adjacency, indegree, linked, started, path,
                     visited, roots, reachable, frontier>>
  BY DEF ValidatorInv, Shift, graph, maps, search, reach
<1>1. /\ LinkFact' /\ SearchFact' /\ Nodes' = Nodes /\ \A m, x : Arc(m, x)' <=> Arc(m, x)
  BY <1>0, ReachFrame DEF search
<1>2. /\ order \in Seq(Nodes) /\ queue \in Seq(Nodes)
      /\ IsInjective(order) /\ IsInjective(queue) /\ ToSet(order) \cap ToSet(queue) = {}
  BY <1>0 DEF ValidatorTypeOK, SortFact
<1>3. PICK h \in Nodes : h = Head(queue)
  BY <1>0, <1>2, Shifted
<1>4. /\ Tail(queue) \in Seq(Nodes) /\ ToSet(queue) = {h} \cup ToSet(Tail(queue))
      /\ IsInjective(Tail(queue)) /\ h \notin ToSet(Tail(queue))
  BY <1>0, <1>2, <1>3, Shifted
<1>5. PICK new : /\ new = Append(order, h) /\ new \in Seq(Nodes) /\ ToSet(new) = ToSet(order) \cup {h}
                 /\ IsInjective(new) /\ Last(new) = h
  <2>1. Append(order, h) \in Seq(Nodes)
    BY <1>2
  <2>2. h \notin ToSet(order)
    BY <1>2, <1>4
  <2>3. /\ ToSet(Append(order, h)) = ToSet(order) \cup {h}
        /\ IsInjective(Append(order, h)) /\ Last(Append(order, h)) = h
    BY <1>2, <2>2, Appended
  <2> QED BY <2>1, <2>3, Zenon
<1>6. order' = new /\ queue' = Tail(queue) /\ target' = 1
  BY <1>3, <1>5 DEF Shift
<1>7. PICK L \in Nat : L = Len(order)
  BY <1>2
<1>8. /\ Len(new) = L + 1 /\ new[L + 1] = h /\ new # <<>> /\ \A i \in 1 .. L : new[i] = order[i]
  BY <1>2, <1>5, <1>7
<1>9. \A m \in Nodes : \A k \in 1 .. Len(adjacency[m]) :
          /\ Taken(m, k) <=> m \in ToSet(order)
          /\ Taken(m, k)' <=> m \in ToSet(order)
  <2> SUFFICES ASSUME NEW m \in Nodes, NEW k \in 1 .. Len(adjacency[m])
               PROVE  /\ Taken(m, k) <=> m \in ToSet(order)
                      /\ Taken(m, k)' <=> m \in ToSet(order)
    OBVIOUS
  <2>1. Taken(m, k) <=> m \in ToSet(order)
    <3>1. m \in ToSet(order) => order # <<>>
      BY <1>2, Members
    <3>2. target \in Nat /\ Len(adjacency[m]) \in Nat
      BY <1>0, Typed DEF ValidatorTypeOK
    <3>3. m \in ToSet(order) /\ m = Last(order) => k < target
      BY <1>0, <3>1, <3>2 DEF Exhausted
    <3> QED BY <3>3 DEF Taken
  <2>2. Taken(m, k)' <=> m \in ToSet(order)
    <3>1. Taken(m, k)' <=> m \in ToSet(new) /\ (m = h => k < 1)
      BY <1>5, <1>6 DEF Taken
    <3>2. ~(k < 1)
      OBVIOUS
    <3>3. h \notin ToSet(order)
      BY <1>2, <1>4
    <3> QED BY <1>5, <3>1, <3>2, <3>3
  <2> QED BY <2>1, <2>2
<1>10. ValidatorTypeOK'
  <2>1. order' \in Seq(Nodes) /\ queue' \in Seq(Nodes) /\ target' \in Nat \ {0}
    BY <1>4, <1>5, <1>6
  <2> QED BY <1>0, <1>1, <2>1 DEF ValidatorTypeOK, graph
<1>11. CountFact'
  <2>1. \A s \in Nodes \X Nat : s[1] \in Nodes
    OBVIOUS
  <2>2. \A n : Left(n)' = Left(n)
    BY <1>0, <1>1, <1>9, <2>1 DEF Left
  <2> QED BY <1>0, <1>1, <2>2 DEF CountFact
<1>12. ReachFact'
  BY <1>0, <1>1 DEF ReachFact
<1>13. SortFact'
  <2>1. ToSet(new) \cap ToSet(Tail(queue)) = {} /\ ToSet(new) \cup ToSet(Tail(queue)) = ToSet(order) \cup ToSet(queue)
    BY <1>2, <1>4, <1>5
  <2>2. \A n \in Nodes : indegree[n] = 0 <=> n \in ToSet(new) \cup ToSet(Tail(queue))
    BY <1>0, <2>1 DEF SortFact
  <2>3. roots = {new[1]}
    <3>1. CASE order = <<>>
      <4>1. L = 0
        BY <1>7, <3>1
      <4>2. new[1] = h /\ h \in ToSet(queue)
        BY <1>4, <1>8, <4>1
      <4> QED BY <1>0, <3>1, <4>2 DEF SortFact
    <3>2. CASE order # <<>>
      <4>1. 1 \in 1 .. L
        BY <1>2, <1>7, <3>2
      <4> QED BY <1>0, <1>8, <3>2, <4>1 DEF SortFact
    <3> QED BY <3>1, <3>2
  <2>4. ASSUME NEW j \in 1 .. L + 1, NEW m \in Nodes, Arc(m, new[j])
        PROVE  \E i \in 1 .. j - 1 : new[i] = m
    <3>1. CASE j \in 1 .. L
      <4>1. PICK i \in 1 .. j - 1 : order[i] = m
        BY <1>0, <1>7, <1>8, <2>4, <3>1 DEF SortFact
      <4>2. i \in 1 .. L
        BY <3>1
      <4> QED BY <1>8, <4>1, <4>2
    <3>2. CASE j = L + 1
      <4>1. PICK k \in 1 .. Len(adjacency[m]) : adjacency[m][k] = h
        BY <1>8, <2>4, <3>2 DEF Arc
      <4>2. indegree[h] = 0
        BY <1>0, <1>4 DEF SortFact
      <4>3. Left(h) = {}
        BY <1>0, <4>2, FS_EmptySet DEF CountFact
      <4>4. Taken(m, k)
        <5>1. ASSUME ~Taken(m, k) PROVE <<m, k>> \in Left(h)
          <6>1. k \in Nat
            OBVIOUS
          <6> QED BY <4>1, <5>1, <6>1 DEF Left
        <5> QED BY <4>3, <5>1
      <4>5. m \in ToSet(order)
        BY <4>4 DEF Taken
      <4>6. PICK i \in 1 .. L : order[i] = m
        BY <1>2, <1>7, <4>5, Members
      <4> QED BY <1>8, <3>2, <4>6
    <3>3. j \in 1 .. L \/ j = L + 1
      OBVIOUS
    <3> QED BY <3>1, <3>2, <3>3
  <2>5. (\A j \in 1 .. Len(order), m \in Nodes : Arc(m, order[j]) => \E i \in 1 .. j - 1 : order[i] = m)'
    BY <1>1, <1>6, <1>8, <2>4
  <2>6. (\A n \in Nodes : indegree[n] = 0 <=> n \in ToSet(order) \cup ToSet(queue))'
    BY <1>0, <1>1, <1>6, <2>2
  <2>7. (IsInjective(order) /\ IsInjective(queue) /\ ToSet(order) \cap ToSet(queue) = {})'
    BY <1>4, <1>5, <1>6, <2>1
  <2>8. (IF order = <<>> THEN \A n \in ToSet(queue) : roots = {n} ELSE roots = {order[1]})'
    BY <1>0, <1>6, <1>8, <2>3
  <2> QED BY <1>0, <2>5, <2>6, <2>7, <2>8 DEF SortFact
<1> QED BY <1>0, <1>1, <1>10, <1>11, <1>12, <1>13 DEF ValidatorInv

\* A target loses one of those that are left to lead to it, and is queued when
\* that was the last.
LEMMA TakeTargetKeeps == ASSUME ValidatorInv, TakeTarget PROVE ValidatorInv'
<1>0. /\ stage = "sort" /\ ~Exhausted /\ ValidatorTypeOK
      /\ LinkFact /\ CountFact /\ SearchFact /\ ReachFact /\ SortFact
      /\ target' = target + 1
      /\ UNCHANGED <<nodes, edges, stage, why, adjacency, linked, started, path,
                     visited, roots, reachable, frontier, order>>
  BY DEF ValidatorInv, TakeTarget, graph, search, reach
<1>1. /\ LinkFact' /\ SearchFact' /\ Nodes' = Nodes /\ \A m, x : Arc(m, x)' <=> Arc(m, x)
  BY <1>0, ReachFrame DEF search
<1>2. /\ order \in Seq(Nodes) /\ queue \in Seq(Nodes) /\ order # <<>>
      /\ IsInjective(order) /\ IsInjective(queue) /\ ToSet(order) \cap ToSet(queue) = {}
  BY <1>0 DEF ValidatorTypeOK, SortFact, Exhausted
<1>3. PICK last \in Nodes : last = Last(order) /\ last \in ToSet(order)
  <2>1. Len(order) \in 1 .. Len(order)
    BY <1>2
  <2> QED BY <1>2, <2>1, Members DEF Last
<1>4. PICK t \in Nat : t = target /\ t \in 1 .. Len(adjacency[last])
  <2>1. target \in Nat \ {0} /\ Len(adjacency[last]) \in Nat
    BY <1>0, Typed DEF ValidatorTypeOK
  <2>2. ~(target > Len(adjacency[last]))
    BY <1>0, <1>3 DEF Exhausted
  <2> QED BY <2>1, <2>2
<1>5. PICK n \in Nodes : n = adjacency[last][t]
  <2>1. adjacency[last] \in Seq(Nodes)
    BY <1>0, Typed
  <2> QED BY <1>4, <2>1
<1>6. /\ indegree' = [indegree EXCEPT ![n] = @ - 1]
      /\ queue' = IF indegree[n] = 1 THEN Append(queue, n) ELSE queue
  BY <1>3, <1>4, <1>5 DEF TakeTarget
<1>7. \A m, k : Taken(m, k) <=> m \in ToSet(order) /\ (m = last => k < t)
  BY <1>3, <1>4 DEF Taken
<1>8. \A m, k : Taken(m, k)' <=> m \in ToSet(order) /\ (m = last => k < t + 1)
  BY <1>0, <1>3, <1>4 DEF Taken
<1>9. <<last, t>> \in Left(n)
  <2>1. ~Taken(last, t)
    BY <1>7
  <2> QED BY <1>4, <1>5, <2>1 DEF Left
<1>10. /\ \A x \in Nodes : x # n => Left(x)' = Left(x)
       /\ Left(n)' = Left(n) \ {<<last, t>>}
  <2>1. \A s \in Nodes \X Nat : s = <<s[1], s[2]>> /\ s[1] \in Nodes /\ s[2] \in Nat
    OBVIOUS
  <2>2. \A m \in Nodes, k \in Nat : ~Taken(m, k)' <=> ~Taken(m, k) /\ ~(m = last /\ k = t)
    BY <1>3, <1>7, <1>8
  <2>3. \A x : Left(x)' = {s \in Nodes \X Nat : /\ s[2] \in 1 .. Len(adjacency[s[1]])
                                               /\ adjacency[s[1]][s[2]] = x
                                               /\ ~Taken(s[1], s[2]) /\ s # <<last, t>>}
    BY <1>0, <1>1, <2>1, <2>2 DEF Left
  <2>4. ASSUME NEW x \in Nodes, x # n PROVE Left(x)' = Left(x)
    <3>1. <<last, t>>[1] = last /\ <<last, t>>[2] = t
      OBVIOUS
    <3>2. \A s \in Left(x) : s # <<last, t>>
      BY <1>5, <2>4, <3>1 DEF Left
    <3>3. \A s : s \in Left(x)' <=> s \in Left(x) /\ s # <<last, t>>
      BY <2>3 DEF Left
    <3> QED BY <3>2, <3>3
  <2>5. Left(n)' = Left(n) \ {<<last, t>>}
    BY <2>3 DEF Left
  <2> QED BY <2>4, <2>5
<1>11. /\ IsFiniteSet(Left(n)) /\ indegree[n] = Cardinality(Left(n))
       /\ indegree \in [Nodes -> Nat] /\ indegree[n] \in Nat
  BY <1>0, Typed DEF CountFact
<1>12. /\ indegree[n] # 0 /\ IsFiniteSet(Left(n)')
       /\ Cardinality(Left(n)') = indegree[n] - 1
  <2>1. indegree[n] # 0
    BY <1>9, <1>11, FS_EmptySet
  <2>2. IsFiniteSet(Left(n) \ {<<last, t>>}) /\ Cardinality(Left(n) \ {<<last, t>>}) = Cardinality(Left(n)) - 1
    BY <1>9, <1>11, FS_RemoveElement
  <2> QED BY <1>10, <1>11, <2>1, <2>2
<1>13. /\ indegree' \in [Nodes -> Nat] /\ indegree'[n] = indegree[n] - 1
       /\ \A x \in Nodes : x # n => indegree'[x] = indegree[x]
  <2>1. indegree[n] - 1 \in Nat
    BY <1>11, <1>12
  <2> QED BY <1>6, <1>11, <2>1
<1>14. /\ n \notin ToSet(order) /\ n \notin ToSet(queue)
       /\ \A x \in Nodes : indegree[x] = 0 <=> x \in ToSet(order) \cup ToSet(queue)
  BY <1>0, <1>12 DEF SortFact
<1>15. /\ queue' \in Seq(Nodes) /\ IsInjective(queue')
       /\ ToSet(queue') = ToSet(queue) \cup (IF indegree[n] = 1 THEN {n} ELSE {})
  <2>1. CASE indegree[n] = 1
    <3>1. Append(queue, n) \in Seq(Nodes)
      BY <1>2
    <3>2. ToSet(Append(queue, n)) = ToSet(queue) \cup {n} /\ IsInjective(Append(queue, n))
      BY <1>2, <1>14, Appended
    <3>3. queue' = Append(queue, n)
      BY <1>6, <2>1
    <3> QED BY <2>1, <3>1, <3>2, <3>3
  <2>2. CASE indegree[n] # 1
    BY <1>2, <1>6, <2>2
  <2> QED BY <2>1, <2>2
<1>16. ValidatorTypeOK'
  <2>1. target' \in Nat \ {0}
    BY <1>0, <1>4
  <2> QED BY <1>0, <1>1, <1>13, <1>15, <2>1 DEF ValidatorTypeOK, graph
<1>17. CountFact'
  <2>1. ASSUME NEW x \in Nodes PROVE IsFiniteSet(Left(x)') /\ indegree'[x] = Cardinality(Left(x)')
    <3>1. CASE x = n
      BY <1>12, <1>13, <3>1
    <3>2. CASE x # n
      BY <1>0, <1>10, <1>13, <3>2 DEF CountFact
    <3> QED BY <3>1, <3>2
  <2> QED BY <1>1, <2>1 DEF CountFact
<1>18. ReachFact'
  BY <1>0, <1>1 DEF ReachFact
<1>19. SortFact'
  <2>1. \A x \in Nodes : indegree'[x] = 0 <=> x \in ToSet(order) \cup ToSet(queue')
    <3>1. ASSUME NEW x \in Nodes, x # n PROVE indegree'[x] = 0 <=> x \in ToSet(order) \cup ToSet(queue')
      BY <1>13, <1>14, <1>15, <3>1
    <3>2. indegree'[n] = 0 <=> indegree[n] = 1
      BY <1>11, <1>12, <1>13
    <3>3. n \in ToSet(order) \cup ToSet(queue') <=> indegree[n] = 1
      BY <1>14, <1>15
    <3> QED BY <3>1, <3>2, <3>3
  <2>2. (\A x \in Nodes : indegree[x] = 0 <=> x \in ToSet(order) \cup ToSet(queue))'
    BY <1>0, <1>1, <2>1
  <2>3. (IsInjective(order) /\ IsInjective(queue) /\ ToSet(order) \cap ToSet(queue) = {})'
    BY <1>0, <1>2, <1>14, <1>15
  <2>4. (IF order = <<>> THEN \A x \in ToSet(queue) : roots = {x} ELSE roots = {order[1]})'
    <3>1. roots = {order[1]}
      BY <1>0, <1>2 DEF SortFact
    <3> QED BY <1>0, <1>2, <3>1
  <2>5. (\A j \in 1 .. Len(order), m \in Nodes : Arc(m, order[j]) => \E i \in 1 .. j - 1 : order[i] = m)'
    BY <1>0, <1>1 DEF SortFact
  <2> QED BY <1>0, <2>2, <2>3, <2>4, <2>5 DEF SortFact
<1> QED BY <1>0, <1>1, <1>16, <1>17, <1>18, <1>19 DEF ValidatorInv

\* Of an acyclic graph everything is ordered: the check never throws.
LEMMA CheckOrderKeeps == ASSUME ValidatorInv, CheckOrder PROVE ValidatorInv'
<1>0. /\ stage = "sort" /\ Exhausted /\ queue = <<>> /\ ValidatorTypeOK /\ linked = Len(edges)
      /\ LinkFact /\ CountFact /\ SearchFact /\ ReachFact /\ SortFact
  BY DEF ValidatorInv, CheckOrder, LinkFact
<1>1. Acyclic
  BY <1>0, Searched DEF SearchFact
<1>2. \A m, n \in Nodes : <<m, n>> \in Arcs <=> Arc(m, n)
  BY <1>0, Linked
<1>3. order \in Seq(Nodes) /\ IsInjective(order) /\ ToSet(queue) = {}
  <2>1. order \in Seq(Nodes) /\ IsInjective(order)
    BY <1>0 DEF ValidatorTypeOK, SortFact
  <2>2. ToSet(<<>>) = {}
    BY DEF ToSet
  <2> QED BY <1>0, <2>1, <2>2
<1>4. ToSet(order) = Nodes
  <2>1. ToSet(order) \subseteq Nodes
    BY <1>3, Members
  <2>2. ASSUME Nodes \ ToSet(order) # {} PROVE FALSE
    <3>1. PICK n \in Nodes \ ToSet(order) : \A m \in Nodes \ ToSet(order) : <<m, n>> \notin Arcs
      BY <1>1, <2>2 DEF Acyclic
    <3>2. \A m \in Nodes : Arc(m, n) => m \in ToSet(order)
      BY <1>2, <3>1
    <3>3. ASSUME NEW s \in Left(n) PROVE FALSE
      <4>1. s[1] \in Nodes /\ s[2] \in 1 .. Len(adjacency[s[1]]) /\ Arc(s[1], n) /\ ~Taken(s[1], s[2])
        BY DEF Left, Arc
      <4>2. s[1] \in ToSet(order) /\ order # <<>>
        BY <1>3, <3>2, <4>1, Members
      <4>3. s[1] = Last(order) => s[2] < target
        <5>1. target \in Nat /\ Len(adjacency[s[1]]) \in Nat
          BY <1>0, <4>1, Typed DEF ValidatorTypeOK
        <5> QED BY <1>0, <4>1, <4>2, <5>1 DEF Exhausted
      <4> QED BY <4>1, <4>2, <4>3 DEF Taken
    <3>4. indegree[n] = 0
      BY <1>0, <3>3, FS_EmptySet DEF CountFact
    <3> QED BY <1>0, <1>3, <3>1, <3>4 DEF SortFact
  <2> QED BY <2>1, <2>2
<1>5. Len(order) = Len(nodes)
  <2>1. Cardinality(ToSet(order)) = Len(order)
    BY <1>3, Counted
  <2>2. Cardinality(ToSet(nodes)) = Len(nodes)
    BY <1>0, Typed, Counted DEF LinkFact
  <2> QED BY <1>4, <2>1, <2>2 DEF Nodes
<1>6. /\ stage' = "done"
      /\ UNCHANGED <<nodes, edges, why, adjacency, indegree, linked, started, path, visited,
                     roots, reachable, frontier, queue, order, target>>
  BY <1>5 DEF CheckOrder, Goes, graph, maps, search, reach, sort
<1>7. /\ LinkFact' /\ SearchFact' /\ Nodes' = Nodes /\ \A m, x : Arc(m, x)' <=> Arc(m, x)
  BY <1>0, <1>6, ReachFrame DEF search
<1>8. ValidatorTypeOK'
  BY <1>0, <1>6, <1>7 DEF ValidatorTypeOK, graph
<1>9. CountFact'
  BY <1>0, <1>6, CountFrame
<1>10. ReachFact'
  BY <1>0, <1>6, <1>7 DEF ReachFact
<1>11. SortFact'
  <2>1. (\A j \in 1 .. Len(order), m \in Nodes : Arc(m, order[j]) => \E i \in 1 .. j - 1 : order[i] = m)'
    BY <1>0, <1>6, <1>7 DEF SortFact
  <2>2. ToSet(order') = Nodes' /\ Len(order') = Len(nodes')
    BY <1>4, <1>5, <1>6, <1>7
  <2> QED BY <1>0, <1>6, <1>7, <2>1, <2>2 DEF SortFact
<1> QED BY <1>6, <1>7, <1>8, <1>9, <1>10, <1>11 DEF ValidatorInv

-----------------------------------------------------------------------------
(* What validateDag promises.                                              *)

LEMMA ValidatorKeeps == ASSUME ValidatorInv, [ValidatorNext]_validatorVars PROVE ValidatorInv'
<1>1. CASE UNCHANGED validatorVars
  <2>1. UNCHANGED <<nodes, edges, stage, why, adjacency, indegree, linked, started, path,
                    visited, roots, reachable, frontier, queue, order, target>>
    BY <1>1 DEF validatorVars, graph, maps, search, reach, sort
  <2>2. ValidatorTypeOK'
    BY <2>1 DEF ValidatorInv, ValidatorTypeOK, graph, Nodes
  <2>3. CASE stage = "thrown"
    <3>1. ThrownFact'
      <4>1. UNCHANGED <<nodes, edges>> /\ UNCHANGED why
        BY <2>1
      <4>2. ThrownFact
        BY <2>3 DEF ValidatorInv
      <4>3. (Acyclic' <=> Acyclic) /\ (IsCanvas' <=> IsCanvas)
        BY <4>1 DEF IsCanvas, Acyclic, ReachableFrom, Nodes, Arcs
      <4> QED BY <4>1, <4>2, <4>3 DEF ThrownFact
    <3> QED BY <2>1, <2>2, <2>3, <3>1 DEF ValidatorInv
  <2>4. CASE stage # "thrown"
    <3>0. LinkFact /\ CountFact /\ SearchFact /\ ReachFact /\ SortFact
      BY <2>4 DEF ValidatorInv
    <3>1. LinkFact'
      BY <2>1, <3>0 DEF LinkFact, Nodes, Arc
    <3>2. CountFact'
      BY <2>1, <3>0, CountFrame
    <3>3. SearchFact'
      <4>1. /\ Nodes' = Nodes /\ \A m, x : Arc(m, x)' <=> Arc(m, x)
            /\ UNCHANGED <<stage, nodes, path, visited, started>>
        BY <2>1 DEF Nodes, Arc
      <4>2. \A i \in 1 .. Len(path) : PathFact(i)'
        BY <2>1, <3>0 DEF SearchFact, PathFact
      <4>3. AcyclicIn(visited)'
        BY <3>0, <4>1 DEF SearchFact, AcyclicIn
      <4>4. (\A m \in visited, n \in Nodes : Arc(m, n) => n \in visited)'
        BY <3>0, <4>1 DEF SearchFact
      <4> QED BY <3>0, <4>1, <4>2, <4>3, <4>4 DEF SearchFact
    <3>4. ReachFact' /\ SortFact'
      BY <2>1, <3>0 DEF ReachFact, SortFact, Nodes, Arc
    <3> QED BY <2>1, <2>2, <2>4, <3>1, <3>2, <3>3, <3>4 DEF ValidatorInv
  <2> QED BY <2>3, <2>4
<1>2. CASE ValidatorNext
  BY <1>2, CheckNodesKeeps, TakeEdgeKeeps, CheckIsolatedKeeps, SearchFromKeeps,
     SearchTargetKeeps, LeaveNodeKeeps, CheckRootsKeeps, ReachKeeps, CheckReachableKeeps,
     ShiftKeeps, TakeTargetKeeps, CheckOrderKeeps DEF ValidatorNext
<1> QED BY <1>1, <1>2

LEMMA ValidatorInvariance == ValidatorSpec => []ValidatorInv
<1>1. ValidatorInit => ValidatorInv
  BY InitValidator
<1>2. ValidatorInv /\ [ValidatorNext]_validatorVars => ValidatorInv'
  BY ValidatorKeeps
<1> QED BY <1>1, <1>2, PTL DEF ValidatorSpec

\* A graph that got through everything is a canvas with its root and an order.
LEMMA AcceptedIsCanvas ==
    ASSUME ValidatorInv, stage = "done"
    PROVE  IsCanvas /\ IsOrder /\ roots = {order[1]}
<1>0. /\ ValidatorTypeOK /\ linked = Len(edges) /\ visited = Nodes
      /\ LinkFact /\ SearchFact /\ ReachFact /\ SortFact
      /\ nodes # <<>> /\ IsInjective(nodes) /\ ToSet(order) = Nodes /\ Len(order) = Len(nodes)
  BY DEF ValidatorInv, LinkFact, SearchFact, SortFact
<1>1. /\ Arcs \subseteq Nodes \X Nodes
      /\ \A m, n \in Nodes : <<m, n>> \in Arcs <=> Arc(m, n)
  BY <1>0, Linked
<1>2. Acyclic
  BY <1>0, Searched
<1>3. \E root \in Nodes : ReachableFrom(root)
  <2>1. PICK root \in Nodes : \A n \in Nodes : n # root <=> \E m \in Nodes : Arc(m, n)
    BY <1>0 DEF ReachFact
  <2>2. \A n \in Nodes : n # root => \E m \in Nodes : <<m, n>> \in Arcs
    BY <1>1, <2>1
  <2> QED BY <1>2, <2>2, RootReaches
<1>4. nodes \in Seq(NodeIds) /\ order \in Seq(Nodes)
  BY <1>0 DEF ValidatorTypeOK, graph
<1>5. \A e \in Arcs : \E i, j \in 1 .. Len(order) : i < j /\ order[i] = e[1] /\ order[j] = e[2]
  <2> SUFFICES ASSUME NEW e \in Arcs
               PROVE  \E i, j \in 1 .. Len(order) : i < j /\ order[i] = e[1] /\ order[j] = e[2]
    OBVIOUS
  <2>1. PICK m \in Nodes, n \in Nodes : e = <<m, n>>
    BY <1>1
  <2>2. PICK j \in 1 .. Len(order) : order[j] = n
    BY <1>0, <1>4, Members
  <2>3. Arc(m, order[j])
    BY <1>1, <2>1, <2>2
  <2>4. PICK i \in 1 .. j - 1 : order[i] = m
    BY <1>0, <2>3 DEF SortFact
  <2>5. i \in 1 .. Len(order) /\ i < j
    BY <2>2, <2>4, <1>4
  <2> QED BY <2>1, <2>2, <2>4, <2>5
<1>6. order # <<>>
  BY <1>0, <1>4
<1> QED BY <1>0, <1>1, <1>2, <1>3, <1>5, <1>6 DEF IsCanvas, IsOrder, SortFact

\* The maps, the path and the lists of validateDag hold nodes of the graph,
\* whatever graph is submitted.
THEOREM ValidatorTypeCorrect == ValidatorSpec => []ValidatorTypeOK
<1>1. ValidatorInv => ValidatorTypeOK
  BY DEF ValidatorInv
<1> QED BY <1>1, ValidatorInvariance, PTL

\* validateDag accepts exactly the canvases, whatever graph is submitted: it
\* returns their root and an order no edge goes against, and otherwise it says
\* what is wrong.
THEOREM ValidatorDecides == ValidatorSpec => []ValidatorIsExact
<1>1. ValidatorInv => ValidatorIsExact
  BY AcceptedIsCanvas DEF ValidatorInv, ThrownFact, ValidatorIsExact
<1> QED BY <1>1, ValidatorInvariance, PTL
=============================================================================
