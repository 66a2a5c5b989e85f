---------------------------- MODULE DependencyGraph ----------------------------
(***************************************************************************)
(* lineage/dependency_graph.py: the graph of pipelines that the manifests'  *)
(* depends_on lists span. Nodes are added one by one, in any order; a graph *)
(* is validated (no missing node, no cycle: a depth-first search) before it *)
(* is sorted (Kahn's algorithm) or cut into execution levels. Every         *)
(* operation is a sequence of steps; the order in which Python iterates     *)
(* over a set is left open. The locals of a method are back to their        *)
(* initial values when it ends.                                             *)
(***************************************************************************)
EXTENDS Integers, Sequences, FiniteSets

CONSTANTS
  Names,       \* names of pipelines; some may never get a manifest
  DepLists     \* the depends_on lists, as sets: what add_node may be given

ASSUME GraphAssumption ==
  /\ IsFiniteSet(Names)
  /\ DepLists \subseteq SUBSET Names

VARIABLES
  nodes,       \* the keys of _nodes
  deps,        \* _nodes[n].dependencies, {} where there is no node
  adj,         \* _adjacency: n -> the nodes that depend on n
  validated,   \* _validated
  op,          \* the method in progress, or "idle"
  raised,      \* what the last method raised, or "nothing"
  cycle,       \* the cycle of the CyclicDependencyError that was raised
  color,       \* validate: the state of each node in the search
  path,        \* validate: the nodes being visited, the root first
  todo,        \* validate: dependents the visit of a node has yet to try
  inDegree,    \* sort, levels: dependencies that are not placed yet
  queue,       \* sort: nodes ready to be placed
  result,      \* sort: the order so far
  current,     \* levels: the level to be placed next
  levels,      \* levels: the levels so far
  asked,       \* closure: the node asked about, as a set
  pending,     \* closure: names to look at
  visited      \* closure: names seen

graph == <<nodes, deps, adj, validated>>
method == <<op, raised, cycle>>
search == <<color, path, todo>>
kahn == <<inDegree, queue, result, current, levels>>
closure == <<asked, pending, visited>>
vars == <<graph, method, search, kahn, closure>>

Ops == {"idle", "validate", "sort", "levels", "closure"}
Raised == {"nothing", "duplicate", "missing", "cycle", "not validated"}

(* The types of all variables.                                              *)
TypeOK ==
  /\ nodes \subseteq Names
  /\ deps \in [Names -> SUBSET Names]
  /\ adj \in [Names -> SUBSET Names]
  /\ validated \in BOOLEAN
  /\ op \in Ops
  /\ raised \in Raised
  /\ cycle \in Seq(Names)
  /\ color \in [Names -> {"white", "grey", "black"}]
  /\ path \in Seq(Names)
  /\ todo \in [Names -> SUBSET Names]
  /\ inDegree \in [Names -> Int]
  /\ queue \in Seq(Names)
  /\ result \in Seq(Names)
  /\ current \subseteq Names
  /\ levels \in Seq(SUBSET Names)
  /\ asked \subseteq Names
  /\ pending \subseteq Names
  /\ visited \subseteq Names

NoNames == [n \in Names |-> {}]

White == [n \in Names |-> "white"]
Zeros == [n \in Names |-> 0]

Init ==
  /\ nodes = {} /\ deps = NoNames /\ adj = NoNames /\ validated = FALSE
  /\ op = "idle" /\ raised = "nothing" /\ cycle = <<>>
  /\ color = White /\ path = <<>> /\ todo = NoNames
  /\ inDegree = Zeros /\ queue = <<>> /\ result = <<>> /\ current = {} /\ levels = <<>>
  /\ asked = {} /\ pending = {} /\ visited = {}

(* The locals of a method that ends.                                        *)
DropSearch == color' = White /\ path' = <<>> /\ todo' = NoNames
DropKahn == inDegree' = Zeros /\ queue' = <<>> /\ result' = <<>> /\ current' = {} /\ levels' = <<>>
DropClosure == asked' = {} /\ pending' = {} /\ visited' = {}

Begin(m) == op = "idle" /\ op' = m /\ raised' = "nothing" /\ cycle' = <<>>

(* A method ends: it returns, or it raises (a cycle comes with the error).  *)
Return == op' = "idle" /\ raised' = "nothing" /\ cycle' = <<>>
Raise(what, with) == op' = "idle" /\ raised' = what /\ cycle' = with

-------------------------------------------------------------------------------
(* Fault: the graph stays validated.                                        *)
AddNodeSilently(n, D) ==
  /\ op = "idle" /\ n \notin nodes
  /\ nodes' = nodes \cup {n}
  /\ deps' = [deps EXCEPT ![n] = D]
  /\ adj' = [m \in Names |-> IF m \in D THEN adj[m] \cup {n} ELSE adj[m]]
  /\ Return
  /\ UNCHANGED <<validated, search, kahn, closure>>

(* add_node. Dependencies need not exist yet.                               *)
AddNode(n, D) ==
  /\ op = "idle" /\ n \notin nodes
  /\ nodes' = nodes \cup {n}
  /\ deps' = [deps EXCEPT ![n] = D]
  /\ adj' = [m \in Names |-> IF m \in D THEN adj[m] \cup {n} ELSE adj[m]]
  /\ validated' = FALSE
  /\ Return
  /\ UNCHANGED <<search, kahn, closure>>

AddDuplicate(n) ==
  /\ op = "idle" /\ n \in nodes
  /\ Raise("duplicate", <<>>)
  /\ UNCHANGED <<graph, search, kahn, closure>>

-------------------------------------------------------------------------------
(* validate: first the dependencies that are no nodes ...                   *)
Closed == \A n \in nodes : deps[n] \subseteq nodes

ValidateMissing ==
  /\ op = "idle" /\ ~Closed
  /\ Raise("missing", <<>>)
  /\ UNCHANGED <<graph, search, kahn, closure>>

(* ... then the search (all nodes are white). Each root in turn,            *)
ValidateStart ==
  /\ Begin("validate") /\ Closed
  /\ UNCHANGED <<graph, search, kahn, closure>>

Top == path[Len(path)]

Enter(n, rest) ==
  /\ color' = [color EXCEPT ![n] = "grey"]
  /\ path' = Append(path, n)
  /\ todo' = [rest EXCEPT ![n] = adj[n]]
  /\ UNCHANGED <<graph, method, kahn, closure>>

Root(n) ==
  /\ op = "validate" /\ path = <<>>
  /\ n \in nodes /\ color[n] = "white"
  /\ Enter(n, todo)

(* and each dependent of the node being visited: a new one is visited,      *)
Trying(d) == op = "validate" /\ path # <<>> /\ d \in todo[Top]
Tried(d) == [todo EXCEPT ![Top] = @ \ {d}]

Descend(d) == Trying(d) /\ color[d] = "white" /\ Enter(d, Tried(d))

(* one that is done is passed over,                                         *)
Skip(d) ==
  /\ Trying(d) /\ color[d] = "black"
  /\ todo' = Tried(d)
  /\ UNCHANGED <<graph, method, color, path, kahn, closure>>

(* and one that is on the path closes a cycle: the path from there on.      *)
CycleFrom(d) ==
  LET first == CHOOSE i \in DOMAIN path : path[i] = d
  IN  Append(SubSeq(path, first, Len(path)), d)

BackEdge(d) ==
  /\ Trying(d) /\ color[d] = "grey"
  /\ Raise("cycle", CycleFrom(d))
  /\ DropSearch
  /\ UNCHANGED <<graph, kahn, closure>>

Leave ==
  /\ op = "validate" /\ path # <<>> /\ todo[Top] = {}
  /\ color' = [color EXCEPT ![Top] = "black"]
  /\ path' = SubSeq(path, 1, Len(path) - 1)
  /\ UNCHANGED <<graph, method, todo, kahn, closure>>

Accept ==
  /\ op = "validate" /\ path = <<>>
  /\ \A n \in nodes : color[n] # "white"
  /\ validated' = TRUE
  /\ Return
  /\ DropSearch
  /\ UNCHANGED <<nodes, deps, adj, kahn, closure>>

-------------------------------------------------------------------------------
(* topological_sort and get_execution_order need a validated graph.         *)
RefuseUnvalidated ==
  /\ op = "idle" /\ ~validated
  /\ Raise("not validated", <<>>)
  /\ UNCHANGED <<graph, search, kahn, closure>>

Degrees == [n \in Names |-> IF n \in nodes THEN Cardinality(deps[n]) ELSE 0]
Sources == {n \in nodes : deps[n] = {}}

(* A list of the elements of S, in the order of some iteration.             *)
Listings(S) ==
  {s \in [1..Cardinality(S) -> S] : \A i, j \in DOMAIN s : i # j => s[i] # s[j]}

SortStart ==
  /\ Begin("sort") /\ validated
  /\ inDegree' = Degrees
  /\ queue' \in Listings(Sources)
  /\ UNCHANGED <<graph, search, result, current, levels, closure>>

(* Fault: a node is ready with one dependency still missing.                *)
FreedEarly(n) == {d \in adj[n] : inDegree[d] \in 1..2}

(* Nodes whose last missing dependency is n.                                *)
Freed(n) == {d \in adj[n] : inDegree[d] = 1}

Place ==
  /\ op = "sort" /\ queue # <<>>
  /\ LET n == Head(queue) IN
       /\ result' = Append(result, n)
       /\ inDegree' = [d \in Names |-> IF d \in adj[n] THEN inDegree[d] - 1 ELSE inDegree[d]]
       /\ \E s \in Listings(Freed(n)) : queue' = Tail(queue) \o s
  /\ UNCHANGED <<graph, method, search, current, levels, closure>>

(* Nodes that are left over are an error; the check is a defensive one.     *)
Unplaced == {n \in nodes : \A i \in DOMAIN result : result[i] # n}

SortEnd ==
  /\ op = "sort" /\ queue = <<>>
  /\ IF Len(result) = Cardinality(nodes)
       THEN Return
       ELSE \E left \in Listings(Unplaced) : Raise("cycle", left)
  /\ DropKahn
  /\ UNCHANGED <<graph, search, closure>>

LevelsStart ==
  /\ Begin("levels") /\ validated
  /\ inDegree' = Degrees
  /\ current' = Sources
  /\ UNCHANGED <<graph, search, queue, result, levels, closure>>

(* The number of dependencies of d that are placed with this level.         *)
PlacedNow(d) == Cardinality({n \in current : d \in adj[n]})

PlaceLevel ==
  /\ op = "levels" /\ current # {}
  /\ levels' = Append(levels, current)
  /\ inDegree' = [d \in Names |-> inDegree[d] - PlacedNow(d)]
  /\ current' = {d \in Names : PlacedNow(d) # 0 /\ inDegree[d] = PlacedNow(d)}
  /\ UNCHANGED <<graph, method, search, queue, result, closure>>

LevelsEnd ==
  /\ op = "levels" /\ current = {}
  /\ Return
  /\ DropKahn
  /\ UNCHANGED <<graph, search, closure>>

-------------------------------------------------------------------------------
(* get_transitive_dependencies: of any graph, validated or not; names       *)
(* without a node count, but lead nowhere.                                  *)
ClosureStart(n) ==
  /\ Begin("closure")
  /\ asked' = {n}
  /\ pending' = deps[n]
  /\ UNCHANGED <<graph, search, kahn, visited>>

ClosureStep(d) ==
  /\ op = "closure" /\ d \in pending
  /\ visited' = visited \cup {d}
  /\ pending' = (pending \cup deps[d]) \ visited'
  /\ UNCHANGED <<graph, method, search, kahn, asked>>

ClosureEnd ==
  /\ op = "closure" /\ pending = {}
  /\ Return
  /\ DropClosure
  /\ UNCHANGED <<graph, search, kahn>>

Call ==
  \/ \E n \in Names : AddDuplicate(n) \/ ClosureStart(n) \/ \E D \in DepLists : AddNode(n, D)
  \/ ValidateMissing \/ ValidateStart \/ RefuseUnvalidated \/ SortStart \/ LevelsStart

Step ==
  \/ \E n \in Names : Root(n) \/ Descend(n) \/ Skip(n) \/ BackEdge(n) \/ ClosureStep(n)
  \/ Leave \/ Accept \/ Place \/ SortEnd \/ PlaceLevel \/ LevelsEnd \/ ClosureEnd

Next == Call \/ Step

Spec == Init /\ [][Next]_vars

-------------------------------------------------------------------------------
(* The two adjacency structures agree: n is among the dependents of m just  *)
(* when m is among the dependencies of n (add_node, lines 96-98).           *)
AdjacencyInverse ==
  \A m, n \in Names : n \in adj[m] <=> n \in nodes /\ m \in deps[n]

(* No set of nodes depends on itself: each has a node without dependencies  *)
(* inside the set.                                                          *)
Acyclic == \A S \in SUBSET nodes : S # {} => \E n \in S : deps[n] \cap S = {}

(* A graph marked as validated has no missing node and no cycle, whatever   *)
(* was added before or since (validate, and the reset in add_node).         *)
ValidatedSound == validated => Closed /\ Acyclic

(* A CyclicDependencyError names a cycle of the graph: it starts where it   *)
(* ends, and each node depends on the one before (validate, lines 154-170). *)
(* So validate never rejects an acyclic graph, and the sort never raises.   *)
CycleGenuine ==
  raised = "cycle" =>
    /\ Len(cycle) > 1 /\ cycle[1] = cycle[Len(cycle)]
    /\ \A i \in 1..(Len(cycle) - 1) : cycle[i] \in deps[cycle[i + 1]]

Before(s, i) == {s[k] : k \in 1..(i - 1)}
Elements(s) == {s[k] : k \in DOMAIN s}

(* The sort places a node after all its dependencies and only once, and     *)
(* when it returns it has placed them all (topological_sort).               *)
SortCorrect ==
  op = "sort" =>
    /\ \A i \in DOMAIN result :
         deps[result[i]] \subseteq Before(result, i) /\ result[i] \notin Before(result, i)
    /\ queue = <<>> => Elements(result) = nodes

(* A node is in the first level after those of its dependencies, neither    *)
(* later nor twice, and no node is left out (get_execution_order).          *)
LevelsEarliest ==
  op = "levels" =>
    /\ \A i \in DOMAIN levels : \A n \in levels[i] :
         /\ deps[n] \subseteq UNION Before(levels, i)
         /\ i > 1 => deps[n] \cap levels[i - 1] # {}
    /\ current = {} => UNION Elements(levels) = nodes

(* The transitive dependencies are the least set that has the direct ones   *)
(* and is closed, on cyclic graphs too (get_transitive_dependencies).       *)
ClosureLeast ==
  op = "closure" /\ pending = {} =>
    LET direct == UNION {deps[n] : n \in asked}
        closedSets == {S \in SUBSET Names : direct \subseteq S /\ \A n \in S : deps[n] \subseteq S}
    IN  visited \in closedSets /\ \A S \in closedSets : visited \subseteq S

(* Whatever was added before, and on whatever path the searches went, each  *)
(* method answers what its docstring promises: a genuine cycle, a complete  *)
(* order, the earliest levels, the least closure (dependency_graph.py).     *)
ResultsCorrect == CycleGenuine /\ SortCorrect /\ LevelsEarliest /\ ClosureLeast
===============================================================================
