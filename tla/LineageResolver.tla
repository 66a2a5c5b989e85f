---------------------------- MODULE LineageResolver ----------------------------
(***************************************************************************)
(* ManifestDependencyResolver (lineage/manifest_dependency_resolver.py): one *)
(* object, its three maps, and its methods in any order. The directory may  *)
(* be edited between two calls, and while build_graph reads it a second and *)
(* a third time. DependencyGraph.validate is taken at what DependencyGraph  *)
(* shows of it: it accepts exactly the closed, acyclic graphs.              *)
(***************************************************************************)
EXTENDS ManifestDir

CONSTANTS
  Directories,  \* the contents the directory may have
  MaxEdits,     \* bound: how often it is edited
  MaxCalls      \* bound: how many methods are called

ASSUME ResolverAssumption ==
  /\ \A D \in Directories :
       /\ DOMAIN D \subseteq Names
       /\ \A f \in DOMAIN D : D[f] = Broken \/ (D[f] \in Manifest /\ Validated(f, D[f]))
  /\ MaxEdits \in Nat /\ MaxCalls \in Nat

VARIABLES
  manifestMap,    \* _manifest_map
  dependencyMap,  \* _dependency_map
  taskGroups,     \* _task_groups: how often the list of a group has a name
  pc,             \* where build_graph is
  graph,          \* what the last build_graph returned, as dependencies of nodes
  raised,         \* what the last call raised
  edits,          \* how often the directory was edited
  seen,           \* ... when the last build_graph began
  calls

maps == <<manifestMap, dependencyMap, taskGroups>>
history == <<edits, seen, calls>>
vars == <<dir, maps, pc, graph, raised, history>>

Empty == [n \in {} |-> {}]
NoLists == [g \in Groups |-> [n \in Names |-> 0]]
Raised == {"none", "InvalidDependencyError", "ManifestNotFoundError", "CyclicDependencyError"}

(* The types of all variables.                                              *)
TypeOK ==
  /\ DirOK
  /\ Partial(manifestMap, Names, Names)
  /\ Partial(dependencyMap, Names, SUBSET Dep)
  /\ taskGroups \in [Groups -> [Names -> Nat]]
  /\ pc \in {"idle", "extract", "resolve"}
  /\ Partial(graph, Names, SUBSET Names)
  /\ raised \in Raised
  /\ edits \in 0..MaxEdits /\ seen \in 0..edits /\ calls \in 0..MaxCalls

Init ==
  /\ dir \in Directories
  /\ manifestMap = Empty /\ dependencyMap = Empty /\ taskGroups = NoLists
  /\ pc = "idle" /\ graph = Empty /\ raised = "none"
  /\ edits = 0 /\ seen = 0 /\ calls = 0

(* Somebody saves, moves or removes manifests.                              *)
Edit ==
  /\ edits < MaxEdits /\ edits' = edits + 1
  /\ dir' \in Directories
  /\ UNCHANGED <<maps, pc, graph, raised, seen, calls>>

Call == pc = "idle" /\ calls < MaxCalls /\ calls' = calls + 1

-------------------------------------------------------------------------------
Added(groups) == [g \in Groups |-> [n \in Names |-> taskGroups[g][n] + IF n \in groups[g] THEN 1 ELSE 0]]

(* Fault: a file that repeats a name counts for its group.                  *)
ListingsOfAll == Added([g \in Groups |-> {dir[f].name : f \in {h \in Readable : dir[h].group = g}}])

(* discover_manifests adds to the lists of the groups that it finds there.  *)
Listings == Added(Members)

(* "if not self._manifest_map": the map is only made when there is none.    *)
MapUsed == IF manifestMap = Empty THEN Discovered ELSE manifestMap
ListingsUsed == IF manifestMap = Empty THEN Listings ELSE taskGroups

(* get_manifest_path, get_task_group, extract_dependencies                  *)
Lookup ==
  /\ Call
  /\ manifestMap' = MapUsed /\ taskGroups' = ListingsUsed
  /\ UNCHANGED <<dir, dependencyMap, pc, graph, raised, edits, seen>>

(* get_pipelines_in_group                                                   *)
LookupGroup ==
  /\ Call
  /\ taskGroups' = IF taskGroups = NoLists THEN Listings ELSE taskGroups
  /\ UNCHANGED <<dir, manifestMap, dependencyMap, pc, graph, raised, edits, seen>>

(* Fault: a depends_on that is no list of dependencies is taken as it is.   *)
ExtractableReadable(map) == \A n \in DOMAIN map : map[n] \in Readable

(* extract_dependencies reads the files again that the map names.           *)
Extractable(map) == \A n \in DOMAIN map : map[n] \in Readable /\ WellFormed(dir[map[n]].deps)
Extracted(map) == [n \in DOMAIN map |-> dir[map[n]].deps]

(* get_dependencies                                                         *)
LookupDependencies ==
  /\ Call
  /\ IF dependencyMap # Empty
     THEN UNCHANGED maps /\ raised' = "none"
     ELSE /\ manifestMap' = MapUsed /\ taskGroups' = ListingsUsed
          /\ IF Extractable(MapUsed)
             THEN dependencyMap' = Extracted(MapUsed) /\ raised' = "none"
             ELSE UNCHANGED dependencyMap /\ raised' = "InvalidDependencyError"
  /\ UNCHANGED <<dir, pc, graph, edits, seen>>

-------------------------------------------------------------------------------
(* Fault: build_graph uses the map it has.                                  *)
BuildStartCached ==
  /\ Call
  /\ manifestMap' = MapUsed /\ taskGroups' = ListingsUsed
  /\ pc' = "extract" /\ seen' = edits /\ graph' = Empty /\ raised' = "none"
  /\ UNCHANGED <<dir, dependencyMap, edits>>

(* build_graph: discover_manifests, ...                                     *)
BuildStart ==
  /\ Call
  /\ manifestMap' = Discovered /\ taskGroups' = Listings
  /\ pc' = "extract" /\ seen' = edits /\ graph' = Empty /\ raised' = "none"
  /\ UNCHANGED <<dir, dependencyMap, edits>>

Fail(error) == pc' = "idle" /\ raised' = error

(* ... extract_dependencies (a file may be gone by now), ...                *)
BuildExtract ==
  /\ pc = "extract"
  /\ manifestMap' = MapUsed /\ taskGroups' = ListingsUsed
  /\ IF Extractable(MapUsed)
     THEN dependencyMap' = Extracted(MapUsed) /\ pc' = "resolve" /\ UNCHANGED raised
     ELSE Fail("InvalidDependencyError") /\ UNCHANGED dependencyMap
  /\ UNCHANGED <<dir, graph, history>>

(* ... and _resolve_dependencies of each pipeline: paths are read again,    *)
(* groups are looked up in the lists.                                       *)
ListMembers == [g \in Groups |-> {n \in Names : taskGroups[g][n] > 0}]
Resolved == [n \in DOMAIN manifestMap |-> DenoteAll(dependencyMap[n], ListMembers)]

(* Fault: the graph is returned without validate.                           *)
BuildUnvalidated ==
  /\ pc = "resolve"
  /\ IF ClosedGraph(Resolved)
     THEN pc' = "idle" /\ graph' = Resolved /\ UNCHANGED raised
     ELSE Fail("ManifestNotFoundError") /\ UNCHANGED graph
  /\ UNCHANGED <<dir, maps, history>>

BuildResolve ==
  /\ pc = "resolve"
  /\ \/ ~ClosedGraph(Resolved) /\ Fail("ManifestNotFoundError") /\ UNCHANGED graph
     \/ /\ ClosedGraph(Resolved) /\ ~AcyclicGraph(Resolved)
        /\ Fail("CyclicDependencyError") /\ UNCHANGED graph
     \/ /\ ClosedGraph(Resolved) /\ AcyclicGraph(Resolved)
        /\ pc' = "idle" /\ graph' = Resolved /\ UNCHANGED raised
  /\ UNCHANGED <<dir, maps, history>>

Next ==
  \/ Edit \/ Lookup \/ LookupGroup \/ LookupDependencies
  \/ BuildStart \/ BuildExtract \/ BuildResolve

Spec == Init /\ [][Next]_vars

-------------------------------------------------------------------------------
(* As long as nobody edits the directory, every graph the resolver returns  *)
(* is the one the manifests declare, whatever was called before: the lists  *)
(* of the groups may hold a name twice, the graph does not (build_graph).   *)
GraphDeclared == graph # Empty /\ edits = 0 => graph = Declared

(* ... and it has no missing node and no cycle, whatever was edited since   *)
(* (build_graph, "validate").                                               *)
GraphSound == ClosedGraph(graph) /\ AcyclicGraph(graph)

(* After an edit a new graph has the pipelines of the directory as it is,   *)
(* and lacks no dependency that is declared in it, unless the edit came     *)
(* while it was built. It may have more: the lists of the groups keep the   *)
(* members that left (discover_manifests).                                  *)
RebuildCovers ==
  graph # Empty /\ seen = edits =>
    /\ DOMAIN graph = DOMAIN Declared
    /\ \A n \in DOMAIN graph : Declared[n] \subseteq graph[n]
===============================================================================
