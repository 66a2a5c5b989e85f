------------------------------- MODULE DagBuild --------------------------------
(***************************************************************************)
(* build_dag_from_yaml (dag_builder/builder.py) with the DependencyResolver,*)
(* the loader and the DAGBuilder under it: from the manifests that are asked *)
(* for to the tasks and their upstream tasks in the Airflow DAG. The         *)
(* recursion of add_manifest is a stack of the manifests that wait for their *)
(* dependencies; depends_on is a set, so they are tried in every order.      *)
(* Nothing is edited during one parse, so the loader's cache is not seen.    *)
(***************************************************************************)
EXTENDS ManifestDir

CONSTANTS
  Directories,  \* the contents the directory may have
  Requests      \* the manifest_path or the manifests that may be asked for

ASSUME BuildAssumption ==
  /\ IsFiniteSet(Names)
  /\ \A D \in Directories :
       /\ DOMAIN D \subseteq Names
       /\ \A f \in DOMAIN D : D[f] = Broken \/ (D[f] \in Manifest /\ Validated(f, D[f]))
  /\ Requests \subseteq [single : BOOLEAN, files : Seq(Names)]
  /\ \A r \in Requests : r.single => Len(r.files) = 1

VARIABLES
  request,   \* single: manifest_path was given; files: what was asked for
  phase,     \* where the build is
  left,      \* requested manifests that are not added yet
  unscanned, \* files the automatic scan has not looked at
  skipped,   \* history: files whose exception the scan swallowed
  stack,     \* the calls of add_manifest in progress, the outermost first
  loaded,    \* _loaded_manifests
  graph,     \* _graph, as dependencies of nodes
  tasks,     \* _tasks: the names that have a task
  upstream   \* the upstream tasks of each task

asked == <<dir, request>>
wiring == <<graph, tasks, upstream>>
vars == <<asked, phase, left, unscanned, skipped, stack, loaded, wiring>>

Empty == [n \in {} |-> {}]
Frame == [file : Names, todo : SUBSET Dep]

(* The types of all variables; the recursion is no deeper than there are    *)
(* manifests (add_manifest).                                                *)
TypeOK ==
  /\ DirOK
  /\ request \in Requests
  /\ phase \in {"request", "scan", "graph", "tasks", "built", "failed"}
  /\ left \in Seq(Names)
  /\ unscanned \subseteq Names /\ skipped \subseteq Names /\ loaded \subseteq Names
  /\ Len(stack) <= Cardinality(Names) /\ \A i \in DOMAIN stack : stack[i] \in Frame
  /\ Partial(graph, Names, SUBSET Names)
  /\ tasks \subseteq Names /\ Partial(upstream, Names, SUBSET Names)

Init ==
  /\ dir \in Directories /\ request \in Requests
  /\ phase = "request" /\ left = request.files
  /\ unscanned = {} /\ skipped = {} /\ stack = <<>> /\ loaded = {}
  /\ graph = Empty /\ tasks = {} /\ upstream = Empty

-------------------------------------------------------------------------------
(* loader.load: the manifest is read and validated.                         *)
Loadable == {f \in Readable : dir[f].valid}

(* find_manifest_by_name(dep): a valid manifest has the name of its file,   *)
(* so the search through the other files finds nothing; "b.yaml" and a      *)
(* mapping are no names of files.                                           *)
Found(d) == IF d.form = "name" /\ d.value \in DOMAIN dir THEN {d.value} ELSE {}

(* An exception of add_manifest ends the build, or the scan swallows it;    *)
(* what was loaded before stays loaded.                                     *)
Throw ==
  /\ stack' = <<>>
  /\ \/ phase = "request" /\ phase' = "failed" /\ UNCHANGED skipped
     \/ phase = "scan" /\ skipped' = skipped \cup {stack[1].file} /\ UNCHANGED phase
  /\ UNCHANGED loaded

(* Fault: the manifest is not marked as loaded before its dependencies.     *)
AddUnmarked(f, below) ==
  \/ f \in loaded /\ stack' = below /\ UNCHANGED <<phase, skipped, loaded>>
  \/ /\ f \in Loadable \ loaded
     /\ stack' = Append(below, [file |-> f, todo |-> dir[f].deps])
     /\ UNCHANGED <<phase, skipped, loaded>>
  \/ f \notin Loadable \cup loaded /\ Throw

(* add_manifest(f), called by the frames below.                             *)
Add(f, below) ==
  \/ f \in loaded /\ stack' = below /\ UNCHANGED <<phase, skipped, loaded>>
  \/ /\ f \in Loadable \ loaded
     /\ loaded' = loaded \cup {f}
     /\ stack' = Append(below, [file |-> f, todo |-> dir[f].deps])
     /\ UNCHANGED <<phase, skipped>>
  \/ f \notin Loadable \cup loaded /\ Throw

AddRequested ==
  /\ phase = "request" /\ stack = <<>> /\ left # <<>>
  /\ left' = Tail(left)
  /\ Add(Head(left), <<>>)
  /\ UNCHANGED <<asked, unscanned, wiring>>

(* The innermost call goes on with one of its dependencies, or it returns.  *)
Top == stack[Len(stack)]
Below == SubSeq(stack, 1, Len(stack) - 1)

AddDependency ==
  /\ stack # <<>>
  /\ \E d \in Top.todo :
       \/ Found(d) = {} /\ Throw
       \/ \E f \in Found(d) : Add(f, Append(Below, [Top EXCEPT !.todo = @ \ {d}]))
  /\ UNCHANGED <<asked, left, unscanned, wiring>>

AddReturns ==
  /\ stack # <<>> /\ Top.todo = {}
  /\ stack' = Below
  /\ UNCHANGED <<asked, phase, left, unscanned, skipped, loaded, wiring>>

-------------------------------------------------------------------------------
(* All is added. A manifest_path that has a group starts the scan.          *)
Scans == request.single /\ dir[request.files[1]].group # NoGroup

RequestsAdded ==
  /\ phase = "request" /\ stack = <<>> /\ left = <<>>
  /\ \/ ~Scans /\ phase' = "graph" /\ UNCHANGED unscanned
     \/ Scans /\ phase' = "scan" /\ unscanned' = DOMAIN dir \ {request.files[1]}
  /\ UNCHANGED <<asked, left, skipped, stack, loaded, wiring>>

(* Fault: the scan takes every manifest.                                    *)
WantedAll(f) == f \in Loadable

(* The scan adds the manifests that have a group or dependencies.           *)
Wanted(f) == f \in Loadable /\ (dir[f].group # NoGroup \/ dir[f].deps # {})

(* Fault: the scan ends at the first file it cannot use.                    *)
ScanUntil ==
  /\ phase = "scan" /\ stack = <<>>
  /\ \E f \in unscanned :
       \/ ~Wanted(f) /\ unscanned' = {} /\ UNCHANGED <<phase, skipped, stack, loaded>>
       \/ Wanted(f) /\ unscanned' = unscanned \ {f} /\ Add(f, <<>>)
  /\ UNCHANGED <<asked, left, wiring>>

(* glob lists the files in any order.                                       *)
Scan ==
  /\ phase = "scan" /\ stack = <<>>
  /\ \E f \in unscanned :
       /\ unscanned' = unscanned \ {f}
       /\ \/ ~Wanted(f) /\ UNCHANGED <<phase, skipped, stack, loaded>>
          \/ Wanted(f) /\ Add(f, <<>>)
  /\ UNCHANGED <<asked, left, wiring>>

ScanEnds ==
  /\ phase = "scan" /\ stack = <<>> /\ unscanned = {}
  /\ phase' = "graph"
  /\ UNCHANGED <<asked, left, unscanned, skipped, stack, loaded, wiring>>

-------------------------------------------------------------------------------
(* Fault: a dependency that is not loaded is no edge.                       *)
EdgesLoaded(f) == {n \in loaded : \E d \in dir[f].deps : d.form = "name" /\ d.value = n}

(* build_graph of the resolver. A mapping without suffix is looked up; one  *)
(* with a suffix is not found, and a group is passed over: "they are        *)
(* already resolved in add_manifest".                                       *)
Edges(f) ==
  {n \in Names : \E d \in dir[f].deps :
                   d.value = n /\ (d.form = "name" \/ (d.form = "bare_path" /\ n \in DOMAIN dir))}

(* "b.yaml" becomes an edge to a node that does not exist; a mapping is     *)
(* loaded once more.                                                        *)
EdgesFail(f) ==
  \E d \in dir[f].deps :
     \/ d.form = "file"
     \/ d.form = "bare_path" /\ d.value \in DOMAIN dir \ Loadable

Graph == [f \in loaded |-> Edges(f)]
Buildable ==
  /\ loaded # {} /\ \A f \in loaded : ~EdgesFail(f)
  /\ ClosedGraph(Graph) /\ AcyclicGraph(Graph)

BuildGraph ==
  /\ phase = "graph"
  /\ \/ Buildable /\ graph' = Graph /\ phase' = "tasks"
     \/ ~Buildable /\ phase' = "failed" /\ UNCHANGED graph
  /\ UNCHANGED <<asked, left, unscanned, skipped, stack, loaded, tasks, upstream>>

(* build: tasks in a topological order, any of which may be refused (what   *)
(* create_task refuses and makes is in TaskBuild), ...                      *)
CreateTask ==
  /\ phase = "tasks"
  /\ \E n \in DOMAIN graph \ tasks :
       /\ graph[n] \subseteq tasks
       /\ \/ phase' = "failed" /\ UNCHANGED tasks
          \/ tasks' = tasks \cup {n} /\ UNCHANGED phase
  /\ UNCHANGED <<asked, left, unscanned, skipped, stack, loaded, graph, upstream>>

(* ... then their edges.                                                    *)
SetDependencies ==
  /\ phase = "tasks" /\ tasks = DOMAIN graph
  /\ upstream' = [n \in tasks |-> graph[n] \cap tasks]
  /\ phase' = "built"
  /\ UNCHANGED <<asked, left, unscanned, skipped, stack, loaded, graph, tasks>>

Ended == phase \in {"built", "failed"} /\ UNCHANGED vars

Next ==
  \/ AddRequested \/ AddDependency \/ AddReturns \/ RequestsAdded
  \/ Scan \/ ScanEnds \/ BuildGraph \/ CreateTask \/ SetDependencies \/ Ended

Spec == Init /\ [][Next]_vars

-------------------------------------------------------------------------------
(* The reference: what was asked for and everything that it names, directly *)
(* or not.                                                                  *)
NamedBy(f) == {d.value : d \in {e \in dir[f].deps : e.form = "name"}}

Roots ==
  {request.files[i] : i \in DOMAIN request.files}
    \cup (IF request.single /\ request.files[1] \in Loadable /\ Scans
          THEN {f \in Loadable : dir[f].group # NoGroup \/ dir[f].deps # {}} ELSE {})

Asked ==
  {n \in Names : \A S \in SUBSET Names :
     Roots \subseteq S /\ (\A f \in S \cap Loadable : NamedBy(f) \subseteq S) => n \in S}

(* A manifest that merely lies in the directory is never loaded, and so     *)
(* never in the graph (DependencyResolver: "only for manifests that were    *)
(* added and their recursive dependencies").                                *)
OnlyAsked == loaded \subseteq Asked

(* A DAG that is built has a task for everything that was asked for, unless *)
(* the scan swallowed an exception (build_dag_from_yaml).                   *)
AllAsked == phase = "built" /\ skipped = {} => tasks = Asked

(* The upstream tasks of a task are dependencies that the lineage report    *)
(* shows for its pipeline; they are all of them if its manifest names       *)
(* pipelines only, whatever the scan swallowed (_set_task_dependencies).    *)
EdgesDeclared ==
  phase = "built" /\ (\A f \in Readable : dir[f].name = f) =>
    \A n \in tasks :
      /\ upstream[n] \subseteq Declared[n]
      /\ (\A d \in dir[n].deps : d.form = "name") => upstream[n] = Declared[n]
===============================================================================
