----------------------------- MODULE DagGeneration -----------------------------
(***************************************************************************)
(* dltaf dags generate (services/dags/generation.py): one Airflow file for  *)
(* each pipeline of the directory, which may be edited between two calls.   *)
(* Every call has a new ManifestDependencyResolver; its graph is taken at   *)
(* what LineageResolver shows of an unedited one, Declared. The settings    *)
(* that the templates copy (schedule, tags, retries) are left out.          *)
(***************************************************************************)
EXTENDS LineageResolver

CONSTANTS
  Conventional,    \* names that begin with dlt__ (or standalone_, domain__, simple__)
  Tracked,         \* the files of the output directory that git tracks
  MaxGenerations   \* bound: how often files are generated

(* n.py, or n_with_deps.py.                                                 *)
File == [name : Names, with_deps : BOOLEAN]

ASSUME GenerationAssumption ==
  Conventional \subseteq Names /\ Tracked \subseteq File /\ MaxGenerations \in Nat

VARIABLES
  out,          \* the files in the output directory
  last,         \* history: the last call; "failed", "some" or "all" pipelines got a file
  generations

output == <<out, last, generations>>
generationVars == <<vars, output>>

Content == [manifest : Names, deps : SUBSET Names]
ByHand == [manifest |-> CHOOSE n \in Names : TRUE, deps |-> {}]

(* The files that git tracks are there, from a checkout.                    *)
GenerationInit ==
  /\ Init
  /\ out = [f \in Tracked |-> ByHand]
  /\ last = [clean |-> FALSE, result |-> "failed", edits |-> 0]
  /\ generations = 0

-------------------------------------------------------------------------------
(* _get_transitive_dependencies: everything that n needs, in a graph: what is *)
(* in every set that has the dependencies of n and those of its members.      *)
Transitive(G, n) ==
  {k \in DOMAIN G : \A S \in SUBSET DOMAIN G :
     G[n] \subseteq S /\ (\A d \in S : G[d] \subseteq S) => k \in S}

(* _render_simple_dag, _render_with_deps_dag                                *)
FileOf(G, n) == [name |-> n, with_deps |-> G[n] # {}]
Rendered(G, n) == [manifest |-> Discovered[n], deps |-> Transitive(G, n)]

(* Fault: the names of the files with dependencies match no pattern.        *)
MatchesSimple(f) == f.name \in Conventional /\ ~f.with_deps

(* The patterns of _clean_old_dags.                                         *)
Matches(f) == f.name \in Conventional

(* _is_git_tracked: no git, or no answer within 5 s, and it is not.         *)
Protected(f, answers) == f \in Tracked /\ answers

Kept(clean, answers) == {f \in DOMAIN out : clean => ~Matches(f) \/ Protected(f, answers)}

(* generate: first a new resolver builds the graph, or raises.              *)
Buildable == Extractable(Discovered) /\ \A G \in {Declared} : ClosedGraph(G) /\ AcyclicGraph(G)

Returned(clean, result) == [clean |-> clean, result |-> result, edits |-> edits]

(* Then the old files go, and each pipeline gets its file; one that cannot  *)
(* be rendered or written is skipped.                                       *)
Written(clean, G, missed, answers) ==
  LET made == {FileOf(G, n) : n \in DOMAIN G \ missed}
  IN  /\ out' = [f \in Kept(clean, answers) \cup made |->
                   IF f \in made THEN Rendered(G, f.name) ELSE out[f]]
      /\ last' = Returned(clean, IF missed = {} THEN "all" ELSE "some")

Generate ==
  /\ calls = 0 /\ generations < MaxGenerations /\ generations' = generations + 1
  /\ \E clean \in BOOLEAN :
       \/ ~Buildable /\ last' = Returned(clean, "failed") /\ UNCHANGED out
       \/ /\ Buildable
          /\ \E G \in {Declared}, answers \in {TRUE, ~clean} :
               \E missed \in SUBSET DOMAIN G : Written(clean, G, missed, answers)
  /\ UNCHANGED vars

(* A resolver that others use shares nothing with the calls but the         *)
(* directory, so either it is used or files are generated.                  *)
GenerationNext == Generate \/ ((generations = 0 \/ Edit) /\ Next /\ UNCHANGED output)

GenerationSpec == GenerationInit /\ [][GenerationNext]_generationVars

-------------------------------------------------------------------------------
(* After a generation with --clean that skipped nothing the directory says  *)
(* what the manifests say: each pipeline has the file of its kind, and no   *)
(* other file that git does not track has the name of a pipeline that       *)
(* follows the convention, so Airflow sees no dag_id twice and no DAG of a  *)
(* pipeline that is gone (DAGGenerationService.generate, "--clean").        *)
Regenerated ==
  last.result = "all" /\ last.edits = edits =>
    \A G \in {Declared} :
      /\ \A n \in DOMAIN G : FileOf(G, n) \in DOMAIN out /\ out[FileOf(G, n)] = Rendered(G, n)
      /\ last.clean =>
           \A f \in DOMAIN out : f.name \in Conventional /\ f \notin Tracked =>
             f.name \in DOMAIN G /\ f = FileOf(G, f.name)
===============================================================================
