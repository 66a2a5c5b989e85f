------------------------------ MODULE ManifestDir ------------------------------
(***************************************************************************)
(* A directory of manifests, and what the depends_on lists in it mean: the  *)
(* parts of lineage/manifest_dependency_resolver.py that only read, shared  *)
(* by the lineage resolver and the DAG builder. A file is its name without  *)
(* ".yaml"; the names of pipelines and files are the same kind of thing.    *)
(***************************************************************************)
EXTENDS Naturals, Sequences, FiniteSets

CONSTANTS
  Names,      \* names of pipelines and stems of files
  FileOrder,  \* the stems in the order in which sorted() lists the files
  Groups,     \* task groups
  NoGroup,    \* a manifest without task_group
  Broken      \* a file that is no mapping or has no pipeline.name

(* How an entry of depends_on is written: b; b.yaml; path: b.yaml; path: b; *)
(* group: g.                                                                *)
Dep == [form : {"name", "file", "path", "bare_path"}, value : Names]
         \cup [form : {"group"}, value : Groups]

(* ... and what _extract_depends_on refuses.                                *)
Entry == Dep \cup [form : {"malformed"}, value : Names]
WellFormed(deps) == \A d \in deps : d.form # "malformed"

(* valid: the manifest passes validate_manifest, which the lineage resolver *)
(* does not ask and the DAG builder does.                                   *)
Manifest == [name : Names, group : Groups \cup {NoGroup},
             deps : SUBSET Entry, valid : BOOLEAN]

ASSUME DirAssumption ==
  /\ FileOrder \in Seq(Names)
  /\ \A n \in Names : \E i \in DOMAIN FileOrder : FileOrder[i] = n
  /\ \A i, j \in DOMAIN FileOrder : FileOrder[i] = FileOrder[j] => i = j
  /\ NoGroup \notin Groups /\ Broken \notin Manifest

VARIABLE dir   \* the files that exist, with what is in them

(* m maps some elements of S to elements of T.                              *)
Partial(m, S, T) == DOMAIN m \subseteq S /\ m \in [DOMAIN m -> T]

DirOK == DOMAIN dir \subseteq Names /\ \A f \in DOMAIN dir : dir[f] = Broken \/ dir[f] \in Manifest

(* validate_manifest: the schema, a well-formed depends_on without the      *)
(* pipeline itself, and a name that is that of the file.                    *)
Validated(f, m) ==
  m.valid => /\ m.name = f /\ WellFormed(m.deps)
             /\ \A d \in m.deps : d.form # "group" => d.value # f

-------------------------------------------------------------------------------
Readable == {f \in DOMAIN dir : dir[f] # Broken}

Before(f, g) ==
  \E i, j \in DOMAIN FileOrder : i < j /\ FileOrder[i] = f /\ FileOrder[j] = g

(* Of two files with the same pipeline.name discovery takes the first.      *)
Chosen ==
  {f \in Readable : \A g \in Readable : dir[g].name = dir[f].name => ~Before(g, f)}

Discovered ==
  [n \in {dir[f].name : f \in Chosen} |-> CHOOSE f \in Chosen : dir[f].name = n]

Members == [g \in Groups |-> {dir[f].name : f \in {h \in Chosen : dir[h].group = g}}]

(* The pipelines one entry stands for, in a directory and with given        *)
(* members of the groups: a file that cannot be read stands for none.       *)
Denotes(d, members) ==
  CASE d.form \in {"name", "bare_path"} -> {d.value}
    [] d.form \in {"file", "path"} -> IF d.value \in Readable THEN {dir[d.value].name} ELSE {}
    [] d.form = "group" -> members[d.value]

DenoteAll(deps, members) == UNION {Denotes(d, members) : d \in deps}

-------------------------------------------------------------------------------
(* The reference: the graph the manifests declare.                          *)
Declared == [n \in DOMAIN Discovered |-> DenoteAll(dir[Discovered[n]].deps, Members)]

(* A graph, given by the dependencies of its nodes.                         *)
ClosedGraph(G) == \A n \in DOMAIN G : G[n] \subseteq DOMAIN G
AcyclicGraph(G) == \A S \in SUBSET DOMAIN G : S # {} => \E n \in S : G[n] \cap S = {}
===============================================================================
