------------------------------- MODULE TaskBuild -------------------------------
(***************************************************************************)
(* The tasks of a DAG: TaskFactory, its two operator strategies and the     *)
(* DependencyResolver of requirements (dag_builder/task_factory.py), called *)
(* by the DAGBuilder of DagBuild. The requirements that were read from      *)
(* pyproject.toml are kept by the class, so they outlive the build; the     *)
(* dict of default settings is shared by the tasks of one builder.          *)
(***************************************************************************)
EXTENDS DagBuild

CONSTANTS
  BuildsOf(_),   \* the builds of a directory: what its caller and its manifests ask for
  Misnamed,      \* names without "__"
  BadGroups,     \* groups whose name normalises to nothing
  Junk,          \* a value that is no number
  Requirement,   \* requirements, as pip reads them
  Package,       \* the packages they name
  PackageOf,     \* the package of a requirement
  Sqlalchemy,    \* "sqlalchemy>=2.0.25"
  Fallback,      \* _get_fallback_dependencies
  Contents,      \* the dependencies that pyproject.toml may list
  MaxDeploys     \* bound: how often pyproject.toml is replaced

(* airflow.task of a manifest, and the settings that have another name, and *)
(* a number, for Airflow.                                                   *)
Argument == [retries |-> "retries", retry_delay_minutes |-> "retry_delay",
             execution_timeout_hours |-> "execution_timeout"]
Passed == {"requirements", "system_site_packages"}

ASSUME TaskAssumption ==
  /\ Misnamed \subseteq Names /\ BadGroups \subseteq Groups
  /\ PackageOf \in [Requirement -> Package]
  /\ Fallback \subseteq Requirement /\ Sqlalchemy \in Requirement
  /\ \A c \in Contents : c \in Seq(Requirement)
  /\ MaxDeploys \in Nat
  /\ \A D \in Directories : \A b \in BuildsOf(D) :
       /\ {b.load_dependencies, b.use_virtualenv} \subseteq BOOLEAN
       /\ DOMAIN b.section = Names

VARIABLES
  build,      \* the arguments of build_dag_from_yaml and airflow.task of each manifest
  defaults,   \* default_task_config of the factory
  grouping,   \* the task groups that were made, or none yet
  made,       \* the operators, in the order in which they were made
  cache,      \* _dependencies_cache: the set of it, or {}
  pyproject,  \* the dependencies in pyproject.toml: the set of that list, or {} (none, unreadable)
  deploys

tasking == <<build, defaults, grouping, made, cache, pyproject, deploys>>
taskVars == <<vars, tasking>>

None == {}
BuiltIn == [retries |-> 2, retry_delay |-> 5, execution_timeout |-> 2]

(* default_task_config or what the factory has instead.                     *)
Given(config) == IF DOMAIN config = {} THEN BuiltIn ELSE config

(* _parse_dependencies: the last requirement of each package.               *)
Parsed(c) == {c[i] : i \in {i \in DOMAIN c : \A j \in DOMAIN c : j > i => PackageOf[c[j]] # PackageOf[c[i]]}}

(* An earlier build of the process may have read pyproject.toml.            *)
TaskInit ==
  /\ Init
  /\ build \in BuildsOf(dir)
  /\ defaults = Given(build.default_task_config)
  /\ grouping = None /\ made = <<>> /\ deploys = 0
  /\ pyproject \in {{c} : c \in Contents} \cup {{}}
  /\ cache \in {{Parsed(c)} : c \in Contents} \cup {{}}

-------------------------------------------------------------------------------
(* use_task_groups is not given: one pipeline alone, without                *)
(* load_dependencies, goes without groups.                                  *)
UseGroups == build.load_dependencies \/ Cardinality(DOMAIN graph) > 1
GroupsOf == IF UseGroups THEN {dir[f].group : f \in loaded} \ {NoGroup} ELSE {}

(* _create_task_groups_from_manifests, before the first task.               *)
CreateTaskGroups ==
  /\ phase = "tasks" /\ grouping = None
  /\ \/ GroupsOf \cap BadGroups # {} /\ phase' = "failed" /\ UNCHANGED grouping
     \/ GroupsOf \cap BadGroups = {} /\ grouping' = {GroupsOf} /\ UNCHANGED phase
  /\ UNCHANGED <<asked, left, unscanned, skipped, stack, loaded, graph, tasks, upstream>>
  /\ UNCHANGED <<build, defaults, made, cache, pyproject, deploys>>

Section(n) == build.section[n]
Numbers(n) == {k \in DOMAIN Argument : k \in DOMAIN Section(n)}

(* The settings of f, and those of g that f does not have.                  *)
Over(f, g) == [a \in DOMAIN f \cup DOMAIN g |-> IF a \in DOMAIN f THEN f[a] ELSE g[a]]

(* _build_task_config: the defaults, under what the manifest says.          *)
TaskConfig(n) ==
  LET named == [a \in {Argument[k] : k \in Numbers(n)} |-> Section(n)[CHOOSE k \in Numbers(n) : Argument[k] = a]]
      logging == [k \in {"configure_logging"} |-> k \in DOMAIN Section(n)]
      passed == [k \in Passed \cap DOMAIN Section(n) |-> Section(n)[k]]
  IN  Over(named, Over(logging, Over(passed, defaults)))

(* _select_strategy; the builder forces none.                               *)
Virtualenv(n) ==
  IF "use_virtualenv" \in DOMAIN Section(n) THEN Section(n).use_virtualenv ELSE build.use_virtualenv

(* create_operator takes its own settings out of the config, Airflow gets   *)
(* the rest.                                                                *)
Own(n) == IF Virtualenv(n) THEN Passed \cup {"env", "configure_logging"} ELSE {"configure_logging"}
Rest(n) == [k \in DOMAIN TaskConfig(n) \ Own(n) |-> TaskConfig(n)[k]]

(* The name is no pipeline name, int() or float() raises, or the operator   *)
(* does not know an argument.                                               *)
Refused(n) ==
  \/ n \in Misnamed
  \/ \E k \in Numbers(n) : Section(n)[k] = Junk
  \/ DOMAIN Rest(n) \cap (Passed \cup {"env"}) # {}

(* Fault: the file is read for each task.                                   *)
CachedLast == IF pyproject # {} THEN {Parsed(c) : c \in pyproject} ELSE cache

(* load_dependencies: what was read once, else what can be read now.        *)
Cached == IF cache # {} THEN cache ELSE {Parsed(c) : c \in pyproject}

AllRequirements == IF Cached = {} THEN Fallback ELSE UNION Cached

Asks(n) == Virtualenv(n) /\ "requirements" \notin DOMAIN TaskConfig(n)

Operator(n) ==
  LET config == TaskConfig(n)
      set(k, value) == IF k \in DOMAIN config THEN config[k] ELSE value
  IN  [name |-> n, virtualenv |-> Virtualenv(n), arguments |-> Rest(n),
       logging |-> config["configure_logging"],
       requirements |-> IF ~Virtualenv(n) THEN {}
                        ELSE {Sqlalchemy} \cup IF Asks(n) THEN AllRequirements ELSE config["requirements"],
       system_site_packages |-> Virtualenv(n) /\ set("system_site_packages", FALSE),
       env |-> IF Virtualenv(n) THEN set("env", {}) ELSE {},
       group |-> IF dir[n].group \in UNION grouping THEN dir[n].group ELSE NoGroup]

(* Fault: the config is the dict of the factory, and keeps what was put in. *)
DefaultsShared(n) == Rest(n)

(* The dict of the factory is copied, and stays as it is.                   *)
DefaultsAfter(n) == defaults

(* _create_task_for_pipeline                                                *)
MakeTask ==
  /\ grouping # None
  /\ CreateTask
  /\ \E n \in DOMAIN graph \ tasks :
       /\ graph[n] \subseteq tasks
       /\ \/ Refused(n) /\ phase' = "failed" /\ UNCHANGED <<defaults, made, cache>>
          \/ /\ ~Refused(n)
             /\ tasks' = tasks \cup {n}
             /\ made' = Append(made, Operator(n))
             /\ cache' = IF Asks(n) THEN Cached ELSE cache
             /\ defaults' = DefaultsAfter(n)
  /\ UNCHANGED <<build, grouping, pyproject, deploys>>

(* Another version of the project is deployed.                              *)
Deploy ==
  /\ phase = "tasks" /\ deploys < MaxDeploys /\ deploys' = deploys + 1
  /\ pyproject' \in ({{c} : c \in Contents} \cup {{}}) \ {pyproject}
  /\ UNCHANGED <<vars, build, defaults, grouping, made, cache>>

TaskNext ==
  \/ /\ \/ AddRequested \/ AddDependency \/ AddReturns \/ RequestsAdded
        \/ Scan \/ ScanEnds \/ BuildGraph \/ Ended
     /\ UNCHANGED tasking
  \/ CreateTaskGroups \/ MakeTask
  \/ grouping # None /\ SetDependencies /\ UNCHANGED tasking
  \/ Deploy

TaskSpec == TaskInit /\ [][TaskNext]_taskVars

-------------------------------------------------------------------------------
(* The factory adds nothing to what DagBuild allows, so what is proved of   *)
(* DagBuild holds of the tasks that Airflow gets (DAGBuilder.build).        *)
ImplementsDagBuild == Spec

(* The order in which the tasks are made, and the tasks made before, change *)
(* nothing about a task: its settings are those of its manifest, and the    *)
(* caller's defaults where it has none (_build_task_config, "{**self.       *)
(* default_task_config}" and the pops of create_operator).                  *)
TasksApart ==
  LET given == Given(build.default_task_config)
      wanted(n, k) ==
        LET own == {s \in Numbers(n) : Argument[s] = k}
        IN  IF own # {} THEN {Section(n)[s] : s \in own} ELSE {given[x] : x \in {k} \cap DOMAIN given}
      list(n) ==
        IF "requirements" \in DOMAIN Section(n) THEN Section(n).requirements ELSE given.requirements
  IN  \A i \in DOMAIN made :
        LET t == made[i]
        IN  /\ \A k \in {"retries", "retry_delay", "execution_timeout"} :
                 {t.arguments[x] : x \in {k} \cap DOMAIN t.arguments} = wanted(t.name, k)
            /\ t.virtualenv /\ "requirements" \in DOMAIN given \cup DOMAIN Section(t.name) =>
                 t.requirements = list(t.name) \cup {Sqlalchemy}
            /\ t.virtualenv /\ "env" \in DOMAIN given => t.env = given.env

(* Tasks that leave their requirements to pyproject.toml get the same ones, *)
(* whatever is deployed while they are made; only those made before it      *)
(* could be read get the fallback (load_dependencies).                      *)
OneEnvironment ==
  \A i, j \in DOMAIN made :
    LET auto(t) == t.virtualenv /\ "requirements" \notin DOMAIN Section(t.name) \cup DOMAIN defaults
    IN  i < j /\ auto(made[i]) /\ auto(made[j]) =>
          \/ made[i].requirements = made[j].requirements
          \/ made[i].requirements = Fallback \cup {Sqlalchemy}
===============================================================================
