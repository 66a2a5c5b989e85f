# Verification of dltaf

This directory holds the TLA+ models of dltaf, a framework that loads data with
[dlt](https://dlthub.com) as YAML manifests describe it, the TLC runs that check
them, and TLAPS proofs about them. Paths are relative to the repository.

## 1. Inventory

| Component (source) | State it keeps | Operations | Interacts with |
|---|---|---|---|
| Kafka waiter (`dlt_utils/adapters/kafka/kafka_python.py`) | the consumer, its assignment and positions, the prepared topic | `prepare`, `wait_for_key`, `wait_for_any`, `close` | brokers, `kafka-python` |
| Kafka job runner (`dlt_utils/patterns/kafka_async_job.py`) | none beyond a call | `run_safe`, `run_job_safe`, `wait_for_any_safe` | waiter, the triggered service, payload contracts |
| Manifest executor (`dltaf/services/execution/{executor,request,context_builder,environment}.py`) | the run | `run_manifest` | everything below |
| Hook pipeline (`dltaf/extensions/hooks/pipeline.py`) | the hooks executed so far | `run`, `_safe_call` | hooks, the executor |
| Replace policy, audit hook (`dlt_utils/hooks/`) | the audit table | `pre_run`, `post_run`, `on_error` | ClickHouse |
| Planner (`dltaf/services/execution/planner.py`) | none | `build_run_plan`, `execute_plan_or_dry_run` | executor |
| Environment scope (`dlt_utils/vault_env.py`) | `os.environ` | `temporary_environ`, builders | executor, runners, hooks |
| Secrets and connections (`dlt_utils/adapters/secrets/`, `airflow_variables.py`, `kafka_config.py`) | Vault aliases in `os.environ` | `resolve_connections`, the readers of Vault and Airflow | environment scope |
| Replace protection (`dlt_utils/runners/common.py`, `dlt_utils/clickhouse_helpers.py`) | tables of the dataset, pending packages | `run_with_replace_protection`, cleanup, table check | dlt, ClickHouse |
| SQL integrations (`dltaf/integrations/`) | none | normaliser, parser, dialects, modes, execution manifest | replace protection, schema, doctor |
| MongoDB loaders (`dlt_pipelines/mongodb_runtime/`) | cursor, incremental value | collection loaders, parallel batches | MongoDB, dlt |
| HTTP client, polling (`dlt_utils/adapters/http/`, `dlt_utils/patterns/polling.py`) | attempts | `request_json`, `poll_until` | runners, error taxonomy |
| Payload contracts (`dlt_utils/contracts/`, `dltaf/services/contracts/`) | captured files | `build_payload_contract`, `validate`, contract test | runners, CI |
| Registries, plugins, infra checks (`dltaf/extensions/`, `dlt_utils/core/online_checks.py`) | registered items | `register`, plugin loading, selection, `run_checks` | executor, validator, commands |
| Manifest services (`dltaf/services/manifests/`) | the manifest's text | overrides, schema, lint, doctor, canonical layout | executor, commands |
| Manifest command line (`dlt_utils/manifest_runner.py`, `dltaf/commands/manifest/run.py`) | none | `--set`, the window flags, modes of a run | overrides, executor |
| Dependency graph (`lineage/dependency_graph.py`) | nodes, two adjacency maps, the validated flag | `add_node`, `validate`, `topological_sort`, `get_execution_order`, `get_transitive_dependencies` | lineage resolver, DAG builder |
| Lineage resolver (`lineage/manifest_dependency_resolver.py`) | manifest map, dependency map, task groups | `discover_manifests`, `extract_dependencies`, `build_graph` | dependency graph |
| DAG builder (`dag_builder/`) | loaded manifests, cached graph, tasks, cached requirements | `build_dag_from_yaml`, `add_manifest`, `build_graph`, `create_task` | dependency graph, Airflow |
| DAG generation (`dltaf/services/dags/`) | the generated files | `generate` | lineage resolver, git |
| Run results, errors (`dlt_utils/core/`) | none | taxonomy, redaction, metrics | executor |
| Other commands, scaffold, docs, dev tooling | files | reports, templates | services |

What is hard in them, and what makes them correct:

* **Request/reply over Kafka.** The consumer must be in position before the
  request is sent, the library resolves a seek lazily, polls for metadata drop
  records, replies are late, duplicated or never come, several requests overlap.
  Correct: a reply is not missed, a returned record answers the request it is
  returned for, every call ends.
* **A manifest run.** Failures and interrupts anywhere. Correct: the process
  environment is restored, each hook is told once how the run ended, the audit
  row is true, a planning run loads nothing.
* **Before the run.** Registries are built again for each use, from plugins that
  may fail half-way; a login is put together from four sources and overrides.
  Correct: what runs is what was validated, a login is from one secret, labels of
  values are true, an "ok" of the infra checks means that they were done.
* **Replace protection.** A load of several steps that is repeated after some
  errors, over a destination that outlives a crash. Correct: a replace that
  returned has replaced, an append is not repeated.
* **MongoDB loads.** Pages and batches of a collection that changes while it is
  read, with a cursor value kept from load to load. Correct: what stays is loaded,
  once, and nothing falls behind the cursor's value.
* **A pull.** Lost answers, retries of a POST, a poll that ends on its last try,
  a contract whose schema is edited, a capture that fails. Correct: a job is done
  twice only when an answer was lost, a report that came is used, the contract's
  mode alone decides, CI and run agree.
* **Manifests as text.** Four translations of one source block, an editor that
  works line by line. Correct: what lint accepts runs, a fix is made once and
  changes nothing else, overrides of flags win.
* **The graph.** Any order of construction and of set iteration. Correct: a
  validated graph is closed and acyclic, a reported cycle is one, sort, levels and
  closure are what their names say.
* **Lineage resolver, DAG builder, DAG generation.** Caches over a directory that
  is edited, five ways to write a dependency, recursion through cycles, a scan that
  swallows exceptions half-way, settings shared by tasks, generated files that
  outlive their manifests. Correct: the graph is what the manifests declare, the
  DAG has exactly the tasks and edges that were asked for, each task its own
  settings, the output directory one current file per pipeline.

The full list of hazards, with lines and properties, is in `PROJECT.json`.

## 2. Modules

| Module | Models | Composition |
|---|---|---|
| `KafkaWaiter` | topics and one `KafkaPythonWaiter` | |
| `KafkaRunner` | what the two workflows share: the topics of jobs, what was requested and armed | extends `KafkaWaiter` |
| `KafkaJob` | `run_safe`, one job after the other | extends `KafkaRunner` |
| `KafkaBatch` | `wait_for_any_safe` and a caller with overlapping requests | extends `KafkaRunner` |
| `HookProtocol` | abstract: what a hook may rely on | |
| `ManifestRun` | executor, hook pipeline, policy, audit, dry run, environment | implements `HookProtocol` |
| `OnlineChecks` | the built-in infra checks and their evaluation | |
| `Extensions` | registries, plugins, selections, infra checks | extends `OnlineChecks` |
| `Connections` | secrets, overrides, the environment of a run | |
| `RunSetup` | validation, a run up to its pipeline, `infra run` | composes `Extensions` and `Connections` |
| `ReplaceLoad` | `run_with_replace_protection` and the ClickHouse helpers | |
| `MongoLoad` | the MongoDB loaders and others that write | |
| `HttpPull` | retries, polling, error taxonomy, as operators | |
| `PayloadContract` | building, validation, capture, contract test, as operators | extends `HttpPull` |
| `Overrides` | `--set`, window flags, `apply_overrides`, as operators | |
| `ContractedPull` | runs that pull a report, an editor, CI | composes `PayloadContract` and `Overrides` |
| `SqlSource` | the translations of a SQL source block, as operators | |
| `ManifestDoctor` | one manifest under doctor and linter | extends `SqlSource` |
| `DependencyGraph` | `DependencyGraph` | |
| `ManifestDir` | a directory of manifests and what `depends_on` means in it | |
| `LineageResolver` | `ManifestDependencyResolver` and an editor | extends `ManifestDir` |
| `DagGeneration` | `dltaf dags generate` | composes with `LineageResolver` |
| `DagBuild` | `build_dag_from_yaml` with resolver, loader and builder | extends `ManifestDir` |
| `TaskBuild` | task groups, settings, requirements of the tasks | implements `DagBuild` |
| `DependencyGraphProofs`, `RunSetupProofs`, `ContractedPullProofs` | theorems | each extends the module in its name |
| `KafkaProofs`, `ManifestProofs`, `LoadProofs`, `DagBuildProofs`, `LineageResolverProofs` | theorems | extend `KafkaJob` and `KafkaBatch`, `ManifestRun` and `ManifestDoctor`, `ReplaceLoad` and `MongoLoad`, `TaskBuild`, `DagGeneration` |
| `MC*` | constants for TLC | extend the above |

Operators whose comment begins with "Fault:" are no part of a specification. Each
is a plausible slip in the definition that follows it, and some property of a run
fails when the definition is replaced by it; `PROJECT.json` pairs them.

**KafkaWaiter.** `log` is the content of the partitions; `consumer`, `assigned`,
`pos`, `reset`, `prepared` are the consumer and `_prepared`. An offset is an index
in a log, a correlation id is the job itself. `reset` holds the partitions whose
`seek_to_end` kafka-python has not resolved yet: it does so at the first poll or
position lookup, so the position is the end of the log at that later moment.
`EagerSeek = TRUE` is the other possibility, resolution inside the call. A poll
hands over up to `MaxPoll` records, in any split over the partitions, and moves
the position past all of them, whether or not the loop looks at them.

**KafkaJob.** `pc[j]` walks through `run_safe`: `Start` is the topic check with
`prepare`, `TriggerSend` and `TriggerReturn` are the two sides of `trigger()` (the
service may have the request although the trigger fails), `BeginWait` the head of
`wait_for_key`, then polls until `PollReply`, `TimeUp` or `PollRaises`. `Decoded`
is the decoding and the contract. `armed` is a history variable: the consumer was
in position when the request was sent.

**KafkaBatch.** The repository describes the batch workflow but has no caller of
it; the caller is external and does what the docstring of `wait_for_any_safe`
says. A waiter without `wait_for_any` waits for one of the keys (`HasWaitAny`);
the runs use the repository's own waiter, which has it. `BeginAny`, `AnyNothing`,
`AnyReply` and `EndAny` are `wait_for_any` where `KafkaJob` has `wait_for_key`.
`dropped` is a history variable: the replies that were behind the returned match in
the batch of a poll, which `wait_for_any` leaves with the return.

**ManifestRun.** One process, one run after the other. `environ` and `saved` are
`os.environ` and the locals of `temporary_environ`; `done` counts the hooks entered
and not told yet; `run` records what the run did (runner started, load info
returned, audit rows, how it ended). Requests are records of what decides the
course of a run. `RaiseEarly` is every failure before the hooks, `Interrupt` an
exception that `except Exception` does not catch. The loop of `temporary_environ`
that sets variables is before its `try`: `EnterCut` is that loop cut off anywhere, by
a refused key or value or an interrupt, and `RestoreCut` the one that gives them
back; `leaked` is a history variable of what they went over. `healthy` says what the checks
of a dry run would find; the code runs none of them, so no action reads it.

**RunSetup.** What `RaiseEarly` of `ManifestRun` may be, in detail. A program
(`validate`, a run, `infra run`) is the list `todo` of its tasks; those over a
registry are in `Extensions`: `Build` copies the built-in items, `LoadPlugin`
registers one plugin's names up to where it raises (what it registered before
stays), and then the section is validated, the runner taken, the hooks built or the
checks selected and run. `registry` maps names to origins, so that one can say
whose runner it is. `Connections` resolves one block at a time: `Secret` is the
precedence of Vault, the JSON variable of Airflow and its single variables, with
overrides applied; a value of `environ` is the set of places its parts come from, a
field that is mapped to an Airflow variable of its own from that variable.
`saved` is again the locals of `temporary_environ`, and `EnterCut`, `LeaveCut` and
`leaked` its loops cut off. The results of an online check
are the outcomes its sockets and clients may have.

**ReplaceLoad.** `exists`, `old`, `new` describe the dataset: which tables there
are, which hold rows of earlier runs, and how many times each holds the rows of
this run. `pipeline.run` is external: it takes up the load package in `pending`,
whoever left it there, and loads nothing else, and only without one makes one of the
source (`Job`); it loads all of its tables or raises having created, emptied or loaded
some, and what it did not load may stay pending. The cleanup drops a package or fails
to, which is only logged; `stale` remembers that it failed, and whether the append
that creates tables has taken the package up since. "append" stands for every
disposition other than replace. A run may be killed anywhere, also inside
`pipeline.run`.

**MongoLoad.** A document is a place in the natural order with a stamp, its cursor
field. A query finds a set of rows; a sort promises nothing of rows with equal stamps
(`Before`), and without one no order is common to two queries, so what a query gives
first is any of `Fronts`. `OpenCursor` and `ReadChunk` are the loader with one cursor.
Either the server sorts what it finds when the query runs (`ahead`), or it goes along
the records or an index as they are while it reads (`Scans`, `indexed`, `Along`): then
a document that is updated may be met again, or no more. `CutBatches` and `RunBatch`
are the parallel loaders: the number of rows is counted once, then each batch runs its
own query with skip and limit, and gets any of `Windows`, ties and all. `Agreed` says
when batches are pieces of one order: there is one batch, or a sort by stamps that no
two rows share. `read` is what the load has got and `twice` the places of what it got
more than once. `Store` merges `read` into `stored` and keeps the last value. `calm`
and `steady` are history variables: the batches agree, and no write has moved documents
under them or ahead of an index scan again; none has slipped behind what a load still
had to read.

**ContractedPull.** A manifest's runner is a plugin, so the runner is external: one
that compiles its contract, posts a job, polls for the report, validates and loads it,
as the repository's client, polling and contract are there for. (The plugin that
`dltaf scaffold` renders asks once and checks nothing.) All it calls is the
repository's: `Answered` is one turn of the loop of `request_json`,
`Polled` one of `poll_until`, `Compiled`, `Validate` and `CaptureFiles` are the
contract, `Classify` the taxonomy, `Overridden` what `--set` and the flags make of
the manifest. `unheard` counts the jobs the server started without the client
learning of it. `EditSchema` and `TestContract` are the contract's owner and CI.
A schema is the payloads it accepts and those on which its validator raises: nothing
checks a schema before it meets such a payload. A capture is cut short, redacted if
asked for, or replaced by a note (`Prepared`). Paths are places and directories.

**ManifestDoctor.** The file is the sequence of its lines with their indentation,
because the doctor edits lines (`SetScalar`, `EnsureVersion`) and YAML reads
blocks (`SourceOf`, `Field`). `Normalize`, `WithDefaults`, `Execution` and
`Canonical` of `SqlSource` are the four translations; `Loads` is what a load then
does. `Adopt` takes the canonical file over.

**DependencyGraph.** Every method is a sequence of steps; the order in which
Python iterates over sets is open. `deps` stands for `_nodes[n].dependencies` and
for `_reverse_adjacency`, which `add_node` fills with the same pairs and nothing
reads. The visit of a node is `Root` or `Descend`, then `Skip`, `Descend` or
`BackEdge` for each dependent, then `Leave`.

**ManifestDir.** `dir` maps the files that exist to what is in them; a file is its
name without ".yaml". A dependency is a form (`b`, `b.yaml`, `path: b.yaml`,
`path: b`, `group: g`) with a value, and `Denotes` is the translation of an entry
to pipelines (`_resolve_dependencies`). What the validator says is one flag, with
the consequences for names and dependencies that `Validated` states.

**LineageResolver.** `manifestMap`, `dependencyMap` and `taskGroups` are the three
maps of the object. `discover_manifests` replaces the first and only adds to the
lists of the groups, so `taskGroups` counts how often a list has a name. Every
public method is an action, and they come in any order; `build_graph` is three
(`BuildStart`, `BuildExtract`, `BuildResolve`), because it reads the files again
at each of them, and `Edit` may come in between. `validate` is taken at what
`DependencyGraph` shows of it: it accepts the closed, acyclic graphs.

**DagGeneration.** `out` maps the files of the output directory to the manifest and
the dependencies they name. `Generate` is one call, with or without `--clean`, with
a git that answers or not; it has a resolver of its own, whose graph is the
`Declared` of `LineageResolver`.

**DagBuild.** One parse of a DAG file: the requested manifests, the automatic scan
that a group switches on, the resolver's graph, the tasks and their edges. `stack`
is the recursion of `add_manifest`; `depends_on` is a set, so its entries are tried
in every order. `Throw` is an exception on its way out: it fails the build, or ends
one file of the scan, and what was loaded before stays loaded. Airflow's operators
are external: any task may be refused.

**TaskBuild.** `CreateTask` of `DagBuild` in detail: `TaskConfig` merges the
factory's defaults with `airflow.task`, `Operator` is what the strategy hands to
Airflow, `Refused` when a task is refused. `cache` belongs to the class and
`pyproject` is the file it was read from, which `Deploy` replaces at any time.

## 3. Runs

Two cores finish each run in about a minute and a half or less; the figures are
distinct states.

| Run | Configuration | Shows |
|---|---|---|
| `kafka_job` | 2 jobs, 2 topics of one partition, 2 records per partition, polls of 2, lazy seek, all three `start_from` | `ArmedReplyUnread`, `FirstReplyReturned`, `CallsEnd` |
| `kafka_batch` (259,731) | 2 requests, 2 partitions, polls of up to two records | `OpenReplyKept`, `OneReplyEach`, `RepliesDelivered` |
| `kafka_batch_lost` | the same, one partition | `OpenReplyUnread` fails |
| `manifest_run` (133,272) | 2 variables, 2 values, 3 hook selections, 13 requests | `EnvScoped`, `AuditTruthful`, `HookOrder`, `RunsEnd` |
| `run_setup` (1,606,992) | 7 plugins over three kinds of registries, manifests that differ in plugins, selections or connections, 4 environments, Vault that comes and goes | `RunAsValidated`, `OkMeansChecked`, `ProvenanceTrue`, `LoginTogether`, `EnvRestored` |
| `replace_load` (18,488) | 2 tables, 2 foreign ones, 1 temporary one | `ReplaceExact`, `AppendOnce`, `RunsEnd` |
| `mongo_load` (3,174,500) | 3 documents, 3 stamps, chunks of 2, 21 sets of options | `StayersLoaded`, `OnceEach`, `NothingLeftBehind` |
| `contracted_pull` (1,100,296) | 10 contracts, 11 command lines, 3 schemas, 3 payloads, 1 retry, 2 polls, 1 edit | `FlagsWin`, `JobsExplained`, `ReportSeen`, `ModeDecides`, `TestedHolds`, `TestsStable` |
| `manifest_doctor` (4,801) | four kinds, with every dialect, mode and layout, `db_schema` and `schema` in both places, and texts in several orders and indentations | `LintedRuns`, `FixesStick`, `ApplyKeepsEffect`, `CanonicalKeepsEffect` |
| `dependency_graph` | 4 names, up to 2 dependencies each, self-loops and missing names included | `ValidatedSound`, `ResultsCorrect` |
| `lineage` (124,565) | 81 directories of up to 3 files and one group; 3 calls of the resolver or 2 generations, 1 edit anywhere | `GraphDeclared`, `RebuildCovers`, `Regenerated` |
| `dag_build` (470,863) | 1806 directories of up to 4 files and two groups, 3 requests; for three of them 200 settings of tasks; a deploy | `AllAsked`, `EdgesDeclared`, `TasksApart`, `OneEnvironment` |

What the properties say, where the name does not, in a line each:

* `OpenReplyKept`: however many records a poll hands over, a reply to an open request
  is ahead of the consumer, or was in the rest of a batch whose first match was
  returned. `RepliesDelivered`: the former kind all get to their requests.
* `ReplaceExact`: a replace that returned has replaced, whatever it found. The one
  exception is dlt's: with a package pending that the cleanup could not drop, and no
  table missing, `pipeline.run` loads that package, and the rows of the run are not
  there. `EnvScoped` has the one exception of a loop of `temporary_environ` that was
  cut off, for the variables it went over.
* `RunAsValidated`: the runner that runs is the one that validation asked, and only
  plugins of the environment can make a validated run fail on its registries.
  `OkMeansChecked`: an "ok" of `infra run` means that all selected checks exist and
  found no error, and that a built-in one reached a server; only ClickHouse's may have
  raised before it tried, when a port is set. `ProvenanceTrue`: the reported source of
  a value is true, but for mapped fields under a prefix's label. `LoginTogether`: all
  that is set for a connection, the optional variables too, is of one secret; what
  shows the environment of before is neither required nor in the secret.
  `EnvRestored`: nothing but Vault's address, and what a loop that was cut off went
  over, outlives a run.
* `StayersLoaded`, `OnceEach`: a load gets what was there all the time, once. In
  parallel that is so only if the batches agree on an order and no write moves the
  documents in it, and a scan of an index may meet a document again that was updated
  after it was read; the code sees neither. `NothingLeftBehind`: nothing that was not loaded is behind the
  cursor's last value, when loads are complete or in ascending order and, for the
  parallel loaders, there is no other filter than the cursor's: they count with
  that one alone, so that with another the batches go past what there is.
* `JobsExplained`: a server does a job twice only when an answer was lost.
  `ReportSeen`: a poll does not give up on a report it was shown. `ModeDecides`:
  warn never stops a load, deny exactly for a violation, whatever the disk does; a
  validator that raises, on a schema nobody has checked, ends the run in any mode.
  `TestedHolds`, `TestsStable`: CI and run agree about a schema, and captures do not
  become samples. `FlagsWin`: the window flags beat `--set`.
* `LintedRuns`: what lint accepts gets past all later checks, and the replace
  protection expects the tables that are loaded. `FixesStick`: a fix does what it
  says exactly when its edit reaches its line; `ApplyKeepsEffect`,
  `CanonicalKeepsEffect`: neither the fixes nor the canonical file change the load,
  where the code itself reads the source in one way only (`SameMode`: the schema and
  the normaliser infer one mode; `OneSchema`: no `db_schema` in the catalog section
  beside a `schema` at the top).
* `ResultsCorrect`: reported cycles are cycles, the sort is one, levels are the
  earliest, closures the least. `Regenerated`: after a clean generation the
  directory has one current file per pipeline.
* `TasksApart`: a task's settings do not depend on the tasks made before it;
  `OneEnvironment`: nor do its requirements on a deploy in between.

Bounds, and why they are enough. `MaxLog` bounds a partition; two records give a
late and a current reply, or a reply and a duplicate, in one partition. Two jobs on
two topics give a change of the assignment in both directions, a waiter prepared
for the wrong topic, and late replies of an earlier call. Polls of two records are
the smallest with a rest that is dropped. Three hook selections cover none, one
that audits last and one that audits first. Of the plugins, two offer the same
runner, one raises after registering, one takes a built-in name, and lists of two
have them in both orders. Three documents with chunks of two give two batches and a
write that shifts one into the other; three stamps give a tie at the last value, batches
that agree and others that do not, and an update ahead of a scan. Of the places where a
loop of `temporary_environ` may be cut off (`Begun`, `Rest`) `run_setup` has one each,
`manifest_run` all; the proofs have any.
`MaxRuns` and `MaxEdits` of one give a schema that is edited before, during or after
a run; `Retries` of one a first and a last attempt, `PollAttempts` of two a last
poll that is not the first. Four names give a cycle of each length,
a cycle off the path's start, a diamond and two components; the names are
interchangeable, so TLC uses their symmetry (no liveness is checked there). Two
tables give a load that fails between them. Three files give a repeated
pipeline name, a cycle through a group, an unreadable file and a stale list of
members; three calls are enough for a stale map before `build_graph` and a call
after it; two generations for files that outlived their manifests. Four files give
a cycle of two and of three, a diamond and a file of the
scan that fails after its dependencies were loaded; one deploy (`MaxDeploys`)
separates two tasks. The records of a run (`rows`) and `new`
are bounded by the code itself: a row per run, three loads per call.

`KafkaBatch.cfg` polls up to two records, as `KafkaJob.cfg` does: the code sets no
`max_poll_records`. A reply may then be lost, which is what `kafka_batch_lost` shows,
and `OpenReplyKept` is the part of the promise that holds. The deadlock check is off where a system may
stop: all jobs done or the logs full, programs and runs that nobody starts, a
manifest with nothing to fix, and the bounded calls of `DagGeneration` and
`ContractedPull`. A build ends in the step `Ended`, so that
`dag_build` also shows that none gets stuck (a cycle in the recursion, or tasks
without an order).

### Where code and documentation disagree

`kafka_batch_lost` is a run: `wait_for_any` drops the rest of a polled batch, and
with it replies to other open requests (`kafka_python.py:247-268`, against the batch
workflow of `kafka_async_job.py:217`); `OpenReplyKept` says that no reply is lost in
another way. The others were met while modelling; each is
quoted in `PROJECT.json` under "findings", and the properties state around it what
the code does guarantee:

* Kafka: a `prepare` without effect is made up for after the trigger, behind a fast
  reply (`ArmedReplyUnread` is about the calls that were prepared in time).
* Runs: the replace policy refuses by raising and `_safe_call` swallows it; the
  reports of a dry run are constants, so strict mode cannot fail; the cleanup drops
  any table with "staging" in its name and no main table, and a package it could not
  drop is loaded instead of the source (`ReplaceExact`); the loop that sets variables is
  outside of the `try` that gives them back (`EnvScoped`, `EnvRestored`).
* Setup: environment plugins are loaded by a run but not by validation; structured
  Vault entries and blocks of overrides alone resolve to nothing; the ClickHouse
  check reads variables that `infra run` never sets, raises for a port that is no
  number, and counts as ok then (`OkMeansChecked`); a field with a variable of its own is
  labelled with the prefix of the others (`ProvenanceTrue`).
* Contracts and flags: the project root is never tried for a capture directory,
  the safe iterator of errors is lazy and raises what the validator does, in mode warn
  too (`ModeDecides`), a template may raise, and a `--set` of a
  window's own key keeps its place when the flag overrides it.
* Manifests: the doctor may edit another block's line, lint accepts unknown keys, a
  merge without keys passes a check that takes the disposition for none; `db_schema` in
  the section beside `schema` at the top means one schema in a run and the other in the
  canonical file.
* MongoDB: parallel batches are queries of their own, with no order or ties between
  them (`Agreed`); the projection gets a field `m` instead of the primary key, a filter on
  the cursor's field replaces the incremental one, and the parallel loaders count
  without the caller's filter: documents that come in meanwhile are read by a batch
  that should have been empty, before others that the last value then passes over.
* DAGs: `get_dependents` raises, one requirement per package is kept, a plain
  operator is handed the settings of a virtual environment, a protected file is
  overwritten after it was kept.

### Fairness

* `KafkaJob`: the calling thread runs, `trigger()` comes back (the HTTP client has
  a timeout) and the clock passes `end_time`; each is weak fairness of one action.
  No fairness of brokers or of the service.
* `KafkaBatch`: `RepliesDelivered` is about a caller that does not give up: it
  waits again while a request is open, and a consumer that is polled again and
  again is handed what the brokers have (strong fairness, since deadlines and
  failing polls interrupt both). This is an assumption on the environment.
* `ManifestRun`, `ReplaceLoad`: a started run is executed; nothing forces a run to
  start, to fail or to be killed.
* The other modules state none; no liveness is checked there.

## 4. Proofs

TLAPS proves for all values of the constants:

* `KafkaProofs`, of `KafkaJob`: `JobTypes`, `ArmedRepliesUnread`, `FirstReplies`, for
  any jobs, topics, partitions and records (`WaiterAssumption`, `RunnerAssumption`).
  The invariant `IInv` adds that one call is in progress (`OneCall`), that a record
  with a key is a reply to an accepted request on that job's topic (`Replies`), that
  nothing was sent before a trigger (`Fresh`), and that the consumer stays where it
  was armed until the call ends (`StaysArmed`): `wait_for_key` does not prepare
  again because `prepared` is the topic, no seek is pending, `close` waits for the
  end of the call, and a poll without a match passes no reply. When the request is
  sent there is no reply to it at all, and appending moves nothing that is there.
  Of `KafkaBatch`: `BatchTypes`, `RepliesAreOwn` and `OpenRepliesKept`. The
  invariant `BatchInv` adds that the log has replies to requests that were sent only
  (`SentFirst`) and that a closed request has the record that closed it (`Closed`).
  `BatchArmed` is for `OpenRepliesKept`: once a request is armed the consumer stays
  in position, because all requests of the workflow are on one topic, and every poll
  is for all open requests: so what a poll passes is no reply to an open one, or the
  match that closes its request, or in `dropped`. It needs a waiter with
  `wait_for_any`, as the repository's is, and nothing of the size of polls. That a
  reply is never dropped is false, which `kafka_batch_lost` shows.

* `ManifestProofs`, of `ManifestRun`: `Types`, `EnvironmentScoped`, `PlansDoNotLoad`,
  `AuditIsTruthful`, and `HooksTold`: `ManifestRun` implements `HookProtocol`. The
  requests, variables and values are any sets, the selections any lists of names
  without repetitions (`RunAssumption`: `select_named_extensions` drops them; a hook
  listed twice would write two rows). `EnvironmentScoped` covers loops over the
  environment that are cut off anywhere: what they went over is in `leaked`, all else
  is as it was. The inductive invariant `IInv` adds to the
  properties what is known at each stage (`Course`: nothing has happened while hooks
  are entered; after a success the status is that of the request, and the runner
  returned exactly if no planning flag is set) and that an active run with a row has
  told its audit hook (`RowTold`), so that no second row is written. For the
  refinement, the hooks entered and not told are a prefix of the list, which
  entering extends (`PrefixGrows`) and telling shortens (`PrefixShrinks`).

  Of `ManifestDoctor` and `SqlSource`: `Linted`, `CanonicalLoads` and `FixesLoad`, for
  any source, whatever keys and values its block and its sections have; the run has
  some 1,200 documents. None is about steps: a state of the doctor is any
  file, so what is proved is that the translations compose. The load is read from few
  places, and `Alike` says that two sources agree there: dialect and mode of the
  normalised form, the keys of each gathered section that a load reads, the contract.
  `AlikeLoads` is the heart: a source like one that the parser accepts is accepted and
  loads the same. The rest is that each translation gives a source like the one it was
  given: the dump of the model (`DumpedAlike`; here `SameMode` and `OneSchema` are
  needed, and TLC has a counterexample for each without it), the canonical layout
  (`CanonicalAlike`, key by key from `Canonicalized`), the three fixes (`FixesLoad`).
  `CanonicalLoads` and `FixesLoad` are what `CanonicalKeepsEffect` and
  `ApplyKeepsEffect` say of the source; that the text is read back as that source is
  left to TLC. For `Linted`, the execution manifest is a source of an older kind that
  the normaliser reads back as the same sections (`ExecutesSame`), and the tables the
  replace protection asks for are those of the resource plan (`ExpectsLoaded`).

* `LoadProofs`, of `ReplaceLoad`: `Types`, `ReplaceIsExact`, `AppendsOnce`, `CreatedFirst`,
  and, if the check and the destination compose names alike, `AppendsIfMissing`. The
  invariant adds `Counts`, how often a table can hold the rows of this run at each
  step: the bound 3 in `TypeOK` is no cap, the code repeats its steps no more often.
  `PackagesKnown` says whose package may be pending at each step: one of this run's only
  until it is loaded again, one of an earlier run only if `stale` says so. The lemmas
  `JobIs`, `LoadSucceeded` and `LoadRaised` say what any outcome of dlt does to the
  destination, whichever package it loads.

* `DependencyGraphProofs`: `Types`, `AdjacencyAgrees`, `Validated`,
  `ResultsAreCorrect`. The names are
  any finite set, the lists any sets of names (`GraphAssumption`). A validated
  graph is sound only because the search is: the inductive invariant `IInv` adds
  that the grey nodes are those of the path, each once (`PathGrey`), that all
  dependents of a black node are black (`BlackClosed`), that a dependent of a node
  on the path is black, next on the path or still to be tried (`Tries`), and that
  no set of black nodes depends on itself. A node turns black when nothing is left
  to try: then all its dependents are black, none of its dependencies is, and a set
  of nodes that contains it has a member without dependencies in the set, namely
  this one. When the path is empty and no node is white, all are black.
  `ResultsAreCorrect` rests on a second invariant, `Progress`, of the calls on the
  graph: an in-degree is the number of dependencies that are not placed, the queue
  and the level hold exactly the nodes whose dependencies all are, a path of the
  search is linked, and a closure stays within every closed set. A finite graph in
  which nothing is ready and something is not placed has a cycle: so after a
  validation the sort and the levels place every node, and no error is raised.

* `LineageResolverProofs`: `Types`, `BuildsDeclared`, `BuildsSound`,
  `RebuildsCover`, for any directories, groups, calls and edits. The invariant says
  what the maps are worth between the steps of `build_graph`: as long as the
  directory is what it was when the call began, the map is that of the directory
  and the lists have all members (`MapsCurrent`); before the first edit they have
  nobody else (`ListsUnedited`), which is why a graph after an edit only covers what
  is declared. `GenerationResolves`: with generations in between, the resolver still
  behaves as it does alone. `DirectoryRegenerated`: also for any conventional names,
  tracked files and number of pipelines that a generation skips; the invariant adds
  that a generation has seen no later edit, and that none is complete before the
  first. What a pipeline needs is in every set closed under the dependencies that
  has its own: the visit of `_get_transitive_dependencies` as a set.

* `DagBuildProofs`: `Types`, `LoadsOnlyAsked`, `BuildsAllAsked`,
  `EdgesAreDeclared`, for any directories, requests and finite set of names. The
  calls in progress are of different loaded manifests (`CallsIn`): that is why
  `add_manifest` ends although the files may form a cycle, and it bounds the depth
  by the number of names (the sequence of their files is an injection). `Complete`
  says that nothing is forgotten on the way: every dependency of a loaded manifest
  is loaded or waits in a call (`Tried`), unless the scan has swallowed an exception;
  every requested manifest is loaded or left to add; every manifest the scan wants is
  loaded or not scanned yet. `Wired` says that graph, tasks and edges are made of
  what is loaded. At the end nothing waits, so `loaded` is closed, has all roots, and
  is the least such set, by `LoadsOnlyAsked`.

  Of `TaskBuild`, `TasksImplementBuild`: every step of it is one of `DagBuild` or
  changes nothing of it, which needs that groups are made before tasks and that a
  deploy touches only the cached requirements. So what is proved of the abstract
  build holds of the detailed one (`TasksForAllAsked`, `TaskEdgesDeclared`).
  `TasksAreApart` and `EnvironmentIsOne` rest on `MadeInv`: what an operator got is
  what its own file and the factory's defaults say, the defaults are those that were
  given, since `_build_task_config` pops from a copy, and a task without requirements
  of its own has those the class keeps, or the fallback while it keeps none.

* `RunSetupProofs`: `EnvironmentRestored`, `ProvenanceReported`, `LoginsTogether`,
  `OkIsChecked`, `RunsAsValidated`, for any manifests, plugins, secrets, environments and failures of
  Vault. The invariant `Layered` says that while the pipeline runs, the environment
  is the run's variables over what was put by, and that the pipeline is what is to be
  done next: so no plugin, check or read of Vault comes in between. A loop over the
  variables that is cut off, at either end of the run, leaves what it set among
  `leaked` (`EnterCutStep`), and what is put back differs from what was found there
  and nowhere else (`RestoredAlike`). A secret is from
  the first place that has one (`SecretFrom`), under its overrides; the variables of a
  block, optional ones too, are those of no other block (`Apart`: blocks are of
  different kinds, and no name that Kafka's block sets is one of another, whatever its
  `env_prefix`). The blocks still to come are in `Queued`, each once and none of them
  resolved, and every variable so far is of a resolved block or of the caller's
  (`Owned`); so a block finds none of its own there, and later blocks leave them
  alone (`ResolveBlockKeeps`), which keeps each block to one secret (`Logins`). The
  run's variables cover those that were there. For `OkIsChecked`, `CheckInv` says that
  a program that checks does so last, that no plugin loads once there is an outcome,
  that the registry holds built-in items and what plugins offer, and that of the
  built-in checks only ClickHouse's can have raised, and only with a port set
  (`PortGiven`). For
  `RunsAsValidated`, `SetupInv` says what a registry under construction is worth: no
  plugin has failed exactly when those loaded so far are clean, that is raise nothing
  and share no name with each other or with a built-in item, and then every name
  leads to who offers it (`Loading`, whatever the order of the plugins). The program
  goes through its stages in order, and after validation the hooks and the runner are
  known to be found (`Progress`), so that a registry built anew finds the same.
  Assumed: an
  environment is a mapping, and the mark that none is put by (`Absent`) is not one;
  the built-in checks are the two of `online_checks.py`.

* `LoadProofs`, of `MongoLoad`: `LoadsInOrder` (the invariant), `StayersAreLoaded`,
  `DocumentsOnce`, `NothingIsLeft`, for any places, chunk size, options and writers
  (`MongoAssumption`). First the orders: they are partial, so a row has no rank but two
  counts, the rows that come before it in any case (`Low`) and those that may (`High`,
  `Ranked`); they are equal when no two rows agree in the sorted field (`RankedApart`).
  What a limited query gives, of all that it may, lies between the two (`FrontIs`,
  `FrontHas`, `WindowIs`): a batch gets the rows it is `Sure` of, and of the others
  `Possible` ones. Batches cut the counts into pieces without gap or overlap
  (`BatchesCut`), so every row is sure of a batch and possible in no other when there
  is one batch or no two rows are alike (`BatchesAlone`, `AgreedApart`, `AllSure`);
  and a document that is added last raises no count before it (`RankAdded`,
  `InsertBatches`). The invariant `MongoInv` says that
  stamps only grow and the last value is not ahead of the clock (`Written`), that
  what is to come was not read before (`Fresh`), and that what stays is read or to
  come (`Pending`). `NothingLeftBehind` is about the ends of loads; between them,
  `Ahead`, for each way to read (`AheadOfScan`, `AheadOfSort`, `AheadOfBatches`), says
  that a document the load owes is read, or to come as it is now, or not
  older than anything the load has or will get: the third case is a limit, which cuts
  off the latest documents, and a write after the query has run. It needs that the
  batches do not go past what there is (`CountIs`), which is where the condition on
  the filter of the parallel loaders comes from: without it the proof fails, and TLC
  finds the documents that are left behind.

* `ContractedPullProofs`: `JobsAreExplained`, `ReportIsSeen`, `ModeAlone`,
  `TestedIsAccepted`, `TestsAreStable`, for any configurations, command lines,
  schemas, reports and samples, and any number of retries, polls, runs and edits.
  None of the five is inductive. `PullInv` adds to them that the jobs of a run are
  exactly those that went unheard until an answer is taken (`Counted`: only an answer
  to a request that started a job is taken, `Triggered`); that a poll which ends
  without a payload was not shown one in its last call (`PayloadPolled`); that a run
  which failed with a payload failed because its schema refuses it or the validator
  raises on it (`Refusals`, `Satisfies`), while a passed test has looked at what its schema accepts (`Verdicts`), which gives
  `TestedHolds` although either may be older than the latest edit; and that a contract
  captures where the file's configuration says, whatever `--set` did to its mode
  (`CapturesPlaced`, `BuiltFrom`), so that what lies among the samples are samples
  (`SamplesOnly`) and a test sees the same files as without captures
  (`VerdictOfSamples`). Assumed: which fields a configuration and a sample have
  (`ConfigsAssumption`, `SamplesAssumption`). The proof showed a condition the
  property lacked: a manifest may also list a captured file as a sample of its own.
  `WindowFlagsWin` is for any manifest and any number of `--set` options with keys of
  any length (`ArgumentsAssumption`: they are a sequence, and a flag is given at most
  once, as argparse has it). `specs_to_mapping` and `apply_overrides` go over a
  sequence, and are recursive functions of the index: that such a function exists is
  proved by the least index at which it would not (`Least`, `Following`, `Collecting`),
  and the same argument shows that the mapping before the flags has the keys of `--set`
  alone. A flag's key that is not among them is then appended last (`FlagsLast`), its
  path is the three names (`FlagPaths`), and an override of three names that is applied
  can be read at them, also after one for the sibling (`OverrideThere`,
  `OverrideBeside`): start survives end.

Only model-checked: liveness (`CallsEnd`, `RepliesDelivered`, `RunsEnd`), which
TLAPS cannot do under fairness, nor `ENABLED`; and `FixesStick`, `ApplyKeepsEffect` and
`CanonicalKeepsEffect` of `ManifestDoctor` as far as they are about the text: that the
edits and the rendering, line by line, are read back as the source that was meant.

## 5. Not modelled

* Retention and rebalancing of Kafka topics: the consumer is assigned by hand.
* An empty record value: `run_safe` gives `None` to the contract, as "valid" or
  "invalid" does; `wait_for_any_safe` returns no payload, as for undecodable JSON.
* Several runs in one process at a time: `temporary_environ` is not made for it,
  and the repository runs them one by one (Airflow gives each task a process).
* The content of plans, rows, messages and reports; redaction; metrics. The
  planner's offline checks are called by nothing.
* The check for tables and the destination may compose names differently
  (`common.py:62` reads another variable than `vault_env.py:206` sets). The run
  assumes they agree (`SameNames = TRUE`); `AppendsIfMissing` is proved under it.
* `RecursionError` of the depth-first search on very long chains.
* Which of two variables of a Kafka connection with security settings is sent to the
  library; the port of an endpoint is a number or not.
* The length of a back-off and the clock of a poll: a poll ends by its attempts.
* Schemas of the source kinds other than SQL: they list fields and types. Dialect
  SQL, reflection and the reading of rows are SQLAlchemy's and dlt's.
* MongoDB's conversions of values and projections.
* In the lineage resolver, the texts of its report; in the generator, the settings
  templates copy (schedule, tags, retries); in the DAG builder, the shell commands of
  a virtual environment.
* A manifest that the scan skipped (a structured entry in `depends_on`) stays in the
  DAG without the tasks its groups and paths stand for: `build_graph` passes over
  them ("already resolved in add_manifest", `dependency_resolver.py:146`), but
  `add_manifest` has failed there. `EdgesDeclared` states the rest: edges are never
  invented, and manifests that name pipelines have all of them.
* The scaffold, documentation, repository-split and reporting commands: sequential
  scripts without state of their own, a fifth of the implementation's lines.

## 6. Plan

Done: everything in section 2. What would add most next:

1. `FixesStick` of `ManifestDoctor`, and that an edited text and a rendered one are read
   back as meant, over any texts.
2. `RunSetup` as a refinement of the steps of `ManifestRun` up to its hooks.
