------------------------------ MODULE Extensions ------------------------------
(***************************************************************************)
(* The registries of runners, hooks and infra checks (dltaf/extensions).    *)
(* Each use of one builds it anew: a copy of the process-wide registry of    *)
(* built-in items, to which the plugins of the environment and of the       *)
(* manifest are added one after the other. The validator leaves out the      *)
(* plugins of the environment, a run and the command "infra run" do not.     *)
(*                                                                         *)
(* A plugin is what registering it does: the names it registers, in order,  *)
(* up to Broken, where it raises.                                           *)
(***************************************************************************)
EXTENDS OnlineChecks, SequencesExt

CONSTANTS
  Offers,     \* plugin -> the names it registers
  Broken,     \* not a name
  Builtin,    \* kind -> names
  DefaultHooks,
  Applies,    \* checks of plugins that apply to every manifest
  NotApplying, \* the checks without a method applies
  Setups,     \* a manifest (plugins, only, enable and disable by kind, runner,
              \* the built-in checks that apply, Kafka's servers, connections)
              \* and, by kind, the plugins that the environment names
  None

Kinds == {"runner", "hook", "check"}
Plugins == DOMAIN Offers

ASSUME ExtAssumption ==
  /\ \A p \in Plugins : Offers[p] \in Seq(Range(Offers[p]))
  /\ \A setup \in Setups, k \in Kinds : setup[1].plugins[k] \in Seq(Plugins) /\ setup[2][k] \in Seq(Plugins)

Task(use, kind) == [use |-> use, kind |-> kind]
Validation == <<Task("validate", "hook"), Task("validate", "check"), Task("validate", "runner")>>

VARIABLES
  manifest,   \* the one being worked on
  env,        \* the variables DLT_..._PLUGINS
  todo,       \* tasks ahead, the first one under way
  registry,   \* the fresh one: name -> origin
  pending,    \* plugins to load
  loaded,     \* plugins that loaded
  failed,     \* plugins that raised
  validated,  \* the runner that validation found: its origin
  taken,      \* what the run got: the origins of its runner and hooks
  unrun,      \* selected checks that have not run, None before the selection
  outcome,    \* check -> what came of it
  verdict     \* how the last program ended

buildVars == <<registry, pending, loaded, failed>>
extVars == <<manifest, env, todo, registry, pending, loaded, failed,
             validated, taken, unrun, outcome, verdict>>

-----------------------------------------------------------------------------
(* Which plugins, which names.                                              *)
Specs(use, kind) == (IF use = "run" THEN env[kind] ELSE << >>) \o manifest.plugins[kind]
Named(kind) == manifest.only[kind] \cup manifest.enable[kind] \cup manifest.disable[kind]
Configured(kind) == manifest.plugins[kind] # << >> \/ Named(kind) # {}
Selected(kind, standard) ==
  IF manifest.only[kind] # {} THEN manifest.only[kind]
  ELSE (standard \ manifest.disable[kind]) \cup manifest.enable[kind]

(* Fault: a name that is taken is registered anyway.                         *)
RegisteredTaken(plugin) ==
  LET names == Offers[plugin] IN {m \in DOMAIN names : \A i \in 1..m : names[i] # Broken}

(* A plugin registers its names up to the first that is taken: their places. *)
Registered(plugin) ==
  LET names == Offers[plugin]
      fresh(i) == names[i] # Broken /\ names[i] \notin DOMAIN registry /\ \A j \in 1..(i - 1) : names[j] # names[i]
  IN  {m \in DOMAIN names : \A i \in 1..m : fresh(i)}
(* merge_unique: one that is named again is not loaded again.                *)
Again(plugin) == plugin \in loaded \cup failed
With(names, origin) ==
  [n \in DOMAIN registry \cup names |-> IF n \in DOMAIN registry THEN registry[n] ELSE origin]

Here(use, kinds) == todo # << >> /\ Head(todo) \in {Task(use, k) : k \in kinds}
Kind == Head(todo).kind
Checking == todo # << >> /\ Kind = "check" /\ Head(todo).use # "validate"
Built == registry # None /\ pending = << >>
Done == todo' = Tail(todo) /\ registry' = None /\ UNCHANGED <<pending, loaded, failed>>
Refuse ==
  /\ todo' = << >> /\ registry' = None /\ verdict' = "refused"
  /\ UNCHANGED <<manifest, env, pending, loaded, failed, validated, taken, unrun, outcome>>

-----------------------------------------------------------------------------
ExtInit ==
  /\ \E setup \in Setups : manifest = setup[1] /\ env = setup[2]
  /\ todo = << >> /\ verdict = "none"
  /\ registry = None /\ pending = << >> /\ loaded = {} /\ failed = {}
  /\ validated = "none" /\ taken = {} /\ unrun = None /\ outcome = << >>

Start(program) ==
  /\ todo = << >> /\ todo' = program
  /\ verdict' = "none" /\ validated' = "none" /\ taken' = {} /\ unrun' = None /\ outcome' = << >>
  /\ UNCHANGED <<manifest, env, buildVars>>

(* The validator builds no registry for a section the manifest has not.      *)
SkipSection ==
  /\ Here("validate", {"hook", "check"}) /\ registry = None /\ ~Configured(Kind)
  /\ todo' = Tail(todo)
  /\ UNCHANGED <<manifest, env, buildVars, validated, taken, unrun, outcome, verdict>>

Build ==
  /\ todo # << >> /\ Kind \in Kinds /\ registry = None
  /\ Here("validate", {"hook", "check"}) => Configured(Kind)
  /\ registry' = [n \in Builtin[Kind] |-> "builtin"]
  /\ pending' = Specs(Head(todo).use, Kind) /\ loaded' = {} /\ failed' = {}
  /\ UNCHANGED <<manifest, env, todo, validated, taken, unrun, outcome, verdict>>

LoadPlugin ==
  /\ registry # None /\ pending # << >>
  /\ LET plugin == Head(pending)
         at == Registered(plugin)
     IN  \/ Again(plugin) /\ UNCHANGED <<registry, loaded, failed>>
         \/ /\ ~Again(plugin)
            /\ registry' = With({Offers[plugin][n] : n \in at}, plugin)
            /\ IF at = DOMAIN Offers[plugin]
               THEN loaded' = loaded \cup {plugin} /\ UNCHANGED failed
               ELSE failed' = failed \cup {plugin} /\ UNCHANGED loaded
  /\ pending' = Tail(pending)
  /\ UNCHANGED <<manifest, env, todo, validated, taken, unrun, outcome, verdict>>

(* run.hooks and run.online_checks name only what is registered.             *)
ValidateSection ==
  /\ Here("validate", {"hook", "check"}) /\ Built
  /\ IF failed = {} /\ Named(Kind) \subseteq DOMAIN registry
     THEN Done /\ UNCHANGED <<manifest, env, validated, taken, unrun, outcome, verdict>>
     ELSE Refuse

(* The runner is found and its own validate does not raise.                  *)
ValidateRunner ==
  /\ Here("validate", {"runner"}) /\ Built
  /\ \/ /\ failed = {} /\ manifest.runner \in DOMAIN registry
        /\ validated' = registry[manifest.runner]
        /\ Done /\ UNCHANGED <<manifest, env, taken, unrun, outcome, verdict>>
     \/ Refuse

GetRunner ==
  /\ Here("run", {"runner"}) /\ Built
  /\ IF failed = {} /\ manifest.runner \in DOMAIN registry
     THEN /\ taken' = {registry[manifest.runner]}
          /\ Done /\ UNCHANGED <<manifest, env, validated, unrun, outcome, verdict>>
     ELSE Refuse

BuildHooks ==
  /\ Here("run", {"hook"}) /\ Built
  /\ LET names == Selected("hook", DefaultHooks \cap DOMAIN registry)
     IN  IF failed = {} /\ names \subseteq DOMAIN registry
         THEN /\ taken' = taken \cup {registry[n] : n \in names}
              /\ Done /\ UNCHANGED <<manifest, env, validated, unrun, outcome, verdict>>
         ELSE Refuse

-----------------------------------------------------------------------------
(* infra run: --only names the checks, or the manifest selects them. Asking   *)
(* a check without applies raises.                                           *)
SelectChecks ==
  /\ Checking /\ Built /\ unrun = None
  /\ \/ /\ \E only \in SUBSET (DOMAIN registry \cup Named("check")) : only # {} /\ unrun' = only
        /\ UNCHANGED <<manifest, env, todo, buildVars, validated, taken, outcome, verdict>>
     \/ /\ NotApplying \cap DOMAIN registry = {}
        /\ unrun' = Selected("check", (Applies \cup manifest.applies) \cap DOMAIN registry)
        /\ UNCHANGED <<manifest, env, todo, buildVars, validated, taken, outcome, verdict>>
     \/ NotApplying \cap DOMAIN registry # {} /\ Refuse

(* run_infra_checks: one after the other; found is what a built-in one finds. *)
RunCheck(found) ==
  /\ Checking /\ Built /\ unrun \notin {None, {}}
  /\ LET name == CHOOSE n \in unrun : TRUE
         results == CASE name \notin DOMAIN registry -> {Other("unknown")}
                      [] name \in DOMAIN registry \cap Builtin["check"] ->
                           {Reported(r) : r \in found[name]}
                      [] OTHER -> {Other(c) : c \in {"clean", "warned", "failed", "raised"}}
     IN
       /\ unrun' = unrun \ {name}
       /\ \E result \in results :
            outcome' = [n \in DOMAIN outcome \cup {name} |-> IF n = name THEN result ELSE outcome[n]]
  /\ UNCHANGED <<manifest, env, todo, buildVars, validated, taken, verdict>>

Came(class) == {n \in DOMAIN outcome : outcome[n].class = class}
(* Fault: the report forgets the plugins that failed.                        *)
ErrorsOfChecks == {Came("unknown") \cup Came("failed")}

(* A built-in check finds nothing to report in the record of its exception;  *)
(* what a plugin's check makes of it is its own affair.                      *)
Errors ==
  LET raised == {n \in Came("raised") : registry[n] # "builtin"}
      fixed == failed \cup Came("unknown") \cup Came("failed")
  IN  {fixed \cup seen : seen \in SUBSET raised}

EvaluateChecks ==
  /\ Checking /\ Built /\ unrun = {}
  /\ \E errors \in Errors, strict \in BOOLEAN :
       verdict' = IF errors = {} /\ (strict => Came("warned") = {}) THEN "ok" ELSE "not_ok"
  /\ todo' = Tail(todo) /\ registry' = None
  /\ UNCHANGED <<manifest, env, pending, loaded, failed, validated, taken, unrun, outcome>>

ExtNext ==
  \/ SkipSection \/ Build \/ LoadPlugin
  \/ ValidateSection \/ ValidateRunner \/ GetRunner \/ BuildHooks
  \/ SelectChecks \/ EvaluateChecks
===============================================================================
