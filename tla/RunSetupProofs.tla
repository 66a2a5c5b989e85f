---------------------------- MODULE RunSetupProofs -----------------------------
(***************************************************************************)
(* What holds of RunSetup for any manifests, plugins, secrets and            *)
(* environments: a run leaves the variables of the process as it found them, *)
(* logs in with one secret, and reports truly where its values are from; it  *)
(* takes the runner and the hooks that were validated; and the checks say ok *)
(* only when they were done.                                                 *)
(***************************************************************************)
EXTENDS Integers, RunSetup, SequenceTheorems, TLAPS

(* An environment is a function; the mark of "outside of a run" is none.    *)
IsEnv(e) == e = [v \in DOMAIN e |-> e[v]]
Scoped == Here("scope", {"pipeline"})

(* While the pipeline runs, what temporary_environ has put by is the        *)
(* environment as it was, under the variables of the run.                   *)
Layered ==
  saved # Absent => IsEnv(saved) /\ environ = Overlay(resolved, saved) /\ Scoped

IInv == IsEnv(environ) /\ Layered

Restores ==
  IF saved # Absent /\ saved' = Absent THEN Alike(environ', saved, leaked')
  ELSE saved' = Absent => Alike(environ', environ, VaultNames \cup leaked')

-------------------------------------------------------------------------------
LEMMA OverlayIsEnv == ASSUME NEW f, NEW g PROVE IsEnv(Overlay(f, g))
BY DEF IsEnv, Overlay

(* A task that is not of the registries' is left alone by them.             *)
LEMMA NoOtherTask == ASSUME Scoped PROVE /\ todo # << >> /\ Head(todo).kind = "pipeline" /\ Head(todo).use = "scope"
BY DEF Scoped, Here, Task

LEMMA ScopeKept == ASSUME Scoped, ExtNext PROVE Scoped'
<1>1. todo # << >> /\ Head(todo).kind = "pipeline" /\ Head(todo).use = "scope"
  BY NoOtherTask
<1>2. ~Checking /\ Kind \notin Kinds
  BY <1>1 DEF Checking, Kind, Kinds
<1>3. /\ ~Here("validate", {"hook", "check"}) /\ ~Here("validate", {"runner"})
      /\ ~Here("run", {"runner"}) /\ ~Here("run", {"hook"})
  BY <1>1 DEF Here, Task
<1>4. LoadPlugin
  BY <1>2, <1>3 DEF ExtNext, SkipSection, Build, ValidateSection, ValidateRunner, GetRunner,
     BuildHooks, SelectChecks, EvaluateChecks
<1>5. todo' = todo
  BY <1>4 DEF LoadPlugin
<1> QED BY <1>5 DEF Scoped, Here

(* Reading Vault adds one of its own variables.                             *)
LEMMA ReadAdds ==
  ASSUME IsEnv(environ), NEW spec, environ' = AfterRead(spec)
  PROVE  IsEnv(environ') /\ Alike(environ', environ, VaultNames)
<1>1. CASE environ' = environ
  BY <1>1 DEF Alike
<1>2. CASE environ' # environ
  <2> DEFINE address == environ[CHOOSE m \in VaultNames : m \in DOMAIN environ]
             added == [n \in VaultNames |-> address]
  <2>1. environ' = Overlay(environ, added)
    BY <1>2 DEF AfterRead, Aligned
  <2>2. DOMAIN added = VaultNames
    OBVIOUS
  <2> HIDE DEF added
  <2>3. /\ DOMAIN environ' = DOMAIN environ \cup VaultNames
        /\ \A v \in DOMAIN environ : environ'[v] = environ[v]
    BY <2>1, <2>2 DEF Overlay
  <2> QED BY <2>1, <2>3, OverlayIsEnv DEF Alike
<1> QED BY <1>1, <1>2

-------------------------------------------------------------------------------
LEMMA OutsideStep ==
  ASSUME IInv, UNCHANGED <<saved, environ, resolved>>, saved = Absent
  PROVE  IInv' /\ Restores
BY DEF IInv, Layered, IsEnv, Restores, Alike

LEMMA InsideStep ==
  ASSUME IInv, UNCHANGED <<saved, environ, resolved>>, Scoped => Scoped'
  PROVE  IInv' /\ Restores
BY DEF IInv, Layered, IsEnv, Restores, Overlay, Alike

LEMMA NotScoped == ASSUME IInv, ~Scoped PROVE saved = Absent
BY DEF IInv, Layered

LEMMA ResolveStep == ASSUME IInv, Resolve PROVE IInv' /\ Restores
<1>1. ~Scoped
  BY NoOtherTask DEF Resolve, Resolving, Here, Task
<1>2. saved = Absent /\ saved' = saved
  BY <1>1, NotScoped DEF Resolve, ResolveBlock, ResolveRaises
<1>3. environ' = environ \/ \E spec : environ' = AfterRead(spec)
  BY DEF Resolve, ResolveBlock, ResolveRaises
<1>4. IsEnv(environ') /\ Alike(environ', environ, VaultNames \cup leaked')
  BY <1>3, ReadAdds DEF IInv, Alike
<1> QED BY <1>2, <1>4 DEF IInv, Layered, Restores, IsEnv

LEMMA EnterStep == ASSUME IInv, ~IsEnv(Absent), Enter PROVE IInv' /\ Restores
<1>1. /\ Scoped /\ saved = Absent /\ saved' = environ /\ environ' = Overlay(resolved, environ)
      /\ resolved' = resolved /\ todo' = todo
  BY DEF Enter, EnterScope, extVars, Scoped
<1>2. saved' # Absent
  BY <1>1 DEF IInv
<1>3. IsEnv(environ)' /\ IsEnv(saved)'
  BY <1>1, OverlayIsEnv DEF IInv, IsEnv
<1>4. Scoped'
  BY <1>1 DEF Scoped, Here
<1> QED BY <1>1, <1>2, <1>3, <1>4 DEF IInv, Layered, Restores, Overlay

(* A loop that is cut off on the way in sets what it came to, and no more.  *)
LEMMA EnterCutStep == ASSUME IInv, EnterRaises PROVE IInv' /\ Restores
<1>1. PICK begun \in Begun :
        /\ environ' = Overlay([v \in DOMAIN resolved \cap begun |-> resolved[v]], environ)
        /\ leaked' = DOMAIN resolved \cap begun
  BY DEF EnterRaises, EnterCut
<1>2. saved = Absent /\ saved' = Absent
  BY DEF EnterRaises, EnterCut
<1>3. IsEnv(environ)'
  BY <1>1, OverlayIsEnv DEF IsEnv
<1>4. Alike(environ', environ, VaultNames \cup leaked')
  BY <1>1 DEF Alike, Overlay
<1> QED BY <1>2, <1>3, <1>4 DEF IInv, Layered, Restores

(* What is put back comes back as it was, what the run added goes.          *)
LEMMA RestoredAlike ==
  ASSUME NEW back, back \subseteq DOMAIN resolved, environ = Overlay(resolved, saved)
  PROVE  IsEnv(Restored(back)) /\ Alike(Restored(back), saved, DOMAIN resolved \ back)
<1>1. /\ DOMAIN environ = DOMAIN resolved \cup DOMAIN saved
      /\ \A v \in DOMAIN saved : v \notin DOMAIN resolved => environ[v] = saved[v]
  BY DEF Overlay
<1>2. Restored(back) = [v \in (DOMAIN environ \ back) \cup (DOMAIN saved \cap back) |->
                          IF v \in back THEN saved[v] ELSE environ[v]]
  BY DEF Restored
<1> QED BY <1>1, <1>2 DEF IsEnv, Alike

LEMMA LeaveStep == ASSUME IInv, Leave PROVE IInv' /\ Restores
<1>1. saved # Absent /\ saved' = Absent
  BY DEF Leave, LeaveScope, LeaveCut
<1>2. environ = Overlay(resolved, saved)
  BY <1>1 DEF IInv, Layered
<1>3. IsEnv(environ') /\ Alike(environ', saved, leaked')
  <2>1. CASE LeaveScope
    <3>1. environ' = Restored(DOMAIN resolved)
      BY <2>1 DEF LeaveScope
    <3>2. IsEnv(environ') /\ Alike(environ', saved, DOMAIN resolved \ DOMAIN resolved)
      BY <1>2, <3>1, RestoredAlike
    <3> QED BY <3>2 DEF Alike
  <2>2. CASE LeaveCut
    <3>1. PICK rest \in Rest :
            environ' = Restored(DOMAIN resolved \ rest) /\ leaked' = DOMAIN resolved \cap rest
      BY <2>2 DEF LeaveCut
    <3>2. IsEnv(environ') /\ Alike(environ', saved, DOMAIN resolved \ (DOMAIN resolved \ rest))
      BY <1>2, <3>1, RestoredAlike
    <3> QED BY <3>1, <3>2 DEF Alike
  <2> QED BY <2>1, <2>2 DEF Leave
<1> QED BY <1>1, <1>3 DEF IInv, Layered, Restores, IsEnv

LEMMA StepIInv == ASSUME ~IsEnv(Absent), IInv, Next PROVE IInv' /\ Restores
<1>1. CASE StartProgram
  <2>1. ~Scoped /\ UNCHANGED <<saved, environ>> /\ saved = Absent
    BY <1>1, NotScoped, NoOtherTask DEF StartProgram, Start, StartResolving
  <2> QED BY <2>1 DEF IInv, Layered, Restores, IsEnv, Alike
<1>2. CASE Prepare
  BY <1>2, ScopeKept, InsideStep DEF Prepare, connVars
<1>3. CASE Check
  <2>1. todo' = todo /\ UNCHANGED <<saved, environ, resolved>>
    BY <1>3 DEF Check, RunCheck, connVars
  <2> QED BY <2>1, InsideStep DEF Scoped, Here
<1>4. CASE Resolve
  BY <1>4, ResolveStep
<1>5. CASE VaultChanges
  <2>1. todo' = todo /\ UNCHANGED <<saved, environ, resolved>>
    BY <1>5 DEF VaultChanges, VaultTurns, extVars
  <2> QED BY <2>1, InsideStep DEF Scoped, Here
<1>6. CASE Resolved
  <2>1. ~Scoped /\ UNCHANGED <<saved, environ, resolved>>
    BY <1>6, NoOtherTask DEF Resolved, Resolving, Here, Task, connVars
  <2> QED BY <2>1, NotScoped, OutsideStep
<1>7. CASE Extra
  <2>1. ~Scoped /\ UNCHANGED <<saved, environ>>
    BY <1>7, NoOtherTask DEF Extra, AddExtra, Here, Task
  <2>2. saved = Absent
    BY <2>1, NotScoped
  <2> QED BY <2>1, <2>2 DEF IInv, Layered, Restores, IsEnv, Alike
<1>8. CASE Enter
  BY <1>8, EnterStep
<1>9. CASE Leave
  BY <1>9, LeaveStep
<1>10. CASE EnterRaises
  BY <1>10, EnterCutStep
<1> QED BY <1>1, <1>2, <1>3, <1>4, <1>5, <1>6, <1>7, <1>8, <1>9, <1>10 DEF Next

LEMMA StepOrStutter == ASSUME ~IsEnv(Absent), IInv, [Next]_vars PROVE IInv' /\ [Restores]_vars
<1>1. CASE Next
  BY <1>1, StepIInv
<1>2. CASE UNCHANGED vars
  <2>1. UNCHANGED <<environ, resolved, saved, todo>>
    BY <1>2 DEF vars, extVars, connVars
  <2> QED BY <1>2, <2>1 DEF IInv, Layered, IsEnv, Scoped, Here, Overlay
<1> QED BY <1>1, <1>2

(* A run leaves the environment as it found it, and outside of a run nothing *)
(* sets a variable but the two names of Vault's address, for any manifest,   *)
(* secrets and failures, but for what a loop of temporary_environ that was   *)
(* cut off in that run had set or had still to give back (vault_env.py); an  *)
(* environment is a mapping, and the mark that none is put by is not one.    *)
THEOREM EnvironmentRestored ==
  ASSUME ~IsEnv(Absent), \A e \in Ambient : IsEnv(e)
  PROVE  Spec => EnvRestored
<1>1. Init => IInv
  BY DEF Init, ConnInit, IInv, Layered
<1>2. IInv /\ [Next]_vars => IInv' /\ [Restores]_vars
  BY StepOrStutter
<1>3. [Restores]_vars <=>
        [IF saved # Absent /\ saved' = Absent THEN Alike(environ', saved, leaked')
         ELSE saved' = Absent => Alike(environ', environ, VaultNames \cup leaked')]_vars
  BY DEF Restores
<1> QED BY <1>1, <1>2, <1>3, PTL DEF Spec, EnvRestored
-------------------------------------------------------------------------------
(* Where the values of a secret are from.                                   *)
Spread(secret, places) == \A k \in DOMAIN secret : secret[k] \in places \cup {Blank}

LEMMA FirstOf ==
  ASSUME NEW u, NEW v, NEW w, NEW x, NEW y, NEW z,
         u \in {<< >>, <<x>>}, v \in {<< >>, <<y>>}, w \in {<< >>, <<z>>}
  PROVE  /\ u \o v \o w # << >> <=> u # << >> \/ v # << >> \/ w # << >>
         /\ u # << >> => Head(u \o v \o w) = x
         /\ u = << >> /\ v # << >> => Head(u \o v \o w) = y
         /\ u = << >> /\ v = << >> /\ w # << >> => Head(u \o v \o w) = z
<1> DEFINE S == {x, y, z}
<1>1. u \in Seq(S) /\ v \in Seq(S) /\ w \in Seq(S)
  <2>1. << >> \in Seq(S) /\ \A a \in S : <<a>> \in Seq(S)
    OBVIOUS
  <2>2. <<x>> \in Seq(S) /\ <<y>> \in Seq(S) /\ <<z>> \in Seq(S)
    BY <2>1
  <2> QED BY <2>1, <2>2
<1>2. u \o v \in Seq(S)
  BY <1>1
<1>3. CASE u = << >> /\ v = << >>
  <2>1. u \o v \o w = w
    BY <1>1, <1>3
  <2> QED BY <1>3, <2>1
<1>4. CASE u = << >> /\ v = <<y>>
  <2>1. u \o v = v
    BY <1>1, <1>4
  <2>2. Len(v \o w) >= 1 /\ (v \o w)[1] = y /\ v \o w \in Seq(S)
    BY <1>1, <1>4
  <2> QED BY <1>4, <2>1, <2>2
<1>5. CASE u = <<x>>
  <2>1. u \o v \in Seq(S) /\ Len(u \o v) >= 1 /\ (u \o v)[1] = x
    BY <1>1, <1>5
  <2>2. Len(u \o v \o w) >= 1 /\ (u \o v \o w)[1] = x /\ u \o v \o w \in Seq(S)
    BY <1>1, <2>1
  <2> QED BY <1>5, <2>2
<1> QED BY <1>3, <1>4, <1>5

(* A secret that was found is from one place, its mapped variables counted   *)
(* with it, under the overrides.                                            *)
LEMMA SecretFrom ==
  ASSUME NEW spec, Secret(spec) # << >>
  PROVE  \E s : /\ Head(Secret(spec)) = Overridden(s, spec.overrides)
                /\ Spread(s, PlacesOf(spec, Place(spec)))
<1> DEFINE prefix == IF spec.prefix = Absent THEN DefaultPrefix(spec) ELSE spec.prefix
           u == VaultSecret(spec)
           v == JsonSecret(spec)
           w == FieldsSecret(spec)
           x == From(<<"vault", spec.vault.ref>>, Vault[spec.vault.ref])
           y == From(<<"json", spec.json>>, AirflowJson[spec.json])
           found == u \o v \o w
<1>1. u \in {<< >>, <<x>>}
  BY DEF VaultSecret
<1>2. v \in {<< >>, <<y>>}
  BY DEF JsonSecret
<1>3. PICK z : w \in {<< >>, <<z>>} /\ Spread(z, PlacesOf(spec, <<"fields", prefix>>))
  <2> DEFINE there == {f \in AirflowFields(spec.kind) :
                  IF f \in DOMAIN spec.mapped THEN spec.mapped[f]
                  ELSE prefix \in DOMAIN AirflowVars /\ f \in AirflowVars[prefix]}
             t == [f \in there |-> IF f \in DOMAIN spec.mapped THEN <<"variable", f>> ELSE <<"fields", prefix>>]
  <2>1. w \in {<< >>, <<t>>}
    BY DEF FieldsSecret
  <2>2. Spread(t, PlacesOf(spec, <<"fields", prefix>>))
    BY DEF Spread, PlacesOf
  <2> QED BY <2>1, <2>2
<1>4. Spread(x, PlacesOf(spec, <<"vault", spec.vault.ref>>)) /\ Spread(y, PlacesOf(spec, <<"json", spec.json>>))
  BY DEF Spread, From, PlacesOf
<1>5. found # << >> /\ Secret(spec) = <<Overridden(Head(found), spec.overrides)>>
  BY DEF Secret
<1>6. Head(Secret(spec)) = Overridden(Head(found), spec.overrides)
  BY <1>5
<1>7. Spread(Head(found), PlacesOf(spec, Place(spec)))
  <2> HIDE DEF x, y, u, v, w
  <2>1. CASE u # << >>
    <3>1. Place(spec) = <<"vault", spec.vault.ref>> /\ Head(found) = x
      BY <1>1, <1>2, <1>3, <2>1, FirstOf DEF Place, u
    <3> QED BY <1>4, <3>1
  <2>2. CASE u = << >> /\ v # << >>
    <3>1. Place(spec) = <<"json", spec.json>> /\ Head(found) = y
      BY <1>1, <1>2, <1>3, <2>2, FirstOf DEF Place, u, v
    <3> QED BY <1>4, <3>1
  <2>3. CASE u = << >> /\ v = << >>
    <3>1. w # << >>
      BY <1>1, <1>2, <1>3, <1>5, <2>3, FirstOf
    <3>2. Place(spec) = <<"fields", prefix>> /\ Head(found) = z
      BY <1>1, <1>2, <1>3, <2>3, <3>1, FirstOf DEF Place, u, v
    <3> QED BY <1>3, <3>2
  <2> QED BY <2>1, <2>2, <2>3
<1> QED BY <1>6, <1>7

LEMMA OverriddenFrom ==
  ASSUME NEW s, NEW places, Spread(s, places), NEW overrides
  PROVE  Spread(Overridden(s, overrides),
                places \cup (IF DOMAIN overrides # {} THEN {At("override")} ELSE {}))
BY DEF Spread, Overridden, Overlay, From

(* What is taken from a secret is from its places.                          *)
LEMMA TakenFrom ==
  ASSUME NEW secret, NEW places, Spread(secret, places), NEW keys
  PROVE  Taken(secret, keys) \subseteq places
<1>1. \A k : Given(secret, k) => secret[k] \in places
  BY DEF Given, Spread
<1> QED BY <1>1 DEF Taken

LEMMA MadeFrom ==
  ASSUME NEW secret, NEW places, Spread(secret, places), NEW kind, NEW f \in DOMAIN Aliases[kind]
  PROVE  Made(kind, secret)[f] \subseteq places
<1>1. \A k : Given(secret, k) => secret[k] \in places
  BY DEF Given, Spread
<1>2. MongoUrl(secret) \subseteq places
  <2> DEFINE url == Taken(secret, MongoAliases.connection_url)
             login == IF Given(secret, "user") /\ Given(secret, "password") THEN {"user", "password"} ELSE {}
             parts == {"host"} \cup login \cup ({"port", "database"} \cap {k \in DOMAIN secret : Given(secret, k)})
  <2>1. url \subseteq places
    BY TakenFrom
  <2>2. ASSUME Given(secret, "host"), NEW k \in parts PROVE secret[k] \in places
    BY <1>1, <2>2
  <2>3. MongoUrl(secret) = IF url # {} \/ ~Given(secret, "host") THEN url ELSE {secret[k] : k \in parts}
    BY DEF MongoUrl
  <2> HIDE DEF url, parts
  <2> QED BY <2>1, <2>2, <2>3
<1>3. Made(kind, secret)[f] \in {MongoUrl(secret), Taken(secret, Aliases[kind][f])}
  BY DEF Made
<1> QED BY <1>2, <1>3, TakenFrom

(* The variables of a secret.                                               *)
LEMMA EnvFrom ==
  ASSUME NEW spec, NEW secret, NEW places, Spread(secret, places)
  PROVE  /\ \A v \in DOMAIN EnvOf(spec, secret) : \E f \in DOMAIN Aliases[spec.kind] :
              /\ v = Variable(spec, f)
              /\ \/ /\ EnvOf(spec, secret)[v] = {At("default")} /\ Made(spec.kind, secret)[f] = {}
                    /\ f \in Defaulted[spec.kind]
                 \/ EnvOf(spec, secret)[v] = Made(spec.kind, secret)[f] /\ EnvOf(spec, secret)[v] \subseteq places
         /\ \A f \in DOMAIN Aliases[spec.kind] : Made(spec.kind, secret)[f] # {} =>
              /\ Variable(spec, f) \in DOMAIN EnvOf(spec, secret)
              /\ EnvOf(spec, secret)[Variable(spec, f)] \subseteq places
<1> DEFINE made == Made(spec.kind, secret)
           set == {f \in DOMAIN made : made[f] # {} \/ f \in Defaulted[spec.kind]}
           e == EnvOf(spec, secret)
<1>1. e = [v \in {Variable(spec, f) : f \in set} |-> IF made[v[2]] = {} THEN {At("default")} ELSE made[v[2]]]
  BY DEF EnvOf
<1>2. \A f : Variable(spec, f)[2] = f
  BY DEF Variable
<1>3. DOMAIN made = DOMAIN Aliases[spec.kind]
  BY DEF Made
<1>4. \A f \in DOMAIN Aliases[spec.kind] : made[f] \subseteq places
  BY MadeFrom
<1> HIDE DEF made, e
<1>5. \A f \in set : e[Variable(spec, f)] = IF made[f] = {} THEN {At("default")} ELSE made[f]
  BY <1>1, <1>2
<1>6. DOMAIN e = {Variable(spec, f) : f \in set}
  BY <1>1
<1>7. ASSUME NEW v \in DOMAIN e
      PROVE  \E f \in DOMAIN Aliases[spec.kind] :
              /\ v = Variable(spec, f)
              /\ \/ e[v] = {At("default")} /\ made[f] = {} /\ f \in Defaulted[spec.kind]
                 \/ e[v] = made[f] /\ e[v] \subseteq places
  <2>1. PICK f \in set : v = Variable(spec, f)
    BY <1>6
  <2> QED BY <1>3, <1>4, <1>5, <2>1
<1>8. ASSUME NEW f \in DOMAIN Aliases[spec.kind], made[f] # {}
      PROVE  Variable(spec, f) \in DOMAIN e /\ e[Variable(spec, f)] \subseteq places
  BY <1>3, <1>4, <1>5, <1>6, <1>8
<1> QED BY <1>7, <1>8 DEF made, e

-------------------------------------------------------------------------------
LEMMA OnlyClickHouse ==
  ASSUME NEW kind \in DOMAIN Aliases, "dataset_table_separator" \in DOMAIN Aliases[kind]
  PROVE  kind = "clickhouse"
<1>1. kind \in {"sql", "clickhouse", "mongodb", "keycloak", "kafka"}
  BY DEF Aliases
<1>2. CASE kind = "sql"
  <2>1. Aliases[kind] = SqlAliases
    BY <1>2 DEF Aliases
  <2> QED BY <2>1 DEF SqlAliases
<1>3. CASE kind = "mongodb"
  <2>1. Aliases[kind] = MongoAliases
    BY <1>3 DEF Aliases
  <2> QED BY <2>1 DEF MongoAliases
<1>4. CASE kind = "keycloak"
  <2>1. Aliases[kind] = KeycloakAliases
    BY <1>4 DEF Aliases
  <2> QED BY <2>1 DEF KeycloakAliases
<1>5. CASE kind = "kafka"
  <2>1. Aliases[kind] = KafkaAliases
    BY <1>5 DEF Aliases
  <2> QED BY <2>1 DEF KafkaAliases
<1> QED BY <1>1, <1>2, <1>3, <1>4, <1>5

-------------------------------------------------------------------------------
(* What a label says of the places of a value, and that it says so truly.   *)
Admits(l) ==
  {l.place, At("default")} \cup (IF l.plus THEN {At("override")} ELSE {})
                            \cup (IF l.place[1] = "fields" THEN OwnVariables ELSE {})
Labelled(env0, labels0) ==
  DOMAIN labels0 = DOMAIN env0 /\ \A v \in DOMAIN labels0 : env0[v] \subseteq Admits(labels0[v])

LEMMA LabelsTrue ==
  ASSUME NEW spec, spec.kind \in DOMAIN Aliases, Secret(spec) # << >>,
         {<<"variable", f>> : f \in DOMAIN spec.mapped} \subseteq OwnVariables
  PROVE  Labelled(EnvOf(spec, Head(Secret(spec))), LabelsOf(spec, Head(Secret(spec))))
<1> DEFINE secret == Head(Secret(spec))
           place == Place(spec)
           plus == DOMAIN spec.overrides # {}
           own == PlacesOf(spec, place)
           places == own \cup (IF plus THEN {At("override")} ELSE {})
           e == EnvOf(spec, secret)
           l == LabelsOf(spec, secret)
<1>1. PICK s : secret = Overridden(s, spec.overrides) /\ Spread(s, own)
  BY SecretFrom
<1>o. own \subseteq {place} \cup (IF place[1] = "fields" THEN OwnVariables ELSE {})
  BY DEF PlacesOf
<1>2. Spread(secret, places)
  BY <1>1, OverriddenFrom
<1>3. DOMAIN l = DOMAIN e
  BY DEF LabelsOf
<1>4. \A k : Given(spec.overrides, k) => k \in DOMAIN secret /\ secret[k] = At("override")
  BY <1>1 DEF Given, Overridden, Overlay, From
<1>5. \A k : ~Given(spec.overrides, k) /\ Given(secret, k) => secret[k] \in own
  <2> HIDE DEF own
  <2> QED BY <1>1 DEF Given, Overridden, Overlay, From, Spread
<1> HIDE DEF secret, own
<1>6. ASSUME NEW v \in DOMAIN e
      PROVE  e[v] \subseteq Admits(l[v])
  <2> DEFINE f == v[2]
  <2>1. /\ f \in DOMAIN Aliases[spec.kind]
        /\ \/ e[v] = {At("default")}
           \/ e[v] = Made(spec.kind, secret)[f] /\ e[v] \subseteq places
    BY <1>2, EnvFrom DEF Variable
  <2>2. l[v] = LabelOf(spec, secret, f)
    BY <1>3 DEF LabelsOf
  <2>3. CASE e[v] = {At("default")}
    BY <2>3 DEF Admits
  <2> SUFFICES ASSUME e[v] = Made(spec.kind, secret)[f], e[v] \subseteq places
               PROVE  e[v] \subseteq Admits(l[v])
    BY <2>1, <2>3
  <2> HIDE DEF e, l, f, place
  <2>4. CASE spec.kind = "clickhouse" /\ f \in {"database", "dataset_table_separator"} /\ Given(spec.overrides, f)
    <3>1. l[v] = Label(At("override"), FALSE)
      BY <2>2, <2>4 DEF LabelOf
    <3>2. e[v] = Taken(secret, <<f>>)
      <4>1. Aliases["clickhouse"] = ClickHouseAliases
        BY DEF Aliases
      <4>2. ClickHouseAliases.database = <<"database">>
            /\ ClickHouseAliases.dataset_table_separator = <<"dataset_table_separator">>
        BY DEF ClickHouseAliases
      <4>3. Aliases[spec.kind][f] = <<f>>
        BY <2>4, <4>1, <4>2
      <4> QED BY <2>1, <2>4, <4>3 DEF Made
    <3>3. e[v] \subseteq {secret[f]}
      BY <3>2 DEF Taken
    <3> QED BY <1>4, <2>4, <3>1, <3>3 DEF Label, Admits
  <2>5. CASE f = "dataset_table_separator" /\ ~Given(spec.overrides, f)
    <3>1. l[v] = Label(IF Given(secret, f) THEN place ELSE At("default"), FALSE)
      BY <2>2, <2>5 DEF LabelOf, place
    <3>2. e[v] = Taken(secret, <<f>>)
      <4>1. spec.kind = "clickhouse"
        BY <2>1, <2>5, OnlyClickHouse
      <4>2. Aliases["clickhouse"].dataset_table_separator = <<"dataset_table_separator">>
        BY DEF Aliases, ClickHouseAliases
      <4> QED BY <2>1, <2>5, <4>1, <4>2 DEF Made
    <3>3. e[v] \subseteq {x \in {secret[f]} : Given(secret, f)}
      BY <3>2 DEF Taken
    <3>4. CASE Given(secret, f)
      <4>1. secret[f] \in own /\ l[v].place = place
        BY <1>5, <2>5, <3>1, <3>4 DEF Label
      <4> QED BY <1>o, <3>3, <4>1 DEF Admits
    <3> QED BY <3>3, <3>4
  <2>6. CASE /\ ~(spec.kind = "clickhouse" /\ f \in {"database", "dataset_table_separator"} /\ Given(spec.overrides, f))
             /\ ~(f = "dataset_table_separator" /\ ~Given(spec.overrides, f))
    <3>1. l[v] = Label(place, plus)
      BY <2>2, <2>6 DEF LabelOf, place
    <3>2. CASE plus
      <4> HIDE DEF plus
      <4>1. plus = TRUE
        BY <3>2
      <4>2. l[v] = Label(place, TRUE)
        BY <3>1, <4>1
      <4>3. l[v].place = place /\ l[v].plus
        BY <4>2 DEF Label
      <4>4. e[v] \subseteq own \cup {At("override")}
        BY <3>2
      <4> QED BY <1>o, <4>3, <4>4 DEF Admits
    <3>3. CASE ~plus
      <4>1. l[v].place = place
        BY <3>1 DEF Label
      <4>2. e[v] \subseteq own
        BY <3>3
      <4> QED BY <1>o, <4>1, <4>2 DEF Admits
    <3> QED BY <3>2, <3>3
  <2> QED BY <2>4, <2>5, <2>6
<1> QED BY <1>3, <1>6 DEF Labelled, secret

-------------------------------------------------------------------------------
(* The variables of a block are no other block's.                           *)
Blocks == {"source", "destination", "kafka"}

LEMMA RequiredOf ==
  ASSUME NEW kind \in DOMAIN Aliases
  PROVE  /\ Required[kind] \subseteq DOMAIN Aliases[kind]
         /\ kind # "kafka" => DOMAIN Aliases[kind] \cap DOMAIN KafkaAliases = {}
<1>1. kind \in {"sql", "clickhouse", "mongodb", "keycloak", "kafka"}
  BY DEF Aliases
<1>2. CASE kind = "sql"
  <2>1. Aliases[kind] = SqlAliases /\ Required[kind] = {"drivername", "host", "username", "password"}
    BY <1>2 DEF Aliases, Required
  <2> QED BY <1>2, <2>1 DEF SqlAliases, KafkaAliases
<1>3. CASE kind = "clickhouse"
  <2>1. Aliases[kind] = ClickHouseAliases /\ Required[kind] = {"host", "database"}
    BY <1>3 DEF Aliases, Required
  <2> QED BY <1>3, <2>1 DEF ClickHouseAliases, KafkaAliases
<1>4. CASE kind = "mongodb"
  <2>1. Aliases[kind] = MongoAliases /\ Required[kind] = {"connection_url"}
    BY <1>4 DEF Aliases, Required
  <2> QED BY <1>4, <2>1 DEF MongoAliases, KafkaAliases
<1>5. CASE kind = "keycloak"
  <2>1. Aliases[kind] = KeycloakAliases /\ Required[kind] = {"token_url", "client_id"}
    BY <1>5 DEF Aliases, Required
  <2> QED BY <1>5, <2>1 DEF KeycloakAliases, KafkaAliases
<1>6. CASE kind = "kafka"
  BY <1>6 DEF Required
<1> QED BY <1>1, <1>2, <1>3, <1>4, <1>5, <1>6

LEMMA BlockKinds ==
  ASSUME NEW b \in Blocks
  PROVE  /\ KindsOf(b) \subseteq DOMAIN Aliases
         /\ \A c \in Blocks : b # c => KindsOf(b) \cap KindsOf(c) = {}
BY DEF Blocks, KindsOf, Aliases

LEMMA Apart ==
  ASSUME NEW b \in Blocks, NEW c \in Blocks, b # c, NEW spec, NEW other,
         spec.kind \in KindsOf(b), other.kind \in KindsOf(c),
         NEW f \in DOMAIN Aliases[spec.kind], NEW g \in DOMAIN Aliases[other.kind]
  PROVE  Variable(spec, f) # Variable(other, g)
<1>1. spec.kind # other.kind /\ spec.kind \in DOMAIN Aliases /\ other.kind \in DOMAIN Aliases
  BY BlockKinds
<1>k. Aliases["kafka"] = KafkaAliases
  BY DEF Aliases
<1>2. CASE spec.kind = "kafka"
  <2>1. f # g
    BY <1>1, <1>2, <1>k, RequiredOf
  <2> QED BY <2>1 DEF Variable
<1>3. CASE other.kind = "kafka"
  <2>1. f # g
    BY <1>1, <1>3, <1>k, RequiredOf
  <2> QED BY <2>1 DEF Variable
<1>4. CASE spec.kind # "kafka" /\ other.kind # "kafka"
  BY <1>1, <1>4 DEF Variable, Group
<1> QED BY <1>2, <1>3, <1>4

-------------------------------------------------------------------------------
(* The blocks still to come, each once, in order.                           *)
Queues == {<< >>, <<"kafka">>, <<"destination">>, <<"destination", "kafka">>, <<"source">>,
           <<"source", "kafka">>, <<"source", "destination">>, <<"source", "destination", "kafka">>}
Coming(q) == {b \in Blocks : \E i \in DOMAIN q : q[i] = b}

LEMMA NextOf ==
  ASSUME NEW q \in Queues, q # << >>
  PROVE  /\ Head(q) \in Blocks /\ Tail(q) \in Queues
         /\ Coming(Tail(q)) = Coming(q) \ {Head(q)} /\ Head(q) \in Coming(q)
<1>6. CASE q = <<"kafka">>
  BY <1>6 DEF Queues, Coming, Blocks
<1>7. CASE q = <<"destination">>
  BY <1>7 DEF Queues, Coming, Blocks
<1>8. CASE q = <<"source">>
  BY <1>8 DEF Queues, Coming, Blocks
<1>2. CASE q = <<"destination", "kafka">>
  BY <1>2 DEF Queues, Coming, Blocks
<1>3. CASE q = <<"source", "kafka">>
  BY <1>3 DEF Queues, Coming, Blocks
<1>4. CASE q = <<"source", "destination">>
  BY <1>4 DEF Queues, Coming, Blocks
<1>5. CASE q = <<"source", "destination", "kafka">>
  BY <1>5 DEF Queues, Coming, Blocks
<1>9. \/ q = <<"kafka">> \/ q = <<"destination">> \/ q = <<"source">> \/ q = <<"destination", "kafka">>
      \/ q = <<"source", "kafka">> \/ q = <<"source", "destination">> \/ q = <<"source", "destination", "kafka">>
  BY Zenon DEF Queues
<1> QED BY <1>2, <1>3, <1>4, <1>5, <1>6, <1>7, <1>8, <1>9, Zenon

(* What is known of the connections while they are resolved: the labels are *)
(* true, each block that has a secret has its variables from it, and no     *)
(* variable is there but of such a block or of the caller.                  *)
Sources(spec, place, f) ==
  PlacesOf(spec, place) \cup (IF f \in Defaulted[spec.kind] THEN {At("default")} ELSE {})
                          \cup {At("override"), At("extra")}
Login(env0, spec, place) ==
  \A f \in DOMAIN Aliases[spec.kind] :
    IF Variable(spec, f) \in DOMAIN env0 THEN env0[Variable(spec, f)] \subseteq Sources(spec, place, f)
    ELSE f \notin Required[spec.kind]

Logins ==
  \A b \in DOMAIN secrets :
    /\ b \in Blocks /\ manifest.connections[b].kind \in KindsOf(b)
    /\ Login(resolved, manifest.connections[b], secrets[b])

OfBlock(b, v) ==
  /\ manifest.connections[b].kind \in KindsOf(b)
  /\ \E g \in DOMAIN Aliases[manifest.connections[b].kind] : v = Variable(manifest.connections[b], g)
Owned ==
  \A v \in DOMAIN resolved : resolved[v] = {At("extra")} \/ \E b \in DOMAIN secrets : OfBlock(b, v)
Queued ==
  /\ blocks \in Queues /\ Coming(blocks) \subseteq DOMAIN manifest.connections
  /\ Coming(blocks) \cap DOMAIN secrets = {}

ConnInv == Queued /\ Labelled(resolved, labels) /\ Logins /\ Owned

LEMMA LabelledOverlay ==
  ASSUME NEW e, NEW l, NEW f, NEW m, Labelled(e, l), Labelled(f, m)
  PROVE  Labelled(Overlay(e, f), Overlay(l, m))
<1>1. DOMAIN Overlay(e, f) = DOMAIN e \cup DOMAIN f /\ DOMAIN Overlay(l, m) = DOMAIN l \cup DOMAIN m
  BY DEF Overlay
<1>2. ASSUME NEW v \in DOMAIN l \cup DOMAIN m
      PROVE  \/ v \in DOMAIN l /\ Overlay(e, f)[v] = e[v] /\ Overlay(l, m)[v] = l[v]
             \/ v \in DOMAIN m /\ Overlay(e, f)[v] = f[v] /\ Overlay(l, m)[v] = m[v]
  BY DEF Overlay, Labelled
<1> QED BY <1>1, <1>2 DEF Labelled

(* What is resolved stays well resolved while nothing of it changes.        *)
LEMMA OwnKept == ASSUME manifest' = manifest PROVE OwnVariables' = OwnVariables
BY DEF OwnVariables

LEMMA ResolvedKept ==
  ASSUME ConnInv, manifest' = manifest, resolved' = resolved, labels' = labels, secrets' = secrets
  PROVE  Labelled(resolved, labels)' /\ Logins' /\ Owned'
<1>1. Labelled(resolved, labels)'
  BY OwnKept DEF ConnInv, Labelled, Admits
<1>2. Logins'
  BY DEF ConnInv, Logins, Login, Sources
<1>3. Owned'
  BY DEF ConnInv, Owned, OfBlock
<1> QED BY <1>1, <1>2, <1>3

LEMMA ResolveBlockKeeps ==
  ASSUME ConnInv, ResolveBlock(manifest.connections), manifest' = manifest
  PROVE  ConnInv'
<1> DEFINE block == Head(blocks)
           spec == manifest.connections[block]
           secret == Head(Secret(spec))
           e == EnvOf(spec, secret)
<1>1. /\ blocks # << >> /\ blocks' = Tail(blocks) /\ block \in Blocks /\ blocks' \in Queues
      /\ Coming(blocks') = Coming(blocks) \ {block} /\ block \in Coming(blocks)
      /\ block \notin DOMAIN secrets /\ block \in DOMAIN manifest.connections
  BY NextOf DEF ConnInv, Queued, ResolveBlock
<1>2. spec.kind \in KindsOf(block) /\ spec.kind \in DOMAIN Aliases /\ ~ReadRaises(spec)
  BY <1>1, BlockKinds DEF ResolveBlock
<1>3. CASE Secret(spec) = << >>
  <2>1. UNCHANGED <<resolved, labels, secrets>>
    BY <1>3 DEF ResolveBlock
  <2>2. Labelled(resolved, labels)' /\ Logins' /\ Owned'
    BY <2>1, ResolvedKept
  <2>3. Queued'
    BY <1>1, <2>1 DEF ConnInv, Queued
  <2> QED BY <2>2, <2>3 DEF ConnInv
<1>4. CASE Secret(spec) # << >>
  <2>1. /\ resolved' = Overlay(e, resolved)
        /\ labels' = Overlay(LabelsOf(spec, secret), labels)
        /\ secrets' = Overlay([b \in {block} |-> Place(spec)], secrets)
    BY <1>4 DEF ResolveBlock
  <2>o. OwnVariables' = OwnVariables
    BY DEF OwnVariables
  <2>2. Labelled(resolved, labels)'
    <3>1. {<<"variable", f>> : f \in DOMAIN spec.mapped} \subseteq OwnVariables
      BY <1>1 DEF OwnVariables
    <3>2. Labelled(e, LabelsOf(spec, secret))
      BY <1>2, <1>4, <3>1, LabelsTrue
    <3>3. Labelled(Overlay(e, resolved), Overlay(LabelsOf(spec, secret), labels))
      BY <3>2, LabelledOverlay DEF ConnInv
    <3> HIDE DEF e, secret, spec
    <3> QED BY <2>1, <2>o, <3>3 DEF Labelled, Admits
  <2>3. PICK s : secret = Overridden(s, spec.overrides) /\ Spread(s, PlacesOf(spec, Place(spec)))
    BY <1>4, SecretFrom
  <2> DEFINE places == PlacesOf(spec, Place(spec)) \cup {At("override")}
  <2>4. Spread(secret, places)
    <3>1. Spread(secret, PlacesOf(spec, Place(spec)) \cup (IF DOMAIN spec.overrides # {} THEN {At("override")} ELSE {}))
      BY <2>3, OverriddenFrom
    <3> QED BY <3>1 DEF Spread
  <2>5. \A f \in Required[spec.kind] : Made(spec.kind, secret)[f] # {} /\ f \in DOMAIN Aliases[spec.kind]
    BY <1>2, <1>4, RequiredOf DEF ReadRaises, Buildable
  <2>6. Login(e, spec, Place(spec))
    <3> SUFFICES ASSUME NEW f \in DOMAIN Aliases[spec.kind]
                 PROVE  IF Variable(spec, f) \in DOMAIN e
                        THEN e[Variable(spec, f)] \subseteq Sources(spec, Place(spec), f)
                        ELSE f \notin Required[spec.kind]
      BY DEF Login
    <3> HIDE DEF places, secret, spec
    <3>1. ASSUME Variable(spec, f) \in DOMAIN EnvOf(spec, secret)
          PROVE  EnvOf(spec, secret)[Variable(spec, f)] \subseteq Sources(spec, Place(spec), f)
      <4>1. PICK g \in DOMAIN Aliases[spec.kind] :
              /\ Variable(spec, f) = Variable(spec, g)
              /\ \/ EnvOf(spec, secret)[Variable(spec, f)] = {At("default")} /\ g \in Defaulted[spec.kind]
                 \/ EnvOf(spec, secret)[Variable(spec, f)] \subseteq places
        BY <2>4, <3>1, EnvFrom
      <4>2. f = g
        BY <4>1 DEF Variable
      <4> QED BY <4>1, <4>2 DEF Sources, places
    <3>2. ASSUME f \in Required[spec.kind] PROVE Variable(spec, f) \in DOMAIN EnvOf(spec, secret)
      BY <2>4, <2>5, <3>2, EnvFrom
    <3> QED BY <3>1, <3>2
  <2>7. \A v \in DOMAIN e : \E g \in DOMAIN Aliases[spec.kind] : v = Variable(spec, g)
    BY <2>4, EnvFrom
  <2> HIDE DEF e, secret, block, places
  <2>8. DOMAIN secrets' = {block} \cup DOMAIN secrets
    BY <2>1 DEF Overlay
  <2>v. ASSUME NEW f \in DOMAIN Aliases[spec.kind]
        PROVE  \/ Variable(spec, f) \in DOMAIN e
               \/ Variable(spec, f) \notin DOMAIN resolved
               \/ resolved[Variable(spec, f)] = {At("extra")}
    <3> SUFFICES ASSUME Variable(spec, f) \in DOMAIN resolved, resolved[Variable(spec, f)] # {At("extra")}
                 PROVE  FALSE
      OBVIOUS
    <3>1. PICK c \in DOMAIN secrets : OfBlock(c, Variable(spec, f))
      BY DEF ConnInv, Owned
    <3>2. c \in Blocks /\ c # block
      BY <1>1, <3>1 DEF ConnInv, Logins
    <3> QED BY <1>1, <1>2, <3>1, <3>2, Apart DEF OfBlock
  <2>9. secrets'[block] = Place(spec) /\ Login(resolved', spec, Place(spec))
    <3>1. secrets'[block] = Place(spec)
      BY <2>1 DEF Overlay
    <3>2. /\ DOMAIN resolved' = DOMAIN e \cup DOMAIN resolved
          /\ \A v \in DOMAIN e : resolved'[v] = e[v]
          /\ \A v \in DOMAIN resolved \ DOMAIN e : resolved'[v] = resolved[v]
      BY <2>1 DEF Overlay
    <3>3. ASSUME NEW f \in DOMAIN Aliases[spec.kind]
          PROVE  IF Variable(spec, f) \in DOMAIN resolved'
                 THEN resolved'[Variable(spec, f)] \subseteq Sources(spec, Place(spec), f)
                 ELSE f \notin Required[spec.kind]
      <4> DEFINE v == Variable(spec, f)
      <4>1. IF v \in DOMAIN e THEN e[v] \subseteq Sources(spec, Place(spec), f) ELSE f \notin Required[spec.kind]
        BY <2>6 DEF Login
      <4>2. v \in DOMAIN e \/ v \notin DOMAIN resolved \/ resolved[v] = {At("extra")}
        BY <2>v
      <4>3. {At("extra")} \subseteq Sources(spec, Place(spec), f)
        BY DEF Sources
      <4> HIDE DEF v
      <4>4. CASE v \in DOMAIN e
        BY <3>2, <4>1, <4>4 DEF v
      <4>5. CASE v \notin DOMAIN e
        BY <3>2, <4>1, <4>2, <4>3, <4>5 DEF v
      <4> QED BY <4>4, <4>5
    <3> QED BY <3>1, <3>3 DEF Login
  <2>10. ASSUME NEW b \in DOMAIN secrets', b # block
         PROVE  /\ b \in Blocks /\ manifest.connections[b].kind \in KindsOf(b)
                /\ secrets'[b] = secrets[b]
                /\ Login(resolved', manifest.connections[b], secrets[b])
    <3> DEFINE other == manifest.connections[b]
    <3>1. b \in DOMAIN secrets /\ secrets'[b] = secrets[b]
      BY <2>1, <2>8, <2>10 DEF Overlay
    <3>2. b \in Blocks /\ other.kind \in KindsOf(b) /\ Login(resolved, other, secrets[b])
      BY <3>1 DEF ConnInv, Logins
    <3> HIDE DEF other
    <3>3. ASSUME NEW f \in DOMAIN Aliases[other.kind]
          PROVE  Variable(other, f) \notin DOMAIN e
      BY <1>1, <1>2, <2>7, <2>10, <3>2, Apart
    <3>4. /\ DOMAIN resolved' = DOMAIN e \cup DOMAIN resolved
          /\ \A v \in DOMAIN resolved \ DOMAIN e : resolved'[v] = resolved[v]
      BY <2>1 DEF Overlay
    <3>5. Login(resolved', other, secrets[b])
      BY <3>2, <3>3, <3>4 DEF Login
    <3> QED BY <3>1, <3>2, <3>5 DEF other
  <2>11. Logins'
    <3> SUFFICES ASSUME NEW b \in DOMAIN secrets'
                 PROVE  /\ b \in Blocks /\ manifest.connections[b].kind \in KindsOf(b)
                        /\ Login(resolved', manifest.connections[b], secrets'[b])
      BY DEF Logins, Login, Sources
    <3>1. CASE b = block
      BY <1>1, <1>2, <2>9, <3>1
    <3>2. CASE b # block
      BY <2>10, <3>2
    <3> QED BY <3>1, <3>2
  <2>12. Owned'
    <3> SUFFICES ASSUME NEW v \in DOMAIN resolved'
                 PROVE  resolved'[v] = {At("extra")} \/ \E b \in DOMAIN secrets' : OfBlock(b, v)
      BY DEF Owned, OfBlock
    <3>1. CASE v \in DOMAIN e
      BY <1>2, <2>7, <2>8, <3>1 DEF OfBlock
    <3>2. CASE v \notin DOMAIN e
      <4>1. v \in DOMAIN resolved /\ resolved'[v] = resolved[v]
        BY <2>1, <3>2 DEF Overlay
      <4> QED BY <2>8, <4>1 DEF ConnInv, Owned
    <3> QED BY <3>1, <3>2
  <2>13. Queued'
    BY <1>1, <2>8 DEF ConnInv, Queued
  <2> QED BY <2>2, <2>11, <2>12, <2>13 DEF ConnInv
<1> QED BY <1>3, <1>4

LEMMA ExtraKeeps ==
  ASSUME ConnInv, AddExtra, manifest' = manifest
  PROVE  ConnInv'
<1>1. PICK extra \in ExtraEnvs :
        /\ resolved' = Overlay([v \in extra |-> {At("extra")}], resolved)
        /\ labels' = Overlay([v \in extra |-> Label(At("extra"), FALSE)], labels)
        /\ UNCHANGED <<blocks, secrets>>
  BY DEF AddExtra
<1>2. Labelled([v \in extra |-> {At("extra")}], [v \in extra |-> Label(At("extra"), FALSE)])
  BY DEF Labelled, Label, Admits
<1>3. Labelled(resolved, labels)'
  <2>1. Labelled(Overlay([v \in extra |-> {At("extra")}], resolved),
                 Overlay([v \in extra |-> Label(At("extra"), FALSE)], labels))
    BY <1>2, LabelledOverlay DEF ConnInv
  <2> QED BY <1>1, <2>1, OwnKept DEF Labelled, Admits
<1>4. /\ DOMAIN resolved' = extra \cup DOMAIN resolved
      /\ \A v \in DOMAIN resolved' : resolved'[v] = {At("extra")} \/ (v \in DOMAIN resolved /\ resolved'[v] = resolved[v])
  BY <1>1 DEF Overlay
<1>5. Logins'
  <2>1. ASSUME NEW b \in DOMAIN secrets
        PROVE  /\ b \in Blocks /\ manifest.connections[b].kind \in KindsOf(b)
               /\ Login(resolved', manifest.connections[b], secrets[b])
    <3> DEFINE spec == manifest.connections[b]
    <3>1. b \in Blocks /\ spec.kind \in KindsOf(b) /\ Login(resolved, spec, secrets[b])
      BY DEF ConnInv, Logins
    <3> HIDE DEF spec
    <3>2. \A f : {At("extra")} \subseteq Sources(spec, secrets[b], f)
      BY DEF Sources
    <3>3. Login(resolved', spec, secrets[b])
      BY <1>4, <3>1, <3>2 DEF Login
    <3> QED BY <3>1, <3>3 DEF spec
  <2> QED BY <1>1, <2>1 DEF Logins
<1>6. Owned'
  BY <1>1, <1>4 DEF ConnInv, Owned, OfBlock
<1>7. Queued'
  BY <1>1 DEF ConnInv, Queued, Coming
<1> QED BY <1>3, <1>5, <1>6, <1>7 DEF ConnInv

(* The manifest is the same throughout.                                     *)
LEMMA ManifestFixed == Next => manifest' = manifest
<1>1. ASSUME Prepare PROVE manifest' = manifest
  BY <1>1 DEF Prepare, ExtNext, SkipSection, Build, LoadPlugin, ValidateSection, ValidateRunner,
     GetRunner, BuildHooks, SelectChecks, EvaluateChecks, Refuse
<1>2. ASSUME StartProgram \/ Check \/ Resolve \/ VaultChanges \/ Resolved \/ Extra \/ Enter \/ EnterRaises \/ Leave
      PROVE  manifest' = manifest
  BY <1>2 DEF StartProgram, Start, Check, RunCheck, Resolve, VaultChanges, Resolved, Extra, Enter, EnterRaises, Leave,
     Refuse, extVars
<1> QED BY <1>1, <1>2 DEF Next

LEMMA PairJoined ==
  ASSUME NEW a \in Blocks, NEW b \in Blocks
  PROVE  <<a>> \o <<b>> = <<a, b>>
<1>1. <<a>> \in Seq(Blocks) /\ <<b>> \in Seq(Blocks) /\ <<a, b>> \in Seq(Blocks)
      /\ Len(<<a>>) = 1 /\ Len(<<b>>) = 1 /\ Len(<<a, b>>) = 2
  OBVIOUS
<1>2. /\ <<a>> \o <<b>> \in Seq(Blocks) /\ Len(<<a>> \o <<b>>) = 2
      /\ \A i \in 1..2 : (<<a>> \o <<b>>)[i] = IF i <= 1 THEN <<a>>[i] ELSE <<b>>[i - 1]
  BY <1>1, ConcatProperties
<1>3. \A i \in 1..2 : (<<a>> \o <<b>>)[i] = <<a, b>>[i]
  BY <1>2
<1> QED BY <1>1, <1>2, <1>3, SeqEqual

LEMMA TripleJoined ==
  ASSUME NEW a \in Blocks, NEW b \in Blocks, NEW c \in Blocks
  PROVE  <<a, b>> \o <<c>> = <<a, b, c>>
<1>1. <<a, b>> \in Seq(Blocks) /\ <<c>> \in Seq(Blocks) /\ <<a, b, c>> \in Seq(Blocks)
      /\ Len(<<a, b>>) = 2 /\ Len(<<c>>) = 1 /\ Len(<<a, b, c>>) = 3
  OBVIOUS
<1>2. /\ <<a, b>> \o <<c>> \in Seq(Blocks) /\ Len(<<a, b>> \o <<c>>) = 3
      /\ \A i \in 1..3 : (<<a, b>> \o <<c>>)[i] = IF i <= 2 THEN <<a, b>>[i] ELSE <<c>>[i - 2]
  BY <1>1, ConcatProperties
<1>3. \A i \in 1..3 : (<<a, b>> \o <<c>>)[i] = <<a, b, c>>[i]
  BY <1>2
<1> QED BY <1>1, <1>2, <1>3, SeqEqual

LEMMA StartsResolving ==
  ASSUME StartResolving(manifest.connections), manifest' = manifest
  PROVE  ConnInv'
<1> DEFINE here == DOMAIN manifest.connections
           present(b) == IF b \in here THEN <<b>> ELSE << >>
<1>1. /\ blocks' = present("source") \o present("destination") \o present("kafka")
      /\ resolved' = << >> /\ labels' = << >> /\ secrets' = << >>
  BY DEF StartResolving
<1>2. blocks' \in Queues /\ Coming(blocks') \subseteq here
  <2>a. \A b : present(b) = IF b \in here THEN <<b>> ELSE << >>
    OBVIOUS
  <2>b. /\ <<"source">> \o <<"destination">> = <<"source", "destination">>
        /\ <<"source", "destination">> \o <<"kafka">> = <<"source", "destination", "kafka">>
        /\ <<"source">> \o <<"kafka">> = <<"source", "kafka">>
        /\ <<"destination">> \o <<"kafka">> = <<"destination", "kafka">>
    <3>1. {"source", "destination", "kafka"} = Blocks
      BY DEF Blocks
    <3> QED BY <3>1, PairJoined, TripleJoined DEF Blocks
  <2>c. /\ <<"source">> \o << >> = <<"source">> /\ << >> \o <<"destination">> = <<"destination">>
        /\ << >> \o <<"kafka">> = <<"kafka">> /\ << >> \o << >> = << >>
        /\ <<"source", "destination">> \o << >> = <<"source", "destination">>
        /\ <<"destination">> \o << >> = <<"destination">>
    OBVIOUS
  <2> HIDE DEF here, present
  <2>1. CASE "source" \in here /\ "destination" \in here /\ "kafka" \in here
    <3>1. blocks' = <<"source", "destination", "kafka">>
      BY <1>1, <2>a, <2>b, <2>c, <2>1
    <3> QED BY <2>1, <3>1 DEF Queues, Coming, Blocks
  <2>2. CASE "source" \in here /\ "destination" \in here /\ "kafka" \notin here
    <3>1. blocks' = <<"source", "destination">>
      BY <1>1, <2>a, <2>b, <2>c, <2>2
    <3> QED BY <2>2, <3>1 DEF Queues, Coming, Blocks
  <2>3. CASE "source" \in here /\ "destination" \notin here /\ "kafka" \in here
    <3>1. blocks' = <<"source", "kafka">>
      BY <1>1, <2>a, <2>b, <2>c, <2>3
    <3> QED BY <2>3, <3>1 DEF Queues, Coming, Blocks
  <2>4. CASE "source" \in here /\ "destination" \notin here /\ "kafka" \notin here
    <3>1. blocks' = <<"source">>
      BY <1>1, <2>a, <2>b, <2>c, <2>4
    <3> QED BY <2>4, <3>1 DEF Queues, Coming, Blocks
  <2>5. CASE "source" \notin here /\ "destination" \in here /\ "kafka" \in here
    <3>1. blocks' = <<"destination", "kafka">>
      BY <1>1, <2>a, <2>b, <2>c, <2>5
    <3> QED BY <2>5, <3>1 DEF Queues, Coming, Blocks
  <2>6. CASE "source" \notin here /\ "destination" \in here /\ "kafka" \notin here
    <3>1. blocks' = <<"destination">>
      BY <1>1, <2>a, <2>b, <2>c, <2>6
    <3> QED BY <2>6, <3>1 DEF Queues, Coming, Blocks
  <2>7. CASE "source" \notin here /\ "destination" \notin here /\ "kafka" \in here
    <3>1. blocks' = <<"kafka">>
      BY <1>1, <2>a, <2>b, <2>c, <2>7
    <3> QED BY <2>7, <3>1 DEF Queues, Coming, Blocks
  <2>8. CASE "source" \notin here /\ "destination" \notin here /\ "kafka" \notin here
    <3>1. blocks' = << >>
      BY <1>1, <2>a, <2>b, <2>c, <2>8
    <3> QED BY <2>8, <3>1 DEF Queues, Coming, Blocks
  <2> QED BY <2>1, <2>2, <2>3, <2>4, <2>5, <2>6, <2>7, <2>8
<1>4. DOMAIN secrets' = {} /\ DOMAIN resolved' = {}
  BY <1>1
<1>5. Queued'
  BY <1>2, <1>4 DEF Queued, Coming
<1>6. Labelled(resolved, labels)' /\ Logins' /\ Owned'
  BY <1>1, <1>4 DEF Labelled, Logins, Owned
<1> QED BY <1>5, <1>6 DEF ConnInv

LEMMA ConnStep == ASSUME ConnInv, [Next]_vars PROVE ConnInv'
<1>1. ASSUME UNCHANGED <<blocks, resolved, labels, secrets>>, manifest' = manifest PROVE ConnInv'
  <2>1. Labelled(resolved, labels)' /\ Logins' /\ Owned'
    BY <1>1, ResolvedKept
  <2>2. Queued'
    BY <1>1 DEF ConnInv, Queued, Coming
  <2> QED BY <2>1, <2>2 DEF ConnInv
<1>2. CASE UNCHANGED vars
  BY <1>1, <1>2 DEF vars, extVars, connVars
<1>3. CASE StartProgram
  BY <1>3, ManifestFixed, StartsResolving DEF StartProgram, Next
<1>4. CASE Prepare \/ Check \/ VaultChanges \/ Resolved \/ Enter \/ EnterRaises \/ Leave
  <2>1. UNCHANGED <<blocks, resolved, labels, secrets>>
    BY <1>4 DEF Prepare, Check, VaultChanges, VaultTurns, Resolved, Enter, EnterScope,
       EnterRaises, EnterCut, Leave, LeaveScope, LeaveCut, connVars
  <2>2. manifest' = manifest
    BY <1>4, ManifestFixed DEF Next
  <2> QED BY <1>1, <2>1, <2>2
<1>5. CASE Resolve
  <2>1. manifest' = manifest
    BY <1>5, ManifestFixed DEF Next
  <2>2. CASE ResolveBlock(manifest.connections)
    BY <2>1, <2>2, ResolveBlockKeeps
  <2>3. CASE ResolveRaises(manifest.connections)
    <3>1. blocks' = << >> /\ UNCHANGED <<resolved, labels, secrets>>
      BY <2>3 DEF ResolveRaises
    <3>2. Coming(<< >>) = {}
      BY DEF Coming
    <3>3. Queued'
      BY <3>1, <3>2 DEF Queued, Queues, Coming
    <3>4. Labelled(resolved, labels)' /\ Logins' /\ Owned'
      BY <2>1, <3>1, ResolvedKept
    <3> QED BY <3>3, <3>4 DEF ConnInv
  <2> QED BY <1>5, <2>2, <2>3 DEF Resolve
<1>6. CASE Extra
  <2>1. manifest' = manifest
    BY <1>6, ManifestFixed DEF Next
  <2> QED BY <1>6, <2>1, ExtraKeeps DEF Extra
<1> QED BY <1>2, <1>3, <1>4, <1>5, <1>6 DEF Next

LEMMA ConnInvariant == Spec => []ConnInv
<1>1. Init => ConnInv
  <2> SUFFICES ASSUME Init PROVE ConnInv
    OBVIOUS
  <2>1. blocks = << >> /\ resolved = << >> /\ labels = << >> /\ secrets = << >>
    BY DEF Init, ConnInit
  <2>2. DOMAIN secrets = {} /\ DOMAIN resolved = {} /\ DOMAIN blocks = {}
    BY <2>1
  <2>3. Queued
    BY <2>1, <2>2 DEF Queued, Queues, Coming
  <2>4. Labelled(resolved, labels) /\ Logins /\ Owned
    BY <2>1, <2>2 DEF Labelled, Logins, Owned
  <2> QED BY <2>3, <2>4 DEF ConnInv
<1>2. ConnInv /\ [Next]_vars => ConnInv'
  BY ConnStep
<1> QED BY <1>1, <1>2, PTL DEF Spec

(* The report of where a value is from is true, whatever the aliases, the   *)
(* overrides and the order in which the places fail (_provenance); but for  *)
(* fields mapped to Airflow variables of their own, under a prefix's label. *)
THEOREM ProvenanceReported == Spec => []ProvenanceTrue
<1>1. ConnInv => ProvenanceTrue
  BY DEF ConnInv, Labelled, Admits, ProvenanceTrue
<1> QED BY <1>1, ConnInvariant, PTL

(* Every variable that is set for a connection is from one secret, for any  *)
(* connections, Vault, Airflow variables, overrides and environment: no     *)
(* block sets another's variables, and what a connection requires covers    *)
(* what was there before.                                                   *)
THEOREM LoginsTogether ==
  ASSUME ~IsEnv(Absent), \A e \in Ambient : IsEnv(e)
  PROVE  Spec => []LoginTogether
<1>1. Init => IInv
  BY DEF Init, ConnInit, IInv, Layered
<1>2. IInv /\ [Next]_vars => IInv'
  BY StepOrStutter
<1>3. IInv /\ ConnInv => LoginTogether
  <2> SUFFICES ASSUME IInv, ConnInv, saved # Absent, NEW b \in DOMAIN secrets,
                      NEW f \in DOMAIN Aliases[manifest.connections[b].kind]
               PROVE  LET spec == manifest.connections[b]
                          v == Variable(spec, f)
                          default == IF f \in Defaulted[spec.kind] THEN {At("default")} ELSE {}
                      IN  IF v \in DOMAIN resolved
                          THEN /\ v \in DOMAIN environ
                               /\ environ[v] \subseteq PlacesOf(spec, secrets[b]) \cup default \cup {At("override"), At("extra")}
                          ELSE /\ f \notin Required[spec.kind]
                               /\ v \in DOMAIN environ <=> v \in DOMAIN saved
                               /\ v \in DOMAIN saved => environ[v] = saved[v]
    BY DEF LoginTogether
  <2> SUFFICES IF Variable(manifest.connections[b], f) \in DOMAIN resolved
               THEN /\ Variable(manifest.connections[b], f) \in DOMAIN environ
                    /\ environ[Variable(manifest.connections[b], f)] \subseteq Sources(manifest.connections[b], secrets[b], f)
               ELSE /\ f \notin Required[manifest.connections[b].kind]
                    /\ Variable(manifest.connections[b], f) \in DOMAIN environ <=> Variable(manifest.connections[b], f) \in DOMAIN saved
                    /\ Variable(manifest.connections[b], f) \in DOMAIN saved =>
                         environ[Variable(manifest.connections[b], f)] = saved[Variable(manifest.connections[b], f)]
    BY Zenon DEF Sources
  <2>0. PICK spec, v : spec = manifest.connections[b] /\ v = Variable(manifest.connections[b], f)
    OBVIOUS
  <2>1. IF v \in DOMAIN resolved THEN resolved[v] \subseteq Sources(spec, secrets[b], f) ELSE f \notin Required[spec.kind]
    BY <2>0 DEF ConnInv, Logins, Login
  <2>2. environ = Overlay(resolved, saved)
    BY DEF IInv, Layered
  <2>3. /\ v \in DOMAIN resolved => v \in DOMAIN environ /\ environ[v] = resolved[v]
        /\ v \notin DOMAIN resolved => (v \in DOMAIN environ <=> v \in DOMAIN saved)
        /\ v \notin DOMAIN resolved => (v \in DOMAIN saved => environ[v] = saved[v])
    BY <2>2 DEF Overlay
  <2>4. IF v \in DOMAIN resolved
        THEN /\ v \in DOMAIN environ
             /\ environ[v] \subseteq Sources(spec, secrets[b], f)
        ELSE /\ f \notin Required[spec.kind]
             /\ v \in DOMAIN environ <=> v \in DOMAIN saved
             /\ v \in DOMAIN saved => environ[v] = saved[v]
    <3>1. CASE v \in DOMAIN resolved
      <4>1. v \in DOMAIN environ /\ environ[v] = resolved[v] /\ resolved[v] \subseteq Sources(spec, secrets[b], f)
        BY <2>1, <2>3, <3>1, Zenon
      <4> QED BY <3>1, <4>1, Zenon
    <3>2. CASE v \notin DOMAIN resolved
      BY <2>1, <2>3, <3>2, Zenon
    <3> QED BY <3>1, <3>2
  <2> QED BY <2>0, <2>4
<1> QED BY <1>1, <1>2, <1>3, ConnInvariant, PTL DEF Spec

-------------------------------------------------------------------------------
(* What is known of the checks. A program that checks does so last; what is *)
(* registered is built in or a plugin's; while checks run, no plugin loads. *)
Known(n) == n \in Builtin["check"] \/ \E p \in loaded \cup failed : n \in Range(Offers[p])

Calm == {Task("validate", "hook"), Task("validate", "check"), Task("validate", "runner"),
         Task("resolve", "connections"), Task("extra", "connections"),
         Task("run", "runner"), Task("run", "hook"), Task("scope", "pipeline")}
LastCheck == todo \in Seq(Calm) \/ todo \in {<<Task("run", "check")>>, <<Task("bare", "check")>>}
Registers ==
  registry # None =>
    /\ todo # << >> /\ Kind \in Kinds
    /\ \A n \in DOMAIN registry : n \in Builtin[Kind] \/ \E p \in loaded \cup failed : n \in Range(Offers[p])
OnlyChecking == DOMAIN outcome # {} => todo = << >> \/ (Checking /\ registry # None /\ pending = << >>)

PortGiven == <<"clickhouse", "http_port">> \in DOMAIN environ
Sound(n, o) ==
  \/ o.class \in {"unknown", "failed"}
  \/ /\ o.class \in {"clean", "warned", "raised"}
     /\ Known(n)
     /\ n \in Builtin["check"] =>
          IF o.class = "raised" THEN n = "clickhouse" /\ PortGiven
          ELSE o.reached # {} /\ o.client \in {"ok", "missing"}
Outcomes == \A n \in DOMAIN outcome : Sound(n, outcome[n])
OkHolds ==
  verdict = "ok" => /\ todo = << >> /\ unrun = {} /\ failed = {}
                    /\ Came("unknown") = {} /\ Came("failed") = {}

CheckInv == LastCheck /\ Registers /\ OnlyChecking /\ Outcomes /\ OkHolds

(* A built-in check that has nothing to report reached a server, which      *)
(* answered or was not asked.                                               *)
LEMMA ReportsTrue ==
  ASSUME NEW endpoints, NEW r \in Tried(endpoints) \cup {Exception}
         \cup {Result("not_configured", {}, "none"), Result("bootstrap_servers_empty", {}, "none")}
  PROVE  /\ Reported(r).class \in {"clean", "warned", "failed", "raised"}
         /\ Reported(r).class \in {"clean", "warned"} =>
              Reported(r).reached # {} /\ Reported(r).client \in {"ok", "missing"}
         /\ Reported(r).class = "raised" => r = Exception
<1>1. /\ Reported(r).class = Evaluated(r) /\ Reported(r).reached = r.reached
      /\ Reported(r).client = r.client
  BY DEF Reported
<1>2. r.reason = "tried" => r.client \in Client
  BY DEF Tried, Result, Exception
<1>3. Evaluated(r) \in {"clean", "warned", "failed", "raised"}
  BY DEF Evaluated
<1>4. Evaluated(r) \in {"clean", "warned"} => r.reason = "tried" /\ r.reached # {} /\ r.client # "failed"
  BY DEF Evaluated
<1>5. Evaluated(r) = "raised" => r = Exception
  BY DEF Evaluated
<1> QED BY <1>1, <1>2, <1>3, <1>4, <1>5 DEF Client

LEMMA FoundTrue ==
  ASSUME Builtin["check"] \subseteq {"clickhouse", "kafka"},
         NEW n \in Builtin["check"], NEW r \in Found[n]
  PROVE  \/ Reported(r).class = "failed"
         \/ /\ Reported(r).class \in {"clean", "warned", "raised"}
            /\ IF Reported(r).class = "raised" THEN n = "clickhouse" /\ PortGiven
               ELSE Reported(r).reached # {} /\ Reported(r).client \in {"ok", "missing"}
<1>1. \E endpoints : r \in Tried(endpoints) \cup {Exception}
         \cup {Result("not_configured", {}, "none"), Result("bootstrap_servers_empty", {}, "none")}
  <2>1. CASE n = "clickhouse"
    <3>1. r \in Tried({Http}) \cup {Exception, Result("not_configured", {}, "none")}
      BY <2>1 DEF Found, ClickHouseResults
    <3> QED BY <3>1
  <2>2. CASE n = "kafka"
    <3>1. PICK servers : r \in KafkaResults(servers)
      BY <2>2 DEF Found
    <3>2. r \in Tried(servers) \cup {Result("bootstrap_servers_empty", {}, "none")}
      BY <3>1 DEF KafkaResults
    <3> QED BY <3>2
  <2> QED BY <2>1, <2>2
<1>2. r = Exception => n = "clickhouse" /\ PortGiven
  <2>1. \A endpoints : Exception \notin Tried(endpoints)
    <3>1. \A endpoints : \A result \in Tried(endpoints) : result.reason = "tried"
      BY DEF Tried, Result
    <3>2. Exception.reason = "exception"
      BY DEF Exception, Result
    <3> QED BY <3>1, <3>2
  <2>2. Exception \notin {Result("not_configured", {}, "none"), Result("bootstrap_servers_empty", {}, "none")}
    BY DEF Exception, Result
  <2>3. CASE n = "clickhouse"
    <3>1. r \in ClickHouseResults(<<"clickhouse", "host">> \in DOMAIN environ, PortGiven)
      BY <2>3 DEF Found, PortGiven
    <3>2. r = Exception => PortGiven
      BY <2>1, <2>2, <3>1 DEF ClickHouseResults
    <3> QED BY <2>3, <3>2
  <2>4. CASE n = "kafka"
    <3>1. PICK servers : r \in KafkaResults(servers)
      BY <2>4 DEF Found
    <3>2. r \in Tried(servers) \cup {Result("bootstrap_servers_empty", {}, "none")}
      BY <3>1 DEF KafkaResults
    <3> QED BY <2>1, <2>2, <3>2
  <2> QED BY <2>3, <2>4
<1>3. /\ Reported(r).class \in {"clean", "warned", "failed", "raised"}
      /\ Reported(r).class \in {"clean", "warned"} =>
           Reported(r).reached # {} /\ Reported(r).client \in {"ok", "missing"}
      /\ Reported(r).class = "raised" => r = Exception
  BY <1>1, ReportsTrue
<1> QED BY <1>2, <1>3

-------------------------------------------------------------------------------
LEMMA OneTask == ASSUME NEW a PROVE <<a>> # << >> /\ Head(<<a>>) = a /\ Tail(<<a>>) = << >>
OBVIOUS

LEMMA TailLast == ASSUME LastCheck, todo # << >>, todo' = Tail(todo) PROVE LastCheck'
<1>1. << >> \in Seq(Calm)
  OBVIOUS
<1>2. CASE todo \in Seq(Calm)
  <2>1. Tail(todo) \in Seq(Calm)
    BY <1>2, HeadTailProperties
  <2> QED BY <2>1 DEF LastCheck
<1>3. CASE todo \notin Seq(Calm)
  <2>1. Tail(todo) = << >>
    BY <1>3, OneTask DEF LastCheck
  <2> QED BY <1>1, <2>1 DEF LastCheck
<1> QED BY <1>2, <1>3

LEMMA EmptyLast == ASSUME todo' = << >> PROVE LastCheck'
<1>1. << >> \in Seq(Calm)
  OBVIOUS
<1> QED BY <1>1 DEF LastCheck

LEMMA CheckingLast == ASSUME LastCheck, Checking PROVE Tail(todo) = << >>
<1>1. CASE todo \in Seq(Calm)
  <2>1. Head(todo) \in Calm
    BY <1>1, HeadTailProperties DEF Checking
  <2>2. \A t \in Calm : ~(t.kind = "check" /\ t.use # "validate")
    BY DEF Calm, Task
  <2> QED BY <2>1, <2>2 DEF Checking, Kind
<1>2. CASE todo \notin Seq(Calm)
  BY <1>2, OneTask DEF LastCheck
<1> QED BY <1>1, <1>2

LEMMA ProgramsLast == ASSUME NEW program \in Programs, todo' = program PROVE LastCheck'
<1>1. Validation \in Seq(Calm)
  <2> DEFINE a == Task("validate", "hook")
             b == Task("validate", "check")
             c == Task("validate", "runner")
  <2>1. a \in Calm /\ b \in Calm /\ c \in Calm /\ Validation = <<a, b, c>>
    BY DEF Calm, Validation
  <2> HIDE DEF a, b, c
  <2> QED BY <2>1
<1>2. Run \in Seq(Calm)
  <2> DEFINE a == Task("resolve", "connections")
             b == Task("extra", "connections")
             c == Task("run", "runner")
             d == Task("run", "hook")
             e == Task("scope", "pipeline")
             rest == <<a, b, c, d, e>>
  <2>1. a \in Calm /\ b \in Calm /\ c \in Calm /\ d \in Calm /\ e \in Calm
    BY DEF Calm
  <2>2. Run = Validation \o rest
    BY DEF Run
  <2> HIDE DEF a, b, c, d, e
  <2>3. rest \in Seq(Calm)
    BY <2>1
  <2> HIDE DEF rest
  <2> QED BY <1>1, <2>2, <2>3, ConcatProperties
<1> QED BY <1>1, <1>2 DEF Programs, LastCheck

-------------------------------------------------------------------------------
(* Between checks there is no outcome, and no "ok" to keep true.            *)
LEMMA Between ==
  ASSUME CheckInv, todo # << >>, ~Checking,
         todo' \in {todo, Tail(todo), << >>}, outcome' = outcome,
         registry' = None, verdict' = verdict \/ verdict' # "ok"
  PROVE  CheckInv'
<1>1. DOMAIN outcome = {} /\ verdict # "ok"
  BY DEF CheckInv, OnlyChecking, OkHolds
<1>2. todo' = todo => LastCheck'
  BY DEF CheckInv, LastCheck
<1>3. LastCheck'
  BY <1>2, TailLast, EmptyLast DEF CheckInv, LastCheck
<1> QED BY <1>1, <1>3 DEF CheckInv, Registers, OnlyChecking, Outcomes, OkHolds

(* What the checks have read stays: the environment changes between them.  *)
LEMMA ExtKept ==
  ASSUME CheckInv, UNCHANGED extVars, environ' = environ \/ (todo # << >> /\ ~Checking)
  PROVE  CheckInv'
<1>1. Outcomes'
  <2>1. CASE environ' = environ
    BY <2>1 DEF CheckInv, extVars, Outcomes, Sound, Known, PortGiven
  <2>2. CASE todo # << >> /\ ~Checking
    <3>1. DOMAIN outcome = {} /\ outcome' = outcome
      BY <2>2 DEF CheckInv, OnlyChecking, extVars
    <3> QED BY <3>1 DEF Outcomes
  <2> QED BY <2>1, <2>2
<1> QED BY <1>1 DEF CheckInv, extVars, LastCheck, Registers, OnlyChecking, OkHolds, Checking, Kind, Came

LEMMA HereNotChecking ==
  ASSUME NEW use, NEW kinds, Here(use, kinds), use = "validate" \/ "check" \notin kinds
  PROVE  todo # << >> /\ ~Checking
<1>1. todo # << >>
  BY DEF Here
<1>2. PICK k \in kinds : Head(todo) = Task(use, k)
  BY DEF Here
<1>3. Head(todo).use = use /\ Head(todo).kind = k
  BY <1>2 DEF Task
<1> QED BY <1>1, <1>3 DEF Checking, Kind

LEMMA BuildStep == ASSUME CheckInv, Build PROVE CheckInv'
<1>1. /\ todo # << >> /\ Kind \in Kinds /\ registry = None /\ todo' = todo
      /\ registry' = [n \in Builtin[Kind] |-> "builtin"]
      /\ outcome' = outcome /\ verdict' = verdict
  BY DEF Build
<1>2. DOMAIN outcome = {} /\ verdict # "ok"
  BY <1>1 DEF CheckInv, OnlyChecking, OkHolds
<1>3. LastCheck' /\ Kind' = Kind
  BY <1>1 DEF CheckInv, LastCheck, Kind
<1> QED BY <1>1, <1>2, <1>3 DEF CheckInv, Registers, OnlyChecking, Outcomes, OkHolds

LEMMA RegisteredOffered == ASSUME NEW p, NEW i \in Registered(p) PROVE Offers[p][i] \in Range(Offers[p])
BY DEF Registered, Range

LEMMA LoadStep == ASSUME CheckInv, LoadPlugin PROVE CheckInv'
<1> DEFINE plugin == Head(pending)
           names == {Offers[plugin][i] : i \in Registered(plugin)}
<1>1. registry # None /\ todo' = todo /\ outcome' = outcome /\ verdict' = verdict
  BY DEF LoadPlugin
<1>2. /\ todo # << >> /\ Kind \in Kinds
      /\ \A n \in DOMAIN registry : n \in Builtin[Kind] \/ \E p \in loaded \cup failed : n \in Range(Offers[p])
  BY <1>1 DEF CheckInv, Registers
<1>3. DOMAIN outcome = {} /\ verdict # "ok"
  <2>1. pending # << >>
    BY DEF LoadPlugin
  <2> QED BY <1>2, <2>1 DEF CheckInv, OnlyChecking, OkHolds
<1>4. LastCheck' /\ Kind' = Kind
  BY <1>1 DEF CheckInv, LastCheck, Kind
<1>5. Registers'
  <2>1. CASE UNCHANGED <<registry, loaded, failed>>
    BY <1>1, <1>2, <1>4, <2>1 DEF Registers
  <2>2. CASE /\ registry' = With(names, plugin)
             /\ loaded' \cup failed' = loaded \cup failed \cup {plugin}
    <3>1. \A n \in DOMAIN registry' : n \in DOMAIN registry \/ n \in Range(Offers[plugin])
      BY <2>2, RegisteredOffered DEF With
    <3> QED BY <1>1, <1>2, <1>4, <2>2, <3>1 DEF Registers
  <2>3. \/ UNCHANGED <<registry, loaded, failed>>
        \/ /\ registry' = With(names, plugin)
           /\ loaded' \cup failed' = loaded \cup failed \cup {plugin}
    BY DEF LoadPlugin
  <2> QED BY <2>1, <2>2, <2>3
<1> QED BY <1>1, <1>3, <1>4, <1>5 DEF CheckInv, OnlyChecking, Outcomes, OkHolds

LEMMA SelectStep == ASSUME CheckInv, SelectChecks, environ' = environ PROVE CheckInv'
<1>1. Checking /\ todo # << >> /\ verdict # "ok"
  BY DEF SelectChecks, Checking, CheckInv, OkHolds
<1>2. CASE UNCHANGED <<todo, buildVars, outcome, verdict>>
  BY <1>1, <1>2 DEF buildVars, CheckInv, LastCheck, Registers, OnlyChecking, Outcomes, OkHolds, Sound,
                    PortGiven, Known, Checking, Kind
<1>3. CASE Refuse
  <2>1. /\ todo' = << >> /\ registry' = None /\ verdict' = "refused"
        /\ UNCHANGED <<loaded, failed, outcome>>
    BY <1>3 DEF Refuse
  <2> QED BY <2>1, EmptyLast DEF CheckInv, Registers, OnlyChecking, Outcomes, OkHolds, Sound, PortGiven, Known
<1> QED BY <1>2, <1>3 DEF SelectChecks

LEMMA CheckStep ==
  ASSUME Builtin["check"] \subseteq {"clickhouse", "kafka"}, CheckInv, RunCheck(Found), environ' = environ
  PROVE  CheckInv'
<1>1. /\ Checking /\ registry # None /\ pending = << >> /\ unrun \notin {None, {}}
      /\ UNCHANGED <<todo, registry, pending, loaded, failed, verdict>>
  BY DEF RunCheck, Built, buildVars
<1> DEFINE name == CHOOSE n \in unrun : TRUE
<1>2. PICK result :
        /\ result \in (CASE name \notin DOMAIN registry -> {Other("unknown")}
                         [] name \in DOMAIN registry \cap Builtin["check"] -> {Reported(r) : r \in Found[name]}
                         [] OTHER -> {Other(c) : c \in {"clean", "warned", "failed", "raised"}})
        /\ outcome' = [n \in DOMAIN outcome \cup {name} |-> IF n = name THEN result ELSE outcome[n]]
  BY DEF RunCheck
<1>3. \A n \in DOMAIN registry : Known(n)
  BY <1>1 DEF CheckInv, Registers, Known, Checking
<1>4. Sound(name, result)
  <2>1. CASE name \notin DOMAIN registry
    <3>1. result \in {Other("unknown")}
      BY <1>2, <2>1
    <3>2. result.class = "unknown"
      BY <3>1 DEF Other
    <3> QED BY <3>2 DEF Sound
  <2>2. CASE name \in DOMAIN registry /\ name \in Builtin["check"]
    <3>1. PICK r \in Found[name] : result = Reported(r)
      BY <1>2, <2>2
    <3> QED BY <1>3, <2>2, <3>1, FoundTrue DEF Sound
  <2>3. CASE name \in DOMAIN registry /\ name \notin Builtin["check"]
    <3>1. PICK c \in {"clean", "warned", "failed", "raised"} : result = Other(c)
      BY <1>2, <2>3
    <3> QED BY <1>3, <2>3, <3>1 DEF Sound, Other
  <2> QED BY <2>1, <2>2, <2>3
<1>5. \A n \in DOMAIN outcome' : Sound(n, outcome'[n])
  BY <1>2, <1>4 DEF CheckInv, Outcomes
<1>6. \A n, o : Sound(n, o) => Sound(n, o)'
  BY <1>1 DEF Sound, Known, PortGiven
<1>7. Outcomes'
  BY <1>5, <1>6 DEF Outcomes
<1>8. LastCheck' /\ Registers' /\ OnlyChecking'
  BY <1>1 DEF CheckInv, LastCheck, Registers, OnlyChecking, Checking, Kind
<1>9. verdict' # "ok"
  BY <1>1 DEF CheckInv, OkHolds, Checking
<1> QED BY <1>7, <1>8, <1>9 DEF CheckInv, OkHolds

LEMMA EvaluateStep == ASSUME CheckInv, EvaluateChecks, environ' = environ PROVE CheckInv'
<1>1. /\ Checking /\ unrun = {} /\ todo' = Tail(todo) /\ registry' = None
      /\ UNCHANGED <<loaded, failed, unrun, outcome>>
  BY DEF EvaluateChecks
<1>2. todo' = << >>
  BY <1>1, CheckingLast DEF CheckInv
<1>3. verdict' = "ok" => failed = {} /\ Came("unknown") = {} /\ Came("failed") = {}
  <2>1. PICK errors \in Errors : verdict' = "ok" => errors = {}
    BY DEF EvaluateChecks
  <2>2. failed \cup Came("unknown") \cup Came("failed") \subseteq errors
    BY <2>1 DEF Errors
  <2> QED BY <2>1, <2>2
<1>4. Outcomes' /\ OkHolds'
  BY <1>1, <1>2, <1>3 DEF CheckInv, Outcomes, Sound, PortGiven, Known, OkHolds, Came
<1> QED BY <1>1, <1>2, <1>4, EmptyLast DEF CheckInv, Registers, OnlyChecking

LEMMA CheckInvStep ==
  ASSUME Builtin["check"] \subseteq {"clickhouse", "kafka"}, CheckInv, Next
  PROVE  CheckInv'
<1>1. CASE StartProgram
  <2>1. /\ todo = << >> /\ \E program \in Programs : todo' = program
        /\ outcome' = << >> /\ verdict' = "none" /\ registry' = registry
    BY <1>1 DEF StartProgram, Start, buildVars
  <2>2. registry' = None
    BY <2>1 DEF CheckInv, Registers
  <2>3. DOMAIN outcome' = {}
    BY <2>1
  <2> QED BY <2>1, <2>2, <2>3, ProgramsLast DEF CheckInv, Registers, OnlyChecking, Outcomes, OkHolds
<1>2. CASE Prepare
  <2>1. CASE SkipSection
    BY <2>1, HereNotChecking, Between DEF SkipSection, buildVars
  <2>2. CASE ValidateSection
    BY <2>2, HereNotChecking, Between DEF ValidateSection, Done, Refuse
  <2>3. CASE ValidateRunner
    BY <2>3, HereNotChecking, Between DEF ValidateRunner, Done, Refuse
  <2>4. CASE GetRunner
    BY <2>4, HereNotChecking, Between DEF GetRunner, Done, Refuse
  <2>5. CASE BuildHooks
    BY <2>5, HereNotChecking, Between DEF BuildHooks, Done, Refuse
  <2>6. environ' = environ
    BY <1>2 DEF Prepare, connVars
  <2> QED BY <1>2, <2>1, <2>2, <2>3, <2>4, <2>5, <2>6, BuildStep, LoadStep, SelectStep, EvaluateStep
          DEF Prepare, ExtNext
<1>3. CASE Check
  BY <1>3, CheckStep DEF Check, connVars
<1>4. CASE Resolve
  <2>1. CASE UNCHANGED extVars
    BY <1>4, <2>1, HereNotChecking, ExtKept DEF Resolve, Resolving
  <2>2. CASE Refuse
    BY <1>4, <2>2, HereNotChecking, Between DEF Resolve, Resolving, Refuse
  <2> QED BY <1>4, <2>1, <2>2 DEF Resolve
<1>5. CASE VaultChanges \/ Enter
  BY <1>5, HereNotChecking, ExtKept DEF VaultChanges, Resolving, Enter
<1>9. CASE EnterRaises
  BY <1>9, HereNotChecking, Between DEF EnterRaises, Refuse
<1>6. CASE Resolved
  BY <1>6, HereNotChecking, Between DEF Resolved, Resolving, Done
<1>7. CASE Extra
  BY <1>7, HereNotChecking, Between DEF Extra, Done
<1>8. CASE Leave
  <2>1. todo # << >> /\ ~Checking /\ Kind \notin Kinds
    BY <1>8, HereNotChecking, NoOtherTask DEF Leave, Scoped, Kind, Kinds
  <2>2. registry' = None
    BY <1>8, <2>1 DEF Leave, buildVars, CheckInv, Registers
  <2> QED BY <1>8, <2>1, <2>2, Between DEF Leave
<1> QED BY <1>1, <1>2, <1>3, <1>4, <1>5, <1>6, <1>7, <1>8, <1>9 DEF Next

(* "infra run" says ok only if every plugin loaded whole, every check that    *)
(* was selected exists and evaluate made no error of what it left: a built-in *)
(* one reached a server, which answered if its client is there, but for       *)
(* ClickHouse's with a port of its own, which may have raised before it tried *)
(* (run_infra_checks, evaluate); the built-in checks are the two of           *)
(* online_checks.py.                                                         *)
THEOREM OkIsChecked ==
  ASSUME Builtin["check"] \subseteq {"clickhouse", "kafka"}
  PROVE  Spec => []OkMeansChecked
<1>1. Init => CheckInv
  <2> SUFFICES ASSUME Init PROVE CheckInv
    OBVIOUS
  <2>1. /\ todo = << >> /\ verdict = "none" /\ registry = None /\ outcome = << >>
    BY DEF Init, ExtInit
  <2>2. << >> \in Seq(Calm) /\ DOMAIN outcome = {}
    BY <2>1
  <2> QED BY <2>1, <2>2 DEF CheckInv, LastCheck, Registers, OnlyChecking, Outcomes, OkHolds
<1>2. CheckInv /\ [Next]_vars => CheckInv'
  <2>1. UNCHANGED vars => UNCHANGED extVars /\ environ' = environ
    BY DEF vars, connVars
  <2> QED BY <2>1, CheckInvStep, ExtKept
<1>3. CheckInv => OkMeansChecked
  <2> SUFFICES ASSUME CheckInv, verdict = "ok" PROVE OkMeansChecked
    BY DEF OkMeansChecked
  <2>1. unrun = {} /\ failed = {} /\ Came("unknown") = {} /\ Came("failed") = {}
    BY DEF CheckInv, OkHolds
  <2>2. \A n \in DOMAIN outcome : outcome[n].class \notin {"unknown", "failed"}
    BY <2>1 DEF Came
  <2> QED BY <2>1, <2>2 DEF CheckInv, Outcomes, Sound, PortGiven, Known, OkMeansChecked
<1> QED BY <1>1, <1>2, <1>3, PTL DEF Spec

-------------------------------------------------------------------------------
(* What is known of the registries. A set of plugins is clean for a kind    *)
(* when all of it can be registered beside the built-in items.              *)
Whole(p) ==
  \A i \in DOMAIN Offers[p] :
    Offers[p][i] # Broken /\ \A j \in DOMAIN Offers[p] : j # i => Offers[p][j] # Offers[p][i]
Clean(kind, plugins) ==
  /\ \A p \in plugins : Whole(p) /\ Range(Offers[p]) \cap Builtin[kind] = {}
  /\ \A p, q \in plugins : p # q => Range(Offers[p]) \cap Range(Offers[q]) = {}
Offered(plugins) == UNION {Range(Offers[p]) : p \in plugins}

(* The plugins that a use of a kind loads, whatever their order.            *)
Wants(use, kind) == Range(manifest.plugins[kind]) \cup (IF use = "run" THEN Range(env[kind]) ELSE {})

(* While a registry is built, no plugin has failed just as long as those    *)
(* so far are clean, and then every name leads to who offers it.            *)
Holds(kind) ==
  /\ Clean(kind, loaded)
  /\ DOMAIN registry = Builtin[kind] \cup Offered(loaded)
  /\ \A n \in Builtin[kind] : registry[n] = "builtin"
  /\ \A p \in loaded : \A n \in Range(Offers[p]) : registry[n] = p
Loading ==
  registry # None =>
    /\ todo # << >> /\ Kind \in Kinds
    /\ pending \in Seq(Plugins)
    /\ loaded \cup failed \cup Range(pending) = Wants(Head(todo).use, Kind)
    /\ failed = {} => Holds(Kind)
    /\ Clean(Kind, loaded \cup failed \cup Range(pending)) => failed = {}

(* How far a program is: the place of its next task in a run.               *)
Stage(t) ==
  IF t.use = "validate" THEN (IF t.kind = "hook" THEN 1 ELSE IF t.kind = "check" THEN 2 ELSE 3)
  ELSE IF t.use = "resolve" THEN 4
  ELSE IF t.use = "extra" THEN 5
  ELSE IF t.use = "run" /\ t.kind = "runner" THEN 6
  ELSE IF t.use = "run" /\ t.kind = "hook" THEN 7
  ELSE IF t.use = "scope" THEN 8 ELSE 0
Tasks == Calm \cup {Task("run", "check"), Task("bare", "check")}
InOrder ==
  /\ todo \in Seq(Tasks)
  /\ \A i \in 1..(Len(todo) - 1) : Stage(todo[i + 1]) = Stage(todo[i]) + 1

(* What the validator leaves behind for the run.                            *)
HooksFound ==
  /\ Clean("hook", Range(manifest.plugins["hook"]))
  /\ Named("hook") \subseteq Builtin["hook"] \cup Offered(Range(manifest.plugins["hook"]))
RunnerFound ==
  /\ Clean("runner", Range(manifest.plugins["runner"]))
  /\ \/ manifest.runner \in Builtin["runner"] /\ validated = "builtin"
     \/ \E p \in Range(manifest.plugins["runner"]) : manifest.runner \in Range(Offers[p]) /\ validated = p
Progress ==
  todo # << >> =>
    /\ Stage(Head(todo)) > 1 => HooksFound
    /\ Stage(Head(todo)) > 3 => RunnerFound
    /\ Stage(Head(todo)) > 6 => validated \in taken

Listed == \A kind \in Kinds : manifest.plugins[kind] \in Seq(Plugins) /\ env[kind] \in Seq(Plugins)
SetupInv == Listed /\ InOrder /\ Loading /\ Progress

-------------------------------------------------------------------------------
LEMMA StageOf ==
  /\ Stage(Task("validate", "hook")) = 1 /\ Stage(Task("validate", "check")) = 2
  /\ Stage(Task("validate", "runner")) = 3 /\ Stage(Task("resolve", "connections")) = 4
  /\ Stage(Task("extra", "connections")) = 5 /\ Stage(Task("run", "runner")) = 6
  /\ Stage(Task("run", "hook")) = 7 /\ Stage(Task("scope", "pipeline")) = 8
  /\ Stage(Task("run", "check")) = 0 /\ Stage(Task("bare", "check")) = 0
BY DEF Stage, Task

LEMMA StageIsNat == ASSUME NEW t \in Tasks PROVE Stage(t) \in 0..8
BY StageOf DEF Tasks, Calm

(* A plugin loads whole when it offers nothing that is there, no name twice *)
(* and nothing that raises.                                                 *)
LEMMA LoadsWhole ==
  ASSUME NEW p \in Plugins
  PROVE  Registered(p) = DOMAIN Offers[p] <=> Whole(p) /\ Range(Offers[p]) \cap DOMAIN registry = {}
<1> DEFINE names == Offers[p]
           fresh(i) == names[i] # Broken /\ names[i] \notin DOMAIN registry /\ \A j \in 1..(i - 1) : names[j] # names[i]
<1>1. PICK l \in Nat : DOMAIN names = 1..l
  BY ExtAssumption
<1>2. Registered(p) = {m \in DOMAIN names : \A i \in 1..m : fresh(i)}
  BY DEF Registered
<1>3. Registered(p) = DOMAIN names <=> \A i \in DOMAIN names : fresh(i)
  <2>1. ASSUME \A i \in DOMAIN names : fresh(i) PROVE Registered(p) = DOMAIN names
    <3>1. \A m \in 1..l : \A i \in 1..m : i \in 1..l
      OBVIOUS
    <3> QED BY <1>1, <1>2, <2>1, <3>1
  <2>2. ASSUME Registered(p) = DOMAIN names, NEW i \in DOMAIN names PROVE fresh(i)
    <3>1. i \in 1..i
      BY <1>1
    <3> QED BY <1>2, <2>2, <3>1
  <2> QED BY <2>1, <2>2
<1>4. ASSUME \A i \in DOMAIN names : fresh(i) PROVE Whole(p) /\ Range(names) \cap DOMAIN registry = {}
  <2>1. ASSUME NEW i \in DOMAIN names, NEW j \in DOMAIN names, j # i PROVE names[j] # names[i]
    <3>1. j \in 1..(i - 1) \/ i \in 1..(j - 1)
      BY <1>1, <2>1
    <3> QED BY <1>4, <3>1
  <2> QED BY <1>4, <2>1 DEF Whole, Range
<1>5. ASSUME Whole(p), Range(names) \cap DOMAIN registry = {}, NEW i \in DOMAIN names PROVE fresh(i)
  <2>1. \A j \in 1..(i - 1) : j \in DOMAIN names /\ j # i
    BY <1>1
  <2> QED BY <1>5, <2>1 DEF Whole, Range
<1> QED BY <1>3, <1>4, <1>5

-------------------------------------------------------------------------------
LEMMA RangeOfConcat ==
  ASSUME NEW S, NEW e \in Seq(S), NEW m \in Seq(S)
  PROVE  Range(e \o m) = Range(e) \cup Range(m)
<1>1. PICK k \in Nat, l \in Nat :
        /\ DOMAIN e = 1..k /\ DOMAIN m = 1..l /\ DOMAIN (e \o m) = 1..(k + l)
        /\ \A i \in 1..k : (e \o m)[i] = e[i]
        /\ \A i \in 1..l : (e \o m)[k + i] = m[i]
  <2>1. Len(e) \in Nat /\ Len(m) \in Nat
    OBVIOUS
  <2>2. /\ DOMAIN e = 1..Len(e) /\ DOMAIN m = 1..Len(m) /\ DOMAIN (e \o m) = 1..(Len(e) + Len(m))
        /\ \A i \in 1..Len(e) : (e \o m)[i] = e[i]
        /\ \A i \in 1..Len(m) : (e \o m)[Len(e) + i] = m[i]
    OBVIOUS
  <2> QED BY <2>1, <2>2
<1>2. ASSUME NEW x \in Range(e \o m) PROVE x \in Range(e) \cup Range(m)
  <2>1. PICK i \in 1..(k + l) : x = (e \o m)[i]
    BY <1>1 DEF Range
  <2>2. CASE i \in 1..k
    BY <1>1, <2>1, <2>2 DEF Range
  <2>3. CASE i \notin 1..k
    <3>1. i - k \in 1..l /\ k + (i - k) = i
      BY <1>1, <2>3
    <3>2. x = m[i - k]
      BY <1>1, <2>1, <3>1
    <3> QED BY <1>1, <3>1, <3>2 DEF Range
  <2> QED BY <2>2, <2>3
<1>3. ASSUME NEW x \in Range(e) PROVE x \in Range(e \o m)
  <2>1. PICK i \in 1..k : x = e[i]
    BY <1>1, <1>3 DEF Range
  <2>2. i \in DOMAIN (e \o m) /\ x = (e \o m)[i]
    BY <1>1, <2>1
  <2> QED BY <2>2 DEF Range
<1>4. ASSUME NEW x \in Range(m) PROVE x \in Range(e \o m)
  <2>1. PICK i \in 1..l : x = m[i]
    BY <1>1, <1>4 DEF Range
  <2>2. k + i \in DOMAIN (e \o m) /\ x = (e \o m)[k + i]
    BY <1>1, <2>1
  <2> QED BY <2>2 DEF Range
<1> QED BY <1>2, <1>3, <1>4

LEMMA BuildsClean == ASSUME SetupInv, Build PROVE SetupInv'
<1> DEFINE use == Head(todo).use
<1>1. /\ todo # << >> /\ Kind \in Kinds /\ registry' = [n \in Builtin[Kind] |-> "builtin"]
      /\ pending' = Specs(use, Kind) /\ loaded' = {} /\ failed' = {}
      /\ UNCHANGED <<manifest, env, todo, validated, taken>>
  BY DEF Build
<1>2. Kind' = Kind /\ Wants(use, Kind)' = Wants(use, Kind)
  BY <1>1 DEF Kind, Wants
<1>3. pending' \in Seq(Plugins) /\ Range(pending') = Wants(use, Kind)
  <2> DEFINE e == IF use = "run" THEN env[Kind] ELSE << >>
             m == manifest.plugins[Kind]
  <2>1. e \in Seq(Plugins) /\ m \in Seq(Plugins) /\ pending' = e \o m
    BY <1>1 DEF SetupInv, Listed, Specs
  <2>2. Range(e) = IF use = "run" THEN Range(env[Kind]) ELSE {}
    BY DEF Range
  <2> HIDE DEF e, m
  <2>3. e \o m \in Seq(Plugins)
    BY <2>1
  <2>4. Range(e \o m) = Range(e) \cup Range(m)
    BY <2>1, RangeOfConcat
  <2> QED BY <2>1, <2>2, <2>3, <2>4 DEF Wants, m
<1>4. Holds(Kind)'
  <2>1. DOMAIN registry' = Builtin[Kind] /\ \A n \in Builtin[Kind] : registry'[n] = "builtin"
    BY <1>1
  <2>2. Offered({}) = {}
    BY DEF Offered
  <2> QED BY <1>1, <1>2, <2>1, <2>2 DEF Holds, Clean
<1>5. Loading'
  <2>1. loaded' \cup failed' \cup Range(pending') = Wants(use, Kind)
    BY <1>1, <1>3
  <2> QED BY <1>1, <1>2, <1>3, <1>4, <2>1 DEF Loading
<1> QED BY <1>1, <1>5 DEF SetupInv, Listed, InOrder, Progress, HooksFound, RunnerFound, Named

LEMMA LoadsClean == ASSUME SetupInv, LoadPlugin PROVE SetupInv'
<1> DEFINE plugin == Head(pending)
           names == {Offers[plugin][i] : i \in Registered(plugin)}
           all == loaded \cup failed \cup Range(pending)
<1>1. /\ registry # None /\ pending # << >> /\ pending' = Tail(pending)
      /\ UNCHANGED <<manifest, env, todo, validated, taken>>
  BY DEF LoadPlugin
<1>2. /\ todo # << >> /\ Kind \in Kinds /\ pending \in Seq(Plugins)
      /\ all = Wants(Head(todo).use, Kind)
      /\ failed = {} => Holds(Kind)
      /\ Clean(Kind, all) => failed = {}
  BY <1>1 DEF SetupInv, Loading
<1>3. /\ plugin \in Plugins /\ pending' \in Seq(Plugins)
      /\ Range(pending) = {plugin} \cup Range(pending')
  <2>1. PICK l \in Nat : l = Len(pending) /\ l >= 1 /\ DOMAIN pending = 1..l
    BY <1>1, <1>2
  <2>2. /\ plugin = pending[1] /\ pending' \in Seq(Plugins) /\ DOMAIN pending' = 1..(l - 1)
        /\ \A i \in 1..(l - 1) : pending'[i] = pending[i + 1]
    BY <1>1, <1>2, <2>1
  <2>3. \A i \in 1..l : i = 1 \/ (i - 1 \in 1..(l - 1) /\ i = (i - 1) + 1)
    BY <2>1
  <2>4. \A i \in 1..(l - 1) : i + 1 \in 1..l
    BY <2>1
  <2>5. 1 \in DOMAIN pending
    BY <2>1
  <2> HIDE DEF plugin
  <2>6. ASSUME NEW x \in Range(pending) PROVE x \in {plugin} \cup Range(pending')
    <3>1. PICK i \in 1..l : x = pending[i]
      BY <2>1 DEF Range
    <3>2. CASE i = 1
      BY <2>2, <3>1, <3>2
    <3>3. CASE i # 1
      <4>1. i - 1 \in DOMAIN pending' /\ pending'[i - 1] = pending[(i - 1) + 1] /\ (i - 1) + 1 = i
        BY <2>2, <2>3, <3>3
      <4> QED BY <3>1, <4>1 DEF Range
    <3> QED BY <3>2, <3>3
  <2>7. ASSUME NEW x \in Range(pending') PROVE x \in Range(pending)
    <3>1. PICK i \in 1..(l - 1) : x = pending'[i]
      BY <2>2 DEF Range
    <3> QED BY <2>1, <2>2, <2>4, <3>1 DEF Range
  <2>8. plugin \in Range(pending)
    BY <2>2, <2>5 DEF Range
  <2>9. plugin \in Plugins
    BY <1>2, <2>2, <2>5
  <2> QED BY <2>2, <2>6, <2>7, <2>8, <2>9
<1>4. Kind' = Kind /\ Wants(Head(todo).use, Kind)' = Wants(Head(todo).use, Kind)
  BY <1>1 DEF Kind, Wants
<1> HIDE DEF plugin
<1>5. CASE Again(plugin) /\ UNCHANGED <<registry, loaded, failed>>
  <2>1. loaded' \cup failed' \cup Range(pending') = all
    BY <1>3, <1>5 DEF Again
  <2> QED BY <1>1, <1>2, <1>3, <1>4, <1>5, <2>1
          DEF Loading, Holds, SetupInv, Listed, InOrder, Progress, HooksFound, RunnerFound, Named
<1>6. CASE /\ ~Again(plugin) /\ registry' = With(names, plugin)
           /\ Registered(plugin) = DOMAIN Offers[plugin]
           /\ loaded' = loaded \cup {plugin} /\ failed' = failed
  <2>1. loaded' \cup failed' \cup Range(pending') = all
    BY <1>3, <1>6
  <2>2. Whole(plugin) /\ Range(Offers[plugin]) \cap DOMAIN registry = {}
    BY <1>3, <1>6, LoadsWhole
  <2>3. names = Range(Offers[plugin])
    BY <1>6 DEF Range
  <2>4. ASSUME failed = {} PROVE Holds(Kind)'
    <3>1. Holds(Kind)
      BY <1>2, <2>4
    <3>2. /\ DOMAIN registry' = DOMAIN registry \cup Range(Offers[plugin])
          /\ \A n \in DOMAIN registry : registry'[n] = registry[n]
          /\ \A n \in Range(Offers[plugin]) : registry'[n] = plugin
      BY <1>6, <2>2, <2>3 DEF With
    <3>3. Offered(loaded') = Offered(loaded) \cup Range(Offers[plugin])
      BY <1>6 DEF Offered
    <3>4. Clean(Kind, loaded')
      BY <1>6, <2>2, <3>1 DEF Holds, Clean, Offered
    <3>5. \A p \in loaded : Range(Offers[p]) \subseteq DOMAIN registry
      BY <3>1 DEF Holds, Offered
    <3>6. \A p \in loaded' : \A n \in Range(Offers[p]) : registry'[n] = p
      BY <1>6, <3>1, <3>2, <3>5 DEF Holds
    <3>7. \A n \in Builtin[Kind] : registry'[n] = "builtin"
      BY <3>1, <3>2 DEF Holds
    <3>8. DOMAIN registry' = Builtin[Kind] \cup Offered(loaded')
      BY <3>1, <3>2, <3>3 DEF Holds
    <3> QED BY <1>4, <3>4, <3>6, <3>7, <3>8 DEF Holds
  <2>5. Loading'
    BY <1>1, <1>2, <1>3, <1>4, <1>6, <2>1, <2>4 DEF Loading
  <2> QED BY <1>1, <2>5 DEF SetupInv, Listed, InOrder, Progress, HooksFound, RunnerFound, Named
<1>7. CASE /\ ~Again(plugin) /\ registry' = With(names, plugin)
           /\ Registered(plugin) # DOMAIN Offers[plugin]
           /\ failed' = failed \cup {plugin} /\ loaded' = loaded
  <2>1. loaded' \cup failed' \cup Range(pending') = all
    BY <1>3, <1>7
  <2>2. ~Clean(Kind, all)
    <3> SUFFICES ASSUME Clean(Kind, all) PROVE FALSE
      OBVIOUS
    <3>1. failed = {} /\ Holds(Kind)
      BY <1>2
    <3>2. plugin \in all /\ plugin \notin loaded /\ loaded \subseteq all
      BY <1>3, <1>7 DEF Again
    <3>3. Whole(plugin) /\ Range(Offers[plugin]) \cap Builtin[Kind] = {}
      BY <3>2 DEF Clean
    <3>4. \A p \in loaded : Range(Offers[plugin]) \cap Range(Offers[p]) = {}
      BY <3>2 DEF Clean
    <3>5. Range(Offers[plugin]) \cap DOMAIN registry = {}
      BY <3>1, <3>3, <3>4 DEF Holds, Offered
    <3> QED BY <1>3, <1>7, <3>3, <3>5, LoadsWhole
  <2>3. Loading'
    BY <1>1, <1>2, <1>3, <1>4, <1>7, <2>1, <2>2 DEF Loading
  <2> QED BY <1>1, <2>3 DEF SetupInv, Listed, InOrder, Progress, HooksFound, RunnerFound, Named
<1> QED BY <1>5, <1>6, <1>7 DEF LoadPlugin, plugin

-------------------------------------------------------------------------------
LEMMA SetupKept ==
  ASSUME SetupInv, UNCHANGED <<manifest, env, todo, registry, pending, loaded, failed, validated, taken>>
  PROVE  SetupInv'
BY DEF SetupInv, Listed, InOrder, Loading, Kind, Wants, Holds, Progress, HooksFound, RunnerFound, Named

LEMMA SetupEnds ==
  ASSUME SetupInv, UNCHANGED <<manifest, env>>, todo' = << >>, registry' = None
  PROVE  SetupInv'
<1>1. InOrder'
  <2>1. << >> \in Seq(Tasks) /\ Len(<< >>) = 0
    OBVIOUS
  <2>2. todo' \in Seq(Tasks) /\ Len(todo') = 0
    BY <2>1
  <2>3. \A i \in 1..(Len(todo') - 1) : FALSE
    BY <2>2
  <2> QED BY <2>2, <2>3 DEF InOrder
<1> QED BY <1>1 DEF SetupInv, Listed, Loading, Progress

(* A task that is done leaves what the tasks after it count on.             *)
LEMMA SetupAdvances ==
  ASSUME SetupInv, UNCHANGED <<manifest, env>>, todo # << >>, todo' = Tail(todo), registry' = None,
         Stage(Head(todo)) >= 1 => HooksFound,
         Stage(Head(todo)) >= 3 => RunnerFound',
         Stage(Head(todo)) >= 6 => validated' \in taken'
  PROVE  SetupInv'
<1>1. PICK l \in Nat : l = Len(todo) /\ l >= 1 /\ DOMAIN todo = 1..l /\ todo \in Seq(Tasks)
  BY DEF SetupInv, InOrder
<1>2. /\ todo' \in Seq(Tasks) /\ Len(todo') = l - 1 /\ DOMAIN todo' = 1..(l - 1)
      /\ \A i \in 1..(l - 1) : todo'[i] = todo[i + 1]
  BY <1>1
<1>3. \A i \in 1..(l - 1) : Stage(todo[i + 1]) = Stage(todo[i]) + 1
  BY <1>1 DEF SetupInv, InOrder
<1>4. InOrder'
  <2> SUFFICES ASSUME NEW i \in 1..(l - 2) PROVE Stage(todo'[i + 1]) = Stage(todo'[i]) + 1
    <3>1. Len(todo') - 1 = l - 2
      BY <1>1, <1>2
    <3> QED BY <1>2, <3>1 DEF InOrder
  <2>1. i \in 1..(l - 1) /\ i + 1 \in 1..(l - 1)
    BY <1>1
  <2> QED BY <1>2, <1>3, <2>1
<1>5. ASSUME todo' # << >> PROVE Stage(Head(todo')) = Stage(Head(todo)) + 1 /\ Stage(Head(todo)) \in Nat
  <2>1. 1 \in 1..(l - 1) /\ 1 + 1 = 2
    BY <1>1, <1>2, <1>5
  <2>2. Head(todo') = todo[2] /\ Head(todo) = todo[1]
    BY <1>1, <1>2, <1>5, <2>1
  <2>3. todo[1] \in Tasks
    BY <1>1
  <2>4. Stage(todo[1]) \in Nat
    BY <2>3, StageIsNat
  <2> QED BY <1>3, <2>1, <2>2, <2>4
<1>6. Progress'
  <2>1. HooksFound' <=> HooksFound
    BY DEF HooksFound, Named
  <2> SUFFICES ASSUME todo' # << >>
               PROVE  /\ Stage(Head(todo')) > 1 => HooksFound'
                      /\ Stage(Head(todo')) > 3 => RunnerFound'
                      /\ Stage(Head(todo')) > 6 => validated' \in taken'
    BY DEF Progress
  <2> QED BY <1>5, <2>1
<1> QED BY <1>4, <1>6 DEF SetupInv, Listed, Loading

LEMMA StageHere ==
  ASSUME NEW use, NEW kind, Here(use, {kind})
  PROVE  todo # << >> /\ Head(todo) = Task(use, kind) /\ Kind = kind /\ Head(todo).use = use
BY DEF Here, Task, Kind

(* What a registry has once all plugins are loaded.                         *)
LEMMA WhatIsBuilt ==
  ASSUME SetupInv, Built
  PROVE  /\ Kind \in Kinds /\ loaded \cup failed = Wants(Head(todo).use, Kind)
         /\ failed = {} => Holds(Kind)
         /\ Clean(Kind, loaded \cup failed) => failed = {}
<1>1. Range(pending) = {}
  BY DEF Built, Range
<1> QED BY <1>1 DEF SetupInv, Loading, Built

LEMMA HooksValidated ==
  ASSUME SetupInv, Here("validate", {"hook"}), Built, failed = {}, Named("hook") \subseteq DOMAIN registry
  PROVE  HooksFound
<1>1. Kind = "hook" /\ Head(todo).use = "validate"
  BY StageHere
<1>2. loaded = Range(manifest.plugins["hook"]) /\ Holds("hook")
  BY <1>1, WhatIsBuilt DEF Wants
<1> QED BY <1>2 DEF HooksFound, Holds

LEMMA HooksUnconfigured == ASSUME SetupInv, ~Configured("hook") PROVE HooksFound
<1>1. Range(manifest.plugins["hook"]) = {} /\ Named("hook") = {}
  BY DEF Configured, Range
<1> QED BY <1>1 DEF HooksFound, Clean

LEMMA RunnerOrigin ==
  ASSUME SetupInv, Built, failed = {}, manifest.runner \in DOMAIN registry, Here("validate", {"runner"}),
         validated' = registry[manifest.runner], manifest' = manifest
  PROVE  RunnerFound'
<1>1. Kind = "runner" /\ Head(todo).use = "validate"
  BY StageHere
<1>2. loaded = Range(manifest.plugins["runner"]) /\ Holds("runner")
  BY <1>1, WhatIsBuilt DEF Wants
<1>3. CASE manifest.runner \in Builtin["runner"]
  BY <1>2, <1>3 DEF RunnerFound, Holds
<1>4. CASE manifest.runner \in Offered(loaded)
  <2>1. PICK p \in loaded : manifest.runner \in Range(Offers[p])
    BY <1>4 DEF Offered
  <2>2. registry[manifest.runner] = p
    BY <1>2, <2>1 DEF Holds
  <2> QED BY <1>2, <2>1, <2>2 DEF RunnerFound, Holds
<1> QED BY <1>2, <1>3, <1>4 DEF Holds

(* The run finds the runner that validation found.                          *)
LEMMA RunnerAgain ==
  ASSUME SetupInv, Here("run", {"runner"}), Built, failed = {}
  PROVE  manifest.runner \in DOMAIN registry /\ registry[manifest.runner] = validated
<1>1. /\ todo # << >> /\ Head(todo) = Task("run", "runner")
      /\ Kind = "runner" /\ Head(todo).use = "run"
  BY StageHere
<1>2. RunnerFound
  BY <1>1, StageOf DEF SetupInv, Progress
<1>3. Range(manifest.plugins["runner"]) \subseteq loaded /\ Holds("runner")
  BY <1>1, WhatIsBuilt DEF Wants
<1>4. CASE manifest.runner \in Builtin["runner"] /\ validated = "builtin"
  BY <1>3, <1>4 DEF Holds
<1>5. CASE \E p \in Range(manifest.plugins["runner"]) : manifest.runner \in Range(Offers[p]) /\ validated = p
  <2>1. PICK p \in loaded : manifest.runner \in Range(Offers[p]) /\ validated = p
    BY <1>3, <1>5
  <2>2. manifest.runner \in Offered(loaded)
    BY <2>1 DEF Offered
  <2> QED BY <1>3, <2>1, <2>2 DEF Holds
<1> QED BY <1>2, <1>4, <1>5 DEF RunnerFound

-------------------------------------------------------------------------------
LEMMA StartsInOrder == ASSUME NEW program \in Programs, todo' = program PROVE InOrder' /\ (todo' # << >> => Stage(Head(todo')) <= 1)
<1> DEFINE a == Task("validate", "hook")
           b == Task("validate", "check")
           c == Task("validate", "runner")
           d == Task("resolve", "connections")
           e == Task("extra", "connections")
           f == Task("run", "runner")
           g == Task("run", "hook")
           h == Task("scope", "pipeline")
           x == Task("run", "check")
           y == Task("bare", "check")
<1>1. /\ Stage(a) = 1 /\ Stage(b) = 2 /\ Stage(c) = 3 /\ Stage(d) = 4 /\ Stage(e) = 5
      /\ Stage(f) = 6 /\ Stage(g) = 7 /\ Stage(h) = 8 /\ Stage(x) = 0 /\ Stage(y) = 0
  BY StageOf
<1>2. Tasks = {a, b, c, d, e, f, g, h, x, y}
  BY DEF Tasks, Calm
<1>3. Programs = {<<a, b, c>>, <<a, b, c>> \o <<d, e, f, g, h>>, <<x>>, <<y>>}
  BY DEF Programs, Run, Validation
<1> HIDE DEF a, b, c, d, e, f, g, h, x, y
<1>4. <<a, b, c>> \in Seq(Tasks) /\ <<d, e, f, g, h>> \in Seq(Tasks) /\ <<x>> \in Seq(Tasks) /\ <<y>> \in Seq(Tasks)
  BY <1>2
<1>5. CASE program \in {<<x>>, <<y>>}
  <2>1. todo' \in Seq(Tasks) /\ Len(todo') = 1 /\ Head(todo') \in {x, y}
    <3>1. PICK t \in Tasks : program = <<t>> /\ t \in {x, y}
      BY <1>2, <1>5
    <3> QED BY <3>1
  <2>2. \A i \in 1..(Len(todo') - 1) : FALSE
    BY <2>1
  <2> QED BY <1>1, <2>1, <2>2 DEF InOrder
<1>6. CASE program = <<a, b, c>>
  <2>1. todo' \in Seq(Tasks) /\ Len(todo') = 3 /\ todo'[1] = a /\ todo'[2] = b /\ todo'[3] = c
    BY <1>4, <1>6
  <2>2. ASSUME NEW i \in 1..(Len(todo') - 1) PROVE Stage(todo'[i + 1]) = Stage(todo'[i]) + 1
    <3>1. i = 1 \/ i = 2
      BY <2>1
    <3>2. 1 + 1 = 2 /\ 2 + 1 = 3
      OBVIOUS
    <3> QED BY <1>1, <2>1, <3>1, <3>2
  <2> QED BY <1>1, <2>1, <2>2 DEF InOrder
<1>7. CASE program = <<a, b, c>> \o <<d, e, f, g, h>>
  <2>1. PICK s \in Seq(Tasks) : s = <<a, b, c>> /\ Len(s) = 3 /\ s[1] = a /\ s[2] = b /\ s[3] = c
    BY <1>4
  <2>2. PICK t \in Seq(Tasks) : /\ t = <<d, e, f, g, h>> /\ Len(t) = 5
                                /\ t[1] = d /\ t[2] = e /\ t[3] = f /\ t[4] = g /\ t[5] = h
    BY <1>4
  <2>3. /\ todo' \in Seq(Tasks) /\ Len(todo') = 8
        /\ \A i \in 1..3 : todo'[i] = s[i]
        /\ \A i \in 4..8 : todo'[i] = t[i - 3]
    <3>1. todo' = s \o t
      BY <1>7, <2>1, <2>2
    <3> QED BY <2>1, <2>2, <3>1, ConcatProperties
  <2>4. /\ Stage(todo'[1]) = 1 /\ Stage(todo'[2]) = 2 /\ Stage(todo'[3]) = 3
    BY <1>1, <2>1, <2>3
  <2>5. /\ todo'[4] = t[1] /\ todo'[5] = t[2] /\ todo'[6] = t[3] /\ todo'[7] = t[4] /\ todo'[8] = t[5]
    BY <2>3
  <2>6. \A i \in 1..8 : Stage(todo'[i]) = i
    <3> SUFFICES ASSUME NEW i \in 1..8 PROVE Stage(todo'[i]) = i
      OBVIOUS
    <3>1. i = 1 \/ i = 2 \/ i = 3 \/ i = 4 \/ i = 5 \/ i = 6 \/ i = 7 \/ i = 8
      OBVIOUS
    <3> QED BY <1>1, <2>2, <2>4, <2>5, <3>1
  <2>7. ASSUME NEW i \in 1..(Len(todo') - 1) PROVE Stage(todo'[i + 1]) = Stage(todo'[i]) + 1
    <3>1. i \in 1..8 /\ i + 1 \in 1..8
      BY <2>3
    <3> QED BY <2>6, <3>1
  <2>8. Stage(Head(todo')) = 1
    BY <2>3, <2>6
  <2> QED BY <2>3, <2>7, <2>8 DEF InOrder
<1> QED BY <1>3, <1>5, <1>6, <1>7

LEMMA ExtStep == ASSUME SetupInv, ExtNext PROVE SetupInv'
<1>1. CASE SkipSection
  <2>1. CASE Here("validate", {"hook"})
    <3>1. Kind = "hook" /\ todo # << >> /\ Stage(Head(todo)) = 1
      BY <2>1, StageHere, StageOf
    <3>2. HooksFound
      BY <1>1, <3>1, HooksUnconfigured DEF SkipSection
    <3> QED BY <1>1, <3>1, <3>2, SetupAdvances DEF SkipSection, buildVars
  <2>2. CASE Here("validate", {"check"})
    <3>1. todo # << >> /\ Stage(Head(todo)) = 2
      BY <2>2, StageHere, StageOf
    <3>2. HooksFound
      BY <3>1 DEF SetupInv, Progress
    <3> QED BY <1>1, <3>1, <3>2, SetupAdvances DEF SkipSection, buildVars
  <2> QED BY <1>1, <2>1, <2>2 DEF SkipSection, Here
<1>2. CASE ValidateSection
  <2>1. CASE Refuse
    BY <2>1, SetupEnds DEF Refuse
  <2>2. CASE failed = {} /\ Named(Kind) \subseteq DOMAIN registry /\ Done
                /\ UNCHANGED <<manifest, env, validated, taken>>
    <3>1. CASE Here("validate", {"hook"})
      <4>1. Kind = "hook" /\ todo # << >> /\ Stage(Head(todo)) = 1
        BY <3>1, StageHere, StageOf
      <4>2. HooksFound
        BY <1>2, <2>2, <3>1, <4>1, HooksValidated DEF ValidateSection
      <4> QED BY <2>2, <4>1, <4>2, SetupAdvances DEF Done
    <3>2. CASE Here("validate", {"check"})
      <4>1. todo # << >> /\ Stage(Head(todo)) = 2
        BY <3>2, StageHere, StageOf
      <4>2. HooksFound
        BY <4>1 DEF SetupInv, Progress
      <4> QED BY <2>2, <4>1, <4>2, SetupAdvances DEF Done
    <3> QED BY <1>2, <3>1, <3>2 DEF ValidateSection, Here
  <2> QED BY <1>2, <2>1, <2>2 DEF ValidateSection
<1>3. CASE ValidateRunner
  <2>1. CASE Refuse
    BY <2>1, SetupEnds DEF Refuse
  <2>2. CASE /\ failed = {} /\ manifest.runner \in DOMAIN registry /\ validated' = registry[manifest.runner]
             /\ Done /\ UNCHANGED <<manifest, env, taken>>
    <3>1. todo # << >> /\ Stage(Head(todo)) = 3
      BY <1>3, StageHere, StageOf DEF ValidateRunner
    <3>2. HooksFound
      BY <3>1 DEF SetupInv, Progress
    <3>3. RunnerFound'
      BY <1>3, <2>2, RunnerOrigin DEF ValidateRunner
    <3> QED BY <2>2, <3>1, <3>2, <3>3, SetupAdvances DEF Done
  <2> QED BY <1>3, <2>1, <2>2 DEF ValidateRunner
<1>4. CASE GetRunner
  <2>1. CASE Refuse
    BY <2>1, SetupEnds DEF Refuse
  <2>2. CASE /\ failed = {} /\ taken' = {registry[manifest.runner]}
             /\ Done /\ UNCHANGED <<manifest, env, validated>>
    <3>1. todo # << >> /\ Stage(Head(todo)) = 6
      BY <1>4, StageHere, StageOf DEF GetRunner
    <3>2. HooksFound /\ RunnerFound
      BY <3>1 DEF SetupInv, Progress
    <3>3. RunnerFound'
      BY <2>2, <3>2 DEF RunnerFound
    <3>4. validated' \in taken'
      BY <1>4, <2>2, RunnerAgain DEF GetRunner
    <3> QED BY <2>2, <3>1, <3>2, <3>3, <3>4, SetupAdvances DEF Done
  <2> QED BY <1>4, <2>1, <2>2 DEF GetRunner
<1>5. CASE BuildHooks
  <2>1. CASE Refuse
    BY <2>1, SetupEnds DEF Refuse
  <2>2. CASE /\ taken \subseteq taken' /\ Done /\ UNCHANGED <<manifest, env, validated>>
    <3>1. todo # << >> /\ Stage(Head(todo)) = 7
      BY <1>5, StageHere, StageOf DEF BuildHooks
    <3>2. HooksFound /\ RunnerFound /\ validated \in taken
      BY <3>1 DEF SetupInv, Progress
    <3>3. RunnerFound'
      BY <2>2, <3>2 DEF RunnerFound
    <3> QED BY <2>2, <3>1, <3>2, <3>3, SetupAdvances DEF Done
  <2> QED BY <1>5, <2>1, <2>2 DEF BuildHooks
<1>6. CASE SelectChecks
  <2>1. CASE Refuse
    BY <2>1, SetupEnds DEF Refuse
  <2>2. CASE UNCHANGED <<manifest, env, todo, buildVars, validated, taken, outcome, verdict>>
    BY <2>2, SetupKept DEF buildVars
  <2> QED BY <1>6, <2>1, <2>2 DEF SelectChecks
<1>7. CASE EvaluateChecks
  <2>1. todo # << >> /\ Kind = "check" /\ Head(todo).use # "validate"
    BY <1>7 DEF EvaluateChecks, Checking
  <2>2. Head(todo) \in Tasks
    BY <2>1 DEF SetupInv, InOrder
  <2>3. Head(todo) \in {Task("run", "check"), Task("bare", "check")}
    BY <2>1, <2>2 DEF Tasks, Calm, Task, Kind
  <2>4. Stage(Head(todo)) = 0
    BY <2>3, StageOf
  <2> QED BY <1>7, <2>1, <2>4, SetupAdvances DEF EvaluateChecks
<1> QED BY <1>1, <1>2, <1>3, <1>4, <1>5, <1>6, <1>7, BuildsClean, LoadsClean DEF ExtNext

LEMMA SetupStep == ASSUME SetupInv, Next PROVE SetupInv'
<1>1. CASE StartProgram
  <2>1. PICK program \in Programs : todo' = program
    BY <1>1 DEF StartProgram, Start
  <2>2. todo = << >> /\ UNCHANGED <<manifest, env, registry>>
    BY <1>1 DEF StartProgram, Start, buildVars
  <2>3. registry' = None
    BY <2>2 DEF SetupInv, Loading
  <2>4. InOrder' /\ (todo' # << >> => Stage(Head(todo')) <= 1)
    BY <2>1, StartsInOrder
  <2>5. todo' # << >> => Stage(Head(todo')) \in Nat
    <3>1. todo' # << >> => Head(todo') \in Tasks
      BY <2>4 DEF InOrder
    <3> QED BY <3>1, StageIsNat
  <2>6. Progress'
    BY <2>4, <2>5 DEF Progress
  <2> QED BY <2>2, <2>3, <2>4, <2>6 DEF SetupInv, Listed, Loading
<1>2. CASE Prepare
  BY <1>2, ExtStep DEF Prepare
<1>3. CASE Check
  BY <1>3, SetupKept DEF Check, RunCheck, buildVars
<1>4. CASE Resolve
  <2>1. CASE UNCHANGED extVars
    BY <2>1, SetupKept DEF extVars
  <2>2. CASE Refuse
    BY <2>2, SetupEnds DEF Refuse
  <2> QED BY <1>4, <2>1, <2>2 DEF Resolve
<1>5. CASE VaultChanges \/ Enter
  BY <1>5, SetupKept DEF VaultChanges, Enter, extVars
<1>6. CASE Resolved
  <2>1. todo # << >> /\ Stage(Head(todo)) = 4
    BY <1>6, StageHere, StageOf DEF Resolved, Resolving
  <2>2. HooksFound /\ RunnerFound
    BY <2>1 DEF SetupInv, Progress
  <2>3. RunnerFound'
    BY <1>6, <2>2 DEF RunnerFound, Resolved
  <2> QED BY <1>6, <2>1, <2>2, <2>3, SetupAdvances DEF Resolved, Done
<1>7. CASE Extra
  <2>1. todo # << >> /\ Stage(Head(todo)) = 5
    BY <1>7, StageHere, StageOf DEF Extra
  <2>2. HooksFound /\ RunnerFound
    BY <2>1 DEF SetupInv, Progress
  <2>3. RunnerFound'
    BY <1>7, <2>2 DEF RunnerFound, Extra
  <2> QED BY <1>7, <2>1, <2>2, <2>3, SetupAdvances DEF Extra, Done
<1>8. CASE Leave
  <2>1. Kind \notin Kinds
    BY <1>8, NoOtherTask DEF Leave, Scoped, Kind, Kinds
  <2>2. registry' = None /\ todo' = << >> /\ UNCHANGED <<manifest, env>>
    BY <1>8, <2>1 DEF Leave, buildVars, SetupInv, Loading
  <2> QED BY <2>2, SetupEnds
<1>9. CASE EnterRaises
  BY <1>9, SetupEnds DEF EnterRaises, Refuse
<1> QED BY <1>1, <1>2, <1>3, <1>4, <1>5, <1>6, <1>7, <1>8, <1>9 DEF Next

(* A run takes the runner that validation found and asked; after validation *)
(* it is refused for its runner or a hook only when the environment names   *)
(* plugins (ManifestExecutor.run_manifest, ManifestValidator, the           *)
(* registries): for any plugins, names and manifests.                       *)
THEOREM RunsAsValidated == Spec => []RunAsValidated
<1>1. Init => SetupInv
  <2> SUFFICES ASSUME Init PROVE SetupInv
    OBVIOUS
  <2>1. PICK setup \in Setups : manifest = setup[1] /\ env = setup[2]
    BY DEF Init, ExtInit
  <2>2. Listed
    BY <2>1, ExtAssumption DEF Listed
  <2>3. todo = << >> /\ registry = None
    BY DEF Init, ExtInit
  <2>4. InOrder
    <3>1. todo \in Seq(Tasks) /\ Len(todo) = 0
      BY <2>3
    <3>2. \A i \in 1..(Len(todo) - 1) : FALSE
      BY <3>1
    <3> QED BY <3>1, <3>2 DEF InOrder
  <2> QED BY <2>2, <2>3, <2>4 DEF SetupInv, Loading, Progress
<1>2. SetupInv /\ [Next]_vars => SetupInv'
  <2>1. UNCHANGED vars => UNCHANGED <<manifest, env, todo, registry, pending, loaded, failed, validated, taken>>
    BY DEF vars, extVars, buildVars
  <2> QED BY <2>1, SetupStep, SetupKept
<1>3. SetupInv => RunAsValidated
  <2> SUFFICES ASSUME SetupInv PROVE RunAsValidated
    OBVIOUS
  <2>1. Here("scope", {"pipeline"}) => validated \in taken
    BY StageHere, StageOf DEF SetupInv, Progress
  <2>2. ASSUME Here("run", {"runner", "hook"}), Built, env[Kind] = << >> PROVE failed = {}
    <3>1. todo # << >> /\ Head(todo).use = "run" /\ Clean(Kind, Range(manifest.plugins[Kind]))
      <4>1. CASE Here("run", {"runner"})
        BY <4>1, StageHere, StageOf DEF SetupInv, Progress, RunnerFound
      <4>2. CASE Here("run", {"hook"})
        BY <4>2, StageHere, StageOf DEF SetupInv, Progress, HooksFound
      <4> QED BY <2>2, <4>1, <4>2 DEF Here
    <3>2. Range(env[Kind]) = {}
      BY <2>2 DEF Range
    <3> QED BY <2>2, <3>1, <3>2, WhatIsBuilt DEF Wants
  <2>3. ASSUME Here("run", {"hook"}), Built, failed = {} PROVE Named("hook") \subseteq DOMAIN registry
    <3>1. Kind = "hook" /\ Head(todo).use = "run" /\ HooksFound
      BY <2>3, StageHere, StageOf DEF SetupInv, Progress
    <3>2. Range(manifest.plugins["hook"]) \subseteq loaded /\ Holds("hook")
      BY <2>3, <3>1, WhatIsBuilt DEF Wants
    <3>3. Offered(Range(manifest.plugins["hook"])) \subseteq Offered(loaded)
      BY <3>2 DEF Offered
    <3> QED BY <3>1, <3>2, <3>3 DEF HooksFound, Holds
  <2> QED BY <2>1, <2>2, <2>3, RunnerAgain DEF RunAsValidated
<1> QED BY <1>1, <1>2, <1>3, PTL DEF Spec
===============================================================================
