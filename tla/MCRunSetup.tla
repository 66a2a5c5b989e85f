------------------------------ MODULE MCRunSetup ------------------------------
(* Plugins: p and q offer the same runner, h a runner and then raises, k hooks  *)
(* and c checks, one of them without applies; x takes a built-in name.          *)
(* Manifests differ in their plugins and names or in their connections.         *)
EXTENDS RunSetup

MCOffers == [p |-> <<"r1">>, q |-> <<"r2", "r1">>, h |-> <<"r1", "raise">>, k |-> <<"hk">>, kk |-> <<"ho", "hk">>,
             c |-> <<"ck">>, cc |-> <<"cb", "raise">>]
MCBroken == "raise"
MCBuiltin == [runner |-> {"r0"}, hook |-> {"h0"}, check |-> {"clickhouse", "kafka"}]
MCDefaultHooks == {"h0"}
MCApplies == {}
MCNotApplying == {"cb"}

NoPlugins == [k \in Kinds |-> << >>]
NoNames == [k \in {"hook", "check"} |-> {}]
RunnerEnvs == {[NoPlugins EXCEPT !["runner"] = s] : s \in {<< >>, <<"p">>, <<"q">>, <<"h">>, <<"q", "p">>}}
HookEnvs == {[NoPlugins EXCEPT !["hook"] = s] : s \in {<< >>, <<"k">>, <<"kk">>}}
CheckEnvs == {[NoPlugins EXCEPT !["check"] = s] : s \in {<< >>, <<"cc", "c">>}}

Manifest(runner, plugins, only, enable, disable, connections) ==
  [runner |-> runner, plugins |-> plugins, only |-> only, enable |-> enable, disable |-> disable,
   connections |-> connections, applies |-> {"clickhouse"}, servers |-> {}]
Streaming(m, servers) == [m EXCEPT !.applies = {"clickhouse", "kafka"}, !.servers = servers]
Extended(runner, plugins, only, enable, disable) == Manifest(runner, plugins, only, enable, disable, << >>)
Plugged ==
  {Extended(r, [NoPlugins EXCEPT !["runner"] = s], NoNames, NoNames, NoNames) :
     r \in {"r0", "r1", "r2"}, s \in {<< >>, <<"p">>, <<"q">>, <<"h">>, <<"p", "q">>, <<"p", "p">>}}
Hooked ==
  {Extended("r0", [NoPlugins EXCEPT !["hook"] = s], [NoNames EXCEPT !["hook"] = only],
            NoNames, [NoNames EXCEPT !["hook"] = less]) :
     s \in {<< >>, <<"k">>, <<"kk">>}, only \in {{}, {"hk"}}, less \in {{}, {"h0"}}}
Checked ==
  {Extended("r0", [NoPlugins EXCEPT !["check"] = s], NoNames, [NoNames EXCEPT !["check"] = more],
            [NoNames EXCEPT !["check"] = less]) :
     s \in {<< >>, <<"c">>, <<"cc">>}, more \in {{}, {"ck"}}, less \in {{}, {"clickhouse"}}}
Streamed == {Streaming(m, servers) : m \in {Extended("r0", NoPlugins, NoNames, NoNames, NoNames)},
                                 servers \in {{}, {"b1", "b2"}, {"bx"}}}

-----------------------------------------------------------------------------
V == "value"
MCVault ==
  "full" :> [host |-> V, user |-> V, password |-> V, driver |-> V, port |-> V, database |-> V,
             token_url |-> V, clientId |-> V, servers |-> V]
  @@ "thin" :> [hostname |-> V, login |-> V, password |-> Blank, drivername |-> V, uri |-> V]
MCAirflowJson ==
  "json" :> [host |-> V, username |-> V, pass |-> V, drivername |-> V, database |-> Blank, bootstrap |-> V,
             dataset_table_separator |-> V]
  @@ "text" :> NotJson
MCAirflowVars ==
  "sql" :> {"host", "password"} @@ "clickhouse" :> {"host", "database", "username", "password"}
  @@ "KAFKA" :> {"bootstrap_servers", "sasl_password"} @@ "own" :> {"host", "drivername", "username", "password"}

Set(group, fields) == [v \in {<<group, f>> : f \in fields} |-> {At("ambient")}]
MCAmbient ==
  {Set("sql", {"host", "password", "dsn"}) @@ Set("VAULT", {"ADDR"}),
   Set("clickhouse", {"database"}) @@ Set("KAFKA", {"sasl_password"}),
   Set("clickhouse", {"host"}) @@ Set("KAFKA", {"bootstrap_servers"}),
   Set("clickhouse", {"host", "http_port"})}
MCBegun == {{<<"sql", "drivername">>, <<"sql", "host">>}}
MCRest == {{<<"RUN", "note">>}}
MCBrokers == {"b1", "b2", "bx"}
MCPortless == {"bx"}
MCEnvBrokers == {"b1"}
MCExtraEnvs == {{}, {<<"sql", "host">>, <<"clickhouse", "database">>, <<"RUN", "note">>}}

Ref(form, ref) == [form |-> form, ref |-> ref]
Refs == {Absent, Ref("string", "full"), Ref("string", "thin"), Ref("malformed", "full")}
Spec3(kind, vault, json, prefix, mapped, overrides) ==
  [kind |-> kind, vault |-> vault, json |-> json, prefix |-> prefix, mapped |-> mapped, overrides |-> overrides,
   env_prefix |-> "KAFKA"]
Overrides == {<< >>, [password |-> V], [database |-> V, dataset_table_separator |-> V], [database |-> Blank]}
SourceSpecs ==
  {Spec3("sql", v, j, p, << >>, o) :
     v \in Refs, j \in {"none", "json", "text"}, p \in {Absent, "own"}, o \in {<< >>, [password |-> V]}}
  \cup {Spec3(k, v, "json", Absent, << >>, << >>) : k \in {"mongodb", "keycloak", "db2"}, v \in Refs \ {Absent}}
  \cup {Spec3("sql", Absent, "none", "own", [host |-> TRUE, password |-> FALSE], [password |-> V])}
DestinationSpecs ==
  {Spec3("clickhouse", v, j, Absent, << >>, o) : v \in {Absent, Ref("string", "full")}, j \in {"none", "json"}, o \in Overrides}
KafkaSpecs ==
  {Spec3("kafka", v, "none", Absent, << >>, o) : v \in {Absent, Ref("string", "full")}, o \in {<< >>, [sasl_password |-> V]}}
Connected ==
  {("source" :> s) : s \in SourceSpecs}
  \cup {("destination" :> d) : d \in DestinationSpecs} \cup {("kafka" :> k) : k \in KafkaSpecs}
  \cup {("source" :> Spec3("sql", Ref("string", "full"), "json", Absent, << >>, << >>)) @@ ("destination" :> d) @@ ("kafka" :> k) :
         d \in DestinationSpecs, k \in KafkaSpecs}
Bare(connections) == Manifest("r0", NoPlugins, NoNames, NoNames, NoNames, connections)

MCSetups ==
  (Plugged \X RunnerEnvs)
  \cup ({m \in Hooked : m.only["hook"] = {} \/ m.disable["hook"] = {}} \X HookEnvs)
  \cup ((Checked \cup Streamed) \X CheckEnvs) \cup ({Bare(c) : c \in Connected} \X {NoPlugins})
===============================================================================
