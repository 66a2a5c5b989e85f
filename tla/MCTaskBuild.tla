------------------------------ MODULE MCTaskBuild ------------------------------
(* Four files and a group. a.yaml and b.yaml: missing, broken, invalid, or *)
(* with any of a, b, c or any one structured entry in depends_on; c.yaml:    *)
(* missing, plain or dependent on a, b or d; d.yaml: a name without "__".    *)
(* One manifest, two or none asked for.                                      *)
EXTENDS TaskBuild

CONSTANTS a, b, c, d, g, h, Absent

M(name, group, deps, valid) == [name |-> name, group |-> group, deps |-> deps, valid |-> valid]
D(form, value) == [form |-> form, value |-> value]

Lists(f) ==
  {{D("name", n) : n \in N} : N \in SUBSET ({a, b, c} \ {f})}
    \cup {{D(form, IF f = a THEN b ELSE a)} : form \in {"file", "path", "bare_path"}}
    \cup {{D("group", g)}}

Files(f) ==
  {Absent, Broken, M(f, NoGroup, {}, FALSE)}
    \cup {M(f, group, deps, TRUE) : group \in {g, NoGroup}, deps \in Lists(f)}

ForC ==
  {Absent, M(c, NoGroup, {}, TRUE), M(c, NoGroup, {D("name", a)}, TRUE),
   M(c, g, {D("name", b)}, TRUE), M(c, NoGroup, {D("name", d)}, TRUE)}

MCNames == {a, b, c, d}

Dir(x, y, z) ==
  LET with == [f \in MCNames |-> CASE f = a -> x [] f = b -> y [] f = c -> z
                                    [] f = d -> M(d, NoGroup, {}, TRUE)]
      files == {f \in MCNames : with[f] # Absent}
  IN  [f \in files |-> with[f]]

MCGroups == {g, h}
MCFileOrder == <<a, b, c, d>>

(* Where the settings of the tasks vary: two tasks in any order, a chain of  *)
(* three, one alone; and a group that cannot be made.                       *)
P(f, group, deps) == M(f, group, {D("name", n) : n \in deps}, TRUE)
Pair == Dir(P(a, g, {}), P(b, g, {}), Absent)
Chain == Dir(P(a, g, {b}), P(b, NoGroup, {}), P(c, NoGroup, {a}))
Alone == Dir(P(a, g, {}), Absent, Absent)
Ungrouped == Dir(P(a, h, {}), P(b, NoGroup, {}), Absent)

MCDirectories ==
  {Dir(x, y, z) : x \in Files(a), y \in Files(b), z \in ForC} \cup {Pair, Chain, Alone, Ungrouped}
MCRequests ==
  {[single |-> TRUE, files |-> <<a>>], [single |-> FALSE, files |-> <<a, b>>],
   [single |-> FALSE, files |-> <<>>]}
MCMisnamed == {d}
MCBadGroups == {h}

MCPackage == {"dlt", "sql"}
MCRequirement == {"dlt1", "dlt2", "dltx", "sql2"}
MCPackageOf == [r \in MCRequirement |-> IF r = "sql2" THEN "sql" ELSE "dlt"]
MCFallback == {"dlt1", "sql2"}
MCContents == {<<"dltx", "dlt1">>, <<"dlt2">>}

Nothing == [k \in {} |-> 0]
B(config, virtualenv, load, section) ==
  [default_task_config |-> config, use_virtualenv |-> virtualenv, load_dependencies |-> load,
   section |-> section]

Configs == {Nothing, [retries |-> 0, requirements |-> {"dltx"}, env |-> {"e"}]}
SectionsOfOne ==
  {Nothing, [retries |-> 1, retry_delay_minutes |-> 7], [use_virtualenv |-> FALSE],
   [use_virtualenv |-> TRUE, requirements |-> {"dlt2"}, configure_logging |-> TRUE],
   [retries |-> Junk]}
Sections == {[n \in MCNames |-> CASE n = a -> x [] n = b -> y [] OTHER -> Nothing] :
               x \in SectionsOfOne, y \in SectionsOfOne}

MCBuildsOf(files) ==
  IF files \in {Pair, Chain, Alone}
  THEN {B(config, virtualenv, load, section) :
          config \in Configs, virtualenv \in BOOLEAN, load \in BOOLEAN, section \in Sections}
  ELSE {B(Nothing, FALSE, TRUE, [n \in MCNames |-> Nothing])}
===============================================================================
