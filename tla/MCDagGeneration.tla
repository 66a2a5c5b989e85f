--------------------------- MODULE MCDagGeneration ---------------------------
(* Three files and one group. a.yaml is missing, plain, in the group or      *)
(* broken; b.yaml depends on a by name, by file or through the group, or has *)
(* a malformed list; c.yaml is missing, in the group, a second "a", in the   *)
(* group and dependent on b (a cycle, if b depends on the group), or         *)
(* dependent on a "b" without suffix. One edit, three calls.                 *)
EXTENDS DagGeneration

CONSTANTS a, b, c, g, Absent

M(name, group, deps) == [name |-> name, group |-> group, deps |-> deps, valid |-> FALSE]
D(form, value) == {[form |-> form, value |-> value]}

ForA == {Absent, Broken, M(a, NoGroup, {}), M(a, g, {})}
ForB == {M(b, NoGroup, D("name", a)), M(b, NoGroup, D("path", a)),
         M(b, NoGroup, D("group", g)), M(b, NoGroup, D("malformed", a))}
ForC == {Absent, M(c, g, {}), M(a, g, {}), M(c, g, D("name", b)), M(c, NoGroup, D("bare_path", b))}

Dir(x, y, z) ==
  LET files == (IF x = Absent THEN {} ELSE {a}) \cup {b} \cup (IF z = Absent THEN {} ELSE {c})
  IN  [f \in files |-> CASE f = a -> x [] f = b -> y [] f = c -> z]

MCNames == {a, b, c}
MCGroups == {g}
MCFileOrder == <<a, b, c>>
MCDirectories == {Dir(x, y, z) : x \in ForA, y \in ForB, z \in ForC} \cup {[f \in {} |-> Broken]}
MCConventional == {a, b}
MCTracked == {[name |-> b, with_deps |-> FALSE]}
===============================================================================
