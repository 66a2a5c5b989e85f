---------------------------- MODULE ManifestDoctor ----------------------------
(***************************************************************************)
(* One manifest file under the doctor (dltaf/services/manifests/doctor), the *)
(* linter and the runs. The doctor parses the file, lists what should be     *)
(* fixed, edits the text of the file line by line (--apply) and writes the   *)
(* SQL source in the canonical layout to another directory                   *)
(* (--write-sqldb-canonical-dir), from where somebody may take it over.      *)
(*                                                                         *)
(* The file is the sequence of its lines: indentation, key, value; "" is     *)
(* the value of a line that opens a block. Comments and blank lines, which   *)
(* the editing skips, quotes and lists are left out.                         *)
(***************************************************************************)
EXTENDS SqlSource, Integers, SequencesExt, FiniteSetsExt

CONSTANTS
  Documents,  \* the files to start from
  Expected,   \* the name of the file without its suffix
  NoFile

ASSUME DoctorAssumption ==
  \A d \in Documents : \A i \in DOMAIN d : DOMAIN d[i] = {"indent", "key", "value"}

VARIABLES
  file,       \* the manifest
  canonical   \* the file in the other directory

doctorVars == <<file, canonical>>

-----------------------------------------------------------------------------
(* How YAML reads the lines.                                                *)
Line(indent, key, value) == [indent |-> indent, key |-> key, value |-> value]
Parent(lines, i) ==
  LET up == {j \in 1..(i - 1) : lines[j].indent < lines[i].indent}
  IN  IF up = {} THEN 0 ELSE Max(up)
Children(lines, i) == {j \in DOMAIN lines : Parent(lines, j) = i}
Readable(lines) ==
  /\ LET parent == [i \in DOMAIN lines |-> Parent(lines, i)]
     IN  \A i, j \in DOMAIN lines : parent[i] = parent[j] => lines[i].indent = lines[j].indent
  /\ \A i \in 2..Len(lines) : lines[i].indent > lines[i - 1].indent => lines[i - 1].value = ""
Lookup(lines, parent, key) ==
  LET found == {j \in Children(lines, parent) : lines[j].key = key} IN IF found = {} THEN 0 ELSE Max(found)
Value(lines, i) == IF i = 0 THEN "" ELSE lines[i].value
Mapping(lines, i) ==
  LET own == Children(lines, i)
  IN  [k \in {lines[j].key : j \in own} |-> Value(lines, Lookup(lines, i, k))]
SourceOf(lines) ==
  LET i == Lookup(lines, 0, "source")
      own == Children(lines, i)
  IN  [k \in {lines[j].key : j \in own} |->  \* every document has a source block
         LET j == Lookup(lines, i, k)
         IN  IF Children(lines, j) # {} THEN Mapping(lines, j) ELSE lines[j].value]
Field(lines, block, field) ==
  LET i == Lookup(lines, 0, block) IN IF i = 0 THEN "" ELSE Value(lines, Lookup(lines, i, field))
Connection(lines) ==
  LET i == Lookup(lines, 0, "connections")
      j == IF i = 0 THEN 0 ELSE Lookup(lines, i, "source")
  IN  IF j = 0 THEN "" ELSE Value(lines, Lookup(lines, j, "kind"))

-----------------------------------------------------------------------------
(* What the doctor wants fixed, in its order.                               *)
Fix(block, field, value) == [block |-> block, field |-> field, value |-> value]
Wanted(lines, block, field, value) ==
  IF Field(lines, block, field) = value THEN << >> ELSE <<Fix(block, field, value)>>
CanonicalForm == [sql_database      |-> <<"generic", "catalog">>,
                  oracle_custom_sql |-> <<"oracle", "query">>,
                  oracle            |-> <<"oracle", "query">>]
VersionFixes(lines) ==
  IF Lookup(lines, 0, "version") = 0 THEN <<Fix("__root__", "version", "1")>> ELSE << >>
AirflowFixes(lines) ==
  IF Lookup(lines, 0, "airflow") = 0 THEN << >> ELSE Wanted(lines, "airflow", "dag_id", Expected)
(* Fault: the older kind is renamed, and nothing else.                       *)
KindFixesOnly(lines) ==
  IF Field(lines, "source", "kind") \in DOMAIN CanonicalForm THEN <<Fix("source", "kind", "sqldb")>> ELSE << >>

KindFixes(lines) ==
  LET kind == Field(lines, "source", "kind")
  IN  IF kind \notin DOMAIN CanonicalForm THEN << >>
      ELSE <<Fix("source", "kind", "sqldb")>>
             \o Wanted(lines, "source", "dialect", CanonicalForm[kind][1])
             \o Wanted(lines, "source", "mode", CanonicalForm[kind][2])
Fixes(lines) ==
  IF Lookup(lines, 0, "pipeline") = 0 THEN VersionFixes(lines)
  ELSE VersionFixes(lines) \o Wanted(lines, "pipeline", "name", Expected)
         \o AirflowFixes(lines) \o KindFixes(lines)

(* A warning that nothing is done about: fields at the top of a source that   *)
(* names its kind and mode in the canonical way.                             *)
TopFields == [catalog |-> {"schema", "schemas", "tables", "reflection_level"},
              query   |-> {"queries", "fetch_batch_size", "init_sql", "thick_mode"}]
Warned(lines) ==
  LET src == SourceOf(lines)
  IN  /\ Get(src, "kind") = "sqldb" /\ Get(src, "mode") \in DOMAIN TopFields
      /\ Keys(src) \cap TopFields[src["mode"]] # {}

(* The editing: the block is the first line with its key at any             *)
(* indentation, the field the first line with its key below that one; a      *)
(* field that is not there is put right after the line of the block.         *)
EnsureVersion(lines) ==
  IF \E i \in DOMAIN lines : lines[i].key = "version" THEN lines
  ELSE <<Line(0, "version", "1")>> \o lines
BlockStart(lines, block) ==
  LET found == {i \in DOMAIN lines : lines[i].key = block /\ lines[i].value = ""}
  IN  IF found = {} THEN 0 ELSE Min(found)
BlockEnd(lines, start) ==
  Min({i \in (start + 1)..Len(lines) : lines[i].indent <= lines[start].indent} \cup {Len(lines) + 1})
(* Fault: a new field gets the indentation of its block.                     *)
SetScalarOutdented(lines, fix) ==
  LET start == BlockStart(lines, fix.block)
      found == {i \in (start + 1)..(BlockEnd(lines, start) - 1) : lines[i].key = fix.field}
  IN  IF start = 0 THEN lines
      ELSE IF found # {} THEN [lines EXCEPT ![Min(found)].value = fix.value]
      ELSE InsertAt(lines, start + 1, Line(lines[start].indent, fix.field, fix.value))

SetScalar(lines, fix) ==
  LET start == BlockStart(lines, fix.block)
      found == {i \in (start + 1)..(BlockEnd(lines, start) - 1) : lines[i].key = fix.field}
  IN  IF start = 0 THEN lines
      ELSE IF found # {} THEN [lines EXCEPT ![Min(found)].value = fix.value]
      ELSE InsertAt(lines, start + 1, Line(lines[start].indent + 2, fix.field, fix.value))
Applied(lines, fixes) ==
  LET versioned == IF \E i \in DOMAIN fixes : fixes[i].block = "__root__" THEN EnsureVersion(lines) ELSE lines
      edits == SelectSeq(fixes, LAMBDA f : f.block # "__root__")
  IN  FoldLeft(SetScalar, versioned, edits)

-----------------------------------------------------------------------------
(* Validation: the schema's dump, the common rules, the runner's parser. A   *)
(* missing version is 1; a payload contract is checked for its mode.         *)
CommonRules(lines) ==
  /\ Field(lines, "pipeline", "name") = Expected
  /\ Field(lines, "airflow", "dag_id") \in {"", Expected}
  /\ Lookup(lines, 0, "airflow") # 0 => Field(lines, "airflow", "dag_id") # ""
  /\ Value(lines, Lookup(lines, 0, "version")) \in {"", "1"}
Accepted(lines, strict) ==
  /\ Readable(lines)
  /\ CommonRules(lines)
  /\ LET src == SourceOf(lines)
     IN  Get(src, "kind") \in SqlKinds /\ Contracted(src) /\ ParserAccepts(Dumped(src, strict))

(* What a run of the manifest comes to: the connection it opens and what it  *)
(* loads through it.                                                         *)
Effect(lines) ==
  LET src == Dumped(SourceOf(lines), FALSE)
  IN  [connection |-> Connection(lines), contract |-> Section(src, "payload_contract"),
       load |-> Loads(Normalize(src))]

-----------------------------------------------------------------------------
(* A mapping as lines: the entries of a section below its key.              *)
Entries(m, keys, indent) ==
  [i \in 1..Cardinality(keys) |-> LET k == SetToSeq(keys)[i] IN Line(indent, k, m[k])]
SectionLines(m, section) == <<Line(2, section, "")>> \o Entries(m[section], Keys(m[section]), 4)
SourceLines(m) ==
  LET nested == {k \in Keys(m) : k \in Sections \cup {"payload_contract"}}
  IN  <<Line(0, "source", "")>> \o Entries(m, Keys(m) \ nested, 2)
        \o FlattenSeq([i \in 1..Cardinality(nested) |-> SectionLines(m, SetToSeq(nested)[i])])
Rendered(lines) ==
  LET start == Lookup(lines, 0, "source")
      end == BlockEnd(lines, start)
  IN  SubSeq(lines, 1, start - 1) \o SourceLines(Canonical(SourceOf(lines)))
        \o SubSeq(lines, end, Len(lines))

DoctorInit == file \in Documents /\ canonical = NoFile

(* manifest doctor --apply *)
Apply ==
  /\ Readable(file) /\ Fixes(file) # << >>
  /\ file' = Applied(file, Fixes(file))
  /\ UNCHANGED canonical

(* manifest doctor --write-sqldb-canonical-dir: the text is rendered from     *)
(* what was parsed before the fixes, for a manifest with something to report. *)
WriteCanonical ==
  /\ Readable(file) /\ (Fixes(file) # << >> \/ Warned(file)) /\ Field(file, "source", "kind") \in SqlKinds
  /\ canonical' = Rendered(file)
  /\ UNCHANGED file

(* Somebody replaces the manifest by the canonical one.                      *)
Adopt ==
  /\ canonical # NoFile
  /\ file' = canonical /\ canonical' = NoFile

DoctorNext == Apply \/ WriteCanonical \/ Adopt
DoctorSpec == DoctorInit /\ [][DoctorNext]_doctorVars

-----------------------------------------------------------------------------
(* The line that an edit reaches is the one the fix is about: no block of    *)
(* the same name comes first, no nested field of the same name, and a new    *)
(* line gets the indentation of its siblings.                                *)
Reached(lines, fix) ==
  IF fix.block = "__root__" THEN \A i \in DOMAIN lines : lines[i].key # "version"
  ELSE LET start == Lookup(lines, 0, fix.block)
           found == {i \in (start + 1)..(BlockEnd(lines, start) - 1) : lines[i].key = fix.field}
       IN  /\ BlockStart(lines, fix.block) = start
           /\ IF found # {} THEN Min(found) \in Children(lines, start)
              ELSE \A i \in Children(lines, start) : lines[i].indent = lines[start].indent + 2
AllReached(lines) == \A i \in DOMAIN Fixes(lines) : Reached(lines, Fixes(lines)[i])
SourceAccepted(lines) ==
  LET src == SourceOf(lines) IN Contracted(src) /\ ParserAccepts(Dumped(src, FALSE))

Holds(lines, fix) ==
  IF fix.block = "__root__" THEN Lookup(lines, 0, "version") # 0
  ELSE Field(lines, fix.block, fix.field) = fix.value

(* doctor --apply brings about what each fix says, and leaves nothing to     *)
(* fix, exactly when every edit reached its line (apply_fixes_to_text).      *)
(* Elsewhere the fix lands in another block, or the file is not YAML any     *)
(* more.                                                                     *)
FixesStick ==
  [][Apply => (AllReached(file) <=>
       /\ Readable(file') /\ Fixes(file') = << >>
       /\ \A i \in DOMAIN Fixes(file) : Holds(file', Fixes(file)[i]))]_doctorVars

(* Fixing a manifest does not change what it loads, except for the preset    *)
(* oracle with a mode or a dialect of its own, which the fix overwrites, and  *)
(* for db_schema in the section beside schema at the top, of which the        *)
(* normaliser takes the second and the schema of the new kind the first.      *)
ApplyKeepsEffect ==
  [][/\ Apply /\ AllReached(file) /\ SourceAccepted(file) /\ OneSchema(SourceOf(file))
     /\ Field(file, "source", "kind") = "oracle" =>
          /\ Field(file, "source", "mode") \in {"", "query"}
          /\ Field(file, "source", "dialect") \in {"", "oracle"}
     => SourceAccepted(file') /\ Effect(file') = Effect(file)]_doctorVars

(* The canonical file loads what the file loads that it was written from     *)
(* (canonicalize_sqldb_source_layout), when nothing hangs on what the schema  *)
(* fills in and renames and the doctor does not ask: the inferred mode, and   *)
(* which of db_schema and schema is meant.                                   *)
CanonicalKeepsEffect ==
  [][WriteCanonical /\ SourceAccepted(file) /\ SameMode(SourceOf(file)) /\ OneSchema(SourceOf(file))
     => /\ SourceAccepted(canonical') /\ Effect(canonical') = Effect(file)]_doctorVars

(* A manifest that passes the linter, strict or not, gets past the checks    *)
(* of the workflow (dialect.validate, mode.validate), and the execution      *)
(* manifest that the replace protection gets describes the same load, but    *)
(* for thick_mode (build_sqldb_execution_manifest), and makes it expect the  *)
(* tables that are loaded (get_expected_table_names).                        *)
LintedRuns ==
  \A strict \in BOOLEAN :
    Accepted(file, strict) /\ SameMode(SourceOf(file)) =>
      LET src == Dumped(SourceOf(file), FALSE)
          n == Normalize(src)
          load == Loads(n)
      IN  /\ WorkflowAccepts(src)
          /\ Loads(Normalize(Execution(n))) =
               [load EXCEPT !.options = Without(@, {"thick_mode"})]
          /\ ExpectedTables(Execution(n)) = LoadedTables(n)
===============================================================================
