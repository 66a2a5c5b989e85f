------------------------------- MODULE SqlSource ------------------------------
(***************************************************************************)
(* The source block of a SQL manifest: the kinds sqldb and oracle, and the  *)
(* older kinds sql_database and oracle_custom_sql. Four translations work    *)
(* on it: the schema (SourceSQLDB), the normaliser, the execution manifest  *)
(* and the canonical layout that the doctor writes.                          *)
(*                                                                         *)
(* A mapping is a function from the keys that are present. A value is a    *)
(* string, "" if it is empty; the sections catalog, query and               *)
(* dialect_options are mappings. The list under "queries" is "none" when    *)
(* it is empty.                                                             *)
(***************************************************************************)
CatalogFields ==
  {"schema", "db_schema", "tables", "schemas", "reflection_level",
   "detect_precision_hints", "table_name_transform"}
QueryFields == {"queries", "fetch_batch_size"}
DialectFields == {"init_sql", "thick_mode"}
PassThrough == {"name", "payload_contract", "time_window"}
FieldsOf == [catalog |-> CatalogFields, query |-> QueryFields, dialect_options |-> DialectFields]
Sections == {"catalog", "query", "dialect_options"}
SqlKinds == {"sqldb", "sql_database", "oracle_custom_sql", "oracle"}

None == << >>
Keys(m) == DOMAIN m
Get(m, key) == IF key \in Keys(m) THEN m[key] ELSE ""
Section(m, key) == IF key \in Keys(m) THEN m[key] ELSE None
Only(m, keys) == [k \in keys \cap Keys(m) |-> m[k]]
Without(m, keys) == [k \in Keys(m) \ keys |-> m[k]]
Overlay(m, under) == [k \in Keys(m) \cup Keys(under) |-> IF k \in Keys(m) THEN m[k] ELSE under[k]]
Set(m, key, value) == [k \in Keys(m) \cup {key} |-> IF k = key THEN value ELSE m[k]]
OrElse(value, default) == IF value = "" THEN default ELSE value
Renamed(m) ==
  IF "db_schema" \in Keys(m) /\ "schema" \notin Keys(m)
  THEN Set(Without(m, {"db_schema"}), "schema", m["db_schema"]) ELSE m

-----------------------------------------------------------------------------
(* The normaliser.                                                          *)
Gathered(src, section) == Overlay(Section(src, section), Only(src, FieldsOf[section]))
SectionOf(src, section) ==
  IF section = "catalog" THEN Renamed(Gathered(src, section)) ELSE Gathered(src, section)
SectionsOf(src) == [s \in {t \in Sections : Keys(SectionOf(src, t)) # {}} |-> SectionOf(src, s)]

InferredMode(src) ==
  IF Get(src, "mode") # "" THEN src["mode"]
  ELSE IF Keys(src) \cap ({"query"} \cup QueryFields \cup DialectFields) # {} THEN "query"
  ELSE IF Keys(src) \cap ({"catalog"} \cup CatalogFields) # {} THEN "catalog"
  ELSE ""

Shape(kind, dialect, mode) ==
  [k \in {"kind", "dialect"} \cup (IF mode = "" THEN {} ELSE {"mode"}) |->
     CASE k = "kind" -> kind [] k = "dialect" -> dialect [] k = "mode" -> mode]
ShapeOf(src) ==
  CASE src["kind"] = "sql_database"      -> Shape("sqldb", "generic", "catalog")
    [] src["kind"] = "oracle_custom_sql" -> Shape("sqldb", "oracle", "query")
    [] src["kind"] = "oracle"            -> Shape("oracle", OrElse(Get(src, "dialect"), "oracle"),
                                                  OrElse(Get(src, "mode"), "query"))
    [] OTHER -> Shape(src["kind"], OrElse(Get(src, "dialect"), "generic"), InferredMode(src))

Normalize(src) == Overlay(ShapeOf(src), Overlay(SectionsOf(src), Only(src, PassThrough)))

-----------------------------------------------------------------------------
(* The schema. A source that SourceSQLDB refuses is taken by the last       *)
(* member of the union, SourceBase, which allows any key: it is dumped as   *)
(* it was, without the defaults.                                            *)
Contracted(src) ==
  "payload_contract" \in Keys(src) =>
    Get(src["payload_contract"], "mode") \in {"", "off", "warn", "deny"}
InSchema(src) ==
  /\ "dialect" \in Keys(src) => src["dialect"] \in {"generic", "oracle", "postgres", "mysql", "mssql"}
  /\ "mode" \in Keys(src) => src["mode"] \in {"catalog", "query"}
  /\ "query" \in Keys(src) => Get(src["query"], "queries") \notin {"", "none"}
  /\ Contracted(src)

SchemaMode(src) ==
  IF src["kind"] = "oracle" THEN "query"
  ELSE IF "query" \in Keys(src) THEN "query"
  ELSE IF "catalog" \in Keys(src) THEN "catalog" ELSE ""
WithDefaults(src) ==
  LET dialect == IF src["kind"] = "oracle" THEN Set(src, "dialect", OrElse(Get(src, "dialect"), "oracle")) ELSE src
      mode == OrElse(Get(src, "mode"), SchemaMode(src))
  IN  IF mode = "" THEN dialect ELSE Set(dialect, "mode", mode)
Known == Sections \cup CatalogFields \cup QueryFields \cup DialectFields \cup PassThrough
           \cup {"kind", "dialect", "mode"}
OnlyKnown(src) ==
  Keys(src) \subseteq Known /\ \A s \in Sections \cap Keys(src) : Keys(src[s]) \subseteq FieldsOf[s]
Dumped(src, strict) ==
  LET full == WithDefaults(src)
  IN  IF src["kind"] \in {"sqldb", "oracle"} /\ InSchema(full) /\ (strict => OnlyKnown(src))
      THEN IF "catalog" \in Keys(src) THEN Set(Renamed(full), "catalog", Renamed(full["catalog"]))
                                      ELSE Renamed(full)
      ELSE src

(* The schema and the normaliser infer the same mode; and they name the same *)
(* schema, unless it is db_schema in the section and schema at the top.      *)
SameMode(src) ==
  src["kind"] # "sqldb" \/ Get(src, "mode") # "" \/ SchemaMode(src) \in {"", InferredMode(src)}
OneSchema(src) ==
  "schema" \in Keys(src) /\ "db_schema" \in Keys(Section(src, "catalog")) => "schema" \in Keys(Section(src, "catalog"))

-----------------------------------------------------------------------------
(* What the configuration parser asks of the source it has normalised, and  *)
(* what the workflow asks again before it loads.                            *)
Executable(n) ==
  LET mode == Get(n, "mode") IN mode = "catalog" \/ (mode = "query" /\ n["dialect"] = "oracle")
Parsed(n) == InSchema(n) /\ Executable(n)
CatalogGiven(n) ==
  LET c == Section(n, "catalog")
  IN  Get(c, "schemas") # "" \/ (Get(c, "schema") # "" /\ Get(c, "tables") # "")
QueriesGiven(n) == Get(Section(n, "query"), "queries") \notin {"", "none"}
(* Fault: the parser leaves what a mode needs to the workflow.              *)
ParserAcceptsShape(src) == Parsed(Normalize(src))

ParserAccepts(src) ==
  LET n == Normalize(src)
  IN  /\ Parsed(n)
      /\ n["mode"] = "catalog" => CatalogGiven(n)
      /\ n["mode"] = "query" => QueriesGiven(n) /\ n["dialect"] = "oracle"

DialectAccepts(n) == n["dialect"] = "oracle" \/ n["mode"] # "query"
ModeAccepts(n) == n["mode"] = "catalog" => "catalog" \in Keys(n)
QueryRuns(n) == n["mode"] = "query" => QueriesGiven(n) /\ n["dialect"] = "oracle"
WorkflowAccepts(src) ==
  LET n == Normalize(src) IN Parsed(n) /\ DialectAccepts(n) /\ ModeAccepts(n) /\ QueryRuns(n)

-----------------------------------------------------------------------------
(* What is loaded: the catalog, or the queries with the options of the      *)
(* connection; the older layout of it goes to the replace protection. A key  *)
(* the schema does not know, and a db_schema that is left beside schema, are *)
(* read by nobody.                                                          *)
Loads(n) ==
  IF n["mode"] = "catalog"
  THEN [mode |-> "catalog", what |-> Only(Section(n, "catalog"), CatalogFields \ {"db_schema"}), options |-> None]
  ELSE [mode |-> "query", what |-> Only(Section(n, "query"), QueryFields),
        options |-> Only(Section(n, "dialect_options"), DialectFields)]
Execution(n) ==
  LET legacy == IF n["mode"] = "catalog"
                THEN Set(Only(Section(n, "catalog"), CatalogFields \ {"db_schema"}), "kind", "sql_database")
                ELSE Set(Overlay(Only(Section(n, "query"), QueryFields),
                              Only(Section(n, "dialect_options"), {"init_sql"})), "kind", "oracle_custom_sql")
  IN  Overlay(legacy, Only(n, PassThrough))

(* The tables that are loaded: each table of each schema, the tables of one  *)
(* schema under their transformed names, or one for each query.             *)
Tables(by, what, transform) == [by |-> by, what |-> what, transform |-> transform]
LoadedTables(n) ==
  LET c == Section(n, "catalog")
  IN  IF n["mode"] = "query" THEN Tables("queries", Get(Section(n, "query"), "queries"), "")
      ELSE IF Get(c, "schemas") # "" THEN Tables("schemas", c["schemas"], "")
      ELSE Tables("tables", Get(c, "tables"), Get(c, "table_name_transform"))

(* Those that the replace protection expects, from the execution manifest.  *)
ExpectedTables(e) ==
  IF e["kind"] = "oracle_custom_sql" THEN Tables("queries", Get(e, "queries"), "")
  ELSE IF Get(e, "schemas") # "" THEN Tables("schemas", e["schemas"], "")
  ELSE Tables("tables", Get(e, "tables"), Get(e, "table_name_transform"))

(* Fault: the sections of the source win over the normalised ones.          *)
CanonicalSourceFirst(src) ==
  LET n == Normalize(src)
      rest == Without(src, CatalogFields \cup QueryFields \cup DialectFields)
  IN  Set(Overlay(rest, n), "kind", n["kind"])

(* The canonical layout of a source.                                        *)
Canonical(src) ==
  LET n == Normalize(src)
      rest == Without(src, CatalogFields \cup QueryFields \cup DialectFields \cup Sections)
      laid == Overlay(n, rest)
  IN  IF laid["kind"] = "oracle" THEN Set(laid, "kind", "sqldb") ELSE laid
===============================================================================
