--------------------------- MODULE MCManifestDoctor ---------------------------
(* Manifests with the head in order or with everything to fix (the canonical   *)
(* kind only has something to report then), with the                          *)
(* connections before or after the source or not at all, and with every       *)
(* choice of kind, dialect, mode, layout (fields at the top of the source,    *)
(* in a section, or both) and place of a payload contract; manifests with     *)
(* both names of the schema; and manifests that are indented by four spaces.  *)
EXTENDS ManifestDoctor

MCExpected == "m"

Opt(present, lines) == IF present THEN lines ELSE << >>
Scalar(step, key, value) == Opt(value # "", <<Line(step, key, value)>>)

Top(good, step) ==
  Opt(good, <<Line(0, "version", "1")>>)
    \o <<Line(0, "pipeline", ""), Line(step, "name", IF good THEN "m" ELSE "other")>>
    \o Opt(~good, <<Line(0, "airflow", ""), Line(step, "schedule", "daily")>>)
Connections(step) ==
  <<Line(0, "connections", ""), Line(step, "source", ""), Line(2 * step, "kind", "oracle")>>
Contract(step) == <<Line(step, "payload_contract", ""), Line(2 * step, "mode", "warn")>>

Body(step, contract, kind, dialect, mode, layout) ==
  <<Line(0, "source", "")>>
    \o Opt(contract = "first", Contract(step))
    \o <<Line(step, "kind", kind)>>
    \o Scalar(step, "dialect", dialect) \o Scalar(step, "mode", mode)
    \o Opt("catalog" \in layout, <<Line(step, "catalog", ""), Line(2 * step, "schema", "s"), Line(2 * step, "tables", "t")>>)
    \o Opt("nested" \in layout, <<Line(step, "catalog", ""), Line(2 * step, "db_schema", "w"), Line(2 * step, "tables", "t")>>)
    \o Opt("schema" \in layout, <<Line(step, "schema", "x")>>)
    \o Opt("tables" \in layout, <<Line(step, "tables", "u"), Line(step, "db_schema", "v"),
                                  Line(step, "table_name_transform", "p")>>)
    \o Opt("query" \in layout, <<Line(step, "query", ""), Line(2 * step, "queries", "q")>>)
    \o Opt("deep" \in layout, <<Line(2 * step, "typo", "x")>>)
    \o Opt("queries" \in layout, <<Line(step, "queries", "r")>>)
    \o Opt("options" \in layout, <<Line(step, "init_sql", "i"), Line(step, "thick_mode", "true")>>)
    \o Opt("typo" \in layout, <<Line(step, "typo", "x")>>)
    \o Opt(contract = "last", Contract(step))

Layouts == SUBSET {"catalog", "tables", "query", "queries", "options"}
Document(good, step, conn, contract, kind, dialect, mode, layout) ==
  Top(good, step) \o Opt(conn = "before", Connections(step))
    \o Body(step, contract, kind, dialect, mode, layout) \o Opt(conn = "after", Connections(step))

MCDocuments ==
  {Document(kind # "sqldb", 2, "none", "none", kind, dialect, mode, layout) :
     kind \in SqlKinds, dialect \in {"", "oracle"}, mode \in {"", "catalog", "query"}, layout \in Layouts}
  \cup {Document(kind # "sqldb", 2, "none", "none", kind, "", mode, layout) :
     kind \in SqlKinds, mode \in {"", "catalog"}, layout \in {{"nested"}, {"nested", "schema"}}}
  \cup {Document(step = 4, step, conn, contract, kind, "", mode, layout) :
     step \in {2, 4}, conn \in {"before", "after", "none"}, contract \in {"first", "last", "none"},
     kind \in SqlKinds, mode \in {"", "query"}, layout \in {{"tables"}, {"query", "typo"}, {"query", "deep"}}}
===============================================================================
