--------------------------- MODULE MCContractedPull ---------------------------
EXTENDS ContractedPull

(* drift is too large for a capture, and secret longer than it keeps of a text. *)
MCRedacted == (TRUE :> [plain |-> "plain", drift |-> "note", secret |-> "masked"])
           @@ (FALSE :> [plain |-> "plain", drift |-> "note", secret |-> "cut"])
MCPayloads == {"plain", "drift", "secret"}
V1 == Schema({"plain"}, {})
V2 == Schema({"plain", "drift", "secret"}, {})
(* V3 has a reference that cannot be resolved in the part that drift reaches.   *)
V3 == Schema({"plain"}, {"drift"})
MCSchemas == {V1, V2, V3}

File(dir, id, shape) == [place |-> "manifest", dir |-> dir, name |-> <<"sample", id>>, shape |-> shape]
MCSamples == {File("contracts", 1, "plain"), File("samples", 2, "drift")}

Capture(dir, template, redact) ==
  [enabled |-> TRUE, dir |-> dir, template |-> template, redact |-> redact]
Config(mode, inline, path, samples, capture) ==
  [mode |-> mode, inline |-> inline, path |-> path, samples |-> samples, capture |-> capture]
MCConfigs == {
  None,
  Config("off", None, TRUE, {}, None),
  Config("false", None, TRUE, {}, None),
  Config("deny", None, TRUE, {}, None),
  Config("deny", None, TRUE, {<<"sample", 1>>}, Capture("samples", "{rand}", TRUE)),
  Config("warn", None, TRUE, {}, Capture("", "{rand}", TRUE)),
  Config("warn", None, TRUE, {}, Capture("samples", "fixed", FALSE)),
  Config("warn", None, TRUE, {}, Capture("", "unknown", TRUE)),
  Config("deny", V1, FALSE, {}, Capture("", "fixed", FALSE)),
  Config("warn", None, FALSE, {}, None)}

Set(key, raw) == [equals |-> TRUE, key |-> key, raw |-> raw]
Text(v) == [text |-> v]
Json(t) == [json |-> t]
Window == <<Name("source"), Dot, Name("time_window")>>
Args(set, from, to) == [set |-> set, from |-> from, to |-> to]
Wide == Map([start |-> Leaf("2023"), end |-> Leaf("2024")])
ModeKey == <<Name("source"), Dot, Name("payload_contract"), Dot, Name("mode")>>
MCArguments == {
  NoArgs,
  Args(<< >>, <<Text("2024")>>, <<Text("2025")>>),
  Args(<<Set(Window, Json(Wide))>>, <<Text("2024")>>, << >>),
  Args(<<Set(Window, Text("all"))>>, <<Text("2024")>>, << >>),
  Args(<<Set(WindowStart, Text("2020")), Set(Window, Json(Wide))>>, << >>, <<Text("2025")>>),
  Args(<<Set(Window, Json(Null)), Set(<<Name("source"), Dot, Dot, Name("time_window"), Dot, Name("start")>>, Text("2021"))>>,
       <<Text("2024")>>, <<Text("2025")>>),
  Args(<<Set(ModeKey, Text("warn"))>>, << >>, << >>),
  Args(<<Set(ModeKey, Text("off"))>>, << >>, << >>),
  Args(<<Set(<<Name("source"), Dot, Name("bins"), Index(1), Dot, Name("size")>>, Text("3"))>>, << >>, << >>),
  Args(<<Set(<<Name("source"), Malformed>>, Text("3"))>>, << >>, << >>),
  Args(<<[equals |-> FALSE, key |-> << >>, raw |-> Text("")]>>, << >>, << >>)}
===============================================================================
