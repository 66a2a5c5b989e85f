------------------------------ MODULE Overrides -------------------------------
(***************************************************************************)
(* Runtime overrides of a manifest (dltaf/services/manifests/overrides.py)   *)
(* and how `dltaf manifest run` builds them from --set, --time-from and      *)
(* --time-to.                                                                 *)
(*                                                                         *)
(* A manifest is a tree of maps, lists and leaves. The KEY of --set KEY=VALUE *)
(* is the sequence of pieces it is read as: Dot, names, indexes and blanks    *)
(* and malformed brackets, so "a.b" and "a..b" are two keys of one path.      *)
(***************************************************************************)
EXTENDS Naturals, SequencesExt

Leaf(v)    == [leaf |-> v]
Map(f)     == [map |-> f]
List(s)    == [list |-> s]
Null       == [null |-> TRUE]
Refused    == [refused |-> TRUE]     \* an exception instead of a tree
IsMap(t)   == "map" \in DOMAIN t
IsList(t)  == "list" \in DOMAIN t

Dot        == [dot |-> TRUE]
Name(k)    == [name |-> k]
Index(i)   == [index |-> i]
Malformed  == [malformed |-> TRUE]   \* [x], a bracket that is not closed, blanks
IsName(p)  == "name" \in DOMAIN p

-------------------------------------------------------------------------------
(* split_kv and parse_value: no "=", or nothing before it, is refused; a value *)
(* is JSON where it can be read as JSON and text otherwise, whoever gave it.   *)
Readable(arg) == arg.equals /\ arg.key # << >>
ParseValue(raw) == IF "json" \in DOMAIN raw THEN raw.json ELSE Leaf(raw.text)
OverrideSpec(arg) == [path |-> arg.key, value |-> ParseValue(arg.raw)]

(* The tokens of a path; << >> stands for a path that is refused. *)
ParsePath(path) ==
  LET tokens[i \in 0..Len(path)] ==
        IF i = 0 THEN << >>
        ELSE IF path[i] = Dot THEN tokens[i - 1] ELSE Append(tokens[i - 1], path[i])
  IN IF Malformed \in Range(path) THEN << >> ELSE tokens[Len(path)]

(* specs_to_mapping: a dict; a key that comes again keeps its first place. *)
Given(out, spec) ==
  IF \E i \in DOMAIN out : out[i].path = spec.path
  THEN [i \in DOMAIN out |-> IF out[i].path = spec.path THEN spec ELSE out[i]]
  ELSE Append(out, spec)
SpecsToMapping(specs) ==
  LET out[i \in 0..Len(specs)] == IF i = 0 THEN << >> ELSE Given(out[i - 1], specs[i])
  IN out[Len(specs)]

-------------------------------------------------------------------------------
(* apply_override: what is missing or null on the way is created as what the  *)
(* next token wants; a scalar on the way, or the wrong container, is refused. *)
Wanted(next) == IF IsName(next) THEN Map([k \in {} |-> Null]) ELSE List(<< >>)

Under(cur, tok) ==
  IF IsName(tok)
  THEN IF tok.name \in DOMAIN cur.map THEN cur.map[tok.name] ELSE Null
  ELSE IF tok.index < Len(cur.list) THEN cur.list[tok.index + 1] ELSE Null

\* a list grows up to the index, with what Fill says
Into(cur, tok, t, fill) ==
  IF IsName(tok) THEN Map([k \in DOMAIN cur.map \cup {tok.name} |-> IF k = tok.name THEN t ELSE cur.map[k]])
  ELSE LET s == cur.list
           n == IF tok.index < Len(s) THEN Len(s) ELSE tok.index + 1
       IN List([i \in 1..n |-> IF i = tok.index + 1 THEN t
                               ELSE IF i <= Len(s) THEN s[i] ELSE fill])

Fits(cur, tok) == IF IsName(tok) THEN IsMap(cur) ELSE IsList(cur)

(* Down the path, to what each token is applied to, and back up with the value. *)
Apply(root, tokens, value) ==
  LET n == Len(tokens)
      cur[i \in 1..n] ==
        IF i = 1 THEN root
        ELSE IF ~Fits(cur[i - 1], tokens[i - 1]) THEN Refused
        ELSE LET old == Under(cur[i - 1], tokens[i - 1])
             IN IF old = Null THEN Wanted(tokens[i]) ELSE old
      new[i \in 1..n] ==
        IF i = n THEN Into(cur[i], tokens[i], value, Null)
        ELSE Into(cur[i], tokens[i], new[i + 1], Wanted(tokens[i + 1]))
  IN IF \A i \in 1..n : Fits(cur[i], tokens[i]) THEN new[1] ELSE Refused

ApplyOverride(manifest, spec) ==
  LET tokens == ParsePath(spec.path)
  IN IF manifest = Refused \/ tokens = << >> THEN Refused
     ELSE Apply(manifest, tokens, spec.value)

ApplyOverrides(manifest, specs) ==
  LET after[i \in 0..Len(specs)] ==
        IF i = 0 THEN manifest ELSE ApplyOverride(after[i - 1], specs[i])
  IN after[Len(specs)]

-------------------------------------------------------------------------------
(* ManifestRunCommand._build_overrides: args.set is a sequence of --set, *)
(* args.from and args.to are at most one value each.                      *)
WindowStart == <<Name("source"), Dot, Name("time_window"), Dot, Name("start")>>
WindowEnd   == <<Name("source"), Dot, Name("time_window"), Dot, Name("end")>>

Flags(args) == [i \in DOMAIN args.from |-> OverrideSpec([key |-> WindowStart, raw |-> args.from[i]])]
            \o [i \in DOMAIN args.to |-> OverrideSpec([key |-> WindowEnd, raw |-> args.to[i]])]
(* Fault: the flags are put before the values of --set. *)
BuildOverridesFlagsFirst(args) ==
  SpecsToMapping(Flags(args) \o [i \in DOMAIN args.set |-> OverrideSpec(args.set[i])])
BuildOverrides(args) ==
  SpecsToMapping([i \in DOMAIN args.set |-> OverrideSpec(args.set[i])] \o Flags(args))

(* The manifest a run works with, or Refused. *)
Overridden(manifest, args) ==
  IF \E i \in DOMAIN args.set : ~Readable(args.set[i]) THEN Refused
  ELSE ApplyOverrides(manifest, BuildOverrides(args))

(* What three names lead to in a manifest, Null if they lead nowhere. *)
Child(t, name) == IF IsMap(t) /\ name \in DOMAIN t.map THEN t.map[name] ELSE Null
At(t, names) == Child(Child(Child(t, names[1]), names[2]), names[3])
===============================================================================
