---------------------------- MODULE MCManifestRun ------------------------------
(* Three selections of hooks: the default auditing one, one with the policy, *)
(* none. The requests: every combination of planning flags, of which the     *)
(* executor refuses those with two; strict ones; one that only validates;    *)
(* a replace the policy objects to.                                          *)
EXTENDS ManifestRun

MCHookLists == {<<>>, <<"basic_logging", "audit_run">>, <<"audit_run", "replace_policy">>}

Plain(flags) ==
  [flags |-> flags, strict |-> FALSE, validateOnly |-> FALSE,
   disposition |-> "append", policy |-> "off", healthy |-> TRUE]

MCRequests ==
  {Plain(flags) : flags \in SUBSET Flags}
    \cup {[Plain(flags) EXCEPT !.strict = TRUE, !.healthy = FALSE] : flags \in {{}, {"plan"}, {"dry_run"}}}
    \cup {[Plain({}) EXCEPT !.validateOnly = TRUE],
          [Plain({}) EXCEPT !.disposition = "replace", !.policy = "deny"]}
===============================================================================
