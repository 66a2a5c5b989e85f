----------------------------- MODULE HookProtocol ------------------------------
(***************************************************************************)
(* What a hook may rely on, whatever the executor does in between. Hooks    *)
(* are entered one after the other; once the run has a verdict, the hooks   *)
(* that were entered are told that verdict, each once, the last one first,  *)
(* and only then does the run end, returning or raising as the verdict      *)
(* says. A run may end before any hook was entered; only a killed run       *)
(* leaves hooks untold.                                                     *)
(***************************************************************************)
EXTENDS Naturals, Sequences

CONSTANT Hooks

VARIABLES
  entered,     \* hooks entered and not told yet, in the order of entry
  verdict,     \* "none" until the run has succeeded or failed
  ended        \* how the run ended: "active" while it has not

hookVars == <<entered, verdict, ended>>

HookInit == entered = <<>> /\ verdict = "none" /\ ended = "none"

Open == ended # "active" /\ ended' = "active" /\ UNCHANGED <<entered, verdict>>

Enter(h) ==
  /\ ended = "active" /\ verdict = "none"
  /\ entered' = Append(entered, h)
  /\ UNCHANGED <<verdict, ended>>

Decide(v) ==
  /\ ended = "active" /\ verdict = "none"
  /\ verdict' = v
  /\ UNCHANGED <<entered, ended>>

Tell ==
  /\ verdict # "none" /\ entered # <<>>
  /\ entered' = SubSeq(entered, 1, Len(entered) - 1)
  /\ UNCHANGED <<verdict, ended>>

EndAs(v) == IF v = "succeeded" THEN {"returned"} ELSE IF v = "failed" THEN {"raised"} ELSE {"returned", "raised"}

Finish ==
  /\ ended = "active" /\ entered = <<>>
  /\ ended' \in EndAs(verdict)
  /\ verdict' = "none" /\ UNCHANGED entered

Die == ended = "active" /\ ended' = "killed" /\ entered' = <<>> /\ verdict' = "none"

HookNext ==
  \/ \E h \in Hooks : Enter(h)
  \/ \E v \in {"succeeded", "failed"} : Decide(v)
  \/ Open \/ Tell \/ Finish \/ Die

HookSpec == HookInit /\ [][HookNext]_hookVars
===============================================================================
