------------------------------- MODULE LoadProofs -------------------------------
(***************************************************************************)
(* Theorems about loads. Of ReplaceLoad, for every set of tables, every      *)
(* expectation of the manifests and every way names may look like those of   *)
(* dlt's temporary tables: a replace replaces and an append appends once. Of *)
(* MongoLoad, for every collection, size of chunk, options and writers: no   *)
(* document is got twice, none that stays is missed, and none is left behind *)
(* the last value, as far as batches agree on an order.                      *)
(***************************************************************************)
EXTENDS ReplaceLoad, MongoLoad, FiniteSetTheorems, WellFoundedInduction, TLAPS

(* How often a table can hold the rows of this run, step by step: the check *)
(* and the creation find none, the load at most those the creation added,   *)
(* the reload at most those and the ones of the second append.              *)
Counts ==
  \A t \in Tables :
    /\ new[t] <= 2
    /\ pc \in {"clean", "check", "create"} => new[t] = 0
    /\ pc \in {"load", "clean_again", "append"} => new[t] <= 1
    /\ pc = "load" /\ disposition # "replace" => new[t] = 0

(* A package of this run is only there until it is loaded again or the run  *)
(* ends; a package of an earlier run is known of, or dropped.               *)
PackagesKnown ==
  /\ pending.own => pc \in {"idle", "clean_again", "append"}
  /\ pc = "reload" => pending = NoPackage
  /\ pc \in {"check", "create", "load"} /\ disposition = "replace" /\ stale # "pending" => pending = NoPackage

IInv == TypeOK /\ Counts /\ PackagesKnown /\ ReplaceExact /\ AppendOnce /\ CreatedBeforeReplace

-------------------------------------------------------------------------------
LEMMA InitInv == Init => IInv
<1> SUFFICES ASSUME Init PROVE IInv
  OBVIOUS
<1>1. TypeOK
  <2>1. new \in [Tables -> 0..3] /\ \A t \in Tables : new[t] = 0
    BY DEF Init
  <2>2. exists \subseteq Tables \cup Foreign \cup Temps /\ old \subseteq exists \cap (Tables \cup Foreign)
    BY DEF Init
  <2>3. \A t \in Tables : ~(new[t] > 0)
    BY <2>1
  <2>4. pc = "idle" /\ pc \in Stages
    BY DEF Init, Stages
  <2> QED BY <2>1, <2>2, <2>3, <2>4 DEF Init, TypeOK
<1>2. Counts /\ AppendOnce /\ PackagesKnown
  BY DEF Init, Counts, AppendOnce, PackagesKnown
<1>3. ReplaceExact /\ CreatedBeforeReplace
  BY DEF Init, ReplaceExact, CreatedBeforeReplace
<1> QED BY <1>1, <1>2, <1>3 DEF IInv

(* The types of the destination, which dlt and the cleanup change.          *)
DestinationOK ==
  /\ exists \subseteq Tables \cup Foreign \cup Temps
  /\ old \subseteq exists \cap (Tables \cup Foreign)
  /\ new \in [Tables -> Nat]
  /\ \A t \in Tables : new[t] > 0 => t \in exists
  /\ pending \in Packages \cup {NoPackage}

(* What dlt has done to the destination, whether it returned or raised: it  *)
(* added the rows of the run at most once to each table, and a replace left *)
(* at most one copy of them in each table that it touched.                  *)
LEMMA Loading ==
  ASSUME DestinationOK, NEW p \in Packages, NEW C \in SUBSET p.left, NEW L \in SUBSET C,
         Loaded(L, C, p), pending' \in Packages \cup {NoPackage}
  PROVE  /\ DestinationOK'
         /\ C \subseteq exists'
         /\ \A t \in Tables : new'[t] <= new[t] + 1
         /\ ~p.own => \A t \in Tables : new'[t] <= new[t]
         /\ p.how = "replace" => \A t \in Tables : new'[t] <= 1 \/ new'[t] = new[t]
         /\ p.how = "replace" /\ p.own => old' \cap C = {} /\ \A t \in L : new'[t] = 1
<1>0. p.left \subseteq Tables /\ C \subseteq Tables /\ L \subseteq Tables
  BY DEF Packages
<1>1. PICK T \in SUBSET Temps : exists' = exists \cup C \cup T
  BY DEF Loaded
<1>2. \A t \in Tables :
        LET kept == IF t \in C /\ p.how = "replace" THEN 0 ELSE new[t]
        IN  new'[t] = IF t \in L /\ p.own THEN kept + 1 ELSE kept
  BY DEF Loaded
<1>3. DOMAIN new' = Tables /\ new' = [t \in Tables |-> new'[t]]
  BY DEF Loaded
<1>4. \A t \in Tables : new[t] \in Nat
  BY DEF DestinationOK
<1>5. new' \in [Tables -> Nat]
  BY <1>2, <1>3, <1>4
<1>6. \A t \in Tables : new'[t] > 0 => t \in exists'
  BY <1>1, <1>2, <1>4 DEF DestinationOK
<1>7. old' \subseteq exists' \cap (Tables \cup Foreign)
  BY <1>0, <1>1 DEF Loaded, DestinationOK
<1>8. DestinationOK'
  BY <1>0, <1>1, <1>5, <1>6, <1>7 DEF DestinationOK
<1>9. \A t \in Tables : new'[t] <= new[t] + 1 /\ (~p.own => new'[t] <= new[t])
  BY <1>2, <1>4
<1>10. p.how = "replace" /\ p.own => old' \cap C = {} /\ \A t \in L : new'[t] = 1
  BY <1>0, <1>2 DEF Loaded
<1>11. p.how = "replace" => \A t \in Tables : new'[t] <= 1 \/ new'[t] = new[t]
  BY <1>2
<1> QED BY <1>1, <1>8, <1>9, <1>10, <1>11

(* What pipeline.run loads is a package, this run's unless one is pending.  *)
LEMMA JobIs ==
  ASSUME DestinationOK, NEW how \in {"append", "replace"}
  PROVE  /\ Job(how) \in Packages
         /\ pending # NoPackage => Job(how) = pending
         /\ pending = NoPackage => Job(how) = [how |-> how, own |-> TRUE, left |-> Tables]
<1>1. [how |-> how, own |-> TRUE, left |-> Tables] \in Packages
  BY DEF Packages
<1> QED BY <1>1 DEF Job, DestinationOK

LEMMA LoadSucceeded ==
  ASSUME DestinationOK, NEW how \in {"append", "replace"}, RunSucceeds(how)
  PROVE  /\ DestinationOK' /\ pending' = NoPackage
         /\ \A t \in Tables : new'[t] <= new[t] + 1
         /\ ~Job(how).own => \A t \in Tables : new'[t] <= new[t]
         /\ Job(how).how = "replace" => \A t \in Tables : new'[t] <= 1 \/ new'[t] = new[t]
         /\ pending = NoPackage => Tables \subseteq exists'
         /\ pending = NoPackage /\ how = "replace" => old' \cap Tables = {} /\ \A t \in Tables : new'[t] = 1
<1> DEFINE p == Job(how)
<1>1. p \in Packages /\ (pending = NoPackage => p.how = how /\ p.own /\ p.left = Tables)
  BY JobIs
<1>2. Loaded(p.left, p.left, p) /\ pending' = NoPackage
  BY DEF RunSucceeds
<1>3. p.left \in SUBSET p.left
  OBVIOUS
<1> HIDE DEF p
<1>4. /\ DestinationOK' /\ p.left \subseteq exists'
      /\ \A t \in Tables : new'[t] <= new[t] + 1
      /\ ~p.own => \A t \in Tables : new'[t] <= new[t]
      /\ p.how = "replace" => \A t \in Tables : new'[t] <= 1 \/ new'[t] = new[t]
      /\ p.how = "replace" /\ p.own => old' \cap p.left = {} /\ \A t \in p.left : new'[t] = 1
  BY <1>1, <1>2, <1>3, Loading
<1> QED BY <1>1, <1>2, <1>4 DEF p

LEMMA LoadRaised ==
  ASSUME DestinationOK, NEW how \in {"append", "replace"}, RunRaises(how)
  PROVE  /\ DestinationOK'
         /\ \A t \in Tables : new'[t] <= new[t] + 1
         /\ ~Job(how).own => \A t \in Tables : new'[t] <= new[t]
         /\ Job(how).how = "replace" => \A t \in Tables : new'[t] <= 1 \/ new'[t] = new[t]
<1> DEFINE p == Job(how)
<1>1. p \in Packages
  BY JobIs
<1>2. PICK C \in SUBSET p.left : \E L \in SUBSET C :
        Loaded(L, C, p) /\ pending' \in {NoPackage, [p EXCEPT !.left = @ \ L]}
  BY DEF RunRaises
<1>3. PICK L \in SUBSET C : Loaded(L, C, p) /\ pending' \in {NoPackage, [p EXCEPT !.left = @ \ L]}
  BY <1>2
<1> HIDE DEF p
<1>4. [p EXCEPT !.left = @ \ L] \in Packages
  BY <1>1 DEF Packages
<1>5. pending' \in Packages \cup {NoPackage}
  BY <1>3, <1>4
<1> QED BY <1>1, <1>3, <1>5, Loading DEF p

(* The cleanup only drops tables that hold no rows of this run.             *)
LEMMA Cleaning ==
  ASSUME DestinationOK, Cleanup \/ ClientRaises
  PROVE  DestinationOK' /\ new' = new
<1>1. CASE Cleanup
  <2>1. PICK U \in SUBSET Orphans : exists' = exists \ U /\ old' = old \ U
    BY <1>1 DEF Cleanup
  <2>2. U \cap Tables = {}
    BY LoadAssumption DEF Orphans
  <2> QED BY <1>1, <2>1, <2>2 DEF Cleanup, DestinationOK
<1>2. CASE ClientRaises
  BY <1>2 DEF ClientRaises, DestinationOK
<1> QED BY <1>1, <1>2

(* The counts bound new.                                                    *)
LEMMA CountsType ==
  ASSUME DestinationOK, Counts
  PROVE  new \in [Tables -> 0..3]
<1>1. \A t \in Tables : new[t] \in 0..3
  BY DEF DestinationOK, Counts
<1> QED BY <1>1 DEF DestinationOK

(* The other variables keep their types, and the control its order.         *)
ControlOK ==
  /\ pc \in Stages
  /\ disposition \in Dispositions /\ expected \in Expectations /\ checked \in BOOLEAN
  /\ ended \in {"none", "returned", "raised", "killed"}
  /\ stale \in {"none", "pending", "loaded"}
  /\ disposition # "replace" => pc \in {"idle", "load"}

LEMMA ControlStep == TypeOK /\ [Next]_vars => ControlOK'
<1> SUFFICES ASSUME TypeOK, [Next]_vars PROVE ControlOK'
  OBVIOUS
<1> USE DEF TypeOK, ControlOK, Stages, End, call, TakenUp
<1>1. CASE UNCHANGED vars
  BY <1>1 DEF vars
<1>2. CASE Start
  BY <1>2 DEF Start
<1>3. CASE Clean \/ Check
  BY <1>3 DEF Clean, Check
<1>4. CASE Create \/ CleanAgain
  BY <1>4 DEF Create, CleanAgain
<1>5. CASE Load
  <2>1. CASE End("returned")
    BY <1>5, <2>1 DEF Load
  <2>2. CASE End("raised")
    BY <1>5, <2>2 DEF Load
  <2>3. CASE pc' = "clean_again" /\ disposition = "replace" /\ UNCHANGED ended
    BY <1>5, <2>3 DEF Load
  <2> QED BY <1>5, <2>1, <2>2, <2>3 DEF Load, Recovers
<1>6. CASE AppendAgain \/ Reload \/ Killed
  BY <1>6 DEF AppendAgain, Reload, Killed
<1> QED BY <1>1, <1>2, <1>3, <1>4, <1>5, <1>6 DEF Next, Work

(* Every step of the destination: the types, and the counts of the next     *)
(* stage.                                                                   *)
LEMMA DestinationStep == IInv /\ [Next]_vars => DestinationOK' /\ Counts'
<1> SUFFICES ASSUME IInv, [Next]_vars PROVE DestinationOK' /\ Counts'
  OBVIOUS
<1>0. TypeOK /\ Counts /\ AppendOnce /\ PackagesKnown
  BY DEF IInv
<1>d. DestinationOK /\ \A t \in Tables : new[t] \in Nat
  BY <1>0 DEF TypeOK, DestinationOK
<1>n. DestinationOK' => \A t \in Tables : new'[t] \in Nat
  BY DEF DestinationOK
<1>h. disposition \in {"append", "replace"}
  BY <1>0, LoadAssumption DEF TypeOK
<1>s. ASSUME NEW how \in {"append", "replace"}, RunSucceeds(how) \/ RunRaises(how)
      PROVE  /\ DestinationOK'
             /\ \A t \in Tables : new'[t] <= new[t] + 1
             /\ ~Job(how).own => \A t \in Tables : new'[t] <= new[t]
             /\ Job(how).how = "replace" => \A t \in Tables : new'[t] <= 1 \/ new'[t] = new[t]
  BY <1>d, <1>s, LoadSucceeded, LoadRaised
(* A replace is this run's, or the package is and its rows are not.         *)
<1>r. ASSUME pc \in {"load", "reload"}
      PROVE  Job("replace").how = "replace" \/ ~Job("replace").own
  <2>1. pending = NoPackage \/ ~pending.own
    BY <1>0, <1>r DEF PackagesKnown
  <2> QED BY <1>d, <2>1, JobIs
<1>1. CASE UNCHANGED vars
  BY <1>0, <1>d, <1>1 DEF vars, call, destination, DestinationOK, Counts
<1>2. CASE Start
  <2>0. pending' \in Packages \cup {NoPackage}
    <3>1. pending' = [pending EXCEPT !.own = FALSE]
      BY <1>2 DEF Start
    <3>2. CASE pending = NoPackage
      <4>1. pending' = [how |-> "none", own |-> FALSE, left |-> {}]
        BY <3>1, <3>2 DEF NoPackage
      <4> QED BY <4>1 DEF NoPackage
    <3>3. CASE pending \in Packages
      BY <3>1, <3>3 DEF Packages
    <3> QED BY <1>d, <3>2, <3>3 DEF DestinationOK
  <2>1. DestinationOK'
    BY <1>d, <1>2, <2>0 DEF Start, DestinationOK
  <2>2. \A t \in Tables : new'[t] = 0
    BY <1>2 DEF Start
  <2> QED BY <2>1, <2>2 DEF Counts
<1>3. CASE Clean \/ CleanAgain
  <2>1. DestinationOK' /\ new' = new
    BY <1>d, <1>3, Cleaning DEF Clean, CleanAgain
  <2>2. \/ pc = "clean" /\ pc' \in {"check", "idle"}
        \/ pc = "clean_again" /\ pc' = "append"
    BY <1>3 DEF Clean, CleanAgain, End
  <2> QED BY <1>0, <2>1, <2>2 DEF Counts
<1>4. CASE Check
  <2>1. DestinationOK' /\ new' = new
    BY <1>d, <1>4 DEF Check, destination, DestinationOK
  <2>2. pc = "check"
    BY <1>4 DEF Check
  <2>3. \A t \in Tables : new'[t] = 0
    BY <1>0, <2>1, <2>2 DEF Counts
  <2> QED BY <2>1, <2>3 DEF Counts
<1>5. CASE Create
  <2>1. pc = "create" /\ pc' \in {"load", "idle"} /\ disposition' = disposition
    BY <1>5 DEF Create, End, call
  <2>2. disposition = "replace"
    BY <1>0, <2>1 DEF TypeOK
  <2>3. DestinationOK' /\ \A t \in Tables : new'[t] <= new[t] + 1
    BY <1>5, <1>s DEF Create
  <2>4. \A t \in Tables : new[t] = 0
    BY <1>0, <2>1 DEF Counts
  <2> QED BY <1>d, <1>n, <2>1, <2>2, <2>3, <2>4 DEF Counts
<1>6. CASE Load
  <2>1. pc = "load" /\ pc' \in {"clean_again", "idle"}
    BY <1>6 DEF Load, End
  <2>2. CASE disposition = "replace"
    <3>1. DestinationOK' /\ \A t \in Tables : new'[t] <= 1 \/ new'[t] <= new[t]
      BY <1>d, <1>n, <1>6, <1>s, <1>r, <2>1, <2>2 DEF Load
    <3> QED BY <1>0, <1>d, <1>n, <2>1, <3>1 DEF Counts
  <2>3. CASE disposition # "replace"
    <3>1. DestinationOK' /\ \A t \in Tables : new'[t] <= new[t] + 1
      BY <1>6, <1>h, <1>s DEF Load
    <3>2. \A t \in Tables : new[t] = 0
      BY <1>0, <2>1, <2>3 DEF Counts
    <3> QED BY <1>d, <1>n, <2>1, <3>1, <3>2 DEF Counts
  <2> QED BY <2>2, <2>3
<1>7. CASE AppendAgain
  <2>1. pc = "append" /\ pc' \in {"reload", "idle"}
    BY <1>7 DEF AppendAgain, End
  <2>2. DestinationOK' /\ \A t \in Tables : new'[t] <= new[t] + 1
    BY <1>7, <1>s DEF AppendAgain
  <2> QED BY <1>0, <1>d, <1>n, <2>1, <2>2 DEF Counts
<1>8. CASE Reload
  <2>1. pc = "reload" /\ pc' = "idle"
    BY <1>8 DEF Reload, End
  <2>2. DestinationOK' /\ \A t \in Tables : new'[t] <= 1 \/ new'[t] <= new[t]
    BY <1>d, <1>n, <1>8, <1>s, <1>r, <2>1 DEF Reload
  <2> QED BY <1>0, <1>d, <1>n, <2>1, <2>2 DEF Counts
<1>9. CASE Killed
  <2>1. pc' = "idle"
    BY <1>9 DEF Killed, End
  <2>2. CASE UNCHANGED destination
    BY <1>0, <1>d, <2>1, <2>2 DEF destination, DestinationOK, Counts
  <2>3. CASE pc \in {"create", "append"} /\ RunRaises("append")
    <3>1. DestinationOK' /\ \A t \in Tables : new'[t] <= new[t] + 1
      BY <1>s, <2>3
    <3> QED BY <1>0, <1>d, <1>n, <2>1, <2>3, <3>1 DEF Counts
  <2>4. CASE pc = "load" /\ RunRaises(disposition)
    <3>1. DestinationOK' /\ \A t \in Tables : new'[t] <= new[t] + 1
      BY <1>h, <1>s, <2>4
    <3> QED BY <1>0, <1>d, <1>n, <2>1, <2>4, <3>1 DEF Counts
  <2>5. CASE pc = "reload" /\ RunRaises("replace")
    <3>1. DestinationOK' /\ \A t \in Tables : new'[t] <= 1 \/ new'[t] <= new[t]
      BY <1>d, <1>n, <1>r, <1>s, <2>5
    <3> QED BY <1>0, <1>d, <1>n, <2>1, <3>1 DEF Counts
  <2> QED BY <1>9, <2>2, <2>3, <2>4, <2>5 DEF Killed
<1> QED BY <1>1, <1>2, <1>3, <1>4, <1>5, <1>6, <1>7, <1>8, <1>9 DEF Next, Work

LEMMA TypeStep == IInv /\ [Next]_vars => TypeOK'
<1> SUFFICES ASSUME IInv, [Next]_vars PROVE TypeOK'
  OBVIOUS
<1>1. ControlOK' /\ DestinationOK' /\ Counts'
  BY ControlStep, DestinationStep DEF IInv
<1>2. new' \in [Tables -> 0..3]
  <2>1. \A t \in Tables : new'[t] \in 0..3
    BY <1>1 DEF DestinationOK, Counts
  <2> QED BY <1>1, <2>1 DEF DestinationOK
<1> QED BY <1>1, <1>2 DEF TypeOK, ControlOK, DestinationOK

(* Packages are this run's after it made them, and an earlier one is taken  *)
(* up, dropped or known to be there.                                        *)
LEMMA PackagesStep == IInv /\ [Next]_vars => PackagesKnown'
<1> SUFFICES ASSUME IInv, [Next]_vars PROVE PackagesKnown'
  OBVIOUS
<1>0. TypeOK /\ PackagesKnown
  BY DEF IInv
<1>n. ~NoPackage.own
  BY DEF NoPackage
<1>s. ASSUME NEW how, RunSucceeds(how) PROVE pending' = NoPackage
  BY <1>s DEF RunSucceeds
<1>1. CASE UNCHANGED vars
  BY <1>0, <1>1 DEF vars, call, destination, PackagesKnown
<1>2. CASE Start
  <2>1. ~pending'.own
    <3>1. pending \in Packages \cup {NoPackage}
      BY <1>0 DEF TypeOK
    <3> QED BY <1>2, <3>1 DEF Start, Packages, NoPackage
  <2>2. disposition' = "replace" => pc' = "clean"
    BY <1>2 DEF Start
  <2>3. pc' \in {"clean", "load"}
    BY <1>2 DEF Start
  <2> QED BY <2>1, <2>2, <2>3 DEF PackagesKnown
<1>3. CASE Clean
  <2>1. /\ pending' \in {NoPackage, pending} /\ pc = "clean" /\ pc' \in {"check", "idle"}
        /\ stale' # "pending" => pending' = NoPackage
    BY <1>3 DEF Clean, Cleanup, ClientRaises, End
  <2> QED BY <1>0, <1>n, <2>1 DEF PackagesKnown
<1>4. CASE Check
  BY <1>0, <1>4 DEF Check, PackagesKnown, destination, call
<1>5. CASE Create
  <2>1. pc' \in {"load", "idle"} /\ (pc' = "load" => pending' = NoPackage)
    BY <1>5, <1>s DEF Create, End
  <2> QED BY <1>n, <2>1 DEF PackagesKnown
<1>6. CASE Load
  <2>1. pc' \in {"clean_again", "idle"}
    BY <1>6 DEF Load, End
  <2> QED BY <2>1 DEF PackagesKnown
<1>7. CASE CleanAgain
  <2>1. pc' = "append"
    BY <1>7 DEF CleanAgain
  <2> QED BY <2>1 DEF PackagesKnown
<1>8. CASE AppendAgain
  <2>1. pc' \in {"reload", "idle"} /\ (pc' = "reload" => pending' = NoPackage)
    BY <1>8, <1>s DEF AppendAgain, End
  <2> QED BY <1>n, <2>1 DEF PackagesKnown
<1>9. CASE Reload \/ Killed
  <2>1. pc' = "idle"
    BY <1>9 DEF Reload, Killed, End
  <2> QED BY <2>1 DEF PackagesKnown
<1> QED BY <1>1, <1>2, <1>3, <1>4, <1>5, <1>6, <1>7, <1>8, <1>9 DEF Next, Work

(* A replace that succeeds with nothing pending leaves each table with the  *)
(* rows of the run, once, and with no others.                               *)
LEMMA ReplaceLoaded ==
  ASSUME TypeOK, RunSucceeds("replace"), pending = NoPackage
  PROVE  old' \cap Tables = {} /\ \A t \in Tables : new'[t] = 1
<1>1. DestinationOK
  BY DEF TypeOK, DestinationOK
<1> QED BY <1>1, LoadSucceeded

LEMMA ReplaceStep == IInv /\ [Next]_vars => ReplaceExact'
<1> SUFFICES ASSUME IInv, [Next]_vars, pc' = "idle", ended' = "returned", disposition' = "replace", stale' # "pending"
             PROVE  old' \cap Tables = {} /\ \A t \in Tables : new'[t] = 1
  BY DEF ReplaceExact
<1>0. TypeOK /\ ReplaceExact /\ PackagesKnown
  BY DEF IInv
<1>1. CASE UNCHANGED vars
  BY <1>0, <1>1 DEF vars, call, destination, ReplaceExact
<1>2. CASE Start
  BY <1>2 DEF Start
<1>3. CASE Clean \/ Check \/ Create \/ CleanAgain \/ AppendAgain \/ Killed
  BY <1>3 DEF Clean, Check, Create, CleanAgain, AppendAgain, Killed, End
<1>4. CASE Load \/ Reload
  <2>1. RunSucceeds("replace") /\ pc \in {"load", "reload"} /\ disposition = "replace" /\ stale # "pending"
    BY <1>0, <1>4 DEF Load, Reload, End, call, TypeOK
  <2>2. pending = NoPackage
    BY <1>0, <2>1 DEF PackagesKnown
  <2> QED BY <1>0, <2>1, <2>2, ReplaceLoaded
<1> QED BY <1>1, <1>2, <1>3, <1>4 DEF Next, Work

(* A run of another disposition has loaded at most once, and nothing before.*)
LEMMA AppendStep == IInv /\ [Next]_vars => AppendOnce'
<1> SUFFICES ASSUME IInv, [Next]_vars, disposition' # "replace", NEW t \in Tables
             PROVE  new'[t] <= 1
  BY DEF AppendOnce
<1>0. TypeOK /\ Counts /\ AppendOnce
  BY DEF IInv
<1>1. CASE UNCHANGED vars
  BY <1>0, <1>1 DEF vars, call, destination, AppendOnce
<1>2. CASE Start
  BY <1>2 DEF Start
<1>3. CASE pc \notin {"idle", "load"}
  <2>1. disposition = "replace"
    BY <1>0, <1>3 DEF TypeOK
  <2> QED BY <1>1, <1>2, <1>3, <2>1
    DEF Next, Work, Clean, Check, Create, Load, CleanAgain, AppendAgain, Reload, Killed, call
<1>4. CASE pc = "load" /\ (Load \/ Killed)
  <2>1. new[t] = 0 /\ new' \in [Tables -> 0..3]
    <3>1. disposition # "replace"
      BY <1>4 DEF Load, Killed, call
    <3> QED BY <1>0, <1>4, <3>1, TypeStep DEF Counts, TypeOK
  <2>2. DestinationOK
    BY <1>0 DEF TypeOK, DestinationOK
  <2>3. CASE UNCHANGED destination
    BY <2>1, <2>3 DEF destination
  <2>4. CASE RunSucceeds(disposition) \/ RunRaises(disposition)
    <3>1. disposition \in {"append", "replace"}
      BY <1>0, LoadAssumption DEF TypeOK
    <3>2. new'[t] <= new[t] + 1
      BY <2>2, <2>4, <3>1, LoadSucceeded, LoadRaised
    <3> QED BY <2>1, <3>2
  <2> QED BY <1>4, <2>3, <2>4 DEF Load, Killed
<1>5. \/ UNCHANGED vars \/ Start
      \/ pc \notin {"idle", "load"}
      \/ pc = "load" /\ (Load \/ Killed)
  BY DEF Next, Work, Clean, Check, Create, Load, CleanAgain, AppendAgain, Reload, Killed
<1> QED BY <1>1, <1>2, <1>3, <1>4, <1>5

(* The check sends a run with a missing table to the creation, which makes  *)
(* all tables.                                                              *)
LEMMA CreatedStep == IInv /\ [Next]_vars => CreatedBeforeReplace'
<1> SUFFICES ASSUME IInv, [Next]_vars, pc' = "load", checked', disposition' = "replace", stale' = "none"
             PROVE  expected' \subseteq exists'
  BY DEF CreatedBeforeReplace
<1>0. TypeOK /\ CreatedBeforeReplace /\ PackagesKnown
  BY DEF IInv
<1>1. CASE UNCHANGED vars
  BY <1>0, <1>1 DEF vars, call, destination, CreatedBeforeReplace
<1>2. CASE Check
  <2>1. Missing = {} /\ UNCHANGED <<expected, exists>>
    BY <1>2 DEF Check, call, destination
  <2> QED BY <2>1 DEF Missing, Seen
<1>3. CASE Create
  <2>1. RunSucceeds("append") /\ expected' = expected /\ pc = "create" /\ disposition = "replace" /\ stale = "none"
    BY <1>3 DEF Create, End, call, TakenUp
  <2>2. Tables \subseteq exists'
    <3>1. pending = NoPackage /\ DestinationOK
      BY <1>0, <2>1 DEF PackagesKnown, TypeOK, DestinationOK
    <3> QED BY <2>1, <3>1, LoadSucceeded
  <2>3. expected \subseteq Tables
    BY <1>0, LoadAssumption DEF TypeOK
  <2> QED BY <2>1, <2>2, <2>3
<1> QED BY <1>1, <1>2, <1>3
  DEF Next, Work, Start, Clean, Load, CleanAgain, AppendAgain, Reload, Killed, End

LEMMA Inductive == IInv /\ [Next]_vars => IInv'
BY TypeStep, DestinationStep, PackagesStep, ReplaceStep, AppendStep, CreatedStep DEF IInv

LEMMA Invariant == Spec => []IInv
BY InitInv, Inductive, PTL DEF Spec

-------------------------------------------------------------------------------
(* The variables keep their types: in particular no table is loaded more    *)
(* often than the steps of one call do, whatever sets of tables it meets.   *)
THEOREM Types == Spec => []TypeOK
<1>1. IInv => TypeOK
  BY DEF IInv
<1> QED BY <1>1, Invariant, PTL

(* A replace that returned has replaced every table, whatever failed and    *)
(* was repeated before (common.py run_with_replace_protection), unless the  *)
(* cleanup failed to drop a pending package and dlt loaded that one.        *)
THEOREM ReplaceIsExact == Spec => []ReplaceExact
<1>1. IInv => ReplaceExact
  BY DEF IInv
<1> QED BY <1>1, Invariant, PTL

(* A load that only adds rows is never repeated (common.py, the recovery).  *)
THEOREM AppendsOnce == Spec => []AppendOnce
<1>1. IInv => AppendOnce
  BY DEF IInv
<1> QED BY <1>1, Invariant, PTL

(* A replace that could ask the destination starts with all the expected    *)
(* tables there (common.py, the creation of missing tables), unless it found*)
(* a package pending that it could not drop.                                *)
THEOREM CreatedFirst == Spec => []CreatedBeforeReplace
<1>1. IInv => CreatedBeforeReplace
  BY DEF IInv
<1> QED BY <1>1, Invariant, PTL

(* When the check looks for the names under which the destination keeps the *)
(* tables, rows are appended before a replace only if a table is missing.   *)
THEOREM AppendsIfMissing ==
  ASSUME SameNames = TRUE
  PROVE  Spec => []AppendOnlyIfMissing
<1>1. Init => AppendOnlyIfMissing
  BY DEF Init, AppendOnlyIfMissing
<1>2. AppendOnlyIfMissing /\ [Next]_vars => AppendOnlyIfMissing'
  <2> SUFFICES ASSUME AppendOnlyIfMissing, [Next]_vars, pc' = "create"
               PROVE  ~(expected' \subseteq exists')
    BY DEF AppendOnlyIfMissing
  <2>1. CASE UNCHANGED vars
    BY <2>1 DEF vars, call, destination, AppendOnlyIfMissing
  <2>2. CASE Check
    <3>1. Missing # {} /\ UNCHANGED <<expected, exists>>
      BY <2>2 DEF Check, call, destination
    <3> QED BY <3>1, SameNames = TRUE DEF Missing, Seen
  <2> QED BY <2>1, <2>2
    DEF Next, Work, Start, Clean, Create, Load, CleanAgain, AppendAgain, Reload, Killed, End
<1> QED BY <1>1, <1>2, PTL DEF Spec

-------------------------------------------------------------------------------
(* MongoLoad. A query orders what it finds, but for ties: a batch surely gets *)
(* a row, or may get it, by how many rows come before it in any case and how  *)
(* many may. What is read is compared with what is still to come: the rows    *)
(* ahead of the cursor, or of the batches that have not run.                  *)

(* Numbers.                                                                  *)
LEMMA Smallest ==
  ASSUME NEW T \in SUBSET Nat, T # {}
  PROVE  \E x \in T : \A y \in T : x <= y
<1> DEFINE R == OpToRel(<, Nat)
<1>1. IsWellFoundedOn(R, Nat)
  BY NatLessThanWellFounded
<1>2. \A x, y \in Nat : y < x => <<y, x>> \in R
  BY DEF OpToRel
<1> HIDE DEF R
<1>3. \E x \in T : \A y \in T : ~ (<<y, x>> \in R)
  BY <1>1, WFMin, Zenon
<1>4. \A x, y \in Nat : ~(y < x) => x <= y
  OBVIOUS
<1> QED BY <1>2, <1>3, <1>4

LEMMA Largest ==
  ASSUME NEW T \in SUBSET Nat, T # {}, NEW n \in Nat, \A t \in T : t <= n
  PROVE  \E x \in T : \A y \in T : y <= x
<1> DEFINE D == {n - t : t \in T}
<1>1. D \in SUBSET Nat /\ D # {}
  <2>1. \A t \in T : n - t \in Nat
    OBVIOUS
  <2> QED BY <2>1
<1>2. PICK d \in D : \A e \in D : d <= e
  BY <1>1, Smallest
<1>3. PICK x \in T : d = n - x
  OBVIOUS
<1>4. \A y \in T : y <= x
  BY <1>2, <1>3
<1> QED BY <1>4

LEMMA MaxIs ==
  ASSUME NEW T \in SUBSET Nat, T # {}, NEW n \in Nat, \A t \in T : t <= n
  PROVE  Max(T) \in T /\ \A t \in T : t <= Max(T)
<1>1. \E x \in T : \A y \in T : x >= y
  BY Largest
<1>2. Max(T) \in T /\ \A y \in T : Max(T) >= y
  BY <1>1 DEF Max
<1> QED BY <1>2

LEMMA MinIs ==
  ASSUME NEW T \in SUBSET Nat, T # {}
  PROVE  Min(T) \in T /\ \A t \in T : Min(T) <= t
<1>1. \E x \in T : \A y \in T : x <= y
  BY Smallest
<1> QED BY <1>1 DEF Min

LEMMA MinOfTwo ==
  ASSUME NEW a \in Nat, NEW b \in Nat
  PROVE  Min({a, b}) \in Nat /\ Min({a, b}) <= a /\ Min({a, b}) <= b /\ Min({a, b}) \in {a, b}
<1>1. {a, b} \in SUBSET Nat /\ {a, b} # {} /\ a \in {a, b} /\ b \in {a, b}
  OBVIOUS
<1> QED BY <1>1, MinIs

(* Chunks of size c one after the other leave no number out ...              *)
LEMMA Piece ==
  ASSUME NEW c \in Nat \ {0}, NEW i \in Nat
  PROVE  \E k \in 0..i : k * c <= i /\ i < k * c + c
<1> DEFINE T == {k \in Nat : i < k * c + c}
<1>1. i < i * c + c
  <2>1. i <= i * c
    OBVIOUS
  <2>2. i * c \in Nat
    OBVIOUS
  <2> QED BY <2>1, <2>2
<1>2. T \in SUBSET Nat /\ i \in T
  BY <1>1
<1>3. PICK k \in T : \A j \in T : k <= j
  BY <1>2, Smallest
<1>4. k \in Nat /\ k <= i /\ i < k * c + c
  BY <1>2, <1>3
<1>5. k * c <= i
  <2>1. CASE k = 0
    BY <2>1
  <2>2. CASE k # 0
    <3>1. k - 1 \in Nat /\ k - 1 \notin T
      BY <1>3, <1>4, <2>2
    <3>2. ~(i < (k - 1) * c + c)
      BY <3>1
    <3>3. (k - 1) * c + c = k * c /\ k * c \in Nat
      BY <1>4
    <3> QED BY <3>2, <3>3
  <2> QED BY <2>1, <2>2
<1> QED BY <1>4, <1>5

(* ... and do not overlap.                                                   *)
LEMMA PiecesApart ==
  ASSUME NEW c \in Nat \ {0}, NEW j \in Nat, NEW k \in Nat, j < k
  PROVE  j * c + c <= k * c /\ j * c \in Nat
<1>1. PICK d \in Nat : k = j + 1 + d
  <2>1. k - j - 1 \in Nat /\ k = j + 1 + (k - j - 1)
    OBVIOUS
  <2> QED BY <2>1
<1>2. (j + 1 + d) * c = j * c + c + d * c
  OBVIOUS
<1>3. j * c \in Nat /\ d * c \in Nat
  OBVIOUS
<1> QED BY <1>1, <1>2, <1>3

-------------------------------------------------------------------------------
(* Rows in order.                                                            *)
Orders == {"natural", "up", "down"}
OnePerPlace(rows) ==
  /\ rows \subseteq [place : Nat, stamp : Nat] /\ IsFiniteSet(rows)
  /\ \A r, q \in rows : r.place = q.place => r = q
(* How many rows come before a row in any case, and how many may.            *)
Low(order, rows, r) == Cardinality({q \in rows : Before(order, q, r)})
High(order, rows, r) == Cardinality({q \in rows \ {r} : ~Before(order, r, q)})

LEMMA Ranked ==
  ASSUME NEW order \in Orders, NEW rows, OnePerPlace(rows), NEW r \in rows
  PROVE  /\ Low(order, rows, r) \in Nat /\ High(order, rows, r) \in Nat /\ Cardinality(rows) \in Nat
         /\ Low(order, rows, r) <= High(order, rows, r) /\ High(order, rows, r) < Cardinality(rows)
         /\ IsFiniteSet({q \in rows : Before(order, q, r)})
         /\ IsFiniteSet({q \in rows \ {r} : ~Before(order, r, q)})
<1> DEFINE L == {q \in rows : Before(order, q, r)}  H == {q \in rows \ {r} : ~Before(order, r, q)}  O == rows \ {r}
<1>1. \A q \in rows : q.stamp \in Nat
  BY DEF OnePerPlace
<1>2. \A q \in rows : Before(order, q, r) => q # r /\ ~Before(order, r, q)
  <2>1. CASE order = "natural"
    BY <2>1 DEF Before
  <2>2. CASE order = "up"
    BY <1>1, <2>2 DEF Before
  <2>3. CASE order = "down"
    BY <1>1, <2>3 DEF Before
  <2> QED BY <2>1, <2>2, <2>3 DEF Orders
<1>3. L \in SUBSET H /\ H \in SUBSET O /\ IsFiniteSet(rows)
  BY <1>2 DEF OnePerPlace
<1>4. IsFiniteSet(O) /\ Cardinality(O) = Cardinality(rows) - 1 /\ Cardinality(rows) \in Nat
  BY <1>3, FS_RemoveElement, FS_CardinalityType
<1> HIDE DEF L, H, O
<1>5. IsFiniteSet(H) /\ Cardinality(H) <= Cardinality(O) /\ Cardinality(H) \in Nat
  BY <1>3, <1>4, FS_Subset, FS_CardinalityType
<1>6. IsFiniteSet(L) /\ Cardinality(L) <= Cardinality(H) /\ Cardinality(L) \in Nat
  BY <1>3, <1>5, FS_Subset, FS_CardinalityType
<1>7. Cardinality(H) < Cardinality(rows)
  BY <1>4, <1>5
<1> QED BY <1>4, <1>5, <1>6, <1>7 DEF Low, High, L, H

(* Rows that differ in the sorted field have one place in the order.         *)
LEMMA RankedApart ==
  ASSUME NEW order \in {"up", "down"}, NEW rows, OnePerPlace(rows),
         \A r, q \in rows : r.stamp = q.stamp => r = q, NEW r \in rows
  PROVE  Low(order, rows, r) = High(order, rows, r)
<1>1. \A q \in rows : q.stamp \in Nat
  BY DEF OnePerPlace
<1>2. \A q \in rows : Before(order, q, r) <=> q # r /\ ~Before(order, r, q)
  BY <1>1 DEF Before
<1>3. {q \in rows : Before(order, q, r)} = {q \in rows \ {r} : ~Before(order, r, q)}
  BY <1>2
<1> QED BY <1>3 DEF Low, High

(* What n rows a query gives first: a row is among them if no more than n     *)
(* may come before it, and is not if as many do.                             *)
LEMMA FrontIs ==
  ASSUME NEW rows, IsFiniteSet(rows), NEW n \in Nat, NEW order, NEW front \in Fronts(order, rows, n)
  PROVE  /\ front \in SUBSET rows /\ IsFiniteSet(front) /\ Cardinality(front) \in Nat
         /\ Cardinality(front) <= n /\ (Cardinality(front) = n \/ front = rows)
         /\ \A r \in front, q \in rows : q \notin front => ~Before(order, q, r)
<1>1. front \in SUBSET rows /\ Cardinality(front) = Min({n, Cardinality(rows)})
  BY DEF Fronts
<1>2. IsFiniteSet(front) /\ Cardinality(rows) \in Nat
  BY <1>1, FS_Subset, FS_CardinalityType
<1>3. Cardinality(front) \in {n, Cardinality(rows)} /\ Cardinality(front) <= n /\ Cardinality(front) \in Nat
  BY <1>1, <1>2, MinOfTwo
<1>4. Cardinality(front) = Cardinality(rows) => front = rows
  BY <1>1, <1>2, FS_Subset
<1>5. \A r \in front, q \in rows : q \notin front => ~Before(order, q, r)
  BY DEF Fronts
<1> QED BY <1>1, <1>2, <1>3, <1>4, <1>5

LEMMA FrontHas ==
  ASSUME NEW order \in Orders, NEW rows, OnePerPlace(rows), NEW n \in Nat,
         NEW front \in Fronts(order, rows, n), NEW r \in rows
  PROVE  /\ High(order, rows, r) < n => r \in front
         /\ n <= Low(order, rows, r) => r \notin front
<1>1. /\ front \in SUBSET rows /\ IsFiniteSet(front) /\ Cardinality(front) \in Nat
      /\ Cardinality(front) <= n /\ (Cardinality(front) = n \/ front = rows)
      /\ \A s \in front, q \in rows : q \notin front => ~Before(order, q, s)
  BY FrontIs DEF OnePerPlace
<1>2. /\ Low(order, rows, r) \in Nat /\ High(order, rows, r) \in Nat
      /\ IsFiniteSet({q \in rows : Before(order, q, r)})
      /\ IsFiniteSet({q \in rows \ {r} : ~Before(order, r, q)})
  BY Ranked
<1>3. ASSUME r \notin front PROVE ~(High(order, rows, r) < n)
  <2>1. front \in SUBSET {q \in rows \ {r} : ~Before(order, r, q)}
    BY <1>1, <1>3
  <2>2. Cardinality(front) <= High(order, rows, r)
    BY <1>2, <2>1, FS_Subset DEF High
  <2>3. front # rows
    BY <1>3
  <2> QED BY <1>1, <1>2, <2>2, <2>3
<1>4. ASSUME r \in front PROVE ~(n <= Low(order, rows, r))
  <2> DEFINE L == {q \in rows : Before(order, q, r)}  M == L \cup {r}
  <2>1. ~Before(order, r, r)
    <3>1. r.stamp \in Nat
      BY DEF OnePerPlace
    <3> QED BY <3>1 DEF Before, Orders
  <2>2. r \notin L /\ M \in SUBSET front
    BY <1>1, <1>4, <2>1
  <2> HIDE DEF L
  <2>3. IsFiniteSet(L) /\ Cardinality(L) \in Nat /\ Low(order, rows, r) = Cardinality(L)
    BY <1>2, FS_CardinalityType DEF L, Low
  <2>4. Cardinality(M) = Cardinality(L) + 1
    BY <2>2, <2>3, FS_AddElement
  <2> HIDE DEF M
  <2>5. Cardinality(M) <= Cardinality(front)
    BY <1>1, <2>2, FS_Subset
  <2> QED BY <1>1, <2>3, <2>4, <2>5
<1> QED BY <1>3, <1>4

(* A row that is strictly the last changes nothing before it.                *)
LEMMA RankAdded ==
  ASSUME NEW order \in Orders, NEW rows, NEW x, x \notin rows, OnePerPlace(rows \cup {x}), NEW r \in rows
  PROVE  /\ ~Before(order, x, r) => Low(order, rows \cup {x}, r) = Low(order, rows, r)
         /\ Before(order, r, x) => High(order, rows \cup {x}, r) = High(order, rows, r)
<1>1. ASSUME ~Before(order, x, r) PROVE Low(order, rows \cup {x}, r) = Low(order, rows, r)
  <2>1. {q \in rows \cup {x} : Before(order, q, r)} = {q \in rows : Before(order, q, r)}
    BY <1>1
  <2> QED BY <2>1 DEF Low
<1>2. ASSUME Before(order, r, x) PROVE High(order, rows \cup {x}, r) = High(order, rows, r)
  <2>1. {q \in (rows \cup {x}) \ {r} : ~Before(order, r, q)} = {q \in rows \ {r} : ~Before(order, r, q)}
    BY <1>2
  <2> QED BY <2>1 DEF High
<1> QED BY <1>1, <1>2

LEMMA RankLast ==
  ASSUME NEW order \in Orders, NEW rows, NEW x, x \notin rows, OnePerPlace(rows \cup {x}),
         \A r \in rows : Before(order, r, x)
  PROVE  /\ Low(order, rows \cup {x}, x) = Cardinality(rows)
         /\ High(order, rows \cup {x}, x) = Cardinality(rows)
<1> DEFINE more == rows \cup {x}
<1>1. \A r \in more : r.stamp \in Nat
  BY DEF OnePerPlace
<1>2. ~Before(order, x, x) /\ \A r \in rows : ~Before(order, x, r)
  <2>1. CASE order = "natural"
    BY <2>1 DEF Before
  <2>2. CASE order = "up"
    BY <1>1, <2>2 DEF Before
  <2>3. CASE order = "down"
    BY <1>1, <2>3 DEF Before
  <2> QED BY <2>1, <2>2, <2>3 DEF Orders
<1>3. {q \in more : Before(order, q, x)} = rows /\ {q \in more \ {x} : ~Before(order, x, q)} = rows
  BY <1>2
<1> QED BY <1>3 DEF Low, High

-------------------------------------------------------------------------------
(* Rows are of documents that were inserted, and never newer than these.     *)
Rows == [place : Places, stamp : Nat]
Known(r) == r.place < next /\ r.stamp \in 1..clock /\ (stamp[r.place] # 0 => r.stamp <= stamp[r.place])

MongoTypes ==
  /\ opts \in Options /\ stamp \in [Places -> Nat] /\ stored \in [Places -> Nat]
  /\ clock \in Nat \ {0} /\ next \in Nat /\ last \in Nat /\ left \in Int
  /\ phase \in {"idle", "opened", "reading", "batches"} /\ indexed \in BOOLEAN
  /\ read \subseteq Rows /\ ahead \subseteq Rows
  /\ batches \subseteq [skip : Nat, limit : Nat]
  /\ twice \subseteq Places /\ stay \subseteq Places
  /\ calm \in BOOLEAN /\ steady \in BOOLEAN

(* Stamps only grow, places are used once, and the last value is not ahead   *)
(* of the clock, but where it started there.                                 *)
Written ==
  /\ \A p \in Places : /\ stamp[p] <= clock
                       /\ next <= p => stamp[p] = 0 /\ stored[p] = 0
                       /\ stamp[p] # 0 => stored[p] <= stamp[p]
  /\ \A r \in read \cup ahead : Known(r)
  /\ opts.cursor = "max" => last >= opts.initial /\ (last <= opts.initial \/ last <= clock)

(* What a load has in hand in each of its phases.                            *)
InHand ==
  /\ phase \in {"idle", "opened"} => read = {} /\ twice = {}
  /\ phase # "reading" => ahead = {} /\ ~indexed
  /\ phase = "reading" => ~opts.parallel /\ (Scans => ahead = {})
  /\ phase = "batches" => opts.parallel
  /\ phase # "batches" => batches = {}
  /\ IsFiniteSet(ahead) /\ \A r, q \in ahead : r.place = q.place => r = q

(* The rows that a batch gets in any case, and those that it may get.        *)
Sure(b, r) ==
  r \in Found /\ b.skip <= Low(SortOp, Found, r) /\ High(SortOp, Found, r) < b.skip + b.limit
Possible(b, r) == Low(SortOp, Found, r) < b.skip + b.limit /\ b.skip <= High(SortOp, Found, r)

(* What is still to come was not got before. In the calm, an index scan has   *)
(* got documents as they are, and no row may come in two batches.            *)
Fresh ==
  /\ OnceEach
  /\ \A r \in ahead, q \in read : r.place # q.place
  /\ calm /\ indexed /\ SortOp = "up" => \A q \in read : stamp[q.place] \in {0, q.stamp}
  /\ \A b, c \in batches : b = c \/ b.skip + b.limit <= c.skip \/ c.skip + c.limit <= b.skip
  /\ calm => \/ \A b, c \in batches : b = c
             \/ \A r \in Found : Low(SortOp, Found, r) = High(SortOp, Found, r)
  /\ calm => \A b \in batches : \A r \in Found, q \in read : Possible(b, r) => r.place # q.place

(* A document that stays is got, or still to come.                           *)
Pending ==
  /\ ~Idle => \A p \in stay : p \in There /\ UserFilter(p) /\ FilterOp(p)
  /\ phase = "reading" /\ opts.limit = 0 =>
       \A p \in stay : p \in PlacesOf(read) \/ Row(p) \in Upcoming
  /\ phase = "batches" /\ opts.limit = 0 /\ calm /\ ~Replaced =>
       \A p \in stay : p \in PlacesOf(read) \/ \E b \in batches : Sure(b, Row(p))

(* A document that the load owes is got, or to come, as it is, or it is not  *)
(* behind any row of this load.                                              *)
Careful ==
  /\ opts.cursor = "max" /\ steady
  /\ opts.limit = 0 \/ (opts.initial # 0 /\ opts.order = "asc")
  /\ opts.parallel => opts.filter = "none"
Owed(p) == UserFilter(p) /\ stamp[p] >= opts.initial /\ stamp[p] >= last
NotBehind(p, rows) == \A r \in rows : r.stamp <= stamp[p]
Early == {r \in Found : \E b \in batches : Low(SortOp, Found, r) < b.skip + b.limit}
AheadOfScan ==
  \A p \in There : Owed(p) =>
    Row(p) \in read \cup Upcoming \/ (SortOp = "down" /\ NotBehind(p, read))
AheadOfSort ==
  /\ \A p \in There : Owed(p) => Row(p) \in read \cup ahead \/ NotBehind(p, read \cup ahead)
  /\ SortOp = "up" => \A r \in read, q \in ahead : r.stamp <= q.stamp
AheadOfBatches ==
  /\ \A p \in There : Owed(p) =>
       \/ Row(p) \in read \/ \E b \in batches : Sure(b, Row(p))
       \/ NotBehind(p, read \cup Early)
  /\ \A b \in batches : b.skip + b.limit <= Cardinality(Found)
Ahead ==
  /\ phase = "reading" /\ Scans => AheadOfScan
  /\ phase = "reading" /\ ~Scans => AheadOfSort
  /\ phase = "batches" => AheadOfBatches

MongoInv == MongoTypes /\ Written /\ InHand /\ Fresh /\ Pending /\ (Careful => Ahead) /\ NothingLeftBehind

-------------------------------------------------------------------------------
LEMMA ImageCount ==
  ASSUME NEW S, IsFiniteSet(S), NEW T, NEW f \in [S -> T], \A t \in T : \E s \in S : f[s] = t
  PROVE  IsFiniteSet(T) /\ Cardinality(T) <= Cardinality(S)
<1>1. f \in Surjection(S, T)
  BY DEF Surjection
<1> QED BY <1>1, FS_Surjection

LEMMA OptsTyped ==
  ASSUME MongoTypes
  PROVE  /\ opts.parallel \in BOOLEAN /\ opts.arrow \in BOOLEAN /\ opts.limit \in Nat
         /\ opts.order \in {"asc", "desc", "none"} /\ opts.cursor \in {"max", "min", "none"}
         /\ opts.initial \in Nat /\ opts.filter \in {"none", "other", "below", "from"}
BY MongoAssumption DEF MongoTypes

LEMMA SortTyped == SortOp \in Orders
BY DEF SortOp, Orders

(* What a query finds: a row of each document that is asked for.             *)
LEMMA FoundIs ==
  ASSUME MongoTypes
  PROVE  /\ OnePerPlace(Found)
         /\ \A p : Row(p).place = p /\ Row(p).stamp = stamp[p]
         /\ \A r \in Found : r.place \in There /\ Asked(r.place) /\ r = Row(r.place) /\ r \in Rows
         /\ \A p \in There : Asked(p) => Row(p) \in Found
<1>1. \A p : Row(p).place = p /\ Row(p).stamp = stamp[p]
  BY DEF Row
<1>2. \A r \in Found : r.place \in There /\ Asked(r.place) /\ r = Row(r.place)
  BY <1>1 DEF Found
<1>3. \A p \in There : p \in Places /\ p \in Nat /\ Row(p) \in [place : Places, stamp : Nat]
  BY MongoAssumption DEF There, Row, MongoTypes
<1>4. Found \subseteq Rows /\ Found \subseteq [place : Nat, stamp : Nat]
  <2>1. Places \subseteq Nat
    BY MongoAssumption
  <2> QED BY <1>2, <1>3, <2>1 DEF Rows
<1>5. IsFiniteSet(Found)
  <2> DEFINE D == {p \in There : Asked(p)}  f == [p \in D |-> Row(p)]
  <2>1. D \in SUBSET Places
    BY DEF There
  <2>2. IsFiniteSet(D)
    BY <2>1, FS_Subset, MongoAssumption
  <2>3. f \in [D -> Found] /\ \A t \in Found : \E s \in D : f[s] = t
    BY DEF Found
  <2> HIDE DEF D, f
  <2> QED BY <2>2, <2>3, ImageCount
<1>6. \A r, q \in Found : r.place = q.place => r = q
  BY <1>2
<1> QED BY <1>1, <1>2, <1>4, <1>5, <1>6 DEF OnePerPlace, Found

LEMMA CountIs ==
  ASSUME MongoTypes
  PROVE  /\ Counted \in Nat
         /\ opts.limit = 0 /\ ~Replaced => Cardinality(Found) <= Counted
         /\ opts.filter = "none" /\ opts.parallel => Counted <= Cardinality(Found)
         /\ opts.limit = 0 /\ opts.filter = "none" /\ opts.parallel => Counted = Cardinality(Found)
<1> DEFINE F == {p \in There : FilterOp(p)}  D == {p \in There : Asked(p)}
<1>1. F \in SUBSET Places /\ D \in SUBSET Places
  BY DEF There
<1>2. /\ IsFiniteSet(F) /\ IsFiniteSet(D)
      /\ Cardinality(F) \in Nat /\ Cardinality(D) \in Nat
  BY <1>1, FS_Subset, FS_CardinalityType, MongoAssumption
<1>3. IsFiniteSet(Found) /\ Cardinality(Found) \in Nat
  BY FoundIs, FS_CardinalityType DEF OnePerPlace
<1>4. opts.limit \in Nat
  BY OptsTyped
<1>5. Counted \in Nat /\ Counted <= Cardinality(F) /\ (opts.limit = 0 => Counted = Cardinality(F))
  <2>1. Counted = IF opts.limit = 0 THEN Cardinality(F) ELSE Min({Cardinality(F), opts.limit})
    BY DEF Counted
  <2> HIDE DEF F
  <2> QED BY <1>2, <1>4, <2>1, MinOfTwo
<1>6. ASSUME ~Replaced PROVE Cardinality(Found) <= Cardinality(F)
  <2> DEFINE f == [p \in D |-> Row(p)]
  <2>1. f \in [D -> Found] /\ \A t \in Found : \E s \in D : f[s] = t
    BY DEF Found
  <2>2. D \in SUBSET F
    BY <1>6 DEF Asked
  <2> HIDE DEF D, F, f
  <2>3. Cardinality(Found) <= Cardinality(D) /\ Cardinality(D) <= Cardinality(F)
    BY <1>2, <2>1, <2>2, ImageCount, FS_Subset
  <2> QED BY <1>2, <1>3, <2>3
<1>7. ASSUME opts.filter = "none", opts.parallel PROVE ~Replaced /\ Cardinality(F) <= Cardinality(Found)
  <2>1. ~Replaced /\ \A p : UserFilter(p)
    BY <1>7 DEF Replaced, UserFilter
  <2>2. \A p \in F : Asked(p)
    BY <2>1 DEF Asked
  <2> DEFINE g == [r \in Found |-> r.place]
  <2>3. \A r \in Found : r.place \in F
    BY <2>1, FoundIs DEF Asked
  <2>4. \A p \in F : Row(p) \in Found /\ Row(p).place = p
    BY <2>2, FoundIs
  <2> HIDE DEF F
  <2>5. g \in [Found -> F] /\ \A p \in F : \E r \in Found : g[r] = p
    BY <2>3, <2>4
  <2> HIDE DEF g
  <2> QED BY <1>3, <2>1, <2>5, ImageCount
<1> HIDE DEF F, D
<1> QED BY <1>2, <1>3, <1>5, <1>6, <1>7

(* The batches cut what was counted into pieces.                             *)
LEMMA BatchesCut ==
  ASSUME MongoTypes
  PROVE  /\ Batches \subseteq [skip : Nat, limit : Nat]
         /\ \A b \in Batches : b.skip + b.limit <= Counted
         /\ \A b, c \in Batches : b = c \/ b.skip + b.limit <= c.skip \/ c.skip + c.limit <= b.skip
         /\ \A i \in Nat : i < Counted => \E b \in Batches : b.skip <= i /\ i < b.skip + b.limit
<1> DEFINE C == ChunkSize  n == Counted
<1>1. C \in Nat \ {0} /\ n \in Nat
  BY CountIs, MongoAssumption
<1>2. ASSUME NEW b \in Batches
      PROVE  \E k \in 0..n : /\ b.skip = k * C /\ b.skip \in Nat /\ b.skip < n
                             /\ b.limit = Min({C, n - b.skip}) /\ b.limit \in Nat
                             /\ b.limit <= C /\ b.limit <= n - b.skip /\ b \in [skip : Nat, limit : Nat]
  <2>1. PICK s \in Skips : b = [skip |-> s, limit |-> Min({ChunkSize, Counted - s})]
    BY DEF Batches
  <2>2. PICK k \in 0..n : s = k * C /\ s < n
    BY DEF Skips
  <2>3. s \in Nat /\ n - s \in Nat
    BY <1>1, <2>2
  <2>4. b.skip = s /\ b.limit = Min({C, n - s})
    BY <2>1
  <2> HIDE DEF C, n
  <2>5. b.limit \in Nat /\ b.limit <= C /\ b.limit <= n - s
    BY <1>1, <2>3, <2>4, MinOfTwo
  <2>6. b \in [skip : Nat, limit : Nat]
    BY <2>1, <2>3, <2>4, <2>5
  <2> QED BY <2>2, <2>3, <2>4, <2>5, <2>6
<1>3. ASSUME NEW i \in Nat, i < n PROVE \E b \in Batches : b.skip <= i /\ i < b.skip + b.limit
  <2>1. PICK k \in 0..i : k * C <= i /\ i < k * C + C
    BY <1>1, Piece
  <2> DEFINE s == k * C  b == [skip |-> s, limit |-> Min({C, n - s})]
  <2>2. s \in Nat /\ k \in 0..n /\ s < n /\ n - s \in Nat /\ i < s + C /\ s <= i
    <3>1. s \in Nat
      BY <1>1
    <3> HIDE DEF C, n
    <3> QED BY <1>1, <1>3, <2>1, <3>1
  <2>3. s \in Skips
    BY <2>2 DEF Skips
  <2>4. b \in Batches /\ b.skip = s /\ b.limit = Min({C, n - s})
    BY <2>3 DEF Batches
  <2> HIDE DEF C, n, s, b
  <2>5. Min({C, n - s}) \in {C, n - s}
    BY <1>1, <2>2, MinOfTwo
  <2>6. i < b.skip + b.limit
    BY <1>1, <1>3, <2>2, <2>4, <2>5
  <2> QED BY <2>2, <2>4, <2>6
<1> HIDE DEF C, n
<1>4. ASSUME NEW b \in Batches, NEW c \in Batches
      PROVE  b = c \/ b.skip + b.limit <= c.skip \/ c.skip + c.limit <= b.skip
  <2>1. PICK j \in 0..n : /\ b.skip = j * C /\ b.skip \in Nat /\ b.limit = Min({C, n - b.skip})
                          /\ b.limit \in Nat /\ b.limit <= C /\ b \in [skip : Nat, limit : Nat]
    BY <1>2
  <2>2. PICK k \in 0..n : /\ c.skip = k * C /\ c.skip \in Nat /\ c.limit = Min({C, n - c.skip})
                          /\ c.limit \in Nat /\ c.limit <= C /\ c \in [skip : Nat, limit : Nat]
    BY <1>2
  <2>3. j \in Nat /\ k \in Nat
    BY <1>1
  <2>4. CASE j = k
    <3>1. b.skip = c.skip /\ b.limit = c.limit
      BY <2>1, <2>2, <2>4
    <3> QED BY <2>1, <2>2, <3>1
  <2>5. CASE j < k
    BY <1>1, <2>1, <2>2, <2>3, <2>5, PiecesApart
  <2>6. CASE k < j
    BY <1>1, <2>1, <2>2, <2>3, <2>6, PiecesApart
  <2> QED BY <2>3, <2>4, <2>5, <2>6
<1>5. \A b \in Batches : b \in [skip : Nat, limit : Nat] /\ b.skip + b.limit <= n
  <2> TAKE b \in Batches
  <2>1. PICK k \in 0..n : /\ b.skip \in Nat /\ b.limit \in Nat /\ b.limit <= n - b.skip
                          /\ b \in [skip : Nat, limit : Nat]
    BY <1>2
  <2> QED BY <1>1, <2>1
<1> QED BY <1>3, <1>4, <1>5 DEF n

-------------------------------------------------------------------------------
-------------------------------------------------------------------------------
(* What a query asks for and finds does not change while nobody writes.      *)
LEMMA SameQuery ==
  ASSUME UNCHANGED <<stamp, opts, last>>
  PROVE  /\ There' = There /\ Found' = Found /\ SortOp' = SortOp /\ (Replaced' <=> Replaced)
         /\ \A p : UserFilter(p)' <=> UserFilter(p)
         /\ \A p : FilterOp(p)' <=> FilterOp(p)
         /\ \A p : Row(p)' = Row(p)
         /\ \A p : Owed(p)' <=> Owed(p)
         /\ \A b, r : (Sure(b, r)' <=> Sure(b, r)) /\ (Possible(b, r)' <=> Possible(b, r))
<1>1. There' = There /\ SortOp' = SortOp /\ (Replaced' <=> Replaced) /\ (Active' <=> Active)
  BY DEF There, SortOp, Replaced, Active
<1>2. \A p : UserFilter(p)' <=> UserFilter(p)
  BY DEF UserFilter
<1>3. \A p : FilterOp(p)' <=> FilterOp(p)
  BY <1>1 DEF FilterOp
<1>4. \A p : Row(p)' = Row(p)
  BY DEF Row
<1>5. \A p : Asked(p)' <=> Asked(p)
  BY <1>1, <1>2, <1>3 DEF Asked
<1>6. Found' = Found
  BY <1>1, <1>4, <1>5 DEF Found
<1>7. \A p : Owed(p)' <=> Owed(p)
  BY <1>2 DEF Owed
<1>8. \A b, r : (Sure(b, r)' <=> Sure(b, r)) /\ (Possible(b, r)' <=> Possible(b, r))
  BY <1>1, <1>6 DEF Sure, Possible, Low, High
<1> QED BY <1>1, <1>2, <1>3, <1>4, <1>6, <1>7, <1>8

(* The promise of NothingLeftBehind is about what is stored.                 *)
LEMMA SameStored ==
  ASSUME NothingLeftBehind, UNCHANGED <<stamp, opts, last, stored>>, steady' => steady
  PROVE  NothingLeftBehind'
BY SameQuery DEF NothingLeftBehind

LEMMA FoundKnown == ASSUME MongoTypes, Written PROVE \A r \in Found : Known(r)
<1> SUFFICES ASSUME NEW r \in Found PROVE Known(r)
  OBVIOUS
<1>1. /\ r.place \in There /\ r.place \in Places /\ r.stamp = stamp[r.place] /\ stamp[r.place] # 0
      /\ stamp[r.place] \in Nat /\ clock \in Nat /\ next \in Nat /\ r.place \in Nat
  BY FoundIs, MongoAssumption DEF There, MongoTypes
<1> QED BY <1>1 DEF Written, Known

(* A load owes only what it asks for.                                        *)
LEMMA OwedAsked ==
  ASSUME NEW p, Owed(p), opts.cursor = "max" PROVE Asked(p)
BY DEF Owed, Asked, FilterOp

(* A batch gets what it surely gets, and of the others what it may.          *)
LEMMA WindowIs ==
  ASSUME MongoTypes, NEW b \in [skip : Nat, limit : Nat], NEW rows \in Windows(b)
  PROVE  /\ rows \subseteq Found
         /\ \A r \in Found : Sure(b, r) => r \in rows
         /\ \A r \in rows : Possible(b, r)
<1>1. b.skip \in Nat /\ b.limit \in Nat /\ b.skip + b.limit \in Nat
  OBVIOUS
<1>2. PICK pair \in Fronts(SortOp, Found, b.skip) \X Fronts(SortOp, Found, b.skip + b.limit) :
        rows = pair[2] \ pair[1]
  BY DEF Windows
<1>3. pair[1] \in Fronts(SortOp, Found, b.skip) /\ pair[2] \in Fronts(SortOp, Found, b.skip + b.limit)
  BY <1>2
<1>4. OnePerPlace(Found) /\ SortOp \in Orders
  BY FoundIs, SortTyped
<1>5. rows \subseteq Found
  BY <1>2, <1>3 DEF Fronts
<1>6. ASSUME NEW r \in Found
      PROVE  /\ Low(SortOp, Found, r) \in Nat /\ High(SortOp, Found, r) \in Nat
             /\ High(SortOp, Found, r) < b.skip => r \in pair[1]
             /\ b.skip <= Low(SortOp, Found, r) => r \notin pair[1]
             /\ High(SortOp, Found, r) < b.skip + b.limit => r \in pair[2]
             /\ b.skip + b.limit <= Low(SortOp, Found, r) => r \notin pair[2]
  <2>1. Low(SortOp, Found, r) \in Nat /\ High(SortOp, Found, r) \in Nat
    BY <1>4, <1>6, Ranked
  <2>2. /\ High(SortOp, Found, r) < b.skip => r \in pair[1]
        /\ b.skip <= Low(SortOp, Found, r) => r \notin pair[1]
    BY <1>1, <1>3, <1>4, <1>6, FrontHas
  <2> DEFINE n == b.skip + b.limit
  <2>3. n \in Nat /\ pair[2] \in Fronts(SortOp, Found, n)
    BY <1>1, <1>3
  <2> HIDE DEF n
  <2>4. /\ High(SortOp, Found, r) < n => r \in pair[2]
        /\ n <= Low(SortOp, Found, r) => r \notin pair[2]
    BY <1>4, <1>6, <2>3, FrontHas
  <2> QED BY <2>1, <2>2, <2>4 DEF n
<1>7. ASSUME NEW r \in Found, Sure(b, r) PROVE r \in rows
  BY <1>2, <1>6, <1>7 DEF Sure
<1>8. ASSUME NEW r \in rows PROVE Possible(b, r)
  <2>1. r \in Found /\ r \in pair[2] /\ r \notin pair[1]
    BY <1>2, <1>5, <1>8
  <2> QED BY <1>1, <1>6, <2>1 DEF Possible
<1> QED BY <1>5, <1>7, <1>8

-------------------------------------------------------------------------------
LEMMA InitIInv == MongoInit => MongoInv
<1> SUFFICES ASSUME MongoInit PROVE MongoInv
  OBVIOUS
<1>1. MongoTypes
  <2>1. opts \in Options /\ last = opts.initial /\ opts.initial \in Nat
    BY MongoAssumption DEF MongoInit
  <2>2. stamp \in [Places -> Nat] /\ stored \in [Places -> Nat]
    BY DEF MongoInit
  <2>3. calm \in BOOLEAN /\ steady \in BOOLEAN /\ indexed \in BOOLEAN
    BY DEF MongoInit
  <2>4. /\ clock \in Nat \ {0} /\ next \in Nat /\ left \in Int /\ phase = "idle"
        /\ read = {} /\ ahead = {} /\ batches = {} /\ twice = {} /\ stay = {}
    BY DEF MongoInit
  <2> QED BY <2>1, <2>2, <2>3, <2>4 DEF MongoTypes
<1>2. There = {}
  BY DEF MongoInit, There
<1>3. Written
  <2>1. \A p \in Places : stamp[p] = 0 /\ stored[p] = 0
    BY DEF MongoInit
  <2>2. opts.initial \in Nat /\ last = opts.initial /\ clock = 1
    BY OptsTyped, <1>1 DEF MongoInit
  <2> QED BY <2>1, <2>2 DEF MongoInit, Written
<1>4. InHand
  BY FS_EmptySet DEF MongoInit, InHand
<1>5. Fresh /\ Pending /\ Ahead
  BY DEF MongoInit, Fresh, OnceEach, Pending, Ahead, Idle
<1>6. NothingLeftBehind
  BY <1>2 DEF NothingLeftBehind
<1> QED BY <1>1, <1>3, <1>4, <1>5, <1>6 DEF MongoInv

LEMMA StartLoadStep == ASSUME MongoInv, StartLoad PROVE MongoInv'
<1>1. /\ MongoTypes /\ phase = "idle" /\ phase' = "opened"
      /\ stay' = {p \in There : UserFilter(p) /\ FilterOp(p)} /\ calm' = TRUE
      /\ UNCHANGED <<stamp, clock, next, opts, last, indexed, ahead, left, batches, read, twice, stored, steady>>
  BY DEF MongoInv, StartLoad, Idle
<1>2. read = {} /\ twice = {} /\ ahead = {} /\ batches = {} /\ indexed = FALSE
  BY <1>1 DEF MongoInv, InHand, MongoTypes
<1>3. MongoTypes'
  BY <1>1 DEF MongoTypes, There
<1>4. Written'
  BY <1>1 DEF MongoInv, Written, Known
<1>5. InHand'
  BY <1>1, <1>2, FS_EmptySet DEF InHand
<1>6. Fresh'
  BY <1>1, <1>2 DEF Fresh, OnceEach
<1>7. Pending'
  BY <1>1, SameQuery DEF Pending
<1>8. Ahead'
  BY <1>1, <1>2 DEF Ahead
<1>9. NothingLeftBehind'
  BY <1>1, SameStored DEF MongoInv
<1> QED BY <1>3, <1>4, <1>5, <1>6, <1>7, <1>8, <1>9 DEF MongoInv

(* A load that opens its cursor owes what there is then.                     *)
LEMMA OpenCursorStep == ASSUME MongoInv, OpenCursor PROVE MongoInv'
<1>1. /\ MongoTypes /\ Written /\ phase = "opened" /\ phase' = "reading" /\ ~opts.parallel
      /\ ahead' = (IF SortOp = "natural" \/ indexed' THEN {} ELSE Found) /\ left' = opts.limit
      /\ indexed' \in BOOLEAN
      /\ UNCHANGED <<stamp, clock, next, opts, last, batches, read, twice, stored, stay, calm, steady>>
  BY DEF MongoInv, OpenCursor
<1>2. read = {} /\ twice = {} /\ batches = {}
  BY <1>1 DEF MongoInv, InHand
<1>3. OnePerPlace(Found) /\ Found \subseteq Rows /\ \A p \in There : Asked(p) => Row(p) \in Found
  BY <1>1, FoundIs
<1>4. ahead' \subseteq Found /\ IsFiniteSet(ahead')
  BY <1>1, <1>3, FS_EmptySet DEF OnePerPlace
<1>5. SortOp' = SortOp /\ Found' = Found
  BY <1>1, SameQuery
<1>6. (Scans' => ahead' = {}) /\ (~Scans' => ahead' = Found) /\ Upcoming' = Found
  BY <1>1, <1>2, <1>5 DEF Scans, Upcoming
<1>7. MongoTypes'
  BY <1>1, <1>3, <1>4, OptsTyped DEF MongoTypes
<1>8. Written'
  <2>1. \A r \in ahead' : Known(r)
    BY <1>1, <1>4, FoundKnown
  <2> QED BY <1>1, <2>1 DEF Written, Known
<1>9. InHand'
  BY <1>1, <1>2, <1>3, <1>4, <1>6 DEF InHand, OnePerPlace
<1>10. Fresh'
  BY <1>1, <1>2 DEF Fresh, OnceEach
<1>11. Pending'
  <2>1. \A p \in stay : p \in There /\ UserFilter(p) /\ FilterOp(p)
    BY <1>1 DEF MongoInv, Pending, Idle
  <2>2. \A p \in stay : Row(p) \in Found
    BY <1>3, <2>1 DEF Asked
  <2> QED BY <1>1, <1>6, <2>1, <2>2, SameQuery DEF Pending
<1>12. ASSUME Careful' PROVE Ahead'
  <2>1. \A p \in There : Owed(p) => Row(p) \in Found
    BY <1>1, <1>3, <1>12, OwedAsked DEF Careful
  <2>2. /\ There' = There /\ \A p : (Owed(p)' <=> Owed(p)) /\ Row(p)' = Row(p)
    BY <1>1, SameQuery
  <2>3. AheadOfScan'
    BY <1>6, <2>1, <2>2 DEF AheadOfScan
  <2>4. ASSUME ~Scans' PROVE AheadOfSort'
    BY <1>1, <1>2, <1>6, <2>1, <2>2, <2>4 DEF AheadOfSort
  <2> QED BY <1>1, <2>3, <2>4 DEF Ahead
<1>13. NothingLeftBehind'
  BY <1>1, SameStored DEF MongoInv
<1> QED BY <1>7, <1>8, <1>9, <1>10, <1>11, <1>12, <1>13 DEF MongoInv

(* Batches that agree get every row between them, up to the count.           *)
LEMMA BatchesAlone ==
  ASSUME MongoTypes, Cardinality(Batches) <= 1, NEW b \in Batches, NEW c \in Batches
  PROVE  b = c
<1> DEFINE f == [k \in 0..Counted |-> k * ChunkSize]
           g == [s \in Skips |-> [skip |-> s, limit |-> Min({ChunkSize, Counted - s})]]
           T == {k * ChunkSize : k \in 0..Counted}
<1>1. Counted \in Nat
  BY CountIs
<1>2. IsFiniteSet(0..Counted)
  BY <1>1, FS_Interval
<1>3. IsFiniteSet(T)
  <2>1. f \in [0..Counted -> T] /\ \A t \in T : \E s \in 0..Counted : f[s] = t
    OBVIOUS
  <2> HIDE DEF f, T
  <2> QED BY <1>2, <2>1, ImageCount
<1>4. IsFiniteSet(Skips)
  <2>1. Skips \in SUBSET T
    BY DEF Skips
  <2> HIDE DEF T
  <2> QED BY <1>3, <2>1, FS_Subset
<1>5. IsFiniteSet(Batches)
  <2>1. g \in [Skips -> Batches] /\ \A t \in Batches : \E s \in Skips : g[s] = t
    BY DEF Batches
  <2> HIDE DEF g
  <2> QED BY <1>4, <2>1, ImageCount
<1>6. ASSUME b # c PROVE FALSE
  <2>1. {b, c} \in SUBSET Batches
    OBVIOUS
  <2>2. Cardinality({b, c}) = 2
    <3>1. IsFiniteSet({b}) /\ Cardinality({b}) = 1
      BY FS_Singleton
    <3>2. c \notin {b} /\ {b, c} = {b} \cup {c}
      BY <1>6
    <3> QED BY <3>1, <3>2, FS_AddElement
  <2>3. Cardinality({b, c}) <= Cardinality(Batches) /\ Cardinality(Batches) \in Nat
    BY <1>5, <2>1, FS_Subset, FS_CardinalityType
  <2> QED BY <2>2, <2>3
<1> QED BY <1>6

LEMMA AgreedApart ==
  ASSUME MongoTypes, Agreed
  PROVE  \/ \A b, c \in Batches : b = c
         \/ \A r \in Found : Low(SortOp, Found, r) = High(SortOp, Found, r)
<1>1. CASE Cardinality(Batches) <= 1
  BY <1>1, BatchesAlone
<1>2. CASE SortOp # "natural" /\ \A r, q \in Found : r.stamp = q.stamp => r = q
  <2>1. SortOp \in {"up", "down"} /\ OnePerPlace(Found)
    BY <1>2, SortTyped, FoundIs DEF Orders
  <2> QED BY <1>2, <2>1, RankedApart
<1> QED BY <1>1, <1>2 DEF Agreed

LEMMA AllSure ==
  ASSUME MongoTypes, Agreed, NEW r \in Found, High(SortOp, Found, r) < Counted
  PROVE  \E b \in Batches : Sure(b, r)
<1>1. /\ Low(SortOp, Found, r) \in Nat /\ High(SortOp, Found, r) \in Nat
      /\ Low(SortOp, Found, r) <= High(SortOp, Found, r) /\ Counted \in Nat
  BY FoundIs, SortTyped, Ranked, CountIs
<1>2. /\ Batches \subseteq [skip : Nat, limit : Nat]
      /\ \A i \in Nat : i < Counted => \E b \in Batches : b.skip <= i /\ i < b.skip + b.limit
  BY BatchesCut
<1>3. PICK b \in Batches : b.skip <= High(SortOp, Found, r) /\ High(SortOp, Found, r) < b.skip + b.limit
  BY <1>1, <1>2
<1>4. PICK c \in Batches : c.skip <= Low(SortOp, Found, r) /\ Low(SortOp, Found, r) < c.skip + c.limit
  <2>1. Low(SortOp, Found, r) < Counted
    BY <1>1
  <2> QED BY <1>1, <1>2, <2>1
<1>5. b.skip <= Low(SortOp, Found, r)
  <2>1. CASE \A d, e \in Batches : d = e
    <3>1. b = c
      BY <2>1
    <3> QED BY <1>4, <3>1
  <2>2. CASE Low(SortOp, Found, r) = High(SortOp, Found, r)
    BY <1>3, <2>2
  <2> QED BY <2>1, <2>2, AgreedApart
<1> QED BY <1>3, <1>5 DEF Sure

(* In ascending order, no row that may come before another is newer.         *)
LEMMA NewerIsAfter ==
  ASSUME NEW rows, OnePerPlace(rows), NEW r \in rows, NEW q \in rows, q.stamp < r.stamp
  PROVE  High("up", rows, q) < Low("up", rows, r)
<1> DEFINE H == {s \in rows \ {q} : ~Before("up", q, s)}  L == {s \in rows : Before("up", s, r)}  M == H \cup {q}
<1>1. \A s \in rows : s.stamp \in Nat
  BY DEF OnePerPlace
<1>2. M \in SUBSET L /\ q \notin H
  BY <1>1 DEF Before
<1>3. IsFiniteSet(H) /\ IsFiniteSet(L)
  BY Ranked DEF Orders
<1> HIDE DEF H, L
<1>4. Cardinality(M) = Cardinality(H) + 1
  BY <1>2, <1>3, FS_AddElement
<1> HIDE DEF M
<1>5. Cardinality(M) <= Cardinality(L)
  BY <1>2, <1>3, FS_Subset
<1>6. Cardinality(H) \in Nat /\ Cardinality(L) \in Nat
  BY <1>3, FS_CardinalityType
<1> QED BY <1>4, <1>5, <1>6 DEF High, Low, H, L

(* With a limit the batches cover the oldest rows, without one all of them.  *)
LEMMA CutBatchesStep == ASSUME MongoInv, CutBatches PROVE MongoInv'
<1>1. /\ MongoTypes /\ Written /\ phase = "opened" /\ phase' = "batches" /\ opts.parallel /\ batches' = Batches
      /\ calm' = (calm /\ Agreed) /\ steady' = (steady /\ Agreed)
      /\ UNCHANGED <<stamp, clock, next, opts, last, indexed, ahead, left, read, twice, stored, stay>>
  BY DEF MongoInv, CutBatches
<1>2. read = {} /\ twice = {} /\ ahead = {} /\ indexed = FALSE
  BY <1>1 DEF MongoInv, InHand, MongoTypes
<1>3. OnePerPlace(Found) /\ \A p \in There : Asked(p) => Row(p) \in Found
  BY <1>1, FoundIs
<1>4. /\ Batches \subseteq [skip : Nat, limit : Nat]
      /\ \A b \in Batches : b.skip + b.limit <= Counted
      /\ \A b, c \in Batches : b = c \/ b.skip + b.limit <= c.skip \/ c.skip + c.limit <= b.skip
  BY <1>1, BatchesCut
<1>5. /\ \A b, r : Sure(b, r)' <=> Sure(b, r)
      /\ \A p : Row(p)' = Row(p) /\ (Owed(p)' <=> Owed(p))
      /\ There' = There /\ Found' = Found /\ SortOp' = SortOp /\ (Replaced' <=> Replaced)
      /\ \A p : (UserFilter(p)' <=> UserFilter(p)) /\ (FilterOp(p)' <=> FilterOp(p))
  BY <1>1, SameQuery
<1>6. MongoTypes'
  <2>1. calm' \in BOOLEAN /\ steady' \in BOOLEAN
    BY <1>1
  <2> QED BY <1>1, <1>4, <2>1 DEF MongoTypes
<1>7. Written'
  BY <1>1 DEF Written, Known
<1>8. InHand'
  BY <1>1, <1>2, FS_EmptySet DEF InHand
<1>9. Fresh'
  <2>1. OnceEach'
    BY <1>1, <1>2 DEF OnceEach
  <2>2. calm' => \/ \A b, c \in Batches : b = c
                 \/ \A r \in Found : Low(SortOp, Found, r) = High(SortOp, Found, r)
    BY <1>1, AgreedApart
  <2> QED BY <1>1, <1>2, <1>4, <1>5, <2>1, <2>2 DEF Fresh
<1>10. Pending'
  <2>1. \A p \in stay : p \in There /\ UserFilter(p) /\ FilterOp(p)
    BY <1>1 DEF MongoInv, Pending, Idle
  <2>2. ASSUME opts.limit = 0, ~Replaced, Agreed, NEW p \in stay PROVE \E b \in Batches : Sure(b, Row(p))
    <3>1. Row(p) \in Found
      BY <1>3, <2>1 DEF Asked
    <3>2. /\ Cardinality(Found) \in Nat /\ High(SortOp, Found, Row(p)) \in Nat
          /\ High(SortOp, Found, Row(p)) < Cardinality(Found)
      BY <1>3, <3>1, Ranked, SortTyped
    <3>3. Cardinality(Found) <= Counted /\ Counted \in Nat
      BY <1>1, <2>2, CountIs
    <3> QED BY <1>1, <2>2, <3>1, <3>2, <3>3, AllSure
  <2> QED BY <1>1, <1>5, <2>1, <2>2 DEF Pending
<1>11. ASSUME Careful' PROVE Ahead'
  <2>1. /\ opts.cursor = "max" /\ opts.filter = "none" /\ Agreed
        /\ opts.limit = 0 \/ (opts.initial # 0 /\ opts.order = "asc")
    BY <1>1, <1>11 DEF Careful
  <2>2. Counted \in Nat /\ Counted <= Cardinality(Found) /\ (opts.limit = 0 => Counted = Cardinality(Found))
    BY <1>1, <2>1, CountIs
  <2>3. \A r \in Found : /\ Low(SortOp, Found, r) \in Nat /\ High(SortOp, Found, r) \in Nat
                         /\ High(SortOp, Found, r) < Cardinality(Found) /\ Cardinality(Found) \in Nat
    BY <1>3, Ranked, SortTyped
  <2>4. ASSUME NEW p \in There, Owed(p), ~\E b \in Batches : Sure(b, Row(p)),
               NEW r \in Found, NEW b \in Batches, Low(SortOp, Found, r) < b.skip + b.limit
        PROVE  r.stamp <= stamp[p]
    <3>1. Row(p) \in Found /\ Row(p).stamp = stamp[p] /\ stamp[p] \in Nat /\ r.stamp \in Nat
      BY <1>1, <1>3, <2>1, <2>4, OwedAsked, FoundIs DEF OnePerPlace
    <3>2. ~(High(SortOp, Found, Row(p)) < Counted)
      BY <1>1, <2>1, <2>4, <3>1, AllSure
    <3>3. opts.limit # 0
      BY <2>2, <2>3, <3>1, <3>2
    <3>4. SortOp = "up"
      <4>1. last # 0
        BY <1>1, <2>1, <3>3, OptsTyped DEF Written, MongoTypes
      <4> QED BY <2>1, <3>3, <4>1 DEF SortOp, Active
    <3>5. Low(SortOp, Found, r) < Counted
      <4>1. b.skip \in Nat /\ b.limit \in Nat /\ b.skip + b.limit <= Counted
        BY <1>4
      <4> QED BY <2>2, <2>3, <2>4, <4>1
    <3>6. ~(stamp[p] < r.stamp)
      <4>1. stamp[p] < r.stamp => High("up", Found, Row(p)) < Low("up", Found, r)
        BY <1>3, <3>1, NewerIsAfter
      <4> QED BY <2>2, <2>3, <3>1, <3>2, <3>4, <3>5, <4>1
    <3> QED BY <3>1, <3>6
  <2>5. \A r \in Early' : r \in Found /\ \E b \in Batches : Low(SortOp, Found, r) < b.skip + b.limit
    BY <1>1, <1>5 DEF Early
  <2>6. \A p \in There : Owed(p) => (\E b \in Batches : Sure(b, Row(p))) \/ \A r \in read' \cup Early' : r.stamp <= stamp[p]
    BY <1>1, <1>2, <2>4, <2>5
  <2>7. \A b \in Batches : b.skip + b.limit <= Cardinality(Found)
    <3>1. Cardinality(Found) \in Nat
      BY <1>3, FS_CardinalityType DEF OnePerPlace
    <3>2. \A b \in Batches : b.skip \in Nat /\ b.limit \in Nat
      BY <1>4
    <3> QED BY <1>4, <2>2, <3>1, <3>2
  <2>8. AheadOfBatches'
    BY <1>1, <1>5, <2>6, <2>7 DEF AheadOfBatches, NotBehind
  <2> QED BY <1>1, <2>8 DEF Ahead
<1>12. NothingLeftBehind'
  BY <1>1, SameStored DEF MongoInv
<1> QED BY <1>6, <1>7, <1>8, <1>9, <1>10, <1>11, <1>12 DEF MongoInv

(* Batches of other places in the order hold other documents.                *)
LEMMA RunBatchStep == ASSUME MongoInv, RunBatch PROVE MongoInv'
<1>0. PICK b \in batches : \E rows \in Windows(b) : Get(rows) /\ batches' = batches \ {b}
  BY DEF RunBatch
<1>1. PICK rows \in Windows(b) :
        /\ read' = read \cup rows /\ batches' = batches \ {b}
        /\ twice' = twice \cup (PlacesOf(rows) \cap PlacesOf(read))
        /\ UNCHANGED <<stamp, clock, next, opts, last, phase, indexed, ahead, left, stored, stay, calm, steady>>
  BY <1>0 DEF RunBatch, Get
<1>2. /\ MongoTypes /\ Written /\ InHand /\ Fresh /\ Pending
      /\ phase = "batches" /\ opts.parallel /\ ahead = {} /\ ~indexed
      /\ batches \subseteq [skip : Nat, limit : Nat]
  BY DEF MongoInv, InHand, MongoTypes
<1>3. /\ There' = There /\ Found' = Found /\ SortOp' = SortOp /\ (Replaced' <=> Replaced)
      /\ \A p : (UserFilter(p)' <=> UserFilter(p)) /\ (FilterOp(p)' <=> FilterOp(p))
      /\ \A p : Row(p)' = Row(p) /\ (Owed(p)' <=> Owed(p))
      /\ \A c, r : (Sure(c, r)' <=> Sure(c, r)) /\ (Possible(c, r)' <=> Possible(c, r))
  BY <1>1, SameQuery
<1>4. /\ OnePerPlace(Found) /\ Found \subseteq Rows /\ \A r \in Found : Known(r)
  BY <1>2, FoundIs, FoundKnown
<1>5. /\ rows \in SUBSET Found
      /\ \A r \in Found : Sure(b, r) => r \in rows
      /\ \A r \in rows : Possible(b, r)
  BY <1>1, <1>2, WindowIs
<1>6. ASSUME calm, NEW c \in batches, c # b, NEW r \in Found, Possible(c, r), NEW q \in rows PROVE r.place # q.place
  <2>1. SUFFICES ASSUME r = q PROVE FALSE
    BY <1>4, <1>5 DEF OnePerPlace
  <2>2. Possible(b, r) /\ Possible(c, r)
    BY <1>5, <1>6, <2>1
  <2>3. Low(SortOp, Found, r) = High(SortOp, Found, r) /\ Low(SortOp, Found, r) \in Nat
    BY <1>2, <1>4, <1>6, Ranked, SortTyped DEF Fresh
  <2>4. b.skip + b.limit <= c.skip \/ c.skip + c.limit <= b.skip
    BY <1>2, <1>6 DEF Fresh
  <2>5. b.skip \in Nat /\ b.limit \in Nat /\ c.skip \in Nat /\ c.limit \in Nat
    BY <1>2
  <2> QED BY <2>2, <2>3, <2>4, <2>5 DEF Possible
<1>7. MongoTypes'
  <2>1. read' \subseteq Rows
    BY <1>1, <1>2, <1>4, <1>5 DEF MongoTypes
  <2>2. twice' \subseteq Places
    <3>1. PlacesOf(read) \subseteq Places
      BY <1>2 DEF MongoTypes, Rows, PlacesOf
    <3> QED BY <1>1, <1>2, <3>1 DEF MongoTypes
  <2> QED BY <1>1, <1>2, <2>1, <2>2 DEF MongoTypes
<1>8. Written'
  BY <1>1, <1>2, <1>4, <1>5 DEF Written, Known
<1>9. InHand'
  BY <1>1, <1>2, <1>3 DEF InHand
<1>10. Fresh'
  <2>1. calm => PlacesOf(rows) \cap PlacesOf(read) = {}
    BY <1>1, <1>2, <1>5 DEF Fresh, PlacesOf
  <2>2. OnceEach'
    BY <1>1, <1>2, <2>1 DEF Fresh, OnceEach
  <2>3. ASSUME calm, NEW c \in batches', NEW r \in Found, NEW q \in read', Possible(c, r) PROVE r.place # q.place
    <3>1. c \in batches /\ c # b
      BY <1>1, <2>3
    <3>2. CASE q \in read
      BY <1>2, <2>3, <3>1, <3>2 DEF Fresh
    <3>3. CASE q \in rows
      BY <1>6, <2>3, <3>1, <3>3
    <3> QED BY <1>1, <2>3, <3>2, <3>3
  <2>4. \A c, d \in batches' : c = d \/ c.skip + c.limit <= d.skip \/ d.skip + d.limit <= c.skip
    BY <1>1, <1>2 DEF Fresh
  <2>5. calm => \/ \A c, d \in batches' : c = d
                \/ \A r \in Found : Low(SortOp, Found, r) = High(SortOp, Found, r)
    BY <1>1, <1>2 DEF Fresh
  <2> QED BY <1>1, <1>2, <1>3, <2>2, <2>3, <2>4, <2>5 DEF Fresh
<1>11. Pending'
  <2>1. \A p \in stay : p \in There /\ UserFilter(p) /\ FilterOp(p)
    BY <1>2 DEF Pending, Idle
  <2>2. ASSUME opts.limit = 0, calm, ~Replaced, NEW p \in stay
        PROVE  p \in PlacesOf(read') \/ \E c \in batches' : Sure(c, Row(p))
    <3>1. CASE p \in PlacesOf(read)
      BY <1>1, <3>1 DEF PlacesOf
    <3>2. ASSUME NEW c \in batches, Sure(c, Row(p))
          PROVE  p \in PlacesOf(read') \/ \E d \in batches' : Sure(d, Row(p))
      <4>1. CASE c = b
        <5>1. Row(p) \in rows
          BY <1>5, <3>2, <4>1 DEF Sure
        <5> QED BY <1>1, <5>1 DEF PlacesOf, Row
      <4>2. CASE c # b
        BY <1>1, <3>2, <4>2
      <4> QED BY <4>1, <4>2
    <3> QED BY <1>2, <2>2, <3>1, <3>2 DEF Pending
  <2>3. PlacesOf(read)' = PlacesOf(read')
    BY DEF PlacesOf
  <2> QED BY <1>1, <1>2, <1>3, <2>1, <2>2, <2>3 DEF Pending, Idle
<1>12. ASSUME Careful' PROVE Ahead'
  <2>1. AheadOfBatches
    BY <1>1, <1>2, <1>12 DEF MongoInv, Careful, Ahead
  <2>2. \A r \in read' \cup Early' : r \in read \cup Early
    <3>1. rows \subseteq Early
      BY <1>1, <1>5 DEF Early, Possible
    <3>2. Early' \subseteq Early
      BY <1>1, <1>3 DEF Early
    <3> QED BY <1>1, <3>1, <3>2
  <2>3. ASSUME NEW p \in There, Owed(p)
        PROVE  \/ Row(p) \in read' \/ \E c \in batches' : Sure(c, Row(p))
               \/ \A r \in read' \cup Early' : r.stamp <= stamp[p]
    <3>1. CASE Row(p) \in read \/ NotBehind(p, read \cup Early)
      BY <1>1, <2>2, <3>1 DEF NotBehind
    <3>2. ASSUME NEW c \in batches, Sure(c, Row(p)) PROVE Row(p) \in read' \/ \E d \in batches' : Sure(d, Row(p))
      <4>1. CASE c = b
        BY <1>1, <1>5, <3>2, <4>1 DEF Sure
      <4>2. CASE c # b
        BY <1>1, <3>2, <4>2
      <4> QED BY <4>1, <4>2
    <3> QED BY <2>1, <2>3, <3>1, <3>2 DEF AheadOfBatches
  <2>4. \A c \in batches' : c.skip + c.limit <= Cardinality(Found)
    BY <1>1, <2>1 DEF AheadOfBatches
  <2>5. AheadOfBatches'
    BY <1>1, <1>3, <2>3, <2>4 DEF AheadOfBatches, NotBehind
  <2> QED BY <1>1, <1>2, <2>5 DEF Ahead
<1>13. NothingLeftBehind'
  BY <1>1, SameStored DEF MongoInv
<1> QED BY <1>7, <1>8, <1>9, <1>10, <1>11, <1>12, <1>13 DEF MongoInv

-------------------------------------------------------------------------------
(* One cursor: what a chunk leaves is to come, and the rows to come are new,  *)
(* unless an update has put one ahead of an index scan again.                 *)
LEMMA UpcomingIs ==
  ASSUME MongoTypes, Written, InHand, Fresh, phase = "reading"
  PROVE  /\ OnePerPlace(Upcoming) /\ Upcoming \subseteq Rows
         /\ \A r \in Upcoming : Known(r)
         /\ calm \/ ~Scans => \A r \in Upcoming, q \in read : q.place # r.place
         /\ ~Scans => Upcoming = ahead
         /\ Scans => /\ ahead = {} /\ Upcoming \in SUBSET Found
                     /\ \A r \in Upcoming, q \in read : Along(SortOp, q, r)
<1>1. Rows \subseteq [place : Nat, stamp : Nat] /\ read \subseteq Rows /\ ahead \subseteq Rows
  BY MongoAssumption DEF Rows, MongoTypes
<1>2. CASE Scans
  <2>1. Upcoming = {r \in Found : \A q \in read : Along(SortOp, q, r)} /\ ahead = {}
    BY <1>2 DEF Upcoming, InHand
  <2>2. /\ OnePerPlace(Found) /\ Upcoming \in SUBSET Found
        /\ \A r \in Found : r \in Rows /\ r.place \in There /\ r = Row(r.place) /\ r.stamp = stamp[r.place]
    BY <2>1, FoundIs
  <2>3. OnePerPlace(Upcoming)
    BY <2>2, FS_Subset DEF OnePerPlace
  <2>4. \A r \in Found : Known(r)
    BY FoundKnown
  <2>5. ASSUME calm, NEW r \in Upcoming, NEW q \in read, q.place = r.place PROVE FALSE
    <3>1. /\ q.place \in Nat /\ r.place \in Nat /\ q.stamp \in Nat /\ r.stamp \in Nat
          /\ Along(SortOp, q, r) /\ r.stamp = stamp[q.place] /\ r.stamp # 0
      BY <1>1, <2>1, <2>2, <2>5 DEF There
    <3>2. CASE SortOp = "natural"
      BY <2>5, <3>1, <3>2 DEF Along
    <3>3. CASE SortOp = "up"
      <4>1. r.stamp = q.stamp
        BY <1>2, <2>5, <3>1, <3>3 DEF Fresh, Scans
      <4> QED BY <2>5, <3>1, <3>3, <4>1 DEF Along
    <3>4. CASE SortOp = "down"
      <4>1. q.stamp <= r.stamp
        BY <3>1 DEF Written, Known
      <4> QED BY <2>5, <3>1, <3>4, <4>1 DEF Along
    <3> QED BY <3>2, <3>3, <3>4, SortTyped DEF Orders
  <2> QED BY <1>2, <2>1, <2>2, <2>3, <2>4, <2>5
<1>3. CASE ~Scans
  <2>1. Upcoming = ahead
    BY <1>3 DEF Upcoming
  <2>2. OnePerPlace(ahead)
    BY <1>1 DEF InHand, OnePerPlace
  <2>3. (\A r \in ahead : Known(r)) /\ \A r \in ahead, q \in read : q.place # r.place
    BY DEF Written, Fresh
  <2> QED BY <1>1, <1>3, <2>1, <2>2, <2>3
<1> QED BY <1>2, <1>3

LEMMA SizeTyped == ASSUME MongoTypes PROVE Size \in Int /\ (opts.limit = 0 => Size = ChunkSize)
BY MongoAssumption, OptsTyped DEF Size, MongoTypes

LEMMA ReadChunkStep == ASSUME MongoInv, ReadChunk PROVE MongoInv'
<1>1. PICK slice \in Slices :
      /\ phase = "reading" /\ read' = read \cup slice /\ ahead' = ahead \ slice
      /\ twice' = twice \cup (PlacesOf(slice) \cap PlacesOf(read))
      /\ left' = (IF opts.limit = 0 THEN left ELSE left - Cardinality(slice))
      /\ UNCHANGED <<stamp, clock, next, opts, last, phase, indexed, batches, stored, stay, calm, steady>>
  BY DEF ReadChunk, Get
<1>2. /\ MongoTypes /\ Written /\ InHand /\ Fresh /\ Pending
      /\ ~opts.parallel /\ batches = {} /\ IsFiniteSet(ahead)
  BY <1>1 DEF MongoInv, InHand
<1>3. /\ OnePerPlace(Upcoming) /\ Upcoming \subseteq Rows
      /\ \A r \in Upcoming : Known(r)
      /\ calm \/ ~Scans => \A r \in Upcoming, q \in read : q.place # r.place
      /\ ~Scans => Upcoming = ahead
      /\ Scans => /\ ahead = {} /\ Upcoming \in SUBSET Found
                  /\ \A r \in Upcoming, q \in read : Along(SortOp, q, r)
  BY <1>1, <1>2, UpcomingIs
<1>4. /\ slice \in SUBSET Upcoming /\ IsFiniteSet(Upcoming)
      /\ \A r \in slice, q \in Upcoming : q \notin slice => ~Before(SortOp, q, r)
      /\ Scans => \A r \in slice, q \in Upcoming : q \notin slice => Along(SortOp, r, q)
  BY <1>1, <1>3 DEF Slices, Fronts, OnePerPlace
<1>5. /\ There' = There /\ Found' = Found /\ SortOp' = SortOp
      /\ \A p : (UserFilter(p)' <=> UserFilter(p)) /\ (FilterOp(p)' <=> FilterOp(p))
      /\ \A p : Row(p)' = Row(p) /\ (Owed(p)' <=> Owed(p))
  BY <1>1, SameQuery
<1>6. Scans' <=> Scans
  BY <1>1, <1>5 DEF Scans
<1>7. \A r \in Upcoming : r \in slice \/ r \in Upcoming'
  <2>1. CASE Scans
    <3>1. Upcoming' = {r \in Found : \A q \in read \cup slice : Along(SortOp, q, r)}
      BY <1>1, <1>5, <1>6, <2>1 DEF Upcoming
    <3>2. Upcoming = {r \in Found : \A q \in read : Along(SortOp, q, r)}
      BY <2>1 DEF Upcoming
    <3> QED BY <1>4, <2>1, <3>1, <3>2
  <2>2. CASE ~Scans
    <3>1. Upcoming' = ahead \ slice /\ Upcoming = ahead
      BY <1>1, <1>5, <1>6, <2>2 DEF Upcoming
    <3> QED BY <3>1
  <2> QED BY <2>1, <2>2
<1>8. MongoTypes'
  <2>1. left' \in Int
    <3>1. IsFiniteSet(slice)
      BY <1>4, FS_Subset
    <3>2. Cardinality(slice) \in Nat /\ left \in Int
      BY <1>2, <3>1, FS_CardinalityType DEF MongoTypes
    <3> QED BY <1>1, <3>2
  <2>2. read' \subseteq Rows /\ ahead' \subseteq Rows
    BY <1>1, <1>2, <1>3, <1>4 DEF MongoTypes
  <2>3. twice' \subseteq Places
    <3>1. PlacesOf(read) \subseteq Places
      BY <1>2 DEF MongoTypes, Rows, PlacesOf
    <3> QED BY <1>1, <1>2, <3>1 DEF MongoTypes
  <2> QED BY <1>1, <1>2, <2>1, <2>2, <2>3 DEF MongoTypes
<1>9. Written'
  BY <1>1, <1>2, <1>3, <1>4 DEF Written, Known
<1>10. InHand'
  <2>1. ahead' \in SUBSET ahead
    BY <1>1
  <2>2. IsFiniteSet(ahead')
    BY <1>2, <2>1, FS_Subset
  <2>3. \A r, q \in ahead' : r.place = q.place => r = q
    BY <1>2, <2>1 DEF InHand
  <2> QED BY <1>1, <1>2, <1>3, <1>6, <2>1, <2>2, <2>3 DEF InHand
<1>11. Fresh'
  <2>1. calm => PlacesOf(slice) \cap PlacesOf(read) = {}
    BY <1>3, <1>4 DEF PlacesOf
  <2>2. OnceEach'
    BY <1>1, <1>2, <2>1 DEF Fresh, OnceEach
  <2>3. ASSUME NEW r \in ahead', NEW q \in read' PROVE r.place # q.place
    <3>1. CASE q \in read
      BY <1>1, <1>2, <2>3, <3>1 DEF Fresh
    <3>2. CASE q \in slice
      <4>1. ~Scans
        BY <1>1, <1>3, <2>3
      <4>2. q \in ahead /\ r \in ahead /\ r # q
        BY <1>1, <1>3, <1>4, <2>3, <3>2, <4>1
      <4> QED BY <1>2, <4>2 DEF InHand
    <3> QED BY <1>1, <2>3, <3>1, <3>2
  <2>4. ASSUME calm, indexed, SortOp = "up", NEW q \in read' PROVE stamp[q.place] \in {0, q.stamp}
    <3>1. CASE q \in read
      BY <1>2, <2>4, <3>1 DEF Fresh
    <3>2. CASE q \in slice
      <4>1. q \in Found
        BY <1>3, <1>4, <2>4, <3>2 DEF Scans
      <4> QED BY <1>2, <4>1, FoundIs
    <3> QED BY <1>1, <2>4, <3>1, <3>2
  <2> QED BY <1>1, <1>2, <1>5, <2>2, <2>3, <2>4 DEF Fresh
<1>12. Pending'
  <2>1. \A p \in stay : p \in There /\ UserFilter(p) /\ FilterOp(p)
    BY <1>1, <1>2 DEF Pending, Idle
  <2>2. ASSUME opts.limit = 0, NEW p \in stay PROVE p \in PlacesOf(read') \/ Row(p) \in Upcoming'
    <3>1. CASE p \in PlacesOf(read)
      BY <1>1, <3>1 DEF PlacesOf
    <3>2. CASE Row(p) \in slice
      BY <1>1, <3>2 DEF PlacesOf, Row
    <3>3. CASE Row(p) \in Upcoming'
      BY <3>3
    <3> QED BY <1>1, <1>2, <1>7, <2>2, <3>1, <3>2, <3>3 DEF Pending
  <2>3. PlacesOf(read)' = PlacesOf(read')
    BY DEF PlacesOf
  <2> QED BY <1>1, <1>5, <2>1, <2>2, <2>3 DEF Pending, Idle
<1>13. ASSUME Careful' PROVE Ahead'
  <2>1. Ahead /\ opts.cursor = "max"
    BY <1>1, <1>13 DEF MongoInv, Careful
  <2>2. ASSUME Scans, NEW p \in There, Owed(p)
        PROVE  Row(p) \in read' \cup Upcoming' \/ (SortOp = "down" /\ \A r \in read' : r.stamp <= stamp[p])
    <3>1. CASE Row(p) \in read \cup Upcoming
      BY <1>1, <1>7, <3>1
    <3>2. CASE Row(p) \notin read \cup Upcoming
      <4>1. SortOp = "down" /\ \A r \in read : r.stamp <= stamp[p]
        BY <1>1, <2>1, <2>2, <3>2 DEF Ahead, AheadOfScan, NotBehind
      <4>2. Row(p) \in Found
        BY <1>2, <2>1, <2>2, OwedAsked, FoundIs
      <4>3. PICK q \in read : ~Along(SortOp, q, Row(p))
        BY <2>2, <3>2, <4>2 DEF Upcoming
      <4>4. ASSUME NEW r \in slice PROVE r.stamp <= stamp[p]
        <5>1. Along(SortOp, q, r)
          BY <1>3, <1>4, <2>2, <4>4
        <5>2. q.stamp \in Nat /\ r.stamp \in Nat /\ stamp[p] \in Nat /\ q.stamp <= stamp[p]
          BY <1>2, <1>3, <1>4, <4>1, <4>4 DEF MongoTypes, Rows, There
        <5> QED BY <4>1, <5>1, <5>2 DEF Along
      <4> QED BY <1>1, <4>1, <4>4
    <3> QED BY <3>1, <3>2
  <2>3. ASSUME ~Scans, NEW p \in There, Owed(p)
        PROVE  Row(p) \in read' \cup ahead' \/ \A r \in read' \cup ahead' : r.stamp <= stamp[p]
    <3>1. read' \cup ahead' = read \cup ahead
      BY <1>1, <1>3, <1>4, <2>3
    <3> QED BY <1>1, <2>1, <2>3, <3>1 DEF Ahead, AheadOfSort, NotBehind
  <2>4. ASSUME ~Scans, SortOp = "up", NEW r \in read', NEW q \in ahead' PROVE r.stamp <= q.stamp
    <3>1. CASE r \in read
      BY <1>1, <2>1, <2>4, <3>1 DEF Ahead, AheadOfSort
    <3>2. CASE r \in slice
      <4>1. q \in Upcoming /\ q \notin slice /\ r \in Upcoming
        BY <1>1, <1>3, <1>4, <2>4, <3>2
      <4>2. ~(q.stamp < r.stamp) /\ q.stamp \in Nat /\ r.stamp \in Nat
        BY <1>3, <1>4, <2>4, <3>2, <4>1 DEF Before, OnePerPlace
      <4> QED BY <4>2
    <3> QED BY <1>1, <2>4, <3>1, <3>2
  <2>5. Scans => AheadOfScan'
    BY <1>1, <1>5, <2>2 DEF AheadOfScan, NotBehind
  <2>6. ~Scans => AheadOfSort'
    BY <1>1, <1>5, <2>3, <2>4 DEF AheadOfSort, NotBehind
  <2> QED BY <1>1, <1>6, <2>5, <2>6 DEF Ahead
<1>14. NothingLeftBehind'
  BY <1>1, SameStored DEF MongoInv
<1> QED BY <1>8, <1>9, <1>10, <1>11, <1>12, <1>13, <1>14 DEF MongoInv

-------------------------------------------------------------------------------
(* What dlt stores is the latest, and so is the last value it remembers.      *)
LEMMA StoredIs ==
  ASSUME MongoTypes, Written, Store, NEW p \in Places
  PROVE  /\ stored'[p] \in Nat /\ stored[p] <= stored'[p]
         /\ \A r \in Kept : r.place = p => r.stamp <= stored'[p]
         /\ stored'[p] = stored[p] \/ \E r \in Kept : r.place = p /\ stored'[p] = r.stamp
<1> DEFINE T == {stored[p]} \cup {r.stamp : r \in {k \in Kept : k.place = p}}
<1>1. stored'[p] = Max(T)
  BY DEF Store
<1>2. stored[p] \in Nat /\ clock \in Nat
  BY DEF MongoTypes
<1>3. \A r \in Kept : r.stamp \in Nat /\ r.stamp <= clock
  BY DEF Kept, Written, Known
<1>4. stored[p] + clock \in Nat /\ T \in SUBSET Nat /\ T # {} /\ \A t \in T : t <= stored[p] + clock
  BY <1>2, <1>3
<1>5. Max(T) \in T /\ \A t \in T : t <= Max(T)
  <2> HIDE DEF T
  <2> QED BY <1>4, MaxIs
<1>6. Max(T) \in Nat
  BY <1>4, <1>5
<1> QED BY <1>1, <1>5, <1>6

LEMMA LastIs ==
  ASSUME MongoTypes, Written, Store
  PROVE  /\ last' \in Nat
         /\ opts.cursor = "max" => /\ last <= last'
                                   /\ last' = last \/ \E r \in Kept : last' = r.stamp
<1> DEFINE T == {r.stamp : r \in Kept} \cup ({last} \ {0})
<1>1. last' = IF opts.cursor = "none" \/ Kept = {} THEN last ELSE IF opts.cursor = "max" THEN Max(T) ELSE Min(T)
  BY DEF Store, Later
<1>2. last \in Nat /\ clock \in Nat
  BY DEF MongoTypes
<1>3. \A r \in Kept : r.stamp \in Nat /\ r.stamp <= clock
  BY DEF Kept, Written, Known
<1>4. last + clock \in Nat /\ T \in SUBSET Nat /\ \A t \in T : t <= last + clock
  BY <1>2, <1>3
<1>5. ASSUME Kept # {}
      PROVE  /\ Max(T) \in T /\ (\A t \in T : t <= Max(T)) /\ Max(T) \in Nat
             /\ Min(T) \in Nat
  <2>1. T # {}
    BY <1>5
  <2> HIDE DEF T
  <2>2. Max(T) \in T /\ (\A t \in T : t <= Max(T)) /\ Min(T) \in T
    BY <1>4, <2>1, MaxIs, MinIs
  <2> QED BY <1>4, <2>2
<1>6. ASSUME Kept # {} PROVE last <= Max(T) /\ (Max(T) = last \/ \E r \in Kept : Max(T) = r.stamp)
  <2>1. \A t \in T : t = last \/ \E r \in Kept : t = r.stamp
    OBVIOUS
  <2>2. last = 0 \/ last \in T
    OBVIOUS
  <2> HIDE DEF T
  <2> QED BY <1>2, <1>5, <1>6, <2>1, <2>2
<1> HIDE DEF T
<1> QED BY <1>1, <1>2, <1>5, <1>6

(* A limit cuts off the latest documents only.                               *)
LEMMA LimitedIsUp ==
  ASSUME MongoTypes, Written, Careful, opts.limit # 0
  PROVE  SortOp = "up"
<1>1. opts.cursor = "max" /\ opts.initial # 0 /\ opts.order = "asc"
  BY DEF Careful
<1>2. last # 0
  BY <1>1, OptsTyped DEF Written, MongoTypes
<1> QED BY <1>1, <1>2 DEF SortOp, Active

(* A load that is done got what it owes, or nothing that is newer.            *)
LEMMA NothingNewer ==
  ASSUME MongoInv, AllRead, Careful, NEW p \in There, Owed(p), Row(p) \notin read, NEW r \in read
  PROVE  r.stamp <= stamp[p]
<1>1. MongoTypes /\ Written /\ InHand /\ Fresh /\ Ahead
  BY DEF MongoInv
<1>2. Row(p).stamp = stamp[p] /\ r.stamp \in Nat /\ stamp[p] \in Nat
  BY <1>1 DEF Row, MongoTypes, Rows, There
<1>3. ASSUME Size = 0 PROVE SortOp = "up"
  BY <1>1, <1>3, SizeTyped, LimitedIsUp, MongoAssumption
<1>4. CASE phase = "reading" /\ Scans
  <2>1. Row(p) \in Upcoming \/ r.stamp <= stamp[p]
    BY <1>1, <1>4 DEF Ahead, AheadOfScan, NotBehind
  <2>2. ASSUME Row(p) \in Upcoming PROVE r.stamp <= stamp[p]
    <3>1. SortOp = "up" /\ Along(SortOp, r, Row(p))
      BY <1>1, <1>3, <1>4, <2>2, UpcomingIs DEF AllRead, Exhausted
    <3> QED BY <1>2, <3>1 DEF Along
  <2> QED BY <2>1, <2>2
<1>5. CASE phase = "reading" /\ ~Scans
  <2>1. Upcoming = ahead /\ (Upcoming = {} \/ Size = 0)
    BY <1>5 DEF Upcoming, AllRead, Exhausted
  <2>2. Row(p) \in ahead \/ \A q \in read \cup ahead : q.stamp <= stamp[p]
    BY <1>1, <1>5 DEF Ahead, AheadOfSort, NotBehind
  <2>3. ASSUME Row(p) \in ahead PROVE r.stamp <= stamp[p]
    BY <1>1, <1>2, <1>3, <1>5, <2>1, <2>3 DEF Ahead, AheadOfSort
  <2> QED BY <2>2, <2>3
<1>6. CASE phase = "batches"
  BY <1>1, <1>6 DEF Ahead, AheadOfBatches, NotBehind, AllRead
<1> QED BY <1>4, <1>5, <1>6 DEF AllRead

LEMMA StoreStep == ASSUME MongoInv, Store PROVE MongoInv'
<1>1. /\ MongoTypes /\ Written /\ InHand /\ AllRead
      /\ phase' = "idle" /\ ~indexed' /\ indexed' \in BOOLEAN
      /\ ahead' = {} /\ left' = 0 /\ batches' = {} /\ read' = {} /\ twice' = {}
      /\ UNCHANGED <<stamp, clock, next, opts, stay, calm, steady>>
  BY DEF MongoInv, Store, Forget
<1>2. \A k \in Kept : k \in read /\ Known(k)
  BY <1>1 DEF Kept, Written
<1>3. \A p \in Places :
        /\ stored'[p] \in Nat /\ stored[p] <= stored'[p]
        /\ \A r \in Kept : r.place = p => r.stamp <= stored'[p]
        /\ stored'[p] = stored[p] \/ \E r \in Kept : r.place = p /\ stored'[p] = r.stamp
  BY <1>1, StoredIs
<1>4. /\ last' \in Nat
      /\ opts.cursor = "max" => last <= last' /\ (last' = last \/ \E r \in Kept : last' = r.stamp)
  BY <1>1, LastIs
<1>5. MongoTypes'
  <2>1. stored' = [p \in Places |-> stored'[p]]
    BY DEF Store
  <2>2. stored' \in [Places -> Nat]
    BY <1>3, <2>1
  <2> QED BY <1>1, <1>4, <2>2 DEF MongoTypes
<1>6. Written'
  <2>1. ASSUME NEW p \in Places
        PROVE  /\ stamp[p] <= clock
               /\ next <= p => stamp[p] = 0 /\ stored'[p] = 0
               /\ stamp[p] # 0 => stored'[p] <= stamp[p]
    <3>1. /\ stamp[p] <= clock /\ (next <= p => stamp[p] = 0 /\ stored[p] = 0)
          /\ stamp[p] # 0 => stored[p] <= stamp[p]
      BY <1>1 DEF Written
    <3>2. \A r \in Kept : r.place = p => ~(next <= p) /\ (stamp[p] # 0 => r.stamp <= stamp[p])
      <4>1. p \in Nat /\ next \in Nat
        BY <1>1, MongoAssumption DEF MongoTypes
      <4> QED BY <1>2, <4>1 DEF Known
    <3> QED BY <1>3, <3>1, <3>2
  <2>2. opts.cursor = "max" => last' >= opts.initial /\ (last' <= opts.initial \/ last' <= clock)
    <3>1. /\ opts.initial \in Nat /\ last \in Nat /\ clock \in Nat
          /\ opts.cursor = "max" => last >= opts.initial /\ (last <= opts.initial \/ last <= clock)
      BY <1>1, OptsTyped DEF Written, MongoTypes
    <3>2. \A r \in Kept : r.stamp <= clock
      BY <1>1, <1>2 DEF Known, MongoTypes
    <3> QED BY <1>4, <3>1, <3>2
  <2> QED BY <1>1, <2>1, <2>2 DEF Written
<1>7. InHand'
  BY <1>1, FS_EmptySet DEF InHand
<1>8. Fresh' /\ Pending' /\ Ahead'
  BY <1>1 DEF Fresh, OnceEach, Pending, Ahead, Idle
<1>9. NothingLeftBehind'
  <2>1. ASSUME Careful, NEW p \in There, UserFilter(p), stamp[p] >= opts.initial, stored'[p] # stamp[p]
        PROVE  stamp[p] >= last'
    <3>1. p \in Places /\ stamp[p] \in Nat /\ stamp[p] # 0 /\ opts.cursor = "max" /\ last \in Nat /\ stored[p] \in Nat
      BY <1>1, <2>1 DEF There, MongoTypes, Careful
    <3>2. stored'[p] <= stamp[p] /\ stored'[p] \in Nat /\ stored[p] <= stored'[p]
      BY <1>1, <1>3, <1>6, <3>1 DEF Written
    <3>3. stored[p] # stamp[p]
      BY <2>1, <3>1, <3>2
    <3>4. stamp[p] >= last
      BY <2>1, <3>1, <3>3 DEF MongoInv, NothingLeftBehind, Careful
    <3>5. Owed(p)
      BY <2>1, <3>4 DEF Owed
    <3>6. Row(p) \notin read
      <4>1. SUFFICES ASSUME Row(p) \in read PROVE FALSE
        OBVIOUS
      <4>2. Row(p).place = p /\ Row(p).stamp = stamp[p]
        BY DEF Row
      <4>3. Row(p) \in Kept
        BY <3>1, <3>4, <4>1, <4>2 DEF Kept
      <4>4. stamp[p] <= stored'[p]
        BY <1>3, <3>1, <4>2, <4>3
      <4> QED BY <2>1, <3>1, <3>2, <4>4
    <3>7. \A r \in Kept : r.stamp <= stamp[p]
      BY <1>1, <1>2, <2>1, <3>5, <3>6, NothingNewer
    <3>8. last' <= stamp[p]
      BY <1>4, <3>1, <3>4, <3>7
    <3> QED BY <1>4, <3>1, <3>8
  <2>2. /\ There' = There
        /\ \A p : UserFilter(p)' <=> UserFilter(p)
    BY <1>1 DEF There, UserFilter
  <2> QED BY <1>1, <2>1, <2>2 DEF NothingLeftBehind, Careful
<1> QED BY <1>5, <1>6, <1>7, <1>8, <1>9 DEF MongoInv

LEMMA FailStep == ASSUME MongoInv, Fail PROVE MongoInv'
<1>1. /\ MongoTypes /\ Written /\ InHand
      /\ phase' = "idle" /\ ~indexed' /\ indexed' \in BOOLEAN
      /\ ahead' = {} /\ left' = 0 /\ batches' = {} /\ read' = {} /\ twice' = {}
      /\ UNCHANGED <<stamp, clock, next, opts, last, stored, stay, calm, steady>>
  BY DEF MongoInv, Fail, Forget
<1>2. MongoTypes'
  BY <1>1 DEF MongoTypes
<1>3. Written'
  BY <1>1 DEF Written
<1>4. InHand'
  BY <1>1, FS_EmptySet DEF InHand
<1>5. Fresh' /\ Pending' /\ Ahead'
  BY <1>1 DEF Fresh, OnceEach, Pending, Ahead, Idle
<1>6. NothingLeftBehind'
  BY <1>1, SameStored DEF MongoInv
<1> QED BY <1>2, <1>3, <1>4, <1>5, <1>6 DEF MongoInv

-------------------------------------------------------------------------------
(* A write changes one document, and nothing of what a load asks.             *)
LEMMA Wrote ==
  ASSUME MongoTypes, NEW p \in Places, NEW t \in Nat, NEW moves, NEW passes, Write(p, t, moves, passes)
  PROVE  /\ UNCHANGED <<opts, last, phase, indexed, ahead, left, batches, read, twice, stored>>
         /\ stay' = stay \ {p}
         /\ calm' = (calm /\ (Idle \/ ~moves))
         /\ steady' = (steady /\ (Idle \/ ~passes))
         /\ stamp' \in [Places -> Nat] /\ stamp'[p] = t
         /\ SortOp' = SortOp /\ (Scans' <=> Scans) /\ (Replaced' <=> Replaced)
         /\ Row(p)' = [place |-> p, stamp |-> t] /\ (p \in There' <=> t # 0)
         /\ \A q \in Places : q # p =>
              /\ stamp'[q] = stamp[q] /\ Row(q)' = Row(q) /\ (q \in There' <=> q \in There)
              /\ (UserFilter(q)' <=> UserFilter(q)) /\ (FilterOp(q)' <=> FilterOp(q))
              /\ (Asked(q)' <=> Asked(q)) /\ (Owed(q)' <=> Owed(q))
<1>1. /\ UNCHANGED <<opts, last, phase, indexed, ahead, left, batches, read, twice, stored>>
      /\ stay' = stay \ {p} /\ stamp' = [stamp EXCEPT ![p] = t]
      /\ calm' = (calm /\ (Idle \/ ~moves))
      /\ steady' = (steady /\ (Idle \/ ~passes))
  BY DEF Write, loadVars
<1>2. stamp' \in [Places -> Nat] /\ stamp'[p] = t /\ \A q \in Places : q # p => stamp'[q] = stamp[q]
  BY <1>1 DEF MongoTypes
<1>3. SortOp' = SortOp /\ (Replaced' <=> Replaced) /\ (Active' <=> Active)
  BY <1>1 DEF SortOp, Replaced, Active
<1>4. Scans' <=> Scans
  BY <1>1, <1>3 DEF Scans
<1>5. ASSUME NEW q \in Places, q # p
      PROVE  /\ Row(q)' = Row(q) /\ (q \in There' <=> q \in There)
             /\ (UserFilter(q)' <=> UserFilter(q)) /\ (FilterOp(q)' <=> FilterOp(q))
             /\ (Asked(q)' <=> Asked(q)) /\ (Owed(q)' <=> Owed(q))
  <2>1. stamp'[q] = stamp[q]
    BY <1>2, <1>5
  <2>2. UserFilter(q)' <=> UserFilter(q)
    BY <1>1, <2>1 DEF UserFilter
  <2>3. FilterOp(q)' <=> FilterOp(q)
    BY <1>1, <1>3, <2>1 DEF FilterOp
  <2>4. (Asked(q)' <=> Asked(q)) /\ (Owed(q)' <=> Owed(q))
    BY <1>1, <1>3, <2>1, <2>2, <2>3 DEF Asked, Owed
  <2> QED BY <2>1, <2>2, <2>3, <2>4 DEF Row, There
<1>6. Row(p)' = [place |-> p, stamp |-> t] /\ (p \in There' <=> t # 0)
  BY <1>2 DEF Row, There
<1> QED BY <1>1, <1>2, <1>3, <1>4, <1>5, <1>6

(* A document is written at the latest stamp, or deleted.                    *)
LEMMA WriteTyped ==
  ASSUME MongoInv, NEW p \in Places, NEW t \in Nat, NEW moves, NEW passes,
         Write(p, t, moves, passes), clock' \in Nat, clock <= clock', t = 0 \/ t = clock',
         next' \in Nat, next <= next', p < next', stamp[p] # 0 \/ next <= p
  PROVE  MongoTypes' /\ Written' /\ InHand' /\ NothingLeftBehind'
<1>1. /\ MongoTypes /\ Written /\ InHand
      /\ clock \in Nat \ {0} /\ next \in Nat /\ last \in Nat /\ opts.initial \in Nat
  BY OptsTyped DEF MongoInv, MongoTypes
<1>2. /\ UNCHANGED <<opts, last, phase, indexed, ahead, left, batches, read, twice, stored>>
      /\ stay' = stay \ {p}
      /\ calm' = (calm /\ (Idle \/ ~moves))
      /\ steady' = (steady /\ (Idle \/ ~passes))
      /\ stamp' \in [Places -> Nat] /\ stamp'[p] = t
      /\ SortOp' = SortOp /\ (Scans' <=> Scans) /\ (p \in There' <=> t # 0)
      /\ \A q \in Places : q # p =>
           /\ stamp'[q] = stamp[q] /\ (q \in There' <=> q \in There)
           /\ (UserFilter(q)' <=> UserFilter(q))
  BY <1>1, Wrote
<1>3. MongoTypes'
  <2>1. calm' \in BOOLEAN /\ steady' \in BOOLEAN
    BY <1>1, <1>2 DEF MongoTypes
  <2> QED BY <1>1, <1>2, <2>1 DEF MongoTypes
<1>4. Written'
  <2>1. ASSUME NEW q \in Places
        PROVE  /\ stamp'[q] <= clock'
               /\ next' <= q => stamp'[q] = 0 /\ stored[q] = 0
               /\ stamp'[q] # 0 => stored[q] <= stamp'[q]
    <3>1. /\ stamp[q] <= clock /\ (next <= q => stamp[q] = 0 /\ stored[q] = 0)
          /\ stamp[q] # 0 => stored[q] <= stamp[q]
          /\ q \in Nat /\ stamp[q] \in Nat /\ stored[q] \in Nat
      BY <1>1, MongoAssumption DEF Written, MongoTypes
    <3>2. CASE q = p
      BY <1>1, <1>2, <3>1, <3>2
    <3>3. CASE q # p
      BY <1>1, <1>2, <3>1, <3>3
    <3> QED BY <3>2, <3>3
  <2>2. ASSUME NEW r \in read \cup ahead
        PROVE  r.place < next' /\ r.stamp \in 1..clock' /\ (stamp'[r.place] # 0 => r.stamp <= stamp'[r.place])
    <3>1. r.place < next /\ r.stamp \in 1..clock /\ (stamp[r.place] # 0 => r.stamp <= stamp[r.place])
      BY <1>1 DEF Written, Known
    <3>2. r.place \in Places /\ r.place \in Nat
      BY <1>1, MongoAssumption DEF MongoTypes, Rows
    <3>3. CASE r.place = p
      BY <1>1, <1>2, <3>1, <3>2, <3>3
    <3>4. CASE r.place # p
      BY <1>1, <1>2, <3>1, <3>2, <3>4
    <3> QED BY <3>3, <3>4
  <2>3. opts.cursor = "max" => last >= opts.initial /\ (last <= opts.initial \/ last <= clock')
    BY <1>1 DEF Written
  <2> QED BY <1>2, <2>1, <2>2, <2>3 DEF Written, Known
<1>5. InHand'
  BY <1>1, <1>2 DEF InHand
<1>6. NothingLeftBehind'
  <2>1. SUFFICES ASSUME Careful', NEW q \in There', UserFilter(q)', stamp'[q] >= opts.initial,
                        stored[q] # stamp'[q]
                 PROVE  stamp'[q] >= last
    BY <1>2 DEF NothingLeftBehind, Careful
  <2>2. Careful /\ q \in Places
    BY <1>2, <2>1 DEF Careful, There
  <2>3. CASE q = p
    <3>1. t = clock' /\ stamp'[q] = t
      BY <1>2, <2>1, <2>3
    <3>2. last <= opts.initial \/ last <= clock
      BY <1>1, <2>2 DEF Written, Careful
    <3> QED BY <1>1, <2>1, <3>1, <3>2
  <2>4. CASE q # p
    BY <1>2, <2>1, <2>2, <2>4 DEF MongoInv, NothingLeftBehind, Careful
  <2> QED BY <2>3, <2>4
<1> QED BY <1>3, <1>4, <1>5, <1>6

(* What is to come of one cursor stays to come.                              *)
LEMMA StillUpcoming ==
  ASSUME MongoTypes, NEW p \in Places, NEW t \in Nat, NEW moves, NEW passes, Write(p, t, moves, passes),
         NEW q \in Places, q # p, Row(q) \in Upcoming
  PROVE  Row(q)' \in Upcoming'
<1>1. Row(q)' = Row(q) /\ (q \in There' <=> q \in There) /\ (Asked(q)' <=> Asked(q))
      /\ SortOp' = SortOp /\ (Scans' <=> Scans) /\ UNCHANGED <<read, ahead>>
  BY Wrote
<1>2. CASE Scans
  <2>1. Row(q) \in Found /\ \A r \in read : Along(SortOp, r, Row(q))
    BY <1>2 DEF Upcoming
  <2>2. q \in There /\ Asked(q)
    BY <2>1, FoundIs
  <2>3. Row(q)' \in Found'
    BY <1>1, <2>2 DEF Found
  <2> QED BY <1>1, <1>2, <2>1, <2>3 DEF Upcoming
<1>3. CASE ~Scans
  BY <1>1, <1>3 DEF Upcoming
<1> QED BY <1>2, <1>3

(* What is not deleted is at least as new as what a load has in hand.         *)
LEMMA NewerThanHand ==
  ASSUME MongoTypes, Written, NEW r \in read \cup ahead \cup Found
  PROVE  r.stamp <= clock /\ r.place < next /\ r.stamp \in Nat
<1>1. Known(r)
  BY FoundKnown DEF Written
<1> QED BY <1>1 DEF Known, MongoTypes

(* A write that moves nothing leaves what is got and what is to come.         *)
LEMMA WriteFresh ==
  ASSUME MongoInv, NEW p \in Places, NEW t \in Nat, NEW moves, NEW passes, Write(p, t, moves, passes),
         phase = "batches" => ~calm',
         calm' /\ indexed /\ SortOp = "up" /\ t # 0 => p \notin PlacesOf(read)
  PROVE  Fresh' /\ Pending'
<1>1. MongoTypes /\ InHand /\ Fresh /\ Pending
  BY DEF MongoInv
<1>2. /\ UNCHANGED <<opts, phase, indexed, ahead, batches, read, twice>>
      /\ stay' = stay \ {p} /\ (calm' => calm) /\ stamp'[p] = t
      /\ SortOp' = SortOp /\ (Replaced' <=> Replaced)
      /\ \A q \in Places : q # p =>
           /\ stamp'[q] = stamp[q] /\ Row(q)' = Row(q) /\ (q \in There' <=> q \in There)
           /\ (UserFilter(q)' <=> UserFilter(q)) /\ (FilterOp(q)' <=> FilterOp(q))
  BY <1>1, Wrote
<1>3. Fresh'
  <2>1. OnceEach'
    BY <1>1, <1>2 DEF Fresh, OnceEach
  <2>2. ASSUME calm', indexed, SortOp = "up", NEW q \in read PROVE stamp'[q.place] \in {0, q.stamp}
    <3>1. q.place \in Places
      BY <1>1 DEF MongoTypes, Rows
    <3>2. CASE q.place = p
      BY <1>2, <2>2, <3>2 DEF PlacesOf
    <3>3. CASE q.place # p
      BY <1>1, <1>2, <2>2, <3>1, <3>3 DEF Fresh
    <3> QED BY <3>2, <3>3
  <2>3. calm' => batches = {}
    BY <1>1 DEF InHand
  <2> QED BY <1>1, <1>2, <2>1, <2>2, <2>3 DEF Fresh
<1>4. Pending'
  <2>1. \A q \in stay' : q \in stay /\ q # p /\ q \in Places
    BY <1>1, <1>2 DEF MongoTypes
  <2>2. ~Idle' => ~Idle
    BY <1>2 DEF Idle
  <2>3. PlacesOf(read)' = PlacesOf(read)
    BY <1>2 DEF PlacesOf
  <2>4. ASSUME ~Idle', NEW q \in stay' PROVE q \in There' /\ UserFilter(q)' /\ FilterOp(q)'
    BY <1>1, <1>2, <2>1, <2>2, <2>4 DEF Pending
  <2>5. ASSUME phase = "reading", opts.limit = 0, NEW q \in stay'
        PROVE  q \in PlacesOf(read) \/ Row(q)' \in Upcoming'
    <3>1. q \in PlacesOf(read) \/ Row(q) \in Upcoming
      BY <1>1, <2>1, <2>5 DEF Pending
    <3> QED BY <1>1, <2>1, <3>1, StillUpcoming
  <2> QED BY <1>2, <2>3, <2>4, <2>5 DEF Pending
<1> QED BY <1>3, <1>4

(* Nor does a write that slips past no load leave anything behind.            *)
LEMMA WriteAhead ==
  ASSUME MongoInv, NEW p \in Places, NEW t \in Nat, NEW moves, NEW passes, Write(p, t, moves, passes),
         clock' \in Nat, clock <= clock', t = 0 \/ t = clock', Careful', phase # "batches",
         phase = "reading" /\ Scans /\ SortOp # "down" /\ t # 0 /\ Owed(p)' => Row(p)' \in Upcoming'
  PROVE  Ahead'
<1>1. MongoTypes /\ Written /\ InHand /\ clock \in Nat
  BY DEF MongoInv, MongoTypes
<1>2. /\ UNCHANGED <<opts, last, phase, ahead, batches, read>>
      /\ steady' => steady
      /\ stamp'[p] = t /\ SortOp' = SortOp /\ (Scans' <=> Scans) /\ (p \in There' <=> t # 0)
      /\ \A q \in Places : q # p =>
           /\ stamp'[q] = stamp[q] /\ Row(q)' = Row(q) /\ (q \in There' <=> q \in There)
           /\ (Owed(q)' <=> Owed(q))
  BY <1>1, Wrote
<1>3. Ahead
  BY <1>2 DEF MongoInv, Careful
<1>4. \A r \in read \cup ahead : r.stamp <= clock /\ r.stamp \in Nat
  BY <1>1, NewerThanHand
<1>5. ASSUME p \in There' PROVE \A r \in read \cup ahead : r.stamp <= stamp'[p]
  BY <1>1, <1>2, <1>4, <1>5
<1>6. ASSUME phase = "reading", Scans, NEW q \in There', Owed(q)'
      PROVE  Row(q)' \in read \cup Upcoming' \/ (SortOp = "down" /\ \A r \in read : r.stamp <= stamp'[q])
  <2>1. q \in Places
    BY <1>6 DEF There
  <2>2. CASE q = p
    BY <1>2, <1>5, <1>6, <2>2
  <2>3. CASE q # p
    <3>1. \/ Row(q) \in read \cup Upcoming
          \/ SortOp = "down" /\ \A r \in read : r.stamp <= stamp[q]
      BY <1>2, <1>3, <1>6, <2>1, <2>3 DEF Ahead, AheadOfScan, NotBehind
    <3>2. Row(q) \in Upcoming => Row(q)' \in Upcoming'
      BY <1>1, <2>1, <2>3, StillUpcoming
    <3> QED BY <1>2, <2>1, <2>3, <3>1, <3>2
  <2> QED BY <2>2, <2>3
<1>7. ASSUME phase = "reading", ~Scans, NEW q \in There', Owed(q)'
      PROVE  Row(q)' \in read \cup ahead \/ \A r \in read \cup ahead : r.stamp <= stamp'[q]
  <2>1. q \in Places
    BY <1>7 DEF There
  <2>2. CASE q = p
    BY <1>5, <1>7, <2>2
  <2>3. CASE q # p
    BY <1>2, <1>3, <1>7, <2>1, <2>3 DEF Ahead, AheadOfSort, NotBehind
  <2> QED BY <2>2, <2>3
<1>8. phase = "reading" /\ ~Scans /\ SortOp = "up" => \A r \in read, q \in ahead : r.stamp <= q.stamp
  BY <1>3 DEF Ahead, AheadOfSort
<1>9. phase = "reading" /\ Scans => AheadOfScan'
  BY <1>2, <1>6 DEF AheadOfScan, NotBehind
<1>10. phase = "reading" /\ ~Scans => AheadOfSort'
  BY <1>2, <1>7, <1>8 DEF AheadOfSort, NotBehind
<1> QED BY <1>2, <1>9, <1>10 DEF Ahead

LEMMA UpdateStep == ASSUME MongoInv, Update PROVE MongoInv'
<1> DEFINE row(p, t) == [place |-> p, stamp |-> t]
           again(p) == indexed /\ SortOp = "up" /\ p \in PlacesOf(read)
           behind(p, t) == Scans /\ SortOp # "down" /\ \E q \in read : ~Along(SortOp, q, row(p, t))
<1>1. PICK p \in There, t \in {clock, clock + 1} :
        clock' = t /\ next' = next /\ Write(p, t, opts.parallel \/ again(p), opts.parallel \/ behind(p, t))
  BY DEF Update
<1>2. MongoTypes /\ Written /\ InHand /\ clock \in Nat \ {0} /\ next \in Nat
  BY DEF MongoInv, MongoTypes
<1>3. p \in Places /\ p \in Nat /\ stamp[p] # 0 /\ t \in Nat /\ t # 0 /\ clock <= t
  BY <1>2, MongoAssumption DEF There
<1>4. clock' \in Nat /\ clock <= clock' /\ next' \in Nat /\ next <= next' /\ p < next'
  BY <1>1, <1>2, <1>3 DEF Written
<1> HIDE DEF again, behind
<1>5. MongoTypes' /\ Written' /\ InHand' /\ NothingLeftBehind'
  BY <1>1, <1>2, <1>3, <1>4, WriteTyped
<1>6. /\ calm' = (calm /\ (Idle \/ ~(opts.parallel \/ again(p))))
      /\ steady' = (steady /\ (Idle \/ ~(opts.parallel \/ behind(p, t))))
      /\ UNCHANGED <<opts, read>> /\ SortOp' = SortOp /\ (Scans' <=> Scans)
      /\ Row(p)' = row(p, t) /\ p \in There'
  BY <1>1, <1>2, <1>3, Wrote
<1>7. Fresh' /\ Pending'
  <2>1. phase = "batches" => ~calm'
    BY <1>2, <1>6 DEF InHand, Idle
  <2>2. calm' /\ indexed /\ SortOp = "up" => p \notin PlacesOf(read)
    BY <1>2, <1>6 DEF again, InHand, Idle, PlacesOf
  <2> QED BY <1>1, <1>3, <2>1, <2>2, WriteFresh
<1>8. ASSUME Careful' PROVE Ahead'
  <2>1. phase # "batches"
    BY <1>2, <1>6, <1>8 DEF Careful, InHand, Idle
  <2>2. ASSUME phase = "reading", Scans, SortOp # "down", Owed(p)' PROVE Row(p)' \in Upcoming'
    <3>1. ~behind(p, t) /\ opts.cursor = "max"
      BY <1>6, <1>8, <2>2 DEF Careful, Idle
    <3>2. Asked(p)'
      BY <1>6, <2>2, <3>1 DEF Owed, Asked, FilterOp
    <3>3. Row(p)' \in Found'
      BY <1>6, <3>2 DEF Found
    <3>4. \A q \in read : Along(SortOp, q, Row(p)')
      BY <1>6, <2>2, <3>1 DEF behind
    <3> QED BY <1>6, <2>2, <3>3, <3>4 DEF Upcoming
  <2> QED BY <1>1, <1>2, <1>3, <1>4, <1>8, <2>1, <2>2, WriteAhead
<1> QED BY <1>5, <1>7, <1>8 DEF MongoInv

LEMMA DeleteStep == ASSUME MongoInv, Delete PROVE MongoInv'
<1>1. PICK p \in There : clock' = clock /\ next' = next /\ Write(p, 0, opts.parallel, opts.parallel)
  BY DEF Delete
<1>2. MongoTypes /\ Written /\ InHand /\ clock \in Nat \ {0} /\ next \in Nat
  BY DEF MongoInv, MongoTypes
<1>3. p \in Places /\ p \in Nat /\ stamp[p] # 0 /\ 0 \in Nat
  BY <1>2, MongoAssumption DEF There
<1>4. clock' \in Nat /\ clock <= clock' /\ next' \in Nat /\ next <= next' /\ p < next'
  BY <1>1, <1>2, <1>3 DEF Written
<1>5. MongoTypes' /\ Written' /\ InHand' /\ NothingLeftBehind'
  BY <1>1, <1>2, <1>3, <1>4, WriteTyped
<1>6. /\ calm' = (calm /\ (Idle \/ ~opts.parallel))
      /\ steady' = (steady /\ (Idle \/ ~opts.parallel))
  BY <1>1, <1>2, <1>3, Wrote
<1>7. Fresh' /\ Pending'
  <2>1. phase = "batches" => ~calm'
    BY <1>2, <1>6 DEF InHand, Idle
  <2> QED BY <1>1, <1>3, <2>1, WriteFresh
<1>8. ASSUME Careful' PROVE Ahead'
  <2>1. phase # "batches"
    BY <1>2, <1>6, <1>8 DEF Careful, InHand, Idle
  <2> QED BY <1>1, <1>2, <1>3, <1>4, <1>8, <2>1, WriteAhead
<1> QED BY <1>5, <1>7, <1>8 DEF MongoInv

(* In ascending order a new document comes last, or ties with the last ones. *)
LEMMA RowAdded ==
  ASSUME MongoTypes, Written, NEW p \in Places, p = next, NEW t \in Nat, t # 0, clock <= t, SortOp = "up",
         NEW moves, NEW passes, Write(p, t, moves, passes), NEW x, x = [place |-> p, stamp |-> t]
  PROVE  /\ Cardinality(Found) \in Nat /\ Cardinality(Found') \in Nat
         /\ Cardinality(Found) <= Cardinality(Found')
         /\ Found \subseteq Found' /\ \A r \in Found' : r \in Found \/ r = x
         /\ \A r \in Found : /\ r.place \in There /\ r.place # p /\ r.stamp = stamp[r.place]
                             /\ r.stamp <= t /\ r.stamp \in Nat
                             /\ Low("up", Found', r) = Low("up", Found, r)
                             /\ r.stamp < t => High("up", Found', r) = High("up", Found, r)
                             /\ x \in Found' /\ r.stamp = t => Low("up", Found', x) = Low("up", Found, r)
         /\ x \in Found' /\ (\A r \in Found : r.stamp < t) =>
              Low("up", Found', x) = Cardinality(Found) /\ High("up", Found', x) = Cardinality(Found)
<1>1. clock \in Nat /\ next \in Nat
  BY DEF MongoTypes
<1>2. /\ SortOp' = "up" /\ Row(p)' = x /\ p \in There'
      /\ \A q \in Places : q # p =>
           /\ Row(q)' = Row(q) /\ (q \in There' <=> q \in There) /\ (Asked(q)' <=> Asked(q))
  BY Wrote
<1>3. /\ OnePerPlace(Found)
      /\ \A r \in Found : /\ r.place \in There /\ Asked(r.place) /\ r = Row(r.place) /\ r.stamp = stamp[r.place]
                          /\ r.place < p /\ r.stamp <= clock /\ r.place \in Nat /\ r.stamp \in Nat
  BY FoundIs, NewerThanHand, <1>1 DEF OnePerPlace
<1>4. \A r \in Found : r.place # p /\ r.stamp <= t
  BY <1>1, <1>3
<1>5. Found' = Found \/ Found' = Found \cup {x}
  <2>1. Found' = {Row(q)' : q \in {q \in There' : Asked(q)'}}
    BY DEF Found
  <2>2. \A r \in Found : r \in Found'
    <3>1. \A r \in Found : r.place \in Places
      BY <1>3 DEF There
    <3> QED BY <1>2, <1>3, <1>4, <2>1, <3>1
  <2>3. \A r \in Found' : r \in Found \/ r = x
    <3>1. ASSUME NEW q \in There', Asked(q)', q # p PROVE Row(q)' \in Found
      <4>1. q \in Places
        BY <3>1 DEF There
      <4>2. q \in There /\ Asked(q) /\ Row(q)' = Row(q)
        BY <1>2, <3>1, <4>1
      <4> QED BY <4>2 DEF Found
    <3> QED BY <1>2, <2>1, <3>1
  <2> QED BY <2>2, <2>3
<1>6. x \notin Found /\ OnePerPlace(Found \cup {x})
  <2>1. IsFiniteSet(Found \cup {x})
    BY <1>3, FS_AddElement DEF OnePerPlace
  <2> QED BY <1>1, <1>3, <1>4, <2>1 DEF OnePerPlace
<1>7. IsFiniteSet(Found) /\ Cardinality(Found) \in Nat
  BY <1>3, FS_CardinalityType DEF OnePerPlace
<1>8. x.place = p /\ x.stamp = t
  OBVIOUS
<1>9. Cardinality(Found') \in Nat /\ Cardinality(Found) <= Cardinality(Found')
  <2>1. Cardinality(Found \cup {x}) = Cardinality(Found) + 1
    BY <1>6, <1>7, FS_AddElement
  <2>2. CASE Found' = Found
    BY <1>7, <2>2
  <2>3. CASE Found' = Found \cup {x}
    BY <1>7, <2>1, <2>3
  <2> QED BY <1>5, <2>2, <2>3
<1>10. ASSUME NEW r \in Found
       PROVE  /\ Low("up", Found', r) = Low("up", Found, r)
              /\ r.stamp < t => High("up", Found', r) = High("up", Found, r)
              /\ x \in Found' /\ r.stamp = t => Low("up", Found', x) = Low("up", Found, r)
  <2>1. ~Before("up", x, r) /\ (r.stamp < t => Before("up", r, x))
    BY <1>3, <1>4, <1>8 DEF Before
  <2>2. CASE Found' = Found
    BY <1>6, <2>2
  <2>3. CASE Found' = Found \cup {x}
    <3>1. /\ Low("up", Found', r) = Low("up", Found, r)
          /\ r.stamp < t => High("up", Found', r) = High("up", Found, r)
      BY <1>6, <2>1, <2>3, RankAdded DEF Orders
    <3>2. ASSUME r.stamp = t PROVE Low("up", Found', x) = Low("up", Found', r)
      <4>1. {q \in Found' : Before("up", q, x)} = {q \in Found' : Before("up", q, r)}
        BY <1>8, <3>2 DEF Before
      <4> QED BY <4>1 DEF Low
    <3> QED BY <3>1, <3>2
  <2> QED BY <1>5, <2>2, <2>3
<1>11. ASSUME x \in Found', \A r \in Found : r.stamp < t
       PROVE  Low("up", Found', x) = Cardinality(Found) /\ High("up", Found', x) = Cardinality(Found)
  <2>1. \A r \in Found : Before("up", r, x)
    BY <1>8, <1>11 DEF Before
  <2>2. Found' = Found \cup {x}
    BY <1>5, <1>6, <1>11
  <2> QED BY <1>6, <2>1, <2>2, RankLast DEF Orders
<1>12. \A r \in Found' : r \in Found \/ r = x
  BY <1>5
<1>13. Found \subseteq Found'
  BY <1>5
<1> QED BY <1>3, <1>4, <1>7, <1>9, <1>10, <1>11, <1>12, <1>13

(* So the batches of a sort that ascends keep what they get.                 *)
LEMMA InsertBatches ==
  ASSUME MongoInv, NEW p \in Places, p = next, NEW t \in Nat, t # 0, clock <= t, SortOp = "up",
         NEW moves, NEW passes, Write(p, t, moves, passes), phase = "batches",
         calm' => \A q \in There : stamp[q] < t
  PROVE  Fresh' /\ Pending' /\ (Careful' => Ahead')
<1> DEFINE x == [place |-> p, stamp |-> t]
<1>1. /\ MongoTypes /\ Written /\ InHand /\ Fresh /\ Pending /\ ~indexed /\ ahead = {}
      /\ batches \subseteq [skip : Nat, limit : Nat]
  BY DEF MongoInv, InHand, MongoTypes
<1>2. /\ UNCHANGED <<opts, last, phase, indexed, ahead, batches, read, twice>>
      /\ stay' = stay \ {p} /\ (calm' => calm) /\ (steady' => steady) /\ stamp'[p] = t
      /\ SortOp' = SortOp /\ (Replaced' <=> Replaced) /\ Row(p)' = x
      /\ \A q \in Places : q # p =>
           /\ stamp'[q] = stamp[q] /\ Row(q)' = Row(q) /\ (q \in There' <=> q \in There)
           /\ (UserFilter(q)' <=> UserFilter(q)) /\ (FilterOp(q)' <=> FilterOp(q))
           /\ (Owed(q)' <=> Owed(q))
  BY <1>1, Wrote
<1>3. x.place = p /\ x.stamp = t
  OBVIOUS
<1>4. /\ Cardinality(Found) \in Nat /\ Cardinality(Found') \in Nat
      /\ Cardinality(Found) <= Cardinality(Found')
      /\ Found \subseteq Found' /\ \A r \in Found' : r \in Found \/ r = x
      /\ \A r \in Found : /\ r.place \in There /\ r.place # p /\ r.stamp = stamp[r.place]
                          /\ r.stamp <= t /\ r.stamp \in Nat
                          /\ Low("up", Found', r) = Low("up", Found, r)
                          /\ r.stamp < t => High("up", Found', r) = High("up", Found, r)
                          /\ x \in Found' /\ r.stamp = t => Low("up", Found', x) = Low("up", Found, r)
      /\ x \in Found' /\ (\A r \in Found : r.stamp < t) =>
           Low("up", Found', x) = Cardinality(Found) /\ High("up", Found', x) = Cardinality(Found)
  BY <1>1, RowAdded
<1> HIDE DEF x
<1>5. \A r \in read : r.stamp <= t /\ r.place # p
  <2>1. \A r \in read : r.stamp <= clock /\ r.place < next /\ r.stamp \in Nat /\ r.place \in Nat
    BY <1>1, NewerThanHand, MongoAssumption DEF MongoTypes, Rows
  <2> QED BY <1>1, <2>1 DEF MongoTypes
<1> DEFINE sure(b, r) ==
             r \in Found' /\ b.skip <= Low("up", Found', r) /\ High("up", Found', r) < b.skip + b.limit
<1>6. /\ \A b : \A q \in Places : q # p /\ sure(b, Row(q)) => Sure(b, Row(q))'
      /\ \A b, r : Possible(b, r)' <=> /\ Low("up", Found', r) < b.skip + b.limit
                                      /\ b.skip <= High("up", Found', r)
  BY <1>2 DEF Sure, Possible
<1>7. \A b, r : Sure(b, r) /\ r.stamp < t => sure(b, r)
  BY <1>4 DEF Sure
<1> HIDE DEF sure
<1>8. ASSUME calm' PROVE \A r \in Found : r.stamp < t
  BY <1>4, <1>8
<1>9. Fresh'
  <2>1. OnceEach'
    BY <1>1, <1>2 DEF Fresh, OnceEach
  <2>2. ASSUME calm', NEW b \in batches, NEW r \in Found', NEW q \in read, Possible(b, r)'
        PROVE  r.place # q.place
    <3>1. CASE r \in Found
      <4>1. Possible(b, r)
        BY <1>4, <1>6, <1>8, <2>2, <3>1 DEF Possible
      <4> QED BY <1>1, <1>2, <2>2, <3>1, <4>1 DEF Fresh
    <3>2. CASE r = x
      BY <1>3, <1>5, <3>2
    <3> QED BY <1>4, <2>2, <3>1, <3>2
  <2>3. ASSUME calm', \A r \in Found : Low("up", Found, r) = High("up", Found, r), NEW r \in Found'
        PROVE  Low("up", Found', r) = High("up", Found', r)
    BY <1>4, <1>8, <2>3
  <2>4. calm' => \/ \A b, c \in batches : b = c
                 \/ \A r \in Found' : Low("up", Found', r) = High("up", Found', r)
    BY <1>1, <1>2, <2>3 DEF Fresh
  <2> QED BY <1>1, <1>2, <2>1, <2>2, <2>4 DEF Fresh
<1>10. Pending'
  <2>1. \A q \in stay' : q \in stay /\ q # p /\ q \in Places
    BY <1>1, <1>2 DEF MongoTypes
  <2>2. PlacesOf(read)' = PlacesOf(read)
    BY <1>2 DEF PlacesOf
  <2>3. ASSUME NEW q \in stay' PROVE q \in There' /\ UserFilter(q)' /\ FilterOp(q)'
    BY <1>1, <1>2, <2>1, <2>3 DEF Pending, Idle
  <2>4. ASSUME opts.limit = 0, calm', ~Replaced, NEW q \in stay'
        PROVE  q \in PlacesOf(read) \/ \E b \in batches : Sure(b, Row(q))'
    <3>1. q \in PlacesOf(read) \/ \E b \in batches : Sure(b, Row(q))
      BY <1>1, <1>2, <2>1, <2>4 DEF Pending
    <3> QED BY <1>6, <1>7, <1>8, <2>1, <2>4, <3>1 DEF Sure
  <2> QED BY <1>2, <2>2, <2>3, <2>4 DEF Pending
<1>11. ASSUME Careful' PROVE Ahead'
  <2>1. AheadOfBatches
    BY <1>2, <1>11 DEF MongoInv, Careful, Ahead
  <2>2. \A b \in batches : b.skip + b.limit <= Cardinality(Found')
    BY <1>1, <1>4, <2>1 DEF AheadOfBatches
  <2>3. \A r \in Early' : r \in Found' /\ \E b \in batches : Low("up", Found', r) < b.skip + b.limit
    BY <1>2 DEF Early
  <2>4. ASSUME NEW r \in Early' PROVE r.stamp <= t /\ r.stamp \in Nat
    BY <1>3, <1>4, <2>3, <2>4
  <2>5. ASSUME NEW q \in There', Owed(q)'
        PROVE  \/ Row(q)' \in read \/ \E b \in batches : Sure(b, Row(q))'
               \/ \A r \in read \cup Early' : r.stamp <= stamp'[q]
    <3>1. q \in Places
      BY <2>5 DEF There
    <3>2. CASE stamp'[q] = t
      BY <1>5, <2>4, <3>2
    <3>3. CASE stamp'[q] # t
      <4>1. q # p /\ q \in There /\ Owed(q) /\ Row(q)' = Row(q) /\ stamp'[q] = stamp[q] /\ Row(q).stamp = stamp[q]
        BY <1>2, <2>5, <3>1, <3>3 DEF Row
      <4>2. CASE Row(q) \in read
        BY <4>1, <4>2
      <4>3. ASSUME NEW b \in batches, Sure(b, Row(q)) PROVE Sure(b, Row(q))'
        <5>1. Row(q).stamp < t
          BY <1>4, <3>3, <4>1, <4>3 DEF Sure
        <5> QED BY <1>6, <1>7, <3>1, <4>1, <4>3, <5>1
      <4>4. ASSUME \A r \in read \cup Early : r.stamp <= stamp[q], NEW r \in Early' PROVE r.stamp <= stamp[q]
        <5>1. PICK b \in batches : Low("up", Found', r) < b.skip + b.limit
          BY <2>3
        <5>2. CASE r \in Found
          <6>1. r \in Early
            BY <1>4, <5>1, <5>2 DEF Early
          <6> QED BY <4>4, <6>1
        <5>3. CASE r = x /\ \A s \in Found : s.stamp < t
          <6>1. Low("up", Found', x) = Cardinality(Found) /\ b.skip + b.limit <= Cardinality(Found)
            BY <1>4, <2>1, <2>3, <5>3 DEF AheadOfBatches
          <6>2. b.skip \in Nat /\ b.limit \in Nat
            BY <1>1
          <6> QED BY <1>4, <5>1, <5>3, <6>1, <6>2
        <5>4. ASSUME r = x, NEW s \in Found, ~(s.stamp < t) PROVE r.stamp <= stamp[q]
          <6>1. s.stamp = t
            BY <1>4, <5>4
          <6>2. s \in Early
            BY <1>4, <2>3, <5>1, <5>4, <6>1 DEF Early
          <6> QED BY <1>3, <4>4, <5>4, <6>1, <6>2
        <5> QED BY <1>4, <2>3, <5>2, <5>3, <5>4
      <4> QED BY <2>1, <4>1, <4>2, <4>3, <4>4 DEF AheadOfBatches, NotBehind
    <3> QED BY <3>2, <3>3
  <2>6. AheadOfBatches'
    BY <1>2, <2>2, <2>5 DEF AheadOfBatches, NotBehind
  <2> QED BY <1>2, <2>6 DEF Ahead
<1> QED BY <1>9, <1>10, <1>11
LEMMA InsertStep == ASSUME MongoInv, Insert PROVE MongoInv'
<1> DEFINE strict(t) == \A q \in There : stamp[q] < t
<1>1. PICK p \in Places, t \in {clock, clock + 1} :
        /\ p = next /\ clock' = t /\ next' = next + 1
        /\ Write(p, t, opts.parallel /\ ~(SortOp = "up" /\ strict(t)), opts.parallel /\ SortOp # "up")
  BY DEF Insert
<1>2. /\ MongoTypes /\ Written /\ InHand /\ clock \in Nat \ {0} /\ next \in Nat
  BY DEF MongoInv, MongoTypes
<1>3. /\ t \in Nat /\ t # 0 /\ clock <= t /\ next <= p /\ p < next' /\ next' \in Nat /\ next <= next'
  BY <1>1, <1>2
<1> HIDE DEF strict
<1>4. MongoTypes' /\ Written' /\ InHand' /\ NothingLeftBehind'
  BY <1>1, <1>2, <1>3, WriteTyped
<1>5. /\ calm' = (calm /\ (Idle \/ ~(opts.parallel /\ ~(SortOp = "up" /\ strict(t)))))
      /\ steady' = (steady /\ (Idle \/ ~(opts.parallel /\ SortOp # "up")))
      /\ SortOp' = SortOp /\ (Scans' <=> Scans) /\ UNCHANGED <<opts, read>>
      /\ Row(p)' = [place |-> p, stamp |-> t] /\ p \in There'
  BY <1>1, <1>2, <1>3, Wrote
<1>6. \A q \in read : q.place < p /\ q.place \in Nat /\ q.stamp <= t /\ q.stamp \in Nat
  <2>1. \A q \in read : q.place < next /\ q.place \in Nat /\ q.stamp <= clock /\ q.stamp \in Nat
    BY <1>2, NewerThanHand, MongoAssumption DEF MongoTypes, Rows
  <2> QED BY <1>1, <1>2, <1>3, <2>1
<1>7. CASE phase = "batches" /\ SortOp = "up"
  <2>1. calm' => \A q \in There : stamp[q] < t
    BY <1>2, <1>5, <1>7 DEF strict, InHand, Idle
  <2>2. Fresh' /\ Pending' /\ (Careful' => Ahead')
    BY <1>1, <1>3, <1>7, <2>1, InsertBatches
  <2> QED BY <1>4, <2>2 DEF MongoInv
<1>8. CASE ~(phase = "batches" /\ SortOp = "up")
  <2>1. phase = "batches" => ~calm' /\ ~steady'
    BY <1>2, <1>5, <1>8 DEF InHand, Idle
  <2>2. p \notin PlacesOf(read)
    BY <1>1, <1>2, <1>6 DEF PlacesOf
  <2>3. Fresh' /\ Pending'
    BY <1>1, <1>3, <2>1, <2>2, WriteFresh
  <2>4. ASSUME Careful' PROVE Ahead'
    <3>1. phase # "batches" /\ opts.cursor = "max"
      BY <1>5, <2>1, <2>4 DEF Careful
    <3>2. ASSUME phase = "reading", Scans, SortOp # "down", Owed(p)' PROVE Row(p)' \in Upcoming'
      <4>1. Asked(p)'
        BY <1>5, <3>1, <3>2 DEF Owed, Asked, FilterOp
      <4>2. Row(p)' \in Found'
        BY <1>5, <4>1 DEF Found
      <4>3. \A q \in read : Along(SortOp, q, [place |-> p, stamp |-> t])
        <5>1. \A q \in read : q.stamp < t \/ q.stamp = t
          BY <1>3, <1>6
        <5>2. SortOp = "natural" \/ SortOp = "up"
          BY <3>2, SortTyped DEF Orders
        <5> QED BY <1>6, <5>1, <5>2 DEF Along
      <4> QED BY <1>5, <3>2, <4>2, <4>3 DEF Upcoming
    <3> QED BY <1>1, <1>2, <1>3, <2>4, <3>1, <3>2, WriteAhead
  <2> QED BY <1>4, <2>3, <2>4 DEF MongoInv
<1> QED BY <1>7, <1>8

LEMMA StutterStep == ASSUME MongoInv, UNCHANGED mongoVars PROVE MongoInv'
<1>1. /\ MongoTypes /\ Written /\ InHand /\ Fresh /\ Pending
      /\ UNCHANGED <<stamp, clock, next, opts, last, phase, indexed, ahead, left, batches, read, twice, stored>>
      /\ UNCHANGED <<stay, calm, steady>>
  BY DEF MongoInv, mongoVars
<1>2. /\ There' = There /\ Found' = Found /\ SortOp' = SortOp /\ (Replaced' <=> Replaced)
      /\ \A p : (UserFilter(p)' <=> UserFilter(p)) /\ (FilterOp(p)' <=> FilterOp(p))
      /\ \A p : Row(p)' = Row(p) /\ (Owed(p)' <=> Owed(p))
      /\ \A c, r : (Sure(c, r)' <=> Sure(c, r)) /\ (Possible(c, r)' <=> Possible(c, r))
  BY <1>1, SameQuery
<1>3. Scans' <=> Scans
  BY <1>1, <1>2 DEF Scans
<1>4. MongoTypes' /\ Written'
  BY <1>1 DEF MongoTypes, Written, Known
<1>5. InHand'
  BY <1>1, <1>3 DEF InHand
<1>6. Fresh'
  BY <1>1, <1>2 DEF Fresh, OnceEach
<1>7. Upcoming' = Upcoming /\ Early' = Early /\ PlacesOf(read)' = PlacesOf(read)
  BY <1>1, <1>2, <1>3 DEF Upcoming, Early, PlacesOf
<1>8. Pending'
  BY <1>1, <1>2, <1>7 DEF Pending, Idle
<1>9. ASSUME Careful' PROVE Ahead'
  <2>1. Ahead
    BY <1>1, <1>9 DEF MongoInv, Careful
  <2>2. /\ AheadOfScan' <=> AheadOfScan
        /\ AheadOfSort' <=> AheadOfSort
        /\ AheadOfBatches' <=> AheadOfBatches
    <3>1. AheadOfScan' <=> AheadOfScan
      BY <1>1, <1>2, <1>7 DEF AheadOfScan, NotBehind
    <3>2. AheadOfSort' <=> AheadOfSort
      BY <1>1, <1>2 DEF AheadOfSort, NotBehind
    <3>3. AheadOfBatches' <=> AheadOfBatches
      BY <1>1, <1>2, <1>7 DEF AheadOfBatches, NotBehind
    <3> QED BY <3>1, <3>2, <3>3
  <2> QED BY <1>1, <1>3, <2>1, <2>2 DEF Ahead
<1>10. NothingLeftBehind'
  BY <1>1, SameStored DEF MongoInv
<1> QED BY <1>4, <1>5, <1>6, <1>8, <1>9, <1>10 DEF MongoInv

(* MongoInv holds in every state: of loads and writers, in any order.             *)
THEOREM LoadsInOrder == MongoSpec => []MongoInv
<1>1. ASSUME MongoInv, MongoNext PROVE MongoInv'
  <2>1. CASE StartLoad
    BY <1>1, <2>1, StartLoadStep
  <2>2. CASE OpenCursor
    BY <1>1, <2>2, OpenCursorStep
  <2>3. CASE CutBatches
    BY <1>1, <2>3, CutBatchesStep
  <2>4. CASE ReadChunk
    BY <1>1, <2>4, ReadChunkStep
  <2>5. CASE RunBatch
    BY <1>1, <2>5, RunBatchStep
  <2>6. CASE Store
    BY <1>1, <2>6, StoreStep
  <2>7. CASE Fail
    BY <1>1, <2>7, FailStep
  <2>8. CASE Insert
    BY <1>1, <2>8, InsertStep
  <2>9. CASE Update
    BY <1>1, <2>9, UpdateStep
  <2>10. CASE Delete
    BY <1>1, <2>10, DeleteStep
  <2> QED BY <1>1, <2>1, <2>2, <2>3, <2>4, <2>5, <2>6, <2>7, <2>8, <2>9, <2>10 DEF MongoNext
<1>2. MongoInv /\ [MongoNext]_mongoVars => MongoInv'
  BY <1>1, StutterStep
<1> QED BY InitIInv, <1>2, PTL DEF MongoSpec

(* Without a limit, a load that has read all of it has every document that    *)
(* was asked for when it started and that nobody has touched since, whatever  *)
(* order ties come in: CollectionLoader.load_documents, and those batches of  *)
(* its parallel kind that agree on an order.                                 *)
THEOREM StayersAreLoaded == MongoSpec => []StayersLoaded
<1>1. MongoInv => StayersLoaded
  <2>1. SUFFICES ASSUME MongoInv, AllRead, opts.limit = 0, opts.parallel => calm /\ ~Replaced, NEW p \in stay
                 PROVE  p \in PlacesOf(read)
    BY DEF StayersLoaded
  <2>2. MongoTypes /\ InHand /\ Pending
    BY <2>1 DEF MongoInv
  <2>3. CASE phase = "reading"
    <3>1. Size # 0
      BY <2>1, <2>2, SizeTyped, MongoAssumption
    <3>2. Upcoming = {}
      BY <2>1, <2>3, <3>1 DEF AllRead, Exhausted
    <3> QED BY <2>1, <2>2, <2>3, <3>2 DEF Pending
  <2>4. CASE phase = "batches"
    BY <2>1, <2>2, <2>4 DEF Pending, AllRead, InHand
  <2> QED BY <2>1, <2>3, <2>4 DEF AllRead
<1> QED BY <1>1, LoadsInOrder, PTL

(* A load gets no document twice: in parallel, while its batches agree and no *)
(* write moves the others under them (CollectionLoaderParallel), and with one *)
(* cursor, unless an update is ahead of a scan of an index.                   *)
THEOREM DocumentsOnce == MongoSpec => []OnceEach
<1>1. MongoInv => OnceEach
  BY DEF MongoInv, Fresh
<1> QED BY <1>1, LoadsInOrder, PTL

(* What an incremental load has left out is still ahead of its last value:    *)
(* the loads' filter and sort (CollectionLoader) and dlt's own, while batches *)
(* agree and no write slips past a load.                                     *)
THEOREM NothingIsLeft == MongoSpec => []NothingLeftBehind
<1>1. MongoInv => NothingLeftBehind
  BY DEF MongoInv
<1> QED BY <1>1, LoadsInOrder, PTL
===============================================================================
