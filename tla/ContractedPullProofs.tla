-------------------------- MODULE ContractedPullProofs --------------------------
(***************************************************************************)
(* Theorems of ContractedPull for every manifest, command line, schema,      *)
(* report and set of samples, and for any number of retries, polls, runs and *)
(* edits: what a run may conclude from the answers it got, what a test of the  *)
(* contract and a run with it say of each other, and that the flags of the     *)
(* time window win over whatever else the command line gives.                  *)
(***************************************************************************)
EXTENDS ContractedPull, NaturalsInduction, SequenceTheorems, WellFoundedInduction, TLAPS

(* The counts of a run: a job the client learnt of ends the requests for one. *)
Counted ==
  /\ jobs \in Nat /\ unheard \in Nat
  /\ stage \in {"idle", "accepted", "trigger", "poll", "check"}
  /\ stage \in {"idle", "accepted"} => jobs = 0 /\ unheard = 0
  /\ stage = "trigger" => jobs = unheard
  /\ stage \in {"poll", "check"} => jobs = unheard + 1

(* A run has no payload before its poll is over, and none then only where the *)
(* last call showed no report.                                                 *)
PayloadPolled ==
  /\ stage # "check" => payload = Nothing
  /\ stage \notin {"poll", "check"} => seen = "none"
  /\ stage = "check" /\ payload = Nothing => seen # "report"

(* A contract captures where the manifest says, or into its own directory. *)
CapturesPlaced ==
  (contract # None /\ contract.capture # None) =>
    /\ config # None /\ config.capture # None
    /\ contract.capture.at.dir \in {config.capture.dir, "captured"}

(* A run that failed with a payload failed because of it; a passed test has *)
(* looked at no shape the schema refuses.                                     *)
Refusals  == (ended.how = "failed" /\ ended.payload # Nothing) => ~Satisfies(ended.contract.schema, ended.payload)
Verdicts  == report.status = "passed" => \A s \in report.shapes : Satisfies(report.schema, s)

(* Where captures do not go to the samples, what is there are samples. *)
SamplesOnly ==
  \/ config # None /\ config.capture # None /\ config.capture.dir = "samples"
  \/ \A f \in files : f.dir = "samples" => f.name[1] = "sample"

PullInv ==
  /\ config \in Configs /\ Counted /\ PayloadPolled /\ CapturesPlaced
  /\ Refusals /\ Verdicts /\ SamplesOnly /\ ReportSeen /\ ModeDecides

-------------------------------------------------------------------------------
(* At first every file is a sample. *)
LEMMA Places ==
  ASSUME Init
  PROVE  \A f \in files : f.name[1] = "sample"
<1> SUFFICES ASSUME NEW f \in files PROVE f.name[1] = "sample"
  OBVIOUS
<1>1. PICK s \in SUBSET Samples : files = {[g EXCEPT !.place = SchemaPlace(schemas)] : g \in s}
  BY DEF Init
<1>2. PICK g \in s : f = [g EXCEPT !.place = SchemaPlace(schemas)]
  BY <1>1
<1>3. g \in [place : {"manifest"}, dir : {"contracts", "samples"}, name : {"sample"} \X Nat, shape : Payloads]
  BY SamplesAssumption
<1>4. f.name = g.name
  BY <1>2, <1>3
<1>5. g.name[1] = "sample"
  BY <1>3
<1> QED BY <1>4, <1>5

LEMMA InitInv == Init => PullInv
<1> SUFFICES ASSUME Init PROVE PullInv
  OBVIOUS
<1>1. Counted /\ PayloadPolled
  BY DEF Init, Counted, PayloadPolled
<1>2. CapturesPlaced
  BY DEF Init, CapturesPlaced
<1>3. ended.how = "none" /\ ended.payload = Nothing /\ report.status = "none"
  BY DEF Init, NoEnd, Report
<1>4. Refusals /\ Verdicts /\ ReportSeen /\ ModeDecides
  BY <1>3 DEF Refusals, Verdicts, ReportSeen, ModeDecides
<1>5. SamplesOnly
  BY Places DEF SamplesOnly
<1> QED BY <1>1, <1>2, <1>4, <1>5 DEF Init, PullInv

(* How a run ends. *)
LEMMA Ending ==
  ASSUME NEW how, NEW error, End(how, error)
  PROVE  /\ Counted' /\ PayloadPolled' /\ CapturesPlaced'
         /\ ended'.how = how /\ ended'.error = error /\ ended'.contract = contract
         /\ ended'.payload = payload /\ ended'.seen = seen
<1>1. Counted' /\ PayloadPolled' /\ CapturesPlaced'
  BY DEF End, Counted, PayloadPolled, CapturesPlaced
<1>2. ended' = [how |-> how, error |-> error, contract |-> contract, payload |-> payload,
                attempt |-> attempt, seen |-> seen]
  BY DEF End
<1> QED BY <1>1, <1>2

(* A run that ends with no payload says nothing of payloads. *)
LEMMA EndingUnpaid ==
  ASSUME NEW how, NEW error, End(how, error), payload = Nothing, how # "empty"
  PROVE  Refusals' /\ ReportSeen' /\ ModeDecides'
<1>1. ended'.how = how /\ ended'.payload = Nothing
  BY Ending
<1> QED BY <1>1 DEF Refusals, ReportSeen, ModeDecides

LEMMA EndStays ==
  ASSUME PullInv, UNCHANGED ended
  PROVE  Refusals' /\ ReportSeen' /\ ModeDecides'
BY DEF PullInv, Refusals, ReportSeen, ModeDecides

LEMMA DiskStays ==
  ASSUME PullInv, UNCHANGED config, UNCHANGED files
  PROVE  (config \in Configs)' /\ SamplesOnly'
BY DEF PullInv, SamplesOnly

-------------------------------------------------------------------------------
(* The contract of an overridden configuration captures where the manifest's own does. *)
LEMMA BuiltFrom ==
  ASSUME config \in Configs, NEW m, NEW built, built = Build(Effective(m), schemas),
         "raise" \notin DOMAIN built, built # None, built.capture # None
  PROVE  /\ config # None /\ config.capture # None
         /\ built.capture.at.dir \in {config.capture.dir, "captured"}
<1> DEFINE c == Effective(m)
<1>1. config # None
  BY DEF Build, Effective
<1>2. config \in [mode : STRING, inline : Schemas \cup {None}, path : BOOLEAN, samples : SUBSET (STRING \X Nat),
                  capture : {None} \cup [enabled : BOOLEAN, dir : STRING, template : STRING, redact : BOOLEAN]]
  BY <1>1, ConfigsAssumption
<1>3. c.capture = config.capture
  BY <1>1, <1>2 DEF Effective
<1> HIDE DEF c
<1>4. PICK s : built = Compiled(c, s, schemas)
  BY DEF Build, Raised, c
<1>5. c.capture # None /\ built.capture.at = CaptureDir(c, schemas)
  BY <1>4 DEF Compiled
<1>6. CaptureDir(c, schemas).dir \in {c.capture.dir, "captured"}
  BY DEF CaptureDir
<1> QED BY <1>1, <1>3, <1>5, <1>6

(* Of the answers to a request for a job only those of one that was started are taken. *)
LEMMA Triggered ==
  ASSUME NEW started \in BOOLEAN, NEW ans \in TriggerAnswers(started), NEW a, NEW r
  PROVE  /\ "return" \in DOMAIN Answered(ans, a, r, {}) => started /\ Ok({}, ans.status)
         /\ "again" \in DOMAIN Answered(ans, a, r, {}) => ~Ok({}, ans.status)
<1>1. Ok({}, ans.status) => started
  BY DEF TriggerAnswers, Answer, Ok, Lost
<1>2. ~Ok({}, ans.status) => "return" \notin DOMAIN Answered(ans, a, r, {})
  BY DEF Answered
<1>3. Ok({}, ans.status) => "again" \notin DOMAIN Answered(ans, a, r, {})
  BY DEF Answered
<1> QED BY <1>1, <1>2, <1>3

(* What a call of poll_until's leads to. *)
LEMMA PolledIs ==
  ASSUME NEW value, NEW i, NEW n, NEW p, p = Polled(value, i, n)
  PROVE  /\ "success" \in DOMAIN p /\ p.success => p.value = value /\ IsDone(value)
         /\ "success" \in DOMAIN p /\ ~p.success => ~IsDone(value)
         /\ "success" \in DOMAIN p => p.success \in BOOLEAN
<1>1. CASE IsDone(value)
  BY <1>1 DEF Polled
<1>2. CASE ~IsDone(value) /\ i < n
  BY <1>2 DEF Polled
<1>3. CASE ~IsDone(value) /\ ~(i < n)
  BY <1>3 DEF Polled
<1> QED BY <1>1, <1>2, <1>3

(* What a validation returns, or raises. *)
LEMMA Validated ==
  ASSUME NEW k, NEW p, NEW faults, NEW v, v = Validate(k, p, faults)
  PROVE  /\ "raise" \in DOMAIN v => ~Satisfies(k.schema, p)
         /\ p \in k.schema.raises => "raise" \in DOMAIN v
         /\ "raise" \notin DOMAIN v => k.mode = "warn" \/ p \in k.schema.accepts
         /\ ("raise" \in DOMAIN v /\ p \notin k.schema.raises) =>
               \/ k.capture # None /\ k.capture.template = "unknown"
               \/ /\ k.mode # "warn"
                  /\ Classify(v.raise).code = "payload_contract_violation"
<1> DEFINE unknown == k.capture # None /\ "mkdir" \notin faults /\ k.capture.template = "unknown"
<1>0. CASE p \in k.schema.raises
  BY <1>0 DEF Validate, Raised, Satisfies
<1>1. CASE p \notin k.schema.raises /\ p \in k.schema.accepts
  BY <1>1 DEF Validate, Satisfies
<1>2. CASE p \notin k.schema.raises /\ p \notin k.schema.accepts /\ unknown
  BY <1>2 DEF Validate, Raised, Satisfies
<1>3. CASE p \notin k.schema.raises /\ p \notin k.schema.accepts /\ ~unknown /\ k.mode = "warn"
  BY <1>3 DEF Validate, Satisfies
<1>4. CASE p \notin k.schema.raises /\ p \notin k.schema.accepts /\ ~unknown /\ k.mode # "warn"
  <2>1. v = Raised("PayloadContractViolation", {"schema"})
    BY <1>4 DEF Validate
  <2>2. v.raise.class = "PayloadContractViolation" /\ "raise" \in DOMAIN v
    BY <2>1 DEF Raised, Error
  <2>3. Classify(v.raise).code = "payload_contract_violation"
    BY <2>2 DEF Classify, KnownClasses, ClassInfo, Info
  <2> QED BY <1>4, <2>2, <2>3 DEF Satisfies
<1> QED BY <1>0, <1>1, <1>2, <1>3, <1>4

-------------------------------------------------------------------------------
(* A test that passed has looked at shapes that satisfy the schema only. *)
LEMMA PassedWell ==
  ASSUME NEW k, NEW samples, CheckSamples(k, samples, FALSE)
  PROVE  \A s \in {f.shape : f \in samples} : Satisfies(k.schema, s)
<1>1. \A f \in samples : Satisfies(k.schema, f.shape)
  BY DEF CheckSamples
<1> QED BY <1>1

LEMMA ReportFields ==
  ASSUME NEW status, NEW schema, NEW shapes, NEW r, r = Report(status, schema, shapes)
  PROVE  r.status = status /\ r.schema = schema /\ r.shapes = shapes
BY DEF Report

LEMMA TestedWell ==
  ASSUME NEW r, r = ContractTest(config, schemas, files, FALSE), r.status = "passed"
  PROVE  \A s \in r.shapes : Satisfies(r.schema, s)
<1>1. PICK k, samples :
        r = Report(IF CheckSamples(k, samples, FALSE) THEN "passed" ELSE "failed",
                   k.schema, {f.shape : f \in samples})
  BY DEF ContractTest, Report
<1>2. PICK shapes, status :
        /\ shapes = {f.shape : f \in samples}
        /\ status = IF CheckSamples(k, samples, FALSE) THEN "passed" ELSE "failed"
  OBVIOUS
<1>3. r = Report(status, k.schema, shapes)
  BY <1>1, <1>2
<1>4. r.status = status /\ r.schema = k.schema /\ r.shapes = shapes
  BY ONLY <1>3, ReportFields
<1>5. \A s \in shapes : Satisfies(k.schema, s)
  BY <1>2, <1>4, PassedWell
<1> QED BY <1>4, <1>5

(* Of the files, a test looks at samples only, where captures do not go to the *)
(* samples and no capture is listed.                                             *)
LEMMA VerdictOfSamples ==
  ASSUME PullInv
  PROVE  TestsStable
<1> SUFFICES ASSUME ~(config # None /\ config.capture # None /\ config.capture.dir = "samples"),
                    config # None, \A name \in config.samples : name[1] = "sample"
             PROVE  ContractTest(config, schemas, files, FALSE)
                      = ContractTest(config, schemas, {f \in files : f.name[1] = "sample"}, FALSE)
  BY DEF TestsStable, ContractTest
<1> DEFINE kept == {f \in files : f.name[1] = "sample"}
<1>1. \A f \in files : f.dir = "samples" => f.name[1] = "sample"
  BY DEF PullInv, SamplesOnly
<1>2. config.samples \subseteq {f.name : f \in files} <=> config.samples \subseteq {f.name : f \in kept}
  OBVIOUS
<1>3. Listed(config, files) = Listed(config, kept)
  <2>1. \A name \in config.samples : {g \in files : g.name = name} = {g \in kept : g.name = name}
    OBVIOUS
  <2> QED BY <2>1 DEF Listed
<1>4. ASSUME NEW place PROVE Discovered(files, place) = Discovered(kept, place)
  BY <1>1 DEF Discovered
<1> HIDE DEF kept
<1> DEFINE k == Build(config, schemas)
           place == SchemaPlace(schemas)
           Samples1(fs) == IF config.samples # {} THEN Listed(config, fs)
                           ELSE IF ~config.path THEN {} ELSE Discovered(fs, place)
           Of(ss) == IF {f.shape : f \in ss} \cap k.schema.raises # {} THEN Report("aborted", {}, {})
                     ELSE Report(IF CheckSamples(k, ss, FALSE) THEN "passed" ELSE "failed",
                                 k.schema, {f.shape : f \in ss})
           Rep(fs) == Of(Samples1(fs))
<1>5. Samples1(files) = Samples1(kept)
  BY <1>3, <1>4
<1>6. PICK ss : ss = Samples1(files) /\ ss = Samples1(kept)
  BY <1>5
<1>7. Rep(files) = Rep(kept)
  <2>1. Rep(files) = Of(ss) /\ Rep(kept) = Of(ss)
    BY <1>6
  <2> QED BY <2>1
<1>8. \A fs : ContractTest(config, schemas, fs, FALSE) =
         IF ~ValidConfig(config) THEN Report("failed", {}, {})
         ELSE IF k = None THEN Report("skipped", {}, {})
         ELSE IF "raise" \in DOMAIN k THEN Report("failed", {}, {})
         ELSE IF (config.path /\ place = "nowhere") \/ ~(config.samples \subseteq {f.name : f \in fs})
              THEN Report("aborted", {}, {})
         ELSE Rep(fs)
  BY DEF ContractTest
<1> HIDE DEF k, place, Rep
<1>9. ContractTest(config, schemas, files, FALSE) = ContractTest(config, schemas, kept, FALSE)
  BY <1>2, <1>7, <1>8
<1> QED BY <1>9 DEF kept

-------------------------------------------------------------------------------
LEMMA StartStep ==
  ASSUME PullInv, NEW a, Start(a)
  PROVE  PullInv'
<1>1. (config \in Configs)' /\ SamplesOnly' /\ Verdicts'
  BY DiskStays DEF PullInv, Start, disk, Verdicts
<1>2. stage = "idle" /\ payload = Nothing
  BY DEF Start, PullInv, PayloadPolled
<1>3. CASE \E error : End("refused", error)
  BY <1>1, <1>2, <1>3, Ending, EndingUnpaid DEF PullInv
<1>4. CASE stage' = "accepted" /\ UNCHANGED <<contract, job, ended>>
  <2>1. Counted' /\ PayloadPolled' /\ CapturesPlaced'
    BY <1>2, <1>4 DEF PullInv, Counted, PayloadPolled, CapturesPlaced, job, Start, disk
  <2> QED BY <1>1, <1>4, <2>1, EndStays DEF PullInv
<1> QED BY <1>3, <1>4 DEF Start

LEMMA BeginStep ==
  ASSUME PullInv, Begin
  PROVE  PullInv'
<1>1. (config \in Configs)' /\ SamplesOnly' /\ Verdicts' /\ UNCHANGED config
  BY DiskStays DEF PullInv, Begin, disk, Verdicts
<1>2. stage = "accepted" /\ payload = Nothing
  BY DEF Begin, PullInv, PayloadPolled
<1> DEFINE built == Build(Effective(manifest), schemas)
<1>3. CASE "raise" \in DOMAIN built
  <2>1. \E error : End("failed", error)
    BY <1>3 DEF Begin
  <2> QED BY <1>1, <1>2, <2>1, Ending, EndingUnpaid DEF PullInv
<1>4. CASE "raise" \notin DOMAIN built
  <2>1. /\ stage' = "trigger" /\ contract' = built
        /\ UNCHANGED <<poll, jobs, unheard, ready, seen, payload, ended>>
    BY <1>4 DEF Begin
  <2>2. Counted' /\ PayloadPolled'
    BY <1>2, <2>1 DEF PullInv, Counted, PayloadPolled
  <2>3. CapturesPlaced'
    <3>1. PICK b : b = built
      OBVIOUS
    <3>2. (b # None /\ b.capture # None) =>
            /\ config # None /\ config.capture # None
            /\ b.capture.at.dir \in {config.capture.dir, "captured"}
      BY <1>4, <3>1, BuiltFrom DEF PullInv
    <3> HIDE DEF built
    <3> QED BY <1>1, <2>1, <3>1, <3>2 DEF CapturesPlaced
  <2> QED BY <1>1, <2>1, <2>2, <2>3, EndStays DEF PullInv
<1> QED BY <1>3, <1>4

LEMMA TriggerStep ==
  ASSUME PullInv, NEW started \in BOOLEAN, NEW ans, Trigger(started, ans)
  PROVE  PullInv'
<1>1. (config \in Configs)' /\ SamplesOnly' /\ Verdicts' /\ UNCHANGED config
  BY DiskStays DEF PullInv, Trigger, disk, Verdicts
<1>2. /\ stage = "trigger" /\ payload = Nothing /\ seen = "none"
      /\ jobs \in Nat /\ unheard \in Nat /\ jobs = unheard
  BY DEF Trigger, PullInv, PayloadPolled, Counted
<1> DEFINE next == Answered(ans, attempt, Retries, {})
           more == IF started THEN 1 ELSE 0
           lost == IF started /\ ~Ok({}, ans.status) THEN 1 ELSE 0
<1>3. /\ "return" \in DOMAIN next => started /\ Ok({}, ans.status)
      /\ "again" \in DOMAIN next => ~Ok({}, ans.status)
  BY Triggered DEF Trigger
<1>4. CASE /\ "again" \in DOMAIN next
           /\ jobs' = jobs + more /\ unheard' = unheard + lost
           /\ UNCHANGED <<stage, contract, seen, payload, ended>>
  <2>1. more = lost /\ more \in Nat
    BY <1>3, <1>4
  <2>2. Counted'
    BY <1>2, <1>4, <2>1 DEF Counted
  <2>3. PayloadPolled' /\ CapturesPlaced'
    BY <1>1, <1>4 DEF PullInv, PayloadPolled, CapturesPlaced
  <2> QED BY <1>1, <1>4, <2>2, <2>3, EndStays DEF PullInv
<1>5. CASE /\ "return" \in DOMAIN next /\ stage' \in {"poll", "check"}
           /\ jobs' = jobs + more /\ unheard' = unheard + lost
           /\ UNCHANGED <<contract, seen, payload, ended>>
  <2>1. more = 1 /\ lost = 0
    BY <1>3, <1>5
  <2>2. Counted'
    BY <1>2, <1>5, <2>1 DEF Counted
  <2>3. PayloadPolled' /\ CapturesPlaced'
    BY <1>1, <1>2, <1>5 DEF PullInv, PayloadPolled, CapturesPlaced
  <2> QED BY <1>1, <1>5, <2>2, <2>3, EndStays DEF PullInv
<1>6. CASE \E error : End("failed", error)
  BY <1>1, <1>2, <1>6, Ending, EndingUnpaid DEF PullInv
<1> QED BY <1>4, <1>5, <1>6 DEF Trigger

LEMMA JobDoneStep ==
  ASSUME PullInv, NEW p, JobDone(p)
  PROVE  PullInv'
<1>1. (config \in Configs)' /\ SamplesOnly' /\ Verdicts' /\ UNCHANGED config
  BY DiskStays DEF PullInv, JobDone, disk, Verdicts
<1>2. Counted' /\ PayloadPolled' /\ CapturesPlaced'
  BY <1>1 DEF PullInv, JobDone, Counted, PayloadPolled, CapturesPlaced
<1> QED BY <1>1, <1>2, EndStays DEF PullInv, JobDone

LEMMA PollStep ==
  ASSUME PullInv, NEW ans, Poll(ans)
  PROVE  PullInv'
<1>1. (config \in Configs)' /\ SamplesOnly' /\ Verdicts' /\ UNCHANGED config
  BY DiskStays DEF PullInv, Poll, disk, Verdicts
<1>2. /\ stage = "poll" /\ payload = Nothing
      /\ jobs \in Nat /\ unheard \in Nat /\ jobs = unheard + 1
  BY DEF Poll, PullInv, PayloadPolled, Counted
<1> DEFINE next == Answered(ans, attempt, Retries, {200})
           value == IF "return" \in DOMAIN next THEN next.return ELSE Nothing
           polled == Polled(value, poll, PollAttempts)
           saw == IF "raise" \in DOMAIN next THEN "failed"
                  ELSE IF IsDone(value) THEN "report" ELSE "pending"
<1>3. CASE UNCHANGED <<stage, contract, jobs, unheard, seen, payload, ended>>
  <2>1. Counted' /\ PayloadPolled' /\ CapturesPlaced'
    BY <1>1, <1>3 DEF PullInv, Counted, PayloadPolled, CapturesPlaced
  <2> QED BY <1>1, <1>3, <2>1, EndStays DEF PullInv
<1>4. CASE UNCHANGED <<stage, contract, jobs, unheard, payload, ended>>
  <2>1. Counted' /\ PayloadPolled' /\ CapturesPlaced'
    BY <1>1, <1>2, <1>4 DEF PullInv, Counted, PayloadPolled, CapturesPlaced
  <2> QED BY <1>1, <1>4, <2>1, EndStays DEF PullInv
<1>5. CASE /\ "success" \in DOMAIN polled
           /\ stage' = "check" /\ seen' = saw
           /\ payload' = IF polled.success THEN polled.value ELSE Nothing
           /\ UNCHANGED <<contract, jobs, unheard, ended>>
  <2>1. payload' = Nothing => ~IsDone(value)
    <3>1. polled.success => polled.value # Nothing
      BY <1>5, PolledIs DEF IsDone
    <3>2. ~polled.success => ~IsDone(value)
      BY <1>5, PolledIs
    <3> HIDE DEF polled, value
    <3> QED BY <1>5, <3>1, <3>2
  <2>2. ~IsDone(value) => saw # "report"
    OBVIOUS
  <2>3. Counted' /\ PayloadPolled' /\ CapturesPlaced'
    <3> HIDE DEF polled, value, saw
    <3> QED BY <1>1, <1>2, <1>5, <2>1, <2>2 DEF PullInv, Counted, PayloadPolled, CapturesPlaced
  <2> QED BY <1>1, <1>5, <2>3, EndStays DEF PullInv
<1> QED BY <1>3, <1>4, <1>5 DEF Poll

(* A payload that its contract refuses leaves captures where the contract says. *)
LEMMA CaptureStep ==
  ASSUME PullInv, contract # None, NEW faults, UNCHANGED config,
         files' = Captured(contract, payload, faults, runs, files)
  PROVE  SamplesOnly'
<1>1. CASE config # None /\ config.capture # None /\ config.capture.dir = "samples"
  BY <1>1 DEF SamplesOnly
<1>2. CASE ~(config # None /\ config.capture # None /\ config.capture.dir = "samples")
  <2> SUFFICES ASSUME NEW f \in files', f.dir = "samples" PROVE f.name[1] = "sample"
    BY DEF SamplesOnly
  <2>1. CASE f \in files
    BY <1>2, <2>1 DEF PullInv, SamplesOnly
  <2>2. CASE f \notin files
    <3>1. contract.capture # None /\ f \in CaptureFiles(contract, payload, faults, runs)
      BY <2>2 DEF Captured, Kept, Captures
    <3>2. f.dir = contract.capture.at.dir
      BY <3>1 DEF CaptureFiles
    <3> QED BY <1>2, <3>1, <3>2 DEF PullInv, CapturesPlaced
  <2> QED BY <2>1, <2>2
<1> QED BY <1>1, <1>2

LEMMA CheckStep ==
  ASSUME PullInv, NEW faults, Check(faults)
  PROVE  PullInv'
<1>1. (config \in Configs)' /\ Verdicts' /\ UNCHANGED config
  BY DEF PullInv, Check, Verdicts
<1>2. stage = "check" /\ (payload = Nothing => seen # "report")
  BY DEF Check, PullInv, PayloadPolled
<1>3. ASSUME payload = Nothing, NEW error, End("empty", error), UNCHANGED files PROVE PullInv'
  <2>1. ended'.how = "empty" /\ ended'.payload = Nothing /\ ended'.seen # "report"
    BY <1>2, <1>3, Ending
  <2>2. Refusals' /\ ReportSeen' /\ ModeDecides'
    BY <2>1 DEF Refusals, ReportSeen, ModeDecides
  <2> QED BY <1>1, <1>3, <2>2, Ending, DiskStays DEF PullInv
<1>4. ASSUME contract = None, NEW error, End("loaded", error), UNCHANGED files PROVE PullInv'
  <2>1. ended'.how = "loaded" /\ ended'.contract = None
    BY <1>4, Ending
  <2>2. Refusals' /\ ReportSeen' /\ ModeDecides'
    BY <2>1 DEF Refusals, ReportSeen, ModeDecides
  <2> QED BY <1>1, <1>4, <2>2, Ending, DiskStays DEF PullInv
<1>5. ASSUME payload # Nothing, contract # None,
             NEW v, v = Validate(contract, payload, faults),
             IF "raise" \in DOMAIN v THEN End("failed", v.raise)
             ELSE End("loaded", Error("none", Lost, {})),
             files' = Captured(contract, payload, faults, runs, files)
      PROVE  PullInv'
  <2>1. SamplesOnly'
    BY <1>1, <1>5, CaptureStep
  <2>2. CASE "raise" \in DOMAIN v
    <3>1. End("failed", v.raise)
      BY <1>5, <2>2
    <3>2. /\ ended'.how = "failed" /\ ended'.error = v.raise
          /\ ended'.contract = contract /\ ended'.payload = payload
      BY <3>1, Ending
    <3>3. /\ ~Satisfies(contract.schema, payload)
          /\ payload \notin contract.schema.raises =>
               \/ Unknown(contract)
               \/ contract.mode # "warn" /\ Classify(v.raise).code = "payload_contract_violation"
      BY <1>5, <2>2, Validated DEF Unknown
    <3>4. Refusals' /\ ReportSeen' /\ ModeDecides'
      BY <3>2, <3>3 DEF Refusals, ReportSeen, ModeDecides, Satisfies
    <3> QED BY <1>1, <2>1, <3>1, <3>4, Ending DEF PullInv
  <2>3. CASE "raise" \notin DOMAIN v
    <3>1. PICK error : End("loaded", error)
      BY <1>5, <2>3
    <3>2. ended'.how = "loaded" /\ ended'.contract = contract /\ ended'.payload = payload
      BY <3>1, Ending
    <3>3. /\ contract.mode = "warn" \/ payload \in contract.schema.accepts
          /\ payload \notin contract.schema.raises
      BY <1>5, <2>3, Validated
    <3>4. Refusals' /\ ReportSeen' /\ ModeDecides'
      BY <3>2, <3>3 DEF Refusals, ReportSeen, ModeDecides
    <3> QED BY <1>1, <2>1, <3>1, <3>4, Ending DEF PullInv
  <2> QED BY <2>2, <2>3
<1>6. CASE ~IsDone(payload)
  BY <1>3, <1>6 DEF Check, IsDone
<1>7. CASE IsDone(payload) /\ contract = None
  BY <1>4, <1>7 DEF Check, IsDone
<1>8. CASE IsDone(payload) /\ contract # None
  BY <1>5, <1>8 DEF Check, IsDone
<1> QED BY <1>6, <1>7, <1>8

LEMMA TestStep ==
  ASSUME PullInv, TestContract
  PROVE  PullInv'
<1>1. (config \in Configs)' /\ SamplesOnly'
  BY DiskStays DEF PullInv, TestContract, disk
<1>2. Counted' /\ PayloadPolled' /\ CapturesPlaced'
  BY DEF PullInv, TestContract, Counted, PayloadPolled, CapturesPlaced, disk, job
<1>3. Verdicts'
  BY TestedWell DEF TestContract, Verdicts
<1> QED BY <1>1, <1>2, <1>3, EndStays DEF PullInv, TestContract

LEMMA Inductive == PullInv /\ [Next]_vars => PullInv'
<1> SUFFICES ASSUME PullInv, [Next]_vars PROVE PullInv'
  OBVIOUS
<1>1. CASE \E s \in Schemas \cup {Broken} : EditSchema(s)
  <2>1. UNCHANGED <<config, files, stage, contract, job, ended, report>>
    BY <1>1 DEF EditSchema
  <2>2. (config \in Configs)' /\ SamplesOnly'
    BY <2>1, DiskStays
  <2>3. Counted' /\ PayloadPolled' /\ CapturesPlaced' /\ Verdicts'
    BY <2>1 DEF PullInv, Counted, PayloadPolled, CapturesPlaced, Verdicts, job
  <2> QED BY <2>1, <2>2, <2>3, EndStays DEF PullInv
<1>2. CASE UNCHANGED vars
  <2>1. UNCHANGED <<config, files, stage, contract, jobs, unheard, seen, payload, ended, report>>
    BY <1>2 DEF vars
  <2>2. (config \in Configs)' /\ SamplesOnly'
    BY <2>1, DiskStays
  <2>3. Counted' /\ PayloadPolled' /\ CapturesPlaced' /\ Verdicts'
    BY <2>1 DEF PullInv, Counted, PayloadPolled, CapturesPlaced, Verdicts
  <2> QED BY <2>1, <2>2, <2>3, EndStays DEF PullInv
<1> QED
  BY <1>1, <1>2, StartStep, BeginStep, TriggerStep, JobDoneStep, PollStep, CheckStep, TestStep
  DEF Next

LEMMA Invariant == Spec => []PullInv
BY InitInv, Inductive, PTL DEF Spec

-------------------------------------------------------------------------------
(* A run that the server did more than one job for had an answer that did not  *)
(* reach it, once for each of the others (requests_client.py request_json).     *)
THEOREM JobsAreExplained == Spec => []JobsExplained
<1>1. PullInv => JobsExplained
  BY DEF PullInv, Counted, JobsExplained
<1> QED BY <1>1, Invariant, PTL

(* A run without data did not have the report in its last answer               *)
(* (polling.py poll_until).                                                     *)
THEOREM ReportIsSeen == Spec => []ReportSeen
<1>1. PullInv => ReportSeen
  BY DEF PullInv
<1> QED BY <1>1, Invariant, PTL

(* What becomes of a payload is its contract's mode and schema, whatever files  *)
(* cannot be written on the way; in every mode a run ends where the validator   *)
(* itself raises, and nothing is said of a payload that breaks the schema where *)
(* the capture's template has an unknown placeholder (PayloadContract.validate).*)
THEOREM ModeAlone == Spec => []ModeDecides
<1>1. PullInv => ModeDecides
  BY DEF PullInv
<1> QED BY <1>1, Invariant, PTL

(* No run fails with a payload that a passed test of this very schema has       *)
(* looked at, however runs, tests and edits of the schema follow each other     *)
(* (check_contract_samples against PayloadContract.validate).                    *)
THEOREM TestedIsAccepted == Spec => []TestedHolds
<1>1. PullInv => TestedHolds
  BY DEF PullInv, Refusals, Verdicts, TestedHolds
<1> QED BY <1>1, Invariant, PTL

(* No number of runs changes what a test of the contract finds, unless the      *)
(* manifest sends captures to the samples or lists one                           *)
(* (discover_samples_for_schema).                                                *)
THEOREM TestsAreStable == Spec => []TestsStable
<1>1. PullInv => TestsStable
  BY VerdictOfSamples DEF PullInv
<1> QED BY <1>1, Invariant, PTL

-------------------------------------------------------------------------------
(* The overrides go over sequences of any length: an induction over the length *)
(* by the least length at which something fails.                               *)
LEMMA Least ==
  ASSUME NEW T \in SUBSET Nat, T # {}
  PROVE  \E x \in T : \A y \in T : x <= y
<1> DEFINE R == OpToRel(<, Nat)
<1>1. IsWellFoundedOn(R, Nat)
  BY NatLessThanWellFounded
<1>2. \A x, y \in Nat : y < x => <<y, x>> \in R
  BY DEF OpToRel
<1> HIDE DEF R
<1>3. \E x \in T : \A y \in T : ~ (<<y, x>> \in R)
  BY <1>1, WFMin, Zenon
<1>4. \A x, y \in Nat : ~(y < x) => x <= y
  OBVIOUS
<1> QED BY <1>2, <1>3, <1>4

(* The functions that follow a sequence step by step exist.                 *)
LEMMA Following ==
  ASSUME NEW tree, NEW specs, Len(specs) \in Nat
  PROVE  \E f : f = [i \in 0..Len(specs) |-> IF i = 0 THEN tree ELSE ApplyOverride(f[i - 1], specs[i])]
<1> DEFINE Follows(f, m) == f = [i \in 0..m |-> IF i = 0 THEN tree ELSE ApplyOverride(f[i - 1], specs[i])]
           T == {m \in Nat : ~ \E f : Follows(f, m)}
<1>1. ASSUME T # {} PROVE FALSE
  <2>1. PICK m \in T : \A k \in T : m <= k
    BY <1>1, Least
  <2>2. CASE m = 0
    <3>1. Follows([i \in 0..0 |-> tree], 0)
      OBVIOUS
    <3> QED BY <2>2, <3>1
  <2>3. CASE m # 0
    <3>1. m - 1 \in Nat /\ m - 1 \notin T
      <4>1. m \in Nat
        OBVIOUS
      <4> HIDE DEF T
      <4> QED BY <2>1, <2>3, <4>1
    <3>2. PICK g : Follows(g, m - 1)
      BY <3>1
    <3> DEFINE h == [i \in 0..m |-> IF i = m THEN ApplyOverride(g[m - 1], specs[m]) ELSE g[i]]
    <3>3. \A i \in 0..(m - 1) : g[i] = IF i = 0 THEN tree ELSE ApplyOverride(g[i - 1], specs[i])
      BY <3>2
    <3>4. ASSUME NEW i \in 0..m
          PROVE  h[i] = IF i = 0 THEN tree ELSE ApplyOverride(h[i - 1], specs[i])
      <4>1. CASE i = m
        <5>1. i # 0 /\ i - 1 \in 0..m /\ i - 1 # m
          BY <2>3, <4>1
        <5> QED BY <4>1, <5>1
      <4>2. CASE i # m /\ i # 0
        <5>1. i \in 0..(m - 1) /\ i - 1 \in 0..m /\ i - 1 # m
          BY <4>2
        <5> QED BY <3>3, <4>2, <5>1
      <4>3. CASE i # m /\ i = 0
        <5>1. i \in 0..(m - 1)
          BY <4>3
        <5> QED BY <3>3, <4>3, <5>1
      <4> QED BY <4>1, <4>2, <4>3
    <3>5. Follows(h, m)
      <4>1. h = [i \in 0..m |-> h[i]]
        OBVIOUS
      <4> HIDE DEF h
      <4> QED BY <3>4, <4>1
    <3> QED BY <2>1, <3>5
  <2> QED BY <2>2, <2>3
<1> QED BY <1>1

LEMMA AppliedBySteps ==
  ASSUME NEW tree, NEW specs, Len(specs) \in Nat
  PROVE  \E f : /\ f[0] = tree /\ ApplyOverrides(tree, specs) = f[Len(specs)]
                /\ \A i \in 1..Len(specs) : f[i] = ApplyOverride(f[i - 1], specs[i])
<1> DEFINE f == CHOOSE g : g = [i \in 0..Len(specs) |-> IF i = 0 THEN tree ELSE ApplyOverride(g[i - 1], specs[i])]
<1>1. f = [i \in 0..Len(specs) |-> IF i = 0 THEN tree ELSE ApplyOverride(f[i - 1], specs[i])]
  BY Following
<1>2. ApplyOverrides(tree, specs) = f[Len(specs)]
  BY DEF ApplyOverrides
<1> HIDE DEF f
<1>3. f[0] = tree /\ \A i \in 1..Len(specs) : f[i] = ApplyOverride(f[i - 1], specs[i])
  BY <1>1
<1> QED BY <1>2, <1>3

LEMMA Collecting ==
  ASSUME NEW specs, Len(specs) \in Nat
  PROVE  \E f : f = [i \in 0..Len(specs) |-> IF i = 0 THEN << >> ELSE Given(f[i - 1], specs[i])]
<1> DEFINE Follows(f, m) == f = [i \in 0..m |-> IF i = 0 THEN << >> ELSE Given(f[i - 1], specs[i])]
           T == {m \in Nat : ~ \E f : Follows(f, m)}
<1>1. ASSUME T # {} PROVE FALSE
  <2>1. PICK m \in T : \A k \in T : m <= k
    BY <1>1, Least
  <2>2. CASE m = 0
    <3>1. Follows([i \in 0..0 |-> << >>], 0)
      OBVIOUS
    <3> QED BY <2>2, <3>1
  <2>3. CASE m # 0
    <3>1. m - 1 \in Nat /\ m - 1 \notin T
      <4>1. m \in Nat
        OBVIOUS
      <4> HIDE DEF T
      <4> QED BY <2>1, <2>3, <4>1
    <3>2. PICK g : Follows(g, m - 1)
      BY <3>1
    <3> DEFINE h == [i \in 0..m |-> IF i = m THEN Given(g[m - 1], specs[m]) ELSE g[i]]
    <3>3. \A i \in 0..(m - 1) : g[i] = IF i = 0 THEN << >> ELSE Given(g[i - 1], specs[i])
      BY <3>2
    <3>4. ASSUME NEW i \in 0..m
          PROVE  h[i] = IF i = 0 THEN << >> ELSE Given(h[i - 1], specs[i])
      <4>1. CASE i = m
        <5>1. i # 0 /\ i - 1 \in 0..m /\ i - 1 # m
          BY <2>3, <4>1
        <5> QED BY <4>1, <5>1
      <4>2. CASE i # m /\ i # 0
        <5>1. i \in 0..(m - 1) /\ i - 1 \in 0..m /\ i - 1 # m
          BY <4>2
        <5> QED BY <3>3, <4>2, <5>1
      <4>3. CASE i # m /\ i = 0
        <5>1. i \in 0..(m - 1)
          BY <4>3
        <5> QED BY <3>3, <4>3, <5>1
      <4> QED BY <4>1, <4>2, <4>3
    <3>5. Follows(h, m)
      <4>1. h = [i \in 0..m |-> h[i]]
        OBVIOUS
      <4> HIDE DEF h
      <4> QED BY <3>4, <4>1
    <3> QED BY <2>1, <3>5
  <2> QED BY <2>2, <2>3
<1> QED BY <1>1

LEMMA CollectedBySteps ==
  ASSUME NEW specs, Len(specs) \in Nat
  PROVE  \E f : /\ f[0] = << >> /\ SpecsToMapping(specs) = f[Len(specs)]
                /\ \A i \in 1..Len(specs) : f[i] = Given(f[i - 1], specs[i])
<1> DEFINE f == CHOOSE g : g = [i \in 0..Len(specs) |-> IF i = 0 THEN << >> ELSE Given(g[i - 1], specs[i])]
<1>1. f = [i \in 0..Len(specs) |-> IF i = 0 THEN << >> ELSE Given(f[i - 1], specs[i])]
  BY Collecting
<1>2. SpecsToMapping(specs) = f[Len(specs)]
  BY DEF SpecsToMapping
<1> HIDE DEF f
<1>3. f[0] = << >> /\ \A i \in 1..Len(specs) : f[i] = Given(f[i - 1], specs[i])
  BY <1>1
<1> QED BY <1>2, <1>3


(* The tokens of the flags' keys.                                           *)
LEMMA Names == ASSUME NEW a, NEW b PROVE Name(a) # Dot /\ Name(a) # Malformed /\ IsName(Name(a)) /\ (Name(a) = Name(b) => a = b)
BY DEF Name, Dot, Malformed, IsName

LEMMA Appended ==
  ASSUME NEW x, NEW y, NEW z
  PROVE  Append(<< >>, x) = <<x>> /\ Append(<<x>>, y) = <<x, y>> /\ Append(<<x, y>>, z) = <<x, y, z>>
<1> DEFINE S == {x, y, z}
<1>1. /\ << >> \in Seq(S) /\ <<x>> \in Seq(S) /\ <<x, y>> \in Seq(S) /\ <<x, y, z>> \in Seq(S)
      /\ Len(<< >>) = 0 /\ Len(<<x>>) = 1 /\ Len(<<x, y>>) = 2 /\ Len(<<x, y, z>>) = 3
      /\ x \in S /\ y \in S /\ z \in S
  OBVIOUS
<1> HIDE DEF S
<1>2. ASSUME NEW s \in Seq(S), NEW e \in S, NEW t \in Seq(S), Len(t) = Len(s) + 1, t[Len(s) + 1] = e,
             \A i \in 1..Len(s) : t[i] = s[i]
      PROVE  Append(s, e) = t
  <2>1. Len(s) \in Nat
    OBVIOUS
  <2>2. /\ Append(s, e) \in Seq(S) /\ Len(Append(s, e)) = Len(s) + 1
        /\ \A i \in 1..Len(s) : Append(s, e)[i] = s[i]
        /\ Append(s, e)[Len(s) + 1] = e
    BY AppendProperties
  <2>3. \A i \in 1..Len(t) : Append(s, e)[i] = t[i]
    BY <1>2, <2>1, <2>2
  <2> QED BY <1>2, <2>2, <2>3, SeqEqual
<1>3. Append(<< >>, x) = <<x>>
  OBVIOUS
<1>4. Append(<<x>>, y) = <<x, y>>
  <2> DEFINE s == <<x>>
             t == <<x, y>>
  <2>1. Len(t) = Len(s) + 1 /\ t[2] = y /\ t[1] = s[1] /\ Len(s) = 1 /\ 1..1 = {1}
    OBVIOUS
  <2>2. s \in Seq(S) /\ t \in Seq(S) /\ y \in S
    BY <1>1
  <2> HIDE DEF s, t
  <2>3. \A i \in 1..Len(s) : t[i] = s[i]
    BY <2>1
  <2>4. t[Len(s) + 1] = y
    BY <2>1
  <2>5. Append(s, y) = t
    BY <1>2, <2>1, <2>2, <2>3, <2>4
  <2> QED BY <2>5 DEF s, t
<1>5. Append(<<x, y>>, z) = <<x, y, z>>
  <2> DEFINE s == <<x, y>>
             t == <<x, y, z>>
  <2>1. Len(t) = Len(s) + 1 /\ t[3] = z /\ t[1] = s[1] /\ t[2] = s[2] /\ Len(s) = 2 /\ 1..2 = {1, 2}
    OBVIOUS
  <2>2. s \in Seq(S) /\ t \in Seq(S) /\ z \in S
    BY <1>1
  <2> HIDE DEF s, t
  <2>3. \A i \in 1..Len(s) : t[i] = s[i]
    BY <2>1
  <2>4. t[Len(s) + 1] = z
    BY <2>1
  <2>5. Append(s, z) = t
    BY <1>2, <2>1, <2>2, <2>3, <2>4
  <2> QED BY <2>5 DEF s, t
<1> QED BY <1>3, <1>4, <1>5

LEMMA FlagPaths ==
  ASSUME NEW a, NEW b, NEW c
  PROVE  ParsePath(<<Name(a), Dot, Name(b), Dot, Name(c)>>) = <<Name(a), Name(b), Name(c)>>
<1> DEFINE path == <<Name(a), Dot, Name(b), Dot, Name(c)>>
           Steps(f) == f = [i \in 0..5 |-> IF i = 0 THEN << >>
                                           ELSE IF path[i] = Dot THEN f[i - 1] ELSE Append(f[i - 1], path[i])]
           g == [i \in 0..5 |-> IF i = 0 THEN << >> ELSE IF i \in {1, 2} THEN <<Name(a)>>
                                ELSE IF i \in {3, 4} THEN <<Name(a), Name(b)>> ELSE <<Name(a), Name(b), Name(c)>>]
           f == CHOOSE f : Steps(f)
<1>1. /\ path[1] = Name(a) /\ path[2] = Dot /\ path[3] = Name(b) /\ path[4] = Dot /\ path[5] = Name(c)
      /\ Len(path) = 5 /\ DOMAIN path = 1..5
  OBVIOUS
<1>2. Malformed \notin Range(path)
  <2>1. Dot # Malformed
    BY DEF Dot, Malformed
  <2>2. \A i \in 1..5 : path[i] \in {Name(a), Name(b), Name(c), Dot}
    BY <1>1
  <2> HIDE DEF path
  <2> QED BY <1>1, <2>1, <2>2, Names DEF Range
<1> HIDE DEF path
<1>3. /\ Append(<< >>, Name(a)) = <<Name(a)>>
      /\ Append(<<Name(a)>>, Name(b)) = <<Name(a), Name(b)>>
      /\ Append(<<Name(a), Name(b)>>, Name(c)) = <<Name(a), Name(b), Name(c)>>
  BY Appended
<1>4. Steps(g)
  <2>1. ASSUME NEW i \in 0..5
        PROVE  g[i] = IF i = 0 THEN << >> ELSE IF path[i] = Dot THEN g[i - 1] ELSE Append(g[i - 1], path[i])
    <3>1. i \in {0, 1, 2, 3, 4, 5}
      OBVIOUS
    <3>2. /\ g[0] = << >> /\ g[1] = <<Name(a)>> /\ g[2] = <<Name(a)>> /\ g[3] = <<Name(a), Name(b)>>
          /\ g[4] = <<Name(a), Name(b)>> /\ g[5] = <<Name(a), Name(b), Name(c)>>
      OBVIOUS
    <3>3. 1 - 1 = 0 /\ 2 - 1 = 1 /\ 3 - 1 = 2 /\ 4 - 1 = 3 /\ 5 - 1 = 4
      OBVIOUS
    <3> HIDE DEF g
    <3> QED BY <1>1, <1>3, <3>1, <3>2, <3>3, Names
  <2>2. g = [i \in 0..5 |-> g[i]]
    OBVIOUS
  <2> HIDE DEF g
  <2> QED BY <2>1, <2>2
<1>5. Steps(f)
  BY <1>4
<1>6. ParsePath(path) = f[5]
  BY <1>1, <1>2 DEF ParsePath
<1> HIDE DEF f
<1>7. f = [i \in 0..5 |-> IF i = 0 THEN << >> ELSE IF path[i] = Dot THEN f[i - 1] ELSE Append(f[i - 1], path[i])]
  BY <1>5
<1> HIDE DEF Steps, g
<1>8. /\ f[0] = << >>
      /\ \A i \in 1..5 : path[i] = Dot => f[i] = f[i - 1]
      /\ \A i \in 1..5 : path[i] # Dot => f[i] = Append(f[i - 1], path[i])
  <2>1. \A i \in 0..5 : f[i] = IF i = 0 THEN << >> ELSE IF path[i] = Dot THEN f[i - 1] ELSE Append(f[i - 1], path[i])
    BY <1>7
  <2>2. \A i \in 1..5 : i \in 0..5 /\ i # 0
    OBVIOUS
  <2>3. 0 \in 0..5
    OBVIOUS
  <2> QED BY <2>1, <2>2, <2>3
<1>9. Name(a) # Dot /\ Name(b) # Dot /\ Name(c) # Dot
  BY Names
<1>10. /\ f[1] = Append(f[0], Name(a)) /\ f[2] = f[1] /\ f[3] = Append(f[2], Name(b)) /\ f[4] = f[3]
       /\ f[5] = Append(f[4], Name(c))
  <2>1. 1 - 1 = 0 /\ 2 - 1 = 1 /\ 3 - 1 = 2 /\ 4 - 1 = 3 /\ 5 - 1 = 4 /\ {1, 2, 3, 4, 5} \subseteq 1..5
    OBVIOUS
  <2> QED BY <1>1, <1>8, <1>9, <2>1
<1>11. f[5] = <<Name(a), Name(b), Name(c)>>
  BY <1>3, <1>8, <1>10
<1> QED BY <1>6, <1>11 DEF path

(* One name put into a map, or looked up to go on.                          *)
Put(cur, k, t) == Map([j \in DOMAIN cur.map \cup {k} |-> IF j = k THEN t ELSE cur.map[j]])
Sub(cur, k) == LET old == IF k \in DOMAIN cur.map THEN cur.map[k] ELSE Null
               IN  IF old = Null THEN Map([j \in {} |-> Null]) ELSE old

LEMMA Puts == ASSUME NEW cur, NEW k, NEW t
  PROVE /\ IsMap(Put(cur, k, t)) /\ Child(Put(cur, k, t), k) = t /\ (IsMap(t) => Sub(Put(cur, k, t), k) = t)
        /\ \A j : j # k => Child(Put(cur, k, t), j) = IF j \in DOMAIN cur.map THEN cur.map[j] ELSE Null
<1> DEFINE f == [j \in DOMAIN cur.map \cup {k} |-> IF j = k THEN t ELSE cur.map[j]]
<1>1. Put(cur, k, t) = [map |-> f]
  BY DEF Put, Map
<1>2. k \in DOMAIN f /\ f[k] = t
  OBVIOUS
<1>3. \A j : j # k => (j \in DOMAIN f <=> j \in DOMAIN cur.map) /\ (j \in DOMAIN f => f[j] = cur.map[j])
  OBVIOUS
<1> HIDE DEF f
<1>4. IsMap(Put(cur, k, t)) /\ Put(cur, k, t).map = f
  BY <1>1 DEF IsMap
<1>5. IsMap(t) => t # Null
  BY DEF IsMap, Null
<1> QED BY <1>2, <1>3, <1>4, <1>5 DEF Child, Sub

LEMMA AppliedThree ==
  ASSUME NEW root, NEW a, NEW b, NEW c, NEW value, Apply(root, <<Name(a), Name(b), Name(c)>>, value) # Refused
  PROVE  /\ IsMap(root) /\ IsMap(Sub(root, a)) /\ IsMap(Sub(Sub(root, a), b))
         /\ Apply(root, <<Name(a), Name(b), Name(c)>>, value) =
              Put(root, a, Put(Sub(root, a), b, Put(Sub(Sub(root, a), b), c, value)))
<1> DEFINE tokens == <<Name(a), Name(b), Name(c)>>
           n == Len(tokens)
           Downs(g) == g = [i \in 1..n |->
             IF i = 1 THEN root
             ELSE IF ~Fits(g[i - 1], tokens[i - 1]) THEN Refused
             ELSE LET old == Under(g[i - 1], tokens[i - 1]) IN IF old = Null THEN Wanted(tokens[i]) ELSE old]
           Ups(h, g) == h = [i \in 1..n |->
             IF i = n THEN Into(g[i], tokens[i], value, Null)
             ELSE Into(g[i], tokens[i], h[i + 1], Wanted(tokens[i + 1]))]
           down == CHOOSE g : Downs(g)
           up == CHOOSE h : Ups(h, down)
<1>1. /\ tokens[1] = Name(a) /\ tokens[2] = Name(b) /\ tokens[3] = Name(c) /\ n = 3
      /\ 1..3 = {1, 2, 3} /\ 1..n = {1, 2, 3} /\ 2 - 1 = 1 /\ 3 - 1 = 2 /\ 1 + 1 = 2 /\ 2 + 1 = 3
  OBVIOUS
<1>2. Apply(root, tokens, value) = IF \A i \in 1..n : Fits(down[i], tokens[i]) THEN up[1] ELSE Refused
  BY DEF Apply
<1> HIDE DEF n
<1> HIDE DEF tokens
<1> DEFINE Onward(cur, tok, next) == IF ~Fits(cur, tok) THEN Refused
                                   ELSE LET old == Under(cur, tok) IN IF old = Null THEN Wanted(next) ELSE old
<1>3. Downs(down)
  <2> DEFINE g == [i \in 1..n |-> IF i = 1 THEN root ELSE IF i = 2 THEN Onward(root, tokens[1], tokens[2])
                                  ELSE Onward(Onward(root, tokens[1], tokens[2]), tokens[2], tokens[3])]
             step(i) == IF i = 1 THEN root
                        ELSE IF ~Fits(g[i - 1], tokens[i - 1]) THEN Refused
                        ELSE LET old == Under(g[i - 1], tokens[i - 1]) IN IF old = Null THEN Wanted(tokens[i]) ELSE old
  <2>1. /\ g[1] = root /\ g[2] = Onward(root, tokens[1], tokens[2])
        /\ g[3] = Onward(Onward(root, tokens[1], tokens[2]), tokens[2], tokens[3])
    BY <1>1
  <2>2. g = [i \in 1..n |-> g[i]]
    OBVIOUS
  <2> HIDE DEF g
  <2>3. g[1] = step(1) /\ g[2] = step(2) /\ g[3] = step(3)
    BY <1>1, <2>1
  <2>4. \A i \in 1..n : g[i] = step(i)
    BY <1>1, <2>3
  <2>5. Downs(g)
    BY <2>2, <2>4
  <2> QED BY <2>5
<1>4. Ups(up, down)
  <2> DEFINE third == Into(down[3], tokens[3], value, Null)
             second == Into(down[2], tokens[2], third, Wanted(tokens[3]))
             h == [i \in 1..n |-> IF i = n THEN third ELSE IF i = 2 THEN second
                                  ELSE Into(down[1], tokens[1], second, Wanted(tokens[2]))]
             step(i) == IF i = n THEN Into(down[i], tokens[i], value, Null)
                        ELSE Into(down[i], tokens[i], h[i + 1], Wanted(tokens[i + 1]))
  <2>1. h[3] = third /\ h[2] = second /\ h[1] = Into(down[1], tokens[1], second, Wanted(tokens[2]))
    BY <1>1
  <2>2. h = [i \in 1..n |-> h[i]]
    OBVIOUS
  <2> HIDE DEF h, down
  <2>3. h[1] = step(1) /\ h[2] = step(2) /\ h[3] = step(3)
    BY <1>1, <2>1
  <2>4. \A i \in 1..n : h[i] = step(i)
    BY <1>1, <2>3
  <2>5. Ups(h, down)
    BY <2>2, <2>4
  <2> QED BY <2>5 DEF down
<1> HIDE DEF down, up
<1>5. /\ down[1] = root /\ down[2] = Onward(down[1], tokens[1], tokens[2])
      /\ down[3] = Onward(down[2], tokens[2], tokens[3])
  BY <1>1, <1>3
<1>6. /\ up[3] = Into(down[3], tokens[3], value, Null)
      /\ up[2] = Into(down[2], tokens[2], up[3], Wanted(tokens[3]))
      /\ up[1] = Into(down[1], tokens[1], up[2], Wanted(tokens[2]))
  BY <1>1, <1>4
<1>7. (\A i \in 1..3 : Fits(down[i], tokens[i])) /\ Apply(root, tokens, value) = up[1]
  BY <1>1, <1>2 DEF tokens
<1>8. /\ \A k, cur : Fits(cur, Name(k)) <=> IsMap(cur)
      /\ \A k, cur, t, fill : Into(cur, Name(k), t, fill) = Put(cur, k, t)
      /\ \A k, j, cur : IsMap(cur) => Onward(cur, Name(k), Name(j)) = Sub(cur, k)
  <2>1. \A k : IsName(Name(k)) /\ Name(k).name = k
    BY DEF IsName, Name
  <2> QED BY <2>1 DEF Fits, Into, Put, Under, Wanted, Sub
<1> HIDE DEF Onward
<1>9. IsMap(down[1]) /\ IsMap(down[2]) /\ IsMap(down[3])
  BY <1>1, <1>7, <1>8
<1>10. down[2] = Sub(root, a) /\ down[3] = Sub(Sub(root, a), b)
  BY <1>1, <1>5, <1>8, <1>9
<1>11. up[1] = Put(root, a, Put(Sub(root, a), b, Put(Sub(Sub(root, a), b), c, value)))
  BY <1>1, <1>5, <1>6, <1>8, <1>10
<1> QED BY <1>5, <1>7, <1>9, <1>10, <1>11 DEF tokens

(* An override of three names is there; one of its last name's sibling leaves it. *)
LEMMA OverrideThere ==
  ASSUME NEW root, NEW a, NEW b, NEW c, NEW value, Apply(root, <<Name(a), Name(b), Name(c)>>, value) # Refused
  PROVE  At(Apply(root, <<Name(a), Name(b), Name(c)>>, value), <<a, b, c>>) = value
<1>1. /\ <<a, b, c>>[1] = a /\ <<a, b, c>>[2] = b /\ <<a, b, c>>[3] = c
  OBVIOUS
<1> DEFINE low == Put(Sub(Sub(root, a), b), c, value)
           mid == Put(Sub(root, a), b, low)
<1>2. Apply(root, <<Name(a), Name(b), Name(c)>>, value) = Put(root, a, mid)
  BY AppliedThree
<1>3. Child(low, c) = value /\ Child(mid, b) = low /\ Child(Put(root, a, mid), a) = mid
  BY Puts
<1> QED BY <1>1, <1>2, <1>3 DEF At

LEMMA OverrideBeside ==
  ASSUME NEW root, NEW a, NEW b, NEW c, NEW d, NEW v, NEW w, c # d,
         Apply(root, <<Name(a), Name(b), Name(c)>>, v) # Refused,
         Apply(Apply(root, <<Name(a), Name(b), Name(c)>>, v), <<Name(a), Name(b), Name(d)>>, w) # Refused
  PROVE  At(Apply(Apply(root, <<Name(a), Name(b), Name(c)>>, v), <<Name(a), Name(b), Name(d)>>, w), <<a, b, c>>) = v
<1> DEFINE low == Put(Sub(Sub(root, a), b), c, v)
           mid == Put(Sub(root, a), b, low)
           top == Put(root, a, mid)
<1>1. Apply(root, <<Name(a), Name(b), Name(c)>>, v) = top
  BY AppliedThree
<1>2. IsMap(low) /\ IsMap(mid) /\ IsMap(top) /\ Child(low, c) = v
  BY Puts
<1>3. Sub(top, a) = mid /\ Sub(mid, b) = low
  BY <1>2, Puts
<1> HIDE DEF low, mid, top
<1>4. Apply(top, <<Name(a), Name(b), Name(d)>>, w) = Put(top, a, Put(mid, b, Put(low, d, w)))
  BY <1>1, <1>3, AppliedThree
<1>5. Child(Put(low, d, w), c) = v
  <2>1. Child(Put(low, d, w), c) = IF c \in DOMAIN low.map THEN low.map[c] ELSE Null
    BY Puts
  <2> QED BY <1>2, <2>1 DEF Child
<1>6. /\ <<a, b, c>>[1] = a /\ <<a, b, c>>[2] = b /\ <<a, b, c>>[3] = c
  OBVIOUS
<1>7. Child(Child(Child(Put(top, a, Put(mid, b, Put(low, d, w))), a), b), c) = v
  BY <1>5, Puts
<1> QED BY <1>1, <1>4, <1>6, <1>7 DEF At

(* What a key that is given does to a mapping.                              *)
LEMMA GivenSeq ==
  ASSUME NEW X, NEW out \in Seq(X), NEW spec \in X
  PROVE  /\ Given(out, spec) \in Seq(X) /\ Len(out) \in Nat
         /\ Len(Given(out, spec)) \in {Len(out), Len(out) + 1}
         /\ \A i \in 1..Len(out) : out[i].path # spec.path => Given(out, spec)[i] = out[i]
         /\ Len(Given(out, spec)) = Len(out) + 1 => Given(out, spec)[Len(out) + 1] = spec
<1>1. out \in [1..Len(out) -> X] /\ Len(out) \in Nat /\ DOMAIN out = 1..Len(out)
  BY LenProperties
<1>2. CASE \E i \in DOMAIN out : out[i].path = spec.path
  <2> DEFINE g == [i \in 1..Len(out) |-> IF out[i].path = spec.path THEN spec ELSE out[i]]
  <2>1. Given(out, spec) = g
    BY <1>1, <1>2 DEF Given
  <2>2. g \in [1..Len(out) -> X]
    BY <1>1
  <2>3. g \in Seq(X) /\ Len(g) = Len(out)
    BY <1>1, <2>2
  <2>4. \A i \in 1..Len(out) : out[i].path # spec.path => g[i] = out[i]
    OBVIOUS
  <2> HIDE DEF g
  <2>5. Len(g) # Len(out) + 1
    <3>1. \A m \in Nat : m # m + 1
      OBVIOUS
    <3> QED BY <1>1, <2>3, <3>1, Zenon
  <2> QED BY <1>1, <2>1, <2>3, <2>4, <2>5
<1>3. CASE ~ \E i \in DOMAIN out : out[i].path = spec.path
  <2>1. Given(out, spec) = Append(out, spec)
    BY <1>3 DEF Given
  <2> QED BY <1>1, <2>1, AppendProperties
<1> QED BY <1>2, <1>3

LEMMA GivenNew ==
  ASSUME NEW X, NEW out \in Seq(X), NEW spec, \A x \in X : x.path # spec.path
  PROVE  /\ Len(Given(out, spec)) = Len(out) + 1 /\ Given(out, spec)[Len(out) + 1] = spec
<1>1. out \in [1..Len(out) -> X] /\ DOMAIN out = 1..Len(out)
  BY LenProperties
<1>2. Given(out, spec) = Append(out, spec)
  BY <1>1 DEF Given
<1>3. out \in Seq(X \cup {spec})
  BY <1>1
<1> QED BY <1>2, <1>3, AppendProperties

StartSpec(args_) == OverrideSpec([key |-> WindowStart, raw |-> args_.from[1]])
EndSpec(args_) == OverrideSpec([key |-> WindowEnd, raw |-> args_.to[1]])

LEMMA FlagSpecs == ASSUME NEW a
  PROVE /\ StartSpec(a).path = WindowStart /\ StartSpec(a).value = ParseValue(a.from[1])
        /\ EndSpec(a).path = WindowEnd /\ EndSpec(a).value = ParseValue(a.to[1])
        /\ WindowStart # WindowEnd
<1>1. WindowStart[5] = Name("start") /\ WindowEnd[5] = Name("end")
  BY DEF WindowStart, WindowEnd
<1>2. Name("start") # Name("end")
  BY Names
<1> QED BY <1>1, <1>2 DEF StartSpec, EndSpec, OverrideSpec

(* Where the flags' specs stand, counted.                                   *)
LEMMA FlagPlaces ==
  ASSUME NEW n \in Nat, NEW x \in Nat, NEW y \in Nat, x <= 1, y <= 1
  PROVE  /\ n + (x + y) \in Nat /\ n + (x + y) = n + x + y /\ n <= n + x + y
         /\ \A i \in 1..n : i \in 1..n + (x + y) /\ i <= n
         /\ x = 1 => /\ n + 1 \in 1..n + (x + y) /\ ~(n + 1 <= n) /\ (n + 1) - n = 1
                     /\ 1 \in 1..x + y /\ 1 <= x
         /\ y = 1 => /\ n + (x + 1) \in 1..n + (x + y) /\ ~(n + (x + 1) <= n)
                     /\ (n + (x + 1)) - n = x + 1 /\ x + 1 \in 1..x + y /\ ~(x + 1 <= x)
                     /\ (x + 1) - x = 1 /\ n + x + 1 = n + (x + 1)
OBVIOUS

(* The specs of a command line, in their order.                             *)
LEMMA SpecsOf ==
  ASSUME NEW a \in Arguments
  PROVE  LET sets == [i \in DOMAIN a.set |-> OverrideSpec(a.set[i])]
             specs == sets \o Flags(a)
             n == Len(a.set)
         IN  /\ n \in Nat /\ Len(specs) = n + Len(a.from) + Len(a.to)
             /\ {Len(a.from), Len(a.to)} \subseteq {0, 1}
             /\ (a.from # << >> <=> Len(a.from) = 1) /\ (a.to # << >> <=> Len(a.to) = 1)
             /\ \A i \in 1..n : specs[i].path = a.set[i].key
             /\ Len(a.from) = 1 => specs[n + 1] = StartSpec(a)
             /\ Len(a.to) = 1 => specs[n + Len(a.from) + 1] = EndSpec(a)
<1> DEFINE sets == [i \in DOMAIN a.set |-> OverrideSpec(a.set[i])]
           starts == [i \in DOMAIN a.from |-> OverrideSpec([key |-> WindowStart, raw |-> a.from[i]])]
           ends == [i \in DOMAIN a.to |-> OverrideSpec([key |-> WindowEnd, raw |-> a.to[i]])]
           n == Len(a.set)
<1>1. /\ a.set \in Seq(Range(a.set)) /\ a.from \in Seq(Range(a.from)) /\ a.to \in Seq(Range(a.to))
      /\ Len(a.from) <= 1 /\ Len(a.to) <= 1
  BY ArgumentsAssumption
<1>2. ASSUME NEW R, NEW s \in Seq(R)
      PROVE  Len(s) \in Nat /\ DOMAIN s = 1..Len(s) /\ (s = << >> <=> Len(s) = 0)
  BY LenProperties, EmptySeq
<1>3. /\ n \in Nat /\ DOMAIN a.set = 1..n
      /\ Len(a.from) \in {0, 1} /\ DOMAIN a.from = 1..Len(a.from) /\ (a.from # << >> <=> Len(a.from) = 1)
      /\ Len(a.to) \in {0, 1} /\ DOMAIN a.to = 1..Len(a.to) /\ (a.to # << >> <=> Len(a.to) = 1)
  <2>1. n \in Nat /\ DOMAIN a.set = 1..n
    BY <1>1, <1>2
  <2>2. Len(a.from) \in Nat /\ DOMAIN a.from = 1..Len(a.from) /\ (a.from = << >> <=> Len(a.from) = 0)
    BY <1>1, <1>2
  <2>3. Len(a.to) \in Nat /\ DOMAIN a.to = 1..Len(a.to) /\ (a.to = << >> <=> Len(a.to) = 0)
    BY <1>1, <1>2
  <2>4. \A m \in Nat : m <= 1 => m \in {0, 1}
    OBVIOUS
  <2>5. Len(a.from) \in {0, 1} /\ Len(a.to) \in {0, 1}
    BY <1>1, <2>2, <2>3, <2>4, Zenon
  <2>6. /\ a.from # << >> <=> Len(a.from) = 1
        /\ a.to # << >> <=> Len(a.to) = 1
    <3>1. \A m \in {0, 1} : m = 0 <=> ~(m = 1)
      OBVIOUS
    <3> QED BY <2>2, <2>3, <2>5, <3>1, Zenon
  <2> QED BY <2>1, <2>2, <2>3, <2>5, <2>6, Zenon
<1>c. LET x == Len(a.from) y == Len(a.to)
      IN  /\ n + (x + y) \in Nat /\ n + (x + y) = n + x + y /\ n <= n + x + y
          /\ \A i \in 1..n : i \in 1..n + (x + y) /\ i <= n
          /\ x = 1 => /\ n + 1 \in 1..n + (x + y) /\ ~(n + 1 <= n) /\ (n + 1) - n = 1
                      /\ 1 \in 1..x + y /\ 1 <= x
          /\ y = 1 => /\ n + (x + 1) \in 1..n + (x + y) /\ ~(n + (x + 1) <= n)
                      /\ (n + (x + 1)) - n = x + 1 /\ x + 1 \in 1..x + y /\ ~(x + 1 <= x)
                      /\ (x + 1) - x = 1 /\ n + x + 1 = n + (x + 1)
  <2> DEFINE x == Len(a.from)
             y == Len(a.to)
  <2>1. x \in Nat /\ y \in Nat /\ n \in Nat /\ x <= 1 /\ y <= 1
    BY <1>1, <1>2, Zenon
  <2> HIDE DEF n, x, y
  <2>2. /\ n + (x + y) \in Nat /\ n + (x + y) = n + x + y /\ n <= n + x + y
        /\ \A i \in 1..n : i \in 1..n + (x + y) /\ i <= n
        /\ x = 1 => /\ n + 1 \in 1..n + (x + y) /\ ~(n + 1 <= n) /\ (n + 1) - n = 1
                    /\ 1 \in 1..x + y /\ 1 <= x
        /\ y = 1 => /\ n + (x + 1) \in 1..n + (x + y) /\ ~(n + (x + 1) <= n)
                    /\ (n + (x + 1)) - n = x + 1 /\ x + 1 \in 1..x + y /\ ~(x + 1 <= x)
                    /\ (x + 1) - x = 1 /\ n + x + 1 = n + (x + 1)
    BY <2>1, FlagPlaces
  <2> QED BY <2>2, Zenon DEF x, y
<1> DEFINE S == {sets[i] : i \in DOMAIN sets} \cup {starts[i] : i \in DOMAIN starts} \cup {ends[i] : i \in DOMAIN ends}
<1>4. /\ sets \in Seq(S) /\ Len(sets) = n
      /\ starts \in Seq(S) /\ Len(starts) = Len(a.from)
      /\ ends \in Seq(S) /\ Len(ends) = Len(a.to)
  <2>1. /\ sets \in [1..n -> S] /\ starts \in [1..Len(a.from) -> S] /\ ends \in [1..Len(a.to) -> S]
    BY <1>3
  <2> HIDE DEF sets, starts, ends, S, n
  <2> QED BY <1>3, <2>1
<1>5. /\ \A i \in 1..n : sets[i].path = a.set[i].key
      /\ Len(a.from) = 1 => starts[1] = StartSpec(a)
      /\ Len(a.to) = 1 => ends[1] = EndSpec(a)
  BY <1>3 DEF OverrideSpec, StartSpec, EndSpec
<1>6. Flags(a) = starts \o ends
  BY DEF Flags
<1> HIDE DEF sets, starts, ends, S, n
<1>7. /\ starts \o ends \in Seq(S) /\ Len(starts \o ends) = Len(a.from) + Len(a.to)
      /\ \A i \in 1..Len(a.from) + Len(a.to) : (starts \o ends)[i] =
           IF i <= Len(a.from) THEN starts[i] ELSE ends[i - Len(a.from)]
  <2>1. /\ starts \o ends \in Seq(S) /\ Len(starts \o ends) = Len(starts) + Len(ends)
        /\ \A i \in 1..Len(starts) + Len(ends) : (starts \o ends)[i] =
             IF i <= Len(starts) THEN starts[i] ELSE ends[i - Len(starts)]
    BY <1>4, ConcatProperties
  <2> QED BY <1>4, <2>1
<1>8. /\ Len(sets \o Flags(a)) = n + (Len(a.from) + Len(a.to))
      /\ \A i \in 1..n + (Len(a.from) + Len(a.to)) : (sets \o Flags(a))[i] =
           IF i <= n THEN sets[i] ELSE (starts \o ends)[i - n]
  <2> DEFINE flags == starts \o ends
  <2>0. flags \in Seq(S) /\ Len(flags) = Len(a.from) + Len(a.to) /\ Flags(a) = flags
    BY <1>6, <1>7
  <2> HIDE DEF flags
  <2>1. /\ Len(sets \o flags) = Len(sets) + Len(flags)
        /\ \A i \in 1..Len(sets) + Len(flags) : (sets \o flags)[i] =
             IF i <= Len(sets) THEN sets[i] ELSE flags[i - Len(sets)]
    <3>1. sets \in Seq(S) /\ flags \in Seq(S)
      BY <1>4, <2>0
    <3> QED BY <3>1, ConcatProperties
  <2> QED BY <1>4, <2>0, <2>1 DEF flags
<1>9. \A i \in 1..n : (sets \o Flags(a))[i].path = a.set[i].key
  <2>1. \A i \in 1..n : i \in 1..n + (Len(a.from) + Len(a.to)) /\ i <= n
    BY <1>c, Zenon
  <2> QED BY <1>5, <1>8, <2>1
<1>10. Len(a.from) = 1 => (sets \o Flags(a))[n + 1] = StartSpec(a)
  <2>1. SUFFICES ASSUME Len(a.from) = 1 PROVE (sets \o Flags(a))[n + 1] = StartSpec(a)
    OBVIOUS
  <2>2. n + 1 \in 1..n + (Len(a.from) + Len(a.to)) /\ ~(n + 1 <= n) /\ (n + 1) - n = 1 /\ 1 \in 1..Len(a.from) + Len(a.to) /\ 1 <= Len(a.from)
    BY <1>c, <2>1, Zenon
  <2> QED BY <1>5, <1>7, <1>8, <2>1, <2>2
<1>11. Len(a.to) = 1 => (sets \o Flags(a))[n + Len(a.from) + 1] = EndSpec(a)
  <2>1. SUFFICES ASSUME Len(a.to) = 1 PROVE (sets \o Flags(a))[n + Len(a.from) + 1] = EndSpec(a)
    OBVIOUS
  <2> DEFINE m == Len(a.from) + 1
  <2>2. /\ n + m \in 1..n + (Len(a.from) + Len(a.to)) /\ ~(n + m <= n) /\ (n + m) - n = m
        /\ m \in 1..Len(a.from) + Len(a.to) /\ ~(m <= Len(a.from)) /\ m - Len(a.from) = 1
        /\ n + Len(a.from) + 1 = n + m
    BY <1>c, <2>1, Zenon
  <2> HIDE DEF m
  <2> QED BY <1>5, <1>7, <1>8, <2>1, <2>2
<1>12. Len(sets \o Flags(a)) = n + Len(a.from) + Len(a.to)
  <2>1. n + (Len(a.from) + Len(a.to)) = n + Len(a.from) + Len(a.to)
    BY <1>c, Zenon
  <2> QED BY <1>8, <2>1, Zenon
<1> QED BY <1>3, <1>3, <1>9, <1>10, <1>11, <1>12 DEF sets, n

(* They end with the flags' own, where --set does not give their keys.      *)
LEMMA FlagsLast ==
  ASSUME NEW a \in Arguments
  PROVE  LET q == BuildOverrides(a)
             n == Len(q)
         IN  /\ n \in Nat
             /\ (a.to # << >> /\ \A i \in DOMAIN a.set : a.set[i].key # WindowEnd) =>
                  n >= 1 /\ q[n] = EndSpec(a)
             /\ (a.from # << >> /\ \A i \in DOMAIN a.set : a.set[i].key # WindowStart) =>
                  \/ n >= 1 /\ q[n] = StartSpec(a)
                  \/ n >= 2 /\ q[n - 1] = StartSpec(a) /\ q[n] = EndSpec(a)
<1> DEFINE sets == [i \in DOMAIN a.set |-> OverrideSpec(a.set[i])]
           specs == sets \o Flags(a)
           n == Len(a.set)
<1>1. /\ n \in Nat /\ Len(specs) = n + Len(a.from) + Len(a.to)
      /\ {Len(a.from), Len(a.to)} \subseteq {0, 1}
      /\ (a.from # << >> <=> Len(a.from) = 1) /\ (a.to # << >> <=> Len(a.to) = 1)
      /\ \A i \in 1..n : specs[i].path = a.set[i].key
      /\ Len(a.from) = 1 => specs[n + 1] = StartSpec(a)
      /\ Len(a.to) = 1 => specs[n + Len(a.from) + 1] = EndSpec(a)
  BY SpecsOf
<1>2. DOMAIN a.set = 1..n
  BY ArgumentsAssumption, LenProperties
<1>3. BuildOverrides(a) = SpecsToMapping(specs)
  BY DEF BuildOverrides
<1> HIDE DEF specs, n
<1>a. Len(specs) \in Nat /\ n <= Len(specs)
  <2>1. Len(a.from) \in {0, 1} /\ Len(a.to) \in {0, 1}
    BY <1>1
  <2>2. \A x, y \in {0, 1} : n + x + y \in Nat /\ n <= n + x + y
    BY <1>1
  <2>3. \A l : l = n + Len(a.from) + Len(a.to) => l \in Nat /\ n <= l
    BY <2>1, <2>2, Zenon
  <2> QED BY <1>1, <2>3, Zenon
<1>4. PICK f : /\ f[0] = << >> /\ SpecsToMapping(specs) = f[Len(specs)]
               /\ \A i \in 1..Len(specs) : f[i] = Given(f[i - 1], specs[i])
  BY <1>a, CollectedBySteps
<1> DEFINE X == {specs[i] : i \in 1..n}
           T == {k \in Nat : k <= n /\ f[k] \notin Seq(X)}
<1>5. ASSUME T # {} PROVE FALSE
  <2>1. PICK k \in T : \A j \in T : k <= j
    <3>1. T \in SUBSET Nat
      OBVIOUS
    <3> HIDE DEF T
    <3> QED BY <1>5, <3>1, Least
  <2>2. k \in Nat /\ k <= n /\ f[k] \notin Seq(X)
    OBVIOUS
  <2>3. k # 0
    <3>1. << >> \in Seq(X)
      BY EmptySeq
    <3> HIDE DEF X
    <3> QED BY <1>4, <2>2, <3>1
  <2>4. k - 1 \in Nat /\ k - 1 <= n /\ k - 1 \notin T /\ k \in 1..Len(specs) /\ k \in 1..n
    <3>1. k - 1 \in Nat /\ k - 1 <= n /\ ~(k <= k - 1) /\ k \in 1..n
      BY <1>1, <2>2, <2>3
    <3>2. k \in 1..Len(specs)
      <4>1. \A j, l \in Nat : j <= n /\ n <= l /\ j # 0 => j \in 1..l
        <5>1. n \in Nat
          BY <1>1
        <5> QED BY <5>1
      <4> QED BY <1>a, <2>2, <2>3, <4>1, Zenon
    <3> HIDE DEF T
    <3> QED BY <2>1, <3>1, <3>2
  <2>5. f[k - 1] \in Seq(X)
    BY <2>4
  <2>6. specs[k] \in X
    BY <2>4
  <2> HIDE DEF X
  <2> QED BY <1>4, <2>2, <2>4, <2>5, <2>6, GivenSeq
<1>6. f[n] \in Seq(X)
  <2>1. n \in Nat /\ n <= n
    BY <1>1
  <2>2. n \notin T
    BY <1>5
  <2> HIDE DEF X
  <2> QED BY <2>1, <2>2
<1>7. \A x \in X : \E i \in DOMAIN a.set : x.path = a.set[i].key
  BY <1>1, <1>2
<1> HIDE DEF X, T
<1> DEFINE s == StartSpec(a)
           e == EndSpec(a)
           out == f[n]
<1>8. /\ s.path = WindowStart /\ e.path = WindowEnd /\ WindowStart # WindowEnd
  BY FlagSpecs
<1> HIDE DEF s, e
<1>9. Len(out) \in Nat
  BY <1>6, LenProperties
<1>10. CASE Len(a.from) = 0 /\ Len(a.to) = 0
  <2>1. Len(specs) = n
    BY <1>1, <1>10
  <2> QED BY <1>1, <1>3, <1>4, <1>9, <1>10, <2>1
<1>11. CASE Len(a.from) = 1 /\ Len(a.to) = 0
  <2>1. Len(specs) = n + 1 /\ n + 1 \in 1..Len(specs) /\ (n + 1) - 1 = n
    BY <1>1, <1>11
  <2>2. BuildOverrides(a) = Given(out, s)
    BY <1>1, <1>3, <1>4, <1>11, <2>1 DEF s
  <2>3. Len(Given(out, s)) \in Nat
    <3>1. out \in Seq(X \cup {s})
      BY <1>6
    <3> QED BY <3>1, GivenSeq, LenProperties
  <2>4. (\A i \in DOMAIN a.set : a.set[i].key # WindowStart) =>
          Len(Given(out, s)) = Len(out) + 1 /\ Given(out, s)[Len(out) + 1] = s
    <3>1. (\A i \in DOMAIN a.set : a.set[i].key # WindowStart) => \A x \in X : x.path # s.path
      BY <1>7, <1>8
    <3> QED BY <1>6, <3>1, GivenNew
  <2> QED BY <1>1, <1>9, <1>11, <2>2, <2>3, <2>4 DEF s
<1>12. CASE Len(a.from) = 0 /\ Len(a.to) = 1
  <2>1. Len(specs) = n + 1 /\ n + 1 \in 1..Len(specs) /\ (n + 1) - 1 = n /\ n + Len(a.from) + 1 = n + 1
    BY <1>1, <1>12
  <2>2. BuildOverrides(a) = Given(out, e)
    BY <1>1, <1>3, <1>4, <1>12, <2>1 DEF e
  <2>3. Len(Given(out, e)) \in Nat
    <3>1. out \in Seq(X \cup {e})
      BY <1>6
    <3> QED BY <3>1, GivenSeq, LenProperties
  <2>4. (\A i \in DOMAIN a.set : a.set[i].key # WindowEnd) =>
          Len(Given(out, e)) = Len(out) + 1 /\ Given(out, e)[Len(out) + 1] = e
    <3>1. (\A i \in DOMAIN a.set : a.set[i].key # WindowEnd) => \A x \in X : x.path # e.path
      BY <1>7, <1>8
    <3> QED BY <1>6, <3>1, GivenNew
  <2> QED BY <1>1, <1>9, <1>12, <2>2, <2>3, <2>4 DEF e
<1>13. CASE Len(a.from) = 1 /\ Len(a.to) = 1
  <2> DEFINE mid == Given(out, s)
             q == Given(mid, e)
  <2>1. /\ Len(specs) = n + 2 /\ n + 1 \in 1..Len(specs) /\ (n + 1) - 1 = n
        /\ n + 2 \in 1..Len(specs) /\ (n + 2) - 1 = n + 1 /\ n + Len(a.from) + 1 = n + 2
    BY <1>1, <1>13
  <2>2. BuildOverrides(a) = q
    <3>1. f[n + 1] = Given(f[n], s)
      BY <1>1, <1>4, <1>13, <2>1 DEF s
    <3>2. f[n + 2] = Given(f[n + 1], e)
      BY <1>1, <1>4, <1>13, <2>1 DEF e
    <3> QED BY <1>3, <1>4, <2>1, <3>1, <3>2
  <2>3. out \in Seq(X \cup {s}) /\ out \in Seq(X \cup {s, e})
    BY <1>6
  <2>4. mid \in Seq(X \cup {s}) /\ mid \in Seq(X \cup {s, e})
    BY <2>3, GivenSeq
  <2>5. Len(mid) \in Nat /\ Len(q) \in Nat /\ Len(q) \in {Len(mid), Len(mid) + 1}
    BY <2>4, GivenSeq, LenProperties
  <2>6. (\A i \in DOMAIN a.set : a.set[i].key # WindowEnd) => Len(q) = Len(mid) + 1 /\ q[Len(mid) + 1] = e
    <3>1. (\A i \in DOMAIN a.set : a.set[i].key # WindowEnd) => \A x \in X \cup {s} : x.path # e.path
      BY <1>7, <1>8
    <3> HIDE DEF mid
    <3> QED BY <2>4, <3>1, GivenNew
  <2>7. ASSUME \A i \in DOMAIN a.set : a.set[i].key # WindowStart
        PROVE  \/ Len(q) >= 1 /\ q[Len(q)] = s
               \/ Len(q) >= 2 /\ q[Len(q) - 1] = s /\ q[Len(q)] = e
    <3>0. \A x \in X : x.path # s.path
      BY <1>7, <1>8, <2>7
    <3>1. Len(mid) = Len(out) + 1 /\ mid[Len(out) + 1] = s
      BY <1>6, <3>0, GivenNew
    <3> HIDE DEF mid, out
    <3>2. Len(mid) \in 1..Len(mid) /\ mid[Len(mid)] = s /\ Len(mid) >= 1
      BY <1>9, <2>5, <3>1
    <3>3. /\ \A i \in 1..Len(mid) : mid[i].path # e.path => q[i] = mid[i]
          /\ Len(q) = Len(mid) + 1 => q[Len(mid) + 1] = e
      <4>1. e \in {s, e}
        OBVIOUS
      <4> DEFINE Y == X \cup {s, e}
      <4>2. e \in Y /\ mid \in Seq(Y)
        BY <2>4, <4>1, Zenon
      <4> HIDE DEF Y, e
      <4>a. /\ Given(mid, e) \in Seq(Y) /\ Len(mid) \in Nat
            /\ Len(Given(mid, e)) \in {Len(mid), Len(mid) + 1}
            /\ \A i \in 1..Len(mid) : mid[i].path # e.path => Given(mid, e)[i] = mid[i]
            /\ Len(Given(mid, e)) = Len(mid) + 1 => Given(mid, e)[Len(mid) + 1] = e
        <5> HIDE DEF mid
        <5> QED BY <4>2, GivenSeq
      <4>3. /\ \A i \in 1..Len(mid) : mid[i].path # e.path => Given(mid, e)[i] = mid[i]
            /\ Len(Given(mid, e)) = Len(mid) + 1 => Given(mid, e)[Len(mid) + 1] = e
        BY <4>2, <4>a
      <4> QED BY <4>3
    <3>4. q[Len(mid)] = s
      BY <1>8, <3>2, <3>3
    <3>5. CASE Len(q) = Len(mid)
      BY <2>5, <3>2, <3>4, <3>5
    <3>6. CASE Len(q) = Len(mid) + 1
      <4>1. Len(q) - 1 = Len(mid) /\ Len(q) >= 2
        BY <2>5, <3>2, <3>6
      <4> QED BY <3>3, <3>4, <3>6, <4>1
    <3> QED BY <2>5, <3>5, <3>6
  <2> HIDE DEF q, mid
  <2>8. (\A i \in DOMAIN a.set : a.set[i].key # WindowEnd) => Len(q) >= 1 /\ q[Len(q)] = e
    BY <2>5, <2>6
  <2> QED BY <1>1, <1>13, <2>2, <2>5, <2>7, <2>8 DEF s, e
<1> QED BY <1>1, <1>10, <1>11, <1>12, <1>13

(* A spec of a flag that is applied.                                        *)
LEMMA FlagApplied ==
  ASSUME NEW m, NEW a
  PROVE  /\ ApplyOverride(m, StartSpec(a)) # Refused =>
              /\ ApplyOverride(m, StartSpec(a)) =
                   Apply(m, <<Name("source"), Name("time_window"), Name("start")>>, ParseValue(a.from[1]))
         /\ ApplyOverride(m, EndSpec(a)) # Refused =>
              /\ ApplyOverride(m, EndSpec(a)) =
                   Apply(m, <<Name("source"), Name("time_window"), Name("end")>>, ParseValue(a.to[1]))
         /\ ApplyOverride(Refused, StartSpec(a)) = Refused /\ ApplyOverride(Refused, EndSpec(a)) = Refused
<1>1. /\ ParsePath(WindowStart) = <<Name("source"), Name("time_window"), Name("start")>>
      /\ ParsePath(WindowEnd) = <<Name("source"), Name("time_window"), Name("end")>>
  BY FlagPaths DEF WindowStart, WindowEnd
<1> QED BY <1>1, FlagSpecs DEF ApplyOverride

LEMMA FlagsOverride ==
  ASSUME NEW tree, NEW a \in Arguments, Overridden(tree, a) # Refused
  PROVE  /\ (a.from # << >> /\ \A i \in DOMAIN a.set : a.set[i].key # WindowStart)
              => At(Overridden(tree, a), <<"source", "time_window", "start">>) = ParseValue(a.from[1])
         /\ (a.to # << >> /\ \A i \in DOMAIN a.set : a.set[i].key # WindowEnd)
              => At(Overridden(tree, a), <<"source", "time_window", "end">>) = ParseValue(a.to[1])
<1> DEFINE q == BuildOverrides(a)
           n == Len(q)
           m == Overridden(tree, a)
<1>1. /\ n \in Nat
      /\ (a.to # << >> /\ \A i \in DOMAIN a.set : a.set[i].key # WindowEnd) => n >= 1 /\ q[n] = EndSpec(a)
      /\ (a.from # << >> /\ \A i \in DOMAIN a.set : a.set[i].key # WindowStart) =>
           \/ n >= 1 /\ q[n] = StartSpec(a)
           \/ n >= 2 /\ q[n - 1] = StartSpec(a) /\ q[n] = EndSpec(a)
  BY FlagsLast
<1>2. m = ApplyOverrides(tree, q)
  BY DEF Overridden
<1>3. PICK f : /\ f[0] = tree /\ ApplyOverrides(tree, q) = f[n]
               /\ \A i \in 1..n : f[i] = ApplyOverride(f[i - 1], q[i])
  BY <1>1, AppliedBySteps
<1> HIDE DEF q, n, m
<1>4. n >= 1 => n \in 1..n /\ m = ApplyOverride(f[n - 1], q[n])
  BY <1>1, <1>2, <1>3
<1>5. n >= 2 => f[n - 1] = ApplyOverride(f[n - 2], q[n - 1])
  <2>1. n >= 2 => n - 1 \in 1..n /\ (n - 1) - 1 = n - 2
    BY <1>1
  <2> QED BY <1>3, <2>1
<1>6. m # Refused
  BY DEF m
<1>7. ASSUME n >= 1, q[n] = EndSpec(a)
      PROVE  At(m, <<"source", "time_window", "end">>) = ParseValue(a.to[1])
  <2>1. m = Apply(f[n - 1], <<Name("source"), Name("time_window"), Name("end")>>, ParseValue(a.to[1]))
    BY <1>4, <1>6, <1>7, FlagApplied
  <2> QED BY <1>6, <2>1, OverrideThere
<1>8. ASSUME n >= 1, q[n] = StartSpec(a)
      PROVE  At(m, <<"source", "time_window", "start">>) = ParseValue(a.from[1])
  <2>1. m = Apply(f[n - 1], <<Name("source"), Name("time_window"), Name("start")>>, ParseValue(a.from[1]))
    BY <1>4, <1>6, <1>8, FlagApplied
  <2> QED BY <1>6, <2>1, OverrideThere
<1>9. ASSUME n >= 2, q[n - 1] = StartSpec(a), q[n] = EndSpec(a)
      PROVE  At(m, <<"source", "time_window", "start">>) = ParseValue(a.from[1])
  <2> DEFINE v == ParseValue(a.from[1])
             w == ParseValue(a.to[1])
             g == f[n - 1]
  <2>1. m = Apply(g, <<Name("source"), Name("time_window"), Name("end")>>, w) /\ g # Refused
    BY <1>1, <1>4, <1>6, <1>9, FlagApplied
  <2>2. g = Apply(f[n - 2], <<Name("source"), Name("time_window"), Name("start")>>, v)
    BY <1>5, <1>9, <2>1, FlagApplied
  <2>3. "start" # "end"
    OBVIOUS
  <2> HIDE DEF g, v, w
  <2>4. At(m, <<"source", "time_window", "start">>) = v
    BY <1>6, <2>1, <2>2, <2>3, OverrideBeside
  <2> QED BY <2>4 DEF v
<1> QED BY <1>1, <1>7, <1>8, <1>9 DEF m

(* The flags of the time window win in every run, whatever the manifest holds  *)
(* and however many --set options the command line has (build_overrides,       *)
(* specs_to_mapping, apply_overrides).                                         *)
THEOREM WindowFlagsWin == Spec => []FlagsWin
<1>1. Init => FlagsWin
  BY DEF Init, FlagsWin
<1>2. FlagsWin /\ [Next]_vars => FlagsWin'
  <2> SUFFICES ASSUME FlagsWin, [Next]_vars PROVE FlagsWin'
    OBVIOUS
  <2>1. ASSUME NEW a \in Arguments, Start(a) PROVE FlagsWin'
    <3>1. CASE stage' = "accepted"
      <4>1. Overridden(Tree, a) # Refused /\ manifest' = Overridden(Tree, a) /\ args' = a
        BY <2>1, <3>1 DEF Start, End
      <4> QED BY <4>1, FlagsOverride DEF FlagsWin
    <3>2. CASE stage' # "accepted"
      BY <3>2 DEF FlagsWin
    <3> QED BY <3>1, <3>2
  <2>2. CASE Begin
    <3>1. stage' # "accepted"
      BY <2>2 DEF Begin, End
    <3> QED BY <3>1 DEF FlagsWin
  <2>3. ASSUME NEW started \in BOOLEAN, NEW ans, Trigger(started, ans) PROVE FlagsWin'
    <3>1. stage' # "accepted"
      BY <2>3 DEF Trigger, End
    <3> QED BY <3>1 DEF FlagsWin
  <2>4. ASSUME NEW p \in Payloads, JobDone(p) PROVE FlagsWin'
    BY <2>4 DEF JobDone, FlagsWin
  <2>5. ASSUME NEW ans \in PollAnswers, Poll(ans) PROVE FlagsWin'
    <3>1. stage' # "accepted"
      BY <2>5 DEF Poll
    <3> QED BY <3>1 DEF FlagsWin
  <2>6. ASSUME NEW faults \in Faults, Check(faults) PROVE FlagsWin'
    <3>1. stage' # "accepted"
      BY <2>6 DEF Check, End
    <3> QED BY <3>1 DEF FlagsWin
  <2>7. ASSUME NEW s \in Schemas \cup {Broken}, EditSchema(s) PROVE FlagsWin'
    BY <2>7 DEF EditSchema, FlagsWin
  <2>8. CASE TestContract
    BY <2>8 DEF TestContract, FlagsWin, disk, job
  <2>9. CASE UNCHANGED vars
    BY <2>9 DEF vars, FlagsWin
  <2> QED BY <2>1, <2>2, <2>3, <2>4, <2>5, <2>6, <2>7, <2>8, <2>9 DEF Next
<1> QED BY <1>1, <1>2, PTL DEF Spec
================================================================================
