---------------------------- MODULE DagBuildProofs -----------------------------
(***************************************************************************)
(* What holds of DagBuild for every directory and every finite set of names: *)
(* the recursion of add_manifest is bounded; what is loaded was asked for,   *)
(* and all of that is, unless the scan swallowed an exception; the edges of  *)
(* the tasks are those that are declared. Then what holds of TaskBuild: it    *)
(* implements DagBuild, whatever the factory refuses, takes from its cache    *)
(* or leaves in its defaults, so all of that holds of the tasks Airflow gets;  *)
(* and neither the tasks made before nor a deploy changes a task.             *)
(***************************************************************************)
EXTENDS TaskBuild, FiniteSetTheorems, TLAPS

(* The types without the bound on the depth of the recursion.               *)
Typed ==
  /\ dir \in Directories /\ request \in Requests
  /\ phase \in {"request", "scan", "graph", "tasks", "built", "failed"}
  /\ left \in Seq(Names)
  /\ unscanned \subseteq Names /\ skipped \subseteq Names /\ loaded \subseteq Names
  /\ Partial(graph, Names, SUBSET Names)
  /\ tasks \subseteq Names /\ Partial(upstream, Names, SUBSET Names)

(* Calls in progress are of different manifests of L, and each has some of  *)
(* its dependencies to try. This bounds the depth.                          *)
CallsIn(calls, L) ==
  /\ calls \in Seq(Frame)
  /\ \A i \in DOMAIN calls : calls[i].file \in L /\ calls[i].todo \subseteq dir[calls[i].file].deps
  /\ \A i, j \in DOMAIN calls : calls[i].file = calls[j].file => i = j

StackLoaded == loaded \subseteq Loadable /\ CallsIn(stack, loaded)

(* What is left to add was requested; a scan has a manifest with a group.   *)
LeftRequested ==
  /\ \A i \in DOMAIN left : \E j \in DOMAIN request.files : left[i] = request.files[j]
  /\ phase = "request" /\ request.single /\ left = <<>> => request.files[1] \in loaded
  /\ phase = "scan" => Scans /\ request.files[1] \in loaded

IInv == Typed /\ StackLoaded /\ LeftRequested /\ OnlyAsked

-------------------------------------------------------------------------------
(* A manifest that loads has a proper list of dependencies.                 *)
LEMMA Directory ==
  ASSUME dir \in Directories
  PROVE  /\ DirOK
         /\ \A f \in Loadable : f \in Names /\ dir[f] \in Manifest /\ dir[f].deps \subseteq Dep
<1>1. DOMAIN dir \subseteq Names /\ \A f \in DOMAIN dir : dir[f] = Broken \/ (dir[f] \in Manifest /\ Validated(f, dir[f]))
  BY BuildAssumption
<1>2. DirOK
  BY <1>1 DEF DirOK
<1>3. ASSUME NEW f \in Loadable
      PROVE  f \in Names /\ dir[f] \in Manifest /\ dir[f].deps \subseteq Dep
  <2>1. f \in Names /\ dir[f] \in Manifest /\ Validated(f, dir[f]) /\ dir[f].valid
    BY <1>1 DEF Loadable, Readable
  <2>2. dir[f].deps \subseteq Entry
    BY <2>1 DEF Manifest
  <2>3. WellFormed(dir[f].deps)
    BY <2>1 DEF Validated
  <2>4. ASSUME NEW d \in dir[f].deps PROVE d \in Dep
    BY <2>2, <2>3 DEF Entry, WellFormed
  <2> QED BY <2>1, <2>4
<1> QED BY <1>2, <1>3

(* What was requested is asked for, ...                                     *)
LEMMA RootsAsked == ASSUME NEW n \in Names \cap Roots PROVE n \in Asked
BY DEF Asked

(* ... and so is what a manifest that is asked for names.                   *)
LEMMA AskedNames ==
  ASSUME NEW f \in Asked \cap Loadable, NEW n \in NamedBy(f) \cap Names
  PROVE  n \in Asked
BY DEF Asked

(* No sequence of different elements of a finite set is longer than the set.*)
LEMMA Depth ==
  ASSUME Typed, StackLoaded PROVE Len(stack) <= Cardinality(Names)
<1> DEFINE file == [i \in 1..Len(stack) |-> stack[i].file]
<1>1. Len(stack) \in Nat /\ DOMAIN stack = 1..Len(stack)
  BY DEF StackLoaded, CallsIn
<1>2. \A i \in 1..Len(stack) : stack[i].file \in Names
  BY <1>1 DEF StackLoaded, CallsIn, Typed
<1>3. file \in Injection(1..Len(stack), Names)
  BY <1>1, <1>2 DEF StackLoaded, CallsIn, Injection, IsInjective
<1>4. Cardinality(1..Len(stack)) = Len(stack)
  <2>1. Cardinality(1..Len(stack)) = IF 1 > Len(stack) THEN 0 ELSE Len(stack) - 1 + 1
    BY <1>1, FS_Interval
  <2> QED BY <1>1, <2>1
<1>5. Cardinality(1..Len(stack)) <= Cardinality(Names)
  BY <1>3, BuildAssumption, FS_Injection
<1> QED BY <1>4, <1>5

LEMMA TypesOfTyped == ASSUME Typed, StackLoaded PROVE TypeOK
BY Depth, Directory DEF Typed, TypeOK, StackLoaded, CallsIn

-------------------------------------------------------------------------------
(* How the stack changes: it grows by a manifest that was not loaded, the   *)
(* innermost call tries a dependency, or it returns.                        *)
LEMMA CallsPush ==
  ASSUME dir \in Directories, NEW L, NEW calls, CallsIn(calls, L), NEW f \in Loadable \ L
  PROVE  CallsIn(Append(calls, [file |-> f, todo |-> dir[f].deps]), L \cup {f})
<1> DEFINE new == [file |-> f, todo |-> dir[f].deps]
<1>1. new \in Frame
  BY Directory DEF Frame
<1>2. calls \in Seq(Frame) /\ Append(calls, new) \in Seq(Frame)
  BY <1>1 DEF CallsIn
<1>3. /\ DOMAIN Append(calls, new) = 1..Len(calls) + 1 /\ DOMAIN calls = 1..Len(calls) /\ Len(calls) \in Nat
      /\ Append(calls, new)[Len(calls) + 1] = new
      /\ \A i \in 1..Len(calls) : Append(calls, new)[i] = calls[i]
  BY <1>1, <1>2
<1>4. \A i \in 1..Len(calls) : calls[i].file # f
  BY <1>3 DEF CallsIn
<1>5. new.file = f /\ new.todo = dir[f].deps
  OBVIOUS
<1> HIDE DEF new
<1>6. \A i \in DOMAIN Append(calls, new) :
        Append(calls, new)[i].file \in L \cup {f}
          /\ Append(calls, new)[i].todo \subseteq dir[Append(calls, new)[i].file].deps
  BY <1>3, <1>5 DEF CallsIn
<1>7. \A i, j \in DOMAIN Append(calls, new) :
        Append(calls, new)[i].file = Append(calls, new)[j].file => i = j
  BY <1>3, <1>4, <1>5 DEF CallsIn
<1> QED BY <1>2, <1>6, <1>7 DEF CallsIn, new

LEMMA CallsPop ==
  ASSUME NEW L, CallsIn(stack, L), stack # <<>>
  PROVE  CallsIn(Below, L)
<1>1. stack \in Seq(Frame) /\ Len(stack) \in Nat \ {0} /\ DOMAIN stack = 1..Len(stack)
  BY DEF CallsIn
<1>2. /\ Below \in Seq(Frame) /\ DOMAIN Below = 1..Len(stack) - 1
      /\ \A i \in 1..Len(stack) - 1 : Below[i] = stack[i]
  BY <1>1 DEF Below
<1> QED BY <1>1, <1>2 DEF CallsIn

LEMMA CallsTry ==
  ASSUME NEW L, CallsIn(stack, L), stack # <<>>, NEW d
  PROVE  CallsIn(Append(Below, [Top EXCEPT !.todo = @ \ {d}]), L)
<1> DEFINE new == [Top EXCEPT !.todo = @ \ {d}]
           calls == Append(Below, new)
<1>1. stack \in Seq(Frame) /\ Len(stack) \in Nat \ {0} /\ DOMAIN stack = 1..Len(stack)
  BY DEF CallsIn
<1>2. /\ Below \in Seq(Frame) /\ Len(Below) = Len(stack) - 1
      /\ \A i \in 1..Len(stack) - 1 : Below[i] = stack[i]
  BY <1>1 DEF Below
<1>3. Top \in Frame
  BY <1>1 DEF Top
<1>4. new \in Frame /\ new.file = Top.file /\ new.todo \subseteq Top.todo
  BY <1>3 DEF Frame
<1> HIDE DEF new
<1>5. /\ calls \in Seq(Frame) /\ DOMAIN calls = 1..Len(stack)
      /\ \A i \in 1..Len(stack) - 1 : calls[i] = stack[i]
      /\ calls[Len(stack)] = new
  <2> DEFINE n == Len(Below)
  <2>1. /\ calls \in Seq(Frame) /\ DOMAIN calls = 1..n + 1
        /\ \A i \in 1..n : calls[i] = Below[i]
        /\ calls[n + 1] = new
    BY <1>2, <1>4
  <2>2. n + 1 = Len(stack) /\ n = Len(stack) - 1
    BY <1>1, <1>2
  <2> HIDE DEF n, calls
  <2> QED BY <1>2, <2>1, <2>2
<1> HIDE DEF calls
<1>6. \A i \in DOMAIN calls : calls[i].file = stack[i].file /\ calls[i].todo \subseteq stack[i].todo
  BY <1>1, <1>4, <1>5 DEF Top
<1>7. CallsIn(calls, L)
  BY <1>1, <1>5, <1>6 DEF CallsIn
<1> QED BY <1>7 DEF calls, new

(* An exception leaves what is loaded and takes down the calls.             *)
LEMMA ThrowKeeps ==
  ASSUME IInv, UNCHANGED asked, Throw, phase = "scan" => stack # <<>>
  PROVE  /\ loaded' = loaded /\ StackLoaded' /\ skipped' \in SUBSET Names
         /\ phase' = "failed" \/ (phase' = phase /\ phase = "scan")
<1>1. StackLoaded /\ Typed
  BY DEF IInv
<1>2. stack' = <<>> /\ loaded' = loaded
  BY DEF Throw
<1>3. StackLoaded'
  BY <1>1, <1>2 DEF StackLoaded, CallsIn, asked, Loadable, Readable
<1>4. CASE phase = "request" /\ phase' = "failed" /\ UNCHANGED skipped
  BY <1>1, <1>2, <1>3, <1>4 DEF Typed
<1>5. CASE phase = "scan" /\ skipped' = skipped \cup {stack[1].file} /\ UNCHANGED phase
  <2>1. 1 \in DOMAIN stack
    BY <1>1, <1>5 DEF StackLoaded, CallsIn
  <2>2. stack[1].file \in loaded
    BY <1>1, <2>1 DEF StackLoaded, CallsIn
  <2> QED BY <1>1, <1>2, <1>3, <1>5, <2>2 DEF Typed
<1> QED BY <1>4, <1>5 DEF Throw

(* add_manifest(f) for a manifest that is asked for.                        *)
LEMMA AddKeeps ==
  ASSUME IInv, UNCHANGED asked, NEW f \in Names \cap Asked,
         NEW below, CallsIn(below, loaded), Add(f, below),
         phase = "scan" => stack # <<>> \/ f \in Loadable
  PROVE  /\ loaded \subseteq loaded' /\ loaded' \subseteq Names \cap Asked
         /\ StackLoaded' /\ skipped' \in SUBSET Names
         /\ phase' = "failed" \/ (phase' = phase /\ (phase = "request" => f \in loaded'))
<1>1. StackLoaded /\ Typed /\ loaded \subseteq Asked
  BY DEF IInv, OnlyAsked
<1>2. Loadable' = Loadable /\ \A s, L : CallsIn(s, L) => CallsIn(s, L)'
  BY DEF asked, Loadable, Readable, CallsIn
<1>3. CASE f \in loaded /\ stack' = below /\ UNCHANGED <<phase, skipped, loaded>>
  BY <1>1, <1>2, <1>3 DEF StackLoaded, Typed
<1>4. CASE /\ f \in Loadable \ loaded
           /\ loaded' = loaded \cup {f}
           /\ stack' = Append(below, [file |-> f, todo |-> dir[f].deps])
           /\ UNCHANGED <<phase, skipped>>
  <2>1. CallsIn(Append(below, [file |-> f, todo |-> dir[f].deps]), loaded \cup {f})
    BY <1>1, <1>4, CallsPush DEF Typed
  <2>2. CallsIn(stack, loaded)'
    BY <2>1, <1>2, <1>4
  <2> QED BY <1>1, <1>2, <1>4, <2>2 DEF StackLoaded, Typed
<1>5. CASE f \notin Loadable \cup loaded /\ Throw
  BY <1>1, <1>5, ThrowKeeps
<1> QED BY <1>3, <1>4, <1>5 DEF Add

LEMMA InitIInv == Init => IInv
<1> SUFFICES ASSUME Init PROVE IInv
  OBVIOUS
<1>1. request.files \in Seq(Names)
  BY BuildAssumption DEF Init
<1>2. Partial(Empty, Names, SUBSET Names)
  BY DEF Partial, Empty
<1>3. Typed
  BY <1>1, <1>2 DEF Init, Typed
<1>4. StackLoaded
  BY DEF Init, StackLoaded, CallsIn
<1>5. request.single => Len(request.files) = 1
  BY BuildAssumption DEF Init
<1>6. LeftRequested
  BY <1>1, <1>5 DEF Init, LeftRequested
<1> QED BY <1>3, <1>4, <1>6 DEF Init, IInv, OnlyAsked

-------------------------------------------------------------------------------
(* The request and the directory do not change, and with them what is       *)
(* asked for.                                                               *)
LEMMA AskedStays == ASSUME UNCHANGED asked PROVE Asked' = Asked
BY DEF asked, Asked, Roots, Scans, Loadable, Readable, NamedBy

LEMMA StackStays ==
  ASSUME StackLoaded, UNCHANGED <<asked, stack, loaded>> PROVE StackLoaded'
BY DEF asked, StackLoaded, CallsIn, Loadable, Readable

(* What a step of add_manifest has to show, with AddKeeps or ThrowKeeps.    *)
LEMMA AddingStep ==
  ASSUME IInv, UNCHANGED <<asked, wiring>>,
         phase' = "failed" \/ phase' = phase,
         left' \in Seq(Names), unscanned' \subseteq Names, skipped' \in SUBSET Names,
         loaded \subseteq loaded', loaded' \subseteq Names \cap Asked, StackLoaded',
         \A i \in DOMAIN left' : \E j \in DOMAIN request.files : left'[i] = request.files[j],
         phase' = "request" /\ request.single /\ left' = <<>> => request.files[1] \in loaded'
  PROVE  IInv'
<1>1. Typed /\ LeftRequested
  BY DEF IInv
<1>2. Typed'
  BY <1>1 DEF Typed, asked, wiring, Partial
<1>3. LeftRequested'
  BY <1>1 DEF LeftRequested, asked, Scans
<1> QED BY <1>2, <1>3, AskedStays DEF IInv, OnlyAsked

LEMMA StepIInv == IInv /\ [Next]_vars => IInv'
<1> SUFFICES ASSUME IInv, [Next]_vars PROVE IInv'
  OBVIOUS
<1>0. /\ Typed /\ StackLoaded /\ LeftRequested /\ loaded \subseteq Asked /\ loaded \subseteq Names
      /\ request.single \in BOOLEAN /\ request.files \in Seq(Names) /\ (request.single => Len(request.files) = 1)
  BY BuildAssumption DEF IInv, OnlyAsked, Typed
<1>1. CASE AddRequested
  <2> DEFINE f == Head(left)
  <2>1. /\ phase = "request" /\ stack = <<>> /\ left # <<>> /\ left' = Tail(left)
        /\ Add(f, <<>>) /\ UNCHANGED <<asked, unscanned, wiring>>
    BY <1>1 DEF AddRequested
  <2>2. left \in Seq(Names) /\ 1 \in DOMAIN left /\ f = left[1] /\ f \in Names
    BY <1>0, <2>1 DEF Typed
  <2>3. PICK j \in DOMAIN request.files : f = request.files[j]
    BY <1>0, <2>2 DEF LeftRequested
  <2>4. f \in Asked
    BY <2>2, <2>3, RootsAsked DEF Roots
  <2>5. CallsIn(<<>>, loaded)
    BY DEF CallsIn
  <2>6. /\ loaded \subseteq loaded' /\ loaded' \subseteq Names \cap Asked
        /\ StackLoaded' /\ skipped' \in SUBSET Names
        /\ phase' = "failed" \/ (phase' = phase /\ f \in loaded')
    <3> HIDE DEF f
    <3> QED BY <2>1, <2>2, <2>4, <2>5, AddKeeps
  <2>7. /\ left' \in Seq(Names)
        /\ \A i \in DOMAIN left' : \E k \in DOMAIN left : left'[i] = left[k]
    BY <2>1, <2>2
  <2>8. \A i \in DOMAIN left' : \E k \in DOMAIN request.files : left'[i] = request.files[k]
    BY <1>0, <2>7 DEF LeftRequested
  <2>9. request.single => f = request.files[1]
    BY <1>0, <2>3
  <2>10. unscanned' \subseteq Names
    BY <1>0, <2>1 DEF Typed
  <2> QED BY <2>1, <2>6, <2>7, <2>8, <2>9, <2>10, AddingStep
<1>2. CASE AddDependency
  <2>1. stack # <<>> /\ UNCHANGED <<asked, left, unscanned, wiring>>
    BY <1>2 DEF AddDependency
  <2>2. PICK d \in Top.todo :
           \/ Found(d) = {} /\ Throw
           \/ \E f \in Found(d) : Add(f, Append(Below, [Top EXCEPT !.todo = @ \ {d}]))
    BY <1>2 DEF AddDependency
  <2>3. stack \in Seq(Frame) /\ Len(stack) \in DOMAIN stack
    BY <1>0, <2>1 DEF StackLoaded, CallsIn
  <2>4. Top.file \in loaded /\ d \in dir[Top.file].deps
    BY <1>0, <2>2, <2>3 DEF StackLoaded, CallsIn, Top
  <2>5. /\ loaded \subseteq loaded' /\ loaded' \subseteq Names \cap Asked
        /\ StackLoaded' /\ skipped' \in SUBSET Names
        /\ phase' = "failed" \/ phase' = phase
    <3>1. CASE Throw
      BY <1>0, <2>1, <3>1, ThrowKeeps
    <3>2. CASE \E f \in Found(d) : Add(f, Append(Below, [Top EXCEPT !.todo = @ \ {d}]))
      <4>1. PICK f \in Found(d) : Add(f, Append(Below, [Top EXCEPT !.todo = @ \ {d}]))
        BY <3>2
      <4>2. f \in NamedBy(Top.file) /\ f \in DOMAIN dir
        BY <2>4, <4>1 DEF Found, NamedBy
      <4>3. f \in Names
        BY <1>0, <4>2, Directory DEF Typed, DirOK
      <4>4. Top.file \in Asked \cap Loadable
        BY <1>0, <2>4 DEF StackLoaded
      <4>5. f \in Asked
        BY <4>2, <4>3, <4>4, AskedNames
      <4>6. CallsIn(Append(Below, [Top EXCEPT !.todo = @ \ {d}]), loaded)
        BY <1>0, <2>1, CallsTry DEF StackLoaded
      <4> QED BY <2>1, <4>1, <4>3, <4>5, <4>6, AddKeeps
    <3> QED BY <2>2, <3>1, <3>2
  <2>6. left' \in Seq(Names) /\ unscanned' \subseteq Names
    BY <1>0, <2>1 DEF Typed
  <2>7. \A i \in DOMAIN left' : \E j \in DOMAIN request.files : left'[i] = request.files[j]
    BY <1>0, <2>1 DEF LeftRequested
  <2>8. phase' = "request" /\ request.single /\ left' = <<>> => request.files[1] \in loaded'
    BY <1>0, <2>1, <2>5 DEF LeftRequested
  <2> QED BY <2>1, <2>5, <2>6, <2>7, <2>8, AddingStep
<1>3. CASE AddReturns
  <2>1. CallsIn(stack', loaded)
    BY <1>0, <1>3, CallsPop DEF AddReturns, StackLoaded
  <2>2. StackLoaded'
    BY <1>0, <1>3, <2>1 DEF AddReturns, StackLoaded, CallsIn, asked, Loadable, Readable
  <2>3. /\ UNCHANGED <<asked, wiring>> /\ phase' = phase /\ loaded' = loaded
        /\ left' = left /\ unscanned' = unscanned /\ skipped' = skipped
    BY <1>3 DEF AddReturns
  <2> QED BY <1>0, <2>2, <2>3, AddingStep DEF Typed, LeftRequested
<1>4. CASE RequestsAdded
  <2>1. /\ phase = "request" /\ stack = <<>> /\ left = <<>>
        /\ UNCHANGED <<asked, left, skipped, stack, loaded, wiring>>
        /\ \/ ~Scans /\ phase' = "graph" /\ UNCHANGED unscanned
           \/ Scans /\ phase' = "scan" /\ unscanned' = DOMAIN dir \ {request.files[1]}
    BY <1>4 DEF RequestsAdded
  <2>2. unscanned' \subseteq Names
    BY <1>0, <2>1, Directory DEF Typed, DirOK
  <2>3. Typed'
    BY <1>0, <2>1, <2>2 DEF Typed, asked, wiring, Partial
  <2>4. Scans => request.files[1] \in loaded
    BY <1>0, <2>1 DEF LeftRequested, Scans
  <2>5. LeftRequested'
    BY <1>0, <2>1, <2>4 DEF LeftRequested, asked, Scans
  <2> QED BY <1>0, <2>1, <2>3, <2>5, StackStays, AskedStays DEF IInv, OnlyAsked
<1>5. CASE Scan
  <2>1. phase = "scan" /\ stack = <<>> /\ UNCHANGED <<asked, left, wiring>>
    BY <1>5 DEF Scan
  <2>2. PICK f \in unscanned :
           /\ unscanned' = unscanned \ {f}
           /\ \/ ~Wanted(f) /\ UNCHANGED <<phase, skipped, stack, loaded>>
              \/ Wanted(f) /\ Add(f, <<>>)
    BY <1>5 DEF Scan
  <2>3. /\ loaded \subseteq loaded' /\ loaded' \subseteq Names \cap Asked
        /\ StackLoaded' /\ skipped' \in SUBSET Names
        /\ phase' = "failed" \/ phase' = phase
    <3>1. CASE UNCHANGED <<phase, skipped, stack, loaded>>
      BY <1>0, <2>1, <3>1, StackStays DEF Typed
    <3>2. CASE Wanted(f) /\ Add(f, <<>>)
      <4>1. f \in Names
        BY <1>0, <2>2 DEF Typed
      <4>2. Scans /\ request.single /\ request.files[1] \in Loadable
        BY <1>0, <2>1 DEF LeftRequested, Scans, StackLoaded
      <4>3. f \in Loadable /\ f \in Roots
        BY <3>2, <4>2 DEF Wanted, Roots
      <4>4. f \in Asked
        BY <4>1, <4>3, RootsAsked
      <4>5. CallsIn(<<>>, loaded)
        BY DEF CallsIn
      <4> QED BY <2>1, <3>2, <4>1, <4>3, <4>4, <4>5, AddKeeps
    <3> QED BY <2>2, <3>1, <3>2
  <2>4. left' \in Seq(Names) /\ unscanned' \subseteq Names
    BY <1>0, <2>1, <2>2 DEF Typed
  <2>5. \A i \in DOMAIN left' : \E j \in DOMAIN request.files : left'[i] = request.files[j]
    BY <1>0, <2>1 DEF LeftRequested
  <2> QED BY <2>1, <2>3, <2>4, <2>5, AddingStep
<1>6. CASE ScanEnds
  BY <1>0, <1>6, StackStays, AskedStays
     DEF ScanEnds, IInv, Typed, LeftRequested, OnlyAsked, asked, wiring, Partial
<1>7. CASE BuildGraph
  <2>1. UNCHANGED <<asked, left, unscanned, skipped, stack, loaded, tasks, upstream>> /\ phase' \in {"tasks", "failed"}
    BY <1>7 DEF BuildGraph
  <2>2. Partial(Graph, Names, SUBSET Names)
    BY <1>0 DEF Partial, Graph, Edges
  <2>3. Partial(graph, Names, SUBSET Names)'
    BY <1>0, <1>7, <2>2 DEF BuildGraph, Typed, Partial
  <2>4. Typed'
    BY <1>0, <2>1, <2>3 DEF Typed, asked, Partial
  <2>5. LeftRequested'
    BY <1>0, <2>1 DEF LeftRequested, asked
  <2> QED BY <1>0, <2>1, <2>4, <2>5, StackStays, AskedStays DEF IInv, OnlyAsked
<1>8. CASE CreateTask
  <2>1. UNCHANGED <<asked, left, unscanned, skipped, stack, loaded, graph, upstream>> /\ phase' \in {"tasks", "failed"}
    BY <1>8 DEF CreateTask
  <2>2. tasks' \subseteq Names
    BY <1>0, <1>8 DEF CreateTask, Typed, Partial
  <2>3. Typed'
    BY <1>0, <2>1, <2>2 DEF Typed, asked, Partial
  <2>4. LeftRequested'
    BY <1>0, <2>1 DEF LeftRequested, asked
  <2> QED BY <1>0, <2>1, <2>3, <2>4, StackStays, AskedStays DEF IInv, OnlyAsked
<1>9. CASE SetDependencies
  <2>1. UNCHANGED <<asked, left, unscanned, skipped, stack, loaded, graph, tasks>> /\ phase' = "built"
    BY <1>9 DEF SetDependencies
  <2>2. Partial(upstream, Names, SUBSET Names)'
    BY <1>0, <1>9 DEF SetDependencies, Typed, Partial
  <2>3. Typed'
    BY <1>0, <2>1, <2>2 DEF Typed, asked, Partial
  <2>4. LeftRequested'
    BY <1>0, <2>1 DEF LeftRequested, asked
  <2> QED BY <1>0, <2>1, <2>3, <2>4, StackStays, AskedStays DEF IInv, OnlyAsked
<1>10. CASE UNCHANGED vars
  BY <1>0, <1>10, StackStays, AskedStays
     DEF vars, asked, wiring, IInv, Typed, LeftRequested, Scans, OnlyAsked, Partial
<1> QED BY <1>1, <1>2, <1>3, <1>4, <1>5, <1>6, <1>7, <1>8, <1>9, <1>10 DEF Next, Ended

LEMMA IInvHolds == Spec => []IInv
BY InitIInv, StepIInv, PTL DEF Spec

-------------------------------------------------------------------------------
(* The variables keep their types, and add_manifest ends on every directory,*)
(* with cycles too: its recursion is no deeper than there are manifests.    *)
THEOREM Types == Spec => []TypeOK
<1>1. IInv => TypeOK
  BY TypesOfTyped DEF IInv
<1> QED BY <1>1, IInvHolds, PTL

(* Nothing is loaded that was not asked for: a manifest that merely lies in *)
(* the directory has no part in the DAG (DependencyResolver).               *)
THEOREM LoadsOnlyAsked == Spec => []OnlyAsked
<1>1. IInv => OnlyAsked
  BY DEF IInv
<1> QED BY <1>1, IInvHolds, PTL

-------------------------------------------------------------------------------
(* A dependency waits in one of the calls, or it is loaded.                 *)
Waits(calls, f, d) == \E i \in DOMAIN calls : calls[i].file = f /\ d \in calls[i].todo
Settled(d, L) == d.form = "name" /\ d.value \in L
Tried(calls, L) == \A f \in L : \A d \in dir[f].deps : Settled(d, L) \/ Waits(calls, f, d)

(* Nothing that was asked for is forgotten on the way to the graph.         *)
Complete ==
  /\ stack # <<>> => phase \in {"request", "scan"}
  /\ phase # "failed" /\ skipped = {} => Tried(stack, loaded)
  /\ phase # "failed" =>
       \A j \in DOMAIN request.files :
         request.files[j] \in loaded \/ \E i \in DOMAIN left : left[i] = request.files[j]
  /\ phase \notin {"request", "failed"} => left = <<>>
  /\ phase = "scan" => \A f \in DOMAIN dir : Wanted(f) => f \in loaded \cup unscanned
  /\ phase \in {"graph", "tasks", "built"} =>
       stack = <<>> /\ (Scans => \A f \in DOMAIN dir : Wanted(f) => f \in loaded)

(* The graph and the tasks are made of what is loaded.                      *)
Wired ==
  /\ phase \in {"tasks", "built"} => graph = Graph /\ ClosedGraph(Graph)
  /\ phase \in {"request", "scan", "graph"} => tasks = {}
  /\ phase = "built" => tasks = loaded /\ upstream = [n \in tasks |-> graph[n] \cap tasks]

JInv == IInv /\ Complete /\ Wired

LEMMA WaitsPush ==
  ASSUME NEW calls \in Seq(Frame), NEW new \in Frame, NEW f, NEW d,
         Waits(calls, f, d) \/ (new.file = f /\ d \in new.todo)
  PROVE  Waits(Append(calls, new), f, d)
<1>1. /\ DOMAIN Append(calls, new) = 1..Len(calls) + 1 /\ DOMAIN calls = 1..Len(calls) /\ Len(calls) \in Nat
      /\ Append(calls, new)[Len(calls) + 1] = new
      /\ \A i \in 1..Len(calls) : Append(calls, new)[i] = calls[i]
  OBVIOUS
<1>2. CASE Waits(calls, f, d)
  BY <1>1, <1>2 DEF Waits
<1>3. CASE new.file = f /\ d \in new.todo
  BY <1>1, <1>3 DEF Waits
<1> QED BY <1>2, <1>3

LEMMA WaitsPop ==
  ASSUME stack \in Seq(Frame), stack # <<>>, NEW f, NEW d, Waits(stack, f, d)
  PROVE  Waits(Below, f, d) \/ (Top.file = f /\ d \in Top.todo)
<1>1. Len(stack) \in Nat \ {0} /\ DOMAIN stack = 1..Len(stack)
  OBVIOUS
<1>2. DOMAIN Below = 1..Len(stack) - 1 /\ \A i \in 1..Len(stack) - 1 : Below[i] = stack[i]
  BY <1>1 DEF Below
<1>3. PICK i \in 1..Len(stack) : stack[i].file = f /\ d \in stack[i].todo
  BY <1>1 DEF Waits
<1>4. CASE i = Len(stack)
  BY <1>3, <1>4 DEF Top
<1>5. CASE i # Len(stack)
  <2>1. i \in 1..Len(stack) - 1
    BY <1>1, <1>3, <1>5
  <2> QED BY <1>2, <1>3, <2>1 DEF Waits
<1> QED BY <1>4, <1>5

(* add_manifest(f) puts the dependencies of f on the stack, if f is new.    *)
LEMMA AddTries ==
  ASSUME IInv, UNCHANGED dir, NEW f, NEW below \in Seq(Frame), Add(f, below),
         phase' # "failed", skipped' = {},
         \A g \in loaded : \A d \in dir[g].deps : Settled(d, loaded \cup {f}) \/ Waits(below, g, d)
  PROVE  Tried(stack, loaded)' /\ f \in loaded' /\ skipped = {} /\ phase' = phase
<1>1. CASE f \in loaded /\ stack' = below /\ UNCHANGED <<phase, skipped, loaded>>
  BY <1>1 DEF Tried, Settled, Waits
<1>2. CASE /\ f \in Loadable \ loaded
           /\ loaded' = loaded \cup {f}
           /\ stack' = Append(below, [file |-> f, todo |-> dir[f].deps])
           /\ UNCHANGED <<phase, skipped>>
  <2> DEFINE new == [file |-> f, todo |-> dir[f].deps]
  <2>1. new \in Frame /\ new.file = f /\ new.todo = dir[f].deps
    BY <1>2, Directory DEF Frame, IInv, Typed
  <2> HIDE DEF new
  <2>2. \A g, d : Waits(below, g, d) \/ (g = f /\ d \in dir[f].deps) => Waits(Append(below, new), g, d)
    BY <2>1, WaitsPush
  <2>3. \A g \in loaded' : \A d \in dir[g].deps : Settled(d, loaded') \/ Waits(Append(below, new), g, d)
    BY <1>2, <2>2
  <2>4. stack' = Append(below, new)
    BY <1>2 DEF new
  <2> QED BY <1>2, <2>3, <2>4 DEF Tried, Settled, Waits
<1>3. CASE f \notin Loadable \cup loaded /\ Throw
  BY <1>3 DEF Throw
<1> QED BY <1>1, <1>2, <1>3 DEF Add

LEMMA InitJInv == Init => JInv
<1> SUFFICES ASSUME Init PROVE JInv
  OBVIOUS
<1>1. Complete
  BY DEF Init, Complete, Tried
<1>2. Wired
  BY DEF Init, Wired
<1> QED BY <1>1, <1>2, InitIInv DEF JInv

(* What depends on the directory and the request only.                      *)
LEMMA AskedSame ==
  ASSUME UNCHANGED asked
  PROVE  /\ Scans' = Scans /\ \A f : Wanted(f)' <=> Wanted(f)
         /\ \A f : Edges(f)' = Edges(f)
<1>1. UNCHANGED <<dir, request>>
  BY DEF asked
<1>2. Readable' = Readable
  BY <1>1 DEF Readable
<1>3. Loadable' = Loadable
  BY <1>1, <1>2 DEF Loadable
<1>4. Scans' = Scans
  BY <1>1 DEF Scans
<1>5. \A f : Wanted(f)' <=> Wanted(f)
  BY <1>1, <1>3 DEF Wanted
<1>6. \A f : Edges(f)' = Edges(f)
  BY <1>1 DEF Edges
<1> QED BY <1>4, <1>5, <1>6

(* A step of add_manifest, from AddTries or an exception.                   *)
LEMMA AddingComplete ==
  ASSUME JInv, UNCHANGED <<asked, wiring>>, loaded \subseteq loaded',
         phase \in {"request", "scan"}, phase' \in {phase, "failed"}, phase' = "failed" => stack' = <<>>,
         phase' # "failed" /\ skipped' = {} => Tried(stack, loaded)',
         \A i \in DOMAIN left : left[i] \in loaded' \/ phase' = "failed" \/ \E k \in DOMAIN left' : left'[k] = left[i],
         left = <<>> => left' = <<>>,
         \A f \in unscanned : f \in unscanned' \/ f \in loaded' \/ ~Wanted(f)
  PROVE  Complete' /\ Wired'
<1>1. Wired'
  BY DEF JInv, Wired, wiring
<1>2. phase' # "failed" =>
        \A j \in DOMAIN request.files :
          request.files[j] \in loaded' \/ \E i \in DOMAIN left' : left'[i] = request.files[j]
  BY DEF JInv, Complete
<1>3. phase' = "scan" => left' = <<>> /\ \A f \in DOMAIN dir : Wanted(f) => f \in loaded' \cup unscanned'
  BY DEF JInv, Complete
<1>4. /\ stack' # <<>> => phase' \in {"request", "scan"}
      /\ phase' \notin {"request", "failed"} => left' = <<>>
      /\ phase' \notin {"graph", "tasks", "built"}
  BY DEF JInv, Complete
<1>5. DOMAIN dir' = DOMAIN dir /\ request' = request /\ \A f : Wanted(f)' <=> Wanted(f)
  BY AskedSame DEF asked
<1>6. phase' = "scan" => \A f \in DOMAIN dir' : Wanted(f)' => f \in loaded' \cup unscanned'
  BY <1>3, <1>5
<1>7. Complete'
  BY <1>2, <1>4, <1>5, <1>6 DEF Complete
<1> QED BY <1>1, <1>7

LEMMA StepComplete == JInv /\ [Next]_vars => Complete' /\ Wired'
<1> SUFFICES ASSUME JInv, [Next]_vars PROVE Complete' /\ Wired'
  OBVIOUS
<1>0. /\ IInv /\ Complete /\ Wired /\ stack \in Seq(Frame) /\ left \in Seq(Names)
      /\ loaded \subseteq Names
  BY DEF JInv, IInv, StackLoaded, CallsIn, Typed
<1>1. CASE AddRequested
  <2> DEFINE f == Head(left)
  <2>1. /\ phase = "request" /\ stack = <<>> /\ left # <<>> /\ left' = Tail(left)
        /\ Add(f, <<>>) /\ UNCHANGED <<asked, unscanned, wiring>>
    BY <1>1 DEF AddRequested
  <2>2. \A i \in DOMAIN left : left[i] = f \/ \E k \in DOMAIN left' : left'[k] = left[i]
    <3>1. /\ Len(left) \in Nat \ {0} /\ DOMAIN left = 1..Len(left) /\ f = left[1]
          /\ DOMAIN left' = 1..Len(left) - 1 /\ \A k \in 1..Len(left) - 1 : left'[k] = left[k + 1]
      BY <1>0, <2>1
    <3> SUFFICES ASSUME NEW i \in 2..Len(left) PROVE \E k \in DOMAIN left' : left'[k] = left[i]
      BY <3>1
    <3>2. i - 1 \in 1..Len(left) - 1 /\ (i - 1) + 1 = i
      BY <3>1
    <3> QED BY <3>1, <3>2
  <2> HIDE DEF f
  <2>3. phase' \in {phase, "failed"} /\ loaded \subseteq loaded'
        /\ (phase' # "failed" => f \in loaded') /\ (phase' = "failed" => stack' = <<>>)
    BY <2>1 DEF Add, Throw
  <2>4. ASSUME phase' # "failed", skipped' = {} PROVE Tried(stack, loaded)'
    <3>1. skipped = {}
      BY <2>1, <2>4 DEF Add, Throw
    <3>2. \A g \in loaded : \A d \in dir[g].deps : Settled(d, loaded)
      BY <1>0, <2>1, <3>1 DEF Complete, Tried, Waits
    <3>3. <<>> \in Seq(Frame)
      OBVIOUS
    <3> QED BY <1>0, <2>1, <2>4, <3>2, <3>3, AddTries DEF asked, Settled
  <2>5. \A g \in unscanned : g \in unscanned'
    BY <2>1
  <2> QED BY <2>1, <2>2, <2>3, <2>4, <2>5, AddingComplete
<1>2. CASE AddDependency
  <2>1. stack # <<>> /\ UNCHANGED <<asked, left, unscanned, wiring>> /\ phase \in {"request", "scan"}
    BY <1>0, <1>2 DEF AddDependency, Complete
  <2>2. PICK d \in Top.todo :
           \/ Found(d) = {} /\ Throw
           \/ \E f \in Found(d) : Add(f, Append(Below, [Top EXCEPT !.todo = @ \ {d}]))
    BY <1>2 DEF AddDependency
  <2>3. CASE Throw
    <3>1. /\ phase' \in {phase, "failed"} /\ loaded' = loaded /\ stack' = <<>>
          /\ phase' # "failed" => skipped' # {}
      BY <2>3 DEF Throw
    <3> QED BY <1>0, <2>1, <3>1, AddingComplete
  <2>4. CASE \E f \in Found(d) : Add(f, Append(Below, [Top EXCEPT !.todo = @ \ {d}]))
    <3>1. PICK f \in Found(d) : Add(f, Append(Below, [Top EXCEPT !.todo = @ \ {d}]))
      BY <2>4
    <3>2. /\ phase' \in {phase, "failed"} /\ loaded \subseteq loaded'
          /\ phase' = "failed" => stack' = <<>>
      BY <2>1, <3>1 DEF Add, Throw
    <3> DEFINE new == [Top EXCEPT !.todo = @ \ {d}]
    <3>3. Below \in Seq(Frame) /\ Top \in Frame
      <4>1. Len(stack) \in Nat \ {0} /\ DOMAIN stack = 1..Len(stack)
        BY <1>0, <2>1
      <4> QED BY <1>0, <2>1, <4>1 DEF Below, Top
    <3>4. new \in Frame /\ new.file = Top.file /\ new.todo = Top.todo \ {d}
      BY <3>3 DEF Frame
    <3>5. d.form = "name" /\ d.value = f
      BY <3>1 DEF Found
    <3> HIDE DEF new
    <3>6. ASSUME phase' # "failed", skipped' = {} PROVE Tried(stack, loaded)'
      <4>1. skipped = {} /\ phase # "failed"
        BY <2>1, <3>1, <3>6 DEF Add, Throw
      <4>2. Tried(stack, loaded)
        BY <1>0, <4>1 DEF Complete
      <4>3. ASSUME NEW g \in loaded, NEW e \in dir[g].deps
            PROVE  Settled(e, loaded \cup {f}) \/ Waits(Append(Below, new), g, e)
        <5>1. CASE Settled(e, loaded)
          BY <5>1 DEF Settled
        <5>2. CASE Waits(stack, g, e)
          <6>1. Waits(Below, g, e) \/ (Top.file = g /\ e \in Top.todo)
            BY <1>0, <2>1, <5>2, WaitsPop
          <6>2. CASE e = d
            BY <3>5, <6>2 DEF Settled
          <6>3. CASE e # d
            BY <3>3, <3>4, <6>1, <6>3, WaitsPush
          <6> QED BY <6>2, <6>3
        <5> QED BY <4>2, <5>1, <5>2 DEF Tried
      <4>4. Append(Below, new) \in Seq(Frame)
        BY <3>3, <3>4
      <4>5. Add(f, Append(Below, new))
        BY <3>1 DEF new
      <4>6. UNCHANGED dir
        BY <2>1 DEF asked
      <4> QED BY <1>0, <3>6, <4>3, <4>4, <4>5, <4>6, AddTries
    <3> QED BY <2>1, <3>2, <3>6, AddingComplete
  <2> QED BY <2>2, <2>3, <2>4
<1>3. CASE AddReturns
  <2>1. /\ stack # <<>> /\ Top.todo = {} /\ stack' = Below
        /\ UNCHANGED <<asked, phase, left, unscanned, skipped, loaded, wiring>>
    BY <1>3 DEF AddReturns
  <2>2. \A g, d : Waits(stack, g, d) => Waits(Below, g, d)
    BY <1>0, <2>1, WaitsPop
  <2>3. ASSUME phase' # "failed", skipped' = {} PROVE Tried(stack, loaded)'
    <3>1. Tried(stack, loaded)
      BY <1>0, <2>1, <2>3 DEF Complete
    <3>2. Tried(Below, loaded)
      BY <2>2, <3>1 DEF Tried
    <3>3. UNCHANGED <<dir, loaded>> /\ stack' = Below
      BY <2>1 DEF asked
    <3> HIDE DEF Below
    <3> QED BY <3>2, <3>3 DEF Tried, Settled, Waits
  <2>4. phase \in {"request", "scan"}
    BY <1>0, <2>1 DEF Complete
  <2> QED BY <2>1, <2>3, <2>4, AddingComplete
<1>4. CASE RequestsAdded
  <2>1. /\ phase = "request" /\ stack = <<>> /\ left = <<>>
        /\ UNCHANGED <<asked, left, skipped, stack, loaded, wiring>>
        /\ \/ ~Scans /\ phase' = "graph" /\ UNCHANGED unscanned
           \/ Scans /\ phase' = "scan" /\ unscanned' = DOMAIN dir \ {request.files[1]}
    BY <1>4 DEF RequestsAdded
  <2>2. Scans => request.files[1] \in loaded
    BY <1>0, <2>1 DEF IInv, LeftRequested, Scans
  <2>3. Tried(stack, loaded)' <=> Tried(stack, loaded)
    BY <2>1 DEF Tried, Settled, Waits, asked
  <2>4. Complete'
    BY <1>0, <2>1, <2>2, <2>3, AskedSame DEF Complete, asked
  <2>5. Wired'
    BY <1>0, <2>1 DEF Wired, wiring
  <2> QED BY <2>4, <2>5
<1>5. CASE Scan
  <2>1. phase = "scan" /\ stack = <<>> /\ UNCHANGED <<asked, left, wiring>>
    BY <1>5 DEF Scan
  <2>2. PICK f \in unscanned :
           /\ unscanned' = unscanned \ {f}
           /\ \/ ~Wanted(f) /\ UNCHANGED <<phase, skipped, stack, loaded>>
              \/ Wanted(f) /\ Add(f, <<>>)
    BY <1>5 DEF Scan
  <2>3. CASE ~Wanted(f) /\ UNCHANGED <<phase, skipped, stack, loaded>>
    <3>1. ASSUME phase' # "failed", skipped' = {} PROVE Tried(stack, loaded)'
      BY <1>0, <2>1, <2>3, <3>1 DEF Complete, Tried, asked, Settled, Waits
    <3> QED BY <2>1, <2>2, <2>3, <3>1, AddingComplete
  <2>4. CASE Wanted(f) /\ Add(f, <<>>)
    <3>1. /\ phase' \in {phase, "failed"} /\ loaded \subseteq loaded' /\ f \in loaded'
          /\ phase' = "failed" => stack' = <<>>
      BY <2>1, <2>4 DEF Add, Wanted
    <3>2. ASSUME phase' # "failed", skipped' = {} PROVE Tried(stack, loaded)'
      <4>1. skipped = {}
        BY <2>4, <3>2 DEF Add, Wanted
      <4>2. \A g \in loaded : \A d \in dir[g].deps : Settled(d, loaded)
        BY <1>0, <2>1, <4>1 DEF Complete, Tried, Waits
      <4>3. <<>> \in Seq(Frame)
        OBVIOUS
      <4> QED BY <1>0, <2>1, <2>4, <3>2, <4>2, <4>3, AddTries DEF asked, Settled
    <3> QED BY <2>1, <2>2, <3>1, <3>2, AddingComplete
  <2> QED BY <2>2, <2>3, <2>4
<1>6. CASE ScanEnds
  <2>1. /\ phase = "scan" /\ stack = <<>> /\ unscanned = {} /\ phase' = "graph"
        /\ UNCHANGED <<asked, left, unscanned, skipped, stack, loaded, wiring>>
    BY <1>6 DEF ScanEnds
  <2>2. Tried(stack, loaded)' <=> Tried(stack, loaded)
    BY <2>1 DEF Tried, Settled, Waits, asked
  <2>3. Complete'
    BY <1>0, <2>1, <2>2, AskedSame DEF Complete, asked
  <2>4. Wired'
    BY <1>0, <2>1 DEF Wired, wiring
  <2> QED BY <2>3, <2>4
<1>7. ASSUME UNCHANGED <<asked, left, unscanned, skipped, stack, loaded>>,
             phase \in {"graph", "tasks", "built"}, phase' \in {"graph", "tasks", "built", "failed"}
      PROVE  Complete' /\ Graph' = Graph
  <2>1. Tried(stack, loaded)' <=> Tried(stack, loaded)
    BY <1>7 DEF Tried, Settled, Waits, asked
  <2>2. Graph' = Graph
    BY <1>7, AskedSame DEF Graph
  <2> QED BY <1>0, <1>7, <2>1, <2>2, AskedSame DEF Complete, asked
<1>8. CASE BuildGraph
  <2>1. UNCHANGED <<asked, left, unscanned, skipped, stack, loaded, tasks, upstream>> /\ phase = "graph" /\ phase' \in {"tasks", "failed"}
    BY <1>8 DEF BuildGraph
  <2>2. Complete' /\ Graph' = Graph
    BY <1>7, <2>1
  <2>3. Wired'
    BY <1>0, <1>8, <2>1, <2>2 DEF BuildGraph, Buildable, Wired, ClosedGraph
  <2> QED BY <2>2, <2>3
<1>9. CASE CreateTask
  <2>1. UNCHANGED <<asked, left, unscanned, skipped, stack, loaded, graph, upstream>> /\ phase = "tasks" /\ phase' \in {"tasks", "failed"}
    BY <1>9 DEF CreateTask
  <2>2. Complete' /\ Graph' = Graph
    BY <1>7, <2>1
  <2>3. Wired'
    BY <1>0, <2>1, <2>2 DEF Wired, ClosedGraph
  <2> QED BY <2>2, <2>3
<1>10. CASE SetDependencies
  <2>1. UNCHANGED <<asked, left, unscanned, skipped, stack, loaded, graph, tasks>> /\ phase = "tasks" /\ phase' = "built"
    BY <1>10 DEF SetDependencies
  <2>2. Complete' /\ Graph' = Graph
    BY <1>7, <2>1
  <2>3. tasks = loaded
    BY <1>0, <1>10, <2>1 DEF SetDependencies, Wired, Graph
  <2>4. Wired'
    BY <1>0, <1>10, <2>1, <2>2, <2>3 DEF SetDependencies, Wired, ClosedGraph
  <2> QED BY <2>2, <2>4
<1>11. CASE UNCHANGED vars
  <2>1. Tried(stack, loaded)' <=> Tried(stack, loaded)
    BY <1>11 DEF vars, asked, Tried, Settled, Waits
  <2>2. UNCHANGED <<asked, wiring, phase, left, unscanned, skipped, stack, loaded>>
    BY <1>11 DEF vars
  <2>3. Complete'
    BY <1>0, <2>1, <2>2, AskedSame DEF Complete, asked
  <2>4. Graph' = Graph
    BY <2>2, AskedSame DEF Graph
  <2>5. Wired'
    BY <1>0, <2>2, <2>4 DEF Wired, wiring, ClosedGraph
  <2> QED BY <2>3, <2>5
<1> QED BY <1>1, <1>2, <1>3, <1>4, <1>5, <1>6, <1>8, <1>9, <1>10, <1>11 DEF Next, Ended

LEMMA JInvHolds == Spec => []JInv
<1>1. JInv /\ [Next]_vars => JInv'
  BY StepIInv, StepComplete DEF JInv
<1> QED BY InitJInv, <1>1, PTL DEF Spec

-------------------------------------------------------------------------------
(* A DAG that is built has a task for everything that was asked for, unless *)
(* the scan swallowed an exception.                                         *)
THEOREM BuildsAllAsked == Spec => []AllAsked
<1>1. ASSUME JInv, phase = "built", skipped = {} PROVE tasks = Asked
  <2>1. /\ tasks = loaded /\ stack = <<>> /\ left = <<>> /\ loaded \subseteq Asked
        /\ loaded \subseteq Names /\ loaded \subseteq Loadable
    BY <1>1 DEF JInv, IInv, OnlyAsked, StackLoaded, Typed, Complete, Wired
  <2>2. \A f \in loaded : NamedBy(f) \subseteq loaded
    BY <1>1, <2>1 DEF JInv, Complete, Tried, Settled, Waits, NamedBy
  <2>3. \A j \in DOMAIN request.files : request.files[j] \in loaded
    BY <1>1, <2>1 DEF JInv, Complete
  <2>4. Scans => \A f \in Loadable : Wanted(f) => f \in loaded
    BY <1>1 DEF JInv, Complete, Loadable, Readable
  <2>5. Roots \subseteq loaded
    BY <2>3, <2>4 DEF Roots, Wanted
  <2>6. Asked \subseteq loaded
    BY <2>1, <2>2, <2>5 DEF Asked
  <2> QED BY <2>1, <2>6
<1>2. JInv => AllAsked
  BY <1>1 DEF AllAsked
<1> QED BY <1>2, JInvHolds, PTL

(* The upstream tasks are dependencies the manifest declares, and all of    *)
(* them if it names pipelines only, whatever the scan swallowed.            *)
THEOREM EdgesAreDeclared == Spec => []EdgesDeclared
<1>1. ASSUME JInv, phase = "built", \A f \in Readable : dir[f].name = f, NEW n \in tasks
      PROVE  /\ upstream[n] \subseteq Declared[n]
             /\ (\A d \in dir[n].deps : d.form = "name") => upstream[n] = Declared[n]
  <2>1. /\ tasks = loaded /\ loaded \subseteq Loadable
        /\ graph = Graph /\ ClosedGraph(Graph) /\ upstream = [m \in tasks |-> graph[m] \cap tasks]
    BY <1>1 DEF JInv, IInv, StackLoaded, Wired
  <2>2. upstream[n] = Edges(n)
    BY <2>1 DEF Graph, ClosedGraph
  <2>3. n \in Readable /\ dir[n].deps \subseteq Dep
    BY <1>1, <2>1, Directory DEF JInv, IInv, Typed, Loadable
  <2>4. Chosen = Readable
    <3>1. \A f \in Readable : ~Before(f, f)
      BY DirAssumption DEF Before
    <3> QED BY <1>1, <3>1 DEF Chosen
  <2>5. n \in DOMAIN Discovered /\ Discovered[n] = n
    BY <1>1, <2>3, <2>4 DEF Discovered
  <2>6. Declared[n] = UNION {Denotes(d, Members) : d \in dir[n].deps}
    BY <2>5 DEF Declared, DenoteAll
  <2>7. \A d \in dir[n].deps : d.form \in {"name", "bare_path"} => Denotes(d, Members) = {d.value}
    BY DEF Denotes
  <2>8. Edges(n) \subseteq Declared[n]
    BY <2>6, <2>7 DEF Edges
  <2>9. ASSUME \A d \in dir[n].deps : d.form = "name" PROVE Declared[n] \subseteq Edges(n)
    <3>1. \A d \in dir[n].deps : d.value \in Names /\ Denotes(d, Members) = {d.value}
      BY <2>3, <2>7, <2>9 DEF Dep
    <3> QED BY <2>6, <2>9, <3>1 DEF Edges
  <2> QED BY <2>2, <2>8, <2>9
<1>2. JInv => EdgesDeclared
  BY <1>1 DEF EdgesDeclared
<1> QED BY <1>2, JInvHolds, PTL

-------------------------------------------------------------------------------
(* No task before the groups; and a graph that is built has a first task to *)
(* make, so a group that cannot be made is refused where DagBuild refuses    *)
(* that task.                                                                *)
GroupsFirst ==
  /\ phase \in {"request", "scan", "graph", "tasks", "built", "failed"}
  /\ phase \in {"request", "scan", "graph"} => grouping = None
  /\ phase \in {"request", "scan", "graph", "tasks"} /\ grouping = None => tasks = {}
  /\ phase = "tasks" => \E n \in DOMAIN graph : graph[n] = {}

LEMMA GroupsFirstInit == TaskInit => GroupsFirst
BY DEF TaskInit, Init, GroupsFirst

(* A buildable graph has a node without dependencies.                       *)
LEMMA GraphHasSource == ASSUME Buildable PROVE \E n \in DOMAIN Graph : Graph[n] = {}
<1>1. DOMAIN Graph = loaded /\ loaded # {}
  BY DEF Graph, Buildable
<1>2. PICK n \in DOMAIN Graph : Graph[n] \cap DOMAIN Graph = {}
  BY <1>1 DEF Buildable, AcyclicGraph
<1>3. Graph[n] \subseteq DOMAIN Graph
  BY <1>2 DEF Buildable, ClosedGraph
<1> QED BY <1>2, <1>3

(* Adding changes the phase only to "failed", and neither graph nor tasks.  *)
LEMMA AddingPhase ==
  ASSUME NEW f, NEW below, Add(f, below) \/ Throw
  PROVE  phase' = phase \/ phase' = "failed"
BY DEF Add, Throw

LEMMA GroupsFirstStep == GroupsFirst /\ [TaskNext]_taskVars => GroupsFirst'
<1> SUFFICES ASSUME GroupsFirst, [TaskNext]_taskVars PROVE GroupsFirst'
  OBVIOUS
<1>1. ASSUME UNCHANGED <<grouping, graph, tasks>>, phase' = phase \/ phase' = "failed" PROVE GroupsFirst'
  BY <1>1 DEF GroupsFirst
<1>2. CASE UNCHANGED taskVars
  BY <1>1, <1>2 DEF taskVars, tasking, vars, wiring
<1>3. CASE AddRequested /\ UNCHANGED tasking
  <2>1. phase' = phase \/ phase' = "failed"
    BY <1>3, AddingPhase DEF AddRequested
  <2> QED BY <1>1, <1>3, <2>1 DEF AddRequested, tasking, wiring
<1>4. CASE AddDependency /\ UNCHANGED tasking
  <2>1. phase' = phase \/ phase' = "failed"
    BY <1>4, AddingPhase DEF AddDependency
  <2> QED BY <1>1, <1>4, <2>1 DEF AddDependency, tasking, wiring
<1>5. CASE AddReturns /\ UNCHANGED tasking
  BY <1>1, <1>5 DEF AddReturns, tasking, wiring
<1>6. CASE RequestsAdded /\ UNCHANGED tasking
  BY <1>6 DEF RequestsAdded, tasking, wiring, GroupsFirst
<1>7. CASE Scan /\ UNCHANGED tasking
  <2>1. phase' = phase \/ phase' = "failed"
    BY <1>7, AddingPhase DEF Scan
  <2> QED BY <1>1, <1>7, <2>1 DEF Scan, tasking, wiring
<1>8. CASE ScanEnds /\ UNCHANGED tasking
  BY <1>8 DEF ScanEnds, tasking, wiring, GroupsFirst
<1>9. CASE BuildGraph /\ UNCHANGED tasking
  BY <1>9, GraphHasSource DEF BuildGraph, tasking, GroupsFirst
<1>10. CASE Ended /\ UNCHANGED tasking
  BY <1>1, <1>10 DEF Ended, tasking, vars, wiring
<1>11. CASE CreateTaskGroups
  BY <1>11 DEF CreateTaskGroups, GroupsFirst, None
<1>12. CASE MakeTask
  BY <1>12 DEF MakeTask, CreateTask, GroupsFirst
<1>13. CASE grouping # None /\ SetDependencies /\ UNCHANGED tasking
  BY <1>13 DEF SetDependencies, tasking, GroupsFirst
<1>14. CASE Deploy
  BY <1>1, <1>14 DEF Deploy, vars, wiring
<1> QED
  BY <1>2, <1>3, <1>4, <1>5, <1>6, <1>7, <1>8, <1>9, <1>10, <1>11, <1>12, <1>13, <1>14 DEF TaskNext

-------------------------------------------------------------------------------
LEMMA GroupingStep == ASSUME GroupsFirst, CreateTaskGroups PROVE [Next]_vars
<1>1. CASE phase' = phase
  BY <1>1 DEF CreateTaskGroups, vars, asked, wiring
<1>2. CASE phase' # phase
  <2>1. /\ phase = "tasks" /\ grouping = None /\ phase' = "failed"
        /\ UNCHANGED <<asked, left, unscanned, skipped, stack, loaded, graph, tasks, upstream>>
    BY <1>2 DEF CreateTaskGroups
  <2>2. PICK n \in DOMAIN graph : graph[n] = {}
    BY <2>1 DEF GroupsFirst
  <2>3. n \in DOMAIN graph \ tasks /\ graph[n] \subseteq tasks
    BY <2>1, <2>2 DEF GroupsFirst
  <2>4. CreateTask
    BY <2>1, <2>3 DEF CreateTask
  <2> QED BY <2>4 DEF Next
<1> QED BY <1>1, <1>2

LEMMA TaskStep == GroupsFirst /\ [TaskNext]_taskVars => [Next]_vars
<1> SUFFICES ASSUME GroupsFirst, [TaskNext]_taskVars PROVE [Next]_vars
  OBVIOUS
<1>1. CASE UNCHANGED taskVars
  BY <1>1 DEF taskVars
<1>2. CASE MakeTask
  BY <1>2 DEF MakeTask, Next
<1>3. CASE Deploy
  BY <1>3 DEF Deploy
<1>4. CASE CreateTaskGroups
  BY <1>4, GroupingStep
<1>5. CASE ~CreateTaskGroups /\ ~MakeTask /\ ~Deploy /\ ~UNCHANGED taskVars
  BY <1>5 DEF TaskNext, Next
<1> QED BY <1>1, <1>2, <1>3, <1>4, <1>5

(* The factory adds nothing to what DagBuild allows (DAGBuilder.build,      *)
(* TaskFactory.create_task).                                                *)
THEOREM TasksImplementBuild == TaskSpec => ImplementsDagBuild
<1>1. TaskInit => Init
  BY DEF TaskInit
<1> QED BY <1>1, GroupsFirstInit, GroupsFirstStep, TaskStep, PTL DEF TaskSpec, ImplementsDagBuild, Spec

(* A DAG that is built has a task for everything that was asked for, unless *)
(* the scan swallowed an exception, whatever the settings of the tasks.      *)
THEOREM TasksForAllAsked == TaskSpec => []AllAsked
BY TasksImplementBuild, BuildsAllAsked DEF ImplementsDagBuild

(* The upstream tasks that Airflow gets are declared ones, and all of them  *)
(* if the manifest names pipelines only.                                    *)
THEOREM TaskEdgesDeclared == TaskSpec => []EdgesDeclared
BY TasksImplementBuild, EdgesAreDeclared DEF ImplementsDagBuild
-------------------------------------------------------------------------------
(* What TasksApart says of a task t of the build b, ...                     *)
GivenOf(b) == Given(b.default_task_config)
NumbersOf(b, n) == {s \in DOMAIN Argument : s \in DOMAIN b.section[n]}
Expected(b, n, k) ==
  LET own == {s \in NumbersOf(b, n) : Argument[s] = k}
  IN  IF own # {} THEN {b.section[n][s] : s \in own} ELSE {GivenOf(b)[x] : x \in {k} \cap DOMAIN GivenOf(b)}
Listed(b, n) ==
  IF "requirements" \in DOMAIN b.section[n] THEN b.section[n].requirements ELSE GivenOf(b).requirements
Apart(b, t) ==
  /\ \A k \in {"retries", "retry_delay", "execution_timeout"} :
       {t.arguments[x] : x \in {k} \cap DOMAIN t.arguments} = Expected(b, t.name, k)
  /\ t.virtualenv /\ "requirements" \in DOMAIN GivenOf(b) \cup DOMAIN b.section[t.name] =>
       t.requirements = Listed(b, t.name) \cup {Sqlalchemy}
  /\ t.virtualenv /\ "env" \in DOMAIN GivenOf(b) => t.env = GivenOf(b).env

(* ... and what a task without requirements of its own has: the fallback,   *)
(* until something could be read, and from then on what is kept in c.       *)
Reads(b, t) == t.virtualenv /\ "requirements" \notin DOMAIN b.section[t.name] \cup DOMAIN GivenOf(b)
FallsBack(t) == t.requirements = Fallback \cup {Sqlalchemy}
HasKept(c, t) == c # {} /\ t.requirements = (UNION c) \cup {Sqlalchemy}

MadeInv ==
  /\ \E S : made \in Seq(S)
  /\ defaults = GivenOf(build)
  /\ \A i \in DOMAIN made : Apart(build, made[i])
  /\ \A i \in DOMAIN made : Reads(build, made[i]) => HasKept(cache, made[i]) \/ FallsBack(made[i])
  /\ \A i, j \in DOMAIN made :
       i < j /\ Reads(build, made[i]) /\ Reads(build, made[j]) =>
         made[i].requirements = made[j].requirements \/ FallsBack(made[i])

(* A setting of the manifest under the name that Airflow has for it.        *)
LEMMA ArgumentNames ==
  /\ DOMAIN Argument = {"retries", "retry_delay_minutes", "execution_timeout_hours"}
  /\ \A s \in DOMAIN Argument : Argument[s] \in {"retries", "retry_delay", "execution_timeout"}
  /\ \A s, r \in DOMAIN Argument : Argument[s] = Argument[r] => s = r
BY DEF Argument

LEMMA ConfigKeys ==
  ASSUME NEW n
  PROVE  DOMAIN TaskConfig(n) = {Argument[s] : s \in Numbers(n)} \cup {"configure_logging"}
                                  \cup (Passed \cap DOMAIN Section(n)) \cup DOMAIN defaults
BY DEF TaskConfig, Over

(* A key of a manifest's setting has its value, ...                         *)
LEMMA ConfigNumber ==
  ASSUME NEW n, NEW s \in Numbers(n) PROVE TaskConfig(n)[Argument[s]] = Section(n)[s]
<1> DEFINE a == Argument[s]
           named == [k \in {Argument[x] : x \in Numbers(n)} |-> Section(n)[CHOOSE x \in Numbers(n) : Argument[x] = k]]
<1>1. a \in DOMAIN named
  OBVIOUS
<1>2. TaskConfig(n)[a] = named[a]
  BY <1>1 DEF TaskConfig, Over
<1>3. (CHOOSE x \in Numbers(n) : Argument[x] = a) = s
  BY ArgumentNames DEF Numbers
<1> QED BY <1>1, <1>2, <1>3

(* ... any other key that of the factory's defaults, ...                    *)
LEMMA ConfigDefault ==
  ASSUME NEW n, NEW k \in DOMAIN defaults, k # "configure_logging",
         \A s \in Numbers(n) : Argument[s] # k, k \notin Passed \cap DOMAIN Section(n)
  PROVE  TaskConfig(n)[k] = defaults[k]
BY DEF TaskConfig, Over

(* ... requirements and system_site_packages the manifest's.                *)
LEMMA ConfigPassed ==
  ASSUME NEW n, NEW k \in Passed \cap DOMAIN Section(n)
  PROVE  TaskConfig(n)[k] = Section(n)[k]
<1>1. k # "configure_logging" /\ \A s \in Numbers(n) : Argument[s] # k
  BY ArgumentNames DEF Passed, Numbers
<1> QED BY <1>1 DEF TaskConfig, Over

(* Whatever was made before, a task is what its manifest and the defaults   *)
(* make of it.                                                              *)
LEMMA OperatorApart == ASSUME defaults = GivenOf(build), NEW n PROVE Apart(build, Operator(n))
<1> DEFINE t == Operator(n)
<1>1. /\ t.name = n /\ t.virtualenv = Virtualenv(n) /\ t.arguments = Rest(n)
      /\ t.requirements = IF ~Virtualenv(n) THEN {}
                          ELSE {Sqlalchemy} \cup IF Asks(n) THEN AllRequirements ELSE TaskConfig(n)["requirements"]
      /\ t.env = IF Virtualenv(n) THEN (IF "env" \in DOMAIN TaskConfig(n) THEN TaskConfig(n)["env"] ELSE {}) ELSE {}
  BY DEF Operator
<1> HIDE DEF t
<1>0. NumbersOf(build, n) = Numbers(n) /\ build.section[n] = Section(n)
  BY DEF NumbersOf, Numbers, Section
<1>2. ASSUME NEW k \in {"retries", "retry_delay", "execution_timeout"}
      PROVE  {Rest(n)[x] : x \in {k} \cap DOMAIN Rest(n)} = Expected(build, n, k)
  <2>1. k \notin Own(n) /\ k # "configure_logging" /\ k \notin Passed
    BY DEF Own, Passed
  <2>2. k \in DOMAIN Rest(n) <=> k \in DOMAIN TaskConfig(n)
    BY <2>1 DEF Rest
  <2>3. k \in DOMAIN Rest(n) => Rest(n)[k] = TaskConfig(n)[k]
    BY DEF Rest
  <2>4. CASE \E s \in Numbers(n) : Argument[s] = k
    <3>1. PICK s \in Numbers(n) : Argument[s] = k
      BY <2>4
    <3>2. {r \in Numbers(n) : Argument[r] = k} = {s}
      BY <3>1, ArgumentNames DEF Numbers
    <3>3. Expected(build, n, k) = {Section(n)[s]}
      BY <1>0, <3>2 DEF Expected
    <3>4. k \in DOMAIN TaskConfig(n)
      BY <3>1, ConfigKeys
    <3>5. TaskConfig(n)[k] = Section(n)[s]
      BY <3>1, ConfigNumber
    <3>6. k \in DOMAIN Rest(n) /\ Rest(n)[k] = Section(n)[s]
      BY <2>2, <2>3, <3>4, <3>5
    <3> QED BY <3>3, <3>6
  <2>5. CASE ~\E s \in Numbers(n) : Argument[s] = k
    <3>1. {r \in Numbers(n) : Argument[r] = k} = {}
      BY <2>5
    <3>2. Expected(build, n, k) = {GivenOf(build)[x] : x \in {k} \cap DOMAIN GivenOf(build)}
      BY <1>0, <3>1 DEF Expected
    <3>3. k \in DOMAIN Rest(n) <=> k \in DOMAIN GivenOf(build)
      BY <2>1, <2>2, <2>5, ConfigKeys
    <3>4. k \in DOMAIN GivenOf(build) => Rest(n)[k] = GivenOf(build)[k]
      BY <2>1, <2>3, <2>5, <3>3, ConfigDefault
    <3> QED BY <3>2, <3>3, <3>4
  <2> QED BY <2>4, <2>5
<1>3. ASSUME Virtualenv(n), "requirements" \in DOMAIN GivenOf(build) \cup DOMAIN Section(n)
      PROVE  t.requirements = Listed(build, n) \cup {Sqlalchemy}
  <2>1. "requirements" \in Passed /\ \A s \in Numbers(n) : Argument[s] # "requirements"
    BY ArgumentNames DEF Passed, Numbers
  <2>2. "requirements" \in DOMAIN TaskConfig(n)
    BY <1>3, <2>1, ConfigKeys
  <2>3. t.requirements = {Sqlalchemy} \cup TaskConfig(n)["requirements"]
    BY <1>1, <1>3, <2>2 DEF Asks
  <2>4. CASE "requirements" \in DOMAIN Section(n)
    BY <1>0, <2>1, <2>3, <2>4, ConfigPassed DEF Listed
  <2>5. CASE "requirements" \notin DOMAIN Section(n)
    <3>1. TaskConfig(n)["requirements"] = GivenOf(build)["requirements"]
      BY <1>3, <2>1, <2>5, ConfigDefault
    <3> QED BY <1>0, <2>3, <2>5, <3>1 DEF Listed
  <2> QED BY <2>4, <2>5
<1>4. ASSUME Virtualenv(n), "env" \in DOMAIN GivenOf(build) PROVE t.env = GivenOf(build).env
  <2>1. "env" \notin Passed /\ \A s \in Numbers(n) : Argument[s] # "env"
    BY ArgumentNames DEF Passed, Numbers
  <2>2. "env" \in DOMAIN TaskConfig(n) /\ TaskConfig(n)["env"] = GivenOf(build)["env"]
    BY <1>4, <2>1, ConfigKeys, ConfigDefault
  <2> QED BY <1>1, <1>4, <2>2
<1> QED BY <1>0, <1>1, <1>2, <1>3, <1>4 DEF Apart, t

(* A task without a list of its own gets what is kept, once something is.   *)
LEMMA OperatorReads ==
  ASSUME defaults = GivenOf(build), NEW n, Reads(build, Operator(n))
  PROVE  Asks(n) /\ Operator(n).requirements = AllRequirements \cup {Sqlalchemy}
<1>1. /\ Operator(n).name = n /\ Operator(n).virtualenv = Virtualenv(n)
      /\ Operator(n).requirements = IF ~Virtualenv(n) THEN {}
                          ELSE {Sqlalchemy} \cup IF Asks(n) THEN AllRequirements ELSE TaskConfig(n)["requirements"]
  BY DEF Operator
<1>2. Virtualenv(n) /\ "requirements" \notin DOMAIN Section(n) \cup DOMAIN GivenOf(build)
  BY <1>1 DEF Reads, Section
<1>3. "requirements" \notin DOMAIN TaskConfig(n)
  <2>1. \A s \in Numbers(n) : Argument[s] # "requirements"
    BY ArgumentNames DEF Numbers
  <2> QED BY <1>2, <2>1, ConfigKeys
<1> QED BY <1>1, <1>2, <1>3 DEF Asks

-------------------------------------------------------------------------------
LEMMA MadeKept == ASSUME MadeInv, UNCHANGED <<build, defaults, made, cache>> PROVE MadeInv'
BY DEF MadeInv

LEMMA AppendedTo ==
  ASSUME NEW S, NEW s \in Seq(S), NEW t
  PROVE  /\ Append(s, t) \in Seq(S \cup {t})
         /\ DOMAIN s = 1..Len(s) /\ DOMAIN Append(s, t) = 1..(Len(s) + 1) /\ Len(s) \in Nat
         /\ \A i \in DOMAIN s : Append(s, t)[i] = s[i]
         /\ Append(s, t)[Len(s) + 1] = t
<1>1. s \in Seq(S \cup {t})
  OBVIOUS
<1> QED BY <1>1

LEMMA MakeTaskKeeps == ASSUME MadeInv, MakeTask PROVE MadeInv'
<1>1. CASE UNCHANGED <<defaults, made, cache>>
  BY <1>1, MadeKept DEF MakeTask
<1>2. CASE ~UNCHANGED <<defaults, made, cache>>
  <2>1. PICK n : /\ made' = Append(made, Operator(n))
                 /\ cache' = IF Asks(n) THEN Cached ELSE cache
                 /\ defaults' = defaults /\ build' = build
    BY <1>2 DEF MakeTask, DefaultsAfter
  <2>2. PICK S : made \in Seq(S)
    BY DEF MadeInv
  <2>3. PICK t : t = Operator(n)
    OBVIOUS
  <2>4. PICK l : l = Len(made)
    OBVIOUS
  <2>5. /\ made' \in Seq(S \cup {t})
        /\ DOMAIN made = 1..l /\ DOMAIN made' = 1..(l + 1) /\ l \in Nat
        /\ \A i \in DOMAIN made : made'[i] = made[i]
        /\ made'[l + 1] = t
    BY <2>1, <2>2, <2>3, <2>4, AppendedTo
  <2>6. \A i \in DOMAIN made' : i \in DOMAIN made \/ i = l + 1
    BY <2>5
  <2>7. Apart(build, t)
    BY <2>3, OperatorApart DEF MadeInv
  <2>8. cache # {} => cache' = cache
    BY <2>1 DEF Cached
  <2>9. ASSUME Reads(build, t) PROVE /\ HasKept(cache', t) \/ FallsBack(t)
                                     /\ cache # {} => HasKept(cache', t)
    <3>1. Asks(n) /\ t.requirements = AllRequirements \cup {Sqlalchemy}
      BY <2>3, <2>9, OperatorReads DEF MadeInv
    <3>2. cache' = Cached
      BY <2>1, <3>1
    <3> QED BY <3>1, <3>2, <2>8 DEF HasKept, FallsBack, AllRequirements
  <2>10. \A i \in DOMAIN made' : Apart(build, made'[i])
    BY <2>5, <2>6, <2>7 DEF MadeInv
  <2>11. \A i \in DOMAIN made' : Reads(build, made'[i]) => HasKept(cache', made'[i]) \/ FallsBack(made'[i])
    BY <2>5, <2>6, <2>8, <2>9 DEF MadeInv, HasKept
  <2>12. ASSUME NEW i \in DOMAIN made', NEW j \in DOMAIN made', i < j,
                Reads(build, made'[i]), Reads(build, made'[j])
         PROVE  made'[i].requirements = made'[j].requirements \/ FallsBack(made'[i])
    <3>1. i \in DOMAIN made /\ made'[i] = made[i]
      BY <2>5, <2>12
    <3>2. CASE j \in DOMAIN made
      <4>1. made'[j] = made[j]
        BY <2>5, <3>2
      <4> QED BY <2>12, <3>1, <3>2, <4>1 DEF MadeInv
    <3>3. CASE j = l + 1
      <4>1. HasKept(cache, made[i]) \/ FallsBack(made[i])
        BY <2>12, <3>1 DEF MadeInv
      <4>2. CASE HasKept(cache, made[i])
        <5>1. made'[j] = t /\ cache # {} /\ cache' = cache
          BY <2>5, <2>8, <3>3, <4>2 DEF HasKept
        <5>2. HasKept(cache, t)
          BY <2>9, <2>12, <5>1
        <5> QED BY <3>1, <4>2, <5>1, <5>2 DEF HasKept
      <4> QED BY <3>1, <4>1, <4>2
    <3> QED BY <2>6, <3>2, <3>3
  <2>13. build' = build /\ defaults' = GivenOf(build) /\ \E T : made' \in Seq(T)
    BY <2>1, <2>5 DEF MadeInv
  <2> QED BY <2>10, <2>11, <2>12, <2>13 DEF MadeInv
<1> QED BY <1>1, <1>2

LEMMA MadeHolds == TaskSpec => []MadeInv
<1>1. TaskInit => MadeInv
  <2> SUFFICES ASSUME TaskInit PROVE MadeInv
    OBVIOUS
  <2>1. made = << >> /\ defaults = GivenOf(build)
    BY DEF TaskInit, GivenOf
  <2>2. made \in Seq({}) /\ DOMAIN made = {}
    BY <2>1
  <2> QED BY <2>1, <2>2 DEF MadeInv
<1>2. MadeInv /\ [TaskNext]_taskVars => MadeInv'
  <2> SUFFICES ASSUME MadeInv, [TaskNext]_taskVars PROVE MadeInv'
    OBVIOUS
  <2>1. CASE MakeTask
    BY <2>1, MakeTaskKeeps
  <2>2. CASE UNCHANGED tasking
    BY <2>2, MadeKept DEF tasking
  <2>3. CASE CreateTaskGroups \/ Deploy
    BY <2>3, MadeKept DEF CreateTaskGroups, Deploy
  <2> QED BY <2>1, <2>2, <2>3 DEF TaskNext, taskVars
<1> QED BY <1>1, <1>2, PTL DEF TaskSpec

(* A task's settings are those of its manifest, and the caller's defaults   *)
(* where it has none, whatever tasks were made before it                    *)
(* (_build_task_config, create_operator).                                   *)
THEOREM TasksAreApart == TaskSpec => []TasksApart
<1>1. MadeInv => TasksApart
  <2> SUFFICES ASSUME MadeInv PROVE TasksApart
    OBVIOUS
  <2>1. \A i \in DOMAIN made : Apart(build, made[i])
    BY DEF MadeInv
  <2> QED BY <2>1 DEF TasksApart, Apart, Expected, Listed, GivenOf, NumbersOf, Numbers, Section
<1> QED BY <1>1, MadeHolds, PTL

(* Tasks that leave their requirements to pyproject.toml get the same ones, *)
(* whatever is deployed while they are made, but for those made before      *)
(* anything could be read (load_dependencies).                              *)
THEOREM EnvironmentIsOne == TaskSpec => []OneEnvironment
<1>1. MadeInv => OneEnvironment
  <2> SUFFICES ASSUME MadeInv, NEW i \in DOMAIN made, NEW j \in DOMAIN made, i < j,
                      Reads(build, made[i]), Reads(build, made[j])
               PROVE  made[i].requirements = made[j].requirements \/ FallsBack(made[i])
    BY DEF OneEnvironment, Reads, Section, FallsBack, MadeInv
  <2> QED BY DEF MadeInv
<1> QED BY <1>1, MadeHolds, PTL
===============================================================================
