------------------------- MODULE LineageResolverProofs -------------------------
(***************************************************************************)
(* What holds of LineageResolver for all directories, names and groups, any  *)
(* number of calls and any number of edits: the graph that build_graph       *)
(* returns is sound; it has what the manifests declare, and nothing else as  *)
(* long as nobody edits them. And of DagGeneration, which adds the files of  *)
(* dags generate, for any conventional names and tracked files.              *)
(***************************************************************************)
EXTENDS DagGeneration, TLAPS

(* The lists of the groups have all members, or no others.                  *)
ListsCover == \A g \in Groups : Members[g] \subseteq ListMembers[g]
ListsWithin == \A g \in Groups : ListMembers[g] \subseteq Members[g]

(* Between the steps of build_graph, as long as the directory is what it    *)
(* was when it began, the maps are those of the directory.                  *)
MapsCurrent ==
  seen = edits /\ pc # "idle" =>
    /\ manifestMap = Discovered
    /\ ListsCover
    /\ pc = "resolve" => dependencyMap = Extracted(Discovered)

(* Without edits the lists have nobody who is no member.                    *)
ListsUnedited == edits = 0 => ListsWithin

IInv ==
  /\ dir \in Directories /\ TypeOK
  /\ pc # "idle" => graph = Empty
  /\ pc = "resolve" => DOMAIN dependencyMap = DOMAIN manifestMap
  /\ MapsCurrent /\ ListsUnedited
  /\ GraphDeclared /\ GraphSound /\ RebuildCovers

-------------------------------------------------------------------------------
LEMMA DirTyped == ASSUME dir \in Directories PROVE DirOK
BY ResolverAssumption DEF DirOK

(* A readable file is one of a well-formed manifest.                        *)
LEMMA ReadableManifest ==
  ASSUME DirOK, NEW f \in Readable PROVE f \in Names /\ dir[f] \in Manifest
BY DEF DirOK, Readable

(* What discovery and extraction return is of the types of the maps.        *)
LEMMA DiscoveredTyped ==
  ASSUME DirOK PROVE Partial(Discovered, Names, Names) /\ Members \in [Groups -> SUBSET Names]
<1>1. \A f \in Chosen : f \in Names /\ dir[f].name \in Names
  BY ReadableManifest DEF Chosen, Manifest
<1>2. \A n \in DOMAIN Discovered : \E f \in Chosen : dir[f].name = n
  BY DEF Discovered
<1>3. \A n \in DOMAIN Discovered : Discovered[n] \in Chosen
  BY <1>2 DEF Discovered
<1>4. Partial(Discovered, Names, Names)
  <2>1. DOMAIN Discovered \subseteq Names
    BY <1>1, <1>2
  <2>2. \A n \in DOMAIN Discovered : Discovered[n] \in Names
    BY <1>1, <1>3
  <2>3. Discovered = [n \in DOMAIN Discovered |-> Discovered[n]]
    BY DEF Discovered
  <2> QED BY <2>1, <2>2, <2>3 DEF Partial
<1>5. Members \in [Groups -> SUBSET Names]
  BY <1>1 DEF Members
<1> QED BY <1>4, <1>5

LEMMA ExtractedTyped ==
  ASSUME DirOK, NEW map, Partial(map, Names, Names), Extractable(map)
  PROVE  Partial(Extracted(map), Names, SUBSET Dep)
<1>1. \A n \in DOMAIN map : dir[map[n]] \in Manifest /\ WellFormed(dir[map[n]].deps)
  BY ReadableManifest DEF Extractable
<1>2. \A n \in DOMAIN map : dir[map[n]].deps \in SUBSET Dep
  <2> SUFFICES ASSUME NEW n \in DOMAIN map, NEW d \in dir[map[n]].deps PROVE d \in Dep
    OBVIOUS
  <2>1. d \in Entry
    BY <1>1 DEF Manifest
  <2>2. d.form # "malformed"
    BY <1>1 DEF WellFormed
  <2> QED BY <2>1, <2>2 DEF Entry
<1> QED BY <1>2 DEF Extracted, Partial

(* Adding to the lists adds the members, and only them.                     *)
LEMMA ListingsTyped ==
  ASSUME DirOK, taskGroups \in [Groups -> [Names -> Nat]]
  PROVE  /\ Listings \in [Groups -> [Names -> Nat]]
         /\ \A g \in Groups, n \in Names :
              Listings[g][n] > 0 <=> (taskGroups[g][n] > 0 \/ n \in Members[g])
BY DiscoveredTyped DEF Listings, Added

(* A larger group stands for more, and a dependency for nothing else.       *)
LEMMA DenoteMonotone ==
  ASSUME NEW deps \in SUBSET Dep, NEW G \in [Groups -> SUBSET Names], NEW H \in [Groups -> SUBSET Names],
         \A g \in Groups : G[g] \subseteq H[g]
  PROVE  DenoteAll(deps, G) \subseteq DenoteAll(deps, H)
<1> SUFFICES ASSUME NEW d \in deps PROVE Denotes(d, G) \subseteq Denotes(d, H)
  BY DEF DenoteAll
<1>1. CASE d.form \in {"name", "bare_path"}
  BY <1>1 DEF Denotes
<1>2. CASE d.form \in {"file", "path"}
  BY <1>2 DEF Denotes
<1>3. CASE d.form = "group"
  <2>1. d.value \in Groups
    BY <1>3 DEF Dep
  <2> QED BY <1>3, <2>1 DEF Denotes
<1> QED BY <1>1, <1>2, <1>3 DEF Dep

(* What a graph is resolved to while the maps are those of the directory.   *)
LEMMA ResolvedCurrent ==
  ASSUME IInv, pc = "resolve", seen = edits
  PROVE  /\ DOMAIN Resolved = DOMAIN Declared
         /\ \A n \in DOMAIN Resolved : Declared[n] \subseteq Resolved[n]
         /\ edits = 0 => Resolved = Declared
<1>1. /\ manifestMap = Discovered /\ dependencyMap = Extracted(Discovered)
      /\ \A g \in Groups : Members[g] \subseteq ListMembers[g]
      /\ edits = 0 => \A g \in Groups : ListMembers[g] \subseteq Members[g]
  BY DEF IInv, MapsCurrent, ListsCover, ListsUnedited, ListsWithin
<1>2. Members \in [Groups -> SUBSET Names] /\ ListMembers \in [Groups -> SUBSET Names]
  BY DirTyped, DiscoveredTyped DEF IInv, ListMembers
<1>3. DOMAIN Resolved = DOMAIN Discovered /\ DOMAIN Declared = DOMAIN Discovered
  BY <1>1 DEF Resolved, Declared
<1>4. \A n \in DOMAIN Discovered :
        /\ dependencyMap[n] = dir[Discovered[n]].deps /\ dependencyMap[n] \in SUBSET Dep
        /\ Resolved[n] = DenoteAll(dependencyMap[n], ListMembers)
        /\ Declared[n] = DenoteAll(dependencyMap[n], Members)
  <2>1. Partial(dependencyMap, Names, SUBSET Dep)
    BY DEF IInv, TypeOK
  <2>2. DOMAIN dependencyMap = DOMAIN Discovered
    BY <1>1 DEF Extracted
  <2>3. \A n \in DOMAIN Discovered : dependencyMap[n] = dir[Discovered[n]].deps
    BY <1>1 DEF Extracted
  <2> QED BY <1>1, <2>1, <2>2, <2>3 DEF Partial, Resolved, Declared
<1>5. \A n \in DOMAIN Resolved : Declared[n] \subseteq Resolved[n]
  BY <1>1, <1>2, <1>3, <1>4, DenoteMonotone
<1>6. ASSUME edits = 0 PROVE Resolved = Declared
  <2>1. \A n \in DOMAIN Resolved : Resolved[n] \subseteq Declared[n]
    BY <1>1, <1>2, <1>3, <1>4, <1>6, DenoteMonotone
  <2>2. \A n \in DOMAIN Resolved : Resolved[n] = Declared[n]
    BY <1>5, <2>1
  <2> QED BY <1>3, <2>2 DEF Resolved, Declared
<1> QED BY <1>3, <1>5, <1>6

-------------------------------------------------------------------------------
(* What no step but Edit changes.                                           *)
LEMMA DirStays ==
  ASSUME UNCHANGED dir
  PROVE  /\ Discovered' = Discovered /\ Members' = Members /\ Declared' = Declared
         /\ Extracted(Discovered)' = Extracted(Discovered)
<1>1. Readable' = Readable
  BY DEF Readable
<1>2. Chosen' = Chosen
  BY <1>1 DEF Chosen
<1>3. Discovered' = Discovered /\ Members' = Members
  BY <1>2 DEF Discovered, Members
<1>4. Declared' = Declared
  BY <1>1, <1>3 DEF Declared, DenoteAll, Denotes
<1> QED BY <1>3, <1>4 DEF Extracted

LEMMA GraphStays ==
  ASSUME IInv, UNCHANGED <<dir, graph, edits, seen>>
  PROVE  GraphDeclared' /\ GraphSound' /\ RebuildCovers'
BY DirStays DEF IInv, GraphDeclared, GraphSound, RebuildCovers, ClosedGraph, AcyclicGraph

LEMMA EmptyGraph ==
  ASSUME graph' = Empty PROVE GraphDeclared' /\ GraphSound' /\ RebuildCovers'
BY DEF Empty, GraphDeclared, GraphSound, RebuildCovers, ClosedGraph, AcyclicGraph

(* The lists stay or are added to.                                          *)
LEMMA ListsStep ==
  ASSUME IInv, UNCHANGED <<dir, edits>>, taskGroups' = Listings \/ taskGroups' = taskGroups
  PROVE  /\ taskGroups' \in [Groups -> [Names -> Nat]]
         /\ ListsUnedited'
         /\ ListsCover \/ taskGroups' = Listings => ListsCover'
<1>1. DirOK /\ taskGroups \in [Groups -> [Names -> Nat]]
  BY DirTyped DEF IInv, TypeOK
<1>2. /\ Listings \in [Groups -> [Names -> Nat]]
      /\ \A g \in Groups, n \in Names :
           Listings[g][n] > 0 <=> (taskGroups[g][n] > 0 \/ n \in Members[g])
  BY <1>1, ListingsTyped
<1>3. Members' = Members /\ Members \in [Groups -> SUBSET Names]
  BY <1>1, DirStays, DiscoveredTyped
<1>4. ListsUnedited'
  BY <1>2, <1>3 DEF IInv, ListsUnedited, ListsWithin, ListMembers
<1>5. ListsCover \/ taskGroups' = Listings => ListsCover'
  BY <1>2, <1>3 DEF ListsCover, ListMembers
<1> QED BY <1>1, <1>2, <1>4, <1>5

(* "if not self._manifest_map": what is used is of the type of a map.       *)
LEMMA UsedTyped ==
  ASSUME IInv
  PROVE  /\ Partial(MapUsed, Names, Names)
         /\ ListingsUsed = Listings \/ ListingsUsed = taskGroups
         /\ manifestMap = Discovered => MapUsed = Discovered
BY DirTyped, DiscoveredTyped DEF IInv, TypeOK, MapUsed, ListingsUsed

LEMMA InitIInv == Init => IInv
<1> SUFFICES ASSUME Init PROVE IInv
  OBVIOUS
<1>1. DirOK
  BY DirTyped DEF Init
<1>2. Partial(Empty, Names, Names) /\ Partial(Empty, Names, SUBSET Dep) /\ Partial(Empty, Names, SUBSET Names)
  BY DEF Partial, Empty
<1>3. taskGroups \in [Groups -> [Names -> Nat]] /\ ListsWithin
  BY DEF Init, NoLists, ListsWithin, ListMembers
<1>4. TypeOK
  BY <1>1, <1>2, <1>3, ResolverAssumption DEF Init, TypeOK, Raised
<1>5. GraphDeclared /\ GraphSound /\ RebuildCovers
  BY DEF Init, Empty, GraphDeclared, GraphSound, RebuildCovers, ClosedGraph, AcyclicGraph
<1> QED BY <1>3, <1>4, <1>5 DEF Init, IInv, MapsCurrent, ListsUnedited

-------------------------------------------------------------------------------
LEMMA StepIInv == IInv /\ [Next]_vars => IInv'
<1> SUFFICES ASSUME IInv, [Next]_vars PROVE IInv'
  OBVIOUS
<1>0. /\ dir \in Directories /\ DirOK
      /\ Partial(manifestMap, Names, Names) /\ Partial(dependencyMap, Names, SUBSET Dep)
      /\ edits \in 0..MaxEdits /\ seen \in 0..edits /\ calls \in 0..MaxCalls
      /\ MaxEdits \in Nat /\ MaxCalls \in Nat
      /\ pc \in {"idle", "extract", "resolve"} /\ raised \in Raised
      /\ Partial(graph, Names, SUBSET Names) /\ taskGroups \in [Groups -> [Names -> Nat]]
  BY ResolverAssumption DEF IInv, TypeOK
<1>1. CASE Edit
  <2>1. /\ edits < MaxEdits /\ edits' = edits + 1 /\ dir' \in Directories
        /\ UNCHANGED <<maps, pc, graph, raised, seen, calls>>
    BY <1>1 DEF Edit
  <2>2. DirOK'
    BY <2>1, ResolverAssumption DEF DirOK
  <2>3. seen' # edits' /\ edits' # 0 /\ edits' \in 0..MaxEdits /\ seen' \in 0..edits'
    BY <1>0, <2>1
  <2>4. TypeOK'
    BY <1>0, <2>1, <2>2, <2>3 DEF TypeOK, maps, Partial
  <2> QED BY <2>1, <2>3, <2>4
          DEF IInv, maps, MapsCurrent, ListsUnedited, GraphDeclared, GraphSound, RebuildCovers,
              ClosedGraph, AcyclicGraph
<1>2. ASSUME Call, UNCHANGED <<dir, pc, graph, edits, seen>>,
             taskGroups' = Listings \/ taskGroups' = taskGroups,
             Partial(manifestMap, Names, Names)', Partial(dependencyMap, Names, SUBSET Dep)', raised' \in Raised
      PROVE  IInv'
  <2>1. pc = "idle" /\ calls' \in 0..MaxCalls
    BY <1>0, <1>2 DEF Call
  <2>2. TypeOK'
    BY <1>0, <1>2, <2>1, ListsStep DEF TypeOK, DirOK, Partial
  <2> QED BY <1>2, <2>1, <2>2, ListsStep, GraphStays DEF IInv, MapsCurrent
<1>3. CASE Lookup
  <2>1. Call /\ manifestMap' = MapUsed /\ taskGroups' = ListingsUsed
        /\ UNCHANGED <<dir, dependencyMap, pc, graph, raised, edits, seen>>
    BY <1>3 DEF Lookup
  <2>2. Partial(manifestMap, Names, Names)' /\ Partial(dependencyMap, Names, SUBSET Dep)'
    BY <1>0, <2>1, UsedTyped DEF Partial
  <2> QED BY <1>0, <1>2, <2>1, <2>2, UsedTyped
<1>4. CASE LookupGroup
  <2>1. Call /\ (taskGroups' = Listings \/ taskGroups' = taskGroups)
        /\ UNCHANGED <<dir, manifestMap, dependencyMap, pc, graph, raised, edits, seen>>
    BY <1>4 DEF LookupGroup
  <2>2. Partial(manifestMap, Names, Names)' /\ Partial(dependencyMap, Names, SUBSET Dep)'
    BY <1>0, <2>1 DEF Partial
  <2> QED BY <1>0, <1>2, <2>1, <2>2
<1>5. CASE LookupDependencies
  <2>1. Call /\ UNCHANGED <<dir, pc, graph, edits, seen>>
    BY <1>5 DEF LookupDependencies
  <2>2. CASE dependencyMap # Empty
    <3>1. UNCHANGED maps /\ raised' = "none"
      BY <1>5, <2>2 DEF LookupDependencies
    <3>2. Partial(manifestMap, Names, Names)' /\ Partial(dependencyMap, Names, SUBSET Dep)'
      BY <1>0, <3>1 DEF Partial, maps
    <3> QED BY <1>2, <2>1, <3>1, <3>2 DEF maps, Raised
  <2>3. CASE dependencyMap = Empty
    <3>1. manifestMap' = MapUsed /\ taskGroups' = ListingsUsed
      BY <1>5, <2>3 DEF LookupDependencies
    <3>2. \/ Extractable(MapUsed) /\ dependencyMap' = Extracted(MapUsed) /\ raised' = "none"
          \/ UNCHANGED dependencyMap /\ raised' = "InvalidDependencyError"
      BY <1>5, <2>3 DEF LookupDependencies
    <3>3. Partial(manifestMap, Names, Names)'
      BY <3>1, UsedTyped DEF Partial
    <3>4. Partial(dependencyMap, Names, SUBSET Dep)'
      BY <1>0, <3>2, UsedTyped, ExtractedTyped DEF Partial
    <3> QED BY <1>2, <2>1, <3>1, <3>2, <3>3, <3>4, UsedTyped DEF Raised
  <2> QED BY <2>2, <2>3
<1>6. CASE BuildStart
  <2>1. /\ Call /\ manifestMap' = Discovered /\ taskGroups' = Listings
        /\ pc' = "extract" /\ seen' = edits /\ graph' = Empty /\ raised' = "none"
        /\ UNCHANGED <<dir, dependencyMap, edits>>
    BY <1>6 DEF BuildStart
  <2>2. calls' \in 0..MaxCalls /\ seen' \in 0..edits'
    BY <1>0, <2>1 DEF Call
  <2>3. Partial(manifestMap, Names, Names)' /\ Partial(dependencyMap, Names, SUBSET Dep)'
    BY <1>0, <2>1, DiscoveredTyped DEF Partial
  <2>4. Partial(graph, Names, SUBSET Names)'
    BY <2>1 DEF Partial, Empty
  <2>5. TypeOK'
    BY <1>0, <2>1, <2>2, <2>3, <2>4, ListsStep DEF TypeOK, DirOK, Raised
  <2>6. MapsCurrent'
    BY <2>1, ListsStep, DirStays DEF MapsCurrent
  <2> QED BY <1>0, <2>1, <2>5, <2>6, ListsStep, EmptyGraph DEF IInv
<1>7. CASE BuildExtract
  <2>1. /\ pc = "extract" /\ manifestMap' = MapUsed /\ taskGroups' = ListingsUsed
        /\ UNCHANGED <<dir, graph, edits, seen, calls>>
    BY <1>7 DEF BuildExtract, history
  <2>2. \/ /\ Extractable(MapUsed) /\ dependencyMap' = Extracted(MapUsed)
           /\ pc' = "resolve" /\ UNCHANGED raised
        \/ pc' = "idle" /\ raised' = "InvalidDependencyError" /\ UNCHANGED dependencyMap
    BY <1>7 DEF BuildExtract, Fail
  <2>3. Partial(manifestMap, Names, Names)'
    BY <2>1, UsedTyped DEF Partial
  <2>4. Partial(dependencyMap, Names, SUBSET Dep)'
    BY <1>0, <2>2, UsedTyped, ExtractedTyped DEF Partial
  <2>5. TypeOK'
    BY <1>0, <2>1, <2>2, <2>3, <2>4, UsedTyped, ListsStep DEF TypeOK, DirOK, Raised, Partial
  <2>6. pc' = "resolve" => DOMAIN dependencyMap' = DOMAIN manifestMap'
    BY <2>1, <2>2 DEF Extracted
  <2>7. MapsCurrent'
    <3> SUFFICES ASSUME seen' = edits', pc' # "idle"
                 PROVE  /\ manifestMap' = Discovered' /\ ListsCover'
                        /\ dependencyMap' = Extracted(Discovered)'
      BY DEF MapsCurrent
    <3>1. manifestMap = Discovered /\ ListsCover
      BY <2>1 DEF IInv, MapsCurrent
    <3>2. MapUsed = Discovered
      BY <3>1, UsedTyped
    <3> QED BY <2>1, <2>2, <3>1, <3>2, UsedTyped, ListsStep, DirStays
  <2> QED BY <1>0, <2>1, <2>5, <2>6, <2>7, UsedTyped, ListsStep, GraphStays DEF IInv
<1>8. CASE BuildResolve
  <2>1. /\ pc = "resolve" /\ pc' = "idle" /\ UNCHANGED <<dir, maps, edits, seen, calls>>
        /\ graph = Empty
    BY <1>8 DEF BuildResolve, Fail, history, IInv
  <2>2. ListsUnedited' /\ MapsCurrent'
    BY <2>1, ListsStep DEF MapsCurrent, maps
  <2>3. CASE graph' = graph /\ raised' \in Raised
    <3>1. TypeOK'
      BY <1>0, <2>1, <2>3 DEF TypeOK, DirOK, maps, Partial
    <3> QED BY <1>0, <2>1, <2>2, <2>3, <3>1, EmptyGraph DEF IInv
  <2>4. CASE ClosedGraph(Resolved) /\ AcyclicGraph(Resolved) /\ graph' = Resolved /\ UNCHANGED raised
    <3>1. Partial(graph, Names, SUBSET Names)'
      BY <1>0, <2>4 DEF Partial, Resolved, ClosedGraph
    <3>2. TypeOK'
      BY <1>0, <2>1, <2>4, <3>1 DEF TypeOK, DirOK, maps, Partial
    <3>3. GraphSound'
      BY <2>4 DEF GraphSound, ClosedGraph, AcyclicGraph
    <3>4. Declared' = Declared
      BY <2>1, DirStays
    <3>5. RebuildCovers'
      BY <2>1, <2>4, <3>4, ResolvedCurrent DEF RebuildCovers
    <3>6. GraphDeclared'
      BY <1>0, <2>1, <2>4, <3>4, ResolvedCurrent DEF GraphDeclared
    <3> QED BY <1>0, <2>1, <2>2, <3>2, <3>3, <3>5, <3>6 DEF IInv
  <2> QED BY <1>0, <1>8, <2>3, <2>4 DEF BuildResolve, Fail, Raised
<1>9. CASE UNCHANGED vars
  <2>1. UNCHANGED <<dir, maps, pc, graph, raised, edits, seen, calls>>
    BY <1>9 DEF vars, history
  <2>2. TypeOK'
    BY <1>0, <2>1 DEF TypeOK, DirOK, maps, Partial
  <2>3. taskGroups' = taskGroups /\ manifestMap' = manifestMap /\ dependencyMap' = dependencyMap
    BY <2>1 DEF maps
  <2> QED BY <1>0, <2>1, <2>2, <2>3, ListsStep, GraphStays, DirStays DEF IInv, MapsCurrent
<1> QED BY <1>1, <1>3, <1>4, <1>5, <1>6, <1>7, <1>8, <1>9 DEF Next

LEMMA IInvHolds == Spec => []IInv
BY InitIInv, StepIInv, PTL DEF Spec

-------------------------------------------------------------------------------
(* The maps of the resolver and its graph keep their types.                 *)
THEOREM Types == Spec => []TypeOK
<1>1. IInv => TypeOK
  BY DEF IInv
<1> QED BY <1>1, IInvHolds, PTL

(* As long as nobody edits the directory, a graph of build_graph is the one *)
(* that the manifests declare, whatever was called before.                  *)
THEOREM BuildsDeclared == Spec => []GraphDeclared
<1>1. IInv => GraphDeclared
  BY DEF IInv
<1> QED BY <1>1, IInvHolds, PTL

(* A graph of build_graph has no missing node and no cycle.                 *)
THEOREM BuildsSound == Spec => []GraphSound
<1>1. IInv => GraphSound
  BY DEF IInv
<1> QED BY <1>1, IInvHolds, PTL

(* After any number of edits a graph that was built since has all pipelines *)
(* of the directory and lacks no declared dependency.                       *)
THEOREM RebuildsCover == Spec => []RebuildCovers
<1>1. IInv => RebuildCovers
  BY DEF IInv
<1> QED BY <1>1, IInvHolds, PTL

-------------------------------------------------------------------------------
(* A generation belongs to the edits it has seen; before the first there is *)
(* no complete one.                                                         *)
GenerationInv ==
  /\ edits \in Nat /\ last.edits \in Nat /\ last.edits <= edits
  /\ generations = 0 => last.result # "all"
  /\ generations \in Nat
  /\ Regenerated

(* Whatever is generated, the resolver of the others is used as it is: what  *)
(* holds of every behaviour of LineageResolver holds here.                   *)
THEOREM GenerationResolves == GenerationSpec => Spec
<1>1. GenerationInit => Init
  BY DEF GenerationInit
<1>2. [GenerationNext]_generationVars => [Next]_vars
  BY DEF GenerationNext, generationVars, Generate
<1> QED BY <1>1, <1>2, PTL DEF GenerationSpec, Spec

LEMMA EditsGrow ==
  ASSUME Next, edits \in Nat
  PROVE  edits' \in Nat /\ edits <= edits' /\ (Edit => edits' = edits + 1)
<1>1. CASE Edit
  BY <1>1 DEF Edit
<1>2. CASE ~Edit
  BY <1>2 DEF Next, Lookup, LookupGroup, LookupDependencies, BuildStart, BuildExtract, BuildResolve, history
<1> QED BY <1>1, <1>2

LEMMA RenderedStays ==
  ASSUME UNCHANGED dir
  PROVE  Declared' = Declared /\ \A H, n : Rendered(H, n)' = Rendered(H, n)
BY DEF Rendered, Declared, Discovered, Chosen, Readable, Members, DenoteAll, Denotes

(* A generation that skipped nothing.                                       *)
LEMMA GeneratedAll ==
  ASSUME NEW clean \in BOOLEAN, NEW answers \in BOOLEAN, NEW G, G = Declared, UNCHANGED vars,
         NEW missed, Written(clean, G, missed, answers), last'.result = "all"
  PROVE  Regenerated'
<1> DEFINE made == {FileOf(G, n) : n \in DOMAIN G}
<1>0. missed = {}
  BY DEF Written, Returned
<1>1. /\ out' = [f \in Kept(clean, answers) \cup made |->
                   IF f \in made THEN Rendered(G, f.name) ELSE out[f]]
      /\ last'.clean = clean
  <2>1. DOMAIN G \ missed = DOMAIN G
    BY <1>0
  <2> QED BY <2>1 DEF Written, Returned
<1>2. UNCHANGED dir
  BY DEF vars
<1>3. Declared' = Declared /\ \A H, n : Rendered(H, n)' = Rendered(H, n)
  BY <1>2, RenderedStays
<1>4. \A n \in DOMAIN G : FileOf(G, n) \in made /\ FileOf(G, n).name = n
  BY DEF FileOf
<1> HIDE DEF made
<1>5. ASSUME NEW n \in DOMAIN G
      PROVE  FileOf(G, n) \in DOMAIN out' /\ out'[FileOf(G, n)] = Rendered(G, n)
  BY <1>1, <1>4
<1>6. ASSUME clean, NEW f \in DOMAIN out', f.name \in Conventional, f \notin Tracked
      PROVE  f.name \in DOMAIN G /\ f = FileOf(G, f.name)
  <2>1. f \notin Kept(clean, answers)
    BY <1>6 DEF Kept, Matches, Protected
  <2>2. f \in made
    BY <1>1, <1>6, <2>1
  <2>3. PICK n \in DOMAIN G : f = FileOf(G, n)
    BY <2>2 DEF made
  <2> QED BY <1>4, <2>3
<1> QED BY <1>1, <1>3, <1>5, <1>6 DEF Regenerated

LEMMA GenerationStep == GenerationInv /\ [GenerationNext]_generationVars => GenerationInv'
<1> SUFFICES ASSUME GenerationInv, [GenerationNext]_generationVars PROVE GenerationInv'
  OBVIOUS
<1>1. CASE Generate
  <2>1. edits' = edits /\ UNCHANGED vars /\ generations' = generations + 1
    BY <1>1 DEF Generate, vars, history
  <2>2. PICK clean \in BOOLEAN, result \in {"failed", "some", "all"} : last' = Returned(clean, result)
    <3>1. \A clean, G, missed, answers : Written(clean, G, missed, answers) =>
             \E result \in {"some", "all"} : last' = Returned(clean, result)
      BY DEF Written
    <3> QED BY <1>1, <3>1 DEF Generate
  <2>3. last'.edits = edits /\ last'.result = result
    BY <2>2 DEF Returned
  <2>4. CASE result # "all"
    BY <2>1, <2>3, <2>4 DEF GenerationInv, Regenerated
  <2>5. CASE result = "all"
    <3>1. \A c \in BOOLEAN : last' # Returned(c, "failed")
      BY <2>3, <2>5 DEF Returned
    <3>2. PICK c \in BOOLEAN, G \in {Declared} :
            \E answers \in {TRUE, ~c} : \E missed \in SUBSET DOMAIN G : Written(c, G, missed, answers)
      BY <1>1, <3>1 DEF Generate
    <3>3. PICK answers \in BOOLEAN, missed \in SUBSET DOMAIN G : Written(c, G, missed, answers)
      BY <3>2
    <3>4. G = Declared
      BY <3>2
    <3>5. Regenerated'
      BY <2>1, <2>3, <2>5, <3>3, <3>4, GeneratedAll
    <3> QED BY <2>1, <2>3, <3>5 DEF GenerationInv
  <2> QED BY <2>4, <2>5
<1>2. CASE (generations = 0 \/ Edit) /\ Next /\ UNCHANGED output
  <2>1. UNCHANGED <<out, last, generations>>
    BY <1>2 DEF output
  <2>2. edits' \in Nat /\ edits <= edits' /\ (Edit => edits' = edits + 1)
    BY <1>2, EditsGrow DEF GenerationInv
  <2>3. Regenerated'
    BY <1>2, <2>1, <2>2 DEF GenerationInv, Regenerated
  <2> QED BY <2>1, <2>2, <2>3 DEF GenerationInv
<1>3. CASE UNCHANGED generationVars
  <2>1. UNCHANGED <<dir, edits, out, last, generations>>
    BY <1>3 DEF generationVars, vars, history, output
  <2>2. Declared' = Declared /\ \A H, n : Rendered(H, n)' = Rendered(H, n)
    BY <2>1, RenderedStays
  <2>3. Regenerated'
    BY <2>1, <2>2 DEF GenerationInv, Regenerated
  <2> QED BY <2>1, <2>3 DEF GenerationInv
<1> QED BY <1>1, <1>2, <1>3 DEF GenerationNext

(* After a generation with --clean that skipped nothing each pipeline has its *)
(* file and no other file that git does not track has the name of a pipeline, *)
(* for any directory, conventional names and tracked files                     *)
(* (DAGGenerationService.generate).                                             *)
THEOREM DirectoryRegenerated == GenerationSpec => []Regenerated
<1>1. GenerationInit => GenerationInv
  BY DEF GenerationInit, Init, GenerationInv, Regenerated
<1>2. GenerationInv => Regenerated
  BY DEF GenerationInv
<1> QED BY <1>1, <1>2, GenerationStep, PTL DEF GenerationSpec
===============================================================================
