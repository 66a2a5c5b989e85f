------------------------- MODULE DependencyGraphProofs -------------------------
(***************************************************************************)
(* For every set of names and every choice of depends_on lists: the types,  *)
(* the agreement of the two adjacency structures, that a validated graph    *)
(* has no missing node and no cycle, and that each method answers right.    *)
(***************************************************************************)
EXTENDS DependencyGraph, FiniteSetTheorems, SequenceTheorems, TLAPS

(* Lists made of the elements of a finite set are sequences of them.        *)
LEMMA ListingsType ==
  ASSUME NEW S \in SUBSET Names, NEW s \in Listings(S)
  PROVE  s \in Seq(Names)
<1>1. IsFiniteSet(S)
  BY GraphAssumption, FS_Subset
<1>2. Cardinality(S) \in Nat
  BY <1>1, FS_CardinalityType
<1>3. s \in [1..Cardinality(S) -> Names]
  BY DEF Listings
<1>4. [1..Cardinality(S) -> Names] \subseteq Seq(Names)
  BY <1>2
<1> QED BY <1>3, <1>4

-------------------------------------------------------------------------------
(* The search, while it runs: nodes on the path are the grey ones, each     *)
(* once; a black node has only black dependents; what a node on the path    *)
(* has tried already is black or is next on the path; and the black nodes   *)
(* have no cycle.                                                           *)
Black == {n \in nodes : color[n] = "black"}
Next1(i) == IF i < Len(path) THEN {path[i + 1]} ELSE {}
AcyclicIn(N) == \A S \in SUBSET N : S # {} => \E n \in S : deps[n] \cap S = {}

PathGrey ==
  /\ \A n \in Names : color[n] = "grey" => \E i \in 1..Len(path) : path[i] = n
  /\ \A i \in 1..Len(path) : color[path[i]] = "grey"
  /\ \A i, j \in 1..Len(path) : path[i] = path[j] => i = j

SeenAreNodes == \A n \in Names : color[n] # "white" => n \in nodes
BlackClosed == \A n \in Black : adj[n] \subseteq Black
Tries == \A i \in 1..Len(path) :
  /\ adj[path[i]] \subseteq todo[path[i]] \cup Black \cup Next1(i)
  /\ todo[path[i]] \subseteq adj[path[i]]

SearchInv == PathGrey /\ SeenAreNodes /\ BlackClosed /\ Tries /\ AcyclicIn(Black)

Idle == op # "validate" => color = White /\ path = <<>>

IInv ==
  /\ TypeOK
  /\ AdjacencyInverse
  /\ ValidatedSound
  /\ Idle
  /\ op = "validate" => Closed
  /\ SearchInv

LEMMA InitInv == Init => IInv
<1> SUFFICES ASSUME Init PROVE IInv
  OBVIOUS
<1> USE DEF Init, NoNames, White, Zeros
<1>1. TypeOK
  <2>1. op \in Ops /\ raised \in Raised
    BY DEF Ops, Raised
  <2>2. cycle \in Seq(Names) /\ path \in Seq(Names) /\ queue \in Seq(Names)
    OBVIOUS
  <2>3. result \in Seq(Names) /\ levels \in Seq(SUBSET Names)
    OBVIOUS
  <2>4. inDegree \in [Names -> Int] /\ color \in [Names -> {"white", "grey", "black"}]
    OBVIOUS
  <2> QED BY <2>1, <2>2, <2>3, <2>4 DEF TypeOK
<1>2. AdjacencyInverse
  BY DEF AdjacencyInverse
<1>3. ValidatedSound /\ Idle /\ (op = "validate" => Closed)
  BY DEF ValidatedSound, Idle
<1>4. Black = {}
  BY DEF Black
<1>5. PathGrey /\ SeenAreNodes /\ Tries
  BY DEF PathGrey, SeenAreNodes, Tries
<1>6. BlackClosed /\ AcyclicIn(Black)
  BY <1>4 DEF BlackClosed, AcyclicIn
<1> QED BY <1>1, <1>2, <1>3, <1>5, <1>6 DEF IInv, SearchInv

(* A list of the path from the position of a node on it.                    *)
LEMMA CycleType ==
  ASSUME IInv, NEW d \in Names, BackEdge(d)
  PROVE  CycleFrom(d) \in Seq(Names)
<1> DEFINE first == CHOOSE i \in DOMAIN path : path[i] = d
<1>1. path \in Seq(Names) /\ color[d] = "grey"
  BY DEF IInv, TypeOK, BackEdge
<1>2. \E i \in DOMAIN path : path[i] = d
  BY <1>1 DEF IInv, SearchInv, PathGrey
<1>3. first \in DOMAIN path
  BY <1>2
<1>4. SubSeq(path, first, Len(path)) \in Seq(Names)
  <2>1. \A i \in first..Len(path) : path[i] \in Names
    BY <1>1, <1>3
  <2> QED BY <1>1, <1>3, <2>1, SubSeqProperties
<1> QED BY <1>4 DEF CycleFrom

-------------------------------------------------------------------------------
(* However a method begins or ends, op, raised and cycle are well typed.    *)
MethodTypeOK == op \in Ops /\ raised \in Raised /\ cycle \in Seq(Names)

LEMMA MethodType ==
  ASSUME \/ \E m \in Ops : Begin(m)
         \/ Return
         \/ \E what \in Raised : Raise(what, <<>>)
         \/ \E with \in Seq(Names) : Raise("cycle", with)
  PROVE  MethodTypeOK'
<1>1. <<>> \in Seq(Names)
  OBVIOUS
<1>2. op' \in Ops /\ raised' \in Raised
  BY DEF Begin, Return, Raise, Ops, Raised
<1>3. cycle' \in Seq(Names)
  BY <1>1 DEF Begin, Return, Raise
<1> QED BY <1>2, <1>3 DEF MethodTypeOK

(* Every step keeps the types.                                              *)
LEMMA TypeStep == IInv /\ [Next]_vars => TypeOK'
<1> SUFFICES ASSUME IInv, [Next]_vars PROVE TypeOK'
  OBVIOUS
<1> USE DEF graph, method, search, kahn, closure
<1>0. TypeOK
  BY DEF IInv
<1>1. CASE UNCHANGED vars
  BY <1>0, <1>1 DEF vars, TypeOK
<1>2. ASSUME NEW n \in Names, AddDuplicate(n)
      PROVE  TypeOK'
  <2>1. MethodTypeOK'
    BY <1>2, MethodType DEF AddDuplicate, Raised
  <2> QED BY <1>0, <1>2, <2>1 DEF TypeOK, MethodTypeOK, AddDuplicate
<1>3. ASSUME NEW n \in Names, NEW D \in DepLists, AddNode(n, D)
      PROVE  TypeOK'
  <2>1. D \in SUBSET Names
    BY GraphAssumption
  <2>2. adj' \in [Names -> SUBSET Names] /\ deps' \in [Names -> SUBSET Names]
    BY <1>0, <1>3, <2>1 DEF TypeOK, AddNode
  <2>3. MethodTypeOK'
    BY <1>3, MethodType DEF AddNode
  <2> QED BY <1>0, <1>3, <2>2, <2>3 DEF TypeOK, MethodTypeOK, AddNode
<1>4. CASE ValidateStart
  <2>1. MethodTypeOK'
    BY <1>4, MethodType DEF ValidateStart, Ops
  <2> QED BY <1>0, <1>4, <2>1 DEF TypeOK, MethodTypeOK, ValidateStart
<1>5. ASSUME NEW n \in Names, Root(n) \/ Descend(n)
      PROVE  TypeOK'
  <2>1. path' = Append(path, n) /\ color' = [color EXCEPT ![n] = "grey"]
    BY <1>5 DEF Root, Descend, Enter
  <2>2. path' \in Seq(Names) /\ color' \in [Names -> {"white", "grey", "black"}]
    BY <1>0, <2>1 DEF TypeOK
  <2>3. Tried(n) \in [Names -> SUBSET Names]
    BY <1>0 DEF TypeOK, Tried
  <2>4. todo' \in [Names -> SUBSET Names]
    BY <1>0, <1>5, <2>3 DEF TypeOK, Root, Descend, Enter
  <2> QED BY <1>0, <1>5, <2>2, <2>4 DEF TypeOK, Root, Descend, Enter
<1>6. ASSUME NEW n \in Names, Skip(n)
      PROVE  TypeOK'
  BY <1>0, <1>6 DEF TypeOK, Skip, Tried
<1>7. ASSUME NEW n \in Names, BackEdge(n)
      PROVE  TypeOK'
  <2>1. CycleFrom(n) \in Seq(Names)
    BY <1>7, CycleType
  <2>2. MethodTypeOK'
    BY <1>7, <2>1, MethodType DEF BackEdge
  <2> QED BY <1>0, <1>7, <2>2 DEF TypeOK, MethodTypeOK, BackEdge, DropSearch, White, NoNames
<1>8. CASE Leave
  <2>1. path' \in Seq(Names)
    <3>1. \A i \in 1..(Len(path) - 1) : path[i] \in Names
      BY <1>0 DEF TypeOK
    <3> QED BY <1>0, <1>8, <3>1, SubSeqProperties DEF TypeOK, Leave
  <2> QED BY <1>0, <1>8, <2>1 DEF TypeOK, Leave
<1>9. CASE Accept
  <2>1. MethodTypeOK'
    BY <1>9, MethodType DEF Accept
  <2> QED BY <1>0, <1>9, <2>1 DEF TypeOK, MethodTypeOK, Accept, DropSearch, White, NoNames
<1>10. CASE SortStart
  <2>1. Degrees \in [Names -> Int]
    <3>1. ASSUME NEW n \in Names PROVE Cardinality(deps[n]) \in Int
      BY <1>0, GraphAssumption, FS_Subset, FS_CardinalityType DEF TypeOK
    <3> QED BY <3>1 DEF Degrees
  <2>2. queue' \in Seq(Names)
    BY <1>0, <1>10, ListingsType DEF TypeOK, SortStart, Sources
  <2>3. MethodTypeOK'
    BY <1>10, MethodType DEF SortStart, Ops
  <2> QED BY <1>0, <1>10, <2>1, <2>2, <2>3 DEF TypeOK, MethodTypeOK, SortStart
<1>11. CASE LevelsStart
  <2>1. Degrees \in [Names -> Int]
    <3>1. ASSUME NEW n \in Names PROVE Cardinality(deps[n]) \in Int
      BY <1>0, GraphAssumption, FS_Subset, FS_CardinalityType DEF TypeOK
    <3> QED BY <3>1 DEF Degrees
  <2>2. MethodTypeOK'
    BY <1>11, MethodType DEF LevelsStart, Ops
  <2> QED BY <1>0, <1>11, <2>1, <2>2 DEF TypeOK, MethodTypeOK, LevelsStart, Sources
<1>12. CASE Place
  <2> DEFINE n == Head(queue)
  <2>1. n \in Names /\ Tail(queue) \in Seq(Names)
    BY <1>0, <1>12 DEF TypeOK, Place
  <2>2. result' \in Seq(Names)
    BY <1>0, <1>12, <2>1 DEF TypeOK, Place
  <2>3. PICK s \in Listings(Freed(n)) : queue' = Tail(queue) \o s
    BY <1>12 DEF Place
  <2>4. s \in Seq(Names)
    BY <1>0, <2>1, <2>3, ListingsType DEF TypeOK, Freed
  <2>5. queue' \in Seq(Names)
    BY <2>1, <2>3, <2>4
  <2>6. inDegree' \in [Names -> Int]
    BY <1>0, <1>12 DEF TypeOK, Place
  <2> QED BY <1>0, <1>12, <2>2, <2>5, <2>6 DEF TypeOK, Place
<1>13. CASE SortEnd
  <2>1. MethodTypeOK'
    <3>1. ASSUME NEW left \in Listings(Unplaced) PROVE left \in Seq(Names)
      BY <1>0, ListingsType DEF TypeOK, Unplaced
    <3> QED BY <1>13, <3>1, MethodType DEF SortEnd
  <2>2. queue' \in Seq(Names) /\ result' \in Seq(Names) /\ levels' \in Seq(SUBSET Names)
    BY <1>13 DEF SortEnd, DropKahn
  <2>3. inDegree' \in [Names -> Int] /\ current' \in SUBSET Names
    BY <1>13 DEF SortEnd, DropKahn, Zeros
  <2> QED BY <1>0, <1>13, <2>1, <2>2, <2>3 DEF TypeOK, MethodTypeOK, SortEnd
<1>14. CASE PlaceLevel
  <2>1. ASSUME NEW d \in Names PROVE PlacedNow(d) \in Int
    <3>1. IsFiniteSet({n \in current : d \in adj[n]})
      BY <1>0, GraphAssumption, FS_Subset DEF TypeOK
    <3> QED BY <3>1, FS_CardinalityType DEF PlacedNow
  <2>2. inDegree' \in [Names -> Int]
    BY <1>0, <1>14, <2>1 DEF TypeOK, PlaceLevel
  <2>3. levels' \in Seq(SUBSET Names)
    BY <1>0, <1>14 DEF TypeOK, PlaceLevel
  <2> QED BY <1>0, <1>14, <2>2, <2>3 DEF TypeOK, PlaceLevel
<1>15. CASE LevelsEnd
  <2>1. queue' \in Seq(Names) /\ result' \in Seq(Names) /\ levels' \in Seq(SUBSET Names)
    BY <1>15 DEF LevelsEnd, DropKahn
  <2>2. inDegree' \in [Names -> Int] /\ current' \in SUBSET Names
    BY <1>15 DEF LevelsEnd, DropKahn, Zeros
  <2>3. MethodTypeOK'
    BY <1>15, MethodType DEF LevelsEnd
  <2> QED BY <1>0, <1>15, <2>1, <2>2, <2>3 DEF TypeOK, MethodTypeOK, LevelsEnd
<1>16. ASSUME NEW n \in Names, ClosureStart(n) \/ ClosureStep(n)
       PROVE  TypeOK'
  <2>1. CASE ClosureStart(n)
    <3>1. MethodTypeOK'
      BY <2>1, MethodType DEF ClosureStart, Ops
    <3> QED BY <1>0, <2>1, <3>1 DEF TypeOK, MethodTypeOK, ClosureStart
  <2>2. CASE ClosureStep(n)
    BY <1>0, <2>2 DEF TypeOK, ClosureStep
  <2> QED BY <1>16, <2>1, <2>2
<1>17. CASE ClosureEnd
  <2>1. MethodTypeOK'
    BY <1>17, MethodType DEF ClosureEnd
  <2> QED BY <1>0, <1>17, <2>1 DEF TypeOK, MethodTypeOK, ClosureEnd, DropClosure
<1>18. CASE ValidateMissing \/ RefuseUnvalidated
  <2>1. MethodTypeOK'
    BY <1>18, MethodType DEF ValidateMissing, RefuseUnvalidated, Raised
  <2> QED BY <1>0, <1>18, <2>1 DEF TypeOK, MethodTypeOK, ValidateMissing, RefuseUnvalidated
<1>19. CASE Call
  BY <1>2, <1>3, <1>4, <1>10, <1>11, <1>16, <1>18, <1>19 DEF Call
<1>20. CASE Step
  BY <1>5, <1>6, <1>7, <1>8, <1>9, <1>12, <1>13, <1>14, <1>15, <1>16, <1>17, <1>20 DEF Step
<1> QED BY <1>1, <1>19, <1>20 DEF Next

-------------------------------------------------------------------------------
(* The parts of the invariant that are about the graph and the search.      *)
GraphInv ==
  AdjacencyInverse /\ ValidatedSound /\ Idle /\ (op = "validate" => Closed) /\ SearchInv

(* A step that touches neither the graph nor the search, nor leaves or      *)
(* wrongly enters validate, keeps them.                                     *)
LEMMA Frame ==
  ASSUME IInv, UNCHANGED <<graph, search>>,
         op' = "validate" => Closed, op = "validate" => op' = "validate"
  PROVE  GraphInv'
<1> USE DEF graph, search
<1>1. AdjacencyInverse'
  BY DEF IInv, AdjacencyInverse
<1>2. ValidatedSound'
  BY DEF IInv, ValidatedSound, Closed, Acyclic
<1>3. Idle' /\ (op' = "validate" => Closed')
  BY DEF IInv, Idle, Closed
<1>4. SearchInv'
  BY DEF IInv, SearchInv, PathGrey, SeenAreNodes, BlackClosed, Tries, AcyclicIn, Black, Next1
<1> QED BY <1>1, <1>2, <1>3, <1>4 DEF GraphInv

(* With all nodes white there is nothing to show of the search.             *)
LEMMA ResetSearch ==
  ASSUME TypeOK', color' = White, path' = <<>>
  PROVE  SearchInv'
<1>1. \A n \in Names : color'[n] = "white"
  BY DEF White
<1>2. Black' = {}
  BY <1>1 DEF TypeOK, Black
<1>3. PathGrey' /\ SeenAreNodes' /\ Tries'
  BY <1>1 DEF PathGrey, SeenAreNodes, Tries
<1>4. BlackClosed' /\ AcyclicIn(Black)'
  BY <1>2 DEF BlackClosed, AcyclicIn
<1> QED BY <1>3, <1>4 DEF SearchInv

(* The search goes one node deeper: a root, or a dependent of the top.      *)
LEMMA EnterKeeps ==
  ASSUME IInv, TypeOK', NEW n \in nodes, NEW rest \in [Names -> SUBSET Names],
         color[n] = "white", Enter(n, rest),
         \A i \in 1..Len(path) :
           /\ rest[path[i]] \subseteq todo[path[i]]
           /\ todo[path[i]] \subseteq rest[path[i]] \cup (IF i = Len(path) THEN {n} ELSE {})
  PROVE  SearchInv'
<1>0. TypeOK /\ SearchInv /\ n \in Names
  BY DEF IInv, TypeOK
<1> DEFINE L == Len(path)
<1>1. /\ L \in Nat /\ Len(path') = L + 1 /\ path'[L + 1] = n
      /\ \A i \in 1..L : path'[i] = path[i] /\ path[i] \in Names
  BY <1>0 DEF TypeOK, Enter
<1>2. /\ color'[n] = "grey" /\ \A m \in Names : m # n => color'[m] = color[m]
      /\ nodes' = nodes /\ deps' = deps /\ adj' = adj
  BY <1>0 DEF TypeOK, Enter, graph
<1>3. Black' = Black
  BY <1>0, <1>2 DEF Black, TypeOK
<1>4. \A i \in 1..L : path[i] # n
  BY <1>0 DEF SearchInv, PathGrey
<1>5. PathGrey'
  <2>1. ASSUME NEW m \in Names, color'[m] = "grey"
        PROVE  \E i \in 1..Len(path') : path'[i] = m
    BY <1>0, <1>1, <1>2, <2>1 DEF SearchInv, PathGrey
  <2>2. \A i \in 1..Len(path') : color'[path'[i]] = "grey"
    BY <1>0, <1>1, <1>2, <1>4 DEF SearchInv, PathGrey
  <2>3. \A i, j \in 1..Len(path') : path'[i] = path'[j] => i = j
    BY <1>0, <1>1, <1>4 DEF SearchInv, PathGrey
  <2> QED BY <2>1, <2>2, <2>3 DEF PathGrey
<1>6. SeenAreNodes'
  BY <1>0, <1>2 DEF SearchInv, SeenAreNodes
<1>7. BlackClosed' /\ AcyclicIn(Black)'
  BY <1>0, <1>2, <1>3 DEF SearchInv, BlackClosed, AcyclicIn
<1>8. Tries'
  <2> SUFFICES ASSUME NEW i \in 1..Len(path')
               PROVE  /\ adj'[path'[i]] \subseteq todo'[path'[i]] \cup Black' \cup Next1(i)'
                      /\ todo'[path'[i]] \subseteq adj'[path'[i]]
    BY DEF Tries
  <2>1. todo'[n] = adj[n] /\ \A m \in Names : m # n => todo'[m] = rest[m]
    BY <1>0 DEF Enter
  <2>2. CASE i = L + 1
    BY <1>1, <1>2, <2>1, <2>2
  <2>3. CASE i \in 1..L
    <3>1. path'[i] = path[i] /\ todo'[path[i]] = rest[path[i]]
      BY <1>1, <1>4, <2>1, <2>3
    <3>2. Next1(i)' = Next1(i) \cup (IF i = L THEN {n} ELSE {})
      BY <1>1, <2>3 DEF Next1
    <3>3. /\ adj[path[i]] \subseteq todo[path[i]] \cup Black \cup Next1(i)
          /\ todo[path[i]] \subseteq adj[path[i]]
      BY <1>0, <2>3 DEF SearchInv, Tries
    <3> QED BY <1>2, <1>3, <2>3, <3>1, <3>2, <3>3
  <2> QED BY <1>1, <2>2, <2>3
<1> QED BY <1>5, <1>6, <1>7, <1>8 DEF SearchInv

(* What is left to try is a dependent of the top, and so a node.            *)
LEMMA TryingNode ==
  ASSUME IInv, NEW d \in Names, Trying(d)
  PROVE  d \in nodes /\ Len(path) \in 1..Len(path) /\ Top \in Names
<1>1. Len(path) \in 1..Len(path) /\ Top \in Names
  BY DEF IInv, TypeOK, Trying, Top
<1>2. d \in adj[Top]
  BY <1>1 DEF IInv, SearchInv, Tries, Trying, Top
<1> QED BY <1>1, <1>2 DEF IInv, AdjacencyInverse

(* The visit of the top ends: it is black, and so are its dependents.       *)
LEMMA LeaveKeeps ==
  ASSUME IInv, TypeOK', Leave
  PROVE  SearchInv'
<1>0. TypeOK /\ SearchInv
  BY DEF IInv
<1> DEFINE L == Len(path)
<1>1. /\ L \in Nat \ {0} /\ Len(path') = L - 1 /\ Top = path[L] /\ Top \in Names
      /\ \A i \in 1..(L - 1) : path'[i] = path[i] /\ path[i] \in Names
  <2>1. path \in Seq(Names) /\ path # <<>>
    BY <1>0 DEF TypeOK, Leave
  <2>2. L \in Nat \ {0} /\ \A i \in 1..L : path[i] \in Names
    BY <2>1
  <2>3. path' = SubSeq(path, 1, L - 1) /\ \A i \in 1..(L - 1) : path[i] \in Names
    BY <2>2 DEF Leave
  <2> DEFINE M == L - 1
  <2>4. M \in Nat /\ path' = SubSeq(path, 1, M) /\ \A i \in 1..M : path[i] \in Names
    BY <2>2, <2>3
  <2> HIDE DEF M
  <2>5. /\ Len(SubSeq(path, 1, M)) = IF 1 <= M THEN M - 1 + 1 ELSE 0
        /\ \A i \in 1..(M - 1 + 1) : SubSeq(path, 1, M)[i] = path[1 + i - 1]
    BY <2>4, SubSeqProperties
  <2>6. M - 1 + 1 = M /\ \A i \in 1..M : 1 + i - 1 = i
    BY <2>4
  <2>7. Len(path') = M /\ \A i \in 1..M : path'[i] = path[i]
    BY <2>4, <2>5, <2>6
  <2> QED BY <2>2, <2>7 DEF Top, M
<1>2. /\ color'[Top] = "black" /\ \A m \in Names : m # Top => color'[m] = color[m]
      /\ nodes' = nodes /\ deps' = deps /\ adj' = adj /\ todo' = todo
  BY <1>0, <1>1 DEF TypeOK, Leave, graph
<1>3. color[Top] = "grey" /\ Top \in nodes
  BY <1>0, <1>1 DEF SearchInv, PathGrey, SeenAreNodes
<1>4. Black' = Black \cup {Top}
  BY <1>0, <1>2, <1>3 DEF Black, TypeOK
<1>5. \A i \in 1..(L - 1) : path[i] # Top
  BY <1>0, <1>1 DEF SearchInv, PathGrey
<1>6. adj[Top] \subseteq Black
  <2>1. todo[Top] = {} /\ Next1(L) = {}
    BY <1>1 DEF Leave, Next1
  <2> QED BY <1>0, <1>1, <2>1 DEF SearchInv, Tries
<1>7. PathGrey'
  <2>1. ASSUME NEW m \in Names, color'[m] = "grey"
        PROVE  \E i \in 1..Len(path') : path'[i] = m
    <3>1. PICK i \in 1..L : path[i] = m
      BY <1>0, <1>2, <2>1 DEF SearchInv, PathGrey
    <3>2. i # L
      BY <1>1, <1>2, <2>1, <3>1
    <3> QED BY <1>1, <3>1, <3>2
  <2>2. \A i \in 1..Len(path') : color'[path'[i]] = "grey"
    BY <1>0, <1>1, <1>2, <1>5 DEF SearchInv, PathGrey
  <2>3. \A i, j \in 1..Len(path') : path'[i] = path'[j] => i = j
    BY <1>0, <1>1 DEF SearchInv, PathGrey
  <2> QED BY <2>1, <2>2, <2>3 DEF PathGrey
<1>8. SeenAreNodes'
  BY <1>0, <1>2, <1>3 DEF SearchInv, SeenAreNodes
<1>9. BlackClosed'
  BY <1>0, <1>2, <1>4, <1>6 DEF SearchInv, BlackClosed
<1>10. Tries'
  <2> SUFFICES ASSUME NEW i \in 1..Len(path')
               PROVE  /\ adj'[path'[i]] \subseteq todo'[path'[i]] \cup Black' \cup Next1(i)'
                      /\ todo'[path'[i]] \subseteq adj'[path'[i]]
    BY DEF Tries
  <2>1. i \in 1..(L - 1) /\ i < L /\ path'[i] = path[i]
    BY <1>1
  <2>2. Next1(i) \subseteq Next1(i)' \cup {Top}
    BY <1>1, <2>1 DEF Next1
  <2>3. /\ adj[path[i]] \subseteq todo[path[i]] \cup Black \cup Next1(i)
        /\ todo[path[i]] \subseteq adj[path[i]]
    BY <1>0, <2>1 DEF SearchInv, Tries
  <2> QED BY <1>2, <1>4, <2>1, <2>2, <2>3
<1>11. AcyclicIn(Black)'
  <2> SUFFICES ASSUME NEW S \in SUBSET (Black \cup {Top}), S # {}
               PROVE  \E n \in S : deps[n] \cap S = {}
    BY <1>2, <1>4 DEF AcyclicIn
  <2>1. CASE Top \in S
    <3>1. ASSUME NEW m \in S, m \in deps[Top] PROVE FALSE
      <4>1. m \in Names
        BY <1>1, <1>0 DEF TypeOK, Black
      <4>2. Top \in adj[m]
        BY <1>1, <1>3, <3>1, <4>1 DEF IInv, AdjacencyInverse
      <4>3. Top \notin Black
        BY <1>3 DEF Black
      <4> QED BY <1>0, <1>6, <4>2, <4>3 DEF SearchInv, BlackClosed
    <3> QED BY <2>1, <3>1
  <2>2. CASE Top \notin S
    BY <1>0, <2>2 DEF SearchInv, AcyclicIn
  <2> QED BY <2>1, <2>2
<1> QED BY <1>7, <1>8, <1>9, <1>10, <1>11 DEF SearchInv

(* Every step keeps the invariant of the graph and the search.              *)
LEMMA GraphStep == IInv /\ TypeOK' /\ [Next]_vars => GraphInv'
<1> SUFFICES ASSUME IInv, TypeOK', [Next]_vars PROVE GraphInv'
  OBVIOUS
<1>0. TypeOK /\ AdjacencyInverse /\ ValidatedSound /\ Idle /\ SearchInv
      /\ (op = "validate" => Closed)
  BY DEF IInv
<1>1. CASE UNCHANGED vars
  BY <1>0, <1>1, Frame DEF vars, method
<1>2. ASSUME NEW n \in Names, AddDuplicate(n) \/ ClosureStart(n) \/ ClosureStep(n)
      PROVE  GraphInv'
  BY <1>2, Frame DEF AddDuplicate, ClosureStart, ClosureStep, Begin, Raise, method
<1>3. CASE ValidateMissing \/ RefuseUnvalidated \/ SortStart \/ LevelsStart
  BY <1>3, Frame DEF ValidateMissing, RefuseUnvalidated, SortStart, LevelsStart, Begin, Raise
<1>4. CASE ValidateStart
  BY <1>4, Frame DEF ValidateStart, Begin
<1>5. CASE Place \/ PlaceLevel
  BY <1>5, Frame DEF Place, PlaceLevel, method
<1>6. CASE SortEnd \/ LevelsEnd \/ ClosureEnd
  BY <1>6, Frame DEF SortEnd, LevelsEnd, ClosureEnd, Return, Raise
<1>7. ASSUME NEW n \in Names, NEW D \in DepLists, AddNode(n, D)
      PROVE  GraphInv'
  <2>1. SearchInv'
    BY <1>0, <1>7, ResetSearch DEF AddNode, Idle, search
  <2>2. AdjacencyInverse'
    <3>1. D \subseteq Names
      BY GraphAssumption
    <3> QED BY <1>0, <1>7, <3>1 DEF AdjacencyInverse, AddNode, TypeOK
  <2>3. ValidatedSound' /\ Idle' /\ (op' = "validate" => Closed')
    BY <1>0, <1>7 DEF ValidatedSound, Idle, AddNode, Return, search
  <2> QED BY <2>1, <2>2, <2>3 DEF GraphInv
<1> DEFINE Rest == ValidatedSound' /\ AdjacencyInverse' /\ Idle' /\ (op' = "validate" => Closed')
<1>8. ASSUME op = "validate", UNCHANGED <<graph, method>>
      PROVE  Rest
  BY <1>0, <1>8
    DEF graph, method, ValidatedSound, AdjacencyInverse, Idle, Closed, Acyclic
<1>9. ASSUME NEW n \in Names, Root(n)
      PROVE  GraphInv'
  <2>1. SearchInv'
    <3>1. todo \in [Names -> SUBSET Names] /\ Len(path) = 0
      BY <1>0, <1>9 DEF TypeOK, Root
    <3> QED BY <1>9, <3>1, EnterKeeps DEF Root
  <2>2. Rest
    BY <1>8, <1>9 DEF Root, Enter
  <2> QED BY <2>1, <2>2 DEF GraphInv
<1>10. ASSUME NEW d \in Names, Descend(d)
       PROVE  GraphInv'
  <2>1. SearchInv'
    <3>1. Tried(d) \in [Names -> SUBSET Names]
      BY <1>0 DEF TypeOK, Tried
    <3>2. d \in nodes /\ Len(path) \in 1..Len(path) /\ Top \in Names
      BY <1>10, TryingNode DEF Descend
    <3>3. ASSUME NEW i \in 1..Len(path)
          PROVE  /\ Tried(d)[path[i]] \subseteq todo[path[i]]
                 /\ todo[path[i]] \subseteq
                      Tried(d)[path[i]] \cup (IF i = Len(path) THEN {d} ELSE {})
      <4>1. path[i] \in Names /\ todo[path[i]] \in SUBSET Names
        BY <1>0 DEF TypeOK
      <4>2. CASE i = Len(path)
        BY <1>0, <3>2, <4>1, <4>2 DEF TypeOK, Tried, Top
      <4>3. CASE i # Len(path)
        <5>1. path[i] # Top
          BY <1>0, <3>2, <4>3 DEF SearchInv, PathGrey, Top
        <5> QED BY <1>0, <4>1, <4>3, <5>1 DEF TypeOK, Tried
      <4> QED BY <4>2, <4>3
    <3> QED BY <1>10, <3>1, <3>2, <3>3, EnterKeeps DEF Descend
  <2>2. Rest
    BY <1>8, <1>10 DEF Descend, Trying, Enter
  <2> QED BY <2>1, <2>2 DEF GraphInv
<1>11. ASSUME NEW d \in Names, Skip(d)
       PROVE  GraphInv'
  <2>1. d \in Black /\ Len(path) \in 1..Len(path) /\ Top \in Names
    BY <1>11, TryingNode DEF Skip, Black
  <2>2. UNCHANGED <<nodes, deps, adj, color, path>> /\ todo' = Tried(d)
    BY <1>11 DEF Skip, graph
  <2>3. Tries'
    <3>1. ASSUME NEW i \in 1..Len(path)
          PROVE  /\ todo'[path[i]] \subseteq todo[path[i]]
                 /\ todo[path[i]] \subseteq todo'[path[i]] \cup Black
      <4>1. path[i] \in Names
        BY <1>0 DEF TypeOK
      <4> QED BY <1>0, <2>1, <2>2, <4>1 DEF TypeOK, Tried
    <3>2. Black' = Black /\ \A i \in 1..Len(path) : Next1(i)' = Next1(i)
      BY <2>2 DEF Black, Next1
    <3> QED BY <1>0, <2>2, <3>1, <3>2 DEF SearchInv, Tries
  <2>4. SearchInv'
    BY <1>0, <2>2, <2>3
      DEF SearchInv, PathGrey, SeenAreNodes, BlackClosed, AcyclicIn, Black
  <2>5. Rest
    BY <1>8, <1>11 DEF Skip, Trying
  <2> QED BY <2>4, <2>5 DEF GraphInv
<1>12. ASSUME NEW d \in Names, BackEdge(d)
       PROVE  GraphInv'
  <2>1. SearchInv'
    BY <1>12, ResetSearch DEF BackEdge, DropSearch
  <2>2. Rest
    BY <1>0, <1>12
      DEF BackEdge, Raise, DropSearch, graph, ValidatedSound, AdjacencyInverse, Idle, Closed, Acyclic
  <2> QED BY <2>1, <2>2 DEF GraphInv
<1>13. CASE Leave
  <2>1. SearchInv'
    BY <1>13, LeaveKeeps
  <2>2. Rest
    BY <1>8, <1>13 DEF Leave
  <2> QED BY <2>1, <2>2 DEF GraphInv
<1>14. CASE Accept
  <2>1. SearchInv'
    BY <1>14, ResetSearch DEF Accept, DropSearch
  <2>2. Black = nodes
    <3>1. \A n \in Names : color[n] # "grey"
      BY <1>0, <1>14 DEF Accept, SearchInv, PathGrey
    <3> QED BY <1>0, <1>14, <3>1 DEF Accept, Black, TypeOK
  <2>3. Closed /\ Acyclic
    BY <1>0, <1>14, <2>2 DEF Accept, SearchInv, AcyclicIn, Acyclic
  <2>4. Rest
    BY <1>0, <1>14, <2>3
      DEF Accept, Return, DropSearch, ValidatedSound, AdjacencyInverse, Idle, Closed, Acyclic
  <2> QED BY <2>1, <2>4 DEF GraphInv
<1>15. CASE Call
  BY <1>2, <1>3, <1>4, <1>7, <1>15 DEF Call
<1>16. CASE Step
  BY <1>2, <1>5, <1>6, <1>9, <1>10, <1>11, <1>12, <1>13, <1>14, <1>16 DEF Step
<1> QED BY <1>1, <1>15, <1>16 DEF Next

LEMMA Inductive == IInv /\ [Next]_vars => IInv'
  BY TypeStep, GraphStep DEF IInv, GraphInv

LEMMA Invariant == Spec => []IInv
<1>1. Init => IInv
  BY InitInv
<1>2. IInv /\ [Next]_vars => IInv'
  BY Inductive
<1> QED BY <1>1, <1>2, PTL DEF Spec

-------------------------------------------------------------------------------
(* The variables keep their types (dependency_graph.py).                    *)
THEOREM Types == Spec => []TypeOK
<1>1. IInv => TypeOK
  BY DEF IInv
<1> QED BY <1>1, Invariant, PTL

(* The dependents the graph lists are those that list the node as a         *)
(* dependency, whatever the order of the add_node calls (lines 66-101).     *)
THEOREM AdjacencyAgrees == Spec => []AdjacencyInverse
<1>1. IInv => AdjacencyInverse
  BY DEF IInv
<1> QED BY <1>1, Invariant, PTL

(* A graph that counts as validated has no missing node and no cycle        *)
(* (validate and add_node, lines 95 and 122-183).                           *)
THEOREM Validated == Spec => []ValidatedSound
<1>1. IInv => ValidatedSound
  BY DEF IInv
<1> QED BY <1>1, Invariant, PTL

-------------------------------------------------------------------------------
(* What the methods know of their progress. A node is ready when all its    *)
(* dependencies are placed and it is not; its in-degree is the number of    *)
(* those that are not placed.                                               *)
Ready(P) == {n \in nodes : deps[n] \subseteq P} \ P
Counted(P) == \A n \in Names : inDegree[n] = Cardinality(deps[n] \ P)
Distinct(s) == \A i, j \in DOMAIN s : s[i] = s[j] => i = j

NamesLeadNowhere == \A n \in Names : n \notin nodes => deps[n] = {}
PathLinked == \A i \in 1..(Len(path) - 1) : path[i] \in deps[path[i + 1]]

(* The sort: ready nodes wait in the queue, each once.                      *)
Sorting ==
  /\ validated
  /\ Counted(Elements(result))
  /\ Elements(queue) = Ready(Elements(result))
  /\ Elements(result) \subseteq nodes
  /\ Distinct(queue) /\ Distinct(result)
  /\ \A i \in DOMAIN result : deps[result[i]] \subseteq Before(result, i)
SortInv == IF op = "sort" THEN Sorting ELSE result = <<>>

(* The levels: the ready nodes are the next level, and what made them ready *)
(* is in the level before.                                                  *)
Leveling ==
  /\ validated
  /\ Counted(UNION Elements(levels))
  /\ current = Ready(UNION Elements(levels))
  /\ UNION Elements(levels) \subseteq nodes
  /\ \A i \in DOMAIN levels : \A n \in levels[i] :
       /\ deps[n] \subseteq UNION Before(levels, i)
       /\ i > 1 => deps[n] \cap levels[i - 1] # {}
  /\ levels # <<>> => \A n \in current : deps[n] \cap levels[Len(levels)] # {}
LevelInv == IF op = "levels" THEN Leveling ELSE levels = <<>>

(* The closure: what is seen or waits is needed, and nothing is lost.       *)
Direct == UNION {deps[n] : n \in asked}
Closing ==
  /\ Direct \subseteq visited \cup pending
  /\ \A n \in visited : deps[n] \subseteq visited \cup pending
  /\ \A S \in SUBSET Names :
       Direct \subseteq S /\ (\A n \in S : deps[n] \subseteq S) => visited \cup pending \subseteq S
ClosureInv == IF op = "closure" THEN Closing ELSE visited = {}

Progress ==
  /\ NamesLeadNowhere /\ PathLinked
  /\ SortInv /\ LevelInv /\ ClosureInv
  /\ CycleGenuine

LEMMA InitProgress == Init => Progress
<1> SUFFICES ASSUME Init PROVE Progress
  OBVIOUS
<1>1. NamesLeadNowhere /\ PathLinked
  BY DEF Init, NoNames, NamesLeadNowhere, PathLinked
<1>2. SortInv /\ LevelInv /\ ClosureInv /\ CycleGenuine
  BY DEF Init, SortInv, LevelInv, ClosureInv, CycleGenuine
<1> QED BY <1>1, <1>2 DEF Progress

-------------------------------------------------------------------------------
(* Sets of names are finite.                                                *)
LEMMA Finite == ASSUME NEW S \in SUBSET Names PROVE IsFiniteSet(S) /\ Cardinality(S) \in Nat
BY GraphAssumption, FS_Subset, FS_CardinalityType

(* A listing of a set has all its elements, each once.                      *)
LEMMA ListingsAll ==
  ASSUME NEW S \in SUBSET Names, NEW s \in Listings(S)
  PROVE  s \in Seq(Names) /\ Elements(s) = S /\ Distinct(s)
<1>1. IsFiniteSet(S) /\ Cardinality(S) \in Nat
  BY Finite
<1> DEFINE C == Cardinality(S)
<1>2. s \in [1..C -> S] /\ DOMAIN s = 1..C /\ Distinct(s)
  BY DEF Listings, Distinct
<1>3. s \in Injection(1..C, S)
  BY <1>2 DEF Injection, IsInjective, Distinct
<1>4. Cardinality(1..C) = C
  BY <1>1, FS_Interval
<1>5. s \in Surjection(1..C, S)
  BY <1>1, <1>3, <1>4, FS_Injection
<1>6. Elements(s) = S
  BY <1>2, <1>5 DEF Elements, Surjection
<1> QED BY <1>2, <1>6, ListingsType

(* Without repetitions, a sequence is as long as it has elements.           *)
LEMMA DistinctLength ==
  ASSUME NEW s \in Seq(Names), Distinct(s)
  PROVE  Len(s) = Cardinality(Elements(s))
<1>1. Len(s) \in Nat /\ DOMAIN s = 1..Len(s) /\ s \in [1..Len(s) -> Names]
  OBVIOUS
<1>2. Elements(s) \in SUBSET Names
  BY <1>1 DEF Elements
<1>3. s \in [1..Len(s) -> Elements(s)]
  BY <1>1 DEF Elements
<1>4. s \in Surjection(1..Len(s), Elements(s))
  BY <1>1, <1>3 DEF Elements, Surjection
<1>5. s \in Injection(1..Len(s), Elements(s))
  BY <1>1, <1>3 DEF Injection, IsInjective, Distinct
<1>6. Cardinality(1..Len(s)) = Len(s) /\ IsFiniteSet(1..Len(s))
  BY <1>1, FS_Interval
<1> QED BY <1>4, <1>5, <1>6, FS_Surjection

(* Of a graph without cycles in which nothing is ready, all is placed.      *)
LEMMA AllPlaced ==
  ASSUME Closed, Acyclic, NEW P \in SUBSET nodes, Ready(P) = {}
  PROVE  P = nodes
<1> SUFFICES ASSUME nodes \ P # {} PROVE FALSE
  OBVIOUS
<1>1. PICK n \in nodes \ P : deps[n] \cap (nodes \ P) = {}
  BY DEF Acyclic
<1>2. deps[n] \subseteq P
  BY <1>1 DEF Closed
<1> QED BY <1>1, <1>2 DEF Ready

LEMMA DegreesCounted ==
  ASSUME TypeOK, NamesLeadNowhere, inDegree' = Degrees, deps' = deps
  PROVE  Counted({})'
<1>1. ASSUME NEW n \in Names PROVE inDegree'[n] = Cardinality(deps[n] \ {})
  <2>1. deps[n] \ {} = deps[n]
    OBVIOUS
  <2>2. inDegree'[n] = IF n \in nodes THEN Cardinality(deps[n]) ELSE 0
    BY DEF Degrees
  <2>3. CASE n \in nodes
    BY <2>1, <2>2, <2>3
  <2>4. CASE n \notin nodes
    BY <2>1, <2>2, <2>4, FS_EmptySet DEF NamesLeadNowhere
  <2> QED BY <2>3, <2>4
<1> QED BY <1>1 DEF Counted

(* A node counts the dependencies that are placed now off.                  *)
LEMMA CountOff ==
  ASSUME TypeOK, NEW d \in Names, NEW P, NEW Q \in SUBSET Names, Q \cap P = {}
  PROVE  Cardinality(deps[d] \ (P \cup Q)) = Cardinality(deps[d] \ P) - Cardinality(deps[d] \cap Q)
<1>1. deps[d] \ P \in SUBSET Names
  BY DEF TypeOK
<1>2. IsFiniteSet(deps[d] \ P)
  BY <1>1, Finite
<1>3. Cardinality((deps[d] \ P) \ Q) = Cardinality(deps[d] \ P) - Cardinality((deps[d] \ P) \cap Q)
  BY <1>2, FS_Difference
<1>4. (deps[d] \ P) \ Q = deps[d] \ (P \cup Q) /\ (deps[d] \ P) \cap Q = deps[d] \cap Q
  OBVIOUS
<1> QED BY <1>3, <1>4

-------------------------------------------------------------------------------
(* The cycle that is reported goes from a node on the path to the top, and  *)
(* back.                                                                    *)
LEMMA CycleOfPath ==
  ASSUME IInv, PathLinked, NEW d \in Names, BackEdge(d)
  PROVE  CycleGenuine'
<1> DEFINE first == CHOOSE i \in DOMAIN path : path[i] = d
           L == Len(path)
           part == SubSeq(path, first, L)
<1>1. path \in Seq(Names) /\ L \in Nat /\ L \in 1..L /\ DOMAIN path = 1..L
  BY TryingNode DEF IInv, TypeOK, BackEdge
<1>2. \E i \in DOMAIN path : path[i] = d
  BY <1>1 DEF IInv, SearchInv, PathGrey, BackEdge
<1>3. first \in 1..L /\ path[first] = d
  BY <1>1, <1>2
<1>4. path[L] \in deps[d]
  <2>1. d \in adj[path[L]] /\ path[L] \in Names
    BY <1>1 DEF IInv, SearchInv, Tries, BackEdge, Trying, Top
  <2> QED BY <2>1 DEF IInv, AdjacencyInverse
<1> HIDE DEF first, L
<1> DEFINE M == L - first + 1
<1>5. /\ part \in Seq(Names) /\ Len(part) = M /\ M \in Nat \ {0}
      /\ \A i \in 1..M : part[i] = path[first + i - 1]
  <2>1. first \in Int /\ L \in Int /\ first <= L /\ \A i \in first..L : path[i] \in Names
    BY <1>1, <1>3 DEF L
  <2>2. /\ part \in Seq(Names) /\ Len(part) = IF first <= L THEN L - first + 1 ELSE 0
        /\ \A i \in 1..(L - first + 1) : part[i] = path[first + i - 1]
    BY <2>1, SubSeqProperties
  <2> QED BY <2>1, <2>2
<1>6. /\ cycle' = Append(part, d) /\ deps' = deps
  BY DEF BackEdge, Raise, CycleFrom, graph, first, L
<1> HIDE DEF part
<1>7. /\ Len(cycle') = M + 1 /\ cycle'[M + 1] = d /\ \A i \in 1..M : cycle'[i] = part[i]
  BY <1>5, <1>6
<1>8. cycle'[1] = d
  <2>1. first + 1 - 1 = first
    BY <1>3, <1>1
  <2> QED BY <1>3, <1>5, <1>7, <2>1
<1>9. ASSUME NEW i \in 1..M PROVE cycle'[i] \in deps[cycle'[i + 1]]
  <2>1. CASE i = M
    <3>1. first + i - 1 = L
      BY <1>1, <1>3, <2>1
    <3> QED BY <1>4, <1>5, <1>7, <2>1, <3>1
  <2>2. CASE i # M
    <3>1. i + 1 \in 1..M /\ first + (i + 1) - 1 = (first + i - 1) + 1 /\ first + i - 1 \in 1..(L - 1)
      BY <1>1, <1>3, <1>5, <2>2
    <3>2. cycle'[i] = path[first + i - 1] /\ cycle'[i + 1] = path[(first + i - 1) + 1]
      BY <1>5, <1>7, <3>1
    <3> QED BY <3>1, <3>2 DEF PathLinked, L
  <2> QED BY <2>1, <2>2
<1>10. Len(cycle') > 1 /\ Len(cycle') - 1 = M
  BY <1>5, <1>7
<1> QED BY <1>5, <1>6, <1>7, <1>8, <1>9, <1>10 DEF CycleGenuine

-------------------------------------------------------------------------------
(* Taking the head of a queue and appending a list of others.               *)
LEMMA Requeued ==
  ASSUME NEW q \in Seq(Names), q # <<>>, Distinct(q),
         NEW s \in Seq(Names), Distinct(s), Elements(s) \cap Elements(q) = {}
  PROVE  /\ Elements(Tail(q) \o s) = (Elements(q) \ {Head(q)}) \cup Elements(s)
         /\ Distinct(Tail(q) \o s)
<1> DEFINE T == Len(Tail(q))
           r == Tail(q) \o s
<1>1. /\ T \in Nat /\ DOMAIN q = 1..(T + 1) /\ q[1] = Head(q)
      /\ Len(s) \in Nat /\ DOMAIN s = 1..Len(s) /\ DOMAIN r = 1..(T + Len(s))
      /\ \A i \in 1..T : r[i] = q[i + 1]
      /\ \A i \in 1..Len(s) : r[T + i] = s[i]
  <2>1. /\ Tail(q) \in Seq(Names) /\ Len(Tail(q)) = Len(q) - 1 /\ Len(q) \in Nat
        /\ \A i \in 1..Len(Tail(q)) : Tail(q)[i] = q[i + 1]
    BY HeadTailProperties
  <2>2. /\ r \in Seq(Names) /\ Len(r) = T + Len(s)
        /\ \A i \in 1..(T + Len(s)) : r[i] = IF i <= T THEN Tail(q)[i] ELSE s[i - T]
    BY <2>1, ConcatProperties
  <2>3. T \in Nat /\ Len(s) \in Nat /\ DOMAIN q = 1..(T + 1) /\ DOMAIN s = 1..Len(s) /\ DOMAIN r = 1..(T + Len(s))
    BY <2>1, <2>2
  <2>4. \A i \in 1..T : i \in 1..(T + Len(s)) /\ i <= T
    BY <2>3
  <2>5. \A i \in 1..Len(s) : T + i \in 1..(T + Len(s)) /\ ~(T + i <= T) /\ (T + i) - T = i
    BY <2>3
  <2> HIDE DEF T, r
  <2>6. \A i \in 1..T : r[i] = q[i + 1]
    BY <2>1, <2>2, <2>4 DEF T
  <2>7. \A i \in 1..Len(s) : r[T + i] = s[i]
    BY <2>2, <2>5
  <2> QED BY <2>3, <2>6, <2>7
<1> HIDE DEF T, r
<1>2. ASSUME NEW i \in DOMAIN r
      PROVE  i \in 1..T \/ \E j \in 1..Len(s) : i = T + j
  <2>1. i \in 1..T \/ (i - T \in 1..Len(s) /\ i = T + (i - T))
    BY <1>1
  <2> QED BY <2>1
<1>3. ASSUME NEW i \in 1..T
      PROVE  /\ i + 1 \in DOMAIN q /\ q[i + 1] # Head(q) /\ i \in DOMAIN r
             /\ r[i] \in Elements(q)
  <2>1. i + 1 \in DOMAIN q /\ 1 \in DOMAIN q /\ i + 1 # 1 /\ i \in DOMAIN r
    BY <1>1
  <2> QED BY <1>1, <2>1 DEF Distinct, Elements
<1>4. ASSUME NEW i \in 1..Len(s)
      PROVE  T + i \in DOMAIN r /\ r[T + i] \in Elements(s) /\ r[T + i] = s[i]
  BY <1>1 DEF Elements
<1>5. Elements(r) \subseteq (Elements(q) \ {Head(q)}) \cup Elements(s)
  <2>1. ASSUME NEW i \in DOMAIN r PROVE r[i] \in (Elements(q) \ {Head(q)}) \cup Elements(s)
    BY <1>1, <1>2, <1>3, <1>4
  <2> QED BY <2>1 DEF Elements
<1>6. (Elements(q) \ {Head(q)}) \cup Elements(s) \subseteq Elements(r)
  <2>1. ASSUME NEW i \in DOMAIN q, q[i] # Head(q) PROVE q[i] \in Elements(r)
    <3>1. i - 1 \in 1..T /\ (i - 1) + 1 = i
      BY <1>1, <2>1
    <3>2. i - 1 \in DOMAIN r /\ r[i - 1] = q[i]
      BY <1>1, <1>3, <3>1
    <3> QED BY <3>2 DEF Elements
  <2>2. ASSUME NEW i \in DOMAIN s PROVE s[i] \in Elements(r)
    BY <1>1, <1>4 DEF Elements
  <2> QED BY <2>1, <2>2 DEF Elements
<1>7. ASSUME NEW i \in DOMAIN r, NEW j \in DOMAIN r, r[i] = r[j] PROVE i = j
  <2>1. CASE i \in 1..T /\ j \in 1..T
    <3>1. i + 1 = j + 1
      BY <1>1, <1>3, <1>7, <2>1 DEF Distinct
    <3> QED BY <2>1, <3>1, <1>1
  <2>2. CASE i \notin 1..T /\ j \notin 1..T
    <3>1. PICK a \in 1..Len(s), b \in 1..Len(s) : i = T + a /\ j = T + b
      BY <1>2, <2>2
    <3>2. a = b
      BY <1>1, <1>4, <1>7, <3>1 DEF Distinct
    <3> QED BY <3>1, <3>2
  <2>3. CASE (i \in 1..T /\ j \notin 1..T) \/ (i \notin 1..T /\ j \in 1..T)
    BY <1>2, <1>3, <1>4, <1>7, <2>3
  <2> QED BY <2>1, <2>2, <2>3
<1> QED BY <1>5, <1>6, <1>7 DEF Distinct, r

-------------------------------------------------------------------------------
(* The sort begins with the nodes that depend on nothing.                   *)
LEMMA SortBegins ==
  ASSUME IInv, Progress, SortStart
  PROVE  Sorting'
<1>1. /\ UNCHANGED <<nodes, deps, validated, result>> /\ result = <<>> /\ validated
      /\ TypeOK /\ inDegree' = Degrees
  BY DEF IInv, Progress, SortInv, SortStart, Begin, graph
<1>2. Elements(result') = {} /\ Distinct(result')
  BY <1>1 DEF Elements, Distinct
<1>3. Counted(Elements(result))'
  BY <1>1, <1>2, DegreesCounted DEF Progress, Counted
<1>4. Elements(queue') = Sources /\ Distinct(queue')
  BY <1>1, ListingsAll DEF TypeOK, Sources, SortStart
<1>5. Ready(Elements(result))' = Sources
  BY <1>1, <1>2 DEF Ready, Sources
<1> QED BY <1>1, <1>2, <1>3, <1>4, <1>5 DEF Sorting

(* Placing the head of the queue.                                           *)
LEMMA PlaceKeeps ==
  ASSUME IInv, Progress, Place
  PROVE  Sorting'
<1> DEFINE n == Head(queue)
           P == Elements(result)
           L == Len(result)
<1>0. TypeOK /\ Sorting /\ AdjacencyInverse
  BY DEF IInv, Progress, SortInv, Place
<1>1. PICK s \in Listings(Freed(n)) : queue' = Tail(queue) \o s
  BY DEF Place
<1>2. /\ queue \in Seq(Names) /\ queue # <<>> /\ n = queue[1] /\ n \in Elements(queue)
      /\ Tail(queue) \in Seq(Names) /\ Len(Tail(queue)) = Len(queue) - 1
      /\ \A i \in 1..(Len(queue) - 1) : Tail(queue)[i] = queue[i + 1]
  BY <1>0, HeadTailProperties DEF TypeOK, Place, Elements
<1>3. n \in nodes /\ n \in Names /\ deps[n] \subseteq P /\ n \notin P
  BY <1>0, <1>2 DEF Sorting, Ready, TypeOK
<1>4. UNCHANGED <<nodes, deps, adj, validated>> /\ result' = Append(result, n)
  BY DEF Place, graph
<1>5. /\ L \in Nat /\ Len(result') = L + 1 /\ result'[L + 1] = n
      /\ DOMAIN result = 1..L /\ DOMAIN result' = 1..(L + 1)
      /\ \A i \in 1..L : result'[i] = result[i] /\ result[i] \in P
  BY <1>0, <1>4 DEF TypeOK, Elements
<1>6. Elements(result') = P \cup {n}
  <2>1. \A i \in 1..(L + 1) : i \in 1..L \/ i = L + 1
    BY <1>5
  <2> QED BY <1>5, <2>1 DEF Elements
<1>7. ASSUME NEW m \in P PROVE deps[m] \subseteq P /\ m \in nodes
  <2>1. PICK i \in 1..L : m = result[i]
    BY <1>5 DEF Elements
  <2>2. deps[m] \subseteq Before(result, i)
    BY <1>0, <1>5, <2>1 DEF Sorting
  <2>3. Before(result, i) \subseteq P
    BY <1>5, <2>1 DEF Before, Elements
  <2> QED BY <1>0, <2>2, <2>3 DEF Sorting
<1>8. Distinct(result')
  BY <1>0, <1>3, <1>5 DEF Sorting, Distinct
<1>9. ASSUME NEW i \in DOMAIN result' PROVE deps[result'[i]] \subseteq Before(result', i)
  <2>1. CASE i = L + 1
    <3>1. Before(result', i) = P
      BY <1>5, <2>1 DEF Before, Elements
    <3> QED BY <1>3, <1>5, <2>1, <3>1
  <2>2. CASE i \in 1..L
    <3>1. Before(result', i) = Before(result, i)
      BY <1>5, <2>2 DEF Before
    <3> QED BY <1>0, <1>5, <2>2, <3>1 DEF Sorting
  <2> QED BY <1>5, <2>1, <2>2
<1>10. ASSUME NEW d \in Names
       PROVE  /\ d \in adj[n] <=> n \in deps[d]
              /\ inDegree[d] = Cardinality(deps[d] \ P)
              /\ inDegree'[d] = IF d \in adj[n] THEN inDegree[d] - 1 ELSE inDegree[d]
  BY <1>0, <1>3 DEF Sorting, Counted, AdjacencyInverse, Progress, NamesLeadNowhere, Place
<1>11. ASSUME NEW d \in Names PROVE inDegree'[d] = Cardinality(deps[d] \ (P \cup {n}))
  <2>1. IsFiniteSet(deps[d] \ P)
    BY <1>0, Finite DEF TypeOK
  <2>2. Cardinality((deps[d] \ P) \ {n}) =
          IF n \in deps[d] \ P THEN Cardinality(deps[d] \ P) - 1 ELSE Cardinality(deps[d] \ P)
    BY <2>1, FS_RemoveElement
  <2>3. (deps[d] \ P) \ {n} = deps[d] \ (P \cup {n})
    OBVIOUS
  <2> QED BY <1>3, <1>10, <2>2, <2>3
<1>12. Counted(Elements(result))'
  BY <1>4, <1>6, <1>11 DEF Counted
<1>13. ASSUME NEW d \in Names
       PROVE  d \in Freed(n) <=> deps[d] \ P = {n}
  <2>1. IsFiniteSet(deps[d] \ P)
    BY <1>0, Finite DEF TypeOK
  <2>2. CASE d \in Freed(n)
    <3>1. n \in deps[d] \ P /\ Cardinality(deps[d] \ P) = 1
      BY <1>3, <1>10, <2>2 DEF Freed
    <3>2. PICK x : deps[d] \ P = {x}
      BY <2>1, <3>1, FS_Singleton
    <3> QED BY <2>2, <3>1, <3>2
  <2>3. CASE deps[d] \ P = {n}
    <3>1. n \in deps[d] /\ Cardinality(deps[d] \ P) = 1
      BY <2>3, FS_Singleton
    <3> QED BY <1>10, <2>3, <3>1 DEF Freed
  <2> QED BY <2>2, <2>3
<1>14. Freed(n) \subseteq nodes /\ Freed(n) \in SUBSET Names
  BY <1>0, <1>3 DEF Freed, AdjacencyInverse, TypeOK
<1>15. Ready(P \cup {n}) = (Elements(queue) \ {n}) \cup Freed(n)
  <2>1. ASSUME NEW d \in Ready(P \cup {n}) PROVE d \in (Elements(queue) \ {n}) \cup Freed(n)
    <3>1. d \in Names /\ d \in nodes /\ d \notin P /\ d # n /\ deps[d] \subseteq P \cup {n}
      BY <1>0, <2>1 DEF Ready, TypeOK
    <3>2. CASE n \in deps[d]
      BY <1>3, <1>13, <3>1, <3>2
    <3>3. CASE n \notin deps[d]
      BY <1>0, <3>1, <3>3 DEF Sorting, Ready
    <3> QED BY <3>2, <3>3
  <2>2. ASSUME NEW d \in Elements(queue) \ {n} PROVE d \in Ready(P \cup {n})
    BY <1>0, <2>2 DEF Sorting, Ready
  <2>3. ASSUME NEW d \in Freed(n) PROVE d \in Ready(P \cup {n})
    <3>1. d \in Names /\ d \in nodes /\ deps[d] \ P = {n}
      BY <1>13, <1>14, <2>3
    <3>2. d \notin P /\ d # n
      BY <1>3, <1>7, <3>1
    <3> QED BY <3>1, <3>2 DEF Ready
  <2> QED BY <2>1, <2>2, <2>3
<1>16. s \in Seq(Names) /\ Elements(s) = Freed(n) /\ Distinct(s)
  BY <1>1, <1>14, ListingsAll
<1>17. Freed(n) \cap Elements(queue) = {}
  <2> SUFFICES ASSUME NEW d \in Freed(n), d \in Elements(queue) PROVE FALSE
    OBVIOUS
  <2>1. deps[d] \subseteq P /\ deps[d] \ P = {n}
    BY <1>0, <1>13, <1>14 DEF Sorting, Ready
  <2> QED BY <2>1
<1>18. Elements(queue') = (Elements(queue) \ {n}) \cup Freed(n) /\ Distinct(queue')
  BY <1>0, <1>1, <1>2, <1>16, <1>17, Requeued DEF Sorting
<1>19. Elements(queue') = Ready(Elements(result))'
  BY <1>4, <1>6, <1>15, <1>18 DEF Ready
<1>20. validated' /\ Elements(result') \subseteq nodes'
  BY <1>0, <1>3, <1>4, <1>6 DEF Sorting
<1> QED BY <1>4, <1>8, <1>9, <1>12, <1>18, <1>19, <1>20 DEF Sorting

(* So when the queue is empty, everything is placed, and nothing is raised. *)
LEMMA SortComplete ==
  ASSUME IInv, Progress, op = "sort", queue = <<>>
  PROVE  Elements(result) = nodes /\ Len(result) = Cardinality(nodes)
<1>1. Sorting /\ TypeOK /\ Closed /\ Acyclic
  BY DEF IInv, Progress, SortInv, Sorting, ValidatedSound
<1>2. Elements(queue) = {}
  BY DEF Elements
<1>3. Elements(result) = nodes
  BY <1>1, <1>2, AllPlaced DEF Sorting
<1> QED BY <1>1, <1>3, DistinctLength DEF Sorting, TypeOK

-------------------------------------------------------------------------------
(* The first level: the nodes that depend on nothing.                       *)
LEMMA LevelsBegin ==
  ASSUME IInv, Progress, LevelsStart
  PROVE  Leveling'
<1>1. /\ UNCHANGED <<nodes, deps, validated, levels>> /\ levels = <<>> /\ validated
      /\ TypeOK /\ inDegree' = Degrees /\ current' = Sources
  BY DEF IInv, Progress, LevelInv, LevelsStart, Begin, graph
<1>2. UNION Elements(levels') = {} /\ DOMAIN levels' = {}
  BY <1>1 DEF Elements
<1>3. Counted(UNION Elements(levels))'
  BY <1>1, <1>2, DegreesCounted DEF Progress, Counted
<1>4. current' = Ready(UNION Elements(levels))'
  BY <1>1, <1>2 DEF Ready, Sources
<1> QED BY <1>1, <1>2, <1>3, <1>4 DEF Leveling

(* The next level.                                                          *)
LEMMA PlaceLevelKeeps ==
  ASSUME IInv, Progress, PlaceLevel
  PROVE  Leveling'
<1> DEFINE P == UNION Elements(levels)
           L == Len(levels)
<1>0. TypeOK /\ Leveling /\ AdjacencyInverse
  BY DEF IInv, Progress, LevelInv, PlaceLevel
<1>1. UNCHANGED <<nodes, deps, adj, validated>> /\ levels' = Append(levels, current)
  BY DEF PlaceLevel, graph
<1>2. /\ L \in Nat /\ Len(levels') = L + 1 /\ levels'[L + 1] = current
      /\ DOMAIN levels = 1..L /\ DOMAIN levels' = 1..(L + 1)
      /\ \A i \in 1..L : levels'[i] = levels[i] /\ levels[i] \subseteq P
  BY <1>0, <1>1 DEF TypeOK, Elements
<1> HIDE DEF L
<1>3. UNION Elements(levels') = P \cup current
  <2>1. \A i \in 1..(L + 1) : i \in 1..L \/ i = L + 1
    BY <1>2
  <2>2. \A i \in 1..L : i \in 1..(L + 1)
    BY <1>2
  <2>3. L + 1 \in 1..(L + 1)
    BY <1>2
  <2>4. Elements(levels') = Elements(levels) \cup {current}
    BY <1>2, <2>1, <2>2, <2>3 DEF Elements
  <2> QED BY <2>4
<1>4. current \in SUBSET Names /\ current \subseteq nodes /\ current \cap P = {}
      /\ \A m \in current : deps[m] \subseteq P
  BY <1>0 DEF Leveling, Ready, TypeOK
<1>5. ASSUME NEW m \in P PROVE deps[m] \subseteq P /\ m \in nodes
  <2>1. PICK i \in 1..L : m \in levels[i]
    BY <1>2 DEF Elements
  <2>2. deps[m] \subseteq UNION Before(levels, i)
    BY <1>0, <1>2, <2>1 DEF Leveling
  <2>3. \A k \in 1..(i - 1) : k \in 1..L
    BY <1>2, <2>1
  <2>4. UNION Before(levels, i) \subseteq P
    BY <1>2, <2>3 DEF Before
  <2> QED BY <1>0, <2>2, <2>4 DEF Leveling
<1>6. ASSUME NEW d \in Names
      PROVE  /\ PlacedNow(d) = Cardinality(deps[d] \cap current)
             /\ PlacedNow(d) \in Nat
             /\ PlacedNow(d) = 0 <=> deps[d] \cap current = {}
             /\ inDegree[d] = Cardinality(deps[d] \ P)
             /\ Cardinality(deps[d] \ P) \in Nat
             /\ Cardinality(deps[d] \ (P \cup current)) = inDegree[d] - PlacedNow(d)
             /\ Cardinality(deps[d] \ (P \cup current)) = 0 <=> deps[d] \subseteq P \cup current
  <2>1. {m \in current : d \in adj[m]} = deps[d] \cap current
    BY <1>0, <1>4 DEF AdjacencyInverse, Progress, NamesLeadNowhere
  <2>2. /\ deps[d] \cap current \in SUBSET Names /\ deps[d] \ P \in SUBSET Names
        /\ deps[d] \ (P \cup current) \in SUBSET Names
    BY <1>0 DEF TypeOK
  <2>3. /\ IsFiniteSet(deps[d] \cap current) /\ Cardinality(deps[d] \cap current) \in Nat
        /\ Cardinality(deps[d] \ P) \in Nat /\ IsFiniteSet(deps[d] \ (P \cup current))
    BY <2>2, Finite
  <2>4. PlacedNow(d) = Cardinality(deps[d] \cap current)
    BY <2>1 DEF PlacedNow
  <2>5. inDegree[d] = Cardinality(deps[d] \ P)
    BY <1>0 DEF Leveling, Counted
  <2>6. Cardinality(deps[d] \ (P \cup current)) = inDegree[d] - PlacedNow(d)
    <3> HIDE DEF P
    <3>1. Cardinality(deps[d] \ (P \cup current)) = Cardinality(deps[d] \ P) - Cardinality(deps[d] \cap current)
      BY <1>0, <1>4, CountOff
    <3> QED BY <2>4, <2>5, <3>1
  <2>7. PlacedNow(d) = 0 <=> deps[d] \cap current = {}
    BY <2>3, <2>4, FS_EmptySet
  <2>8. Cardinality(deps[d] \ (P \cup current)) = 0 <=> deps[d] \ (P \cup current) = {}
    BY <2>3, FS_EmptySet
  <2> QED BY <2>3, <2>4, <2>5, <2>6, <2>7, <2>8
<1>7. ASSUME NEW d \in Names
      PROVE  d \in current' <=> deps[d] \cap current # {} /\ deps[d] \subseteq P \cup current
  <2>1. d \in current' <=> PlacedNow(d) # 0 /\ inDegree[d] = PlacedNow(d)
    BY DEF PlaceLevel
  <2>2. inDegree[d] = PlacedNow(d) <=> inDegree[d] - PlacedNow(d) = 0
    <3>1. inDegree[d] \in Nat /\ PlacedNow(d) \in Nat
      BY <1>6
    <3> QED BY <3>1
  <2> QED BY <1>6, <2>1, <2>2
<1>8. Counted(UNION Elements(levels))'
  <2>1. ASSUME NEW d \in Names PROVE inDegree'[d] = Cardinality(deps'[d] \ UNION Elements(levels'))
    <3>1. inDegree'[d] = inDegree[d] - PlacedNow(d)
      BY DEF PlaceLevel
    <3> QED BY <1>1, <1>3, <1>6, <3>1
  <2> QED BY <2>1 DEF Counted
<1>9. current' = Ready(P \cup current)
  <2>1. ASSUME NEW d \in current' PROVE d \in Ready(P \cup current)
    <3>1. d \in Names /\ deps[d] \cap current # {} /\ deps[d] \subseteq P \cup current
      BY <1>7, <2>1 DEF PlaceLevel
    <3>2. d \in nodes
      BY <3>1 DEF Progress, NamesLeadNowhere
    <3>3. d \notin P /\ d \notin current
      BY <1>4, <1>5, <3>1
    <3> QED BY <3>1, <3>2, <3>3 DEF Ready
  <2>2. ASSUME NEW d \in Ready(P \cup current) PROVE d \in current'
    <3>1. d \in Names /\ d \in nodes /\ deps[d] \subseteq P \cup current /\ d \notin P /\ d \notin current
      BY <1>0, <2>2 DEF Ready, TypeOK
    <3>2. ~(deps[d] \subseteq P)
      BY <1>0, <3>1 DEF Leveling, Ready
    <3> QED BY <1>7, <3>1, <3>2
  <2> QED BY <2>1, <2>2
<1>10. current' = Ready(UNION Elements(levels))'
  BY <1>1, <1>3, <1>9 DEF Ready
<1>11. ASSUME NEW i \in DOMAIN levels', NEW m \in levels'[i]
       PROVE  /\ deps'[m] \subseteq UNION Before(levels', i)
              /\ i > 1 => deps'[m] \cap levels'[i - 1] # {}
  <2>1. CASE i = L + 1
    <3>1. m \in current /\ i - 1 = L
      BY <1>2, <2>1
    <3>2. UNION Before(levels', i) = P
      BY <1>2, <2>1, <3>1 DEF Before, Elements
    <3>3. i > 1 => levels # <<>> /\ L \in 1..L
      BY <1>2, <2>1
    <3>4. i > 1 => deps[m] \cap levels[L] # {}
      BY <1>0, <3>1, <3>3 DEF Leveling, L
    <3> QED BY <1>1, <1>2, <1>4, <3>1, <3>2, <3>3, <3>4
  <2>2. CASE i \in 1..L
    <3>1. (\A k \in 1..(i - 1) : k \in 1..L) /\ (i > 1 => i - 1 \in 1..L)
      BY <1>2, <2>2
    <3>2. Before(levels', i) = Before(levels, i)
      BY <1>2, <3>1 DEF Before
    <3>3. m \in levels[i] /\ i \in DOMAIN levels
      BY <1>2, <2>2
    <3>4. deps[m] \subseteq UNION Before(levels, i) /\ (i > 1 => deps[m] \cap levels[i - 1] # {})
      BY <1>0, <3>3 DEF Leveling
    <3> QED BY <1>1, <1>2, <3>1, <3>2, <3>4
  <2> QED BY <1>2, <2>1, <2>2
<1>12. \A m \in current' : deps'[m] \cap levels'[Len(levels')] # {}
  <2>1. ASSUME NEW m \in current' PROVE deps[m] \cap current # {}
    BY <1>7, <2>1 DEF PlaceLevel
  <2> QED BY <1>1, <1>2, <2>1
<1>13. validated' /\ UNION Elements(levels') \subseteq nodes'
  BY <1>0, <1>1, <1>3, <1>4 DEF Leveling
<1> QED BY <1>8, <1>10, <1>11, <1>12, <1>13 DEF Leveling

LEMMA LevelsComplete ==
  ASSUME IInv, Progress, op = "levels", current = {}
  PROVE  UNION Elements(levels) = nodes
<1>1. Leveling /\ Closed /\ Acyclic
  BY DEF IInv, Progress, LevelInv, Leveling, ValidatedSound
<1> QED BY <1>1, AllPlaced DEF Leveling

-------------------------------------------------------------------------------
(* The closure grows by what is needed only.                                *)
LEMMA ClosureStepKeeps ==
  ASSUME IInv, Progress, NEW d \in Names, ClosureStep(d)
  PROVE  Closing'
<1>1. TypeOK /\ Closing
  BY DEF IInv, Progress, ClosureInv, ClosureStep
<1>2. /\ UNCHANGED <<deps, asked>> /\ d \in pending
      /\ visited' = visited \cup {d} /\ pending' = (pending \cup deps[d]) \ visited'
  BY DEF ClosureStep, graph
<1>3. Direct' = Direct
  BY <1>2 DEF Direct
<1>4. visited' \cup pending' = visited \cup pending \cup deps[d]
  BY <1>2
<1>5. Direct' \subseteq visited' \cup pending' /\ \A n \in visited' : deps'[n] \subseteq visited' \cup pending'
  BY <1>1, <1>2, <1>3, <1>4 DEF Closing
<1>6. ASSUME NEW S \in SUBSET Names, Direct \subseteq S, \A n \in S : deps[n] \subseteq S
      PROVE  visited' \cup pending' \subseteq S
  <2>1. visited \cup pending \subseteq S
    BY <1>1, <1>6 DEF Closing
  <2> QED BY <1>2, <1>4, <1>6, <2>1
<1> QED BY <1>2, <1>3, <1>5, <1>6 DEF Closing

LEMMA ClosureBegins ==
  ASSUME IInv, Progress, NEW n \in Names, ClosureStart(n)
  PROVE  Closing'
<1>1. /\ UNCHANGED <<deps, visited>> /\ visited = {} /\ asked' = {n} /\ pending' = deps[n]
  BY DEF Progress, ClosureInv, ClosureStart, Begin, graph
<1>2. Direct' = deps[n]
  BY <1>1 DEF Direct
<1> QED BY <1>1, <1>2 DEF Closing

-------------------------------------------------------------------------------
(* The path of the search stays linked when it grows and when it shrinks.   *)
LEMMA LinkedGrows ==
  ASSUME IInv, Progress, NEW n \in Names, Root(n) \/ Descend(n)
  PROVE  PathLinked'
<1> DEFINE L == Len(path)
<1>1. /\ L \in Nat /\ Len(path') = L + 1 /\ path'[L + 1] = n /\ deps' = deps
      /\ \A i \in 1..L : path'[i] = path[i]
  <2>1. path \in Seq(Names) /\ path' = Append(path, n) /\ deps' = deps
    BY DEF IInv, TypeOK, Root, Descend, Enter, graph
  <2> QED BY <2>1
<1>2. L > 0 => path[L] \in deps[n]
  <2> SUFFICES ASSUME L > 0 PROVE path[L] \in deps[n]
    OBVIOUS
  <2>1. Descend(n)
    BY DEF Root
  <2>2. L \in 1..L /\ path[L] \in Names /\ n \in todo[path[L]]
    BY <1>1, <2>1 DEF IInv, TypeOK, Descend, Trying, Top
  <2>3. n \in adj[path[L]]
    BY <2>2 DEF IInv, SearchInv, Tries
  <2> QED BY <2>2, <2>3 DEF IInv, AdjacencyInverse
<1>3. ASSUME NEW i \in 1..L PROVE path'[i] \in deps'[path'[i + 1]]
  <2>1. CASE i = L
    BY <1>1, <1>2, <2>1
  <2>2. CASE i # L
    <3>1. i \in 1..(L - 1) /\ i + 1 \in 1..L
      BY <1>1, <2>2
    <3> QED BY <1>1, <3>1 DEF Progress, PathLinked
  <2> QED BY <2>1, <2>2
<1> QED BY <1>1, <1>3 DEF PathLinked

LEMMA LinkedShrinks ==
  ASSUME IInv, Progress, Leave
  PROVE  PathLinked'
<1> DEFINE L == Len(path)
           M == L - 1
<1>1. path \in Seq(Names) /\ L \in Nat /\ M \in Nat /\ deps' = deps /\ path' = SubSeq(path, 1, M)
  BY DEF IInv, TypeOK, Leave, graph
<1>2. \A i \in 1..M : path[i] \in Names
  BY <1>1
<1> HIDE DEF M
<1>3. /\ Len(SubSeq(path, 1, M)) = IF 1 <= M THEN M - 1 + 1 ELSE 0
      /\ \A i \in 1..(M - 1 + 1) : SubSeq(path, 1, M)[i] = path[1 + i - 1]
  BY <1>1, <1>2, SubSeqProperties
<1>4. M - 1 + 1 = M /\ \A i \in 1..M : 1 + i - 1 = i
  BY <1>1
<1>5. Len(path') = M /\ \A i \in 1..M : path'[i] = path[i]
  BY <1>1, <1>3, <1>4
<1>6. \A i \in 1..(M - 1) : i \in 1..M /\ i + 1 \in 1..M /\ i \in 1..(L - 1)
  BY <1>1 DEF M
<1> QED BY <1>1, <1>5, <1>6 DEF Progress, PathLinked

-------------------------------------------------------------------------------
(* What a step leaves alone stays as it is.                                 *)
LEMMA Kept ==
  ASSUME Progress, UNCHANGED graph
  PROVE  /\ NamesLeadNowhere'
         /\ UNCHANGED path => PathLinked'
         /\ UNCHANGED kahn /\ (op' = "sort" <=> op = "sort") => SortInv'
         /\ UNCHANGED kahn /\ (op' = "levels" <=> op = "levels") => LevelInv'
         /\ UNCHANGED closure /\ (op' = "closure" <=> op = "closure") => ClosureInv'
         /\ raised' # "cycle" \/ UNCHANGED <<raised, cycle>> => CycleGenuine'
<1> USE DEF graph, Progress
<1>1. NamesLeadNowhere' /\ (UNCHANGED path => PathLinked')
  BY DEF NamesLeadNowhere, PathLinked
<1>2. ASSUME UNCHANGED kahn PROVE Sorting' <=> Sorting
  BY <1>2 DEF kahn, Sorting, Counted, Ready, Elements, Before, Distinct
<1>3. ASSUME UNCHANGED kahn PROVE Leveling' <=> Leveling
  BY <1>3 DEF kahn, Leveling, Counted, Ready, Elements, Before
<1>4. ASSUME UNCHANGED closure PROVE Closing' <=> Closing
  BY <1>4 DEF closure, Closing, Direct
<1>5. UNCHANGED kahn /\ (op' = "sort" <=> op = "sort") => SortInv'
  BY <1>2 DEF SortInv, kahn
<1>6. UNCHANGED kahn /\ (op' = "levels" <=> op = "levels") => LevelInv'
  BY <1>3 DEF LevelInv, kahn
<1>7. UNCHANGED closure /\ (op' = "closure" <=> op = "closure") => ClosureInv'
  BY <1>4 DEF ClosureInv, closure
<1>8. raised' # "cycle" \/ UNCHANGED <<raised, cycle>> => CycleGenuine'
  BY DEF CycleGenuine
<1> QED BY <1>1, <1>5, <1>6, <1>7, <1>8

LEMMA ProgressStep == IInv /\ Progress /\ [Next]_vars => Progress'
<1> SUFFICES ASSUME IInv, Progress, [Next]_vars PROVE Progress'
  OBVIOUS
<1>1. CASE UNCHANGED vars
  BY <1>1, Kept DEF vars, graph, method, search, Progress
<1>2. ASSUME NEW n \in Names, NEW D \in DepLists, AddNode(n, D)
      PROVE  Progress'
  <2>1. NamesLeadNowhere'
    BY <1>2 DEF Progress, NamesLeadNowhere, AddNode, IInv, TypeOK
  <2>2. path' = <<>> /\ op' = "idle" /\ raised' = "nothing" /\ op = "idle"
    BY <1>2 DEF AddNode, Return, search, IInv, Idle
  <2>3. SortInv' /\ LevelInv' /\ ClosureInv'
    BY <1>2, <2>2 DEF AddNode, kahn, closure, Progress, SortInv, LevelInv, ClosureInv
  <2>4. PathLinked' /\ CycleGenuine'
    BY <2>2 DEF PathLinked, CycleGenuine
  <2> QED BY <2>1, <2>3, <2>4 DEF Progress
<1>3. CASE (\E n \in Names : AddDuplicate(n)) \/ ValidateMissing \/ RefuseUnvalidated \/ ValidateStart
  <2>1. UNCHANGED <<graph, search, kahn, closure>> /\ op = "idle" /\ op' \in {"idle", "validate"}
        /\ raised' # "cycle"
    BY <1>3 DEF AddDuplicate, ValidateMissing, RefuseUnvalidated, ValidateStart, Raise, Begin
  <2> QED BY <2>1, Kept DEF search, Progress
<1>4. ASSUME NEW n \in Names, ClosureStart(n)
      PROVE  Progress'
  <2>1. UNCHANGED <<graph, search, kahn>> /\ op = "idle" /\ op' = "closure" /\ raised' = "nothing"
    BY <1>4 DEF ClosureStart, Begin
  <2>2. ClosureInv'
    BY <1>4, <2>1, ClosureBegins DEF ClosureInv
  <2> QED BY <2>1, <2>2, Kept DEF search, Progress
<1>5. ASSUME NEW n \in Names, ClosureStep(n)
      PROVE  Progress'
  <2>1. UNCHANGED <<graph, method, search, kahn>> /\ op = "closure"
    BY <1>5 DEF ClosureStep
  <2>2. ClosureInv'
    BY <1>5, <2>1, ClosureStepKeeps DEF ClosureInv, method
  <2> QED BY <2>1, <2>2, Kept DEF search, method, Progress
<1>6. CASE ClosureEnd
  <2>1. UNCHANGED <<graph, search, kahn>> /\ op = "closure" /\ op' = "idle" /\ raised' = "nothing"
        /\ visited' = {}
    BY <1>6 DEF ClosureEnd, Return, DropClosure
  <2>2. ClosureInv'
    BY <2>1 DEF ClosureInv
  <2> QED BY <2>1, <2>2, Kept DEF search, Progress
<1>7. CASE SortStart
  <2>1. /\ UNCHANGED <<graph, search, closure, levels>>
        /\ op = "idle" /\ op' = "sort" /\ raised' = "nothing"
    BY <1>7 DEF SortStart, Begin
  <2>2. SortInv'
    BY <1>7, <2>1, SortBegins DEF SortInv
  <2>3. LevelInv'
    BY <2>1 DEF Progress, LevelInv
  <2> QED BY <2>1, <2>2, <2>3, Kept DEF search, Progress
<1>8. CASE Place
  <2>1. UNCHANGED <<graph, method, search, closure, levels>> /\ op = "sort"
    BY <1>8 DEF Place
  <2>2. SortInv'
    BY <1>8, <2>1, PlaceKeeps DEF SortInv, method
  <2>3. LevelInv'
    BY <2>1 DEF Progress, LevelInv, method
  <2> QED BY <2>1, <2>2, <2>3, Kept DEF search, method, Progress
<1>9. CASE SortEnd
  <2>1. Len(result) = Cardinality(nodes)
    BY <1>9, SortComplete DEF SortEnd
  <2>2. /\ UNCHANGED <<graph, search, closure>> /\ op = "sort" /\ op' = "idle" /\ raised' = "nothing"
        /\ result' = <<>> /\ levels' = <<>>
    BY <1>9, <2>1 DEF SortEnd, Return, DropKahn
  <2>3. SortInv' /\ LevelInv'
    BY <2>2 DEF SortInv, LevelInv
  <2> QED BY <2>2, <2>3, Kept DEF search, Progress
<1>10. CASE LevelsStart
  <2>1. /\ UNCHANGED <<graph, search, closure, result>>
        /\ op = "idle" /\ op' = "levels" /\ raised' = "nothing"
    BY <1>10 DEF LevelsStart, Begin
  <2>2. LevelInv'
    BY <1>10, <2>1, LevelsBegin DEF LevelInv
  <2>3. SortInv'
    BY <2>1 DEF Progress, SortInv
  <2> QED BY <2>1, <2>2, <2>3, Kept DEF search, Progress
<1>11. CASE PlaceLevel
  <2>1. UNCHANGED <<graph, method, search, closure, result>> /\ op = "levels"
    BY <1>11 DEF PlaceLevel
  <2>2. LevelInv'
    BY <1>11, <2>1, PlaceLevelKeeps DEF LevelInv, method
  <2>3. SortInv'
    BY <2>1 DEF Progress, SortInv, method
  <2> QED BY <2>1, <2>2, <2>3, Kept DEF search, method, Progress
<1>12. CASE LevelsEnd
  <2>1. /\ UNCHANGED <<graph, search, closure>> /\ op = "levels" /\ op' = "idle" /\ raised' = "nothing"
        /\ result' = <<>> /\ levels' = <<>>
    BY <1>12 DEF LevelsEnd, Return, DropKahn
  <2>2. SortInv' /\ LevelInv'
    BY <2>1 DEF SortInv, LevelInv
  <2> QED BY <2>1, <2>2, Kept DEF search, Progress
<1>13. ASSUME NEW n \in Names, Root(n) \/ Descend(n)
       PROVE  Progress'
  <2>1. UNCHANGED <<graph, method, kahn, closure>>
    BY <1>13 DEF Root, Descend, Enter
  <2>2. PathLinked'
    BY <1>13, LinkedGrows
  <2> QED BY <2>1, <2>2, Kept DEF method, Progress
<1>14. ASSUME NEW n \in Names, Skip(n)
       PROVE  Progress'
  BY <1>14, Kept DEF Skip, method, Progress
<1>15. ASSUME NEW n \in Names, BackEdge(n)
       PROVE  Progress'
  <2>1. UNCHANGED <<graph, kahn, closure>> /\ op = "validate" /\ op' = "idle" /\ path' = <<>>
    BY <1>15 DEF BackEdge, Trying, Raise, DropSearch
  <2>2. PathLinked' /\ CycleGenuine'
    BY <1>15, <2>1, CycleOfPath DEF PathLinked, Progress
  <2> QED BY <2>1, <2>2, Kept DEF Progress
<1>16. CASE Leave
  <2>1. UNCHANGED <<graph, method, kahn, closure>>
    BY <1>16 DEF Leave
  <2>2. PathLinked'
    BY <1>16, LinkedShrinks
  <2> QED BY <2>1, <2>2, Kept DEF method, Progress
<1>17. CASE Accept
  <2>1. /\ UNCHANGED <<nodes, deps, adj, kahn, closure>> /\ op = "validate" /\ op' = "idle"
        /\ path' = <<>> /\ raised' = "nothing"
    BY <1>17 DEF Accept, Return, DropSearch
  <2>2. NamesLeadNowhere' /\ PathLinked' /\ CycleGenuine'
    BY <2>1 DEF Progress, NamesLeadNowhere, PathLinked, CycleGenuine
  <2>3. SortInv' /\ LevelInv' /\ ClosureInv'
    BY <2>1 DEF Progress, SortInv, LevelInv, ClosureInv, kahn, closure
  <2> QED BY <2>2, <2>3 DEF Progress
<1>18. CASE Call
  BY <1>2, <1>3, <1>4, <1>7, <1>10, <1>18 DEF Call
<1>19. CASE Step
  BY <1>5, <1>6, <1>8, <1>9, <1>11, <1>12, <1>13, <1>14, <1>15, <1>16, <1>17, <1>19 DEF Step
<1> QED BY <1>1, <1>18, <1>19 DEF Next

(* What is known of the progress of a method gives what it answers.         *)
LEMMA Answers == IInv /\ Progress => ResultsCorrect
<1> SUFFICES ASSUME IInv, Progress PROVE ResultsCorrect
  OBVIOUS
<1>1. SortCorrect
  <2> SUFFICES ASSUME op = "sort" PROVE SortCorrect
    BY DEF SortCorrect
  <2>1. Sorting /\ result \in Seq(Names)
    BY DEF Progress, SortInv, IInv, TypeOK
  <2>2. ASSUME NEW i \in DOMAIN result PROVE result[i] \notin Before(result, i)
    <3>1. \A k \in 1..(i - 1) : k \in DOMAIN result /\ k # i
      BY <2>1
    <3> QED BY <2>1, <3>1 DEF Sorting, Distinct, Before
  <2>3. queue = <<>> => Elements(result) = nodes
    BY SortComplete
  <2> QED BY <2>1, <2>2, <2>3 DEF SortCorrect, Sorting
<1>2. LevelsEarliest
  <2>1. op = "levels" /\ current = {} => UNION Elements(levels) = nodes
    BY LevelsComplete
  <2> QED BY <2>1 DEF Progress, LevelInv, Leveling, LevelsEarliest
<1>3. ClosureLeast
  <2> SUFFICES ASSUME op = "closure", pending = {} PROVE ClosureLeast
    BY DEF ClosureLeast
  <2>1. Closing /\ visited \in SUBSET Names
    BY DEF Progress, ClosureInv, IInv, TypeOK
  <2> QED BY <2>1 DEF Closing, Direct, ClosureLeast
<1> QED BY <1>1, <1>2, <1>3 DEF ResultsCorrect, Progress

(* Each method answers what its docstring promises: a cycle that is         *)
(* reported is one, so that validate rejects no acyclic graph and the sort  *)
(* never raises; the order is complete; the levels are the earliest; the    *)
(* closure is the least one (lines 122-330).                                *)
THEOREM ResultsAreCorrect == Spec => []ResultsCorrect
<1>1. Init => Progress
  BY InitProgress
<1>2. IInv /\ IInv' /\ Progress /\ [Next]_vars => Progress'
  BY ProgressStep
<1>3. IInv /\ Progress => ResultsCorrect
  BY Answers
<1> QED BY <1>1, <1>2, <1>3, Invariant, PTL DEF Spec
================================================================================
