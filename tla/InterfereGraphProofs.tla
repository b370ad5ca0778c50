------------------------ MODULE InterfereGraphProofs ------------------------
(***************************************************************************)
(* What InterfereGraph guarantees for every set of registers and moves:    *)
(* no ASSERT of the allocator fails, the worklists stay sorted, and the    *)
(* colouring of a round is proper.  Two inductive invariants carry the     *)
(* proofs: Discipline (which node and which move may be in which list) and *)
(* Separation (how the conflicts of the program are found again in the     *)
(* merged and partly dismantled graph).  The second part is about what a   *)
(* round spills, and why it ends.                                          *)
(***************************************************************************)
EXTENDS InterfereGraph, FiniteSetTheorems, SequenceTheorems, TLAPS

Types ==
  /\ toX \in [Move -> Node] /\ fromY \in [Move -> Node]
  /\ conflict \in [Node -> SUBSET Node]
  /\ adj \in [Node -> SUBSET Node]
  /\ degree \in [Node -> Int]
  /\ moveList \in [Node -> SUBSET Move]
  /\ alias \in [Node -> Node]
  /\ where \in [Node -> NodeList]
  /\ moveIn \in [Move -> MoveKind]
  /\ stack \in Seq(Virtual)
  /\ color \in [Node -> Physical \cup {NoColor}]
  /\ potential \subseteq Virtual
  /\ phase \in Phase
  /\ ok \in BOOLEAN

\* A node is its own representative unless it was merged away.
Representatives ==
  /\ \A n \in Node : alias[alias[n]] = alias[n]
  /\ \A n \in Node : where[n] = "coalesced" <=> alias[n] # n

\* Physical registers stay outside the lists and are never merged away.
Precolored == \A p \in Physical : where[p] = "none" /\ degree[p] = 0

\* selectStack_ holds the nodes marked as being on it, each once.
StackHolds ==
  /\ \A i \in 1..Len(stack) : where[stack[i]] = "selectStack"
  /\ \A i, j \in 1..Len(stack) : i # j => stack[i] # stack[j]
  /\ \A n \in Node : where[n] = "selectStack" => \E i \in 1..Len(stack) : stack[i] = n

\* The ends of a live move are in the graph and know the move, and a node in
\* the graph lists no live move that is not its own.
MovesAttached ==
  /\ \A m \in Move : moveIn[m] \in {"worklist", "active"} =>
       \A e \in {alias[toX[m]], alias[fromY[m]]} :
         where[e] # "selectStack" /\ m \in moveList[e]
  /\ \A n \in Node : \A m \in moveList[n] :
       (moveIn[m] \in {"worklist", "active"} /\ InGraph(n)) =>
         n \in {alias[toX[m]], alias[fromY[m]]}

\* A move waits only between two different virtual registers.
ActiveVirtual ==
  \A m \in Move : moveIn[m] = "active" =>
    /\ alias[toX[m]] \in Virtual /\ alias[fromY[m]] \in Virtual
    /\ alias[toX[m]] # alias[fromY[m]]

\* While a round works, every register is in one of the lists of the loop; once
\* it is over no move is left to decide.
Listed ==
  /\ phase \notin {"build", "work"} =>
       \A m \in Move : moveIn[m] \notin {"worklist", "active"}
  /\ phase = "work" => \A n \in Virtual :
       where[n] \in {"spill", "freeze", "simplify", "coalesced", "selectStack"}
  /\ phase = "build" =>
       /\ \A m \in Move : moveIn[m] = "worklist"
       /\ \A n \in Virtual : where[n] = "initial"
       /\ stack = <<>>

\* A node simplified with a high degree was chosen by selectSpill() and is
\* alone on the simplify list.
ChosenAlone ==
  phase = "work" => \A n, o \in Virtual :
    (where[n] = "simplify" /\ degree[n] >= K /\ o # n) =>
      where[o] \notin {"simplify", "freeze"}

Discipline ==
  /\ Types /\ Representatives /\ Precolored /\ StackHolds /\ MovesAttached
  /\ ActiveVirtual /\ Listed /\ ChosenAlone /\ WorklistsSorted
  /\ ok

\* A is popped, and so coloured, after B.
BeforeOnStack(A, B) ==
  \E i, j \in 1..Len(stack) : i < j /\ stack[i] = A /\ stack[j] = B

\* Where the conflict of two registers lives once A and B represent them: as an
\* edge while both are in the graph; as a neighbour of A that B represents when
\* A is on the stack and B is coloured before it.
Apart(A, B) ==
  /\ A # B
  /\ (phase \in {"build", "work"} /\ InGraph(A) /\ InGraph(B)) => B \in adj[A]
  /\ (where[A] = "selectStack" /\ (InGraph(B) \/ BeforeOnStack(A, B))) =>
       \E w \in adj[A] : alias[w] = B

Separation ==
  /\ \A a, b \in Node : b \in adj[a] => a \in adj[b]
  /\ \A a, b \in Node : b \in conflict[a] => a \in conflict[b]
  /\ \A a \in Node : \A b \in conflict[a] : Apart(alias[a], alias[b])

\* Colours are given to representatives only, and never two alike to two that
\* represent conflicting registers; a node that left the stack has one unless
\* it is spilled.
Colored ==
  /\ phase = "select" =>
       /\ \A p \in Physical : color[p] = p
       /\ \A n \in Node : where[n] \in {"coalesced", "selectStack", "spilled"}
                             => color[n] = NoColor
       /\ \A n \in Virtual :
            \/ where[n] \in {"coalesced", "selectStack", "spilled"}
            \/ where[n] = "none" /\ color[n] \in Physical
       /\ \A a \in Node : \A b \in conflict[a] :
            color[alias[a]] = NoColor \/ color[alias[a]] # color[alias[b]]
  /\ ProperColoring
  /\ AppliedIsTotal

-----------------------------------------------------------------------------

LEMMA KPositive == K \in Nat /\ K > 0
<1>1. IsFiniteSet(Physical) /\ Physical # {}
  BY RegisterAssumption
<1>2. Cardinality(Physical) \in Nat
  BY <1>1, FS_CardinalityType
<1>3. Cardinality(Physical) # 0
  BY <1>1, FS_EmptySet
<1> QED
  BY <1>2, <1>3 DEF K

LEMMA NodeFinite == IsFiniteSet(Node)
  BY RegisterAssumption, FS_Union DEF Node

LEMMA SubsetCard == \A S \in SUBSET Node : Cardinality(S) \in Nat
  BY NodeFinite, FS_Subset, FS_CardinalityType

LEMMA InitTypes == Init => Types
<1>0. SUFFICES ASSUME NEW edges \in SUBSET Undirected,
                      NEW x \in [Move -> Node], NEW y \in [Move -> Node],
                      Build(edges, x, y)
               PROVE  Types
  BY DEF Init
<1>1. conflict \in [Node -> SUBSET Node]
  BY <1>0 DEF Build
<1>2. degree \in [Node -> Int]
  <2>1. \A n \in Node : Cardinality(conflict[n]) \in Nat
    BY <1>1, SubsetCard
  <2>2. degree = [n \in Node |-> IF n \in Virtual THEN Cardinality(conflict[n]) ELSE 0]
    BY <1>0 DEF Build
  <2> QED BY <2>1, <2>2
<1>3. where \in [Node -> NodeList] /\ moveIn \in [Move -> MoveKind] /\ phase \in Phase
  BY <1>0 DEF Build, NodeList, MoveKind, Phase
<1>4. toX \in [Move -> Node] /\ fromY \in [Move -> Node] /\ stack \in Seq(Virtual)
  BY <1>0 DEF Build
<1>5. alias \in [Node -> Node] /\ color \in [Node -> Physical \cup {NoColor}]
  BY <1>0 DEF Build
<1>6. moveList \in [Node -> SUBSET Move]
  BY <1>0 DEF Build
<1>7. adj \in [Node -> SUBSET Node] /\ potential \subseteq Virtual /\ ok \in BOOLEAN
  BY <1>0, <1>1 DEF Build
<1> QED
  BY <1>1, <1>2, <1>3, <1>4, <1>5, <1>6, <1>7 DEF Types

LEMMA InitDiscipline == Init => Discipline
<1>0. SUFFICES ASSUME NEW edges \in SUBSET Undirected,
                      NEW x \in [Move -> Node], NEW y \in [Move -> Node],
                      \A m \in Move : {x[m], y[m]} \cap Virtual # {},
                      Build(edges, x, y), Types
               PROVE  Discipline
  BY InitTypes DEF Init
<1>1. Representatives /\ Precolored /\ ok
  BY <1>0, RegisterAssumption DEF Build, Representatives, Precolored, Node
<1>2. StackHolds
  BY <1>0 DEF Build, StackHolds
<1>3. MovesAttached
  BY <1>0, RegisterAssumption DEF Build, MovesAttached, InGraph, Node
<1>4. ActiveVirtual /\ Listed
  BY <1>0 DEF Build, ActiveVirtual, Listed, Node
<1>5. ChosenAlone /\ WorklistsSorted
  BY <1>0 DEF Build, ChosenAlone, WorklistsSorted
<1> QED
  BY <1>0, <1>1, <1>2, <1>3, <1>4, <1>5 DEF Discipline

LEMMA MakeWorklistDiscipline ==
  ASSUME Discipline, MakeWorklist
  PROVE  Discipline'
<1> USE DEF Discipline, MakeWorklist, input
<1>1. Types'
  BY DEF Types, NodeList, Phase
<1>2. /\ \A m \in Move : moveIn[m] = "worklist"
      /\ \A n \in Virtual : where[n] = "initial"
      /\ stack = <<>>
  BY DEF Listed
<1>3. Representatives'
  BY <1>2 DEF Representatives, Types, Node, Precolored
<1>4. Precolored'
  BY DEF Precolored, Node
<1>5. StackHolds'
  BY <1>2 DEF StackHolds
<1>6. MovesAttached'
  BY <1>2 DEF MovesAttached, InGraph, Types, Representatives, Node, Precolored
<1>7. ActiveVirtual'
  BY <1>2 DEF ActiveVirtual
<1>8. Listed'
  BY RegisterAssumption DEF Listed, Node
<1>9. WorklistsSorted'
  BY <1>2, KPositive, RegisterAssumption
  DEF WorklistsSorted, Types, Node, HighDegree, MoveRelated, MoveRelatedIn, LiveIn
<1>10. ChosenAlone'
  BY KPositive, RegisterAssumption DEF ChosenAlone, Node, HighDegree, Types
<1> QED
  BY <1>1, <1>3, <1>4, <1>5, <1>6, <1>7, <1>8, <1>9, <1>10

LEMMA SimplifyDiscipline ==
  ASSUME Discipline, NEW n \in Virtual, Simplify(n)
  PROVE  Discipline'
<1> DEFINE remains(a) == a # n /\ InGraph(a)
           lower == {a \in AdjList(n) : remains(a) /\ a \notin Physical}
           fell  == {a \in lower : degree[a] = K}
           near  == fell \cup {b \in UNION {AdjList(a) : a \in fell} : remains(b)}
<1>1. /\ phase = "work" /\ where[n] = "simplify" /\ n \in Node
      /\ degree' = [a \in Node |-> IF a \in lower THEN degree[a] - 1 ELSE degree[a]]
      /\ moveIn' = EnableMoves(near, moveIn)
      /\ where' = [a \in Node |->
           IF a = n THEN "selectStack"
           ELSE IF a \in fell THEN IF MoveRelated(a) THEN "freeze" ELSE "simplify"
           ELSE where[a]]
      /\ ok' = (~MoveRelated(n) /\ \A a \in fell : where[a] = "spill")
      /\ stack' = Append(stack, n)
      /\ UNCHANGED <<input, adj, moveList, alias, color, potential, phase>>
  BY DEF Simplify, Node
<1>2. Types /\ K \in Nat /\ K > 0
  BY KPositive DEF Discipline
<1>3. lower \subseteq Virtual /\ fell \subseteq lower /\ n \notin lower
  BY <1>1, <1>2 DEF AdjList, Types, Node
<1>4. \A a \in lower : InGraph(a)
  OBVIOUS
<1> HIDE DEF lower, near
<1>5. \A a \in fell : where[a] = "spill"
  <2> SUFFICES ASSUME NEW a \in fell
               PROVE  where[a] = "spill"
    OBVIOUS
  <2>1. a \in Virtual /\ a # n /\ InGraph(a) /\ degree[a] = K
    BY <1>3, <1>4
  <2>2. where[a] \in {"spill", "freeze", "simplify"}
    BY <2>1, <1>1 DEF Discipline, Listed, InGraph
  <2>3. where[a] # "freeze"
    BY <2>1, <1>1, <1>2 DEF Discipline, WorklistsSorted
  <2>4. where[a] # "simplify"
    BY <2>1, <1>1, <1>2 DEF Discipline, ChosenAlone
  <2> QED BY <2>2, <2>3, <2>4
<1>6. ok' /\ ~MoveRelated(n)
  BY <1>1, <1>5 DEF Discipline, WorklistsSorted
<1>7. \A m \in Move : /\ moveIn'[m] = "worklist" => moveIn[m] \in {"worklist", "active"}
                      /\ moveIn'[m] = "active" => moveIn[m] = "active"
                      /\ moveIn[m] \in {"worklist", "active"} => moveIn'[m] \in {"worklist", "active"}
                      /\ moveIn'[m] \in MoveKind
  BY <1>1, <1>2 DEF EnableMoves, Types, MoveKind
<1>8. \A a \in Node : MoveRelated(a)' <=> MoveRelated(a)
  BY <1>1, <1>7 DEF MoveRelated, MoveRelatedIn, LiveIn
<1>9. Types'
  <2>1. where' \in [Node -> NodeList]
    BY <1>1, <1>2 DEF NodeList, Types
  <2>2. degree' \in [Node -> Int]
    BY <1>1, <1>2 DEF Types
  <2>3. moveIn' \in [Move -> MoveKind]
    BY <1>1, <1>7 DEF EnableMoves
  <2>4. stack' \in Seq(Virtual)
    BY <1>1, <1>2 DEF Types
  <2> QED BY <1>1, <1>2, <1>6, <2>1, <2>2, <2>3, <2>4 DEF Types, input
<1>10. Representatives'
  BY <1>1, <1>2, <1>3, <1>5 DEF Discipline, Representatives, Types
<1>11. Precolored'
  BY <1>1, <1>2, <1>3, RegisterAssumption DEF Discipline, Precolored, Node
<1>12. StackHolds'
  <2>1. Len(stack') = Len(stack) + 1 /\ Len(stack) \in Nat /\ stack'[Len(stack) + 1] = n
    BY <1>1, <1>2 DEF Types
  <2>2. \A i \in 1..Len(stack) : /\ stack'[i] = stack[i] /\ stack[i] \in Virtual
                                 /\ where[stack[i]] = "selectStack"
    BY <1>1, <1>2 DEF Types, Discipline, StackHolds
  <2>3. \A i \in 1..Len(stack) : where'[stack[i]] = "selectStack" /\ stack[i] # n
    BY <2>2, <1>1, <1>5 DEF Node
  <2>4. \A i \in 1..Len(stack') : i = Len(stack) + 1 \/ i \in 1..Len(stack)
    BY <2>1
  <2>5. \A i \in 1..Len(stack') : where'[stack'[i]] = "selectStack"
    BY <2>1, <2>2, <2>3, <2>4, <1>1
  <2>6. \A i, j \in 1..Len(stack') : i # j => stack'[i] # stack'[j]
    BY <2>1, <2>2, <2>3, <2>4 DEF Discipline, StackHolds
  <2>7. ASSUME NEW a \in Node, where'[a] = "selectStack"
        PROVE  \E i \in 1..Len(stack') : stack'[i] = a
    <3>1. CASE a = n
      BY <3>1, <2>1
    <3>2. CASE a # n
      <4>1. where[a] = "selectStack"
        BY <3>2, <2>7, <1>1
      <4>2. PICK i \in 1..Len(stack) : stack[i] = a
        BY <4>1 DEF Discipline, StackHolds
      <4> QED BY <4>2, <2>1, <2>2
    <3> QED BY <3>1, <3>2
  <2> QED BY <2>5, <2>6, <2>7 DEF StackHolds
<1>13. MovesAttached'
  <2>1. ASSUME NEW m \in Move, moveIn'[m] \in {"worklist", "active"},
               NEW e \in {alias[toX[m]], alias[fromY[m]]}
        PROVE  where'[e] # "selectStack" /\ m \in moveList[e]
    <3>1. e \in Node /\ where[e] # "selectStack" /\ m \in moveList[e] /\ m \in LiveIn(moveIn)
      BY <2>1, <1>2, <1>7 DEF Discipline, MovesAttached, Types, LiveIn
    <3>2. e # n
      BY <3>1, <1>6 DEF MoveRelated, MoveRelatedIn
    <3> QED BY <3>1, <3>2, <1>1
  <2>2. ASSUME NEW a \in Node, NEW m \in moveList[a],
               moveIn'[m] \in {"worklist", "active"}, InGraph(a)'
        PROVE  a \in {alias[toX[m]], alias[fromY[m]]}
    <3>1. InGraph(a) /\ moveIn[m] \in {"worklist", "active"}
      BY <2>2, <1>1, <1>2, <1>5, <1>7 DEF InGraph, Types
    <3> QED BY <3>1 DEF Discipline, MovesAttached
  <2> QED BY <2>1, <2>2, <1>1 DEF MovesAttached, input
<1>14. ActiveVirtual'
  BY <1>1, <1>7 DEF Discipline, ActiveVirtual, input
<1>15. Listed'
  BY <1>1, <1>3 DEF Discipline, Listed, Node
<1>16. WorklistsSorted'
  <2> SUFFICES ASSUME NEW a \in Virtual
               PROVE  /\ where'[a] = "spill" => degree'[a] >= K
                      /\ where'[a] = "freeze" => degree'[a] < K /\ MoveRelated(a)'
                      /\ where'[a] = "simplify" => ~MoveRelated(a)'
    BY <1>1 DEF WorklistsSorted
  <2>1. a \in Node /\ (MoveRelated(a)' <=> MoveRelated(a)) /\ degree[a] \in Int
    BY <1>8, <1>2 DEF Node, Types
  <2>2. /\ where[a] = "spill" => degree[a] >= K
        /\ where[a] = "freeze" => degree[a] < K /\ MoveRelated(a)
        /\ where[a] = "simplify" => ~MoveRelated(a)
    BY <1>1 DEF Discipline, WorklistsSorted
  <2>3. CASE a \in fell
    BY <2>3, <2>1, <1>1, <1>2, <1>3
  <2>4. CASE a \notin fell
    BY <2>4, <2>1, <2>2, <1>1, <1>2
  <2> QED BY <2>3, <2>4
<1>17. ChosenAlone'
  <2>1. \A a \in Virtual : where[a] = "simplify" /\ a # n => degree[a] < K
    BY <1>1, <1>2 DEF Discipline, ChosenAlone, Types, Node
  <2>2. \A a \in Virtual : where'[a] = "simplify" => degree'[a] < K
    BY <2>1, <1>1, <1>2, <1>3 DEF Types, Node
  <2> QED BY <2>2, <1>9, <1>2 DEF ChosenAlone, Types, Node
<1> QED
  BY <1>6, <1>9, <1>10, <1>11, <1>12, <1>13, <1>14, <1>15, <1>16, <1>17 DEF Discipline

\* What coalesce() finds at the ends of a move of the worklist.
LEMMA EndsOfMove ==
  ASSUME Discipline, phase = "work", NEW m \in Move, moveIn[m] = "worklist",
         ListEmpty("simplify"), NEW e \in {EndX(m), EndY(m)}
  PROVE  /\ e \in Node /\ alias[e] = e /\ InGraph(e) /\ where[e] # "coalesced"
         /\ m \in moveList[e]
         /\ {EndX(m), EndY(m)} = {alias[toX[m]], alias[fromY[m]]}
         /\ e \in Virtual => where[e] \in {"spill", "freeze"}
         /\ (e \in Virtual /\ degree[e] < K) => where[e] = "freeze"
<1>1. e \in {alias[toX[m]], alias[fromY[m]]}
      /\ {EndX(m), EndY(m)} = {alias[toX[m]], alias[fromY[m]]}
  BY DEF EndX, EndY
<1>2. e \in Node /\ alias[e] = e
  BY <1>1 DEF Discipline, Types, Representatives
<1>3. where[e] # "selectStack" /\ m \in moveList[e] /\ where[e] # "coalesced"
  BY <1>1, <1>2 DEF Discipline, MovesAttached, Representatives
<1>4. e \in Virtual => where[e] \in {"spill", "freeze"}
  BY <1>3 DEF Discipline, Listed, ListEmpty
<1>5. (e \in Virtual /\ degree[e] < K) => where[e] = "freeze"
  BY <1>2, <1>4, KPositive DEF Discipline, WorklistsSorted, Types
<1> QED BY <1>1, <1>2, <1>3, <1>4, <1>5 DEF InGraph

\* What is common to the two ways coalesce() drops a move for good without
\* merging: S are the ends it tries to move to the simplify list.
LEMMA DropDiscipline ==
  ASSUME Discipline, phase = "work", NEW m \in Move, moveIn[m] = "worklist",
         ListEmpty("simplify"),
         NEW S \in SUBSET {EndX(m), EndY(m)}, NEW k \in {"coalesced", "constrained"},
         S = {EndX(m), EndY(m)},
         moveIn' = [moveIn EXCEPT ![m] = k],
         where' = [n \in Node |-> IF n \in Ready(S, degree, moveList, moveIn')
                                  THEN "simplify" ELSE where[n]],
         ok' = \A n \in Ready(S, degree, moveList, moveIn') : where[n] = "freeze",
         UNCHANGED <<conflict, toX, fromY, adj, degree, moveList, alias, stack, color,
                     potential, phase>>
  PROVE  Discipline'
<1> DEFINE ready == Ready(S, degree, moveList, moveIn')
<1>1. Types /\ K \in Nat /\ K > 0
  BY KPositive DEF Discipline
<1>2. \A n \in ready : /\ n \in Virtual /\ n \in Node /\ degree[n] < K /\ alias[n] = n
                       /\ where[n] = "freeze" /\ ~MoveRelatedIn(n, moveList, moveIn')
  BY EndsOfMove DEF Ready, Node
<1>3. \A n \in S : n \in ready \/ n \in Physical \/ ~(degree[n] < K)
                     \/ MoveRelatedIn(n, moveList, moveIn')
  BY DEF Ready
<1>4. \A o \in Move : /\ o # m => moveIn'[o] = moveIn[o]
                      /\ moveIn'[m] = k /\ moveIn'[o] \in MoveKind
  BY <1>1 DEF Types, MoveKind
<1>5. \A n \in Node : where'[n] = IF n \in ready THEN "simplify" ELSE where[n]
  OBVIOUS
<1>6. ok' = \A n \in ready : where[n] = "freeze"
  OBVIOUS
<1>7. where' \in [Node -> NodeList] /\ moveIn' \in [Move -> MoveKind]
  BY <1>1, <1>4 DEF Types, NodeList
<1> HIDE DEF ready
<1>8. ok'
  BY <1>2, <1>6
<1>9. Types'
  BY <1>1, <1>7, <1>8 DEF Types
<1>10. Representatives'
  BY <1>2, <1>5 DEF Discipline, Representatives
<1>11. Precolored'
  BY <1>2, <1>5, RegisterAssumption DEF Discipline, Precolored, Node
<1>12. StackHolds'
  <2>1. \A i \in 1..Len(stack) : stack[i] \in Node
    BY <1>1 DEF Types, Node
  <2>2. \A n \in Node : where'[n] = "selectStack" <=> where[n] = "selectStack"
    BY <1>2, <1>5
  <2>3. stack' = stack
    OBVIOUS
  <2> HIDE DEF ready
  <2>4. StackHolds
    BY DEF Discipline
  <2> QED BY ONLY <2>1, <2>2, <2>3, <2>4 DEF StackHolds
<1>13. MovesAttached'
  <2>1. ASSUME NEW o \in Move, moveIn'[o] \in {"worklist", "active"},
               NEW e \in {alias[toX[o]], alias[fromY[o]]}
        PROVE  where'[e] # "selectStack" /\ o \in moveList[e]
    <3>1. moveIn[o] \in {"worklist", "active"} /\ e \in Node
      BY <2>1, <1>1, <1>4 DEF Types
    <3>2. where[e] # "selectStack" /\ o \in moveList[e]
      BY <3>1 DEF Discipline, MovesAttached
    <3> QED BY <3>1, <3>2, <1>5
  <2>2. ASSUME NEW a \in Node, NEW o \in moveList[a],
               moveIn'[o] \in {"worklist", "active"}, InGraph(a)'
        PROVE  a \in {alias[toX[o]], alias[fromY[o]]}
    <3>1. o \in Move /\ moveIn[o] \in {"worklist", "active"}
      BY <2>2, <1>1, <1>4 DEF Types
    <3>2. InGraph(a)
      BY <2>2, <1>2, <1>5 DEF InGraph
    <3> QED BY <3>1, <3>2 DEF Discipline, MovesAttached
  <2>3. /\ alias' = alias /\ moveList' = moveList
        /\ toX' = toX /\ fromY' = fromY
    OBVIOUS
  <2> HIDE DEF ready
  <2> QED BY ONLY <2>1, <2>2, <2>3 DEF MovesAttached
<1>14. ActiveVirtual'
  BY <1>4 DEF Discipline, ActiveVirtual
<1>15. Listed'
  BY <1>1, <1>5 DEF Discipline, Listed, Node
<1>16. WorklistsSorted'
  <2> SUFFICES ASSUME NEW a \in Virtual
               PROVE  /\ where'[a] = "spill" => degree[a] >= K
                      /\ where'[a] = "freeze" => degree[a] < K /\ MoveRelated(a)'
                      /\ where'[a] = "simplify" => ~MoveRelated(a)'
    BY DEF WorklistsSorted
  <2>1. a \in Node /\ where[a] # "simplify"
    BY DEF Node, ListEmpty
  <2>2. /\ where[a] = "spill" => degree[a] >= K
        /\ where[a] = "freeze" => degree[a] < K /\ MoveRelated(a)
    BY DEF Discipline, WorklistsSorted
  <2>3. CASE a \in ready
    BY <2>3, <2>1, <1>2, <1>5 DEF MoveRelated
  <2>4. CASE a \notin ready
    <3>1. where'[a] = where[a]
      BY <2>1, <2>4, <1>5
    <3>2. ASSUME where[a] = "freeze"
          PROVE  MoveRelatedIn(a, moveList, moveIn')
      <4>1. PICK o \in moveList[a] : o \in Move /\ moveIn[o] \in {"worklist", "active"}
        BY <3>2, <2>2 DEF MoveRelated, MoveRelatedIn, LiveIn
      <4>2. CASE o # m
        BY <4>1, <4>2, <1>4 DEF MoveRelatedIn, LiveIn
      <4>3. CASE o = m
        <5>1. a \in {alias[toX[m]], alias[fromY[m]]}
          BY <4>1, <4>3, <3>2, <2>1 DEF Discipline, MovesAttached, InGraph
        <5>2. a \in S
          BY <5>1, EndsOfMove
        <5> QED BY <5>2, <2>4, <3>2, <2>2, <1>3, RegisterAssumption
      <4> QED BY <4>2, <4>3
    <3> QED BY <3>1, <3>2, <2>1, <2>2 DEF MoveRelated
  <2> QED BY <2>3, <2>4
<1>17. ChosenAlone'
  <2>1. \A a \in Virtual : where'[a] = "simplify" => degree[a] < K
    BY <1>2, <1>5 DEF Node, ListEmpty
  <2>2. \A a \in Virtual : degree'[a] = degree[a] /\ degree[a] \in Int
    BY <1>1 DEF Types, Node
  <2> QED BY ONLY <2>1, <2>2, <1>1 DEF ChosenAlone
<1> QED
  BY <1>8, <1>9, <1>10, <1>11, <1>12, <1>13, <1>14, <1>15, <1>16, <1>17 DEF Discipline

LEMMA CoalesceDropDiscipline ==
  ASSUME Discipline, NEW m \in Move, Coalesce(m), CoalesceSame(m) \/ CoalesceConstrained(m)
  PROVE  Discipline'
<1>1. /\ phase = "work" /\ moveIn[m] = "worklist" /\ ListEmpty("simplify")
      /\ UNCHANGED <<conflict, toX, fromY, stack, color, potential, phase>>
  BY DEF Coalesce, input
<1>2. CASE CoalesceSame(m)
  <2>1. {EndX(m)} = {EndX(m), EndY(m)}
    BY <1>2 DEF CoalesceSame
  <2> QED BY <1>1, <1>2, <2>1, DropDiscipline DEF CoalesceSame
<1>3. CASE CoalesceConstrained(m)
  BY <1>1, <1>3, DropDiscipline DEF CoalesceConstrained
<1> QED BY <1>2, <1>3

LEMMA CoalesceDeferDiscipline ==
  ASSUME Discipline, NEW m \in Move, Coalesce(m), CoalesceDefer(m)
  PROVE  Discipline'
<1>1. /\ phase = "work" /\ moveIn[m] = "worklist" /\ ListEmpty("simplify")
      /\ moveIn' = [moveIn EXCEPT ![m] = "active"]
      /\ UNCHANGED <<conflict, toX, fromY, adj, degree, moveList, alias, where, ok,
                     stack, color, potential, phase>>
  BY DEF Coalesce, CoalesceDefer, input
<1>2. EndX(m) # EndY(m) /\ EndX(m) \notin Physical /\ EndY(m) \notin Physical
  <2>1. EndX(m) \notin Physical
    <3>1. ASSUME EndX(m) \in Physical
          PROVE  GeorgeTest(EndX(m), EndY(m))
      BY <3>1, RegisterAssumption DEF GeorgeTest, AdjList
    <3> QED BY <3>1 DEF CoalesceDefer, Conservative
  <2> QED BY <2>1 DEF CoalesceDefer
<1>3. Types
  BY DEF Discipline
<1>4. \A o \in Move : /\ o # m => moveIn'[o] = moveIn[o]
                      /\ moveIn'[m] = "active" /\ moveIn'[o] \in MoveKind
                      /\ moveIn'[o] \in {"worklist", "active"}
                           <=> moveIn[o] \in {"worklist", "active"}
  BY <1>1, <1>3 DEF Types, MoveKind
<1>5. moveIn' \in [Move -> MoveKind]
  BY <1>1, <1>3 DEF Types, MoveKind
<1>6. Types'
  BY <1>1, <1>3, <1>5 DEF Types
<1>7. Representatives' /\ Precolored' /\ StackHolds' /\ ok'
  BY <1>1 DEF Discipline, Representatives, Precolored, StackHolds
<1>8. MovesAttached'
  <2>1. \A n \in Node : InGraph(n)' <=> InGraph(n)
    BY <1>1 DEF InGraph
  <2>2. \A n \in Node : \A o \in moveList[n] : o \in Move
    BY <1>3 DEF Types
  <2> QED BY <2>1, <2>2, <1>1, <1>4 DEF Discipline, MovesAttached
<1>9. ActiveVirtual'
  <2>1. {EndX(m), EndY(m)} = {alias[toX[m]], alias[fromY[m]]}
        /\ EndX(m) \in Node /\ EndY(m) \in Node
    BY <1>1, EndsOfMove
  <2>2. /\ alias[toX[m]] \in Virtual /\ alias[fromY[m]] \in Virtual
        /\ alias[toX[m]] # alias[fromY[m]]
    BY <2>1, <1>2 DEF Node
  <2> QED BY <2>2, <1>1, <1>4 DEF Discipline, ActiveVirtual
<1>10. Listed' /\ ChosenAlone'
  BY <1>1 DEF Discipline, Listed, ChosenAlone
<1>11. WorklistsSorted'
  <2>1. \A n \in Node : MoveRelated(n)' <=> MoveRelated(n)
    BY <1>1, <1>4 DEF MoveRelated, MoveRelatedIn, LiveIn
  <2> QED BY <2>1, <1>1 DEF Discipline, WorklistsSorted, Node
<1> QED
  BY <1>6, <1>7, <1>8, <1>9, <1>10, <1>11 DEF Discipline

\* What coalesce() does when it merges v into u because of move m, without the
\* LETs of the action.
Merges(m, u, v) ==
  /\ phase = "work" /\ phase' = "work" /\ moveIn[m] = "worklist"
  /\ ListEmpty("simplify")
  /\ u \in Node /\ v \in Virtual /\ v \in Node /\ u # v /\ v \notin adj[u]
  /\ alias[u] = u /\ alias[v] = v /\ InGraph(u) /\ InGraph(v)
  /\ where[v] \in {"spill", "freeze"}
  /\ u \in Virtual => where[u] \in {"spill", "freeze"}
  /\ {u, v} = {alias[toX[m]], alias[fromY[m]]}
  /\ \A n \in Node : alias'[n] = IF alias[n] = v THEN u ELSE alias[n]
  /\ \A n \in Node : moveList'[n] = IF n = u THEN moveList[u] \cup moveList[v]
                                              ELSE moveList[n]
  /\ moveIn' = EnableMoves({v}, [moveIn EXCEPT ![m] = "coalesced"])
  /\ \A n \in Node : n # u => degree'[n] = degree[n]
  /\ degree'[u] \in Int
  /\ u \notin Virtual => degree'[u] = degree[u]
  /\ where'[v] = "coalesced"
  /\ \A n \in Node : n # u /\ n # v => where'[n] = where[n]
  /\ u \notin Virtual => where'[u] = where[u]
  /\ u \in Virtual =>
       where'[u] = IF degree'[u] >= K THEN "spill"
                   ELSE IF MoveRelatedIn(u, moveList', moveIn') THEN "freeze"
                   ELSE "simplify"
  /\ LET fresh == {t \in AdjList(v) : t # v /\ InGraph(t) /\ t # u /\ t \notin adj[u]}
     IN  /\ adj' = [n \in Node |-> IF n = u THEN adj[u] \cup fresh
                                 ELSE IF n \in fresh THEN adj[n] \cup {u} ELSE adj[n]]
         /\ u \in Virtual => degree'[u] = degree[u] + Cardinality(fresh)
  /\ ok'
  /\ Types'
  /\ UNCHANGED <<conflict, toX, fromY, stack, color, potential>>

LEMMA CombineFacts ==
  ASSUME Discipline, NEW m \in Move, Coalesce(m), CoalesceCombine(m)
  PROVE  \E u, v : Merges(m, u, v)
<1>0. PICK u, v : u = EndX(m) /\ v = EndY(m)
  OBVIOUS
<1> DEFINE fresh == {t \in AdjList(v) : t # v /\ InGraph(t) /\ t # u /\ t \notin adj[u]}
           list  == [moveList EXCEPT ![u] = @ \cup moveList[v]]
           deg   == DegreeWith(u, fresh)
           kind  == [moveIn EXCEPT ![m] = "coalesced"]
           inU   == IF where[u] = "freeze" /\ deg[u] >= K THEN "spill" ELSE where[u]
           ready == Ready({u}, deg, list, EnableMoves({v}, kind))
<1>1. /\ phase = "work" /\ phase' = phase /\ moveIn[m] = "worklist"
      /\ ListEmpty("simplify")
      /\ UNCHANGED <<conflict, toX, fromY, stack, color, potential>>
      /\ u # v /\ v \notin Physical /\ v \notin adj[u]
  BY <1>0 DEF Coalesce, CoalesceCombine, input
<1>2. /\ alias' = MergeAlias(u, v)
      /\ moveList' = list
      /\ moveIn' = EnableMoves({v}, kind)
      /\ adj' = [n \in Node |-> IF n = u THEN adj[u] \cup fresh
                                ELSE IF n \in fresh THEN adj[n] \cup {u} ELSE adj[n]]
      /\ degree' = deg
      /\ where' = [n \in Node |-> IF n = v THEN "coalesced"
                                  ELSE IF n \in ready THEN "simplify"
                                  ELSE IF n = u THEN inU ELSE where[n]]
      /\ ok' = (/\ where[v] \in {"freeze", "spill"}
                /\ alias[v] = v
                /\ \A n \in ready : inU = "freeze")
  BY <1>0 DEF CoalesceCombine, Combine
<1>3. Types /\ K \in Nat /\ K > 0
  BY KPositive DEF Discipline
<1>4. /\ u \in Node /\ v \in Node /\ v \in Virtual
      /\ alias[u] = u /\ alias[v] = v /\ InGraph(u) /\ InGraph(v)
      /\ where[v] \in {"spill", "freeze"}
      /\ u \in Virtual => where[u] \in {"spill", "freeze"}
      /\ {u, v} = {alias[toX[m]], alias[fromY[m]]}
      /\ m \in moveList[u] /\ m \in moveList[v]
      /\ (u \in Virtual /\ degree[u] < K) => where[u] = "freeze"
      /\ (u \in Virtual /\ where[u] = "freeze") => degree[u] < K
      /\ (u \in Virtual /\ where[u] = "spill") => degree[u] >= K
  <2>1. /\ u \in Node /\ v \in Node
        /\ alias[u] = u /\ alias[v] = v /\ InGraph(u) /\ InGraph(v)
        /\ {u, v} = {alias[toX[m]], alias[fromY[m]]}
        /\ m \in moveList[u] /\ m \in moveList[v]
        /\ v \in Virtual => where[v] \in {"spill", "freeze"}
        /\ u \in Virtual => where[u] \in {"spill", "freeze"}
        /\ (u \in Virtual /\ degree[u] < K) => where[u] = "freeze"
    BY <1>0, <1>1, EndsOfMove
  <2> QED BY <2>1, <1>1 DEF Node, Discipline, WorklistsSorted
<1>5. fresh \subseteq Node /\ Cardinality(fresh) \in Nat
  <2>1. fresh \subseteq Node
    BY <1>3, <1>4 DEF AdjList, Types
  <2> QED BY <2>1, SubsetCard
<1> HIDE DEF fresh
<1>6. /\ \A n \in Node : n # u => degree'[n] = degree[n]
      /\ degree'[u] \in Int /\ degree'[u] >= degree[u]
      /\ u \notin Virtual => degree'[u] = degree[u]
      /\ u \in Virtual => degree'[u] = degree[u] + Cardinality(fresh)
      /\ degree' \in [Node -> Int]
  BY <1>2, <1>3, <1>4, <1>5 DEF DegreeWith, Types
<1>7. \A n \in ready : n = u /\ u \in Virtual /\ degree'[u] < K
                       /\ ~MoveRelatedIn(u, moveList', moveIn')
  BY <1>2, <1>4 DEF Ready, Node
<1>8. u \in Virtual /\ degree'[u] < K /\ ~MoveRelatedIn(u, moveList', moveIn')
        => u \in ready
  BY <1>2, RegisterAssumption DEF Ready
<1>9. inU = IF where[u] = "freeze" /\ degree'[u] >= K THEN "spill" ELSE where[u]
  BY <1>2
<1> HIDE DEF ready, deg, inU
<1>10. u \in Virtual /\ degree'[u] < K => inU = "freeze"
  BY <1>3, <1>4, <1>6, <1>9 DEF Types
<1>11. ok'
  BY <1>2, <1>4, <1>7, <1>10
<1>12. u \in Virtual =>
         where'[u] = IF degree'[u] >= K THEN "spill"
                     ELSE IF MoveRelatedIn(u, moveList', moveIn') THEN "freeze"
                     ELSE "simplify"
  <2> SUFFICES ASSUME u \in Virtual
               PROVE  where'[u] = IF degree'[u] >= K THEN "spill"
                                  ELSE IF MoveRelatedIn(u, moveList', moveIn') THEN "freeze"
                                  ELSE "simplify"
    OBVIOUS
  <2>0. where'[u] = IF u \in ready THEN "simplify" ELSE inU
    BY <1>1, <1>2, <1>4
  <2>1. CASE degree'[u] >= K
    BY <2>0, <2>1, <1>3, <1>4, <1>6, <1>7, <1>9
  <2>2. CASE ~(degree'[u] >= K)
    <3>1. degree'[u] < K
      BY <2>2, <1>3, <1>6
    <3> QED BY <2>0, <2>2, <3>1, <1>7, <1>8, <1>10
  <2> QED BY <2>1, <2>2
<1>13. /\ where'[v] = "coalesced"
       /\ \A n \in Node : n # u /\ n # v => where'[n] = where[n]
       /\ u \notin Virtual => where'[u] = where[u]
  <2>1. u \notin Virtual => inU = where[u]
    BY <1>4, <1>9, RegisterAssumption DEF Discipline, Precolored, Node
  <2> QED BY <2>1, <1>1, <1>2, <1>4, <1>7
<1>14. Types'
  <2>1. where' \in [Node -> NodeList]
    <3>1. inU \in NodeList
      BY <1>3, <1>4, <1>9 DEF Types, NodeList
    <3> QED BY <3>1, <1>2, <1>3 DEF Types, NodeList
  <2>2. moveIn' \in [Move -> MoveKind]
    BY <1>2, <1>3 DEF EnableMoves, Types, MoveKind
  <2>3. alias' \in [Node -> Node]
    BY <1>2, <1>3, <1>4 DEF MergeAlias, Types
  <2>4. moveList' \in [Node -> SUBSET Move]
    BY <1>2, <1>3, <1>4 DEF Types
  <2>5. adj' \in [Node -> SUBSET Node]
    BY <1>2, <1>3, <1>4, <1>5 DEF Types
  <2>6. ok' \in BOOLEAN
    BY <1>11
  <2> QED BY <1>1, <1>3, <1>6, <2>1, <2>2, <2>3, <2>4, <2>5, <2>6 DEF Types
<1>15. \A n \in Node : alias'[n] = IF alias[n] = v THEN u ELSE alias[n]
  BY <1>2 DEF MergeAlias
<1>16. \A n \in Node : moveList'[n] = IF n = u THEN moveList[u] \cup moveList[v]
                                                 ELSE moveList[n]
  BY <1>2, <1>3, <1>4 DEF Types
<1>17. Merges(m, u, v)
  BY <1>1, <1>2, <1>4, <1>6, <1>11, <1>12, <1>13, <1>14, <1>15, <1>16
  DEF Merges, fresh
<1> QED BY <1>17

LEMMA CombineDiscipline ==
  ASSUME Discipline, NEW m \in Move, Coalesce(m), CoalesceCombine(m)
  PROVE  Discipline'
<1>0. PICK u, v : Merges(m, u, v)
  BY CombineFacts
<1>1. /\ phase = "work" /\ phase' = "work" /\ moveIn[m] = "worklist"
      /\ ListEmpty("simplify")
      /\ u \in Node /\ v \in Virtual /\ v \in Node /\ u # v
      /\ alias[u] = u /\ alias[v] = v /\ InGraph(u) /\ InGraph(v)
      /\ where[v] \in {"spill", "freeze"}
      /\ u \in Virtual => where[u] \in {"spill", "freeze"}
      /\ {u, v} = {alias[toX[m]], alias[fromY[m]]}
      /\ UNCHANGED <<conflict, toX, fromY, stack, color, potential>>
  BY <1>0 DEF Merges
<1>2. /\ \A n \in Node : alias'[n] = IF alias[n] = v THEN u ELSE alias[n]
      /\ \A n \in Node : moveList'[n] = IF n = u THEN moveList[u] \cup moveList[v]
                                                  ELSE moveList[n]
      /\ moveIn' = EnableMoves({v}, [moveIn EXCEPT ![m] = "coalesced"])
  BY <1>0 DEF Merges
<1>3. /\ \A n \in Node : n # u => degree'[n] = degree[n]
      /\ degree'[u] \in Int
      /\ u \notin Virtual => degree'[u] = degree[u]
      /\ where'[v] = "coalesced"
      /\ \A n \in Node : n # u /\ n # v => where'[n] = where[n]
      /\ u \notin Virtual => where'[u] = where[u]
      /\ u \in Virtual =>
           where'[u] = IF degree'[u] >= K THEN "spill"
                       ELSE IF MoveRelatedIn(u, moveList', moveIn') THEN "freeze"
                       ELSE "simplify"
  BY <1>0 DEF Merges
<1>4. ok' /\ Types'
  BY <1>0 DEF Merges
<1>5. Types /\ K \in Nat /\ K > 0
  BY KPositive DEF Discipline
<1>6. where'[u] \notin {"coalesced", "selectStack"} /\ InGraph(u)'
  BY <1>1, <1>3 DEF InGraph
<1>7. \A o \in Move :
        moveIn'[o] = IF o = m THEN "coalesced"
                     ELSE IF moveIn[o] = "active" /\ o \in moveList[v] THEN "worklist"
                     ELSE moveIn[o]
  BY <1>1, <1>2, <1>5 DEF EnableMoves, Types
<1>8. \A o \in Move : /\ moveIn'[o] \in {"worklist", "active"}
                           => o # m /\ moveIn[o] \in {"worklist", "active"}
                      /\ o # m /\ moveIn[o] \in {"worklist", "active"}
                           => moveIn'[o] \in {"worklist", "active"}
                      /\ moveIn'[o] = "active" => moveIn[o] = "active" /\ o \notin moveList[v]
  BY <1>1, <1>7
<1>9. \A o \in Move : toX[o] \in Node /\ fromY[o] \in Node
                      /\ alias[toX[o]] \in Node /\ alias[fromY[o]] \in Node
  BY <1>5 DEF Types
<1>10. Representatives'
  <2>1. ASSUME NEW n \in Node
        PROVE  alias'[alias'[n]] = alias'[n]
    <3>1. alias[n] \in Node /\ alias[alias[n]] = alias[n]
      BY <1>5 DEF Types, Discipline, Representatives
    <3> QED BY <3>1, <1>1, <1>2
  <2>2. \A n \in Node : where'[n] = "coalesced" <=> alias'[n] # n
    BY <1>1, <1>2, <1>3, <1>6 DEF Discipline, Representatives
  <2> QED BY <2>1, <2>2 DEF Representatives
<1>11. Precolored'
  BY <1>1, <1>3, RegisterAssumption DEF Discipline, Precolored, Node
<1>12. StackHolds'
  <2>1. \A n \in Node : where'[n] = "selectStack" <=> where[n] = "selectStack"
    BY <1>1, <1>3, <1>6 DEF InGraph
  <2>2. \A i \in 1..Len(stack) : stack[i] \in Node
    BY <1>5 DEF Types, Node
  <2> QED BY <2>1, <2>2, <1>1 DEF Discipline, StackHolds
<1>13. MovesAttached'
  <2>1. ASSUME NEW o \in Move, moveIn'[o] \in {"worklist", "active"},
               NEW x \in {toX[o], fromY[o]}
        PROVE  where'[alias'[x]] # "selectStack" /\ o \in moveList'[alias'[x]]
    <3>1. moveIn[o] \in {"worklist", "active"} /\ x \in Node /\ alias[x] \in Node
      BY <2>1, <1>8, <1>9
    <3>2. where[alias[x]] # "selectStack" /\ o \in moveList[alias[x]]
      BY <3>1, <2>1 DEF Discipline, MovesAttached
    <3>3. CASE alias[x] = v
      BY <3>1, <3>2, <3>3, <1>1, <1>2, <1>6
    <3>4. CASE alias[x] # v
      BY <3>1, <3>2, <3>4, <1>2, <1>3, <1>6
    <3> QED BY <3>3, <3>4
  <2>2. ASSUME NEW a \in Node, NEW o \in moveList'[a],
               moveIn'[o] \in {"worklist", "active"}, InGraph(a)'
        PROVE  a \in {alias'[toX[o]], alias'[fromY[o]]}
    <3>1. o \in Move
      BY <1>4 DEF Types
    <3>2. moveIn[o] \in {"worklist", "active"} /\ toX[o] \in Node /\ fromY[o] \in Node
      BY <2>2, <3>1, <1>8, <1>9
    <3>3. a # v
      BY <2>2, <1>3 DEF InGraph
    <3>4. CASE a = u
      <4>1. o \in moveList[u] \/ o \in moveList[v]
        BY <3>4, <1>2
      <4>2. u \in {alias[toX[o]], alias[fromY[o]]} \/ v \in {alias[toX[o]], alias[fromY[o]]}
        BY <4>1, <3>2, <1>1 DEF Discipline, MovesAttached
      <4> QED BY <4>2, <3>2, <3>4, <1>1, <1>2
    <3>5. CASE a # u
      <4>1. o \in moveList[a] /\ InGraph(a)
        BY <3>3, <3>5, <2>2, <1>2, <1>3 DEF InGraph
      <4>2. a \in {alias[toX[o]], alias[fromY[o]]}
        BY <4>1, <3>2 DEF Discipline, MovesAttached
      <4> QED BY <4>2, <3>2, <3>3, <1>2
    <3> QED BY <3>4, <3>5
  <2> QED BY <2>1, <2>2, <1>1 DEF MovesAttached
<1>14. ActiveVirtual'
  <2> SUFFICES ASSUME NEW o \in Move, moveIn'[o] = "active"
               PROVE  /\ alias'[toX[o]] \in Virtual /\ alias'[fromY[o]] \in Virtual
                      /\ alias'[toX[o]] # alias'[fromY[o]]
    BY <1>1 DEF ActiveVirtual
  <2>1. moveIn[o] = "active" /\ o \notin moveList[v]
    BY <1>8
  <2>2. alias[toX[o]] # v /\ alias[fromY[o]] # v
    BY <2>1 DEF Discipline, MovesAttached
  <2> QED BY <2>1, <2>2, <1>2, <1>9 DEF Discipline, ActiveVirtual
<1>15. Listed'
  BY <1>1, <1>3 DEF Discipline, Listed, Node
<1>16. WorklistsSorted'
  <2> SUFFICES ASSUME NEW a \in Virtual
               PROVE  /\ where'[a] = "spill" => degree'[a] >= K
                      /\ where'[a] = "freeze" => degree'[a] < K /\ MoveRelated(a)'
                      /\ where'[a] = "simplify" => ~MoveRelated(a)'
    BY DEF WorklistsSorted
  <2>1. a \in Node
    BY DEF Node
  <2>2. CASE a = u
    BY <2>2, <1>3, <1>5 DEF MoveRelated
  <2>3. CASE a = v
    BY <2>3, <1>3
  <2>4. CASE a # u /\ a # v
    <3>1. where'[a] = where[a] /\ degree'[a] = degree[a] /\ moveList'[a] = moveList[a]
          /\ where[a] # "simplify"
      BY <2>1, <2>4, <1>1, <1>2, <1>3 DEF ListEmpty
    <3>2. /\ where[a] = "spill" => degree[a] >= K
          /\ where[a] = "freeze" => degree[a] < K /\ MoveRelated(a)
      BY <1>1 DEF Discipline, WorklistsSorted
    <3>3. ASSUME where[a] = "freeze"
          PROVE  MoveRelated(a)'
      <4>1. PICK o \in moveList[a] : o \in Move /\ moveIn[o] \in {"worklist", "active"}
        BY <3>2, <3>3 DEF MoveRelated, MoveRelatedIn, LiveIn
      <4>2. o # m
        BY <4>1, <3>3, <2>1, <2>4, <1>1 DEF Discipline, MovesAttached, InGraph
      <4> QED BY <4>1, <4>2, <3>1, <1>8 DEF MoveRelated, MoveRelatedIn, LiveIn
    <3> QED BY <3>1, <3>2, <3>3
  <2> QED BY <2>2, <2>3, <2>4
<1>17. ChosenAlone'
  <2>1. \A a \in Virtual : where'[a] = "simplify" => a = u /\ ~(degree'[a] >= K)
    BY <1>1, <1>3, <1>5 DEF ListEmpty, Node
  <2> QED BY <2>1 DEF ChosenAlone
<1> QED
  BY <1>4, <1>10, <1>11, <1>12, <1>13, <1>14, <1>15, <1>16, <1>17 DEF Discipline

\* freezeMove(u) with nothing left to simplify or coalesce: for freeze(), and
\* for selectSpill() when the freeze list is empty too.
LEMMA FreezeMoveDiscipline ==
  ASSUME Discipline, phase = "work", NEW u \in Virtual, NEW l \in {"freeze", "spill"},
         where[u] = l, ListEmpty("simplify"), MovesEmpty("worklist"),
         l = "spill" => ListEmpty("freeze"),
         FreezeMove(u, l), potential' \subseteq Virtual,
         UNCHANGED <<conflict, toX, fromY, adj, degree, moveList, alias, stack, color, phase>>
  PROVE  Discipline'
<1> DEFINE gone  == moveList[u] \cap LiveIn(moveIn)
           kind  == [m \in Move |-> IF m \in gone THEN "frozen" ELSE moveIn[m]]
           freed == {v \in {OtherEnd(u, m) : m \in gone} :
                       degree[v] < K /\ ~MoveRelatedIn(v, moveList, kind)}
<1>1. /\ moveIn' = kind
      /\ where' = [n \in Node |-> IF n = u \/ n \in freed THEN "simplify" ELSE where[n]]
      /\ ok' = (/\ where[u] = l
                /\ \A m \in gone : moveIn[m] = "active"
                /\ \A v \in freed : v # u /\ where[v] = "freeze")
  BY DEF FreezeMove
<1>2. Types /\ K \in Nat /\ K > 0 /\ u \in Node /\ InGraph(u) /\ alias[u] = u
  BY KPositive DEF Discipline, Node, InGraph, Representatives
<1>3. \A m \in gone : /\ m \in Move /\ moveIn[m] = "active"
                      /\ u \in {alias[toX[m]], alias[fromY[m]]}
                      /\ OtherEnd(u, m) \in Virtual /\ OtherEnd(u, m) # u
                      /\ OtherEnd(u, m) \in {alias[toX[m]], alias[fromY[m]]}
  <2> SUFFICES ASSUME NEW m \in gone
               PROVE  /\ m \in Move /\ moveIn[m] = "active"
                      /\ u \in {alias[toX[m]], alias[fromY[m]]}
                      /\ OtherEnd(u, m) \in Virtual /\ OtherEnd(u, m) # u
                      /\ OtherEnd(u, m) \in {alias[toX[m]], alias[fromY[m]]}
    OBVIOUS
  <2>1. m \in Move /\ m \in moveList[u] /\ moveIn[m] = "active"
    BY DEF LiveIn, MovesEmpty
  <2>2. u \in {alias[toX[m]], alias[fromY[m]]}
    BY <2>1, <1>2 DEF Discipline, MovesAttached
  <2> QED BY <2>1, <2>2, <1>2 DEF OtherEnd, Discipline, ActiveVirtual
<1>4. \A m \in Move : /\ m \in gone => moveIn'[m] = "frozen"
                      /\ m \notin gone => moveIn'[m] = moveIn[m]
  BY <1>1
<1>5. \A v \in freed : /\ v \in Virtual /\ v # u /\ v \in Node /\ degree[v] < K
                       /\ where[v] = "freeze" /\ ~MoveRelatedIn(v, moveList, moveIn')
  <2> SUFFICES ASSUME NEW v \in freed
               PROVE  /\ v \in Virtual /\ v # u /\ v \in Node /\ degree[v] < K
                      /\ where[v] = "freeze" /\ ~MoveRelatedIn(v, moveList, moveIn')
    OBVIOUS
  <2>1. PICK m \in gone : v = OtherEnd(u, m)
    OBVIOUS
  <2>2. v \in Virtual /\ v # u /\ v \in {alias[toX[m]], alias[fromY[m]]}
        /\ m \in Move /\ moveIn[m] = "active"
    BY <2>1, <1>3
  <2>3. v \in Node /\ alias[v] = v
    BY <2>2, <1>2 DEF Node, Discipline, Representatives, Types
  <2>4. where[v] \notin {"selectStack", "coalesced"}
    BY <2>2, <2>3 DEF Discipline, MovesAttached, Representatives
  <2>5. where[v] \in {"spill", "freeze"}
    BY <2>2, <2>4 DEF Discipline, Listed, ListEmpty
  <2>6. degree[v] < K /\ ~MoveRelatedIn(v, moveList, moveIn')
    BY <1>1
  <2>7. where[v] # "spill"
    BY <2>2, <2>3, <2>6, <1>2 DEF Discipline, WorklistsSorted, Types
  <2> QED BY <2>2, <2>3, <2>5, <2>6, <2>7
<1>6. ok'
  BY <1>1, <1>3, <1>5
<1>7. \A v \in {OtherEnd(u, m) : m \in gone} :
        v \in freed \/ ~(degree[v] < K) \/ MoveRelatedIn(v, moveList, moveIn')
  BY <1>1
<1>8. \A n \in Node : where'[n] = IF n = u \/ n \in freed THEN "simplify" ELSE where[n]
  BY <1>1
<1>9. where' \in [Node -> NodeList] /\ moveIn' \in [Move -> MoveKind]
  BY <1>1, <1>2 DEF Types, NodeList, MoveKind
<1>10. gone \subseteq moveList[u] /\ gone \subseteq Move
       /\ \A m \in moveList[u] : m \in Move /\ moveIn[m] \in {"worklist", "active"} => m \in gone
  BY DEF LiveIn
<1> HIDE DEF gone, freed
<1>11. Types'
  BY <1>2, <1>6, <1>9 DEF Types
<1>12. Representatives'
  BY <1>5, <1>8 DEF Discipline, Representatives
<1>13. Precolored'
  BY <1>5, <1>8, RegisterAssumption DEF Discipline, Precolored, Node
<1>14. StackHolds'
  <2>1. \A n \in Node : where'[n] = "selectStack" <=> where[n] = "selectStack"
    BY <1>2, <1>5, <1>8 DEF InGraph
  <2>2. \A i \in 1..Len(stack) : stack[i] \in Node
    BY <1>2 DEF Types, Node
  <2> QED BY <2>1, <2>2 DEF Discipline, StackHolds
<1>15. MovesAttached'
  <2>1. \A o \in Move : moveIn'[o] \in {"worklist", "active"}
                          => moveIn[o] \in {"worklist", "active"}
    BY <1>4
  <2>2. \A n \in Node : /\ where'[n] = "selectStack" => where[n] = "selectStack"
                        /\ InGraph(n)' => InGraph(n)
    BY <1>5, <1>8, <1>2 DEF InGraph
  <2>3. \A o \in Move : alias[toX[o]] \in Node /\ alias[fromY[o]] \in Node
    BY <1>2 DEF Types
  <2>4. \A n \in Node : \A o \in moveList[n] : o \in Move
    BY <1>2 DEF Types
  <2> QED BY <2>1, <2>2, <2>3, <2>4 DEF Discipline, MovesAttached
<1>16. ActiveVirtual'
  BY <1>4 DEF Discipline, ActiveVirtual
<1>17. Listed'
  BY <1>8 DEF Discipline, Listed, Node
<1>18. WorklistsSorted'
  <2> SUFFICES ASSUME NEW a \in Virtual
               PROVE  /\ where'[a] = "spill" => degree[a] >= K
                      /\ where'[a] = "freeze" => degree[a] < K /\ MoveRelated(a)'
                      /\ where'[a] = "simplify" => ~MoveRelated(a)'
    BY DEF WorklistsSorted
  <2>1. a \in Node /\ where[a] # "simplify"
    BY DEF Node, ListEmpty
  <2>2. /\ where[a] = "spill" => degree[a] >= K
        /\ where[a] = "freeze" => degree[a] < K /\ MoveRelated(a)
    BY DEF Discipline, WorklistsSorted
  <2>3. CASE a = u
    <3>1. ~MoveRelatedIn(u, moveList, moveIn')
      BY <1>4, <1>10 DEF MoveRelatedIn, LiveIn
    <3> QED BY <2>3, <3>1, <2>1, <1>8 DEF MoveRelated
  <2>4. CASE a \in freed
    BY <2>4, <2>1, <1>5, <1>8 DEF MoveRelated
  <2>5. CASE a # u /\ a \notin freed
    <3>1. where'[a] = where[a]
      BY <2>1, <2>5, <1>8
    <3>2. ASSUME where[a] = "freeze"
          PROVE  MoveRelatedIn(a, moveList, moveIn')
      <4>1. PICK o \in moveList[a] : o \in Move /\ moveIn[o] \in {"worklist", "active"}
        BY <3>2, <2>2 DEF MoveRelated, MoveRelatedIn, LiveIn
      <4>2. CASE o \notin gone
        BY <4>1, <4>2, <1>4 DEF MoveRelatedIn, LiveIn
      <4>3. CASE o \in gone
        <5>1. a \in {alias[toX[o]], alias[fromY[o]]}
          BY <4>1, <3>2, <2>1 DEF Discipline, MovesAttached, InGraph
        <5>2. a = OtherEnd(u, o)
          BY <5>1, <4>3, <2>5, <1>3
        <5> QED BY <5>2, <4>3, <2>5, <2>2, <3>2, <1>7
      <4> QED BY <4>2, <4>3
    <3> QED BY <3>1, <3>2, <2>1, <2>2 DEF MoveRelated
  <2> QED BY <2>3, <2>4, <2>5
<1>19. ChosenAlone'
  <2>1. CASE l = "freeze"
    <3>1. degree[u] < K
      BY <2>1 DEF Discipline, WorklistsSorted
    <3>2. \A a \in Virtual : where'[a] = "simplify" => degree[a] < K
      BY <3>1, <1>5, <1>8 DEF Node, ListEmpty
    <3>3. \A a \in Virtual : degree'[a] = degree[a] /\ degree[a] \in Int
      BY <1>2 DEF Types, Node
    <3> QED BY ONLY <3>2, <3>3, <1>2 DEF ChosenAlone
  <2>2. CASE l = "spill"
    <3>1. \A a \in Virtual : a \notin freed
      BY <2>2, <1>5 DEF ListEmpty
    <3>2. \A a \in Virtual : a # u => where'[a] \notin {"simplify", "freeze"}
      BY <3>1, <2>2, <1>8 DEF ListEmpty, Node
    <3> QED BY ONLY <3>2 DEF ChosenAlone
  <2> QED BY <2>1, <2>2
<1> QED
  BY <1>6, <1>11, <1>12, <1>13, <1>14, <1>15, <1>16, <1>17, <1>18, <1>19 DEF Discipline

LEMMA StartColoringDiscipline ==
  ASSUME Discipline, StartColoring
  PROVE  Discipline'
<1>1. /\ phase = "work" /\ phase' = "select"
      /\ \A l \in {"simplify", "freeze", "spill"} : ListEmpty(l)
      /\ MovesEmpty("worklist")
      /\ color' = [n \in Node |-> IF n \in Physical THEN n ELSE NoColor]
      /\ UNCHANGED <<conflict, toX, fromY, adj, degree, moveList, alias, where, moveIn,
                     stack, potential, ok>>
  BY DEF StartColoring, input
<1>2. Types
  BY DEF Discipline
<1>3. Types'
  BY <1>1, <1>2 DEF Types, Phase
<1>4. Representatives' /\ Precolored' /\ StackHolds' /\ MovesAttached' /\ ActiveVirtual'
      /\ ChosenAlone' /\ WorklistsSorted' /\ ok'
  BY <1>1 DEF Discipline, Representatives, Precolored, StackHolds, MovesAttached, InGraph,
              ActiveVirtual, ChosenAlone, WorklistsSorted
<1>5. \A m \in Move : moveIn[m] \notin {"worklist", "active"}
  <2> SUFFICES ASSUME NEW m \in Move, moveIn[m] = "active"
               PROVE  FALSE
    BY <1>1 DEF MovesEmpty
  <2>1. alias[toX[m]] \in Virtual /\ alias[toX[m]] \in Node /\ toX[m] \in Node
        /\ where[alias[toX[m]]] # "selectStack"
    BY <1>2 DEF Discipline, ActiveVirtual, MovesAttached, Types
  <2>2. where[alias[toX[m]]] # "coalesced"
    BY <2>1 DEF Discipline, Representatives
  <2> QED BY <2>1, <2>2, <1>1 DEF Discipline, Listed, ListEmpty
<1>6. Listed'
  BY <1>1, <1>5 DEF Listed
<1> QED BY <1>3, <1>4, <1>6 DEF Discipline

\* One pop: n leaves the stack for good, with or without a colour.
LEMMA PopFacts ==
  ASSUME Discipline, AssignColor
  PROVE  \E n \in Virtual :
           /\ phase = "select" /\ n \in Node /\ n = stack[Len(stack)]
           /\ Len(stack) \in Nat /\ Len(stack) > 0 /\ where[n] = "selectStack"
           /\ Len(stack') = Len(stack) - 1
           /\ stack' \in Seq(Virtual)
           /\ \A i \in 1..(Len(stack) - 1) : stack'[i] = stack[i] /\ stack[i] # n
           /\ \A a \in Node : a # n => where'[a] = where[a] /\ color'[a] = color[a]
           /\ \/ /\ where'[n] = "none"
                 /\ color'[n] \in Physical \ {color[alias[w]] : w \in adj[n]}
              \/ where'[n] = "spilled" /\ color'[n] = color[n]
           /\ where' \in [Node -> NodeList]
           /\ color' \in [Node -> Physical \cup {NoColor}]
           /\ UNCHANGED <<conflict, toX, fromY, adj, degree, moveList, alias, moveIn,
                          potential, phase, ok>>
<1> DEFINE n    == stack[Len(stack)]
           free == Physical \ ColorsTaken(n)
<1>1. /\ phase = "select" /\ stack # <<>>
      /\ \/ \E c \in free : /\ color' = [color EXCEPT ![n] = c]
                            /\ where' = [where EXCEPT ![n] = "none"]
         \/ /\ where' = [where EXCEPT ![n] = "spilled"]
            /\ color' = color
      /\ stack' = SubSeq(stack, 1, Len(stack) - 1)
      /\ UNCHANGED <<conflict, toX, fromY, adj, degree, moveList, alias, moveIn,
                     potential, phase, ok>>
  BY DEF AssignColor, input
<1>2. Types
  BY DEF Discipline
<1>3. /\ Len(stack) \in Nat /\ Len(stack) > 0 /\ n \in Virtual /\ n \in Node
      /\ Len(stack') = Len(stack) - 1 /\ stack' \in Seq(Virtual)
      /\ \A i \in 1..(Len(stack) - 1) : stack'[i] = stack[i]
  <2>1. stack \in Seq(Virtual) /\ Len(stack) \in Nat /\ Len(stack) > 0
    BY <1>1, <1>2, EmptySeq DEF Types
  <2>2. \A i \in 1..Len(stack) : stack[i] \in Virtual
    BY <2>1
  <2>3. Len(stack) - 1 \in Int /\ \A i \in 1..(Len(stack) - 1) : stack[i] \in Virtual
    BY <2>1, <2>2
  <2>4. /\ stack' \in Seq(Virtual)
        /\ Len(stack') = IF 1 <= Len(stack) - 1 THEN (Len(stack) - 1) - 1 + 1 ELSE 0
        /\ \A i \in 1..((Len(stack) - 1) - 1 + 1) : stack'[i] = stack[1 + i - 1]
    BY <2>3, <1>1, SubSeqProperties
  <2>5. Len(stack') = Len(stack) - 1
    <3>1. \A k \in Nat \ {0} : (IF 1 <= k - 1 THEN (k - 1) - 1 + 1 ELSE 0) = k - 1
      OBVIOUS
    <3>2. Len(stack) \in Nat \ {0}
      BY <2>1
    <3> QED BY ONLY <3>1, <3>2, <2>4
  <2>6. ASSUME NEW i \in 1..(Len(stack) - 1)
        PROVE  stack'[i] = stack[i]
    <3>1. i \in 1..((Len(stack) - 1) - 1 + 1) /\ 1 + i - 1 = i
      BY <2>1
    <3>2. stack'[i] = stack[1 + i - 1]
      BY <3>1, <2>4
    <3> QED BY <3>1, <3>2
  <2>7. n \in Virtual
    BY <2>1, <2>2
  <2> QED BY <2>1, <2>4, <2>5, <2>6, <2>7 DEF Node
<1>4. where[n] = "selectStack" /\ \A i \in 1..(Len(stack) - 1) : stack[i] # n
  BY <1>3 DEF Discipline, StackHolds
<1>5. ColorsTaken(n) = {color[alias[w]] : w \in adj[n]}
  BY <1>3 DEF ColorsTaken, AdjList
<1> HIDE DEF n
<1>6. /\ \A a \in Node : a # n => where'[a] = where[a] /\ color'[a] = color[a]
      /\ \/ where'[n] = "none" /\ color'[n] \in free
         \/ where'[n] = "spilled" /\ color'[n] = color[n]
      /\ where' \in [Node -> NodeList]
      /\ color' \in [Node -> Physical \cup {NoColor}]
  <2>1. where \in [Node -> NodeList] /\ color \in [Node -> Physical \cup {NoColor}] /\ n \in Node
    BY <1>2, <1>3 DEF Types
  <2>2. CASE where' = [where EXCEPT ![n] = "spilled"] /\ color' = color
    BY <2>1, <2>2 DEF NodeList
  <2>3. ASSUME NEW c \in free, color' = [color EXCEPT ![n] = c],
               where' = [where EXCEPT ![n] = "none"]
        PROVE  /\ \A a \in Node : a # n => where'[a] = where[a] /\ color'[a] = color[a]
               /\ where'[n] = "none" /\ color'[n] \in free
               /\ where' \in [Node -> NodeList]
               /\ color' \in [Node -> Physical \cup {NoColor}]
    BY <2>1, <2>3 DEF NodeList
  <2> QED BY <1>1, <2>2, <2>3
<1> QED
  BY <1>1, <1>3, <1>4, <1>5, <1>6 DEF n

LEMMA AssignColorDiscipline ==
  ASSUME Discipline, AssignColor
  PROVE  Discipline'
<1>1. PICK n \in Virtual :
           /\ phase = "select" /\ n \in Node /\ n = stack[Len(stack)]
           /\ Len(stack) \in Nat /\ Len(stack) > 0 /\ where[n] = "selectStack"
           /\ Len(stack') = Len(stack) - 1
           /\ stack' \in Seq(Virtual)
           /\ \A i \in 1..(Len(stack) - 1) : stack'[i] = stack[i] /\ stack[i] # n
           /\ \A a \in Node : a # n => where'[a] = where[a] /\ color'[a] = color[a]
           /\ where'[n] \in {"none", "spilled"}
           /\ where' \in [Node -> NodeList]
           /\ color' \in [Node -> Physical \cup {NoColor}]
           /\ UNCHANGED <<conflict, toX, fromY, adj, degree, moveList, alias, moveIn,
                          potential, phase, ok>>
  BY PopFacts
<1>2. Types
  BY DEF Discipline
<1>3. Types'
  BY <1>1, <1>2 DEF Types
<1>4. Representatives'
  BY <1>1 DEF Discipline, Representatives
<1>5. Precolored'
  BY <1>1, RegisterAssumption DEF Discipline, Precolored, Node
<1>6. StackHolds'
  <2>1. \A i \in 1..Len(stack') : i \in 1..(Len(stack) - 1) /\ i \in 1..Len(stack)
                                  /\ stack[i] \in Node
    BY <1>1, <1>2 DEF Types, Node
  <2>0. StackHolds
    BY DEF Discipline
  <2>2. ASSUME NEW i \in 1..Len(stack')
        PROVE  where'[stack'[i]] = "selectStack"
    <3>1. stack'[i] = stack[i] /\ stack[i] # n /\ stack[i] \in Node
      BY <2>1, <1>1
    <3> QED BY <3>1, <2>0, <2>1, <1>1 DEF StackHolds
  <2>3. ASSUME NEW i \in 1..Len(stack'), NEW j \in 1..Len(stack'), i # j
        PROVE  stack'[i] # stack'[j]
    <3>1. stack'[i] = stack[i] /\ stack'[j] = stack[j]
      BY <2>1, <1>1
    <3> QED BY <3>1, <2>0, <2>1, <2>3 DEF StackHolds
  <2>4. ASSUME NEW a \in Node, where'[a] = "selectStack"
        PROVE  \E i \in 1..Len(stack') : stack'[i] = a
    <3>1. a # n /\ where[a] = "selectStack"
      BY <2>4, <1>1
    <3>2. PICK i \in 1..Len(stack) : stack[i] = a
      BY <3>1 DEF Discipline, StackHolds
    <3>3. i \in 1..(Len(stack) - 1)
      BY <3>1, <3>2, <1>1
    <3> QED BY <3>2, <3>3, <1>1
  <2> QED BY <2>2, <2>3, <2>4 DEF StackHolds
<1>7. \A m \in Move : moveIn[m] \notin {"worklist", "active"}
  BY <1>1 DEF Discipline, Listed
<1>8. MovesAttached' /\ ActiveVirtual'
  BY <1>1, <1>2, <1>7 DEF MovesAttached, ActiveVirtual, Types
<1>9. Listed' /\ ChosenAlone' /\ WorklistsSorted' /\ ok'
  BY <1>1, <1>7 DEF Discipline, Listed, ChosenAlone, WorklistsSorted
<1> QED BY <1>3, <1>4, <1>5, <1>6, <1>8, <1>9 DEF Discipline

LEMMA FinishColoringDiscipline ==
  ASSUME Discipline, FinishColoring
  PROVE  Discipline'
<1>1. /\ phase = "select" /\ phase' \in {"rewrite", "apply"}
      /\ color' = [n \in Node |-> FinalColor(n)]
      /\ UNCHANGED <<conflict, toX, fromY, adj, degree, moveList, alias, where, moveIn,
                     stack, potential, ok>>
  BY DEF FinishColoring, input
<1>2. Types
  BY DEF Discipline
<1>3. color' \in [Node -> Physical \cup {NoColor}]
  BY <1>1, <1>2 DEF FinalColor, Types
<1>4. Types'
  BY <1>1, <1>2, <1>3 DEF Types, Phase
<1>5. Representatives' /\ Precolored' /\ StackHolds' /\ MovesAttached' /\ ActiveVirtual' /\ ok'
  BY <1>1 DEF Discipline, Representatives, Precolored, StackHolds, MovesAttached, InGraph,
              ActiveVirtual
<1>6. Listed' /\ ChosenAlone' /\ WorklistsSorted'
  BY <1>1 DEF Discipline, Listed, ChosenAlone, WorklistsSorted
<1> QED BY <1>4, <1>5, <1>6 DEF Discipline

LEMMA StutterDiscipline ==
  ASSUME Discipline, UNCHANGED vars
  PROVE  Discipline'
<1> QED
  BY DEF Discipline, vars, Types, Representatives, Precolored, StackHolds, MovesAttached,
         InGraph, ActiveVirtual, Listed, ChosenAlone, WorklistsSorted, MoveRelated,
         MoveRelatedIn, LiveIn

LEMMA StepDiscipline == Discipline /\ [Next]_vars => Discipline'
<1> SUFFICES ASSUME Discipline, [Next]_vars
             PROVE  Discipline'
  OBVIOUS
<1>1. CASE MakeWorklist
  BY <1>1, MakeWorklistDiscipline
<1>2. ASSUME NEW n \in Virtual, Simplify(n)
      PROVE  Discipline'
  BY <1>2, SimplifyDiscipline
<1>3. ASSUME NEW m \in Move, Coalesce(m)
      PROVE  Discipline'
  BY <1>3, CoalesceDropDiscipline, CombineDiscipline, CoalesceDeferDiscipline DEF Coalesce
<1>4. ASSUME NEW n \in Virtual, Freeze(n)
      PROVE  Discipline'
  <2>1. potential' \subseteq Virtual
    BY <1>4 DEF Freeze, Discipline, Types
  <2> QED BY <1>4, <2>1, FreezeMoveDiscipline DEF Freeze, input
<1>5. ASSUME NEW n \in Virtual, SelectSpill(n)
      PROVE  Discipline'
  <2>1. potential' \subseteq Virtual
    BY <1>5 DEF SelectSpill, Discipline, Types
  <2> QED BY <1>5, <2>1, FreezeMoveDiscipline DEF SelectSpill, input
<1>6. CASE StartColoring
  BY <1>6, StartColoringDiscipline
<1>7. CASE AssignColor
  BY <1>7, AssignColorDiscipline
<1>8. CASE FinishColoring
  BY <1>8, FinishColoringDiscipline
<1>9. CASE UNCHANGED vars
  BY <1>9, StutterDiscipline
<1> QED
  BY <1>1, <1>2, <1>3, <1>4, <1>5, <1>6, <1>7, <1>8, <1>9 DEF Next

LEMMA AlwaysDiscipline == Spec => []Discipline
  BY InitDiscipline, StepDiscipline, PTL DEF Spec

\* TypeOK holds in every reachable state: beyond the types, every representative
\* is its own and is exactly what combine() left unmerged, and a physical
\* register is never put into a worklist of the allocator.
THEOREM TypeCorrect == Spec => []TypeOK
<1>1. Discipline => TypeOK
  BY DEF Discipline, Types, Representatives, Precolored, TypeOK
<1> QED BY <1>1, AlwaysDiscipline, PTL

\* No ASSERT of InterfereGraph.cpp can fail, for any interference graph: every
\* remove() finds its node or move in the list it expects.
THEOREM NoAssertFails == Spec => []AssertionsHold
<1>1. Discipline => AssertionsHold
  BY DEF Discipline, AssertionsHold
<1> QED BY <1>1, AlwaysDiscipline, PTL

\* Whatever coalesce() and combine() do, the worklists stay sorted by degree and
\* by moves.
THEOREM AlwaysSorted == Spec => []WorklistsSorted
<1>1. Discipline => WorklistsSorted
  BY DEF Discipline
<1> QED BY <1>1, AlwaysDiscipline, PTL

-----------------------------------------------------------------------------
(***************************************************************************)
(* The colouring.                                                          *)
(***************************************************************************)

LEMMA InitSeparation == Init => Separation /\ Colored
<1>0. SUFFICES ASSUME NEW edges \in SUBSET Undirected,
                      NEW x \in [Move -> Node], NEW y \in [Move -> Node],
                      Build(edges, x, y)
               PROVE  Separation /\ Colored
  BY DEF Init
<1>1. conflict = [n \in Node |-> {o \in Node : {n, o} \in edges}]
      /\ adj = conflict /\ alias = [n \in Node |-> n] /\ phase = "build"
      /\ where = [n \in Node |-> IF n \in Virtual THEN "initial" ELSE "none"]
  BY <1>0 DEF Build
<1>2. \A a, b \in Node : b \in conflict[a] => a \in conflict[b]
  <2> SUFFICES ASSUME NEW a \in Node, NEW b \in Node, {a, b} \in edges
               PROVE  {b, a} \in edges
    BY <1>1
  <2>1. {a, b} = {b, a}
    OBVIOUS
  <2> QED BY <2>1
<1>3. \A a \in Node : \A b \in conflict[a] : b \in Node /\ a # b
  <2> SUFFICES ASSUME NEW a \in Node, {a, a} \in edges
               PROVE  FALSE
    BY <1>1
  <2>1. Cardinality({a, a}) = 2
    BY DEF Undirected
  <2>2. {a, a} = {a} /\ Cardinality({a}) = 1
    BY FS_Singleton
  <2> QED BY <2>1, <2>2
<1>4. Separation
  BY <1>1, <1>2, <1>3 DEF Separation, Apart
<1>5. Colored
  BY <1>1 DEF Colored, ProperColoring, AppliedIsTotal
<1> QED BY <1>4, <1>5

\* Steps that only sort the nodes of the graph into other lists.
LEMMA ResortSeparation ==
  ASSUME Discipline, Separation, phase \in {"build", "work"},
         \A n \in Node : /\ InGraph(n)' <=> InGraph(n)
                         /\ where'[n] = "selectStack" <=> where[n] = "selectStack",
         UNCHANGED <<conflict, adj, alias, stack>>
  PROVE  Separation'
<1>1. \A a \in Node : \A b \in conflict[a] : alias[a] \in Node /\ alias[b] \in Node
  BY DEF Discipline, Types
<1>2. \A A, B \in Node : Apart(A, B) => Apart(A, B)'
  BY DEF Apart, BeforeOnStack
<1> QED BY <1>1, <1>2 DEF Separation

LEMMA SimplifySeparation ==
  ASSUME Discipline, Separation, NEW n \in Virtual, Simplify(n)
  PROVE  Separation'
<1> DEFINE lower == {a \in AdjList(n) : (a # n /\ InGraph(a)) /\ a \notin Physical}
           fell  == {a \in lower : degree[a] = K}
<1>1. /\ phase = "work" /\ where[n] = "simplify" /\ n \in Node
      /\ where' = [a \in Node |->
           IF a = n THEN "selectStack"
           ELSE IF a \in fell THEN IF MoveRelated(a) THEN "freeze" ELSE "simplify"
           ELSE where[a]]
      /\ stack' = Append(stack, n)
      /\ UNCHANGED <<conflict, adj, alias, phase>>
  BY DEF Simplify, Node, input
<1>2. Types /\ alias[n] = n /\ InGraph(n)
  BY <1>1 DEF Discipline, Representatives, InGraph
<1>3. \A a \in Node : /\ InGraph(a)' <=> InGraph(a) /\ a # n
                      /\ where'[a] = "selectStack" <=> where[a] = "selectStack" \/ a = n
  <2>1. \A a \in fell : InGraph(a)
    OBVIOUS
  <2> HIDE DEF fell
  <2> QED BY <1>1, <2>1 DEF InGraph
<1>4. /\ Len(stack) \in Nat /\ Len(stack') = Len(stack) + 1 /\ stack'[Len(stack) + 1] = n
      /\ \A i \in 1..Len(stack) : stack'[i] = stack[i] /\ stack[i] # n /\ stack[i] \in Node
  BY <1>1, <1>2 DEF Types, Discipline, StackHolds, Node
<1>5. ASSUME NEW A \in Node, NEW B \in Node, alias[B] = B, Apart(A, B)
      PROVE  Apart(A, B)'
  <2>1. A # B
    BY <1>5 DEF Apart
  <2>2. (phase' \in {"build", "work"} /\ InGraph(A)' /\ InGraph(B)') => B \in adj'[A]
    BY <1>1, <1>3, <1>5 DEF Apart
  <2>3. ASSUME where'[A] = "selectStack", InGraph(B)' \/ BeforeOnStack(A, B)'
        PROVE  \E w \in adj'[A] : alias'[w] = B
    <3>1. CASE A = n
      <4>1. InGraph(B)'
        <5> SUFFICES ASSUME BeforeOnStack(A, B)'
                     PROVE  FALSE
          BY <2>3
        <5>1. PICK i, j \in 1..Len(stack') : i < j /\ stack'[i] = n
          BY <3>1 DEF BeforeOnStack
        <5>2. i \in 1..Len(stack)
          BY <5>1, <1>4
        <5> QED BY <5>1, <5>2, <1>4
      <4>2. InGraph(A) /\ InGraph(B)
        BY <3>1, <4>1, <1>2, <1>3
      <4>3. B \in adj[A]
        BY <4>2, <1>1, <1>5 DEF Apart
      <4> QED BY <4>3, <1>1, <1>5
    <3>2. CASE A # n
      <4>1. where[A] = "selectStack"
        BY <2>3, <3>2, <1>3
      <4>2. InGraph(B) \/ BeforeOnStack(A, B)
        <5>1. CASE InGraph(B)'
          BY <5>1, <1>3
        <5>2. CASE BeforeOnStack(A, B)'
          <6>1. PICK i, j \in 1..Len(stack') : i < j /\ stack'[i] = A /\ stack'[j] = B
            BY <5>2 DEF BeforeOnStack
          <6>2. CASE j = Len(stack) + 1
            BY <6>1, <6>2, <1>2, <1>4
          <6>3. CASE j # Len(stack) + 1
            <7>1. i \in 1..Len(stack) /\ j \in 1..Len(stack)
              BY <6>1, <6>3, <1>4
            <7>2. stack[i] = A /\ stack[j] = B
              BY <6>1, <7>1, <1>4
            <7> QED BY <6>1, <7>1, <7>2 DEF BeforeOnStack
          <6> QED BY <6>2, <6>3
        <5> QED BY <5>1, <5>2, <2>3
      <4> QED BY <4>1, <4>2, <1>1, <1>5 DEF Apart
    <3> QED BY <3>1, <3>2
  <2> QED BY <2>1, <2>2, <2>3 DEF Apart
<1>6. \A a \in Node : \A b \in conflict[a] :
         alias[a] \in Node /\ alias[b] \in Node /\ alias[alias[b]] = alias[b]
  BY <1>2 DEF Types, Discipline, Representatives
<1> QED BY <1>1, <1>5, <1>6 DEF Separation

LEMMA CombineSeparation ==
  ASSUME Discipline, Separation, NEW m \in Move, Coalesce(m), CoalesceCombine(m)
  PROVE  Separation'
<1>0. PICK u, v : Merges(m, u, v)
  BY CombineFacts
<1> DEFINE fresh == {t \in AdjList(v) : t # v /\ InGraph(t) /\ t # u /\ t \notin adj[u]}
<1>1. /\ phase = "work" /\ phase' = "work"
      /\ u \in Node /\ v \in Virtual /\ v \in Node /\ u # v /\ v \notin adj[u]
      /\ alias[u] = u /\ alias[v] = v /\ InGraph(u) /\ InGraph(v)
      /\ \A n \in Node : alias'[n] = IF alias[n] = v THEN u ELSE alias[n]
      /\ UNCHANGED <<conflict, stack>>
  BY <1>0 DEF Merges
<1>2. /\ where'[v] = "coalesced"
      /\ \A n \in Node : n # u /\ n # v => where'[n] = where[n]
      /\ where'[u] \in {"spill", "freeze", "simplify"} \/ where'[u] = where[u]
  BY <1>0 DEF Merges
<1>3. adj' = [n \in Node |-> IF n = u THEN adj[u] \cup fresh
                             ELSE IF n \in fresh THEN adj[n] \cup {u} ELSE adj[n]]
  BY <1>0 DEF Merges
<1>4. Types
  BY DEF Discipline
<1>5. /\ fresh \subseteq Node /\ u \notin fresh
      /\ \A t \in Node : t \in fresh <=>
           t \in adj[v] /\ t # v /\ InGraph(t) /\ t # u /\ t \notin adj[u]
  BY <1>1, <1>4 DEF AdjList, Types
<1> HIDE DEF fresh
<1>6. \A a, b \in Node : b \in adj'[a] <=> \/ b \in adj[a]
                                           \/ a = u /\ b \in fresh
                                           \/ b = u /\ a \in fresh
  BY <1>3, <1>4, <1>5, <1>1 DEF Types
<1>7. \A n \in Node : /\ InGraph(n)' <=> InGraph(n) /\ n # v
                      /\ where'[n] = "selectStack" <=> where[n] = "selectStack"
  BY <1>1, <1>2 DEF InGraph
<1>8. \A a, b \in Node : b \in adj[a] => a \in adj[b]
  BY DEF Separation
<1>9. ASSUME NEW A \in Node, NEW B \in Node, alias[A] = A, alias[B] = B, Apart(A, B), Apart(B, A),
             NEW A1, A1 = IF A = v THEN u ELSE A,
             NEW B1, B1 = IF B = v THEN u ELSE B
      PROVE  Apart(A1, B1)'
  <2>0. A # B /\ A1 \in Node /\ B1 \in Node
    BY <1>1, <1>9 DEF Apart
  <2>1. A1 # B1
    <3>1. ~(A = v /\ B = u) /\ ~(A = u /\ B = v)
      BY <1>1, <1>8, <1>9 DEF Apart
    <3> QED BY <2>0, <3>1, <1>9
  <2>2. ASSUME InGraph(A1)', InGraph(B1)'
        PROVE  B1 \in adj'[A1]
    <3>1. InGraph(A) /\ InGraph(B)
      BY <2>0, <2>2, <1>1, <1>7, <1>9
    <3>2. B \in adj[A] /\ A \in adj[B]
      BY <3>1, <1>1, <1>9 DEF Apart
    <3>3. CASE A = v
      BY <2>0, <2>1, <3>1, <3>2, <3>3, <1>5, <1>6, <1>8, <1>9
    <3>4. CASE B = v
      BY <2>0, <2>1, <3>1, <3>2, <3>4, <1>5, <1>6, <1>8, <1>9, <1>1
    <3>5. CASE A # v /\ B # v
      BY <3>2, <3>5, <1>6, <1>9
    <3> QED BY <3>3, <3>4, <3>5
  <2>3. ASSUME where'[A1] = "selectStack", InGraph(B1)' \/ BeforeOnStack(A1, B1)'
        PROVE  \E w \in adj'[A1] : alias'[w] = B1
    <3>1. A1 = A /\ A # v /\ where[A] = "selectStack"
      BY <2>0, <2>3, <1>1, <1>7, <1>9 DEF InGraph
    <3>2. InGraph(B) \/ BeforeOnStack(A, B)
      <4>1. CASE B = v
        BY <4>1, <1>1
      <4>2. CASE B # v
        BY <4>2, <2>3, <3>1, <1>1, <1>7, <1>9 DEF BeforeOnStack
      <4> QED BY <4>1, <4>2
    <3>3. PICK w \in adj[A] : alias[w] = B
      BY <3>1, <3>2, <1>9 DEF Apart
    <3>4. w \in Node
      BY <3>3, <1>4 DEF Types
    <3> QED BY <3>1, <3>3, <3>4, <1>1, <1>6, <1>9
  <2> QED BY <2>1, <2>2, <2>3 DEF Apart
<1>10. ASSUME NEW a \in Node, NEW b \in conflict[a]
       PROVE  Apart(alias[a], alias[b])'
  <2>1. b \in Node /\ alias[a] \in Node /\ alias[b] \in Node
        /\ alias[alias[a]] = alias[a] /\ alias[alias[b]] = alias[b]
    BY <1>4 DEF Types, Discipline, Representatives
  <2>2. Apart(alias[a], alias[b]) /\ Apart(alias[b], alias[a])
    BY <2>1 DEF Separation
  <2>3. alias'[a] = (IF alias[a] = v THEN u ELSE alias[a])
        /\ alias'[b] = (IF alias[b] = v THEN u ELSE alias[b])
    BY <2>1, <1>1
  <2>4. PICK A1, B1 : A1 = alias'[a] /\ B1 = alias'[b]
    OBVIOUS
  <2>5. Apart(A1, B1)'
    BY <2>1, <2>2, <2>3, <2>4, <1>9
  <2> QED BY <2>4, <2>5 DEF Apart, BeforeOnStack
<1>11. \A a, b \in Node : b \in adj'[a] => a \in adj'[b]
  BY <1>6, <1>8
<1> QED BY <1>1, <1>10, <1>11 DEF Separation

LEMMA PopSeparation ==
  ASSUME Discipline, Separation, Colored, AssignColor
  PROVE  Separation' /\ Colored'
<1>1. PICK n \in Virtual :
           /\ phase = "select" /\ n \in Node /\ n = stack[Len(stack)]
           /\ Len(stack) \in Nat /\ Len(stack) > 0 /\ where[n] = "selectStack"
           /\ Len(stack') = Len(stack) - 1
           /\ \A i \in 1..(Len(stack) - 1) : stack'[i] = stack[i] /\ stack[i] # n
           /\ \A a \in Node : a # n => where'[a] = where[a] /\ color'[a] = color[a]
           /\ \/ /\ where'[n] = "none"
                 /\ color'[n] \in Physical \ {color[alias[w]] : w \in adj[n]}
              \/ where'[n] = "spilled" /\ color'[n] = color[n]
           /\ UNCHANGED <<conflict, toX, fromY, adj, degree, moveList, alias, moveIn,
                          potential, phase, ok>>
  BY PopFacts
<1>2. Types /\ alias[n] = n
  BY <1>1 DEF Discipline, Representatives
<1>3. \A a \in Node : /\ InGraph(a)' => InGraph(a) \/ a = n
                      /\ where'[a] = "selectStack" => where[a] = "selectStack" /\ a # n
  BY <1>1 DEF InGraph
<1>4. \A a \in Node : \A b \in conflict[a] :
         b \in Node /\ alias[a] \in Node /\ alias[b] \in Node
         /\ alias[alias[a]] = alias[a] /\ alias[alias[b]] = alias[b]
  BY <1>2 DEF Types, Discipline, Representatives
<1>5. ASSUME NEW A \in Node, NEW B \in Node, Apart(A, B)
      PROVE  Apart(A, B)'
  <2>1. ASSUME where'[A] = "selectStack", InGraph(B)' \/ BeforeOnStack(A, B)'
        PROVE  InGraph(B) \/ BeforeOnStack(A, B)
    <3>1. where[A] = "selectStack" /\ A # n
      BY <2>1, <1>3
    <3>2. CASE BeforeOnStack(A, B)'
      <4>1. PICK i, j \in 1..Len(stack') : i < j /\ stack'[i] = A /\ stack'[j] = B
        BY <3>2 DEF BeforeOnStack
      <4>2. i \in 1..Len(stack) /\ j \in 1..Len(stack) /\ stack[i] = A /\ stack[j] = B
        BY <4>1, <1>1
      <4> QED BY <4>1, <4>2 DEF BeforeOnStack
    <3>3. CASE B = n
      <4>1. PICK i \in 1..Len(stack) : stack[i] = A
        BY <3>1 DEF Discipline, StackHolds
      <4>2. i < Len(stack) /\ Len(stack) \in 1..Len(stack) /\ stack[Len(stack)] = B
        BY <4>1, <3>1, <3>3, <1>1
      <4> QED BY <4>1, <4>2 DEF BeforeOnStack
    <3>4. CASE InGraph(B)' /\ B # n
      BY <3>4, <1>3
    <3> QED BY <3>2, <3>3, <3>4, <2>1
  <2> QED BY <2>1, <1>1, <1>3, <1>5 DEF Apart
<1>6. Separation'
  BY <1>1, <1>4, <1>5 DEF Separation
<1>7. ASSUME NEW A \in Node, NEW B \in Node, alias[B] = B, Apart(A, B), A = n,
             color'[A] # NoColor
      PROVE  color'[A] # color'[B]
  <2>1. B # n /\ color'[B] = color[B]
    BY <1>1, <1>7 DEF Apart
  <2>2. color'[n] \in Physical \ {color[alias[w]] : w \in adj[n]}
    <3>1. color[n] = NoColor
      BY <1>1 DEF Colored
    <3> QED BY <3>1, <1>1, <1>7
  <2>3. CASE InGraph(B)
    <3>1. PICK w \in adj[n] : alias[w] = B
      BY <2>3, <1>1, <1>7 DEF Apart
    <3> QED BY <3>1, <2>1, <2>2, <1>7
  <2>4. CASE ~InGraph(B)
    <3>1. color[B] = NoColor
      BY <2>4, <1>1 DEF Colored, InGraph
    <3> QED BY <3>1, <2>1, <1>7
  <2> QED BY <2>3, <2>4
<1>8. ASSUME NEW a \in Node, NEW b \in conflict[a]
      PROVE  color'[alias[a]] = NoColor \/ color'[alias[a]] # color'[alias[b]]
  <2>1. Apart(alias[a], alias[b]) /\ Apart(alias[b], alias[a])
    BY <1>4 DEF Separation
  <2>2. CASE alias[a] = n
    BY <2>1, <2>2, <1>4, <1>7
  <2>3. CASE alias[b] = n
    BY <2>1, <2>3, <1>4, <1>7
  <2>4. CASE alias[a] # n /\ alias[b] # n
    BY <2>4, <1>1, <1>4 DEF Colored
  <2> QED BY <2>2, <2>3, <2>4
<1>9. \A p \in Physical : color'[p] = p
  BY <1>1, RegisterAssumption DEF Colored, Node
<1>10. \A a \in Node : where'[a] \in {"coalesced", "selectStack", "spilled"}
                         => color'[a] = NoColor
  BY <1>1 DEF Colored
<1>11. \A a \in Virtual : \/ where'[a] \in {"coalesced", "selectStack", "spilled"}
                          \/ where'[a] = "none" /\ color'[a] \in Physical
  BY <1>1 DEF Colored, Node
<1>12. Colored'
  BY <1>1, <1>8, <1>9, <1>10, <1>11 DEF Colored, ProperColoring, AppliedIsTotal
<1> QED BY <1>6, <1>12

LEMMA FinishSeparation ==
  ASSUME Discipline, Separation, Colored, FinishColoring
  PROVE  Separation' /\ Colored'
<1>1. /\ phase = "select" /\ stack = <<>>
      /\ color' = [n \in Node |-> FinalColor(n)]
      /\ phase' = IF \E n \in Node : where[n] = "spilled" THEN "rewrite" ELSE "apply"
      /\ UNCHANGED <<conflict, adj, alias, where, stack>>
  BY DEF FinishColoring, input
<1>2. Types
  BY DEF Discipline
<1>3. \A a \in Node : \A b \in conflict[a] : b \in Node /\ alias[a] \in Node /\ alias[b] \in Node
  BY <1>2 DEF Types
<1>4. Separation'
  BY <1>1, <1>3 DEF Separation, Apart, InGraph, BeforeOnStack
<1>5. \A n \in Node : color'[n] = color[alias[n]]
  BY <1>1 DEF FinalColor, Discipline, Representatives
<1>6. ProperColoring'
  <2>1. \A a \in Node : \A b \in conflict[a] :
           color[alias[a]] = NoColor \/ color[alias[a]] # color[alias[b]]
    BY <1>1 DEF Colored
  <2> QED BY <2>1, <1>1, <1>3, <1>5 DEF ProperColoring
<1>7. ASSUME phase' = "apply", NEW n \in Node
      PROVE  color'[n] \in Physical
  <2>1. alias[n] \in Node /\ alias[alias[n]] = alias[n] /\ where[alias[n]] # "coalesced"
    BY <1>2 DEF Types, Discipline, Representatives
  <2>2. where[alias[n]] # "spilled"
    BY <1>1, <1>7, <2>1
  <2>3. where[alias[n]] # "selectStack"
    BY <1>1, <2>1 DEF Discipline, StackHolds
  <2>4. color[alias[n]] \in Physical
    BY <1>1, <2>1, <2>2, <2>3 DEF Colored, Node
  <2> QED BY <2>4, <1>5
<1>8. Colored'
  BY <1>1, <1>6, <1>7 DEF Colored, AppliedIsTotal
<1> QED BY <1>4, <1>8

LEMMA StartSeparation ==
  ASSUME Discipline, Separation, Colored, StartColoring
  PROVE  Separation' /\ Colored'
<1>1. /\ phase = "work" /\ phase' = "select"
      /\ \A l \in {"simplify", "freeze", "spill"} : ListEmpty(l)
      /\ color' = [n \in Node |-> IF n \in Physical THEN n ELSE NoColor]
      /\ UNCHANGED <<conflict, adj, alias, where, stack>>
  BY DEF StartColoring, input
<1>2. Types
  BY DEF Discipline
<1>3. \A a \in Node : \A b \in conflict[a] : b \in Node /\ alias[a] \in Node /\ alias[b] \in Node
  BY <1>2 DEF Types
<1>4. Separation'
  BY <1>1, <1>3 DEF Separation, Apart, InGraph, BeforeOnStack
<1>5. \A a \in Node : \A b \in conflict[a] :
         color'[alias[a]] = NoColor \/ color'[alias[a]] # color'[alias[b]]
  <2> SUFFICES ASSUME NEW a \in Node, NEW b \in conflict[a]
               PROVE  color'[alias[a]] = NoColor \/ color'[alias[a]] # color'[alias[b]]
    OBVIOUS
  <2>1. alias[a] # alias[b] /\ alias[a] \in Node /\ alias[b] \in Node
    BY <1>3 DEF Separation, Apart
  <2> QED BY <2>1, <1>1, RegisterAssumption
<1>6. \A n \in Node : where[n] \in {"coalesced", "selectStack", "spilled"} => color'[n] = NoColor
  BY <1>1 DEF Discipline, Precolored
<1>7. \A n \in Virtual : where[n] \in {"coalesced", "selectStack", "spilled"}
  BY <1>1 DEF Discipline, Listed, ListEmpty
<1>8. Colored'
  <2>1. \A p \in Physical : color'[p] = p
    BY <1>1 DEF Node
  <2>2. where' = where /\ alias' = alias /\ conflict' = conflict
    BY <1>1 DEF StartColoring, input
  <2>3. ProperColoring' /\ AppliedIsTotal'
    BY <1>1 DEF ProperColoring, AppliedIsTotal
  <2> QED BY <2>1, <2>2, <2>3, <1>5, <1>6, <1>7 DEF Colored
<1> QED BY <1>4, <1>8

LEMMA StepSeparation ==
  Discipline /\ Discipline' /\ Separation /\ Colored /\ [Next]_vars => Separation' /\ Colored'
<1> SUFFICES ASSUME Discipline, Discipline', Separation, Colored, [Next]_vars
             PROVE  Separation' /\ Colored'
  OBVIOUS
<1>0. ASSUME phase' \in {"build", "work"}
      PROVE  Colored'
  BY <1>0 DEF Colored, ProperColoring, AppliedIsTotal
<1>1. CASE MakeWorklist
  <2>1. phase = "build" /\ phase' = "work" /\ UNCHANGED <<conflict, adj, alias, stack>>
    BY <1>1 DEF MakeWorklist, input
  <2>2. \A n \in Node : /\ InGraph(n)' <=> InGraph(n)
                        /\ where'[n] = "selectStack" <=> where[n] = "selectStack"
    BY <1>1, <2>1 DEF MakeWorklist, InGraph, Discipline, Listed, Precolored, Node
  <2> QED BY <2>1, <2>2, <1>0, ResortSeparation
<1>2. ASSUME NEW n \in Virtual, Simplify(n)
      PROVE  Separation' /\ Colored'
  <2>1. phase' = "work"
    BY <1>2 DEF Simplify
  <2> QED BY <2>1, <1>0, <1>2, SimplifySeparation
<1>3. ASSUME NEW m \in Move, Coalesce(m)
      PROVE  Separation' /\ Colored'
  <2>1. phase = "work" /\ phase' = "work" /\ moveIn[m] = "worklist" /\ ListEmpty("simplify")
        /\ UNCHANGED <<conflict, stack>>
    BY <1>3 DEF Coalesce, input
  <2>2. CASE CoalesceCombine(m)
    BY <2>1, <2>2, <1>0, <1>3, CombineSeparation
  <2>3. CASE CoalesceDefer(m)
    <3>1. UNCHANGED <<adj, alias, where>>
      BY <2>3 DEF CoalesceDefer
    <3> QED BY <3>1, <2>1, <1>0, ResortSeparation DEF InGraph
  <2>4. CASE CoalesceSame(m) \/ CoalesceConstrained(m)
    <3>1. PICK S \in SUBSET {EndX(m), EndY(m)} :
            /\ where' = [n \in Node |-> IF n \in Ready(S, degree, moveList, moveIn')
                                        THEN "simplify" ELSE where[n]]
            /\ UNCHANGED <<adj, alias>>
      <4>1. CASE CoalesceSame(m)
        BY <4>1 DEF CoalesceSame
      <4>2. CASE CoalesceConstrained(m)
        BY <4>2 DEF CoalesceConstrained
      <4> QED BY <4>1, <4>2, <2>4
    <3>2. \A n \in S : InGraph(n)
      BY <2>1, EndsOfMove
    <3>3. \A n \in Node : /\ InGraph(n)' <=> InGraph(n)
                          /\ where'[n] = "selectStack" <=> where[n] = "selectStack"
      BY <3>1, <3>2 DEF InGraph, Ready
    <3> QED BY <3>1, <3>3, <2>1, <1>0, ResortSeparation
  <2> QED BY <2>2, <2>3, <2>4, <1>3 DEF Coalesce
<1>4. ASSUME NEW u \in Virtual, Freeze(u) \/ SelectSpill(u)
      PROVE  Separation' /\ Colored'
  <2>1. PICK l \in {"freeze", "spill"} :
          /\ FreezeMove(u, l) /\ where[u] = l
          /\ phase = "work" /\ phase' = "work"
          /\ UNCHANGED <<conflict, adj, alias, stack>>
    BY <1>4 DEF Freeze, SelectSpill, input
  <2>2. \A n \in Node : where'[n] = where[n] \/ where'[n] = "simplify"
    BY <2>1 DEF FreezeMove
  <2>3. \A n \in Node : where'[n] # where[n] => where[n] \in {"freeze", "spill"}
    <3>1. ok'
      BY DEF Discipline
    <3> QED BY <3>1, <2>1 DEF FreezeMove
  <2>4. \A n \in Node : /\ InGraph(n)' <=> InGraph(n)
                        /\ where'[n] = "selectStack" <=> where[n] = "selectStack"
    BY <2>2, <2>3 DEF InGraph
  <2> QED BY <2>1, <2>4, <1>0, ResortSeparation
<1>6. CASE StartColoring
  BY <1>6, StartSeparation
<1>7. CASE AssignColor
  BY <1>7, PopSeparation
<1>8. CASE FinishColoring
  BY <1>8, FinishSeparation
<1>9. CASE UNCHANGED vars
  BY <1>9 DEF vars, Separation, Apart, InGraph, BeforeOnStack, Colored, ProperColoring,
              AppliedIsTotal
<1> QED
  BY <1>1, <1>2, <1>3, <1>4, <1>6, <1>7, <1>8, <1>9 DEF Next

LEMMA AlwaysSound == Spec => [](Separation /\ Colored)
<1>1. Init => Separation /\ Colored
  BY InitSeparation
<1>2. (Discipline /\ Discipline') /\ (Separation /\ Colored) /\ [Next]_vars
        => (Separation /\ Colored)'
  BY StepSeparation
<1> QED BY <1>1, <1>2, AlwaysDiscipline, PTL DEF Spec

\* For every interference graph, set of moves and number of registers: two
\* registers that conflict never get the same colour, however simplification,
\* merging (with the vacuous George test, too), freezing and spilling alternate.
THEOREM ColoringIsProper == Spec => []ProperColoring
<1>1. Separation /\ Colored => ProperColoring
  BY DEF Colored
<1> QED BY <1>1, AlwaysSound, PTL

\* applyChanges() finds a physical register for every virtual one, merged
\* registers included.
THEOREM AppliedColoringIsTotal == Spec => []AppliedIsTotal
<1>1. Separation /\ Colored => AppliedIsTotal
  BY DEF Colored
<1> QED BY <1>1, AlwaysSound, PTL

-----------------------------------------------------------------------------

\* The one step the contract sees: all registers get their colours at once.
LEMMA FinishAssigns ==
  ASSUME Discipline, Colored, Discipline', Colored', FinishColoring, phase' = "apply"
  PROVE  Contract!Assign(color') /\ color' \in [Node -> Physical]
<1>1. /\ phase = "select" /\ conflict' = conflict
      /\ color' = [n \in Node |-> FinalColor(n)]
  BY DEF FinishColoring, input
<1>2. \A p \in Physical : p \in Node /\ color'[p] = p
  BY <1>1 DEF FinalColor, Colored, Discipline, Precolored, Node
<1>3. color' \in [Node -> Physical]
  <2>1. color' \in [Node -> Physical \cup {NoColor}]
    BY DEF Discipline, Types
  <2>2. \A n \in Node : color'[n] \in Physical
    BY <1>2 DEF Colored, AppliedIsTotal
  <2> QED BY <2>1, <2>2
<1>4. \A a \in Node : \A b \in conflict[a] :
         {a, b} \subseteq Physical \/ color'[a] # color'[b]
  <2>1. \A a \in Node : color'[a] # NoColor
    BY <1>3, RegisterAssumption
  <2> QED BY <2>1, <1>1 DEF Colored, ProperColoring
<1>5. Contract!Proper(color')
  BY <1>2, <1>3, <1>4 DEF Contract!Proper, Contract!Node, Node
<1> QED
  BY <1>1, <1>3, <1>5 DEF Contract!Assign

\* A step of a round is a step of the contract or changes nothing it speaks of.
LEMMA StepImplementsColoring ==
  ASSUME Discipline, Colored, Discipline', Colored', [Next]_vars
  PROVE  [Contract!Next]_<<conflict,
           IF phase = "apply" THEN color ELSE [n \in Node |-> NoColor],
           IF phase = "rewrite" THEN {n \in Virtual : where[n] = "spilled"} ELSE {},
           phase \in {"rewrite", "apply"}>>
<1>1. CASE FinishColoring
  <2>1. /\ phase = "select" /\ conflict' = conflict /\ where' = where
        /\ phase' = IF \E n \in Node : where[n] = "spilled" THEN "rewrite" ELSE "apply"
    BY <1>1 DEF FinishColoring, input
  <2>2. CASE phase' = "apply"
    <3>1. Contract!Assign(color') /\ color' \in [Contract!Node -> Physical]
      BY <1>1, <2>2, FinishAssigns DEF Contract!Node, Node
    <3> QED BY <3>1 DEF Contract!Next
  <2>3. CASE phase' = "rewrite"
    <3>0. PICK S : S = {n \in Virtual : where[n] = "spilled"}
      OBVIOUS
    <3>1. S \in SUBSET Virtual /\ S # {}
      BY <3>0, <2>1, <2>3 DEF Discipline, Precolored, Node
    <3>2. Contract!GiveUp(S)
      BY <3>0, <2>1, <2>3, <3>1 DEF Contract!GiveUp, Contract!Node, Node
    <3> QED BY <3>1, <3>2 DEF Contract!Next
  <2> QED BY <2>1, <2>2, <2>3
<1>2. CASE UNCHANGED vars
  BY <1>2 DEF vars
<1>3. CASE Next /\ ~FinishColoring
  <2>1. /\ conflict' = conflict
        /\ phase \notin {"rewrite", "apply"} /\ phase' \notin {"rewrite", "apply"}
    BY <1>3 DEF Next, MakeWorklist, Simplify, Coalesce, Freeze, SelectSpill,
                StartColoring, AssignColor, input
  <2> QED BY <2>1
<1> QED
  BY <1>1, <1>2, <1>3

\* A round of the allocator is an implementation of module Coloring, whatever
\* the graph: it decides once, for all registers, between colours that respect
\* every conflict and a set of registers to spill.
THEOREM RoundImplementsColoring == Spec => ImplementsColoring
<1>1. Init => Contract!Init
  <2> SUFFICES ASSUME Init PROVE Contract!Init
    OBVIOUS
  <2>1. conflict \in [Node -> SUBSET Node]
    BY InitTypes DEF Types
  <2>2. phase = "build"
    BY DEF Init, Build
  <2> QED BY <2>1, <2>2 DEF Contract!Init, Contract!Node, Node
<1> QED
  BY <1>1, AlwaysDiscipline, AlwaysSound, StepImplementsColoring, PTL
  DEF Spec, ImplementsColoring, Contract!Spec

-----------------------------------------------------------------------------
(***************************************************************************)
(* Which registers a round of the allocator spills: only those             *)
(* selectSpill() had to choose.  A degree may be trusted when it is low    *)
(* (Degrees), the neighbours a node keeps through merging are still its    *)
(* neighbours (Closed), and so a node pushed with a low degree has fewer   *)
(* rivals for a colour than there are colours (FewRivals) although merging *)
(* goes on after it left the graph.  And what no step of a round takes     *)
(* back.                                                                   *)
(***************************************************************************)

\* The neighbours of n that simplify() and combine() have not taken away.
Neighbours(n) == {t \in adj[n] : InGraph(t)}

\* degree_ counts every neighbour left, before the worklists are made as well.
Degrees ==
  phase \in {"build", "work"} =>
    \A n \in Virtual : InGraph(n) => degree[n] >= Cardinality(Neighbours(n))

\* combineAddEdge() gives an edge to the representative of every neighbour
\* that was merged away.
Closed ==
  phase \in {"build", "work"} =>
    \A n \in Node : InGraph(n) =>
      \A w \in adj[n] : InGraph(alias[w]) => alias[w] \in adj[n]

\* Only selectSpill() puts a node of high degree on the simplify list.
LowSimplified ==
  phase = "work" =>
    \A n \in Virtual : where[n] = "simplify" /\ degree[n] >= K => n \in potential

\* The representatives whose colour n, on the stack, may find taken when it is
\* popped: those still in the graph, and those popped before it.
Rivals(n) ==
  {r \in Node : (InGraph(r) \/ BeforeOnStack(n, r)) /\ \E w \in adj[n] : alias[w] = r}

FewRivals ==
  \A n \in Virtual :
    where[n] = "selectStack" /\ n \notin potential => Cardinality(Rivals(n)) < K

Trust == Degrees /\ Closed /\ LowSimplified /\ FewRivals /\ OnlyPotentialSpills

-----------------------------------------------------------------------------

LEMMA FewerNodes ==
  ASSUME NEW S \in SUBSET Node, NEW T \in SUBSET S
  PROVE  Cardinality(T) \in Nat /\ Cardinality(S) \in Nat /\ Cardinality(T) <= Cardinality(S)
  BY NodeFinite, FS_Subset, FS_CardinalityType

\* Merging v into u cannot make a set of nodes larger.
LEMMA MergedNodes ==
  ASSUME NEW S \in SUBSET Node, NEW T \in SUBSET Node, NEW u \in Node, NEW v \in Node,
         \A t \in T : (t \in S /\ t # v) \/ (t = u /\ v \in S)
  PROVE  Cardinality(T) <= Cardinality(S)
<1>1. IsFiniteSet(S) /\ IsFiniteSet(T)
  BY NodeFinite, FS_Subset
<1>2. CASE v \in S
  <2>1. T \subseteq (S \ {v}) \cup {u}
    OBVIOUS
  <2>2. IsFiniteSet(S \ {v}) /\ Cardinality(S \ {v}) = Cardinality(S) - 1
        /\ Cardinality(S) \in Nat
    BY <1>1, <1>2, FS_RemoveElement, FS_CardinalityType
  <2>3. /\ Cardinality((S \ {v}) \cup {u}) <= Cardinality(S)
        /\ IsFiniteSet((S \ {v}) \cup {u})
    BY <2>2, FS_AddElement
  <2> QED BY <2>1, <2>3, FewerNodes, <1>1
<1>3. CASE v \notin S
  BY <1>3, FewerNodes
<1> QED BY <1>2, <1>3

LEMMA NeighboursAreNodes ==
  ASSUME Types, NEW n \in Node
  PROVE  Neighbours(n) \in SUBSET Node /\ Rivals(n) \in SUBSET Node
  BY DEF Types, Neighbours, Rivals

LEMMA InitTrust == Init => Trust
<1>0. SUFFICES ASSUME NEW edges \in SUBSET Undirected,
                      NEW x \in [Move -> Node], NEW y \in [Move -> Node],
                      Build(edges, x, y), Types
               PROVE  Trust
  BY InitTypes DEF Init
<1>1. /\ adj = conflict /\ alias = [n \in Node |-> n] /\ phase = "build"
      /\ where = [n \in Node |-> IF n \in Virtual THEN "initial" ELSE "none"]
      /\ degree = [n \in Node |-> IF n \in Virtual THEN Cardinality(conflict[n]) ELSE 0]
  BY <1>0 DEF Build
<1>2. \A n \in Node : conflict[n] \in SUBSET Node
  BY <1>0 DEF Types
<1>3. Degrees
  <2> SUFFICES ASSUME NEW n \in Virtual
               PROVE  degree[n] >= Cardinality(Neighbours(n))
    BY DEF Degrees
  <2>1. n \in Node /\ Neighbours(n) \in SUBSET conflict[n] /\ conflict[n] \in SUBSET Node
    BY <1>1, <1>2 DEF Neighbours, Node
  <2>2. degree[n] = Cardinality(conflict[n])
    BY <2>1, <1>1
  <2> QED BY <2>1, <2>2, FewerNodes
<1>4. Closed
  BY <1>1, <1>2 DEF Closed
<1>5. LowSimplified /\ FewRivals /\ OnlyPotentialSpills
  BY <1>1 DEF LowSimplified, FewRivals, OnlyPotentialSpills, Node
<1> QED BY <1>3, <1>4, <1>5 DEF Trust

\* Steps that only sort the nodes of the graph into other lists: whoever is put
\* on the simplify list has a low degree or was chosen to be spilled.
LEMMA ResortTrust ==
  ASSUME Discipline, Trust, phase \in {"build", "work"}, phase' = "work",
         \A n \in Node : /\ InGraph(n)' <=> InGraph(n)
                         /\ where'[n] = "selectStack" <=> where[n] = "selectStack"
                         /\ where'[n] # "spilled",
         \A n \in Virtual : where'[n] = "simplify" =>
                              \/ phase = "work" /\ where[n] = "simplify"
                              \/ degree[n] < K
                              \/ n \in potential',
         potential \subseteq potential',
         UNCHANGED <<adj, degree, alias, stack>>
  PROVE  Trust'
<1>1. \A n \in Node : Neighbours(n)' = Neighbours(n) /\ Rivals(n)' = Rivals(n)
  <2> SUFFICES ASSUME NEW n \in Node
               PROVE  Neighbours(n)' = Neighbours(n) /\ Rivals(n)' = Rivals(n)
    OBVIOUS
  <2>1. adj[n] \in SUBSET Node
    BY DEF Discipline, Types
  <2> QED BY <2>1 DEF Neighbours, Rivals, BeforeOnStack
<1>2. \A n \in Virtual : n \in Node
  BY DEF Node
<1>3. Degrees'
  BY <1>1, <1>2 DEF Trust, Degrees
<1>4. Closed'
  <2>1. \A n \in Node : \A w \in adj[n] : alias[w] \in Node
    BY DEF Discipline, Types
  <2> QED BY <2>1 DEF Trust, Closed
<1>5. LowSimplified'
  BY KPositive, <1>2 DEF Trust, LowSimplified, Discipline, Types
<1>6. FewRivals'
  BY <1>1, <1>2 DEF Trust, FewRivals
<1>7. OnlyPotentialSpills'
  BY DEF OnlyPotentialSpills
<1> QED BY <1>3, <1>4, <1>5, <1>6, <1>7 DEF Trust

\* simplify() takes n off the graph: its neighbours lose one neighbour each, and
\* n, if it was not chosen to be spilled, has fewer than K of them left.
LEMMA SimplifyTrust ==
  ASSUME Discipline, Separation, Trust, NEW n \in Virtual, Simplify(n)
  PROVE  Trust'
<1> DEFINE lower == {a \in AdjList(n) : (a # n /\ InGraph(a)) /\ a \notin Physical}
           fell  == {a \in lower : degree[a] = K}
<1>1. /\ phase = "work" /\ phase' = "work" /\ where[n] = "simplify" /\ n \in Node
      /\ degree' = [a \in Node |-> IF a \in lower THEN degree[a] - 1 ELSE degree[a]]
      /\ where' = [a \in Node |->
           IF a = n THEN "selectStack"
           ELSE IF a \in fell THEN IF MoveRelated(a) THEN "freeze" ELSE "simplify"
           ELSE where[a]]
      /\ stack' = Append(stack, n)
      /\ UNCHANGED <<adj, alias, potential>>
  BY DEF Simplify, Node
<1>2. Types /\ InGraph(n) /\ alias[n] = n /\ K \in Nat
  BY <1>1, KPositive DEF Discipline, Representatives, InGraph
<1>3. \A a \in Node : /\ InGraph(a)' <=> InGraph(a) /\ a # n
                      /\ where'[a] = "selectStack" <=> where[a] = "selectStack" \/ a = n
  <2>1. \A a \in fell : InGraph(a)
    OBVIOUS
  <2> HIDE DEF fell
  <2> QED BY <1>1, <2>1 DEF InGraph
<1>4. /\ Len(stack) \in Nat /\ Len(stack') = Len(stack) + 1 /\ stack'[Len(stack) + 1] = n
      /\ \A i \in 1..Len(stack) : stack'[i] = stack[i] /\ stack[i] # n /\ stack[i] \in Node
  BY <1>1, <1>2 DEF Types, Discipline, StackHolds, Node
<1>5. \A a \in Node : Neighbours(a)' = Neighbours(a) \ {n}
  <2> SUFFICES ASSUME NEW a \in Node
               PROVE  Neighbours(a)' = Neighbours(a) \ {n}
    OBVIOUS
  <2>1. adj[a] \in SUBSET Node
    BY <1>2 DEF Types
  <2> QED BY <1>1, <1>3, <2>1 DEF Neighbours
<1>6. Degrees'
  <2> SUFFICES ASSUME NEW a \in Virtual, InGraph(a)'
               PROVE  degree'[a] >= Cardinality(Neighbours(a)')
    BY DEF Degrees
  <2>1. /\ a \in Node /\ InGraph(a) /\ a # n /\ a \notin Physical
        /\ degree[a] >= Cardinality(Neighbours(a)) /\ degree[a] \in Int
    BY <1>1, <1>2, <1>3, RegisterAssumption DEF Trust, Degrees, Node, Types
  <2>2. Neighbours(a) \in SUBSET Node /\ IsFiniteSet(Neighbours(a))
    BY <1>2, <2>1, NeighboursAreNodes, NodeFinite, FS_Subset
  <2>3. CASE a \in lower
    <3>1. n \in adj[a]
      BY <2>1, <2>3, <1>1 DEF Separation, AdjList
    <3>2. n \in Neighbours(a)
      BY <3>1, <1>2 DEF Neighbours
    <3>3. Cardinality(Neighbours(a)') = Cardinality(Neighbours(a)) - 1
      BY <1>5, <2>1, <2>2, <3>2, FS_RemoveElement
    <3>4. Cardinality(Neighbours(a)) \in Nat
      BY <2>2, FS_CardinalityType
    <3> QED BY <2>1, <2>3, <3>3, <3>4, <1>1
  <2>4. CASE a \notin lower
    <3>1. Neighbours(a)' \in SUBSET Neighbours(a)
      BY <1>5, <2>1
    <3>2. Cardinality(Neighbours(a)') <= Cardinality(Neighbours(a))
          /\ Cardinality(Neighbours(a)') \in Nat /\ Cardinality(Neighbours(a)) \in Nat
      BY <2>2, <3>1, FewerNodes
    <3>3. degree'[a] = degree[a]
      BY <1>1, <2>1, <2>4
    <3> QED BY <2>1, <3>2, <3>3
  <2> QED BY <2>3, <2>4
<1>7. Closed'
  <2>1. \A a \in Node : \A w \in adj[a] : w \in Node /\ alias[w] \in Node
    BY <1>2 DEF Types
  <2> QED BY <1>1, <1>3, <2>1 DEF Trust, Closed
<1>8. LowSimplified'
  <2> SUFFICES ASSUME NEW a \in Virtual, where'[a] = "simplify", degree'[a] >= K
               PROVE  a \in potential
    BY <1>1 DEF LowSimplified
  <2>1. a \in Node /\ a # n /\ degree[a] \in Int
    BY <1>1, <1>2 DEF Node, Types
  <2>2. a \notin fell
    BY <2>1, <1>1, <1>2
  <2>3. where[a] = "simplify" /\ degree[a] >= K
    BY <2>1, <2>2, <1>1, <1>2
  <2> QED BY <2>3, <1>1 DEF Trust, LowSimplified
<1>9. ASSUME NEW a \in Virtual, where'[a] = "selectStack", a \notin potential'
      PROVE  Cardinality(Rivals(a)') < K
  <2>0. a \in Node /\ adj[a] \in SUBSET Node /\ adj' = adj /\ alias' = alias /\ a \notin potential
    BY <1>1, <1>2, <1>9 DEF Types, Node
  <2>1. CASE a = n
    <3>1. Rivals(a)' \in SUBSET Neighbours(n)
      <4> SUFFICES ASSUME NEW r \in Node, InGraph(r)' \/ BeforeOnStack(n, r)',
                          NEW w \in adj[n], alias[w] = r
                   PROVE  r \in Neighbours(n)
        BY <2>0, <2>1 DEF Rivals
      <4>1. ~BeforeOnStack(n, r)'
        <5> SUFFICES ASSUME NEW i \in 1..Len(stack'), NEW j \in 1..Len(stack'), i < j,
                            stack'[i] = n
                     PROVE  FALSE
          BY DEF BeforeOnStack
        <5>1. i \in 1..Len(stack)
          BY <1>4
        <5> QED BY <5>1, <1>4
      <4>2. InGraph(r)
        BY <4>1, <1>3
      <4> QED BY <4>2, <1>1, <1>2 DEF Trust, Closed, Neighbours
    <3>2. degree[n] >= Cardinality(Neighbours(n)) /\ degree[n] < K /\ degree[n] \in Int
      BY <2>0, <2>1, <1>1, <1>2 DEF Trust, Degrees, LowSimplified, Types
    <3>3. Cardinality(Rivals(a)') <= Cardinality(Neighbours(n))
          /\ Cardinality(Rivals(a)') \in Nat /\ Cardinality(Neighbours(n)) \in Nat
      BY <3>1, <1>1, <1>2, NeighboursAreNodes, FewerNodes
    <3> QED BY <3>2, <3>3, <1>2
  <2>2. CASE a # n
    <3>1. where[a] = "selectStack"
      BY <2>0, <2>2, <1>3, <1>9
    <3>2. Rivals(a)' \in SUBSET Rivals(a)
      <4> SUFFICES ASSUME NEW r \in Node, InGraph(r)' \/ BeforeOnStack(a, r)',
                          NEW w \in adj[a], alias[w] = r
                   PROVE  InGraph(r) \/ BeforeOnStack(a, r)
        BY <2>0 DEF Rivals
      <4>1. CASE InGraph(r)'
        BY <4>1, <1>3
      <4>2. CASE BeforeOnStack(a, r)'
        <5>1. PICK i, j \in 1..Len(stack') : i < j /\ stack'[i] = a /\ stack'[j] = r
          BY <4>2 DEF BeforeOnStack
        <5>2. CASE j = Len(stack) + 1
          BY <5>1, <5>2, <1>2, <1>4
        <5>3. CASE j # Len(stack) + 1
          <6>1. i \in 1..Len(stack) /\ j \in 1..Len(stack)
            BY <5>1, <5>3, <1>4
          <6>2. stack[i] = a /\ stack[j] = r
            BY <5>1, <6>1, <1>4
          <6> QED BY <5>1, <6>1, <6>2 DEF BeforeOnStack
        <5> QED BY <5>2, <5>3
      <4> QED BY <4>1, <4>2
    <3>3. Cardinality(Rivals(a)) < K
      BY <2>0, <3>1 DEF Trust, FewRivals
    <3>4. Cardinality(Rivals(a)') <= Cardinality(Rivals(a))
          /\ Cardinality(Rivals(a)') \in Nat /\ Cardinality(Rivals(a)) \in Nat
      BY <2>0, <3>2, <1>2, NeighboursAreNodes, FewerNodes
    <3> QED BY <3>3, <3>4, <1>2
  <2> QED BY <2>1, <2>2
<1>10. OnlyPotentialSpills'
  BY <1>1, <1>2 DEF Trust, OnlyPotentialSpills, Types
<1> QED BY <1>6, <1>7, <1>8, <1>9, <1>10 DEF Trust, FewRivals

\* combine(u, v): u's degree grows by its new neighbours, a new neighbour of u
\* had v as one, and a node on the stack may see two rivals become one.
LEMMA CombineTrust ==
  ASSUME Discipline, Separation, Trust, NEW m \in Move, Coalesce(m), CoalesceCombine(m)
  PROVE  Trust'
<1>0. PICK u, v : Merges(m, u, v)
  BY CombineFacts
<1> DEFINE fresh == {t \in AdjList(v) : t # v /\ InGraph(t) /\ t # u /\ t \notin adj[u]}
<1>1. /\ phase = "work" /\ phase' = "work"
      /\ u \in Node /\ v \in Virtual /\ v \in Node /\ u # v /\ v \notin adj[u]
      /\ alias[u] = u /\ alias[v] = v /\ InGraph(u) /\ InGraph(v)
      /\ where[v] \in {"spill", "freeze"}
      /\ \A n \in Node : alias'[n] = IF alias[n] = v THEN u ELSE alias[n]
      /\ \A n \in Node : n # u => degree'[n] = degree[n]
      /\ u \in Virtual => degree'[u] = degree[u] + Cardinality(fresh)
      /\ UNCHANGED <<stack, potential>>
  BY <1>0 DEF Merges
<1>2. /\ where'[v] = "coalesced"
      /\ \A n \in Node : n # u /\ n # v => where'[n] = where[n]
      /\ where'[u] \in {"spill", "freeze", "simplify"} \/ where'[u] = where[u]
      /\ u \notin Virtual => where'[u] = where[u]
      /\ u \in Virtual /\ where'[u] = "simplify" => ~(degree'[u] >= K)
  BY <1>0 DEF Merges
<1>3. adj' = [n \in Node |-> IF n = u THEN adj[u] \cup fresh
                             ELSE IF n \in fresh THEN adj[n] \cup {u} ELSE adj[n]]
  BY <1>0 DEF Merges
<1>4. Types /\ K \in Nat
  BY KPositive DEF Discipline
<1>5. /\ fresh \in SUBSET Node /\ u \notin fresh
      /\ \A t \in Node : t \in fresh <=>
           t \in adj[v] /\ t # v /\ InGraph(t) /\ t # u /\ t \notin adj[u]
  BY <1>1, <1>4 DEF AdjList, Types
<1> HIDE DEF fresh
<1>6. \A a, b \in Node : b \in adj'[a] <=> \/ b \in adj[a]
                                           \/ a = u /\ b \in fresh
                                           \/ b = u /\ a \in fresh
  BY <1>3, <1>4, <1>5, <1>1 DEF Types
<1>7. \A n \in Node : /\ InGraph(n)' <=> InGraph(n) /\ n # v
                      /\ where'[n] = "selectStack" <=> where[n] = "selectStack"
  BY <1>1, <1>2 DEF InGraph
<1>8. \A a, b \in Node : b \in adj[a] => a \in adj[b]
  BY DEF Separation
<1>9. \A a \in Node : adj[a] \in SUBSET Node /\ adj'[a] \in SUBSET Node
  BY <1>1, <1>3, <1>4, <1>5 DEF Types
<1>10. \A a \in Node : Neighbours(a) \in SUBSET Node /\ Neighbours(a)' \in SUBSET Node
  BY <1>9 DEF Neighbours
<1>11. Degrees'
  <2> SUFFICES ASSUME NEW n \in Virtual, InGraph(n)'
               PROVE  degree'[n] >= Cardinality(Neighbours(n)')
    BY DEF Degrees
  <2>1. /\ n \in Node /\ InGraph(n) /\ n # v
        /\ degree[n] >= Cardinality(Neighbours(n)) /\ degree[n] \in Int
        /\ Cardinality(Neighbours(n)) \in Nat /\ Cardinality(Neighbours(n)') \in Nat
    BY <1>1, <1>4, <1>7, <1>10, SubsetCard DEF Trust, Degrees, Node, Types
  <2>2. CASE n = u
    <3>1. Neighbours(n)' \in SUBSET (Neighbours(n) \cup fresh)
      BY <2>1, <2>2, <1>1, <1>5, <1>6, <1>7, <1>9 DEF Neighbours
    <3>2. IsFiniteSet(Neighbours(n)) /\ IsFiniteSet(fresh)
      BY <2>1, <1>5, <1>10, NodeFinite, FS_Subset
    <3>3. Cardinality(Neighbours(n) \cup fresh) <= Cardinality(Neighbours(n)) + Cardinality(fresh)
          /\ Cardinality(Neighbours(n) \cup fresh) \in Nat /\ Cardinality(fresh) \in Nat
      <4>1. /\ Cardinality(Neighbours(n) \cap fresh) \in Nat
            /\ Cardinality(Neighbours(n) \cup fresh) \in Nat /\ Cardinality(fresh) \in Nat
        BY <2>1, <1>5, <1>10, SubsetCard
      <4>2. Cardinality(Neighbours(n) \cup fresh) =
              Cardinality(Neighbours(n)) + Cardinality(fresh) - Cardinality(Neighbours(n) \cap fresh)
        BY <3>2, FS_Union
      <4> QED BY <4>1, <4>2, <2>1
    <3>4. Cardinality(Neighbours(n)') <= Cardinality(Neighbours(n) \cup fresh)
      BY <3>1, <2>1, <1>5, <1>10, FewerNodes
    <3> QED BY <2>1, <2>2, <3>3, <3>4, <1>1
  <2>3. CASE n # u
    <3>1. \A t \in Neighbours(n)' : (t \in Neighbours(n) /\ t # v) \/ (t = u /\ v \in Neighbours(n))
      <4> SUFFICES ASSUME NEW t \in Node, t \in adj'[n], InGraph(t)'
                   PROVE  (t \in Neighbours(n) /\ t # v) \/ (t = u /\ v \in Neighbours(n))
        BY <2>1, <1>10, <1>9 DEF Neighbours
      <4>1. CASE t \in adj[n]
        BY <4>1, <2>1, <1>7 DEF Neighbours
      <4>2. CASE t \notin adj[n]
        <5>1. t = u /\ n \in fresh
          BY <4>2, <2>1, <2>3, <1>6
        <5>2. v \in adj[n]
          BY <5>1, <2>1, <1>1, <1>5, <1>8
        <5> QED BY <5>1, <5>2, <1>1 DEF Neighbours
      <4> QED BY <4>1, <4>2
    <3>2. Cardinality(Neighbours(n)') <= Cardinality(Neighbours(n))
      BY <3>1, <2>1, <1>1, <1>10, MergedNodes
    <3> QED BY <3>2, <2>1, <2>3, <1>1
  <2> QED BY <2>2, <2>3
<1>12. Closed'
  <2>1. ASSUME NEW n \in Node, InGraph(n)', NEW w \in adj'[n], NEW r, r = alias'[w],
               InGraph(r)'
        PROVE  r \in adj'[n]
    <3>1. /\ InGraph(n) /\ n # v /\ w \in Node /\ alias[w] \in Node
          /\ r = (IF alias[w] = v THEN u ELSE alias[w])
          /\ InGraph(alias[w])
      <4>1. w \in Node /\ alias[w] \in Node
        BY <1>4, <1>9, <2>1 DEF Types
      <4>2. r = (IF alias[w] = v THEN u ELSE alias[w])
        BY <4>1, <1>1, <2>1
      <4> QED BY <4>1, <4>2, <2>1, <1>1, <1>7
    <3>2. CASE w \in adj[n]
      <4>1. alias[w] \in adj[n]
        BY <3>1, <3>2, <1>1 DEF Trust, Closed
      <4>2. CASE alias[w] # v
        BY <4>1, <4>2, <3>1, <1>6
      <4>3. CASE alias[w] = v
        <5>1. n # u /\ n \in adj[v]
          BY <4>1, <4>3, <3>1, <1>1, <1>8
        <5>2. n \in fresh \/ u \in adj[n]
          BY <5>1, <3>1, <1>1, <1>5, <1>8
        <5> QED BY <4>3, <5>2, <3>1, <1>1, <1>6
      <4> QED BY <4>2, <4>3
    <3>3. CASE w \notin adj[n]
      <4>1. \/ n = u /\ w \in fresh
            \/ w = u /\ n \in fresh
        BY <3>1, <3>3, <1>6
      <4>2. alias[w] = w
        <5>1. InGraph(w)
          BY <4>1, <3>1, <1>1, <1>5
        <5> QED BY <5>1, <3>1 DEF InGraph, Discipline, Representatives
      <4>3. w # v
        BY <4>1, <1>1, <1>5
      <4> QED BY <4>2, <4>3, <3>1
    <3> QED BY <3>2, <3>3
  <2>2. ASSUME NEW n \in Node, InGraph(n)', NEW w \in adj'[n],
               where'[alias'[w]] \notin {"coalesced", "selectStack"}
        PROVE  alias'[w] \in adj'[n]
    <3>1. PICK r : r = alias'[w]
      OBVIOUS
    <3>2. InGraph(r)'
      BY <3>1, <2>2 DEF InGraph
    <3> QED BY <3>1, <3>2, <2>1, <2>2
  <2> QED BY <2>2 DEF Closed, InGraph
<1>13. LowSimplified'
  <2> SUFFICES ASSUME NEW a \in Virtual, where'[a] = "simplify", degree'[a] >= K
               PROVE  a \in potential
    BY <1>1 DEF LowSimplified
  <2>1. a \in Node /\ a # v /\ a # u
    BY <1>2 DEF Node
  <2> QED BY <2>1, <1>1, <1>2 DEF Trust, LowSimplified
<1>14. ASSUME NEW a \in Virtual, where'[a] = "selectStack", a \notin potential'
       PROVE  Cardinality(Rivals(a)') < K
  <2>1. a \in Node /\ where[a] = "selectStack" /\ a # u /\ a # v /\ ~InGraph(a)
    BY <1>1, <1>7, <1>14 DEF Node, InGraph
  <2>2. \A w \in adj'[a] : w \in Node /\ alias[w] \in Node /\ w \in adj[a]
    BY <2>1, <1>4, <1>5, <1>6, <1>9 DEF Types
  <2>3. \A r \in Rivals(a)' : (r \in Rivals(a) /\ r # v) \/ (r = u /\ v \in Rivals(a))
    <3> SUFFICES ASSUME NEW r \in Node, InGraph(r)' \/ BeforeOnStack(a, r)',
                        NEW w \in adj'[a], alias'[w] = r
                 PROVE  (r \in Rivals(a) /\ r # v) \/ (r = u /\ v \in Rivals(a))
      BY DEF Rivals
    <3>1. alias'[w] = (IF alias[w] = v THEN u ELSE alias[w])
      BY <2>2, <1>1
    <3>2. CASE alias[w] = v
      BY <3>1, <3>2, <2>2, <1>1 DEF Rivals
    <3>3. CASE alias[w] # v
      <4>1. InGraph(r) \/ BeforeOnStack(a, r)
        BY <1>1, <1>7 DEF BeforeOnStack
      <4> QED BY <3>1, <3>3, <4>1, <2>2 DEF Rivals
    <3> QED BY <3>2, <3>3
  <2>4. Rivals(a) \in SUBSET Node /\ Rivals(a)' \in SUBSET Node
    BY DEF Rivals
  <2>5. Cardinality(Rivals(a)') <= Cardinality(Rivals(a))
        /\ Cardinality(Rivals(a)') \in Nat /\ Cardinality(Rivals(a)) \in Nat
    BY <2>3, <2>4, <1>1, MergedNodes, SubsetCard
  <2>6. Cardinality(Rivals(a)) < K
    BY <2>1, <1>1, <1>14 DEF Trust, FewRivals
  <2> QED BY <2>5, <2>6, <1>4
<1>15. OnlyPotentialSpills'
  <2> SUFFICES ASSUME NEW a \in Node, where'[a] = "spilled"
               PROVE  a \in potential
    BY <1>1 DEF OnlyPotentialSpills
  <2>1. where[a] = "spilled"
    BY <1>1, <1>2
  <2> QED BY <2>1 DEF Trust, OnlyPotentialSpills
<1> QED BY <1>11, <1>12, <1>13, <1>14, <1>15 DEF Trust, FewRivals

\* assignColors() pops n: the colours of its rivals are fewer than the physical
\* registers unless n was chosen to be spilled, and all other representatives
\* of its neighbours are still on the stack, without a colour.
LEMMA PopTrust ==
  ASSUME Discipline, Colored, Trust, AssignColor
  PROVE  Trust'
<1>1. PICK n \in Virtual :
           /\ phase = "select" /\ n \in Node /\ n = stack[Len(stack)]
           /\ Len(stack) \in Nat /\ Len(stack) > 0 /\ where[n] = "selectStack"
           /\ Len(stack') = Len(stack) - 1
           /\ \A i \in 1..(Len(stack) - 1) : stack'[i] = stack[i] /\ stack[i] # n
           /\ \A a \in Node : a # n => where'[a] = where[a] /\ color'[a] = color[a]
           /\ \/ /\ where'[n] = "none"
                 /\ color'[n] \in Physical \ {color[alias[w]] : w \in adj[n]}
              \/ where'[n] = "spilled" /\ color'[n] = color[n]
           /\ UNCHANGED <<conflict, toX, fromY, adj, degree, moveList, alias, moveIn,
                          potential, phase, ok>>
  BY PopFacts
<1>2. Types /\ alias[n] = n /\ K \in Nat
  BY <1>1, KPositive DEF Discipline, Representatives
<1>3. \A a \in Node : /\ InGraph(a)' <=> InGraph(a) \/ a = n
                      /\ where'[a] = "selectStack" <=> where[a] = "selectStack" /\ a # n
  BY <1>1 DEF InGraph
<1>4. Degrees' /\ Closed' /\ LowSimplified'
  BY <1>1 DEF Degrees, Closed, LowSimplified
<1>5. ASSUME NEW a \in Virtual, where'[a] = "selectStack", a \notin potential'
      PROVE  Cardinality(Rivals(a)') < K
  <2>1. a \in Node /\ where[a] = "selectStack" /\ a # n /\ a \notin potential
    BY <1>1, <1>3, <1>5 DEF Node
  <2>2. Rivals(a)' \in SUBSET Rivals(a)
    <3> SUFFICES ASSUME NEW r \in Node, InGraph(r)' \/ BeforeOnStack(a, r)',
                        NEW w \in adj[a], alias[w] = r
                 PROVE  InGraph(r) \/ BeforeOnStack(a, r)
      BY <1>1 DEF Rivals
    <3>1. CASE BeforeOnStack(a, r)'
      <4>1. PICK i, j \in 1..Len(stack') : i < j /\ stack'[i] = a /\ stack'[j] = r
        BY <3>1 DEF BeforeOnStack
      <4>2. i \in 1..Len(stack) /\ j \in 1..Len(stack) /\ stack[i] = a /\ stack[j] = r
        BY <4>1, <1>1
      <4> QED BY <4>1, <4>2 DEF BeforeOnStack
    <3>2. CASE r = n
      <4>1. PICK i \in 1..Len(stack) : stack[i] = a
        BY <2>1 DEF Discipline, StackHolds
      <4>2. i < Len(stack) /\ Len(stack) \in 1..Len(stack) /\ stack[Len(stack)] = r
        BY <4>1, <2>1, <3>2, <1>1
      <4> QED BY <4>1, <4>2 DEF BeforeOnStack
    <3> QED BY <3>1, <3>2, <1>3
  <2>3. Cardinality(Rivals(a)) < K
    BY <2>1 DEF Trust, FewRivals
  <2>4. Cardinality(Rivals(a)') <= Cardinality(Rivals(a))
        /\ Cardinality(Rivals(a)') \in Nat /\ Cardinality(Rivals(a)) \in Nat
    BY <2>1, <2>2, <1>2, NeighboursAreNodes, FewerNodes
  <2> QED BY <2>3, <2>4, <1>2
<1>6. OnlyPotentialSpills'
  <2> SUFFICES ASSUME NEW a \in Node, where'[a] = "spilled", a \notin potential
               PROVE  FALSE
    BY <1>1 DEF OnlyPotentialSpills
  <2>1. a = n /\ where'[n] = "spilled"
    BY <1>1 DEF Trust, OnlyPotentialSpills
  <2>2. Physical \subseteq ColorsTaken(n)
    <3>1. where' # [where EXCEPT ![n] = "none"]
      BY <2>1, <1>1, <1>2 DEF Types
    <3> QED BY <3>1, <1>1 DEF AssignColor
  <2>3. \A c \in Physical : \E r \in Rivals(n) : color[r] = c
    <3> SUFFICES ASSUME NEW c \in Physical
                 PROVE  \E r \in Rivals(n) : color[r] = c
      OBVIOUS
    <3>1. PICK w \in adj[n] : color[alias[w]] = c
      BY <2>2, <1>1 DEF ColorsTaken, AdjList
    <3>2. w \in Node /\ alias[w] \in Node /\ color[alias[w]] # NoColor
      BY <3>1, <1>1, <1>2, RegisterAssumption DEF Types
    <3>3. InGraph(alias[w])
      BY <3>2, <1>1 DEF Colored, InGraph
    <3> QED BY <3>1, <3>2, <3>3 DEF Rivals
  <2>4. /\ Rivals(n) \in SUBSET Node /\ Cardinality(Rivals(n)) < K
        /\ Cardinality(Rivals(n)) \in Nat
    BY <2>1, <1>1, SubsetCard DEF Trust, FewRivals, Rivals
  <2>5. PICK f \in [Physical -> Rivals(n)] : \A c \in Physical : color[f[c]] = c
    <3> DEFINE f == [c \in Physical |-> CHOOSE r \in Rivals(n) : color[r] = c]
    <3>1. \A c \in Physical : f[c] \in Rivals(n) /\ color[f[c]] = c
      BY <2>3
    <3> QED BY <3>1
  <2>6. IsFiniteSet(Physical) /\ IsFiniteSet(Rivals(n))
    BY <2>4, RegisterAssumption, NodeFinite, FS_Subset
  <2>7. PICK c, d \in Physical : c # d /\ f[c] = f[d]
    BY <2>4, <2>5, <2>6, FS_PigeonHole DEF K
  <2> QED BY <2>5, <2>7
<1> QED BY <1>4, <1>5, <1>6 DEF Trust, FewRivals

LEMMA StepTrust ==
  Discipline /\ Discipline' /\ Separation /\ Colored /\ Trust /\ [Next]_vars => Trust'
<1> SUFFICES ASSUME Discipline, Discipline', Separation, Colored, Trust, [Next]_vars
             PROVE  Trust'
  OBVIOUS
<1>0. Types /\ K \in Nat /\ \A n \in Virtual : n \in Node /\ degree[n] \in Int
  BY KPositive DEF Discipline, Types, Node
<1>1. CASE MakeWorklist
  <2>1. /\ phase = "build" /\ phase' = "work"
        /\ UNCHANGED <<adj, degree, alias, stack, potential>>
        /\ where' = [n \in Node |->
             IF n \in Physical THEN "none"
             ELSE IF degree[n] >= K THEN "spill"
             ELSE IF moveList[n] # {} THEN "freeze" ELSE "simplify"]
    BY <1>1 DEF MakeWorklist, HighDegree
  <2>2. \A n \in Node : where[n] \in {"initial", "none"}
    BY <2>1 DEF Discipline, Listed, Precolored, Node
  <2>3. \A n \in Node : /\ InGraph(n)' <=> InGraph(n)
                        /\ where'[n] = "selectStack" <=> where[n] = "selectStack"
                        /\ where'[n] # "spilled"
    BY <2>1, <2>2 DEF InGraph
  <2>4. \A n \in Virtual : where'[n] = "simplify" => degree[n] < K
    BY <2>1, <1>0
  <2> QED BY <2>1, <2>3, <2>4, ResortTrust
<1>2. ASSUME NEW n \in Virtual, Simplify(n)
      PROVE  Trust'
  BY <1>2, SimplifyTrust
<1>3. ASSUME NEW m \in Move, Coalesce(m)
      PROVE  Trust'
  <2>1. /\ phase = "work" /\ phase' = "work" /\ moveIn[m] = "worklist" /\ ListEmpty("simplify")
        /\ UNCHANGED <<stack, potential>>
    BY <1>3 DEF Coalesce
  <2>2. \A n \in Node : where[n] # "spilled"
    BY <2>1 DEF Discipline, Listed, Precolored, Node
  <2>3. CASE CoalesceCombine(m)
    BY <2>3, <1>3, CombineTrust
  <2>4. CASE CoalesceDefer(m)
    <3>1. UNCHANGED <<adj, degree, alias, where>>
      BY <2>4 DEF CoalesceDefer
    <3>2. \A n \in Node : InGraph(n)' <=> InGraph(n)
      BY <3>1 DEF InGraph
    <3> QED BY <3>1, <3>2, <2>1, <2>2, ResortTrust
  <2>5. CASE CoalesceSame(m) \/ CoalesceConstrained(m)
    <3>1. PICK S \in SUBSET {EndX(m), EndY(m)} :
            /\ where' = [n \in Node |-> IF n \in Ready(S, degree, moveList, moveIn')
                                        THEN "simplify" ELSE where[n]]
            /\ UNCHANGED <<adj, degree, alias>>
      <4>1. CASE CoalesceSame(m)
        BY <4>1 DEF CoalesceSame
      <4>2. CASE CoalesceConstrained(m)
        BY <4>2 DEF CoalesceConstrained
      <4> QED BY <4>1, <4>2, <2>5
    <3>2. \A n \in S : InGraph(n)
      BY <2>1, EndsOfMove
    <3>3. \A n \in Node : /\ InGraph(n)' <=> InGraph(n)
                          /\ where'[n] = "selectStack" <=> where[n] = "selectStack"
                          /\ where'[n] # "spilled"
      BY <3>1, <3>2, <2>2 DEF InGraph, Ready
    <3>4. \A n \in Virtual : where'[n] = "simplify" => where[n] = "simplify" \/ degree[n] < K
      BY <3>1, <1>0 DEF Ready
    <3> QED BY <3>1, <3>3, <3>4, <2>1, ResortTrust
  <2> QED BY <2>3, <2>4, <2>5, <1>3 DEF Coalesce
<1>4. ASSUME NEW u \in Virtual, Freeze(u) \/ SelectSpill(u)
      PROVE  Trust'
  <2>1. PICK l \in {"freeze", "spill"} :
          /\ FreezeMove(u, l) /\ where[u] = l
          /\ phase = "work" /\ phase' = "work"
          /\ l = "spill" => potential' = potential \cup {u}
          /\ l = "freeze" => potential' = potential
          /\ UNCHANGED <<adj, degree, alias, stack>>
    BY <1>4 DEF Freeze, SelectSpill
  <2>2. \A n \in Node : where[n] # "spilled"
    BY <2>1 DEF Discipline, Listed, Precolored, Node
  <2>3. \A n \in Node : where'[n] = where[n] \/ where'[n] = "simplify"
    BY <2>1 DEF FreezeMove
  <2>4. \A n \in Node : where'[n] # where[n] =>
          (n = u /\ where[n] = l) \/ where[n] = "freeze"
    <3>1. ok'
      BY DEF Discipline
    <3> QED BY <3>1, <2>1 DEF FreezeMove
  <2>5. \A n \in Node : /\ InGraph(n)' <=> InGraph(n)
                        /\ where'[n] = "selectStack" <=> where[n] = "selectStack"
                        /\ where'[n] # "spilled"
    BY <2>1, <2>2, <2>3, <2>4 DEF InGraph
  <2>6. ASSUME NEW n \in Virtual, where'[n] = "simplify"
        PROVE  where[n] = "simplify" \/ degree[n] < K \/ n \in potential'
    <3>1. where[n] = "freeze" => degree[n] < K
      BY <2>1 DEF Discipline, WorklistsSorted
    <3>2. where[n] = "simplify" \/ where[n] = "freeze" \/ (n = u /\ l = "spill")
      BY <2>6, <2>4, <1>0
    <3> QED BY <3>1, <3>2, <2>1
  <2> QED BY <2>1, <2>5, <2>6, ResortTrust
<1>5. CASE StartColoring
  <2>1. /\ phase = "work" /\ phase' = "select"
        /\ UNCHANGED <<adj, alias, where, stack, potential>>
    BY <1>5 DEF StartColoring
  <2>2. \A n \in Node : Rivals(n)' = Rivals(n)
    BY <2>1 DEF Rivals, InGraph, BeforeOnStack
  <2> QED BY <2>1, <2>2, <1>0 DEF Trust, Degrees, Closed, LowSimplified, FewRivals,
                                  OnlyPotentialSpills
<1>6. CASE AssignColor
  BY <1>6, PopTrust
<1>7. CASE FinishColoring
  <2>1. /\ phase' \in {"rewrite", "apply"} /\ UNCHANGED <<adj, alias, where, stack, potential>>
    BY <1>7 DEF FinishColoring
  <2>2. \A n \in Node : Rivals(n)' = Rivals(n)
    BY <2>1 DEF Rivals, InGraph, BeforeOnStack
  <2> QED BY <2>1, <2>2, <1>0 DEF Trust, Degrees, Closed, LowSimplified, FewRivals,
                                  OnlyPotentialSpills
<1>8. CASE UNCHANGED vars
  BY <1>8 DEF vars, Trust, Degrees, Closed, LowSimplified, FewRivals, OnlyPotentialSpills,
              Neighbours, Rivals, InGraph, BeforeOnStack
<1> QED
  BY <1>1, <1>2, <1>3, <1>4, <1>5, <1>6, <1>7, <1>8 DEF Next

LEMMA AlwaysTrust == Spec => []Trust
<1>1. (Discipline /\ Discipline') /\ (Separation /\ Colored) /\ Trust /\ [Next]_vars => Trust'
  BY StepTrust
<1> QED BY <1>1, InitTrust, AlwaysDiscipline, AlwaysSound, PTL DEF Spec

\* degree_ never undercounts the neighbours that are left, for any graph and any
\* order of simplifying, merging and freezing: a low degree can be trusted.
THEOREM DegreeCanBeTrusted == Spec => []DegreeIsSafe
<1>1. Trust => DegreeIsSafe
  BY DEF Trust, Degrees, DegreeIsSafe, Neighbours
<1> QED BY <1>1, AlwaysTrust, PTL

\* rewriteProgram() spills only registers selectSpill() had to choose: whatever
\* is merged after a node of low degree was pushed, that node gets a colour.
THEOREM NoNeedlessSpill == Spec => []OnlyPotentialSpills
<1>1. Trust => OnlyPotentialSpills
  BY DEF Trust
<1> QED BY <1>1, AlwaysTrust, PTL

-----------------------------------------------------------------------------
(***************************************************************************)
(* What a step of the loop never takes back.                               *)
(***************************************************************************)

LEMMA StepKeeps ==
  ASSUME Discipline, Discipline', [Next]_vars, phase = "work"
  PROVE  /\ \A n \in Node : ~InGraph(n) => where'[n] = where[n]
         /\ \A a, b \in Node : alias[a] = alias[b] => alias'[a] = alias'[b]
<1>0. Types
  BY DEF Discipline
<1>1. CASE MakeWorklist
  BY <1>1 DEF MakeWorklist
<1>2. ASSUME NEW n \in Virtual, Simplify(n)
      PROVE  /\ \A a \in Node : ~InGraph(a) => where'[a] = where[a]
             /\ UNCHANGED alias
  <2> DEFINE lower == {a \in AdjList(n) : (a # n /\ InGraph(a)) /\ a \notin Physical}
             fell  == {a \in lower : degree[a] = K}
  <2>1. /\ where[n] = "simplify" /\ UNCHANGED alias
        /\ where' = [a \in Node |->
             IF a = n THEN "selectStack"
             ELSE IF a \in fell THEN IF MoveRelated(a) THEN "freeze" ELSE "simplify"
             ELSE where[a]]
    BY <1>2 DEF Simplify
  <2>2. InGraph(n) /\ \A a \in fell : InGraph(a)
    BY <2>1 DEF InGraph
  <2> HIDE DEF fell
  <2> QED BY <2>1, <2>2
<1>3. ASSUME NEW m \in Move, Coalesce(m)
      PROVE  /\ \A n \in Node : ~InGraph(n) => where'[n] = where[n]
             /\ \A a, b \in Node : alias[a] = alias[b] => alias'[a] = alias'[b]
  <2>1. moveIn[m] = "worklist" /\ ListEmpty("simplify")
    BY <1>3 DEF Coalesce
  <2>2. CASE CoalesceCombine(m)
    <3>1. PICK u, v : Merges(m, u, v)
      BY <2>2, <1>3, CombineFacts
    <3>2. /\ InGraph(u) /\ InGraph(v)
          /\ \A n \in Node : n # u /\ n # v => where'[n] = where[n]
          /\ \A n \in Node : alias'[n] = IF alias[n] = v THEN u ELSE alias[n]
      BY <3>1 DEF Merges
    <3> QED BY <3>2
  <2>3. CASE CoalesceDefer(m)
    BY <2>3 DEF CoalesceDefer
  <2>4. CASE CoalesceSame(m) \/ CoalesceConstrained(m)
    <3>1. PICK S \in SUBSET {EndX(m), EndY(m)} :
            /\ where' = [n \in Node |-> IF n \in Ready(S, degree, moveList, moveIn')
                                        THEN "simplify" ELSE where[n]]
            /\ UNCHANGED alias
      <4>1. CASE CoalesceSame(m)
        BY <4>1 DEF CoalesceSame
      <4>2. CASE CoalesceConstrained(m)
        BY <4>2 DEF CoalesceConstrained
      <4> QED BY <4>1, <4>2, <2>4
    <3>2. \A n \in S : InGraph(n)
      BY <2>1, EndsOfMove
    <3> QED BY <3>1, <3>2 DEF Ready
  <2> QED BY <2>2, <2>3, <2>4, <1>3 DEF Coalesce
<1>4. ASSUME NEW u \in Virtual, Freeze(u) \/ SelectSpill(u)
      PROVE  /\ \A n \in Node : ~InGraph(n) => where'[n] = where[n]
             /\ UNCHANGED alias
  <2>1. PICK l \in {"freeze", "spill"} : FreezeMove(u, l) /\ where[u] = l /\ UNCHANGED alias
    BY <1>4 DEF Freeze, SelectSpill
  <2>2. ok'
    BY DEF Discipline
  <2>3. \A n \in Node : where'[n] # where[n] => where[n] \in {"freeze", "spill"}
    BY <2>1, <2>2 DEF FreezeMove
  <2> QED BY <2>1, <2>3 DEF InGraph
<1>5. CASE StartColoring
  BY <1>5 DEF StartColoring
<1>6. CASE AssignColor \/ FinishColoring
  BY <1>6 DEF AssignColor, FinishColoring
<1>7. CASE UNCHANGED vars
  BY <1>7 DEF vars
<1> QED BY <1>1, <1>2, <1>3, <1>4, <1>5, <1>6, <1>7 DEF Next

\* While a round works, a node that simplify() or combine() took off the graph
\* stays where it is, and registers merged into one are never separated.
THEOREM NothingIsTakenBack == Spec => NoResurrection
<1>1. Discipline /\ Discipline' /\ [Next]_vars =>
        [phase = "work" =>
           /\ \A n \in Node : ~InGraph(n) => where'[n] = where[n]
           /\ \A a, b \in Node : alias[a] = alias[b] => alias'[a] = alias'[b]]_vars
  BY StepKeeps
<1> QED BY <1>1, AlwaysDiscipline, PTL DEF Spec, NoResurrection

\* A move that simplify() re-enables was live already, and a node is off the
\* graph for it; freezing gives up live moves or takes a node off its list.
LEMMA StepShrinks ==
  ASSUME Discipline, Discipline', [Next]_vars, vars' # vars, phase = "work", phase' = "work"
  PROVE  \E i \in 1..4 :
           /\ \A j \in 1..(i - 1) : WorkLeft'[j] = WorkLeft[j]
           /\ WorkLeft'[i] \subseteq WorkLeft[i] /\ WorkLeft'[i] # WorkLeft[i]
<1> DEFINE left    == {n \in Virtual : InGraph(n)}
           live    == LiveIn(moveIn)
           waiting == {m \in Move : moveIn[m] = "worklist"}
           listed  == {n \in Virtual : where[n] \in {"spill", "freeze"}}
<1>0. /\ WorkLeft[1] = left /\ WorkLeft[2] = live /\ WorkLeft[3] = waiting
      /\ WorkLeft[4] = listed
      /\ WorkLeft'[1] = left' /\ WorkLeft'[2] = live' /\ WorkLeft'[3] = waiting'
      /\ WorkLeft'[4] = listed'
  BY DEF WorkLeft
<1>1. SUFFICES \/ left' \subseteq left /\ left' # left
               \/ left' = left /\ live' \subseteq live /\ live' # live
               \/ left' = left /\ live' = live /\ waiting' \subseteq waiting /\ waiting' # waiting
               \/ /\ left' = left /\ live' = live /\ waiting' = waiting
                  /\ listed' \subseteq listed /\ listed' # listed
  <2> HIDE DEF left, live, waiting, listed
  <2>1. CASE left' \subseteq left /\ left' # left
    <3> WITNESS 1 \in 1..4
    <3> QED BY <2>1, <1>0
  <2>2. CASE left' = left /\ live' \subseteq live /\ live' # live
    <3> WITNESS 2 \in 1..4
    <3>1. \A j \in 1..(2 - 1) : j = 1
      OBVIOUS
    <3> QED BY <2>2, <3>1, <1>0
  <2>3. CASE left' = left /\ live' = live /\ waiting' \subseteq waiting /\ waiting' # waiting
    <3> WITNESS 3 \in 1..4
    <3>1. \A j \in 1..(3 - 1) : j = 1 \/ j = 2
      OBVIOUS
    <3> QED BY <2>3, <3>1, <1>0
  <2>4. CASE /\ left' = left /\ live' = live /\ waiting' = waiting
             /\ listed' \subseteq listed /\ listed' # listed
    <3> WITNESS 4 \in 1..4
    <3>1. \A j \in 1..(4 - 1) : j = 1 \/ j = 2 \/ j = 3
      OBVIOUS
    <3> QED BY <2>4, <3>1, <1>0
  <2> QED BY <2>1, <2>2, <2>3, <2>4
<1>2. Types /\ \A n \in Virtual : n \in Node
  BY DEF Discipline, Node
<1>3. ASSUME NEW n \in Virtual, Simplify(n)
      PROVE  left' \subseteq left /\ left' # left
  <2> DEFINE lower == {a \in AdjList(n) : (a # n /\ InGraph(a)) /\ a \notin Physical}
             fell  == {a \in lower : degree[a] = K}
  <2>1. /\ where[n] = "simplify"
        /\ where' = [a \in Node |->
             IF a = n THEN "selectStack"
             ELSE IF a \in fell THEN IF MoveRelated(a) THEN "freeze" ELSE "simplify"
             ELSE where[a]]
    BY <1>3 DEF Simplify
  <2>2. \A a \in fell : InGraph(a)
    OBVIOUS
  <2> HIDE DEF fell
  <2> QED BY <2>1, <2>2, <1>2 DEF InGraph
<1>4. ASSUME NEW m \in Move, Coalesce(m)
      PROVE  \/ left' \subseteq left /\ left' # left
             \/ left' = left /\ live' \subseteq live /\ live' # live
             \/ left' = left /\ live' = live /\ waiting' \subseteq waiting /\ waiting' # waiting
  <2>1. moveIn[m] = "worklist" /\ ListEmpty("simplify")
    BY <1>4 DEF Coalesce
  <2>2. CASE CoalesceCombine(m)
    <3>1. PICK u, v : Merges(m, u, v)
      BY <2>2, <1>4, CombineFacts
    <3>2. /\ InGraph(u) /\ InGraph(v) /\ v \in Virtual /\ where'[v] = "coalesced"
          /\ \A a \in Node : a # u /\ a # v => where'[a] = where[a]
      BY <3>1 DEF Merges
    <3> QED BY <3>2, <1>2 DEF InGraph
  <2>3. CASE CoalesceDefer(m)
    <3>1. moveIn' = [moveIn EXCEPT ![m] = "active"] /\ where' = where
      BY <2>3 DEF CoalesceDefer
    <3>2. \A o \in Move : moveIn'[o] = IF o = m THEN "active" ELSE moveIn[o]
      BY <3>1, <1>2 DEF Types
    <3> QED BY <3>1, <3>2, <2>1 DEF InGraph, LiveIn
  <2>4. CASE CoalesceSame(m) \/ CoalesceConstrained(m)
    <3>1. PICK S \in SUBSET {EndX(m), EndY(m)}, k \in {"coalesced", "constrained"} :
            /\ where' = [n \in Node |-> IF n \in Ready(S, degree, moveList, moveIn')
                                        THEN "simplify" ELSE where[n]]
            /\ moveIn' = [moveIn EXCEPT ![m] = k]
      <4>1. CASE CoalesceSame(m)
        BY <4>1 DEF CoalesceSame
      <4>2. CASE CoalesceConstrained(m)
        BY <4>2 DEF CoalesceConstrained
      <4> QED BY <4>1, <4>2, <2>4
    <3>2. \A n \in S : InGraph(n)
      BY <2>1, EndsOfMove
    <3>3. left' = left
      BY <3>1, <3>2, <1>2 DEF Ready, InGraph
    <3>4. \A o \in Move : moveIn'[o] = IF o = m THEN k ELSE moveIn[o]
      BY <3>1, <1>2 DEF Types
    <3> QED BY <3>3, <3>4, <2>1 DEF LiveIn
  <2> QED BY <2>2, <2>3, <2>4, <1>4 DEF Coalesce
<1>5. ASSUME NEW u \in Virtual, Freeze(u) \/ SelectSpill(u)
      PROVE  \/ left' = left /\ live' \subseteq live /\ live' # live
             \/ /\ left' = left /\ live' = live /\ waiting' = waiting
                /\ listed' \subseteq listed /\ listed' # listed
  <2>1. PICK l \in {"freeze", "spill"} : FreezeMove(u, l) /\ where[u] = l
    BY <1>5 DEF Freeze, SelectSpill
  <2> DEFINE gone  == moveList[u] \cap LiveIn(moveIn)
             kind  == [m \in Move |-> IF m \in gone THEN "frozen" ELSE moveIn[m]]
             freed == {v \in {OtherEnd(u, m) : m \in gone} :
                         degree[v] < K /\ ~MoveRelatedIn(v, moveList, kind)}
  <2>2. /\ moveIn' = kind
        /\ where' = [n \in Node |-> IF n = u \/ n \in freed THEN "simplify" ELSE where[n]]
        /\ ok' = (/\ where[u] = l
                  /\ \A m \in gone : moveIn[m] = "active"
                  /\ \A v \in freed : v # u /\ where[v] = "freeze")
    BY <2>1 DEF FreezeMove
  <2>3. \A v \in freed : where[v] = "freeze"
    BY <2>2 DEF Discipline
  <2>4. gone = {} => freed = {}
    OBVIOUS
  <2>5. gone \subseteq live
    OBVIOUS
  <2> HIDE DEF freed
  <2>6. left' = left
    BY <2>1, <2>2, <2>3, <1>2 DEF InGraph
  <2>7. live' = live \ gone
    BY <2>2 DEF LiveIn
  <2>8. CASE gone # {}
    BY <2>5, <2>6, <2>7, <2>8
  <2>9. CASE gone = {}
    <3>1. \A m \in Move : moveIn'[m] = moveIn[m]
      BY <2>2, <2>9
    <3>2. waiting' = waiting /\ live' = live
      BY <3>1, <2>7, <2>9
    <3>3. listed' = listed \ {u} /\ u \in listed
      BY <2>1, <2>2, <2>4, <2>9, <1>2
    <3> QED BY <2>6, <3>2, <3>3
  <2> QED BY <2>8, <2>9
<1>6. ~MakeWorklist /\ ~StartColoring /\ ~AssignColor /\ ~FinishColoring
  BY DEF MakeWorklist, StartColoring, AssignColor, FinishColoring
<1>7. Next
  OBVIOUS
<1> HIDE DEF left, live, waiting, listed
<1> QED BY <1>3, <1>4, <1>5, <1>6, <1>7 DEF Next

\* Every turn of the loop of runOn() leaves less to do, so that a round works for
\* finitely many turns on every graph with finitely many moves.
THEOREM EveryTurnCounts == Spec => RoundShrinks
<1>1. Discipline /\ Discipline' /\ [Next]_vars =>
        [phase = "work" /\ phase' = "work" =>
           \E i \in 1..4 :
             /\ \A j \in 1..(i - 1) : WorkLeft'[j] = WorkLeft[j]
             /\ WorkLeft'[i] \subseteq WorkLeft[i] /\ WorkLeft'[i] # WorkLeft[i]]_vars
  BY StepShrinks
<1> QED BY <1>1, AlwaysDiscipline, PTL DEF Spec, RoundShrinks
=============================================================================
