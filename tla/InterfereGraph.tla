--------------------------- MODULE InterfereGraph ---------------------------
(***************************************************************************)
(* The graph-colouring core of the register allocator: the worklists of    *)
(* src/machineir/pass/util/InterfereGraph.cpp and the loop that drives     *)
(* them in RegisterAllocate::runOn, from the interference graph that       *)
(* build() leaves behind to the colours that applyChanges() writes into    *)
(* the program (or to the set of registers rewriteProgram() spills).       *)
(*                                                                         *)
(* A node is in at most one list at a time and a move in exactly one: the  *)
(* parent_ pointers.  The intrusive lists are unordered here, so that      *)
(* top() is any element; only selectStack_ keeps its order.  ASSERT is     *)
(* compiled in (OPEN_ASSERT in Util.hpp) and a failure stops the compiler: *)
(* ok turns FALSE and no further step is taken.                            *)
(***************************************************************************)
EXTENDS Integers, FiniteSets, Sequences

CONSTANTS
  Virtual,    \* virtual registers of the class being allocated
  Physical,   \* allocatable physical registers of that class
  Move,       \* the copies that isCareCopy() accepts
  NoColor     \* color_ == nullptr

ASSUME RegisterAssumption ==
  /\ IsFiniteSet(Virtual) /\ IsFiniteSet(Physical)
  /\ Virtual \cap Physical = {}
  /\ Physical # {}
  /\ NoColor \notin Physical

Node == Virtual \cup Physical
K    == Cardinality(Physical)

Undirected == {e \in SUBSET Node : Cardinality(e) = 2 /\ ~(e \subseteq Physical)}

VARIABLES
  conflict,   \* the edges build() added, by node (never changes)
  toX, fromY, \* the ends of every move (never change)
  adj,        \* adjSet_: edges of build() and of combineAddEdge()
  degree,     \* degree_
  moveList,   \* moveList_
  alias,      \* the representative alias() finds
  where,      \* the list that holds a node
  moveIn,     \* the list that holds a move
  stack,      \* selectStack_, last pushed last
  color,      \* color_
  potential,  \* history: what selectSpill() ever chose
  phase,      \* how far runOn() is in one round
  ok          \* no ASSERT has failed

vars == <<conflict, toX, fromY, adj, degree, moveList, alias, where, moveIn,
          stack, color, potential, phase, ok>>
input == <<conflict, toX, fromY>>

NodeList == {"none", "initial", "spill", "freeze", "simplify", "coalesced",
             "selectStack", "spilled"}
MoveKind == {"worklist", "active", "coalesced", "constrained", "frozen"}
Phase    == {"build", "work", "select", "rewrite", "apply"}

-----------------------------------------------------------------------------
(***************************************************************************)
(* What the handlers read.                                                 *)
(***************************************************************************)

\* Only virtual registers keep an adjacency list.
AdjList(n) == IF n \in Virtual THEN adj[n] ELSE {}

\* A node that is neither merged away nor on the stack; a physical register
\* and a node that left the stack again are in the graph.
InGraph(n) == where[n] \notin {"coalesced", "selectStack"}

LiveIn(kind) == {m \in Move : kind[m] \in {"worklist", "active"}}
MoveRelatedIn(n, list, kind) == list[n] \cap LiveIn(kind) # {}
MoveRelated(n) == MoveRelatedIn(n, moveList, moveIn)

\* enableMoves(n) for every n of S.
EnableMoves(S, kind) ==
  [m \in Move |-> IF kind[m] = "active" /\ \E n \in S : m \in moveList[n]
                  THEN "worklist" ELSE kind[m]]

\* The ends of a move, the physical one first if there is one.
EndX(m) == IF alias[fromY[m]] \in Physical THEN alias[fromY[m]] ELSE alias[toX[m]]
EndY(m) == IF alias[fromY[m]] \in Physical THEN alias[toX[m]] ELSE alias[fromY[m]]

\* makeWorklist() and selectSpill() deal with nodes of this kind.
HighDegreeOffByOne(n) == degree[n] > K
HighDegree(n) == degree[n] >= K

\* The parameters keep the header's names; coalesce() passes the physical
\* register first.
GeorgeTest(virtualReg, physicReg) ==
  \A t \in AdjList(virtualReg) :
    ~(InGraph(t) /\ degree[t] >= K /\ t \notin Physical /\ physicReg \notin adj[t])

BriggsTest(l, r) ==
  Cardinality({n \in AdjList(l) \cup AdjList(r) :
                 InGraph(n) /\ (degree[n] >= K \/ n \in Physical)}) < K

ConservativeSwapped(x, y) == IF x \in Physical THEN GeorgeTest(y, x) ELSE BriggsTest(x, y)
Conservative(x, y) == IF x \in Physical THEN GeorgeTest(x, y) ELSE BriggsTest(x, y)

\* The nodes of S that addWorkList() moves from the freeze to the simplify list.
ReadyUnchecked(S, deg, list, kind) == {n \in S : deg[n] < K /\ n \notin Physical}
Ready(S, deg, list, kind) ==
  {n \in S : deg[n] < K /\ n \notin Physical /\ ~MoveRelatedIn(n, list, kind)}

\* The representative at the other end of a move of u.
OtherEndRaw(u, m) == IF fromY[m] = u THEN toX[m] ELSE fromY[m]
OtherEnd(u, m) == IF alias[fromY[m]] = alias[u] THEN alias[toX[m]] ELSE alias[fromY[m]]

\* Every representative after v was merged into u.
MergeAliasOfOne(u, v) == [alias EXCEPT ![v] = u]
MergeAlias(u, v) == [n \in Node |-> IF alias[n] = v THEN u ELSE alias[n]]

\* combineAddEdge() counts the new edges of u, a virtual register.
DegreeKept(u, fresh) == degree
DegreeWith(u, fresh) ==
  IF u \in Virtual THEN [degree EXCEPT ![u] = @ + Cardinality(fresh)] ELSE degree

\* The registers assignColors() may not give to n.
ColorsOfNeighbours(n) == {color[w] : w \in AdjList(n)}
ColorsTaken(n) == {color[alias[w]] : w \in AdjList(n)}

\* What the last loop of assignColors() leaves in color_.
ColorUnmerged(n) == color[n]
FinalColor(n) == IF where[n] = "coalesced" THEN color[alias[n]] ELSE color[n]

ListEmpty(l)  == \A n \in Virtual : where[n] # l
MovesEmpty(k) == \A m \in Move : moveIn[m] # k

-----------------------------------------------------------------------------
(***************************************************************************)
(* flush() and build() end here.  Any graph may come out of a program; a   *)
(* virtual register's degree counts its conflicts, every move is on the    *)
(* worklist, and has at least one virtual end.                             *)
(***************************************************************************)
Build(edges, x, y) ==
  /\ conflict = [n \in Node |-> {o \in Node : {n, o} \in edges}]
  /\ toX = x /\ fromY = y
  /\ adj = conflict
  /\ degree = [n \in Node |-> IF n \in Virtual THEN Cardinality(conflict[n]) ELSE 0]
  /\ moveList = [n \in Node |-> {m \in Move : n \in {x[m], y[m]}}]
  /\ alias = [n \in Node |-> n]
  /\ where = [n \in Node |-> IF n \in Virtual THEN "initial" ELSE "none"]
  /\ moveIn = [m \in Move |-> "worklist"]
  /\ stack = <<>>
  /\ color = [n \in Node |-> NoColor]
  /\ potential = {}
  /\ phase = "build"
  /\ ok = TRUE

Init ==
  \E edges \in SUBSET Undirected, x, y \in [Move -> Node] :
    /\ \A m \in Move : {x[m], y[m]} \cap Virtual # {}
    /\ Build(edges, x, y)

\* makeWorklist(): sort the virtual registers by degree and moves.
MakeWorklist ==
  /\ ok /\ phase = "build"
  /\ where' = [n \in Node |->
       IF n \in Physical THEN "none"
       ELSE IF HighDegree(n) THEN "spill"
       ELSE IF moveList[n] # {} THEN "freeze" ELSE "simplify"]
  /\ phase' = "work"
  /\ UNCHANGED <<input, adj, degree, moveList, alias, moveIn, stack, color,
                 potential, ok>>

\* simplify(): push a node of the simplify list; each neighbour left in the
\* graph loses a degree, and one that falls from K has its own moves and those
\* of its neighbours enabled and leaves the spill list.
Simplify(n) ==
  /\ ok /\ phase = "work" /\ where[n] = "simplify"
  /\ LET remains(a) == a # n /\ InGraph(a)
         lower == {a \in AdjList(n) : remains(a) /\ a \notin Physical}
         fell  == {a \in lower : degree[a] = K}
         near  == fell \cup {b \in UNION {AdjList(a) : a \in fell} : remains(b)}
     IN /\ degree' = [a \in Node |-> IF a \in lower THEN degree[a] - 1 ELSE degree[a]]
        /\ moveIn' = EnableMoves(near, moveIn)
        /\ where' = [a \in Node |->
             IF a = n THEN "selectStack"
             ELSE IF a \in fell THEN IF MoveRelated(a) THEN "freeze" ELSE "simplify"
             ELSE where[a]]
        /\ ok' = (~MoveRelated(n) /\ \A a \in fell : where[a] = "spill")
  /\ stack' = Append(stack, n)
  /\ UNCHANGED <<input, adj, moveList, alias, color, potential, phase>>

\* coalesce() on a move whose ends are one node already.
CoalesceSame(m) ==
  /\ EndX(m) = EndY(m)
  /\ moveIn' = [moveIn EXCEPT ![m] = "coalesced"]
  /\ LET ready == Ready({EndX(m)}, degree, moveList, moveIn')
     IN /\ where' = [n \in Node |-> IF n \in ready THEN "simplify" ELSE where[n]]
        /\ ok' = \A n \in ready : where[n] = "freeze"
  /\ UNCHANGED <<adj, degree, moveList, alias>>

\* coalesce() on a move between two physical or two conflicting registers.
CoalesceConstrained(m) ==
  /\ EndX(m) # EndY(m)
  /\ EndY(m) \in Physical \/ EndY(m) \in adj[EndX(m)]
  /\ moveIn' = [moveIn EXCEPT ![m] = "constrained"]
  /\ LET ready == Ready({EndX(m), EndY(m)}, degree, moveList, moveIn')
     IN /\ where' = [n \in Node |-> IF n \in ready THEN "simplify" ELSE where[n]]
        /\ ok' = \A n \in ready : where[n] = "freeze"
  /\ UNCHANGED <<adj, degree, moveList, alias>>

\* combine(u, v) and the addWorkList(u) that follows it.  Only u's degree
\* grows; an edge u-t that was there already costs t nothing.
Combine(u, v, kind) ==
  LET fresh == {t \in AdjList(v) : t # v /\ InGraph(t) /\ t # u /\ t \notin adj[u]}
      list  == [moveList EXCEPT ![u] = @ \cup moveList[v]]
      deg   == DegreeWith(u, fresh)
      inU   == IF where[u] = "freeze" /\ deg[u] >= K THEN "spill" ELSE where[u]
      ready == Ready({u}, deg, list, EnableMoves({v}, kind))
  IN /\ alias' = MergeAlias(u, v)
     /\ moveList' = list
     /\ moveIn' = EnableMoves({v}, kind)
     /\ adj' = [n \in Node |-> IF n = u THEN adj[u] \cup fresh
                               ELSE IF n \in fresh THEN adj[n] \cup {u} ELSE adj[n]]
     /\ degree' = deg
     /\ where' = [n \in Node |-> IF n = v THEN "coalesced"
                                 ELSE IF n \in ready THEN "simplify"
                                 ELSE IF n = u THEN inU ELSE where[n]]
     /\ ok' = (/\ where[v] \in {"freeze", "spill"}
               /\ alias[v] = v
               /\ \A n \in ready : inU = "freeze")

\* coalesce() on a move whose ends pass their test.
CoalesceCombine(m) ==
  /\ EndX(m) # EndY(m) /\ EndY(m) \notin Physical /\ EndY(m) \notin adj[EndX(m)]
  /\ Conservative(EndX(m), EndY(m))
  /\ Combine(EndX(m), EndY(m), [moveIn EXCEPT ![m] = "coalesced"])

CoalesceDeferInPlace(m) == UNCHANGED <<moveIn, adj, degree, moveList, alias, where, ok>>

\* coalesce() on a move whose ends do not: wait until something is enabled.
CoalesceDefer(m) ==
  /\ EndX(m) # EndY(m) /\ EndY(m) \notin Physical /\ EndY(m) \notin adj[EndX(m)]
  /\ ~Conservative(EndX(m), EndY(m))
  /\ moveIn' = [moveIn EXCEPT ![m] = "active"]
  /\ UNCHANGED <<adj, degree, moveList, alias, where, ok>>

\* coalesce() runs when there is nothing to simplify.
Coalesce(m) ==
  /\ ok /\ phase = "work" /\ moveIn[m] = "worklist"
  /\ ListEmpty("simplify")
  /\ \/ CoalesceSame(m)
     \/ CoalesceConstrained(m)
     \/ CoalesceCombine(m)
     \/ CoalesceDefer(m)
  /\ UNCHANGED <<input, stack, color, potential, phase>>

FreezeMoveRetried(u, l) ==
  LET gone == moveList[u] \cap LiveIn(moveIn)
  IN /\ moveIn' = [m \in Move |-> IF m \in gone THEN "worklist" ELSE moveIn[m]]
     /\ where' = [where EXCEPT ![u] = "simplify"]
     /\ ok' = (where[u] = l)

\* freezeMove(u), once u went from list l to the simplify list: u's moves are
\* given up, and a low-degree node at the other end of one may be simplified.
FreezeMove(u, l) ==
  LET gone  == moveList[u] \cap LiveIn(moveIn)
      kind  == [m \in Move |-> IF m \in gone THEN "frozen" ELSE moveIn[m]]
      freed == {v \in {OtherEnd(u, m) : m \in gone} :
                  degree[v] < K /\ ~MoveRelatedIn(v, moveList, kind)}
  IN /\ moveIn' = kind
     /\ where' = [n \in Node |-> IF n = u \/ n \in freed THEN "simplify" ELSE where[n]]
     /\ ok' = (/\ where[u] = l
               /\ \A m \in gone : moveIn[m] = "active"
               /\ \A v \in freed : v # u /\ where[v] = "freeze")

\* freeze() runs when there is nothing to simplify or coalesce.
Freeze(u) ==
  /\ ok /\ phase = "work" /\ where[u] = "freeze"
  /\ ListEmpty("simplify") /\ MovesEmpty("worklist")
  /\ FreezeMove(u, "freeze")
  /\ UNCHANGED <<input, adj, degree, moveList, alias, stack, color, potential, phase>>

\* selectSpill() runs last.  The weights that rank the candidates are not
\* modelled: any node with a conflict may be the cheapest one.
SelectSpill(u) ==
  /\ ok /\ phase = "work" /\ where[u] = "spill" /\ degree[u] # 0
  /\ ListEmpty("simplify") /\ MovesEmpty("worklist") /\ ListEmpty("freeze")
  /\ FreezeMove(u, "spill")
  /\ potential' = potential \cup {u}
  /\ UNCHANGED <<input, adj, degree, moveList, alias, stack, color, phase>>

\* The loop is over (shouldRepeat()); assignColors() starts with the colours
\* of the physical registers.
StartColoring ==
  /\ ok /\ phase = "work"
  /\ \A l \in {"simplify", "freeze", "spill"} : ListEmpty(l)
  /\ MovesEmpty("worklist")
  /\ color' = [n \in Node |-> IF n \in Physical THEN n ELSE NoColor]
  /\ phase' = "select"
  /\ UNCHANGED <<input, adj, degree, moveList, alias, where, moveIn, stack,
                 potential, ok>>

\* One pop of assignColors(): any register that no neighbour's representative
\* has, or none is left and the node is spilled.
AssignColor ==
  /\ ok /\ phase = "select" /\ stack # <<>>
  /\ LET n    == stack[Len(stack)]
         free == Physical \ ColorsTaken(n)
     IN \/ \E c \in free :
             /\ color' = [color EXCEPT ![n] = c]
             /\ where' = [where EXCEPT ![n] = "none"]
        \/ /\ free = {}
           /\ where' = [where EXCEPT ![n] = "spilled"]
           /\ UNCHANGED color
  /\ stack' = SubSeq(stack, 1, Len(stack) - 1)
  /\ UNCHANGED <<input, adj, degree, moveList, alias, moveIn, potential, phase, ok>>

\* The end of assignColors(): merged nodes take their representative's colour;
\* needRewrite() decides between spilling and applyChanges().
FinishColoring ==
  /\ ok /\ phase = "select" /\ stack = <<>>
  /\ color' = [n \in Node |-> FinalColor(n)]
  /\ phase' = IF \E n \in Node : where[n] = "spilled" THEN "rewrite" ELSE "apply"
  /\ UNCHANGED <<input, adj, degree, moveList, alias, where, moveIn, stack,
                 potential, ok>>

Next ==
  \/ MakeWorklist
  \/ \E n \in Virtual : Simplify(n)
  \/ \E m \in Move : Coalesce(m)
  \/ \E n \in Virtual : Freeze(n)
  \/ \E n \in Virtual : SelectSpill(n)
  \/ StartColoring
  \/ AssignColor
  \/ FinishColoring

Spec == Init /\ [][Next]_vars

\* The compiler runs to completion: it never stops with a step enabled.
FairSpec == Spec /\ WF_vars(Next)

-----------------------------------------------------------------------------
(***************************************************************************)
(* Properties.                                                             *)
(***************************************************************************)

\* Shape of the state, with the parts that relate variables: representatives
\* are fixed points of alias, physical registers are in no list and have no
\* degree, the stack holds exactly the nodes marked as being on it.
TypeOK ==
  /\ conflict \in [Node -> SUBSET Node]
  /\ toX \in [Move -> Node] /\ fromY \in [Move -> Node]
  /\ adj \in [Node -> SUBSET Node]
  /\ degree \in [Node -> Int]
  /\ moveList \in [Node -> SUBSET Move]
  /\ alias \in [Node -> Node]
  /\ where \in [Node -> NodeList]
  /\ moveIn \in [Move -> MoveKind]
  /\ stack \in Seq(Virtual)
  /\ color \in [Node -> Physical \cup {NoColor}]
  /\ potential \subseteq Virtual
  /\ phase \in Phase
  /\ ok \in BOOLEAN
  /\ \A n \in Physical : where[n] = "none" /\ degree[n] = 0
  /\ \A n \in Node : alias[alias[n]] = alias[n]
  /\ \A n \in Node : (where[n] = "coalesced") <=> (alias[n] # n)

\* No ASSERT of the allocator fails: every node and move that is taken out of a
\* list is in that list, whatever the order in which coalescing, freezing and
\* simplifying reshuffle them, and a node on the simplify list has no live move.
AssertionsHold == ok

\* The result of a round: two registers that conflict in the program, whether
\* merged or not, never end up in one physical register.
ProperColoring ==
  phase \in {"rewrite", "apply"} =>
    \A a \in Node : \A b \in conflict[a] :
      {a, b} \subseteq Physical \/ color[a] # color[b] \/ color[a] = NoColor

\* applyChanges() replaces every virtual register by its colour_: it runs only
\* when all of them have one, merged registers included.
AppliedIsTotal ==
  phase = "apply" => \A n \in Node : color[n] \in Physical \/ n \in Physical

\* Optimism costs nothing: a register is spilled only if selectSpill() had to
\* choose it (degree >= K with nothing left to simplify, coalesce or freeze), so
\* a node pushed with a low degree gets a colour although merging keeps adding
\* edges and representatives to the graph after it left.
OnlyPotentialSpills == \A n \in Node : where[n] = "spilled" => n \in potential

\* degree_ may overcount (combine() does not lower a common neighbour's degree)
\* but never undercounts the neighbours that are still in the graph: a low
\* degree can be trusted.
DegreeIsSafe ==
  phase = "work" =>
    \A n \in Virtual : InGraph(n) =>
      degree[n] >= Cardinality({t \in adj[n] : InGraph(t)})

\* The worklists sort the nodes: high degree on the spill list, low degree with
\* a live move on the freeze list, no live move on the simplify list.
WorklistsSorted ==
  phase = "work" => \A n \in Virtual :
    /\ where[n] = "spill" => degree[n] >= K
    /\ where[n] = "freeze" => degree[n] < K /\ MoveRelated(n)
    /\ where[n] = "simplify" => ~MoveRelated(n)

\* A node that left the graph never returns to it during a round, and two nodes
\* merged into one are never separated again.
NoResurrection ==
  [][phase = "work" =>
       /\ \A n \in Node : ~InGraph(n) => where'[n] = where[n]
       /\ \A a, b \in Node : alias[a] = alias[b] => alias'[a] = alias'[b]]_vars

\* What the loop of runOn() has left to do, the weightiest part first: registers
\* in the graph, moves to decide, moves that wait to be looked at, registers that
\* are neither simplified nor chosen.
WorkLeft ==
  <<{n \in Virtual : InGraph(n)},
    LiveIn(moveIn),
    {m \in Move : moveIn[m] = "worklist"},
    {n \in Virtual : where[n] \in {"spill", "freeze"}}>>

\* Every turn of the loop leaves less to do, although simplifying a node puts
\* moves back on the worklist and merging can send a node back to the spill list:
\* the first part of WorkLeft that a step changes, it shrinks.
RoundShrinks ==
  [][phase = "work" /\ phase' = "work" =>
       \E i \in 1..4 :
         /\ \A j \in 1..(i - 1) : WorkLeft'[j] = WorkLeft[j]
         /\ WorkLeft'[i] \subseteq WorkLeft[i] /\ WorkLeft'[i] # WorkLeft[i]]_vars

\* A round ends: the worklists run empty although coalescing puts moves back on
\* theirs and selecting and freezing refill the simplify list.
RoundEnds == <>(phase \in {"rewrite", "apply"})

\* A round does what module Coloring promises: the graph is the one it was
\* given, and there is a single moment when all registers get their colours,
\* merged ones the same, or the spilled ones are known; nothing is taken back.
Contract == INSTANCE Coloring WITH
  color   <- IF phase = "apply" THEN color ELSE [n \in Node |-> NoColor],
  spilled <- IF phase = "rewrite" THEN {n \in Virtual : where[n] = "spilled"} ELSE {},
  done    <- phase \in {"rewrite", "apply"}

ImplementsColoring == Contract!Spec

\* The header of GeorgeTest (InterfereGraph.hpp:129): a virtual register is
\* merged with a physical one only if each of its neighbours conflicts with the
\* physical register or has a low degree.
GeorgeConservative ==
  [][\A m \in Move, p \in Physical, v \in Virtual :
       (EndX(m) = p /\ EndY(m) = v /\ alias[v] = v /\ alias'[v] = p) =>
         \A t \in adj[v] : InGraph(t) =>
           p \in adj[t] \/ degree[t] < K \/ t \in Physical]_vars

\* The comment on degree_ (InterfereGraph.hpp:22): the number of nodes a node
\* conflicts with (of those that simplify() has not taken out of the graph).
DegreeIsExact ==
  phase = "work" =>
    \A n \in Virtual : InGraph(n) =>
      degree[n] = Cardinality({t \in adj[n] : InGraph(t)})
=============================================================================
