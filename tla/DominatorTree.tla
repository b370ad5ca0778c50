--------------------------- MODULE DominatorTree ---------------------------
(***************************************************************************)
(* The dominator tree of a flow graph, as LTDominatorTreeSolver and        *)
(* create_dom_dfs_order compute it: Lengauer and Tarjan's algorithm with   *)
(* path compression, the dominance frontier, and the entry (L) and leave   *)
(* (R) times of a depth-first walk of the tree, by which is_dominate and   *)
(* the common ancestor of a set of blocks answer.                          *)
(*                                                                         *)
(* A graph g is a record: entry is the entry block, suc and pre give every *)
(* block its list of successors and of predecessors.  Every block must be  *)
(* reachable (the solver removes the blocks that have no predecessor).     *)
(***************************************************************************)
EXTENDS Iteration, SequencesExt, FiniteSetsExt, TLC

\* The elements of a set of numbers in ascending order (a set of blocks is gone
\* through in the order of their addresses, or of their numbers).
Ascending(S) == InTurn(LAMBDA s, k : Append(s, Min(S \ ToSet(s))), <<>>,
                       [k \in 1..Cardinality(S) |-> k])

\* Depth-first numbering from u.  s.num is the entering order (0 for a block
\* not met), s.rank the blocks in that order, s.par the parents.
RECURSIVE DfsFrom(_, _, _)
DfsFrom(g, u, s0) ==
    LET Enter == [s0 EXCEPT !.num[u] = Len(s0.rank) + 1, !.rank = Append(@, u)]
        Visit(s, v) == IF s.num[v] # 0 THEN s
                       ELSE [DfsFrom(g, v, s) EXCEPT !.par[v] = u]
    IN  InTurn(Visit, Enter, g.suc[u])

Dfs(g) ==
    LET Blocks == DOMAIN g.suc
    IN  DfsFrom(g, g.entry, [num  |-> [b \in Blocks |-> 0],
                             rank |-> <<>>,
                             par  |-> [b \in Blocks |-> b]])

\* The forest of processed blocks: s.set is the link towards the root, s.mn
\* the block of smallest semidominator met on the compressed path.
Compress(d, t, x, p) ==
    [t EXCEPT !.set[x] = t.set[p],
              !.mn[x] = IF d.num[t.sdom[t.mn[p]]] < d.num[t.sdom[t.mn[x]]] THEN t.mn[p] ELSE @]
RECURSIVE FindSetRoot(_, _, _)
FindSetRoot(d, s, x) ==
    IF s.set[x] = x THEN s
    ELSE Compress(d, FindSetRoot(d, s, s.set[x]), x, s.set[x])

\* One turn of the main loop of solve(): the semidominator of the block u of
\* rank i, then the blocks whose semidominator is the parent of u.
Semidominator(g, d, s0, u) ==
    LET Less(t, n) == [t EXCEPT !.res = IF n < @ THEN n ELSE @]
        Through(t, v) == Less(t, d.num[t.sdom[t.mn[v]]])
        Predecessor(s, v) ==
            CASE d.num[v] = 0 -> s
              [] d.num[v] \in 1..(d.num[u] - 1) -> Less(FindSetRoot(d, s, v), d.num[v])
              [] OTHER -> Through(FindSetRoot(d, s, v), v)
    IN  InTurn(Predecessor, [s0 EXCEPT !.res = Len(d.rank) + 1], g.pre[u])
PutInBucket(d, s, u) ==
    [s EXCEPT !.sdom[u] = d.rank[s.res], !.set[u] = d.par[u],
              !.bucket[d.rank[s.res]] = <<u>> \o @]
Settle(t, v, par) == [t EXCEPT !.idom[v] = IF t.sdom[t.mn[v]] = par THEN par ELSE t.mn[v]]
EmptyBucket(d, s, par) ==
    [InTurn(LAMBDA t, v : Settle(FindSetRoot(d, t, v), v, par), s, s.bucket[par])
       EXCEPT !.bucket[par] = <<>>]
SolveBlock(g, d, s, u) ==
    EmptyBucket(d, PutInBucket(d, Semidominator(g, d, s, u), u), d.par[u])

\* solve() and dumpIdom(): the immediate dominator of every block; the entry
\* block is its own.
SolveAll(g, d) ==
    LET self == [b \in DOMAIN g.suc |-> b]
    IN  InTurn(LAMBDA s, u : SolveBlock(g, d, s, u),
               [set |-> self, mn |-> self, sdom |-> self, idom |-> self,
                bucket |-> [b \in DOMAIN g.suc |-> <<>>], res |-> 0],
               Reverse(Tail(d.rank)))
Resolve(d, s) ==
    InTurn(LAMBDA idom, u : IF idom[u] # s.sdom[u] THEN [idom EXCEPT ![u] = idom[idom[u]]] ELSE idom,
           s.idom, Tail(d.rank))
IDomOf(g, d) == Resolve(d, SolveAll(g, d))
IDom(g) == IDomOf(g, Dfs(g))

\* dumpTreeSucc()
TreeSuc(idom, b) == {c \in DOMAIN idom : idom[c] = b /\ c # b}

\* dumpFrontier(): from every predecessor of a block that has several, up to
\* the block's immediate dominator.
RECURSIVE Climb(_, _, _)
Climb(idom, p, stop) ==
    IF p = stop THEN {} ELSE {p} \cup Climb(idom, idom[p], stop)

Frontier(g, idom) ==
    [b \in DOMAIN g.suc |->
       {c \in DOMAIN g.suc :
          /\ Len(g.pre[c]) > 1
          /\ \E k \in DOMAIN g.pre[c] : b \in Climb(idom, g.pre[c][k], idom[c])}]

\* create_dom_dfs_order(): the walk pushes the children of a block in the
\* order of their addresses (here: of their numbers) and takes the last first.
RECURSIVE WalkTree(_, _, _)
WalkTree(idom, b, s0) ==
    LET Leave(s) == [s EXCEPT !.R[b] = Len(s.order)]
    IN  Leave(InTurn(LAMBDA s, c : WalkTree(idom, c, s),
                     [s0 EXCEPT !.L[b] = Len(s0.order) + 1, !.order = Append(@, b)],
                     Reverse(Ascending(TreeSuc(idom, b)))))

\* Dominators::run(): everything later questions are answered from.
TreeOf(g, idom) ==
    LET zero == [b \in DOMAIN g.suc |-> 0]
    IN  [idom |-> idom, frontier |-> Frontier(g, idom)]
          @@ WalkTree(idom, g.entry, [L |-> zero, R |-> zero, order |-> <<>>])
DomTree(g) == TreeOf(g, IDom(g))

IsDominate(t, a, b) == t.L[a] <= t.L[b] /\ t.R[a] >= t.R[b]

\* lca() and latestCommonParent(): from the first block of S in the walk
\* backwards, the first that is left after all of S.
CommonAncestor(t, S) ==
    LET rid == Max({t.R[b] : b \in S})
        from == Min({t.L[b] : b \in S})
    IN  t.order[Max({i \in 1..from : t.R[t.order[i]] >= rid})]
=============================================================================
