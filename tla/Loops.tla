------------------------------- MODULE Loops -------------------------------
(***************************************************************************)
(* LoopDetection, which finds the loops of a function from its dominator   *)
(* tree, and LoopSimplify, which gives every loop one preheader, one latch *)
(* that ends in a plain branch, and exit blocks of its own, and keeps what *)
(* LoopDetection found up to date by hand.                                 *)
(*                                                                         *)
(* What is found is a record: loop, the loops by number (loops_); of, the  *)
(* innermost loop of a block (bb_to_loop_).  A loop is a record: header,   *)
(* pre (the preheader, 0 if none), parent (0 if none), blocks, latches,    *)
(* exits (from a block inside to the block outside) and subs, a list.      *)
(***************************************************************************)
EXTENDS Passes

RECURSIVE Outermost(_, _), Ancestors(_, _), PostOrder(_, _)
Outermost(L, l) == IF L.loop[l].parent = 0 THEN l ELSE Outermost(L, L.loop[l].parent)
\* l and the loops around it.
Ancestors(L, l) == IF l = 0 THEN {} ELSE {l} \cup Ancestors(L, L.loop[l].parent)
\* Inner loops before l.
PostOrder(L, l) == FlattenSeq([k \in DOMAIN L.loop[l].subs |-> PostOrder(L, L.loop[l].subs[k])]) \o <<l>>
Roots(L) == SelectSeq([l \in DOMAIN L.loop |-> l], LAMBDA l : L.loop[l].parent = 0)
InnerFirst(L) == FlattenSeq([k \in DOMAIN Roots(L) |-> PostOrder(L, Roots(L)[k])])

\* discover_loop_and_sub_loops(): back from the latches to the header h.
RECURSIVE Discover(_, _, _, _, _)
Discover(m, tree, L, h, work) ==
    LET l == Len(L.loop)
        b == Last(work)
        sub == Outermost(L, L.of[b])
        Inside(c) == SelectSeq(m.pre[c], LAMBDA p : IsDominate(tree, h, p))
        WithBlock == [L EXCEPT !.loop[l].blocks = @ \cup {b}, !.of = (b :> l) @@ @]
        WithSub == [L EXCEPT !.loop[l].subs = Append(@, sub), !.loop[sub].parent = l,
                             !.loop[l].blocks = @ \cup L.loop[sub].blocks]
    IN  CASE work = <<>> -> L
          [] work # <<>> /\ b \notin DOMAIN L.of ->
               Discover(m, tree, WithBlock, h, Front(work) \o Inside(b))
          [] work # <<>> /\ b \in DOMAIN L.of /\ sub # l ->
               Discover(m, tree, WithSub, h, Front(work) \o Inside(L.loop[sub].header))
          [] OTHER -> Discover(m, tree, L, h, Front(work))

NewLoop(h, latches) == [header |-> h, pre |-> 0, parent |-> 0, blocks |-> {h}, latches |-> latches,
                        exits |-> <<>>, subs |-> <<>>]
Detect(m, tree, L, h) ==
    LET latches == {p \in ToSet(m.pre[h]) : IsDominate(tree, h, p)}
    IN  IF latches = {} THEN L
        ELSE Discover(m, tree, [loop |-> Append(L.loop, NewLoop(h, latches)), of |-> (h :> Len(L.loop) + 1) @@ L.of],
                      h, Ascending(latches))

\* LoopDetection::run()
DetectLoops(m, tree) ==
    InTurn(LAMBDA L, b : Detect(m, tree, L, b), [loop |-> <<>>, of |-> <<>>], Reverse(tree.order))

\* getFuncInfo<LoopDetection>()
WithLoops(c, f) == [c EXCEPT !.loops = (f :> DetectLoops(c.m, c.dom[f])) @@ @]
GetLoops(c, f) == IF f \in DOMAIN c.loops THEN c ELSE WithLoops(GetDominators(c, f), f)

-----------------------------------------------------------------------------
\* add_block_casecade(): b belongs to l and the loops around it.
AddToLoops(L, S, b) ==
    [L EXCEPT !.loop = [l \in DOMAIN @ |-> IF l \in S THEN [@[l] EXCEPT !.blocks = @ \cup {b}] ELSE @[l]]]
AddBlockCasecade(L, b, l) ==
    IF l = 0 THEN L ELSE [AddToLoops(L, Ancestors(L, l), b) EXCEPT !.of = (b :> l) @@ @]

\* The blocks from a latch up the dominator tree to the header, with the loops
\* directly below l whose headers are met (other blocks are not looked for).
RECURSIVE Chain(_, _, _)
Chain(idom, b, h) == IF b = h THEN <<b>> ELSE <<b>> \o Chain(idom, idom[b], h)
SubsOn(L, l, chain) ==
    LET met == SelectSeq(Front(chain), LAMBDA b : LET s == L.of[b]
                                                  IN  L.loop[s].header = b /\ L.loop[s].parent = l)
    IN  [k \in DOMAIN met |-> L.of[met[k]]]
BlocksOn(L, l, chain) == ToSet(chain) \cup UNION {L.loop[s].blocks : s \in ToSet(SubsOn(L, l, chain))}
\* costOfLatch(), but for a summand all latches have.
CostOfLatch(L, idom, l, b) == Cardinality(BlocksOn(L, l, Chain(idom, b, L.loop[l].header)))

\* collectInnerLoopMessage(): the latch becomes that of a new loop inside l.
CollectInner(L, idom, l, latch, pre) ==
    LET h == L.loop[l].header
        new == Len(L.loop) + 1
        chain == Chain(idom, latch, h)
        subs == SubsOn(L, l, chain)
        blocks == BlocksOn(L, l, chain)
        inner == [NewLoop(h, {latch}) EXCEPT !.pre = pre, !.parent = l, !.blocks = blocks, !.subs = subs]
        outer == [L.loop[l] EXCEPT !.subs = Append(SelectSeq(@, LAMBDA s : s \notin ToSet(subs)), new),
                                   !.blocks = @ \cup {pre}, !.header = pre, !.latches = @ \ {latch}]
        loops == [k \in DOMAIN L.loop |-> IF k = l THEN outer
                                          ELSE IF k \in ToSet(subs) THEN [L.loop[k] EXCEPT !.parent = new]
                                          ELSE L.loop[k]]
    IN  [loop |-> Append(loops, inner),
         of |-> (pre :> l) @@ [b \in DOMAIN L.of |-> IF b \in blocks /\ L.of[b] = l THEN new ELSE L.of[b]]]

\* A block between the predecessors of `self` outside `keep` and `self`.
SplitBefore(m, f, self, keep) == AddBlockBefore(NewBlockTo(m, f, self), self, m.next, keep)

\* The rest works on a compilation c whose loops[f] and dom[f] are changed.
\* createPreHeaderAndLatchOnLoop(): one latch after the other, the cheapest
\* first, until one is left.
PreHeaderFor(c, f, l, latch) ==
    LET L0 == c.loops[f]
        h == L0.loop[l].header
        pre == c.m.next
        idom == c.dom[f].idom
        L == AddToLoops(L0, Ancestors(L0, L0.loop[l].parent), pre)
        last == Cardinality(L0.loop[l].latches) = 1
    IN  [c EXCEPT !.m = SplitBefore(@, f, h, {latch}),
                  !.dom[f].idom = (pre :> idom[h]) @@ [@ EXCEPT ![h] = pre],
                  !.loops[f] = IF last
                               THEN AddBlockCasecade([L EXCEPT !.loop[l].pre = pre], pre, L.loop[l].parent)
                               ELSE CollectInner(L, idom, l, latch, pre)]
CreatePreHeader(c, f, l) ==
    LET L == c.loops[f]
        cost(b) == CostOfLatch(L, c.dom[f].idom, l, b)
    IN  InTurn(LAMBDA x, b : PreHeaderFor(x, f, l, b), c, SortedBy(L.loop[l].latches, cost))

\* createExitOnLoop(): an exit block with a predecessor outside gets a block of
\* the loop's own before it.
RECURSIVE AddExitCasecade(_, _, _, _, _)
AddExitCasecade(L, l, from, to, preTo) ==
    IF l = 0 THEN L
    ELSE IF preTo \in L.loop[l].blocks THEN AddBlockCasecade(L, to, l)
    ELSE AddExitCasecade([L EXCEPT !.loop[l].exits = @ @@ (from :> to)], L.loop[l].parent, from, to, preTo)
ExitOf(c, f, l, b) ==
    LET L == c.loops[f]
        inside == L.loop[l].blocks
        out == SelectSeq(c.m.suc[b], LAMBDA s : s \notin inside)
        to == out[1]
        pres == ToSet(c.m.pre[to]) \cap inside
        outer == ToSet(c.m.pre[to]) \ inside
    IN  CASE out = <<>> -> c
          [] out # <<>> /\ outer = {} ->
               [c EXCEPT !.loops[f].loop[l].exits = @ @@ [p \in pres |-> to]]
          [] OTHER ->
               [c EXCEPT !.m = SplitBefore(@, f, to, outer),
                         !.loops[f] = InTurn(LAMBDA K, p : AddExitCasecade(K, l, p, c.m.next, to),
                                             @, Ascending(pres))]
CreateExit(c, f, l) == InTurn(LAMBDA x, b : ExitOf(x, f, l, b), c, Ascending(c.loops[f].loop[l].blocks))

\* createLatchOnLoop()
CreateLatch(c, f, l) ==
    LET loop == c.loops[f].loop[l]
        latch == Min(loop.latches)
        next == c.m.next
    IN  IF Len(c.m.suc[latch]) = 1 THEN c
        ELSE [c EXCEPT !.m = SplitBefore(@, f, loop.header, {loop.pre}),
                       !.loops[f] = [AddBlockCasecade(@, next, l)
                                       EXCEPT !.loop[l].latches = (@ \ {latch}) \cup {next}]]

\* LoopSimplify::run()
OnAllLoops(c, f, Do(_, _, _)) ==
    InTurn(LAMBDA x, l : Do(x, f, l), c, InnerFirst(c.loops[f]))
\* Mutation: the dominators, changed by hand, are kept.
SimplifyLoopsOnly(c, f) ==
    IF c.loops[f].loop = <<>> THEN c
    ELSE OnAllLoops(OnAllLoops(OnAllLoops(c, f, CreatePreHeader), f, CreateExit), f, CreateLatch)

SimplifyLoops(c, f) ==
    IF c.loops[f].loop = <<>> THEN c
    ELSE FlushDominators(OnAllLoops(OnAllLoops(OnAllLoops(c, f, CreatePreHeader), f, CreateExit), f, CreateLatch), f)
LoopSimplifyOn(c, f) == SimplifyLoops(GetLoops(c, f), f)
LoopSimplify(c) == ForFunctions(c, LoopSimplifyOn)
=============================================================================
