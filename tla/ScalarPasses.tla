---------------------------- MODULE ScalarPasses ----------------------------
(***************************************************************************)
(* SCCP, sparse conditional constant propagation;                          *)
(* GlobalCodeMotion, which postpones every instruction it may move to the  *)
(* closest block that dominates its uses; GVN, which computes an           *)
(* expression once per block; PhiEliminate: a phi whose operands are all   *)
(* one value, itself aside, is that value; Arithmetic: instructions on     *)
(* integers become cheaper ones.                                           *)
(***************************************************************************)
EXTENDS Loops, StrengthReduction

\* is_pinned()
IsPinned(m, info, i) ==
    LET callee == m.ins[i].a[1][2]
    IN  \/ Op(m, i) \in {"alloca", "br", "ret", "phi", "store", "copy", "clear"}
        \/ Op(m, i) = "call" /\ (UseOrIsImpureLib(info, callee) \/ ~StoresNothing(info, callee))

\* collectLoadStores(): the variables i stores to, and those it loads from;
\* where ptrFrom() gives nullptr, nothing is collected.
BaseOf(m, o) == {PtrFrom(m, o)} \ {Null}
ByCallee(m, use, i) ==
    LET callee == m.ins[i].a[1][2]
        formal == m.fn[callee].args
        pointers == {k \in DOMAIN formal : <<"a", formal[k].id>> \in use[callee]}
    IN  IF IsLib(callee) THEN {}
        ELSE {v \in use[callee] : v[1] = "g"} \cup UNION {BaseOf(m, m.ins[i].a[k + 1]) : k \in pointers}
StoredTo(m, info, i) ==
    CASE Op(m, i) \in {"store", "copy"} -> BaseOf(m, m.ins[i].a[2])
      [] Op(m, i) = "clear" -> BaseOf(m, m.ins[i].a[1])
      [] Op(m, i) = "call"  -> ByCallee(m, info.stores, i)
      [] OTHER -> {}
LoadedFrom(m, info, i) ==
    CASE Op(m, i) = "load" -> BaseOf(m, m.ins[i].a[1])
      [] Op(m, i) = "call" -> ByCallee(m, info.loads, i)
      [] OTHER -> {}

\* lcaOfUse(): the blocks that must come after the place of i.  A phi uses its
\* operand at the end of the block it comes from; a load stays before the
\* stores its own block dominates.
UseBlocks(m, i) ==
    LET users == Users(m, <<"i", i>>)
        phis == {u \in users : Op(m, u) = "phi"}
    IN  {BlockOf(m, u) : u \in users \ phis}
          \cup {p[2] : p \in {q \in UNION {PhiPairs(m.ins[u].a) : u \in phis} : q[1] = <<"i", i>>}}
\* Mutation: a load may be postponed past any store.
StoreBlocksNone(m, info, tree, f, i) == {}

StoreBlocks(m, info, tree, f, i) ==
    {b \in {BlockOf(m, s) : s \in {j \in Insts(m, f) : StoredTo(m, info, j) \cap LoadedFrom(m, info, i) # {}}} :
       IsDominate(tree, BlockOf(m, i), b)}

\* Out of the loops the block of i is not in: 0 when the outermost loop around b
\* is left and i is in a loop, where the code asks nullptr for its header.
LoopOf(L, b) == IF b \in DOMAIN L.of THEN L.of[b] ELSE 0
RECURSIVE OutOfLoops(_, _, _, _)
OutOfLoops(L, idom, b, l) ==
    IF LoopOf(L, b) = l THEN b
    ELSE IF LoopOf(L, b) = 0 THEN 0
    ELSE OutOfLoops(L, idom, idom[L.loop[LoopOf(L, b)].header], l)
\* Mutation: the place found is in no loop, and is taken out of loops all the same.
LcaOfUseAnywhere(m, info, tree, L, f, i) ==
    LET b == CommonAncestor(tree, UseBlocks(m, i) \cup StoreBlocks(m, info, tree, f, i))
    IN  OutOfLoops(L, tree.idom, b, LoopOf(L, BlockOf(m, i)))

LcaOfUse(m, info, tree, L, f, i) ==
    LET b == CommonAncestor(tree, UseBlocks(m, i) \cup StoreBlocks(m, info, tree, f, i))
    IN  IF LoopOf(L, b) = 0 THEN b ELSE OutOfLoops(L, tree.idom, b, LoopOf(L, BlockOf(m, i)))

\* postpone(): to the front of the block, behind its phis.
MoveTo(m, i, b) ==
    LET cut == [m EXCEPT !.blk[BlockOf(m, i)] = Without(@, i)]
    IN  [cut EXCEPT !.blk[b] = InsertAt(@, PhiEnd(m, b), i)]

\* runInner(): an instruction that was moved has its operands looked at again.
RECURSIVE Postpone(_, _, _)
Postpone(c, f, work) ==
    LET i == Head(work)
        b == LcaOfUse(c.m, c.info, c.dom[f], c.loops[f], f, i)
        again == {o[2] : o \in {p \in ToSet(c.m.ins[i].a) : p[1] = "i" /\ ~IsPinned(c.m, c.info, p[2])}}
    IN  CASE work = <<>> \/ ~c.runs -> c
          [] work # <<>> /\ c.runs /\ b = 0 -> [c EXCEPT !.runs = FALSE]
          [] work # <<>> /\ c.runs /\ b = BlockOf(c.m, i) -> Postpone(c, f, Tail(work))
          [] OTHER -> Postpone([c EXCEPT !.m = MoveTo(@, i, b)], f,
                               Tail(work) \o Ascending(again \ ToSet(Tail(work))))

\* GlobalCodeMotion::run()
GCMIn(c, f) ==
    LET all == FlattenSeq([k \in DOMAIN c.m.fn[f].order |-> c.m.blk[c.m.fn[f].order[k]]])
    IN  Postpone(c, f, SelectSeq(all, LAMBDA i : ~IsPinned(c.m, c.info, i)))
GCMOn(c, f) ==
    IF Len(c.m.fn[f].order) <= 1 THEN c ELSE GCMIn(GetDominators(GetLoops(c, f), f), f)
GCM(c) == ForFunctions(GetFuncInfo(c), GCMOn)

-----------------------------------------------------------------------------
\* ValueHash: what makes two instructions the same expression (<<>>: nothing);
\* comparisons are left alone (disableCondGVN).
ValueHash(I) ==
    CASE I.op \in Commutative \cup {"and"} -> <<I.op, {I.a[1], I.a[2]}>>
      [] I.op \in {"sub", "sdiv", "srem", "shl", "ashr", "gep", "zext"} -> <<I.op, I.a>>
      [] OTHER -> <<>>
\* visit_inst(): x.first maps a hash to the instruction that computes it.
VisitForGVN(x, i) ==
    LET h == ValueHash(x.m.ins[i])
    IN  CASE h = <<>> -> x
          [] h # <<>> /\ h \notin DOMAIN x.first -> [x EXCEPT !.first = (h :> i) @@ @]
          [] OTHER -> [x EXCEPT !.m = ReplaceUses(@, <<"i", i>>, <<"i", x.first[h]>>), !.gone = @ \cup {i}]
GVNBlock(m, b) ==
    LET x == InTurn(VisitForGVN, [m |-> m, first |-> <<>>, gone |-> {}], m.blk[b])
    IN  Erase(x.m, x.gone)
\* GVN::run()
GVNIn(c, f) == [c EXCEPT !.m = InTurn(GVNBlock, @, c.dom[f].order)]
GVNOn(c, f) == GVNIn(GetDominators(c, f), f)
GVN(c) == ForFunctions(c, GVNOn)

-----------------------------------------------------------------------------
(* PhiEliminate: the phis that used a phi that has gone are looked at again. *)

\* all_same_operand_exclude_self()
OperandsBut(m, i) == {p[1] : p \in PhiPairs(m.ins[i].a)} \ {<<"i", i>>}

RECURSIVE EliminateFrom(_, _)
EliminateFrom(m, queue) ==
    IF queue = <<>> THEN m
    ELSE LET i == Head(queue)
             as == OperandsBut(m, i)
             users == {j \in Users(m, <<"i", i>>) : Op(m, j) = "phi" /\ j \notin ToSet(queue)}
         IN  IF Cardinality(as) # 1 THEN EliminateFrom(m, Tail(queue))
             ELSE EliminateFrom(Erase(ReplaceUses(m, <<"i", i>>, CHOOSE o \in as : TRUE), {i}),
                                Tail(queue) \o Ascending(users))

PhiEliminateOn(c, f) ==
    [c EXCEPT !.m = EliminateFrom(@, FlattenSeq([k \in 1..(Len(@.fn[f].order) - 1) |->
                                                   Phis(@, @.fn[f].order[k + 1])]))]
PhiEliminate(c) == ForFunctions(c, PhiEliminateOn)

-----------------------------------------------------------------------------
(* Arithmetic. *)

OnlyComparedWithZero(m, i) ==
    \E u \in Users(m, <<"i", i>>) :
       /\ Cardinality(Uses(m, <<"i", i>>)) = 1
       /\ Op(m, u) \in {"eq", "ne"}
       /\ C(0) \in ToSet(m.ins[u].a)
SimplifiedIn(m, i) == Simplified(Op(m, i), m.ins[i].a, OnlyComparedWithZero(m, i))

\* The instruction i, whatever simplify() made of it; who used it is looked at
\* again if it is gone.
Apply(m, i, s) ==
    LET b == BlockOf(m, i)
        k == 1 + CHOOSE n \in DOMAIN m.blk[b] : m.blk[b][n] = i
        shifted == Insert(ReplaceUses(m, <<"i", i>>, NewId(m)), b, k, "shl", <<<<"i", i>>, C(s.n)>>, "i")
    IN  CASE s.kind = "nothing" -> m
          [] s.kind = "value" -> Erase(ReplaceUses(m, <<"i", i>>, s.o), {i})
          [] s.kind = "inst" -> [m EXCEPT !.ins[i].op = s.op, !.ins[i].a = s.a]
          [] s.kind = "shift" -> [shifted EXCEPT !.ins[i].op = "sub", !.ins[i].a = <<C(0), s.x>>]

\* run(Function*): worklist_ and inlist_ are one queue without duplicates.
RECURSIVE SimplifyAll(_, _)
SimplifyAll(m, work) ==
    IF work = <<>> THEN m
    ELSE LET i == Head(work)
             s == SimplifiedIn(m, i)
             again == IF s.kind = "value" THEN Users(m, <<"i", i>>) \ ToSet(work) ELSE {}
         IN  SimplifyAll(Apply(m, i, s), Tail(work) \o Ascending(again))
ArithmeticOn(c, f) ==
    LET all == FlattenSeq([k \in DOMAIN c.m.fn[f].order |-> c.m.blk[c.m.fn[f].order[k]]])
    IN  [c EXCEPT !.m = SimplifyAll(@, all)]
Arithmetic(c) == ForFunctions(c, ArithmeticOn)
-----------------------------------------------------------------------------
(***************************************************************************)
(* SCCP.  Values and edges of the flow graph are visited in turn: a block  *)
(* is visited once for every edge found executable, an instruction again   *)
(* whenever one of its operands learns something.  Then constants replace  *)
(* the instructions found constant, and branches on a constant lose an     *)
(* edge.                                                                   *)
(***************************************************************************)
\* SignalSpread::decideConds() with signs of constants only (useSignalInfer is
\* off): the sign of an operand is a set of -1, 0, 1.
Signs(o) == IF o[1] # "c" THEN {-1, 0, 1} ELSE {IF o[2] > 0 THEN 1 ELSE IF o[2] = 0 THEN 0 ELSE -1}
GreaterOrEqual(s, t) == -1 \notin s /\ 1 \notin t
GreaterThan(s, t) == GreaterOrEqual(s, t) /\ 0 \notin s \cap t
Decided(I) ==
    LET s == Signs(I.a[1])
        t == Signs(I.a[2])
        Set(x, y) == [I EXCEPT !.a = <<<<"c", x>>, <<"c", y>>>>]
    IN  CASE I.op \in {"gt", "le"} /\ GreaterThan(s, t) -> Set(1, 0)
          [] I.op \in {"gt", "le"} /\ ~GreaterThan(s, t) /\ GreaterOrEqual(t, s) -> Set(0, 1)
          [] I.op \in {"lt", "ge"} /\ GreaterOrEqual(s, t) -> Set(1, 0)
          [] I.op \in {"lt", "ge"} /\ ~GreaterOrEqual(s, t) /\ GreaterThan(t, s) -> Set(0, 1)
          [] I.op \in {"eq", "ne"} /\ s = {0} /\ t = {0} -> Set(0, 0)
          [] I.op \in {"eq", "ne"} /\ s \cap t = {} -> Set(0, 1)
          [] OTHER -> I
DecideConds(m) == [m EXCEPT !.ins = [i \in DOMAIN @ |->
                      IF @[i].op \in Comparison THEN Decided(@[i]) ELSE @[i]]]

-----------------------------------------------------------------------------
\* ValStatus: not a constant, unknown, a constant, not evaluated yet; the lower
\* one wins, two different constants are not a constant.
NAC == [rank |-> 0, c |-> 0]
Undef == [rank |-> 1, c |-> 0]
Const(x) == [rank |-> 2, c |-> x]
Start == [rank |-> 3, c |-> 0]
Meet(x, y) ==
    CASE y.rank < x.rank -> y
      [] y.rank = x.rank /\ x.rank = 2 /\ x.c # y.c -> NAC
      [] OTHER -> x
\* ValueMap::get()
Status(x, o) ==
    CASE o[1] = "c" -> Const(o[2])
      [] o[1] = "i" -> x.val[o[2]]
      [] o[1] = "g" -> NAC
      [] OTHER -> Undef

Foldable == Arithmetical \cup Comparison \cup {"mull", "shl", "ashr", "and", "zext"}
FoldedOperands(I) == IF I.op = "phi" THEN [k \in 1..(Len(I.a) \div 2) |-> I.a[2 * k - 1]] ELSE I.a
Fold(x, I) ==
    LET S == [k \in DOMAIN I.a |-> Status(x, I.a[k])]
    IN  IF \A k \in DOMAIN S : S[k].rank = 2
        THEN Const(IF I.op = "zext" THEN S[1].c ELSE Compute(I.op, S[1].c, S[2].c))
        ELSE InTurn(Meet, Start, S)

\* SCCPVisitor::visit()
Visited(x, b, i) ==
    LET I == x.m.ins[i]
        cond == Status(x, I.a[1])
        to(k) == <<b, I.a[k][2]>>
    IN  CASE I.op = "br" /\ Len(I.a) = 1 -> [x EXCEPT !.flow = Append(@, to(1))]
          [] I.op = "br" /\ Len(I.a) = 3 /\ cond.rank = 2 ->
               [x EXCEPT !.flow = Append(@, IF cond.c # 0 THEN to(2) ELSE to(3))]
          [] I.op = "br" /\ Len(I.a) = 3 /\ cond.rank # 2 -> [x EXCEPT !.flow = @ \o <<to(2), to(3)>>]
          [] OTHER -> x
NewStatus(x, i) ==
    LET I == x.m.ins[i]
        S == [k \in DOMAIN FoldedOperands(I) |-> Status(x, FoldedOperands(I)[k])]
    IN  CASE I.op = "br" -> x.val[i]
          [] I.op = "phi" -> InTurn(Meet, Start, S)
          [] I.op \in Foldable -> Fold(x, I)
          [] OTHER -> NAC
VisitInst(x, b, i) ==
    LET new == NewStatus(x, i)
        y == Visited(x, b, i)
    IN  IF new = x.val[i] THEN y
        ELSE [y EXCEPT !.val[i] = new, !.work = @ \o Ascending(Users(x.m, <<"i", i>>))]

\* run(Function*): edges before values.  Undefined operands make a value
\* undefined, and a block may be reached with 0 as its predecessor.
RECURSIVE Solve(_)
Solve(x) ==
    CASE x.flow # <<>> ->
           LET e == Head(x.flow)
               y == [x EXCEPT !.flow = Tail(@), !.edges = @ \cup {e}]
           IN  Solve(IF e \in x.edges THEN y
                     ELSE InTurn(LAMBDA z, i : VisitInst(z, e[2], i), y, x.m.blk[e[2]]))
      [] x.flow = <<>> /\ x.work # <<>> ->
           LET i == Head(x.work)
               b == BlockOf(x.m, i)
               y == [x EXCEPT !.work = Tail(@)]
           IN  Solve(IF \E p \in ToSet(x.m.pre[b]) : <<p, b>> \in x.edges THEN VisitInst(y, b, i) ELSE y)
      [] OTHER -> x

\* convert_cond_br(): the branch keeps the edge to `to`.
ConvertCondBr(c, b, to, invalid) ==
    LET t == Terminator(c.m, b)
        m == [c.m EXCEPT !.ins[t].a = <<<<"b", to>>>>]
        cut == [m EXCEPT !.suc[b] = Without(@, invalid), !.pre[invalid] = Without(@, b),
                         !.ins = [i \in DOMAIN @ |-> IF i \in ToSet(Phis(m, invalid))
                                                     THEN [@[i] EXCEPT !.a = DropPairs(@, {b})]
                                                     ELSE @[i]]]
    IN  IF to = invalid THEN [c EXCEPT !.m = m] ELSE FlushFunc([c EXCEPT !.m = cut], FunctionOf(c.m, b))

\* replace_with_constant()
SCCPOn(c, f) ==
    LET m == c.m
        x == Solve([m |-> m, flow |-> <<<<0, Entry(m, f)>>>>, work |-> <<>>, edges |-> {},
                    val |-> [i \in Insts(m, f) |-> IF Op(m, i) = "call" THEN NAC ELSE Undef]])
        consts == {i \in Insts(m, f) : x.val[i].rank = 2}
        Replace(y, i) == ReplaceUses(y, <<"i", i>>, <<"c", x.val[i].c>>)
        replaced == Erase(InTurn(Replace, m, Ascending(consts)), consts)
        Branch(d, b) ==
            LET I == d.m.ins[Terminator(d.m, b)]
            IN  IF I.op = "br" /\ Len(I.a) = 3 /\ I.a[1][1] = "c"
                THEN IF I.a[1][2] # 0 THEN ConvertCondBr(d, b, I.a[2][2], I.a[3][2])
                     ELSE ConvertCondBr(d, b, I.a[3][2], I.a[2][2])
                ELSE d
    IN  InTurn(Branch, [c EXCEPT !.m = replaced], c.m.fn[f].order)

SCCP(c) == ForFunctions([c EXCEPT !.m = DecideConds(@)], SCCPOn)
=============================================================================
