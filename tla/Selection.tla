----------------------------- MODULE Selection -----------------------------
(***************************************************************************)
(* What prepares the representation for the translation to machine code:   *)
(* CriticalEdgeRemove, CmpCombine, which puts every comparison before the  *)
(* branch that asks for it, and InstructionSelect, which merges pairs of   *)
(* instructions the target does in one.                                    *)
(***************************************************************************)
EXTENDS Passes

\* Mutation: a block with two successors is taken for one with a single one.
CutEdgeOfMany(m, f, b, p) ==
    LET new == m.next
        m1 == Redirect(NewBlockTo(m, f, b), p, b, new)
    IN  IF Len(m.suc[p]) <= 2 THEN m ELSE ReplaceIn(m1, ToSet(Phis(m1, b)), <<"b", p>>, <<"b", new>>)

\* Mutation: the phis still name the old predecessor.
CutEdgeBesidePhis(m, f, b, p) ==
    IF Len(m.suc[p]) <= 1 THEN m ELSE Redirect(NewBlockTo(m, f, b), p, b, m.next)

\* CriticalEdgeRemove::run(): an edge from a block with several successors to
\* one with phis gets a block of its own.
CutEdge(m, f, b, p) ==
    LET new == m.next
        m1 == Redirect(NewBlockTo(m, f, b), p, b, new)
    IN  IF Len(m.suc[p]) <= 1 THEN m ELSE ReplaceIn(m1, ToSet(Phis(m1, b)), <<"b", p>>, <<"b", new>>)
CutEdgesOf(m, f, b, i) ==
    InTurn(LAMBDA x, k : CutEdge(x, f, b, m.ins[i].a[2 * k][2]), m,
           [k \in 1..(Len(m.ins[i].a) \div 2) |-> k])
CriticalEdgeRemoveOn(c, f) ==
    LET Cut(m, b) == InTurn(LAMBDA x, i : CutEdgesOf(x, f, b, i), m, Phis(m, b))
    IN  [c EXCEPT !.m = InTurn(Cut, @, Tail(@.fn[f].order))]
CriticalEdgeRemove(c) == ForFunctions(c, CriticalEdgeRemoveOn)

-----------------------------------------------------------------------------
\* Before the terminator of b.
BeforeBranch(m, b, op, a, t) == Insert(m, b, Len(m.blk[b]), op, a, t)
MoveBeforeBranch(m, b, i) ==
    [m EXCEPT !.blk[b] = LET rest == Without(@, i) IN Front(rest) \o <<i, Last(rest)>>]
\* The branches of other blocks on the comparison i compare its value, which
\* `kept` holds, again.
CompareAgain(m, kept, S) ==
    InTurn(LAMBDA x, u : LET y == BeforeBranch(x, BlockOf(x, u), "eq", <<<<"i", kept>>, <<"c", 1>>>>, "b")
                         IN  [y EXCEPT !.ins[u].a[1] = NewId(x)],
           m, Ascending(S))

\* CmpCombine::run(): one comparison; the use it has in the branch of its block
\* and the number of its uses are those before any was treated.
Combine(m, i, once, inBB) ==
    LET b == BlockOf(m, i)
        moved == MoveBeforeBranch(m, b, i)
        k == 1 + CHOOSE n \in DOMAIN m.blk[b] : m.blk[b][n] = i
        users == Users(m, <<"i", i>>)
    IN  CASE once /\ inBB -> moved
          [] ~once /\ inBB ->
               CompareAgain(BeforeBranch(moved, b, "zext", <<<<"i", i>>>>, "i"), m.next,
                            {u \in users : BlockOf(m, u) # b})
          [] OTHER -> CompareAgain(Insert(m, b, k, "zext", <<<<"i", i>>>>, "i"), m.next, users)
CmpCombineOn(c, f) ==
    LET cmps == {i \in Insts(c.m, f) : Op(c.m, i) \in Comparison}
        Do(m, i) == Combine(m, i, Cardinality(Uses(c.m, <<"i", i>>)) <= 1,
                            Terminator(c.m, BlockOf(c.m, i)) \in Users(c.m, <<"i", i>>))
    IN  [c EXCEPT !.m = InTurn(Do, @, Ascending(cmps))]
CmpCombine(c) == ForFunctions(c, CmpCombineOn)

-----------------------------------------------------------------------------
\* onlyMergeMulAndASWhenASUseAllReg: a constant other than 0 is not merged.
Mergeable(o) == ~(o[1] = "c" /\ o[2] # 0)
\* x * y is only used by u as its operand k: u becomes z - x * y or z + x * y.
MergeMul(m, i, u, k) ==
    LET other == m.ins[u].a[3 - k]
        op == IF Op(m, u) = "sub" THEN "msub" ELSE "madd"
    IN  IF Op(m, u) = "add" \/ (Op(m, u) = "sub" /\ k = 2)
        THEN IF Mergeable(other)
             THEN Erase([m EXCEPT !.ins[u].op = op, !.ins[u].a = Append(m.ins[i].a, other)], {i})
             ELSE m
        ELSE m

\* An address made from an address: ASSERT that the first index is 0, which is
\* dropped; the new address is where the inner one was.
MergeGep(c, b, i, u) ==
    LET m == c.m
        a == m.ins[i].a \o SubSeq(m.ins[u].a, 3, Len(m.ins[u].a))
    IN  IF m.ins[u].a[2] = <<"c", 0>>
        THEN [c EXCEPT !.m = [Erase(ReplaceUses(m, <<"i", u>>, <<"i", i>>), {u}) EXCEPT !.ins[i].a = a]]
        ELSE [c EXCEPT !.runs = FALSE]

\* InstructionSelect::runInner(): mergeFloatBinaryInst is off.
SelectFor(c, b, i) ==
    LET m == c.m
        use == CHOOSE u \in Uses(m, <<"i", i>>) : TRUE
    IN  CASE ~c.runs \/ i \notin DOMAIN m.ins -> c
          [] c.runs /\ i \in DOMAIN m.ins /\ Cardinality(Uses(m, <<"i", i>>)) # 1 -> c
          [] c.runs /\ i \in DOMAIN m.ins /\ use[1] \notin ToSet(m.blk[b]) -> c
          [] Op(m, i) = "gep" /\ Op(m, use[1]) = "gep" -> MergeGep(c, b, i, use[1])
          [] Op(m, i) = "mul" -> [c EXCEPT !.m = MergeMul(m, i, use[1], use[2])]
          [] OTHER -> c
SelectBlock(c, b) == InTurn(LAMBDA x, i : SelectFor(x, b, i), c, c.m.blk[b])
InstructionSelectOn(c, f) == InTurn(SelectBlock, c, c.m.fn[f].order)
InstructionSelect(c) == ForFunctions(c, InstructionSelectOn)
=============================================================================
