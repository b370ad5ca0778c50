------------------------------- MODULE Inline -------------------------------
(***************************************************************************)
(* Inline: simplifies the flow graph of every function - a block joins its *)
(* only successor when that has no other predecessor, blocks that only     *)
(* return or only branch are copied into their predecessors - and then     *)
(* puts functions that became one short block in the place of their calls. *)
(*                                                                         *)
(* Blocks are on one of three stacks (waitlist_, done_, return_); their    *)
(* order is followed, and sets of blocks are gone through by position.     *)
(***************************************************************************)
EXTENDS Passes

InlineGate == 8

ByPosition(m, f, S) == SelectSeq(m.fn[f].order, LAMBDA b : b \in S)
Preds(m, f, b) == ByPosition(m, f, ToSet(m.pre[b]))
IsOnly(m, b, op) == Len(m.blk[b]) = 1 /\ Op(m, Terminator(m, b)) = op

\* merge(): the phis of `next` have one pair.
Merge(m, f, b, next) ==
    LET phis == Phis(m, next)
        m1 == InTurn(LAMBDA x, i : ReplaceUses(x, <<"i", i>>, x.ins[i].a[1]), m, phis)
        m2 == ReplaceUses(Erase(m1, ToSet(phis) \cup {Terminator(m, b)}), <<"b", next>>, <<"b", b>>)
        m3 == [m2 EXCEPT !.blk[b] = @ \o m2.blk[next], !.blk[next] = <<>>]
    IN  RemoveBlock(InTurn(LAMBDA x, s : AddEdge(RemoveEdge(x, next, s), b, s),
                           RemoveEdge(m3, b, next), ByPosition(m, f, ToSet(m.suc[next]))),
                    f, next)

\* mergeBlocks()
RECURSIVE MergeBlocks(_, _, _, _)
MergeBlocks(m, f, wait, done) ==
    IF wait = <<>> THEN [m |-> m, wait |-> done]
    ELSE LET b == Last(wait)
             next == m.suc[b][1]
         IN  IF Len(m.suc[b]) = 1 /\ Len(m.pre[next]) = 1
             THEN MergeBlocks(Merge(m, f, b, next), f, Append(Without(Front(wait), next), b),
                              Without(done, next))
             ELSE MergeBlocks(m, f, Front(wait), Append(done, b))

-----------------------------------------------------------------------------
\* replaceGoTo()
ReplaceGoTo(m, f, from, to) ==
    InTurn(LAMBDA x, p : AddEdge(RemoveEdge(x, p, from), p, to),
           ReplaceUses(m, <<"b", from>>, <<"b", to>>), Preds(m, f, from))

\* selectReturnNodes(): of blocks that only return the same value, one is left.
SelectReturn(f, x, b) ==
    LET val == x.m.ins[Terminator(x.m, b)].a
    IN  IF ~IsOnly(x.m, b, "ret") THEN [x EXCEPT !.done = Append(@, b)]
        ELSE IF val \in DOMAIN x.of
             THEN [x EXCEPT !.m = RemoveBlock(ReplaceGoTo(@, f, b, x.of[val]), f, b)]
             ELSE [x EXCEPT !.of = (val :> b) @@ @, !.rets = Append(@, b)]

\* A predecessor without another successor returns itself, and takes the place
\* of the return block if that is all it does.
ReturnInto(f, x, p) ==
    LET r == x.ret
        m == RemoveEdge([x.m EXCEPT !.ins[Terminator(x.m, p)] = x.m.ins[Terminator(x.m, r)]], p, r)
    IN  IF x.again \/ Len(x.m.suc[p]) # 1 THEN x
        ELSE IF Len(m.blk[p]) = 1
             THEN [m |-> RemoveBlock(ReplaceGoTo(m, f, r, p), f, r), ret |-> p, again |-> TRUE]
             ELSE [x EXCEPT !.m = m]

RECURSIVE MergeReturnsFrom(_, _, _, _)
ReturnMerged(x, f, r, rets, done) ==
    CASE x.again -> MergeReturnsFrom(x.m, f, Append(rets, x.ret), Without(done, x.ret))
      [] ~x.again /\ x.m.pre[r] = <<>> /\ r # Entry(x.m, f) ->
           MergeReturnsFrom(RemoveBlock(x.m, f, r), f, rets, done)
      [] OTHER -> MergeReturnsFrom(x.m, f, rets, Append(done, r))
MergeReturn(m, f, r) ==
    InTurn(LAMBDA y, p : ReturnInto(f, y, p), [m |-> m, ret |-> r, again |-> FALSE], Preds(m, f, r))
MergeReturnsFrom(m, f, rets, done) ==
    IF rets = <<>> THEN [m |-> m, wait |-> done]
    ELSE ReturnMerged(MergeReturn(m, f, Last(rets)), f, Last(rets), Front(rets), done)

\* mergeReturns()
SelectReturns(m, f, wait) ==
    InTurn(LAMBDA y, b : SelectReturn(f, y, b),
           [m |-> m, of |-> <<>>, rets |-> <<>>, done |-> <<>>], Reverse(wait))
MergeSelected(f, x) == MergeReturnsFrom(x.m, f, x.rets, x.done)
MergeReturns(m, f, wait) == MergeSelected(f, SelectReturns(m, f, wait))

-----------------------------------------------------------------------------
\* simplifyBranchs()
SimplifyBranch(m, b) ==
    LET t == Terminator(m, b)
    IN  IF Len(m.ins[t].a) = 3 /\ Len(m.suc[b]) = 1 THEN [m EXCEPT !.ins[t].a = <<@[2]>>] ELSE m

HasPair(m, i, b) == \E p \in PhiPairs(m.ins[i].a) : p[2] = b
\* The phis of `next` take from p what they take from b.
PhisFollow(m, b, next, p) ==
    InTurn(LAMBDA x, i : IF HasPair(x, i, b)
                         THEN [x EXCEPT !.ins[i].a = @ \o <<PhiVal(x, i, b), <<"b", p>>>>] ELSE x,
           m, Phis(m, next))

\* A block b that only branches conditionally: its predecessors do it.
CopyBranch(f, m, b, p) ==
    LET m1 == RemoveEdge([m EXCEPT !.ins[Terminator(m, p)].a = m.ins[Terminator(m, b)].a], p, b)
    IN  IF Len(m.suc[p]) > 1 THEN m
        ELSE InTurn(LAMBDA x, s : PhisFollow(AddEdge(x, p, s), b, s, p), m1,
                    ByPosition(m, f, ToSet(m.suc[b])))

\* A block b that only goes to `next`: its predecessors go there.  One that goes
\* there already branches no more, if the phis of `next` do not mind.
SkipBranch(m, b, next, p) ==
    LET t == Terminator(m, p)
        agree == \A i \in ToSet(Phis(m, next)) :
                    HasPair(m, i, p) /\ HasPair(m, i, b) => PhiVal(m, i, p) = PhiVal(m, i, b)
        lack(x, i) == HasPair(x, i, b) /\ ~HasPair(x, i, p)
    IN  CASE Len(m.suc[p]) = 1 \/ next \notin ToSet(m.suc[p]) ->
               PhisFollow(AddEdge(RemoveEdge(ReplaceIn(m, {t}, <<"b", b>>, <<"b", next>>), p, b),
                                  p, next), b, next, p)
          [] Len(m.suc[p]) > 1 /\ next \in ToSet(m.suc[p]) /\ agree ->
               InTurn(LAMBDA x, i : IF lack(x, i)
                                    THEN [x EXCEPT !.ins[i].a = @ \o <<PhiVal(x, i, b), <<"b", p>>>>]
                                    ELSE x,
                      RemoveEdge([m EXCEPT !.ins[t].a = <<<<"b", next>>>>], p, b), Phis(m, next))
          [] OTHER -> m

RemoveUnreachable(m, f, b) == IF m.pre[b] = <<>> THEN RemoveBlock(m, f, b) ELSE m
MergeBranch(f, m, b) ==
    RemoveUnreachable(
        InTurn(LAMBDA x, p : IF Len(m.suc[b]) > 1 THEN CopyBranch(f, x, b, p)
                             ELSE SkipBranch(x, b, m.suc[b][1], p), m, Preds(m, f, b)), f, b)

\* mergeBranchs(): the blocks are chosen before any is merged.
BranchesOnly(m, wait) == SelectSeq(wait, LAMBDA b : IsOnly(m, b, "br") /\ m.pre[b] # <<>>)
MergeBranches(f, r) ==
    InTurn(LAMBDA x, b : MergeBranch(f, x, b), InTurn(SimplifyBranch, r.m, r.m.fn[f].order),
           BranchesOnly(r.m, r.wait))

-----------------------------------------------------------------------------
\* mergeFunc(): the call i of a function of one block becomes a copy of it.
InlineCall(m, f, i) ==
    LET b == BlockOf(m, i)
        args == m.fn[f].args
        body == m.blk[Entry(m, f)]
        val == [o \in {<<"a", arg.id>> : arg \in ToSet(args)} |->
                  m.ins[i].a[1 + CHOOSE k \in DOMAIN args : args[k].id = o[2]]]
        x == InTurn(LAMBDA y, j : CopyInst(y, j, b),
                    [m |-> m, at |-> 1 + CHOOSE k \in DOMAIN m.blk[b] : m.blk[b][k] = i, val |-> val],
                    Front(body))
        ret == m.ins[Last(body)].a
        result == IF ret[1] \in DOMAIN x.val THEN x.val[ret[1]] ELSE ret[1]
    IN  Erase(IF ret = <<>> THEN x.m ELSE ReplaceUses(x.m, <<"i", i>>, result), {i})

Inlinable(m, f) ==
    /\ f # 1 /\ Len(m.fn[f].order) = 1
    /\ Len(m.blk[Entry(m, f)]) <= InlineGate
    /\ \A i \in Insts(m, f) : Op(m, i) # "alloca"

\* runOnFunc()
ReturnsThenBranches(f, r) == MergeBranches(f, MergeReturns(r.m, f, r.wait))
Simplify(m, f) == ReturnsThenBranches(f, MergeBlocks(m, f, m.fn[f].order, <<>>))

\* The callers of a function that has been copied into them come up again.
InlineCalls(m, f) ==
    RemoveFunctions(InTurn(LAMBDA x, i : InlineCall(x, f, i), m, Ascending(CallsOf(m, f))), {f})
WorkWith(m, f, work) == work \o Ascending(Callers(m, f) \ (ToSet(work) \cup {f}))

RECURSIVE InlineFrom(_, _)
InlineSimplified(m, f, work) ==
    IF Inlinable(m, f) THEN InlineFrom(InlineCalls(m, f), WorkWith(m, f, work)) ELSE InlineFrom(m, work)
InlineFrom(m, work) ==
    IF work = <<>> THEN m
    ELSE IF Head(work) \notin Functions(m) THEN InlineFrom(m, Tail(work))
    ELSE InlineSimplified(Simplify(m, Head(work)), Head(work), Tail(work))

\* Inline::run()
Inline(c) == FlushAllInfo([c EXCEPT !.m = InlineFrom(@, FunctionList(@))])
=============================================================================
