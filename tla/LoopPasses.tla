------------------------------ MODULE LoopPasses ------------------------------
(***************************************************************************)
(* The passes that trust what LoopSimplify left of LoopDetection:          *)
(* LoopInvariantCodeMotion moves what does not change in a loop to its     *)
(* preheader; LCSSA makes every use after a loop go through a phi at its   *)
(* exit; LoopRotate puts a copy of a loop's head before the loop.          *)
(***************************************************************************)
EXTENDS Loops

LoopInsts(m, loop) == FlattenSeq([k \in 1..Cardinality(loop.blocks) |-> m.blk[Ascending(loop.blocks)[k]]])

-----------------------------------------------------------------------------
(* LICM.  x: what was found variant, what invariant, the invariants in order *)
(* and what is left to decide.                                              *)

\* dirtyValues: what the loop's stores and the program's functions it calls
\* change (the library's functions are not looked at).
StoredBy(m, info, i) ==
    LET I == m.ins[i]
        callee == I.a[1][2]
        pointers == {k \in DOMAIN m.fn[callee].args : <<"a", m.fn[callee].args[k].id>> \in info.stores[callee]}
    IN  CASE I.op \in {"store", "copy"} -> {PtrFrom(m, I.a[2])}
          [] I.op = "clear" -> {PtrFrom(m, I.a[1])}
          [] I.op = "call" /\ ~IsLib(callee) ->
               {v \in info.stores[callee] : v[1] = "g"} \cup {PtrFrom(m, I.a[k + 1]) : k \in pointers}
          [] OTHER -> {}
LoadedBy(m, info, i) ==
    LET callee == m.ins[i].a[1][2]
        pointers == {k \in DOMAIN m.fn[callee].args : <<"a", m.fn[callee].args[k].id>> \in info.loads[callee]}
    IN  {v \in info.loads[callee] : v[1] = "g"} \cup {PtrFrom(m, m.ins[i].a[k + 1]) : k \in pointers}

\* run_on_loop(): one instruction; "wait" when its operands are not decided.
OperandsSay(m, x, i) ==
    LET inside == {o[2] : o \in {p \in ToSet(m.ins[i].a) : p[1] = "i"}} \cap (x.inside \ x.invariant)
    IN  IF inside = {} THEN "invariant" ELSE IF inside \cap x.variant # {} THEN "variant" ELSE "wait"
LoadSays(m, x, i) ==
    LET p == m.ins[i].a[1]
        dirty == PtrFrom(m, p) \in x.dirty
    IN  CASE dirty -> "variant"
          [] ~dirty /\ p[1] = "i" /\ p[2] \in x.variant -> "variant"
          [] ~dirty /\ p[1] = "i" /\ p[2] \notin x.variant \cup x.invariant -> "wait"
          [] OTHER -> "invariant"
CallSays(m, info, x, i) ==
    LET callee == m.ins[i].a[1][2]
    IN  IF UseOrIsImpureLib(info, callee) \/ ~StoresNothing(info, callee)
             \/ LoadedBy(m, info, i) \cap x.dirty # {}
        THEN "variant" ELSE OperandsSay(m, x, i)
Verdict(m, info, x, i) ==
    CASE Op(m, i) \in Comparison \cup {"store", "ret", "br", "phi", "copy", "clear"} -> "variant"
      [] Op(m, i) = "load" -> LoadSays(m, x, i)
      [] Op(m, i) = "call" -> CallSays(m, info, x, i)
      [] OTHER -> OperandsSay(m, x, i)
Decide(m, info, x, i) ==
    CASE Verdict(m, info, x, i) = "variant" -> [x EXCEPT !.variant = @ \cup {i}]
      [] Verdict(m, info, x, i) = "invariant" ->
           [x EXCEPT !.invariant = @ \cup {i}, !.list = Append(@, i)]
      [] OTHER -> [x EXCEPT !.left = Append(@, i)]
RECURSIVE FindInvariants(_, _, _)
FindInvariants(m, info, x) ==
    LET y == InTurn(LAMBDA z, i : Decide(m, info, z, i), [x EXCEPT !.left = <<>>], x.left)
    IN  IF y.list = x.list THEN y.list ELSE FindInvariants(m, info, y)

Invariants(m, info, loop) ==
    LET insts == LoopInsts(m, loop)
    IN  FindInvariants(m, info, [inside |-> ToSet(insts), variant |-> {}, invariant |-> {}, list |-> <<>>,
                                 left |-> insts, dirty |-> UNION {StoredBy(m, info, i) : i \in ToSet(insts)}])
Hoist(m, insts, to) ==
    [m EXCEPT !.blk = [b \in DOMAIN @ |->
        IF b = to THEN Front(@[b]) \o insts \o <<Last(@[b])>>
        ELSE SelectSeq(@[b], LAMBDA i : i \notin ToSet(insts))]]

\* Inner loops first.  LoopSimplify has given every loop a preheader.
HoistAll(c, L) ==
    LET Do(m, l) == Hoist(m, Invariants(m, c.info, L.loop[l]), L.loop[l].pre)
    IN  [c EXCEPT !.m = InTurn(Do, @, InnerFirst(L))]
LICMIn(c, f) == HoistAll(c, c.loops[f])
LICMOn(c, f) == LICMIn(GetLoops(c, f), f)
LICM(c) == ForFunctions(GetFuncInfo(c), LICMOn)

-----------------------------------------------------------------------------
(* LCSSA.  x: the program, exits (exitBlocks_) and at, what stands for the   *)
(* definition d in a block (bphiMap_).                                      *)

AddPhi(x, b, t, value(_)) ==
    LET a == FlattenSeq([k \in DOMAIN x.m.pre[b] |-> <<value(x.m.pre[b][k]), <<"b", x.m.pre[b][k]>>>>])
    IN  [x EXCEPT !.m = Insert(@, b, 1, "phi", a, t), !.at = (b :> NewId(x.m)) @@ @]

\* placePhiAt()
RECURSIVE PlacePhiAt(_, _, _, _, _)
PlacePhiAt(x, loop, idom, d, b) ==
    LET t == x.m.ins[d].t
        up == PlacePhiAt(x, loop, idom, d, idom[b])
        all == InTurn(LAMBDA y, p : PlacePhiAt(y, loop, idom, d, p), x, x.m.pre[b])
    IN  CASE b \in DOMAIN x.at -> x
          [] b \notin DOMAIN x.at /\ b \in x.exits -> AddPhi(x, b, t, LAMBDA p : <<"i", d>>)
          [] b \notin DOMAIN x.at \cup x.exits /\ idom[b] \notin loop.blocks ->
               [up EXCEPT !.at = (b :> up.at[idom[b]]) @@ @]
          [] OTHER -> AddPhi(all, b, t, LAMBDA p : all.at[p])

\* replaceDefFor(): phiOnlyForLoopAtExit() compares the blocks of a phi with d,
\* so no phi is ever known to be one of these.
ReplacePair(x, loop, idom, d, u, k) ==
    LET b == x.m.ins[u].a[2 * k][2]
        y == PlacePhiAt(x, loop, idom, d, b)
    IN  IF x.m.ins[u].a[2 * k - 1] = <<"i", d>> THEN [y EXCEPT !.m.ins[u].a[2 * k - 1] = y.at[b]] ELSE x
ReplaceDefFor(x, loop, idom, d, u) ==
    LET b == BlockOf(x.m, u)
        y == PlacePhiAt(x, loop, idom, d, b)
    IN  CASE b \in loop.blocks -> x
          [] b \notin loop.blocks /\ Op(x.m, u) = "phi" /\ b \notin x.exits ->
               InTurn(LAMBDA z, k : ReplacePair(z, loop, idom, d, u, k), x,
                      [k \in 1..(Len(x.m.ins[u].a) \div 2) |-> k])
          [] OTHER -> [y EXCEPT !.m = ReplaceIn(@, {u}, <<"i", d>>, y.at[b])]
LCSSAFor(x, loop, idom, d) ==
    InTurn(LAMBDA y, u : ReplaceDefFor(y, loop, idom, d, u), [x EXCEPT !.at = <<>>],
           Ascending(Users(x.m, <<"i", d>>)))
\* runOnLoop(); the exits of the loops before an outermost one are not forgotten.
LCSSALoop(x, loop, idom) ==
    LET exits == {loop.exits[b] : b \in DOMAIN loop.exits}
        defs == SelectSeq(LoopInsts(x.m, loop), LAMBDA i : x.m.ins[i].t # "v")
    IN  InTurn(LAMBDA y, d : LCSSAFor(y, loop, idom, d),
               [x EXCEPT !.exits = IF loop.parent = 0 THEN @ \cup exits ELSE exits], defs)
LCSSAIn(c, f) ==
    LET Do(x, l) == LCSSALoop(x, c.loops[f].loop[l], c.dom[f].idom)
    IN  [c EXCEPT !.m = InTurn(Do, [m |-> @, exits |-> {}, at |-> <<>>], InnerFirst(c.loops[f])).m]
LCSSAOn(c, f) == LCSSAIn(GetDominators(GetLoops(c, f), f), f)
LCSSA(c) == ForFunctions(c, LCSSAOn)

-----------------------------------------------------------------------------
(* LoopRotate: a loop whose preheader holds enough invariants and which    *)
(* its head may leave gets a copy of its head as a guard before the        *)
(* preheader; what the head does moves to the latch.                       *)

InvariantNeed2RotateLoop == 4

Common(m, b) == SelectSeq(m.blk[b], LAMBDA i : Op(m, i) \notin {"phi", "alloca"})
MapOf(map, o) == IF o \in DOMAIN map THEN map[o] ELSE o
ValueInLoop(m, loop, o) == o[1] = "i" /\ BlockOf(m, o[2]) \in loop.blocks

\* Loop::getIterator(): none, out (the test does not change in the loop), phi
\* (the tested phi takes two values from outside), plain; and the tested phi.
IsBinary == {"add", "sub", "mul", "mull", "sdiv", "shl", "ashr", "and"}
Iterator(m, loop) ==
    LET none == [kind |-> "none", phi |-> 0]
        test == m.ins[m.ins[Terminator(m, loop.header)].a[1][2]]
        inside == SelectSeq(<<test.a[1], test.a[2]>>, LAMBDA o : ValueInLoop(m, loop, o))
        phi == inside[1][2]
        inner == (CHOOSE p \in PhiPairs(m.ins[phi].a) : p[2] # loop.pre)[1]
        step == m.ins[inner[2]]
    IN  CASE loop.header \notin DOMAIN loop.exits -> none
          [] loop.header \in DOMAIN loop.exits /\ inside = <<>> -> [kind |-> "out", phi |-> 0]
          [] loop.header \in DOMAIN loop.exits /\ Len(inside) = 1 /\ Op(m, phi) = "phi" ->
               IF ~ValueInLoop(m, loop, inner) THEN [kind |-> "phi", phi |-> phi]
               ELSE IF /\ step.op \in IsBinary /\ <<"i", phi>> \in ToSet(step.a)
                       /\ \A o \in ToSet(step.a) \ {<<"i", phi>>} : ~ValueInLoop(m, loop, o)
                    THEN [kind |-> "plain", phi |-> phi] ELSE none
          [] OTHER -> none

\* BasicBlock::reset_suc_basic_block()
ResetSuc(m, b, cond, l, r) ==
    LET cut == InTurn(LAMBDA x, s : RemoveEdge(x, b, s), m, SelectSeq(m.suc[b], LAMBDA s : s \notin {l, r}))
    IN  [AddEdge(AddEdge(cut, b, l), b, r) EXCEPT !.ins[Terminator(m, b)].a =
            IF l = r THEN <<<<"b", l>>>> ELSE <<cond, <<"b", l>>, <<"b", r>>>>]

\* remove_succ_block_and_update_br() of a block with two successors.
CutSuc(m, b, to) ==
    [RemoveEdge(m, b, to) EXCEPT !.ins[Terminator(m, b)].a =
        SelectSeq(@, LAMBDA o : o[1] = "b" /\ o[2] # to)]

\* splicePreheader(): an empty preheader between the old one and the head.
SplicePreheader(c, f, l) ==
    LET loop == c.loops[f].loop[l]
        new == c.m.next
        m == Redirect(NewBlockTo(c.m, f, loop.header), loop.pre, loop.header, new)
    IN  [c EXCEPT !.m = ReplaceIn(m, ToSet(Phis(m, loop.header)), <<"b", loop.pre>>, <<"b", new>>),
                  !.loops[f] = [AddBlockCasecade(@, new, loop.parent) EXCEPT !.loop[l].pre = new]]

\* copyInst2(): what the head does when entered from `enter`, at the end of `to`.
CopyHead(m, head, enter, to) ==
    LET val == [o \in {<<"i", i>> : i \in ToSet(Phis(m, head))} |-> PhiVal(m, o[2], enter)]
    IN  InTurn(LAMBDA x, i : CopyInst(x, i, to), [m |-> m, at |-> Len(m.blk[to]), val |-> val],
               Front(Common(m, head)))

\* moveHeadInst2Latch(), first part: a value of the head that other blocks use
\* becomes a phi of the head, one for every use of which the first is used; then
\* it is computed at the end of the latch, from what the phis are to hold next.
PhiInHead(m, loop, latch, val, i) ==
    LET rest == UNION {ToSet(m.blk[b]) : b \in loop.blocks \ {loop.header}}
        uses == {u \in Uses(m, <<"i", i>>) : u[1] \in rest}
        pairs == <<MapOf(val, <<"i", i>>), <<"b", loop.pre>>, <<"i", i>>, <<"b", latch>>>>
        Phi(x, k) == Insert(x, loop.header, PhiEnd(x, loop.header), "phi", pairs, m.ins[i].t)
    IN  ReplaceIn(InTurn(Phi, m, [k \in 1..Cardinality(uses) |-> k]), rest, <<"i", i>>, NewId(m))
NextOf(m, loop, latch) ==
    [o \in {<<"i", i>> : i \in ToSet(Phis(m, loop.header))} |-> PhiVal(m, o[2], latch)]
SinkBody(m, loop, latch, body, next) ==
    [m EXCEPT !.ins = [i \in DOMAIN @ |-> IF i \in ToSet(body)
                                          THEN [@[i] EXCEPT !.a = [k \in DOMAIN @ |-> MapOf(next, @[k])]]
                                          ELSE @[i]],
              !.blk[loop.header] = SelectSeq(@, LAMBDA i : i \notin ToSet(body)),
              !.blk[latch] = Front(@) \o body \o <<Last(@)>>]
SinkHead(m0, loop, latch, val) ==
    LET body == Front(Common(m0, loop.header))
        m == InTurn(LAMBDA x, i : PhiInHead(x, loop, latch, val, i), m0, body)
    IN  SinkBody(m, loop, latch, body, NextOf(m0, loop, latch))

\* remove_exit_casecade()
RECURSIVE RemoveExitCasecade(_, _, _)
RemoveExitCasecade(L, l, b) ==
    IF l = 0 THEN L
    ELSE IF b \notin DOMAIN L.loop[l].exits THEN L
    ELSE RemoveExitCasecade([L EXCEPT !.loop[l].exits = [x \in DOMAIN @ \ {b} |-> @[x]]], L.loop[l].parent, b)

\* moveHeadInst2Latch(): the head stops testing, the latch tests (before the
\* move NextOf() reads the phis as they are).
TestInLatch(m, loop, latch, br) ==
    IF br[2][2] \in loop.blocks THEN ResetSuc(m, latch, br[1], loop.header, br[3][2])
    ELSE ResetSuc(m, latch, br[1], br[2][2], loop.header)
\* The phis of the exit take from the latch what they took from the head.
TakeFromLatch(m, head, latch, next, ext) ==
    LET Moved(a) == FlattenSeq([k \in 1..(Len(a) \div 2) |->
                      IF a[2 * k] = <<"b", head>> THEN <<MapOf(next, a[2 * k - 1]), <<"b", latch>>>>
                      ELSE <<a[2 * k - 1], a[2 * k]>>])
    IN  [m EXCEPT !.ins = [i \in DOMAIN @ |-> IF i \in ToSet(Phis(m, ext))
                                              THEN [@[i] EXCEPT !.a = Moved(@)] ELSE @[i]]]
TestMoves(m, loop, latch, next) ==
    LET br == m.ins[Terminator(m, loop.header)].a
        ext == loop.exits[loop.header]
    IN  IF Len(br) # 3 THEN m
        ELSE TakeFromLatch(CutSuc(TestInLatch(m, loop, latch, br), loop.header, ext), loop.header, latch, next, ext)
ExitMoves(L, l, head, latch, ext) ==
    AddExitCasecade(RemoveExitCasecade(L, l, head), l, latch, ext, ext)
MoveHeadInst2Latch(c, f, l, val) ==
    LET loop == c.loops[f].loop[l]
        head == loop.header
        latch == Min(loop.latches)
    IN  [c EXCEPT !.m = TestMoves(SinkHead(@, loop, latch, val), loop, latch, NextOf(@, loop, latch)),
                  !.loops[f] = IF Len(c.m.ins[Terminator(c.m, head)].a) # 3 THEN @
                               ELSE ExitMoves(@, l, head, latch, loop.exits[head])]

\* What toWhileTrue(), erasePhi() and forceRotate() begin with: the old preheader
\* becomes the guard, and the phis of the exit learn of it.
GuardTests(x, guard, loop, br) ==
    Redirect(ResetSuc(x.m, guard, MapOf(x.val, br[1]), br[2][2], br[3][2]),
             guard, IF br[2][2] = loop.exits[loop.header] THEN br[3][2] ELSE br[2][2], loop.pre)
TellExit(m, val, loop, guard) ==
    LET Told(x, i) == [x EXCEPT !.ins[i].a = @ \o <<MapOf(val, PhiVal(x, i, loop.header)), <<"b", guard>>>>]
    IN  InTurn(Told, m, Phis(m, loop.exits[loop.header]))
GuardFrom(c, x, guard, loop) ==
    [c |-> [c EXCEPT !.m = TellExit(GuardTests(x, guard, loop, c.m.ins[Terminator(c.m, loop.header)].a),
                                    x.val, loop, guard)],
     val |-> x.val]
GuardOf(c, guard, loop) == GuardFrom(c, CopyHead(c.m, loop.header, loop.pre, guard), guard, loop)
Spliced(c, f, l, guard) == GuardOf(c, guard, c.loops[f].loop[l])
Guard(c, f, l) == Spliced(SplicePreheader(c, f, l), f, l, c.loops[f].loop[l].pre)

\* toWhileTrue(): the head tests no more at all.
NoTest(m, head, ext) ==
    LET Forget(x, i) == [x EXCEPT !.ins[i].a = DropPairs(@, {head})]
    IN  InTurn(Forget, CutSuc(m, head, ext), Phis(m, ext))
WhileTrue(c, f, l) ==
    LET loop == c.loops[f].loop[l]
    IN  [c EXCEPT !.m = NoTest(@, loop.header, loop.exits[loop.header]),
                  !.loops[f] = RemoveExitCasecade(@, l, loop.header)]
\* erasePhi(): the test looks at what the phi holds in all later turns.
TestLater(c, f, l, phi) ==
    LET loop == c.loops[f].loop[l]
        cmp == c.m.ins[Terminator(c.m, loop.header)].a[1][2]
    IN  [c EXCEPT !.m = ReplaceIn(@, {cmp}, <<"i", phi>>, PhiVal(@, phi, Min(loop.latches)))]
\* toWhileTrue(), erasePhi() and forceRotate(), after the guard was made.
RotateGuarded(g, f, l, it) ==
    MoveHeadInst2Latch(CASE it.kind = "out" -> WhileTrue(g.c, f, l)
                         [] it.kind = "phi" -> TestLater(g.c, f, l, it.phi)
                         [] OTHER -> g.c,
                       f, l, g.val)

\* runOnLoop(); a plain iterator is left alone (rotate() is not called).
RotateLoop(x, f, l) ==
    LET loop == x.c.loops[f].loop[l]
        it == Iterator(x.c.m, loop)
        Changed(c) == [c |-> c, ret |-> TRUE]
    IN  CASE loop.pre = 0 -> x
          [] loop.pre # 0 /\ Len(Common(x.c.m, loop.pre)) < 1 + InvariantNeed2RotateLoop -> x
          [] it.kind = "none" /\ loop.header \notin DOMAIN loop.exits -> x
          [] it.kind = "plain" -> Changed(x.c)
          [] OTHER -> Changed(RotateGuarded(Guard(x.c, f, l), f, l, it))

\* LoopRotate::run(): every function's dominators are flushed, not the loops.
FlushIfChanged(x) == IF x.ret THEN [x.c EXCEPT !.dom = <<>>] ELSE x.c
RotateAll(c, f) ==
    InTurn(LAMBDA x, l : RotateLoop(x, f, l), [c |-> c, ret |-> FALSE], InnerFirst(c.loops[f]))
LoopRotateOn(c, f) == FlushIfChanged(RotateAll(GetDominators(GetLoops(c, f), f), f))
LoopRotate(c) == ForFunctions(c, LoopRotateOn)
===============================================================================
