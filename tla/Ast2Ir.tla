------------------------------- MODULE Ast2Ir -------------------------------
(***************************************************************************)
(* AST2IRVisitor: from the AST to the intermediate representation.  Every  *)
(* variable gets a place in memory (an alloca in the entry block), a truth *)
(* value becomes a branch to one of two targets, and a condition that is   *)
(* needed as an integer is gathered by a phi.                              *)
(*                                                                         *)
(* The visitor's state s: m the program so far, f the function, cur the    *)
(* insert block, t and e the stacks of true and false targets, nexts and   *)
(* conds the stacks of the loops' ends and conditions, scopes the stack of *)
(* names (name -> operand and kind: int, array or ptr).                    *)
(***************************************************************************)
EXTENDS IRCode

A == INSTANCE Antlr2Ast

\* IRBuilder: an instruction at the end of the insert block, an alloca behind
\* the allocas of the entry block.
Create(s, op, a, t) == [s EXCEPT !.m = Insert(@, s.cur, Len(@.blk[s.cur]) + 1, op, a, t)]
CreateAlloca(s, size, t) ==
    LET en == Entry(s.m, s.f)
    IN  [s EXCEPT !.m = Insert(@, en, PhiEnd(@, en), "alloca", <<<<"c", size>>>>, t)]
CreateStore(s, v, p) == Create(s, "store", <<v, p>>, "v")
Terminated(s) ==
    s.m.blk[s.cur] # <<>> /\ Op(s.m, Last(s.m.blk[s.cur])) \in {"br", "ret"}
SetInsertPoint(s, b) == [s EXCEPT !.cur = b]

\* BasicBlock::create(): a block at the end of the function; its identity is
\* the m.next of before.
CreateBlock(s) ==
    [s EXCEPT !.m.blk = (s.m.next :> <<>>) @@ @, !.m.pre = (s.m.next :> <<>>) @@ @,
              !.m.suc = (s.m.next :> <<>>) @@ @, !.m.next = @ + 1,
              !.m.fn[s.f].order = Append(@, s.m.next)]

\* BranchInst: links the blocks; equal targets make it unconditional.
LinkTo(m, from, to) == [m EXCEPT !.suc[from] = Append(@, to), !.pre[to] = Append(@, from)]
CreateBr(s, to) ==
    LET n == Create(s, "br", <<<<"b", to>>>>, "v")
    IN  [n EXCEPT !.m = LinkTo(@, s.cur, to)]
CreateCondBr(s, c, t, e) ==
    IF t = e THEN CreateBr(s, t)
    ELSE LET n == Create(s, "br", <<c, <<"b", t>>, <<"b", e>>>>, "v")
         IN  [n EXCEPT !.m = LinkTo(LinkTo(@, s.cur, t), s.cur, e)]

\* v visited with the given targets on top of the stacks.
Aim(s, t, e) == [s EXCEPT !.t = Append(@, t), !.e = Append(@, e)]
Unaim(s) == [s EXCEPT !.t = Front(@), !.e = Front(@)]

Val(s, v) == [s |-> s, v |-> v]
\* The state after creating an instruction, with its value.
New(s, op, a, t) == Val(Create(s, op, a, t), NewId(s.m))
None == <<"c", 0>>

RECURSIVE Visit(_, _), VisitAll(_, _)

\* visit(ASTLVal*) of an element: the address.  What a parameter points to is
\* loaded from its variable first.
Pointer(d, s) == IF d.kind = "ptr" THEN New(s, "load", <<d.o>>, "p") ELSE Val(s, d.o)
ElementOf(d, base, i) ==
    New(i.s, "gep", IF d.kind = "ptr" THEN <<base, i.v>> ELSE <<base, <<"c", 0>>, i.v>>, "p")
ElementAt(d, base, i) == ElementOf(d, base.v, Visit(i, base.s))
Element(e, d, s) == ElementAt(d, Pointer(d, s), e.i)

\* visit(ASTLVal*) and visit(ASTRVal*)
VisitLVal(e, s) ==
    IF e.k = "var" THEN Val(s, A!Find(s.scopes, e.x).o) ELSE Element(e, A!Find(s.scopes, e.x), s)
Load(p) == New(p.s, "load", <<p.v>>, "i")
WholeArray(d, s) ==
    IF d.kind = "ptr" THEN Pointer(d, s) ELSE New(s, "gep", <<d.o, <<"c", 0>>, <<"c", 0>>>>, "p")
VisitRVal(e, s) ==
    IF e.k = "array" THEN WholeArray(A!Find(s.scopes, e.x), s) ELSE Load(VisitLVal(e, s))

\* A comparison, or another instruction, of the values x.v; a branch on x.v.
Calculate(x, op, t) == New(x.s, op, x.v, t)
Branch(x) == Val(CreateCondBr(x.s, x.v, Last(x.s.t), Last(x.s.e)), None)
\* Mutation: the targets of the condition are exchanged.
ConditionTurned(e, s, t, f) == Unaim(Visit(e, Aim(s, f, t)).s)

\* e visited as a condition with the targets t and f.
Condition(e, s, t, f) == Unaim(Visit(e, Aim(s, t, f)).s)

\* visit(ASTCast*): from an integer to a truth value and back.
ToBool(x) == Branch(New(x.s, "ne", <<x.v, <<"c", 0>>>>, "b"))
Zeros(labels) == FlattenSeq([k \in DOMAIN labels |-> <<<<"c", 0>>, <<"b", labels[k]>>>>])
Gathered(s, bbt, bbf, labels) ==
    New(SetInsertPoint(CreateBr(SetInsertPoint(s, bbt), bbf), bbf), "phi",
        Zeros(labels) \o <<<<"c", 1>>, <<"b", bbt>>>>, "i")
\* Mutation: the predecessors are collected after the block of the true value
\* has been linked.
GatherInLate(s, bbt) == Gathered(s, bbt, bbt + 1, Append(s.m.pre[bbt + 1], bbt))

GatherIn(s, bbt) == Gathered(s, bbt, bbt + 1, s.m.pre[bbt + 1])
ToInt(e, s) ==
    GatherIn(Condition(e, CreateBlock(CreateBlock(s)), s.m.next, s.m.next + 1), s.m.next)

\* visit(ASTLogicExp*): every element but the last goes on to the check of the
\* next one.
Check(x, op, s, rhs) ==
    SetInsertPoint(Condition(x, CreateBlock(s), IF op = "or" THEN Last(s.t) ELSE rhs,
                             IF op = "or" THEN rhs ELSE Last(s.e)), rhs)
VisitLogic(e, s) ==
    Visit(Last(e.es), InTurn(LAMBDA n, x : Check(x, e.op, n, n.m.next), s, Front(e.es)))

VisitNext(r, x) == Val(x.s, Append(r.v, x.v))
VisitExps(es, s) == InTurn(LAMBDA r, e : VisitNext(r, Visit(e, r.s)), Val(s, <<>>), es)

CallOf(e, r) == New(r.s, "call", <<<<"f", e.f>>>> \o r.v, IF e.f = -1 THEN "v" ELSE "i")
Minus(x) == New(x.s, "sub", <<<<"c", 0>>, x.v>>, "i")

Visit(e, s) ==
    CASE e.k = "num" -> Val(s, <<"c", e.n>>)
      [] e.k = "bool" -> Val(CreateBr(s, IF e.n = 1 THEN Last(s.t) ELSE Last(s.e)), None)
      [] e.k \in {"var", "elem", "array"} -> VisitRVal(e, s)
      [] e.k = "cast" -> IF e.to = "bool" THEN ToBool(Visit(e.e, s)) ELSE ToInt(e.e, s)
      [] e.k = "neg" -> Minus(Visit(e.e, s))
      [] e.k = "not" -> Val(Condition(e.e, s, Last(s.e), Last(s.t)), None)
      [] e.k = "math" -> Calculate(VisitExps(<<e.l, e.r>>, s), e.op, "i")
      [] e.k \in {"eq", "rel"} -> Branch(Calculate(VisitExps(<<e.l, e.r>>, s), e.op, "b"))
      [] e.k = "logic" -> VisitLogic(e, s)
      [] e.k = "call" -> CallOf(e, VisitExps(e.as, s))

-----------------------------------------------------------------------------
Push(s, x, o, kind) == [s EXCEPT !.scopes[Len(s.scopes)] = (x :> [o |-> o, kind |-> kind]) @@ @]

\* visit(ASTVarDecl*): the name is known before the initialiser is visited.
StoreTo(x, p) == CreateStore(x.s, x.v, p)
VisitScalar(c, s) ==
    StoreTo(Visit(c.e, Push(CreateAlloca(s, 1, "i"), c.x, NewId(s.m), "int")), NewId(s.m))

\* An array is initialised in segments of four elements: one that is all zero is
\* cleared, one that is all expressions is left alone, any other is copied from a
\* constant global.  Neighbours of a type are one segment.  Then the expressions
\* are stored, then the elements behind the last whole segment.
Segments(c) ==
    LET value(k) == IF k <= Len(c.es) THEN c.es[k] ELSE A!Num(0)
        four(j) == {value(4 * j + k) : k \in 1..4}
        type(j) == IF \A x \in four(j) : x = A!Num(0) THEN "clear"
                   ELSE IF \A x \in four(j) : ~A!IsNumber(x) THEN "exp" ELSE "copy"
        Step(r, j) == IF r # <<>> /\ Last(r).type = type(j)
                      THEN [r EXCEPT ![Len(r)].len = @ + 4]
                      ELSE Append(r, [type |-> type(j), from |-> 4 * j, len |-> 4])
    IN  InTurn(Step, <<>>, [j \in 1..(c.size \div 4) |-> j - 1])

Initial(c, k) == IF k < Len(c.es) THEN c.es[k + 1] ELSE A!Num(0)
Konst(e) == IF A!IsNumber(e) THEN e.n ELSE 0
ConstGlobal(s, c, g, at) ==
    [s EXCEPT !.m.glob = [a \in at..(at + g.len - 1) |-> Konst(Initial(c, g.from + a - at))] @@ @]
FillFrom(c, g, d, at) ==
    IF g.type = "clear" THEN Create(d.s, "clear", <<d.v, <<"c", g.len>>>>, "v")
    ELSE Create(ConstGlobal(d.s, c, g, at), "copy", <<<<"g", at>>, d.v, <<"c", g.len>>>>, "v")
AddressAt(s, p, k) == New(s, "gep", <<p, <<"c", 0>>, <<"c", k>>>>, "p")
Fill(c, p, s, g) ==
    IF g.type = "exp" THEN s
    ELSE FillFrom(c, g, AddressAt(s, p, g.from), Cardinality(DOMAIN s.m.glob))
StoreElement(c, p, s, k) ==
    IF k < 4 * (c.size \div 4) /\ A!IsNumber(Initial(c, k)) THEN s
    ELSE StoreTo(Visit(Initial(c, k), AddressAt(s, p, k).s), NewId(s.m))
VisitArray(c, s) ==
    InTurn(LAMBDA t, k : StoreElement(c, NewId(s.m), t, k - 1),
           InTurn(LAMBDA t, g : Fill(c, NewId(s.m), t, g),
                  Push(CreateAlloca(s, c.size, "a"), c.x, NewId(s.m), "array"),
                  Segments(c)),
           [k \in 1..c.size |-> k])

\* The statements b in the block bb, which goes on to `end`.
Leave(s, end) == IF Terminated(s) THEN s ELSE CreateBr(s, end)
Arm(b, s, bb, end) == Leave(VisitAll(b, SetInsertPoint(s, bb)), end)
CreateBlocks(s, n) == IF n = 2 THEN CreateBlock(CreateBlock(s))
                      ELSE CreateBlock(CreateBlock(CreateBlock(s)))
\* The block behind an if is deleted when nothing goes there.
EndIf(s, bb) ==
    IF s.m.pre[bb] = <<>> THEN [s EXCEPT !.m = RemoveBlock(@, s.f, bb)] ELSE SetInsertPoint(s, bb)
Else(c, s, bbf) ==
    IF c.f = <<>> THEN SetInsertPoint(s, bbf) ELSE EndIf(Arm(c.f, s, bbf, bbf + 1), bbf + 1)
VisitIf(c, s) ==
    LET bbt == s.m.next
    IN  Else(c, Arm(c.t, Condition(c.c, CreateBlocks(s, IF c.f = <<>> THEN 2 ELSE 3), bbt, bbt + 1),
                    bbt, IF c.f = <<>> THEN bbt + 1 ELSE bbt + 2), bbt + 1)

\* With an empty body the condition is its own loop.
LoopBody(b, s, cond) ==
    Arm(b, [s EXCEPT !.nexts = Append(@, cond + 1), !.conds = Append(@, cond)], cond + 2, cond)
OutOfLoop(s, s0) == [s EXCEPT !.nexts = s0.nexts, !.conds = s0.conds, !.cur = s0.m.next + 1]
EnterLoop(c, s, cond) ==
    Condition(c.c, SetInsertPoint(CreateBr(CreateBlocks(s, IF c.b = <<>> THEN 2 ELSE 3), cond), cond),
              IF c.b = <<>> THEN cond ELSE cond + 2, cond + 1)
BodyOfLoop(c, s, cond) == IF c.b = <<>> THEN s ELSE LoopBody(c.b, s, cond)
VisitWhile(c, s) == OutOfLoop(BodyOfLoop(c, EnterLoop(c, s, s.m.next), s.m.next), s)

\* An expression statement; a truth value goes to the same block either way.
VisitStatementExp(e, s) ==
    IF A!IsBool(e) THEN SetInsertPoint(Condition(e, CreateBlock(s), s.m.next, s.m.next), s.m.next)
    ELSE Visit(e, s).s

Assign(e, p) == StoreTo(Visit(e, p.s), p.v)
Return(x) == Create(x.s, "ret", <<x.v>>, "v")
VisitOne(c, s) ==
    CASE c.k = "decl" -> VisitScalar(c, s)
      [] c.k = "array" -> VisitArray(c, s)
      [] c.k = "assign" -> Assign(c.e, VisitLVal(c.l, s))
      [] c.k = "if" -> VisitIf(c, s)
      [] c.k = "while" -> VisitWhile(c, s)
      [] c.k = "break" -> CreateBr(s, Last(s.nexts))
      [] c.k = "continue" -> CreateBr(s, Last(s.conds))
      [] c.k = "return" -> Return(Visit(c.e, s))
      [] c.k = "exp" -> VisitStatementExp(c.e, s)
      [] c.k = "block" -> [VisitAll(c.b, [s EXCEPT !.scopes = Append(@, <<>>)])
                             EXCEPT !.scopes = s.scopes]

\* visitStmts(): nothing is visited behind a terminator.
VisitAll(b, s) == InTurn(LAMBDA t, c : IF Terminated(t) THEN t ELSE VisitOne(c, t), s, b)

\* visit(ASTFuncDecl*): an argument is stored into a variable of its own.
TypeOfParam(q) == IF q.ptr THEN "p" ELSE "i"
Argument(s, q, arg) ==
    Push(CreateStore(CreateAlloca(s, 1, TypeOfParam(q)), <<"a", arg>>, NewId(s.m)),
         q.x, NewId(s.m), IF q.ptr THEN "ptr" ELSE "int")
EnterFunction(params, f, s) ==
    CreateBlock([s EXCEPT !.m.next = @ + Len(params), !.f = f, !.cur = s.m.next + Len(params),
        !.m.fn[f] = [args |-> [k \in DOMAIN params |->
                                 [id |-> s.m.next + k - 1, t |-> TypeOfParam(params[k])]],
                     order |-> <<>>],
        !.scopes = Append(@, <<>>)])
StoreArguments(params, first, s) ==
    InTurn(LAMBDA t, k : Argument(t, params[k], first + k - 1), s, [k \in DOMAIN params |-> k])
FunctionBody(body, s) == VisitAll(body, [s EXCEPT !.scopes = Append(@, <<>>)])
LeaveFunction(s, scopes) ==
    [(IF Terminated(s) THEN s ELSE Return(Val(s, None))) EXCEPT !.scopes = scopes]
VisitFuncDecl(F, f, s) ==
    LeaveFunction(FunctionBody(F.body, StoreArguments(F.params, s.m.next,
                                                      EnterFunction(F.params, f, s))), s.scopes)

\* visit(ASTCompUnit*)
VisitGlobal(s, g) ==
    LET at == Cardinality(DOMAIN s.m.glob)
        vals == A!InitialValues(g)
    IN  Push([s EXCEPT !.m.glob = [a \in at..(at + Len(vals) - 1) |-> vals[a - at + 1]] @@ @,
                       !.m.scalars = IF g.size = 0 THEN @ \cup {at} ELSE @],
             g.x, <<"g", at>>, IF g.size = 0 THEN "int" ELSE "array")

NoCode(P) ==
    [m |-> [ins |-> <<>>, blk |-> <<>>, pre |-> <<>>, suc |-> <<>>,
            fn |-> [k \in DOMAIN P.fns |-> [args |-> <<>>, order |-> <<>>]],
            glob |-> <<>>, scalars |-> {}, next |-> 1],
     f |-> 0, cur |-> 0, t |-> <<>>, e |-> <<>>, nexts |-> <<>>, conds |-> <<>>,
     scopes |-> <<<<>>>>]
Translate(P) ==
    InTurn(LAMBDA s, f : VisitFuncDecl(P.fns[f], f, s),
           InTurn(VisitGlobal, NoCode(P), P.globals), [f \in DOMAIN P.fns |-> f]).m
=============================================================================
