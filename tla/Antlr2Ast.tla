------------------------------ MODULE Antlr2Ast ------------------------------
(***************************************************************************)
(* Antlr2AstVisitor: from the parse tree to the AST.  On the way the       *)
(* visitor evaluates what is constant, puts a cast wherever a truth value  *)
(* meets an integer, moves negations outwards, drops what a constant       *)
(* condition makes superfluous, and cuts an expression whose value is not  *)
(* used down to its calls.                                                 *)
(*                                                                         *)
(* consts is the stack of scopes: name -> [const, n].  Floating point      *)
(* numbers, arrays of several dimensions and constant arrays are left out. *)
(***************************************************************************)
EXTENDS SysY

IsBool(e) == e.k \in {"bool", "eq", "rel", "logic", "not"} \/ (e.k = "cast" /\ e.to = "bool")
TypeOf(e) == IF IsBool(e) THEN "bool" ELSE "int"
Num(n) == [k |-> "num", n |-> n]
Truth(b) == [k |-> "bool", n |-> IF b THEN 1 ELSE 0]
IsNumber(e) == e.k \in {"num", "bool"}

\* _haveFuncCall
RECURSIVE HaveFuncCall(_)
HaveFuncCall(e) ==
    CASE e.k = "call" -> TRUE
      [] e.k \in {"neg", "not", "cast"} -> HaveFuncCall(e.e)
      [] e.k \in {"math", "rel", "eq"} -> HaveFuncCall(e.l) \/ HaveFuncCall(e.r)
      [] e.k = "logic" -> \E j \in DOMAIN e.es : HaveFuncCall(e.es[j])
      [] e.k = "elem" -> HaveFuncCall(e.i)
      [] OTHER -> FALSE

\* castTypeTo(): a number is converted at once.
CastTypeTo(e, t) ==
    CASE TypeOf(e) = t -> e
      [] e.k = "num"  -> Truth(e.n # 0)
      [] e.k = "bool" -> Num(e.n)
      [] OTHER -> [k |-> "cast", e |-> e, to |-> t]

\* cutExpressionToOnlyLeaveFuncCall()
RECURSIVE Cut(_)
Cut(e) ==
    CASE ~HaveFuncCall(e) -> <<>>
      [] e.k \in {"cast", "neg", "not"} -> Cut(e.e)
      [] e.k \in {"math", "rel", "eq"} -> Cut(e.l) \o Cut(e.r)
      [] e.k = "elem" -> Cut(e.i)
      [] OTHER -> <<e>>

Neg(e) == [k |-> "neg", e |-> e]
Math(op, l, r) == [k |-> "math", op |-> op, l |-> l, r |-> r]
Hold(e) == IF e.k = "neg" THEN e.e ELSE e

\* The unary operators.
Negated(x) ==
    CASE x.k = "neg" -> x.e
      [] x.k = "num" -> Num(Wrap(-x.n))
      [] OTHER -> Neg(x)
LogicNot(e) ==
    CASE e.k = "not" -> e.e
      [] IsNumber(e) -> Truth(e.n = 0)
      [] OTHER -> [k |-> "not", e |-> CastTypeTo(e, "bool")]

Constants(l, r) == l.k = "num" /\ r.k = "num"

\* visitMulExp(): two negations cancel, one moves outwards, whatever the operator.
Outwards(neg, e) == IF neg THEN Neg(e) ELSE e
MulExp(op, l, r) ==
    IF Constants(l, r) THEN Num(Compute(op, l.n, r.n))
    ELSE Outwards((l.k = "neg") # (r.k = "neg"), Math(op, Hold(l), Hold(r)))

\* Mutation: the operands are not exchanged when the negation is dropped.
AddExpInPlace(op, l, r) ==
    CASE Constants(l, r) -> Num(Compute(op, l.n, r.n))
      [] l.k = "neg" /\ (r.k = "neg") = (op = "add") -> Neg(Math("add", l.e, Hold(r)))
      [] l.k = "neg" -> Math("sub", l.e, Hold(r))
      [] r.k = "neg" -> Math(IF op = "add" THEN "sub" ELSE "add", l, r.e)
      [] OTHER -> Math(op, l, r)

\* visitAddExp(): -a + -b = -(a + b), a - -b = a + b, -a + b = b - a,
\* -a - -b = b - a, -a - b = -(a + b), a + -b = a - b.
AddExp(op, l, r) ==
    CASE Constants(l, r) -> Num(Compute(op, l.n, r.n))
      [] l.k = "neg" /\ (r.k = "neg") = (op = "add") -> Neg(Math("add", l.e, Hold(r)))
      [] l.k = "neg" -> Math("sub", Hold(r), l.e)
      [] r.k = "neg" -> Math(IF op = "add" THEN "sub" ELSE "add", l, r.e)
      [] OTHER -> Math(op, l, r)

\* visitRelExp() and visitEqExp()
Compared(kind, op, l, r) ==
    IF Constants(l, r) THEN Truth(Compute(op, l.n, r.n) = 1)
    ELSE [k |-> kind, op |-> op, l |-> l, r |-> r]

Logic(op, es, have) == [k |-> "logic", op |-> op, es |-> es, have |-> have]
\* An expression deleted although the list that holds it goes on being used.
Freed == [k |-> "freed"]

\* visitLAndExp() and visitLOrExp(): the elements up to the first that is the
\* constant `stop` (1 for ||, 0 for &&), without the constants that do not
\* decide.  An element of || known to be true in spite of its calls decides too.
IsTrueOr(op, e) == op = "or" /\ e.k = "logic" /\ e.have = "true"
KeepOperand(op, stop, s, e) ==
    CASE e.k = "bool" -> [s EXCEPT !.cut = @ \/ e.n = stop]
      [] s.cut -> s
      [] OTHER -> [exps |-> Append(s.exps, e), cut |-> IsTrueOr(op, e),
                   comp |-> s.comp \/ HaveFuncCall(e),
                   undef |-> s.undef \/ ~(e.k = "logic" /\ e.have # "undef")]
Operands(op, stop, es) ==
    InTurn(LAMBDA s, e : KeepOperand(op, stop, s, CastTypeTo(e, "bool")),
           [exps |-> <<>>, cut |-> FALSE, comp |-> FALSE, undef |-> FALSE], es)
WithFreed(es) == [j \in DOMAIN es |-> IF HaveFuncCall(es[j]) THEN es[j] ELSE Freed]
NoCalls(op, stop, s) ==
    CASE s.cut -> Truth(stop = 1)
      [] s.exps = <<>> -> Truth(stop = 0)
      [] Len(s.exps) = 1 -> s.exps[1]
      [] OTHER -> Logic(op, s.exps, "undef")
Decided(op, stop, s) ==
    CASE IsTrueOr(op, Last(s.exps)) /\ Len(s.exps) = 1 -> s.exps[1]
      [] IsTrueOr(op, Last(s.exps)) -> Logic(op, WithFreed(s.exps), "true")
      [] OTHER -> Logic(op, Append(WithFreed(s.exps), Truth(stop = 1)),
                        IF stop = 1 THEN "true" ELSE "false")
OperandsLeft(op, stop, s) ==
    CASE ~s.comp -> NoCalls(op, stop, s)
      [] s.cut -> Decided(op, stop, s)
      [] OTHER -> Logic(op, s.exps, IF op = "or" /\ ~s.undef THEN "false" ELSE "undef")
StopAt(op, es, stop) == OperandsLeft(op, stop, Operands(op, stop, es))
LogicExp(op, es) == StopAt(op, es, IF op = "or" THEN 1 ELSE 0)

Binary(e, l, r) ==
    CASE e.k \in {"rel", "eq"}    -> Compared(e.k, e.op, l, r)
      [] e.op \in {"add", "sub"} -> AddExp(e.op, l, r)
      [] OTHER                   -> MulExp(e.op, l, r)
Unary(e, x) ==
    CASE e.k = "pos" -> CastTypeTo(x, "int")
      [] e.k = "neg" -> Negated(CastTypeTo(x, "int"))
      [] e.k = "not" -> LogicNot(x)
Name(e, d) == IF d.const THEN Num(d.n) ELSE e

RECURSIVE VisitExp(_, _)
VisitAll(es, consts) == [j \in DOMAIN es |-> VisitExp(es[j], consts)]
VisitExp(e, consts) ==
    CASE e.k = "num" -> e
      [] e.k = "var" -> Name(e, Find(consts, e.x))
      [] e.k = "elem" -> [e EXCEPT !.i = VisitExp(@, consts)]
      [] e.k = "array" -> e
      [] e.k = "call" -> [e EXCEPT !.as = VisitAll(@, consts)]
      [] e.k \in {"pos", "neg", "not"} -> Unary(e, VisitExp(e.e, consts))
      [] e.k \in {"math", "rel", "eq"} ->
           Binary(e, CastTypeTo(VisitExp(e.l, consts), "int"),
                  CastTypeTo(VisitExp(e.r, consts), "int"))
      [] e.k = "logic" -> LogicExp(e.op, VisitAll(e.es, consts))

VisitCond(e, consts) == CastTypeTo(VisitExp(e, consts), "bool")
VisitInt(e, consts) == CastTypeTo(VisitExp(e, consts), "int")
Calls(e) == [j \in DOMAIN Cut(e) |-> [k |-> "exp", e |-> Cut(e)[j]]]

\* What is left of an if whose condition and branches have been visited: a
\* constant condition chooses, a known one is evaluated for its calls.
IfNode(e, then, else) == <<[k |-> "if", c |-> e, t |-> then, f |-> else]>>
Chosen(cond, t, f) ==
    CASE cond.k = "bool" -> IF cond.n = 1 THEN t ELSE f
      [] cond.k = "logic" /\ cond.have # "undef" ->
           <<[k |-> "exp", e |-> cond]>> \o (IF cond.have = "true" THEN t ELSE f)
      [] t = <<>> /\ f = <<>> -> Calls(cond)
      [] t = <<>> -> IfNode(IF cond.k = "not" THEN CastTypeTo(cond.e, "bool")
                            ELSE [k |-> "not", e |-> cond], f, <<>>)
      [] OTHER -> IfNode(cond, t, f)

Loop(cond, b) ==
    CASE cond = Truth(FALSE) -> <<>>
      [] cond.k = "logic" /\ cond.have = "false" -> <<[k |-> "exp", e |-> cond]>>
      [] b = <<>> /\ ~HaveFuncCall(cond) -> <<>>
      [] OTHER -> <<[k |-> "while", c |-> cond, b |-> b]>>

\* A block that has become empty is dropped.
BlockStmt(b) == IF b = <<>> THEN <<>> ELSE <<[k |-> "block", b |-> b]>>

\* visitStmt(): the statements that take the place of c.
RECURSIVE VisitStmt(_, _), VisitBlock(_, _)
VisitStmts(l, consts) == FlattenSeq([j \in DOMAIN l |-> VisitStmt(l[j], consts)])
VisitStmt(c, consts) ==
    CASE c.k = "assign" ->
           <<[c EXCEPT !.l = IF @.k = "elem" THEN VisitExp(@, consts) ELSE @,
                       !.e = VisitInt(@, consts)]>>
      [] c.k = "block" -> BlockStmt(VisitBlock(c.b, consts))
      [] c.k = "if" -> Chosen(VisitCond(c.c, consts), VisitStmts(c.t, consts),
                              VisitStmts(c.f, consts))
      [] c.k = "while" -> Loop(VisitCond(c.c, consts), VisitStmts(c.b, consts))
      [] c.k = "return" -> <<[c EXCEPT !.e = VisitInt(@, consts)]>>
      [] c.k = "exp" -> Calls(VisitExp(c.e, consts))
      [] OTHER -> <<c>>

\* visitVarDecl() and visitConstDecl(): the initialiser is visited before the
\* name is put into the scope.
Declared(consts, x, d) == [consts EXCEPT ![Len(consts)] = (x :> d) @@ @]
Variable == [const |-> FALSE, n |-> 0]
VisitBlockItem(s, c) ==
    CASE c.k = "const" ->
           LET n == VisitInt(c.e, s.consts).n
           IN  [stmts |-> Append(s.stmts, [k |-> "decl", x |-> c.x, e |-> Num(n)]),
                consts |-> Declared(s.consts, c.x, [const |-> TRUE, n |-> n])]
      [] c.k = "decl" ->
           [stmts |-> Append(s.stmts, [c EXCEPT !.e = VisitInt(@, s.consts)]),
            consts |-> Declared(s.consts, c.x, Variable)]
      [] c.k = "array" ->
           [stmts |-> Append(s.stmts, [c EXCEPT !.es = [j \in DOMAIN @ |-> VisitInt(@[j], s.consts)]]),
            consts |-> Declared(s.consts, c.x, Variable)]
      [] OTHER -> [s EXCEPT !.stmts = @ \o VisitStmt(c, s.consts)]

VisitBlock(b, consts) ==
    InTurn(VisitBlockItem, [stmts |-> <<>>, consts |-> Append(consts, <<>>)], b).stmts

\* visitFuncDef() for every function, after the declarations of the globals.
VisitCompUnit(P) ==
    LET globals == [x \in {P.globals[j].x : j \in DOMAIN P.globals} |-> Variable]
        params(f) == [x \in {f.params[j].x : j \in DOMAIN f.params} |-> Variable]
    IN  [P EXCEPT !.fns = [j \in DOMAIN @ |->
            [@[j] EXCEPT !.body = VisitBlock(@, <<globals, params(P.fns[j])>>)]]]
=============================================================================
