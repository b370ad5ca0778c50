-------------------------------- MODULE SysY --------------------------------
(***************************************************************************)
(* The source language, a subset of C++ (README.md:3), and what a program  *)
(* in it means.  Both trees of the front end are written in it: the tree   *)
(* the parser hands to Antlr2AstVisitor, and the AST that visitor builds,  *)
(* which has two more expressions (a cast, a truth value).                 *)
(*                                                                         *)
(* Expressions: num n; bool n (0 or 1); var x; elem x i ptr (element i of  *)
(* the array x, or of what the parameter x points to); array x ptr (as an  *)
(* argument); pos, neg, not e; cast e to; math op l r; rel op l r; eq op l r; *)
(* logic op es have; call f as.  Statements: decl x e; const x e; array x  *)
(* size es; assign l e; if c t f; while c b; break; continue; return e;    *)
(* exp e; block b.  A program has globals (x, size, es; size 0 for an      *)
(* integer) and fns (params x ptr, and body), main first; the functions    *)
(* -1 and -2 are putint and getint of the runtime library.                 *)
(***************************************************************************)
EXTENDS Word, Iteration, SequencesExt, TLC

\* s: scopes from the outermost in (name -> address), mem, top (the next free
\* address), in, out, fuel, and how the last statement ended (go, break,
\* continue, return) with the value returned.
RECURSIVE Find(_, _)
Find(scopes, x) ==
    IF x \in DOMAIN Last(scopes) THEN Last(scopes)[x] ELSE Find(Front(scopes), x)

Declare(s, x, vals) ==
    [s EXCEPT !.scopes[Len(s.scopes)] = (x :> s.top) @@ @,
              !.mem = [a \in s.top..(s.top + Len(vals) - 1) |-> vals[a - s.top + 1]] @@ @,
              !.top = @ + Len(vals)]

RECURSIVE Eval(_, _, _), EvalLogic(_, _, _, _), Exec(_, _, _)

Value(v, s) == [v |-> v, s |-> s]
NextValue(r, t) == Value(Append(r.v, t.v), t.s)
EvalAll(P, es, s) == InTurn(LAMBDA r, e : NextValue(r, Eval(P, e, r.s)), Value(<<>>, s), es)

\* t is the first of the operands of && (stop = 0) or || (stop = 1).
Decide(P, stop, t, rest) ==
    IF (t.v # 0) = (stop = 1) \/ rest = <<>> THEN [t EXCEPT !.v = IF @ = 0 THEN 0 ELSE 1]
    ELSE EvalLogic(P, stop, rest, t.s)
EvalLogic(P, stop, es, s) == Decide(P, stop, Eval(P, Head(es), s), Tail(es))

Enter(formal, args, s) ==
    InTurn(LAMBDA t, k : Declare(t, formal[k].x, <<args[k]>>),
           [s EXCEPT !.scopes = <<Head(@), <<>>>>], [k \in DOMAIN formal |-> k])
Leave(t, scopes) == Value(IF t.st = "return" THEN t.ret ELSE 0,
                          [t EXCEPT !.scopes = scopes, !.st = "go"])
\* The bodies of functions, ifs, whiles and blocks are lists of statements.
Scoped(P, body, s) ==
    [Exec(P, body, [s EXCEPT !.scopes = Append(@, <<>>)]) EXCEPT !.scopes = s.scopes]
Apply(P, f, args, s) ==
    CASE f = -1 -> Value(0, [s EXCEPT !.out = Append(@, args[1])])
      [] f = -2 -> Value(Head(s.in), [s EXCEPT !.in = Tail(@)])
      [] OTHER  -> Leave(Scoped(P, P.fns[f].body, Enter(P.fns[f].params, args, s)), s.scopes)
Called(P, f, t) == Apply(P, f, t.v, t.s)

\* The address of an array, or the one its parameter holds.
Base(e, a, s) == IF e.ptr THEN s.mem[a] ELSE a
AtIndex(e, t) == [t EXCEPT !.v = Base(e, Find(t.s.scopes, e.x), t.s) + @]
Address(P, l, s) ==
    IF l.k = "var" THEN Value(Find(s.scopes, l.x), s) ELSE AtIndex(l, Eval(P, l.i, s))
Loaded(t) == [t EXCEPT !.v = t.s.mem[@]]
Operate(e, t) == [t EXCEPT !.v =
    CASE e.k = "pos"  -> @
      [] e.k = "neg"  -> Wrap(-@)
      [] e.k = "not"  -> IF @ = 0 THEN 1 ELSE 0
      [] e.k = "cast" -> IF e.to = "bool" /\ @ # 0 THEN 1 ELSE @]

Eval(P, e, s) ==
    CASE e.k \in {"num", "bool"} -> Value(e.n, s)
      [] e.k = "array" -> Value(Base(e, Find(s.scopes, e.x), s), s)
      [] e.k \in {"var", "elem"} -> Loaded(Address(P, e, s))
      [] e.k \in {"pos", "neg", "not", "cast"} -> Operate(e, Eval(P, e.e, s))
      [] e.k \in {"math", "rel", "eq"} ->
           [EvalAll(P, <<e.l, e.r>>, s) EXCEPT !.v = Compute(e.op, @[1], @[2])]
      [] e.k = "logic" -> EvalLogic(P, IF e.op = "or" THEN 1 ELSE 0, e.es, s)
      [] e.k = "call" -> Called(P, e.f, EvalAll(P, e.as, s))

\* The loop c when its condition has been evaluated to t, and after one round.
Again(P, c, u) ==
    CASE u.st = "break" -> [u EXCEPT !.st = "go"]
      [] u.st = "return" -> u
      [] OTHER -> Exec(P, <<c>>, [u EXCEPT !.st = "go"])
Round(P, c, t) ==
    IF t.v = 0 \/ t.s.fuel = 0 THEN t.s
    ELSE Again(P, c, Scoped(P, c.b, [t.s EXCEPT !.fuel = @ - 1]))

Store(v, a) == [a.s EXCEPT !.mem[a.v] = v]
Filled(c, t) == Declare(t.s, c.x, [k \in 1..c.size |-> IF k <= Len(t.v) THEN t.v[k] ELSE 0])
\* The statement c, whose expression has the value t.
Effect(P, c, t) ==
    CASE c.k \in {"decl", "const"} -> Declare(t.s, c.x, <<t.v>>)
      [] c.k = "assign" -> Store(t.v, Address(P, c.l, t.s))
      [] c.k = "if"     -> Scoped(P, IF t.v # 0 THEN c.t ELSE c.f, t.s)
      [] c.k = "while"  -> Round(P, c, t)
      [] c.k = "return" -> [t.s EXCEPT !.st = "return", !.ret = t.v]
      [] c.k = "exp"    -> t.s
ExecOne(P, c, s) ==
    CASE c.k \in {"break", "continue"} -> [s EXCEPT !.st = c.k]
      [] c.k = "block" -> Scoped(P, c.b, s)
      [] c.k = "array" -> Filled(c, EvalAll(P, c.es, s))
      [] OTHER -> Effect(P, c, Eval(P, IF c.k \in {"if", "while"} THEN c.c ELSE c.e, s))

Exec(P, body, s) ==
    InTurn(LAMBDA t, c : IF t.st = "go" THEN ExecOne(P, c, t) ELSE t, s, body)

InitialValues(g) ==
    [k \in 1..(IF g.size = 0 THEN 1 ELSE g.size) |-> IF k <= Len(g.es) THEN g.es[k] ELSE 0]

\* What P prints and returns when it reads the integers `in`.
Meaning(P, in, fuel) ==
    LET s0 == [scopes |-> <<<<>>>>, mem |-> <<>>, top |-> 0, in |-> in, out |-> <<>>,
               fuel |-> fuel, st |-> "go", ret |-> 0]
        Observe(t) == [out |-> t.s.out, ret |-> t.v, ends |-> t.s.fuel > 0]
    IN  Observe(Apply(P, 1, <<>>, InTurn(LAMBDA s, g : Declare(s, g.x, InitialValues(g)),
                                         s0, P.globals)))
=============================================================================
