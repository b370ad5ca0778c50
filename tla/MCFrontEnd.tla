----------------------------- MODULE MCFrontEnd -----------------------------
EXTENDS FrontEnd

n(x) == [k |-> "num", n |-> x]
v(x) == [k |-> "var", x |-> x]
neg(x) == [k |-> "neg", e |-> x]
not(x) == [k |-> "not", e |-> x]
math(op, l, r) == [k |-> "math", op |-> op, l |-> l, r |-> r]
rel(op, l, r) == [k |-> "rel", op |-> op, l |-> l, r |-> r]
eq(op, l, r) == [k |-> "eq", op |-> op, l |-> l, r |-> r]
logic(op, es) == [k |-> "logic", op |-> op, es |-> es, have |-> "undef"]
call(f, as) == [k |-> "call", f |-> f, as |-> as]
decl(x, e) == [k |-> "decl", x |-> x, e |-> e]
set(x, e) == [k |-> "assign", l |-> v(x), e |-> e]
put(e) == [k |-> "exp", e |-> call(-1, <<e>>)]
exp(e) == [k |-> "exp", e |-> e]
block(b) == <<[k |-> "block", b |-> b]>>
if(c, t, f) == [k |-> "if", c |-> c, t |-> t, f |-> f]
while(c, b) == [k |-> "while", c |-> c, b |-> b]
return(e) == [k |-> "return", e |-> e]
get == call(-2, <<>>)
a == v("a")
b == v("b")
f(x) == call(2, <<x>>)   \* prints its argument and returns it

\* main reads a and b, then executes `body`.
Main(body) ==
    [globals |-> <<[x |-> "g", size |-> 0, es |-> <<3>>]>>,
     fns |-> <<[params |-> <<>>,
                body |-> <<decl("a", get), decl("b", get)>> \o body],
               [params |-> <<[x |-> "x", ptr |-> FALSE]>>,
                body |-> <<put(v("x")), return(v("x"))>>]>>]

Operand == {a, neg(a), neg(neg(b)), n(3), neg(n(2)), v("g")}
MathExps ==
    {math(op, l, r) : op \in {"add", "sub", "mul"}, l \in Operand, r \in Operand}
    \cup {math("sdiv", l, r) : l \in {n(6), v("g"), neg(v("g"))}, r \in {neg(v("g")), neg(n(2))}}
    \cup {math("srem", l, r) : l \in {a, n(5)}, r \in {v("g"), n(2)}}
    \cup {math(op, neg(math("add", a, b)), neg(math(o2, neg(a), n(3)))) :
             op \in {"add", "sub", "mul"}, o2 \in {"add", "sub"}}

Atom == {a, n(0), n(1), f(a), not(b), not(not(b)), not(f(b)), rel("lt", a, b),
         eq("eq", rel("le", a, n(1)), not(b)), math("add", not(a), n(-1))}
\* An element without a call may not precede, in a list that has a call, the
\* constant that decides the list: the visitor would use it after deleting it.
Cond == Atom
    \cup {logic(op, <<x, y>>) : op \in {"and", "or"}, x \in Atom, y \in Atom \ {n(0), n(1)}}
    \cup {logic(op, <<f(a), y, f(b)>>) : op \in {"and", "or"}, y \in {n(0), n(1)}}
    \cup {logic("or", <<logic("and", <<f(a), x>>), y>>) : x \in {b, n(0)}, y \in {f(b), n(0), n(1)}}
    \cup {logic("and", <<f(a), n(0)>>), logic("or", <<f(a), n(1)>>)}

Stmts(c) == {if(c, <<put(n(1))>>, <<put(n(2))>>), if(c, <<>>, block(<<put(n(2))>>)),
             if(c, block(<<>>), <<>>), while(c, block(<<put(n(1)), [k |-> "break"]>>))}

CondPrograms == UNION {{Main(<<s, put(n(7))>>) : s \in Stmts(c)} : c \in Cond}
MathPrograms == {Main(<<return(e)>>) : e \in MathExps}

elem(x, i) == [k |-> "elem", x |-> x, i |-> i, ptr |-> FALSE]
elemP(x, i) == [k |-> "elem", x |-> x, i |-> i, ptr |-> TRUE]
konst(x, e) == [k |-> "const", x |-> x, e |-> e]
Array(es, size) == [k |-> "array", x |-> "t", size |-> size, es |-> es]
Arrays == {Main(<<Array(es, size), set("a", n(0)),
                  while(rel("lt", a, n(size)), block(<<put(elem("t", a)), set("a", math("add", a, n(1)))>>))>>) :
             es \in {<<>>, <<b, n(2)>>, <<a, b, f(a), b, n(1), b>>}, size \in {6}}
Others ==
  {Main(<<konst("k", math("mul", n(2), n(3))), decl("x", v("k")),
          while(n(1), block(<<if(rel("gt", v("x"), n(5)), block(<<set("x", n(1)), [k |-> "continue"]>>), <<>>),
                            put(v("x")), [k |-> "break"]>>))>>),
   Main(<<decl("s", n(0)), while(rel("lt", v("s"), a), block(<<
            if(eq("eq", v("s"), b), <<[k |-> "break"]>>, <<>>),
            decl("g", v("s")), set("s", math("add", v("g"), n(1))),
            if(eq("ne", v("s"), n(1)), <<[k |-> "continue"]>>, <<>>), put(v("g"))>>)), return(v("s"))>>),
   Main(<<if(a, block(<<return(n(1))>>), block(<<return(n(2))>>)), put(a)>>),
   Main(<<block(<<decl("a", n(4)), put(a)>>)[1], put(a)>>)}

MCPrograms == MathPrograms \cup Arrays \cup Others \cup CondPrograms
MCInputs == {<<0, 2>>, <<1, 0>>, <<2, -1>>}

\* Remainders of negations, which the visitor gives the sign of the wrong
\* operand: left out of MCPrograms; with them AstMeansSource is violated.
MCRemainders == {Main(<<return(math("srem", l, r))>>) : l \in {a, neg(a)}, r \in {neg(b), neg(v("g"))}}
MCRemInputs == {<<x, y>> : x \in {-1, 2}, y \in {2, 3}}
=============================================================================
