---------------------------- MODULE MCIRPipeline ----------------------------
EXTENDS IRPipeline

n(x) == [k |-> "num", n |-> x]
v(x) == [k |-> "var", x |-> x]
neg(x) == [k |-> "neg", e |-> x]
cast(to, x) == [k |-> "cast", to |-> to, e |-> x]
math(op, l, r) == [k |-> "math", op |-> op, l |-> l, r |-> r]
rel(op, l, r) == [k |-> "rel", op |-> op, l |-> l, r |-> r]
eq(op, l, r) == [k |-> "eq", op |-> op, l |-> l, r |-> r]
logic(op, es) == [k |-> "logic", op |-> op, es |-> es, have |-> "undef"]
call(f, as) == [k |-> "call", f |-> f, as |-> as]
decl(x, e) == [k |-> "decl", x |-> x, e |-> e]
array(x, es, size) == [k |-> "array", x |-> x, size |-> size, es |-> es]
set(x, e) == [k |-> "assign", l |-> v(x), e |-> e]
elem(x, i) == [k |-> "elem", x |-> x, i |-> i, ptr |-> FALSE]
elemP(x, i) == [k |-> "elem", x |-> x, i |-> i, ptr |-> TRUE]
setElem(x, i, e) == [k |-> "assign", l |-> elem(x, i), e |-> e]
whole(x, p) == [k |-> "array", x |-> x, ptr |-> p]
exp(e) == [k |-> "exp", e |-> e]
put(e) == exp(call(-1, <<e>>))
get == call(-2, <<>>)
if(c1, t, f) == [k |-> "if", c |-> c1, t |-> t, f |-> f]
while(c1, b1) == [k |-> "while", c |-> c1, b |-> b1]
return(e) == [k |-> "return", e |-> e]
break == [k |-> "break"]
continue == [k |-> "continue"]
a == v("a")
b == v("b")
i == v("i")
s == v("s")
truth == [k |-> "bool", n |-> 1]
inc(x) == set(x, math("add", v(x), n(1)))

par(x) == [x |-> x, ptr |-> FALSE]
arr(x) == [x |-> x, ptr |-> TRUE]
fn(ps, body) == [params |-> ps, body |-> body]
\* main reads a and b, then executes the body; g is 3, h is 0, t has 2 elements.
Prog(body, fns) ==
    [globals |-> <<[x |-> "g", size |-> 0, es |-> <<3>>], [x |-> "h", size |-> 0, es |-> <<0>>],
                   [x |-> "t", size |-> 2, es |-> <<1, 2>>]>>,
     fns |-> <<fn(<<>>, <<decl("a", get), decl("b", get)>> \o body)>> \o fns]
Main(body) == Prog(body, <<>>)

Loop(cond, body) == <<decl("i", n(0)), decl("s", n(0)),
                      while(cond, body \o <<inc("i")>>), put(s), return(i)>>
add(x, y) == math("add", x, y)
sub(x, y) == math("sub", x, y)
mul(x, y) == math("mul", x, y)
more(x, e) == set(x, add(v(x), e))
setElemP(x, k, e) == [k |-> "assign", l |-> elemP(x, k), e |-> e]
\* Enough that does not change in a loop to have it rotated.
invariant == add(mul(a, b), add(mul(a, n(3)), mul(b, n(3))))

Straight ==
  {Main(<<return(add(a, v("g")))>>),
   Main(<<if(rel("lt", a, b), <<set("a", b)>>, <<set("b", n(1)), put(b)>>), put(a), put(b)>>),
   Main(<<decl("z", n(0)), if(eq("eq", v("z"), n(0)), <<put(n(1))>>, <<put(n(2))>>), set("h", a), put(v("h"))>>),
   Main(<<array("u", <<a, b, n(2), n(0), a>>, 6), put(elem("u", a)), setElem("u", n(1), n(4)), put(elem("u", n(1)))>>),
   Main(<<put(mul(a, n(3))), put(mul(n(-2), a)), put(add(b, mul(a, b)))>>),
   Main(<<put(sub(b, mul(a, v("g")))), put(math("sdiv", a, n(-1))), put(sub(a, mul(a, n(1))))>>),
   Main(<<if(eq("eq", math("srem", b, n(2)), n(0)), <<put(n(1))>>, <<>>), put(math("srem", a, n(2)))>>),
   Main(<<put(mul(mul(a, n(5)), mul(n(-7), b)))>>),
   Main(<<decl("z", n(0)), if(eq("eq", v("z"), n(0)), <<set("a", b)>>, <<>>), put(a)>>),
   Main(<<array("u", <<a, b>>, 2), decl("x", elem("u", n(0))), setElem("u", n(0), n(4)),
          if(rel("gt", b, a), <<put(v("x"))>>, <<>>), put(elem("u", n(0)))>>)}

Looping ==
  {Main(Loop(rel("lt", i, a), <<if(eq("eq", i, b), <<break>>, <<>>), decl("x", i), more("s", v("x"))>>)),
   Main(Loop(rel("lt", i, a), <<more("s", invariant)>>)),
   Main(Loop(rel("lt", i, a), <<if(eq("eq", i, b), <<inc("i"), continue>>, <<>>), more("s", i)>>)),
   Main(Loop(rel("lt", i, n(3)), <<if(eq("eq", i, b), <<set("s", n(7)), break>>, <<>>), more("s", i)>>)),
   Main(Loop(rel("lt", i, a), <<decl("j", n(0)), while(rel("lt", v("j"), b), <<more("s", mul(i, b)), inc("j")>>)>>)),
   \* rotated: the test does not change; its phi changes once; anything else
   Main(<<decl("i", n(0)), decl("s", n(0)),
          while(rel("lt", b, a), <<more("s", invariant), inc("i"), if(rel("gt", i, n(1)), <<return(s)>>, <<>>)>>), return(i)>>),
   Main(<<decl("x", n(0)), decl("s", n(0)), while(eq("eq", v("x"), n(0)), <<more("s", invariant), set("x", n(1))>>), put(s)>>),
   Main(<<decl("i", n(0)), decl("s", n(0)),
          while(rel("lt", s, n(3)), <<set("h", invariant), more("s", add(i, n(1))), inc("i")>>), put(i), put(s), put(v("h"))>>),
   Main(<<decl("i", n(0)), while(rel("lt", i, n(3)), <<put(invariant), more("i", add(i, n(1)))>>), put(i)>>),
   Main(<<decl("i", n(0)), while(rel("lt", i, n(2)), <<if(rel("gt", a, b), <<put(i)>>, <<put(n(7))>>), inc("i")>>)>>),
   Main(<<decl("i", n(0)), decl("x", n(0)),
          while(truth, <<set("x", mul(i, b)), if(rel("ge", i, a), <<break>>, <<>>), inc("i")>>), put(v("x"))>>),
   Main(<<array("u", <<a, b>>, 2), decl("s", n(0)), decl("i", n(0)),
          while(rel("lt", i, n(2)), <<more("s", elem("u", i)), setElem("u", i, s), inc("i")>>), put(elem("u", n(1)))>>),
   \* stepped by a remainder, and by what becomes a shift
   Main(<<decl("x", add(a, n(3))), decl("s", n(0)), while(rel("gt", v("x"), n(2)), <<more("s", invariant), set("x", math("srem", v("x"), n(3)))>>), put(s), put(v("x"))>>),
   Main(<<decl("x", n(1)), decl("s", n(0)), while(rel("lt", v("x"), n(6)), <<more("s", invariant), set("x", mul(v("x"), n(2)))>>), put(s), put(v("x"))>>)}

StoreUnlessNegative == fn(<<arr("p"), par("y")>>, <<if(rel("ge", v("y"), n(0)), <<setElemP("p", n(0), add(v("y"), n(3)))>>, <<>>)>>)
HandOn == exp(call(3, <<whole("p", TRUE), v("x")>>))
Calling ==
  {Prog(<<array("u", <<a, b>>, 2), decl("i", n(0)), decl("s", n(0)),
          while(rel("lt", i, n(2)), <<more("s", elem("u", n(0))), exp(call(2, <<whole("u", FALSE), i>>)), inc("i")>>), put(s)>>,
        <<fn(<<arr("p"), par("x")>>, <<if(rel("lt", v("x"), n(2)), <<HandOn>>, <<>>)>>), StoreUnlessNegative>>),
   Prog(<<put(call(2, <<a, b>>)), exp(call(3, <<whole("t", FALSE)>>)), put(elem("t", n(0)))>>,
        <<fn(<<par("x"), par("y")>>, <<if(rel("gt", v("x"), n(0)), <<return(n(5))>>, <<>>), return(v("x"))>>),
          fn(<<arr("p")>>, <<setElemP("p", n(0), n(5))>>)>>),
   Prog(<<put(call(2, <<a>>)), put(v("h"))>>,
        <<fn(<<par("k")>>, <<decl("i", n(0)), while(rel("lt", i, v("k")), <<more("h", call(3, <<i>>)), inc("i")>>), return(i)>>),
          fn(<<par("y")>>, <<return(mul(v("y"), v("y")))>>)>>),
   Prog(<<put(call(2, <<whole("t", FALSE), a>>)), put(call(2, <<whole("t", FALSE), n(1)>>))>>,
        <<fn(<<arr("p"), par("k")>>, <<setElemP("p", n(0), v("k")), return(add(elemP("p", n(0)), elemP("p", n(1))))>>)>>),
   Prog(<<put(call(2, <<a, b>>)), put(call(2, <<b, a>>))>>,
        <<fn(<<par("x"), par("y")>>, <<if(rel("lt", v("x"), v("y")), <<return(v("x"))>>, <<>>), set("h", v("y")), put(v("h")), return(call(3, <<v("y")>>))>>),
          fn(<<par("z")>>, <<if(eq("eq", v("z"), n(2)), <<return(n(0))>>, <<>>), put(v("z")), return(mul(v("z"), n(2)))>>)>>),
   Prog(<<put(call(2, <<a>>))>>,
        <<fn(<<par("x")>>, <<if(rel("le", v("x"), n(0)), <<return(n(1))>>, <<>>), return(mul(v("x"), call(2, <<sub(v("x"), n(1))>>)))>>)>>)}

MCPrograms == Straight \cup Looping \cup Calling
MCInputs == {<<0, 2>>, <<1, 0>>, <<2, -1>>}

\* The address of an element of an array handed to a small function.
MCInlinedElement ==
  {Prog(<<put(call(2, <<whole("t", FALSE), n(1)>>))>>, <<fn(<<arr("p"), par("k")>>, <<return(elemP("p", v("k")))>>)>>)}
\* One array under two names, stored through one in a loop that loads the other.
MCTwoNames ==
  {Prog(<<put(call(2, <<whole("t", FALSE), whole("t", FALSE)>>))>>,
        <<fn(<<arr("p"), arr("q")>>,
             <<decl("i", n(0)), decl("s", n(0)),
               while(rel("lt", i, n(2)), <<setElemP("q", n(0), i), more("s", elemP("p", n(0))), inc("i")>>), return(s)>>)>>)}
\* A function that hands its array parameter on, in a loop that loads from it,
\* and between a load and the use of what was loaded.
MCHandedOn ==
  {Prog(<<put(call(2, <<whole("t", FALSE), a>>))>>,
        <<fn(<<arr("p"), par("x")>>,
             <<decl("i", n(0)), decl("s", n(0)),
               while(rel("lt", i, n(2)), <<more("s", elemP("p", n(0))), exp(call(3, <<whole("p", TRUE), i>>)), inc("i")>>), return(s)>>),
          StoreUnlessNegative>>)}
MCHandedOnBefore ==
  {Prog(<<put(call(2, <<whole("t", FALSE), a>>))>>,
        <<fn(<<arr("p"), par("x")>>,
             <<decl("y", elemP("p", n(0))), HandOn,
               if(rel("gt", v("x"), n(0)), <<return(v("y"))>>, <<>>), put(v("x")), return(n(0))>>),
          StoreUnlessNegative>>)}
=============================================================================
