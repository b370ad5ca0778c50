------------------------------ MODULE MCCompiler ------------------------------
EXTENDS MCIRPipeline, Compiler

x1 == v("x")
y1 == v("y")
z1 == v("z")
pars(S) == [k \in DOMAIN S |-> par(S[k])]
FiveParameters == pars(<<"p", "q", "x", "y", "z">>)
Pressing ==
  {Main(<<decl("x", add(a, b)), decl("y", sub(a, b)), decl("z", mul(a, b)), put(x1), put(y1), put(z1), put(b)>>),
   Main(<<decl("x", add(a, b)), decl("y", add(a, n(6))), decl("z", sub(b, n(1))), decl("w", mul(a, b)), put(n(1)),
          put(add(x1, a)), put(add(v("w"), y1)), put(z1)>>),
   Main(<<decl("x", add(a, b)), put(n(1)), put(x1), put(b), put(a), set("a", get), set("b", get), set("x", get),
          put(n(1)), put(a), put(b), put(x1)>>),
   Main(<<decl("x", add(a, b)), decl("y", math("sdiv", a, n(3))), put(sub(b, mul(a, a))), put(x1), put(y1), put(b)>>),
   Prog(<<put(call(2, <<a, b, n(1), a, n(3)>>)), put(a)>>,
        <<fn(FiveParameters, <<if(rel("lt", x1, y1), <<put(v("p")), put(x1), put(v("q"))>>, <<put(z1)>>), return(add(x1, y1))>>)>>),
   Prog(<<put(call(2, <<a, b, n(3)>>)), put(b)>>,
        <<fn(pars(<<"x", "y", "z">>), <<if(rel("le", x1, n(0)), <<return(z1)>>, <<>>), return(call(2, <<sub(x1, n(1)), y1, add(z1, y1)>>))>>)>>),
   Prog(<<put(call(2, <<a, b, n(3)>>)), put(b)>>,
        <<fn(pars(<<"x", "y", "z">>), <<if(rel("le", x1, n(0)), <<return(z1)>>, <<>>),
              return(add(x1, call(2, <<sub(x1, n(1)), y1, add(z1, y1)>>)))>>)>>),
   Prog(<<array("u", <<a, b>>, 6), put(call(2, <<a, b, whole("u", FALSE), n(1), whole("t", FALSE)>>)), put(elem("u", a)), setElem("u", n(2), b), put(elem("u", n(2)))>>,
        <<fn(<<par("x"), par("y"), arr("p"), par("z"), arr("q")>>,
             <<if(rel("lt", x1, y1), <<setElemP("p", z1, x1), put(y1)>>, <<setElemP("q", n(0), x1)>>), put(x1), return(elemP("p", n(0)))>>)>>),
   Prog(<<set("h", a), put(call(2, <<b>>))>>,
        <<fn(<<par("x")>>, <<if(rel("lt", x1, v("h")), <<return(add(v("h"), n(1)))>>, <<>>), put(v("h")), return(x1)>>)>>),
   Prog(<<put(call(2, <<a, b>>))>>,
        <<fn(<<par("x"), par("y")>>, <<array("u", <<>>, 20), setElem("u", n(0), y1), setElem("u", n(1), x1), setElem("u", n(2), n(3)), if(rel("lt", x1, y1), <<put(y1), return(elem("u", x1))>>, <<>>),
              put(x1), return(elem("u", n(1)))>>)>>),
   Main(<<array("u", <<>>, 20), array("t", <<b>>, 5), setElem("u", n(0), b), decl("x", add(a, b)), put(elem("u", a)), put(x1), put(elem("t", n(0)))>>)}
\* A value stored again, a variable only one branch changes, nested tests.
More ==
  {Prog(<<put(call(2, <<a, b, add(a, n(3))>>)), put(call(2, <<b, a, add(b, n(3))>>))>>,
        <<fn(pars(<<"x", "y", "z">>), <<if(rel("le", x1, n(0)), <<return(z1)>>, <<>>),
              return(add(x1, call(2, <<sub(x1, n(1)), y1, add(z1, y1)>>)))>>)>>),
   Main(<<set("h", a), put(b), set("h", a), put(v("h"))>>),
   Main(<<decl("x", a), if(rel("lt", a, b), <<set("x", n(5))>>, <<>>), put(x1)>>),
   Main(<<decl("x", add(a, b)), decl("y", sub(a, b)), decl("z", mul(a, b)), decl("w", sub(b, a)), put(n(1)),
          if(rel("lt", a, n(1)), <<put(x1), put(y1), if(rel("lt", b, n(2)), <<put(z1), put(v("w"))>>, <<put(v("w")), put(x1)>>), put(z1), put(v("w"))>>,
             <<put(v("w")), put(z1), put(y1), put(x1)>>), put(a), put(x1)>>),
   Main(<<decl("x", a), if(rel("lt", a, b), <<if(eq("eq", b, n(2)), <<set("x", b), put(n(3))>>, <<>>)>>, <<put(n(6))>>), put(x1), put(a)>>)}
\* Any two of these in turn: what one leaves in registers, slots and globals the
\* other finds.
w1 == v("w")
First ==
  {<<set("h", x1)>>, <<setElem("t", n(1), y1)>>, <<set("y", elem("t", n(1)))>>, <<set("x", math("sdiv", y1, n(2)))>>,
   <<if(rel("lt", x1, y1), <<set("x", b)>>, <<put(y1)>>)>>,
   <<if(logic("and", <<rel("gt", y1, n(0)), eq("ne", x1, b)>>), <<more("y", n(1))>>, <<>>)>>,
   <<if(rel("ge", x1, n(2)), <<return(y1)>>, <<>>)>>,
   <<decl("i", n(0)), while(rel("lt", i, n(2)), <<more("x", i), if(eq("eq", x1, b), <<break>>, <<>>), inc("i")>>)>>,
   <<set("x", call(2, <<y1, x1, n(3)>>))>>}
Second ==
  {<<decl("i", n(0)), while(rel("lt", i, a), <<decl("j", n(0)), while(rel("lt", v("j"), n(2)), <<more("x", mul(i, b)), inc("j")>>), inc("i")>>)>>,
   <<decl("i", a), while(rel("gt", i, n(0)), <<if(rel("lt", y1, i), <<set("i", sub(i, n(1))), continue>>, <<>>), more("y", z1), set("i", sub(i, n(1)))>>)>>,
   <<decl("s", n(0)), decl("i", n(0)), while(rel("lt", i, n(2)), <<more("s", add(mul(x1, y1), add(mul(y1, n(3)), mul(x1, n(3))))), inc("i")>>), put(s)>>,
   <<array("u", <<x1, y1>>, 3), set("z", add(elem("u", n(0)), elem("u", a))), put(elem("u", n(2)))>>,
   <<exp(call(4, <<whole("t", FALSE), y1>>)), put(elem("t", n(0)))>>,
   <<set("z", call(5, <<x1, y1>>))>>,
   <<if(rel("lt", x1, y1), <<if(rel("lt", z1, n(2)), <<put(w1), set("w", x1)>>, <<set("z", w1)>>)>>, <<put(n(6))>>)>>,
   <<if(logic("or", <<rel("gt", x1, w1), eq("eq", call(5, <<y1, x1>>), n(1))>>), <<put(n(1))>>, <<put(n(2))>>)>>,
   <<set("x", call(6, <<y1>>))>>}
Called ==
  <<fn(pars(<<"x", "y", "z">>), <<if(rel("le", x1, n(0)), <<return(z1)>>, <<>>), return(call(2, <<sub(x1, n(1)), y1, add(z1, y1)>>))>>),
    fn(<<par("x")>>, <<return(x1)>>),
    fn(<<arr("p"), par("y")>>, <<setElemP("p", n(0), y1), if(rel("lt", y1, n(0)), <<put(elemP("p", n(1)))>>, <<>>)>>),
    fn(pars(<<"x", "y">>), <<if(rel("lt", x1, y1), <<set("h", x1), return(y1)>>, <<>>), return(x1)>>),
    fn(<<par("x")>>, <<if(rel("le", x1, n(0)), <<return(n(1))>>, <<>>), return(add(call(6, <<sub(x1, n(1))>>), v("h")))>>)>>
nest(body) == [k |-> "block", b |-> body]
Combined ==
  {Prog(<<decl("x", a), decl("y", add(a, b)), decl("z", mul(a, b)), decl("w", b), nest(p), nest(q),
          put(x1), put(y1), put(z1), put(w1), put(v("h"))>>, Called) : <<p, q>> \in First \X Second}
Compiled == More \cup Combined \cup MCPrograms \cup Pressing
\* Two calls in one block that hand the same value over on the stack.
MCSameArgument ==
  {Prog(<<put(call(2, <<a, b, n(3)>>)), put(call(2, <<b, a, n(3)>>))>>,
        <<fn(pars(<<"x", "y", "z">>), <<if(rel("le", x1, n(0)), <<return(z1)>>, <<>>),
              return(add(x1, call(2, <<sub(x1, n(1)), y1, add(z1, y1)>>)))>>)>>)}
MachineInputs == {<<0, 2, 1, 3, 2>>, <<1, 0, 2, 2, 1>>, <<2, -1, 3, 0, 4>>}
=============================================================================
