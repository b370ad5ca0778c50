-------------------------------- MODULE Passes --------------------------------
(***************************************************************************)
(* What the passes share: FuncInfo and PassManager.                        *)
(*                                                                         *)
(* A compilation c is a record: m the program; dom and loops what          *)
(* getFuncInfo() keeps for the functions it was asked about; info what     *)
(* getGlobalInfo() keeps of FuncInfo (<<>> when nothing); o1, whether -O1  *)
(* was asked for; runs, FALSE once the compiler itself has gone wrong.  A  *)
(* pass that changes what an information is about must flush it, or the    *)
(* next pass is answered from the old one.                                 *)
(***************************************************************************)
EXTENDS IRCode

-----------------------------------------------------------------------------
(* FuncInfo: which globals and pointer arguments every function may load   *)
(* from and store to, itself or through its callees, and whether it        *)
(* reaches a function of the runtime library; and how the passes bring     *)
(* what they keep of it up to date after changing some functions.          *)
(*                                                                         *)
(* An information is a record of functions on the program's functions:     *)
(* loads and stores (sets of operands <<"g", n>> and <<"a", id>>) and      *)
(* impure.                                                                 *)

CallsOf(m, f) == {i \in DOMAIN m.ins : Op(m, i) = "call" /\ m.ins[i].a[1] = <<"f", f>>}
FunctionWith(m, i) == CHOOSE f \in Functions(m) : i \in Insts(m, f)
Callers(m, f) == {FunctionWith(m, i) : i \in CallsOf(m, f)}
IsLib(f) == f < 0

Globals(m) == {o \in UNION {ToSet(m.ins[i].a) : i \in DOMAIN m.ins} : o[1] = "g"}
\* The private constant an array is initialised from is only ever copied.
ConstGlobals(m) == {m.ins[i].a[1] : i \in {j \in DOMAIN m.ins : Op(m, j) = "copy"}}
Pointers(m, f) == {<<"a", p.id>> : p \in {q \in ToSet(m.fn[f].args) : q.t = "p"}}

\* spMap: the variable an address is made from (the operands of a phi of
\* addresses are made from one variable).
RECURSIVE Traced(_, _)
Traced(m, o) ==
    IF o[1] = "i" /\ m.ins[o[2]].t = "p" /\ Op(m, o[2]) \in {"gep", "phi"}
    THEN Traced(m, m.ins[o[2]].a[1]) ELSE o
\* ptrFrom(): the same, but of an argument itself nullptr is returned.
Null == <<"null">>
PtrFrom(m, o) == IF o[1] = "a" THEN Null ELSE Traced(m, o)
From(m, ops, V) == {Traced(m, o) : o \in ops} \cap V

\* spread(), spreadLoadsIn(), spreadGlobalIn(): what the instructions of f do
\* themselves to the variables V; a library function may do both to an argument.
OperandsOf(m, f, ops, k) == {m.ins[i].a[k] : i \in {j \in Insts(m, f) : Op(m, j) \in ops}}
ToLibrary(m, f) ==
    UNION {ToSet(Tail(m.ins[i].a)) :
             i \in {j \in Insts(m, f) : Op(m, j) = "call" /\ IsLib(m.ins[j].a[1][2])}}
OwnLoads(m, f, V) ==
    From(m, OperandsOf(m, f, {"load", "copy"}, 1) \cup ToLibrary(m, f), V)
OwnStores(m, f, V) ==
    From(m, OperandsOf(m, f, {"store", "copy"}, 2) \cup OperandsOf(m, f, {"clear"}, 1)
              \cup ToLibrary(m, f), V)

\* One turn of the worklist: what f does, its callers do to the operands they
\* pass.
ToCaller(m, S, i) ==
    {v \in S : v[1] = "g"}
      \cup UNION {LET k == CHOOSE k \in DOMAIN m.fn[m.ins[i].a[1][2]].args :
                            m.fn[m.ins[i].a[1][2]].args[k].id = v[2]
                      o == Traced(m, m.ins[i].a[k + 1])
                  IN  IF o[1] = "g" \/ o \in Pointers(m, FunctionWith(m, i)) THEN {o} ELSE {} :
                    v \in {w \in S : w[1] = "a"}}
Passed(m, use, f, g) ==
    use[g] \cup UNION {ToCaller(m, use[f], i) : i \in {c \in CallsOf(m, f) : FunctionWith(m, c) = g}}

RECURSIVE Propagate(_, _, _)
Propagate(m, use, work) ==
    IF work = {} THEN use
    ELSE LET f == Min(work)
             next == [g \in DOMAIN use |-> IF g \in Callers(m, f) THEN Passed(m, use, f, g) ELSE use[g]]
         IN  Propagate(m, next, (work \ {f}) \cup {g \in DOMAIN use : next[g] # use[g]})

RECURSIVE PropagateImpure(_, _, _)
PropagateImpure(m, impure, work) ==
    IF work = {} THEN impure
    ELSE LET f == Min(work)
             new == IF impure[f] THEN {g \in Callers(m, f) : ~impure[g]} ELSE {}
         IN  PropagateImpure(m, [g \in DOMAIN impure |-> impure[g] \/ g \in new], (work \ {f}) \cup new)

CallsLibrary(m, f) ==
    \E i \in Insts(m, f) : Op(m, i) = "call" /\ IsLib(m.ins[i].a[1][2])

\* FuncInfo::run()
RunFuncInfo(m) ==
    LET F == Functions(m)
        V(f) == (Globals(m) \ ConstGlobals(m)) \cup Pointers(m, f)
    IN  [loads  |-> Propagate(m, [f \in F |-> OwnLoads(m, f, V(f))], F),
         stores |-> Propagate(m, [f \in F |-> OwnStores(m, f, V(f))], F),
         impure |-> PropagateImpure(m, [f \in F |-> CallsLibrary(m, f)], F)]

\* The functions of F and everything that calls them.
RECURSIVE WithCallers(_, _)
WithCallers(m, F) ==
    LET G == F \cup UNION {Callers(m, f) : f \in F}
    IN  IF G = F THEN F ELSE WithCallers(m, G)

\* flushAbout(): forgets what was known of the changed functions and of their
\* callers, looks at their instructions again, and propagates from them (not
\* from the functions they call).
FlushAbout(m, fi, changed) ==
    LET F == WithCallers(m, changed)
        V(f) == Globals(m) \cup Pointers(m, f)
        own(old, Own(_, _, _)) == [f \in DOMAIN old |-> IF f \in F THEN Own(m, f, V(f)) ELSE old[f]]
    IN  [loads  |-> Propagate(m, own(fi.loads, OwnLoads), F),
         stores |-> Propagate(m, own(fi.stores, OwnStores), F),
         impure |-> PropagateImpure(m, [f \in DOMAIN fi.impure |->
                                          CallsLibrary(m, f) \/ (f \notin F /\ fi.impure[f])], F)]

\* flushLoadsAbout(): the same for what they load.
FlushLoadsAbout(m, fi, changed) ==
    LET F == WithCallers(m, changed)
        V(f) == (Globals(m) \ ConstGlobals(m)) \cup Pointers(m, f)
    IN  [fi EXCEPT !.loads = Propagate(m, [f \in DOMAIN @ |-> IF f \in F THEN OwnLoads(m, f, V(f))
                                                              ELSE @[f]], F)]

\* removeFunc()
RemoveFunc(fi, F) ==
    LET keep(x) == [f \in DOMAIN x \ F |-> x[f]]
    IN  [loads |-> keep(fi.loads), stores |-> keep(fi.stores), impure |-> keep(fi.impure)]

UseOrIsImpureLib(fi, f) == IsLib(f) \/ fi.impure[f]
StoresNothing(fi, f) == IsLib(f) \/ fi.stores[f] = {}
IsPureFunction(fi, f) == ~IsLib(f) /\ fi.loads[f] = {} /\ fi.stores[f] = {} /\ ~fi.impure[f]

-----------------------------------------------------------------------------
Compilation(m, o1) == [m |-> m, dom |-> <<>>, loops |-> <<>>, info |-> <<>>, o1 |-> o1, runs |-> TRUE]

\* LTDominatorTreeSolver: blocks without a predecessor are removed first.
RECURSIVE RemoveUnreached(_, _)
RemoveUnreached(m, f) ==
    LET B == {b \in Blocks(m, f) \ {Entry(m, f)} : m.pre[b] = <<>>}
    IN  IF B = {} THEN m
        ELSE RemoveUnreached(InTurn(LAMBDA x, b : RemoveBlock(x, f, b), m, Ascending(B)), f)

\* getFuncInfo<Dominators>()
GetDominators(c, f) ==
    IF f \in DOMAIN c.dom THEN c
    ELSE LET m == RemoveUnreached(c.m, f)
         IN  [c EXCEPT !.m = m, !.dom = (f :> DomTree(Graph(m, f))) @@ @]

\* getGlobalInfo<FuncInfo>()
GetFuncInfo(c) == IF c.info # <<>> THEN c ELSE [c EXCEPT !.info = RunFuncInfo(c.m)]

FlushGlobalInfo(c) == [c EXCEPT !.info = <<>>]
\* flushFuncInfo(f): everything kept about f; flushFuncInfo<Dominators>().
FlushFunc(c, f) == [c EXCEPT !.dom = [g \in DOMAIN @ \ {f} |-> @[g]],
                             !.loops = [g \in DOMAIN @ \ {f} |-> @[g]]]
FlushDominators(c, f) == [c EXCEPT !.dom = [g \in DOMAIN @ \ {f} |-> @[g]]]
FlushAllInfo(c) == Compilation(c.m, c.o1)

\* The elements of S, the cheapest first.
SortedBy(S, cost(_)) ==
    LET Next(R) == CHOOSE x \in R : \A y \in R : cost(x) < cost(y) \/ (cost(x) = cost(y) /\ x <= y)
    IN  InTurn(LAMBDA s, k : Append(s, Next(S \ ToSet(s))), <<>>, [k \in 1..Cardinality(S) |-> k])

\* Instruction::copy(valMap): a copy of i, at position x.at of block b, of what
\* x.val has for its operands.
CopyInst(x, i, b) ==
    LET I == x.m.ins[i]
        a == [k \in DOMAIN I.a |-> IF I.a[k] \in DOMAIN x.val THEN x.val[I.a[k]] ELSE I.a[k]]
    IN  [m |-> Insert(x.m, b, x.at, I.op, a, I.t), at |-> x.at + 1,
         val |-> (<<"i", i>> :> NewId(x.m)) @@ x.val]

\* The functions of the program in order.
FunctionList(m) == Ascending(Functions(m))
ForFunctions(c, Do(_, _)) == InTurn(Do, c, FunctionList(c.m))
===============================================================================
