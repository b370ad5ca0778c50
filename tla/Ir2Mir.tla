------------------------------- MODULE Ir2Mir -------------------------------
(***************************************************************************)
(* MBasicBlock::accept() of IR2MIR.cpp and MFunction::accept(): a function *)
(* of the intermediate representation becomes machine code with virtual    *)
(* registers.                                                              *)
(*                                                                         *)
(* The register of a value has its identity.  x is the machine program     *)
(* being built with, besides, map (opMap: what stands for a value that has *)
(* no register of its own), phis (phiMap: the copies due at the end of a   *)
(* block) and discarded (the returns a tail call has replaced).            *)
(***************************************************************************)
EXTENDS MachineCode, Loops

Bytes(t) == IF t = "p" THEN 8 ELSE 4
Bits(t) == 8 * Bytes(t)

\* MFunction::getOperandFor().
OperandFor(x, o) == IF o \in DOMAIN x.map THEN x.map[o]
                    ELSE IF o[1] \in {"i", "a"} THEN <<"v", o[2]>> ELSE o
Emit(x, b, is) == [x EXCEPT !.code[b] = @ \o is]
\* VirtualRegister::createVirtualIRegister().
Fresh(x) == <<"v", x.next>>
MakeRegister(x, w) ==
    [x EXCEPT !.next = @ + 1, !.width = (x.next :> w) @@ @]

\* The arguments of f that go over the stack, in order (preprocess()).
OnStack(args) == SelectSeq(args, LAMBDA a : \E k \in DOMAIN args : args[k] = a /\ k > NParameters)
FixOf(f, k) == <<"x", f, k - NParameters>>

-----------------------------------------------------------------------------
AcceptReturn(x, m, f, b, i) ==
    LET a == m.ins[i].a
    IN  IF i \in x.discarded THEN x
        ELSE Emit(x, b, (IF a = <<>> THEN <<>> ELSE <<MCopy(OperandFor(x, a[1]), R(0), 32)>>)
                        \o <<MCopy(<<"v", x.fn[f].lr>>, LR, 64), MRet(a = <<>>)>>)

\* The comparison must be the last instruction or the one before it.
Comparing(code, depth) == \E k \in 0..(depth - 1) : Len(code) > k /\ code[Len(code) - k].op = "cmp"
Fails(x) == [x EXCEPT !.runs = FALSE]
AcceptBranch(x, m, b, i) ==
    LET a == m.ins[i].a
    IN  IF Len(a) = 1 THEN Emit(x, b, <<MB(a[1][2])>>)
        ELSE IF ~Comparing(x.code[b], 2) THEN Fails(x)
        ELSE Emit(x, b, <<MBCond(Op(m, a[1][2]), a[2][2], a[3][2])>>)
\* A definition that must not be moved.
Fixed(x, i) == [x EXCEPT !.sunk = @ \cup {i}]
AcceptZext(x, m, b, i) ==
    IF ~Comparing(x.code[b], 1) THEN Fails(x)
    ELSE Emit(Fixed(x, i), b, <<MCSET(Op(m, m.ins[i].a[1][2]), <<"v", i>>)>>)

\* acceptPhiInst(): a copy for every pair, kept for the end of its block.
AcceptPhi(x, m, i) ==
    [Fixed(x, i) EXCEPT !.phis = [b \in DOMAIN @ |->
        @[b] \cup {MCopy(OperandFor(x, p[1]), OperandFor(x, <<"i", i>>), Bits(m.ins[i].t)) :
                     p \in {q \in PhiPairs(m.ins[i].a) : q[2] = b}}]]

\* A call of the function itself right before the return of its result, whose
\* place is taken by a branch to the entry.
IsTail(m, f, b, i) ==
    LET k == CHOOSE j \in DOMAIN m.blk[b] : m.blk[b][j] = i
        next == m.blk[b][k + 1]
    IN  /\ Op(m, next) = "ret" /\ m.ins[i].a[1] = <<"f", f>>
        /\ m.ins[next].a = <<>> \/ m.ins[next].a[1] = <<"i", i>>
Handed(x, m, g, args, tail) ==
    LET op(k) == OperandFor(x, args[k])
        w(k) == IF g > 0 THEN Bits(m.fn[g].args[k].t) ELSE 32
        part(lo, hi, do(_)) == [k \in 1..(IF hi < lo THEN 0 ELSE hi - lo + 1) |-> do(lo + k - 1)]
    IN  part(NParameters + 1, Len(args),
             LAMBDA k : [MSTR(op(k), FixOf(g, k), w(k)) EXCEPT !.call = ~tail])
        \o part(1, IF Len(args) < NParameters THEN Len(args) ELSE NParameters,
                LAMBDA k : MCopy(op(k), R(k - 1), w(k)))
LeastOf(j, k) == IF j < k THEN j ELSE k
AcceptCall(x, m, f, b, i) ==
    LET g == m.ins[i].a[1][2]
        args == Tail(m.ins[i].a)
        tail == x.o1 /\ IsTail(m, f, b, i)
        y == Emit(x, b, Handed(x, m, g, args, tail))
    IN  IF tail
        THEN [AddEdge(Emit(y, b, <<MB(Entry(m, f))>>), b, Entry(m, f))
                EXCEPT !.discarded = @ \cup {Terminator(m, b)}]
        ELSE Emit(y, b, <<MBL(g, LeastOf(Len(args), NParameters))>>
                        \o IF m.ins[i].t = "v" THEN <<>>
                           ELSE <<MCopy(R(0), OperandFor(x, <<"i", i>>), 32)>>)

\* An address: an index that is 0 makes it another name of the address it
\* starts from, for what has been and for what will be translated.
SameAs(x, i, o) ==
    [x EXCEPT !.code = ReplaceAllOperands(@, <<"v", i>>, o),
              !.phis = [b \in DOMAIN @ |-> {ReplaceOperand(k, <<"v", i>>, o) : k \in @[b]}],
              !.map = (<<"i", i>> :> o) @@ @]
Latest(y) == <<"v", y.next - 1>>
\* index * 4, then + 0 (A * op + B with the B of no constant); negative indexes
\* keep their sign without -O1 only (ignoreNegativeArrayIndexes).
Scaled(x, b, index) == Emit(MakeRegister(x, 32), b, <<MMathInst("shl", index, <<"c", 2>>, Fresh(x), 32)>>)
PlusFirst(y, b) == Emit(MakeRegister(y, 32), b, <<MMathInst("add", <<"c", 0>>, Latest(y), Fresh(y), 32)>>)
Extended(y, b) == IF y.o1 THEN y ELSE Emit(MakeRegister(y, 64), b, <<MSXTW(Latest(y), Fresh(y))>>)
AddedTo(y, b, frame, t) == Emit(y, b, <<MMathInst("add", frame, Latest(y), t, 64)>>)
AcceptGetElementPtr(x, m, b, i) ==
    LET frame == OperandFor(x, m.ins[i].a[1])
        index == OperandFor(x, Last(m.ins[i].a))
        t == <<"v", i>>
    IN  CASE index = <<"c", 0>> -> SameAs(x, i, frame)
          [] index # <<"c", 0>> /\ index[1] = "c" ->
               Emit(x, b, <<MMathInst("add", frame, <<"c", 4 * index[2]>>, t, 64)>>)
          [] OTHER -> AddedTo(Extended(PlusFirst(Scaled(x, b, index), b), b), b, frame, t)

\* Short ones, 16 bytes at a time.
AcceptMemory(x, m, b, i) ==
    LET a(k) == OperandFor(x, m.ins[i].a[k])
        count == Last(m.ins[i].a)[2] \div 4
    IN  Emit(x, b, IF Op(m, i) = "clear"
                   THEN <<MCopy(a(1), IP0, 64), MInst("clear16", <<>>, <<>>, count)>>
                   ELSE <<MCopy(a(1), IP0, 64), MCopy(a(2), IP1, 64), MInst("copy16", <<>>, <<>>, count)>>)

AcceptInst(x, m, f, b, i) ==
    LET a(k) == OperandFor(x, m.ins[i].a[k])
        op == Op(m, i)
        t == OperandFor(x, <<"i", i>>)
    IN  CASE op = "ret" -> AcceptReturn(x, m, f, b, i)
          [] op = "br" -> AcceptBranch(x, m, b, i)
          [] op = "alloca" -> x
          [] op = "load" -> Emit(Fixed(x, i), b, <<MLDR(t, a(1), Bits(m.ins[i].t))>>)
          [] op = "store" -> Emit(x, b, <<MSTR(a(1), a(2), 32)>>)
          [] op \in Comparison -> Emit(x, b, <<MCMP(a(1), a(2))>>)
          [] op = "phi" -> AcceptPhi(x, m, i)
          [] op = "call" -> AcceptCall(x, m, f, b, i)
          [] op = "gep" -> AcceptGetElementPtr(x, m, b, i)
          [] op = "zext" -> AcceptZext(x, m, b, i)
          [] op \in {"clear", "copy"} -> AcceptMemory(x, m, b, i)
          [] op \in {"madd", "msub"} -> Emit(x, b, <<MMAddSUB(op, t, a(1), a(2), a(3))>>)
          [] OTHER -> Emit(x, b, <<MMathInst(op, a(1), a(2), t, 32)>>)
AcceptBlock(x, m, f, b) == InTurn(LAMBDA y, i : AcceptInst(y, m, f, b, i), x, m.blk[b])

-----------------------------------------------------------------------------
\* mergePhiCopies(): the copies of a block in an order in which none destroys
\* what another still reads; a new register breaks a cycle (module PhiCopies).
Read(C) == {cp.u[1] : cp \in C}
RECURSIVE Sequential(_, _)
Sequential(x, C) ==
    LET free == {cp \in C : cp.d[1] \notin Read(C)}
    IN  IF C = {} THEN [x |-> x, is |-> <<>>]
        ELSE IF free # {}
        THEN LET cp == CHOOSE d \in free : TRUE
                 rest == Sequential(x, C \ {cp})
             IN  [rest EXCEPT !.is = <<cp>> \o @]
        ELSE LET cp == CHOOSE d \in C : TRUE
                 w == x.width[cp.d[1][2]]
                 rest == Sequential(MakeRegister(x, w),
                                    (C \ {cp}) \cup {MCopy(Fresh(x), cp.d[1], cp.w)})
             IN  [rest EXCEPT !.is = <<MCopy(cp.u[1], Fresh(x), w)>> \o @]
MergePhiCopies(x, b) ==
    LET s == Sequential(x, {cp \in x.phis[b] : cp.d[1] # cp.u[1]})
        branches == x.code[b] # <<>> /\ Last(x.code[b]).op = "b"
    IN  [s.x EXCEPT !.code[b] = IF branches THEN Front(@) \o s.is \o <<Last(@)>> ELSE @ \o s.is]

\* The parameters that are used, at the start of the entry block.
TakeParameters(x, m, f) ==
    LET args == m.fn[f].args
        used == {k \in DOMAIN args : Uses(m, <<"a", args[k].id>>) # {}}
        v(k) == <<"v", args[k].id>>
        take(k) == IF k \notin used THEN <<>>
                   ELSE IF k <= NParameters THEN <<MCopy(R(k - 1), v(k), Bits(args[k].t))>>
                   ELSE <<MLDR(v(k), FixOf(f, k), Bits(args[k].t))>>
        stacked == {k \in used : k > NParameters}
    IN  [x EXCEPT !.code[Entry(m, f)] = FlattenSeq([k \in DOMAIN args |-> take(k)]) \o @,
                  !.prefer = [r \in {args[k].id : k \in stacked} |->
                                FixOf(f, CHOOSE k \in stacked : args[k].id = r)] @@ @,
                  !.load = @ \cup {args[k].id : k \in stacked}]

\* The prolog, which has no predecessor and saves the link register.
AddProlog(x, f) ==
    LET p == x.next
        en == Head(x.fn[f].order)
    IN  [x EXCEPT !.code = (p :> <<MCopy(LR, <<"v", x.fn[f].lr>>, 64), MB(en)>>) @@ @,
                  !.pre = (p :> <<>>) @@ [@ EXCEPT ![en] = Append(@, p)],
                  !.suc = (p :> <<en>>) @@ @,
                  !.fn[f].order = <<p>> \o @,
                  !.next = @ + 1]

\* MFunction::accept() goes through the blocks in the order of their addresses.
Allocas(m, f) == SelectSeq(m.blk[Entry(m, f)], LAMBDA i : Op(m, i) = "alloca")
SizeOfSlot(I) == IF I.t = "p" THEN 8 ELSE 4 * I.a[1][2]
WidthsOf(m, f) ==
    [i \in {j \in Insts(m, f) : m.ins[j].t # "v"} |-> Bits(m.ins[i].t)]
    @@ [i \in {a.id : a \in ToSet(m.fn[f].args)} |->
          Bits((CHOOSE a \in ToSet(m.fn[f].args) : a.id = i).t)]
FunctionShell(x, m, f) ==
    LET slots == Allocas(m, f)
        y == [x EXCEPT
                !.fn[f] = [order |-> m.fn[f].order, stack |-> [k \in DOMAIN slots |-> SizeOfSlot(m.ins[slots[k]])],
                           fix |-> [k \in DOMAIN OnStack(m.fn[f].args) |-> Bytes(OnStack(m.fn[f].args)[k].t)],
                           spilled |-> {}, lr |-> x.next, keep |-> {}],
                !.map = [o \in {<<"i", i>> : i \in ToSet(slots)} |->
                           <<"k", CHOOSE k \in DOMAIN slots : slots[k] = o[2]>>] @@ @,
                !.width = WidthsOf(m, f) @@ @]
    IN  MakeRegister(y, 64)
AcceptFunction(x, m, f, backwards) ==
    LET blocks == m.fn[f].order
        inOrder == IF backwards THEN Reverse(blocks) ELSE blocks
        translated == InTurn(LAMBDA y, b : AcceptBlock(y, m, f, b), FunctionShell(x, m, f), inOrder)
        copied == InTurn(LAMBDA y, b : MergePhiCopies(y, b), translated, blocks)
    IN  AddProlog(TakeParameters(copied, m, f), f)

\* Every loop around a block makes it ten times as heavy.
LoopWeight == 10
Weigh(x, f) ==
    LET L == DetectLoops(x, DomTree(Graph(x, f))).loop
        depth(b) == Cardinality({l \in DOMAIN L : b \in L[l].blocks})
    IN  [x EXCEPT !.weight = [b \in Blocks(x, f) |-> LoopWeight ^ depth(b)] @@ @]

\* LocalConstGlobalMatching: the scalars a function and what it calls load and
\* never store.
ConstForSelf(m, info, f) ==
    {g \in info.loads[f] \ info.stores[f] : g[1] = "g" /\ g[2] \in m.scalars}
LocalConstGlobalMatching(x, m, info) ==
    [x EXCEPT !.fn = [f \in DOMAIN @ |-> [@[f] EXCEPT !.keep = ConstForSelf(m, info, f)]]]

\* MModule::accept().
None0 == [n \in {} |-> n]
Shell(m, o1) ==
    [code |-> [b \in DOMAIN m.blk |-> <<>>], pre |-> m.pre, suc |-> m.suc, fn |-> m.fn,
     width |-> None0, prefer |-> None0, load |-> {}, weight |-> None0, next |-> m.next,
     glob |-> m.glob, scalars |-> m.scalars, o1 |-> o1, laid |-> FALSE, runs |-> TRUE,
     map |-> None0, temps |-> {}, sunk |-> {}, phis |-> [b \in DOMAIN m.blk |-> {}], discarded |-> {}]
AcceptModule(x, m, backwards) ==
    InTurn(LAMBDA y, f : Weigh(AcceptFunction(y, m, f, backwards), f), x, Ascending(Functions(m)))
Accept(m, o1, backwards) ==
    LET x == AcceptModule(Shell(m, o1), m, backwards)
    IN  IF o1 THEN LocalConstGlobalMatching(x, m, RunFuncInfo(m)) ELSE x
=============================================================================
