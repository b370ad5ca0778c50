------------------------------- MODULE IRCode -------------------------------
(***************************************************************************)
(* The intermediate representation the passes of src/ir/pass rewrite, and  *)
(* what a program in it means.                                             *)
(*                                                                         *)
(* A program m is a record:                                                *)
(*   ins  the instructions by identity: op, the list a of operands, and t, *)
(*        the type of the value (i integer, b truth value, p pointer, v    *)
(*        none; of an alloca: what it reserves, i, p or a for an array);   *)
(*   blk  the basic blocks by identity: the list of their instructions,    *)
(*        phis and allocas first, the terminator last;                     *)
(*   pre, suc  the lists pre_bbs_ and succ_bbs_ of every block, kept apart *)
(*        from the operands of the branches as in the code;                *)
(*   fn   the functions: args, the identities and types of the arguments,  *)
(*        and order, the list of their blocks, the entry block first;      *)
(*   glob the initial values of the global variables by address, scalars   *)
(*        the addresses of those that are no arrays;                       *)
(*   next the next fresh identity.                                         *)
(*                                                                         *)
(* An operand is a pair: <<"i", id>> the value of an instruction,          *)
(* <<"a", id>> an argument, <<"c", n>> a constant, <<"b", b>> a block,     *)
(* <<"g", n>> the address of a global variable, <<"f", n>> a function.     *)
(* An address (gep) from an array has the index 0 before that of the       *)
(* element; from a pointer it has the latter only.                         *)
(* Function 1 is main; -1 is putint and -2 getint of the runtime library.  *)
(***************************************************************************)
EXTENDS Word, DominatorTree

Entry(m, f) == m.fn[f].order[1]
Blocks(m, f) == ToSet(m.fn[f].order)
Functions(m) == DOMAIN m.fn
FunctionOf(m, b) == CHOOSE f \in Functions(m) : b \in Blocks(m, f)
BlockOf(m, i) == CHOOSE b \in DOMAIN m.blk : i \in ToSet(m.blk[b])
Insts(m, f) == UNION {ToSet(m.blk[b]) : b \in Blocks(m, f)}
Terminator(m, b) == Last(m.blk[b])
Op(m, i) == m.ins[i].op
Phis(m, b) == SelectSeq(m.blk[b], LAMBDA i : Op(m, i) = "phi")
Graph(m, f) == [entry |-> Entry(m, f),
                suc |-> [b \in Blocks(m, f) |-> m.suc[b]],
                pre |-> [b \in Blocks(m, f) |-> m.pre[b]]]

Commutative == {"add", "mul", "mull", "eq", "ne"}
Arithmetical == {"add", "sub", "mul", "sdiv", "srem"}
Comparison == {"lt", "le", "gt", "ge", "eq", "ne"}

\* Value::get_use_list(): who uses v, and as which operand.
Uses(m, v) == {<<i, k>> \in (DOMAIN m.ins) \X (1..8) :
                 k \in DOMAIN m.ins[i].a /\ m.ins[i].a[k] = v}
Users(m, v) == {u[1] : u \in Uses(m, v)}

\* Value::replace_all_use_with() and replaceAllOperandMatchs().
ReplaceIn(m, I, v, w) ==
    [m EXCEPT !.ins = [i \in DOMAIN @ |->
        IF i \in I /\ \E k \in DOMAIN @[i].a : @[i].a[k] = v
        THEN [@[i] EXCEPT !.a = [k \in DOMAIN @ |-> IF @[k] = v THEN w ELSE @[k]]]
        ELSE @[i]]]
ReplaceUses(m, v, w) == IF v = w THEN m ELSE ReplaceIn(m, DOMAIN m.ins, v, w)

\* BasicBlock::erase_instr() and the delete that follows it.
Erase(m, I) ==
    [m EXCEPT !.ins = [i \in DOMAIN @ \ I |-> @[i]],
              !.blk = [b \in DOMAIN @ |-> IF ToSet(@[b]) \cap I = {} THEN @[b]
                                          ELSE SelectSeq(@[b], LAMBDA i : i \notin I)]]

\* A new instruction at position k of block b; its identity is m.next.
Insert(m, b, k, op, a, t) ==
    [m EXCEPT !.ins = (m.next :> [op |-> op, a |-> a, t |-> t]) @@ @,
              !.blk[b] = InsertAt(@, k, m.next),
              !.next = @ + 1]
NewId(m) == <<"i", m.next>>
PhiEnd(m, b) == 1 + Len(SelectSeq(m.blk[b], LAMBDA i : Op(m, i) \in {"phi", "alloca"}))
Without(s, x) == SelectSeq(s, LAMBDA y : y # x)

\* PhiInst: the pairs (value, block) of a phi are its operands in turn.
PhiPairs(a) == {<<a[2 * k - 1], a[2 * k][2]>> : k \in 1..(Len(a) \div 2)}
\* What the phi i takes from b.
PhiVal(m, i, b) ==
    IF \E p \in PhiPairs(m.ins[i].a) : p[2] = b
    THEN (CHOOSE p \in PhiPairs(m.ins[i].a) : p[2] = b)[1] ELSE <<"c", Garbage>>
\* remove_phi_operand(): drop the pairs that come from a block of S.
DropPairs(a, S) ==
    FlattenSeq([k \in 1..(Len(a) \div 2) |->
                  IF a[2 * k][2] \in S THEN <<>> ELSE <<a[2 * k - 1], a[2 * k]>>])

\* Function::remove(): unlinks the block and drops what phis take from it.
RemoveBlock(m, f, b) ==
    LET n == Erase(m, ToSet(m.blk[b]))
        keep(x) == [c \in DOMAIN x \ {b} |-> Without(x[c], b)]
    IN  [n EXCEPT !.blk = [c \in DOMAIN @ \ {b} |-> @[c]],
                  !.pre = keep(@), !.suc = keep(@),
                  !.fn[f].order = Without(@, b),
                  !.ins = [i \in DOMAIN @ |-> IF @[i].op = "phi"
                                              THEN [@[i] EXCEPT !.a = DropPairs(@, {b})]
                                              ELSE @[i]]]

\* Functions and all that is in them (Module's list of functions, ~Function).
RemoveFunctions(m, F) ==
    LET n == Erase(m, UNION {Insts(m, f) : f \in F})
        blocks == UNION {Blocks(m, f) : f \in F}
        keep(x) == [b \in DOMAIN x \ blocks |-> x[b]]
    IN  [n EXCEPT !.blk = keep(@), !.pre = keep(@), !.suc = keep(@),
                  !.fn = [f \in DOMAIN @ \ F |-> @[f]]]

\* One edge of the graph, without the branch that stands for it.
RemoveEdge(m, from, to) == [m EXCEPT !.suc[from] = Without(@, to), !.pre[to] = Without(@, from)]
AddEdge(m, from, to) ==
    IF to \in ToSet(m.suc[from]) THEN m
    ELSE [m EXCEPT !.suc[from] = Append(@, to), !.pre[to] = Append(@, from)]

\* BasicBlock::redirect_suc_basic_block(): from's branches to `old` go to `new`.
Redirect(m, from, old, new) ==
    IF \E k \in DOMAIN m.ins[Terminator(m, from)].a :
          m.ins[Terminator(m, from)].a[k] = <<"b", old>>
    THEN [ReplaceIn(m, {Terminator(m, from)}, <<"b", old>>, <<"b", new>>)
            EXCEPT !.suc[from] = Append(Without(@, old), new),
                   !.pre = [@ EXCEPT ![old] = Without(@, from),
                                     ![new] = Append(@, from)]]
    ELSE m

\* A new block of f without predecessors whose only instruction branches to `to`
\* (BranchInst::create_br links both lists); its identity is m.next.
NewBlockTo(m, f, to) ==
    LET b == m.next
    IN  [m EXCEPT !.blk = (b :> <<b + 1>>) @@ @,
                  !.ins = ((b + 1) :> [op |-> "br", a |-> <<<<"b", to>>>>, t |-> "v"]) @@ @,
                  !.pre = (b :> <<>>) @@ [@ EXCEPT ![to] = Append(@, b)],
                  !.suc = (b :> <<to>>) @@ @,
                  !.fn[f].order = Append(@, b),
                  !.next = @ + 2]

\* BasicBlock::add_block_before(bb, stillGotoSelf): the predecessors of `self`
\* outside `keep` go to the new block bb, whose phis gather what they brought.
SplitPhi(m, bb, keep, i) ==
    LET pairs == PhiPairs(m.ins[i].a)
        self == {p \in pairs : p[2] \in keep}
        mine == pairs \ self
        list(P) == FlattenSeq([k \in 1..Cardinality(P) |->
                      LET b == Ascending({p[2] : p \in P})[k]
                      IN  <<(CHOOSE p \in P : p[2] = b)[1], <<"b", b>>>>])
        n == Insert(m, bb, PhiEnd(m, bb), "phi", list(mine), m.ins[i].t)
    IN  IF Cardinality(mine) = 1
        THEN ReplaceIn(m, {i}, <<"b", (CHOOSE p \in mine : TRUE)[2]>>, <<"b", bb>>)
        ELSE IF self = {} THEN Erase(ReplaceUses(n, <<"i", i>>, NewId(m)), {i})
        ELSE [n EXCEPT !.ins[i].a = list(self) \o <<NewId(m), <<"b", bb>>>>]
AddBlockBefore(m, self, bb, keep) ==
    LET m1 == InTurn(LAMBDA x, i : SplitPhi(x, bb, keep, i), m, Phis(m, self))
        m2 == InTurn(LAMBDA x, p : IF p \in keep \cup {bb} THEN x ELSE Redirect(x, p, self, bb),
                     m1, m.pre[self])
    IN  m2

-----------------------------------------------------------------------------
(***************************************************************************)
(* What a program means: the integers it prints and the value main returns *)
(* for the integers it reads.                                              *)
(***************************************************************************)
ValueOf(env, o) ==
    CASE o[1] \in {"i", "a"} /\ o \in DOMAIN env -> env[o]
      [] o[1] \in {"i", "a"} /\ o \notin DOMAIN env -> Garbage
      [] OTHER -> o[2]

\* s: memory, first free address of the stack, what was printed, what is left
\* to read, steps left, the value returned last.
RECURSIVE RunBlock(_, _, _, _, _)
Arguments(formal, args) ==
    [o \in {<<"a", formal[k].id>> : k \in DOMAIN formal} |->
       args[CHOOSE k \in DOMAIN formal : formal[k].id = o[2]]]
Call(m, f, args, s) ==
    CASE f = -1 -> [s EXCEPT !.out = Append(@, args[1])]
      [] f = -2 -> [s EXCEPT !.in = Tail(@), !.ret = Head(s.in)]
      [] OTHER -> RunBlock(m, Entry(m, f), 0, Arguments(m.fn[f].args, args), s)

\* An instruction I with the operands v in the state x.s.
Result(val, s) == [val |-> <<val>>, s |-> s]
Effect(s) == [val |-> <<>>, s |-> s]
Returned(I, s) == IF I.t = "v" THEN Effect(s) ELSE Result(s.ret, s)
Execute(m, I, v, s) ==
    CASE I.op = "alloca" -> Result(s.top, [s EXCEPT !.top = @ + v[1]])
      [] I.op = "load"   -> Result(ReadMem(s, v[1]), s)
      [] I.op = "store"  -> Effect([s EXCEPT !.mem = (v[2] :> v[1]) @@ @])
      [] I.op = "gep"    -> Result(v[1] + v[Len(v)], s)
      [] I.op = "clear"  -> Effect([s EXCEPT !.mem = [p \in v[1]..(v[1] + v[2] - 1) |-> 0] @@ @])
      [] I.op = "copy"   ->
           Effect([s EXCEPT !.mem = [p \in v[2]..(v[2] + v[3] - 1) |->
                                       ReadMem(s, v[1] + p - v[2])] @@ @])
      [] I.op = "zext"   -> Result(v[1], s)
      [] I.op = "madd"   -> Result(Wrap(v[1] * v[2] + v[3]), s)
      [] I.op = "msub"   -> Result(Wrap(v[3] - v[1] * v[2]), s)
      [] I.op = "call"   -> Returned(I, Call(m, v[1], Tail(v), s))
      [] OTHER -> Result(Compute(I.op, v[1], v[2]), s)
Record(x, i, r) ==
    [env |-> IF r.val = <<>> THEN x.env ELSE (<<"i", i>> :> r.val[1]) @@ x.env, s |-> r.s]
\* Nothing more happens in an execution whose steps are used up.
Perform(m, x, i) ==
    IF x.s.fuel = 0 THEN x
    ELSE Record(x, i, Execute(m, m.ins[i],
                              [k \in DOMAIN m.ins[i].a |-> ValueOf(x.env, m.ins[i].a[k])], x.s))

\* The block b entered from `from`: phis read together, then the body, then on.
WithPhis(m, b, from, env) ==
    [o \in {<<"i", i>> : i \in ToSet(Phis(m, b))} |-> ValueOf(env, PhiVal(m, o[2], from))] @@ env
Body(m, b) == SelectSeq(m.blk[b], LAMBDA i : Op(m, i) \notin {"phi", "br", "ret"})
GoOn(m, b, T, x) ==
    IF T.op = "ret" THEN IF T.a = <<>> THEN x.s ELSE [x.s EXCEPT !.ret = ValueOf(x.env, T.a[1])]
    ELSE RunBlock(m, IF Len(T.a) = 1 THEN T.a[1][2]
                     ELSE IF ValueOf(x.env, T.a[1]) # 0 THEN T.a[2][2] ELSE T.a[3][2],
                  b, x.env, x.s)
RunBlock(m, b, from, env, s) ==
    IF s.fuel = 0 THEN s
    ELSE GoOn(m, b, m.ins[Terminator(m, b)],
              InTurn(LAMBDA x, i : Perform(m, x, i),
                     [env |-> WithPhis(m, b, from, env), s |-> [s EXCEPT !.fuel = @ - 1]],
                     Body(m, b)))

Observed(s) == [out |-> s.out, ret |-> s.ret, ends |-> s.fuel > 0]
Run(m, in, fuel) ==
    Observed(Call(m, 1, <<>>, [mem |-> m.glob, top |-> 100, out |-> <<>>,
                               in |-> in, fuel |-> fuel, ret |-> 0]))

-----------------------------------------------------------------------------
(***************************************************************************)
(* What the representation must always be: the lists of predecessors and   *)
(* successors agree with the branches, a phi has one pair for every        *)
(* predecessor, and a value is defined on every path to its use.           *)
(***************************************************************************)
Targets(m, b) == {o[2] : o \in {p \in ToSet(m.ins[Terminator(m, b)].a) : p[1] = "b"}}

RECURSIVE Closure(_, _)
Closure(suc, S) ==
    LET N == S \cup UNION {ToSet(suc[b]) : b \in S}
    IN  IF N = S THEN S ELSE Closure(suc, N)
\* The blocks the entry reaches without passing through a.
ReachAvoiding(m, f, a) ==
    IF a = Entry(m, f) THEN {}
    ELSE Closure([b \in Blocks(m, f) |-> Without(m.suc[b], a)], {Entry(m, f)})
Reachable(m, f) == Closure(m.suc, {Entry(m, f)})

GraphAgrees(m, f) ==
    \A b \in Blocks(m, f) :
       /\ Op(m, Terminator(m, b)) \in {"br", "ret"}
       /\ Op(m, Terminator(m, b)) = "br" => ToSet(m.suc[b]) = Targets(m, b)
       /\ Op(m, Terminator(m, b)) = "ret" => m.suc[b] = <<>>
       /\ \A c \in Blocks(m, f) : (c \in ToSet(m.suc[b])) <=> (b \in ToSet(m.pre[c]))
       /\ IsInjective(m.pre[b]) /\ IsInjective(m.suc[b])
       /\ ToSet(m.suc[b]) \cup ToSet(m.pre[b]) \subseteq Blocks(m, f)

PhisAgree(m, f) ==
    \A b \in Blocks(m, f) : \A i \in ToSet(Phis(m, b)) :
       /\ {p[2] : p \in PhiPairs(m.ins[i].a)} = ToSet(m.pre[b])
       /\ Cardinality(PhiPairs(m.ins[i].a)) = Len(m.pre[b])

DefsReachUses(m, f) ==
    \A b \in Blocks(m, f) : \A k \in DOMAIN m.blk[b] :
       LET i == m.blk[b][k]
           \* where an operand must be available: before position n of block c
           at(c, n, o) == o[1] # "i" \/
              LET d == BlockOf(m, o[2])
              IN  IF d = c THEN \E j \in 1..(n - 1) : m.blk[c][j] = o[2]
                  ELSE c \notin ReachAvoiding(m, f, d)
       IN  /\ \A o \in ToSet(m.ins[i].a) : o[1] = "i" => o[2] \in Insts(m, f)
           /\ IF Op(m, i) = "phi"
              THEN \A p \in PhiPairs(m.ins[i].a) : at(p[2], Len(m.blk[p[2]]), p[1])
              ELSE \A o \in ToSet(m.ins[i].a) : at(b, k, o)

WellFormed(m) ==
    /\ \A b \in DOMAIN m.blk : IsInjective(m.blk[b]) /\ ToSet(m.blk[b]) \subseteq DOMAIN m.ins
    /\ \A f \in Functions(m) : GraphAgrees(m, f) /\ PhisAgree(m, f) /\ DefsReachUses(m, f)
=============================================================================
