------------------------------ MODULE DeadCode ------------------------------
(***************************************************************************)
(* DeadCode: unreachable blocks, then - until nothing changes -            *)
(* instructions nobody needs, local variables nobody loads and arguments   *)
(* nobody uses; at the end functions nobody calls.  What the functions of  *)
(* the program do to memory comes from FuncInfo, which the pass brings up  *)
(* to date itself.                                                         *)
(***************************************************************************)
EXTENDS Passes

\* ~BasicBlock and ~BranchInst: the removed block leaves its successors' lists.
ClearBasicBlocks(c, f) ==
    LET live == Closure(c.m.suc, {Entry(c.m, f)})
        gone == Blocks(c.m, f) \ live
        m1 == InTurn(LAMBDA x, b : RemoveBlock(x, f, b), c.m, Ascending(gone))
        single == UNION {ToSet(Phis(m1, b)) : b \in {d \in live : Len(m1.pre[d]) <= 1}}
        Replace(x, i) == ReplaceUses(x, <<"i", i>>, x.ins[i].a[1])
        m2 == Erase(InTurn(Replace, m1, Ascending(single)), single)
    IN  IF gone = {} THEN [c EXCEPT !.m = m2] ELSE FlushFunc([c EXCEPT !.m = m2], f)

-----------------------------------------------------------------------------
(* The rest of the pass works on d: m, info, and the functions on the three *)
(* worklists (insts, allocas, params) - the last two of which stay empty     *)
(* without -O1 -, and whether a round changed anything.                      *)
Listed(o1, F) == IF o1 THEN F ELSE {}

IsCritical(m, info, i) ==
    LET callee == m.ins[i].a[1][2]
    IN  \/ Op(m, i) \in {"br", "ret", "store", "copy", "clear"}
        \/ Op(m, i) = "call" /\ (UseOrIsImpureLib(info, callee) \/ ~StoresNothing(info, callee))

RECURSIVE Needed(_, _)
Needed(m, I) ==
    LET J == I \cup {o[2] : o \in {p \in UNION {ToSet(m.ins[i].a) : i \in I} : p[1] = "i"}}
    IN  IF J = I THEN I ELSE Needed(m, J)

\* mark() and sweep()
Unneeded(m, info, f) ==
    Insts(m, f) \ Needed(m, {i \in Insts(m, f) : IsCritical(m, info, i)})

\* clear_instructions() of every function on its list; what changed may load
\* less from now on.
ClearInstructions(d) ==
    LET unneeded == [f \in d.insts |-> Unneeded(d.m, d.info, f)]
        changed == {f \in d.insts : unneeded[f] # {}}
        m == Erase(d.m, UNION {unneeded[f] : f \in changed})
    IN  [d EXCEPT !.m = m, !.insts = {},
                  !.params = @ \cup Listed(d.o1, changed), !.allocas = @ \cup Listed(d.o1, changed),
                  !.change = changed # {},
                  !.info = IF changed = {} THEN @ ELSE FlushLoadsAbout(m, @, changed)]

\* eraseValue(): everything computed from v goes, but a call gets a zero and its
\* callee another look at its arguments.
RECURSIVE ComputedFrom(_, _)
ComputedFrom(m, V) ==
    LET next == V \cup {<<"i", i>> : i \in {j \in DOMAIN m.ins :
                  Op(m, j) # "call" /\ ToSet(m.ins[j].a) \cap V # {}}}
    IN  IF next = V THEN V ELSE ComputedFrom(m, next)
EraseValue(d, v) ==
    LET V == ComputedFrom(d.m, {v})
        calls == {i \in DOMAIN d.m.ins : Op(d.m, i) = "call" /\ ToSet(d.m.ins[i].a) \cap V # {}}
        Zero(I) == [I EXCEPT !.a = [k \in DOMAIN @ |-> IF @[k] \in V THEN <<"c", 0>> ELSE @[k]]]
        m == [d.m EXCEPT !.ins = [i \in DOMAIN @ |-> IF i \in calls THEN Zero(@[i]) ELSE @[i]]]
    IN  [d EXCEPT !.m = Erase(m, {o[2] : o \in {p \in V : p[1] = "i"}}),
                  !.params = @ \cup {d.m.ins[i].a[1][2] : i \in calls}]

\* clear_not_use_allocas(): a local variable that is only stored to.
RECURSIVE AddressesOf(_, _)
AddressesOf(m, V) ==
    LET next == V \cup {<<"i", i>> : i \in {j \in DOMAIN m.ins : Op(m, j) = "gep" /\ m.ins[j].a[1] \in V}}
    IN  IF next = V THEN V ELSE AddressesOf(m, next)
HaveLoad(m, i) ==
    LET V == AddressesOf(m, {<<"i", i>>})
    IN  \E j \in DOMAIN m.ins : \/ Op(m, j) \in {"load", "copy"} /\ m.ins[j].a[1] \in V
                                \/ Op(m, j) = "call" /\ ToSet(m.ins[j].a) \cap V # {}
ClearNotUseAllocas(d0, f) ==
    LET allocas == {i \in ToSet(d0.m.blk[Entry(d0.m, f)]) : Op(d0.m, i) = "alloca"}
        Clear(d, i) == IF HaveLoad(d.m, i) THEN d
                       ELSE [EraseValue(d, <<"i", i>>) EXCEPT !.change = TRUE, !.insts = @ \cup {f}]
    IN  InTurn(Clear, d0, Ascending(allocas))

\* clear_parameters(): an argument without a use, or a pointer nothing is stored
\* to or loaded from.
Used(m, v) == \E i \in DOMAIN m.ins : v \in ToSet(m.ins[i].a)
RemoveArg(d, f, p) ==
    LET k == CHOOSE n \in DOMAIN d.m.fn[f].args : d.m.fn[f].args[n].id = p
        calls == CallsOf(d.m, f)
    IN  [d EXCEPT !.m.fn[f].args = RemoveAt(@, k),
                  !.m.ins = [i \in DOMAIN @ |-> IF i \in calls
                                                THEN [@[i] EXCEPT !.a = RemoveAt(@, k + 1)] ELSE @[i]],
                  !.insts = @ \cup Callers(d.m, f), !.change = TRUE]
ClearParameters(d0, f) ==
    LET Clear(d, arg) ==
            LET v == <<"a", arg.id>>
            IN  CASE ~Used(d.m, v) -> RemoveArg(d, f, arg.id)
                  [] Used(d.m, v) /\ arg.t = "p" /\ v \notin d.info.stores[f] \cup d.info.loads[f] ->
                       EraseValue(RemoveArg(d, f, arg.id), v)
                  [] OTHER -> d
    IN  InTurn(Clear, d0, d0.m.fn[f].args)

RECURSIVE ClearAllParameters(_)
ClearAllParameters(d) ==
    IF d.params = {} THEN d
    ELSE LET f == Min(d.params)
         IN  ClearAllParameters(ClearParameters([d EXCEPT !.params = @ \ {f}], f))

\* clear_not_use_allocas() of all functions still to be looked at.
ClearAllAllocas(d) ==
    InTurn(ClearNotUseAllocas, [d EXCEPT !.allocas = {}], Ascending(d.allocas))

RECURSIVE Rounds(_)
AfterParameters(d) == IF d.change THEN Rounds(d) ELSE d
AfterAllocas(d) == IF d.change THEN Rounds(d) ELSE AfterParameters(ClearAllParameters(d))
Rounds(d) == AfterAllocas(ClearAllAllocas(ClearInstructions(d)))

\* sweep_globally(): functions without a caller (calls among the removed ones
\* keep a function for the next time).
SweepGlobally(c) ==
    LET gone == {f \in Functions(c.m) \ {1} : CallsOf(c.m, f) = {}}
    IN  InTurn(FlushFunc, [c EXCEPT !.m = RemoveFunctions(@, gone), !.info = RemoveFunc(@, gone)], Ascending(gone))

\* DeadCode::run()
AllFunctions(c, F) ==
    Rounds([m |-> c.m, info |-> c.info, o1 |-> c.o1, insts |-> F, allocas |-> Listed(c.o1, F),
            params |-> Listed(c.o1, F), change |-> FALSE])
AboutChanged(c, F) == IF F = {} THEN c ELSE [c EXCEPT !.info = FlushAbout(c.m, c.info, F)]
ChangedFrom(m0, m) == {f \in Functions(m0) : Blocks(m, f) # Blocks(m0, f)}
ClearGlobally(c) == AllFunctions(c, Functions(c.m))
WithInfo(c, d) == [c EXCEPT !.m = d.m, !.info = d.info]
ClearAll(c) == WithInfo(c, ClearGlobally(c))
InfoAfter(c, m0) == AboutChanged(GetFuncInfo(c), ChangedFrom(m0, c.m))
DeadCode(c) ==
    SweepGlobally(ClearAll(InfoAfter(ForFunctions(c, ClearBasicBlocks), c.m)))
=============================================================================
