----------------------------- MODULE Allocation -----------------------------
(***************************************************************************)
(* RegisterAllocate with MFunction::spill() and the merging of the slots   *)
(* that spilling made.                                                     *)
(*                                                                         *)
(* A round of colouring is any that keeps the contract of module Coloring: *)
(* here the registers are coloured one after the other, in one of two      *)
(* orders, preferably like a register they are copied from or to.          *)
(***************************************************************************)
EXTENDS Ir2Mir

CONSTANT SinkGate  \* useSinkGate

Uses1(i, o) == o \in ToSet(i.d) \cup ToSet(i.u)
\* A count over instructions, each with the weight of its block, and that of
\* the instructions that use o.
Total(x, f, Count(_)) ==
    InTurn(LAMBDA n, b : n + x.weight[b] * InTurn(LAMBDA k, i : k + Count(i), 0, x.code[b]),
           0, x.fn[f].order)
UseWeight(x, f, o) == Total(x, f, LAMBDA i : IF Uses1(i, o) THEN 1 ELSE 0)
InFunction(x, f, Change(_)) ==
    [x EXCEPT !.code = [b \in DOMAIN @ |-> IF b \in Blocks(x, f) THEN Change(@[b]) ELSE @[b]]]
ReplaceInFunction(x, f, from, to) ==
    InFunction(x, f, LAMBDA s : [k \in DOMAIN s |-> ReplaceOperand(s[k], from, to)])

-----------------------------------------------------------------------------
\* LiveMessage: the registers live at the start of every block.
LiveBefore(code, after) ==
    FoldRight(LAMBDA i, live : (live \ Defined(i)) \cup UsedBy(i), code, after)
LiveAfter(x, in, b) == UNION {in[c] : c \in ToSet(x.suc[b])}
RECURSIVE LiveIn(_, _, _)
LiveIn(x, f, in) ==
    LET next == [b \in DOMAIN in |-> LiveBefore(x.code[b], LiveAfter(x, in, b))]
    IN  IF next = in THEN in ELSE LiveIn(x, f, next)
Liveness(x, f) == LiveIn(x, f, [b \in Blocks(x, f) |-> {}])

\* InterfereGraph::build(): what an instruction defines conflicts with what is
\* live behind it, but for the source of a copy, and with what else it defines.
CareCopy(i) == i.op = "copy" /\ IsRegister(i.u[1]) /\ "v" \in {i.u[1][1], i.d[1][1]}
Edges(i, live) == Defined(i) \X (((IF CareCopy(i) THEN live \ UsedBy(i) ELSE live)) \cup Defined(i))
Scanned(code, after) ==
    FoldRight(LAMBDA i, a : [live |-> (a.live \ Defined(i)) \cup UsedBy(i), adj |-> a.adj \cup Edges(i, a.live)],
              code, [live |-> after, adj |-> {}]).adj
Conflicts(x, f) ==
    LET in == Liveness(x, f)
    IN  UNION {Scanned(x.code[b], LiveAfter(x, in, b)) : b \in Blocks(x, f)}

VirtualRegisters(x, f) == {o \in UNION {ToSet(i.d) \cup ToSet(i.u) : i \in CodeOf(x, f)} : o[1] = "v"}
\* assignColors(): those the caller saves come first with -O1, last without.
ByNumber(S) == [k \in 1..Cardinality(S) |-> R(Ascending({r[2] : r \in S})[k])]
Colors(o1) == IF o1 THEN ByNumber(CallerSaved) \o ByNumber(CalleeSaved)
              ELSE ByNumber(CalleeSaved) \o ByNumber(CallerSaved)
Partners(x, f, r) ==
    UNION {{i.d[1], i.u[1]} : i \in {j \in CodeOf(x, f) : CareCopy(j) /\ r \in {j.d[1], j.u[1]}}} \ {r}
Paint(col, r, adj, like, colors) ==
    LET taken == {col[q] : q \in {p \in DOMAIN col : <<p, r>> \in adj \/ <<r, p>> \in adj}}
        ok == ToSet(colors) \ taken
        liked == ok \cap {col[q] : q \in like \cap DOMAIN col}
        from == IF liked = {} THEN ok ELSE liked
    IN  IF ok = {} THEN col ELSE (r :> Head(SelectSeq(colors, LAMBDA p : p \in from))) @@ col
\* What spilling made comes first: it is never spilled again.
InOrder(x, f, backwards) ==
    LET V == {o[2] : o \in VirtualRegisters(x, f)}
        s == Ascending(V \cap x.temps) \o
             IF backwards THEN Reverse(Ascending(V \ x.temps)) ELSE Ascending(V \ x.temps)
    IN  [k \in DOMAIN s |-> <<"v", s[k]>>]
Colored(x, f, backwards) ==
    LET adj == Conflicts(x, f)
    IN  InTurn(LAMBDA col, r : Paint(col, r, adj, Partners(x, f, r), Colors(x.o1)),
               [p \in Allocatable |-> p], InOrder(x, f, backwards))

\* applyChanges()
ApplyChanges(x, f, col) ==
    InFunction(x, f, LAMBDA s :
        SelectSeq([k \in DOMAIN s |-> Renamed(s[k], LAMBDA o : IF o \in DOMAIN col THEN col[o] ELSE o)],
                  LAMBDA i : ~(i.op = "copy" /\ i.u[1] = i.d[1])))

-----------------------------------------------------------------------------
\* MFunction::spill(): a register whose value can be made again is replaced by
\* what it stands for; any other is loaded before every use and stored after
\* every definition, each time in a register of its own.
Rematerialize(x, f, r) ==
    LET en == Entry(x, f)
        made == {k \in DOMAIN x.code[en] : x.code[en][k].op = "copy" /\ x.code[en][k].d[1] = r}
        without == [x EXCEPT !.code[en] = IF made = {} THEN @ ELSE RemoveAt(@, Min(made))]
    IN  ReplaceInFunction(without, f, r, x.prefer[r[2]])
DropLoad(x, f, r) ==
    InFunction(x, f, LAMBDA s : SelectSeq(s, LAMBDA i : ~(i.op = "ldr" /\ i.u[1] = x.prefer[r[2]])))
NewSlot(x, f, bytes) ==
    [x EXCEPT !.fn[f].stack = Append(@, bytes), !.fn[f].spilled = @ \cup {Len(x.fn[f].stack) + 1}]
Through(y, i, r, n, to) ==
    LET w == y.x.width[r[2]]
        j == ReplaceOperand(i, r, n)
    IN  [y EXCEPT !.is = @ \o (IF r \in UsedBy(i) THEN <<MLDR(n, to, w)>> ELSE <<>>) \o <<j>>
                           \o (IF r \in Defined(i) THEN <<MSTR(n, to, w)>> ELSE <<>>),
                  !.x.temps = @ \cup {n[2]}, !.first = FALSE]
SpillAt(y, i, r, to) ==
    IF r \notin UsedBy(i) \cup Defined(i) THEN [y EXCEPT !.is = Append(@, i)]
    ELSE IF y.first THEN Through(y, i, r, r, to)
    ELSE Through([y EXCEPT !.x = MakeRegister(@, y.x.width[r[2]])], i, r, Fresh(y.x), to)
SpillBlock(y, b, r, to) ==
    LET z == InTurn(LAMBDA v, i : SpillAt(v, i, r, to), [y EXCEPT !.is = <<>>], y.x.code[b])
    IN  [z EXCEPT !.x.code[b] = z.is]
SpillTo(x, f, r, to) ==
    InTurn(LAMBDA y, b : SpillBlock(y, b, r, to), [x |-> x, first |-> TRUE, is |-> <<>>], x.fn[f].order).x
ToNewSlot(x, f, r) ==
    SpillTo(NewSlot(x, f, x.width[r[2]] \div 8), f, r, <<"k", Len(x.fn[f].stack) + 1>>)
SpillRegister(x, f, r) ==
    LET v == r[2]
    IN  IF v \in DOMAIN x.prefer /\ v \notin x.load THEN Rematerialize(x, f, r)
        ELSE IF v \in x.load
        THEN IF x.prefer[v][1] = "x" THEN SpillTo(DropLoad(x, f, r), f, r, x.prefer[v])
             ELSE ToNewSlot(DropLoad(x, f, r), f, r)
        ELSE ToNewSlot(x, f, r)

-----------------------------------------------------------------------------
(***************************************************************************)
(* rewriteProgram(): when many registers of a function are left without a  *)
(* colour, a definition that reads no physical register is first moved     *)
(* down to its uses; they are spilled when nothing could be moved.  t is   *)
(* the dominator tree from before the first round, y the program with      *)
(* still, the registers to spill then, and moved.                          *)
(***************************************************************************)
InstAt(x, p) == x.code[p[1]][p[2]]
Sites(x, f, r) ==
    {p \in UNION {{b} \X DOMAIN x.code[b] : b \in Blocks(x, f)} : Uses1(InstAt(x, p), r)}
Definitions(x, f, r) == {p \in Sites(x, f, r) : InstAt(x, p).d # <<>> /\ InstAt(x, p).d[1] = r}
\* The first of a set of instructions, which is in no order.
Precedes(p, q) == p[1] < q[1] \/ (p[1] = q[1] /\ p[2] < q[2])
OneOf(P, backwards) ==
    CHOOSE p \in P : \A q \in P \ {p} : IF backwards THEN Precedes(q, p) ELSE Precedes(p, q)
\* Before the first use in its block, or the comparison or branch at its end.
PlaceIn(code, uses) ==
    IF uses # {} THEN Min(uses)
    ELSE IF Last(code).op = "b" /\ Len(Last(code).to) = 2 THEN Len(code) - 1 ELSE Len(code)
Postponed(y, r) == [y EXCEPT !.x.sunk = @ \cup {r[2]}, !.still = Append(@, r)]
Moved(y, r, from, b, k) ==
    LET without == [y.x EXCEPT !.code[from[1]] = RemoveAt(@, from[2])]
    IN  [y EXCEPT !.x = [without EXCEPT
                           !.code[b] = InsertAt(@, IF b = from[1] THEN k - 1 ELSE k, InstAt(y.x, from)),
                           !.sunk = @ \cup {r[2]}],
                  !.moved = TRUE]
SinkFrom(y, r, t, from, uses) ==
    LET b == CommonAncestor(t, {p[1] : p \in uses})
        k == PlaceIn(y.x.code[b], {p[2] : p \in {q \in uses : q[1] = b}})
    IN  CASE uses = {} -> [y EXCEPT !.x.runs = FALSE]
          [] uses # {} /\ ~IsDominate(t, from[1], b) -> Postponed(y, r)
          [] uses # {} /\ b = from[1] /\ from[2] >= k - 1 -> Postponed(y, r)
          [] OTHER -> Moved(y, r, from, b, k)
Sink(y, f, r, t, backwards) ==
    LET defs == Definitions(y.x, f, r)
        def == OneOf(defs, backwards)
    IN  CASE r[2] \in y.x.sunk -> [y EXCEPT !.still = Append(@, r)]
          [] r[2] \notin y.x.sunk /\ defs = {} -> [y EXCEPT !.x.runs = FALSE]
          [] r[2] \notin y.x.sunk /\ defs # {} /\ \E o \in ToSet(InstAt(y.x, def).u) : o[1] = "r" -> Postponed(y, r)
          [] OTHER -> SinkFrom(y, r, t, def, Sites(y.x, f, r) \ {def})
SpillAll(x, f, s) == InTurn(LAMBDA y, r : SpillRegister(y, f, r), x, s)
RewriteProgram(x, f, left, t, backwards) ==
    LET y == InTurn(LAMBDA z, r : Sink(z, f, r, t, backwards), [x |-> x, still |-> <<>>, moved |-> FALSE], left)
    IN  IF ~x.o1 \/ Len(left) < SinkGate THEN SpillAll(x, f, left)
        ELSE IF y.moved THEN y.x ELSE SpillAll(y.x, f, y.still)

\* One function: rounds of colouring and spilling.
RECURSIVE AllocationRounds(_, _, _, _)
AllocationRounds(x, f, t, backwards) ==
    LET col == Colored(x, f, backwards)
        left == VirtualRegisters(x, f) \ DOMAIN col
    IN  IF left = {} \/ ~x.runs THEN ApplyChanges(x, f, col)
        ELSE AllocationRounds(RewriteProgram(x, f, SelectSeq(InOrder(x, f, backwards), LAMBDA r : r \in left), t, backwards),
                     f, t, backwards)
AllocateRegisters(x, f, backwards) == AllocationRounds(x, f, DomTree(Graph(x, f)), backwards)

-----------------------------------------------------------------------------
\* FrameLiveMessage and calculateFrameInterfereGraph(): slots made by spilling
\* that are never live together share one, which is as large as the largest.
SlotOf(i, op) == IF i.op = op /\ Last(i.u)[1] = "k" THEN {Last(i.u)} ELSE {}
SlotsBefore(code, after, S) ==
    FoldRight(LAMBDA i, live : (live \ SlotOf(i, "str")) \cup (SlotOf(i, "ldr") \cap S), code, after)
RECURSIVE SlotsIn(_, _, _, _)
SlotsIn(x, f, in, S) ==
    LET next == [b \in DOMAIN in |-> SlotsBefore(x.code[b], LiveAfter(x, in, b), S)]
    IN  IF next = in THEN in ELSE SlotsIn(x, f, next, S)
SlotEdges(code, after, S) ==
    FoldRight(LAMBDA i, a : [live |-> (a.live \ SlotOf(i, "str")) \cup (SlotOf(i, "ldr") \cap S),
                             adj |-> a.adj \cup ((SlotOf(i, "str") \cap S) \X (a.live \ SlotOf(i, "str")))],
              code, [live |-> after, adj |-> {}]).adj
SlotConflicts(x, f, S) ==
    LET in == SlotsIn(x, f, [b \in Blocks(x, f) |-> {}], S)
        E == UNION {SlotEdges(x.code[b], LiveAfter(x, in, b), S) : b \in Blocks(x, f)}
    IN  E \cup {<<e[2], e[1]>> : e \in E}
\* Those with most conflicts first; each gets the first colour it can have.
SlotOrder(S, E) ==
    LET deg(o) == Cardinality({e \in E : e[1] = o})
        before(o, p) == deg(o) > deg(p) \/ (deg(o) = deg(p) /\ o[2] < p[2])
    IN  [k \in 1..Cardinality(S) |-> CHOOSE o \in S : Cardinality({p \in S : before(p, o)}) = k - 1]
SlotColor(col, o, E) ==
    LET free == (1..(Cardinality(DOMAIN col) + 1)) \ {col[p] : p \in {q \in DOMAIN col : <<q, o>> \in E}}
    IN  (o :> CHOOSE k \in free : \A j \in free : k <= j) @@ col
MergedSlots(x, f, col, begin) ==
    LET count == Cardinality({col[o] : o \in DOMAIN col})
        new(o) == IF o \in DOMAIN col THEN <<"k", begin + col[o] - 1>> ELSE o
        \* a slot is no smaller than what it was before
        size(j) == LET sizes == {x.fn[f].stack[j]} \cup
                                {x.fn[f].stack[o[2]] : o \in {p \in DOMAIN col : new(p)[2] = j}}
                   IN  CHOOSE n \in sizes : \A k \in sizes : k <= n
    IN  [InFunction(x, f, LAMBDA s : [k \in DOMAIN s |-> Renamed(s[k], new)])
           EXCEPT !.fn[f].stack = [j \in 1..(begin + count - 1) |-> IF j < begin THEN @[j] ELSE size(j)],
                  !.fn[f].spilled = begin..(begin + count - 1)]
MergeSlots(x, f) ==
    LET S == {<<"k", j>> : j \in x.fn[f].spilled}
        E == SlotConflicts(x, f, S)
        col == InTurn(LAMBDA a, o : SlotColor(a, o, E), None0, SlotOrder(S, E))
    IN  IF S = {} \/ ~x.o1 THEN x
        ELSE MergedSlots(x, f, col, CHOOSE j \in x.fn[f].spilled : \A k \in x.fn[f].spilled : j <= k)

\* RegisterAllocate::run()
RegisterAllocate(x, backwards) ==
    InTurn(LAMBDA y, f : MergeSlots(AllocateRegisters(y, f, backwards), f), x, Ascending(Functions(x)))
=============================================================================
