---------------------------- MODULE MachinePasses ----------------------------
(***************************************************************************)
(* The passes over the machine code but for the allocation of registers    *)
(* and CodeGen: FrameOffset, which lays out the frames; RegPrefill, which  *)
(* gives addresses that are used often a register before registers are     *)
(* allocated; LoadStoreEliminate, RegSpill and CleanCode after that;       *)
(* ReturnMerge and BlockLayout on what CodeGen has written.                *)
(***************************************************************************)
EXTENDS Allocation, FramePlacement

CONSTANTS GlobalUses,         \* replaceGlobalAddressWithRegisterNeedUseCount
          SlotUses,           \* replaceAllocaAddressWithRegisterNeedUseCount
          FloatSaved,         \* floating-point registers the convention saves
          EpilogShouldMerge   \* so many instructions of epilogs are merged

-----------------------------------------------------------------------------
(***************************************************************************)
(* FrameOffset: the order of the slots, the registers a function saves,    *)
(* and where both lie, and the arguments on the stack (FramePlacement).    *)
(*                                                                         *)
(* It adds to the record of a function: offset, of every slot; saved, the  *)
(* registers and their offsets; move (stackMoveOffset_); fixOffset, of     *)
(* every argument on the stack; fixMove (fixMoveOffset_).                  *)
(***************************************************************************)
FloatRegisters == {<<"s", k>> : k \in 1..FloatSaved}

\* Uses of a slot, each with the weight of its block, per byte of its size.
Occurs(i, o) == Cardinality({k \in DOMAIN i.d : i.d[k] = o}) + Cardinality({k \in DOMAIN i.u : i.u[k] = o})
Score(x, f, j) == Total(x, f, LAMBDA i : Occurs(i, <<"k", j>>))
Heavier(x, f, j, k) == Score(x, f, j) * x.fn[f].stack[k] > Score(x, f, k) * x.fn[f].stack[j]
\* The slots in their new order, the heaviest first.
Sorted(x, f) ==
    LET n == Len(x.fn[f].stack)
        before(j, k) == Heavier(x, f, j, k) \/ (j < k /\ ~Heavier(x, f, k, j))
    IN  [p \in 1..n |-> CHOOSE j \in 1..n : Cardinality({k \in 1..n : before(k, j)}) = p - 1]
Reorder(x, f, s) ==
    LET new(j) == CHOOSE p \in DOMAIN s : s[p] = j
        name(o) == IF o[1] = "k" THEN <<"k", new(o[2])>> ELSE o
    IN  [x EXCEPT !.fn[f].stack = [p \in DOMAIN s |-> @[s[p]]],
                  !.fn[f].spilled = {new(j) : j \in @},
                  !.code = [b \in DOMAIN @ |-> IF b \in Blocks(x, f)
                                               THEN [k \in DOMAIN @[b] |-> Renamed(@[b][k], name)]
                                               ELSE @[b]]]

\* The callee-saved registers an instruction of f defines.
DestroyedIntegers(x, f) == {i.d[1] : i \in {j \in CodeOf(x, f) : j.d # <<>>}} \cap CalleeSaved
Destroyed(x, f) ==
    {WholeOf(i.d[1]) : i \in {j \in CodeOf(x, f) : j.d # <<>>}} \cap (CalleeSaved \cup FloatRegisters)
SavedOrder(S) ==
    [k \in 1..Cardinality({r \in S : r[1] = "r"}) |-> R(Ascending({r[2] : r \in {q \in S : q[1] = "r"}})[k])]
    \o [k \in 1..Cardinality({r \in S : r[1] = "s"}) |-> <<"s", Ascending({r[2] : r \in {q \in S : q[1] = "s"}})[k]>>]
WithOffsets(x, f) ==
    [x EXCEPT !.fn[f] = Frame(@.stack, SavedOrder(Destroyed(x, f)), @.fix) @@ @]

\* FrameOffset::run()
FrameOffset(x) ==
    InTurn(LAMBDA y, f : WithOffsets(Reorder(y, f, Sorted(y, f)), f), x, Ascending(Functions(x)))

-----------------------------------------------------------------------------
\* A register that holds o from the prolog on.
Preload(x, f, o, i) ==
    [x EXCEPT !.code[Entry(x, f)] = AddBeforeLast(@, i), !.prefer = (i.d[1][2] :> o) @@ @]
HoldAddress(x, f, o) ==
    Preload(ReplaceInFunction(MakeRegister(x, 64), f, o, Fresh(x)), f, o, MCopy(o, Fresh(x), 64))
\* The value of a global the function only reads: its loads go, and their
\* registers become the new one.
HoldValue(x, f, g) ==
    LET loads == {i \in CodeOf(x, f) : g \in ToSet(i.u)}
        without == InFunction(MakeRegister(x, 32), f, LAMBDA s : SelectSeq(s, LAMBDA i : i \notin loads))
        named == InTurn(LAMBDA y, r : ReplaceInFunction(y, f, <<"v", r>>, Fresh(x)), without,
                        Ascending({i.d[1][2] : i \in loads}))
    IN  [Preload(named, f, g, MLDR(Fresh(x), g, 32)) EXCEPT !.load = @ \cup {x.next}]
PrefillGlobal(x, f, g) ==
    IF UseWeight(x, f, g) < GlobalUses THEN x
    ELSE IF g \in x.fn[f].keep THEN HoldValue(x, f, g) ELSE HoldAddress(x, f, g)
PrefillSlot(x, f, j) ==
    IF UseWeight(x, f, <<"k", j>>) < SlotUses THEN x ELSE HoldAddress(x, f, <<"k", j>>)
PrefillFunction(x, f) ==
    InTurn(LAMBDA y, j : PrefillSlot(y, f, j),
           InTurn(LAMBDA y, a : PrefillGlobal(y, f, <<"g", a>>), x, Ascending(DOMAIN x.glob)),
           [j \in DOMAIN x.fn[f].stack |-> j])
\* RegPrefill::run()
RegPrefill(x) == InTurn(PrefillFunction, FrameOffset(x), Ascending(Functions(x)))

-----------------------------------------------------------------------------
(***************************************************************************)
(* LoadStoreEliminate goes through a block with a table t: stack, what was *)
(* stored last under a memory operand; seen, the registers met so far, and *)
(* changed, those defined since; is, the instructions kept.                *)
(***************************************************************************)
\* The identifiers that storeDataSame() compares: that of a register never
\* leaves 0 in stackData_, and in regData_ it does with the next definition.
Unchanged(t, v) == v \in Allocatable \cap (t.seen \ t.changed)
StoreDataSameName(t, v, p) == p \in DOMAIN t.stack /\ t.stack[p] = v
StoreDataSame(t, v, p) == p \in DOMAIN t.stack /\ t.stack[p] = v /\ (IsRegister(v) => Unchanged(t, v))
StoreDataRegUnchange(t, p) == p \in DOMAIN t.stack /\ Unchanged(t, t.stack[p])
UpdateStack(t, v, p) ==
    [t EXCEPT !.stack = (p :> v) @@ @, !.seen = IF IsRegister(v) THEN @ \cup {v} ELSE @]
UpdateSeen(t, S) == [t EXCEPT !.seen = @ \cup S, !.stack = Forget(@, S)]
UpdateReg(t, S) ==
    [t EXCEPT !.seen = @ \cup S, !.changed = @ \cup (S \cap t.seen), !.stack = Forget(@, S)]
Keep(t, i) == [t EXCEPT !.is = Append(@, i)]
EliminateStore(t, i) ==
    IF StoreDataSame(t, i.u[1], i.u[2]) THEN t ELSE UpdateStack(Keep(t, i), i.u[1], i.u[2])
EliminateLoad(t, i) ==
    IF ~StoreDataRegUnchange(t, i.u[1]) THEN UpdateReg(Keep(t, i), {i.d[1]})
    ELSE IF t.stack[i.u[1]] = i.d[1] THEN t
    ELSE UpdateReg(Keep(t, MCopy(t.stack[i.u[1]], i.d[1], i.w)), {i.d[1]})
EliminateStep(t, i) ==
    CASE i.op = "str" -> EliminateStore(t, i)
      [] i.op = "ldr" -> EliminateLoad(t, i)
      [] OTHER -> UpdateReg(Keep(t, i), Defined(i))
Eliminated(code) ==
    InTurn(EliminateStep, [stack |-> None0, seen |-> {}, changed |-> {}, is |-> <<>>], code).is
LoadStoreEliminate(x) == [x EXCEPT !.code = [b \in DOMAIN @ |-> Eliminated(@[b])]]

-----------------------------------------------------------------------------
(***************************************************************************)
(* RegSpill gives the slots made by spilling a place in the floating-point *)
(* registers the function does not use and the convention saves: all of    *)
(* one for 8 bytes, a half for 4.                                          *)
(***************************************************************************)
SpillCost(x, f, j) == UseWeight(x, f, <<"k", j>>) * (IF x.fn[f].stack[j] = 8 THEN 1 ELSE 2)
BySpillCost(x, f) ==
    LET S == x.fn[f].spilled
        before(j, k) == SpillCost(x, f, j) > SpillCost(x, f, k)
                        \/ (SpillCost(x, f, j) = SpillCost(x, f, k) /\ j < k)
    IN  [p \in 1..Cardinality(S) |-> CHOOSE j \in S : Cardinality({k \in S : before(k, j)}) = p - 1]
\* a.whole and a.half: the registers and second halves that are left, of which
\* the last is taken; a.at: the places given out (rpm).
GiveFloat(x, f, a, j) ==
    IF x.fn[f].stack[j] = 8
    THEN IF a.whole = <<>> THEN a
         ELSE [a EXCEPT !.whole = Front(@), !.at = (<<"k", j>> :> Last(a.whole)) @@ @]
    ELSE IF a.half # <<>>
    THEN [a EXCEPT !.half = Front(@), !.at = (<<"k", j>> :> Last(a.half)) @@ @]
    ELSE IF a.whole = <<>> THEN a
    ELSE [whole |-> Front(a.whole), half |-> <<Append(Last(a.whole), 1)>>,
          at |-> (<<"k", j>> :> Append(Last(a.whole), 0)) @@ a.at]
FloatPlaces(x, f) ==
    InTurn(LAMBDA a, j : GiveFloat(x, f, a, j),
           [whole |-> [k \in 1..FloatSaved |-> <<"s", k>>], half |-> <<>>, at |-> None0],
           BySpillCost(x, f)).at
\* M2SIMDCopy in place of the loads and stores; nothing else stays.
ToFloat(i, at) ==
    CASE i.op = "str" /\ i.u[2] \in DOMAIN at -> <<MInst("simd", <<at[i.u[2]]>>, <<i.u[1]>>, i.w)>>
      [] i.op = "ldr" /\ i.u[1] \in DOMAIN at -> <<MInst("simd", i.d, <<at[i.u[1]]>>, i.w)>>
      [] i.op \notin {"str", "ldr"} /\ ToSet(i.u) \cap DOMAIN at # {} -> <<>>
      [] OTHER -> <<i>>
WithoutSlots(x, f, gone) ==
    LET left == SelectSeq([j \in DOMAIN x.fn[f].stack |-> j], LAMBDA j : <<"k", j>> \notin gone)
    IN  Reorder([x EXCEPT !.fn[f].spilled = {j \in @ : <<"k", j>> \notin gone}], f, left)
RegSpillIn(x, f) ==
    LET at == FloatPlaces(x, f)
    IN  IF at = None0 THEN x
        ELSE WithoutSlots(InFunction(x, f, LAMBDA s : FlattenSeq([k \in DOMAIN s |-> ToFloat(s[k], at)])),
                          f, DOMAIN at)
RegSpill(x) == InTurn(RegSpillIn, x, Ascending(Functions(x)))

-----------------------------------------------------------------------------
\* CleanCode: instructions next to each other, the earlier one being the last
\* of those kept so far.
CleanStep(is, i) ==
    LET p == Last(is)
    IN  CASE is = <<>> -> <<i>>
          [] is # <<>> /\ i.op = "str" /\ p.op = "str" /\ p.u = i.u -> Front(is) \o <<i>>
          [] is # <<>> /\ i.op = "ldr" /\ p.op = "str" /\ p.u[2] = i.u[1] ->
               IF p.u[1] = i.d[1] THEN is ELSE Append(is, MCopy(p.u[1], i.d[1], i.w))
          [] is # <<>> /\ i.op = "copy" /\ p.op = "copy" /\ p.u = i.d /\ p.d = i.u -> is
          [] OTHER -> Append(is, i)
CleanCode(x) == [x EXCEPT !.code = [b \in DOMAIN @ |-> InTurn(CleanStep, <<>>, @[b])]]

-----------------------------------------------------------------------------
(***************************************************************************)
(* ReturnMerge, which gives a function one epilog or many, and BlockLayout,*)
(* which puts blocks behind one another so that few branches are written.  *)
(*                                                                         *)
(* BlockLayout joins chains of blocks (BBNode), each named by its first    *)
(* block.  y is its state: x and f, the program and function; next, the    *)
(* block behind a block (next_); head and tail, the chain a block belongs  *)
(* to and the last block of a chain; edges (pre_ and next_), cost, size;   *)
(* care, the chains looked at; work and gate, the work list and the cost   *)
(* of the dearest edge it started with.                                    *)
(***************************************************************************)
ReturnBlocks(x, f) == SelectSeq(x.fn[f].order, LAMBDA b : x.suc[b] = <<>>)
ShouldMerge(x, f) ==
    LET suffixLen == Len(x.fn[f].suffix)
        count == Len(ReturnBlocks(x, f))
    IN  /\ x.o1
        /\ count # 1
        /\ suffixLen * count > suffixLen + 1
        /\ suffixLen * count >= EpilogShouldMerge
InlineEpilog(x, f) ==
    InTurn(LAMBDA y, b : [y EXCEPT !.code[b] = Front(@) \o x.fn[f].suffix \o <<Last(@)>>],
           x, ReturnBlocks(x, f))
WithEpilog(x, f, e) ==
    [x EXCEPT !.code = (e :> Append(x.fn[f].suffix, MRet(TRUE))) @@ @,
              !.pre = (e :> <<>>) @@ @, !.suc = (e :> <<>>) @@ @,
              !.fn[f].order = Append(@, e), !.next = @ + 1]
MergeEpilog(x, f) ==
    InTurn(LAMBDA y, b : AddEdge([y EXCEPT !.code[b] = Append(Front(@), MB(x.next))], b, x.next),
           WithEpilog(x, f, x.next), ReturnBlocks(x, f))
ReturnMerge(x) ==
    InTurn(LAMBDA y, f : IF ShouldMerge(y, f) THEN MergeEpilog(y, f) ELSE InlineEpilog(y, f),
           x, Ascending(Functions(x)))

-----------------------------------------------------------------------------
\* What is written of a block but for its branches; its size; whether nothing is.
Lines(code) == Len(code) - (IF Last(code).op = "b" THEN 1 ELSE 0)
BranchCount(y, b) == NeedBranchCount(Last(y.x.code[b]), y.next[b])
Empty(y, b) == BranchCount(y, b) = 0 /\ Lines(y.x.code[b]) = 0
CollectBlocks(x, f) ==
    LET B == Blocks(x, f)
        E == UNION {{<<b, d>> : d \in ToSet(x.suc[b])} : b \in B}
    IN  [x |-> x, f |-> f, pos |-> [b \in B |-> CHOOSE k \in DOMAIN x.fn[f].order : x.fn[f].order[k] = b],
         next |-> [b \in B |-> 0], head |-> [b \in B |-> b], tail |-> [b \in B |-> b], edges |-> E,
         cost |-> [e \in E |-> IF Len(x.suc[e[1]]) = 1 THEN 0 ELSE 1],
         size |-> [b \in B |-> Lines(x.code[b]) + NeedBranchCount(Last(x.code[b]), 0)],
         care |-> {}, work |-> {}, gate |-> 0]
CostOf(y, e) == IF e \in DOMAIN y.cost THEN y.cost[e] ELSE 0

\* collapseBranch(): branches to an empty block go to the one behind it; a
\* branch with one target left needs no comparison; one to the block behind is
\* turned round.
Past(y, b) == IF b # 0 /\ Empty(y, b) /\ y.next[b] # 0 THEN y.next[b] ELSE b
Opposite(op) == CASE op = "ge" -> "lt" [] op = "lt" -> "ge" [] op = "gt" -> "le" [] op = "le" -> "gt"
                  [] op = "eq" -> "ne" [] op = "ne" -> "eq"
Turned(i, next) ==
    IF Len(i.to) = 2 /\ i.to[1] = next /\ next # 0 THEN MBCond(Opposite(i.k), i.to[2], i.to[1]) ELSE i
WithoutFlags(code) == SelectSeq(code, LAMBDA i : i.k # "flags")
SetBranch(y, b, i) == [y EXCEPT !.x.code[b] = Append(Front(@), i)]
Retarget(y, b, to) ==
    IF Len(to) = 2 /\ to[1] = to[2]
    THEN [y EXCEPT !.x.code[b] = Append(WithoutFlags(Front(@)), MB(to[1]))]
    ELSE SetBranch(y, b, [Last(y.x.code[b]) EXCEPT !.to = to])
Follow(y, b) == [y EXCEPT !.next[b] = Past(y, @)]
Turn(y, b) == SetBranch(y, b, Turned(Last(y.x.code[b]), y.next[b]))
Resized(y, z, b) ==
    [z EXCEPT !.size[y.head[b]] = @ + (Lines(z.x.code[b]) + BranchCount(z, b))
                                    - (Lines(y.x.code[b]) + BranchCount(y, b))]
PastAll(y, to) == [k \in DOMAIN to |-> Past(y, to[k])]
CollapseBranch(y, b) ==
    IF Last(y.x.code[b]).op # "b" THEN y
    ELSE Resized(y, Turn(Follow(Retarget(y, b, PastAll(y, Last(y.x.code[b]).to)), b), b), b)
\* A block that has become empty sends its predecessors past itself.
BranchesTo(y, b) == {p \in DOMAIN y.next : b \in ToSet(Last(y.x.code[p]).to)}
RECURSIVE Collapse(_, _)
Collapse(y, needUpdates) ==
    LET b == Head(needUpdates)
        z == CollapseBranch(y, b)
    IN  IF needUpdates = <<>> THEN y
        ELSE Collapse(z, Tail(needUpdates)
                         \o IF Empty(z, b) /\ z.next[b] # 0 THEN Ascending(BranchesTo(z, b)) ELSE <<>>)

-----------------------------------------------------------------------------
\* merge(): the chain `to` behind the chain `from`.  The edges of both, with
\* what they cost now; the cheaper one stays.
JoinedFirst(y, from, to, nn) ==
    {<<<<from, e[2]>>, CostOf(y, e) + y.size[to] + nn>> : e \in {d \in y.edges : d[1] = from}}
    \cup {<<e, CostOf(y, e)>> : e \in {d \in y.edges : d[2] = from}}
Joined(y, from, to, nn) ==
    {<<<<from, e[2]>>, CostOf(y, e) + y.size[to] + nn>> : e \in {d \in y.edges : d[1] = from}}
    \cup {<<<<from, e[2]>>, CostOf(y, e)>> : e \in {d \in y.edges : d[1] = to}}
    \cup {<<e, CostOf(y, e)>> : e \in {d \in y.edges : d[2] = from}}
    \cup {<<<<e[1], from>>, CostOf(y, e) + y.size[from]>> :
            e \in {d \in y.edges : d[2] = to /\ from # y.x.fn[y.f].order[1]}}
Cheapest(A) == [e \in {a[1] : a \in A} |->
                  LET costs == {a[2] : a \in {p \in A : p[1] = e}} IN CHOOSE k \in costs : \A j \in costs : k <= j]
Rejoin(y, from, to, added) ==
    [y EXCEPT !.edges = {e \in @ : to \notin {e[1], e[2]}} \cup DOMAIN added,
              !.cost = added @@ @,
              !.work = @ \cup {<<e, added[e]>> : e \in {d \in DOMAIN added :
                          /\ {d[1], d[2]} \subseteq y.care /\ added[d] <= y.gate
                          /\ CostOf(y, d) # added[d]}},
              !.head = [b \in DOMAIN @ |-> IF @[b] = to THEN from ELSE @[b]],
              !.tail[from] = y.tail[to],
              !.size[from] = @ + y.size[to],
              !.care = @ \ {to}]
MergeChains(y, from, to) ==
    LET l == y.tail[from]
        linked == [y EXCEPT !.edges = @ \ {<<from, to>>, <<to, from>>}, !.next[l] = Past(y, to)]
        z == Collapse(linked, <<l>>)
        nn == BranchCount(z, l) - BranchCount(linked, l)
    IN  Rejoin(z, from, to, Cheapest(Joined(z, from, to, nn)))

\* runOnNodes(): the cheapest edge first, of several the last; what an edge of
\* the work list says of its cost may be out of date.
Preferred(y, e, d) ==
    \/ e[2] < d[2]
    \/ e[2] = d[2] /\ y.pos[e[1][1]] > y.pos[d[1][1]]
    \/ e[2] = d[2] /\ e[1][1] = d[1][1] /\ y.pos[e[1][2]] > y.pos[d[1][2]]
TakeEdge(y, e) ==
    LET from == y.head[e[1][1]]
        to == y.head[e[1][2]]
        z == [y EXCEPT !.work = @ \ {e}]
    IN  IF from # to /\ CostOf(y, <<from, to>>) = e[2] THEN MergeChains(z, from, to) ELSE z
RECURSIVE WorkOff(_)
WorkOff(y) ==
    IF y.work = {} THEN y
    ELSE WorkOff(TakeEdge(y, CHOOSE e \in y.work : \A d \in y.work \ {e} : Preferred(y, e, d)))
Refill(y) ==
    LET E == {<<e, CostOf(y, e)>> : e \in {d \in y.edges : {d[1], d[2]} \subseteq y.care}}
    IN  [y EXCEPT !.work = E, !.gate = CHOOSE k \in {0} \cup {e[2] : e \in E} : \A e \in E : e[2] <= k]
RECURSIVE JoinAll(_)
JoinAll(y) == IF y.work = {} THEN y ELSE JoinAll(Refill(WorkOff(y)))
RunOnNodes(y, B) == JoinAll(Refill([y EXCEPT !.care = {b \in B : y.head[b] = b}]))
RunOnLoop(y, loop) ==
    RunOnNodes([y EXCEPT !.edges = @ \ {<<y.head[l], y.head[loop.header]>> : l \in loop.latches}], loop.blocks)

RECURSIVE ChainFrom(_, _)
ChainFrom(y, b) == IF b = 0 THEN <<>> ELSE <<b>> \o ChainFrom(y, y.next[b])
RunOnFunc(x, f) ==
    LET L == DetectLoops(x, DomTree(Graph(x, f)))
        inner == InTurn(LAMBDA y, l : RunOnLoop(y, L.loop[l]), CollectBlocks(x, f), InnerFirst(L))
        all == RunOnNodes(inner, Blocks(x, f))
    IN  [all.x EXCEPT !.fn[f].order = ChainFrom(all, x.fn[f].order[1])]
LayoutBlocks(x) == InTurn(RunOnFunc, x, Ascending(Functions(x)))
=============================================================================
