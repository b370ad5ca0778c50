-------------------------------- MODULE Emit --------------------------------
(***************************************************************************)
(* How CodeGen writes instructions of the target: with immediates that     *)
(* fit, addresses relative to SP and the two scratch registers IP0 and IP1 *)
(* for what fits nowhere else.  The instructions that put a constant into  *)
(* a register are a copy here.                                             *)
(*                                                                         *)
(* g is the function f being written: x, the program; is, what has been    *)
(* written of the block; busy, the scratch registers in use; turn, which   *)
(* one is next; callee (func2Call_), the function the stack has been moved *)
(* for, 0 if none.                                                         *)
(***************************************************************************)
EXTENDS Target, StrengthReduction, FramePlacement

CONSTANTS AddLimit,   \* immediates of ADD and SUB: below it, or multiples of it
          LoadLimit,  \* offsets of LDR and STR: of smaller absolute value
          PairLimit   \* offsets of LDP and STP

ASSUME LimitAssumption == {AddLimit, LoadLimit, PairLimit} \subseteq Nat \ {0}

InUImm12(n) == n \in 0..(AddLimit - 1)
InUImm12L12(n) == n >= 0 /\ n % AddLimit = 0 /\ n \div AddLimit < AddLimit
FitsAdd(n) == InUImm12(n) \/ InUImm12L12(n)
InUImm24(n) == n \in 0..(AddLimit * AddLimit - 1)
InImm9(n) == n \in (-LoadLimit)..(LoadLimit - 1)
InImm7L3(n) == n \in (-PairLimit)..(PairLimit - 8) /\ n % 8 = 0

Put(g, i) == [g EXCEPT !.is = Append(@, i)]
Assured(g, p) == IF p THEN g ELSE [g EXCEPT !.x.runs = FALSE]

\* getIP() and releaseIP(): a free scratch register, in turn.
GetIP(g) ==
    LET first == IF g.turn THEN IP1 ELSE IP0
        second == IF g.turn THEN IP0 ELSE IP1
        r == IF first \notin g.busy THEN first ELSE second
    IN  [reg |-> r, g |-> [Assured(g, {first, second} \ g.busy # {})
                             EXCEPT !.turn = ~@, !.busy = @ \cup {r}]]
ReleaseNothing(g, r) == g
ReleaseIP(g, r) == [g EXCEPT !.busy = @ \ {r}]

CopyRegister(g, to, from, w) == IF to = from THEN g ELSE Put(g, MCopy(from, to, w))
MakeImmediate(g, n, to, w) == IF n = 0 THEN CopyRegister(g, to, ZR, 32) ELSE Put(g, MCopy(C(n), to, w))

\* add32(), add64(), sub32(), sub64() with n or -n.
Part(g, to, l, n, w) ==
    Put(g, MMathInst(IF n < 0 THEN "sub" ELSE "add", l, C(Abs(n)), to, w))
SignOf(n) == IF n < 0 THEN -1 ELSE 1
AddThrough(ip, to, l, n, w) ==
    ReleaseIP(Put(MakeImmediate(ip.g, Abs(n), ip.reg, w),
                  MMathInst(IF n < 0 THEN "sub" ELSE "add", l, ip.reg, to, w)), ip.reg)
AddImmediate(g, to, l, n, w) ==
    \* the negation of the least integer is itself: add32() and sub32() call
    \* each other for ever
    CASE w = 32 /\ n = MinWord -> Assured(g, FALSE)
      [] n = 0 -> CopyRegister(g, to, l, w)
      [] FitsAdd(Abs(n)) /\ n # 0 -> Part(g, to, l, n, w)
      [] InUImm24(Abs(n)) /\ ~FitsAdd(Abs(n)) ->
           Part(Part(g, to, l, SignOf(n) * (Abs(n) % AddLimit), w), to, to,
                SignOf(n) * (Abs(n) - (Abs(n) % AddLimit)), w)
      [] OTHER -> AddThrough(GetIP(g), to, l, n, w)

-----------------------------------------------------------------------------
\* frameOffset(): where a slot or an argument on the stack is, seen from SP.
\* The first argument stored for a call moves SP to where the callee finds it.
OwnOffset(g, o) == IF o[1] = "k" THEN g.x.fn[g.f].offset[o[2]] ELSE g.x.fn[g.f].fixOffset[o[3]]
MovedFor(g, callee) ==
    [AddImmediate(g, SP, SP, -g.x.fn[callee].fixMove, 64) EXCEPT !.callee = callee]
FrameOffsetOf(g, o) == OwnOffset(g, o) + (IF g.callee = 0 THEN 0 ELSE g.x.fn[g.callee].fixMove)
CalleeOffset(g, o) == g.x.fn[o[2]].fixOffset[o[3]] - g.x.fn[o[2]].move

Copy(g, to, o, w) ==
    CASE o[1] = "r" -> CopyRegister(g, to, o, w)
      [] o[1] = "c" -> MakeImmediate(g, o[2], to, w)
      [] o[1] = "g" -> Put(g, MCopy(o, to, 64))
      [] OTHER -> AddImmediate(g, to, SP, FrameOffsetOf(g, o), 64)
\* op2reg()
InScratch(ip, o, w) == [reg |-> ip.reg, g |-> Copy(ip.g, ip.reg, o, w)]
Op2Reg(g, o, w) == IF o[1] = "r" THEN [reg |-> o, g |-> g] ELSE InScratch(GetIP(g), o, w)

\* str() and ldr() of a register at an offset from another.
Access(r, p, w, load) == IF load THEN MLDR(r, p, w) ELSE MSTR(r, p, w)
Far(ip, r, base, offset, w, load) ==
    ReleaseIP(Put(MakeImmediate(ip.g, offset \div (w \div 8), ip.reg, 64),
                  Access(r, <<"m", base, ip.reg, w \div 8>>, w, load)), ip.reg)
At(g, r, base, offset, w, load) ==
    LET h == Assured(g, offset % (w \div 8) = 0)
    IN  IF InImm9(offset) THEN Put(h, Access(r, <<"m", base, offset>>, w, load))
        ELSE Far(GetIP(h), r, base, offset, w, load)
\* str() and ldr() of any operands; l is the register of the value, a that of
\* the address.
AtAddress(a, r, w, load) == ReleaseIP(At(a.g, r, a.reg, 0, w, load), a.reg)
StoreIn(l, p, w) == ReleaseIP(AtAddress(Op2Reg(l.g, p, 64), l.reg, w, FALSE), l.reg)
StoreInFrame(l, offset, w) == ReleaseIP(At(l.g, l.reg, SP, offset, w, FALSE), l.reg)
StoreForCall(g, v, o, w) ==
    StoreInFrame(Op2Reg(Assured(g, g.callee = o[2]), v, w), CalleeOffset(g, o), w)
Str(g, v, p, w, forCall) ==
    CASE p[1] \in {"r", "g"} -> StoreIn(Op2Reg(g, v, w), p, w)
      [] p[1] = "x" /\ forCall -> StoreForCall(IF g.callee = 0 THEN MovedFor(g, p[2]) ELSE g, v, p, w)
      [] OTHER -> StoreInFrame(Op2Reg(g, v, w), FrameOffsetOf(g, p), w)
Ldr(g, t, p, w) ==
    IF p[1] \in {"r", "g"} THEN AtAddress(Op2Reg(g, p, 64), t, w, TRUE)
    ELSE At(g, t, SP, FrameOffsetOf(g, p), w, TRUE)

-----------------------------------------------------------------------------
\* mathRRInst()
RemThrough(ip, t, l, r, w) ==
    ReleaseIP(Put(Put(ip.g, MMathInst("sdiv", l, r, ip.reg, w)), MMAddSUB("msub", t, ip.reg, r, l)), ip.reg)
MathRR(g, op, t, l, r, w) ==
    IF op = "srem" THEN RemThrough(GetIP(g), t, l, r, w)
    ELSE Put(g, MMathInst(IF op = "mull" THEN "mul" ELSE op, l, r, t, w))
\* mull(): t = l + (l << k) for the factor 2^k + 1, l - (l << k) for 1 - 2^k.
MShifted(op, l, k, t, w) == [MInst("shifted", <<t>>, <<l, C(k)>>, w) EXCEPT !.k = op]
Mull(g, t, l, n, w) ==
    Put(g, MShifted(IF Wrap(n - 1) < 0 THEN "sub" ELSE "add", l, CountrZero(Wrap(Abs(Wrap(n - 1)))), t, w))
ShiftBy(g, op, t, l, n, w) ==
    IF n = 0 THEN CopyRegister(g, t, l, w) ELSE Put(Assured(g, n > 0), MMathInst(op, l, C(n), t, w))
AndThrough(ip, t, l, n, w) ==
    ReleaseIP(Put(MakeImmediate(ip.g, n, ip.reg, 64), MMathInst("and", l, ip.reg, t, w)), ip.reg)
AndBy(g, t, l, n, w) ==
    IF FitsAdd(n) THEN Put(g, MMathInst("and", l, C(n), t, w))
    ELSE AndThrough(GetIP(Assured(g, n >= 0)), t, l, n, w)
\* The remainder by n: the quotient in ip, n and then its multiple in rr.
RemBy(rr, ip, t, l, n, w) ==
    LET divided == Put(MakeImmediate(ip.g, n, rr.reg, w), MMathInst("sdiv", l, rr.reg, ip.reg, w))
        times == IF PowerOfTwo(Wrap(Abs(n)))
                 THEN ShiftBy(divided, "shl", rr.reg, ip.reg, CountrZero(Wrap(Abs(n))), w)
                 ELSE Mull(divided, rr.reg, ip.reg, n, w)
    IN  ReleaseIP(ReleaseIP(MathRR(times, IF n < 0 THEN "add" ELSE "sub", t, l, rr.reg, w), rr.reg), ip.reg)
RemByConstant(rr, t, l, n, w) == RemBy(rr, GetIP(rr.g), t, l, n, w)
EasyDivisor(n) == PowerOfTwo(Wrap(Abs(n))) \/ PowerOfTwo(Wrap(Abs(Wrap(n - 1))))

\* mathInst() once constants have been folded and neutral ones dropped.
MathRI(l, op, t, n, w) ==
    CASE op \in {"shl", "ashr"} -> ShiftBy(l.g, op, t, l.reg, n, w)
      [] op = "and" -> AndBy(l.g, t, l.reg, n, w)
      [] op = "mull" -> Mull(l.g, t, l.reg, n, w)
      [] op = "srem" /\ EasyDivisor(n) -> RemByConstant(GetIP(l.g), t, l.reg, n, w)
      [] op = "add" -> AddImmediate(l.g, t, l.reg, n, w)
      [] op = "sub" -> AddImmediate(l.g, t, l.reg, IF w = 32 THEN Wrap(-n) ELSE -n, w)
MathWith(g, r, op, t, l, w) == ReleaseIP(MathRR(r.g, op, t, l, r.reg, w), r.reg)
MathGeneral(l, op, t, r, w) ==
    ReleaseIP(IF IsConst(r) /\ (op \notin {"mul", "sdiv", "srem"} \/ (op = "srem" /\ EasyDivisor(r[2])))
              THEN MathRI(l, op, t, r[2], w)
              ELSE MathWith(l.g, Op2Reg(l.g, r, w), op, t, l.reg, w), l.reg)
Ordered(g, op, t, l, r, w) ==
    CASE IsConst(r) /\ r[2] = 0 /\ op \in {"sdiv", "srem", "mul", "mull", "and"} -> CopyRegister(g, t, ZR, w)
      [] IsConst(l) /\ IsConst(r) -> MakeImmediate(g, Compute(op, l[2], r[2]), t, w)
      [] IsConst(l) /\ ~IsConst(r) /\ l[2] = 0 /\ op # "sub" -> CopyRegister(g, t, ZR, w)
      [] IsConst(r) /\ r[2] = 0 /\ op \in {"add", "shl", "ashr"} -> Copy(g, t, l, w)
      [] IsConst(r) /\ r[2] = 1 /\ op \in {"mul", "mull", "sdiv", "srem"} -> Copy(g, t, l, w)
      [] l[1] = "k" /\ IsConst(r) ->
           MathGeneral(Op2Reg(g, SP, w), op, t, C(r[2] + FrameOffsetOf(g, l)), w)
      [] OTHER -> MathGeneral(Op2Reg(g, l, w), op, t, r, w)
\* mathInst(): a constant goes to the right if the order does not matter.
Swapped(op, l, r) == IsConst(l) /\ ~IsConst(r) /\ op \in {"add", "mul", "mull"}
MathInst(g, op, t, l, r, w) ==
    IF Swapped(op, l, r) THEN Ordered(g, op, t, r, l, w) ELSE Ordered(g, op, t, l, r, w)

\* call(): SP returns to where it was before the arguments.
BackFrom(g, callee) ==
    IF g.callee = 0 THEN g
    ELSE [AddImmediate(Assured(g, callee = g.callee), SP, SP, g.x.fn[g.callee].fixMove, 64) EXCEPT !.callee = 0]
CallTo(g, i) == BackFrom(Put(g, i), i.to[1])

-----------------------------------------------------------------------------
\* functionPrefix() and functionSuffix(): one move of SP if all saved registers
\* are in reach of SP then, else two; single registers before pairs.
IntCount(F) == Cardinality({k \in 1..Len(F) : F[k].reg[1] = "r"})
Ints(F) == SubSeq(F, 1, IntCount(F))
Floats(F) == SubSeq(F, IntCount(F) + 1, Len(F))
Odd(S) == Len(S) % 2 = 1
CanLSInOneSPMove(F) ==
    F = <<>> \/ (/\ InImm7L3(F[Len(F)].at)
                 /\ Odd(Ints(F)) => InImm9(F[1].at)
                 /\ Odd(Floats(F)) => InImm9(Floats(F)[1].at))
\* stp() and ldp() of the registers k and k + 1 of S, less the offset that SP
\* is still to move by.
Pair(g, S, k, less, load) ==
    LET place == <<"m", SP, S[k].at - less>>
    IN  Put(Assured(g, InImm7L3(S[k].at - less)),
            IF load THEN MInst("ldp", <<S[k].reg, S[k + 1].reg>>, <<place>>, 64)
            ELSE MInst("stp", <<>>, <<S[k].reg, S[k + 1].reg, place>>, 64))
FirstOf(S, n) == 2 * n - 1 + (Len(S) % 2)
Pairs(g, S, less, load) ==
    LET count == Len(S) \div 2
        done[n \in 0..count] ==
          IF n = 0 THEN g
          ELSE Pair(done[n - 1], S, FirstOf(S, IF load THEN count + 1 - n ELSE n), less, load)
    IN  done[count]
Single(g, S, less, load) == IF Odd(S) THEN At(g, S[1].reg, SP, S[1].at - less, 64, load) ELSE g
\* What is saved last is restored first.
SaveAll(g, S, less) == Pairs(Single(g, S, less, FALSE), S, less, FALSE)
LoadAll(g, S, less) == Single(Pairs(g, S, less, TRUE), S, less, TRUE)
MoveSP(g, n) == AddImmediate(g, SP, SP, n, 64)
\* What SP moves by before the registers are saved, and after.
FirstMove(fn) == IF CanLSInOneSPMove(fn.saved) THEN fn.move ELSE UpTo(fn.move - fn.saved[1].at, 16)
FunctionPrefix(g, fn) ==
    LET next == fn.move - FirstMove(fn)
    IN  MoveSP(SaveAll(SaveAll(MoveSP(g, -FirstMove(fn)), Ints(fn.saved), next), Floats(fn.saved), next), -next)
FunctionSuffix(g, fn) ==
    LET next == fn.move - FirstMove(fn)
    IN  MoveSP(LoadAll(LoadAll(MoveSP(g, next), Floats(fn.saved), next), Ints(fn.saved), next), FirstMove(fn))
=============================================================================
