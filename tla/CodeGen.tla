------------------------------- MODULE CodeGen -------------------------------
(***************************************************************************)
(* CodeGen: every machine instruction becomes instructions of the target,  *)
(* written by what module Emit has for arithmetic, addresses and constants.*)
(* The text of an instruction is left out.                                 *)
(*                                                                         *)
(* Besides what Emit has, g holds last, the terminator of the block b;     *)
(* tied and branches, whether a CSET and a branch go by the comparison;    *)
(* cset, what is left of the CSET.                                         *)
(***************************************************************************)
EXTENDS MachinePasses, Emit

MAddSubWith(s, l, r, i) ==
    ReleaseIP(ReleaseIP(ReleaseIP(Put(s.g, [i EXCEPT !.u = <<l, r, s.reg>>]), s.reg), l), r)
MAddSubR(r, l, i) == MAddSubWith(Op2Reg(r.g, i.u[3], 32), l, r.reg, i)
MAddSubL(l, i) == MAddSubR(Op2Reg(l.g, i.u[2], 32), l.reg, i)

-----------------------------------------------------------------------------
\* compare(), of two constants: the branch is decided, and so is the CSET.
BranchDecided(g, keep, drop) ==
    [g EXCEPT !.last = MB(keep), !.x = RemoveEdge(@, g.b, drop)]
DecideBranch(g, l, r) ==
    LET to == g.last.to
    IN  CASE ~g.branches -> g
          [] g.branches /\ Compute(g.last.k, l, r) = 1 -> BranchDecided(g, to[1], to[2])
          [] g.branches /\ Compute(g.last.k, l, r) = 0 -> BranchDecided(g, to[2], to[1])
DecideCond(g, l, r) ==
    DecideBranch(IF g.tied THEN [g EXCEPT !.cset = C(Compute(g.cond, l, r))] ELSE g, l, r)
Mirror(op) == CASE op = "ge" -> "le" [] op = "gt" -> "lt" [] op = "le" -> "ge"
                [] op = "lt" -> "gt" [] OTHER -> op
ReverseCmpOp(g) == IF g.tied THEN g ELSE [g EXCEPT !.last.k = Mirror(@)]
\* What a comparison writes is marked, for the branch may turn out needless.
Marked(i) == [i EXCEPT !.k = "flags"]
MarkFrom(g, h) == [h EXCEPT !.is = [k \in DOMAIN @ |-> IF k > Len(g.is) THEN Marked(@[k]) ELSE @[k]]]
\* A CSET tied to the comparison gives its register to SUBS and disappears.
Subs(g, l, r) == [Put(g, MInst("subs", <<g.target>>, <<l, r>>, 32)) EXCEPT !.cset = <<>>]
CompareImm(g, l, n) == IF g.tied THEN Subs(g, l, C(n)) ELSE Put(g, MCMP(l, C(n)))
CompareRegs(g, l, r) == ReleaseIP(ReleaseIP(Put(IF g.tied THEN Subs(r.g, l, r.reg) ELSE r.g,
                                                MCMP(l, r.reg)), l), r.reg)
CompareWith(l, r) == CompareRegs(l.g, l.reg, Op2Reg(l.g, r, 32))
Compare(g, l, r) ==
    CASE IsConst(l) /\ IsConst(r) -> DecideCond(g, l[2], r[2])
      [] IsConst(l) /\ ~IsConst(r) /\ FitsAdd(l[2]) -> CompareImm(ReverseCmpOp(g), r, l[2])
      [] IsConst(r) /\ ~IsConst(l) /\ FitsAdd(r[2]) -> CompareImm(g, l, r[2])
      [] OTHER -> CompareWith(Op2Reg(g, l, 32), r)
CompareTied(g, i, rest) ==
    LET next == Head(rest)
        h == [g EXCEPT !.tied = next.op = "cset", !.cond = next.k, !.cset = <<"s">>,
                       !.branches = Len(g.last.to) = 2 /\ \A k \in DOMAIN rest : rest[k].op # "cmp",
                       !.target = IF next.op = "cset" THEN next.d[1] ELSE ZR]
    IN  IF h.tied THEN Compare(h, i.u[1], i.u[2]) ELSE MarkFrom(h, Compare(h, i.u[1], i.u[2]))
Cset(g, i) == CASE g.cset = <<>> -> g
                [] g.cset # <<>> /\ g.cset[1] = "c" -> MakeImmediate(g, g.cset[2], i.d[1], 32)
                [] OTHER -> Put(g, i)

\* makeInstruction()
Make(g, code, k) ==
    LET i == code[k]
    IN  CASE i.op = "copy" -> Copy(g, i.d[1], i.u[1], i.w)
          [] i.op = "str" -> Str(g, i.u[1], i.u[2], i.w, i.call)
          [] i.op = "ldr" -> Ldr(g, i.d[1], i.u[1], i.w)
          [] i.op = "math" -> MathInst(g, i.k, i.d[1], i.u[1], i.u[2], i.w)
          [] i.op \in {"madd", "msub"} -> MAddSubL(Op2Reg(g, i.u[1], 32), i)
          [] i.op = "cmp" -> CompareTied(g, i, SubSeq(code, k + 1, Len(code)))
          [] i.op = "cset" -> Cset(g, i)
          [] i.op = "bl" -> CallTo(g, i)
          [] i.op = "b" -> Put(g, g.last)
          [] OTHER -> Put(g, i)
MakeBlock(g, b) ==
    LET code == g.x.code[b]
        h == InTurn(LAMBDA a, k : Make(a, code, k),
                    [g EXCEPT !.is = <<>>, !.last = Last(code), !.b = b], [k \in DOMAIN code |-> k])
    IN  [h EXCEPT !.x.code[b] = h.is]

-----------------------------------------------------------------------------
Writing(x, f) ==
    [x |-> x, f |-> f, is |-> <<>>, last |-> MRet(TRUE), b |-> 0, busy |-> {}, turn |-> FALSE, callee |-> 0,
     tied |-> FALSE, branches |-> FALSE, cond |-> "", cset |-> <<>>, target |-> ZR]
MakeFunction(x, f) ==
    LET prefix == FunctionPrefix(Writing(x, f), x.fn[f])
        suffix == FunctionSuffix([prefix EXCEPT !.is = <<>>], x.fn[f])
        body == InTurn(MakeBlock, suffix, x.fn[f].order)
    IN  [body.x EXCEPT !.fn[f] = [prefix |-> prefix.is, suffix |-> suffix.is] @@ @]
GenerateCode(x) == [InTurn(MakeFunction, x, Ascending(Functions(x))) EXCEPT !.laid = TRUE]
=============================================================================
