------------------------------- MODULE Target -------------------------------
(***************************************************************************)
(* The instructions of src/machineir, and what one of them does on an      *)
(* AArch64.                                                                *)
(*                                                                         *)
(* An instruction has its operation, the operands it defines (d) and uses  *)
(* (u), its width w, a condition or operation k, the targets `to` of a     *)
(* branch or call, and call, forCall_ of a store of an argument.           *)
(*                                                                         *)
(* Operands: <<"v", n>> a virtual register, <<"r", n>> an integer register,*)
(* <<"s", n>> a floating-point register, <<"s", n, lane>> a half of one,   *)
(* <<"c", n>> an immediate, <<"k", j>> a slot of the frame, <<"x", f, j>>  *)
(* an argument of f on the stack, <<"g", n>> a global, <<"m", r, n>> the   *)
(* memory n bytes behind what the register r holds, <<"m", r, q, n>> that  *)
(* n times the content of the register q behind it.                        *)
(***************************************************************************)
EXTENDS Word, Sequences, TLC

R(k) == <<"r", k>>
SP == R(31)
LR == R(30)
IP0 == R(16)
IP1 == R(17)
ZR == R(32)

\* The constructors of MachineInstruction.cpp.
MInst(op, d, u, w) == [op |-> op, d |-> d, u |-> u, w |-> w, k |-> "", to |-> <<>>, call |-> FALSE]
MCopy(from, to, w) == MInst("copy", <<to>>, <<from>>, w)
MMathInst(op, l, r, t, w) == [MInst("math", <<t>>, <<l, r>>, w) EXCEPT !.k = op]
MSXTW(from, to) == MInst("sxtw", <<to>>, <<from>>, 32)
MMAddSUB(op, t, l, r, s) == MInst(op, <<t>>, <<l, r, s>>, 32)
MLDR(t, p, w) == MInst("ldr", <<t>>, <<p>>, w)
MSTR(v, p, w) == MInst("str", <<>>, <<v, p>>, w)
MCMP(l, r) == MInst("cmp", <<>>, <<l, r>>, 32)
MCSET(cond, t) == [MInst("cset", <<t>>, <<>>, 32) EXCEPT !.k = cond]
MB(t) == [MInst("b", <<>>, <<>>, 0) EXCEPT !.to = <<t>>]
MBCond(cond, t, f) == [MInst("b", <<>>, <<>>, 0) EXCEPT !.k = cond, !.to = <<t, f>>]
MBL(f, args) == [MInst("bl", <<>>, <<>>, args) EXCEPT !.to = <<f>>]
MRet(void) == MInst("ret", <<>>, <<>>, IF void THEN 0 ELSE 1)

-----------------------------------------------------------------------------
(***************************************************************************)
(* A machine s has registers r and memory mem, the flags of the last       *)
(* comparison and the depth of calls (and what module MachineCode adds).   *)
(* A 64-bit register holds an integer; what is written to its lower half   *)
(* is unsigned and clears the upper one.  A word of memory has 4 bytes; a  *)
(* 64-bit store fills two.                                                 *)
(***************************************************************************)
Content(s, r) == IF r \in DOMAIN s.r THEN s.r[r] ELSE IF r = ZR THEN 0 ELSE Garbage
SlotSpace == 96
FrameAt(depth) == 4000 * depth
AddressOf(s, depth, o) ==
    CASE o[1] = "k" -> FrameAt(depth) + SlotSpace * o[2]
      [] o[1] = "x" -> FrameAt(depth) + 3000 + 8 * o[3]
      [] o[1] = "g" -> 4 * o[2]
      [] o[1] = "m" -> Content(s, o[2]) + IF Len(o) = 3 THEN o[3] ELSE Content(s, o[3]) * o[4]
      [] OTHER -> Content(s, o)
Operand(s, o, w) ==
    LET x == CASE o[1] = "c" -> o[2]
               [] o[1] \in {"k", "x", "g"} -> AddressOf(s, s.depth, o)
               [] OTHER -> Content(s, o)
    IN  IF w = 32 THEN Wrap(x) ELSE x
Update(f, k, v) == [q \in DOMAIN f \cup {k} |-> IF q = k THEN v ELSE f[q]]
SetTo(s, t, x, w) == [s EXCEPT !.r = Update(@, t, IF w = 32 THEN Unsigned(x) ELSE x)]
ContentAt(s, p, w) == IF w = 32 THEN Unsigned(ReadMem(s, p))
                   ELSE ReadMem(s, p) + Modulus * ReadMem(s, p + 4)
StoreAt(s, p, x, w) ==
    [s EXCEPT !.mem = IF w = 32 THEN Update(@, p, Unsigned(x))
                      ELSE Update(Update(@, p, Unsigned(x)), p + 4, (x - Unsigned(x)) \div Modulus)]
Compute64(op, x, y) == CASE op = "add" -> x + y [] op = "sub" -> x - y
                         [] op = "shl" -> x * Pow2[y] [] op = "mul" -> x * y

Issue(i, s) ==
    LET u(k) == Operand(s, i.u[k], i.w)
        t == i.d[1]
    IN  CASE i.op = "copy" -> SetTo(s, t, u(1), i.w)
          [] i.op = "math" -> SetTo(s, t, IF i.w = 32 THEN Compute(i.k, u(1), u(2))
                                          ELSE Compute64(i.k, u(1), u(2)), i.w)
          [] i.op = "madd" -> SetTo(s, t, Wrap(u(3) + u(1) * u(2)), i.w)
          [] i.op = "msub" -> SetTo(s, t, Wrap(u(3) - u(1) * u(2)), i.w)
          [] i.op = "ldr" -> SetTo(s, t, ContentAt(s, AddressOf(s, s.depth, i.u[1]), i.w), 64)
          [] i.op = "str" -> StoreAt(s, AddressOf(s, IF i.call THEN s.depth + 1 ELSE s.depth, i.u[2]),
                                     u(1), i.w)
          [] i.op = "stp" -> StoreAt(StoreAt(s, AddressOf(s, 0, i.u[3]), u(1), 64), AddressOf(s, 0, i.u[3]) + 8, u(2), 64)
          [] i.op = "ldp" -> SetTo(SetTo(s, t, ContentAt(s, AddressOf(s, 0, i.u[1]), 64), 64),
                                   i.d[2], ContentAt(s, AddressOf(s, 0, i.u[1]) + 8, 64), 64)
          [] i.op = "sxtw" -> SetTo(s, t, Wrap(u(1)), 64)
          \* ADD or SUB of the operand and itself, shifted
          [] i.op = "shifted" -> SetTo(s, t, Compute(i.k, u(1), Wrap(u(1) * Pow2[i.u[2][2]])), i.w)
          [] i.op = "subs" -> [SetTo(s, t, Wrap(u(1) - u(2)), 32) EXCEPT !.flags = <<u(1), u(2)>>]
          [] i.op = "cmp" -> [s EXCEPT !.flags = <<u(1), u(2)>>]
          [] i.op = "cset" -> SetTo(s, t, Compute(i.k, s.flags[1], s.flags[2]), 32)
          [] OTHER -> s

\* Code without calls and branches, from its first to its last instruction.
IssueAll(code, s) ==
    LET after[k \in 0..Len(code)] == IF k = 0 THEN s ELSE Issue(code[k], after[k - 1])
    IN  after[Len(code)]
=============================================================================
