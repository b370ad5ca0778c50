----------------------------- MODULE MachineCode -----------------------------
(***************************************************************************)
(* The machine representation of src/machineir, before and after registers *)
(* are assigned and frames laid out, and what a program in it does on an   *)
(* AArch64 with few registers.                                             *)
(*                                                                         *)
(* A program c is a record:                                                *)
(*   code, pre, suc  the blocks: their instructions and neighbours;        *)
(*   fn   the functions: order, the list of their blocks (prolog first),   *)
(*        stack, the sizes in bytes of the slots of the frame, spilled,    *)
(*        those among them that spilling made, fix, the sizes of the       *)
(*        arguments handed over on the stack, lr, the register that guards *)
(*        the link register, keep, the constant globals;                   *)
(*   width, prefer, load  by virtual register: its bits, replacePrefer_    *)
(*        and needLoad_;                                                   *)
(*   temps, sunk  the registers that spilling made, and those whose        *)
(*        definition stays where it is (sinked);                           *)
(*   weight, next, glob, scalars  as the names say; o1, -O1;               *)
(*   laid  TRUE when CodeGen has replaced the slots by offsets from SP and *)
(*        given every function its prefix and suffix;                      *)
(*   runs FALSE when the compiler has failed an assertion.                 *)
(*                                                                         *)
(* Instructions, operands and what an instruction does: module Target.     *)
(***************************************************************************)
EXTENDS IRCode, Target

CONSTANTS NParameters,  \* arguments handed over in registers: X0, X1, ...
          Saved         \* the allocatable registers a callee restores

ASSUME RegisterAssumption == NParameters \in 1..8 /\ Saved \subseteq 19..29

ParameterRegisters == {R(k) : k \in 0..(NParameters - 1)}
CalleeSaved == {R(k) : k \in Saved}
CallerSaved == ParameterRegisters \cup {LR}
Allocatable == CalleeSaved \cup CallerSaved

IsRegister(o) == o[1] \in {"v", "r"}
\* def() with imp_def(), use() with imp_use() of an instruction.
Defined(i) == ToSet(i.d) \cup (IF i.op = "bl" THEN CallerSaved ELSE {})
UsedBy(i) == {o \in ToSet(i.u) : IsRegister(o)}
           \cup (CASE i.op = "bl" -> {R(k) : k \in 0..(i.w - 1)}
                   [] i.op = "ret" -> {LR} \cup (IF i.w = 1 THEN {R(0)} ELSE {})
                   [] OTHER -> {})

\* MInstruction::replace() of every operand, and MFunction::replaceAllOperands().
Renamed(i, Name(_)) == [i EXCEPT !.d = [k \in DOMAIN @ |-> Name(@[k])],
                                 !.u = [k \in DOMAIN @ |-> Name(@[k])]]
ReplaceOperand(i, from, to) ==
    IF from \in ToSet(i.d) \cup ToSet(i.u)
    THEN Renamed(i, LAMBDA o : IF o = from THEN to ELSE o) ELSE i
ReplaceAllOperands(code, from, to) ==
    [b \in DOMAIN code |-> [k \in DOMAIN code[b] |-> ReplaceOperand(code[b][k], from, to)]]
AddBeforeLast(s, i) == Front(s) \o <<i, Last(s)>>
CodeOf(c, f) == UNION {ToSet(c.code[b]) : b \in Blocks(c, f)}

-----------------------------------------------------------------------------
(***************************************************************************)
(* Execution.  Before CodeGen the frames have made up addresses and calls  *)
(* keep the calling convention by themselves; after it SP, saved registers *)
(* and return address are what the code makes them.                        *)
(***************************************************************************)
Words(p, count) == {p + 4 * k : k \in 0..(4 * count - 1)}

\* A floating-point register as two halves.
Half(x, lane) == IF lane = 0 THEN Unsigned(x) ELSE (x \div Modulus) % Modulus
WithHalf(x, lane, y) == IF lane = 0 THEN Half(x, 1) * Modulus + y ELSE Half(x, 0) + Modulus * y
WholeOf(o) == <<o[1], o[2]>>
MoveFloat(s, from, to) ==
    LET old == Content(s, WholeOf(to))
        y == Content(s, WholeOf(from))
    IN  CASE Len(from) = 3 -> SetTo(s, to, Half(y, from[3]), 64)
          [] Len(to) = 3 -> SetTo(s, WholeOf(to), WithHalf(old, to[3], Unsigned(y)), 64)
          [] OTHER -> SetTo(s, to, y, 64)

RECURSIVE CallMachine(_, _, _)
Do(c, i, s) ==
    CASE i.op = "bl" -> CallMachine(c, i.to[1], s)
      [] i.op = "simd" -> MoveFloat(s, i.u[1], i.d[1])
      \* LD1 and ST1 of 16 bytes at a time
      [] i.op = "clear16" -> [s EXCEPT !.mem = [p \in Words(Content(s, IP0), i.w) |-> 0] @@ @]
      [] i.op = "copy16" ->
           [s EXCEPT !.mem = [p \in Words(Content(s, IP1), i.w) |->
                                ReadMem(s, Content(s, IP0) + p - Content(s, IP1))] @@ @]
      [] OTHER -> Issue(i, s)
Step(c, i, s) == IF s.fuel = 0 THEN s ELSE Do(c, i, s)

\* MBasicBlock::needBranchCount(): with `next` behind the block, how many of the
\* branches at its end are written.
NeedBranchCount(i, next) ==
    IF i.op # "b" THEN 0
    ELSE IF Len(i.to) = 2 THEN IF i.to[2] = next THEN 1 ELSE 2
    ELSE IF i.to[1] = next THEN 0 ELSE 1
Behind(order, b) == LET k == CHOOSE j \in DOMAIN order : order[j] = b
                    IN  IF k < Len(order) THEN order[k + 1] ELSE 0

Token(depth) == 9000 + depth
Stuck(s) == [s EXCEPT !.fuel = 0]
RECURSIVE RunFrom(_, _, _, _)
Leaves(c, f, b, i, s) ==
    CASE s.fuel = 0 -> s
      [] i.op = "ret" -> IF Content(s, LR) = Token(s.depth) THEN s ELSE Stuck(s)
      [] i.op = "b" /\ Len(i.to) = 2 /\ Compute(i.k, s.flags[1], s.flags[2]) = 1 ->
           RunFrom(c, f, i.to[1], s)
      [] i.op = "b" /\ NeedBranchCount(i, Behind(c.fn[f].order, b)) = Len(i.to) ->
           RunFrom(c, f, Last(i.to), s)
      [] Behind(c.fn[f].order, b) = 0 -> Stuck(s)
      [] OTHER -> RunFrom(c, f, Behind(c.fn[f].order, b), s)
RunFrom(c, f, b, s) ==
    IF s.fuel = 0 THEN s
    ELSE Leaves(c, f, b, Last(c.code[b]),
                InTurn(LAMBDA t, i : Step(c, i, t), [s EXCEPT !.fuel = @ - 1], c.code[b]))

\* The runtime library destroys every register the convention allows it to.
Forget(r, S) == [o \in DOMAIN r \ S |-> r[o]]
Library(f, s) ==
    CASE f = -1 -> [s EXCEPT !.out = Append(@, Wrap(Content(s, R(0)))), !.r = Forget(@, CallerSaved)]
      [] f = -2 -> [s EXCEPT !.in = Tail(@), !.r = (R(0) :> Unsigned(Head(s.in))) @@ Forget(@, CallerSaved)]
Physical(r) == [o \in {p \in DOMAIN r : p[1] # "v"} |-> r[o]]
Restored(c, s, e) ==
    IF c.laid THEN e.r
    ELSE (R(0) :> Content(e, R(0))) @@ Forget(s.r, CallerSaved \cup {IP0, IP1})
\* What a callee owes its caller: SP and the registers of the convention.
Kept(s, e) == \A o \in CalleeSaved \cup {SP} \cup {p \in DOMAIN s.r : p[1] = "s"} :
                 Content(e, o) = Content(s, o)
Begun(c, f, s) == IF c.laid THEN IssueAll(c.fn[f].prefix, s) ELSE s
ReturnFrom(c, s, e) == [e EXCEPT !.depth = s.depth, !.r = Restored(c, s, e),
                             !.abi = @ /\ (e.fuel > 0 /\ c.laid => Kept(s, e))]
CallMachine(c, f, s) ==
    IF f < 0 THEN Library(f, s)
    ELSE ReturnFrom(c, s, RunFrom(c, f, Entry(c, f),
                              Begun(c, f, [s EXCEPT !.depth = @ + 1,
                                                    !.r = (LR :> Token(s.depth + 1)) @@ Physical(@)])))

Begin(c, in, fuel) ==
    [r |-> SP :> 5000, mem |-> [p \in {4 * a : a \in DOMAIN c.glob} |-> c.glob[p \div 4]],
     out |-> <<>>, in |-> in, fuel |-> fuel, depth |-> 0, flags |-> <<0, 0>>, abi |-> TRUE]
Execution(c, in, fuel) == CallMachine(c, 1, Begin(c, in, fuel))
Outcome(s) == [out |-> s.out, ret |-> Wrap(Content(s, R(0))), ends |-> s.fuel > 0]
=============================================================================
