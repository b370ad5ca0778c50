-------------------------- MODULE StrengthReduction --------------------------
(***************************************************************************)
(* Arithmetic, one instruction at a time: what simplify() puts in place of *)
(* an operation on integers.  What the signs of values would allow besides *)
(* (useSignalInfer) is off, so decideSignal() does nothing.                *)
(***************************************************************************)
EXTENDS Word, Sequences

Integral == {"add", "sub", "mul", "mull", "sdiv", "srem", "shl", "ashr", "and"}

C(n) == <<"c", n>>
IsConst(o) == o[1] = "c"

\* n & (n - 1) = 0, and m_countr_zero(), for a positive number or the smallest.
PowerOfTwo(n) == \E k \in 0..(W - 1) : Wrap(Pow2[k]) = n
CountrZero(n) == CHOOSE k \in 0..(W - 1) : Wrap(Pow2[k]) = n

\* What becomes of an instruction: nothing; the value o in its place; another
\* instruction; 0 - x and behind it a shift by n, which takes its place.
Nothing == [kind |-> "nothing"]
Value(o) == [kind |-> "value", o |-> o]
Inst(op, a) == [kind |-> "inst", op |-> op, a |-> a]
NegThenShift(x, n) == [kind |-> "shift", x |-> x, n |-> n]

\* optimize_addsub()
AddSub(op, l, r) ==
    CASE op = "sub" /\ l = r -> Value(C(0))
      [] op = "add" /\ l = C(0) -> Value(r)
      [] r = C(0) /\ ~(op = "sub" /\ l = r) /\ ~(op = "add" /\ l = C(0)) -> Value(l)
      [] OTHER -> Nothing

\* optimize_mul(): by the constant n; mull is a multiplication by 2^k + 1 or
\* 1 - 2^k, its operands exchanged.
MulBy(op, x, n, a) ==
    CASE n = 0 -> Value(C(0))
      [] n = 1 -> Value(x)
      [] n = -1 -> Inst("sub", <<C(0), x>>)
      [] n > 1 /\ PowerOfTwo(n) -> Inst("shl", <<x, C(CountrZero(n))>>)
      [] n < -1 /\ PowerOfTwo(Wrap(-n)) -> NegThenShift(x, CountrZero(Wrap(-n)))
      [] op = "mul" /\ n \notin {-1, 0, 1} /\ ~PowerOfTwo(Wrap(-n)) /\ ~PowerOfTwo(n)
           /\ PowerOfTwo(Wrap(Abs(Wrap(n - 1)))) -> Inst("mull", <<a[2], a[1]>>)
      [] OTHER -> Nothing

\* optimize_div()
Div(l, r) ==
    CASE l = r -> Value(C(1))
      [] l # r /\ l = C(0) -> Value(C(0))
      [] l # r /\ l # C(0) /\ r = C(1) -> Value(l)
      [] l # r /\ l # C(0) /\ r = C(-1) -> Inst("sub", <<C(0), l>>)
      [] OTHER -> Nothing

\* optimize_rem(): a remainder that is only compared with 0 is a mask.
Rem(l, r, compared) ==
    CASE l = r \/ l = C(0) \/ r \in {C(1), C(-1)} -> Value(C(0))
      [] ~(l = r \/ l = C(0) \/ r \in {C(1), C(-1)}) /\ IsConst(r) /\ PowerOfTwo(Wrap(Abs(r[2])))
           /\ compared -> Inst("and", <<l, C(Wrap(Abs(r[2]) - 1))>>)
      [] OTHER -> Nothing

\* optimize_shl(), optimize_ashr(), optimize_and()
Shift(l, r) == CASE l = C(0) -> Value(C(0))
                 [] l # C(0) /\ r = C(0) -> Value(l)
                 [] OTHER -> Nothing
And(l, r) == CASE C(0) \in {l, r} -> Value(C(0))
               [] l # C(0) /\ r = C(-1) -> Value(l)
               [] OTHER -> Nothing

\* simplify() of op on the two operands a: constants are folded before all but
\* the first cases of sub, sdiv and srem, which give the same.  compared: the
\* result is only compared with 0.
Simplified(op, a, compared) ==
    IF op \in Integral /\ IsConst(a[1]) /\ IsConst(a[2])
    THEN IF op = "sdiv" /\ a[1] = a[2] THEN Value(C(1)) ELSE Value(C(Compute(op, a[1][2], a[2][2])))
    ELSE CASE op \in {"add", "sub"} -> AddSub(op, a[1], a[2])
           [] op \in {"mul", "mull"} /\ IsConst(a[1]) -> MulBy(op, a[2], a[1][2], a)
           [] op \in {"mul", "mull"} /\ IsConst(a[2]) -> MulBy(op, a[1], a[2][2], a)
           [] op = "sdiv" -> Div(a[1], a[2])
           [] op = "srem" -> Rem(a[1], a[2], compared)
           [] op \in {"shl", "ashr"} -> Shift(a[1], a[2])
           [] op = "and" -> And(a[1], a[2])
           [] OTHER -> Nothing
=============================================================================
