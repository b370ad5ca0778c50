------------------------------- MODULE Word -------------------------------
(***************************************************************************)
(* The 32-bit two's complement integers of SysY, at a width of W bits: the *)
(* compiler folds constants with the int of its host and the compiled      *)
(* program computes with the registers of the target, and both wrap.       *)
(***************************************************************************)
EXTENDS Integers, FiniteSets

CONSTANT W

ASSUME WAssumption == W \in Nat /\ W > 2

Pow2[k \in Nat] == IF k = 0 THEN 1 ELSE 2 * Pow2[k - 1]

Modulus == Pow2[W]
MinWord == -Pow2[W - 1]
MaxWord == Pow2[W - 1] - 1
WordSet == MinWord..MaxWord

\* The low W bits of x, read as a signed number.
Wrap(x) == ((x - MinWord) % Modulus) + MinWord

Unsigned(x) == x % Modulus

Abs(x) == IF x < 0 THEN -x ELSE x

\* Division truncates towards zero; SDIV gives 0 for a zero divisor and wraps
\* for the smallest number divided by -1.
WDiv(x, y) ==
    IF y = 0 THEN 0
    ELSE LET q == Abs(x) \div Abs(y)
         IN  Wrap(IF (x < 0) = (y < 0) THEN q ELSE -q)

\* The remainder is computed as x - (x / y) * y.
WRem(x, y) == Wrap(x - WDiv(x, y) * y)

WShl(x, k) == Wrap(x * Pow2[k % W])
WAshr(x, k) == x \div Pow2[k % W]

Bit(x, k) == (Unsigned(x) \div Pow2[k]) % 2
WAnd(x, y) == LET bits[k \in 0..W] == IF k = 0 THEN 0
                                     ELSE bits[k - 1] + Pow2[k - 1] * Bit(x, k - 1) * Bit(y, k - 1)
              IN  Wrap(bits[W])

\* What was never computed or written is garbage; memory is a function on
\* addresses.
Garbage == MaxWord
ReadMem(s, p) == IF p \in DOMAIN s.mem THEN s.mem[p] ELSE Garbage

\* The operation of an instruction or of an operator on two integers.
Compute(op, x, y) ==
    CASE op = "add"  -> Wrap(x + y)
      [] op = "sub"  -> Wrap(x - y)
      [] op \in {"mul", "mull"} -> Wrap(x * y)
      [] op = "sdiv" -> WDiv(x, y)
      [] op = "srem" -> WRem(x, y)
      [] op = "shl"  -> WShl(x, y)
      [] op = "ashr" -> WAshr(x, y)
      [] op = "and"  -> WAnd(x, y)
      [] op = "lt"   -> IF x < y THEN 1 ELSE 0
      [] op = "le"   -> IF x <= y THEN 1 ELSE 0
      [] op = "gt"   -> IF x > y THEN 1 ELSE 0
      [] op = "ge"   -> IF x >= y THEN 1 ELSE 0
      [] op = "eq"   -> IF x = y THEN 1 ELSE 0
      [] op = "ne"   -> IF x # y THEN 1 ELSE 0
=============================================================================
