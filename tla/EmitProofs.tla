----------------------------- MODULE EmitProofs -----------------------------
(***************************************************************************)
(* What the instructions do that CodeGen writes: the sequences for an      *)
(* operation compute it, frames are entered and left with every register   *)
(* restored, arguments on the stack are found.                             *)
(*                                                                         *)
(* A writer g has written g.is; the machine that has carried that out from *)
(* the state s0 is in the state IssueAll(g.is, s0).  A lemma about a       *)
(* helper of CodeGen relates the state before it to the state after it,    *)
(* for every s0.                                                           *)
(***************************************************************************)
EXTENDS Emit, StrengthReductionProofs, FramePlacementProofs

IsCode(is) == \E I : is \in Seq(I)

(* Code is carried out one instruction after the other: h are the states up  *)
(* to the n-th instruction.                                                  *)
Follow1(h, code, s, n) ==
  /\ h = [k \in 0..n |-> h[k]]
  /\ h[0] = s
  /\ \A k \in 0..(n - 1) : h[k + 1] = Issue(code[k + 1], h[k])

LEMMA SomeTrace ==
  ASSUME NEW code, NEW s
  PROVE  \A n \in Nat : \E h : Follow1(h, code, s, n)
<1> DEFINE S == {n \in Nat : \E h : Follow1(h, code, s, n)}
<1>1. 0 \in S
  <2> DEFINE h == [k \in 0..0 |-> s]
  <2>1. h = [k \in 0..0 |-> h[k]] /\ h[0] = s
    OBVIOUS
  <2> HIDE DEF h
  <2>2. Follow1(h, code, s, 0)
    BY <2>1 DEF Follow1
  <2> QED BY <2>2
<1>2. ASSUME NEW n \in S PROVE n + 1 \in S
  <2>1. n \in Nat
    OBVIOUS
  <2>2. PICK h : Follow1(h, code, s, n)
    OBVIOUS
  <2> DEFINE g == [k \in 0..(n + 1) |-> IF k = n + 1 THEN Issue(code[n + 1], h[n]) ELSE h[k]]
  <2>3. g = [k \in 0..(n + 1) |-> g[k]] /\ g[0] = s
    BY <2>1, <2>2 DEF Follow1
  <2>4. ASSUME NEW k \in 0..n PROVE g[k + 1] = Issue(code[k + 1], g[k])
    <3>1. k \in 0..(n + 1) /\ k + 1 \in 0..(n + 1) /\ g[k] = h[k]
      BY <2>1
    <3>2. CASE k = n
      BY <3>1, <3>2, <2>1
    <3>3. CASE k # n
      <4>1. k \in 0..(n - 1) /\ k + 1 # n + 1
        BY <3>3, <2>1
      <4> QED BY <4>1, <3>1, <2>2 DEF Follow1
    <3> QED BY <3>2, <3>3
  <2> HIDE DEF g
  <2>5. (n + 1) - 1 = n
    BY <2>1
  <2>6. Follow1(g, code, s, n + 1)
    BY <2>3, <2>4, <2>5 DEF Follow1
  <2> QED BY <2>1, <2>6
<1>3. S = Nat
  <2> HIDE DEF S
  <2>1. S \in SUBSET Nat
    BY DEF S
  <2> QED BY <2>1, <1>1, <1>2, SetInduction
<1> QED BY <1>3

(* Up to where they agree, two pieces of code do the same.                   *)
LEMMA OneTrace ==
  ASSUME NEW c, NEW d, NEW s, NEW n \in Nat, NEW m \in Nat, n <= m, NEW g, NEW h,
         Follow1(g, c, s, n), Follow1(h, d, s, m), \A k \in 1..n : c[k] = d[k]
  PROVE  g[n] = h[n]
<1> DEFINE S == {k \in Nat : k <= n => g[k] = h[k]}
<1>1. 0 \in S
  BY DEF Follow1
<1>2. ASSUME NEW k \in S PROVE k + 1 \in S
  <2> SUFFICES ASSUME k + 1 <= n PROVE g[k + 1] = h[k + 1]
    OBVIOUS
  <2>1. k \in 0..(n - 1) /\ k \in 0..(m - 1) /\ k + 1 \in 1..n /\ g[k] = h[k]
    OBVIOUS
  <2> QED BY <2>1 DEF Follow1
<1>3. S = Nat
  <2> HIDE DEF S
  <2>1. S \in SUBSET Nat
    BY DEF S
  <2> QED BY <2>1, <1>1, <1>2, SetInduction
<1> QED BY <1>3

LEMMA IssueAllIs ==
  ASSUME NEW code, IsCode(code), NEW s
  PROVE  /\ Len(code) \in Nat
         /\ \E h : Follow1(h, code, s, Len(code)) /\ IssueAll(code, s) = h[Len(code)]
<1> DEFINE n == Len(code)
           Is(h) == h = [k \in 0..n |-> IF k = 0 THEN s ELSE Issue(code[k], h[k - 1])]
           t == CHOOSE h : Is(h)
<1>1. n \in Nat
  BY DEF IsCode
<1>2. PICK h : Follow1(h, code, s, n)
  BY <1>1, SomeTrace
<1>3. Is(h)
  <2>1. ASSUME NEW k \in 0..n PROVE h[k] = IF k = 0 THEN s ELSE Issue(code[k], h[k - 1])
    <3>1. CASE k = 0
      BY <3>1, <1>2 DEF Follow1
    <3>2. CASE k # 0
      <4>1. k - 1 \in 0..(n - 1) /\ (k - 1) + 1 = k
        BY <3>2, <1>1
      <4> QED BY <4>1, <3>2, <1>2 DEF Follow1
    <3> QED BY <3>1, <3>2
  <2>2. [k \in 0..n |-> h[k]] = [k \in 0..n |-> IF k = 0 THEN s ELSE Issue(code[k], h[k - 1])]
    BY <2>1
  <2>3. h = [k \in 0..n |-> h[k]]
    BY <1>2 DEF Follow1
  <2> QED BY <2>2, <2>3
<1>4. Is(t)
  <2> HIDE DEF Is
  <2> QED BY <1>3
<1>5. IssueAll(code, s) = t[n]
  BY DEF IssueAll
<1>6. Follow1(t, code, s, n)
  <2> HIDE DEF t
  <2>1. \A k \in 0..n : t[k] = IF k = 0 THEN s ELSE Issue(code[k], t[k - 1])
    BY <1>4
  <2>2. t = [k \in 0..n |-> t[k]]
    BY <1>4
  <2>3. t[0] = s
    <3>1. 0 \in 0..n
      BY <1>1
    <3> QED BY <3>1, <2>1
  <2>4. ASSUME NEW k \in 0..(n - 1) PROVE t[k + 1] = Issue(code[k + 1], t[k])
    <3>1. k + 1 \in 0..n /\ k + 1 # 0 /\ (k + 1) - 1 = k
      BY <1>1
    <3> QED BY <3>1, <2>1
  <2> QED BY <2>2, <2>3, <2>4 DEF Follow1
<1> QED BY <1>1, <1>5, <1>6

LEMMA IssueLast ==
  ASSUME NEW code, IsCode(code), NEW s, NEW i
  PROVE  /\ IsCode(Append(code, i))
         /\ IssueAll(Append(code, i), s) = Issue(i, IssueAll(code, s))
<1> DEFINE n == Len(code)
           more == Append(code, i)
<1>1. PICK I : code \in Seq(I)
  BY DEF IsCode
<1>2. /\ n \in Nat /\ more \in Seq(I \cup {i}) /\ Len(more) = n + 1
      /\ more[n + 1] = i /\ \A k \in 1..n : code[k] = more[k]
  BY <1>1
<1>3. IsCode(more)
  BY <1>2 DEF IsCode
<1> HIDE DEF more, n
<1>4. PICK g : Follow1(g, code, s, n) /\ IssueAll(code, s) = g[n]
  BY IssueAllIs DEF n
<1>5. PICK h : Follow1(h, more, s, n + 1) /\ IssueAll(more, s) = h[n + 1]
  BY <1>2, <1>3, IssueAllIs
<1>6. g[n] = h[n]
  <2>1. n + 1 \in Nat /\ n <= n + 1
    BY <1>2
  <2> QED BY <2>1, <1>2, <1>4, <1>5, OneTrace
<1>7. h[n + 1] = Issue(more[n + 1], h[n])
  <2>1. n \in 0..((n + 1) - 1)
    BY <1>2
  <2> QED BY <2>1, <1>5 DEF Follow1
<1> QED BY <1>2, <1>3, <1>4, <1>5, <1>6, <1>7 DEF more

-----------------------------------------------------------------------------
(* One instruction.                                                          *)
IsMachine(s) ==
  /\ {"r", "mem", "depth"} \subseteq DOMAIN s
  /\ ZR \notin DOMAIN s.r
  /\ \A q \in DOMAIN s.r : s.r[q] \in Int
  /\ \A p \in DOMAIN s.mem : s.mem[p] \in Int

(* From s to e, only the registers T may have changed.                       *)
OnlyRegisters(s, e, T) ==
  /\ IsMachine(e)
  /\ DOMAIN e = DOMAIN s /\ \A k \in DOMAIN s \ {"r"} : e[k] = s[k]
  /\ \A q : q \notin T => Content(e, q) = Content(s, q)

Widths == {32, 64}
AtWidth(x, w) == IF w = 32 THEN Wrap(x) ELSE x

LEMMA GarbageIs == Garbage \in Int /\ Modulus \in Nat \ {0}
BY WordsAre DEF Garbage, MaxWord, Half

LEMMA WrapOfUnsigned ==
  ASSUME NEW x \in Int
  PROVE  Unsigned(x) \in 0..(Modulus - 1) /\ Unsigned(x) \in Int /\ Wrap(Unsigned(x)) = Wrap(x)
<1> DEFINE m == Modulus
<1>1. m \in Nat \ {0}
  BY GarbageIs
<1>2. x \div m \in Int /\ x % m \in 0..(m - 1) /\ x = m * (x \div m) + (x % m)
  BY <1>1, Division
<1>3. x % m = x + (-(x \div m)) * m /\ x % m \in Int /\ -(x \div m) \in Int
  BY <1>1, <1>2
<1>4. Wrap(x % m) = Wrap(x)
  BY <1>3, Congruent
<1> QED BY <1>2, <1>3, <1>4 DEF Unsigned

LEMMA ContentIs ==
  ASSUME NEW s, IsMachine(s)
  PROVE  /\ \A q : Content(s, q) \in Int
         /\ Content(s, ZR) = 0
         /\ \A p : ReadMem(s, p) \in Int
BY GarbageIs DEF IsMachine, Content, ReadMem

LEMMA SetToSets ==
  ASSUME NEW s, IsMachine(s), NEW t, t # ZR, NEW x \in Int, NEW w \in Widths
  PROVE  /\ OnlyRegisters(s, SetTo(s, t, x, w), {t})
         /\ Content(SetTo(s, t, x, w), t) = IF w = 32 THEN Unsigned(x) ELSE x
<1> DEFINE y == IF w = 32 THEN Unsigned(x) ELSE x
           f == Update(s.r, t, y)
           e == SetTo(s, t, x, w)
<1>1. y \in Int
  BY WrapOfUnsigned
<1>2. e = [s EXCEPT !.r = f]
  BY DEF SetTo
<1> HIDE DEF y, f
<1>3. /\ DOMAIN f = DOMAIN s.r \cup {t} /\ f[t] = y
      /\ \A q \in DOMAIN s.r : q # t => f[q] = s.r[q]
  BY DEF f, Update
<1> HIDE DEF e
<1>4. DOMAIN e = DOMAIN s /\ e.r = f /\ \A k \in DOMAIN s \ {"r"} : e[k] = s[k]
  BY <1>2 DEF IsMachine
<1>5. IsMachine(e)
  <2>1. e.mem = s.mem
    BY <1>4 DEF IsMachine
  <2> QED BY <1>1, <1>3, <1>4, <2>1 DEF IsMachine
<1>6. \A q : q \notin {t} => Content(e, q) = Content(s, q)
  BY <1>3, <1>4 DEF Content
<1>7. Content(e, t) = y
  BY <1>3, <1>4 DEF Content
<1> QED BY <1>4, <1>5, <1>6, <1>7 DEF OnlyRegisters, e, y

IntRegisters == {<<"r", k>> : k \in Nat}
Registers == IntRegisters \cup {<<"s", k>> : k \in Nat}

LEMMA OperandIs64 ==
  ASSUME NEW s, NEW w
  PROVE  /\ \A q \in Registers : Operand(s, q, w) = AtWidth(Content(s, q), w)
         /\ \A n : Operand(s, C(n), w) = AtWidth(n, w)
BY DEF Operand, AtWidth, Registers, IntRegisters, C

LEMMA IssueCopy ==
  ASSUME NEW s, NEW o, NEW t, NEW w
  PROVE  Issue(MCopy(o, t, w), s) = SetTo(s, t, Operand(s, o, w), w)
BY DEF Issue, MCopy, MInst

LEMMA IssueMath ==
  ASSUME NEW s, NEW op, NEW l, NEW r, NEW t, NEW w
  PROVE  Issue(MMathInst(op, l, r, t, w), s) =
           SetTo(s, t, IF w = 32 THEN Compute(op, Operand(s, l, w), Operand(s, r, w))
                       ELSE Compute64(op, Operand(s, l, w), Operand(s, r, w)), w)
BY DEF Issue, MMathInst, MInst

LEMMA IssueMsub ==
  ASSUME NEW s, NEW t, NEW l, NEW r, NEW a
  PROVE  Issue(MMAddSUB("msub", t, l, r, a), s) =
           SetTo(s, t, Wrap(Operand(s, a, 32) - Operand(s, l, 32) * Operand(s, r, 32)), 32)
BY DEF Issue, MMAddSUB, MInst

LEMMA IssueShifted ==
  ASSUME NEW s, NEW op, NEW l, NEW k, NEW t
  PROVE  Issue(MShifted(op, l, k, t, 32), s) =
           SetTo(s, t, Compute(op, Operand(s, l, 32), Wrap(Operand(s, l, 32) * Pow2[k])), 32)
BY DEF Issue, MShifted, MInst, C

-----------------------------------------------------------------------------
(* Writers, and the machine that has carried out what g has written.         *)
Scratch == {IP0, IP1}
Writer(g) ==
  /\ {"x", "is", "busy", "turn", "callee", "f"} \subseteq DOMAIN g
  /\ IsCode(g.is)
  /\ g.busy \subseteq Scratch
After(g, s0) == IssueAll(g.is, s0)

(* From g to h no assertion has failed and nothing but registers in T has    *)
(* changed.                                                                  *)
Effect(g, h, s0, T) ==
  /\ Writer(h)
  /\ h.x = g.x /\ h.f = g.f /\ h.callee = g.callee
  /\ OnlyRegisters(After(g, s0), After(h, s0), T)

LEMMA ScratchIs ==
  /\ IP0 # IP1 /\ ZR \notin Scratch /\ SP \notin Scratch /\ SP # ZR
  /\ Scratch \subseteq IntRegisters /\ ZR \in IntRegisters /\ SP \in IntRegisters
  /\ IntRegisters \subseteq Registers
  /\ Scratch \subseteq Registers /\ ZR \in Registers /\ SP \in Registers
BY DEF IP0, IP1, ZR, SP, R, Scratch, Registers, IntRegisters

LEMMA OnlyTogether ==
  ASSUME NEW s, NEW e, NEW f, NEW T, NEW U, IsMachine(s),
         OnlyRegisters(s, e, T), OnlyRegisters(e, f, U)
  PROVE  OnlyRegisters(s, f, T \cup U)
BY DEF OnlyRegisters

LEMMA OnlyMore ==
  ASSUME NEW s, NEW e, NEW T, NEW U, OnlyRegisters(s, e, T), T \subseteq U
  PROVE  OnlyRegisters(s, e, U)
BY DEF OnlyRegisters

LEMMA OnlyNone ==
  ASSUME NEW s, IsMachine(s), NEW T
  PROVE  OnlyRegisters(s, s, T)
BY DEF OnlyRegisters

LEMMA EffectTogether ==
  ASSUME NEW g, NEW h, NEW i, NEW s0, NEW T, NEW U, NEW V, IsMachine(After(g, s0)),
         Effect(g, h, s0, T), Effect(h, i, s0, U), T \cup U \subseteq V
  PROVE  Effect(g, i, s0, V) /\ IsMachine(After(h, s0)) /\ IsMachine(After(i, s0))
<1>1. OnlyRegisters(After(g, s0), After(i, s0), T \cup U)
  BY OnlyTogether DEF Effect
<1>2. OnlyRegisters(After(g, s0), After(i, s0), V)
  BY <1>1, OnlyMore
<1> QED BY <1>2 DEF Effect, OnlyRegisters

LEMMA OperandsStay ==
  ASSUME NEW s, NEW e, NEW T, OnlyRegisters(s, e, T), NEW w
  PROVE  /\ \A q \in Registers : q \notin T => Operand(e, q, w) = Operand(s, q, w)
         /\ \A n : Operand(e, C(n), w) = Operand(s, C(n), w)
BY OperandIs64 DEF OnlyRegisters

LEMMA OperandsAre ==
  ASSUME NEW s, IsMachine(s)
  PROVE  /\ \A q \in Registers : Operand(s, q, 32) \in WordSet
         /\ \A q \in Registers, w \in Widths : Operand(s, q, w) \in Int
         /\ \A n \in Int : Operand(s, C(n), 32) \in WordSet
         /\ \A n \in Int, w \in Widths : Operand(s, C(n), w) \in Int
<1>1. \A x \in Int : Wrap(x) \in WordSet /\ Wrap(x) \in Int
  BY Wrapped
<1>2. \A q : Content(s, q) \in Int
  BY ContentIs
<1> QED BY <1>1, <1>2, OperandIs64 DEF AtWidth, Widths

LEMMA PutDoes ==
  ASSUME NEW g, Writer(g), NEW i, NEW s0
  PROVE  LET h == Put(g, i)
         IN  /\ Writer(h)
             /\ h.x = g.x /\ h.f = g.f /\ h.callee = g.callee /\ h.busy = g.busy
             /\ After(h, s0) = Issue(i, After(g, s0))
<1> DEFINE h == Put(g, i)
<1>1. /\ DOMAIN h = DOMAIN g /\ h.is = Append(g.is, i) /\ h.x = g.x /\ h.f = g.f
      /\ h.callee = g.callee /\ h.busy = g.busy
  BY DEF Put, Writer
<1>2. IsCode(h.is) /\ IssueAll(h.is, s0) = Issue(i, IssueAll(g.is, s0))
  BY <1>1, IssueLast DEF Writer
<1> QED BY <1>1, <1>2 DEF Writer, After

LEMMA PutSets ==
  ASSUME NEW g, Writer(g), NEW s0, IsMachine(After(g, s0)), NEW i,
         NEW t \in Registers, t # ZR, NEW x \in Int, NEW w \in Widths,
         Issue(i, After(g, s0)) = SetTo(After(g, s0), t, x, w)
  PROVE  LET h == Put(g, i)
         IN  /\ Effect(g, h, s0, {t}) /\ h.busy = g.busy
             /\ Operand(After(h, s0), t, w) = AtWidth(x, w)
<1> DEFINE h == Put(g, i)
           s == After(g, s0)
           e == After(h, s0)
<1>1. /\ Writer(h) /\ h.x = g.x /\ h.f = g.f /\ h.callee = g.callee /\ h.busy = g.busy
      /\ e = SetTo(s, t, x, w)
  BY PutDoes
<1> HIDE DEF h, e, s
<1>2. /\ OnlyRegisters(s, e, {t})
      /\ Content(e, t) = IF w = 32 THEN Unsigned(x) ELSE x
  BY <1>1, SetToSets DEF s
<1>3. Effect(g, h, s0, {t})
  BY <1>1, <1>2 DEF Effect, s, e
<1>4. Operand(e, t, w) = AtWidth(x, w)
  <2>1. Wrap(Unsigned(x)) = Wrap(x)
    BY WrapOfUnsigned
  <2> QED BY <1>2, <2>1, OperandIs64 DEF AtWidth
<1> QED BY <1>1, <1>3, <1>4 DEF h, e

LEMMA GetIPDoes ==
  ASSUME NEW g, Writer(g), g.busy # Scratch
  PROVE  LET ip == GetIP(g)
         IN  /\ ip.reg \in Scratch \ g.busy
             /\ Writer(ip.g) /\ ip.g.busy = g.busy \cup {ip.reg} /\ ip.g.is = g.is
             /\ ip.g.x = g.x /\ ip.g.f = g.f /\ ip.g.callee = g.callee
<1> DEFINE first == IF g.turn THEN IP1 ELSE IP0
           second == IF g.turn THEN IP0 ELSE IP1
           r == IF first \notin g.busy THEN first ELSE second
           h == [g EXCEPT !.turn = ~@, !.busy = @ \cup {r}]
<1>1. {first, second} = Scratch /\ g.busy \subseteq Scratch
  BY DEF Scratch, Writer
<1>2. {first, second} \ g.busy # {} /\ r \in Scratch \ g.busy
  BY <1>1
<1>3. GetIP(g) = [reg |-> r, g |-> h]
  BY <1>2 DEF GetIP, Assured
<1> HIDE DEF r
<1>4. /\ DOMAIN h = DOMAIN g /\ h.busy = g.busy \cup {r} /\ h.is = g.is
      /\ h.x = g.x /\ h.f = g.f /\ h.callee = g.callee
  BY DEF Writer
<1> HIDE DEF h
<1>5. Writer(h)
  BY <1>2, <1>4 DEF Writer
<1> QED BY <1>2, <1>3, <1>4, <1>5

LEMMA ReleaseIPDoes ==
  ASSUME NEW g, Writer(g), NEW r
  PROVE  LET h == ReleaseIP(g, r)
         IN  /\ Writer(h) /\ h.busy = g.busy \ {r} /\ h.is = g.is
             /\ h.x = g.x /\ h.f = g.f /\ h.callee = g.callee
<1> DEFINE h == ReleaseIP(g, r)
<1>1. /\ DOMAIN h = DOMAIN g /\ h.busy = g.busy \ {r} /\ h.is = g.is
      /\ h.x = g.x /\ h.f = g.f /\ h.callee = g.callee
  BY DEF Writer, ReleaseIP
<1> QED BY <1>1 DEF Writer

LEMMA SameCode ==
  ASSUME NEW g, NEW h, NEW s0, IsMachine(After(g, s0)), Writer(h), h.is = g.is,
         h.x = g.x, h.f = g.f, h.callee = g.callee
  PROVE  Effect(g, h, s0, {}) /\ After(h, s0) = After(g, s0)
BY OnlyNone DEF Effect, After

-----------------------------------------------------------------------------
(* Copies, constants and sums.                                               *)
LEMMA WidthsOfOperands ==
  ASSUME NEW s, IsMachine(s), NEW w \in Widths
  PROVE  /\ \A q \in Registers : AtWidth(Operand(s, q, w), w) = Operand(s, q, w)
         /\ \A n \in Int : AtWidth(Operand(s, C(n), w), w) = AtWidth(n, w)
<1>1. \A x \in WordSet : Wrap(x) = x
  BY WrapOfWord
<1>2. \A n \in Int : Wrap(n) \in WordSet
  BY Wrapped
<1> QED BY <1>1, <1>2, OperandsAre, OperandIs64 DEF AtWidth, Widths

LEMMA CopyRegisterDoes ==
  ASSUME NEW g, Writer(g), NEW s0, IsMachine(After(g, s0)),
         NEW to \in Registers, to # ZR, NEW l \in Registers, NEW w \in Widths
  PROVE  LET h == CopyRegister(g, to, l, w)
         IN  /\ Effect(g, h, s0, {to}) /\ h.busy = g.busy
             /\ Operand(After(h, s0), to, w) = Operand(After(g, s0), l, w)
<1>1. CASE to = l
  BY <1>1, OnlyNone DEF CopyRegister, Effect
<1>2. CASE to # l
  <2> DEFINE i == MCopy(l, to, w)
             s == After(g, s0)
             x == Operand(s, l, w)
  <2>1. CopyRegister(g, to, l, w) = Put(g, i)
    BY <1>2 DEF CopyRegister
  <2>2. Issue(i, s) = SetTo(s, to, x, w)
    BY IssueCopy
  <2>3. x \in Int /\ AtWidth(x, w) = x
    BY OperandsAre, WidthsOfOperands
  <2> HIDE DEF i, x
  <2>4. /\ Effect(g, Put(g, i), s0, {to}) /\ Put(g, i).busy = g.busy
        /\ Operand(After(Put(g, i), s0), to, w) = AtWidth(x, w)
    BY <2>2, <2>3, PutSets
  <2> QED BY <2>1, <2>3, <2>4 DEF x
<1> QED BY <1>1, <1>2

LEMMA MakeImmediateDoes ==
  ASSUME NEW g, Writer(g), NEW s0, IsMachine(After(g, s0)),
         NEW to \in Registers, to # ZR, NEW n \in Int, NEW w \in Widths
  PROVE  LET h == MakeImmediate(g, n, to, w)
         IN  /\ Effect(g, h, s0, {to}) /\ h.busy = g.busy
             /\ Operand(After(h, s0), to, w) = AtWidth(n, w)
<1> DEFINE s == After(g, s0)
<1>1. CASE n = 0
  <2> DEFINE i == MCopy(ZR, to, 32)
  <2>1. MakeImmediate(g, n, to, w) = Put(g, i)
    BY <1>1 DEF MakeImmediate, CopyRegister
  <2>2. Operand(s, ZR, 32) = 0
    <3>1. Content(s, ZR) = 0 /\ ZR \in Registers
      BY ContentIs, ScratchIs
    <3>2. Wrap(0) = 0
      BY WrapOfWord, Constants
    <3> QED BY <3>1, <3>2, OperandIs64 DEF AtWidth
  <2>3. Issue(i, s) = SetTo(s, to, 0, 32)
    BY <2>2, IssueCopy
  <2>4. Unsigned(0) = 0 /\ Wrap(0) = 0
    BY GarbageIs, WrapOfWord, Constants DEF Unsigned
  <2>5. SetTo(s, to, 0, 32) = SetTo(s, to, 0, w)
    BY <2>4 DEF SetTo
  <2> HIDE DEF i
  <2>6. /\ Effect(g, Put(g, i), s0, {to}) /\ Put(g, i).busy = g.busy
        /\ Operand(After(Put(g, i), s0), to, w) = AtWidth(0, w)
    BY <2>3, <2>5, PutSets
  <2> QED BY <1>1, <2>1, <2>6
<1>2. CASE n # 0
  <2> DEFINE i == MCopy(C(n), to, w)
             x == Operand(s, C(n), w)
  <2>1. MakeImmediate(g, n, to, w) = Put(g, i)
    BY <1>2 DEF MakeImmediate
  <2>2. Issue(i, s) = SetTo(s, to, x, w)
    BY IssueCopy
  <2>3. x \in Int /\ AtWidth(x, w) = AtWidth(n, w)
    BY OperandsAre, WidthsOfOperands
  <2> HIDE DEF i, x
  <2>4. /\ Effect(g, Put(g, i), s0, {to}) /\ Put(g, i).busy = g.busy
        /\ Operand(After(Put(g, i), s0), to, w) = AtWidth(x, w)
    BY <2>2, <2>3, PutSets
  <2> QED BY <2>1, <2>3, <2>4
<1> QED BY <1>1, <1>2

(* Adding or subtracting the absolute value of n adds n.                     *)
LEMMA AddsOrSubtracts ==
  ASSUME NEW a \in Int, NEW n \in Int, NEW w \in Widths
  PROVE  LET m == AtWidth(Abs(n), w)
             op == IF n < 0 THEN "sub" ELSE "add"
             x == IF w = 32 THEN Compute(op, a, m) ELSE Compute64(op, a, m)
         IN  x \in Int /\ AtWidth(x, w) = AtWidth(a + n, w)
<1> DEFINE m == AtWidth(Abs(n), w)
           op == IF n < 0 THEN "sub" ELSE "add"
<1>1. Abs(n) \in Int /\ a + n = IF n < 0 THEN a - Abs(n) ELSE a + Abs(n)
  BY DEF Abs
<1>2. CASE w = 32
  <2>1. Compute(op, a, m) = IF n < 0 THEN Wrap(a - Wrap(Abs(n))) ELSE Wrap(a + Wrap(Abs(n)))
    BY <1>2, Computes DEF AtWidth
  <2>2. Compute(op, a, m) = Wrap(a + n)
    <3>1. Wrap(a - Wrap(Abs(n))) = Wrap(a - Abs(n)) /\ Wrap(a + Wrap(Abs(n))) = Wrap(a + Abs(n))
      BY <1>1, WrapInside
    <3> QED BY <1>1, <2>1, <3>1
  <2>3. Wrap(a + n) \in Int /\ Wrap(Wrap(a + n)) = Wrap(a + n)
    BY Wrapped, WrapOfWord
  <2> QED BY <1>2, <2>2, <2>3 DEF AtWidth
<1>3. CASE w # 32
  <2>1. Compute64(op, a, m) = a + n
    BY <1>1, <1>3 DEF AtWidth, Compute64
  <2> QED BY <1>3, <2>1 DEF AtWidth
<1> QED BY <1>2, <1>3

LEMMA PartDoes ==
  ASSUME NEW g, Writer(g), NEW s0, IsMachine(After(g, s0)), NEW to \in Registers, to # ZR,
         NEW l \in Registers, NEW n \in Int, NEW w \in Widths
  PROVE  LET h == Part(g, to, l, n, w)
         IN  /\ Effect(g, h, s0, {to}) /\ h.busy = g.busy
             /\ Operand(After(h, s0), to, w) = AtWidth(Operand(After(g, s0), l, w) + n, w)
<1> DEFINE op == IF n < 0 THEN "sub" ELSE "add"
           i == MMathInst(op, l, C(Abs(n)), to, w)
           s == After(g, s0)
           a == Operand(s, l, w)
           m == AtWidth(Abs(n), w)
           x == IF w = 32 THEN Compute(op, a, m) ELSE Compute64(op, a, m)
<1>1. Issue(i, s) = SetTo(s, to, x, w)
  BY IssueMath, OperandIs64
<1>2. a \in Int
  BY OperandsAre
<1>3. x \in Int /\ AtWidth(x, w) = AtWidth(a + n, w)
  <2> HIDE DEF a
  <2> QED BY <1>2, AddsOrSubtracts
<1>4. x \in Int
  BY <1>3
<1> HIDE DEF i, x, a, m, op
<1>5. /\ Effect(g, Put(g, i), s0, {to}) /\ Put(g, i).busy = g.busy
      /\ Operand(After(Put(g, i), s0), to, w) = AtWidth(x, w)
  BY <1>1, <1>4, PutSets
<1>6. Part(g, to, l, n, w) = Put(g, i)
  BY DEF Part, i, op
<1> QED BY <1>3, <1>5, <1>6 DEF a

LEMMA TakeScratch ==
  ASSUME NEW g, Writer(g), NEW s0, IsMachine(After(g, s0)), g.busy # Scratch
  PROVE  LET ip == GetIP(g)
         IN  /\ Effect(g, ip.g, s0, {}) /\ After(ip.g, s0) = After(g, s0)
             /\ Writer(ip.g) /\ IsMachine(After(ip.g, s0))
             /\ ip.reg \in Scratch \ g.busy /\ ip.reg \in Registers /\ ip.reg # ZR
             /\ ip.g.busy = g.busy \cup {ip.reg} /\ (ip.g.busy) \ {ip.reg} = g.busy
<1> DEFINE ip == GetIP(g)
<1>1. /\ ip.reg \in Scratch \ g.busy
      /\ Writer(ip.g) /\ ip.g.busy = g.busy \cup {ip.reg} /\ ip.g.is = g.is
      /\ ip.g.x = g.x /\ ip.g.f = g.f /\ ip.g.callee = g.callee
  BY GetIPDoes
<1> HIDE DEF ip
<1>2. Effect(g, ip.g, s0, {}) /\ After(ip.g, s0) = After(g, s0)
  BY <1>1, SameCode
<1>3. ip.reg \in Registers /\ ip.reg # ZR
  BY <1>1, ScratchIs
<1>4. (ip.g.busy) \ {ip.reg} = g.busy
  BY <1>1
<1> QED BY <1>1, <1>2, <1>3, <1>4 DEF ip

LEMMA GiveScratch ==
  ASSUME NEW g, Writer(g), NEW s0, IsMachine(After(g, s0)), NEW r
  PROVE  LET h == ReleaseIP(g, r)
         IN  /\ Effect(g, h, s0, {}) /\ After(h, s0) = After(g, s0) /\ Writer(h)
             /\ h.busy = g.busy \ {r}
<1> DEFINE h == ReleaseIP(g, r)
<1>1. /\ Writer(h) /\ h.busy = g.busy \ {r} /\ h.is = g.is
      /\ h.x = g.x /\ h.f = g.f /\ h.callee = g.callee
  BY ReleaseIPDoes
<1> HIDE DEF h
<1>2. Effect(g, h, s0, {}) /\ After(h, s0) = After(g, s0)
  BY <1>1, SameCode
<1> QED BY <1>1, <1>2 DEF h

LEMMA AddThroughDoes ==
  ASSUME NEW g, Writer(g), NEW s0, IsMachine(After(g, s0)), g.busy # Scratch,
         NEW to \in Registers, to # ZR, NEW l \in Registers, l \notin Scratch \ g.busy,
         NEW n \in Int, NEW w \in Widths
  PROVE  LET h == AddThrough(GetIP(g), to, l, n, w)
         IN  /\ Effect(g, h, s0, Scratch \cup {to}) /\ h.busy = g.busy
             /\ Operand(After(h, s0), to, w) = AtWidth(Operand(After(g, s0), l, w) + n, w)
<1> DEFINE ip == GetIP(g)
           g1 == ip.g
           r == ip.reg
           op == IF n < 0 THEN "sub" ELSE "add"
           b == Abs(n)
           h1 == MakeImmediate(g1, b, r, w)
           i == MMathInst(op, l, r, to, w)
           h2 == Put(h1, i)
           h3 == ReleaseIP(h2, r)
           s == After(g, s0)
           a == Operand(s, l, w)
           m == AtWidth(b, w)
           x == IF w = 32 THEN Compute(op, a, m) ELSE Compute64(op, a, m)
<1>1. AddThrough(ip, to, l, n, w) = h3
  BY DEF AddThrough
<1>2. /\ Effect(g, g1, s0, {}) /\ After(g1, s0) = s
      /\ Writer(g1) /\ IsMachine(After(g1, s0))
      /\ r \in Scratch \ g.busy /\ r \in Registers /\ r # ZR
      /\ g1.busy = g.busy \cup {r} /\ g1.busy \ {r} = g.busy
  BY TakeScratch
<1>3. b \in Int
  BY DEF Abs
<1>3a. a \in Int
  BY OperandsAre
<1>7. x \in Int /\ AtWidth(x, w) = AtWidth(a + n, w)
  <2> HIDE DEF a
  <2> QED BY <1>3a, AddsOrSubtracts
<1> HIDE DEF ip, g1, r, b
<1>4. /\ Effect(g1, h1, s0, {r}) /\ h1.busy = g1.busy
      /\ Operand(After(h1, s0), r, w) = m
  <2> HIDE DEF s, m
  <2>1. IsMachine(After(g1, s0)) /\ Writer(g1) /\ r \in Registers /\ r # ZR
    BY <1>2
  <2>2. /\ Effect(g1, h1, s0, {r}) /\ h1.busy = g1.busy
        /\ Operand(After(h1, s0), r, w) = AtWidth(b, w)
    BY <2>1, <1>3, MakeImmediateDoes
  <2> QED BY <2>2 DEF m
<1> HIDE DEF h1
<1>5. Effect(g, h1, s0, {r}) /\ IsMachine(After(h1, s0)) /\ Writer(h1)
  <2>1. {} \cup {r} \subseteq {r}
    OBVIOUS
  <2> QED BY <1>2, <1>4, <2>1, EffectTogether DEF Effect
<1> HIDE DEF s
<1>6. Operand(After(h1, s0), l, w) = a
  <2>1. OnlyRegisters(s, After(h1, s0), {r}) /\ l \notin {r}
    BY <1>2, <1>5 DEF Effect, s
  <2> QED BY <2>1, OperandsStay DEF a
<1>8. Issue(i, After(h1, s0)) = SetTo(After(h1, s0), to, x, w)
  BY <1>4, <1>6, IssueMath
<1>9. x \in Int
  BY <1>7
<1> HIDE DEF x, a, m, op, i
<1>10. /\ Effect(h1, h2, s0, {to}) /\ h2.busy = h1.busy
       /\ Operand(After(h2, s0), to, w) = AtWidth(x, w)
  BY <1>5, <1>8, <1>9, PutSets
<1> HIDE DEF h2
<1>11. Effect(g, h2, s0, Scratch \cup {to}) /\ IsMachine(After(h2, s0)) /\ Writer(h2)
  <2>1. {r} \cup {to} \subseteq Scratch \cup {to}
    BY <1>2
  <2> QED BY <1>5, <1>10, <2>1, EffectTogether DEF Effect
<1>12. /\ Effect(h2, h3, s0, {}) /\ After(h3, s0) = After(h2, s0)
       /\ h3.busy = h2.busy \ {r}
  BY <1>11, GiveScratch
<1> HIDE DEF h3
<1>13. Effect(g, h3, s0, Scratch \cup {to})
  <2>1. (Scratch \cup {to}) \cup {} \subseteq Scratch \cup {to}
    OBVIOUS
  <2> QED BY <1>11, <1>12, <2>1, EffectTogether
<1>14. h3.busy = g.busy
  BY <1>2, <1>4, <1>10, <1>12
<1> QED BY <1>1, <1>7, <1>10, <1>12, <1>13, <1>14 DEF ip, g1, r, a, s

(* add32(), add64(), sub32(), sub64(): l + n.                                *)
Adds(h, g, s0, to, l, n, w) ==
  /\ Effect(g, h, s0, Scratch \cup {to}) /\ h.busy = g.busy
  /\ Operand(After(h, s0), to, w) = AtWidth(Operand(After(g, s0), l, w) + n, w)

LEMMA AddImmediateDoes ==
  ASSUME NEW g, Writer(g), NEW s0, IsMachine(After(g, s0)), g.busy # Scratch,
         NEW to \in Registers, to # ZR, NEW l \in Registers, l \notin Scratch \ g.busy,
         NEW n \in Int, NEW w \in Widths, ~(w = 32 /\ n = MinWord)
  PROVE  Adds(AddImmediate(g, to, l, n, w), g, s0, to, l, n, w)
<1> SUFFICES
         LET h == AddImmediate(g, to, l, n, w)
         IN  /\ Effect(g, h, s0, Scratch \cup {to}) /\ h.busy = g.busy
             /\ Operand(After(h, s0), to, w) = AtWidth(Operand(After(g, s0), l, w) + n, w)
  BY DEF Adds
<1> DEFINE s == After(g, s0)
           a == Operand(s, l, w)
           h == AddImmediate(g, to, l, n, w)
<1>1. a \in Int /\ AtWidth(a, w) = a
  BY OperandsAre, WidthsOfOperands
<1>2. \A e, T : OnlyRegisters(s, e, T) /\ T \subseteq Scratch \cup {to} => OnlyRegisters(s, e, Scratch \cup {to})
  BY OnlyMore
<1>3. \A i : Effect(g, i, s0, {to}) => Effect(g, i, s0, Scratch \cup {to})
  <2>1. {to} \subseteq Scratch \cup {to}
    OBVIOUS
  <2> QED BY <1>2, <2>1 DEF Effect
<1>4. CASE n = 0
  <2>0. FitsAdd(Abs(n))
    BY <1>4, LimitAssumption DEF FitsAdd, InUImm12, Abs
  <2>1. h = CopyRegister(g, to, l, w)
    BY <1>4, <2>0 DEF AddImmediate
  <2> HIDE DEF h, s
  <2>2. /\ Effect(g, h, s0, {to}) /\ h.busy = g.busy /\ Operand(After(h, s0), to, w) = a
    BY <2>1, CopyRegisterDoes DEF s
  <2>3. a + n = a
    BY <1>1, <1>4
  <2> QED BY <1>1, <1>3, <2>2, <2>3 DEF h, s
<1>5. CASE n # 0 /\ FitsAdd(Abs(n))
  <2>1. h = Part(g, to, l, n, w)
    BY <1>5 DEF AddImmediate
  <2> HIDE DEF h, s
  <2>2. /\ Effect(g, h, s0, {to}) /\ h.busy = g.busy
        /\ Operand(After(h, s0), to, w) = AtWidth(a + n, w)
    BY <2>1, PartDoes DEF s
  <2> QED BY <1>3, <2>2 DEF h, s
<1>6. CASE n # 0 /\ ~FitsAdd(Abs(n)) /\ InUImm24(Abs(n))
  <2> DEFINE low == SignOf(n) * (Abs(n) % AddLimit)
             high == SignOf(n) * (Abs(n) - (Abs(n) % AddLimit))
             h1 == Part(g, to, l, low, w)
             b == Operand(After(h1, s0), to, w)
  <2>1. h = Part(h1, to, to, high, w)
    BY <1>6 DEF AddImmediate
  <2>2. low \in Int /\ high \in Int /\ low + high = n
    <3>1. Abs(n) \in Nat /\ AddLimit \in Nat \ {0} /\ SignOf(n) \in {-1, 1} /\ SignOf(n) * Abs(n) = n
      BY LimitAssumption DEF Abs, SignOf
    <3>2. Abs(n) % AddLimit \in Int
      BY <3>1, Division
    <3> QED BY <3>1, <3>2
  <2> HIDE DEF low, high, h, s
  <2>3. /\ Effect(g, h1, s0, {to}) /\ h1.busy = g.busy
        /\ Operand(After(h1, s0), to, w) = AtWidth(a + low, w)
    BY <2>2, PartDoes DEF s
  <2>4. Writer(h1) /\ IsMachine(After(h1, s0))
    BY <2>3 DEF Effect, OnlyRegisters
  <2> HIDE DEF h1
  <2>5. /\ Effect(h1, h, s0, {to}) /\ h.busy = h1.busy
        /\ Operand(After(h, s0), to, w) = AtWidth(b + high, w)
    <3> HIDE DEF b
    <3>1. /\ Effect(h1, h, s0, {to}) /\ h.busy = h1.busy
          /\ Operand(After(h, s0), to, w) = AtWidth(Operand(After(h1, s0), to, w) + high, w)
      BY <2>1, <2>2, <2>4, PartDoes
    <3> QED BY <3>1 DEF b
  <2>6. Effect(g, h, s0, Scratch \cup {to})
    <3>1. {to} \cup {to} \subseteq Scratch \cup {to}
      OBVIOUS
    <3> QED BY <2>3, <2>5, <3>1, EffectTogether
  <2>7. AtWidth(AtWidth(a + low, w) + high, w) = AtWidth(a + n, w)
    <3>1. (a + low) + high = a + n /\ a + low \in Int
      BY <1>1, <2>2
    <3>2. Wrap(high + Wrap(a + low)) = Wrap(high + (a + low))
      BY <2>2, <3>1, WrapInside
    <3>3. Wrap(a + low) \in Int
      BY <3>1, Wrapped
    <3>4. high + Wrap(a + low) = Wrap(a + low) + high /\ high + (a + low) = a + n
      BY <2>2, <3>1, <3>3
    <3> QED BY <3>1, <3>2, <3>4 DEF AtWidth
  <2> QED BY <2>3, <2>5, <2>6, <2>7 DEF h, s
<1>7. CASE n # 0 /\ ~FitsAdd(Abs(n)) /\ ~InUImm24(Abs(n))
  <2>1. h = AddThrough(GetIP(g), to, l, n, w)
    BY <1>7 DEF AddImmediate
  <2> DEFINE i == AddThrough(GetIP(g), to, l, n, w)
  <2> HIDE DEF h, s
  <2>2. /\ Effect(g, i, s0, Scratch \cup {to}) /\ i.busy = g.busy
        /\ Operand(After(i, s0), to, w) = AtWidth(Operand(After(g, s0), l, w) + n, w)
    BY AddThroughDoes
  <2> HIDE DEF i
  <2> QED BY <2>1, <2>2 DEF h, s, i
<1> QED BY <1>4, <1>5, <1>6, <1>7

LEMMA AddImmediate32 ==
  ASSUME NEW g, Writer(g), NEW s0, IsMachine(After(g, s0)), g.busy # Scratch,
         NEW to \in Registers, to # ZR, NEW l \in Registers, l \notin Scratch,
         NEW n \in Int, n # MinWord
  PROVE  LET h == AddImmediate(g, to, l, n, 32)
         IN  /\ Effect(g, h, s0, Scratch \cup {to}) /\ h.busy = g.busy
             /\ Operand(After(h, s0), to, 32) = Wrap(Operand(After(g, s0), l, 32) + n)
<1> DEFINE h == AddImmediate(g, to, l, n, 32)
<1>1. 32 \in Widths /\ ~(32 = 32 /\ n = MinWord)
  BY DEF Widths
<1>2. Adds(AddImmediate(g, to, l, n, 32), g, s0, to, l, n, 32)
  BY <1>1, AddImmediateDoes
<1> HIDE DEF h
<1>3. Adds(h, g, s0, to, l, n, 32)
  BY <1>2 DEF h
<1>4. /\ Effect(g, h, s0, Scratch \cup {to}) /\ h.busy = g.busy
      /\ Operand(After(h, s0), to, 32) = Wrap(Operand(After(g, s0), l, 32) + n)
  BY <1>3 DEF Adds, AtWidth
<1> QED BY <1>4 DEF h

-----------------------------------------------------------------------------
(* Arithmetic on 32 bits.                                                    *)
LEMMA Op2RegDoes ==
  ASSUME NEW g, Writer(g), NEW s0, IsMachine(After(g, s0)), NEW w \in Widths,
         NEW o, o \in IntRegisters \/ (g.busy # Scratch /\ \E n \in Int : o = C(n))
  PROVE  LET l == Op2Reg(g, o, w)
         IN  /\ Effect(g, l.g, s0, Scratch) /\ Writer(l.g) /\ IsMachine(After(l.g, s0))
             /\ Operand(After(l.g, s0), l.reg, w) = Operand(After(g, s0), o, w)
             /\ \A q \in Registers \ (Scratch \ g.busy) :
                  Operand(After(l.g, s0), q, w) = Operand(After(g, s0), q, w)
             /\ \/ o \in IntRegisters /\ l.reg = o /\ l.g = g
                \/ /\ ~(o \in IntRegisters)
                   /\ l.reg \in Scratch \ g.busy /\ l.g.busy = g.busy \cup {l.reg}
<1> DEFINE l == Op2Reg(g, o, w)
<1>1. CASE o \in IntRegisters
  <2>1. o[1] = "r"
    BY <1>1 DEF IntRegisters
  <2>2. l = [reg |-> o, g |-> g]
    BY <2>1 DEF Op2Reg
  <2>3. l.reg = o /\ l.g = g
    BY <2>2
  <2> HIDE DEF l
  <2>4. Effect(g, l.g, s0, Scratch)
    BY <2>3, OnlyNone DEF Effect
  <2> QED BY <1>1, <2>3, <2>4 DEF l
<1>2. CASE ~(o \in IntRegisters)
  <2>1. g.busy # Scratch /\ \E n \in Int : o = C(n)
    BY <1>2
  <2>2. PICK n \in Int : o = C(n)
    BY <2>1
  <2> DEFINE ip == GetIP(g)
             g1 == ip.g
             r == ip.reg
             h == MakeImmediate(g1, n, r, w)
  <2>3. l = [reg |-> r, g |-> h]
    BY <2>2 DEF Op2Reg, InScratch, Copy, C
  <2>4. /\ Effect(g, g1, s0, {}) /\ After(g1, s0) = After(g, s0)
        /\ Writer(g1) /\ IsMachine(After(g1, s0))
        /\ r \in Scratch \ g.busy /\ r \in Registers /\ r # ZR
        /\ g1.busy = g.busy \cup {r}
    BY <2>1, TakeScratch
  <2> HIDE DEF ip, g1, r
  <2>5. /\ Effect(g1, h, s0, {r}) /\ h.busy = g1.busy
        /\ Operand(After(h, s0), r, w) = AtWidth(n, w)
    <3>1. IsMachine(After(g1, s0)) /\ Writer(g1) /\ r \in Registers /\ r # ZR
      BY <2>4
    <3> HIDE DEF l
    <3> QED BY <3>1, MakeImmediateDoes
  <2> HIDE DEF h
  <2>6. Effect(g, h, s0, {r}) /\ IsMachine(After(h, s0)) /\ Writer(h)
    <3>1. {} \cup {r} \subseteq {r}
      OBVIOUS
    <3> QED BY <2>4, <2>5, <3>1, EffectTogether DEF Effect
  <2>7. Effect(g, h, s0, Scratch)
    <3>1. {r} \subseteq Scratch
      BY <2>4
    <3> QED BY <2>6, <3>1, OnlyMore DEF Effect
  <2>8. Operand(After(g, s0), o, w) = AtWidth(n, w)
    BY <2>2, OperandIs64
  <2>9. ASSUME NEW q \in Registers \ (Scratch \ g.busy)
        PROVE  Operand(After(h, s0), q, w) = Operand(After(g, s0), q, w)
    <3>1. OnlyRegisters(After(g, s0), After(h, s0), {r}) /\ q \notin {r}
      BY <2>4, <2>6 DEF Effect
    <3> QED BY <3>1, OperandsStay
  <2>10. l.reg = r /\ l.g = h
    BY <2>3
  <2> HIDE DEF l
  <2> QED BY <1>2, <2>4, <2>5, <2>6, <2>7, <2>8, <2>9, <2>10 DEF l
<1> QED BY <1>1, <1>2

LEMMA MathPut ==
  ASSUME NEW g, Writer(g), NEW s0, IsMachine(After(g, s0)), NEW op \in Integral,
         NEW t \in Registers, t # ZR, NEW l, NEW r,
         Operand(After(g, s0), l, 32) \in WordSet, Operand(After(g, s0), r, 32) \in WordSet
  PROVE  LET h == Put(g, MMathInst(op, l, r, t, 32))
             x == Compute(op, Operand(After(g, s0), l, 32), Operand(After(g, s0), r, 32))
         IN  /\ Effect(g, h, s0, {t}) /\ h.busy = g.busy
             /\ x \in WordSet /\ Operand(After(h, s0), t, 32) = x
<1> DEFINE i == MMathInst(op, l, r, t, 32)
           s == After(g, s0)
           x == Compute(op, Operand(s, l, 32), Operand(s, r, 32))
<1>1. Issue(i, s) = SetTo(s, t, x, 32)
  BY IssueMath
<1>2. x \in WordSet
  BY ComputedIsWord
<1> HIDE DEF i, x, s
<1>3. x \in Int /\ AtWidth(x, 32) = x /\ 32 \in Widths
  <2>1. AtWidth(x, 32) = Wrap(x) /\ 32 \in Widths
    BY DEF AtWidth, Widths
  <2>2. Wrap(x) = x
    BY <1>2, WrapOfWord
  <2>3. x \in Int
    BY <1>2, WordsAre
  <2> QED BY <2>1, <2>2, <2>3
<1>4. /\ Effect(g, Put(g, i), s0, {t}) /\ Put(g, i).busy = g.busy
      /\ Operand(After(Put(g, i), s0), t, 32) = AtWidth(x, 32)
  BY <1>1, <1>3, PutSets, Z3 DEF s
<1>5. /\ Effect(g, Put(g, i), s0, {t}) /\ Put(g, i).busy = g.busy
      /\ x \in WordSet /\ Operand(After(Put(g, i), s0), t, 32) = x
  BY <1>2, <1>3, <1>4
<1> QED BY <1>5 DEF i, x, s

(* The remainder, by way of the quotient.                                    *)
LEMMA RemThroughDoes ==
  ASSUME NEW g, Writer(g), NEW s0, IsMachine(After(g, s0)), g.busy # Scratch,
         NEW t \in Registers, t # ZR,
         NEW l \in Registers \ (Scratch \ g.busy), NEW r \in Registers \ (Scratch \ g.busy)
  PROVE  LET h == RemThrough(GetIP(g), t, l, r, 32)
             x == WRem(Operand(After(g, s0), l, 32), Operand(After(g, s0), r, 32))
         IN  /\ Effect(g, h, s0, Scratch \cup {t}) /\ h.busy = g.busy
             /\ Operand(After(h, s0), t, 32) = x
<1> DEFINE ip == GetIP(g)
           g1 == ip.g
           p == ip.reg
           h1 == Put(g1, MMathInst("sdiv", l, r, p, 32))
           i == MMAddSUB("msub", t, p, r, l)
           h2 == Put(h1, i)
           h3 == ReleaseIP(h2, p)
           s == After(g, s0)
           a == Operand(s, l, 32)
           b == Operand(s, r, 32)
           q == WDiv(a, b)
           x == Wrap(a - q * b)
<1>1. RemThrough(ip, t, l, r, 32) = h3
  BY DEF RemThrough
<1>2. /\ Effect(g, g1, s0, {}) /\ After(g1, s0) = s
      /\ Writer(g1) /\ IsMachine(After(g1, s0))
      /\ p \in Scratch \ g.busy /\ p \in Registers /\ p # ZR
      /\ g1.busy = g.busy \cup {p} /\ g1.busy \ {p} = g.busy
  BY TakeScratch
<1>3. a \in WordSet /\ b \in WordSet /\ l \in Registers /\ r \in Registers /\ l # p /\ r # p
  BY <1>2, OperandsAre
<1>4. /\ Effect(g1, h1, s0, {p}) /\ h1.busy = g1.busy
      /\ q \in WordSet /\ Operand(After(h1, s0), p, 32) = q
  <2>1. /\ Operand(After(g1, s0), l, 32) = a /\ Operand(After(g1, s0), r, 32) = b
        /\ IsMachine(After(g1, s0)) /\ Writer(g1) /\ p \in Registers /\ p # ZR
    BY <1>2
  <2>2. "sdiv" \in Integral /\ Compute("sdiv", a, b) = q
    BY Computes DEF Integral
  <2> HIDE DEF a, b, q, g1, p, ip
  <2> QED BY <1>3, <2>1, <2>2, MathPut
<1> HIDE DEF ip, g1, p
<1>5. Effect(g, h1, s0, {p}) /\ IsMachine(After(h1, s0)) /\ Writer(h1)
  <2> HIDE DEF h1
  <2>1. {} \cup {p} \subseteq {p}
    OBVIOUS
  <2> QED BY <1>2, <1>4, <2>1, EffectTogether DEF Effect
<1>6. Operand(After(h1, s0), l, 32) = a /\ Operand(After(h1, s0), r, 32) = b
  <2>1. OnlyRegisters(s, After(h1, s0), {p}) /\ l \notin {p} /\ r \notin {p}
    BY <1>3, <1>5 DEF Effect
  <2> QED BY <1>3, <2>1, OperandsStay
<1> HIDE DEF h1
<1>7. Issue(i, After(h1, s0)) = SetTo(After(h1, s0), t, x, 32)
  BY <1>4, <1>6, IssueMsub
<1>8. x \in Int /\ AtWidth(x, 32) = x /\ 32 \in Widths
  <2>1. a - q * b \in Int
    BY <1>3, <1>4, WordsAre
  <2> QED BY <2>1, Wrapped, WrapOfWord DEF AtWidth, Widths
<1>9. x = WRem(a, b)
  BY DEF WRem
<1> HIDE DEF i, x, a, b, s
<1>10. /\ Effect(h1, h2, s0, {t}) /\ h2.busy = h1.busy
       /\ Operand(After(h2, s0), t, 32) = AtWidth(x, 32)
  BY <1>5, <1>7, <1>8, PutSets
<1> HIDE DEF h2
<1>11. Effect(g, h2, s0, Scratch \cup {t}) /\ IsMachine(After(h2, s0)) /\ Writer(h2)
  <2>1. {p} \cup {t} \subseteq Scratch \cup {t}
    BY <1>2
  <2> QED BY <1>5, <1>10, <2>1, EffectTogether DEF Effect
<1>12. /\ Effect(h2, h3, s0, {}) /\ After(h3, s0) = After(h2, s0)
       /\ h3.busy = h2.busy \ {p}
  BY <1>11, GiveScratch
<1> HIDE DEF h3
<1>13. Effect(g, h3, s0, Scratch \cup {t})
  <2>1. (Scratch \cup {t}) \cup {} \subseteq Scratch \cup {t}
    OBVIOUS
  <2> QED BY <1>11, <1>12, <2>1, EffectTogether
<1>14. h3.busy = g.busy
  BY <1>2, <1>4, <1>10, <1>12
<1> QED BY <1>1, <1>8, <1>9, <1>10, <1>12, <1>13, <1>14 DEF ip, a, b, s

LEMMA MathRRDoes ==
  ASSUME NEW g, Writer(g), NEW s0, IsMachine(After(g, s0)), NEW op \in Integral,
         op = "srem" => g.busy # Scratch, NEW t \in Registers, t # ZR,
         NEW l \in Registers \ (Scratch \ g.busy), NEW r \in Registers \ (Scratch \ g.busy)
  PROVE  LET h == MathRR(g, op, t, l, r, 32)
             x == Compute(op, Operand(After(g, s0), l, 32), Operand(After(g, s0), r, 32))
         IN  /\ Effect(g, h, s0, Scratch \cup {t}) /\ h.busy = g.busy
             /\ Operand(After(h, s0), t, 32) = x
<1> DEFINE s == After(g, s0)
           h == MathRR(g, op, t, l, r, 32)
<1>1. Operand(s, l, 32) \in WordSet /\ Operand(s, r, 32) \in WordSet
  BY OperandsAre
<1>2. CASE op = "srem"
  <2> DEFINE i == RemThrough(GetIP(g), t, l, r, 32)
  <2>1. h = i
    BY <1>2 DEF MathRR
  <2>2. /\ Effect(g, i, s0, Scratch \cup {t}) /\ i.busy = g.busy
        /\ Operand(After(i, s0), t, 32) = WRem(Operand(After(g, s0), l, 32), Operand(After(g, s0), r, 32))
    BY <1>2, RemThroughDoes
  <2> HIDE DEF h, i
  <2> QED BY <1>2, <2>1, <2>2, Computes DEF h
<1>3. CASE op # "srem"
  <2> DEFINE o == IF op = "mull" THEN "mul" ELSE op
             i == Put(g, MMathInst(o, l, r, t, 32))
  <2>1. h = i /\ o \in Integral
    BY <1>3 DEF MathRR, Integral
  <2>2. \A x, y : Compute(o, x, y) = Compute(op, x, y)
    BY Computes
  <2> HIDE DEF o
  <2>3. /\ Effect(g, i, s0, {t}) /\ i.busy = g.busy
        /\ Operand(After(i, s0), t, 32) = Compute(o, Operand(After(g, s0), l, 32), Operand(After(g, s0), r, 32))
    BY <1>1, <2>1, MathPut
  <2> HIDE DEF h, i
  <2>4. Effect(g, i, s0, Scratch \cup {t})
    <3>1. {t} \subseteq Scratch \cup {t}
      OBVIOUS
    <3> QED BY <2>3, <3>1, OnlyMore DEF Effect
  <2> QED BY <2>1, <2>2, <2>3, <2>4 DEF h
<1> QED BY <1>2, <1>3

LEMMA ShiftByDoes ==
  ASSUME NEW g, Writer(g), NEW s0, IsMachine(After(g, s0)), NEW op \in {"shl", "ashr"},
         NEW t \in Registers, t # ZR, NEW l \in Registers, NEW n \in WordSet, n >= 0
  PROVE  LET h == ShiftBy(g, op, t, l, n, 32)
         IN  /\ Effect(g, h, s0, {t}) /\ h.busy = g.busy
             /\ Operand(After(h, s0), t, 32) = Compute(op, Operand(After(g, s0), l, 32), n)
<1> DEFINE s == After(g, s0)
           h == ShiftBy(g, op, t, l, n, 32)
           a == Operand(s, l, 32)
<1>1. a \in WordSet /\ 32 \in Widths
  BY OperandsAre DEF Widths
<1>2. CASE n = 0
  <2>1. h = CopyRegister(g, t, l, 32)
    BY <1>2 DEF ShiftBy
  <2>2. Compute(op, a, 0) = a
    <3> HIDE DEF a
    <3> QED BY <1>1, EasyShifts, Computes
  <2> HIDE DEF h
  <2>3. /\ Effect(g, h, s0, {t}) /\ h.busy = g.busy /\ Operand(After(h, s0), t, 32) = a
    BY <1>1, <2>1, CopyRegisterDoes
  <2> QED BY <1>2, <2>2, <2>3 DEF h
<1>3. CASE n # 0
  <2> DEFINE r == C(n)
             i == Put(g, MMathInst(op, l, r, t, 32))
  <2>1. h = i
    BY <1>3, WordsAre DEF ShiftBy, Assured
  <2>2. Operand(s, r, 32) = n /\ op \in Integral
    BY OperandIs64, WrapOfWord DEF AtWidth, Integral
  <2> HIDE DEF r
  <2>3. /\ Effect(g, i, s0, {t}) /\ i.busy = g.busy
        /\ Operand(After(i, s0), t, 32) = Compute(op, Operand(After(g, s0), l, 32), Operand(After(g, s0), r, 32))
    BY <1>1, <2>2, MathPut
  <2> HIDE DEF h, i
  <2> QED BY <2>1, <2>2, <2>3 DEF h
<1> QED BY <1>2, <1>3

LEMMA AndByDoes ==
  ASSUME NEW g, Writer(g), NEW s0, IsMachine(After(g, s0)), g.busy # Scratch,
         NEW t \in Registers, t # ZR, NEW l \in Registers \ Scratch, NEW n \in WordSet, n >= 0
  PROVE  LET h == AndBy(g, t, l, n, 32)
         IN  /\ Effect(g, h, s0, Scratch \cup {t}) /\ h.busy = g.busy
             /\ Operand(After(h, s0), t, 32) = Compute("and", Operand(After(g, s0), l, 32), n)
<1> DEFINE s == After(g, s0)
           h == AndBy(g, t, l, n, 32)
           a == Operand(s, l, 32)
<1>1. a \in WordSet /\ "and" \in Integral /\ n \in Int /\ 64 \in Widths
  BY OperandsAre, WordsAre DEF Integral, Widths
<1>2. CASE FitsAdd(n)
  <2> DEFINE r == C(n)
             i == Put(g, MMathInst("and", l, r, t, 32))
  <2>1. h = i
    BY <1>2 DEF AndBy
  <2>2. Operand(s, r, 32) = n
    BY OperandIs64, WrapOfWord DEF AtWidth
  <2> HIDE DEF r
  <2>3. /\ Effect(g, i, s0, {t}) /\ i.busy = g.busy
        /\ Operand(After(i, s0), t, 32) = Compute("and", Operand(After(g, s0), l, 32), Operand(After(g, s0), r, 32))
    BY <1>1, <2>2, MathPut
  <2> HIDE DEF h, i
  <2>4. Effect(g, i, s0, Scratch \cup {t})
    <3>1. {t} \subseteq Scratch \cup {t}
      OBVIOUS
    <3> QED BY <2>3, <3>1, OnlyMore DEF Effect
  <2> QED BY <2>1, <2>2, <2>3, <2>4 DEF h
<1>3. CASE ~FitsAdd(n)
  <2> DEFINE ip == GetIP(g)
             g1 == ip.g
             p == ip.reg
             h1 == MakeImmediate(g1, n, p, 64)
             h2 == Put(h1, MMathInst("and", l, p, t, 32))
             h3 == ReleaseIP(h2, p)
  <2>1. h = h3
    BY <1>1, <1>3 DEF AndBy, AndThrough, Assured
  <2>2. /\ Effect(g, g1, s0, {}) /\ After(g1, s0) = s
        /\ Writer(g1) /\ IsMachine(After(g1, s0))
        /\ p \in Scratch \ g.busy /\ p \in Registers /\ p # ZR
        /\ g1.busy = g.busy \cup {p} /\ g1.busy \ {p} = g.busy
    BY TakeScratch
  <2> HIDE DEF ip, g1, p, h
  <2>3. /\ Effect(g1, h1, s0, {p}) /\ h1.busy = g1.busy
        /\ Operand(After(h1, s0), p, 64) = AtWidth(n, 64)
    <3>1. IsMachine(After(g1, s0)) /\ Writer(g1) /\ p \in Registers /\ p # ZR
      BY <2>2
    <3> QED BY <3>1, <1>1, MakeImmediateDoes
  <2> HIDE DEF h1
  <2>4. Effect(g, h1, s0, {p}) /\ IsMachine(After(h1, s0)) /\ Writer(h1)
    <3>1. {} \cup {p} \subseteq {p}
      OBVIOUS
    <3> QED BY <2>2, <2>3, <3>1, EffectTogether DEF Effect
  <2>5. Operand(After(h1, s0), p, 32) = n
    BY <2>2, <2>3, OperandIs64, WrapOfWord DEF AtWidth
  <2>6. Operand(After(h1, s0), l, 32) = a
    <3>1. OnlyRegisters(s, After(h1, s0), {p}) /\ l \notin {p}
      BY <2>2, <2>4 DEF Effect
    <3> QED BY <3>1, OperandsStay
  <2> HIDE DEF a
  <2>7. /\ Effect(h1, h2, s0, {t}) /\ h2.busy = h1.busy
        /\ Operand(After(h2, s0), t, 32) = Compute("and", a, n)
    BY <1>1, <2>4, <2>5, <2>6, MathPut
  <2> HIDE DEF h2
  <2>8. Effect(g, h2, s0, Scratch \cup {t}) /\ IsMachine(After(h2, s0)) /\ Writer(h2)
    <3>1. {p} \cup {t} \subseteq Scratch \cup {t}
      BY <2>2
    <3> QED BY <2>4, <2>7, <3>1, EffectTogether DEF Effect
  <2>9. /\ Effect(h2, h3, s0, {}) /\ After(h3, s0) = After(h2, s0)
        /\ h3.busy = h2.busy \ {p}
    BY <2>8, GiveScratch
  <2> HIDE DEF h3
  <2>10. Effect(g, h3, s0, Scratch \cup {t})
    <3>1. (Scratch \cup {t}) \cup {} \subseteq Scratch \cup {t}
      OBVIOUS
    <3> QED BY <2>8, <2>9, <3>1, EffectTogether
  <2>11. h3.busy = g.busy
    BY <2>2, <2>3, <2>7, <2>9
  <2> QED BY <2>1, <2>7, <2>9, <2>10, <2>11 DEF h, a
<1> QED BY <1>2, <1>3

(* l + (l << k) and l - (l << k) are multiples of l.                         *)
LEMMA MullMultiplies ==
  ASSUME NEW a \in WordSet, NEW n \in WordSet, PowerOfTwo(Wrap(Abs(Wrap(n - 1))))
  PROVE  LET k == CountrZero(Wrap(Abs(Wrap(n - 1))))
             op == IF Wrap(n - 1) < 0 THEN "sub" ELSE "add"
         IN  Compute(op, a, Wrap(a * Pow2[k])) = Wrap(a * n)
<1> DEFINE m == Wrap(n - 1)
           b == Abs(m)
           k == CountrZero(Wrap(b))
           p == Pow2[k]
           op == IF m < 0 THEN "sub" ELSE "add"
<1>1. n \in Int /\ a \in Int /\ n - 1 \in Int
  BY WordsAre
<1>2. m \in Int
  BY <1>1, Wrapped
<1>3. b \in Int /\ m = IF m < 0 THEN -b ELSE b
  <2> HIDE DEF m
  <2> QED BY <1>2 DEF Abs
<1>4. k \in 0..(W - 1) /\ Wrap(p) = Wrap(b)
  <2> HIDE DEF b
  <2> QED BY DEF b, PowerOfTwo, CountrZero
<1>5. p \in Int
  BY <1>4, PowersOfTwo
<1>6. a * p \in Int /\ a * b \in Int /\ a * m \in Int /\ a * (n - 1) \in Int
  <2> HIDE DEF m, b, p
  <2> QED BY <1>1, <1>2, <1>3, <1>5
<1>7. Wrap(a * p) = Wrap(a * b)
  <2> HIDE DEF b, p
  <2>1. Wrap(a * Wrap(p)) = Wrap(a * p) /\ Wrap(a * Wrap(b)) = Wrap(a * b)
    BY <1>1, <1>3, <1>5, WrapInside
  <2> QED BY <1>4, <2>1
<1>8. Wrap(a + a * m) = Wrap(a * n)
  <2>1. Wrap(a * m) = Wrap(a * (n - 1))
    BY <1>1, WrapInside
  <2> HIDE DEF m
  <2>2. Wrap(a + Wrap(a * m)) = Wrap(a + a * m) /\ Wrap(a + Wrap(a * (n - 1))) = Wrap(a + a * (n - 1))
    <3> DEFINE u == a * m
               v == a * (n - 1)
    <3>1. u \in Int /\ v \in Int
      BY <1>6
    <3> HIDE DEF u, v
    <3>2. Wrap(a + Wrap(u)) = Wrap(a + u) /\ Wrap(a + Wrap(v)) = Wrap(a + v)
      BY <1>1, <3>1, WrapInside
    <3> QED BY <3>2 DEF u, v
  <2>3. a + a * (n - 1) = a * n
    BY <1>1
  <2> QED BY <2>1, <2>2, <2>3
<1>9. /\ Wrap(a + Wrap(a * b)) = Wrap(a + a * b)
      /\ Wrap(a - Wrap(a * b)) = Wrap(a - a * b)
  <2> DEFINE u == a * b
  <2>1. u \in Int
    BY <1>6
  <2> HIDE DEF u
  <2>2. Wrap(a + Wrap(u)) = Wrap(a + u) /\ Wrap(a - Wrap(u)) = Wrap(a - u)
    BY <1>1, <2>1, WrapInside
  <2> QED BY <2>2 DEF u
<1>10. (IF m < 0 THEN a - a * b ELSE a + a * b) = a + a * m
  <2> HIDE DEF m, b
  <2> QED BY <1>1, <1>2, <1>3
<1>11. Compute(op, a, Wrap(a * p)) = IF m < 0 THEN Wrap(a - Wrap(a * p)) ELSE Wrap(a + Wrap(a * p))
  <2> HIDE DEF m, p
  <2> QED BY Computes
<1>12. Compute(op, a, Wrap(a * p)) = Wrap(a * n)
  <2> HIDE DEF m, b, p, op
  <2> QED BY <1>7, <1>8, <1>9, <1>10, <1>11
<1> QED BY <1>12

LEMMA MullDoes ==
  ASSUME NEW g, Writer(g), NEW s0, IsMachine(After(g, s0)),
         NEW t \in Registers, t # ZR, NEW l \in Registers, NEW n \in WordSet,
         PowerOfTwo(Wrap(Abs(Wrap(n - 1))))
  PROVE  LET h == Mull(g, t, l, n, 32)
         IN  /\ Effect(g, h, s0, {t}) /\ h.busy = g.busy
             /\ Operand(After(h, s0), t, 32) = Wrap(Operand(After(g, s0), l, 32) * n)
<1> DEFINE s == After(g, s0)
           a == Operand(s, l, 32)
           k == CountrZero(Wrap(Abs(Wrap(n - 1))))
           op == IF Wrap(n - 1) < 0 THEN "sub" ELSE "add"
           i == MShifted(op, l, k, t, 32)
           x == Wrap(a * n)
<1>1. Mull(g, t, l, n, 32) = Put(g, i)
  BY DEF Mull
<1>2. a \in WordSet /\ 32 \in Widths
  BY OperandsAre DEF Widths
<1>3. Compute(op, a, Wrap(a * Pow2[k])) = x
  <2> HIDE DEF a
  <2> QED BY <1>2, MullMultiplies
<1>4. x \in Int /\ AtWidth(x, 32) = x
  <2>1. a * n \in Int
    BY <1>2, WordsAre
  <2> QED BY <2>1, Wrapped, WrapOfWord DEF AtWidth
<1> HIDE DEF op, k
<1>5. Issue(i, s) = SetTo(s, t, x, 32)
  BY <1>3, IssueShifted
<1> HIDE DEF i, x
<1>6. /\ Effect(g, Put(g, i), s0, {t}) /\ Put(g, i).busy = g.busy
      /\ Operand(After(Put(g, i), s0), t, 32) = AtWidth(x, 32)
  BY <1>2, <1>4, <1>5, PutSets
<1> QED BY <1>1, <1>4, <1>6 DEF x

(* The multiple of n that is taken from l, or added when n is negative.      *)
LEMMA RemainderOfMultiple ==
  ASSUME NEW a \in WordSet, NEW n \in WordSet,
         PowerOfTwo(Wrap(Abs(n))) \/ (n >= 0 /\ EasyDivisor(n))
  PROVE  LET q == WDiv(a, n)
             y == IF PowerOfTwo(Wrap(Abs(n)))
                  THEN Compute("shl", q, CountrZero(Wrap(Abs(n)))) ELSE Wrap(q * n)
         IN  Compute(IF n < 0 THEN "add" ELSE "sub", a, y) = Compute("srem", a, n)
<1> DEFINE q == WDiv(a, n)
           p == Wrap(Abs(n))
           y == IF PowerOfTwo(p) THEN Compute("shl", q, CountrZero(p)) ELSE Wrap(q * n)
           op == IF n < 0 THEN "add" ELSE "sub"
<1>1. a \in Int /\ n \in Int
  BY WordsAre
<1>2. q \in WordSet /\ q \in Int
  <2>1. "sdiv" \in Integral /\ Compute("sdiv", a, n) = q
    BY Computes DEF Integral
  <2> HIDE DEF q
  <2> QED BY <2>1, ComputedIsWord, WordsAre
<1>3. Compute("srem", a, n) = Wrap(a - q * n)
  BY Computes DEF WRem
<1>4. Abs(n) \in Int /\ Abs(n) = IF n < 0 THEN -n ELSE n
  BY <1>1 DEF Abs
<1>5. PowerOfTwo(p) => y = Wrap(q * Abs(n))
  <2> SUFFICES ASSUME PowerOfTwo(p) PROVE y = Wrap(q * Abs(n))
    OBVIOUS
  <2>1. p \in WordSet
    BY <1>4, Wrapped
  <2>2. y = WShl(q, CountrZero(p))
    BY Computes
  <2>3. Wrap(q * p) = Wrap(q * Abs(n))
    <3> HIDE DEF q
    <3> QED BY <1>2, <1>4, WrapInside
  <2> HIDE DEF p, q, y
  <2>4. WShl(q, CountrZero(p)) = Wrap(q * p)
    BY <1>2, <2>1, ShiftMultiplies
  <2> QED BY <2>2, <2>3, <2>4
<1>6. y = Wrap(q * Abs(n))
  <2>1. CASE PowerOfTwo(p)
    BY <1>5, <2>1
  <2>2. CASE ~PowerOfTwo(p)
    <3>1. n >= 0
      BY <2>2
    <3>2. Abs(n) = n
      BY <1>1, <1>4, <3>1
    <3>3. y = Wrap(q * n)
      BY <2>2
    <3> QED BY <3>2, <3>3
  <2> QED BY <2>1, <2>2
<1> HIDE DEF y, p, q
<1>7. Compute(op, a, y) = IF n < 0 THEN Wrap(a + y) ELSE Wrap(a - y)
  BY Computes
<1>8. Wrap(a + y) = Wrap(a + q * Abs(n)) /\ Wrap(a - y) = Wrap(a - q * Abs(n))
  <2> DEFINE u == q * Abs(n)
  <2>1. u \in Int
    BY <1>2, <1>4
  <2> HIDE DEF u
  <2>2. Wrap(a + Wrap(u)) = Wrap(a + u) /\ Wrap(a - Wrap(u)) = Wrap(a - u)
    BY <1>1, <2>1, WrapInside
  <2> QED BY <1>6, <2>2 DEF u
<1>9. (IF n < 0 THEN a + q * Abs(n) ELSE a - q * Abs(n)) = a - q * n
  BY <1>1, <1>2, <1>4
<1>10. Compute(op, a, y) = Wrap(a - q * n)
  BY <1>7, <1>8, <1>9
<1> QED BY <1>3, <1>10 DEF y, p, q

LEMMA RemByDoes ==
  ASSUME NEW g, Writer(g), g.busy = {}, NEW s0, IsMachine(After(g, s0)),
         NEW t \in Registers, t # ZR, NEW l \in Registers \ Scratch, NEW n \in WordSet,
         PowerOfTwo(Wrap(Abs(n))) \/ (n >= 0 /\ EasyDivisor(n))
  PROVE  LET h == RemByConstant(GetIP(g), t, l, n, 32)
         IN  /\ Effect(g, h, s0, Scratch \cup {t}) /\ h.busy = g.busy
             /\ Operand(After(h, s0), t, 32) = Compute("srem", Operand(After(g, s0), l, 32), n)
<1> DEFINE rr == GetIP(g)
           g1 == rr.g
           r == rr.reg
           ip == GetIP(g1)
           g2 == ip.g
           p == ip.reg
           h1 == MakeImmediate(g2, n, r, 32)
           h2 == Put(h1, MMathInst("sdiv", l, r, p, 32))
           power == PowerOfTwo(Wrap(Abs(n)))
           k == CountrZero(Wrap(Abs(n)))
           h3 == IF power THEN ShiftBy(h2, "shl", r, p, k, 32) ELSE Mull(h2, r, p, n, 32)
           op == IF n < 0 THEN "add" ELSE "sub"
           h4 == MathRR(h3, op, t, l, r, 32)
           h5 == ReleaseIP(h4, r)
           h6 == ReleaseIP(h5, p)
           s == After(g, s0)
           a == Operand(s, l, 32)
           q == WDiv(a, n)
           y == IF power THEN Compute("shl", q, k) ELSE Wrap(q * n)
<1>1. RemByConstant(rr, t, l, n, 32) = h6
  BY DEF RemByConstant, RemBy
<1>2. a \in WordSet /\ n \in Int /\ 32 \in Widths /\ l \in Registers
  BY OperandsAre, WordsAre DEF Widths
<1>3. Compute(op, a, y) = Compute("srem", a, n)
  <2> HIDE DEF a
  <2> QED BY <1>2, RemainderOfMultiple
<1>4. q \in WordSet /\ Compute("sdiv", a, n) = q
  <2>1. "sdiv" \in Integral /\ Compute("sdiv", a, n) = q
    BY Computes DEF Integral
  <2> HIDE DEF q, a
  <2> QED BY <1>2, <2>1, ComputedIsWord
<1>5. power => k \in WordSet /\ k >= 0
  BY Constants DEF PowerOfTwo, CountrZero
<1>6. ~power => PowerOfTwo(Wrap(Abs(Wrap(n - 1))))
  BY DEF EasyDivisor
<1> HIDE DEF power, k
<1>7. /\ Effect(g, g1, s0, {}) /\ After(g1, s0) = s
      /\ Writer(g1) /\ IsMachine(After(g1, s0))
      /\ r \in Scratch /\ r \in Registers /\ r # ZR /\ g1.busy = {r}
  <2>1. g.busy # Scratch /\ g.busy = {}
    BY DEF Scratch
  <2>2. /\ Effect(g, g1, s0, {}) /\ After(g1, s0) = s
        /\ Writer(g1) /\ IsMachine(After(g1, s0))
        /\ r \in Scratch \ g.busy /\ r \in Registers /\ r # ZR /\ g1.busy = g.busy \cup {r}
    BY <2>1, TakeScratch
  <2> HIDE DEF rr, g1, r
  <2> QED BY <2>1, <2>2
<1> HIDE DEF rr, g1, r
<1>8. /\ Effect(g1, g2, s0, {}) /\ After(g2, s0) = s
      /\ Writer(g2) /\ IsMachine(After(g2, s0))
      /\ p \in Scratch /\ p # r /\ p \in Registers /\ p # ZR /\ g2.busy = {r, p}
  <2>1. g1.busy # Scratch
    BY <1>7, ScratchIs DEF Scratch
  <2>2. /\ Effect(g1, g2, s0, {}) /\ After(g2, s0) = After(g1, s0)
        /\ Writer(g2) /\ IsMachine(After(g2, s0))
        /\ p \in Scratch \ g1.busy /\ p \in Registers /\ p # ZR /\ g2.busy = g1.busy \cup {p}
    BY <1>7, <2>1, TakeScratch
  <2> HIDE DEF ip, g2, p
  <2> QED BY <1>7, <2>2
<1> HIDE DEF ip, g2, p
<1>9. {r, p} = Scratch
  BY <1>7, <1>8 DEF Scratch
<1>10. /\ Effect(g2, h1, s0, {r}) /\ h1.busy = {r, p}
       /\ Operand(After(h1, s0), r, 32) = n
  <2>1. IsMachine(After(g2, s0)) /\ Writer(g2) /\ r \in Registers /\ r # ZR
    BY <1>7, <1>8
  <2>2. /\ Effect(g2, h1, s0, {r}) /\ h1.busy = g2.busy
        /\ Operand(After(h1, s0), r, 32) = AtWidth(n, 32)
    BY <2>1, <1>2, MakeImmediateDoes
  <2> QED BY <1>8, <2>2, WrapOfWord DEF AtWidth
<1> HIDE DEF h1
<1>11. Effect(g, h1, s0, {r}) /\ IsMachine(After(h1, s0)) /\ Writer(h1)
  <2>1. Effect(g, g2, s0, {})
    <3>1. {} \cup {} \subseteq {}
      OBVIOUS
    <3> QED BY <1>7, <1>8, <3>1, EffectTogether
  <2>2. {} \cup {r} \subseteq {r}
    OBVIOUS
  <2> QED BY <2>1, <1>10, <2>2, EffectTogether DEF Effect
<1>12. Operand(After(h1, s0), l, 32) = a
  <2>1. OnlyRegisters(s, After(h1, s0), {r}) /\ l \notin {r}
    BY <1>7, <1>11 DEF Effect
  <2> QED BY <2>1, OperandsStay
<1> HIDE DEF a, s
<1>13. /\ Effect(h1, h2, s0, {p}) /\ h2.busy = h1.busy
       /\ Operand(After(h2, s0), p, 32) = q
  <2>1. "sdiv" \in Integral
    BY DEF Integral
  <2> HIDE DEF q
  <2>2. /\ Effect(h1, h2, s0, {p}) /\ h2.busy = h1.busy
        /\ Operand(After(h2, s0), p, 32) = Compute("sdiv", Operand(After(h1, s0), l, 32), Operand(After(h1, s0), r, 32))
    <3>1. /\ Operand(After(h1, s0), l, 32) \in WordSet /\ Operand(After(h1, s0), r, 32) \in WordSet
          /\ IsMachine(After(h1, s0)) /\ Writer(h1) /\ p \in Registers /\ p # ZR
      BY <1>2, <1>8, <1>10, <1>11, <1>12
    <3> QED BY <2>1, <3>1, MathPut
  <2> QED BY <1>4, <1>10, <1>12, <2>2
<1> HIDE DEF h2, q
<1>14. Effect(g, h2, s0, Scratch) /\ IsMachine(After(h2, s0)) /\ Writer(h2)
  <2>1. {r} \cup {p} \subseteq Scratch
    BY <1>9
  <2> QED BY <1>11, <1>13, <2>1, EffectTogether DEF Effect
<1>15. /\ Effect(h2, h3, s0, {r}) /\ h3.busy = h2.busy
       /\ Operand(After(h3, s0), r, 32) = y
  <2>1. r \in Registers /\ r # ZR /\ p \in Registers
    BY <1>7, <1>8
  <2>2. CASE power
    <3> DEFINE i == ShiftBy(h2, "shl", r, p, k, 32)
    <3>1. /\ Effect(h2, i, s0, {r}) /\ i.busy = h2.busy
          /\ Operand(After(i, s0), r, 32) = Compute("shl", Operand(After(h2, s0), p, 32), k)
      <4>1. k \in WordSet /\ k >= 0 /\ "shl" \in {"shl", "ashr"}
        BY <1>5, <2>2
      <4> QED BY <1>14, <2>1, <4>1, ShiftByDoes
    <3> HIDE DEF i
    <3>2. h3 = i
      BY <2>2 DEF i
    <3> HIDE DEF h3
    <3> QED BY <1>13, <2>2, <3>1, <3>2
  <2>3. CASE ~power
    <3> DEFINE i == Mull(h2, r, p, n, 32)
    <3>1. /\ Effect(h2, i, s0, {r}) /\ i.busy = h2.busy
          /\ Operand(After(i, s0), r, 32) = Wrap(Operand(After(h2, s0), p, 32) * n)
      BY <1>6, <1>14, <2>1, <2>3, MullDoes
    <3> HIDE DEF i
    <3>2. h3 = i
      BY <2>3 DEF i
    <3> HIDE DEF h3
    <3> QED BY <1>13, <2>3, <3>1, <3>2
  <2> QED BY <2>2, <2>3
<1> HIDE DEF h3, y
<1>16. Effect(g, h3, s0, Scratch) /\ IsMachine(After(h3, s0)) /\ Writer(h3)
  <2>1. Scratch \cup {r} \subseteq Scratch
    BY <1>7
  <2> QED BY <1>14, <1>15, <2>1, EffectTogether DEF Effect
<1>17. Operand(After(h3, s0), l, 32) = a
  <2>1. OnlyRegisters(After(g, s0), After(h3, s0), Scratch) /\ l \notin Scratch
    BY <1>16 DEF Effect
  <2> QED BY <1>2, <2>1, OperandsStay DEF a, s
<1>18. h3.busy = Scratch
  BY <1>9, <1>10, <1>13, <1>15
<1>19. /\ Effect(h3, h4, s0, Scratch \cup {t}) /\ h4.busy = h3.busy
       /\ Operand(After(h4, s0), t, 32) = Compute("srem", a, n)
  <2>1. op \in Integral /\ op # "srem" /\ Scratch \ h3.busy = {}
    BY <1>18 DEF Integral
  <2>2. l \in Registers \ (Scratch \ h3.busy) /\ r \in Registers \ (Scratch \ h3.busy)
    BY <1>2, <1>7, <2>1
  <2> HIDE DEF op
  <2>3. /\ Effect(h3, h4, s0, Scratch \cup {t}) /\ h4.busy = h3.busy
        /\ Operand(After(h4, s0), t, 32) = Compute(op, Operand(After(h3, s0), l, 32), Operand(After(h3, s0), r, 32))
    BY <1>16, <2>1, <2>2, MathRRDoes
  <2> HIDE DEF h4
  <2> QED BY <1>3, <1>15, <1>17, <2>3
<1> HIDE DEF h4
<1>20. Effect(g, h4, s0, Scratch \cup {t}) /\ IsMachine(After(h4, s0)) /\ Writer(h4)
  <2>1. Scratch \cup (Scratch \cup {t}) \subseteq Scratch \cup {t}
    OBVIOUS
  <2> QED BY <1>16, <1>19, <2>1, EffectTogether DEF Effect
<1>21. /\ Effect(h4, h5, s0, {}) /\ After(h5, s0) = After(h4, s0) /\ Writer(h5)
       /\ h5.busy = h4.busy \ {r}
  BY <1>20, GiveScratch
<1> HIDE DEF h5
<1>22. IsMachine(After(h5, s0))
  BY <1>20, <1>21
<1>23. /\ Effect(h5, h6, s0, {}) /\ After(h6, s0) = After(h5, s0)
       /\ h6.busy = h5.busy \ {p}
  BY <1>21, <1>22, GiveScratch
<1> HIDE DEF h6
<1>24. Effect(g, h6, s0, Scratch \cup {t})
  <2>1. (Scratch \cup {t}) \cup {} \subseteq Scratch \cup {t}
    OBVIOUS
  <2>2. Effect(g, h5, s0, Scratch \cup {t})
    BY <1>20, <1>21, <2>1, EffectTogether
  <2> QED BY <1>23, <2>1, <2>2, EffectTogether
<1>25. h6.busy = {}
  BY <1>9, <1>18, <1>19, <1>21, <1>23
<1> QED BY <1>1, <1>19, <1>21, <1>23, <1>24, <1>25 DEF rr, a, s

(* An operand of an instruction: a register that is not one of the two       *)
(* scratch registers, or a constant.                                         *)
Source(o) == o \in IntRegisters \ Scratch \/ \E n \in WordSet : o = C(n)

(* The constants to the right of op that mathInst() is given: shifts by and  *)
(* masks of positive numbers, mull by 2^k + 1 and 1 - 2^k; simplify() leaves *)
(* no remainder by 0, 1 or -1.  add32() and sub32() have no end for the least*)
(* number, and what mathInst() writes for the remainder by 1 - 2^k is wrong. *)
Writable(op, n) ==
  /\ op \in {"add", "sub"} => n # MinWord
  /\ op \in {"shl", "ashr", "and"} => n >= 0
  /\ op = "mull" => n \in {0, 1} \/ PowerOfTwo(Wrap(Abs(Wrap(n - 1))))
  /\ op = "srem" => n \notin {0, 1} /\ (n < 0 /\ EasyDivisor(n) => PowerOfTwo(Wrap(Abs(n))))

LEMMA SourceIs ==
  ASSUME NEW o, Source(o)
  PROVE  /\ IsConst(o) <=> ~(o \in IntRegisters)
         /\ IsConst(o) => o[2] \in WordSet /\ o = C(o[2])
         /\ ~IsConst(o) => o \in IntRegisters \ Scratch /\ o \in Registers \ Scratch
         /\ o[1] # "k"
BY DEF Source, IsConst, C, IntRegisters, Registers

(* The instructions from g to h leave x in the register t.                   *)
Leaves(h, g, s0, t, x) ==
  /\ Effect(g, h, s0, Scratch \cup {t}) /\ h.busy = g.busy
  /\ Operand(After(h, s0), t, 32) = x

LEMMA SumLeft ==
  ASSUME NEW g, Writer(g), NEW s0, IsMachine(After(g, s0)), g.busy # Scratch,
         NEW t \in Registers, t # ZR, NEW l \in Registers, l \notin Scratch,
         NEW n \in Int, n # MinWord
  PROVE  Leaves(AddImmediate(g, t, l, n, 32), g, s0, t, Wrap(Operand(After(g, s0), l, 32) + n))
BY AddImmediate32 DEF Leaves

(* mathInst() with its operands in registers, and its two ways.              *)
LEMMA MathRIDoes ==
  ASSUME NEW g, Writer(g), g.busy = {}, NEW s0, IsMachine(After(g, s0)),
         NEW op \in Integral \ {"mul", "sdiv"}, NEW t \in Registers, t # ZR,
         NEW l \in Registers \ Scratch, NEW n \in WordSet, Writable(op, n),
         op = "srem" => EasyDivisor(n), op = "mull" => n \notin {0, 1}
  PROVE  LET h == MathRI([reg |-> l, g |-> g], op, t, n, 32)
         IN  /\ Effect(g, h, s0, Scratch \cup {t}) /\ h.busy = g.busy
             /\ Operand(After(h, s0), t, 32) = Compute(op, Operand(After(g, s0), l, 32), n)
<1> DEFINE h == MathRI([reg |-> l, g |-> g], op, t, n, 32)
           a == Operand(After(g, s0), l, 32)
<1>1. /\ a \in WordSet /\ a \in Int /\ n \in Int /\ 32 \in Widths /\ l \in Registers /\ l \notin Scratch
      /\ g.busy # Scratch
  BY OperandsAre, WordsAre DEF Widths, Scratch
<1>2. \A i : Effect(g, i, s0, {t}) => Effect(g, i, s0, Scratch \cup {t})
  <2>1. {t} \subseteq Scratch \cup {t}
    OBVIOUS
  <2> QED BY <2>1, OnlyMore DEF Effect
<1>4. CASE op \in {"shl", "ashr"}
  <2> DEFINE i == ShiftBy(g, op, t, l, n, 32)
  <2>1. h = i
    BY <1>4 DEF MathRI
  <2>2. n >= 0
    BY <1>4 DEF Writable
  <2>3. /\ Effect(g, i, s0, {t}) /\ i.busy = g.busy
        /\ Operand(After(i, s0), t, 32) = Compute(op, Operand(After(g, s0), l, 32), n)
    <3> HIDE DEF h, a
    <3>1. l \in Registers
      OBVIOUS
    <3> QED BY <3>1, <1>4, <2>2, ShiftByDoes
  <2> HIDE DEF h, i
  <2> QED BY <1>2, <2>1, <2>3 DEF h
<1>5. CASE op = "and"
  <2> DEFINE i == AndBy(g, t, l, n, 32)
  <2>1. h = i
    BY <1>5 DEF MathRI
  <2>2. n >= 0
    BY <1>5 DEF Writable
  <2>3. /\ Effect(g, i, s0, Scratch \cup {t}) /\ i.busy = g.busy
        /\ Operand(After(i, s0), t, 32) = Compute("and", Operand(After(g, s0), l, 32), n)
    BY <1>1, <2>2, AndByDoes
  <2> HIDE DEF h, i
  <2> QED BY <1>5, <2>1, <2>3 DEF h
<1>6. CASE op = "mull"
  <2> DEFINE i == Mull(g, t, l, n, 32)
  <2>1. h = i
    BY <1>6 DEF MathRI
  <2>2. PowerOfTwo(Wrap(Abs(Wrap(n - 1))))
    BY <1>6 DEF Writable
  <2>3. /\ Effect(g, i, s0, {t}) /\ i.busy = g.busy
        /\ Operand(After(i, s0), t, 32) = Wrap(Operand(After(g, s0), l, 32) * n)
    BY <1>1, <2>2, MullDoes
  <2> HIDE DEF h, i
  <2> QED BY <1>2, <1>6, <2>1, <2>3, Computes DEF h
<1>7. CASE op = "srem"
  <2> DEFINE i == RemByConstant(GetIP(g), t, l, n, 32)
  <2>1. h = i
    BY <1>7 DEF MathRI
  <2>2. PowerOfTwo(Wrap(Abs(n))) \/ (n >= 0 /\ EasyDivisor(n))
    BY <1>1, <1>7 DEF Writable
  <2>3. /\ Effect(g, i, s0, Scratch \cup {t}) /\ i.busy = g.busy
        /\ Operand(After(i, s0), t, 32) = Compute("srem", Operand(After(g, s0), l, 32), n)
    BY <2>2, RemByDoes
  <2> HIDE DEF h, i
  <2> QED BY <1>7, <2>1, <2>3 DEF h
<1>8. CASE op = "add"
  <2> DEFINE i == AddImmediate(g, t, l, n, 32)
  <2>1. h = i
    BY <1>8 DEF MathRI
  <2>2. n # MinWord
    BY <1>8 DEF Writable
  <2>3. /\ Effect(g, i, s0, Scratch \cup {t}) /\ i.busy = g.busy
        /\ Operand(After(i, s0), t, 32) = Wrap(Operand(After(g, s0), l, 32) + n)
    <3>1. Leaves(i, g, s0, t, Wrap(Operand(After(g, s0), l, 32) + n))
      BY <1>1, <2>2, SumLeft
    <3> HIDE DEF h, a, i
    <3> QED BY <3>1 DEF Leaves
  <2> HIDE DEF h, i
  <2> QED BY <1>8, <2>1, <2>3, Computes DEF h
<1>9. CASE op = "sub"
  <2> DEFINE m == Wrap(-n)
             i == AddImmediate(g, t, l, m, 32)
  <2>1. h = i
    BY <1>9 DEF MathRI
  <2>2. m \in Int /\ m # MinWord
    <3>1. n # MinWord
      BY <1>9 DEF Writable
    <3>2. -n \in WordSet /\ -n # MinWord
      BY <3>1, WordsAre
    <3> QED BY <3>2, WrapOfWord, WordsAre
  <2>3. Wrap(a + m) = Wrap(a - n)
    <3> HIDE DEF a
    <3>1. -n \in Int /\ a + (-n) = a - n
      BY <1>1
    <3> QED BY <1>1, <3>1, WrapInside
  <2> HIDE DEF m
  <2>4. /\ Effect(g, i, s0, Scratch \cup {t}) /\ i.busy = g.busy
        /\ Operand(After(i, s0), t, 32) = Wrap(Operand(After(g, s0), l, 32) + m)
    <3>1. Leaves(i, g, s0, t, Wrap(Operand(After(g, s0), l, 32) + m))
      BY <1>1, <2>2, SumLeft
    <3> HIDE DEF h, a, i
    <3> QED BY <3>1 DEF Leaves
  <2> HIDE DEF h, i
  <2> QED BY <1>9, <2>1, <2>3, <2>4, Computes DEF h
<1> QED BY <1>4, <1>5, <1>6, <1>7, <1>8, <1>9 DEF Integral

LEMMA RegisterOf ==
  ASSUME NEW g, Writer(g), NEW s0, IsMachine(After(g, s0)), NEW o, Source(o),
         g.busy # Scratch
  PROVE  LET l == Op2Reg(g, o, 32)
         IN  /\ Effect(g, l.g, s0, Scratch) /\ Writer(l.g) /\ IsMachine(After(l.g, s0))
             /\ Operand(After(l.g, s0), l.reg, 32) = Operand(After(g, s0), o, 32)
             /\ \A q \in Registers \ (Scratch \ g.busy) :
                  Operand(After(l.g, s0), q, 32) = Operand(After(g, s0), q, 32)
             /\ \A q : Source(q) => Operand(After(l.g, s0), q, 32) = Operand(After(g, s0), q, 32)
             /\ l.reg \in Registers
             /\ \/ ~IsConst(o) /\ l.reg = o /\ l.g = g /\ l.reg \notin Scratch
                \/ IsConst(o) /\ l.reg \in Scratch \ g.busy /\ l.g.busy = g.busy \cup {l.reg}
<1> DEFINE l == Op2Reg(g, o, 32)
<1>1. 32 \in Widths
  BY DEF Widths
<1>2. o \in IntRegisters \/ (g.busy # Scratch /\ \E n \in Int : o = C(n))
  BY WordsAre DEF Source
<1>3. /\ Effect(g, l.g, s0, Scratch) /\ Writer(l.g) /\ IsMachine(After(l.g, s0))
      /\ Operand(After(l.g, s0), l.reg, 32) = Operand(After(g, s0), o, 32)
      /\ \A q \in Registers \ (Scratch \ g.busy) :
           Operand(After(l.g, s0), q, 32) = Operand(After(g, s0), q, 32)
      /\ \/ o \in IntRegisters /\ l.reg = o /\ l.g = g
         \/ /\ ~(o \in IntRegisters)
            /\ l.reg \in Scratch \ g.busy /\ l.g.busy = g.busy \cup {l.reg}
  BY <1>1, <1>2, Op2RegDoes
<1> HIDE DEF l
<1>4. ASSUME NEW q, Source(q)
      PROVE  Operand(After(l.g, s0), q, 32) = Operand(After(g, s0), q, 32)
  <2>1. CASE q \in IntRegisters \ Scratch
    BY <2>1, <1>3, ScratchIs
  <2>2. CASE \E n \in WordSet : q = C(n)
    BY <2>2, OperandIs64
  <2> QED BY <1>4, <2>1, <2>2 DEF Source
<1>5. /\ IsConst(o) <=> ~(o \in IntRegisters)
      /\ ~IsConst(o) => o \in IntRegisters \ Scratch /\ o \in Registers \ Scratch
  BY SourceIs
<1>6. /\ l.reg \in Registers
      /\ \/ ~IsConst(o) /\ l.reg = o /\ l.g = g /\ l.reg \notin Scratch
         \/ IsConst(o) /\ l.reg \in Scratch \ g.busy /\ l.g.busy = g.busy \cup {l.reg}
  BY <1>3, <1>5, ScratchIs
<1> QED BY <1>3, <1>4, <1>6 DEF l

LEMMA MathByRegisters ==
  ASSUME NEW g, Writer(g), g.busy = {}, NEW s0, IsMachine(After(g, s0)),
         NEW op \in Integral, NEW t \in Registers, t # ZR,
         NEW l, Source(l), NEW r, Source(r), ~(IsConst(l) /\ IsConst(r))
  PROVE  LET l0 == Op2Reg(g, l, 32)
         IN  Leaves(ReleaseIP(MathWith(l0.g, Op2Reg(l0.g, r, 32), op, t, l0.reg, 32), l0.reg),
                    g, s0, t, Compute(op, Operand(After(g, s0), l, 32), Operand(After(g, s0), r, 32)))
<1> DEFINE l0 == Op2Reg(g, l, 32)
           g1 == l0.g
           p == l0.reg
           r0 == Op2Reg(g1, r, 32)
           g2 == r0.g
           q == r0.reg
           h1 == MathRR(g2, op, t, p, q, 32)
           h2 == ReleaseIP(h1, q)
           h3 == ReleaseIP(h2, p)
           a == Operand(After(g, s0), l, 32)
           b == Operand(After(g, s0), r, 32)
<1>1. MathWith(g1, r0, op, t, p, 32) = h2
  BY DEF MathWith
<1>0. IP0 # IP1
  BY ScratchIs
<1>2. /\ Effect(g, g1, s0, Scratch) /\ Writer(g1) /\ IsMachine(After(g1, s0))
      /\ Operand(After(g1, s0), p, 32) = a
      /\ Operand(After(g1, s0), r, 32) = b
      /\ p \in Registers
      /\ \/ ~IsConst(l) /\ p = l /\ g1 = g /\ p \notin Scratch
         \/ IsConst(l) /\ p \in Scratch /\ g1.busy = {p}
  <2>1. g.busy # Scratch /\ g.busy = {}
    BY DEF Scratch
  <2> HIDE DEF g1, p, l0, a, b
  <2>2. /\ Effect(g, g1, s0, Scratch) /\ Writer(g1) /\ IsMachine(After(g1, s0))
        /\ Operand(After(g1, s0), p, 32) = Operand(After(g, s0), l, 32)
        /\ \A o : Source(o) => Operand(After(g1, s0), o, 32) = Operand(After(g, s0), o, 32)
        /\ p \in Registers
        /\ \/ ~IsConst(l) /\ p = l /\ g1 = g /\ p \notin Scratch
           \/ IsConst(l) /\ p \in Scratch \ g.busy /\ g1.busy = g.busy \cup {p}
    BY <2>1, RegisterOf DEF g1, p, l0
  <2> QED BY <2>1, <2>2 DEF a, b
<1> HIDE DEF l0, g1, p, a, b
<1>3. g1.busy # Scratch /\ (p \in g1.busy \/ p \notin Scratch)
      /\ (IsConst(l) => ~IsConst(r)) /\ (~IsConst(l) => g1.busy = {})
  BY <1>0, <1>2 DEF Scratch
<1>4. /\ Effect(g1, g2, s0, Scratch) /\ Writer(g2) /\ IsMachine(After(g2, s0))
      /\ Operand(After(g2, s0), q, 32) = b
      /\ Operand(After(g2, s0), p, 32) = a
      /\ q \in Registers
      /\ \/ ~IsConst(r) /\ q = r /\ g2 = g1 /\ q \notin Scratch
         \/ IsConst(r) /\ q \in Scratch \ g1.busy /\ g2.busy = g1.busy \cup {q}
  <2> HIDE DEF g2, q, r0
  <2>2. /\ Effect(g1, g2, s0, Scratch) /\ Writer(g2) /\ IsMachine(After(g2, s0))
        /\ Operand(After(g2, s0), q, 32) = Operand(After(g1, s0), r, 32)
        /\ \A o \in Registers \ (Scratch \ g1.busy) :
                  Operand(After(g2, s0), o, 32) = Operand(After(g1, s0), o, 32)
        /\ q \in Registers
        /\ \/ ~IsConst(r) /\ q = r /\ g2 = g1 /\ q \notin Scratch
           \/ IsConst(r) /\ q \in Scratch \ g1.busy /\ g2.busy = g1.busy \cup {q}
    BY <1>2, <1>3, RegisterOf DEF g2, q, r0
  <2>3. p \in Registers \ (Scratch \ g1.busy)
    BY <1>2, <1>3
  <2> QED BY <1>2, <2>2, <2>3
<1> HIDE DEF r0, g2, q
<1>5. /\ p \in Registers \ (Scratch \ g2.busy) /\ q \in Registers \ (Scratch \ g2.busy)
      /\ g2.busy # Scratch /\ (g2.busy \ {q}) \ {p} = {}
  BY <1>0, <1>2, <1>3, <1>4 DEF Scratch
<1>6. /\ Effect(g2, h1, s0, Scratch \cup {t}) /\ h1.busy = g2.busy
      /\ Operand(After(h1, s0), t, 32) = Compute(op, a, b)
  <2> HIDE DEF h1
  <2>1. /\ Effect(g2, h1, s0, Scratch \cup {t}) /\ h1.busy = g2.busy
        /\ Operand(After(h1, s0), t, 32) = Compute(op, Operand(After(g2, s0), p, 32), Operand(After(g2, s0), q, 32))
    BY <1>4, <1>5, MathRRDoes DEF h1
  <2> QED BY <1>4, <2>1
<1> HIDE DEF h1
<1>7. Effect(g, g2, s0, Scratch)
  <2>1. Scratch \cup Scratch \subseteq Scratch
    OBVIOUS
  <2> QED BY <1>2, <1>4, <2>1, EffectTogether
<1>8. Effect(g, h1, s0, Scratch \cup {t}) /\ IsMachine(After(h1, s0)) /\ Writer(h1)
  <2>1. Scratch \cup (Scratch \cup {t}) \subseteq Scratch \cup {t}
    OBVIOUS
  <2> QED BY <1>6, <1>7, <2>1, EffectTogether DEF Effect
<1>9. /\ Effect(h1, h2, s0, {}) /\ After(h2, s0) = After(h1, s0) /\ Writer(h2)
      /\ h2.busy = h1.busy \ {q}
  BY <1>8, GiveScratch
<1> HIDE DEF h2
<1>10. /\ Effect(h2, h3, s0, {}) /\ After(h3, s0) = After(h2, s0) /\ Writer(h3)
       /\ h3.busy = h2.busy \ {p}
  BY <1>8, <1>9, GiveScratch
<1> HIDE DEF h3
<1>11. Effect(g, h3, s0, Scratch \cup {t})
  <2>1. {} \cup {} \subseteq {}
    OBVIOUS
  <2>2. Effect(h1, h3, s0, {})
    BY <1>8, <1>9, <1>10, <2>1, EffectTogether
  <2>3. (Scratch \cup {t}) \cup {} \subseteq Scratch \cup {t}
    OBVIOUS
  <2> QED BY <1>8, <2>2, <2>3, EffectTogether
<1>12. h3.busy = g.busy
  BY <1>5, <1>6, <1>9, <1>10
<1> QED BY <1>1, <1>6, <1>9, <1>10, <1>11, <1>12 DEF Leaves, h3, g1, p, l0, r0, a, b

LEMMA MathGeneralDoes ==
  ASSUME NEW g, Writer(g), g.busy = {}, NEW s0, IsMachine(After(g, s0)),
         NEW op \in Integral, NEW t \in Registers, t # ZR,
         NEW l, Source(l), NEW r, Source(r), ~(IsConst(l) /\ IsConst(r)),
         IsConst(r) => Writable(op, r[2]) /\ (op = "mull" => r[2] \notin {0, 1})
  PROVE  Leaves(MathGeneral(Op2Reg(g, l, 32), op, t, r, 32), g, s0, t,
                Compute(op, Operand(After(g, s0), l, 32), Operand(After(g, s0), r, 32)))
<1> DEFINE l0 == Op2Reg(g, l, 32)
           a == Operand(After(g, s0), l, 32)
           b == Operand(After(g, s0), r, 32)
           immediate == IsConst(r) /\ (op \notin {"mul", "sdiv", "srem"} \/ (op = "srem" /\ EasyDivisor(r[2])))
<1>1. CASE ~immediate
  <2> DEFINE h == ReleaseIP(MathWith(l0.g, Op2Reg(l0.g, r, 32), op, t, l0.reg, 32), l0.reg)
  <2>1. MathGeneral(l0, op, t, r, 32) = h
    BY <1>1 DEF MathGeneral
  <2>2. Leaves(h, g, s0, t, Compute(op, a, b))
    BY MathByRegisters
  <2> QED BY <2>1, <2>2
<1>2. CASE immediate
  <2> DEFINE n == r[2]
             i == MathRI(l0, op, t, n, 32)
             h == ReleaseIP(i, l)
  <2>1. n \in WordSet /\ r = C(n) /\ Writable(op, n) /\ (op = "mull" => n \notin {0, 1})
    BY <1>2, SourceIs
  <2>2. l \in IntRegisters /\ l \in Registers \ Scratch
    BY <1>2, SourceIs
  <2>3. l0 = [reg |-> l, g |-> g]
    BY <2>2 DEF Op2Reg, IntRegisters
  <2>4. MathGeneral(l0, op, t, r, 32) = h
    BY <1>2, <2>3 DEF MathGeneral
  <2>5. b = n
    <3>1. b = Wrap(n)
      BY <2>1, OperandIs64 DEF AtWidth
    <3> QED BY <2>1, <3>1, WrapOfWord
  <2>6. op \in Integral \ {"mul", "sdiv"} /\ (op = "srem" => EasyDivisor(n))
    BY <1>2
  <2> HIDE DEF n, l0
  <2>7. /\ Effect(g, i, s0, Scratch \cup {t}) /\ i.busy = g.busy
        /\ Operand(After(i, s0), t, 32) = Compute(op, a, n)
    <3> DEFINE k == MathRI([reg |-> l, g |-> g], op, t, n, 32)
    <3> HIDE DEF i, a, h
    <3>1. i = k
      BY <2>3 DEF i
    <3>2. /\ Effect(g, k, s0, Scratch \cup {t}) /\ k.busy = g.busy
          /\ Operand(After(k, s0), t, 32) = Compute(op, Operand(After(g, s0), l, 32), n)
      BY <2>1, <2>2, <2>6, MathRIDoes
    <3> HIDE DEF k
    <3> QED BY <3>1, <3>2 DEF a
  <2>8. IsMachine(After(i, s0)) /\ Writer(i)
    BY <2>7 DEF Effect, OnlyRegisters
  <2> HIDE DEF i
  <2>9. /\ Effect(i, h, s0, {}) /\ After(h, s0) = After(i, s0) /\ h.busy = i.busy \ {l}
    BY <2>8, GiveScratch
  <2> HIDE DEF h
  <2>10. Effect(g, h, s0, Scratch \cup {t})
    <3>1. (Scratch \cup {t}) \cup {} \subseteq Scratch \cup {t}
      OBVIOUS
    <3> QED BY <2>7, <2>9, <3>1, EffectTogether
  <2>11. h.busy = g.busy
    BY <2>7, <2>9
  <2> HIDE DEF a, b
  <2>12. Leaves(h, g, s0, t, Compute(op, a, b))
    BY <2>5, <2>7, <2>9, <2>10, <2>11 DEF Leaves
  <2> QED BY <2>4, <2>12 DEF a, b, l0
<1> QED BY <1>1, <1>2

(* A register or a constant copied.                                          *)
LEMMA CopyDoes ==
  ASSUME NEW g, Writer(g), g.busy = {}, NEW s0, IsMachine(After(g, s0)),
         NEW t \in Registers, t # ZR, NEW o, o = ZR \/ Source(o)
  PROVE  Leaves(Copy(g, t, o, 32), g, s0, t, Operand(After(g, s0), o, 32))
<1> DEFINE h == Copy(g, t, o, 32)
           a == Operand(After(g, s0), o, 32)
<1>1. /\ Effect(g, h, s0, {t}) /\ h.busy = g.busy
      /\ Operand(After(h, s0), t, 32) = a
  <2>0. 32 \in Widths
    BY DEF Widths
  <2>1. CASE o \in IntRegisters
    <3> DEFINE i == CopyRegister(g, t, o, 32)
    <3>1. h = i /\ o \in Registers
      BY <2>1, ScratchIs DEF Copy, IntRegisters
    <3>2. /\ Effect(g, i, s0, {t}) /\ i.busy = g.busy
          /\ Operand(After(i, s0), t, 32) = Operand(After(g, s0), o, 32)
      <4> HIDE DEF i, h, a
      <4> QED BY <2>0, <3>1, CopyRegisterDoes DEF i
    <3> HIDE DEF h, i
    <3> QED BY <3>1, <3>2
  <2>2. CASE \E n \in WordSet : o = C(n)
    <3>1. PICK n \in WordSet : o = C(n)
      BY <2>2
    <3> DEFINE i == MakeImmediate(g, n, t, 32)
    <3>2. h = i /\ n \in Int
      BY <3>1, WordsAre DEF Copy, C
    <3>3. /\ Effect(g, i, s0, {t}) /\ i.busy = g.busy
          /\ Operand(After(i, s0), t, 32) = AtWidth(n, 32)
      <4> HIDE DEF i, h, a
      <4> QED BY <2>0, <3>2, MakeImmediateDoes DEF i
    <3>4. a = AtWidth(n, 32)
      BY <3>1, OperandIs64
    <3> HIDE DEF h, i, a
    <3> QED BY <3>2, <3>3, <3>4
  <2> QED BY <2>1, <2>2, ScratchIs DEF Source
<1> HIDE DEF h, a
<1>2. Effect(g, h, s0, Scratch \cup {t})
  <2>1. {t} \subseteq Scratch \cup {t}
    OBVIOUS
  <2> QED BY <1>1, <2>1, OnlyMore DEF Effect
<1> QED BY <1>1, <1>2 DEF Leaves, h, a

LEMMA SourcesAre ==
  ASSUME NEW s, IsMachine(s), NEW o, Source(o)
  PROVE  /\ Operand(s, o, 32) \in WordSet
         /\ IsConst(o) => Operand(s, o, 32) = o[2]
         /\ Operand(s, ZR, 32) = 0
<1>1. /\ IsConst(o) => o[2] \in WordSet /\ o = C(o[2])
      /\ ~IsConst(o) => o \in Registers \ Scratch
  BY SourceIs
<1>2. \A n \in WordSet : Operand(s, C(n), 32) = n
  BY OperandIs64, WrapOfWord DEF AtWidth
<1>3. \A q \in Registers : Operand(s, q, 32) \in WordSet
  BY OperandsAre
<1>4. Operand(s, ZR, 32) = 0
  <2>1. Operand(s, ZR, 32) = Wrap(0)
    BY OperandIs64, ScratchIs, ContentIs DEF AtWidth
  <2> QED BY <2>1, WrapOfWord, Constants
<1> QED BY <1>1, <1>2, <1>3, <1>4

(* What mathInst() finds without an instruction of the operation.            *)
LEMMA EasyOperands ==
  ASSUME NEW op \in Integral, NEW x \in WordSet
  PROVE  /\ op \in {"sdiv", "mul", "mull", "and"} => Compute(op, x, 0) = 0
         /\ op \in {"sdiv", "srem", "shl", "ashr", "and"} => Compute(op, 0, x) = 0
         /\ op \in {"add", "shl", "ashr"} => Compute(op, x, 0) = x
         /\ op \in {"mul", "mull", "sdiv"} => Compute(op, x, 1) = x
<1>1. x \in Int /\ Wrap(0) = 0
  BY WordsAre, WrapOfWord, Constants
<1>2. WDiv(x, 0) = 0 /\ WDiv(0, x) = 0 /\ WDiv(x, 1) = x
  BY EasyQuotients DEF WDiv
<1>3. WRem(0, x) = 0
  <2>1. CASE x # 0
    BY <2>1, EasyRemainders
  <2>2. CASE x = 0
    BY <2>2, <1>1, <1>2 DEF WRem
  <2> QED BY <2>1, <2>2
<1> QED BY <1>2, <1>3, Computes, EasyShifts, EasyAnds, EasySums

LEMMA OrderedDoes ==
  ASSUME NEW g, Writer(g), g.busy = {}, NEW s0, IsMachine(After(g, s0)),
         NEW op \in Integral, NEW t \in Registers, t # ZR,
         NEW l, Source(l), NEW r, Source(r), ~Swapped(op, l, r),
         IsConst(r) => Writable(op, r[2])
  PROVE  Leaves(Ordered(g, op, t, l, r, 32), g, s0, t,
                Compute(op, Operand(After(g, s0), l, 32), Operand(After(g, s0), r, 32)))
<1> DEFINE h == Ordered(g, op, t, l, r, 32)
           a == Operand(After(g, s0), l, 32)
           b == Operand(After(g, s0), r, 32)
           z == Compute(op, a, b)
           general == MathGeneral(Op2Reg(g, l, 32), op, t, r, 32)
           copy(o) == Copy(g, t, o, 32)
           c1 == IsConst(r) /\ r[2] = 0 /\ op \in {"sdiv", "srem", "mul", "mull", "and"}
           c2 == IsConst(l) /\ IsConst(r)
           c3 == IsConst(l) /\ ~IsConst(r) /\ l[2] = 0 /\ op # "sub"
           c4 == IsConst(r) /\ r[2] = 0 /\ op \in {"add", "shl", "ashr"}
           c5 == IsConst(r) /\ r[2] = 1 /\ op \in {"mul", "mull", "sdiv", "srem"}
<1>1. /\ l[1] # "k"
      /\ \A n : copy(C(n)) = MakeImmediate(g, n, t, 32)
      /\ copy(ZR) = CopyRegister(g, t, ZR, 32)
  <2>1. l[1] # "k"
    BY SourceIs
  <2> QED BY <2>1 DEF Copy, C, ZR, R
<1>2. \/ c1 /\ h = copy(ZR)
      \/ c2 /\ h = copy(C(Compute(op, l[2], r[2])))
      \/ c3 /\ h = copy(ZR)
      \/ c4 /\ h = copy(l)
      \/ c5 /\ h = copy(l)
      \/ ~c1 /\ ~c2 /\ ~c5 /\ h = general
  BY <1>1 DEF Ordered
<1>3. /\ a \in WordSet /\ b \in WordSet
      /\ IsConst(l) => a = l[2]
      /\ IsConst(r) => b = r[2]
      /\ Operand(After(g, s0), ZR, 32) = 0
  BY SourcesAre
<1>4. /\ IsConst(r) /\ op = "srem" => b \notin {0, 1}
      /\ IsConst(l) /\ ~IsConst(r) => op \notin {"add", "mul", "mull"}
  BY <1>3 DEF Writable, Swapped
<1> HIDE DEF h, copy, general, a, b
<1>5. \A o : o = ZR \/ Source(o) => Leaves(copy(o), g, s0, t, Operand(After(g, s0), o, 32))
  BY CopyDoes DEF copy
<1>6. ASSUME c1 \/ c3
      PROVE  Leaves(copy(ZR), g, s0, t, z)
  <2>1. z = 0
    BY <1>3, <1>4, <1>6, EasyOperands DEF Integral
  <2> QED BY <1>3, <1>5, <2>1
<1>7. ASSUME c4 \/ c5
      PROVE  Leaves(copy(l), g, s0, t, z)
  <2>1. z = a
    BY <1>3, <1>4, <1>7, EasyOperands
  <2> QED BY <1>5, <2>1 DEF a
<1>8. ASSUME c2
      PROVE  Leaves(copy(C(Compute(op, l[2], r[2]))), g, s0, t, z)
  <2>1. Compute(op, l[2], r[2]) = z /\ z \in WordSet
    BY <1>3, <1>8, ComputedIsWord
  <2> HIDE DEF z
  <2>2. Operand(After(g, s0), C(z), 32) = z
    BY <2>1, OperandIs64, WrapOfWord DEF AtWidth
  <2>3. Source(C(z))
    BY <2>1 DEF Source
  <2> QED BY <1>5, <2>1, <2>2, <2>3
<1>9. ASSUME ~c1, ~c2, ~c5
      PROVE  Leaves(general, g, s0, t, z)
  <2>1. IsConst(r) => Writable(op, r[2]) /\ (op = "mull" => r[2] \notin {0, 1})
    BY <1>9
  <2>2. ~(IsConst(l) /\ IsConst(r))
    BY <1>9
  <2> HIDE DEF c1, c2, c5
  <2> QED BY <2>1, <2>2, MathGeneralDoes DEF general, a, b
<1> QED BY <1>2, <1>6, <1>7, <1>8, <1>9 DEF h, a, b

(* mathInst(): whatever the operands, the instructions leave in t what the   *)
(* operation computes from them, the scratch registers are free again, and   *)
(* no other register, no memory and no assertion is touched.                 *)
THEOREM MathInstComputes ==
  ASSUME NEW g, Writer(g), g.busy = {}, NEW s0, IsMachine(After(g, s0)),
         NEW op \in Integral, NEW t \in Registers, t # ZR,
         NEW l, Source(l), NEW r, Source(r),
         LET n == IF Swapped(op, l, r) THEN l ELSE r
         IN  IsConst(n) => Writable(op, n[2])
  PROVE  LET h == MathInst(g, op, t, l, r, 32)
         IN  /\ Effect(g, h, s0, Scratch \cup {t}) /\ h.busy = {}
             /\ Operand(After(h, s0), t, 32) =
                  Compute(op, Operand(After(g, s0), l, 32), Operand(After(g, s0), r, 32))
<1> DEFINE h == MathInst(g, op, t, l, r, 32)
           a == Operand(After(g, s0), l, 32)
           b == Operand(After(g, s0), r, 32)
<1>0. a \in WordSet /\ b \in WordSet
  BY SourcesAre
<1>1. CASE Swapped(op, l, r)
  <2>1. h = Ordered(g, op, t, r, l, 32) /\ ~Swapped(op, r, l)
    BY <1>1 DEF MathInst, Swapped
  <2>2. Leaves(Ordered(g, op, t, r, l, 32), g, s0, t, Compute(op, b, a))
    BY <1>1, <2>1, OrderedDoes
  <2>3. Compute(op, b, a) = Compute(op, a, b)
    <3> HIDE DEF a, b
    <3>1. a + b = b + a /\ a * b = b * a
      BY <1>0, WordsAre
    <3> QED BY <1>1, <3>1, Computes DEF Swapped
  <2> HIDE DEF h, a, b
  <2> QED BY <2>1, <2>2, <2>3 DEF Leaves, h, a, b
<1>2. CASE ~Swapped(op, l, r)
  <2>1. h = Ordered(g, op, t, l, r, 32)
    BY <1>2 DEF MathInst
  <2>2. Leaves(Ordered(g, op, t, l, r, 32), g, s0, t, Compute(op, a, b))
    BY <1>2, <2>1, OrderedDoes
  <2> HIDE DEF h, a, b
  <2> QED BY <2>1, <2>2 DEF Leaves, h, a, b
<1> QED BY <1>1, <1>2

-----------------------------------------------------------------------------
(* Memory: from s to e, only the registers T and the words A have changed.   *)
OnlyThese(s, e, T, A) ==
  /\ IsMachine(e)
  /\ DOMAIN e = DOMAIN s /\ \A k \in DOMAIN s \ {"r", "mem"} : e[k] = s[k]
  /\ \A q : q \notin T => Content(e, q) = Content(s, q)
  /\ \A p : p \notin A => ReadMem(e, p) = ReadMem(s, p)
Changes(g, h, s0, T, A) ==
  /\ Writer(h)
  /\ h.x = g.x /\ h.f = g.f /\ h.callee = g.callee
  /\ OnlyThese(After(g, s0), After(h, s0), T, A)

LEMMA OnlyTheseRegisters ==
  ASSUME NEW s, IsMachine(s), NEW e, NEW T, NEW A, OnlyRegisters(s, e, T)
  PROVE  OnlyThese(s, e, T, A)
<1>1. e.mem = s.mem
  BY DEF OnlyRegisters, IsMachine
<1> QED BY <1>1 DEF OnlyRegisters, OnlyThese, ReadMem

LEMMA EffectChanges ==
  ASSUME NEW g, NEW h, NEW s0, IsMachine(After(g, s0)), NEW T, Effect(g, h, s0, T), NEW A
  PROVE  Changes(g, h, s0, T, A)
BY OnlyTheseRegisters DEF Effect, Changes

LEMMA TheseTogether ==
  ASSUME NEW s, NEW e, NEW f, NEW T, NEW A, NEW U, NEW B, NEW V, NEW D, IsMachine(s),
         OnlyThese(s, e, T, A), OnlyThese(e, f, U, B), T \cup U \subseteq V, A \cup B \subseteq D
  PROVE  OnlyThese(s, f, V, D)
<1>1. DOMAIN f = DOMAIN s /\ \A k \in DOMAIN s \ {"r", "mem"} : f[k] = s[k]
  BY DEF OnlyThese
<1> QED BY <1>1 DEF OnlyThese

LEMMA ChangesTogether ==
  ASSUME NEW g, NEW h, NEW i, NEW s0, NEW T, NEW A, NEW U, NEW B, NEW V, NEW D, IsMachine(After(g, s0)),
         Changes(g, h, s0, T, A), Changes(h, i, s0, U, B), T \cup U \subseteq V, A \cup B \subseteq D
  PROVE  Changes(g, i, s0, V, D) /\ IsMachine(After(h, s0)) /\ IsMachine(After(i, s0)) /\ Writer(i)
<1>1. OnlyThese(After(g, s0), After(i, s0), V, D)
  BY TheseTogether DEF Changes
<1> QED BY <1>1 DEF Changes, OnlyThese

LEMMA StoreSets ==
  ASSUME NEW s, IsMachine(s), NEW p \in Int, NEW x \in Int
  PROVE  LET e == StoreAt(s, p, x, 64)
         IN  OnlyThese(s, e, {}, {p, p + 4}) /\ ContentAt(e, p, 64) = x
<1> DEFINE low == Unsigned(x)
           high == (x - Unsigned(x)) \div Modulus
           f == Update(s.mem, p, low)
           m == Update(f, p + 4, high)
           e == StoreAt(s, p, x, 64)
<1>1. e = [s EXCEPT !.mem = m]
  BY DEF StoreAt
<1>2. /\ low \in Int /\ high \in Int /\ low + Modulus * high = x
  <2>1. Modulus \in Nat \ {0}
    BY GarbageIs
  <2>2. x \div Modulus \in Int /\ x % Modulus \in 0..(Modulus - 1) /\ x = Modulus * (x \div Modulus) + (x % Modulus)
    BY <2>1, Division
  <2>3. low \in 0..(Modulus - 1) /\ low \in Int /\ x = Modulus * (x \div Modulus) + low
    BY <2>2 DEF Unsigned
  <2> DEFINE k == x \div Modulus
  <2>4. high = k
    <3>1. x - Unsigned(x) = Modulus * k + 0 /\ k \in Int
      BY <2>1, <2>2, <2>3
    <3>2. 0 \in 0..(Modulus - 1)
      BY <2>1
    <3>3. x - Unsigned(x) \in Int
      BY <2>3
    <3> HIDE DEF k
    <3> QED BY <2>1, <3>1, <3>2, <3>3, DivisionIsUnique
  <2>5. k \in Int /\ x = Modulus * k + low
    BY <2>2, <2>3
  <2> HIDE DEF low, high, k
  <2>6. Modulus * k + low = low + Modulus * k
    BY <2>1, <2>3, <2>5
  <2> QED BY <2>3, <2>4, <2>5, <2>6
<1> HIDE DEF low, high
<1>3. /\ DOMAIN m = DOMAIN s.mem \cup {p, p + 4} /\ m[p] = low /\ m[p + 4] = high
      /\ \A q \in DOMAIN s.mem : q \notin {p, p + 4} => m[q] = s.mem[q]
  <2>1. p # p + 4
    OBVIOUS
  <2>2. /\ DOMAIN f = DOMAIN s.mem \cup {p} /\ f[p] = low
        /\ \A q \in DOMAIN s.mem : q # p => f[q] = s.mem[q]
    BY DEF Update
  <2> HIDE DEF f
  <2>3. /\ DOMAIN m = DOMAIN f \cup {p + 4} /\ m[p + 4] = high
        /\ \A q \in DOMAIN f : q # p + 4 => m[q] = f[q]
    BY DEF Update
  <2> HIDE DEF m
  <2> QED BY <2>1, <2>2, <2>3
<1> HIDE DEF m, e
<1>4. DOMAIN e = DOMAIN s /\ e.mem = m /\ e.r = s.r /\ \A k \in DOMAIN s \ {"r", "mem"} : e[k] = s[k]
  BY <1>1 DEF IsMachine
<1>5. IsMachine(e)
  BY <1>2, <1>3, <1>4 DEF IsMachine
<1>6. \A q : Content(e, q) = Content(s, q)
  BY <1>4 DEF Content
<1>7. \A q : q \notin {p, p + 4} => ReadMem(e, q) = ReadMem(s, q)
  BY <1>3, <1>4 DEF ReadMem
<1>8. ReadMem(e, p) = low /\ ReadMem(e, p + 4) = high
  BY <1>3, <1>4 DEF ReadMem
<1>9. ContentAt(e, p, 64) = x
  BY <1>2, <1>8 DEF ContentAt
<1> QED BY <1>4, <1>5, <1>6, <1>7, <1>9 DEF OnlyThese, e

LEMMA StoreWord ==
  ASSUME NEW s, IsMachine(s), NEW p \in Int, NEW x \in Int
  PROVE  LET e == StoreAt(s, p, x, 32)
         IN  OnlyThese(s, e, {}, {p}) /\ ContentAt(e, p, 32) = Unsigned(x)
<1> DEFINE m == Update(s.mem, p, Unsigned(x))
           e == StoreAt(s, p, x, 32)
<1>1. e = [s EXCEPT !.mem = m]
  BY DEF StoreAt
<1>2. Unsigned(x) \in Int /\ Unsigned(Unsigned(x)) = Unsigned(x)
  <2>1. Unsigned(x) \in 0..(Modulus - 1) /\ Modulus \in Nat \ {0}
    BY WrapOfUnsigned, GarbageIs
  <2> DEFINE y == Unsigned(x)
  <2> HIDE DEF y
  <2>2. y \in 0..(Modulus - 1) => y \in Int /\ y % Modulus = y
    BY <2>1
  <2> QED BY <2>1, <2>2 DEF y, Unsigned
<1>3. /\ DOMAIN m = DOMAIN s.mem \cup {p} /\ m[p] = Unsigned(x)
      /\ \A q \in DOMAIN s.mem : q # p => m[q] = s.mem[q]
  BY DEF Update
<1> HIDE DEF m, e
<1>4. DOMAIN e = DOMAIN s /\ e.mem = m /\ e.r = s.r /\ \A k \in DOMAIN s \ {"r", "mem"} : e[k] = s[k]
  BY <1>1 DEF IsMachine
<1>5. IsMachine(e)
  BY <1>2, <1>3, <1>4 DEF IsMachine
<1>6. \A q : Content(e, q) = Content(s, q)
  BY <1>4 DEF Content
<1>7. \A q : q \notin {p} => ReadMem(e, q) = ReadMem(s, q)
  BY <1>3, <1>4 DEF ReadMem
<1>8. ContentAt(e, p, 32) = Unsigned(x)
  BY <1>2, <1>3, <1>4 DEF ReadMem, ContentAt
<1> QED BY <1>4, <1>5, <1>6, <1>7, <1>8 DEF OnlyThese, e

(* What a store of w bits leaves of x, and the words at p that it fills.     *)
Fits(x, w) == IF w = 32 THEN Unsigned(x) ELSE x
Filled(p, w) == IF w = 32 THEN {p} ELSE {p, p + 4}
Bytes(w) == IF w = 32 THEN 4 ELSE 8

LEMMA Stores ==
  ASSUME NEW s, IsMachine(s), NEW p \in Int, NEW x \in Int, NEW w \in Widths
  PROVE  LET e == StoreAt(s, p, x, w)
         IN  OnlyThese(s, e, {}, Filled(p, w)) /\ ContentAt(e, p, w) = Fits(x, w)
<1>1. CASE w = 32
  BY <1>1, StoreWord DEF Fits, Filled
<1>2. CASE w = 64
  BY <1>2, StoreSets DEF Fits, Filled
<1> QED BY <1>1, <1>2 DEF Widths

(* Loads and stores at an address relative to a register.                    *)
LEMMA IssueStore ==
  ASSUME NEW s, NEW r, NEW base, NEW n, NEW w
  PROVE  Issue(MSTR(r, <<"m", base, n>>, w), s) = StoreAt(s, Content(s, base) + n, Operand(s, r, w), w)
<1>1. \A d : AddressOf(s, d, <<"m", base, n>>) = Content(s, base) + n
  BY DEF AddressOf
<1> QED BY <1>1 DEF Issue, MSTR, MInst

LEMMA IssueStoreScaled ==
  ASSUME NEW s, NEW r, NEW base, NEW q, NEW k, NEW w
  PROVE  Issue(MSTR(r, <<"m", base, q, k>>, w), s) =
           StoreAt(s, Content(s, base) + Content(s, q) * k, Operand(s, r, w), w)
<1>1. \A d : AddressOf(s, d, <<"m", base, q, k>>) = Content(s, base) + Content(s, q) * k
  BY DEF AddressOf
<1> QED BY <1>1 DEF Issue, MSTR, MInst

LEMMA IssueLoad ==
  ASSUME NEW s, NEW r, NEW base, NEW n, NEW w
  PROVE  Issue(MLDR(r, <<"m", base, n>>, w), s) = SetTo(s, r, ContentAt(s, Content(s, base) + n, w), 64)
<1>1. \A d : AddressOf(s, d, <<"m", base, n>>) = Content(s, base) + n
  BY DEF AddressOf
<1> QED BY <1>1 DEF Issue, MLDR, MInst

LEMMA IssueLoadScaled ==
  ASSUME NEW s, NEW r, NEW base, NEW q, NEW k, NEW w
  PROVE  Issue(MLDR(r, <<"m", base, q, k>>, w), s) =
           SetTo(s, r, ContentAt(s, Content(s, base) + Content(s, q) * k, w), 64)
<1>1. \A d : AddressOf(s, d, <<"m", base, q, k>>) = Content(s, base) + Content(s, q) * k
  BY DEF AddressOf
<1> QED BY <1>1 DEF Issue, MLDR, MInst

(* Two registers at p and behind it.                                         *)
StoresPair(e, s, p, a, b) == e = StoreAt(StoreAt(s, p, Content(s, a), 64), p + 8, Content(s, b), 64)
LoadsPair(e, s, p, a, b) ==
  e = SetTo(SetTo(s, a, ContentAt(s, p, 64), 64), b, ContentAt(s, p + 8, 64), 64)

LEMMA IssueStp ==
  ASSUME NEW s, NEW a \in Registers, NEW b \in Registers, NEW base, NEW n,
         NEW p, p = Content(s, base) + n
  PROVE  StoresPair(Issue(MInst("stp", <<>>, <<a, b, <<"m", base, n>>>>, 64), s), s, p, a, b)
<1> DEFINE i == MInst("stp", <<>>, <<a, b, <<"m", base, n>>>>, 64)
<1>1. Operand(s, a, 64) = Content(s, a) /\ Operand(s, b, 64) = Content(s, b)
  BY OperandIs64 DEF AtWidth
<1>2. AddressOf(s, 0, <<"m", base, n>>) = p
  BY DEF AddressOf
<1>3. i.op = "stp" /\ i.w = 64 /\ i.u[1] = a /\ i.u[2] = b /\ i.u[3] = <<"m", base, n>>
  BY DEF MInst
<1> HIDE DEF i
<1>4. Issue(i, s) = StoreAt(StoreAt(s, p, Content(s, a), 64), p + 8, Content(s, b), 64)
  BY <1>1, <1>2, <1>3 DEF Issue
<1> QED BY <1>4 DEF i, StoresPair

LEMMA IssueLdp ==
  ASSUME NEW s, NEW a \in Registers, NEW b \in Registers, NEW base, NEW n,
         NEW p, p = Content(s, base) + n
  PROVE  LoadsPair(Issue(MInst("ldp", <<a, b>>, <<<<"m", base, n>>>>, 64), s), s, p, a, b)
<1> DEFINE i == MInst("ldp", <<a, b>>, <<<<"m", base, n>>>>, 64)
<1>2. AddressOf(s, 0, <<"m", base, n>>) = p
  BY DEF AddressOf
<1>3. i.op = "ldp" /\ i.w = 64 /\ i.d[1] = a /\ i.d[2] = b /\ i.u[1] = <<"m", base, n>>
  BY DEF MInst
<1> HIDE DEF i
<1>4. Issue(i, s) = SetTo(SetTo(s, a, ContentAt(s, p, 64), 64), b, ContentAt(s, p + 8, 64), 64)
  BY <1>2, <1>3 DEF Issue
<1> QED BY <1>4 DEF i, LoadsPair

LEMMA Doubles ==
  ASSUME NEW s, IsMachine(s)
  PROVE  /\ \A p : ContentAt(s, p, 64) \in Int
         /\ \A e, T, A, p : OnlyThese(s, e, T, A) /\ p \notin A /\ p + 4 \notin A
                              => ContentAt(e, p, 64) = ContentAt(s, p, 64)
<1>1. \A p : ReadMem(s, p) \in Int
  BY ContentIs
<1>2. Modulus \in Int
  BY GarbageIs
<1>3. \A x, y \in Int : x + Modulus * y \in Int
  BY <1>2
<1> QED BY <1>1, <1>3 DEF ContentAt, OnlyThese

LEMMA WhatIsThere ==
  ASSUME NEW s, IsMachine(s), NEW w \in Widths
  PROVE  /\ \A p : ContentAt(s, p, w) \in Int
         /\ \A e, T, A, p : OnlyThese(s, e, T, A) /\ Filled(p, w) \cap A = {}
                              => ContentAt(e, p, w) = ContentAt(s, p, w)
<1>1. CASE w = 32
  <2>1. \A p : Unsigned(ReadMem(s, p)) \in Int
    BY ContentIs, WrapOfUnsigned
  <2>2. ASSUME NEW e, NEW T, NEW A, NEW p, OnlyThese(s, e, T, A), Filled(p, w) \cap A = {}
        PROVE  ReadMem(e, p) = ReadMem(s, p)
    <3>1. p \notin A
      BY <1>1, <2>2 DEF Filled
    <3> QED BY <2>2, <3>1 DEF OnlyThese
  <2> QED BY <1>1, <2>1, <2>2 DEF ContentAt
<1>2. CASE w = 64
  <2>1. ASSUME NEW e, NEW T, NEW A, NEW p, OnlyThese(s, e, T, A), Filled(p, w) \cap A = {}
        PROVE  ContentAt(e, p, 64) = ContentAt(s, p, 64)
    <3>1. p \notin A /\ p + 4 \notin A
      BY <1>2, <2>1 DEF Filled
    <3> QED BY <2>1, <3>1, Doubles
  <2> QED BY <1>2, <2>1, Doubles
<1> QED BY <1>1, <1>2 DEF Widths

(* One register r stored at or loaded from p.                                *)
Transfers(g, h, s0, r, p, w, load, T) ==
  /\ h.busy = g.busy
  /\ Changes(g, h, s0, T \cup (IF load THEN {r} ELSE {}), IF load THEN {} ELSE Filled(p, w))
  /\ IF load THEN Content(After(h, s0), r) = ContentAt(After(g, s0), p, w)
     ELSE ContentAt(After(h, s0), p, w) = Fits(Operand(After(g, s0), r, w), w)
Accesses(e, s, r, p, w, load) ==
  e = IF load THEN SetTo(s, r, ContentAt(s, p, w), 64) ELSE StoreAt(s, p, Operand(s, r, w), w)

LEMMA AccessDoes ==
  ASSUME NEW g, Writer(g), NEW s0, IsMachine(After(g, s0)), NEW r \in Registers,
         NEW p \in Int, NEW w \in Widths, NEW load \in BOOLEAN, load => r # ZR, NEW i,
         Accesses(Issue(i, After(g, s0)), After(g, s0), r, p, w, load)
  PROVE  Transfers(g, Put(g, i), s0, r, p, w, load, {})
<1> DEFINE h == Put(g, i)
           s == After(g, s0)
           e == After(h, s0)
           v == ContentAt(s, p, w)
           x == Operand(s, r, w)
<1>1. /\ Writer(h) /\ h.x = g.x /\ h.f = g.f /\ h.callee = g.callee /\ h.busy = g.busy
      /\ e = Issue(i, s)
  BY PutDoes
<1>2. v \in Int /\ x \in Int
  BY WhatIsThere, OperandsAre
<1>3. 64 \in Widths /\ 64 # 32
  BY DEF Widths
<1> HIDE DEF h, e, v, x, s
<1>4. CASE load
  <2>1. e = SetTo(s, r, v, 64)
    BY <1>1, <1>4 DEF Accesses, s, v
  <2>2. OnlyRegisters(s, e, {r}) /\ Content(e, r) = v
    BY <1>2, <1>3, <1>4, <2>1, SetToSets DEF s
  <2>3. OnlyThese(s, e, {r}, {})
    BY <2>2, OnlyTheseRegisters DEF s
  <2>4. Changes(g, h, s0, {} \cup {r}, {})
    <3>1. {} \cup {r} = {r}
      OBVIOUS
    <3> QED BY <1>1, <2>3, <3>1 DEF Changes, s, e
  <2> QED BY <1>1, <1>4, <2>2, <2>4 DEF Transfers, h, e, s, v
<1>5. CASE ~load
  <2>1. e = StoreAt(s, p, x, w)
    BY <1>1, <1>5 DEF Accesses, s, x
  <2>2. OnlyThese(s, e, {}, Filled(p, w)) /\ ContentAt(e, p, w) = Fits(x, w)
    BY <1>2, <2>1, Stores DEF s
  <2>4. Changes(g, h, s0, {} \cup {}, Filled(p, w))
    <3>1. {} \cup {} = {}
      OBVIOUS
    <3> QED BY <1>1, <2>2, <3>1 DEF Changes, s, e
  <2> QED BY <1>1, <1>5, <2>2, <2>4 DEF Transfers, h, e, s, x
<1> QED BY <1>4, <1>5

LEMMA ByteCount ==
  ASSUME NEW w \in Widths
  PROVE  w \div 8 = Bytes(w) /\ Bytes(w) \in {4, 8}
BY DEF Widths, Bytes

LEMMA Multiples ==
  ASSUME NEW n \in Int, NEW k \in {4, 8}, n % k = 0
  PROVE  n \div k \in Int /\ (n \div k) * k = n
<1>1. CASE k = 4
  BY <1>1
<1>2. CASE k = 8
  BY <1>2
<1> QED BY <1>1, <1>2

LEMMA FarDoes ==
  ASSUME NEW g, Writer(g), NEW s0, IsMachine(After(g, s0)), g.busy # Scratch,
         NEW r \in Registers, r \notin Scratch \ g.busy,
         NEW base \in Registers, base \notin Scratch \ g.busy,
         NEW w \in Widths, NEW load \in BOOLEAN, load => r # ZR,
         NEW offset \in Int, offset % Bytes(w) = 0
  PROVE  Transfers(g, Far(GetIP(g), r, base, offset, w, load), s0, r,
                   Content(After(g, s0), base) + offset, w, load, Scratch)
<1> DEFINE ip == GetIP(g)
           g1 == ip.g
           q == ip.reg
           b == Bytes(w)
           n == offset \div b
           h1 == MakeImmediate(g1, n, q, 64)
           i == Access(r, <<"m", base, q, b>>, w, load)
           h2 == Put(h1, i)
           h3 == ReleaseIP(h2, q)
           s == After(g, s0)
           e == After(h1, s0)
           p == Content(s, base) + offset
<1>1. Far(ip, r, base, offset, w, load) = h3
  BY ByteCount DEF Far
<1>2. /\ Effect(g, g1, s0, {}) /\ After(g1, s0) = s
      /\ Writer(g1) /\ IsMachine(After(g1, s0))
      /\ q \in Scratch \ g.busy /\ q \in Registers /\ q # ZR
      /\ g1.busy = g.busy \cup {q} /\ g1.busy \ {q} = g.busy
  BY TakeScratch
<1>0. n \in Int /\ n * b = offset
  BY ByteCount, Multiples
<1>3. n \in Int /\ 64 \in Widths /\ 64 # 32
  BY <1>0 DEF Widths
<1>3a. p \in Int /\ Content(s, base) + n * b = p
  BY <1>0, ContentIs
<1> HIDE DEF ip, g1, q, n, b
<1>4. /\ Effect(g1, h1, s0, {q}) /\ h1.busy = g1.busy
      /\ Operand(After(h1, s0), q, 64) = AtWidth(n, 64)
  <2>1. Writer(g1) /\ IsMachine(After(g1, s0)) /\ q \in Registers /\ q # ZR
    BY <1>2
  <2>2. n \in Int /\ 64 \in Widths
    BY <1>3
  <2> HIDE DEF h2, h3, i, s, e, p
  <2> QED BY <2>1, <2>2, MakeImmediateDoes
<1> HIDE DEF h1
<1>5. Effect(g, h1, s0, {q}) /\ IsMachine(e) /\ Writer(h1)
  <2>1. {} \cup {q} \subseteq {q}
    OBVIOUS
  <2> QED BY <1>2, <1>4, <2>1, EffectTogether DEF Effect
<1>6. Content(e, q) = n /\ Content(e, base) = Content(s, base) /\ Operand(e, r, w) = Operand(s, r, w)
  <2>1. OnlyRegisters(s, e, {q}) /\ base # q /\ r \notin {q}
    BY <1>2, <1>5 DEF Effect
  <2>2. Content(e, q) = n
    <3>1. Operand(e, q, 64) = AtWidth(Content(e, q), 64) /\ Operand(e, q, 64) = AtWidth(n, 64)
      BY <1>2, <1>4, OperandIs64
    <3> HIDE DEF e
    <3>2. \A x : AtWidth(x, 64) = x
      BY <1>3 DEF AtWidth
    <3> QED BY <3>1, <3>2
  <2>3. Operand(e, r, w) = Operand(s, r, w)
    BY <2>1, OperandsStay
  <2> QED BY <2>1, <2>2, <2>3 DEF OnlyRegisters
<1>7. OnlyRegisters(s, e, {q}) /\ ContentAt(e, p, w) = ContentAt(s, p, w)
  <2>1. OnlyRegisters(s, e, {q})
    BY <1>5 DEF Effect
  <2>2. OnlyThese(s, e, {q}, {})
    BY <2>1, OnlyTheseRegisters
  <2>3. Filled(p, w) \cap {} = {}
    OBVIOUS
  <2> QED BY <2>2, <2>1, <2>3, WhatIsThere
<1> HIDE DEF s, e
<1>8. Accesses(Issue(i, e), e, r, p, w, load)
  <2>1. Content(e, base) + Content(e, q) * b = p
    BY <1>3a, <1>6
  <2>2. CASE load
    BY <2>1, <2>2, IssueLoadScaled DEF Access, Accesses
  <2>3. CASE ~load
    BY <2>1, <2>3, IssueStoreScaled DEF Access, Accesses
  <2> QED BY <2>2, <2>3
<1> HIDE DEF i, p
<1>9. Transfers(h1, h2, s0, r, p, w, load, {})
  BY <1>3a, <1>5, <1>8, AccessDoes DEF e
<1> HIDE DEF h2
<1> DEFINE T == Scratch \cup (IF load THEN {r} ELSE {})
           A == IF load THEN {} ELSE Filled(p, w)
<1>10. Changes(g, h2, s0, T, A) /\ IsMachine(After(h2, s0)) /\ Writer(h2)
  <2>1. Changes(g, h1, s0, {q}, {})
    BY <1>5, EffectChanges
  <2>2. Changes(h1, h2, s0, {} \cup (IF load THEN {r} ELSE {}), A)
    BY <1>9 DEF Transfers
  <2>3. {q} \cup ({} \cup (IF load THEN {r} ELSE {})) \subseteq T /\ {} \cup A \subseteq A
    BY <1>2
  <2> HIDE DEF A, T
  <2> QED BY <2>1, <2>2, <2>3, ChangesTogether
<1>11. /\ Effect(h2, h3, s0, {}) /\ After(h3, s0) = After(h2, s0)
       /\ h3.busy = h2.busy \ {q}
  BY <1>10, GiveScratch
<1> HIDE DEF h3
<1>12. Changes(g, h3, s0, T, A)
  <2>1. Changes(h2, h3, s0, {}, {})
    BY <1>10, <1>11, EffectChanges
  <2>2. T \cup {} \subseteq T /\ A \cup {} \subseteq A
    OBVIOUS
  <2> HIDE DEF A, T
  <2> QED BY <1>10, <2>1, <2>2, ChangesTogether
<1>13. h3.busy = g.busy
  BY <1>2, <1>4, <1>9, <1>11 DEF Transfers
<1>14. IF load THEN Content(After(h3, s0), r) = ContentAt(s, p, w)
       ELSE ContentAt(After(h3, s0), p, w) = Fits(Operand(s, r, w), w)
  BY <1>6, <1>7, <1>9, <1>11 DEF Transfers, e
<1>15. Transfers(g, h3, s0, r, p, w, load, Scratch)
  BY <1>12, <1>13, <1>14 DEF Transfers, T, A, s
<1> QED BY <1>1, <1>15 DEF p, s, ip

(* ldr() and str() relative to a register.                                   *)
LEMMA AtDoes ==
  ASSUME NEW g, Writer(g), NEW s0, IsMachine(After(g, s0)),
         NEW r \in Registers, r \notin Scratch \ g.busy,
         NEW base \in Registers, base \notin Scratch \ g.busy,
         NEW w \in Widths, NEW load \in BOOLEAN, load => r # ZR,
         NEW offset \in Int, offset % Bytes(w) = 0, InImm9(offset) \/ g.busy # Scratch
  PROVE  Transfers(g, At(g, r, base, offset, w, load), s0, r,
                   Content(After(g, s0), base) + offset, w, load, Scratch)
<1> DEFINE p == Content(After(g, s0), base) + offset
           h == At(g, r, base, offset, w, load)
           i == Access(r, <<"m", base, offset>>, w, load)
           k == Put(g, i)
<1>1. /\ InImm9(offset) => h = k
      /\ ~InImm9(offset) => h = Far(GetIP(g), r, base, offset, w, load)
  <2>1. Assured(g, offset % (w \div 8) = 0) = g
    BY ByteCount DEF Assured
  <2> QED BY <2>1 DEF At
<1>2. CASE InImm9(offset)
  <2>1. p \in Int
    BY ContentIs
  <2>2. Accesses(Issue(i, After(g, s0)), After(g, s0), r, p, w, load)
    <3>1. CASE load
      BY <3>1, IssueLoad DEF Access, Accesses
    <3>2. CASE ~load
      BY <3>2, IssueStore DEF Access, Accesses
    <3> QED BY <3>1, <3>2
  <2> HIDE DEF i, p, h
  <2>3. Transfers(g, k, s0, r, p, w, load, {})
    BY <2>1, <2>2, AccessDoes
  <2>4. h = k
    BY <1>1, <1>2
  <2> HIDE DEF k
  <2> DEFINE T == {} \cup (IF load THEN {r} ELSE {})
             U == Scratch \cup (IF load THEN {r} ELSE {})
             A == IF load THEN {} ELSE Filled(p, w)
  <2>5. Changes(g, k, s0, U, A)
    <3>1. Changes(g, k, s0, T, A)
      BY <2>3 DEF Transfers
    <3>2. T \subseteq U
      OBVIOUS
    <3> HIDE DEF T, U, A
    <3> QED BY <3>1, <3>2 DEF Changes, OnlyThese
  <2>6. Transfers(g, k, s0, r, p, w, load, Scratch)
    BY <2>3, <2>5 DEF Transfers, U, A
  <2> QED BY <2>4, <2>6 DEF h, p
<1>3. CASE ~InImm9(offset)
  <2> HIDE DEF h
  <2>1. h = Far(GetIP(g), r, base, offset, w, load)
    BY <1>1, <1>3
  <2>2. Transfers(g, Far(GetIP(g), r, base, offset, w, load), s0, r, p, w, load, Scratch)
    BY <1>3, FarDoes
  <2> QED BY <2>1, <2>2 DEF h
<1> QED BY <1>2, <1>3

-----------------------------------------------------------------------------
(* A row of saved registers, each with a place of 8 bytes for it, seen from  *)
(* SP when SP is still to move by less.                                      *)
SavesIn(S, less) ==
  /\ Len(S) \in Nat /\ less \in Int
  /\ \A k \in 1..Len(S) : /\ S[k].reg \in Registers \ (Scratch \cup {ZR, SP})
                          /\ S[k].at \in Int /\ (S[k].at - less) % 8 = 0
  /\ \A j, k \in 1..Len(S) : j < k => S[j].reg # S[k].reg /\ S[j].at + 8 <= S[k].at
  /\ \A k \in 1..(Len(S) - 1) : S[k + 1].at = S[k].at + 8 /\ InImm7L3(S[k].at - less)
Place(s, S, less, k) == Content(s, SP) + (S[k].at - less)
Words(s, S, less, K) == {Place(s, S, less, k) : k \in K} \cup {Place(s, S, less, k) + 4 : k \in K}

(* From g to h the registers K of the row have been saved, or restored, and  *)
(* the words of K, or registers of K, are all that has changed.              *)
Moves(g, h, s0, S, less, load, K) ==
  /\ Changes(g, h, s0, Scratch \cup {S[k].reg : k \in IF load THEN K ELSE {}},
             IF load THEN {} ELSE Words(After(g, s0), S, less, K))
  /\ h.busy = g.busy
  /\ \A k \in K :
       IF load
       THEN Content(After(h, s0), S[k].reg) = ContentAt(After(g, s0), Place(After(g, s0), S, less, k), 64)
       ELSE ContentAt(After(h, s0), Place(After(g, s0), S, less, k), 64) = Content(After(g, s0), S[k].reg)

LEMMA PlacesApart ==
  ASSUME NEW S, NEW less, SavesIn(S, less), NEW s, IsMachine(s),
         NEW J \in SUBSET (1..Len(S)), NEW k \in (1..Len(S)) \ J
  PROVE  LET p == Place(s, S, less, k)
         IN  p \in Int /\ p \notin Words(s, S, less, J) /\ p + 4 \notin Words(s, S, less, J)
<1> DEFINE p == Place(s, S, less, k)
<1>1. ASSUME NEW j \in J
      PROVE  LET q == Place(s, S, less, j)
             IN  p \in Int /\ q \in Int /\ (p + 8 <= q \/ q + 8 <= p)
  <2>1. Content(s, SP) \in Int /\ less \in Int /\ S[j].at \in Int /\ S[k].at \in Int
    BY ContentIs DEF SavesIn
  <2>2. S[k].at + 8 <= S[j].at \/ S[j].at + 8 <= S[k].at
    <3>1. j < k \/ k < j
      OBVIOUS
    <3> QED BY <3>1 DEF SavesIn
  <2> DEFINE b == Content(s, SP)
             x == S[k].at
             y == S[j].at
             q == Place(s, S, less, j)
  <2>3. p = b + (x - less) /\ q = b + (y - less)
    BY DEF Place
  <2> HIDE DEF p, q, b, x, y
  <2>4. b \in Int /\ less \in Int /\ x \in Int /\ y \in Int /\ (x + 8 <= y \/ y + 8 <= x)
    BY <2>1, <2>2 DEF b, x, y
  <2>5. p \in Int /\ q \in Int /\ (p + 8 <= q \/ q + 8 <= p)
    BY <2>3, <2>4
  <2> QED BY <2>5 DEF q
<1>2. p \in Int
  BY ContentIs DEF SavesIn, Place
<1> HIDE DEF p
<1>3. p \notin Words(s, S, less, J) /\ p + 4 \notin Words(s, S, less, J)
  BY <1>1, <1>2 DEF Words
<1> QED BY <1>2, <1>3 DEF p

LEMMA MovesMore ==
  ASSUME NEW S, NEW less, SavesIn(S, less), NEW g, NEW s0, IsMachine(After(g, s0)),
         NEW load \in BOOLEAN, NEW K \in SUBSET (1..Len(S)), NEW J \in SUBSET (1..Len(S)),
         K \cap J = {}, NEW h, Moves(g, h, s0, S, less, load, K),
         NEW i, Moves(h, i, s0, S, less, load, J)
  PROVE  Moves(g, i, s0, S, less, load, K \cup J)
<1> DEFINE s == After(g, s0)
           e == After(h, s0)
           f == After(i, s0)
           T(L) == Scratch \cup {S[k].reg : k \in IF load THEN L ELSE {}}
           A(L) == IF load THEN {} ELSE Words(s, S, less, L)
<1>1. /\ Changes(g, h, s0, T(K), A(K)) /\ h.busy = g.busy
      /\ IsMachine(e) /\ OnlyThese(s, e, T(K), A(K))
  BY DEF Moves, Changes, OnlyThese
<1>2. \A k \in 1..Len(S) : S[k].reg # SP /\ S[k].reg \notin Scratch
  BY DEF SavesIn
<1>3. Content(e, SP) = Content(s, SP)
  <2>1. SP \notin T(K)
    BY <1>2, ScratchIs
  <2> HIDE DEF T, A
  <2> QED BY <1>1, <2>1 DEF OnlyThese
<1>4. /\ \A k : Place(e, S, less, k) = Place(s, S, less, k)
      /\ Words(e, S, less, J) = Words(s, S, less, J)
  BY <1>3 DEF Place, Words
<1>5. /\ Changes(h, i, s0, T(J), A(J)) /\ i.busy = h.busy
      /\ OnlyThese(e, f, T(J), A(J))
  BY <1>4 DEF Moves, Changes
<1>6. Changes(g, i, s0, T(K \cup J), A(K \cup J))
  <2> DEFINE tk == T(K)
             tj == T(J)
             t == T(K \cup J)
             ak == A(K)
             aj == A(J)
             a == A(K \cup J)
  <2>1. tk \cup tj \subseteq t /\ ak \cup aj \subseteq a
    BY DEF Words
  <2>2. Changes(g, h, s0, tk, ak) /\ Changes(h, i, s0, tj, aj)
    BY <1>1, <1>5
  <2> HIDE DEF tk, tj, t, ak, aj, a
  <2>3. Changes(g, i, s0, t, a)
    BY <2>1, <2>2, ChangesTogether
  <2> QED BY <2>3 DEF t, a
<1>7. ASSUME load, NEW k \in K \cup J
      PROVE  Content(f, S[k].reg) = ContentAt(s, Place(s, S, less, k), 64)
  <2>1. CASE k \in J
    <3>1. Content(f, S[k].reg) = ContentAt(e, Place(s, S, less, k), 64)
      BY <1>4, <1>7, <2>1 DEF Moves
    <3>2. A(K) = {}
      BY <1>7
    <3> HIDE DEF T, A
    <3>3. ContentAt(e, Place(s, S, less, k), 64) = ContentAt(s, Place(s, S, less, k), 64)
      BY <1>1, <3>2, Doubles
    <3> QED BY <3>1, <3>3
  <2>2. CASE k \notin J
    <3>1. Content(e, S[k].reg) = ContentAt(s, Place(s, S, less, k), 64)
      BY <1>7, <2>2 DEF Moves
    <3>2. S[k].reg \notin T(J)
      <4>1. \A j \in J : S[j].reg # S[k].reg
        <5>1. \A j \in J : j < k \/ k < j
          BY <2>2
        <5> QED BY <5>1 DEF SavesIn
      <4> QED BY <1>2, <4>1
    <3> HIDE DEF T, A
    <3> QED BY <1>5, <3>1, <3>2 DEF OnlyThese
  <2> QED BY <2>1, <2>2
<1>8. ASSUME ~load, NEW k \in K \cup J
      PROVE  ContentAt(f, Place(s, S, less, k), 64) = Content(s, S[k].reg)
  <2>1. CASE k \in J
    <3>1. ContentAt(f, Place(s, S, less, k), 64) = Content(e, S[k].reg)
      BY <1>4, <1>8, <2>1 DEF Moves
    <3>2. S[k].reg \notin T(K)
      BY <1>2, <1>8
    <3> HIDE DEF T, A
    <3> QED BY <1>1, <3>1, <3>2 DEF OnlyThese
  <2>2. CASE k \notin J
    <3>1. ContentAt(e, Place(s, S, less, k), 64) = Content(s, S[k].reg)
      BY <1>8, <2>2 DEF Moves
    <3>2. LET p == Place(s, S, less, k)
          IN  p \notin A(J) /\ p + 4 \notin A(J)
      BY <2>2, PlacesApart
    <3> HIDE DEF T, A
    <3> QED BY <1>1, <1>5, <3>1, <3>2, Doubles
  <2> QED BY <2>1, <2>2
<1> HIDE DEF s, e, f
<1>9. i.busy = g.busy
  BY <1>1, <1>5
<1> QED BY <1>6, <1>7, <1>8, <1>9 DEF Moves, T, A, s, e, f

LEMMA OnlyMoreThese ==
  ASSUME NEW s, NEW e, NEW T, NEW A, OnlyThese(s, e, T, A), NEW U, NEW B, T \subseteq U, A \subseteq B
  PROVE  OnlyThese(s, e, U, B)
BY DEF OnlyThese

LEMMA NoneMoves ==
  ASSUME NEW g, Writer(g), NEW s0, IsMachine(After(g, s0)), NEW S, NEW less, NEW load
  PROVE  Moves(g, g, s0, S, less, load, {})
<1>1. \A T, A : OnlyThese(After(g, s0), After(g, s0), T, A)
  BY DEF OnlyThese
<1> QED BY <1>1 DEF Moves, Changes

LEMMA SingleMoves ==
  ASSUME NEW S, NEW less, SavesIn(S, less), NEW g, Writer(g), g.busy = {},
         NEW s0, IsMachine(After(g, s0)), NEW load \in BOOLEAN, Len(S) >= 1
  PROVE  Moves(g, At(g, S[1].reg, SP, S[1].at - less, 64, load), s0, S, less, load, {1})
<1> DEFINE r == S[1].reg
           n == S[1].at - less
           h == At(g, r, SP, n, 64, load)
           s == After(g, s0)
           p == Content(s, SP) + n
           T == Scratch \cup (IF load THEN {r} ELSE {})
           A == IF load THEN {} ELSE {p, p + 4}
           U == Scratch \cup {S[k].reg : k \in IF load THEN {1} ELSE {}}
           B == IF load THEN {} ELSE Words(s, S, less, {1})
<1>1. 1 \in 1..Len(S)
  BY DEF SavesIn
<1>2. /\ r \in Registers /\ r # ZR /\ r \notin Scratch /\ n \in Int /\ n % 8 = 0 /\ g.busy # Scratch
  BY <1>1 DEF SavesIn, Scratch
<1>3. Transfers(g, h, s0, r, p, 64, load, Scratch)
  <2>1. /\ 64 \in Widths /\ n % Bytes(64) = 0 /\ r \notin Scratch \ g.busy
        /\ SP \in Registers /\ SP \notin Scratch \ g.busy
    BY <1>2, ScratchIs DEF Widths, Bytes
  <2> HIDE DEF r, n
  <2> QED BY <1>2, <2>1, AtDoes
<1>3a. Filled(p, 64) = {p, p + 4} /\ Fits(Operand(s, r, 64), 64) = Content(s, r)
  <2>1. Operand(s, r, 64) = AtWidth(Content(s, r), 64)
    BY <1>2, OperandIs64
  <2> HIDE DEF p, r, s
  <2> QED BY <2>1 DEF Filled, Fits, AtWidth
<1>4. Place(s, S, less, 1) = p
  BY DEF Place
<1>5. T \subseteq U /\ A \subseteq B
  BY <1>4 DEF Words
<1> HIDE DEF h, p, s
<1>6. Changes(g, h, s0, T, A)
  BY <1>3, <1>3a DEF Transfers
<1>7. Changes(g, h, s0, U, B)
  <2> HIDE DEF T, A, U, B
  <2> QED BY <1>5, <1>6, OnlyMoreThese DEF Changes
<1>8. /\ h.busy = g.busy
      /\ IF load THEN Content(After(h, s0), r) = ContentAt(s, p, 64)
         ELSE ContentAt(After(h, s0), p, 64) = Content(s, r)
  BY <1>3, <1>3a DEF Transfers, s
<1>9. Moves(g, h, s0, S, less, load, {1})
  BY <1>4, <1>7, <1>8 DEF Moves, s
<1> QED BY <1>9 DEF h

MovesPair(s, e, a, b, p, load) ==
  /\ OnlyThese(s, e, IF load THEN {a, b} ELSE {}, IF load THEN {} ELSE {p, p + 4, p + 8, p + 8 + 4})
  /\ IF load THEN Content(e, a) = ContentAt(s, p, 64) /\ Content(e, b) = ContentAt(s, p + 8, 64)
     ELSE ContentAt(e, p, 64) = Content(s, a) /\ ContentAt(e, p + 8, 64) = Content(s, b)

LEMMA PairSets ==
  ASSUME NEW s, IsMachine(s), NEW a \in Registers \ {ZR}, NEW b \in Registers \ {ZR}, a # b,
         NEW p \in Int, NEW load \in BOOLEAN, NEW e,
         IF load THEN LoadsPair(e, s, p, a, b) ELSE StoresPair(e, s, p, a, b)
  PROVE  MovesPair(s, e, a, b, p, load)
<1> DEFINE x == Content(s, a)
           y == Content(s, b)
           v == ContentAt(s, p, 64)
           w == ContentAt(s, p + 8, 64)
           q == p + 8
<1>1. /\ x \in Int /\ y \in Int /\ v \in Int /\ w \in Int /\ q \in Int
      /\ 64 \in Widths /\ 64 # 32 /\ a # ZR /\ b # ZR
  BY Doubles, ContentIs DEF Widths
<1>2. CASE load
  <2> DEFINE d == SetTo(s, a, v, 64)
  <2>1. e = SetTo(d, b, w, 64)
    BY <1>2 DEF LoadsPair
  <2> HIDE DEF x, y, v, w
  <2>2. OnlyRegisters(s, d, {a}) /\ Content(d, a) = v
    BY <1>1, SetToSets
  <2> HIDE DEF d
  <2>2a. IsMachine(d)
    BY <2>2 DEF OnlyRegisters
  <2>3. OnlyRegisters(d, e, {b}) /\ Content(e, b) = w
    BY <1>1, <2>1, <2>2a, SetToSets
  <2>4. Content(e, a) = v
    BY <2>2, <2>3 DEF OnlyRegisters
  <2>5. OnlyThese(s, e, {a, b}, {})
    <3>1. OnlyRegisters(s, e, {a} \cup {b}) /\ {a} \cup {b} = {a, b}
      BY <2>2, <2>3, OnlyTogether
    <3> QED BY <3>1, OnlyTheseRegisters
  <2> QED BY <1>2, <2>3, <2>4, <2>5 DEF v, w, MovesPair
<1>3. CASE ~load
  <2> DEFINE d == StoreAt(s, p, x, 64)
             A == {p, p + 4}
             B == {q, q + 4}
  <2>1. e = StoreAt(d, q, y, 64)
    BY <1>3 DEF StoresPair
  <2>1a. p \notin B /\ p + 4 \notin B
    OBVIOUS
  <2> HIDE DEF x, y, v, w, q
  <2>2. OnlyThese(s, d, {}, A) /\ ContentAt(d, p, 64) = x /\ IsMachine(d)
    BY <1>1, StoreSets DEF OnlyThese
  <2> HIDE DEF d, A
  <2>3. OnlyThese(d, e, {}, B) /\ ContentAt(e, q, 64) = y
    BY <1>1, <2>1, <2>2, StoreSets
  <2>4. ContentAt(e, p, 64) = x
    <3> HIDE DEF B
    <3> QED BY <2>1a, <2>2, <2>3, Doubles
  <2>5. OnlyThese(s, e, {}, {p, p + 4, q, q + 4})
    <3>1. {} \cup {} \subseteq {} /\ A \cup B \subseteq {p, p + 4, q, q + 4}
      BY DEF A
    <3> HIDE DEF B
    <3> QED BY <2>2, <2>3, <3>1, TheseTogether
  <2> QED BY <1>3, <2>3, <2>4, <2>5 DEF x, y, q, MovesPair
<1> QED BY <1>2, <1>3

LEMMA PairMoves ==
  ASSUME NEW S, NEW less, SavesIn(S, less), NEW g, Writer(g),
         NEW s0, IsMachine(After(g, s0)), NEW load \in BOOLEAN, NEW k \in 1..(Len(S) - 1)
  PROVE  Moves(g, Pair(g, S, k, less, load), s0, S, less, load, {k, k + 1})
<1> DEFINE a == S[k].reg
           b == S[k + 1].reg
           n == S[k].at - less
           i == IF load THEN MInst("ldp", <<a, b>>, <<<<"m", SP, n>>>>, 64)
                ELSE MInst("stp", <<>>, <<a, b, <<"m", SP, n>>>>, 64)
           h == Put(g, i)
           s == After(g, s0)
           e == After(h, s0)
           p == Content(s, SP) + n
           T == IF load THEN {a, b} ELSE {}
           A == IF load THEN {} ELSE {p, p + 4, p + 8, p + 8 + 4}
           U == Scratch \cup {S[j].reg : j \in IF load THEN {k, k + 1} ELSE {}}
           B == IF load THEN {} ELSE Words(s, S, less, {k, k + 1})
<1>1. k \in 1..Len(S) /\ k + 1 \in 1..Len(S) /\ k < k + 1 /\ Len(S) \in Nat
  BY DEF SavesIn
<1>2. /\ a \in Registers \ {ZR} /\ b \in Registers \ {ZR} /\ a # b
      /\ n \in Int /\ InImm7L3(n) /\ S[k + 1].at - less = n + 8
  <2>1. a \in Registers \ {ZR} /\ b \in Registers \ {ZR} /\ a # b
    BY <1>1 DEF SavesIn
  <2>2. S[k].at \in Int /\ less \in Int /\ S[k + 1].at = S[k].at + 8 /\ InImm7L3(S[k].at - less)
    BY <1>1 DEF SavesIn
  <2>3. n \in Int /\ S[k + 1].at - less = n + 8
    BY <2>2
  <2> QED BY <2>1, <2>2, <2>3
<1>3. Pair(g, S, k, less, load) = h
  BY <1>2 DEF Pair, Assured
<1>4. Place(s, S, less, k) = p /\ Place(s, S, less, k + 1) = p + 8 /\ p \in Int
  <2>1. Content(s, SP) \in Int
    BY ContentIs
  <2>2. Place(s, S, less, k) = p /\ Place(s, S, less, k + 1) = Content(s, SP) + (n + 8) /\ n \in Int
    BY <1>2 DEF Place
  <2> HIDE DEF n
  <2> QED BY <2>1, <2>2
<1>5. T \subseteq U /\ A \subseteq B
  BY <1>4 DEF Words
<1>6. /\ Writer(h) /\ h.x = g.x /\ h.f = g.f /\ h.callee = g.callee /\ h.busy = g.busy
      /\ e = Issue(i, s)
  BY PutDoes
<1>7. IF load THEN LoadsPair(e, s, p, a, b) ELSE StoresPair(e, s, p, a, b)
  <2>0. p = Content(s, SP) + n /\ a \in Registers /\ b \in Registers
    BY <1>2
  <2> HIDE DEF h, e, s, a, b, n, p
  <2>1. CASE load
    BY <1>6, <2>0, <2>1, IssueLdp
  <2>2. CASE ~load
    BY <1>6, <2>0, <2>2, IssueStp
  <2> QED BY <2>1, <2>2
<1> HIDE DEF h, e, s, a, b, p
<1>8. /\ OnlyThese(s, e, T, A)
      /\ IF load THEN Content(e, a) = ContentAt(s, p, 64) /\ Content(e, b) = ContentAt(s, p + 8, 64)
         ELSE ContentAt(e, p, 64) = Content(s, a) /\ ContentAt(e, p + 8, 64) = Content(s, b)
  <2>1. IsMachine(s)
    BY DEF s
  <2>2. MovesPair(s, e, a, b, p, load)
    BY <1>2, <1>4, <1>7, <2>1, PairSets
  <2> QED BY <2>2 DEF MovesPair
<1>9. Changes(g, h, s0, U, B)
  <2> HIDE DEF T, A, U, B
  <2>1. OnlyThese(s, e, U, B)
    BY <1>5, <1>8, OnlyMoreThese
  <2> QED BY <1>6, <2>1 DEF Changes, s, e
<1>10. Moves(g, h, s0, S, less, load, {k, k + 1})
  BY <1>4, <1>6, <1>8, <1>9 DEF Moves, s, e, a, b
<1> QED BY <1>3, <1>10

(* The recursive function of Pairs().                                        *)
Half2(S) == Len(S) \div 2
PairAfter(h, S, less, load, k) ==
  Pair(h, S, FirstOf(S, IF load THEN Half2(S) + 1 - k ELSE k), less, load)
Follow2(d, g, S, less, load, n) ==
  /\ d = [k \in 0..n |-> d[k]]
  /\ d[0] = g
  /\ \A k \in 0..(n - 1) : d[k + 1] = PairAfter(d[k], S, less, load, k + 1)

LEMMA SomePairs ==
  ASSUME NEW g, NEW S, NEW less, NEW load
  PROVE  \A n \in Nat : \E d : Follow2(d, g, S, less, load, n)
<1> DEFINE M == {n \in Nat : \E d : Follow2(d, g, S, less, load, n)}
<1>1. 0 \in M
  <2>1. Follow2([k \in 0..0 |-> g], g, S, less, load, 0)
    BY DEF Follow2
  <2> QED BY <2>1
<1>2. ASSUME NEW n \in M PROVE n + 1 \in M
  <2>1. n \in Nat /\ n + 1 \in Nat
    OBVIOUS
  <2>2. PICK h : Follow2(h, g, S, less, load, n)
    OBVIOUS
  <2> DEFINE d == [k \in 0..(n + 1) |-> IF k = n + 1 THEN PairAfter(h[n], S, less, load, n + 1) ELSE h[k]]
  <2>3. d = [k \in 0..(n + 1) |-> d[k]] /\ d[0] = g
    BY <2>1, <2>2 DEF Follow2
  <2>4. ASSUME NEW k \in 0..n PROVE d[k + 1] = PairAfter(d[k], S, less, load, k + 1)
    <3>1. k \in 0..(n + 1) /\ k + 1 \in 0..(n + 1) /\ d[k] = h[k]
      BY <2>1
    <3>2. CASE k = n
      BY <3>1, <3>2, <2>1
    <3>3. CASE k # n
      <4>1. k \in 0..(n - 1) /\ k + 1 # n + 1
        BY <3>3, <2>1
      <4> QED BY <4>1, <3>1, <2>2 DEF Follow2
    <3> QED BY <3>2, <3>3
  <2> HIDE DEF d
  <2>5. (n + 1) - 1 = n
    BY <2>1
  <2>6. Follow2(d, g, S, less, load, n + 1)
    BY <2>3, <2>4, <2>5 DEF Follow2
  <2> QED BY <2>1, <2>6
<1>3. M = Nat
  <2> HIDE DEF M
  <2>1. M \in SUBSET Nat
    BY DEF M
  <2> QED BY <2>1, <1>1, <1>2, SetInduction
<1> QED BY <1>3

LEMMA PairsFollow ==
  ASSUME NEW g, NEW S, NEW less, NEW load, Half2(S) \in Nat
  PROVE  \E d : Follow2(d, g, S, less, load, Half2(S)) /\ Pairs(g, S, less, load) = d[Half2(S)]
<1> DEFINE n == Half2(S)
           Is(d) == d = [k \in 0..n |-> IF k = 0 THEN g ELSE PairAfter(d[k - 1], S, less, load, k)]
           t == CHOOSE d : Is(d)
<1>2. PICK d : Follow2(d, g, S, less, load, n)
  BY SomePairs
<1>3. Is(d)
  <2>1. ASSUME NEW k \in 0..n PROVE d[k] = IF k = 0 THEN g ELSE PairAfter(d[k - 1], S, less, load, k)
    <3>1. CASE k = 0
      BY <3>1, <1>2 DEF Follow2
    <3>2. CASE k # 0
      <4>1. k - 1 \in 0..(n - 1) /\ (k - 1) + 1 = k
        BY <3>2
      <4> HIDE DEF n
      <4> QED BY <4>1, <3>2, <1>2 DEF Follow2
    <3> QED BY <3>1, <3>2
  <2>2. [k \in 0..n |-> d[k]] = [k \in 0..n |-> IF k = 0 THEN g ELSE PairAfter(d[k - 1], S, less, load, k)]
    BY <2>1
  <2>3. d = [k \in 0..n |-> d[k]]
    BY <1>2 DEF Follow2
  <2> QED BY <2>2, <2>3
<1>4. Is(t)
  <2> HIDE DEF Is
  <2> QED BY <1>3
<1>5. Pairs(g, S, less, load) = t[n]
  BY DEF Pairs, PairAfter, Half2
<1>6. Follow2(t, g, S, less, load, n)
  <2> HIDE DEF t
  <2>1. \A k \in 0..n : t[k] = IF k = 0 THEN g ELSE PairAfter(t[k - 1], S, less, load, k)
    BY <1>4
  <2>2. t = [k \in 0..n |-> t[k]]
    BY <1>4
  <2>3. t[0] = g
    BY <2>1
  <2>4. ASSUME NEW k \in 0..(n - 1) PROVE t[k + 1] = PairAfter(t[k], S, less, load, k + 1)
    <3>1. k + 1 \in 0..n /\ k + 1 # 0 /\ (k + 1) - 1 = k
      OBVIOUS
    <3> HIDE DEF n
    <3> QED BY <3>1, <2>1
  <2> QED BY <2>2, <2>3, <2>4 DEF Follow2
<1> QED BY <1>5, <1>6

(* All pairs of a row.                                                       *)
LEMMA PairsMove ==
  ASSUME NEW S, NEW less, SavesIn(S, less), NEW g, Writer(g),
         NEW s0, IsMachine(After(g, s0)), NEW load \in BOOLEAN
  PROVE  Moves(g, Pairs(g, S, less, load), s0, S, less, load, (1 + (Len(S) % 2))..Len(S))
<1> DEFINE c == Half2(S)
           o == Len(S) % 2
           l == Len(S)
           K(n) == IF load THEN (l + 1 - 2 * n)..l ELSE (1 + o)..(o + 2 * n)
<1>1. l \in Nat /\ c \in Nat /\ o \in {0, 1} /\ l = 2 * c + o
  BY DEF SavesIn, Half2
<1>2. PICK d : Follow2(d, g, S, less, load, c) /\ Pairs(g, S, less, load) = d[c]
  BY <1>1, PairsFollow
<1> DEFINE M == {n \in Nat : n <= c => Moves(g, d[n], s0, S, less, load, K(n))}
<1>3. 0 \in M
  <2>1. K(0) = {}
    BY <1>1
  <2>2. d[0] = g
    BY <1>2 DEF Follow2
  <2> HIDE DEF K
  <2> QED BY <2>1, <2>2, NoneMoves
<1>4. ASSUME NEW n \in M PROVE n + 1 \in M
  <2> SUFFICES ASSUME n + 1 <= c PROVE Moves(g, d[n + 1], s0, S, less, load, K(n + 1))
    OBVIOUS
  <2> DEFINE k == FirstOf(S, IF load THEN c + 1 - (n + 1) ELSE n + 1)
  <2>1. n \in Nat /\ n \in 0..(c - 1)
    BY <1>1
  <2>2. d[n + 1] = Pair(d[n], S, k, less, load)
    BY <1>2, <2>1 DEF Follow2, PairAfter
  <2>3. k = IF load THEN l - 2 * n - 1 ELSE 2 * n + 1 + o
    <3> HIDE DEF c, o
    <3>1. k = IF load THEN 2 * (c + 1 - (n + 1)) - 1 + o ELSE 2 * (n + 1) - 1 + o
      BY DEF FirstOf, o
    <3> HIDE DEF k, l
    <3> QED BY <1>1, <2>1, <3>1
  <2> HIDE DEF k, c, o, l
  <2>4. /\ k \in 1..(l - 1) /\ K(n + 1) = K(n) \cup {k, k + 1} /\ K(n) \cap {k, k + 1} = {}
        /\ K(n) \subseteq 1..l /\ {k, k + 1} \subseteq 1..l
    <3>1. CASE load
      BY <1>1, <2>1, <2>3, <3>1
    <3>2. CASE ~load
      BY <1>1, <2>1, <2>3, <3>2
    <3> QED BY <3>1, <3>2
  <2>5. Moves(g, d[n], s0, S, less, load, K(n))
    BY <1>1, <2>1
  <2> HIDE DEF K
  <2>6. Writer(d[n]) /\ IsMachine(After(d[n], s0))
    BY <2>5 DEF Moves, Changes, OnlyThese
  <2>7. Moves(d[n], d[n + 1], s0, S, less, load, {k, k + 1})
    BY <2>2, <2>4, <2>6, PairMoves DEF l
  <2>8. Moves(g, d[n + 1], s0, S, less, load, K(n) \cup {k, k + 1})
    BY <2>4, <2>5, <2>7, MovesMore DEF l
  <2> QED BY <2>4, <2>8
<1>5. M = Nat
  <2> HIDE DEF M
  <2>1. M \in SUBSET Nat
    BY DEF M
  <2> QED BY <2>1, <1>3, <1>4, SetInduction
<1>6. K(c) = (1 + o)..l
  <2> HIDE DEF c, o, l
  <2> QED BY <1>1
<1>7. Moves(g, d[c], s0, S, less, load, K(c))
  <2>1. c \in M /\ c <= c
    BY <1>1, <1>5
  <2> HIDE DEF c, K
  <2> QED BY <2>1
<1> HIDE DEF K
<1> QED BY <1>2, <1>6, <1>7

LEMMA AllMoves ==
  ASSUME NEW S, NEW less, SavesIn(S, less), NEW g, Writer(g), g.busy = {},
         NEW s0, IsMachine(After(g, s0)), NEW load \in BOOLEAN
  PROVE  Moves(g, IF load THEN LoadAll(g, S, less) ELSE SaveAll(g, S, less), s0, S, less, load, 1..Len(S))
<1> DEFINE one == IF Odd(S) THEN {1} ELSE {}
           rest == (1 + (Len(S) % 2))..Len(S)
<1>1. /\ one \cup rest = 1..Len(S) /\ one \cap rest = {}
      /\ one \in SUBSET (1..Len(S)) /\ rest \in SUBSET (1..Len(S))
      /\ Odd(S) => Len(S) >= 1
  <2> DEFINE l == Len(S)
  <2>0. l \in Nat
    BY DEF SavesIn
  <2> HIDE DEF l
  <2>1. l \in Nat /\ l % 2 \in {0, 1} /\ (l % 2 = 1 => l >= 1)
    BY <2>0
  <2>2. one = IF l % 2 = 1 THEN {1} ELSE {}
    BY DEF Odd, l
  <2>3. rest = (1 + (l % 2))..l
    BY DEF l
  <2> HIDE DEF one, rest
  <2>4. CASE l % 2 = 1
    BY <2>1, <2>2, <2>3, <2>4 DEF l, Odd
  <2>5. CASE l % 2 = 0
    BY <2>1, <2>2, <2>3, <2>5 DEF l, Odd
  <2> QED BY <2>1, <2>4, <2>5
<1>2. ASSUME NEW h, Writer(h), h.busy = {}, IsMachine(After(h, s0))
      PROVE  /\ Moves(h, Single(h, S, less, load), s0, S, less, load, one)
             /\ Moves(h, Pairs(h, S, less, load), s0, S, less, load, rest)
  <2>1. Moves(h, Single(h, S, less, load), s0, S, less, load, one)
    <3>1. CASE Odd(S)
      BY <1>1, <1>2, <3>1, SingleMoves DEF Single
    <3>2. CASE ~Odd(S)
      BY <1>2, <3>2, NoneMoves DEF Single
    <3> QED BY <3>1, <3>2
  <2> QED BY <1>2, <2>1, PairsMove
<1> HIDE DEF one, rest
<1>3. ASSUME NEW h, NEW K, Moves(g, h, s0, S, less, load, K)
      PROVE  Writer(h) /\ h.busy = {} /\ IsMachine(After(h, s0))
  BY <1>3 DEF Moves, Changes, OnlyThese
<1>4. CASE load
  <2> DEFINE h == Pairs(g, S, less, load)
  <2>1. LoadAll(g, S, less) = Single(h, S, less, load)
    BY <1>4 DEF LoadAll
  <2>2. Moves(g, h, s0, S, less, load, rest)
    BY <1>2
  <2> HIDE DEF h
  <2>3. Moves(h, Single(h, S, less, load), s0, S, less, load, one)
    BY <1>2, <1>3, <2>2
  <2>4. Moves(g, Single(h, S, less, load), s0, S, less, load, rest \cup one)
    BY <1>1, <2>2, <2>3, MovesMore
  <2>5. rest \cup one = 1..Len(S)
    BY <1>1
  <2> QED BY <1>4, <2>1, <2>4, <2>5
<1>5. CASE ~load
  <2> DEFINE h == Single(g, S, less, load)
  <2>1. SaveAll(g, S, less) = Pairs(h, S, less, load)
    BY <1>5 DEF SaveAll
  <2>2. Moves(g, h, s0, S, less, load, one)
    BY <1>2
  <2> HIDE DEF h
  <2>3. Moves(h, Pairs(h, S, less, load), s0, S, less, load, rest)
    BY <1>2, <1>3, <2>2
  <2>4. Moves(g, Pairs(h, S, less, load), s0, S, less, load, one \cup rest)
    BY <1>1, <2>2, <2>3, MovesMore
  <2> QED BY <1>1, <1>5, <2>1, <2>4
<1> QED BY <1>4, <1>5

-----------------------------------------------------------------------------
(* The rows of a frame.                                                      *)
Restorable == Registers \ (Scratch \cup {ZR, SP})

LEMMA PartOfRow ==
  ASSUME NEW X, NEW F \in Seq(X), NEW m \in Int, NEW n \in Int, 1 <= m, m <= n + 1, n <= Len(F)
  PROVE  /\ Len(SubSeq(F, m, n)) = n - m + 1
         /\ \A k \in 1..(n - m + 1) : SubSeq(F, m, n)[k] = F[m + k - 1]
OBVIOUS

LEMMA PartSaves ==
  ASSUME NEW X, NEW F \in Seq(X), NEW less, SavesIn(F, less),
         NEW m \in Int, NEW n \in Int, 1 <= m, m <= n + 1, n <= Len(F)
  PROVE  SavesIn(SubSeq(F, m, n), less)
<1> DEFINE S == SubSeq(F, m, n)
           l == n - m + 1
<1>1. Len(S) = l /\ l \in Nat /\ Len(F) \in Nat /\ \A k \in 1..l : S[k] = F[m + k - 1]
  BY PartOfRow
<1> DEFINE to(k) == m + k - 1
<1> HIDE DEF S
<1>2. \A k \in 1..l : to(k) \in 1..Len(F) /\ S[k] = F[to(k)]
  BY <1>1
<1>3. \A j, k \in 1..l : j < k => to(j) < to(k)
  BY <1>1
<1>4. \A k \in 1..(l - 1) : /\ to(k) \in 1..(Len(F) - 1)
                            /\ S[k] = F[to(k)] /\ S[k + 1] = F[to(k) + 1]
  <2> TAKE k \in 1..(l - 1)
  <2>1. k \in 1..l /\ k + 1 \in 1..l /\ to(k) \in 1..(Len(F) - 1) /\ m + (k + 1) - 1 = to(k) + 1
    BY <1>1
  <2>2. S[k] = F[m + k - 1] /\ S[k + 1] = F[m + (k + 1) - 1]
    BY <1>1, <2>1
  <2> QED BY <2>1, <2>2
<1> HIDE DEF to, l
<1>5. \A k \in 1..l : /\ S[k].reg \in Registers \ (Scratch \cup {ZR, SP})
                      /\ S[k].at \in Int /\ (S[k].at - less) % 8 = 0
  BY <1>2 DEF SavesIn
<1>6. \A j, k \in 1..l : j < k => S[j].reg # S[k].reg /\ S[j].at + 8 <= S[k].at
  <2> TAKE j, k \in 1..l
  <2> SUFFICES ASSUME j < k PROVE S[j].reg # S[k].reg /\ S[j].at + 8 <= S[k].at
    OBVIOUS
  <2> DEFINE v == to(j)
             w == to(k)
  <2>1. v \in 1..Len(F) /\ w \in 1..Len(F) /\ v < w /\ S[j] = F[v] /\ S[k] = F[w]
    BY <1>2, <1>3
  <2> HIDE DEF v, w
  <2>2. F[v].reg # F[w].reg /\ F[v].at + 8 <= F[w].at
    BY <2>1 DEF SavesIn
  <2> QED BY <2>1, <2>2
<1>7. \A k \in 1..(l - 1) : S[k + 1].at = S[k].at + 8 /\ InImm7L3(S[k].at - less)
  BY <1>4 DEF SavesIn
<1>8. less \in Int
  BY DEF SavesIn
<1> QED BY <1>1, <1>5, <1>6, <1>7, <1>8 DEF SavesIn, S

LEMMA PartMoves ==
  ASSUME NEW X, NEW F \in Seq(X), NEW less, NEW m \in Int, NEW n \in Int, 1 <= m, m <= n + 1, n <= Len(F),
         NEW g, NEW h, NEW s0, NEW load \in BOOLEAN,
         Moves(g, h, s0, SubSeq(F, m, n), less, load, 1..Len(SubSeq(F, m, n)))
  PROVE  Moves(g, h, s0, F, less, load, m..n)
<1> DEFINE S == SubSeq(F, m, n)
           l == n - m + 1
           s == After(g, s0)
<1>1. Len(S) = l /\ l \in Nat /\ \A k \in 1..l : S[k] = F[m + k - 1]
  BY PartOfRow
<1>2. /\ \A k \in 1..l : m + k - 1 \in m..n
      /\ \A j \in m..n : j - m + 1 \in 1..l /\ m + (j - m + 1) - 1 = j
  BY <1>1
<1> HIDE DEF S, l, s
<1>3. \A j \in m..n : S[j - m + 1] = F[j]
  BY <1>1, <1>2
<1>4. \A j \in m..n : Place(s, S, less, j - m + 1) = Place(s, F, less, j)
  BY <1>3 DEF Place
<1>5. \A k \in 1..l : Place(s, S, less, k) = Place(s, F, less, m + k - 1)
  BY <1>1 DEF Place
<1> DEFINE K == 1..l
           J == m..n
           to(k) == m + k - 1
           fro(j) == j - m + 1
<1>5a. /\ \A k \in K : to(k) \in J /\ S[k] = F[to(k)] /\ Place(s, S, less, k) = Place(s, F, less, to(k))
       /\ \A j \in J : fro(j) \in K /\ S[fro(j)] = F[j] /\ Place(s, S, less, fro(j)) = Place(s, F, less, j)
  BY <1>1, <1>2, <1>3, <1>4, <1>5
<1> HIDE DEF K, J, to, fro
<1>6. Words(s, S, less, K) = Words(s, F, less, J)
  <2>1. {Place(s, S, less, k) : k \in K} = {Place(s, F, less, j) : j \in J}
    BY <1>5a
  <2>2. {Place(s, S, less, k) + 4 : k \in K} = {Place(s, F, less, j) + 4 : j \in J}
    <3> DEFINE four(p) == p + 4
    <3> HIDE DEF four
    <3>1. {four(Place(s, S, less, k)) : k \in K} = {four(Place(s, F, less, j)) : j \in J}
      BY <1>5a
    <3> QED BY <3>1 DEF four
  <2> QED BY <2>1, <2>2 DEF Words
<1>7. {S[k].reg : k \in K} = {F[j].reg : j \in J}
  BY <1>5a
<1> USE DEF K, J
<1>8. Moves(g, h, s0, S, less, load, 1..l)
  BY <1>1 DEF S
<1>9. {S[k].reg : k \in IF load THEN 1..l ELSE {}} = {F[j].reg : j \in IF load THEN m..n ELSE {}}
  BY <1>7
<1>10. /\ Changes(g, h, s0, Scratch \cup {F[j].reg : j \in IF load THEN m..n ELSE {}},
                  IF load THEN {} ELSE Words(s, F, less, m..n))
       /\ h.busy = g.busy
  BY <1>6, <1>8, <1>9 DEF Moves, s
<1>11. ASSUME NEW j \in m..n
       PROVE  IF load
              THEN Content(After(h, s0), F[j].reg) = ContentAt(s, Place(s, F, less, j), 64)
              ELSE ContentAt(After(h, s0), Place(s, F, less, j), 64) = Content(s, F[j].reg)
  <2> DEFINE k == j - m + 1
  <2>1. k \in 1..l
    BY <1>2
  <2>2. S[k] = F[j] /\ Place(s, S, less, k) = Place(s, F, less, j)
    BY <1>3, <1>4
  <2> HIDE DEF k
  <2>3. IF load
        THEN Content(After(h, s0), S[k].reg) = ContentAt(s, Place(s, S, less, k), 64)
        ELSE ContentAt(After(h, s0), Place(s, S, less, k), 64) = Content(s, S[k].reg)
    BY <1>8, <2>1 DEF Moves, s
  <2> QED BY <2>2, <2>3
<1> QED BY <1>10, <1>11 DEF Moves, s

LEMMA IntCountIs ==
  ASSUME NEW F, Len(F) \in Nat
  PROVE  IntCount(F) \in 0..Len(F)
<1> DEFINE n == Len(F)
           A == {k \in 1..n : F[k].reg[1] = "r"}
<1>1. IsFiniteSet(1..n) /\ Cardinality(1..n) = n
  <2>1. n \in Nat
    OBVIOUS
  <2> HIDE DEF n
  <2>2. 1 \in Int /\ n \in Int /\ (IF 1 > n THEN 0 ELSE n - 1 + 1) = n
    BY <2>1
  <2>3. IsFiniteSet(1..n) /\ Cardinality(1..n) = IF 1 > n THEN 0 ELSE n - 1 + 1
    BY <2>2, FS_Interval
  <2> QED BY <2>2, <2>3
<1>2. A \subseteq 1..n
  OBVIOUS
<1>3. IsFiniteSet(A) /\ Cardinality(A) <= n /\ Cardinality(A) \in Nat
  <2> HIDE DEF A
  <2> QED BY <1>1, <1>2, FS_Subset, FS_CardinalityType
<1> QED BY <1>3 DEF IntCount

(* Both rows of a frame.                                                     *)
LEMMA HalvesMove ==
  ASSUME NEW X, NEW F \in Seq(X), NEW less, SavesIn(F, less), NEW g, Writer(g), g.busy = {},
         NEW s0, IsMachine(After(g, s0)), NEW load \in BOOLEAN
  PROVE  Moves(g, IF load THEN LoadAll(LoadAll(g, Floats(F), less), Ints(F), less)
                  ELSE SaveAll(SaveAll(g, Ints(F), less), Floats(F), less),
               s0, F, less, load, 1..Len(F))
<1> DEFINE n == IntCount(F)
           l == Len(F)
           all(h, S) == IF load THEN LoadAll(h, S, less) ELSE SaveAll(h, S, less)
<1>1. n \in 0..l /\ l \in Nat
  BY IntCountIs DEF SavesIn
<1>2. Ints(F) = SubSeq(F, 1, n) /\ Floats(F) = SubSeq(F, n + 1, l)
  BY DEF Ints, Floats
<1> HIDE DEF n
<1>3. SavesIn(Ints(F), less) /\ SavesIn(Floats(F), less)
  BY <1>1, <1>2, PartSaves
<1>4. ASSUME NEW h, Writer(h), h.busy = {}, IsMachine(After(h, s0))
      PROVE  /\ Moves(h, all(h, Ints(F)), s0, F, less, load, 1..n)
             /\ Moves(h, all(h, Floats(F)), s0, F, less, load, (n + 1)..l)
  <2>1. /\ Moves(h, all(h, Ints(F)), s0, Ints(F), less, load, 1..Len(Ints(F)))
        /\ Moves(h, all(h, Floats(F)), s0, Floats(F), less, load, 1..Len(Floats(F)))
    <3>1. ASSUME NEW S, SavesIn(S, less) PROVE Moves(h, all(h, S), s0, S, less, load, 1..Len(S))
      BY <1>4, <3>1, AllMoves
    <3> HIDE DEF all
    <3> QED BY <1>3, <3>1
  <2> HIDE DEF all
  <2>2. Moves(h, all(h, Ints(F)), s0, F, less, load, 1..n)
    BY <1>1, <1>2, <2>1, PartMoves
  <2>3. Moves(h, all(h, Floats(F)), s0, F, less, load, (n + 1)..l)
    BY <1>1, <1>2, <2>1, PartMoves
  <2> QED BY <2>2, <2>3
<1>5. ASSUME NEW h, NEW K, Moves(g, h, s0, F, less, load, K)
      PROVE  Writer(h) /\ h.busy = {} /\ IsMachine(After(h, s0))
  BY <1>5 DEF Moves, Changes, OnlyThese
<1> DEFINE A == 1..n
           B == (n + 1)..l
<1>6. /\ A \cup B = 1..l /\ B \cup A = 1..l /\ A \cap B = {} /\ B \cap A = {}
      /\ A \in SUBSET (1..Len(F)) /\ B \in SUBSET (1..Len(F))
  <2>1. l = Len(F)
    OBVIOUS
  <2> HIDE DEF l
  <2> QED BY <1>1, <2>1
<1> HIDE DEF all, A, B
<1>7. CASE load
  <2> DEFINE h == all(g, Floats(F))
             i == all(h, Ints(F))
  <2>1. Moves(g, h, s0, F, less, load, B)
    BY <1>4 DEF B
  <2> HIDE DEF h
  <2>2. Moves(h, i, s0, F, less, load, A)
    BY <1>4, <1>5, <2>1 DEF A
  <2> HIDE DEF i
  <2>3. Moves(g, i, s0, F, less, load, B \cup A)
    BY <1>6, <2>1, <2>2, MovesMore
  <2> QED BY <1>6, <1>7, <2>3 DEF i, h, all
<1>8. CASE ~load
  <2> DEFINE h == all(g, Ints(F))
             i == all(h, Floats(F))
  <2>1. Moves(g, h, s0, F, less, load, A)
    BY <1>4 DEF A
  <2> HIDE DEF h
  <2>2. Moves(h, i, s0, F, less, load, B)
    BY <1>4, <1>5, <2>1 DEF B
  <2> HIDE DEF i
  <2>3. Moves(g, i, s0, F, less, load, A \cup B)
    BY <1>6, <2>1, <2>2, MovesMore
  <2> QED BY <1>6, <1>8, <2>3 DEF i, h, all
<1> QED BY <1>7, <1>8

-----------------------------------------------------------------------------
(* Frames.                                                                   *)
Distinct(regs) == \A j, k \in 1..Len(regs) : j < k => regs[j] # regs[k]
FrameOf(fn, stack, regs, fix) ==
  /\ fn.saved = Frame(stack, regs, fix).saved
  /\ fn.move = Frame(stack, regs, fix).move

LEMMA SavedRegisters ==
  ASSUME NEW stack \in Seq(Nat \ {0}), NEW regs \in Seq(Restorable), NEW fix \in Seq({4, 8}),
         NEW fn, FrameOf(fn, stack, regs, fix)
  PROVE  \E first \in Nat :
           /\ first % 8 = 0
           /\ fn.move \in Nat /\ fn.move % 16 = 0
           /\ Len(fn.saved) = Len(regs) /\ Len(regs) \in Nat
           /\ fn.saved \in Seq([reg : Restorable, at : Int])
           /\ \A k \in 1..Len(regs) : fn.saved[k].reg = regs[k] /\ fn.saved[k].at = first + 8 * (k - 1)
           /\ Len(regs) # 0 => first + 8 * Len(regs) <= fn.move
<1> DEFINE frame == Frame(stack, regs, fix)
           slots == Ends(stack, 0)
           base == FirstSave(slots[Len(stack)])
           end == IF regs = <<>> THEN slots[Len(stack)] ELSE base + 8 * Len(regs)
<1>1. /\ frame.saved = [k \in 1..Len(regs) |-> [reg |-> regs[k], at |-> base + 8 * (k - 1)]]
      /\ frame.move = UpTo(end, 16)
  BY DEF Frame
<1>2. slots \in [0..Len(stack) -> Nat]
  BY EndsRise DEF Size
<1>3. slots[Len(stack)] \in Nat
  BY <1>2
<1>4. base \in Nat /\ base % 8 = 0
  <2> DEFINE top == slots[Len(stack)]
  <2>1. top \in Nat
    BY <1>3
  <2> HIDE DEF top
  <2>2. UpTo(top, 8) \in Nat /\ UpTo(top, 8) % 8 = 0
    BY <2>1, UpToIsAbove
  <2> QED BY <2>2 DEF FirstSave, top
<1> HIDE DEF base
<1>5. Len(regs) \in Nat /\ (regs = <<>> <=> Len(regs) = 0)
  OBVIOUS
<1>6. end \in Nat /\ (Len(regs) # 0 => base + 8 * Len(regs) <= end)
  BY <1>3, <1>4, <1>5
<1> HIDE DEF end, slots, frame
<1>7. UpTo(end, 16) \in Nat /\ end <= UpTo(end, 16) /\ UpTo(end, 16) % 16 = 0
  BY <1>6, UpToIsAbove
<1>8. fn.saved = [k \in 1..Len(regs) |-> [reg |-> regs[k], at |-> base + 8 * (k - 1)]]
  BY <1>1 DEF FrameOf, frame
<1>9. fn.move = UpTo(end, 16)
  BY <1>1 DEF FrameOf, frame
<1> QED
  <2>1. /\ Len(fn.saved) = Len(regs)
        /\ fn.saved \in Seq([reg : Restorable, at : Int])
        /\ \A k \in 1..Len(regs) : fn.saved[k].reg = regs[k] /\ fn.saved[k].at = base + 8 * (k - 1)
    BY <1>4, <1>5, <1>8
  <2>2. Len(regs) # 0 => base + 8 * Len(regs) <= fn.move
    BY <1>4, <1>5, <1>6, <1>7, <1>9
  <2>3. fn.move \in Nat /\ fn.move % 16 = 0
    BY <1>7, <1>9
  <2> QED BY <1>4, <1>5, <2>1, <2>2, <2>3

LEMMA Eights ==
  ASSUME NEW a \in Int, NEW b \in Int, a % 8 = 0, b % 8 = 0
  PROVE  (a + b) % 8 = 0 /\ (a - b) % 8 = 0
OBVIOUS

LEMMA EightTimes ==
  ASSUME NEW a \in Int
  PROVE  (8 * a) % 8 = 0 /\ (a % 16 = 0 => a % 8 = 0)
OBVIOUS

(* With SP moved once or twice, every place is in reach.                     *)
LEMMA FrameSaves ==
  ASSUME NEW stack \in Seq(Nat \ {0}), NEW regs \in Seq(Restorable), NEW fix \in Seq({4, 8}),
         Distinct(regs), 8 * Len(regs) <= PairLimit,
         NEW fn, FrameOf(fn, stack, regs, fix)
  PROVE  /\ fn.move \in Nat /\ FirstMove(fn) \in Int
         /\ Len(fn.saved) = Len(regs) /\ Len(regs) \in Nat
         /\ fn.saved \in Seq([reg : Restorable, at : Int])
         /\ \A k \in 1..Len(regs) : fn.saved[k].reg = regs[k]
         /\ SavesIn(fn.saved, fn.move - FirstMove(fn))
<1> DEFINE F == fn.saved
           move == fn.move
           one == FirstMove(fn)
           next == move - one
           l == Len(regs)
<1>1. PICK first \in Nat :
           /\ first % 8 = 0
           /\ move \in Nat /\ move % 16 = 0
           /\ Len(F) = l /\ l \in Nat
           /\ F \in Seq([reg : Restorable, at : Int])
           /\ \A k \in 1..l : F[k].reg = regs[k] /\ F[k].at = first + 8 * (k - 1)
           /\ l # 0 => first + 8 * l <= move
  BY SavedRegisters
<1>2. 8 * l <= PairLimit /\ PairLimit \in Nat
  BY LimitAssumption
<1>3. F = <<>> <=> l = 0
  BY <1>1
<1>4. one \in Int /\ next \in Int /\ next % 8 = 0
      /\ \A k \in 1..(l - 1) : InImm7L3(F[k].at - next)
  <2>1. CASE CanLSInOneSPMove(F)
    <3>1. one = move
      BY <2>1 DEF FirstMove
    <3>2. next = 0
      BY <1>1, <3>1
    <3>3. ASSUME NEW k \in 1..(l - 1) PROVE InImm7L3(F[k].at - 0)
      <4>1. F # <<>>
        BY <1>1, <1>3
      <4>2. F[l].at \in (-PairLimit)..(PairLimit - 8)
        BY <1>1, <2>1, <4>1 DEF CanLSInOneSPMove, InImm7L3
      <4>3. k \in 1..l /\ l \in 1..l
        BY <1>1
      <4>4. F[k].at = first + 8 * (k - 1) /\ F[l].at = first + 8 * (l - 1)
        BY <1>1, <4>3
      <4> DEFINE x == F[k].at
                 y == F[l].at
      <4> HIDE DEF F, x, y, l
      <4>5. x = first + 8 * (k - 1) /\ y = first + 8 * (l - 1) /\ y <= PairLimit - 8
        BY <1>2, <4>2, <4>4 DEF x, y
      <4>6. x \in Int /\ x - 0 = x /\ x % 8 = 0 /\ x \in (-PairLimit)..(PairLimit - 8)
        BY <1>1, <1>2, <4>3, <4>5
      <4> QED BY <4>6 DEF InImm7L3, x
    <3> HIDE DEF F, one, next, move, l
    <3> QED BY <1>1, <3>1, <3>2, <3>3
  <2>2. CASE ~CanLSInOneSPMove(F)
    <3>1. F # <<>>
      BY <2>2 DEF CanLSInOneSPMove
    <3>2. 1 \in 1..l
      BY <1>1, <1>3, <3>1
    <3>3. F[1].at = first
      BY <1>1, <3>2
    <3>4. one = UpTo(move - first, 16)
      BY <2>2, <3>3 DEF FirstMove
    <3> DEFINE m == move - first
               u == UpTo(m, 16)
    <3>5. m \in Nat /\ m % 8 = 0 /\ l # 0
      <4>1. move \in Int /\ first \in Int /\ move % 8 = 0 /\ first % 8 = 0
        <5>1. move \in Int /\ move % 16 = 0 /\ first \in Int /\ first % 8 = 0
          BY <1>1
        <5> HIDE DEF F, move, l
        <5> QED BY <5>1, EightTimes
      <4>2. l # 0 /\ l \in Nat /\ first + 8 * l <= move
        BY <1>1, <3>2
      <4> HIDE DEF F, move, l
      <4>3. m \in Nat
        BY <4>1, <4>2
      <4>4. m % 8 = 0
        <5> HIDE DEF move
        <5>1. (move - first) % 8 = 0
          BY <4>1, Eights
        <5> QED BY <5>1 DEF m
      <4> QED BY <4>2, <4>3, <4>4
    <3> HIDE DEF m
    <3>6. u \in Nat /\ m <= u /\ u <= m + 15 /\ u % 16 = 0
      BY <3>5 DEF UpTo
    <3>7. u - m \in 0..8
      <4> HIDE DEF u
      <4> QED BY <3>5, <3>6
    <3> HIDE DEF u
    <3>8. one = u /\ next = move - u /\ move = first + m
      <4>1. one = u
        BY <3>4 DEF u, m
      <4>2. move = first + m
        BY <1>1 DEF m
      <4> QED BY <4>1, <4>2
    <3>9. ASSUME NEW k \in 1..(l - 1) PROVE InImm7L3(F[k].at - next)
      <4>1. k \in 1..l /\ F[k].at = first + 8 * (k - 1)
        BY <1>1
      <4> DEFINE x == F[k].at - next
      <4>2. x = (first + 8 * (k - 1)) - ((first + m) - u)
        BY <3>8, <4>1
      <4> HIDE DEF F, next, x, l
      <4>3. x = 8 * (k - 1) + (u - m)
        BY <1>1, <3>5, <3>6, <4>1, <4>2
      <4> DEFINE v == u - m
      <4>4a. v \in Int /\ v % 8 = 0 /\ v >= 0 /\ v <= 8
        <5>0. u \in Int /\ m \in Int /\ u % 8 = 0 /\ m % 8 = 0
          BY <3>5, <3>6, EightTimes
        <5>1. v % 8 = 0
          BY <5>0, Eights
        <5> QED BY <3>7, <5>1
      <4> HIDE DEF v
      <4>4b. x = 8 * (k - 1) + v /\ k - 1 \in Int /\ 8 * (k - 1) \in Int /\ k - 1 >= 0 /\ k - 1 <= l - 2
        BY <1>1, <4>1, <4>3 DEF v
      <4>4. x \in Int /\ x >= 0 /\ x <= 8 * l - 8
        BY <1>1, <4>4a, <4>4b
      <4>5. x % 8 = 0
        <5>1. (8 * (k - 1)) % 8 = 0
          BY <4>4b, EightTimes
        <5> DEFINE y == 8 * (k - 1)
        <5>2. y % 8 = 0 /\ y \in Int /\ x = y + v
          BY <4>4b, <5>1
        <5> HIDE DEF y
        <5> QED BY <4>4a, <5>2, Eights
      <4>6. x \in (-PairLimit)..(PairLimit - 8)
        BY <1>1, <1>2, <4>4
      <4> QED BY <4>5, <4>6 DEF InImm7L3, x
    <3>10. one \in Int /\ next \in Int /\ next % 8 = 0
      <4> HIDE DEF F, one, next, move, l
      <4>1. u \in Int /\ move \in Int /\ u % 8 = 0 /\ move % 8 = 0
        <5>1. move \in Int /\ move % 16 = 0
          BY <1>1
        <5>2. u \in Int /\ u % 16 = 0
          BY <3>6
        <5> QED BY <5>1, <5>2, EightTimes
      <4>2. (move - u) % 8 = 0
        BY <4>1, Eights
      <4> QED BY <3>8, <4>1, <4>2
    <3> QED BY <3>9, <3>10
  <2> QED BY <2>1, <2>2
<1> HIDE DEF F, one, move, next, l
<1>5. \A k \in 1..l : /\ F[k].reg \in Registers \ (Scratch \cup {ZR, SP})
                      /\ F[k].at \in Int /\ (F[k].at - next) % 8 = 0
  <2> TAKE k \in 1..l
  <2>1. F[k].reg = regs[k] /\ regs[k] \in Restorable
    BY <1>1 DEF l
  <2> DEFINE x == F[k].at
  <2>2. x = first + 8 * (k - 1)
    BY <1>1
  <2> HIDE DEF x
  <2>3. x \in Int /\ (x - next) % 8 = 0
    <3>1. k - 1 \in Int /\ 8 * (k - 1) \in Int /\ first \in Int
      BY <1>1
    <3>2. x \in Int /\ x % 8 = 0
      <4> DEFINE y == 8 * (k - 1)
      <4>1. y \in Int /\ y % 8 = 0
        BY <3>1, EightTimes
      <4> HIDE DEF y
      <4>2. x = first + y
        BY <2>2 DEF y
      <4> QED BY <1>1, <3>1, <4>1, <4>2, Eights
    <3> QED BY <1>4, <3>2, Eights
  <2> QED BY <2>1, <2>3 DEF Restorable, x
<1>6. \A j, k \in 1..l : j < k => F[j].reg # F[k].reg /\ F[j].at + 8 <= F[k].at
  <2> TAKE j, k \in 1..l
  <2> SUFFICES ASSUME j < k PROVE F[j].reg # F[k].reg /\ F[j].at + 8 <= F[k].at
    OBVIOUS
  <2>1. F[j].reg = regs[j] /\ F[k].reg = regs[k] /\ regs[j] # regs[k]
    BY <1>1 DEF Distinct, l
  <2> DEFINE x == F[k].at
             y == F[j].at
  <2>2. x = first + 8 * (k - 1) /\ y = first + 8 * (j - 1)
    BY <1>1
  <2> HIDE DEF x, y
  <2>3. y + 8 <= x
    BY <1>1, <2>2
  <2> QED BY <2>1, <2>3 DEF x, y
<1>7. \A k \in 1..(l - 1) : F[k + 1].at = F[k].at + 8 /\ InImm7L3(F[k].at - next)
  <2> TAKE k \in 1..(l - 1)
  <2>1. k \in 1..l /\ k + 1 \in 1..l
    BY <1>1
  <2>2. F[k].at = first + 8 * (k - 1) /\ F[k + 1].at = first + 8 * ((k + 1) - 1)
    BY <1>1, <2>1
  <2>3. first + 8 * ((k + 1) - 1) = (first + 8 * (k - 1)) + 8
    BY <1>1
  <2> QED BY <1>4, <2>2, <2>3
<1>8. SavesIn(F, next)
  BY <1>1, <1>4, <1>5, <1>6, <1>7 DEF SavesIn
<1> QED BY <1>1, <1>4, <1>8 DEF F, next, one, move, l

LEMMA MoveSPDoes ==
  ASSUME NEW g, Writer(g), g.busy = {}, NEW s0, IsMachine(After(g, s0)), NEW n \in Int
  PROVE  LET h == MoveSP(g, n)
         IN  /\ Effect(g, h, s0, Scratch \cup {SP}) /\ h.busy = {}
             /\ Content(After(h, s0), SP) = Content(After(g, s0), SP) + n
<1> DEFINE h == AddImmediate(g, SP, SP, n, 64)
<1>1. /\ SP \in Registers /\ SP # ZR /\ SP \notin Scratch /\ g.busy # Scratch
      /\ 64 \in Widths /\ ~(64 = 32 /\ n = MinWord)
  BY ScratchIs DEF Widths, Scratch
<1>2. Adds(h, g, s0, SP, SP, n, 64)
  BY <1>1, AddImmediateDoes
<1> HIDE DEF h
<1>3. /\ Effect(g, h, s0, Scratch \cup {SP}) /\ h.busy = g.busy
      /\ Operand(After(h, s0), SP, 64) = Operand(After(g, s0), SP, 64) + n
  BY <1>2 DEF Adds, AtWidth
<1>4. \A s : Operand(s, SP, 64) = Content(s, SP)
  BY <1>1, OperandIs64 DEF AtWidth
<1> QED BY <1>3, <1>4 DEF MoveSP, h

(* What a prologue h behind g does for the frame of fn, and an epilogue.       *)
Enters(g, h, fn, s0) ==
  LET s == After(g, s0)
  IN  /\ Changes(g, h, s0, Scratch \cup {SP}, Words(s, fn.saved, fn.move, 1..Len(fn.saved)))
      /\ h.busy = {}
      /\ Content(After(h, s0), SP) = Content(s, SP) - fn.move
      /\ \A k \in 1..Len(fn.saved) :
           ContentAt(After(h, s0), Place(s, fn.saved, fn.move, k), 64) = Content(s, fn.saved[k].reg)
Returns(g, h, fn, s0) ==
  LET s == After(g, s0)
  IN  /\ Changes(g, h, s0, Scratch \cup {SP} \cup {fn.saved[k].reg : k \in 1..Len(fn.saved)}, {})
      /\ h.busy = {}
      /\ Content(After(h, s0), SP) = Content(s, SP) + fn.move
      /\ \A k \in 1..Len(fn.saved) :
           Content(After(h, s0), fn.saved[k].reg) = ContentAt(s, Place(s, fn.saved, 0, k), 64)

LEMMA PrefixDoes ==
  ASSUME NEW X, NEW fn, fn.saved \in Seq(X), fn.move \in Int, FirstMove(fn) \in Int,
         SavesIn(fn.saved, fn.move - FirstMove(fn)),
         NEW g, Writer(g), g.busy = {}, NEW s0, IsMachine(After(g, s0))
  PROVE  Enters(g, FunctionPrefix(g, fn), fn, s0)
<1> DEFINE F == fn.saved
           K == 1..Len(F)
           move == fn.move
           one == FirstMove(fn)
           next == move - one
           a == MoveSP(g, -one)
           b == SaveAll(SaveAll(a, Ints(F), next), Floats(F), next)
           c == MoveSP(b, -next)
           s == After(g, s0)
           s1 == After(a, s0)
           s2 == After(b, s0)
           s3 == After(c, s0)
           U == Scratch \cup {SP}
           A == Words(s, F, move, K)
<1>1. FunctionPrefix(g, fn) = c
  BY DEF FunctionPrefix
<1>2. one \in Int /\ next \in Int /\ move \in Int /\ -one \in Int /\ -next \in Int /\ Content(s, SP) \in Int
      /\ \A k \in K : F[k].at \in Int /\ F[k].reg \notin U
  BY ContentIs DEF SavesIn
<1>2a. SavesIn(F, next) /\ F \in Seq(X) /\ (-one) + (-next) = -move /\ next + one = move
  BY <1>2
<1> HIDE DEF F, move, one, next, s
<1>3. Effect(g, a, s0, U) /\ a.busy = {} /\ Content(s1, SP) = Content(s, SP) + (-one)
  BY <1>2, MoveSPDoes DEF s
<1> HIDE DEF a
<1>4. Changes(g, a, s0, U, {}) /\ Writer(a) /\ IsMachine(s1) /\ OnlyRegisters(s, s1, U)
  BY <1>3, EffectChanges DEF Effect, OnlyRegisters, s
<1>5. Moves(a, b, s0, F, next, FALSE, K)
  BY <1>2a, <1>3, <1>4, HalvesMove
<1> HIDE DEF b, s1
<1>6. \A k \in K : Place(s1, F, next, k) = Place(s, F, move, k)
  <2> TAKE k \in K
  <2> DEFINE x == F[k].at
             p == Content(s, SP)
  <2>1. Place(s1, F, next, k) = (p + (-one)) + (x - next) /\ Place(s, F, move, k) = p + (x - move)
    BY <1>3 DEF Place
  <2>2. x \in Int /\ p \in Int
    BY <1>2
  <2>3. next \in Int /\ one \in Int /\ move = next + one
    BY <1>2, <1>2a
  <2> HIDE DEF x, p, K
  <2>4. (p + (-one)) + (x - next) = p + (x - move)
    BY <2>2, <2>3
  <2> QED BY <2>1, <2>4
<1>7. Words(s1, F, next, K) = A
  <2> HIDE DEF K
  <2> QED BY <1>6 DEF Words
<1> HIDE DEF A
<1>8. /\ Changes(a, b, s0, Scratch, A) /\ b.busy = {}
      /\ \A k \in K : ContentAt(s2, Place(s, F, move, k), 64) = Content(s1, F[k].reg)
  <2>1. Scratch \cup {F[k].reg : k \in {}} = Scratch
    OBVIOUS
  <2> QED BY <1>3, <1>5, <1>6, <1>7, <2>1 DEF Moves, s1
<1>9. Changes(g, b, s0, U, A) /\ IsMachine(s2) /\ Writer(b)
  <2>1. U \cup Scratch \subseteq U /\ {} \cup A \subseteq A
    OBVIOUS
  <2> HIDE DEF U
  <2> QED BY <1>4, <1>8, <2>1, ChangesTogether DEF s
<1>10. Effect(b, c, s0, U) /\ c.busy = {} /\ Content(s3, SP) = Content(s2, SP) + (-next)
  BY <1>2, <1>8, <1>9, MoveSPDoes
<1> HIDE DEF c, s2
<1>11. Changes(b, c, s0, U, {}) /\ OnlyRegisters(s2, s3, U)
  BY <1>9, <1>10, EffectChanges DEF Effect, s2
<1>12. Changes(g, c, s0, U, A)
  <2>1. U \cup U \subseteq U /\ A \cup {} \subseteq A
    OBVIOUS
  <2> HIDE DEF U
  <2> QED BY <1>9, <1>11, <2>1, ChangesTogether DEF s
<1> HIDE DEF s3
<1>13. Content(s3, SP) = Content(s, SP) - move
  <2>1. Content(s2, SP) = Content(s1, SP)
    BY <1>8, ScratchIs DEF Changes, OnlyThese, s1, s2
  <2> DEFINE x == Content(s, SP)
  <2>2. Content(s3, SP) = (x + (-one)) + (-next) /\ x \in Int
    BY <1>2, <1>3, <1>10, <2>1 DEF s1, s2, s3
  <2> HIDE DEF x
  <2>3. (x + (-one)) + (-next) = x - move
    BY <1>2, <1>2a, <2>2
  <2> QED BY <2>2, <2>3 DEF x
<1>14. \A k \in K : ContentAt(s3, Place(s, F, move, k), 64) = Content(s, F[k].reg)
  <2> TAKE k \in K
  <2>1. Content(s1, F[k].reg) = Content(s, F[k].reg)
    BY <1>2, <1>4 DEF OnlyRegisters
  <2>2. OnlyThese(s2, s3, U, {})
    BY <1>11 DEF Changes, s2, s3
  <2> HIDE DEF U, K
  <2>3. ContentAt(s3, Place(s, F, move, k), 64) = ContentAt(s2, Place(s, F, move, k), 64)
    BY <1>9, <2>2, Doubles DEF s2
  <2>4. ContentAt(s2, Place(s, F, move, k), 64) = Content(s1, F[k].reg)
    BY <1>8
  <2> QED BY <2>1, <2>3, <2>4
<1> QED BY <1>1, <1>10, <1>12, <1>13, <1>14 DEF Enters, F, move, s, s3, A

LEMMA SuffixDoes ==
  ASSUME NEW X, NEW fn, fn.saved \in Seq(X), fn.move \in Int, FirstMove(fn) \in Int,
         SavesIn(fn.saved, fn.move - FirstMove(fn)),
         NEW g, Writer(g), g.busy = {}, NEW s0, IsMachine(After(g, s0))
  PROVE  Returns(g, FunctionSuffix(g, fn), fn, s0)
<1> DEFINE F == fn.saved
           K == 1..Len(F)
           move == fn.move
           one == FirstMove(fn)
           next == move - one
           a == MoveSP(g, next)
           b == LoadAll(LoadAll(a, Floats(F), next), Ints(F), next)
           c == MoveSP(b, one)
           s == After(g, s0)
           s1 == After(a, s0)
           s2 == After(b, s0)
           s3 == After(c, s0)
           U == Scratch \cup {SP}
           R0 == {F[k].reg : k \in K}
           V == U \cup R0
<1>1. FunctionSuffix(g, fn) = c
  BY DEF FunctionSuffix
<1>2. one \in Int /\ next \in Int /\ move \in Int /\ Content(s, SP) \in Int
      /\ \A k \in K : F[k].at \in Int /\ F[k].reg \notin U
  BY ContentIs DEF SavesIn
<1>2a. SavesIn(F, next) /\ F \in Seq(X) /\ next + one = move
  BY <1>2
<1> HIDE DEF F, move, one, next, s
<1>3. Effect(g, a, s0, U) /\ a.busy = {} /\ Content(s1, SP) = Content(s, SP) + next
  BY <1>2, MoveSPDoes DEF s
<1> HIDE DEF a
<1>4. Changes(g, a, s0, U, {}) /\ Writer(a) /\ IsMachine(s1) /\ OnlyThese(s, s1, U, {})
  BY <1>3, EffectChanges DEF Effect, OnlyRegisters, s, Changes
<1>5. Moves(a, b, s0, F, next, TRUE, K)
  BY <1>2a, <1>3, <1>4, HalvesMove
<1> HIDE DEF b, s1
<1>6. \A k \in K : Place(s1, F, next, k) = Place(s, F, 0, k)
  <2> TAKE k \in K
  <2> DEFINE x == F[k].at
             p == Content(s, SP)
  <2>1. Place(s1, F, next, k) = (p + next) + (x - next) /\ Place(s, F, 0, k) = p + (x - 0)
    BY <1>3 DEF Place
  <2>2. x \in Int /\ p \in Int
    BY <1>2
  <2> HIDE DEF x, p, K
  <2> QED BY <1>2, <1>2a, <2>1, <2>2
<1>8. /\ Changes(a, b, s0, Scratch \cup R0, {}) /\ b.busy = {}
      /\ \A k \in K : Content(s2, F[k].reg) = ContentAt(s1, Place(s, F, 0, k), 64)
  BY <1>3, <1>5, <1>6 DEF Moves, s1
<1>8a. SP \notin Scratch \cup R0
  BY <1>2, ScratchIs
<1> HIDE DEF R0
<1>9. Changes(g, b, s0, V, {}) /\ IsMachine(s2) /\ Writer(b)
  <2>1. U \cup (Scratch \cup R0) \subseteq V /\ {} \cup {} \subseteq {}
    OBVIOUS
  <2> HIDE DEF U, V
  <2> QED BY <1>4, <1>8, <2>1, ChangesTogether DEF s
<1>10. Effect(b, c, s0, U) /\ c.busy = {} /\ Content(s3, SP) = Content(s2, SP) + one
  <2>1. one \in Int /\ Writer(b) /\ b.busy = {} /\ IsMachine(After(b, s0))
    BY <1>2, <1>8, <1>9
  <2> HIDE DEF b, one
  <2> QED BY <2>1, MoveSPDoes
<1> HIDE DEF c, s2
<1>11. Changes(b, c, s0, U, {}) /\ OnlyRegisters(s2, s3, U)
  BY <1>9, <1>10, EffectChanges DEF Effect, s2
<1>12. Changes(g, c, s0, V, {})
  <2>1. V \cup U \subseteq V /\ {} \cup {} \subseteq {}
    OBVIOUS
  <2> HIDE DEF U, V
  <2> QED BY <1>9, <1>11, <2>1, ChangesTogether DEF s
<1> HIDE DEF s3
<1>13. Content(s3, SP) = Content(s, SP) + move
  <2>1. Content(s2, SP) = Content(s1, SP)
    BY <1>8, <1>8a DEF Changes, OnlyThese, s1, s2
  <2> DEFINE x == Content(s, SP)
  <2>2. Content(s3, SP) = (x + next) + one /\ x \in Int
    BY <1>2, <1>3, <1>10, <2>1 DEF s1, s2, s3
  <2> HIDE DEF x
  <2>3. (x + next) + one = x + move
    BY <1>2, <1>2a, <2>2
  <2> QED BY <2>2, <2>3 DEF x
<1>14. \A k \in K : Content(s3, F[k].reg) = ContentAt(s, Place(s, F, 0, k), 64)
  <2> TAKE k \in K
  <2>1. Content(s3, F[k].reg) = Content(s2, F[k].reg)
    BY <1>2, <1>11 DEF OnlyRegisters
  <2>2. Content(s2, F[k].reg) = ContentAt(s1, Place(s, F, 0, k), 64)
    BY <1>8
  <2> HIDE DEF U, K
  <2>3. ContentAt(s1, Place(s, F, 0, k), 64) = ContentAt(s, Place(s, F, 0, k), 64)
    BY <1>4, Doubles DEF s
  <2> QED BY <2>1, <2>2, <2>3
<1> QED BY <1>1, <1>10, <1>12, <1>13, <1>14 DEF Returns, F, move, s, s3, R0

(***************************************************************************)
(* A callee leaves the registers it has saved as it found them: the        *)
(* prologue that functionPrefix() writes lowers SP by the size of the      *)
(* frame and changes nothing but SP, the scratch registers and the words   *)
(* where the frame has the saved registers; if the body of the function    *)
(* keeps SP and these words, then the epilogue of functionSuffix() puts    *)
(* every saved register, and SP, back to what they held on entry, and      *)
(* changes nothing else but the scratch registers - with as many registers *)
(* and as large a frame as there may be, in one move of SP or in two, with *)
(* STP and LDP of pairs and STR and LDR of a register without a partner.   *)
(***************************************************************************)
THEOREM CalleeKeepsRegisters ==
  ASSUME NEW stack \in Seq(Nat \ {0}), NEW regs \in Seq(Restorable), NEW fix \in Seq({4, 8}),
         Distinct(regs), 8 * Len(regs) <= PairLimit,
         NEW fn, FrameOf(fn, stack, regs, fix),
         NEW g, Writer(g), g.busy = {}, NEW s0, IsMachine(After(g, s0)),
         NEW h, Writer(h), h.busy = {}, NEW s1, IsMachine(After(h, s1)),
         LET s == After(g, s0)
             p == After(FunctionPrefix(g, fn), s0)
             e == After(h, s1)
         IN  /\ Content(e, SP) = Content(p, SP)
             /\ \A w \in Words(s, fn.saved, fn.move, 1..Len(regs)) : ReadMem(e, w) = ReadMem(p, w)
  PROVE  LET s == After(g, s0)
             p == After(FunctionPrefix(g, fn), s0)
             z == After(FunctionSuffix(h, fn), s1)
         IN  /\ Changes(g, FunctionPrefix(g, fn), s0, Scratch \cup {SP},
                        Words(s, fn.saved, fn.move, 1..Len(regs)))
             /\ Content(p, SP) = Content(s, SP) - fn.move
             /\ Changes(h, FunctionSuffix(h, fn), s1,
                        Scratch \cup {SP} \cup {regs[k] : k \in 1..Len(regs)}, {})
             /\ Content(z, SP) = Content(s, SP)
             /\ \A k \in 1..Len(regs) : Content(z, regs[k]) = Content(s, regs[k])
<1> DEFINE F == fn.saved
           K == 1..Len(regs)
           move == fn.move
           a == FunctionPrefix(g, fn)
           b == FunctionSuffix(h, fn)
           s == After(g, s0)
           p == After(a, s0)
           e == After(h, s1)
           z == After(b, s1)
           A == Words(s, F, move, K)
<1>1. /\ move \in Nat /\ FirstMove(fn) \in Int
      /\ Len(F) = Len(regs) /\ Len(regs) \in Nat
      /\ F \in Seq([reg : Restorable, at : Int])
      /\ \A k \in K : F[k].reg = regs[k]
      /\ SavesIn(F, move - FirstMove(fn))
  BY FrameSaves
<1>2. move \in Int
  BY <1>1
<1>3. /\ Changes(g, a, s0, Scratch \cup {SP}, Words(s, F, move, 1..Len(F)))
      /\ Content(p, SP) = Content(s, SP) - move
      /\ \A k \in 1..Len(F) : ContentAt(p, Place(s, F, move, k), 64) = Content(s, F[k].reg)
  <2>1. Enters(g, a, fn, s0)
    BY <1>1, <1>2, PrefixDoes
  <2> QED BY <2>1 DEF Enters
<1>4. /\ Changes(h, b, s1, Scratch \cup {SP} \cup {F[k].reg : k \in 1..Len(F)}, {})
      /\ Content(z, SP) = Content(e, SP) + move
      /\ \A k \in 1..Len(F) : Content(z, F[k].reg) = ContentAt(e, Place(e, F, 0, k), 64)
  <2>1. Returns(h, b, fn, s1)
    BY <1>1, <1>2, SuffixDoes
  <2> QED BY <2>1 DEF Returns
<1>5. /\ Content(e, SP) = Content(p, SP)
      /\ \A w \in A : ReadMem(e, w) = ReadMem(p, w)
  OBVIOUS
<1>6. Content(s, SP) \in Int /\ \A k \in K : F[k].at \in Int
  BY <1>1, ContentIs DEF SavesIn
<1> HIDE DEF a, b, s, p, e, z, F, move
<1>7. ASSUME NEW k \in K PROVE Content(z, regs[k]) = Content(s, regs[k])
  <2>1. Place(e, F, 0, k) = Place(s, F, move, k)
    <3> DEFINE x == F[k].at
               y == Content(s, SP)
    <3>1. Place(e, F, 0, k) = (y - move) + (x - 0) /\ Place(s, F, move, k) = y + (x - move)
      BY <1>3, <1>5 DEF Place
    <3>2. x \in Int /\ y \in Int
      BY <1>6
    <3> HIDE DEF x, y
    <3> QED BY <1>2, <3>1, <3>2
  <2>2. Place(s, F, move, k) \in A /\ Place(s, F, move, k) + 4 \in A
    BY DEF Words
  <2>3. ContentAt(e, Place(s, F, move, k), 64) = ContentAt(p, Place(s, F, move, k), 64)
    <3> HIDE DEF A
    <3> QED BY <1>5, <2>2 DEF ContentAt
  <2> QED BY <1>1, <1>3, <1>4, <2>1, <2>3
<1>8. Content(z, SP) = Content(s, SP)
  <2> DEFINE y == Content(s, SP)
  <2>1. Content(z, SP) = (y - move) + move /\ y \in Int
    BY <1>3, <1>4, <1>5, <1>6
  <2> HIDE DEF y
  <2> QED BY <1>2, <2>1 DEF y
<1>9. {F[k].reg : k \in 1..Len(F)} = {regs[k] : k \in K}
  BY <1>1
<1>10. /\ Changes(g, a, s0, Scratch \cup {SP}, A)
       /\ Changes(h, b, s1, Scratch \cup {SP} \cup {regs[k] : k \in K}, {})
  BY <1>1, <1>3, <1>4, <1>9
<1> HIDE DEF A
<1> QED BY <1>3, <1>7, <1>8, <1>10 DEF a, b, s, p, z, F, move, A

-----------------------------------------------------------------------------
(* str() and ldr() of operands.                                              *)
Global(o) == \E n \in Int : o = <<"g", n>>

(* op2reg() has put the operand o into the register l.reg.                   *)
Holds(l, g, s0, o, w) ==
  /\ Writer(l.g) /\ IsMachine(After(l.g, s0))
  /\ Effect(g, l.g, s0, Scratch \ g.busy)
  /\ l.reg \in Registers /\ l.reg \notin Scratch \ l.g.busy
  /\ Operand(After(l.g, s0), l.reg, w) = Operand(After(g, s0), o, w)
  /\ l.g.busy = g.busy \/ l.g.busy = g.busy \cup {l.reg}

LEMMA OperandHeld ==
  ASSUME NEW g, Writer(g), NEW s0, IsMachine(After(g, s0)), g.busy # Scratch, NEW w \in Widths,
         NEW o, Source(o) \/ (w = 64 /\ Global(o))
  PROVE  Holds(Op2Reg(g, o, w), g, s0, o, w)
<1> DEFINE l == Op2Reg(g, o, w)
           s == After(g, s0)
<1>1. CASE o \in IntRegisters \ Scratch
  <2>1. l = [reg |-> o, g |-> g]
    BY <1>1 DEF Op2Reg, IntRegisters
  <2>2. l.reg = o /\ l.g = g
    BY <2>1
  <2>3. Effect(g, g, s0, Scratch \ g.busy)
    BY OnlyNone DEF Effect
  <2> HIDE DEF l
  <2> QED BY <1>1, <2>2, <2>3, ScratchIs DEF Holds, l
<1>2. ASSUME ~(o \in IntRegisters \ Scratch)
      PROVE  Holds(l, g, s0, o, w)
  <2> DEFINE ip == GetIP(g)
             g1 == ip.g
             q == ip.reg
             h == Copy(g1, q, o, w)
  <2>1. (\E n \in WordSet : o = C(n)) \/ (w = 64 /\ Global(o))
    BY <1>2 DEF Source
  <2>2. l = [reg |-> q, g |-> h]
    <3>1. o[1] # "r"
      BY <2>1 DEF C, Global
    <3> QED BY <3>1 DEF Op2Reg, InScratch
  <2>3. l.reg = q /\ l.g = h
    BY <2>2
  <2>4. /\ Effect(g, g1, s0, {}) /\ After(g1, s0) = s
        /\ Writer(g1) /\ IsMachine(After(g1, s0))
        /\ q \in Scratch \ g.busy /\ q \in Registers /\ q # ZR
        /\ g1.busy = g.busy \cup {q}
    BY TakeScratch
  <2> HIDE DEF ip, g1, q, l, s
  <2>5. /\ Effect(g1, h, s0, {q}) /\ h.busy = g1.busy
        /\ Operand(After(h, s0), q, w) = Operand(s, o, w)
    <3>1. ASSUME NEW n \in WordSet, o = C(n)
          PROVE  /\ Effect(g1, h, s0, {q}) /\ h.busy = g1.busy
                 /\ Operand(After(h, s0), q, w) = Operand(s, o, w)
      <4> DEFINE i == MakeImmediate(g1, n, q, w)
      <4>1. h = i
        BY <3>1 DEF Copy, C
      <4>2. n \in Int /\ Writer(g1) /\ IsMachine(After(g1, s0)) /\ q \in Registers /\ q # ZR
        BY <2>4, WordsAre
      <4> HIDE DEF h
      <4>3. /\ Effect(g1, i, s0, {q}) /\ i.busy = g1.busy
            /\ Operand(After(i, s0), q, w) = AtWidth(n, w)
        BY <4>2, MakeImmediateDoes
      <4> HIDE DEF i
      <4>4. Operand(s, o, w) = AtWidth(n, w)
        BY <3>1, OperandIs64
      <4> QED BY <4>1, <4>3, <4>4
    <3>2. ASSUME NEW n \in Int, o = <<"g", n>>, w = 64
          PROVE  /\ Effect(g1, h, s0, {q}) /\ h.busy = g1.busy
                 /\ Operand(After(h, s0), q, w) = Operand(s, o, w)
      <4> DEFINE i == MCopy(o, q, 64)
                 k == Put(g1, i)
                 x == Operand(s, o, 64)
      <4>1. h = k
        BY <3>2 DEF Copy
      <4>2. x = 4 * n
        BY <3>2 DEF Operand, AddressOf
      <4>2a. x \in Int
        BY <4>2
      <4>3. Issue(i, After(g1, s0)) = SetTo(After(g1, s0), q, x, 64)
        BY <2>4, IssueCopy
      <4> HIDE DEF h, i, x
      <4>4. /\ Effect(g1, k, s0, {q}) /\ k.busy = g1.busy
            /\ Operand(After(k, s0), q, 64) = AtWidth(x, 64)
        BY <2>4, <3>2, <4>2a, <4>3, PutSets
      <4>5. AtWidth(x, 64) = x
        BY DEF AtWidth
      <4> HIDE DEF k
      <4> QED BY <3>2, <4>1, <4>4, <4>5 DEF x
    <3> HIDE DEF h
    <3> QED BY <2>1, <3>1, <3>2 DEF Global
  <2> HIDE DEF h
  <2>6. Effect(g, h, s0, {q}) /\ IsMachine(After(h, s0)) /\ Writer(h)
    <3>1. {} \cup {q} \subseteq {q}
      OBVIOUS
    <3> QED BY <2>4, <2>5, <3>1, EffectTogether DEF Effect
  <2>7. Effect(g, h, s0, Scratch \ g.busy)
    <3>1. {q} \subseteq Scratch \ g.busy
      BY <2>4
    <3> QED BY <2>6, <3>1, OnlyMore DEF Effect
  <2>8. q \notin Scratch \ h.busy /\ h.busy = g.busy \cup {q}
    BY <2>4, <2>5
  <2> QED BY <2>3, <2>4, <2>5, <2>6, <2>7, <2>8 DEF Holds, s
<1> QED BY <1>1, <1>2

(* The value x of w bits stored at a, or what is there loaded into t.        *)
Stored(g, h, s0, a, x, w) ==
  /\ Changes(g, h, s0, Scratch, Filled(a, w)) /\ h.busy = {}
  /\ ContentAt(After(h, s0), a, w) = Fits(x, w)
Loaded(g, h, s0, a, t, w) ==
  /\ Changes(g, h, s0, Scratch \cup {t}, {}) /\ h.busy = {}
  /\ Content(After(h, s0), t) = ContentAt(After(g, s0), a, w)

LEMMA StoreInFrameDoes ==
  ASSUME NEW g, Writer(g), g.busy = {}, NEW s0, IsMachine(After(g, s0)), NEW w \in Widths,
         NEW o, Source(o), NEW offset \in Int, offset % Bytes(w) = 0
  PROVE  Stored(g, StoreInFrame(Op2Reg(g, o, w), offset, w), s0,
                Content(After(g, s0), SP) + offset, Operand(After(g, s0), o, w), w)
<1> DEFINE l == Op2Reg(g, o, w)
           g1 == l.g
           r == l.reg
           h1 == At(g1, r, SP, offset, w, FALSE)
           h2 == ReleaseIP(h1, r)
           s == After(g, s0)
           x == Operand(s, o, w)
           a == Content(s, SP) + offset
           A == Filled(a, w)
<1>1. StoreInFrame(l, offset, w) = h2
  BY DEF StoreInFrame
<1>2. Holds(l, g, s0, o, w)
  <2>1. g.busy # Scratch
    BY DEF Scratch
  <2> QED BY <2>1, OperandHeld
<1> HIDE DEF l
<1>3. /\ Writer(g1) /\ IsMachine(After(g1, s0)) /\ Effect(g, g1, s0, Scratch)
      /\ r \in Registers /\ r \notin Scratch \ g1.busy
      /\ Operand(After(g1, s0), r, w) = x
      /\ g1.busy = {} \/ g1.busy = {r}
  <2>1. Effect(g, g1, s0, Scratch)
    <3>1. Scratch \ g.busy = Scratch
      OBVIOUS
    <3> QED BY <1>2, <3>1 DEF Holds
  <2> QED BY <1>2, <2>1 DEF Holds
<1>4. g1.busy # Scratch /\ SP \in Registers /\ SP \notin Scratch \ g1.busy
  BY <1>3, ScratchIs DEF Scratch
<1>5. Content(After(g1, s0), SP) = Content(s, SP)
  BY <1>3, ScratchIs DEF Effect, OnlyRegisters
<1> HIDE DEF g1, r, x, s
<1>6. Transfers(g1, h1, s0, r, a, w, FALSE, Scratch)
  <2>1. Transfers(g1, h1, s0, r, Content(After(g1, s0), SP) + offset, w, FALSE, Scratch)
    <3> HIDE DEF h1
    <3> QED BY <1>3, <1>4, AtDoes DEF h1
  <2> QED BY <1>5, <2>1
<1> HIDE DEF h1, a
<1>7. /\ h1.busy = g1.busy /\ Changes(g1, h1, s0, Scratch, A)
      /\ ContentAt(After(h1, s0), a, w) = Fits(x, w)
  <2>1. Scratch \cup {} = Scratch
    OBVIOUS
  <2> QED BY <1>3, <1>6, <2>1 DEF Transfers
<1> HIDE DEF A
<1>8. Changes(g, h1, s0, Scratch, A) /\ IsMachine(After(h1, s0)) /\ Writer(h1)
  <2>1. Changes(g, g1, s0, Scratch, {})
    BY <1>3, EffectChanges
  <2>2. Scratch \cup Scratch \subseteq Scratch /\ {} \cup A \subseteq A
    OBVIOUS
  <2> QED BY <1>7, <2>1, <2>2, ChangesTogether
<1>9. /\ Effect(h1, h2, s0, {}) /\ After(h2, s0) = After(h1, s0) /\ h2.busy = h1.busy \ {r}
  BY <1>8, GiveScratch
<1> HIDE DEF h2
<1>10. Changes(g, h2, s0, Scratch, A)
  <2>1. Changes(h1, h2, s0, {}, {})
    BY <1>8, <1>9, EffectChanges
  <2>2. Scratch \cup {} \subseteq Scratch /\ A \cup {} \subseteq A
    OBVIOUS
  <2> QED BY <1>8, <2>1, <2>2, ChangesTogether
<1>11. h2.busy = {}
  BY <1>3, <1>7, <1>9
<1> QED BY <1>1, <1>7, <1>9, <1>10, <1>11 DEF Stored, A, a, x, s, l

(* What is addressed: by a register or a global.                             *)
Address(o) == o \in IntRegisters \ Scratch \/ Global(o)

LEMMA AddressOperand ==
  ASSUME NEW o, Address(o), NEW s, IsMachine(s)
  PROVE  /\ o[1] \in {"r", "g"} /\ (Source(o) \/ Global(o))
         /\ Operand(s, o, 64) \in Int
<1>1. CASE o \in IntRegisters \ Scratch
  <2>1. o[1] = "r" /\ Source(o) /\ o \in Registers
    BY <1>1 DEF Source, IntRegisters, Registers
  <2>2. Operand(s, o, 64) = AtWidth(Content(s, o), 64)
    BY <2>1, OperandIs64
  <2>3. Operand(s, o, 64) \in Int
    BY <2>2, ContentIs DEF AtWidth
  <2> QED BY <2>1, <2>3
<1>2. CASE Global(o)
  <2>1. PICK n \in Int : o = <<"g", n>>
    BY <1>2 DEF Global
  <2>2. Operand(s, o, 64) = 4 * n
    BY <2>1 DEF Operand, AddressOf
  <2> QED BY <1>2, <2>1, <2>2
<1> QED BY <1>1, <1>2 DEF Address

LEMMA NoOffset ==
  ASSUME NEW w \in Widths
  PROVE  0 \in Int /\ 0 % Bytes(w) = 0 /\ InImm9(0)
BY LimitAssumption DEF Bytes, InImm9

(* From g to h the register r has been moved to or from the address a.        *)
Reaches(g, h, s0, r, a, w, load) ==
  /\ Changes(g, h, s0, Scratch \cup (IF load THEN {r} ELSE {}), IF load THEN {} ELSE Filled(a, w))
  /\ Writer(h) /\ IsMachine(After(h, s0))
  /\ h.busy \subseteq g.busy
  /\ IF load THEN Content(After(h, s0), r) = ContentAt(After(g, s0), a, w)
     ELSE ContentAt(After(h, s0), a, w) = Fits(Operand(After(g, s0), r, w), w)

LEMMA ReachedByRegister ==
  ASSUME NEW g, Writer(g), NEW s0, IsMachine(After(g, s0)), g.busy # Scratch,
         NEW r \in Registers, r \notin Scratch \ g.busy, NEW w \in Widths,
         NEW load \in BOOLEAN, load => r # ZR, NEW o, Address(o)
  PROVE  Reaches(g, AtAddress(Op2Reg(g, o, 64), r, w, load), s0, r,
                 Operand(After(g, s0), o, 64), w, load)
<1> DEFINE l == Op2Reg(g, o, 64)
           g1 == l.g
           q == l.reg
           h1 == At(g1, r, q, 0, w, load)
           h2 == ReleaseIP(h1, q)
           s == After(g, s0)
           a == Operand(s, o, 64)
           T == Scratch \cup (IF load THEN {r} ELSE {})
           A == IF load THEN {} ELSE Filled(a, w)
<1>1. AtAddress(l, r, w, load) = h2
  BY DEF AtAddress
<1>2. Holds(l, g, s0, o, 64) /\ a \in Int
  <2>1. 64 \in Widths
    BY DEF Widths
  <2> QED BY <2>1, OperandHeld, AddressOperand
<1> HIDE DEF l
<1>3. /\ Writer(g1) /\ IsMachine(After(g1, s0)) /\ Effect(g, g1, s0, Scratch \ g.busy)
      /\ q \in Registers /\ q \notin Scratch \ g1.busy
      /\ Operand(After(g1, s0), q, 64) = a
      /\ g1.busy = g.busy \/ g1.busy = g.busy \cup {q}
  BY <1>2 DEF Holds
<1>4. r \notin Scratch \ g1.busy
  BY <1>3
<1>5. Content(After(g1, s0), q) = a
  BY <1>3, OperandIs64 DEF AtWidth
<1>6. Operand(After(g1, s0), r, w) = Operand(s, r, w)
  BY <1>3, OperandsStay DEF Effect
<1>7. ContentAt(After(g1, s0), a, w) = ContentAt(s, a, w)
  <2>1. OnlyThese(s, After(g1, s0), Scratch \ g.busy, {})
    BY <1>3, OnlyTheseRegisters DEF Effect
  <2>2. Filled(a, w) \cap {} = {}
    OBVIOUS
  <2> QED BY <2>1, <2>2, WhatIsThere
<1>8. Changes(g, g1, s0, Scratch \ g.busy, {})
  BY <1>3, EffectChanges
<1> HIDE DEF g1, q, s, a
<1>9. Transfers(g1, h1, s0, r, a, w, load, Scratch)
  <2>1. Transfers(g1, h1, s0, r, Content(After(g1, s0), q) + 0, w, load, Scratch)
    <3> HIDE DEF h1
    <3> QED BY <1>3, <1>4, NoOffset, AtDoes DEF h1
  <2>2. a + 0 = a
    BY <1>2
  <2> QED BY <1>5, <2>1, <2>2
<1> HIDE DEF h1
<1>10. /\ h1.busy = g1.busy /\ Changes(g1, h1, s0, T, A)
       /\ IF load THEN Content(After(h1, s0), r) = ContentAt(s, a, w)
          ELSE ContentAt(After(h1, s0), a, w) = Fits(Operand(s, r, w), w)
  BY <1>6, <1>7, <1>9 DEF Transfers
<1>11. Changes(g, h1, s0, T, A) /\ IsMachine(After(h1, s0)) /\ Writer(h1)
  <2>1. (Scratch \ g.busy) \cup T \subseteq T /\ {} \cup A \subseteq A
    OBVIOUS
  <2> HIDE DEF T, A
  <2> QED BY <1>8, <1>10, <2>1, ChangesTogether
<1>12. /\ Effect(h1, h2, s0, {}) /\ After(h2, s0) = After(h1, s0) /\ h2.busy = h1.busy \ {q}
       /\ Writer(h2)
  BY <1>11, GiveScratch
<1> HIDE DEF h2
<1>13. Changes(g, h2, s0, T, A)
  <2>1. Changes(h1, h2, s0, {}, {})
    BY <1>11, <1>12, EffectChanges
  <2>2. T \cup {} \subseteq T /\ A \cup {} \subseteq A
    OBVIOUS
  <2> HIDE DEF T, A
  <2> QED BY <1>11, <2>1, <2>2, ChangesTogether
<1>14. h2.busy \subseteq g.busy
  BY <1>3, <1>10, <1>12
<1> QED BY <1>1, <1>10, <1>11, <1>12, <1>13, <1>14 DEF Reaches, a, s, l

LEMMA StoreInDoes ==
  ASSUME NEW g, Writer(g), g.busy = {}, NEW s0, IsMachine(After(g, s0)), NEW w \in Widths,
         NEW v, Source(v), NEW o, Address(o)
  PROVE  Stored(g, StoreIn(Op2Reg(g, v, w), o, w), s0,
                Operand(After(g, s0), o, 64), Operand(After(g, s0), v, w), w)
<1> DEFINE l == Op2Reg(g, v, w)
           g1 == l.g
           r == l.reg
           h1 == AtAddress(Op2Reg(g1, o, 64), r, w, FALSE)
           h2 == ReleaseIP(h1, r)
           s == After(g, s0)
           x == Operand(s, v, w)
           a == Operand(s, o, 64)
           A == Filled(a, w)
<1>1. StoreIn(l, o, w) = h2
  BY DEF StoreIn
<1>2. Holds(l, g, s0, v, w)
  <2>1. g.busy # Scratch
    BY DEF Scratch
  <2> QED BY <2>1, OperandHeld
<1> HIDE DEF l
<1>3. /\ Writer(g1) /\ IsMachine(After(g1, s0)) /\ Effect(g, g1, s0, Scratch)
      /\ r \in Registers /\ r \notin Scratch \ g1.busy
      /\ Operand(After(g1, s0), r, w) = x
      /\ g1.busy = {} \/ g1.busy = {r}
  <2>1. Effect(g, g1, s0, Scratch)
    <3>1. Scratch \ g.busy = Scratch
      OBVIOUS
    <3> QED BY <1>2, <3>1 DEF Holds
  <2> QED BY <1>2, <2>1 DEF Holds
<1>4. g1.busy # Scratch
  BY <1>3, ScratchIs DEF Scratch
<1>5. Operand(After(g1, s0), o, 64) = a
  <2>1. CASE o \in IntRegisters \ Scratch
    BY <1>3, <2>1, OperandsStay, ScratchIs DEF Effect
  <2>2. CASE Global(o)
    BY <2>2 DEF Global, Operand, AddressOf
  <2> QED BY <2>1, <2>2 DEF Address
<1> HIDE DEF g1, r, x, a, s
<1>6. /\ Changes(g1, h1, s0, Scratch \cup {}, A)
      /\ Writer(h1) /\ IsMachine(After(h1, s0)) /\ h1.busy \subseteq g1.busy
      /\ ContentAt(After(h1, s0), a, w) = Fits(x, w)
  <2>1. Reaches(g1, h1, s0, r, a, w, FALSE)
    BY <1>3, <1>4, <1>5, ReachedByRegister
  <2> HIDE DEF h1, A
  <2> QED BY <1>3, <2>1 DEF Reaches, A
<1> HIDE DEF h1, A
<1>7. Changes(g, h1, s0, Scratch, A)
  <2>1. Changes(g, g1, s0, Scratch, {})
    BY <1>3, EffectChanges
  <2>2. Scratch \cup (Scratch \cup {}) \subseteq Scratch /\ {} \cup A \subseteq A
    OBVIOUS
  <2> QED BY <1>6, <2>1, <2>2, ChangesTogether
<1>8. /\ Effect(h1, h2, s0, {}) /\ After(h2, s0) = After(h1, s0) /\ h2.busy = h1.busy \ {r}
  BY <1>6, GiveScratch
<1> HIDE DEF h2
<1>9. Changes(g, h2, s0, Scratch, A)
  <2>1. Changes(h1, h2, s0, {}, {})
    BY <1>6, <1>8, EffectChanges
  <2>2. Scratch \cup {} \subseteq Scratch /\ A \cup {} \subseteq A
    OBVIOUS
  <2> QED BY <1>7, <2>1, <2>2, ChangesTogether
<1>10. h2.busy = {}
  BY <1>3, <1>6, <1>8
<1> QED BY <1>1, <1>6, <1>8, <1>9, <1>10 DEF Stored, A, a, x, s, l

\* Where the machine s finds what str() and ldr() are given.
InFrame(g, o, w) == o[1] \in {"k", "x"} /\ FrameOffsetOf(g, o) \in Int /\ FrameOffsetOf(g, o) % Bytes(w) = 0
WhereIs(g, s, o) == IF o[1] \in {"r", "g"} THEN Operand(s, o, 64) ELSE Content(s, SP) + FrameOffsetOf(g, o)

(* str() and ldr(): a value is stored, and what is there is loaded, at the   *)
(* address in a register, of a global or of a place in the frame, however    *)
(* far it is from SP; the scratch registers are free again, and no other     *)
(* register or memory and no assertion is touched.                           *)
THEOREM StoresAndLoads ==
  ASSUME NEW g, Writer(g), g.busy = {}, NEW s0, IsMachine(After(g, s0)), NEW w \in Widths,
         NEW o, Address(o) \/ InFrame(g, o, w)
  PROVE  /\ \A v : Source(v) => Stored(g, Str(g, v, o, w, FALSE), s0, WhereIs(g, After(g, s0), o),
                                       Operand(After(g, s0), v, w), w)
         /\ \A t \in Registers \ (Scratch \cup {ZR}) :
              Loaded(g, Ldr(g, t, o, w), s0, WhereIs(g, After(g, s0), o), t, w)
<1> DEFINE s == After(g, s0)
           a == WhereIs(g, s, o)
<1>0. g.busy # Scratch
  BY DEF Scratch
<1>1. ASSUME Address(o), NEW v, Source(v)
      PROVE  Stored(g, Str(g, v, o, w, FALSE), s0, a, Operand(s, v, w), w)
  <2>1. o[1] \in {"r", "g"}
    BY <1>1, AddressOperand
  <2>2. Str(g, v, o, w, FALSE) = StoreIn(Op2Reg(g, v, w), o, w) /\ a = Operand(s, o, 64)
    BY <2>1 DEF Str, WhereIs
  <2> QED BY <1>1, <2>2, StoreInDoes
<1>2. ASSUME Address(o), NEW t \in Registers \ (Scratch \cup {ZR})
      PROVE  Loaded(g, Ldr(g, t, o, w), s0, a, t, w)
  <2> DEFINE h == AtAddress(Op2Reg(g, o, 64), t, w, TRUE)
  <2>1. o[1] \in {"r", "g"}
    BY <1>2, AddressOperand
  <2>2. Ldr(g, t, o, w) = h /\ a = Operand(s, o, 64)
    BY <2>1 DEF Ldr, WhereIs
  <2>3. Reaches(g, h, s0, t, Operand(s, o, 64), w, TRUE)
    BY <1>0, <1>2, ReachedByRegister
  <2> HIDE DEF h
  <2> QED BY <2>2, <2>3 DEF Reaches, Loaded
<1>3. ASSUME ~Address(o)
      PROVE  /\ o[1] \in {"k", "x"} /\ FrameOffsetOf(g, o) \in Int /\ FrameOffsetOf(g, o) % Bytes(w) = 0
             /\ a = Content(s, SP) + FrameOffsetOf(g, o)
  BY <1>3 DEF InFrame, WhereIs
<1> DEFINE n == FrameOffsetOf(g, o)
<1>4. ASSUME ~Address(o), NEW v, Source(v)
      PROVE  Stored(g, Str(g, v, o, w, FALSE), s0, a, Operand(s, v, w), w)
  <2>1. Str(g, v, o, w, FALSE) = StoreInFrame(Op2Reg(g, v, w), n, w) /\ a = Content(s, SP) + n
        /\ n \in Int /\ n % Bytes(w) = 0
    BY <1>3, <1>4 DEF Str
  <2> HIDE DEF n, a
  <2> QED BY <1>4, <2>1, StoreInFrameDoes
<1>5. ASSUME ~Address(o), NEW t \in Registers \ (Scratch \cup {ZR})
      PROVE  Loaded(g, Ldr(g, t, o, w), s0, a, t, w)
  <2> DEFINE h == At(g, t, SP, n, w, TRUE)
  <2>1. Ldr(g, t, o, w) = h /\ a = Content(s, SP) + n /\ n \in Int /\ n % Bytes(w) = 0
    BY <1>3, <1>5 DEF Ldr
  <2> HIDE DEF n, a
  <2>2. Transfers(g, h, s0, t, Content(s, SP) + n, w, TRUE, Scratch)
    <3>1. t \in Registers /\ t \notin Scratch \ g.busy /\ t # ZR
          /\ SP \in Registers /\ SP \notin Scratch \ g.busy
      BY <1>5, ScratchIs
    <3> HIDE DEF h
    <3> QED BY <1>0, <2>1, <3>1, AtDoes DEF h
  <2> HIDE DEF h
  <2>3. Transfers(g, h, s0, t, a, w, TRUE, Scratch)
    BY <2>1, <2>2
  <2> QED BY <2>1, <2>3 DEF Transfers, Loaded
<1> QED BY <1>1, <1>2, <1>4, <1>5

-----------------------------------------------------------------------------
(* Arguments on the stack of a callee whose frame is fn.                     *)
CallFrame(fn, stack, regs, fix) ==
  LET frame == Frame(stack, regs, fix)
  IN  fn.move = frame.move /\ fn.fixMove = frame.fixMove /\ fn.fixOffset = frame.fixOffset

\* The offset from SP, moved for the call, of the argument j.
Passed(fn, j) == fn.fixOffset[j] - fn.move
\* Where it lies when SP was at b before it was moved.
ArgumentAt(fn, b, j) == b - fn.fixMove + Passed(fn, j)

LEMMA FrameMove ==
  ASSUME NEW Register, NEW stack \in Seq(Size), NEW regs \in Seq(Register), NEW fix \in Seq({4, 8})
  PROVE  Frame(stack, regs, fix).move % 16 = 0
<1> DEFINE slots == Ends(stack, 0)
           top == slots[Len(stack)]
           end == IF regs = <<>> THEN top ELSE FirstSave(top) + 8 * Len(regs)
<1>1. Frame(stack, regs, fix).move = UpTo(end, 16)
  BY DEF Frame
<1>2. top \in Nat
  <2>1. slots \in [0..Len(stack) -> Nat]
    BY EndsRise
  <2>2. Len(stack) \in Nat
    OBVIOUS
  <2>3. Len(stack) \in 0..Len(stack)
    BY <2>2
  <2> HIDE DEF slots
  <2> QED BY <2>1, <2>3
<1> HIDE DEF top
<1>3. FirstSave(top) \in Nat
  BY <1>2, UpToIsAbove DEF FirstSave
<1>4. Len(regs) \in Nat
  OBVIOUS
<1>5. end \in Nat
  BY <1>2, <1>3, <1>4
<1> HIDE DEF end
<1> QED BY <1>1, <1>5, UpToIsAbove

ArgumentsFit(fn, fix) ==
  /\ fn.move \in Nat /\ fn.fixMove \in Nat /\ fn.move % 16 = 0
  /\ \A j \in 1..Len(fix) :
       /\ fn.fixOffset[j] \in Nat
       /\ fn.move <= fn.fixOffset[j] /\ fn.fixOffset[j] + fix[j] <= fn.move + fn.fixMove
       /\ fn.fixOffset[j] % fix[j] = 0
       /\ \A k \in 1..Len(fix) : j # k => \/ fn.fixOffset[j] + fix[j] <= fn.fixOffset[k]
                                          \/ fn.fixOffset[k] + fix[k] <= fn.fixOffset[j]

LEMMA ArgumentPlaces ==
  ASSUME NEW Register, NEW stack \in Seq(Nat \ {0}), NEW regs \in Seq(Register), NEW fix \in Seq({4, 8}),
         NEW fn, CallFrame(fn, stack, regs, fix)
  PROVE  ArgumentsFit(fn, fix)
<1> DEFINE frame == Frame(stack, regs, fix)
<1>1. frame.fixMove \in Nat /\ frame.move \in Nat /\ frame.move % 16 = 0
  <2>1. frame.fixMove \in Nat /\ frame.move \in Nat
    BY FrameHasParts DEF Parts, Size
  <2> HIDE DEF frame
  <2> QED BY <2>1, FrameMove DEF Size, frame
<1>2. FrameApart(stack, fix, frame)
  BY NothingOverlaps
<1>3. fn.move = frame.move /\ fn.fixMove = frame.fixMove /\ fn.fixOffset = frame.fixOffset
  BY DEF CallFrame
<1> HIDE DEF frame
<1> DEFINE low(o) == Bottom(frame, o)
           high(o) == Top(stack, fix, frame, o)
           arg(j) == <<"argument", j>>
<1>4. \A j \in 1..Len(fix) : /\ arg(j) \in Incoming(fix) /\ arg(j) \notin Slots(stack)
                             /\ low(arg(j)) = fn.fixOffset[j]
                             /\ high(arg(j)) = fn.fixOffset[j] + fix[j]
  BY <1>3 DEF Incoming, Slots, Bottom, Top
<1>5. \A j, k \in 1..Len(fix) : j # k => arg(j) # arg(k)
  OBVIOUS
<1> HIDE DEF arg, low, high
<1>6. ASSUME NEW j \in 1..Len(fix)
      PROVE  /\ frame.move <= low(arg(j)) /\ high(arg(j)) <= frame.move + frame.fixMove
             /\ low(arg(j)) % (high(arg(j)) - low(arg(j))) = 0
             /\ \A k \in 1..Len(fix) : j # k => high(arg(j)) <= low(arg(k)) \/ high(arg(k)) <= low(arg(j))
  BY <1>2, <1>4, <1>5 DEF FrameApart, low, high
<1>7. ASSUME NEW j \in 1..Len(fix)
      PROVE  /\ fn.fixOffset[j] \in Nat
             /\ fn.fixOffset[j] % fix[j] = 0
  <2>1. PICK top, first, end : Parts(stack, regs, fix, frame, top, first, end)
    BY FrameHasParts DEF Size, frame
  <2>2. PICK b : /\ Row(Backwards(fix), b, frame.move, end)
                 /\ frame.fixOffset = [k \in 1..Len(fix) |-> b[Len(fix) + 1 - k]]
    BY <2>1 DEF Parts
  <2>3. Len(fix) + 1 - j \in 1..Len(fix) /\ Len(Backwards(fix)) = Len(fix)
    BY BackwardsReverses
  <2>4. b[Len(fix) + 1 - j] \in Nat
    BY <2>2, <2>3 DEF Row
  <2>5. fn.fixOffset[j] \in Nat
    BY <1>3, <2>2, <2>4
  <2> DEFINE x == fn.fixOffset[j]
             n == fix[j]
  <2>6. low(arg(j)) = x /\ high(arg(j)) = x + n
    BY <1>4
  <2>7. x \in Nat /\ n \in {4, 8}
    BY <2>5
  <2> HIDE DEF x, n
  <2>8. (x + n) - x = n
    BY <2>7
  <2>9. x % n = 0
    BY <1>6, <2>6, <2>8
  <2> QED BY <2>5, <2>9 DEF x, n
<1>8. ASSUME NEW j \in 1..Len(fix)
      PROVE  /\ fn.move <= fn.fixOffset[j] /\ fn.fixOffset[j] + fix[j] <= fn.move + fn.fixMove
             /\ \A k \in 1..Len(fix) : j # k => \/ fn.fixOffset[j] + fix[j] <= fn.fixOffset[k]
                                                \/ fn.fixOffset[k] + fix[k] <= fn.fixOffset[j]
  BY <1>3, <1>4, <1>6
<1> QED BY <1>1, <1>3, <1>7, <1>8 DEF ArgumentsFit

LEMMA ArgumentOffset ==
  ASSUME NEW x \in Nat, NEW m \in Nat, NEW n \in {4, 8}, NEW w \in Widths, Bytes(w) <= n,
         x % n = 0, m % 16 = 0
  PROVE  x - m \in Int /\ (x - m) % Bytes(w) = 0
<1> DEFINE b == Bytes(w)
<1>1. b \in {4, 8} /\ b <= n
  BY ByteCount
<1> HIDE DEF b
<1>2. CASE n = 4
  <2>1. b = 4
    BY <1>1, <1>2
  <2>2. x % 4 = 0
    BY <1>2
  <2>3. (x - m) % 4 = 0
    BY <2>2
  <2> QED BY <2>1, <2>3 DEF b
<1>3. CASE n = 8
  <2>1. x % 8 = 0
    BY <1>3
  <2>2. (x - m) % 8 = 0 /\ (x - m) % 4 = 0
    BY <2>1
  <2> QED BY <1>1, <2>2 DEF b
<1> QED BY <1>2, <1>3

\* Where SP is but for the arguments that have been stored for a call.
Base(g, s) == Content(s, SP) + (IF g.callee = 0 THEN 0 ELSE g.x.fn[g.callee].fixMove)

(* From g to h the value of v, of w bits, has been stored as the argument j  *)
(* of f.                                                                     *)
Passes(g, h, s0, f, j, v, w) ==
  LET fn == g.x.fn[f]
      s == After(g, s0)
      e == After(h, s0)
      a == ArgumentAt(fn, Base(g, s), j)
  IN  /\ Writer(h) /\ h.busy = {} /\ h.x = g.x /\ h.f = g.f /\ h.callee = f
      /\ OnlyThese(s, e, Scratch \cup {SP}, Filled(a, w))
      /\ Content(e, SP) = Base(g, s) - fn.fixMove
      /\ ContentAt(e, a, w) = Fits(Operand(s, v, w), w)

MovesSP(g, h, s0, d) ==
  /\ Writer(h) /\ h.busy = {} /\ h.x = g.x /\ h.f = g.f
  /\ OnlyRegisters(After(g, s0), After(h, s0), Scratch \cup {SP})
  /\ Content(After(h, s0), SP) = Content(After(g, s0), SP) + d

LEMMA SPMoved ==
  ASSUME NEW g, Writer(g), g.busy = {}, NEW s0, IsMachine(After(g, s0)), NEW d \in Int
  PROVE  MovesSP(g, MoveSP(g, d), s0, d)
<1> DEFINE h == MoveSP(g, d)
<1>1. /\ Effect(g, h, s0, Scratch \cup {SP}) /\ h.busy = {}
      /\ Content(After(h, s0), SP) = Content(After(g, s0), SP) + d
  BY MoveSPDoes
<1> HIDE DEF h
<1> QED BY <1>1 DEF MovesSP, Effect, h

LEMMA MovedForDoes ==
  ASSUME NEW g, Writer(g), g.busy = {}, NEW s0, IsMachine(After(g, s0)),
         NEW f, g.x.fn[f].fixMove \in Int
  PROVE  /\ MovesSP(g, MovedFor(g, f), s0, -(g.x.fn[f].fixMove))
         /\ MovedFor(g, f).callee = f
<1> DEFINE n == g.x.fn[f].fixMove
           k == MoveSP(g, -n)
           h == MovedFor(g, f)
<1>1. h = [k EXCEPT !.callee = f]
  BY DEF MovedFor, MoveSP
<1>2. MovesSP(g, k, s0, -n)
  BY SPMoved
<1> HIDE DEF k, h
<1>3. Writer(k)
  BY <1>2 DEF MovesSP
<1>4. /\ DOMAIN h = DOMAIN k /\ h.is = k.is /\ h.busy = k.busy /\ h.x = k.x /\ h.f = k.f /\ h.callee = f
  BY <1>1, <1>3 DEF Writer
<1>5. Writer(h) /\ After(h, s0) = After(k, s0)
  BY <1>3, <1>4 DEF Writer, After
<1> QED BY <1>2, <1>4, <1>5 DEF MovesSP, h

LEMMA ValueStays ==
  ASSUME NEW s, NEW e, OnlyRegisters(s, e, Scratch \cup {SP}), NEW v, Source(v), v # SP
  PROVE  \A w : Operand(e, v, w) = Operand(s, v, w)
<1> TAKE w
<1>1. CASE v \in IntRegisters \ Scratch
  BY <1>1, OperandsStay, ScratchIs
<1>2. CASE \E k \in WordSet : v = C(k)
  BY <1>2, OperandsStay
<1> QED BY <1>1, <1>2 DEF Source

LEMMA PassesArgument ==
  ASSUME NEW Register, NEW stack \in Seq(Nat \ {0}), NEW regs \in Seq(Register), NEW fix \in Seq({4, 8}),
         NEW g, Writer(g), g.busy = {}, NEW s0, IsMachine(After(g, s0)),
         NEW f, f # 0, g.callee \in {0, f}, CallFrame(g.x.fn[f], stack, regs, fix),
         NEW j \in 1..Len(fix), NEW w \in Widths, Bytes(w) <= fix[j],
         NEW v, Source(v), v # SP
  PROVE  Passes(g, Str(g, v, <<"x", f, j>>, w, TRUE), s0, f, j, v, w)
<1> DEFINE fn == g.x.fn[f]
           o == <<"x", f, j>>
           h0 == IF g.callee = 0 THEN MovedFor(g, f) ELSE g
           n == Passed(fn, j)
           h == StoreInFrame(Op2Reg(h0, v, w), n, w)
           s == After(g, s0)
           s1 == After(h0, s0)
           e == After(h, s0)
           b == Base(g, s)
           m == fn.fixMove
<1>1. /\ m \in Int /\ n \in Int /\ n % Bytes(w) = 0
  <2> DEFINE x == fn.fixOffset[j]
             y == fn.move
             z == fix[j]
  <2>1. x \in Nat /\ y \in Nat /\ y % 16 = 0 /\ x % z = 0 /\ m \in Int /\ z \in {4, 8}
    <3>1. ArgumentsFit(fn, fix)
      BY ArgumentPlaces
    <3> HIDE DEF fn
    <3> QED BY <3>1 DEF ArgumentsFit
  <2>2. n = x - y
    BY DEF Passed
  <2> HIDE DEF x, y, n, m
  <2>3. Bytes(w) <= z
    BY DEF z
  <2> HIDE DEF z
  <2> QED BY <2>1, <2>2, <2>3, ArgumentOffset
<1>2. Content(s, SP) \in Int
  BY ContentIs
<1>3. /\ Writer(h0) /\ h0.busy = {} /\ h0.x = g.x /\ h0.f = g.f /\ h0.callee = f
      /\ OnlyRegisters(s, s1, Scratch \cup {SP})
      /\ Content(s1, SP) = b - m
  <2>1. CASE g.callee = 0
    <3>1. h0 = MovedFor(g, f) /\ b = Content(s, SP) + 0
      BY <2>1 DEF Base
    <3>2. b = Content(s, SP)
      BY <1>2, <3>1
    <3>3. MovesSP(g, h0, s0, -m) /\ h0.callee = f
      BY <1>1, <3>1, MovedForDoes
    <3>4. Content(s, SP) + (-m) = Content(s, SP) - m
      <4> DEFINE c == Content(s, SP)
      <4> HIDE DEF c, m
      <4> QED BY <1>1, <1>2 DEF c
    <3> HIDE DEF b, h0, m
    <3> QED BY <3>2, <3>3, <3>4 DEF MovesSP
  <2>2. CASE g.callee = f
    <3>1. h0 = g /\ b = Content(s, SP) + m
      BY <2>2 DEF Base
    <3> DEFINE c == Content(s, SP)
    <3>2. (c + m) - m = c
      <4> HIDE DEF m, c
      <4> QED BY <1>1, <1>2 DEF c
    <3>3. OnlyRegisters(s, s, Scratch \cup {SP})
      BY OnlyNone
    <3> HIDE DEF b, h0, m, s
    <3> QED BY <2>2, <3>1, <3>2, <3>3 DEF s
  <2> QED BY <2>1, <2>2
<1>4. Str(g, v, o, w, TRUE) = h
  <2>1. Str(g, v, o, w, TRUE) = StoreForCall(h0, v, o, w)
    BY DEF Str
  <2> HIDE DEF h0
  <2>2. Assured(h0, h0.callee = o[2]) = h0 /\ CalleeOffset(h0, o) = n
    BY <1>3 DEF Assured, CalleeOffset, Passed
  <2> QED BY <2>1, <2>2 DEF StoreForCall
<1> HIDE DEF h0, n, m, s, b
<1>5. IsMachine(s1)
  BY <1>3 DEF OnlyRegisters
<1>6. Operand(s1, v, w) = Operand(s, v, w)
  <2>1. OnlyRegisters(s, s1, Scratch \cup {SP})
    BY <1>3
  <2> HIDE DEF s1, h, e
  <2>2. \A p, q : OnlyRegisters(p, q, Scratch \cup {SP}) =>
          \A k : Source(k) /\ k # SP => \A y : Operand(q, k, y) = Operand(p, k, y)
    BY ValueStays
  <2>3. \A k : Source(k) /\ k # SP => \A y : Operand(s1, k, y) = Operand(s, k, y)
    BY <2>1, <2>2
  <2>4. \A y : Operand(s1, v, y) = Operand(s, v, y)
    BY <2>3
  <2> QED BY <2>4
<1>7. Stored(h0, h, s0, Content(s1, SP) + n, Operand(s1, v, w), w)
  <2> HIDE DEF h
  <2> QED BY <1>1, <1>3, <1>5, StoreInFrameDoes DEF h
<1> HIDE DEF h
<1> DEFINE a == (b - m) + n
           A == Filled(a, w)
<1>8. /\ Changes(h0, h, s0, Scratch, A) /\ h.busy = {}
      /\ ContentAt(e, a, w) = Fits(Operand(s, v, w), w)
  BY <1>3, <1>6, <1>7 DEF Stored
<1> HIDE DEF a, A
<1>9. /\ Writer(h) /\ h.x = g.x /\ h.f = g.f /\ h.callee = f
      /\ OnlyThese(s1, e, Scratch, A)
  BY <1>3, <1>8 DEF Changes, s1
<1> HIDE DEF s1, e
<1>10. OnlyThese(s, e, Scratch \cup {SP}, A)
  <2>1. OnlyThese(s, s1, Scratch \cup {SP}, {})
    BY <1>3, OnlyTheseRegisters DEF s
  <2>2. (Scratch \cup {SP}) \cup Scratch \subseteq Scratch \cup {SP} /\ {} \cup A \subseteq A
    OBVIOUS
  <2>3. IsMachine(s)
    BY DEF s
  <2> QED BY <1>9, <2>1, <2>2, <2>3, TheseTogether
<1>11. Content(e, SP) = b - m
  BY <1>3, <1>9, ScratchIs DEF OnlyThese
<1> QED BY <1>4, <1>8, <1>9, <1>10, <1>11 DEF Passes, ArgumentAt, a, A, b, m, n, s, e

(* call(): SP is where it was before the first argument was stored.          *)
LEMMA BackFromDoes ==
  ASSUME NEW g, Writer(g), g.busy = {}, NEW s0, IsMachine(After(g, s0)),
         NEW f, f # 0, g.callee = f, g.x.fn[f].fixMove \in Int
  PROVE  MovesSP(g, BackFrom(g, f), s0, g.x.fn[f].fixMove) /\ BackFrom(g, f).callee = 0
<1> DEFINE n == g.x.fn[f].fixMove
           k == MoveSP(g, n)
           h == BackFrom(g, f)
<1>1. h = [k EXCEPT !.callee = 0]
  <2>1. Assured(g, f = g.callee) = g
    BY DEF Assured
  <2> QED BY <2>1 DEF BackFrom, MoveSP
<1>2. MovesSP(g, k, s0, n)
  BY SPMoved
<1> HIDE DEF k, h
<1>3. Writer(k)
  BY <1>2 DEF MovesSP
<1>4. /\ DOMAIN h = DOMAIN k /\ h.is = k.is /\ h.busy = k.busy /\ h.x = k.x /\ h.f = k.f /\ h.callee = 0
  BY <1>1, <1>3 DEF Writer
<1>5. Writer(h) /\ After(h, s0) = After(k, s0)
  BY <1>3, <1>4 DEF Writer, After
<1> QED BY <1>2, <1>4, <1>5 DEF MovesSP, h

(* What has been stored and loaded again is the value.                       *)
LEMMA LoadedIsStored ==
  ASSUME NEW x \in Int, NEW w \in Widths, w = 32 => x \in WordSet
  PROVE  AtWidth(Fits(x, w), w) = x
<1>1. CASE w = 32
  BY <1>1, WrapOfUnsigned, WrapOfWord DEF AtWidth, Fits
<1>2. CASE w = 64
  BY <1>2 DEF AtWidth, Fits
<1> QED BY <1>1, <1>2 DEF Widths

LEMMA SourceValue ==
  ASSUME NEW s, IsMachine(s), NEW w \in Widths, NEW o, Source(o)
  PROVE  Operand(s, o, w) \in Int /\ (w = 32 => Operand(s, o, w) \in WordSet)
<1>1. CASE o \in IntRegisters \ Scratch
  BY <1>1, OperandsAre, ScratchIs
<1>2. CASE \E n \in WordSet : o = C(n)
  BY <1>2, OperandsAre, WordsAre
<1> QED BY <1>1, <1>2 DEF Source

(* Arguments are in the part of the stack that the caller has given to the   *)
(* call, above the frame of the callee, and apart from each other.           *)
LEMMA ArgumentsApart ==
  ASSUME NEW fix \in Seq({4, 8}), NEW fn, ArgumentsFit(fn, fix), NEW b \in Int,
         NEW j \in 1..Len(fix), NEW w \in Widths, Bytes(w) <= fix[j]
  PROVE  /\ b - fn.fixMove <= ArgumentAt(fn, b, j) /\ ArgumentAt(fn, b, j) + Bytes(w) <= b
         /\ \A k \in 1..Len(fix), u \in Widths : k # j /\ Bytes(u) <= fix[k]
              => Filled(ArgumentAt(fn, b, k), u) \cap Filled(ArgumentAt(fn, b, j), w) = {}
<1> DEFINE m == fn.move
           n == fn.fixMove
           at(k) == fn.fixOffset[k]
<1>1. \A k \in 1..Len(fix) : ArgumentAt(fn, b, k) = (b - n) + (at(k) - m)
  BY DEF ArgumentAt, Passed
<1>2. /\ m \in Nat /\ n \in Nat
      /\ \A k \in 1..Len(fix) : /\ at(k) \in Nat /\ m <= at(k) /\ at(k) + fix[k] <= m + n
                                /\ j # k => at(j) + fix[j] <= at(k) \/ at(k) + fix[k] <= at(j)
  BY DEF ArgumentsFit
<1>3. \A k \in 1..Len(fix) : fix[k] \in {4, 8}
  OBVIOUS
<1>4. \A u \in Widths : Bytes(u) \in {4, 8}
  BY ByteCount
<1> HIDE DEF m, n, at
<1>5. b - n <= ArgumentAt(fn, b, j) /\ ArgumentAt(fn, b, j) + Bytes(w) <= b
  <2> DEFINE x == at(j)
             y == fix[j]
             z == Bytes(w)
  <2>1. x \in Nat /\ m <= x /\ x + y <= m + n /\ y \in {4, 8} /\ z \in {4, 8} /\ z <= y
        /\ ArgumentAt(fn, b, j) = (b - n) + (x - m)
    BY <1>1, <1>2, <1>3, <1>4
  <2> HIDE DEF x, y, z
  <2> QED BY <1>2, <2>1 DEF z
<1>6. ASSUME NEW k \in 1..Len(fix), NEW u \in Widths, k # j, Bytes(u) <= fix[k]
      PROVE  Filled(ArgumentAt(fn, b, k), u) \cap Filled(ArgumentAt(fn, b, j), w) = {}
  <2> DEFINE x == at(j)
             y == at(k)
             p == ArgumentAt(fn, b, j)
             q == ArgumentAt(fn, b, k)
             c == Bytes(w)
             d == Bytes(u)
  <2>1. x \in Nat /\ y \in Nat /\ c \in {4, 8} /\ d \in {4, 8}
        /\ (x + c <= y \/ y + d <= x)
    <3>1. x + fix[j] <= y \/ y + fix[k] <= x
      BY <1>2, <1>6
    <3>2. fix[j] \in {4, 8} /\ fix[k] \in {4, 8} /\ c \in {4, 8} /\ d \in {4, 8} /\ c <= fix[j] /\ d <= fix[k]
          /\ x \in Nat /\ y \in Nat
      BY <1>2, <1>3, <1>4, <1>6
    <3> HIDE DEF x, y, c, d
    <3> QED BY <3>1, <3>2
  <2>2. p = (b - n) + (x - m) /\ q = (b - n) + (y - m)
    BY <1>1
  <2> HIDE DEF x, y, p, q, c, d
  <2>3. p \in Int /\ q \in Int /\ (p + c <= q \/ q + d <= p)
    BY <1>2, <2>1, <2>2
  <2>4. /\ \A v \in Filled(p, w) : v \in Int /\ p <= v /\ v < p + c
        /\ \A v \in Filled(q, u) : v \in Int /\ q <= v /\ v < q + d
    BY <2>3 DEF Filled, c, d, Bytes, Widths
  <2>5. \A v \in Int : ~(p <= v /\ v < p + c /\ q <= v /\ v < q + d)
    BY <2>1, <2>3
  <2> QED BY <2>4, <2>5 DEF p, q
<1> QED BY <1>5, <1>6 DEF n

(* An argument lies at a multiple of its size.                               *)
LEMMA ArgumentAligned ==
  ASSUME NEW fix \in Seq({4, 8}), NEW fn, ArgumentsFit(fn, fix),
         NEW j \in 1..Len(fix), NEW w \in Widths, Bytes(w) <= fix[j]
  PROVE  fn.fixOffset[j] % Bytes(w) = 0
<1> DEFINE b == Bytes(w)
           x == fn.fixOffset[j]
           n == fix[j]
<1>1. x \in Nat /\ x % n = 0 /\ n \in {4, 8} /\ b <= n
  BY DEF ArgumentsFit
<1>2. b \in {4, 8}
  BY ByteCount
<1> HIDE DEF b, x, n
<1>3. CASE n = 4
  <2>1. b = 4 /\ x % 4 = 0
    BY <1>1, <1>2, <1>3
  <2>2. x % b = 0
    BY <2>1
  <2> QED BY <2>2 DEF b, x
<1>4. CASE n = 8
  <2>1. x % 8 = 0
    BY <1>1, <1>4
  <2>2. x % 4 = 0
    BY <1>1, <2>1
  <2>3. x % b = 0
    BY <1>2, <2>1, <2>2
  <2> QED BY <2>3 DEF b, x
<1> QED BY <1>1, <1>3, <1>4

(* The callee k, its prologue done, loads its argument j.                    *)
LEMMA CalleeLoads ==
  ASSUME NEW fix \in Seq({4, 8}), NEW k, Writer(k), k.busy = {}, k.callee = 0,
         NEW f, k.f = f, NEW fn, k.x.fn[f] = fn, ArgumentsFit(fn, fix),
         NEW s1, IsMachine(After(k, s1)), NEW b \in Int,
         Content(After(k, s1), SP) = (b - fn.fixMove) - fn.move,
         NEW j \in 1..Len(fix), NEW w \in Widths, Bytes(w) <= fix[j],
         NEW t \in Registers \ (Scratch \cup {ZR})
  PROVE  Loaded(k, Ldr(k, t, <<"x", f, j>>, w), s1, ArgumentAt(fn, b, j), t, w)
<1> DEFINE o == <<"x", f, j>>
           s == After(k, s1)
           x == fn.fixOffset[j]
           m == fn.move
           n == fn.fixMove
<1>1. /\ x \in Nat /\ m \in Nat /\ n \in Nat /\ m % 16 = 0
      /\ x % fix[j] = 0 /\ fix[j] \in {4, 8}
  BY DEF ArgumentsFit
<1>2. FrameOffsetOf(k, o) = x + 0
  BY DEF FrameOffsetOf, OwnOffset
<1>2a. x + 0 = x /\ 0 % 16 = 0 /\ 0 \in Nat /\ x - 0 = x
  BY <1>1
<1>3. InFrame(k, o, w)
  <2>1. x % Bytes(w) = 0
    BY ArgumentAligned
  <2>2. o[1] \in {"k", "x"}
    OBVIOUS
  <2> HIDE DEF x, o
  <2> QED BY <1>1, <1>2, <1>2a, <2>1, <2>2 DEF InFrame
<1>4. WhereIs(k, s, o) = ArgumentAt(fn, b, j)
  <2>1. WhereIs(k, s, o) = ((b - n) - m) + x
    BY <1>2, <1>2a DEF WhereIs
  <2>2. ArgumentAt(fn, b, j) = (b - n) + (x - m)
    BY DEF ArgumentAt, Passed
  <2> HIDE DEF x, m, n, o, s
  <2>3. ((b - n) - m) + x = (b - n) + (x - m)
    BY <1>1
  <2> QED BY <2>1, <2>2, <2>3
<1> HIDE DEF o, x, m, n
<1>5. Loaded(k, Ldr(k, t, o, w), s1, WhereIs(k, s, o), t, w)
  BY <1>3, StoresAndLoads
<1> QED BY <1>4, <1>5 DEF o

(* The caller's own places, while arguments are stored.                      *)
LEMMA OwnPlaces ==
  ASSUME NEW g, NEW s, NEW o, o[1] \in {"k", "x"}, OwnOffset(g, o) \in Int,
         IsMachine(s), g.callee = 0 \/ g.x.fn[g.callee].fixMove \in Int
  PROVE  WhereIs(g, s, o) = Base(g, s) + OwnOffset(g, o)
<1> DEFINE c == Content(s, SP)
           d == IF g.callee = 0 THEN 0 ELSE g.x.fn[g.callee].fixMove
           x == OwnOffset(g, o)
<1>1. WhereIs(g, s, o) = c + (x + d) /\ Base(g, s) = c + d
  BY DEF WhereIs, FrameOffsetOf, Base
<1>2. c \in Int /\ d \in Int /\ x \in Int
  BY ContentIs
<1> HIDE DEF c, d, x
<1>3. c + (x + d) = (c + d) + x
  BY <1>2
<1> QED BY <1>1, <1>3 DEF x

(***************************************************************************)
(* str() of an argument for a call, call() after it: SP moves by the       *)
(* callee's fixMove with the first argument and not with the others; the   *)
(* value lies at the place of the argument, in what SP has moved over,     *)
(* apart from every other argument; no other memory, no assertion and, but *)
(* for SP and the scratch registers, no register is touched; the caller    *)
(* finds its own slots and arguments where they were, although SP has      *)
(* moved; and after the call SP is back.                                   *)
(***************************************************************************)
THEOREM ArgumentsPassed ==
  ASSUME NEW Register, NEW stack \in Seq(Nat \ {0}), NEW regs \in Seq(Register), NEW fix \in Seq({4, 8}),
         NEW g, Writer(g), g.busy = {}, NEW s0, IsMachine(After(g, s0)),
         NEW f, f # 0, g.callee \in {0, f}, CallFrame(g.x.fn[f], stack, regs, fix),
         NEW j \in 1..Len(fix), NEW w \in Widths, Bytes(w) <= fix[j],
         NEW v, Source(v), v # SP
  PROVE  LET h == Str(g, v, <<"x", f, j>>, w, TRUE)
             fn == g.x.fn[f]
             s == After(g, s0)
             e == After(h, s0)
             b == Base(g, s)
             a == ArgumentAt(fn, b, j)
         IN  /\ Passes(g, h, s0, f, j, v, w)
             /\ \A o : o[1] \in {"k", "x"} /\ OwnOffset(g, o) \in Int => WhereIs(h, e, o) = WhereIs(g, s, o)
             /\ Content(e, SP) <= a /\ a + Bytes(w) <= b
             /\ \A k \in 1..Len(fix), u \in Widths : k # j /\ Bytes(u) <= fix[k]
                  => Filled(ArgumentAt(fn, b, k), u) \cap Filled(a, w) = {}
             /\ \A i, s1 : /\ Writer(i) /\ i.busy = {} /\ i.callee = f /\ i.x.fn[f] = g.x.fn[f]
                           /\ IsMachine(After(i, s1)) /\ Content(After(i, s1), SP) = Content(e, SP)
                  => /\ BackFrom(i, f).callee = 0
                     /\ OnlyRegisters(After(i, s1), After(BackFrom(i, f), s1), Scratch \cup {SP})
                     /\ Content(After(BackFrom(i, f), s1), SP) = b
<1> DEFINE h == Str(g, v, <<"x", f, j>>, w, TRUE)
           fn == g.x.fn[f]
           s == After(g, s0)
           e == After(h, s0)
           b == Base(g, s)
           n == fn.fixMove
           a == ArgumentAt(fn, b, j)
<1>1. Passes(g, h, s0, f, j, v, w)
  BY PassesArgument
<1>2. ArgumentsFit(fn, fix)
  BY ArgumentPlaces
<1>3. n \in Int
  BY <1>2 DEF ArgumentsFit
<1>4. IsMachine(e) /\ h.x = g.x /\ h.f = g.f /\ h.callee = f /\ Content(e, SP) = b - n
  BY <1>1 DEF Passes, OnlyThese
<1>5. g.callee = 0 \/ g.x.fn[g.callee].fixMove \in Int
  BY <1>3
<1>6. b \in Int
  <2> DEFINE c == Content(s, SP)
             d == IF g.callee = 0 THEN 0 ELSE g.x.fn[g.callee].fixMove
  <2>1. c \in Int /\ d \in Int /\ b = c + d
    BY <1>5, ContentIs DEF Base
  <2> HIDE DEF c, d, b
  <2> QED BY <2>1
<1> HIDE DEF h
<1>7. Base(h, e) = b
  <2> DEFINE c == Content(e, SP)
  <2>1. Base(h, e) = c + n /\ c = b - n
    BY <1>4 DEF Base
  <2> HIDE DEF c, n, b
  <2> QED BY <1>3, <1>6, <2>1
<1>8. ASSUME NEW o, o[1] \in {"k", "x"}, OwnOffset(g, o) \in Int
      PROVE  WhereIs(h, e, o) = WhereIs(g, s, o)
  <2>1. OwnOffset(h, o) = OwnOffset(g, o)
    BY <1>4 DEF OwnOffset
  <2>2. WhereIs(g, s, o) = b + OwnOffset(g, o)
    BY <1>5, <1>8, OwnPlaces
  <2>3. h.callee = 0 \/ h.x.fn[h.callee].fixMove \in Int
    BY <1>3, <1>4
  <2>4. WhereIs(h, e, o) = Base(h, e) + OwnOffset(h, o)
    BY <1>4, <1>8, <2>1, <2>3, OwnPlaces
  <2> QED BY <1>7, <2>1, <2>2, <2>4
<1> HIDE DEF s, e, b, fn
<1>9. /\ b - n <= a /\ a + Bytes(w) <= b
      /\ \A k \in 1..Len(fix), u \in Widths : k # j /\ Bytes(u) <= fix[k]
            => Filled(ArgumentAt(fn, b, k), u) \cap Filled(a, w) = {}
  BY <1>2, <1>6, ArgumentsApart
<1>10. ASSUME NEW i, NEW s1, Writer(i), i.busy = {}, i.callee = f, i.x.fn[f] = g.x.fn[f],
              IsMachine(After(i, s1)), Content(After(i, s1), SP) = Content(e, SP)
       PROVE  /\ BackFrom(i, f).callee = 0
              /\ OnlyRegisters(After(i, s1), After(BackFrom(i, f), s1), Scratch \cup {SP})
              /\ Content(After(BackFrom(i, f), s1), SP) = b
  <2>1. i.x.fn[f].fixMove = n
    BY <1>10 DEF fn
  <2> HIDE DEF n
  <2>2. MovesSP(i, BackFrom(i, f), s1, n) /\ BackFrom(i, f).callee = 0
    BY <1>3, <1>10, <2>1, BackFromDoes
  <2>3. Content(After(BackFrom(i, f), s1), SP) = (b - n) + n
    BY <1>4, <1>10, <2>2 DEF MovesSP, n
  <2>4. (b - n) + n = b
    BY <1>3, <1>6
  <2> QED BY <2>2, <2>3, <2>4 DEF MovesSP
<1>11. Content(e, SP) <= a /\ a + Bytes(w) <= b
  BY <1>4, <1>9
<1> HIDE DEF a
<1>12. /\ \A o : o[1] \in {"k", "x"} /\ OwnOffset(g, o) \in Int => WhereIs(h, e, o) = WhereIs(g, s, o)
       /\ \A k \in 1..Len(fix), u \in Widths : k # j /\ Bytes(u) <= fix[k]
            => Filled(ArgumentAt(fn, b, k), u) \cap Filled(a, w) = {}
       /\ \A i, s1 : /\ Writer(i) /\ i.busy = {} /\ i.callee = f /\ i.x.fn[f] = g.x.fn[f]
                     /\ IsMachine(After(i, s1)) /\ Content(After(i, s1), SP) = Content(e, SP)
            => /\ BackFrom(i, f).callee = 0
               /\ OnlyRegisters(After(i, s1), After(BackFrom(i, f), s1), Scratch \cup {SP})
               /\ Content(After(BackFrom(i, f), s1), SP) = b
  <2>1. \A o : o[1] \in {"k", "x"} /\ OwnOffset(g, o) \in Int => WhereIs(h, e, o) = WhereIs(g, s, o)
    BY <1>8
  <2>2. \A i, s1 : /\ Writer(i) /\ i.busy = {} /\ i.callee = f /\ i.x.fn[f] = g.x.fn[f]
                   /\ IsMachine(After(i, s1)) /\ Content(After(i, s1), SP) = Content(e, SP)
            => /\ BackFrom(i, f).callee = 0
               /\ OnlyRegisters(After(i, s1), After(BackFrom(i, f), s1), Scratch \cup {SP})
               /\ Content(After(BackFrom(i, f), s1), SP) = b
    BY <1>10
  <2> QED BY <1>9, <2>1, <2>2
<1> QED BY <1>1, <1>11, <1>12 DEF a, b, e, s, fn, h

(* Where the callee's prologue saves registers no argument is.               *)
LEMMA SavedBelowArguments ==
  ASSUME NEW stack \in Seq(Nat \ {0}), NEW regs \in Seq(Restorable), NEW fix \in Seq({4, 8}),
         NEW fn, FrameOf(fn, stack, regs, fix), NEW s, IsMachine(s),
         NEW a \in Int, Content(s, SP) <= a, NEW w \in Widths
  PROVE  Filled(a, w) \cap Words(s, fn.saved, fn.move, 1..Len(fn.saved)) = {}
<1> DEFINE c == Content(s, SP)
           m == fn.move
           n == Len(regs)
<1>1. c \in Int
  BY ContentIs
<1>2. PICK first \in Nat :
        /\ m \in Nat /\ n \in Nat /\ Len(fn.saved) = n
        /\ \A k \in 1..n : fn.saved[k].at = first + 8 * (k - 1)
        /\ n # 0 => first + 8 * n <= m
  BY SavedRegisters
<1>3. \A q \in Filled(a, w) : q \in Int /\ c <= q
  <2>1. c <= a
    OBVIOUS
  <2> HIDE DEF c
  <2>2. c <= a + 4 /\ a + 4 \in Int
    BY <1>1, <2>1
  <2>3. \A q \in Filled(a, w) : q = a \/ q = a + 4
    BY DEF Filled
  <2> QED BY <2>1, <2>2, <2>3
<1>4. ASSUME NEW k \in 1..n
      PROVE  Place(s, fn.saved, m, k) \in Int /\ Place(s, fn.saved, m, k) + 4 < c
  <2>1. Place(s, fn.saved, m, k) = c + ((first + 8 * (k - 1)) - m)
    BY <1>2 DEF Place
  <2> HIDE DEF c, m, n
  <2>2. k \in Nat /\ k <= n /\ n # 0
    BY <1>2
  <2>3. first + 8 * n <= m /\ m \in Nat /\ n \in Nat
    BY <1>2, <2>2
  <2> QED BY <1>1, <2>1, <2>2, <2>3
<1> HIDE DEF c, m
<1>5. \A q \in Words(s, fn.saved, m, 1..n) : q \in Int /\ q < c
  BY <1>1, <1>4 DEF Words
<1>6. \A q \in Int : ~(c <= q /\ q < c)
  BY <1>1
<1> QED BY <1>2, <1>3, <1>5, <1>6 DEF m

(***************************************************************************)
(* An argument that str() has stored for a call is what the callee's ldr() *)
(* loads: the prologue of the callee, which lowers SP by the callee's own  *)
(* frame, saves registers elsewhere; and as long as SP is where that left  *)
(* it and the argument is not overwritten, the offset that the callee has  *)
(* for it leads to it, whatever is in either frame.  Caller and callee     *)
(* compute the place from the same frame, but from different SPs.          *)
(***************************************************************************)
THEOREM ArgumentsFound ==
  ASSUME NEW stack \in Seq(Nat \ {0}), NEW regs \in Seq(Restorable), NEW fix \in Seq({4, 8}),
         NEW g, Writer(g), g.busy = {}, NEW s0, IsMachine(After(g, s0)),
         NEW f, f # 0, g.callee \in {0, f},
         CallFrame(g.x.fn[f], stack, regs, fix), FrameOf(g.x.fn[f], stack, regs, fix),
         NEW j \in 1..Len(fix), NEW w \in Widths, Bytes(w) <= fix[j],
         NEW v, Source(v), v # SP,
         NEW k, Writer(k), k.busy = {}, k.callee = 0, k.f = f, k.x.fn[f] = g.x.fn[f],
         NEW s1, IsMachine(After(k, s1)),
         LET e == After(Str(g, v, <<"x", f, j>>, w, TRUE), s0)
             p == After(k, s1)
         IN  /\ Content(p, SP) = Content(e, SP) - g.x.fn[f].move
             /\ \A q \in Filled(ArgumentAt(g.x.fn[f], Base(g, After(g, s0)), j), w) : ReadMem(p, q) = ReadMem(e, q),
         NEW t \in Registers \ (Scratch \cup {ZR})
  PROVE  LET fn == g.x.fn[f]
             e == After(Str(g, v, <<"x", f, j>>, w, TRUE), s0)
             l == Ldr(k, t, <<"x", f, j>>, w)
         IN  /\ Filled(ArgumentAt(fn, Base(g, After(g, s0)), j), w)
                  \cap Words(e, fn.saved, fn.move, 1..Len(fn.saved)) = {}
             /\ Changes(k, l, s1, Scratch \cup {t}, {})
             /\ Operand(After(l, s1), t, w) = Operand(After(g, s0), v, w)
<1> DEFINE h == Str(g, v, <<"x", f, j>>, w, TRUE)
           fn == g.x.fn[f]
           s == After(g, s0)
           e == After(h, s0)
           p == After(k, s1)
           b == Base(g, s)
           n == fn.fixMove
           m == fn.move
           a == ArgumentAt(fn, b, j)
           l == Ldr(k, t, <<"x", f, j>>, w)
           x == Operand(s, v, w)
<1>1. /\ Content(p, SP) = Content(e, SP) - m
      /\ \A q \in Filled(a, w) : ReadMem(p, q) = ReadMem(e, q)
  OBVIOUS
<1>2. ArgumentsFit(fn, fix)
  BY ArgumentPlaces
<1>3. n \in Int /\ m \in Int /\ fn.fixOffset[j] \in Int
  <2> HIDE DEF fn
  <2>1. n \in Nat /\ m \in Nat /\ fn.fixOffset[j] \in Nat
    BY <1>2 DEF ArgumentsFit
  <2> QED BY <2>1
<1>4. Passes(g, h, s0, f, j, v, w)
  BY PassesArgument
<1>5. IsMachine(e) /\ Content(e, SP) = b - n /\ ContentAt(e, a, w) = Fits(x, w)
  BY <1>4 DEF Passes, OnlyThese
<1>6. b \in Int
  <2> DEFINE c == Content(s, SP)
             d == IF g.callee = 0 THEN 0 ELSE g.x.fn[g.callee].fixMove
  <2>1. c \in Int /\ d \in Int /\ b = c + d
    BY <1>3, ContentIs DEF Base
  <2> HIDE DEF c, d, b
  <2> QED BY <2>1
<1>7. x \in Int /\ (w = 32 => x \in WordSet)
  BY SourceValue
<1>8. k.x.fn[f] = fn
  OBVIOUS
<1>9. t \in Registers
  OBVIOUS
<1> HIDE DEF h, fn, s, e, p, b, x
<1>10. a \in Int /\ b - n <= a
  <2>1. b - n <= a
    BY <1>2, <1>6, ArgumentsApart
  <2> DEFINE y == fn.fixOffset[j]
  <2>2. a = (b - n) + (y - m) /\ y \in Int
    BY <1>3 DEF ArgumentAt, Passed
  <2> HIDE DEF y, n, m, a
  <2>3. a \in Int
    BY <1>3, <1>6, <2>2
  <2> QED BY <2>1, <2>3 DEF a, n
<1>11. Filled(a, w) \cap Words(e, fn.saved, m, 1..Len(fn.saved)) = {}
  <2>1. FrameOf(fn, stack, regs, fix)
    BY DEF fn
  <2> HIDE DEF a
  <2> QED BY <1>5, <1>10, <2>1, SavedBelowArguments
<1>12. Loaded(k, l, s1, a, t, w)
  <2>1. Content(p, SP) = (b - n) - m
    BY <1>1, <1>5
  <2> QED BY <1>2, <1>6, <1>8, <2>1, CalleeLoads DEF p
<1> HIDE DEF a, l, n, m
<1>13. Changes(k, l, s1, Scratch \cup {t}, {}) /\ Content(After(l, s1), t) = ContentAt(p, a, w)
  BY <1>12 DEF Loaded, p
<1>14. ContentAt(p, a, w) = ContentAt(e, a, w)
  BY <1>1 DEF ContentAt, Filled
<1>15. Operand(After(l, s1), t, w) = x
  <2>1. \A y : Operand(y, t, w) = AtWidth(Content(y, t), w)
    BY <1>9, OperandIs64
  <2>2. Content(After(l, s1), t) = Fits(x, w)
    BY <1>5, <1>13, <1>14
  <2> QED BY <1>7, <2>1, <2>2, LoadedIsStored
<1> QED BY <1>11, <1>13, <1>15 DEF a, l, m, b, e, s, fn, h, x

-----------------------------------------------------------------------------
(* Addresses of elements: op2reg() of a base, and what is added to it.       *)
Base64(g, o) == Address(o) \/ (o[1] \in {"k", "x"} /\ FrameOffsetOf(g, o) \in Int)

Finds(l, g, s0, a) ==
  /\ Writer(l.g) /\ IsMachine(After(l.g, s0))
  /\ Effect(g, l.g, s0, Scratch)
  /\ l.reg \in Registers /\ l.reg \notin Scratch \ l.g.busy
  /\ Operand(After(l.g, s0), l.reg, 64) = a
  /\ l.g.busy \subseteq {l.reg}

LEMMA BaseFound ==
  ASSUME NEW g, Writer(g), g.busy = {}, NEW s0, IsMachine(After(g, s0)), NEW o, Base64(g, o)
  PROVE  Finds(Op2Reg(g, o, 64), g, s0, WhereIs(g, After(g, s0), o))
<1> DEFINE l == Op2Reg(g, o, 64)
           s == After(g, s0)
<1>0. g.busy # Scratch /\ 64 \in Widths /\ Scratch \ g.busy = Scratch
  BY DEF Scratch, Widths
<1>1. CASE Address(o)
  <2>1. o[1] \in {"r", "g"} /\ (Source(o) \/ Global(o))
    BY <1>1, AddressOperand
  <2>2. Holds(l, g, s0, o, 64)
    BY <1>0, <2>1, OperandHeld
  <2>3. WhereIs(g, s, o) = Operand(s, o, 64)
    BY <2>1 DEF WhereIs
  <2> HIDE DEF l
  <2>4. /\ Writer(l.g) /\ IsMachine(After(l.g, s0)) /\ Effect(g, l.g, s0, Scratch)
        /\ l.reg \in Registers /\ l.reg \notin Scratch \ l.g.busy
        /\ Operand(After(l.g, s0), l.reg, 64) = Operand(s, o, 64)
        /\ l.g.busy = {} \/ l.g.busy = {} \cup {l.reg}
    BY <1>0, <2>2 DEF Holds
  <2>5. l.g.busy \subseteq {l.reg}
    BY <2>4
  <2>6. Finds(l, g, s0, Operand(s, o, 64))
    BY <2>4, <2>5 DEF Finds
  <2> QED BY <2>3, <2>6 DEF l
<1>2. ASSUME ~Address(o)
      PROVE  Finds(l, g, s0, WhereIs(g, s, o))
  <2> DEFINE ip == GetIP(g)
             g1 == ip.g
             q == ip.reg
             n == FrameOffsetOf(g, o)
             h == AddImmediate(g1, q, SP, n, 64)
  <2>1. o[1] \in {"k", "x"} /\ n \in Int
    BY <1>2 DEF Base64
  <2>2. /\ Effect(g, g1, s0, {}) /\ After(g1, s0) = s
        /\ Writer(g1) /\ IsMachine(After(g1, s0))
        /\ q \in Scratch \ g.busy /\ q \in Registers /\ q # ZR
        /\ g1.busy = g.busy \cup {q}
    BY <1>0, TakeScratch
  <2>3. FrameOffsetOf(g1, o) = n
    BY <2>2 DEF Effect, FrameOffsetOf, OwnOffset
  <2>4. l.reg = q /\ l.g = h
    <3>1. l = [reg |-> q, g |-> Copy(g1, q, o, 64)]
      BY <2>1 DEF Op2Reg, InScratch
    <3>2. Copy(g1, q, o, 64) = h
      BY <2>1, <2>3 DEF Copy
    <3> HIDE DEF l, h
    <3> QED BY <3>1, <3>2
  <2>5. WhereIs(g, s, o) = Content(s, SP) + n
    BY <2>1 DEF WhereIs
  <2> HIDE DEF l, ip, g1, q, n, s
  <2>6. Adds(h, g1, s0, q, SP, n, 64)
    <3>1. g1.busy # Scratch
      BY <2>2, ScratchIs DEF Scratch
    <3>2. SP \in Registers /\ SP \notin Scratch \ g1.busy /\ ~(64 = 32 /\ n = MinWord)
      BY ScratchIs
    <3> QED BY <1>0, <2>1, <2>2, <3>1, <3>2, AddImmediateDoes
  <2> HIDE DEF h
  <2>7. /\ Effect(g1, h, s0, Scratch \cup {q}) /\ h.busy = g1.busy
        /\ Operand(After(h, s0), q, 64) = Operand(s, SP, 64) + n
    BY <2>2, <2>6 DEF Adds, AtWidth
  <2>8. Operand(s, SP, 64) = Content(s, SP)
    BY ScratchIs, OperandIs64 DEF AtWidth
  <2>9. Effect(g, h, s0, Scratch) /\ IsMachine(After(h, s0)) /\ Writer(h)
    <3>1. {} \cup (Scratch \cup {q}) \subseteq Scratch
      BY <2>2
    <3>2. IsMachine(After(g, s0))
      OBVIOUS
    <3> QED BY <2>2, <2>7, <3>1, <3>2, EffectTogether DEF Effect
  <2> QED BY <2>2, <2>4, <2>5, <2>7, <2>8, <2>9 DEF Finds
<1> QED BY <1>1, <1>2

(* What h behind g leaves in t: the address x.                               *)
Reckons(h, g, s0, t, x) ==
  /\ Effect(g, h, s0, Scratch \cup {t}) /\ h.busy = {}
  /\ Operand(After(h, s0), t, 64) = x

LEMMA BasePlusRegister ==
  ASSUME NEW g, Writer(g), g.busy = {}, NEW s0, IsMachine(After(g, s0)), NEW l, NEW a, Finds(l, g, s0, a),
         NEW t \in Registers, t # ZR, NEW r \in IntRegisters \ Scratch
  PROVE  Reckons(ReleaseIP(MathWith(l.g, Op2Reg(l.g, r, 64), "add", t, l.reg, 64), l.reg),
                 g, s0, t, a + Operand(After(g, s0), r, 64))
<1> DEFINE p == l.reg
           g1 == l.g
           i == MMathInst("add", p, r, t, 64)
           h1 == Put(g1, i)
           h2 == ReleaseIP(h1, r)
           h3 == ReleaseIP(h2, p)
           s == After(g, s0)
           s1 == After(g1, s0)
           b == Operand(s, r, 64)
           x == a + b
<1>1. /\ Writer(g1) /\ IsMachine(s1) /\ Effect(g, g1, s0, Scratch)
      /\ p \in Registers /\ Operand(s1, p, 64) = a /\ g1.busy \subseteq {p}
  BY DEF Finds
<1>2. ReleaseIP(MathWith(g1, Op2Reg(g1, r, 64), "add", t, p, 64), p) = h3
  <2>1. Op2Reg(g1, r, 64) = [reg |-> r, g |-> g1]
    BY DEF Op2Reg, IntRegisters
  <2> QED BY <2>1 DEF MathWith, MathRR
<1>3. r \in Registers /\ 64 \in Widths /\ r \notin Scratch
  BY ScratchIs DEF Widths
<1> HIDE DEF g1, p, s1
<1>4. Operand(s1, r, 64) = b /\ b \in Int /\ a \in Int
  <2>1. OnlyRegisters(s, s1, Scratch)
    BY <1>1 DEF Effect, s1
  <2>2. Operand(s1, r, 64) = b
    BY <1>3, <2>1, OperandsStay
  <2>3. b \in Int /\ a \in Int
    BY <1>1, <1>3, OperandsAre
  <2> QED BY <2>2, <2>3
<1>5. Issue(i, s1) = SetTo(s1, t, x, 64)
  <2>1. Issue(i, s1) = SetTo(s1, t, Compute64("add", Operand(s1, p, 64), Operand(s1, r, 64)), 64)
    BY IssueMath
  <2>2. Compute64("add", Operand(s1, p, 64), Operand(s1, r, 64)) = x
    BY <1>1, <1>4 DEF Compute64
  <2> QED BY <2>1, <2>2
<1>6. x \in Int
  BY <1>4
<1> HIDE DEF i, x, b, s
<1>7. /\ Effect(g1, h1, s0, {t}) /\ h1.busy = g1.busy
      /\ Operand(After(h1, s0), t, 64) = AtWidth(x, 64)
  BY <1>1, <1>3, <1>5, <1>6, PutSets, Z3 DEF s1
<1> HIDE DEF h1
<1>8. Effect(g, h1, s0, Scratch \cup {t}) /\ IsMachine(After(h1, s0)) /\ Writer(h1)
  <2>1. Scratch \cup {t} \subseteq Scratch \cup {t}
    OBVIOUS
  <2> QED BY <1>1, <1>7, <2>1, EffectTogether DEF Effect
<1>9. /\ Effect(h1, h2, s0, {}) /\ After(h2, s0) = After(h1, s0) /\ Writer(h2)
      /\ h2.busy = h1.busy \ {r}
  BY <1>8, GiveScratch
<1> HIDE DEF h2
<1>10. /\ Effect(h2, h3, s0, {}) /\ After(h3, s0) = After(h2, s0) /\ Writer(h3)
       /\ h3.busy = h2.busy \ {p}
  BY <1>8, <1>9, GiveScratch
<1> HIDE DEF h3
<1>11. Effect(g, h3, s0, Scratch \cup {t})
  <2>1. {} \cup {} \subseteq {}
    OBVIOUS
  <2>2. Effect(h1, h3, s0, {})
    BY <1>8, <1>9, <1>10, <2>1, EffectTogether
  <2>3. (Scratch \cup {t}) \cup {} \subseteq Scratch \cup {t}
    OBVIOUS
  <2> QED BY <1>8, <2>2, <2>3, EffectTogether
<1>12. h3.busy = {}
  BY <1>1, <1>7, <1>9, <1>10
<1>13. AtWidth(x, 64) = x
  BY DEF AtWidth
<1>14. Reckons(h3, g, s0, t, x)
  BY <1>7, <1>9, <1>10, <1>11, <1>12, <1>13 DEF Reckons
<1> QED BY <1>2, <1>14 DEF g1, p, x, b, s

LEMMA BasePlusConstant ==
  ASSUME NEW g, Writer(g), g.busy = {}, NEW s0, IsMachine(After(g, s0)), NEW l, NEW a, Finds(l, g, s0, a),
         NEW t \in Registers, t # ZR, NEW n \in Int
  PROVE  Reckons(ReleaseIP(AddImmediate(l.g, t, l.reg, n, 64), l.reg), g, s0, t, a + n)
<1> DEFINE p == l.reg
           g1 == l.g
           h1 == AddImmediate(g1, t, p, n, 64)
           h2 == ReleaseIP(h1, p)
           s1 == After(g1, s0)
<1>1. /\ Writer(g1) /\ IsMachine(s1) /\ Effect(g, g1, s0, Scratch)
      /\ p \in Registers /\ p \notin Scratch \ g1.busy /\ Operand(s1, p, 64) = a /\ g1.busy \subseteq {p}
  BY DEF Finds
<1> HIDE DEF g1, p
<1>2. 64 \in Widths /\ ~(64 = 32 /\ n = MinWord) /\ g1.busy # Scratch
  BY <1>1, ScratchIs DEF Scratch, Widths
<1>3. Adds(h1, g1, s0, t, p, n, 64)
  BY <1>1, <1>2, AddImmediateDoes
<1> HIDE DEF h1
<1>4. /\ Effect(g1, h1, s0, Scratch \cup {t}) /\ h1.busy = g1.busy
      /\ Operand(After(h1, s0), t, 64) = a + n
  BY <1>1, <1>3 DEF Adds, AtWidth
<1>5. Effect(g, h1, s0, Scratch \cup {t}) /\ IsMachine(After(h1, s0)) /\ Writer(h1)
  <2>1. Scratch \cup (Scratch \cup {t}) \subseteq Scratch \cup {t}
    OBVIOUS
  <2> QED BY <1>1, <1>4, <2>1, EffectTogether DEF Effect
<1>6. /\ Effect(h1, h2, s0, {}) /\ After(h2, s0) = After(h1, s0) /\ Writer(h2)
      /\ h2.busy = h1.busy \ {p}
  BY <1>5, GiveScratch
<1> HIDE DEF h2
<1>7. Effect(g, h2, s0, Scratch \cup {t})
  <2>1. (Scratch \cup {t}) \cup {} \subseteq Scratch \cup {t}
    OBVIOUS
  <2> QED BY <1>5, <1>6, <2>1, EffectTogether
<1>8. h2.busy = {}
  BY <1>1, <1>4, <1>6
<1>9. Reckons(h2, g, s0, t, a + n)
  BY <1>4, <1>6, <1>7, <1>8 DEF Reckons
<1> QED BY <1>9 DEF h2, h1, g1, p

(* copy() of a base is its address.                                          *)
LEMMA BaseCopied ==
  ASSUME NEW g, Writer(g), g.busy = {}, NEW s0, IsMachine(After(g, s0)), NEW o, Base64(g, o),
         NEW t \in Registers, t # ZR
  PROVE  Reckons(Copy(g, t, o, 64), g, s0, t, WhereIs(g, After(g, s0), o))
<1> DEFINE s == After(g, s0)
           h == Copy(g, t, o, 64)
           a == WhereIs(g, s, o)
<1>0. 64 \in Widths /\ g.busy # Scratch
  BY DEF Widths, Scratch
<1>1. \A i : Effect(g, i, s0, {t}) => Effect(g, i, s0, Scratch \cup {t})
  <2>1. {t} \subseteq Scratch \cup {t}
    OBVIOUS
  <2> QED BY <2>1, OnlyMore DEF Effect
<1>2. ASSUME o \in IntRegisters \ Scratch PROVE Reckons(h, g, s0, t, a)
  <2> DEFINE i == CopyRegister(g, t, o, 64)
  <2>1. o[1] = "r" /\ o \in Registers
    BY <1>2 DEF IntRegisters, Registers
  <2>2. h = i /\ a = Operand(s, o, 64)
    BY <2>1 DEF Copy, WhereIs
  <2> HIDE DEF h, a, s
  <2>3. /\ Effect(g, i, s0, {t}) /\ i.busy = g.busy
        /\ Operand(After(i, s0), t, 64) = Operand(After(g, s0), o, 64)
    <3>1. \A l \in Registers :
            LET k == CopyRegister(g, t, l, 64)
            IN  /\ Effect(g, k, s0, {t}) /\ k.busy = g.busy
                /\ Operand(After(k, s0), t, 64) = Operand(After(g, s0), l, 64)
      <4> HIDE DEF i
      <4> QED BY <1>0, CopyRegisterDoes, Z3
    <3> QED BY <2>1, <3>1
  <2> HIDE DEF i
  <2> QED BY <1>1, <2>2, <2>3 DEF Reckons, s
<1>3. ASSUME Global(o) PROVE Reckons(h, g, s0, t, a)
  <2> DEFINE i == MCopy(o, t, 64)
             k == Put(g, i)
             x == Operand(s, o, 64)
  <2>1. PICK n \in Int : o = <<"g", n>>
    BY <1>3 DEF Global
  <2>2. h = k /\ a = x
    BY <2>1 DEF Copy, WhereIs
  <2>3. x = 4 * n
    BY <2>1 DEF Operand, AddressOf
  <2>4. x \in Int
    BY <2>3
  <2>5. Issue(i, After(g, s0)) = SetTo(After(g, s0), t, x, 64)
    BY IssueCopy
  <2> HIDE DEF h, a, s, i, x
  <2>6. /\ Effect(g, k, s0, {t}) /\ k.busy = g.busy
        /\ Operand(After(k, s0), t, 64) = AtWidth(x, 64)
    BY <1>0, <2>4, <2>5, PutSets
  <2> HIDE DEF k
  <2> QED BY <1>1, <2>2, <2>6 DEF Reckons, AtWidth
<1>4. ASSUME o[1] \in {"k", "x"}, FrameOffsetOf(g, o) \in Int PROVE Reckons(h, g, s0, t, a)
  <2> DEFINE n == FrameOffsetOf(g, o)
             k == AddImmediate(g, t, SP, n, 64)
  <2>1. h = k /\ a = Content(s, SP) + n
    BY <1>4 DEF Copy, WhereIs
  <2>2. n \in Int /\ SP \in Registers /\ SP \notin Scratch \ g.busy /\ ~(64 = 32 /\ n = MinWord)
    BY <1>4, ScratchIs
  <2>3. Operand(s, SP, 64) = Content(s, SP)
    BY ScratchIs, OperandIs64 DEF AtWidth
  <2> HIDE DEF h, a, n
  <2>4. Adds(k, g, s0, t, SP, n, 64)
    BY <1>0, <2>2, AddImmediateDoes
  <2> HIDE DEF k
  <2>5. /\ Effect(g, k, s0, Scratch \cup {t}) /\ k.busy = g.busy
        /\ Operand(After(k, s0), t, 64) = Operand(s, SP, 64) + n
    BY <2>4 DEF Adds, AtWidth
  <2> HIDE DEF s
  <2> QED BY <2>1, <2>3, <2>5 DEF Reckons
<1> HIDE DEF h, a, s
<1> QED BY <1>2, <1>3, <1>4 DEF Base64, Address, h, a, s

(***************************************************************************)
(* mathInst() of 64 bits, which only adds to addresses: the base is in a   *)
(* register, a global or a place in the frame - found from SP wherever a   *)
(* call has moved it to - and a register or a constant of any size is      *)
(* added.  The target register holds the address of the element, and no    *)
(* other register but the scratch registers, no memory and no assertion is *)
(* touched.                                                                *)
(***************************************************************************)
THEOREM AddressesComputed ==
  ASSUME NEW g, Writer(g), g.busy = {}, NEW s0, IsMachine(After(g, s0)),
         NEW t \in Registers, t # ZR, NEW l, Base64(g, l),
         NEW r, r \in IntRegisters \ Scratch \/ \E n \in Int : r = C(n)
  PROVE  LET h == MathInst(g, "add", t, l, r, 64)
             s == After(g, s0)
         IN  /\ Effect(g, h, s0, Scratch \cup {t}) /\ h.busy = {}
             /\ Operand(After(h, s0), t, 64) = WhereIs(g, s, l) + Operand(s, r, 64)
<1> DEFINE h == MathInst(g, "add", t, l, r, 64)
           s == After(g, s0)
           a == WhereIs(g, s, l)
           l0 == Op2Reg(g, l, 64)
<1>1. l[1] \in {"r", "g", "k", "x"}
  BY DEF Base64, Address, IntRegisters, Global
<1>2. ~IsConst(l) /\ ~Swapped("add", l, r)
  BY <1>1 DEF IsConst, Swapped
<1>3. h = Ordered(g, "add", t, l, r, 64)
  BY <1>2 DEF MathInst
<1>4. Finds(l0, g, s0, a)
  BY BaseFound
<1> SUFFICES Reckons(h, g, s0, t, a + Operand(s, r, 64))
  BY DEF Reckons
<1>5. CASE r \in IntRegisters \ Scratch
  <2> DEFINE k == ReleaseIP(MathWith(l0.g, Op2Reg(l0.g, r, 64), "add", t, l0.reg, 64), l0.reg)
  <2>1. r[1] = "r"
    BY <1>5 DEF IntRegisters
  <2>2. ~IsConst(r)
    BY <2>1 DEF IsConst
  <2>3. h = k
    <3>1. h = MathGeneral(l0, "add", t, r, 64)
      BY <1>2, <1>3, <2>2 DEF Ordered
    <3> QED BY <2>2, <3>1 DEF MathGeneral
  <2> HIDE DEF h, l0, a, s
  <2>4. Reckons(k, g, s0, t, a + Operand(After(g, s0), r, 64))
    BY <1>4, <1>5, BasePlusRegister
  <2> QED BY <2>3, <2>4 DEF s
<1>6. ASSUME NEW n \in Int, r = C(n) PROVE Reckons(h, g, s0, t, a + n)
  <2>1. IsConst(r) /\ r[2] = n
    BY <1>6 DEF IsConst, C
  <2>2. CASE n = 0 /\ h = Copy(g, t, l, 64)
    <3>2. Reckons(h, g, s0, t, a)
      BY <2>2, BaseCopied
    <3>3. a \in Int
      <4>1. l0.reg \in Registers /\ IsMachine(After(l0.g, s0)) /\ a = Operand(After(l0.g, s0), l0.reg, 64)
        BY <1>4 DEF Finds
      <4>2. 64 \in Widths
        BY DEF Widths
      <4> HIDE DEF l0, a
      <4> QED BY <4>1, <4>2, OperandsAre
    <3> HIDE DEF h, a
    <3>4. a + n = a
      BY <2>2, <3>3
    <3> QED BY <3>2, <3>4
  <2>3. CASE l[1] = "k" /\ h = MathGeneral(Op2Reg(g, SP, 64), "add", t, C(n + FrameOffsetOf(g, l)), 64)
    <3> DEFINE m == FrameOffsetOf(g, l)
               p0 == [reg |-> SP, g |-> g]
               k == ReleaseIP(AddImmediate(p0.g, t, p0.reg, n + m, 64), p0.reg)
    <3>1. m \in Int /\ a = Content(s, SP) + m
      BY <2>3 DEF Base64, Address, IntRegisters, Global, WhereIs
    <3>2. h = k
      <4>1. h = MathGeneral(Op2Reg(g, SP, 64), "add", t, C(n + m), 64)
        BY <2>3
      <4>2. Op2Reg(g, SP, 64) = p0
        BY DEF Op2Reg, SP, R
      <4>3. IsConst(C(n + m)) /\ C(n + m)[2] = n + m
        BY DEF IsConst, C
      <4> HIDE DEF m, h
      <4>4. MathGeneral(p0, "add", t, C(n + m), 64) = ReleaseIP(MathRI(p0, "add", t, n + m, 64), p0.reg)
        BY <4>3 DEF MathGeneral
      <4>5. MathRI(p0, "add", t, n + m, 64) = AddImmediate(p0.g, t, p0.reg, n + m, 64)
        BY DEF MathRI
      <4> QED BY <4>1, <4>2, <4>4, <4>5
    <3>3. Finds(p0, g, s0, Content(s, SP))
      <4>1. Operand(s, SP, 64) = Content(s, SP)
        BY ScratchIs, OperandIs64 DEF AtWidth
      <4>2. Effect(g, g, s0, Scratch)
        BY OnlyNone DEF Effect
      <4>3. p0.reg = SP /\ p0.g = g
        OBVIOUS
      <4> HIDE DEF p0
      <4> QED BY <4>1, <4>2, <4>3, ScratchIs DEF Finds
    <3>4. n + m \in Int
      BY <3>1
    <3> HIDE DEF h, a, p0, m
    <3>5. Reckons(k, g, s0, t, Content(s, SP) + (n + m))
      BY <3>3, <3>4, BasePlusConstant
    <3> DEFINE c == Content(s, SP)
    <3>6. c \in Int
      BY ContentIs
    <3> HIDE DEF c, k
    <3>7. c + (n + m) = (c + m) + n
      BY <3>1, <3>6
    <3> QED BY <3>1, <3>2, <3>5, <3>7 DEF c
  <2>4. CASE h = MathGeneral(l0, "add", t, r, 64)
    <3> DEFINE k == ReleaseIP(AddImmediate(l0.g, t, l0.reg, n, 64), l0.reg)
    <3>1. h = k
      <4>1. h = MathGeneral(l0, "add", t, r, 64)
        BY <2>4
      <4> HIDE DEF l0, h
      <4>2. MathGeneral(l0, "add", t, r, 64) = ReleaseIP(MathRI(l0, "add", t, n, 64), l0.reg)
        BY <2>1 DEF MathGeneral
      <4>3. MathRI(l0, "add", t, n, 64) = AddImmediate(l0.g, t, l0.reg, n, 64)
        BY DEF MathRI
      <4> QED BY <4>1, <4>2, <4>3
    <3> HIDE DEF h, l0, a
    <3>2. Reckons(k, g, s0, t, a + n)
      BY <1>4, BasePlusConstant
    <3> QED BY <3>1, <3>2
  <2>5. \/ n = 0 /\ h = Copy(g, t, l, 64)
        \/ l[1] = "k" /\ h = MathGeneral(Op2Reg(g, SP, 64), "add", t, C(n + FrameOffsetOf(g, l)), 64)
        \/ h = MathGeneral(l0, "add", t, r, 64)
    BY <1>2, <1>3, <2>1 DEF Ordered
  <2> QED BY <2>2, <2>3, <2>4, <2>5
<1>7. \A n : Operand(s, C(n), 64) = n
  BY OperandIs64 DEF AtWidth
<1> HIDE DEF h, a, s
<1> QED BY <1>5, <1>6, <1>7
=============================================================================
