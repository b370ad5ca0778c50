--------------------------- MODULE PhiCopiesProofs ---------------------------
(***************************************************************************)
(* For any number of phis: the copies mergePhiCopies() emits do what the   *)
(* phis do, and its ASSERT never fails.                                    *)
(***************************************************************************)
EXTENDS PhiCopies, FiniteSetTheorems, TLAPS

USE DEF NothingEmitted, PassOver, StillInRm

\* The copies of m that have not been emitted and read x.
Readers(x) == {e \in Waiting : from[e] = x}

\* Where every value is: a copy that waits still finds its own at from, and
\* its register is not written yet; all other registers are done.
Values ==
  /\ \A d \in Waiting : env[d] = d /\ env[from[d]] = phi[d]
  /\ \A d \in Waiting : from[d] \in Operand \cup made
  /\ \A d \in Dest \ Waiting : env[d] = phi[d]
  /\ \A s \in Source : env[s] = s

\* usage_ counts the readers of a register that waits, and a pass that has
\* emitted nothing so far has seen none that is free.
Counted ==
  /\ \A d \in Waiting : usage[d] = Cardinality(Readers(d))
  /\ rm = {} => \A d \in pending \ unseen : usage[d] # 0

Inv == TypeOK /\ Values /\ Counted

LEMMA InitInv == Init => Inv /\ ok
<1> SUFFICES ASSUME Init PROVE Inv /\ ok
  OBVIOUS
<1> USE DEF Init
<1>1. TypeOK
  <2>1. usage \in [Dest -> Int]
    <3>1. \A d \in Dest : Cardinality({e \in Dest : phi[e] = d}) \in Nat
      BY OperandAssumption, FS_Subset, FS_CardinalityType
    <3> QED BY <3>1
  <2> QED BY <2>1 DEF TypeOK, Cell, Operand
<1>2. Values
  BY <1>1 DEF Values, TypeOK, Waiting, Cell, Operand
<1>3. Counted
  <2>1. \A d \in Waiting : Readers(d) = {e \in Dest : phi[e] = d}
    BY DEF Waiting, Readers
  <2> QED BY <2>1 DEF Counted, Waiting
<1> QED BY <1>1, <1>2, <1>3 DEF Inv

\* The sets of the invariant are finite.
LEMMA FiniteReaders ==
  ASSUME TypeOK
  PROVE  /\ IsFiniteSet(pending) /\ IsFiniteSet(Waiting)
         /\ \A x : IsFiniteSet(Readers(x)) /\ Cardinality(Readers(x)) \in Nat
<1>1. IsFiniteSet(pending) /\ IsFiniteSet(Waiting)
  BY OperandAssumption, FS_Subset DEF TypeOK, Waiting
<1>2. ASSUME NEW x PROVE IsFiniteSet(Readers(x)) /\ Cardinality(Readers(x)) \in Nat
  BY <1>1, FS_Subset, FS_CardinalityType DEF Readers
<1> QED BY <1>1, <1>2

LEMMA EmitInv ==
  ASSUME Inv, NEW d \in Dest, Emit(d)
  PROVE  Inv'
<1> USE DEF Inv
<1>1. /\ d \in Waiting /\ d \notin Waiting' /\ Waiting' = Waiting \ {d}
      /\ usage[d] = 0 /\ Waiting \subseteq Dest
  BY DEF Emit, FreeToWrite, TypeOK, Waiting
<1>2. \A e \in Waiting : from[e] # d
  <2>1. Readers(d) = {}
    BY <1>1, FiniteReaders, FS_EmptySet DEF Counted
  <2> QED BY <2>1 DEF Readers
<1>3. TypeOK'
  <2>1. usage' \in [Dest -> Int]
    BY DEF TypeOK, Emit, UsedOnceLess
  <2>2. env' \in [Cell -> Operand \cup Temp]
    BY DEF TypeOK, Emit, Cell, Operand
  <2> QED BY <2>1, <2>2 DEF TypeOK, Emit
<1>4. Values'
  <2>1. /\ env' = [env EXCEPT ![d] = env[from[d]]]
        /\ UNCHANGED <<phi, from, made>>
    BY DEF Emit
  <2>2. env'[d] = phi[d]
    BY <2>1, <1>1 DEF Values, TypeOK, Cell, Operand
  <2>3. \A c \in Cell : c # d => env'[c] = env[c]
    BY <2>1 DEF TypeOK
  <2>4. \A e \in Waiting : e \in Cell /\ from[e] \in Cell
    BY <1>1 DEF TypeOK, Cell, Operand
  <2>5. \A s \in Source : s \in Cell /\ s # d
    BY OperandAssumption DEF Cell, Operand
  <2>6. \A e \in Dest : e \in Cell
    BY DEF Cell, Operand
  <2> QED BY <2>1, <2>2, <2>3, <2>4, <2>5, <2>6, <1>1, <1>2 DEF Values
<1>5. Counted'
  <2>1. ASSUME NEW x \in Waiting'
        PROVE  usage'[x] = Cardinality(Readers(x)')
    <3>1. Readers(x)' = Readers(x) \ {d}
      BY <1>1 DEF Readers, Emit
    <3>2. Cardinality(Readers(x)') = IF d \in Readers(x) THEN Cardinality(Readers(x)) - 1
                                     ELSE Cardinality(Readers(x))
      BY <3>1, <1>3, FiniteReaders, FS_RemoveElement
    <3>3. d \in Readers(x) <=> from[d] = x
      BY <1>1 DEF Readers
    <3>4. usage'[x] = IF from[d] = x THEN usage[x] - 1 ELSE usage[x]
      BY <1>1 DEF Emit, UsedOnceLess, Waiting, TypeOK
    <3> QED BY <3>2, <3>3, <3>4, <1>1 DEF Counted
  <2>2. rm' # {}
    BY DEF Emit
  <2> QED BY <2>1, <2>2 DEF Counted
<1> QED BY <1>3, <1>4, <1>5

\* A pass without a copy to emit leaves a permutation: the source of every
\* copy in m is a register m writes, and no other copy reads it.
LEMMA OnlyCycles ==
  ASSUME Inv, rm = {}, unseen = {}, NEW to \in pending
  PROVE  /\ from[to] \in pending /\ usage[from[to]] = 1
         /\ \A e \in pending : from[e] = from[to] => e = to
<1> USE DEF Inv
<1>1. Waiting = pending /\ pending \subseteq Dest
  BY DEF Waiting, TypeOK
<1> DEFINE P == {e \in pending : from[e] \in pending}
           f == [e \in P |-> from[e]]
<1>2. f \in Surjection(P, pending)
  <2>1. \A d \in pending : \E e \in P : f[e] = d
    <3> TAKE d \in pending
    <3>1. usage[d] # 0
      BY DEF Counted
    <3>2. Readers(d) # {}
      BY <3>1, <1>1, FS_EmptySet DEF Counted
    <3> QED BY <3>2, <1>1 DEF Readers
  <2> QED BY <2>1 DEF Surjection
<1>3. IsFiniteSet(pending)
  BY FiniteReaders
<1>4. IsFiniteSet(P) /\ Cardinality(P) <= Cardinality(pending)
      /\ (Cardinality(pending) = Cardinality(P) => pending = P)
  BY <1>3, FS_Subset
<1>5. Cardinality(pending) <= Cardinality(P)
      /\ (Cardinality(pending) = Cardinality(P) <=> f \in Injection(P, pending))
  BY <1>2, <1>4, FS_Surjection
<1>6. P = pending /\ f \in Injection(P, pending)
  BY <1>3, <1>4, <1>5, FS_CardinalityType
<1>7. from[to] \in pending
  BY <1>6
<1>8. \A e \in pending : from[e] = from[to] => e = to
  <2>1. \A a, b \in pending : f[a] = f[b] => a = b
    <3>1. f \in Injection(pending, pending) /\ DOMAIN f = pending
      BY <1>6
    <3> HIDE DEF f
    <3> QED BY <3>1 DEF Injection, IsInjective
  <2>2. \A a \in pending : f[a] = from[a]
    BY <1>6
  <2> QED BY <2>1, <2>2
<1>9. usage[from[to]] = 1
  <2>1. Readers(from[to]) = {to}
    BY <1>1, <1>8 DEF Readers
  <2> QED BY <2>1, <1>1, <1>7, FS_Singleton DEF Counted
<1> QED BY <1>7, <1>8, <1>9

LEMMA BreakInv ==
  ASSUME Inv, NEW to \in Dest, NEW vr \in Temp, BreakCycle(to, vr)
  PROVE  Inv' /\ ok'
<1> USE DEF Inv
<1>1. /\ rm = {} /\ unseen = {} /\ to \in pending /\ vr \notin made
      /\ Waiting = pending /\ Waiting' = pending /\ pending \subseteq Dest
  BY DEF BreakCycle, Waiting, TypeOK
<1>2. from[to] \in pending /\ usage[from[to]] = 1
  BY <1>1, OnlyCycles
<1>3. TypeOK'
  <2>1. usage' \in [Dest -> Int]
    BY DEF TypeOK, BreakCycle, UsedOnceLess
  <2>2. env' \in [Cell -> Operand \cup Temp] /\ from' \in [Dest -> Cell]
    BY <1>1 DEF TypeOK, BreakCycle, Cell, Operand
  <2>3. ok' \in BOOLEAN
    BY <1>2 DEF BreakCycle
  <2> QED BY <2>1, <2>2, <2>3, <1>1 DEF TypeOK, BreakCycle
<1>4. Values'
  <2>1. /\ env' = [env EXCEPT ![vr] = env[from[to]]]
        /\ from' = [from EXCEPT ![to] = vr]
        /\ made' = made \cup {vr} /\ phi' = phi
    BY DEF BreakCycle
  <2>2. vr \in Cell /\ env'[vr] = phi[to]
    BY <2>1, <1>1 DEF Values, TypeOK, Cell
  <2>3. \A c \in Operand \cup made : c \in Cell /\ env'[c] = env[c]
    BY <2>1, <1>1, OperandAssumption DEF TypeOK, Cell, Operand
  <2>4. \A e \in Waiting : e # to => from'[e] = from[e]
    BY <2>1, <1>1 DEF TypeOK
  <2>5. from'[to] = vr
    BY <2>1 DEF TypeOK
  <2>6. Dest \subseteq Operand /\ Source \subseteq Operand
    BY DEF Operand
  <2> QED BY <2>1, <2>2, <2>3, <2>4, <2>5, <2>6, <1>1 DEF Values
<1>5. Counted'
  <2>1. ASSUME NEW x \in Waiting'
        PROVE  usage'[x] = Cardinality(Readers(x)')
    <3>0. x # vr /\ x \in Waiting
      BY <1>1, OperandAssumption
    <3>1. Readers(x)' = Readers(x) \ {to}
      BY <1>1, <3>0 DEF Readers, BreakCycle, TypeOK
    <3>2. Cardinality(Readers(x)') = IF to \in Readers(x) THEN Cardinality(Readers(x)) - 1
                                     ELSE Cardinality(Readers(x))
      BY <3>1, FiniteReaders, FS_RemoveElement
    <3>3. to \in Readers(x) <=> from[to] = x
      BY <1>1 DEF Readers
    <3>4. usage'[x] = IF from[to] = x THEN usage[x] - 1 ELSE usage[x]
      BY <1>1, <1>2 DEF BreakCycle, UsedOnceLess, TypeOK
    <3> QED BY <3>0, <3>2, <3>3, <3>4 DEF Counted
  <2>2. \A x \in pending' \ unseen' : usage'[x] # 0
    BY DEF BreakCycle
  <2> QED BY <2>1, <2>2 DEF Counted
<1>6. ok'
  BY <1>2 DEF BreakCycle
<1> QED BY <1>3, <1>4, <1>5, <1>6

LEMMA StepInv == Inv /\ ok /\ [Next]_vars => Inv' /\ ok'
<1> SUFFICES ASSUME Inv, ok, [Next]_vars PROVE Inv' /\ ok'
  OBVIOUS
<1>1. ASSUME NEW d \in Dest, Emit(d) PROVE Inv' /\ ok'
  BY <1>1, EmitInv DEF Emit
<1>2. ASSUME NEW d \in Dest, Skip(d) PROVE Inv' /\ ok'
  <2>1. Waiting' = Waiting /\ usage[d] # 0
    BY <1>2 DEF Skip, Waiting, FreeToWrite
  <2>2. TypeOK'
    BY <1>2 DEF Inv, TypeOK, Skip
  <2>3. Values'
    BY <1>2, <2>1 DEF Inv, Values, Skip
  <2>4. Counted'
    BY <1>2, <2>1 DEF Inv, Counted, Skip, Readers
  <2> QED BY <1>2, <2>2, <2>3, <2>4 DEF Inv, Skip
<1>3. CASE NextPass
  <2>1. Waiting' = Waiting
    BY <1>3 DEF NextPass, Waiting
  <2>2. TypeOK'
    BY <1>3 DEF Inv, TypeOK, NextPass
  <2>3. Values'
    BY <1>3, <2>1 DEF Inv, Values, NextPass
  <2>4. Counted'
    BY <1>3, <2>1 DEF Inv, Counted, NextPass, Readers
  <2> QED BY <1>3, <2>2, <2>3, <2>4 DEF Inv, NextPass
<1>4. ASSUME NEW to \in Dest, NEW vr \in Temp, BreakCycle(to, vr) PROVE Inv' /\ ok'
  BY <1>4, BreakInv
<1>5. CASE UNCHANGED vars
  BY <1>5 DEF vars, Inv, TypeOK, Values, Counted, Waiting, Readers
<1> QED BY <1>1, <1>2, <1>3, <1>4, <1>5 DEF Next

LEMMA AlwaysInv == Spec => [](Inv /\ ok)
BY InitInv, StepInv, PTL DEF Spec

\* The types of mergePhiCopies()'s bookkeeping.
THEOREM PhiTypeCorrect == Spec => []TypeOK
<1>1. Inv => TypeOK
  BY DEF Inv
<1> QED BY <1>1, AlwaysInv, PTL

\* ASSERT(fcpu.usage_ == 1) never fails: what a pass without a copy to emit
\* leaves is a permutation of registers.
THEOREM CycleAssertNeverFails == Spec => []CycleAssertHolds
<1>1. ok => CycleAssertHolds
  BY DEF CycleAssertHolds
<1> QED BY <1>1, AlwaysInv, PTL

\* For any phis, one after the other the emitted copies have the effect of all
\* phis at once.
THEOREM CopiesAssignInParallel == Spec => []ParallelAssignment
<1>1. Inv => ParallelAssignment
  BY DEF Inv, Values, ParallelAssignment, Finished, Waiting
<1> QED BY <1>1, AlwaysInv, PTL

-----------------------------------------------------------------------------
(***************************************************************************)
(* New registers and the cycles of the phis.                               *)
(***************************************************************************)

\* A permuted set maps to itself, one to one.
LEMMA PermutedIsOneToOne ==
  ASSUME NEW C \in SUBSET Dest, Permuted(C)
  PROVE  \A d, e \in C : phi[d] \in C /\ (phi[d] = phi[e] => d = e)
<1> DEFINE f == [d \in C |-> phi[d]]
<1>1. f \in Surjection(C, C)
  BY DEF Permuted, Surjection
<1>2. IsFiniteSet(C)
  BY OperandAssumption, FS_Subset
<1>3. f \in Injection(C, C)
  BY <1>1, <1>2, FS_Surjection
<1>4. \A d, e \in C : f[d] = f[e] => d = e
  <2>1. DOMAIN f = C
    OBVIOUS
  <2> HIDE DEF f
  <2> QED BY <2>1, <1>3 DEF Injection, IsInjective
<1> QED BY <1>4 DEF Permuted

\* A part of a permuted set that maps to itself is permuted.
LEMMA PartIsPermuted ==
  ASSUME NEW C \in SUBSET Dest, Permuted(C), NEW D \in SUBSET C, \A d \in D : phi[d] \in D
  PROVE  Permuted(D)
<1> DEFINE f == [d \in D |-> phi[d]]
<1>1. IsFiniteSet(D)
  BY OperandAssumption, FS_Subset
<1>2. f \in [D -> D] /\ \A d, e \in D : f[d] = f[e] => d = e
  BY PermutedIsOneToOne
<1>3. f \in Injection(D, D)
  <2> HIDE DEF f
  <2> QED BY <1>2 DEF Injection, IsInjective
<1>4. f \in Surjection(D, D)
  BY <1>1, <1>3, FS_Injection
<1>5. \A d \in D : \E e \in D : phi[e] = d
  BY <1>4 DEF Surjection
<1> QED BY <1>5 DEF Permuted

LEMMA CyclesApart ==
  ASSUME NEW C \in Cycles, NEW D \in Cycles, C \cap D # {}
  PROVE  C = D
<1>1. /\ C \in SUBSET Dest /\ D \in SUBSET Dest /\ Permuted(C) /\ Permuted(D)
      /\ \A X \in SUBSET C : Permuted(X) => X \in {{}, C}
      /\ \A X \in SUBSET D : Permuted(X) => X \in {{}, D}
  BY DEF Cycles
<1>2. \A d \in C \cap D : phi[d] \in C \cap D
  BY <1>1, PermutedIsOneToOne
<1>3. Permuted(C \cap D)
  BY <1>1, <1>2, PartIsPermuted
<1> QED BY <1>1, <1>3

\* In a permuted set without a register of its own operand, every register is
\* on a cycle.
LEMMA CycleThrough ==
  ASSUME NEW P \in SUBSET {d \in Dest : phi[d] # d}, Permuted(P), NEW to \in P
  PROVE  \E C \in Cycles : to \in C /\ C \subseteq P
<1> DEFINE F == {D \in SUBSET P : to \in D /\ Permuted(D)}
           I == {d \in P : \A D \in F : d \in D}
<1>1. P \in F /\ to \in I
  OBVIOUS
<1>2. P \in SUBSET Dest
  OBVIOUS
<1>3. \A d \in I : phi[d] \in I
  <2> SUFFICES ASSUME NEW d \in I, NEW D \in F PROVE phi[d] \in P /\ phi[d] \in D
    OBVIOUS
  <2>1. D \in SUBSET Dest /\ Permuted(D) /\ d \in D /\ d \in P
    BY <1>1
  <2> QED BY <2>1, <1>2, PermutedIsOneToOne
<1>4. Permuted(I)
  BY <1>2, <1>3, PartIsPermuted
<1>5. ASSUME NEW D \in SUBSET I, Permuted(D) PROVE D \in {{}, I}
  <2>1. CASE to \in D
    <3>1. D \in F
      BY <2>1, <1>5
    <3> QED BY <3>1
  <2>2. CASE to \notin D
    <3>1. \A d \in I \ D : phi[d] \in I \ D
      <4> SUFFICES ASSUME NEW d \in I \ D, phi[d] \in D PROVE FALSE
        BY <1>3
      <4>1. PICK e \in D : phi[e] = phi[d]
        BY <1>5 DEF Permuted
      <4>2. e = d
        BY <4>1, <1>2, <1>4, PermutedIsOneToOne
      <4> QED BY <4>2
    <3>2. Permuted(I \ D)
      BY <3>1, <1>2, <1>4, PartIsPermuted
    <3>3. I \ D \in F
      BY <3>2, <2>2, <1>1
    <3> QED BY <3>3
  <2> QED BY <2>1, <2>2
<1>6. I \in Cycles
  <2> HIDE DEF I
  <2>1. I \subseteq P
    BY DEF I
  <2> QED BY <2>1, <1>1, <1>4, <1>5 DEF Cycles
<1> QED BY <1>1, <1>6

\* The copies that read a new register now.
Broken == {d \in Dest : from[d] # phi[d]}

\* Every new register was made for one copy, and each of those copies is on a
\* cycle of its own; a cycle without one has not been entered.
Spent ==
  /\ pending \subseteq {d \in Dest : phi[d] # d}
  /\ \A d \in Broken : from[d] \in made /\ \E C \in Cycles : d \in C
  /\ \A t \in made : \E d \in Broken : from[d] = t
  /\ \A d, e \in Broken : from[d] = from[e] => d = e
  /\ \A C \in Cycles : \A d, e \in C \cap Broken : d = e
  /\ \A C \in Cycles : C \cap Broken = {} => C \subseteq Waiting

LEMMA InitSpent == Init => Spent
<1> SUFFICES ASSUME Init PROVE Spent
  OBVIOUS
<1>1. Broken = {} /\ made = {}
  BY DEF Init, Broken
<1>2. Waiting = {d \in Dest : phi[d] # d} /\ pending = Waiting
  BY DEF Init, Waiting
<1> QED BY <1>1, <1>2 DEF Spent, Cycles

LEMMA BreakSpent ==
  ASSUME Inv, Spent, NEW to \in Dest, NEW vr \in Temp, BreakCycle(to, vr)
  PROVE  Spent'
<1>1. /\ rm = {} /\ unseen = {} /\ to \in pending /\ vr \notin made
      /\ from' = [from EXCEPT ![to] = vr] /\ made' = made \cup {vr}
      /\ UNCHANGED <<phi, pending, rm>>
  BY DEF BreakCycle
<1>2. /\ Waiting = pending /\ Waiting' = pending /\ pending \subseteq Dest
      /\ from \in [Dest -> Cell] /\ made \subseteq Temp /\ phi \in [Dest -> Operand]
  BY <1>1 DEF Waiting, Inv, TypeOK
<1>3. \A e \in pending : from[e] \in pending /\ \A d \in pending : from[d] = from[e] => d = e
  BY <1>1, OnlyCycles
<1>4. \A e \in pending : from[e] = phi[e]
  <2> SUFFICES ASSUME NEW e \in pending, from[e] # phi[e] PROVE FALSE
    OBVIOUS
  <2>1. from[e] \in Temp
    BY <1>2 DEF Spent, Broken
  <2> QED BY <2>1, <1>2, <1>3, OperandAssumption
<1>5. Permuted(pending)
  <2> DEFINE f == [e \in pending |-> phi[e]]
  <2>1. f \in Injection(pending, pending)
    BY <1>3, <1>4 DEF Injection, IsInjective
  <2>2. f \in Surjection(pending, pending)
    BY <2>1, FiniteReaders, FS_Injection DEF Inv
  <2> QED BY <2>2 DEF Surjection, Permuted
<1>6. PICK I \in Cycles : to \in I /\ I \subseteq pending
  <2>1. pending \in SUBSET {d \in Dest : phi[d] # d}
    BY DEF Spent
  <2> QED BY <2>1, <1>1, <1>5, CycleThrough
<1>7. to \notin Broken /\ Broken' = Broken \cup {to}
  <2>1. vr # phi[to]
    BY <1>2, OperandAssumption DEF Operand
  <2> QED BY <2>1, <1>1, <1>2, <1>4 DEF Broken
<1>8. from'[to] = vr /\ \A d \in Broken : from'[d] = from[d]
  BY <1>1, <1>2, <1>7 DEF Broken
<1>9. Cycles' = Cycles
  BY <1>1 DEF Cycles, Permuted
<1>10. \A C \in Cycles : to \in C => C \cap Broken = {}
  <2> SUFFICES ASSUME NEW C \in Cycles, to \in C PROVE C \cap Broken = {}
    OBVIOUS
  <2>1. C = I
    BY <1>6, CyclesApart
  <2> QED BY <2>1, <1>4, <1>6 DEF Broken
<1>11. \A d \in Broken' : from'[d] \in made' /\ \E C \in Cycles : d \in C
  BY <1>1, <1>6, <1>7, <1>8 DEF Spent
<1>12. \A t \in made' : \E d \in Broken' : from'[d] = t
  BY <1>1, <1>7, <1>8 DEF Spent
<1>13. \A d, e \in Broken' : from'[d] = from'[e] => d = e
  BY <1>1, <1>7, <1>8 DEF Spent
<1>14. \A C \in Cycles : \A d, e \in C \cap Broken' : d = e
  BY <1>7, <1>10 DEF Spent
<1>15. \A C \in Cycles : C \cap Broken' = {} => C \subseteq Waiting'
  BY <1>2, <1>7 DEF Spent
<1>16. pending' \subseteq {d \in Dest : phi[d] # d}
  BY <1>1 DEF Spent
<1> QED BY <1>1, <1>9, <1>11, <1>12, <1>13, <1>14, <1>15, <1>16 DEF Spent

LEMMA StepSpent == Inv /\ Spent /\ [Next]_vars => Spent'
<1> SUFFICES ASSUME Inv, Spent, [Next]_vars PROVE Spent'
  OBVIOUS
<1>1. ASSUME NEW d \in Dest, Emit(d) PROVE Spent'
  <2>1. UNCHANGED <<phi, from, pending, made>>
    BY <1>1 DEF Emit
  <2>2. Cycles' = Cycles /\ Broken' = Broken
    BY <2>1 DEF Cycles, Permuted, Broken
  <2>3. d \in Waiting /\ Waiting' = Waiting \ {d} /\ Readers(d) = {}
    <3>1. d \in Waiting /\ usage[d] = 0 /\ Waiting' = Waiting \ {d}
      BY <1>1 DEF Inv, Emit, FreeToWrite, TypeOK, Waiting
    <3> QED BY <3>1, FiniteReaders, FS_EmptySet DEF Inv, Counted
  <2>4. ASSUME NEW C \in Cycles, C \cap Broken = {} PROVE d \notin C
    <3> SUFFICES ASSUME d \in C PROVE FALSE
      OBVIOUS
    <3>1. C \subseteq Waiting /\ C \subseteq Dest /\ Permuted(C)
      BY <2>4 DEF Spent, Cycles
    <3>2. PICK e \in C : phi[e] = d
      BY <3>1 DEF Permuted
    <3>3. from[e] = d
      BY <2>4, <3>1, <3>2 DEF Broken
    <3> QED BY <2>3, <3>1, <3>3 DEF Readers
  <2>5. \A C \in Cycles : C \cap Broken = {} => C \subseteq Waiting'
    BY <2>3, <2>4 DEF Spent
  <2> QED BY <2>1, <2>2, <2>5 DEF Spent
<1>2. ASSUME \/ \E d \in Dest : Skip(d)
             \/ NextPass
             \/ UNCHANGED vars
      PROVE  Spent'
  <2>1. UNCHANGED <<phi, from, made>> /\ Waiting' = Waiting /\ pending' \subseteq pending
    BY <1>2 DEF Skip, NextPass, vars, Waiting
  <2>2. Cycles' = Cycles /\ Broken' = Broken
    BY <2>1 DEF Cycles, Permuted, Broken
  <2> QED BY <2>1, <2>2 DEF Spent
<1>3. ASSUME NEW to \in Dest, NEW vr \in Temp, BreakCycle(to, vr) PROVE Spent'
  BY <1>3, BreakSpent
<1> QED BY <1>1, <1>2, <1>3 DEF Next

\* Copies broken and cycles.
LEMMA BrokenCycles ==
  ASSUME Spent
  PROVE  /\ Cardinality(made) <= Cardinality(Cycles)
         /\ Waiting = {} => Cardinality(made) = Cardinality(Cycles)
<1> DEFINE f == [d \in Broken |-> from[d]]
           c == [d \in Broken |-> CHOOSE C \in Cycles : d \in C]
<1>1. IsFiniteSet(Broken) /\ IsFiniteSet(Cycles)
  <2>1. IsFiniteSet(Broken)
    BY OperandAssumption, FS_Subset DEF Broken
  <2>2. IsFiniteSet(SUBSET Dest)
    BY OperandAssumption, FS_SUBSET
  <2>3. Cycles \subseteq SUBSET Dest
    BY DEF Cycles
  <2> QED BY <2>1, <2>2, <2>3, FS_Subset
<1>2. Cardinality(Broken) = Cardinality(made)
  <2>1. f \in Surjection(Broken, made)
    BY DEF Surjection, Spent
  <2>2. f \in Injection(Broken, made)
    BY DEF Injection, IsInjective, Spent
  <2> HIDE DEF f
  <2> QED BY <2>1, <2>2, <1>1, FS_Surjection
<1>3. c \in [Broken -> Cycles] /\ \A d \in Broken : d \in c[d]
  BY DEF Spent
<1> HIDE DEF c
<1>4. c \in Injection(Broken, Cycles)
  <2>1. \A d, e \in Broken : c[d] = c[e] => d = e
    BY <1>3 DEF Spent
  <2> QED BY <2>1, <1>3 DEF Injection, IsInjective
<1>5. Cardinality(Broken) <= Cardinality(Cycles)
  BY <1>1, <1>4, FS_Injection
<1>6. ASSUME Waiting = {} PROVE Cardinality(Broken) = Cardinality(Cycles)
  <2>1. \A C \in Cycles : \E d \in Broken : c[d] = C
    <3> TAKE C \in Cycles
    <3>1. C # {}
      BY DEF Cycles
    <3>2. PICK d \in C : d \in Broken
      BY <3>1, <1>6 DEF Spent
    <3>3. c[d] \in Cycles /\ d \in c[d]
      BY <3>2, <1>3
    <3> QED BY <3>2, <3>3, CyclesApart
  <2>2. c \in Surjection(Broken, Cycles)
    BY <2>1, <1>3 DEF Surjection
  <2> QED BY <2>2, <1>1, <1>4, FS_Surjection
<1> QED BY <1>2, <1>5, <1>6

\* One new register and one extra copy per cycle of the phis, however the
\* cycles are hidden behind chains and trees of copies.
THEOREM OneTempIsEnough == Spec => []OneTempPerCycle
<1>1. Spent => OneTempPerCycle
  BY BrokenCycles DEF OneTempPerCycle, Finished, Waiting
<1> QED BY <1>1, InitSpent, StepSpent, AlwaysInv, PTL DEF Spec
=============================================================================
