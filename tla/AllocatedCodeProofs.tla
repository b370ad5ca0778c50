------------------------- MODULE AllocatedCodeProofs -------------------------
(***************************************************************************)
(* For every function and every number of spilling rounds, the graph of    *)
(* build() has exactly the conflicts of the code, and after every          *)
(* colouring that respects it, the allocated code reads the values that    *)
(* the code before allocation reads.                                       *)
(***************************************************************************)
EXTENDS AllocatedCode, LiveMessageProofs

\* The conflicts of instruction i of b.
Required(b, i) == Edges(code[b][i], LiveFrom(b, i + 1))

IsScanned(b, i) == b \notin left /\ (b = cur => idx < i)

Shape ==
  /\ stage \in {"live", "build", "run"}
  /\ left \subseteq Block /\ cur \in Block
  /\ idx \in Nat /\ (stage = "build" => idx <= Len(code[cur]))
  /\ (stage = "run" => idx \in 1..(Len(code[cur]) + 1))
  /\ (stage = "live" => idx = 0)
  /\ live \subseteq Reg /\ adj \subseteq Edge
  /\ color \in [Reg -> Physical]
  /\ val \in [Reg -> Value \cup {Undefined}]
  /\ cell \in [Physical -> Value]
  /\ stage # "live" => Done

\* build() going backwards through a block.
Backwards ==
  stage = "build" =>
    /\ idx # 0 => live = LiveFrom(cur, idx + 1)
    /\ cur \in left => idx = 0
    /\ \A b \in Block, i \in Nat :
         i \in 1..Len(code[b]) /\ IsScanned(b, i) => Required(b, i) \subseteq adj

\* The colouring respects every conflict of the code.
Respected ==
  stage = "run" =>
    /\ \A p \in Physical : color[p] = p
    /\ \A b \in Block, i \in Nat : i \in 1..Len(code[b]) =>
         \A x, y \in Reg : {x, y} \in Required(b, i) => color[x] # color[y]

\* What is live is in its cell.
Held == stage = "run" => \A r \in LiveFrom(cur, idx) : Agrees(r)

AllocInv == Inv /\ UpToDate /\ Shape /\ Backwards /\ Respected /\ Held

-----------------------------------------------------------------------------
\* Instructions.
LEMMA Instructions ==
  ASSUME Types, NEW b \in Block, NEW i \in 1..Len(code[b])
  PROVE  /\ code[b] \in Seq([use : SUBSET Reg, def : SUBSET Reg, copy : BOOLEAN])
         /\ code[b][i].use \subseteq Reg /\ code[b][i].def \subseteq Reg
         /\ code[b][i].copy \in BOOLEAN
         /\ code[b][i].copy => \E s, d \in Reg : code[b][i].use = {s} /\ code[b][i].def = {d}
         /\ Len(code[b]) \in Nat /\ i \in Nat \ {0}
<1>1. code[b] \in Code
  BY DEF Types
<1>2. code[b] \in Seq([use : SUBSET Reg, def : SUBSET Reg, copy : BOOLEAN])
  BY <1>1, FunctionAssumption
<1>3. code[b][i] \in [use : SUBSET Reg, def : SUBSET Reg, copy : BOOLEAN]
  BY <1>2, ElementOfSeq
<1>4. code[b][i].copy => \E s, d \in Reg : code[b][i].use = {s} /\ code[b][i].def = {d}
  BY <1>1, AllocationAssumption
<1>5. Len(code[b]) \in Nat
  BY <1>2, LenProperties
<1>6. /\ code[b][i].use \subseteq Reg /\ code[b][i].def \subseteq Reg
      /\ code[b][i].copy \in BOOLEAN
  BY <1>3
<1>7. i \in Nat \ {0}
  BY <1>5
<1> QED BY <1>2, <1>4, <1>5, <1>6, <1>7

-----------------------------------------------------------------------------
LEMMA AllocInitInv == AllocInit => AllocInv
<1> SUFFICES ASSUME AllocInit PROVE AllocInv
  OBVIOUS
<1>1. Inv /\ phase = "dfs"
  BY InitInv DEF AllocInit, Init
<1>2. Shape
  BY FunctionAssumption, AllocationAssumption DEF AllocInit, Shape
<1> QED BY <1>1, <1>2 DEF AllocInit, AllocInv, UpToDate, Backwards, Respected, Held

LEMMA AnalyseInv ==
  ASSUME AllocInv, Analyse
  PROVE  AllocInv'
<1>1. stage = "live" /\ Compute /\ UNCHANGED <<stage, build, run>>
  BY DEF Analyse
<1>2. Inv'
  <2>1. Next
    BY <1>1 DEF Compute, Next
  <2> QED BY <2>1, StepInv DEF AllocInv
<1>3. UpToDate'
  <2>1. CASE Scan
    BY <2>1 DEF Scan, UpToDate
  <2>2. CASE Pop
    BY <2>2 DEF Pop, UpToDate, AllocInv
  <2>3. CASE ~Scan /\ ~Pop
    <3>1. phase' # "propagate"
      BY <1>1, <2>3 DEF Compute, DfsVisit, DfsLeave, Constructed
    <3> QED BY <3>1 DEF UpToDate
  <2> QED BY <2>1, <2>2, <2>3
<1>4. UNCHANGED <<stage, left, cur, idx, live, adj, color, val, cell>>
  BY <1>1 DEF build, run
<1>5. Shape' /\ Backwards' /\ Respected' /\ Held'
  BY <1>1, <1>4 DEF AllocInv, Shape, Backwards, Respected, Held
<1> QED BY <1>2, <1>3, <1>5 DEF AllocInv

\* Nothing of the analysis changes after it.
LEMMA AnalysisKept ==
  ASSUME AllocInv, UNCHANGED vars
  PROVE  /\ Inv' /\ UpToDate' /\ Done' = Done
         /\ \A b, i : LiveFrom(b, i)' = LiveFrom(b, i) /\ Required(b, i)' = Required(b, i)
<1>1. UNCHANGED <<suc, code, dfs, todo, visited, rpo, liveUse, liveDef, liveIn, liveOut,
                  queue, phase>>
  BY DEF vars
<1>2. Inv'
  BY StepInv DEF AllocInv
<1>3. UpToDate'
  BY <1>1 DEF AllocInv, UpToDate
<1>4. \A b, i : LiveFrom(b, i)' = LiveFrom(b, i)
  BY <1>1 DEF LiveFrom
<1>5. \A b, i : Required(b, i)' = Required(b, i)
  BY <1>1, <1>4 DEF Required, Edges, Edge, LiveAcross, CareCopy
<1> QED BY <1>1, <1>2, <1>3, <1>4, <1>5 DEF Done

LEMMA StartBuildInv ==
  ASSUME AllocInv, StartBuild
  PROVE  AllocInv'
<1>1. /\ stage' = "build" /\ left' = Block /\ idx' = 0 /\ adj' = {}
      /\ Done
      /\ UNCHANGED <<cur, live, color, val, cell>> /\ UNCHANGED vars
  BY DEF StartBuild, run
<1>2. Inv' /\ UpToDate' /\ Done'
  BY <1>1, AnalysisKept
<1>3. Len(code[cur]) \in Nat /\ code' = code
  <2>1. code[cur] \in Seq([use : SUBSET Reg, def : SUBSET Reg, copy : BOOLEAN])
    BY FunctionAssumption DEF AllocInv, Inv, Types, Shape
  <2> QED BY <2>1, <1>1, LenProperties DEF vars
<1>4. Shape'
  BY <1>1, <1>2, <1>3 DEF AllocInv, Shape
<1>5. Backwards' /\ Respected' /\ Held'
  BY <1>1 DEF Backwards, Respected, Held, IsScanned
<1> QED BY <1>2, <1>4, <1>5 DEF AllocInv

LEMMA ScanBlockInv ==
  ASSUME AllocInv, NEW b \in Block, ScanBlock(b)
  PROVE  AllocInv'
<1>1. /\ stage = "build" /\ idx = 0 /\ b \in left
      /\ left' = left \ {b} /\ cur' = b /\ idx' = Len(code[b]) /\ live' = liveOut[b]
      /\ UNCHANGED <<stage, adj, color, val, cell>> /\ UNCHANGED vars
  BY DEF ScanBlock, run
<1>2. Types /\ Shape /\ Backwards /\ UpToDate
  BY DEF AllocInv, Inv
<1>3. /\ Inv' /\ UpToDate' /\ Done' = Done /\ code' = code
      /\ \A x, i : LiveFrom(x, i)' = LiveFrom(x, i) /\ Required(x, i)' = Required(x, i)
  BY <1>1, AnalysisKept DEF vars
<1>4. Len(code[b]) \in Nat /\ liveOut[b] \subseteq Reg
  <2>1. code[b] \in Seq([use : SUBSET Reg, def : SUBSET Reg, copy : BOOLEAN])
    BY <1>2, FunctionAssumption DEF Types
  <2> QED BY <2>1, <1>2, LenProperties DEF Types
<1>5. Shape'
  BY <1>1, <1>2, <1>3, <1>4 DEF Shape
<1>6. Backwards'
  <2>1. live' = LiveFrom(cur, idx + 1)'
    <3>1. LiveFrom(b, Len(code[b]) + 1) = liveOut[b]
      BY <1>2, FromEnd
    <3>2. LiveFrom(cur, idx + 1)' = LiveFrom(b, Len(code[b]) + 1)
      BY <1>1 DEF LiveFrom, vars
    <3> QED BY <3>1, <3>2, <1>1
  <2>2. cur' \notin left'
    BY <1>1
  <2>3. ASSUME NEW x \in Block, NEW i \in Nat, i \in 1..Len(code[x]), IsScanned(x, i)'
        PROVE  Required(x, i) \subseteq adj
    <3>1. x # b
      BY <2>3, <1>1, <1>4 DEF IsScanned
    <3>2. x \notin left /\ 0 < i
      BY <3>1, <2>3, <1>1 DEF IsScanned
    <3>3. IsScanned(x, i)
      BY <3>2, <1>1 DEF IsScanned
    <3> QED BY <3>3, <2>3, <1>1, <1>2 DEF Backwards
  <2> QED BY <2>1, <2>2, <2>3, <1>1, <1>3 DEF Backwards
<1>7. Respected' /\ Held'
  BY <1>1 DEF Respected, Held
<1> QED BY <1>3, <1>5, <1>6, <1>7 DEF AllocInv

LEMMA ScanInstructionInv ==
  ASSUME AllocInv, ScanInstruction
  PROVE  AllocInv'
<1>1. /\ stage = "build" /\ idx # 0
      /\ adj' = adj \cup Edges(code[cur][idx], live)
      /\ live' = LiveBefore(code[cur][idx], live)
      /\ idx' = idx - 1
      /\ UNCHANGED <<stage, left, cur, color, val, cell>> /\ UNCHANGED vars
  BY DEF ScanInstruction, run
<1>2. Types /\ Shape /\ Backwards /\ UpToDate
  BY DEF AllocInv, Inv
<1>3. /\ Inv' /\ UpToDate' /\ Done' = Done /\ code' = code
      /\ \A x, i : LiveFrom(x, i)' = LiveFrom(x, i) /\ Required(x, i)' = Required(x, i)
  BY <1>1, AnalysisKept DEF vars
<1>4. cur \in Block /\ idx \in 1..Len(code[cur]) /\ Len(code[cur]) \in Nat
  <2>1. cur \in Block /\ idx \in Nat \ {0} /\ idx <= Len(code[cur])
    BY <1>1, <1>2 DEF Shape
  <2>2. code[cur] \in Seq([use : SUBSET Reg, def : SUBSET Reg, copy : BOOLEAN])
    BY <2>1, <1>2, FunctionAssumption DEF Types
  <2>3. Len(code[cur]) \in Nat
    BY <2>2, LenProperties
  <2> QED BY <2>1, <2>3
<1>5. live = LiveFrom(cur, idx + 1) /\ cur \notin left
  BY <1>1, <1>2 DEF Backwards
<1>6. live' = LiveFrom(cur, idx) /\ adj' = adj \cup Required(cur, idx)
  BY <1>1, <1>2, <1>4, <1>5, FromNext DEF Required, LiveBefore
<1>7. Shape'
  <2>1. live' \subseteq Reg /\ adj' \subseteq Edge
    BY <1>2, <1>6 DEF LiveFrom, Required, Edges, Shape
  <2>2. idx' \in Nat /\ idx' <= Len(code[cur])
    BY <1>1, <1>4
  <2> QED BY <2>1, <2>2, <1>1, <1>2, <1>3 DEF Shape
<1>8. Backwards'
  <2>1. idx' + 1 = idx
    BY <1>1, <1>4
  <2>2. live' = LiveFrom(cur, idx + 1)'
    <3>1. LiveFrom(cur, idx + 1)' = LiveFrom(cur, idx)
      BY <2>1, <1>1 DEF LiveFrom, vars
    <3> QED BY <3>1, <1>6
  <2>3. ASSUME NEW x \in Block, NEW i \in Nat, i \in 1..Len(code[x]), IsScanned(x, i)'
        PROVE  Required(x, i) \subseteq adj'
    <3>1. CASE x = cur /\ i = idx
      BY <3>1, <1>6
    <3>2. CASE ~(x = cur /\ i = idx)
      <4>1. IsScanned(x, i)
        BY <3>2, <2>3, <1>1, <1>4 DEF IsScanned
      <4> QED BY <4>1, <2>3, <1>1, <1>2 DEF Backwards
    <3> QED BY <3>1, <3>2
  <2> QED BY <2>2, <2>3, <1>1, <1>3, <1>5 DEF Backwards
<1>9. Respected' /\ Held'
  BY <1>1 DEF Respected, Held
<1> QED BY <1>3, <1>7, <1>8, <1>9 DEF AllocInv

LEMMA SpillInv ==
  ASSUME AllocInv, NEW b \in Block, NEW c \in Code, Spill(b, c)
  PROVE  AllocInv'
<1>1. /\ idx = 0 /\ Rewrite(b, c) /\ stage' = "live"
      /\ UNCHANGED <<left, cur, idx, live, adj, color, val, cell>>
  BY DEF Spill, Scanned, build, run
<1>2. Inv'
  <2>1. Next
    BY <1>1 DEF Next
  <2> QED BY <2>1, StepInv DEF AllocInv
<1>3. UpToDate'
  BY <1>1 DEF Rewrite, UpToDate
<1>4. Shape' /\ Backwards' /\ Respected' /\ Held'
  BY <1>1 DEF AllocInv, Shape, Backwards, Respected, Held
<1> QED BY <1>2, <1>3, <1>4 DEF AllocInv

LEMMA ApplyInv ==
  ASSUME AllocInv, NEW c \in [Reg -> Physical], NEW args \in [Physical -> Value], Apply(c, args)
  PROVE  AllocInv'
<1>1. /\ Scanned /\ Round!Proper(c) /\ color' = c /\ stage' = "run"
      /\ val' = [r \in Reg |-> IF r \in Physical THEN args[r] ELSE Undefined]
      /\ cell' = args /\ cur' = Entry /\ idx' = 1
      /\ UNCHANGED <<left, live, adj>> /\ UNCHANGED vars
  BY DEF Apply
<1>2. Types /\ Shape /\ Backwards
  BY DEF AllocInv, Inv
<1>3. /\ Inv' /\ UpToDate' /\ Done' = Done /\ code' = code
      /\ \A x, i : LiveFrom(x, i)' = LiveFrom(x, i) /\ Required(x, i)' = Required(x, i)
  BY <1>1, AnalysisKept DEF vars
<1>4. Shape'
  <2>1. code[Entry] \in Seq([use : SUBSET Reg, def : SUBSET Reg, copy : BOOLEAN])
    BY <1>2, FunctionAssumption DEF Types
  <2>2. Len(code[Entry]) \in Nat
    BY <2>1, LenProperties
  <2>3. 1 \in 1..(Len(code[Entry]) + 1)
    BY <2>2
  <2>4. val' \in [Reg -> Value \cup {Undefined}]
    BY <1>1, AllocationAssumption
  <2>5. Done'
    BY <1>1, <1>2, <1>3 DEF Scanned, Shape
  <2> QED BY <2>3, <2>4, <2>5, <1>1, <1>2, <1>3, FunctionAssumption DEF Shape
<1>5. Round!Node = Reg
  BY AllocationAssumption DEF Round!Node
<1>6. Respected'
  <2>1. \A b \in Block, i \in Nat : i \in 1..Len(code[b]) => Required(b, i) \subseteq adj
    <3> SUFFICES ASSUME NEW b \in Block, NEW i \in Nat, i \in 1..Len(code[b])
                 PROVE  IsScanned(b, i)
      BY <1>1, <1>2 DEF Scanned, Backwards
    <3>1. 0 < i
      OBVIOUS
    <3> QED BY <3>1, <1>1 DEF IsScanned, Scanned
  <2>2. \A a, b \in Reg : {a, b} \in adj => c[a] # c[b]
    <3> SUFFICES ASSUME NEW a \in Reg, NEW b \in Reg, {a, b} \in adj
                 PROVE  c[a] # c[b]
      OBVIOUS
    <3>1. ~({a, b} \subseteq Physical)
      BY <1>2 DEF Shape, Edge
    <3> QED BY <3>1, <1>1, <1>5 DEF Round!Proper
  <2>3. \A p \in Physical : c[p] = p
    BY <1>1 DEF Round!Proper
  <2> QED BY <2>1, <2>2, <2>3, <1>1, <1>3 DEF Respected
<1>7. Held'
  BY <1>1, AllocationAssumption DEF Held, Agrees, LiveFrom, Round!Proper
<1>8. Backwards'
  BY <1>1 DEF Backwards
<1> QED BY <1>3, <1>4, <1>6, <1>7, <1>8 DEF AllocInv

LEMMA Two ==
  ASSUME NEW a, NEW b, a # b
  PROVE  Cardinality({a, b}) = 2
<1>1. IsFiniteSet({a}) /\ Cardinality({a}) = 1
  BY FS_Singleton
<1>2. Cardinality({a} \cup {b}) = IF b \in {a} THEN Cardinality({a}) ELSE Cardinality({a}) + 1
  BY <1>1, FS_AddElement, Zenon
<1>3. b \notin {a} /\ {a} \cup {b} = {a, b}
  OBVIOUS
<1>4. Cardinality({a, b}) = 1 + 1
  BY <1>1, <1>2, <1>3, Zenon
<1> QED BY <1>4

\* A register that stays live over an instruction shares no cell with what the
\* instruction writes, nor do two results.
LEMMA Apart ==
  ASSUME Types, Shape, Respected, stage = "run", NEW b \in Block, NEW i \in 1..Len(code[b]),
         NEW d \in code[b][i].def,
         NEW r \in LiveAcross(code[b][i], LiveFrom(b, i + 1)) \cup code[b][i].def,
         r # d
  PROVE  color[r] # color[d]
<1>1. code[b][i].def \subseteq Reg /\ i \in Nat
  BY Instructions
<1>2. r \in Reg /\ d \in Reg
  BY <1>1 DEF LiveAcross, LiveFrom
<1>3. CASE {r, d} \subseteq Physical
  BY <1>3 DEF Respected
<1>4. CASE ~({r, d} \subseteq Physical)
  <2>1. Cardinality({d, r}) = 2
    BY Two
  <2>2. {d, r} \in Edge
    BY <2>1, <1>2, <1>4 DEF Edge
  <2>3. {d, r} \in Required(b, i)
    BY <2>2 DEF Required, Edges
  <2> QED BY <2>3, <1>1, <1>2 DEF Respected
<1> QED BY <1>3, <1>4

LEMMA ExecuteCopyInv ==
  ASSUME AllocInv, ExecuteCopy
  PROVE  AllocInv'
<1> DEFINE ins == code[cur][idx]
<1>1. /\ stage = "run" /\ idx \in 1..Len(code[cur]) /\ ins.copy
      /\ idx' = idx + 1
      /\ UNCHANGED <<stage, left, cur, live, adj, color>> /\ UNCHANGED vars
  BY DEF ExecuteCopy
<1>2. Types /\ Shape /\ Respected /\ Held
  BY DEF AllocInv, Inv
<1>3. /\ Inv' /\ UpToDate' /\ Done' = Done /\ code' = code
      /\ \A x, i : LiveFrom(x, i)' = LiveFrom(x, i) /\ Required(x, i)' = Required(x, i)
  BY <1>1, AnalysisKept DEF vars
<1>4. cur \in Block /\ idx \in Nat \ {0} /\ Len(code[cur]) \in Nat
  BY <1>1, <1>2, Instructions DEF Shape
<1>5. PICK s \in ins.use, d \in ins.def :
        /\ val' = [val EXCEPT ![d] = val[s]]
        /\ cell' = IF color[s] = color[d] THEN cell
                   ELSE [cell EXCEPT ![color[d]] = cell[color[s]]]
  BY DEF ExecuteCopy
<1>6. ins.use = {s} /\ ins.def = {d} /\ s \in Reg /\ d \in Reg
  <2>1. \E x, y \in Reg : ins.use = {x} /\ ins.def = {y}
    BY <1>1, <1>2, <1>4, Instructions
  <2> QED BY <2>1, <1>5
<1>7. /\ color \in [Reg -> Physical] /\ cell \in [Physical -> Value]
      /\ val \in [Reg -> Value \cup {Undefined}]
  BY <1>2 DEF Shape
<1>8. Shape'
  <2>1. idx' \in 1..(Len(code[cur]) + 1) /\ idx' \in Nat
    BY <1>1, <1>4
  <2>2. val' \in [Reg -> Value \cup {Undefined}] /\ cell' \in [Physical -> Value]
    BY <1>5, <1>6, <1>7
  <2> QED BY <2>1, <2>2, <1>1, <1>2, <1>3 DEF Shape
<1>9. Held'
  <2>1. LiveFrom(cur, idx)' = LiveFrom(cur, idx + 1)
    BY <1>1 DEF LiveFrom, vars
  <2>2. LiveFrom(cur, idx) = (LiveFrom(cur, idx + 1) \ {d}) \cup {s}
    BY <1>1, <1>2, <1>4, <1>6, FromNext DEF LiveBefore
  <2>3. Agrees(s)
    BY <2>2, <1>1, <1>2 DEF Held
  <2> SUFFICES ASSUME NEW r \in LiveFrom(cur, idx + 1) PROVE Agrees(r)'
    BY <2>1 DEF Held
  <2>4. r \in Reg
    BY DEF LiveFrom
  <2>5. cell'[color[d]] = cell[color[s]]
    BY <1>5, <1>6, <1>7
  <2>6. CASE r = d
    BY <2>3, <2>5, <2>6, <1>1, <1>5, <1>6, <1>7 DEF Agrees
  <2>7. CASE r # d
    <3>1. Agrees(r) /\ val'[r] = val[r]
      BY <2>2, <2>4, <2>7, <1>1, <1>2, <1>5, <1>6, <1>7 DEF Held
    <3>2. cell'[color[r]] = cell[color[r]]
      <4>1. CASE color[s] = color[d]
        BY <4>1, <1>5
      <4>2. CASE color[s] # color[d] /\ r = s
        BY <4>2, <1>5, <1>6, <1>7
      <4>3. CASE r # s
        <5>1. r \in LiveAcross(ins, LiveFrom(cur, idx + 1))
          BY <4>3, <1>6 DEF LiveAcross
        <5>2. color[r] # color[d]
          BY <5>1, <2>7, <1>1, <1>2, <1>4, <1>6, Apart
        <5> QED BY <5>2, <2>4, <1>5, <1>6, <1>7
      <4> QED BY <4>1, <4>2, <4>3
    <3> QED BY <3>1, <3>2, <1>1 DEF Agrees
  <2> QED BY <2>6, <2>7
<1>10. Respected'
  BY <1>1, <1>2, <1>3 DEF Respected
<1>11. Backwards'
  BY <1>1 DEF Backwards
<1> QED BY <1>3, <1>8, <1>9, <1>10, <1>11 DEF AllocInv

LEMMA ExecuteInv ==
  ASSUME AllocInv, Execute
  PROVE  AllocInv'
<1> DEFINE ins == code[cur][idx]
           defined == \A r \in ins.use : val[r] # Undefined
<1>1. /\ stage = "run" /\ idx \in 1..Len(code[cur]) /\ ~ins.copy
      /\ idx' = idx + 1
      /\ UNCHANGED <<stage, left, cur, live, adj, color>> /\ UNCHANGED vars
  BY DEF Execute
<1>2. Types /\ Shape /\ Respected /\ Held
  BY DEF AllocInv, Inv
<1>3. /\ Inv' /\ UpToDate' /\ Done' = Done /\ code' = code
      /\ \A x, i : LiveFrom(x, i)' = LiveFrom(x, i) /\ Required(x, i)' = Required(x, i)
  BY <1>1, AnalysisKept DEF vars
<1>4. /\ cur \in Block /\ idx \in Nat \ {0} /\ Len(code[cur]) \in Nat
      /\ ins.use \subseteq Reg /\ ins.def \subseteq Reg
  BY <1>1, <1>2, Instructions DEF Shape
<1>5. PICK out \in [ins.def -> Value], got \in [ins.def -> Value] :
        /\ (defined /\ \A r \in ins.use : Agrees(r)) => got = out
        /\ val' = Written(ins.def, IF defined THEN out ELSE [r \in ins.def |-> Undefined])
        /\ cell' = CellsWritten(ins.def, got)
  BY DEF Execute
<1>6. /\ color \in [Reg -> Physical] /\ cell \in [Physical -> Value]
      /\ val \in [Reg -> Value \cup {Undefined}]
  BY <1>2 DEF Shape
<1>7. LiveFrom(cur, idx) = (LiveFrom(cur, idx + 1) \ ins.def) \cup ins.use
  BY <1>1, <1>2, <1>4, FromNext DEF LiveBefore
<1>8. \A r \in LiveFrom(cur, idx) : Agrees(r)
  BY <1>1, <1>2 DEF Held
<1>9. defined => got = out
  BY <1>5, <1>7, <1>8
<1> DEFINE res == IF defined THEN out ELSE [r \in ins.def |-> Undefined]
<1>10. res \in [ins.def -> Value \cup {Undefined}]
       /\ \A r \in ins.def : res[r] = Undefined \/ res[r] = got[r]
  BY <1>9
<1>11. val' = Written(ins.def, res)
  BY <1>5
<1> HIDE DEF res, ins, defined
<1>12. \A r \in Reg : val'[r] = IF r \in ins.def THEN res[r] ELSE val[r]
  BY <1>11 DEF Written
<1>13. \A p \in Physical :
         cell'[p] = IF \E r \in ins.def : color[r] = p
                    THEN got[CHOOSE r \in ins.def : color[r] = p] ELSE cell[p]
  BY <1>5 DEF CellsWritten
<1>14. Shape'
  <2>1. idx' \in 1..(Len(code[cur]) + 1) /\ idx' \in Nat
    BY <1>1, <1>4
  <2>2. val' \in [Reg -> Value \cup {Undefined}]
    BY <1>4, <1>6, <1>10, <1>11 DEF Written
  <2>3. cell' \in [Physical -> Value]
    BY <1>5, <1>6 DEF CellsWritten
  <2> QED BY <2>1, <2>2, <2>3, <1>1, <1>2, <1>3 DEF Shape
<1>15. Held'
  <2>1. LiveFrom(cur, idx)' = LiveFrom(cur, idx + 1)
    BY <1>1 DEF LiveFrom, vars
  <2> SUFFICES ASSUME NEW r \in LiveFrom(cur, idx + 1) PROVE Agrees(r)'
    BY <2>1 DEF Held
  <2>2. r \in Reg /\ color[r] \in Physical
    BY <1>6 DEF LiveFrom
  <2>3. \A x \in LiveFrom(cur, idx + 1) \cup ins.def, d \in ins.def :
          x # d => color[x] # color[d]
    <3> SUFFICES ASSUME NEW x \in LiveFrom(cur, idx + 1) \cup ins.def, NEW d \in ins.def,
                        x # d
                 PROVE  color[x] # color[d]
      OBVIOUS
    <3>1. x \in LiveAcross(ins, LiveFrom(cur, idx + 1)) \cup ins.def
      BY <1>1 DEF LiveAcross, CareCopy
    <3> QED BY <3>1, <1>1, <1>2, <1>4, Apart DEF ins
  <2>4. CASE r \in ins.def
    <3>1. (CHOOSE x \in ins.def : color[x] = color[r]) = r
      BY <2>3, <2>4
    <3>2. cell'[color[r]] = got[r]
      BY <3>1, <2>2, <2>4, <1>13
    <3> QED BY <3>2, <2>2, <2>4, <1>1, <1>10, <1>12 DEF Agrees
  <2>5. CASE r \notin ins.def
    <3>1. ~\E x \in ins.def : color[x] = color[r]
      BY <2>3, <2>5
    <3>2. cell'[color[r]] = cell[color[r]] /\ val'[r] = val[r]
      BY <3>1, <2>2, <2>5, <1>12, <1>13
    <3>3. Agrees(r)
      BY <2>5, <1>7, <1>8
    <3> QED BY <3>2, <3>3, <1>1 DEF Agrees
  <2> QED BY <2>4, <2>5
<1>16. Respected'
  BY <1>1, <1>2, <1>3 DEF Respected
<1>17. Backwards'
  BY <1>1 DEF Backwards
<1> QED BY <1>3, <1>14, <1>15, <1>16, <1>17 DEF AllocInv

LEMMA BranchInv ==
  ASSUME AllocInv, NEW b \in Block, Branch(b)
  PROVE  AllocInv'
<1>1. /\ stage = "run" /\ idx = Len(code[cur]) + 1 /\ b \in suc[cur]
      /\ cur' = b /\ idx' = 1
      /\ UNCHANGED <<stage, left, live, adj, color, val, cell>> /\ UNCHANGED vars
  BY DEF Branch, run
<1>2. Types /\ Shape /\ Respected /\ Held
  BY DEF AllocInv, Inv
<1>3. /\ Inv' /\ UpToDate' /\ Done' = Done /\ code' = code
      /\ \A x, i : LiveFrom(x, i)' = LiveFrom(x, i) /\ Required(x, i)' = Required(x, i)
  BY <1>1, AnalysisKept DEF vars
<1>4. Len(code[b]) \in Nat
  <2>1. code[b] \in Seq([use : SUBSET Reg, def : SUBSET Reg, copy : BOOLEAN])
    BY <1>2, FunctionAssumption DEF Types
  <2> QED BY <2>1, LenProperties
<1>5. Shape'
  BY <1>1, <1>2, <1>3, <1>4 DEF Shape
<1>6. Held'
  <2>1. LiveFrom(cur, idx)' = LiveFrom(b, 1)
    BY <1>1 DEF LiveFrom, vars
  <2>2. phase = "propagate" /\ queue = <<>> /\ cur \in Block
    BY <1>1, <1>2 DEF Shape, Done
  <2>3. LiveFrom(b, 1) \subseteq liveOut[cur]
    BY <2>2, <1>1, FromStart DEF AllocInv, Done
  <2>4. LiveFrom(cur, idx) = liveOut[cur]
    BY <2>2, <1>1, <1>2, FromEnd
  <2>5. \A r : Agrees(r)' = Agrees(r)
    BY <1>1 DEF Agrees
  <2> QED BY <2>1, <2>3, <2>4, <2>5, <1>1, <1>2 DEF Held
<1>7. Respected'
  BY <1>1, <1>2, <1>3 DEF Respected
<1>8. Backwards'
  BY <1>1 DEF Backwards
<1> QED BY <1>3, <1>5, <1>6, <1>7, <1>8 DEF AllocInv

LEMMA AllocStepInv == AllocInv /\ [AllocNext]_allVars => AllocInv'
<1> SUFFICES ASSUME AllocInv, [AllocNext]_allVars PROVE AllocInv'
  OBVIOUS
<1>1. CASE UNCHANGED allVars
  <2>1. /\ UNCHANGED vars
        /\ UNCHANGED <<stage, left, cur, idx, live, adj, color, val, cell>>
    BY <1>1 DEF allVars, build, run
  <2>2. /\ Inv' /\ UpToDate' /\ Done' = Done /\ code' = code
        /\ \A x, i : LiveFrom(x, i)' = LiveFrom(x, i) /\ Required(x, i)' = Required(x, i)
    BY <2>1, AnalysisKept DEF vars
  <2>3. Shape'
    BY <2>1, <2>2 DEF AllocInv, Shape
  <2>4. Backwards'
    <3>1. LiveFrom(cur, idx + 1)' = LiveFrom(cur, idx + 1)
      BY <2>1 DEF LiveFrom, vars
    <3> QED BY <3>1, <2>1, <2>2 DEF AllocInv, Backwards, IsScanned
  <2>5. Respected'
    BY <2>1, <2>2 DEF AllocInv, Respected
  <2>6. Held'
    <3>1. LiveFrom(cur, idx)' = LiveFrom(cur, idx)
      BY <2>1 DEF LiveFrom, vars
    <3> QED BY <3>1, <2>1 DEF AllocInv, Held, Agrees
  <2> QED BY <2>2, <2>3, <2>4, <2>5, <2>6 DEF AllocInv
<1> QED
  BY <1>1, AnalyseInv, StartBuildInv, ScanBlockInv, ScanInstructionInv, SpillInv, ApplyInv,
     ExecuteCopyInv, ExecuteInv, BranchInv DEF AllocNext

LEMMA AlwaysAllocInv == AllocSpec => []AllocInv
BY AllocInitInv, AllocStepInv, PTL DEF AllocSpec

\* Types; build() and the colouring work on the result of a finished analysis.
THEOREM AllocTypeCorrect == AllocSpec => []AllocTypeOK
<1>1. AllocInv => AllocTypeOK
  <2> SUFFICES ASSUME AllocInv PROVE AllocTypeOK
    OBVIOUS
  <2>1. Shape /\ Types
    BY DEF AllocInv, Inv
  <2>2. code[cur] \in Seq([use : SUBSET Reg, def : SUBSET Reg, copy : BOOLEAN])
    BY <2>1, FunctionAssumption DEF Types, Shape
  <2>3. Len(code[cur]) \in Nat
    BY <2>2, LenProperties
  <2>4. idx \in 0..(Len(code[cur]) + 1)
    BY <2>1, <2>3 DEF Shape
  <2> QED BY <2>1, <2>4 DEF Shape, AllocTypeOK
<1> QED BY <1>1, AlwaysAllocInv, PTL

\* The allocated code reads what the code before allocation reads.
THEOREM AllocationIsFaithful == AllocSpec => []ReadsAgree
<1>1. AllocInv => ReadsAgree
  <2> SUFFICES ASSUME AllocInv, stage = "run", idx \in 1..Len(code[cur]),
                      NEW r \in code[cur][idx].use
               PROVE  Agrees(r)
    BY DEF ReadsAgree
  <2>1. Types /\ cur \in Block /\ Held
    BY DEF AllocInv, Inv, Shape
  <2>2. code[cur][idx].use \subseteq LiveFrom(cur, idx)
    BY <2>1, FromNext DEF LiveBefore
  <2> QED BY <2>1, <2>2 DEF Held
<1> QED BY <1>1, AlwaysAllocInv, PTL

-----------------------------------------------------------------------------
\* build() adds no edge that an instruction does not require.
OnlyRequired ==
  stage = "build" =>
    \A e \in adj : \E b \in Block : \E i \in 1..Len(code[b]) : e \in Required(b, i)

LEMMA StepOnlyRequired ==
  ASSUME AllocInv, OnlyRequired, [AllocNext]_allVars
  PROVE  OnlyRequired'
<1>1. CASE stage' # "build"
  BY <1>1 DEF OnlyRequired
<1>2. CASE StartBuild
  BY <1>2 DEF StartBuild, OnlyRequired
<1>3. CASE ScanInstruction
  <2>1. /\ stage = "build" /\ idx # 0 /\ UNCHANGED vars
        /\ adj' = adj \cup Edges(code[cur][idx], live)
    BY <1>3 DEF ScanInstruction
  <2>2. /\ code' = code
        /\ \A b, i : Required(b, i)' = Required(b, i)
    BY <2>1, AnalysisKept DEF vars
  <2>3. cur \in Block /\ idx \in 1..Len(code[cur]) /\ live = LiveFrom(cur, idx + 1)
    <3>1. cur \in Block /\ idx \in Nat \ {0} /\ idx <= Len(code[cur])
      BY <2>1 DEF AllocInv, Shape
    <3>2. Len(code[cur]) \in Nat
      BY <3>1, CodeOf DEF AllocInv, Inv
    <3> QED BY <3>1, <3>2, <2>1 DEF AllocInv, Backwards
  <2>4. adj' = adj \cup Required(cur, idx)
    BY <2>1, <2>3 DEF Required
  <2> QED BY <2>1, <2>2, <2>3, <2>4 DEF OnlyRequired
<1>4. CASE stage' = "build" /\ ~StartBuild /\ ~ScanInstruction
  <2>1. stage = "build" /\ adj' = adj /\ UNCHANGED vars
    <3>1. CASE \E b \in Block : ScanBlock(b)
      BY <3>1, <1>4 DEF ScanBlock
    <3>2. CASE UNCHANGED allVars
      BY <3>2, <1>4 DEF allVars, build
    <3>3. CASE \/ \E b \in Block, c \in Code : Spill(b, c)
               \/ \E c \in [Reg -> Physical], args \in [Physical -> Value] : Apply(c, args)
      BY <3>3, <1>4 DEF Spill, Apply
    <3>4. CASE Analyse \/ ExecuteCopy \/ Execute \/ \E b \in Block : Branch(b)
      BY <3>4, <1>4 DEF Analyse, ExecuteCopy, Execute, Branch
    <3> QED BY <3>1, <3>2, <3>3, <3>4, <1>4 DEF AllocNext
  <2>2. code' = code /\ \A b, i : Required(b, i)' = Required(b, i)
    BY <2>1, AnalysisKept DEF vars
  <2> QED BY <2>1, <2>2 DEF OnlyRequired
<1> QED BY <1>1, <1>2, <1>3, <1>4

\* The conflicts of the program, instruction by instruction.
LEMMA ConflictIsRequired ==
  ASSUME AllocInv, Done, NEW a \in Reg, NEW b \in Reg
  PROVE  Conflict(a, b) <=>
           \E x \in Block : \E i \in 1..Len(code[x]) :
             /\ a \in code[x][i].def
             /\ b \in LiveAcross(code[x][i], LiveFrom(x, i + 1)) \cup code[x][i].def
<1>1. Inv /\ UpToDate /\ Types
  BY DEF AllocInv, Inv
<1> DEFINE Meets(x, i) ==
             /\ a \in code[x][i].def
             /\ b \in LiveAcross(code[x][i], LiveFrom(x, i + 1)) \cup code[x][i].def
<1>2. ASSUME NEW x \in Block, NEW i \in 1..Len(code[x])
      PROVE  Meets(x, i) <=>
               /\ DefsAt(a, <<x, i>>)
               /\ \/ DefsAt(b, <<x, i>>)
                  \/ /\ <<x, i + 1>> \in LiveWithin(b)
                     /\ ~(CareCopy(code[x][i]) /\ UsesAt(b, <<x, i>>))
  <2>1. Len(code[x]) \in Nat
    BY <1>1, CodeOf
  <2>2. i <= Len(code[x]) /\ i + 1 \in 1..(Len(code[x]) + 1)
    BY <2>1
  <2>3. <<x, i + 1>> \in LiveWithin(b) <=> b \in LiveFrom(x, i + 1)
    BY <2>2, <1>1, SetsAreLiveness
  <2> QED BY <2>2, <2>3 DEF DefsAt, UsesAt, LiveAcross
<1>3. ASSUME Conflict(a, b)
      PROVE  \E x \in Block : \E i \in 1..Len(code[x]) : Meets(x, i)
  <2>1. PICK p \in Point :
          /\ DefsAt(a, p)
          /\ \/ DefsAt(b, p)
             \/ /\ <<p[1], p[2] + 1>> \in LiveWithin(b)
                /\ ~(CareCopy(code[p[1]][p[2]]) /\ UsesAt(b, p))
    BY <1>3 DEF Conflict
  <2>2. PICK x \in Block : \E i \in 1..(Len(code[x]) + 1) : p = <<x, i>>
    BY PointIs
  <2>instr. PICK i \in 1..(Len(code[x]) + 1) : p = <<x, i>>
    BY <2>2
  <2>3. i \in 1..Len(code[x])
    BY <2>1, <2>instr, <1>1, CodeOf DEF DefsAt
  <2> HIDE DEF Meets
  <2> QED BY <2>1, <2>instr, <2>3, <1>2
<1>4. ASSUME NEW x \in Block, NEW i \in 1..Len(code[x]), Meets(x, i)
      PROVE  Conflict(a, b)
  <2>1. <<x, i>> \in Point
    BY <1>1, CodeOf, PointIs
  <2> HIDE DEF Meets
  <2> QED BY <2>1, <1>2, <1>4 DEF Conflict
<1> QED BY <1>3, <1>4

\* A complete graph has an edge for every two registers that the program must
\* keep apart, and no other, in every round.
THEOREM TheGraphIsExact == AllocSpec => []GraphIsExact
<1>1. AllocInv /\ OnlyRequired => GraphIsExact
  <2> SUFFICES ASSUME AllocInv, OnlyRequired, Scanned
               PROVE  adj = {e \in Edge : \E a, b \in e : a # b /\ Conflict(a, b)}
    BY DEF GraphIsExact
  <2>1. stage = "build" /\ left = {} /\ idx = 0 /\ Done /\ adj \subseteq Edge
    BY DEF Scanned, AllocInv, Shape
  <2>2. \A e \in Edge : e \subseteq Reg
    BY DEF Edge
  <2>3. ASSUME NEW e \in adj PROVE \E a, b \in e : a # b /\ Conflict(a, b)
    <3>1. e \in Edge
      BY <2>1
    <3>2. PICK x \in Block : \E i \in 1..Len(code[x]) : e \in Required(x, i)
      BY <2>1 DEF OnlyRequired
    <3>instr. PICK i \in 1..Len(code[x]) : e \in Required(x, i)
      BY <3>2
    <3>3. PICK a \in code[x][i].def,
               b \in LiveAcross(code[x][i], LiveFrom(x, i + 1)) \cup code[x][i].def : e = {a, b}
      BY <3>instr DEF Required, Edges
    <3>4. a # b
      <4> SUFFICES ASSUME a = b PROVE FALSE
        OBVIOUS
      <4>1. e = {a} /\ Cardinality(e) = 2
        BY <3>1, <3>3 DEF Edge
      <4>2. Cardinality({a}) = 1
        BY FS_Singleton
      <4>3. Cardinality({a}) = 2
        BY <4>1, Zenon
      <4> QED BY <4>2, <4>3
    <3>5. a \in Reg /\ b \in Reg
      BY <3>1, <3>3, <2>2
    <3>6. Conflict(a, b)
      BY <3>3, <3>5, <2>1, ConflictIsRequired
    <3> QED BY <3>3, <3>4, <3>6
  <2>4. ASSUME NEW e \in Edge, NEW a \in e, NEW b \in e, a # b, Conflict(a, b)
        PROVE  e \in adj
    <3>1. a \in Reg /\ b \in Reg
      BY <2>2
    <3>2. PICK x \in Block : \E i \in 1..Len(code[x]) :
            /\ a \in code[x][i].def
            /\ b \in LiveAcross(code[x][i], LiveFrom(x, i + 1)) \cup code[x][i].def
      BY <3>1, <2>1, <2>4, ConflictIsRequired
    <3>instr. PICK i \in 1..Len(code[x]) :
            /\ a \in code[x][i].def
            /\ b \in LiveAcross(code[x][i], LiveFrom(x, i + 1)) \cup code[x][i].def
      BY <3>2
    <3>3. e = {a, b}
      <4>1. IsFiniteSet(e) /\ Cardinality(e) = 2
        BY <2>2, AllocationAssumption, FS_Subset DEF Edge
      <4>2. {a, b} \subseteq e /\ Cardinality({a, b}) = 2
        BY <2>4, Two
      <4> QED BY <4>1, <4>2, FS_Subset
    <3>4. e \in Required(x, i)
      BY <3>instr, <3>3 DEF Required, Edges
    <3>5. i \in Nat /\ 0 < i /\ IsScanned(x, i)
      BY <2>1 DEF IsScanned
    <3> QED BY <3>4, <3>5, <2>1 DEF AllocInv, Backwards
  <2> QED BY <2>1, <2>3, <2>4
<1>2. AllocInit => OnlyRequired
  BY DEF AllocInit, OnlyRequired
<1>3. AllocInv /\ OnlyRequired /\ [AllocNext]_allVars => OnlyRequired'
  BY StepOnlyRequired
<1> QED BY <1>1, <1>2, <1>3, AlwaysAllocInv, PTL DEF AllocSpec
=============================================================================
