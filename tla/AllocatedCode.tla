---------------------------- MODULE AllocatedCode ----------------------------
(***************************************************************************)
(* One register class of one function through RegisterAllocate::runOn:     *)
(* LiveMessage, then InterfereGraph::build() (src/machineir/pass/util/     *)
(* InterfereGraph.cpp), then either a colouring that applyChanges() writes *)
(* into the code or another round after spilling; and the code that comes  *)
(* out, run beside the code that went in.                                  *)
(*                                                                         *)
(* The colouring between the two is any one that module Coloring allows,   *)
(* which InterfereGraph is shown to implement (ImplementsColoring).        *)
(***************************************************************************)
EXTENDS LiveMessage

CONSTANTS
  Virtual,    \* virtual registers of the class
  Physical,   \* its allocatable physical registers
  Value,      \* what a register may hold
  Undefined   \* what nobody has written

ASSUME AllocationAssumption ==
  /\ Reg = Virtual \cup Physical /\ Virtual \cap Physical = {} /\ IsFiniteSet(Reg)
  /\ Physical # {} /\ Value # {} /\ Undefined \notin Value
  /\ \A c \in Code : \A i \in 1..Len(c) :
       c[i].copy => \E s, d \in Reg : c[i].use = {s} /\ c[i].def = {d}

VARIABLES
  stage,     \* "live", "build", "run"
  left,      \* the blocks build() has still to scan
  cur, idx,  \* the instruction to be scanned or run next, and its block
  live,      \* live in build()
  adj,       \* adjSet_, as a set of edges
  color,     \* color_ as applyChanges() finds it
  val,       \* what every register holds in the code before allocation
  cell       \* what every physical register holds in the allocated code

build == <<left, cur, idx, live, adj>>
run   == <<color, val, cell>>
allVars == <<vars, stage, build, run>>

Edge == {e \in SUBSET Reg : Cardinality(e) = 2 /\ ~(e \subseteq Physical)}

\* isCareCopy(): a copy within the class, not between two physical registers.
CareCopy(ins) == ins.copy /\ (ins.use \cup ins.def) \cap Virtual # {}

\* The registers live after an instruction that it may not overwrite: a copy
\* leaves its destination with the value of its source.
LiveAcrossAny(ins, after) == after \ ins.use
LiveAcross(ins, after) == IF CareCopy(ins) THEN after \ ins.use ELSE after

\* addEdge() drops loops and edges between physical registers.
EdgesAny(ins, after) ==
  {{i, j} : i \in ins.def, j \in LiveAcross(ins, after) \cup ins.def}
Edges(ins, after) ==
  {e \in Edge : \E i \in ins.def, j \in LiveAcross(ins, after) \cup ins.def : e = {i, j}}

\* Going back over an instruction.
LiveBeforeKept(ins, after) == after \cup ins.use
LiveBefore(ins, after) == (after \ ins.def) \cup ins.use

\* The contract of a round of colouring on the graph of build().
Round == INSTANCE Coloring WITH
  NoColor <- Undefined, spilled <- {}, done <- stage = "run",
  conflict <- [r \in Reg |-> {o \in Reg : {r, o} \in adj}]

Scanned == stage = "build" /\ left = {} /\ idx = 0

-----------------------------------------------------------------------------
AllocInit ==
  /\ Init
  /\ stage = "live"
  /\ left = {} /\ cur = Entry /\ idx = 0 /\ live = {} /\ adj = {}
  /\ color = [r \in Reg |-> IF r \in Physical THEN r ELSE CHOOSE p \in Physical : TRUE]
  /\ val = [r \in Reg |-> Undefined]
  /\ cell \in [Physical -> Value]

\* The constructor and calculateLiveMessage() of LiveMessage.
Analyse ==
  /\ stage = "live"
  /\ Compute
  /\ UNCHANGED <<stage, build, run>>

\* flush() empties the graph, and build() starts.
StartBuild ==
  /\ stage = "live" /\ Done
  /\ stage' = "build"
  /\ left' = Block /\ idx' = 0 /\ adj' = {}
  /\ UNCHANGED <<vars, cur, live, run>>

\* build() goes to the next block.
ScanBlock(b) ==
  /\ stage = "build" /\ idx = 0 /\ b \in left
  /\ left' = left \ {b}
  /\ cur' = b /\ idx' = Len(code[b])
  /\ live' = liveOut[b]
  /\ UNCHANGED <<vars, stage, adj, run>>

\* ... and to the instruction before the one it has dealt with.
ScanInstruction ==
  /\ stage = "build" /\ idx # 0
  /\ adj' = adj \cup Edges(code[cur][idx], live)
  /\ live' = LiveBefore(code[cur][idx], live)
  /\ idx' = idx - 1
  /\ UNCHANGED <<vars, stage, left, cur, run>>

\* assignColors() left a node without a colour: rewriteProgram() spills it and
\* the next round starts.
Spill(b, c) ==
  /\ Scanned
  /\ Rewrite(b, c)
  /\ stage' = "live"
  /\ UNCHANGED <<build, run>>

\* assignColors() coloured every node: applyChanges().  Then the function is
\* called: only physical registers have been given a value.
Apply(c, args) ==
  /\ Scanned
  /\ Round!Proper(c)
  /\ color' = c
  /\ stage' = "run"
  /\ val' = [r \in Reg |-> IF r \in Physical THEN args[r] ELSE Undefined]
  /\ cell' = args
  /\ cur' = Entry /\ idx' = 1
  /\ UNCHANGED <<vars, left, live, adj>>

\* The allocated code reads the values that the code before allocation reads.
Agrees(r) == val[r] = Undefined \/ cell[color[r]] = val[r]

\* The registers of S receive their results.
Written(S, out) == [r \in Reg |-> IF r \in S THEN out[r] ELSE val[r]]
CellsWritten(S, got) ==
  [p \in Physical |-> IF \E r \in S : color[r] = p
                      THEN got[CHOOSE r \in S : color[r] = p] ELSE cell[p]]

\* A copy; applyChanges() erased it if both registers are one.
ExecuteCopy ==
  /\ stage = "run" /\ idx \in 1..Len(code[cur]) /\ code[cur][idx].copy
  /\ \E s \in code[cur][idx].use, d \in code[cur][idx].def :
       /\ val' = [val EXCEPT ![d] = val[s]]
       /\ cell' = IF color[s] = color[d] THEN cell
                  ELSE [cell EXCEPT ![color[d]] = cell[color[s]]]
  /\ idx' = idx + 1
  /\ UNCHANGED <<vars, stage, left, cur, live, adj, color>>

\* Any other instruction computes the same from the same values, something else
\* from other values, and nothing the program may rely on from undefined ones.
Execute ==
  /\ stage = "run" /\ idx \in 1..Len(code[cur]) /\ ~code[cur][idx].copy
  /\ LET ins == code[cur][idx]
         defined == \A r \in ins.use : val[r] # Undefined
     IN \E out, got \in [ins.def -> Value] :
          /\ (defined /\ \A r \in ins.use : Agrees(r)) => got = out
          /\ val' = Written(ins.def, IF defined THEN out ELSE [r \in ins.def |-> Undefined])
          /\ cell' = CellsWritten(ins.def, got)
  /\ idx' = idx + 1
  /\ UNCHANGED <<vars, stage, left, cur, live, adj, color>>

\* The end of a block.
Branch(b) ==
  /\ stage = "run" /\ idx = Len(code[cur]) + 1 /\ b \in suc[cur]
  /\ cur' = b /\ idx' = 1
  /\ UNCHANGED <<vars, stage, left, live, adj, run>>

AllocNext ==
  \/ Analyse
  \/ StartBuild
  \/ \E b \in Block : ScanBlock(b)
  \/ ScanInstruction
  \/ \E b \in Block, c \in Code : Spill(b, c)
  \/ \E c \in [Reg -> Physical], args \in [Physical -> Value] : Apply(c, args)
  \/ ExecuteCopy
  \/ Execute
  \/ \E b \in Block : Branch(b)

AllocSpec == AllocInit /\ [][AllocNext]_allVars

-----------------------------------------------------------------------------
\* Shape of the state; the graph is built, and the code run, on the result of
\* a finished analysis.
AllocTypeOK ==
  /\ stage \in {"live", "build", "run"}
  /\ left \subseteq Block /\ cur \in Block
  /\ idx \in 0..(Len(code[cur]) + 1)
  /\ live \subseteq Reg /\ adj \subseteq Edge
  /\ color \in [Reg -> Physical]
  /\ val \in [Reg -> Value \cup {Undefined}]
  /\ cell \in [Physical -> Value]
  /\ stage # "live" => Done

\* The allocated code computes what the code before allocation computes: what
\* an instruction reads from a physical register is what its operand holds,
\* along every path, over loops, calls and erased copies.
ReadsAgree ==
  stage = "run" => \A i \in {idx} \cap (1..Len(code[cur])) :
                     \A r \in code[cur][i].use : Agrees(r)

\* The graph has exactly the conflicts of the program: an instruction writes
\* one register while the other is still to be read, unless it copies the one
\* from the other, or writes both.  An edge too few is a wrong program, one
\* too many a register spilled for nothing.
Conflict(a, b) ==
  \E p \in Point :
    /\ DefsAt(a, p)
    /\ \/ DefsAt(b, p)
       \/ /\ <<p[1], p[2] + 1>> \in LiveWithin(b)
          /\ ~(CareCopy(code[p[1]][p[2]]) /\ UsesAt(b, p))
GraphIsExact ==
  Scanned => adj = {e \in Edge : \E a, b \in e : a # b /\ Conflict(a, b)}
=============================================================================
