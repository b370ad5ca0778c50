# A verification of the SysY compiler

Compiler2025-SysY translates SysY, a subset of C++, to AArch64 assembly. This directory holds TLA+
models of the compiler from the parse tree to the instructions it writes, and proofs about the
parts where a mistake is hardest to see in a test: the path from SSA form to physical registers, and
the instructions that arithmetic, addresses, calls and frames become.
Every definition is translated from the C++ code; `PROJECT.json` names the lines (`map`), what
each model-checking run checks (`runs`), what the proofs establish (`theorems`), the places where
this code can go wrong (`hazards`) and where it differs from its own comments or from the language
(`findings`). Paths below are relative to the repository root.

## 1. The system

The compiler is one thread that runs passes in a fixed order (`src/compiler.cpp`, 88-243): parse
tree to AST to IR, IR passes, IR to machine IR, machine passes, text. Components talk to each
other through shared mutable structures (the IR module, then the machine module), a cache of
analyses (PassManager) and calls; there are no messages, no concurrency, nothing that is
persisted. What makes it hard is the long sequence of in-place edits of graphs and lists whose
invariants are nowhere written down, iteration orders that depend on addresses (`std::map` and
`std::set` of pointers, `unordered_map`), worklists that refill each other, analyses that go
stale, and `ASSERT`s, which are compiled in (`OPEN_ASSERT` in `include/util/Util.hpp`) and stop
the compiler.

| component | state | operations | what makes it correct | module |
|---|---|---|---|---|
| front end (`ast/Antlr2Ast.cpp`, `ir/AST2IR.cpp`) | scopes, stacks of branch targets and loops | one visit method per construct | the tree, then the IR, mean what the source means | SysY, Antlr2Ast, Ast2Ir, FrontEnd |
| IR (`ir/ir`) | instructions, blocks, edges beside the branches, uses | insert, remove, replace uses, split | lists agree with branches, definitions dominate uses | IRCode |
| pass manager (`include/ir/pass/util/PassManager.hpp`) | cached analyses | get, flush | no pass reads a stale analysis | Passes |
| analyses (`ir/pass/info`) | dominator tree, effects of functions, loops | compute; keep up to date by hand | exact, or on the safe side, when asked | DominatorTree, Passes, Loops |
| IR passes (`ir/pass`) | the program, worklists, lattices | Mem2Reg, ConstGlobalEliminate, DeadCode, SCCP, Arithmetic, Inline, PhiEliminate, LoopSimplify, LICM, LCSSA, LoopRotate, GCM, GVN | same meaning, well-formed result | Mem2Reg, DeadCode, StrengthReduction, Inline, Loops, LoopPasses, ScalarPasses |
| selection (`machineir/translate`) | the program | CriticalEdgeRemove, CmpCombine, InstructionSelect | what the translation relies on holds | Selection |
| translation (`machineir/IR2MIR.cpp`, `MachineFunction.cpp`) | values to registers, phi copies | one sequence per instruction; calls, tail calls | same meaning | Ir2Mir, MachineCode |
| copy sequencing (`mergePhiCopies`) | map of pending copies with use counts | the pass over the map, breaking a cycle | copies assign all phis at once, one temporary per cycle | PhiCopies |
| liveness (`machineir/pass/info/LiveMessage.cpp`) | block order, queue, flags, bit sets | constructor, calculateLiveMessage | exactly the live registers, again after each rewrite | LiveMessage |
| worklist colouring (`machineir/pass/util/InterfereGraph.cpp`) | graph, degrees, aliases, node and move lists, select stack | simplify, coalesce, freeze, selectSpill, assignColors | no ASSERT fails; proper, total colouring; it ends | InterfereGraph, Coloring |
| graph construction, application (same file) | live set of a backward scan, graph | build, addEdge, applyChanges | exactly the conflicts of the code; same meaning | AllocatedCode |
| spilling, sinking, slot merging, prefilled addresses (`MFunction::spill`, `rewriteProgram`, `calculateFrameInterfereGraph`, RegPrefill) | code, frame slots | rewrite uses and definitions, move definitions down, merge slots | same meaning; slots that live at once stay apart | Allocation |
| machine peepholes (LoadStoreEliminate, RegSpill, CleanCode) | value tables of a block | forward, merge, erase | no stale value is used | MachinePasses |
| frame layout, code generation (FrameOffset, CodeGen) | offsets; scratch registers, flags, moves of SP | assign; write | objects apart; calls keep the convention; immediates fit | FramePlacement, MachinePasses, Target, Emit, CodeGen |
| layout (ReturnMerge, BlockLayout) | epilogs; chains of blocks | merge, order, drop branches | every label exists, same control flow | MachinePasses |
| driver (`compiler.cpp`) | the list of passes | run | all of it together | IRPipeline, Compiler |

## 2. The modules

    SysY -- Antlr2Ast --\                     meaning of the source; the two trees
            Ast2Ir ------ FrontEnd            AST and IR made from it
    IRCode (meaning of the IR) -- Passes -- one module per group of passes
                          \-- IRPipeline      the passes in their order
    Target -- MachineCode (meaning of machine code) -- Ir2Mir, Allocation,
           |                  MachinePasses, CodeGen
           \-- Emit       \-- Compiler        EXTENDS IRPipeline: source to code
    PhiCopies, LiveMessage --- AllocatedCode, InterfereGraph --- Coloring
                          the register allocator as state machines, with proofs
    StrengthReduction, FramePlacement, Emit
                          the arithmetic of two passes and the instructions
                          CodeGen writes for what one of the target's cannot do,
                          with proofs
    Word, Iteration       wrapping integers; loops over lists
    MC...                 small instances for TLC
    ...Proofs             theorems

There are two kinds of model. The register allocator's algorithms (second half of this section)
are state machines with one action per step of the algorithm, over *any* graph or code; they carry
most of the proofs. The passes are functions from programs to programs, written as operators; a pass is one
action of `IRPipeline` or `Compiler`, and what is explored is the sequence of passes over
shared state, from many programs, with both settings of `-O` and every order of addresses
that is modelled. Three interpreters give the three languages their meaning: `Meaning` in SysY,
`Run` in IRCode, `Execution` in MachineCode; the models' central properties compare them.

### Front end: SysY, Antlr2Ast, Ast2Ir, FrontEnd

`Antlr2Ast` follows the visitor on the parse tree: folding of constants, casts, negations
moved outwards, short-circuit lists that a constant decides cut down to the calls in them. `Ast2Ir` threads the visitor's
state (current block, stacks of true and false targets, stacks of loops, scopes) through the tree.
`FrontEnd` has the two steps as actions.

### IR passes: IRCode, Passes, ..., IRPipeline

A program is a record of instructions by identity, blocks as lists of identities, and the lists of predecessors
and successors that the code keeps apart from the branches and must keep in agreement with them.
Use lists are derived. `Passes` adds what PassManager caches (dominators, effects of functions, loops) and says which
flush empties what; every pass asks for its analyses through it, so a stale one reaches the pass as it would in the code. `Loops` keeps LoopDetection's records as LoopSimplify patches
them by hand; the dominator tree is computed by Lengauer and Tarjan's algorithm with the path compression of the code and
compared by `DominatorsAreFresh`. A null pointer followed or a failed ASSERT sets `runs` to FALSE.
Values that the code visits in an unordered container are taken by identity where the result does
not depend on the order.

`LoopPasses` has LoopSimplify, LICM, LCSSA and LoopRotate; `ScalarPasses` SCCP, PhiEliminate, GCM,
GVN and the worklist of Arithmetic. What Arithmetic puts in place of one instruction, a function of the operation and its
operands, is a module of its own, `StrengthReduction`: the passes use it and proofs can be made
about it. In the same way `MachinePasses` takes from `FramePlacement` where the objects of a frame go.

### Machine passes: Target, MachineCode, ..., Compiler

An instruction has definitions, uses, width, condition, targets. `Target` says what one of them does to a
machine: registers (a 32-bit write clears the upper half), flags and memory; `Issue` is one
instruction, `IssueAll` a sequence without branches. `MachineCode` has the rest of the interpreter, branches and calls,
the frame, the memory below SP that arguments travel in, and at
the end the byte addresses FrameOffset gives. A call leaves garbage in every caller-saved register before allocation
and CodeGen's own save and restore is executed after it. `backwards` is the order in which
sets of pointers are gone through: both directions are explored.

`Allocation` has both classes of registers, rounds of colouring and spilling until none is left to
spill (`AllocationRounds`), `SpillRegister` (loads before uses, stores behind definitions, operands
of copies that become loads or stores), `SpillAll`, the sinking of definitions towards their uses
(`Sink`, with what `sunk` exempts), registers for addresses used often, and the merging of slots. A round of
colouring takes one colouring that the contract `Coloring` allows, in two orders; what the
worklists do inside a round is InterfereGraph's business. `MachinePasses` has the other passes
over finished registers: FrameOffset, LoadStoreEliminate, RegSpill, CleanCode, ReturnMerge, BlockLayout.

`Emit` has what CodeGen writes for an operation: immediates in one instruction, two or a scratch register;
mathInst() with its shifts, masks and remainders; str() and ldr() of registers, globals and places in
the frame; the moves of SP around calls; prologues and epilogues. It is written without recursion, over `Target` only, so that
proofs can be made about it. Its functions take a writer `g`, what CodeGen and its output are at that point, and return the next
one; `GetIP` and `ReleaseIP` keep the two scratch registers. `CodeGen` goes through the instructions of the program
and adds comparisons, branches, and the flags that a CSET and a branch share.

`Iteration!InTurn` is the loop over a list; `FoldLeft` would do, but TLC evaluates its accumulator
lazily and the nested expressions of a long list grow too deep.

### InterfereGraph

State: `adj`, `degree`, `moveList`, `alias`, `color` are the fields of the nodes and
`adjSet_`; `where` and `moveIn` are the `parent_` pointers of the intrusive lists, so a node is
in one list at a time by construction, as in the code, and taking it from a list it is not in
is the ASSERT of `InterfereGraphNode::remove`: `ok` becomes FALSE, as it does for every other
ASSERT of the algorithm. `stack` keeps its order; all other lists are
sets, because `top()` and iteration depend on insertion orders that the graph's construction
leaves open. There is one action per turn of the loop in `runOn` and outcome of the handler:
`Simplify`, `CoalesceSame`, `CoalesceConstrained`, `CoalesceCombine`, `CoalesceDefer`, `Freeze`,
`SelectSpill`, then `AssignColor` per popped node. The priorities of the loop
(simplify before coalesce before freeze before selectSpill) are guards.

Abstractions: `build()` is "any graph and any copies" (each with a virtual end, as
isCareCopy requires); `alias()`, a recursive search, is the representative it
finds; weights, sizes and the `spilled` flag, which rank the candidates of
selectSpill, are left out, so any node with a conflict may be selected (the code
excludes those without one; with none left it stops at an ASSERT, which belongs to the
ranking and is not modelled); a colour is any free register (the code takes the first).
One round is modelled: the next starts from a new graph, which is again any graph.

### Coloring

What a round promises to `runOn` and to the code it changes: for the given conflicts, one step that
gives every register a physical one so that conflicts are respected (`Assign`, when needRewrite()
is false), or names registers to spill (`GiveUp`). `InterfereGraph` implements it
(`ImplementsColoring`), with the colours hidden until the round is over; `AllocatedCode` takes any
colouring that it allows. That ties the two large models together: whatever the worklists do, the
code that AllocatedCode runs is one that they may produce.

### PhiCopies

`pending` is the map `m`, `usage` its counts, `rm` the list of a pass, `unseen` what the range-for
has not reached; the map is ordered by address, so any element may be next. A copy takes effect on
`env` when it is emitted, which is exactly running the emitted list. The module assumes that a
block has one copy per phi, as `acceptPhiInst` makes it. Where the finished
list is put in its block (653-669) is in Ir2Mir.

### LiveMessage

The constructor's iterative depth-first search and calculateLiveMessage(), with its queue and its
flags (`visited` serves both in turn). Successors and predecessors are visited in any order. Bit
numbers (`regIdOf`) are abstracted to sets of registers. `Rewrite` is what a round of spilling does
to a block before the analysis runs again: any other code. The order of the blocks is computed
once, in the constructor; spilling does not change the graph. The module assumes that every block
is reachable (`Reachable`): DeadCode has removed the others; an unreachable block would leave a
null entry in `rpos_`.

### AllocatedCode

EXTENDS LiveMessage and goes on where it is `Done`: `ScanBlock` and `ScanInstruction` are the two
loops of build(), `Spill` another round, `Apply` applyChanges() with any colouring that `Coloring`
allows for `adj`. Then the function runs: `val` is what the code with virtual registers holds,
`cell` what the physical registers hold. An instruction writes arbitrary results, the same in both
if it has read the same; a copy copies, and is a no-op if it was erased. A register nobody has
written is `Undefined`, what is computed from it is too, and nothing is claimed about it. Memory is
not modelled here.

## 3. What is checked

| run | instance | properties |
|---|---|---|
| `front_end` | 859 programs, 3 inputs, 4-bit integers | `AstMeansSource`, `IRMeansSource`, `IRWellFormed` |
| `compile` | 127 programs, `-O0` and `-O1`, 3 inputs, 5-bit integers | `MeaningKept`, `CompilerRuns`, `IRWellFormed`, `DominatorsAreFresh`, `ReadyToTranslate`, `MachineMeansSource`, `CallingConventionKept`, `CallsPassStackArguments`, `FrameObjectsApart`, `LabelsExist`, `MachineCompilerRuns` |
| `ir_assert` | an inlined function that loads one element | violated: `CompilerRuns` |
| `ir_hoist` | one array passed as two parameters | violated: `MeaningKept` |
| `machine_store` | two calls with one stack argument in common | violated: `CallsPassStackArguments` |
| `interfere_main` | 3 virtual, 2 physical registers, 2 copies, every graph | `TypeOK`, `AssertionsHold`, `ProperColoring`, `AppliedIsTotal`, `OnlyPotentialSpills`, `DegreeIsSafe`, `WorklistsSorted`, `NoResurrection`, `RoundShrinks`, `ImplementsColoring` |
| `interfere_live` | 3 virtual, 1 physical, 2 copies, fair | `RoundEnds` |
| `interfere_george` | as main | violated: `GeorgeConservative` |
| `interfere_degree` | as main | violated: `DegreeIsExact` |
| `phi_copies` | 4 phis, 1 other operand, 3 temporaries, fair | `TypeOK`, `ParallelAssignment`, `CycleAssertHolds`, `OneTempPerCycle`, `Terminates` |
| `live_message` | every graph of 3 reachable blocks, 6 codes per block, 2 registers, fair | `TypeOK`, `ReversePostorder`, `NoLostUpdate`, `LeastSolution`, `LiveIsLive`, `PropagationGrows`, `Terminates` |
| `allocated_code` | every graph of 2 blocks, 6 codes, 2 + 2 registers, 2 values | `AllocTypeOK`, `ReadsAgree`, `GraphIsExact` |

What the properties of `compile` say, after every pass: the IR program (`MeaningKept`), then the
machine program (`MachineMeansSource`), prints and returns on every input what the source does; the
compiler has not failed an ASSERT (`CompilerRuns`, `MachineCompilerRuns`); lists agree with
branches and definitions dominate uses (`IRWellFormed`); cached dominators are those of the graph
as it is (`DominatorsAreFresh`); no critical edge enters a phi, and the flags a
branch tests are those of its comparison (`ReadyToTranslate`); SP and saved registers survive every
call (`CallingConventionKept`); each call finds its stack arguments stored where its callee
looks (`CallsPassStackArguments`); nothing in a frame overlaps (`FrameObjectsApart`); all branch
targets are written once (`LabelsExist`). Two windows are exempt because the code itself repairs
them: from LCSSA to PhiEliminate phis may use phis of their block (`InLCSSA`), and between CodeGen
and ReturnMerge functions have no epilog yet (`Unfinished`).

### Bounds

* `W` bits per integer (4 or 5 for 32): wrapping, negative and extreme values occur in every program;
  divisions by powers of two, odd and negative constants keep their shape.
* `Fuel` bounds the iterations of a loop when a source program runs (an execution that would exceed it
  is cut off in source and compiled program alike; the instances stay below it).
* The target is made small so that few variables meet its limits: two parameters in registers
  (`NParameters`, 8 in the code), callee-saved registers `Saved` = {19, 20}, one saved
  floating-point register as spill space (`FloatSaved`), immediates to `AddLimit` = 5, offsets below
  `LoadLimit`/`PairLimit` = 32 bytes. Thresholds of heuristics follow: `GlobalUses` = 2 and
  `SlotUses` = 3 as in the code; `SinkGate` = 2 (`useSinkGate` is 8) so that programs of this size
  sink; `EpilogShouldMerge` = 6 (9) so that both kinds of epilog occur.
* The programs (`Compiled`) cover: loops with break, continue, two exits, nesting, rotation in all its cases;
  arrays initialised, passed, handed on, aliased locally; globals; calls, recursion and tail recursion with arguments on the
  stack; more variables live than there are registers, across calls and branches; frames larger than an
  immediate. `Combined` puts any two of 9 + 9 constructs one after the other, so that each finds what the other left in
  registers, slots, globals and flags. Every IR and machine pass changes some of the programs.
* Three virtual registers over two colours reach high degrees, real spills, chains of two merges,
  a merge that raises a node from the freeze to the spill list and a common neighbour of merged
  nodes. Four phis hold two disjoint cycles, a chain into a cycle and a cycle of four; three
  temporaries are one more than the cycles need. Three blocks have nested, irreducible and self
  loops, and a loop through the entry (what tail recursion makes). Two blocks with two-result
  instructions, calls that clobber both physical registers, and copies in all directions cover
  every case of build().

Every property has a mutant in `PROJECT.json`: a plausible mistake in one definition that makes the
run fail. Deadlock is not checked where a model ends: a round, the copies, a program; the pipelines
end in a stuttering action and check it.

Fairness is weak fairness of the whole next-state relation (`FairSpec`): the compiler is a
sequential loop that takes its next step as long as there is one. In LiveMessage it covers the
computation (`Compute`), not `Rewrite`: nothing makes the compiler spill.

### Where the code goes wrong, or differs from its comments

Each of the first five has a run.

* **Aborts on a legal program** (`ir_assert`): InstructionSelect.cpp:35 asserts that an address of
  an address has first index 0; inlining `int f(int p[], int k) { return p[k]; }` breaks that.
* **Aliases** (`ir_hoist`): LICM collects what a loop stores by the base the store names; two
  array parameters that are one array at the call have two, and a load is hoisted over the stores.
* **Lost stack argument** (`machine_store`): LoadStoreEliminate takes the memory below SP that one
  call was handed for memory that still holds the value; the second call's store is erased and
  SP does not move.
* `coalesce()` (InterfereGraph.cpp:464) passes the physical register first (`interfere_george`);
  `GeorgeTest(virtualReg, physicReg)` looks at the neighbours of its first argument, and a physical
  register keeps none, so the test always succeeds. The header (InterfereGraph.hpp:129) describes
  the real test. The effect is more coalescing than is conservative, never a wrong colouring
  (`ProperColoring` is proved for the code as it is). Exchanging the arguments alone would be
  wrong: then (the mutant `ConservativeSwapped`) a move with a physical end can wait on the active
  list, and freezing it later takes the physical register from a list it is not in.
* `combine()` notes "addEdge + decrementDegree(t)" (339) and only does the first part
  (`interfere_degree`): a common neighbour of the merged nodes keeps a degree that is one too high.
  Degrees overcount and never undercount (`DegreeIsSafe`).

What follows was met while modelling and is left out of the programs the passing runs compile; the
models that reach it are the same.

* **Parameters handed on**: what a call stores to is what `ptrFrom()` makes of its operands, and of
  an operand that is itself an argument it makes nullptr (Instruction.cpp:48), whereas an address
  made from that argument leads to the argument. When a function hands its array parameter on to one
  that stores to it, LICM hoists a load from the parameter over the call (LICM.cpp:149-163: run
  `ir_hoist` with `Programs <- MCHandedOn`), and GCM moves one behind the call (GCM.cpp:108-113:
  `Programs <- MCHandedOnBefore`); both violate `MeaningKept`, right after the pass. `PtrFrom` in `Passes` is that function.
  FuncInfo follows addresses in its own way (`Traced`) and is right: one of the compiled programs
  has a function that hands its parameter on and neither loads nor stores itself.
* Remainders of negations: visitMulExp() (Antlr2Ast.cpp:1123-1145) moves a negation out of any
  product, `%` included, so `a % -b` becomes `-(a % b)` and `-a % -b` becomes `a % b`. With
  `Programs <- MCRemainders`, `Inputs <- MCRemInputs` run `front_end` violates `AstMeansSource`.
* The visitor uses an operand after deleting it in a condition that a later constant decides
  (Antlr2Ast.cpp:1478-1489).
* LoopDetection.cpp:486-530 (LoopSimplify's upkeep of inner loops), LoopRotate.cpp:102-201
  (moveHeadInst2Latch) and GCM.cpp:60-68 go wrong on loops with several latches, heads used
  behind several exits, and uses outside the loop; FuncInfo.cpp:135 (flushAbout) can miss a caller.
* LoadStoreEliminate.cpp:88-147 keeps what it knows of a global or an array element across calls and stores
  through other names, and takes two stores of immediates for the same.
* spill() of a register RegPrefill gave a constant global reads a slot nobody wrote
  (MachineFunction.cpp:318-345).
* A tail call that overwrites a stack parameter which was spilled, or that passes a local array to itself
  (IR2MIR.cpp:328-338).
* CodeGen: a constant INT_MIN in an addition sends add32() and sub32() round for ever (1091); compare()
  (1425-1460) turns only one of CSET and branch; `x % 1` becomes a copy of x, as a quotient does
  (simplify() removes it before); for a negative constant 1 - 2^k that is no power of two, as in `x % -3`, the
  remainder is x plus the multiple of the quotient, where it should be x minus it (873-953: the sign that is
  right for powers of two). `Writable` in EmitProofs excludes these constants.

## 4. What is proved

TLAPS checks the theorems for every value of the constants: any finite sets of registers, blocks
and copies, any graph and code, any width of the integers, any frame. Every property that a run of
the register allocator's modules checks is proved, except that they end.

* **InterfereGraphProofs**, first part: `TypeCorrect`, `NoAssertFails`, `AlwaysSorted`,
  `ColoringIsProper`, `AppliedColoringIsTotal`, `RoundImplementsColoring`. None of these is
  inductive. The invariant `Discipline` says what every list means: representatives are not merged,
  the ends of a live move are nodes of the graph, the nodes of a list have the moves and degree the
  list stands for, active moves have no physical end (because of the vacuous George test), physical
  registers have no degree. The ASSERTs follow from it. For the colouring, `Separation` and
  `Colored` relate the graph to the original conflicts: representatives of conflicting registers are
  adjacent or one of them was on the stack before; every conflict is seen by the one that is popped
  later. The refinement follows from the same invariants: only `FinishColoring` is a step of the
  contract, all others stutter.
* Second part: `DegreeCanBeTrusted` (`Degrees`: a degree counts every neighbour left in the graph);
  `NoNeedlessSpill` (`FewRivals`: what was pushed with a low degree has fewer than K nodes that
  may take a colour from it, although merging goes on after it left the graph; `Closed`, that edges follow a
  node to its representative, is needed there); `NothingIsTakenBack`;
  `EveryTurnCounts`: each turn of the loop shrinks `WorkLeft`, so that on every graph a round works
  for finitely many turns. What `RoundEnds` adds, that the round takes them, rests on fairness.
* **PhiCopiesProofs**: `PhiTypeCorrect`, `CycleAssertNeverFails`, `CopiesAssignInParallel`,
  `OneTempIsEnough`. The invariant says which register holds each original value that is still to be
  read, and that `usage` counts the pending readers; at the end of a pass that emitted nothing, a
  counting argument makes the pending copies a permutation. `Spent` adds that every temporary was made for one copy, that these
  copies are on cycles of their own, and that a cycle without one has not been entered.
* **FixpointProofs**, lemmas for the next two: induction over a set of numbers, which needs no
  operator as a parameter; iteration of a function as a function on the numbers; an iteration that
  only grows stops within Cardinality(P) steps, at the least fixpoint.
* **LiveMessageProofs**: `LiveTypeCorrect`, `UpdatesAreNotLost`, `ResultIsLeast`,
  `OrderIsReversePostorder`, `EveryTurnGrows`, `ResultIsLiveness`. The invariant: the search covers
  what it has visited, flags are the complement of the queue, a block that is not queued satisfies
  its equations, and the sets stay below every solution. A block on the order has its successors on it, or they are open on the
  search's stack: so only edges that close a cycle go backwards. Liveness along paths is the limit of paths of
  length n, hence a least fixpoint, hence what the loop ends with. A turn that changes a
  live-in set enlarges it (`Rising`), one that does not shortens the queue.
* **AllocatedCodeProofs**: `AllocTypeCorrect`, `AllocationIsFaithful`, `TheGraphIsExact`. It uses
  the invariants of LiveMessageProofs. `LiveFrom(b, i)` is liveness before an instruction, without
  recursion; build()'s `live` equals it (`Backwards`), so every conflict of the code is in the graph
  when a colouring is chosen (`Respected`), so what is live is in its cell (`Held`). In the other
  direction (`OnlyRequired`) every edge is one that an instruction requires.
* **FramePlacementProofs**: `NothingOverlaps`. The slots, the saved registers and the stack
  arguments of a frame are rows of objects, each above the ones before it (`Row`), and the rows follow each other (`Parts`). This is what
  `FrameObjectsApart` says of a frame that was finished, for any number and size of slots.
* **StrengthReductionProofs**: `SimplifyKeepsValues`. Wrapping is the choice of one number of each
  class modulo 2^W, so that sums and products may wrap at any point; quotients truncate and never
  leave the words but for the smallest number by -1; AND with k ones is the remainder by 2^k. It
  covers the folding of two constants and every case of add, sub, mul, sdiv, srem, shl, ashr and
  and. The value an instruction is given (`Outcome`) is that of `Compute` in Word, which gives all
  three languages their arithmetic. Division by zero, which SysY leaves undefined, is excluded.

* **EmitProofs**: `MathInstComputes`, `AddressesComputed`, `StoresAndLoads`, `CalleeKeepsRegisters`,
  `ArgumentsPassed`, `ArgumentsFound`. A theorem relates the machine that has carried out what was written before
  (`After(g, s0)`, for any writer g and state s0) to the machine that has also carried out the new instructions: what holds
  what, and that nothing else has changed - no other register (`OnlyRegisters`), no other word of memory
  (`OnlyThese`), no assertion (`g.x`, which holds `runs`). `IssueAll` is a recursive function, so its first lemmas are about
  traces: code is carried out from left to right, and appending an instruction is one more step.
  - Arithmetic: for every operation and all 32-bit operands, mathInst() leaves in the target register what
    `Compute` says and frees its scratch registers. The operands are integer registers that are not scratch, or
    constants (`Source`); `Writable` excludes the constants the code does not handle (see above).
  - Addresses: mathInst() of 64 bits, used to add an index or an offset to a base: the base is in a register, a global or a place
    of the frame (`Base64`), what is added a register or a constant. For a place of the frame mathInst() adds the
    two offsets to SP, which is the base's address also while SP is moved for a call.
  - Memory: str() and ldr() of 32 and 64 bits find a place at any distance from SP, aligned as the frame
    aligns it (`InFrame`), a global, or the address in a register.
  - Frames: what a prologue stores an epilogue restores, with the frame that `Frame` computes for any slots, registers and
    arguments. `SavesIn` says that every saved register is in reach of STP and LDP after the first move of SP; that
    the saved registers fit there at all (8 * Len(regs) <= PairLimit) is true of the target, which has at most 20 of them and a
    reach of 512 bytes. The body between the two is any code that keeps SP and the saved words.
  - Arguments: two places have to agree that are computed apart, the caller's offset from the SP it has moved for the call and the
    callee's from its own SP. `ArgumentsPassed` is the caller's half, with the other arguments and the caller's own slots untouched;
    `ArgumentsFound` adds the callee: it loads the value the caller stored. Between the two halves it requires only that SP
    is where the callee's prologue puts it and that the word is not overwritten, and shows that the prologue does not.
    The value stored is not SP itself, which moves. `machine_store` (section 3) is no contradiction: there a pass before CodeGen
    has deleted the store.

Assumptions: the named ASSUMEs of the modules (finite disjoint sets of registers, at least one
physical register, distinct destinations of phis, code made of instructions over the registers, at least
three bits). TLC evaluates them in the runs.

Only model-checked: the invariants of `front_end` and `compile`. The passes are recursive operators
over programs, which the prover cannot read, and that they keep the meaning is an induction over
executions. Where a pass rests on arithmetic or on a sequence of instructions, that part is in a module without recursion
and proved: `SimplifyKeepsValues` and `MathInstComputes` for `MeaningKept` and `MachineMeansSource`, `NothingOverlaps`
for `FrameObjectsApart`, `CalleeKeepsRegisters` for `CallingConventionKept`, `ArgumentsPassed` and
`ArgumentsFound` for `CallsPassStackArguments`. They are lemmas of these properties, not the properties: that
CodeGen calls the functions of Emit in the right places is checked by the run. Also left to the run are floating-point operands, 64-bit arithmetic beyond
addition, and comparisons. `RoundEnds` and the two `Terminates` are liveness, beyond the prover; `RoundShrinks` and
`PropagationGrows` are the part of them that is not.

## 5. Not modelled, and the plan

* Floats and arrays of several dimensions, and with them GlobalArrayReverse, GetElementSplit, Tensor and the floating
  point half of Arithmetic, IR2MIR and CodeGen: the arithmetic is out of TLC's reach, the rest repeats the
  integer case. Floating-point registers are modelled where integers are spilled to them.
* MachineDominator and MachineLoopDetection: the algorithms of the IR analyses again; the machine
  passes use those modules.
* prefillConstant of RegPrefill; block copies into far slots; the instructions that build a constant; weights of
  registers, hence which spill candidate is taken and that the rounds end; the order in which functions are allocated.
* DynamicBitset: sets in the models. RemoveEmptyBlocks: in no list of passes. Options and files of the driver.
* The generated parser, printing, logging, memory management, timing.

Plan: prefilled constants; weights and the end of the rounds; comparisons and conditions in Emit; the local value tables
of LoadStoreEliminate in a module that can be proved about.
