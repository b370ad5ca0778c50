----------------------------- MODULE IRPipeline -----------------------------
(***************************************************************************)
(* compiler.cpp's addPasses4IR() and addPasses4IR2MIR(): the passes over   *)
(* the intermediate representation in their order, with and without -O1,   *)
(* sharing one program and one PassManager.                                *)
(***************************************************************************)
EXTENDS Ast2Ir, Mem2Reg, DeadCode, Inline, LoopPasses, ScalarPasses, Selection

CONSTANTS Programs,   \* the syntax trees compiled
          Inputs,     \* what a program may find on its input
          Fuel        \* bound on the iterations of an execution

VARIABLES src, c, pc
vars == <<src, c, pc>>

Init == /\ src \in Programs
        /\ \E o1 \in BOOLEAN : c = Compilation(Translate(src), o1)
        /\ pc = 1

Optimising == <<"ConstGlobalEliminate", "Mem2Reg", "DeadCode", "SCCP", "DeadCode", "Arithmetic",
                "DeadCode", "Inline", "ConstGlobalEliminate", "Mem2Reg", "DeadCode", "LoopSimplify",
                "LICM", "LCSSA", "LoopRotate", "SCCP", "DeadCode", "Arithmetic", "DeadCode",
                "PhiEliminate", "DeadCode", "GCM", "Inline", "GVN", "DeadCode", "CriticalEdgeRemove",
                "CmpCombine", "InstructionSelect">>
Order == IF c.o1 THEN Optimising ELSE <<"Mem2Reg", "DeadCode", "CriticalEdgeRemove", "CmpCombine">>

Pass(name, Do(_)) == c.runs /\ pc <= Len(Order) /\ Order[pc] = name /\ c' = Do(c) /\ pc' = pc + 1 /\ UNCHANGED src

RunConstGlobalEliminate == Pass("ConstGlobalEliminate", ConstGlobalEliminate)
RunMem2Reg == Pass("Mem2Reg", Mem2Reg)
RunDeadCode == Pass("DeadCode", DeadCode)
RunSCCP == Pass("SCCP", SCCP)
RunInline == Pass("Inline", Inline)
RunPhiEliminate == Pass("PhiEliminate", PhiEliminate)
RunLoopSimplify == Pass("LoopSimplify", LoopSimplify)
RunLICM == Pass("LICM", LICM)
RunLCSSA == Pass("LCSSA", LCSSA)
RunLoopRotate == Pass("LoopRotate", LoopRotate)
RunGCM == Pass("GCM", GCM)
RunGVN == Pass("GVN", GVN)
RunArithmetic == Pass("Arithmetic", Arithmetic)
RunCriticalEdgeRemove == Pass("CriticalEdgeRemove", CriticalEdgeRemove)
RunCmpCombine == Pass("CmpCombine", CmpCombine)
RunInstructionSelect == Pass("InstructionSelect", InstructionSelect)
Done == (pc > Len(Order) \/ ~c.runs) /\ UNCHANGED vars

Next == \/ RunConstGlobalEliminate \/ RunMem2Reg \/ RunDeadCode \/ RunSCCP \/ RunInline
        \/ RunPhiEliminate \/ RunLoopSimplify \/ RunLICM \/ RunLCSSA \/ RunLoopRotate \/ RunGCM \/ RunGVN
        \/ RunArithmetic \/ RunCriticalEdgeRemove \/ RunCmpCombine \/ RunInstructionSelect \/ Done

Spec == Init /\ [][Next]_vars
-----------------------------------------------------------------------------
After(name) == pc > 1 /\ Order[pc - 1] = name
AtOrAfter(name) == \E k \in 1..(pc - 1) : Order[k] = name

\* LCSSA leaves phis that use phis of their own block, which PhiEliminate
\* replaces by what they stand for.
InLCSSA == AtOrAfter("LCSSA") /\ ~AtOrAfter("PhiEliminate")

(* After every pass the program prints and returns, for every input, what    *)
(* the source does (Pass::run() of all passes in the order of addPasses4IR). *)
MeaningKept ==
    ~InLCSSA => \A in \in Inputs : Run(c.m, in, 4 * Fuel) = A!Meaning(src, in, Fuel)

(* No pass fails an assertion or follows a null pointer (lcaOfUse() of       *)
(* GCM.cpp, the ASSERT on the first index in InstructionSelect.cpp).         *)
CompilerRuns == c.runs

(* Once DeadCode has removed what nobody reaches, and from then on after     *)
(* the passes that prepare the translation, block lists agree with branches, *)
(* phis with predecessors, and no value is used before it is defined         *)
(* (Function::checkBlockRelations).                                         *)
IRWellFormed == (After("DeadCode") \/ AtOrAfter("CriticalEdgeRemove")) /\ ~InLCSSA => WellFormed(c.m)

(* A pass that asks PassManager for the dominators of a function gets those  *)
(* of its graph of now, not of one an earlier pass has changed since.        *)
AsksForDominators == {"Mem2Reg", "LoopSimplify", "LICM", "LCSSA", "LoopRotate", "GCM", "GVN"}
DominatorsAreFresh ==
    pc <= Len(Order) /\ Order[pc] \in AsksForDominators =>
       \A f \in DOMAIN c.dom : c.dom[f] = DomTree(Graph(c.m, f))

(* What the translation to machine code relies on: a phi's predecessors have *)
(* no other successor, so its copies can stand at their ends, and the flags  *)
(* a conditional branch asks for are those of a comparison of its own block  *)
(* with no other comparison or call behind it (CriticalEdgeRemove,           *)
(* CmpCombine).                                                             *)
PhisOwnTheirEdges ==
    \A b \in DOMAIN c.m.blk : Phis(c.m, b) # <<>> =>
       \A p \in ToSet(c.m.pre[b]) : Len(c.m.suc[p]) = 1
FlagsReachBranches ==
    \A b \in DOMAIN c.m.blk : Len(c.m.ins[Terminator(c.m, b)].a) = 3 =>
       LET cond == c.m.ins[Terminator(c.m, b)].a[1]
           last == Last(SelectSeq(c.m.blk[b], LAMBDA i : Op(c.m, i) \in Comparison \cup {"call"}))
       IN  cond[1] = "i" => cond[2] \in ToSet(c.m.blk[b]) /\ last = cond[2]
ReadyToTranslate == AtOrAfter("CmpCombine") => PhisOwnTheirEdges /\ FlagsReachBranches
=============================================================================
