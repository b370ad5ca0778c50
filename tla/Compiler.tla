------------------------------ MODULE Compiler ------------------------------
(***************************************************************************)
(* compiler(): the passes over the intermediate representation             *)
(* (module IRPipeline), its translation to machine code, and the passes    *)
(* over that, in the order of compiler.cpp.                                *)
(*                                                                         *)
(* x is the machine program, stage the next machine pass.                  *)
(***************************************************************************)
EXTENDS IRPipeline, CodeGen

VARIABLES x, stage
machine == <<x, stage>>

MachineOrder ==
    IF c.o1 THEN <<"Translation", "RegPrefill", "RegisterAllocate", "LoadStoreEliminate", "RegSpill",
                   "CleanCode", "FrameOffset", "CodeGen", "ReturnMerge", "BlockLayout">>
    ELSE <<"Translation", "RegisterAllocate", "FrameOffset", "CodeGen", "ReturnMerge">>
NoMachineCode == Shell([blk |-> <<>>, pre |-> <<>>, suc |-> <<>>, fn |-> <<>>, next |-> 0,
                        glob |-> <<>>, scalars |-> {}], TRUE)

CompilerInit == Init /\ x = NoMachineCode /\ stage = 1

RunIRPass == Next /\ vars' # vars /\ UNCHANGED machine
Turn0(name) == pc > Len(Order) /\ c.runs /\ x.runs /\ stage <= Len(MachineOrder) /\ MachineOrder[stage] = name
MachinePass(name, y) == Turn0(name) /\ x' = y /\ stage' = stage + 1 /\ UNCHANGED vars

\* The order in which a set of pointers is gone through is not known.
RunTranslation == \E backwards \in BOOLEAN : MachinePass("Translation", Accept(c.m, c.o1, backwards))
RunRegPrefill == MachinePass("RegPrefill", RegPrefill(x))
RunRegisterAllocate == \E backwards \in BOOLEAN : MachinePass("RegisterAllocate", RegisterAllocate(x, backwards))
RunLoadStoreEliminate == MachinePass("LoadStoreEliminate", LoadStoreEliminate(x))
RunRegSpill == MachinePass("RegSpill", RegSpill(x))
RunCleanCode == MachinePass("CleanCode", CleanCode(x))
RunFrameOffset == MachinePass("FrameOffset", FrameOffset(x))
RunCodeGen == MachinePass("CodeGen", GenerateCode(x))
RunReturnMerge == MachinePass("ReturnMerge", ReturnMerge(x))
RunBlockLayout == MachinePass("BlockLayout", LayoutBlocks(x))
Finished == (stage > Len(MachineOrder) \/ ~c.runs \/ ~x.runs) /\ UNCHANGED <<vars, machine>>

CompilerNext ==
    \/ RunIRPass \/ RunTranslation \/ RunRegPrefill \/ RunRegisterAllocate \/ RunLoadStoreEliminate
    \/ RunRegSpill \/ RunCleanCode \/ RunFrameOffset \/ RunCodeGen \/ RunReturnMerge \/ RunBlockLayout
    \/ Finished

CompilerSpec == CompilerInit /\ [][CompilerNext]_<<vars, machine>>
-----------------------------------------------------------------------------
\* CodeGen has written the functions but for their epilogs.
Unfinished == stage <= Len(MachineOrder) /\ MachineOrder[stage] = "ReturnMerge"

(* From the translation on, after every pass, the machine program prints and *)
(* returns for every input what the source does: no register, slot, flag or  *)
(* argument is lost on the way (MachinePassManager::run() of all passes).    *)
MachineMeansSource ==
    stage > 1 /\ ~Unfinished /\ x.runs =>
       \A in \in Inputs : Outcome(Execution(x, in, 8 * Fuel)) = A!Meaning(src, in, Fuel)

(* What a call owes its caller: when a function returns, SP and the          *)
(* registers the convention saves are what they were (functionPrefix(),      *)
(* functionSuffix(), ReturnMerge, the moves of SP around calls).             *)
CallingConventionKept ==
    x.laid /\ ~Unfinished => \A in \in Inputs : Execution(x, in, 8 * Fuel).abi

(* No machine pass fails an assertion or loses itself in a recursion.        *)
MachineCompilerRuns == x.runs

HasRun(name) == \E k \in 1..(stage - 1) : MachineOrder[k] = name

(* Between two calls of a block every argument the second one takes from the *)
(* stack is stored where its callee looks for it - the store that also makes *)
(* CodeGen move SP -, whatever the passes over memory accesses remove        *)
(* (acceptCallInst(), LoadStoreEliminate, CleanCode, frameOffset()).         *)
CallsIn(code) == {k \in DOMAIN code : code[k].op = "bl" /\ code[k].to[1] > 0}
HandedBetween(code, first, last) ==
    {code[k].u[2] : k \in {j \in first..last : code[j].op = "str" /\ code[j].call}}
PreviousCall(code, k) == CHOOSE j \in 0..(k - 1) : /\ j = 0 \/ code[j].op = "bl"
                                                  /\ \A l \in (j + 1)..(k - 1) : code[l].op # "bl"
CallsPassStackArguments ==
    HasRun("Translation") /\ ~x.laid =>
       \A b \in DOMAIN x.code : \A k \in CallsIn(x.code[b]) :
          HandedBetween(x.code[b], PreviousCall(x.code[b], k) + 1, k)
             = {<<"x", x.code[b][k].to[1], j>> : j \in DOMAIN x.fn[x.code[b][k].to[1]].fix}

(* In a frame nothing lies on anything else, for every function: slots,      *)
(* saved registers and arguments (FrameOffset, after slots have been merged, *)
(* dropped and put in another order).                                        *)
FrameObjectsApart ==
    HasRun("FrameOffset") =>
       \A f \in Functions(x) : FrameApart(x.fn[f].stack, x.fn[f].fix, x.fn[f])

(* Every block a branch of the written program names is written, once, and   *)
(* the prolog comes first (DecideCond, MergeEpilog, BlockLayout).            *)
LabelsExist ==
    HasRun("ReturnMerge") =>
       \A f \in Functions(x) :
          LET order == x.fn[f].order
          IN  /\ Cardinality(ToSet(order)) = Len(order)
              /\ x.pre[order[1]] = <<>>
              /\ \A b \in ToSet(order) : ToSet(Last(x.code[b]).to) \subseteq ToSet(order)
=============================================================================
