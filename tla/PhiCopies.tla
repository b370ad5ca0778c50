------------------------------ MODULE PhiCopies ------------------------------
(***************************************************************************)
(* MBasicBlock::mergePhiCopies in src/machineir/IR2MIR.cpp: the phis of a  *)
(* successor are assigned all at once; this puts their copies, one per     *)
(* phi, into an order with the same effect and breaks every cycle with a   *)
(* new virtual register.                                                   *)
(*                                                                         *)
(* The copies take effect here when they are emitted: env is the register  *)
(* file after the copies of the list so far.  Every operand starts with a  *)
(* value of its own, named by itself, so that equal values mean the same   *)
(* original value.  The map m is ordered by address: any order.            *)
(***************************************************************************)
EXTENDS Integers, FiniteSets

CONSTANTS
  Dest,    \* the registers of the phis
  Source,  \* every other operand a phi may read: constants and registers
  Temp     \* the registers VirtualRegister::copy() may create

ASSUME OperandAssumption ==
  /\ IsFiniteSet(Dest)
  /\ Dest \cap Source = {} /\ Dest \cap Temp = {} /\ Source \cap Temp = {}

Operand == Dest \cup Source
Cell    == Operand \cup Temp

VARIABLES
  phi,      \* the operand each phi reads (never changes)
  from,     \* operand(0) of the copy to a register
  pending,  \* the keys of m: copies not yet dropped from it
  usage,    \* usage_: how many copies of m still read a register
  unseen,   \* the part of m this pass has still to look at
  rm,       \* what this pass emitted and will drop from m
  made,     \* the registers created so far
  env,      \* the value in every register after the emitted copies
  ok        \* no ASSERT has failed

vars == <<phi, from, pending, usage, unseen, rm, made, env, ok>>

Waiting == pending \ rm

Finished == pending = {} /\ unseen = {} /\ rm = {}

\* One use less of r, if a copy of m writes r.
UsedOnceLessKept(r) == usage
UsedOnceLess(r) == IF r \in pending THEN [usage EXCEPT ![r] = @ - 1] ELSE usage

\* A register may be overwritten when no copy of m reads it any more.
FreeToWriteAtOne(d) == usage[d] <= 1
FreeToWrite(d) == usage[d] = 0

\* rm.empty() at the end of a pass.
NothingEmittedAsked == TRUE
NothingEmitted == rm = {}

\* What the next pass goes over, and what is left in rm when it starts.
PassOverAll == pending
PassOver == pending \ rm
StillInRmAll == rm
StillInRm == {}

-----------------------------------------------------------------------------
\* The first two loops: a copy of a register to itself is dropped, but still
\* counted as a use.
Init ==
  /\ phi \in [Dest -> Operand]
  /\ from = phi
  /\ pending = {d \in Dest : phi[d] # d}
  /\ usage = [d \in Dest |-> Cardinality({e \in Dest : phi[e] = d})]
  /\ unseen = pending
  /\ rm = {} /\ made = {}
  /\ env = [c \in Cell |-> c]
  /\ ok = TRUE

\* The pass reaches a copy whose register nobody reads any more: emit it.
Emit(d) ==
  /\ ok /\ d \in unseen /\ FreeToWrite(d)
  /\ env' = [env EXCEPT ![d] = env[from[d]]]
  /\ rm' = rm \cup {d}
  /\ usage' = UsedOnceLess(from[d])
  /\ unseen' = unseen \ {d}
  /\ UNCHANGED <<phi, from, pending, made, ok>>

\* The pass reaches one that has to wait.
Skip(d) ==
  /\ ok /\ d \in unseen /\ ~FreeToWrite(d)
  /\ unseen' = unseen \ {d}
  /\ UNCHANGED <<phi, from, pending, usage, rm, made, env, ok>>

\* The end of a pass that emitted something, and the start of the next.
NextPass ==
  /\ ok /\ unseen = {} /\ ~NothingEmitted
  /\ pending' = pending \ rm
  /\ unseen' = PassOver
  /\ rm' = StillInRm
  /\ UNCHANGED <<phi, from, usage, made, env, ok>>

\* The end of a pass that emitted nothing: only cycles are left.  The copy to
\* one register reads a new register instead, which gets the old value first.
BreakCycle(to, vr) ==
  /\ ok /\ unseen = {} /\ NothingEmitted /\ to \in pending
  /\ vr \in Temp \ made
  /\ ok' = (from[to] \in pending /\ usage[from[to]] = 1)
  /\ usage' = UsedOnceLess(from[to])
  /\ env' = [env EXCEPT ![vr] = env[from[to]]]
  /\ from' = [from EXCEPT ![to] = vr]
  /\ made' = made \cup {vr}
  /\ unseen' = PassOver
  /\ UNCHANGED <<phi, pending, rm>>

Next ==
  \/ \E d \in Dest : Emit(d)
  \/ \E d \in Dest : Skip(d)
  \/ NextPass
  \/ \E to \in Dest, vr \in Temp : BreakCycle(to, vr)

Spec == Init /\ [][Next]_vars

\* The function runs to its end.
FairSpec == Spec /\ WF_vars(Next)

-----------------------------------------------------------------------------
\* Shape of the state; what a pass emits is what it has seen.
TypeOK ==
  /\ phi \in [Dest -> Operand]
  /\ from \in [Dest -> Cell]
  /\ pending \subseteq Dest /\ unseen \subseteq pending
  /\ rm \subseteq pending \ unseen
  /\ usage \in [Dest -> Int]
  /\ made \subseteq Temp
  /\ env \in [Cell -> Operand \cup Temp]
  /\ ok \in BOOLEAN

\* The emitted copies, run one after the other, do what the phis do at once:
\* each register holds the value its operand had before the first copy, and
\* nothing but the phis' registers has changed.
ParallelAssignment ==
  Finished => /\ \A d \in Dest : env[d] = phi[d]
              /\ \A s \in Source : env[s] = s

\* ASSERT(fcpu.usage_ == 1): when a pass emits nothing, the register that the
\* first copy reads is written by a copy of m, and read by that copy alone.
CycleAssertHolds == ok

\* The cycles of the phis: sets of registers that are permuted and hold no
\* smaller such set.
Permuted(C) == {phi[d] : d \in C} = C
Cycles == {C \in SUBSET {d \in Dest : phi[d] # d} :
             /\ C # {} /\ Permuted(C)
             /\ \A D \in SUBSET C : Permuted(D) => D \in {{}, C}}

\* A new register (and its extra copy) is spent once per cycle and on nothing
\* else: chains and trees of copies need none.
OneTempPerCycle ==
  /\ Cardinality(made) <= Cardinality(Cycles)
  /\ Finished => Cardinality(made) = Cardinality(Cycles)

\* The loop over m ends: every pass drops a copy or breaks a cycle.
Terminates == <>Finished
=============================================================================
