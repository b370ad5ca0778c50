----------------------------- MODULE LiveMessage -----------------------------
(***************************************************************************)
(* Liveness of the registers of one class in one function:                 *)
(* src/machineir/pass/info/LiveMessage.cpp.  The constructor orders the    *)
(* blocks by an iterative depth-first search (dfsBlocks);                  *)
(* calculateLiveMessage() then collects what every block uses and defines  *)
(* and propagates liveness backwards with a queue of blocks.  It is called *)
(* again, on the same order, after every round of spilling.                *)
(*                                                                         *)
(* FrameLiveMessage repeats the algorithm for spilled stack slots, with    *)
(* LDR as the use and STR as the definition.                               *)
(***************************************************************************)
EXTENDS Integers, FiniteSets, Sequences

CONSTANTS
  Block,   \* the blocks of the function
  Entry,   \* blocks()[0]
  Reg,     \* the registers care() accepts
  Code     \* the instruction lists a block may have: the registers an
           \* instruction reads and writes, and whether it is an MCopy

ASSUME FunctionAssumption ==
  /\ IsFiniteSet(Block) /\ Entry \in Block
  /\ \A c \in Code : c \in Seq([use : SUBSET Reg, def : SUBSET Reg, copy : BOOLEAN])

VARIABLES
  suc,       \* suc_bbs() of every block; pre_bbs() is its inverse (never changes)
  code,      \* the instructions of every block
  dfs,       \* dfsWorkList, the current block last
  todo,      \* what dfsVisitList has still to visit below every block on it
  visited,   \* the blocks whose visited flag is set
  rpo,       \* rpos_, filled from its end
  liveUse, liveDef, liveIn, liveOut,
  queue,     \* Q
  phase      \* "dfs", "scan", "propagate"

vars == <<suc, code, dfs, todo, visited, rpo, liveUse, liveDef, liveIn, liveOut,
          queue, phase>>

InSeq(s) == {s[i] : i \in 1..Len(s)}
Distinct(s) == \A i, j \in 1..Len(s) : s[i] = s[j] => i = j

Preds(b) == {p \in Block : b \in suc[p]}

\* No block is unreachable: a set with the entry and all successors is full.
Reachable == \A S \in SUBSET Block :
               (Entry \in S /\ \A b \in S : suc[b] \subseteq S) => S = Block

\* A use counts unless an earlier instruction of the block defines the
\* register; an instruction reads its uses before it writes.
LocalUseAny(c) == UNION {c[i].use : i \in 1..Len(c)}
LocalUse(c) == {r \in Reg : \E i \in 1..Len(c) : /\ r \in c[i].use
                                                 /\ \A j \in 1..(i - 1) : r \notin c[j].def}
LocalDef(c) == UNION {c[i].def : i \in 1..Len(c)}

\* The two equations of a block.
OutOf(b) == UNION {liveIn[s] : s \in suc[b]}
InOf(b)  == (OutOf(b) \ liveDef[b]) \cup liveUse[b]

\* A block's live-in set is about to change.
ChangedOrNot(b) == TRUE
Changed(b) == liveIn[b] # InOf(b)

\* orders[allocatedIndex--] = b
PlacedLast(b) == Append(rpo, b)
Placed(b) == <<b>> \o rpo

\* The bit sets are made anew for every call.
ResetNever(live) == live
Reset(live) == [b \in Block |-> {}]

\* The blocks of S in any order (pre_bbs() is ordered by address).
Orders(S) == {o \in [1..Cardinality(S) -> S] : \A x \in S : \E i \in DOMAIN o : o[i] = x}

\* What a block that changed pushes: flags is visited after the block's own
\* flag was set.
WakeAny(b, flags) == Preds(b)
WakeLate(b, flags) == Preds(b) \cap (flags \ {b})
Wake(b, flags) == Preds(b) \cap flags

Done == phase = "propagate" /\ queue = <<>>

-----------------------------------------------------------------------------
\* Any graph of reachable blocks, the entry included as a successor (tail
\* recursion jumps to it), with at most two successors, and any code.
Init ==
  /\ suc \in [Block -> {S \in SUBSET Block : Cardinality(S) <= 2}]
  /\ Reachable
  /\ code \in [Block -> Code]
  /\ dfs = <<Entry>>
  /\ todo = [b \in Block |-> suc[b]]
  /\ visited = {Entry}
  /\ rpo = <<>>
  /\ liveUse = [b \in Block |-> {}] /\ liveDef = liveUse
  /\ liveIn = liveUse /\ liveOut = liveUse
  /\ queue = <<>>
  /\ phase = "dfs"

\* dfsBlocks() goes to the next successor of the current block.
DfsVisit(s) ==
  /\ phase = "dfs" /\ dfs # <<>> /\ s \in todo[dfs[Len(dfs)]]
  /\ todo' = [todo EXCEPT ![dfs[Len(dfs)]] = @ \ {s}]
  /\ dfs' = IF s \in visited THEN dfs ELSE Append(dfs, s)
  /\ visited' = visited \cup {s}
  /\ UNCHANGED <<suc, code, rpo, liveUse, liveDef, liveIn, liveOut, queue, phase>>

\* ... or has visited all of them.
DfsLeave ==
  /\ phase = "dfs" /\ dfs # <<>> /\ todo[dfs[Len(dfs)]] = {}
  /\ rpo' = Placed(dfs[Len(dfs)])
  /\ dfs' = SubSeq(dfs, 1, Len(dfs) - 1)
  /\ UNCHANGED <<suc, code, todo, visited, liveUse, liveDef, liveIn, liveOut, queue, phase>>

\* The end of the constructor.
Constructed ==
  /\ phase = "dfs" /\ dfs = <<>>
  /\ phase' = "scan"
  /\ UNCHANGED <<suc, code, dfs, todo, visited, rpo, liveUse, liveDef, liveIn, liveOut, queue>>

\* The first half of calculateLiveMessage(): fresh bit sets, local uses and
\* definitions, and a queue of all blocks, the last in the order first.
Scan ==
  /\ phase = "scan"
  /\ liveUse' = [b \in Block |-> LocalUse(code[b])]
  /\ liveDef' = [b \in Block |-> LocalDef(code[b])]
  /\ liveIn' = Reset(liveIn) /\ liveOut' = Reset(liveOut)
  /\ visited' = {}
  /\ queue' = [i \in 1..Len(rpo) |-> rpo[Len(rpo) + 1 - i]]
  /\ phase' = "propagate"
  /\ UNCHANGED <<suc, code, dfs, todo, rpo>>

\* One turn of the propagation loop.
Pop ==
  /\ phase = "propagate" /\ queue # <<>>
  /\ LET b     == Head(queue)
         flags == visited \cup {b}
     IN /\ liveOut' = [liveOut EXCEPT ![b] = OutOf(b)]
        /\ liveIn' = [liveIn EXCEPT ![b] = InOf(b)]
        /\ \/ /\ Changed(b)
              /\ visited' = flags \ Wake(b, flags)
              /\ \E o \in Orders(Wake(b, flags)) : queue' = Tail(queue) \o o
           \/ /\ ~Changed(b)
              /\ visited' = flags
              /\ queue' = Tail(queue)
  /\ UNCHANGED <<suc, code, dfs, todo, rpo, liveUse, liveDef, phase>>

\* RegisterAllocate::runOn() spilled a register: the code of a block has
\* changed when calculateLiveMessage() runs again.
Rewrite(b, c) ==
  /\ Done
  /\ code' = [code EXCEPT ![b] = c]
  /\ phase' = "scan"
  /\ UNCHANGED <<suc, dfs, todo, visited, rpo, liveUse, liveDef, liveIn, liveOut, queue>>

Next ==
  \/ \E s \in Block : DfsVisit(s)
  \/ DfsLeave
  \/ Constructed
  \/ Scan
  \/ Pop
  \/ \E b \in Block, c \in Code : Rewrite(b, c)

Spec == Init /\ [][Next]_vars

\* The compiler runs; nothing makes it spill for ever or at all.
Compute == \/ \E s \in Block : DfsVisit(s)
           \/ DfsLeave \/ Constructed \/ Scan \/ Pop
FairSpec == Spec /\ WF_vars(Compute)

-----------------------------------------------------------------------------
\* Shape of the state; a block is flagged exactly when it is not queued, and
\* is queued at most once.
TypeOK ==
  /\ suc \in [Block -> SUBSET Block]
  /\ code \in [Block -> Code]
  /\ dfs \in Seq(Block) /\ rpo \in Seq(Block) /\ queue \in Seq(Block)
  /\ todo \in [Block -> SUBSET Block]
  /\ visited \in SUBSET Block
  /\ liveUse \in [Block -> SUBSET Reg] /\ liveDef \in [Block -> SUBSET Reg]
  /\ liveIn \in [Block -> SUBSET Reg] /\ liveOut \in [Block -> SUBSET Reg]
  /\ phase \in {"dfs", "scan", "propagate"}
  /\ phase = "propagate" =>
       /\ visited = Block \ InSeq(queue)
       /\ Distinct(queue)

\* The order covers every block once, and a block other than the entry comes
\* after one of its predecessors.
ReversePostorder ==
  phase # "dfs" =>
    /\ InSeq(rpo) = Block /\ Distinct(rpo)
    /\ rpo[1] = Entry
    /\ \A i \in 2..Len(rpo) : \E j \in 1..(i - 1) : rpo[i] \in suc[rpo[j]]

\* No update is lost: a block that is not queued satisfies its equations, also
\* one that loops to itself.
NoLostUpdate ==
  phase = "propagate" =>
    \A b \in Block : b \notin InSeq(queue) => liveOut[b] = OutOf(b) /\ liveIn[b] = InOf(b)

\* The propagation gets somewhere, also around a loop: no block gives up a live
\* register, and a turn that finds none shortens the queue.
PropagationGrows ==
  [][phase = "propagate" /\ phase' = "propagate" =>
       /\ \A b \in Block : liveIn[b] \subseteq liveIn'[b] /\ liveOut[b] \subseteq liveOut'[b]
       /\ liveIn' # liveIn \/ Len(queue') < Len(queue)]_vars

\* What a set of live registers per block must satisfy at least.
Solution(S) == \A b \in Block : ((UNION {S[s] : s \in suc[b]}) \ liveDef[b]) \cup liveUse[b] \subseteq S[b]

\* The result is the least solution: no register is kept alive that need not
\* be, however the calls before this one ended.
LeastSolution ==
  Done => /\ Solution(liveIn)
          /\ \A S \in [Block -> SUBSET Reg] : Solution(S) => \A b \in Block : liveIn[b] \subseteq S[b]

\* A program point: before instruction i of a block, or (i = Len + 1) its end.
Point == UNION {{<<b, i>> : i \in 1..(Len(code[b]) + 1)} : b \in Block}
After(p) == IF p[2] <= Len(code[p[1]]) THEN {<<p[1], p[2] + 1>>}
            ELSE {<<s, 1>> : s \in suc[p[1]]}
UsesAt(r, p) == p[2] <= Len(code[p[1]]) /\ r \in code[p[1]][p[2]].use
DefsAt(r, p) == p[2] <= Len(code[p[1]]) /\ r \in code[p[1]][p[2]].def

\* The points from which a use of r is reached within n steps, with no
\* definition of r on the way.
LiveWithin(r) ==
  LET f[n \in Nat] ==
        IF n = 0 THEN {p \in Point : UsesAt(r, p)}
        ELSE LET L == f[n - 1]
             IN L \cup {p \in Point : ~DefsAt(r, p) /\ After(p) \cap L # {}}
  IN f[Cardinality(Point)]

\* The result is liveness: a register is live into (out of) a block exactly
\* when some path from its start (end) reads it before it is written.
LiveIsLive ==
  Done => \A r \in Reg : LET L == LiveWithin(r) IN
            \A b \in Block : /\ r \in liveIn[b] <=> <<b, 1>> \in L
                             /\ r \in liveOut[b] <=> <<b, Len(code[b]) + 1>> \in L

\* Every call ends, on any graph.
Terminates == phase # "propagate" ~> Done
=============================================================================
