-------------------------- MODULE LiveMessageProofs --------------------------
(***************************************************************************)
(* For every function: the depth-first order covers the blocks, the queue  *)
(* loses no update, and what calculateLiveMessage() leaves is the least    *)
(* solution of the liveness equations, and liveness along paths.           *)
(***************************************************************************)
EXTENDS LiveMessage, SequenceTheorems, FixpointProofs

\* Sequences of blocks.
LEMMA LastOut ==
  ASSUME NEW s \in Seq(Block), s # <<>>, Distinct(s)
  PROVE  /\ s[Len(s)] \in Block
         /\ SubSeq(s, 1, Len(s) - 1) \in Seq(Block)
         /\ InSeq(SubSeq(s, 1, Len(s) - 1)) = InSeq(s) \ {s[Len(s)]}
         /\ Distinct(SubSeq(s, 1, Len(s) - 1))
<1>1. Len(s) \in Nat \ {0} /\ \A i \in 1..Len(s) : s[i] \in Block
  OBVIOUS
<1> DEFINE t == SubSeq(s, 1, Len(s) - 1)
<1>2. t \in Seq(Block) /\ Len(t) = Len(s) - 1 /\ \A i \in 1..(Len(s) - 1) : t[i] = s[i]
  <2>1. 1 \in Int /\ Len(s) - 1 \in Int /\ \A i \in 1..(Len(s) - 1) : s[i] \in Block
    BY <1>1
  <2>2. /\ t \in Seq(Block)
        /\ Len(t) = IF 1 <= Len(s) - 1 THEN Len(s) - 1 - 1 + 1 ELSE 0
        /\ \A i \in 1..(Len(s) - 1 - 1 + 1) : t[i] = s[1 + i - 1]
    BY <2>1, SubSeqProperties
  <2>3. /\ Len(s) - 1 - 1 + 1 = Len(s) - 1
        /\ (IF 1 <= Len(s) - 1 THEN Len(s) - 1 - 1 + 1 ELSE 0) = Len(s) - 1
        /\ \A i \in 1..(Len(s) - 1) : 1 + i - 1 = i
    <3>1. \A n \in Nat \ {0} : /\ n - 1 - 1 + 1 = n - 1
                               /\ (IF 1 <= n - 1 THEN n - 1 - 1 + 1 ELSE 0) = n - 1
                               /\ \A i \in 1..(n - 1) : 1 + i - 1 = i
      OBVIOUS
    <3> QED BY <3>1, <1>1
  <2> HIDE DEF t
  <2>4. Len(t) = Len(s) - 1
    BY <2>2, <2>3
  <2>5. \A i \in 1..(Len(s) - 1) : t[i] = s[i]
    BY <2>2, <2>3
  <2> QED BY <2>2, <2>4, <2>5
<1> HIDE DEF t
<1>3. Distinct(t)
  BY <1>1, <1>2 DEF Distinct
<1>4. InSeq(t) = InSeq(s) \ {s[Len(s)]}
  BY <1>1, <1>2 DEF Distinct, InSeq
<1> QED BY <1>1, <1>2, <1>3, <1>4 DEF t

LEMMA FirstIn ==
  ASSUME NEW s \in Seq(Block), NEW b \in Block, b \notin InSeq(s), Distinct(s)
  PROVE  /\ <<b>> \o s \in Seq(Block)
         /\ InSeq(<<b>> \o s) = InSeq(s) \cup {b}
         /\ Distinct(<<b>> \o s)
<1> DEFINE t == <<b>> \o s
<1>1. /\ t \in Seq(Block) /\ Len(t) = Len(s) + 1 /\ Len(s) \in Nat /\ t[1] = b
      /\ \A i \in 2..Len(t) : t[i] = s[i - 1]
  OBVIOUS
<1> HIDE DEF t
<1>2. \A i \in 1..Len(s) : i + 1 \in 2..Len(t) /\ t[i + 1] = s[i]
  BY <1>1
<1>3. InSeq(t) = InSeq(s) \cup {b}
  <2>1. ASSUME NEW i \in 1..Len(t) PROVE t[i] \in InSeq(s) \cup {b}
    <3>1. CASE i = 1
      BY <1>1, <3>1
    <3>2. CASE i # 1
      <4>1. i \in 2..Len(t) /\ i - 1 \in 1..Len(s)
        BY <1>1, <3>2
      <4> QED BY <4>1, <1>1 DEF InSeq
    <3> QED BY <3>1, <3>2
  <2>2. ASSUME NEW i \in 1..Len(s) PROVE s[i] \in InSeq(t)
    <3>1. i + 1 \in 1..Len(t)
      BY <1>1
    <3> QED BY <3>1, <1>2 DEF InSeq
  <2>3. b \in InSeq(t)
    <3>1. 1 \in 1..Len(t)
      BY <1>1
    <3> QED BY <3>1, <1>1 DEF InSeq
  <2> QED BY <2>1, <2>2, <2>3 DEF InSeq
<1>4. Distinct(t)
  <2>1. ASSUME NEW i \in 1..Len(t), NEW j \in 1..Len(t), t[i] = t[j] PROVE i = j
    <3>1. ASSUME NEW k \in 2..Len(t) PROVE k - 1 \in 1..Len(s) /\ t[k] = s[k - 1] /\ t[k] # b
      <4>1. k - 1 \in 1..Len(s)
        BY <1>1
      <4> QED BY <4>1, <1>1 DEF InSeq
    <3>2. CASE i = 1 \/ j = 1
      BY <1>1, <2>1, <3>1, <3>2
    <3>3. CASE i # 1 /\ j # 1
      <4>1. i \in 2..Len(t) /\ j \in 2..Len(t) /\ (i - 1 = j - 1 => i = j)
        BY <1>1, <2>1, <3>3
      <4>2. i - 1 \in 1..Len(s) /\ j - 1 \in 1..Len(s) /\ s[i - 1] = s[j - 1]
        BY <3>1, <4>1, <2>1
      <4>3. i - 1 = j - 1
        BY <4>2 DEF Distinct
      <4> QED BY <4>1, <4>3
    <3> QED BY <3>2, <3>3
  <2> QED BY <2>1 DEF Distinct
<1> QED BY <1>1, <1>3, <1>4 DEF t

LEMMA LastIn ==
  ASSUME NEW s \in Seq(Block), NEW b \in Block, b \notin InSeq(s), Distinct(s)
  PROVE  /\ Append(s, b) \in Seq(Block)
         /\ InSeq(Append(s, b)) = InSeq(s) \cup {b}
         /\ Distinct(Append(s, b))
<1> DEFINE t == Append(s, b)
<1>1. /\ t \in Seq(Block) /\ Len(t) = Len(s) + 1 /\ Len(s) \in Nat /\ t[Len(t)] = b
      /\ \A i \in 1..Len(s) : t[i] = s[i]
  OBVIOUS
<1> HIDE DEF t
<1>2. InSeq(t) = InSeq(s) \cup {b}
  BY <1>1 DEF InSeq
<1>3. Distinct(t)
  BY <1>1 DEF Distinct, InSeq
<1> QED BY <1>1, <1>2, <1>3 DEF t

LEMMA FirstOut ==
  ASSUME NEW s \in Seq(Block), s # <<>>, Distinct(s)
  PROVE  /\ Head(s) \in Block /\ Tail(s) \in Seq(Block)
         /\ InSeq(Tail(s)) = InSeq(s) \ {Head(s)}
         /\ Distinct(Tail(s))
<1> DEFINE t == Tail(s)
<1>1. /\ t \in Seq(Block) /\ Len(t) = Len(s) - 1 /\ Len(s) \in Nat \ {0}
      /\ Head(s) = s[1] /\ s[1] \in Block
      /\ \A i \in 1..Len(t) : t[i] = s[i + 1]
  OBVIOUS
<1> HIDE DEF t
<1>2. \A i \in 2..Len(s) : i - 1 \in 1..Len(t) /\ t[i - 1] = s[i]
  BY <1>1
<1>3. InSeq(t) = InSeq(s) \ {s[1]}
  BY <1>1, <1>2 DEF InSeq, Distinct
<1>4. Distinct(t)
  BY <1>1 DEF Distinct
<1> QED BY <1>1, <1>3, <1>4 DEF t

LEMMA Concatenated ==
  ASSUME NEW s \in Seq(Block), NEW o \in Seq(Block),
         Distinct(s), Distinct(o), InSeq(s) \cap InSeq(o) = {}
  PROVE  /\ s \o o \in Seq(Block)
         /\ InSeq(s \o o) = InSeq(s) \cup InSeq(o)
         /\ Distinct(s \o o)
<1> DEFINE t == s \o o
<1>1. /\ t \in Seq(Block) /\ Len(t) = Len(s) + Len(o) /\ Len(s) \in Nat /\ Len(o) \in Nat
      /\ \A i \in 1..Len(s) : t[i] = s[i]
      /\ \A i \in (Len(s) + 1)..Len(t) : t[i] = o[i - Len(s)]
  OBVIOUS
<1> HIDE DEF t
<1>2. \A i \in 1..Len(o) : Len(s) + i \in (Len(s) + 1)..Len(t) /\ t[Len(s) + i] = o[i]
  <2> TAKE i \in 1..Len(o)
  <2>1. Len(s) + i \in (Len(s) + 1)..Len(t) /\ (Len(s) + i) - Len(s) = i
    BY <1>1
  <2>2. t[Len(s) + i] = o[(Len(s) + i) - Len(s)]
    BY <1>1, <2>1
  <2> QED BY <2>1, <2>2
<1>5. /\ \A i \in 1..Len(s) : s[i] \in InSeq(s) /\ s[i] \in InSeq(t)
      /\ \A i \in 1..Len(o) : o[i] \in InSeq(o) /\ o[i] \in InSeq(t)
  <2>1. \A i \in 1..Len(s) : i \in 1..Len(t)
    BY <1>1
  <2>2. \A i \in 1..Len(o) : Len(s) + i \in 1..Len(t)
    BY <1>1
  <2> QED BY <2>1, <2>2, <1>1, <1>2 DEF InSeq
<1>6. \A i \in 1..Len(t) :
         (i \in 1..Len(s)) \/ (i \in (Len(s) + 1)..Len(t) /\ i - Len(s) \in 1..Len(o))
  BY <1>1
<1>3. InSeq(t) = InSeq(s) \cup InSeq(o)
  <2>1. InSeq(t) \subseteq InSeq(s) \cup InSeq(o)
    <3> SUFFICES ASSUME NEW i \in 1..Len(t) PROVE t[i] \in InSeq(s) \cup InSeq(o)
      BY DEF InSeq
    <3> QED BY <1>1, <1>5, <1>6
  <2>2. InSeq(s) \subseteq InSeq(t) /\ InSeq(o) \subseteq InSeq(t)
    BY <1>5 DEF InSeq
  <2> QED BY <2>1, <2>2
<1>4. Distinct(t)
  <2> SUFFICES ASSUME NEW i \in 1..Len(t), NEW j \in 1..Len(t), t[i] = t[j]
               PROVE  i = j
    BY DEF Distinct
  <2>1. CASE i <= Len(s) /\ j <= Len(s)
    BY <2>1, <1>1 DEF Distinct
  <2>2. CASE i > Len(s) /\ j > Len(s)
    <3>1. i - Len(s) \in 1..Len(o) /\ j - Len(s) \in 1..Len(o)
      BY <2>2, <1>1
    <3>2. o[i - Len(s)] = o[j - Len(s)]
      BY <2>2, <1>1
    <3> QED BY <3>1, <3>2, <1>1 DEF Distinct
  <2>3. ASSUME NEW k \in 1..Len(t), NEW l \in 1..Len(t), k <= Len(s), l > Len(s), t[k] = t[l]
        PROVE  FALSE
    <3>1. k \in 1..Len(s) /\ l \in (Len(s) + 1)..Len(t) /\ l - Len(s) \in 1..Len(o)
      BY <2>3, <1>1
    <3>2. t[k] \in InSeq(s) /\ t[l] \in InSeq(o)
      BY <3>1, <1>1, <1>5
    <3> QED BY <3>2, <2>3
  <2> QED BY <2>1, <2>2, <2>3, <1>1
<1> QED BY <1>1, <1>3, <1>4 DEF t

\* The queue starts with the blocks of the order, each once.
LEMMA Reversed ==
  ASSUME NEW s \in Seq(Block), Distinct(s)
  PROVE  LET t == [i \in 1..Len(s) |-> s[Len(s) + 1 - i]]
         IN  t \in Seq(Block) /\ InSeq(t) = InSeq(s) /\ Distinct(t)
<1> DEFINE t == [i \in 1..Len(s) |-> s[Len(s) + 1 - i]]
<1>1. Len(s) \in Nat /\ \A i \in 1..Len(s) : Len(s) + 1 - i \in 1..Len(s) /\ s[i] \in Block
  OBVIOUS
<1>2. t \in Seq(Block) /\ Len(t) = Len(s) /\ \A i \in 1..Len(s) : t[i] = s[Len(s) + 1 - i]
  BY <1>1
<1> HIDE DEF t
<1>3. \A i \in 1..Len(s) : t[Len(s) + 1 - i] = s[i]
  BY <1>1, <1>2
<1>4. InSeq(t) = InSeq(s)
  <2>1. InSeq(t) \subseteq InSeq(s)
    BY <1>1, <1>2 DEF InSeq
  <2>2. \A i \in 1..Len(s) : s[i] \in InSeq(t)
    BY <1>1, <1>2, <1>3 DEF InSeq
  <2> QED BY <2>1, <2>2 DEF InSeq
<1>5. Distinct(t)
  <2> SUFFICES ASSUME NEW i \in 1..Len(s), NEW j \in 1..Len(s), t[i] = t[j]
               PROVE  i = j
    BY <1>2 DEF Distinct
  <2>1. s[Len(s) + 1 - i] = s[Len(s) + 1 - j]
    BY <1>2
  <2>2. Len(s) + 1 - i = Len(s) + 1 - j
    BY <2>1, <1>1 DEF Distinct
  <2> QED BY <2>2, <1>1
<1> QED BY <1>2, <1>4, <1>5 DEF t

\* A listing of a finite set of blocks names each once.
LEMMA Listed ==
  ASSUME NEW S \in SUBSET Block, NEW o \in Orders(S)
  PROVE  o \in Seq(Block) /\ InSeq(o) = S /\ Distinct(o)
<1> DEFINE n == Cardinality(S)
<1>1. IsFiniteSet(S) /\ n \in Nat
  BY FunctionAssumption, FS_Subset, FS_CardinalityType
<1>2. o \in [1..n -> S] /\ \A x \in S : \E i \in 1..n : o[i] = x
  BY DEF Orders
<1>3. o \in Seq(Block) /\ Len(o) = n
  BY <1>1, <1>2
<1>4. InSeq(o) = S
  BY <1>2, <1>3 DEF InSeq
<1>5. o \in Surjection(1..n, S)
  BY <1>2 DEF Surjection
<1>6. IsFiniteSet(1..n) /\ Cardinality(1..n) = n
  BY <1>1, FS_Interval
<1>7. o \in Injection(1..n, S)
  BY <1>5, <1>6, FS_Surjection
<1>8. Distinct(o)
  BY <1>2, <1>3, <1>7 DEF Injection, IsInjective, Distinct
<1> QED BY <1>3, <1>4, <1>8

-----------------------------------------------------------------------------
(***************************************************************************)
(* The invariant.                                                          *)
(***************************************************************************)
Types ==
  /\ suc \in [Block -> SUBSET Block]
  /\ code \in [Block -> Code]
  /\ dfs \in Seq(Block) /\ rpo \in Seq(Block) /\ queue \in Seq(Block)
  /\ todo \in [Block -> SUBSET Block]
  /\ visited \in SUBSET Block
  /\ liveUse \in [Block -> SUBSET Reg] /\ liveDef \in [Block -> SUBSET Reg]
  /\ liveIn \in [Block -> SUBSET Reg] /\ liveOut \in [Block -> SUBSET Reg]
  /\ phase \in {"dfs", "scan", "propagate"}

\* The search: a visited block is on the stack or in the order, once, and what
\* the search has passed of its successors is visited.
Search ==
  phase = "dfs" =>
    /\ Distinct(dfs) /\ Distinct(rpo) /\ InSeq(dfs) \cap InSeq(rpo) = {}
    /\ visited = InSeq(dfs) \cup InSeq(rpo)
    /\ Entry \in visited
    /\ \A b \in visited : suc[b] \ todo[b] \subseteq visited
    /\ \A b \in Block \ visited : todo[b] = suc[b]
    /\ \A b \in InSeq(rpo) : todo[b] = {}

Covered == phase # "dfs" => InSeq(rpo) = Block /\ Distinct(rpo)

Flags == phase = "propagate" => visited = Block \ InSeq(queue) /\ Distinct(queue)

\* The sets grow towards every solution and never beyond it.
Below ==
  phase = "propagate" =>
    \A S \in [Block -> SUBSET Reg] : Solution(S) => \A b \in Block : liveIn[b] \subseteq S[b]

Inv == Types /\ Reachable /\ Search /\ Covered /\ Flags /\ NoLostUpdate /\ Below

LEMMA InitInv == Init => Inv
<1> SUFFICES ASSUME Init PROVE Inv
  OBVIOUS
<1>1. Types
  BY FunctionAssumption DEF Init, Types
<1>2. InSeq(dfs) = {Entry} /\ InSeq(rpo) = {} /\ Distinct(dfs) /\ Distinct(rpo)
  BY DEF Init, InSeq, Distinct
<1>3. Search
  BY <1>2, <1>1 DEF Init, Search, Types
<1> QED BY <1>1, <1>3 DEF Init, Inv, Covered, Flags, NoLostUpdate, Below

LEMMA VisitInv ==
  ASSUME Inv, NEW s \in Block, DfsVisit(s)
  PROVE  Inv'
<1> DEFINE top == dfs[Len(dfs)]
<1>1. /\ phase = "dfs" /\ phase' = "dfs" /\ dfs # <<>> /\ s \in todo[top]
      /\ todo' = [todo EXCEPT ![top] = @ \ {s}]
      /\ dfs' = IF s \in visited THEN dfs ELSE Append(dfs, s)
      /\ visited' = visited \cup {s}
      /\ UNCHANGED <<suc, code, rpo, liveUse, liveDef, liveIn, liveOut, queue>>
  BY DEF DfsVisit
<1>2. Types /\ Search
  BY DEF Inv
<1>3. top \in InSeq(dfs) /\ top \in visited /\ top \in Block
  <2>1. Len(dfs) \in 1..Len(dfs) /\ top \in Block
    BY <1>1, <1>2 DEF Types
  <2> QED BY <2>1, <1>1, <1>2 DEF InSeq, Search
<1> HIDE DEF top
<1>4. /\ dfs' \in Seq(Block) /\ Distinct(dfs') /\ InSeq(dfs') \cap InSeq(rpo) = {}
      /\ visited' = InSeq(dfs') \cup InSeq(rpo)
  <2>1. CASE s \in visited
    BY <2>1, <1>1, <1>2 DEF Types, Search
  <2>2. CASE s \notin visited
    <3>1. s \notin InSeq(dfs) /\ s \notin InSeq(rpo)
      BY <2>2, <1>1, <1>2 DEF Search
    <3>2. dfs' = Append(dfs, s) /\ Distinct(dfs) /\ dfs \in Seq(Block)
      BY <2>2, <1>1, <1>2 DEF Types, Search
    <3>3. dfs' \in Seq(Block) /\ Distinct(dfs') /\ InSeq(dfs') = InSeq(dfs) \cup {s}
      BY <3>1, <3>2, LastIn
    <3> QED BY <3>1, <3>3, <1>1, <1>2 DEF Search
  <2> QED BY <2>1, <2>2
<1>5. Types'
  BY <1>1, <1>2, <1>3, <1>4 DEF Types
<1>6. Search'
  <2>1. \A b \in Block : b # top => todo'[b] = todo[b]
    BY <1>1, <1>2 DEF Types
  <2>2. todo'[top] = todo[top] \ {s}
    BY <1>1, <1>2, <1>3 DEF Types
  <2>3. \A b \in visited' : suc[b] \ todo'[b] \subseteq visited'
    <3> TAKE b \in visited'
    <3>1. CASE b = top
      BY <3>1, <2>2, <1>1, <1>2, <1>3 DEF Search
    <3>2. CASE b # top /\ b \in visited
      BY <3>2, <2>1, <1>1, <1>2 DEF Search, Types
    <3>3. CASE b = s /\ s \notin visited
      BY <3>3, <2>1, <1>1, <1>2, <1>3 DEF Search, Types
    <3> QED BY <3>1, <3>2, <3>3, <1>1
  <2>4. \A b \in Block \ visited' : todo'[b] = suc[b]
    BY <2>1, <1>1, <1>2, <1>3 DEF Search, Types
  <2>5. \A b \in InSeq(rpo) : todo'[b] = {}
    BY <2>1, <1>1, <1>2, <1>3 DEF Search, Types
  <2>6. Distinct(rpo) /\ Entry \in visited'
    BY <1>1, <1>2 DEF Search
  <2> QED BY <2>3, <2>4, <2>5, <2>6, <1>1, <1>4 DEF Search
<1> QED
  BY <1>1, <1>5, <1>6 DEF Inv, Reachable, Covered, Flags, NoLostUpdate, Below

LEMMA LeaveInv ==
  ASSUME Inv, DfsLeave
  PROVE  Inv'
<1> DEFINE top == dfs[Len(dfs)]
<1>1. /\ phase = "dfs" /\ phase' = "dfs" /\ dfs # <<>> /\ todo[top] = {}
      /\ rpo' = <<top>> \o rpo
      /\ dfs' = SubSeq(dfs, 1, Len(dfs) - 1)
      /\ UNCHANGED <<suc, code, todo, visited, liveUse, liveDef, liveIn, liveOut, queue>>
  BY DEF DfsLeave, Placed
<1>2. Types /\ Search
  BY DEF Inv
<1>3. dfs \in Seq(Block) /\ rpo \in Seq(Block) /\ Distinct(dfs) /\ Distinct(rpo)
  BY <1>1, <1>2 DEF Types, Search
<1>4. /\ top \in Block /\ dfs' \in Seq(Block) /\ InSeq(dfs') = InSeq(dfs) \ {top}
      /\ Distinct(dfs')
  BY <1>1, <1>3, LastOut
<1>5. top \in InSeq(dfs)
  <2>1. Len(dfs) \in 1..Len(dfs)
    BY <1>1, <1>3
  <2> QED BY <2>1 DEF InSeq
<1> HIDE DEF top
<1>6. rpo' \in Seq(Block) /\ InSeq(rpo') = InSeq(rpo) \cup {top} /\ Distinct(rpo')
  <2>1. top \notin InSeq(rpo)
    BY <1>1, <1>2, <1>5 DEF Search
  <2> QED BY <2>1, <1>1, <1>3, <1>4, FirstIn
<1>7. Types'
  BY <1>1, <1>2, <1>4, <1>6 DEF Types
<1>8. Search'
  BY <1>1, <1>2, <1>4, <1>5, <1>6 DEF Search
<1> QED
  BY <1>1, <1>7, <1>8 DEF Inv, Reachable, Covered, Flags, NoLostUpdate, Below

LEMMA ConstructedInv ==
  ASSUME Inv, Constructed
  PROVE  Inv'
<1>1. /\ phase = "dfs" /\ phase' = "scan" /\ dfs = <<>>
      /\ UNCHANGED <<suc, code, dfs, todo, visited, rpo, liveUse, liveDef, liveIn, liveOut, queue>>
  BY DEF Constructed
<1>2. Types /\ Search /\ Reachable
  BY DEF Inv
<1>3. InSeq(dfs) = {}
  BY <1>1 DEF InSeq
<1>4. visited = InSeq(rpo) /\ \A b \in visited : suc[b] \subseteq visited
  BY <1>1, <1>2, <1>3 DEF Search
<1>5. InSeq(rpo) = Block
  BY <1>1, <1>2, <1>4 DEF Reachable, Search, Types
<1>6. Covered'
  BY <1>1, <1>2, <1>5 DEF Covered, Search, InSeq, Distinct
<1>7. Types'
  BY <1>1, <1>2 DEF Types
<1> QED
  BY <1>1, <1>2, <1>6, <1>7 DEF Inv, Reachable, Search, Flags, NoLostUpdate, Below

LEMMA ScanInv ==
  ASSUME Inv, Scan
  PROVE  Inv'
<1>1. /\ phase = "scan" /\ phase' = "propagate"
      /\ liveUse' = [b \in Block |-> LocalUse(code[b])]
      /\ liveDef' = [b \in Block |-> LocalDef(code[b])]
      /\ liveIn' = [b \in Block |-> {}] /\ liveOut' = [b \in Block |-> {}]
      /\ visited' = {}
      /\ queue' = [i \in 1..Len(rpo) |-> rpo[Len(rpo) + 1 - i]]
      /\ UNCHANGED <<suc, code, dfs, todo, rpo>>
  BY DEF Scan, Reset
<1>2. Types /\ Covered /\ Reachable
  BY DEF Inv
<1>3. rpo \in Seq(Block) /\ Distinct(rpo) /\ InSeq(rpo) = Block
  BY <1>1, <1>2 DEF Types, Covered
<1>4. queue' \in Seq(Block) /\ InSeq(queue') = Block /\ Distinct(queue')
  BY <1>1, <1>3, Reversed
<1>5. \A c \in Code : LocalUse(c) \subseteq Reg /\ LocalDef(c) \subseteq Reg
  <2> TAKE c \in Code
  <2>1. c \in Seq([use : SUBSET Reg, def : SUBSET Reg, copy : BOOLEAN])
    BY FunctionAssumption
  <2>2. \A i \in 1..Len(c) : c[i].def \subseteq Reg
    <3> TAKE i \in 1..Len(c)
    <3>1. c[i] \in [use : SUBSET Reg, def : SUBSET Reg, copy : BOOLEAN]
      BY <2>1, ElementOfSeq
    <3> QED BY <3>1
  <2> QED BY <2>2 DEF LocalUse, LocalDef
<1>6. Types'
  BY <1>1, <1>2, <1>4, <1>5 DEF Types
<1>7. Flags' /\ NoLostUpdate'
  BY <1>1, <1>4 DEF Flags, NoLostUpdate
<1>8. Below'
  BY <1>1 DEF Below
<1> QED
  BY <1>1, <1>2, <1>6, <1>7, <1>8 DEF Inv, Reachable, Search, Covered, InSeq, Distinct

LEMMA PopInv ==
  ASSUME Inv, Pop
  PROVE  Inv'
<1> DEFINE b == Head(queue)
           flags == visited \cup {b}
           w == Wake(b, flags)
<1>1. /\ phase = "propagate" /\ phase' = "propagate" /\ queue # <<>>
      /\ liveOut' = [liveOut EXCEPT ![b] = OutOf(b)]
      /\ liveIn' = [liveIn EXCEPT ![b] = InOf(b)]
      /\ \/ /\ visited' = flags \ w
            /\ \E o \in Orders(w) : queue' = Tail(queue) \o o
         \/ /\ liveIn[b] = InOf(b)
            /\ visited' = flags
            /\ queue' = Tail(queue)
      /\ UNCHANGED <<suc, code, dfs, todo, rpo, liveUse, liveDef>>
  BY DEF Pop, Changed
<1>2. Types /\ Reachable /\ Covered /\ Flags /\ NoLostUpdate /\ Below
  BY DEF Inv
<1>3. /\ b \in Block /\ Tail(queue) \in Seq(Block) /\ Distinct(Tail(queue))
      /\ InSeq(Tail(queue)) = InSeq(queue) \ {b}
  BY <1>1, <1>2, FirstOut DEF Types, Flags
<1>4. b \in InSeq(queue)
  <2>1. 1 \in 1..Len(queue) /\ b = queue[1]
    BY <1>1, <1>2 DEF Types
  <2> QED BY <2>1 DEF InSeq
<1> HIDE DEF b
<1>5. flags = Block \ InSeq(Tail(queue)) /\ w \subseteq flags /\ w = Preds(b) \cap flags
  BY <1>1, <1>2, <1>3, <1>4 DEF Flags, Wake, Types
<1> HIDE DEF flags, w
<1>6. /\ queue' \in Seq(Block) /\ Distinct(queue')
      /\ \/ InSeq(queue') = InSeq(Tail(queue)) \cup w /\ visited' = flags \ w
         \/ InSeq(queue') = InSeq(Tail(queue)) /\ visited' = flags /\ liveIn[b] = InOf(b)
  <2>1. ASSUME NEW o \in Orders(w), queue' = Tail(queue) \o o, visited' = flags \ w
        PROVE  queue' \in Seq(Block) /\ Distinct(queue')
               /\ InSeq(queue') = InSeq(Tail(queue)) \cup w
    <3>1. w \in SUBSET Block
      BY <1>5
    <3>2. o \in Seq(Block) /\ InSeq(o) = w /\ Distinct(o)
      BY <3>1, Listed
    <3>3. InSeq(Tail(queue)) \cap InSeq(o) = {}
      BY <3>2, <1>5
    <3> QED BY <3>2, <3>3, <2>1, <1>3, Concatenated
  <2> QED BY <2>1, <1>1, <1>3
<1>7. InOf(b) \subseteq Reg /\ OutOf(b) \subseteq Reg
  BY <1>2, <1>3 DEF Types, InOf, OutOf
<1>8. Types'
  <2>1. visited' \in SUBSET Block
    BY <1>5, <1>6
  <2>2. liveIn' \in [Block -> SUBSET Reg] /\ liveOut' \in [Block -> SUBSET Reg]
    BY <1>1, <1>2, <1>7 DEF Types
  <2> QED BY <2>1, <2>2, <1>1, <1>2, <1>6 DEF Types
<1>9. Flags'
  BY <1>5, <1>6 DEF Flags
<1>10. /\ liveIn'[b] = InOf(b) /\ liveOut'[b] = OutOf(b)
       /\ \A x \in Block : x # b => liveIn'[x] = liveIn[x] /\ liveOut'[x] = liveOut[x]
  BY <1>1, <1>2, <1>3 DEF Types
<1>11. NoLostUpdate'
  <2> SUFFICES ASSUME NEW x \in Block, x \notin InSeq(queue')
               PROVE  liveOut'[x] = OutOf(x)' /\ liveIn'[x] = InOf(x)'
    BY DEF NoLostUpdate
  <2>1. OutOf(x)' = OutOf(x)
    <3>1. CASE liveIn[b] = InOf(b)
      <4>1. \A s \in Block : liveIn'[s] = liveIn[s]
        BY <3>1, <1>10
      <4> QED BY <4>1, <1>1, <1>2 DEF OutOf, Types
    <3>2. CASE liveIn[b] # InOf(b)
      <4>1. x \in flags /\ x \notin w
        BY <3>2, <1>5, <1>6
      <4>2. b \notin suc[x]
        BY <4>1, <1>5 DEF Preds
      <4>3. \A s \in suc[x] : liveIn'[s] = liveIn[s]
        BY <4>2, <1>2, <1>10 DEF Types
      <4> QED BY <4>3, <1>1 DEF OutOf
    <3> QED BY <3>1, <3>2
  <2>2. InOf(x)' = InOf(x)
    BY <2>1, <1>1 DEF InOf
  <2>3. CASE x = b
    BY <2>1, <2>2, <2>3, <1>10
  <2>4. CASE x # b
    <3>1. x \notin InSeq(queue)
      BY <2>4, <1>3, <1>6
    <3>2. liveOut[x] = OutOf(x) /\ liveIn[x] = InOf(x)
      BY <3>1, <1>1, <1>2 DEF NoLostUpdate
    <3> QED BY <3>2, <2>1, <2>2, <2>4, <1>10
  <2> QED BY <2>3, <2>4
<1>12. Below'
  <2> SUFFICES ASSUME NEW S \in [Block -> SUBSET Reg], Solution(S)', NEW x \in Block
               PROVE  liveIn'[x] \subseteq S[x]
    BY DEF Below
  <2>1. Solution(S)
    BY <1>1 DEF Solution
  <2>2. \A y \in Block : liveIn[y] \subseteq S[y]
    BY <2>1, <1>1, <1>2 DEF Below
  <2>3. OutOf(b) \subseteq UNION {S[s] : s \in suc[b]}
    BY <2>2, <1>2, <1>3 DEF OutOf, Types
  <2>4. InOf(b) \subseteq S[b]
    BY <2>1, <2>3, <1>3 DEF InOf, Solution
  <2> QED BY <2>2, <2>4, <1>10
<1> QED
  BY <1>1, <1>2, <1>8, <1>9, <1>11, <1>12 DEF Inv, Reachable, Search, Covered, InSeq, Distinct

LEMMA StepInv == Inv /\ [Next]_vars => Inv'
<1> SUFFICES ASSUME Inv, [Next]_vars PROVE Inv'
  OBVIOUS
<1>1. ASSUME NEW b \in Block, NEW c \in Code, Rewrite(b, c) PROVE Inv'
  <2>1. /\ phase = "propagate" /\ phase' = "scan"
        /\ code' = [code EXCEPT ![b] = c]
        /\ UNCHANGED <<suc, dfs, todo, visited, rpo, liveUse, liveDef, liveIn, liveOut, queue>>
    BY <1>1 DEF Rewrite, Done
  <2>2. Types'
    BY <2>1 DEF Inv, Types
  <2>3. Reachable' /\ Covered'
    BY <2>1 DEF Inv, Reachable, Covered, InSeq, Distinct
  <2> QED BY <2>1, <2>2, <2>3 DEF Inv, Search, Flags, NoLostUpdate, Below
<1>2. CASE UNCHANGED vars
  <2>1. UNCHANGED <<suc, code, dfs, todo, visited, rpo, liveUse, liveDef, liveIn, liveOut,
                    queue, phase>>
    BY <1>2 DEF vars
  <2>2. Types' /\ Reachable' /\ Covered' /\ Flags'
    BY <2>1 DEF Inv, Types, Reachable, Covered, Flags, InSeq, Distinct
  <2>3. Search'
    BY <2>1 DEF Inv, Search, InSeq, Distinct
  <2>4. NoLostUpdate'
    BY <2>1 DEF Inv, NoLostUpdate, InSeq, OutOf, InOf
  <2>5. Below'
    BY <2>1 DEF Inv, Below, Solution
  <2> QED BY <2>2, <2>3, <2>4, <2>5 DEF Inv
<1> QED
  BY <1>1, <1>2, VisitInv, LeaveInv, ConstructedInv, ScanInv, PopInv DEF Next

LEMMA AlwaysInv == Spec => []Inv
BY InitInv, StepInv, PTL DEF Spec

\* Types, and the visited flags of the propagation: a block is flagged exactly
\* when it is not queued and is queued at most once.
THEOREM LiveTypeCorrect == Spec => []TypeOK
<1>1. Inv => TypeOK
  BY DEF Inv, Types, Flags, TypeOK
<1> QED BY <1>1, AlwaysInv, PTL

\* On every graph, clearing the flags of queued predecessors loses no update.
THEOREM UpdatesAreNotLost == Spec => []NoLostUpdate
<1>1. Inv => NoLostUpdate
  BY DEF Inv
<1> QED BY <1>1, AlwaysInv, PTL

\* Every call of calculateLiveMessage() that ends leaves the least solution of
\* the liveness equations of the code as it is then.
THEOREM ResultIsLeast == Spec => []LeastSolution
<1>1. Inv => LeastSolution
  <2> SUFFICES ASSUME Inv, Done
               PROVE  /\ Solution(liveIn)
                      /\ \A S \in [Block -> SUBSET Reg] :
                           Solution(S) => \A b \in Block : liveIn[b] \subseteq S[b]
    BY DEF LeastSolution
  <2>1. phase = "propagate" /\ InSeq(queue) = {}
    BY DEF Done, InSeq
  <2>2. \A b \in Block : liveIn[b] = InOf(b)
    BY <2>1 DEF Inv, NoLostUpdate
  <2>3. Solution(liveIn)
    BY <2>2 DEF Solution, InOf, OutOf
  <2> QED BY <2>1, <2>3 DEF Inv, Below
<1> QED BY <1>1, AlwaysInv, PTL

-----------------------------------------------------------------------------
(***************************************************************************)
(* The order of the blocks.                                                *)
(***************************************************************************)

\* Only successors are visited; the stack of the search is a path from the
\* entry; and a block of the order has a predecessor before it in the order or
\* still on that path.  Only the entry, which leaves the path last, may have none.
Order ==
  phase = "dfs" =>
    /\ \A b \in Block : todo[b] \subseteq suc[b]
    /\ dfs # <<>> => dfs[1] = Entry
    /\ \A i \in 2..Len(dfs) : dfs[i] \in suc[dfs[i - 1]]
    /\ \A i \in 1..Len(rpo) :
         \/ i = 1 /\ dfs = <<>> /\ rpo[1] = Entry
         \/ \E p \in InSeq(dfs) : rpo[i] \in suc[p]
         \/ \E j \in 1..(i - 1) : rpo[i] \in suc[rpo[j]]

LEMMA InitOrder == Init => Order /\ ReversePostorder
  BY DEF Init, Order, ReversePostorder

LEMMA VisitOrder ==
  ASSUME Inv, Order, NEW s \in Block, DfsVisit(s)
  PROVE  Order'
<1>1. /\ phase = "dfs" /\ phase' = "dfs" /\ dfs # <<>> /\ s \in todo[dfs[Len(dfs)]]
      /\ todo' = [todo EXCEPT ![dfs[Len(dfs)]] = @ \ {s}]
      /\ dfs' = IF s \in visited THEN dfs ELSE Append(dfs, s)
      /\ UNCHANGED <<suc, rpo>>
  BY DEF DfsVisit
<1>2. /\ dfs \in Seq(Block) /\ rpo \in Seq(Block) /\ todo \in [Block -> SUBSET Block]
      /\ Len(dfs) \in Nat \ {0} /\ dfs[Len(dfs)] \in Block
  BY <1>1 DEF Inv, Types
<1>3. /\ \A b \in Block : todo[b] \subseteq suc[b]
      /\ dfs[1] = Entry
      /\ \A i \in 2..Len(dfs) : dfs[i] \in suc[dfs[i - 1]]
      /\ \A i \in 1..Len(rpo) : \/ \E p \in InSeq(dfs) : rpo[i] \in suc[p]
                                \/ \E j \in 1..(i - 1) : rpo[i] \in suc[rpo[j]]
  BY <1>1 DEF Order
<1>4. \A b \in Block : todo'[b] \subseteq suc[b]
  BY <1>1, <1>2, <1>3
<1>5. CASE s \in visited
  BY <1>1, <1>3, <1>4, <1>5 DEF Order, InSeq
<1>6. CASE s \notin visited
  <2>1. /\ dfs' = Append(dfs, s) /\ Len(dfs') = Len(dfs) + 1 /\ dfs'[Len(dfs) + 1] = s
        /\ \A i \in 1..Len(dfs) : dfs'[i] = dfs[i]
    BY <1>1, <1>2, <1>6
  <2>2. s \in suc[dfs[Len(dfs)]]
    BY <1>1, <1>2, <1>3
  <2>3. \A i \in 2..Len(dfs') : dfs'[i] \in suc[dfs'[i - 1]]
    <3> SUFFICES ASSUME NEW i \in 2..Len(dfs')
                 PROVE  dfs'[i] \in suc[dfs'[i - 1]]
      OBVIOUS
    <3>1. CASE i = Len(dfs) + 1
      <4>1. i - 1 = Len(dfs) /\ i - 1 \in 1..Len(dfs)
        BY <3>1, <1>2
      <4> QED BY <4>1, <3>1, <2>1, <2>2
    <3>2. CASE i # Len(dfs) + 1
      <4>1. i \in 2..Len(dfs) /\ i \in 1..Len(dfs) /\ i - 1 \in 1..Len(dfs)
        BY <3>2, <2>1, <1>2
      <4> QED BY <4>1, <2>1, <1>3
    <3> QED BY <3>1, <3>2
  <2>4. InSeq(dfs) \subseteq InSeq(dfs')
    <3>1. 1..Len(dfs) \subseteq 1..Len(dfs')
      BY <2>1, <1>2
    <3> QED BY <3>1, <2>1 DEF InSeq
  <2>5. dfs'[1] = Entry
    BY <2>1, <1>2, <1>3
  <2>6. \A i \in 1..Len(rpo) : \/ \E p \in InSeq(dfs') : rpo[i] \in suc[p]
                               \/ \E j \in 1..(i - 1) : rpo[i] \in suc[rpo[j]]
    BY <2>4, <1>3
  <2> QED BY <2>3, <2>5, <2>6, <1>1, <1>4 DEF Order
<1> QED BY <1>5, <1>6

LEMMA LeaveOrder ==
  ASSUME Inv, Order, DfsLeave
  PROVE  Order'
<1> DEFINE n   == Len(dfs)
           top == dfs[n]
<1>1. /\ phase = "dfs" /\ dfs # <<>>
      /\ rpo' = <<top>> \o rpo
      /\ dfs' = SubSeq(dfs, 1, n - 1)
      /\ UNCHANGED <<suc, todo>>
  BY DEF DfsLeave, Placed
<1>2. /\ dfs \in Seq(Block) /\ rpo \in Seq(Block) /\ Distinct(dfs)
      /\ n \in Nat \ {0} /\ top \in Block
  BY <1>1 DEF Inv, Types, Search
<1>3. /\ \A b \in Block : todo[b] \subseteq suc[b]
      /\ dfs[1] = Entry
      /\ \A i \in 2..n : dfs[i] \in suc[dfs[i - 1]]
      /\ \A i \in 1..Len(rpo) : \/ \E p \in InSeq(dfs) : rpo[i] \in suc[p]
                                \/ \E j \in 1..(i - 1) : rpo[i] \in suc[rpo[j]]
  BY <1>1 DEF Order
<1>4. /\ dfs' \in Seq(Block) /\ InSeq(dfs') = InSeq(dfs) \ {top}
  BY <1>1, <1>2, LastOut
<1>5. Len(dfs') = n - 1 /\ \A i \in 1..(n - 1) : dfs'[i] = dfs[i]
  BY <1>1, <1>2
<1>6. /\ Len(rpo') = Len(rpo) + 1 /\ rpo'[1] = top
      /\ \A i \in 1..Len(rpo) : rpo'[i + 1] = rpo[i]
  BY <1>1, <1>2
<1>len. Len(rpo) \in Nat
  BY <1>2
<1> HIDE DEF n, top
<1>7. dfs' # <<>> => dfs'[1] = Entry
  <2> SUFFICES ASSUME dfs' # <<>> PROVE dfs'[1] = Entry
    OBVIOUS
  <2>1. Len(dfs') # 0
    BY <1>4
  <2>2. 1 \in 1..(n - 1)
    BY <2>1, <1>2, <1>5
  <2> QED BY <2>2, <1>3, <1>5
<1>8. \A i \in 2..Len(dfs') : dfs'[i] \in suc[dfs'[i - 1]]
  <2> SUFFICES ASSUME NEW i \in 2..(n - 1)
               PROVE  dfs'[i] \in suc[dfs'[i - 1]]
    BY <1>5
  <2>1. i \in 1..(n - 1) /\ i - 1 \in 1..(n - 1) /\ i \in 2..n
    BY <1>2
  <2> QED BY <2>1, <1>3, <1>5
<1>9. ASSUME NEW i \in 1..Len(rpo')
      PROVE  \/ i = 1 /\ dfs' = <<>> /\ rpo'[1] = Entry
             \/ \E p \in InSeq(dfs') : rpo'[i] \in suc[p]
             \/ \E j \in 1..(i - 1) : rpo'[i] \in suc[rpo'[j]]
  <2>1. CASE i = 1 /\ n = 1
    <3>1. Len(dfs') = 0
      BY <2>1, <1>5
    <3>2. dfs' = <<>>
      BY <3>1, <1>4
    <3> QED BY <2>1, <3>2, <1>3, <1>6 DEF top
  <2>2. CASE i = 1 /\ n # 1
    <3>1. n \in 2..n /\ n - 1 \in 1..(n - 1)
      BY <2>2, <1>2
    <3>2. top \in suc[dfs'[n - 1]]
      BY <3>1, <1>3, <1>5 DEF top
    <3>3. dfs'[n - 1] \in InSeq(dfs')
      BY <3>1, <1>5 DEF InSeq
    <3> QED BY <2>2, <3>2, <3>3, <1>6
  <2>3. CASE i # 1
    <3>1. i - 1 \in 1..Len(rpo) /\ rpo'[i] = rpo[i - 1]
      <4>1. i - 1 \in 1..Len(rpo) /\ (i - 1) + 1 = i
        BY <2>3, <1>6, <1>len
      <4>2. rpo'[(i - 1) + 1] = rpo[i - 1]
        BY <4>1, <1>6
      <4> QED BY <4>1, <4>2
    <3>2. CASE \E p \in InSeq(dfs) : rpo[i - 1] \in suc[p]
      <4>1. PICK p \in InSeq(dfs) : rpo[i - 1] \in suc[p]
        BY <3>2
      <4>2. CASE p = top
        <5>1. 1 \in 1..(i - 1)
          BY <2>3, <1>6, <1>len
        <5> QED BY <3>1, <4>1, <4>2, <5>1, <1>6
      <4>3. CASE p # top
        BY <3>1, <4>1, <4>3, <1>4
      <4> QED BY <4>2, <4>3
    <3>3. CASE \E j \in 1..(i - 1 - 1) : rpo[i - 1] \in suc[rpo[j]]
      <4>1. PICK j \in 1..(i - 1 - 1) : rpo[i - 1] \in suc[rpo[j]]
        BY <3>3
      <4>2. j \in 1..Len(rpo) /\ j + 1 \in 1..(i - 1)
        BY <4>1, <3>1, <1>len
      <4>3. rpo'[j + 1] = rpo[j]
        BY <4>2, <1>6
      <4> QED BY <3>1, <4>1, <4>2, <4>3
    <3> QED BY <3>1, <3>2, <3>3, <1>3
  <2> QED BY <2>1, <2>2, <2>3
<1> QED BY <1>1, <1>3, <1>7, <1>8, <1>9 DEF Order

LEMMA StepOrder ==
  Inv /\ Inv' /\ Order /\ ReversePostorder /\ [Next]_vars => Order' /\ ReversePostorder'
<1> SUFFICES ASSUME Inv, Inv', Order, ReversePostorder, [Next]_vars
             PROVE  Order' /\ ReversePostorder'
  OBVIOUS
<1>1. ASSUME NEW s \in Block, DfsVisit(s)
      PROVE  Order' /\ ReversePostorder'
  <2>1. phase' = "dfs"
    BY <1>1 DEF DfsVisit
  <2> QED BY <2>1, <1>1, VisitOrder DEF ReversePostorder
<1>2. CASE DfsLeave
  <2>1. phase' = "dfs"
    BY <1>2 DEF DfsLeave
  <2> QED BY <2>1, <1>2, LeaveOrder DEF ReversePostorder
<1>3. CASE Constructed
  <2>1. /\ phase = "dfs" /\ phase' = "scan" /\ dfs = <<>> /\ UNCHANGED <<suc, rpo>>
    BY <1>3 DEF Constructed
  <2>2. InSeq(dfs) = {}
    BY <2>1 DEF InSeq
  <2>3. \A i \in 1..Len(rpo) : \/ i = 1 /\ rpo[1] = Entry
                               \/ \E j \in 1..(i - 1) : rpo[i] \in suc[rpo[j]]
    BY <2>1, <2>2 DEF Order
  <2>4. InSeq(rpo) = Block /\ Distinct(rpo) /\ Len(rpo) \in Nat
    BY <2>1 DEF Inv, Covered, Types, InSeq, Distinct
  <2>5. Len(rpo) # 0
    BY <2>4, FunctionAssumption DEF InSeq
  <2>6. rpo[1] = Entry
    BY <2>3, <2>4, <2>5
  <2>7. \A i \in 2..Len(rpo) : \E j \in 1..(i - 1) : rpo[i] \in suc[rpo[j]]
    BY <2>3, <2>4
  <2>8. InSeq(rpo)' = InSeq(rpo) /\ Distinct(rpo)'
    BY <2>1, <2>4 DEF InSeq, Distinct
  <2> QED BY <2>1, <2>4, <2>6, <2>7, <2>8 DEF Order, ReversePostorder
<1>4. CASE Scan \/ Pop \/ \E b \in Block, c \in Code : Rewrite(b, c)
  <2>1. phase # "dfs" /\ phase' # "dfs" /\ UNCHANGED <<suc, rpo>>
    BY <1>4 DEF Scan, Pop, Rewrite, Done
  <2> QED BY <2>1 DEF Order, ReversePostorder, InSeq, Distinct
<1>5. CASE UNCHANGED vars
  <2>1. UNCHANGED <<suc, todo, dfs, rpo, phase>>
    BY <1>5 DEF vars
  <2> QED BY <2>1 DEF Order, ReversePostorder, InSeq, Distinct
<1> QED BY <1>1, <1>2, <1>3, <1>4, <1>5 DEF Next

\* dfsBlocks() orders the blocks so that each but the entry comes after one of
\* its predecessors, on every graph of reachable blocks.
THEOREM OrderIsReversePostorder == Spec => []ReversePostorder
<1>1. (Inv /\ Inv') /\ (Order /\ ReversePostorder) /\ [Next]_vars
        => (Order /\ ReversePostorder)'
  BY StepOrder
<1> QED BY <1>1, InitOrder, AlwaysInv, PTL DEF Spec

-----------------------------------------------------------------------------
(***************************************************************************)
(* What the propagation gains with every turn.                             *)
(***************************************************************************)

\* No set is more than its equation says.
Rising ==
  phase = "propagate" =>
    \A b \in Block : liveIn[b] \subseteq InOf(b) /\ liveOut[b] \subseteq OutOf(b)

LEMMA PopGrows ==
  ASSUME Inv, Rising, Pop
  PROVE  /\ Rising'
         /\ \A x \in Block : liveIn[x] \subseteq liveIn'[x] /\ liveOut[x] \subseteq liveOut'[x]
         /\ liveIn' # liveIn \/ Len(queue') < Len(queue)
<1> DEFINE b == Head(queue)
<1>1. /\ phase = "propagate" /\ queue # <<>>
      /\ liveOut' = [liveOut EXCEPT ![b] = OutOf(b)]
      /\ liveIn' = [liveIn EXCEPT ![b] = InOf(b)]
      /\ liveIn[b] # InOf(b) \/ queue' = Tail(queue)
      /\ UNCHANGED <<suc, liveUse, liveDef>>
  BY DEF Pop, Changed
<1>2. Types /\ queue \in Seq(Block) /\ b \in Block
  BY <1>1 DEF Inv, Types
<1> HIDE DEF b
<1>3. \A x \in Block : liveIn[x] \subseteq InOf(x) /\ liveOut[x] \subseteq OutOf(x)
  BY <1>1 DEF Rising
<1>4. /\ liveIn'[b] = InOf(b) /\ liveOut'[b] = OutOf(b)
      /\ \A x \in Block : x # b => liveIn'[x] = liveIn[x] /\ liveOut'[x] = liveOut[x]
  BY <1>1, <1>2 DEF Types
<1>5. \A x \in Block : liveIn[x] \subseteq liveIn'[x] /\ liveOut[x] \subseteq liveOut'[x]
  BY <1>3, <1>4
<1>6. \A x \in Block : OutOf(x) \subseteq OutOf(x)'
  BY <1>1, <1>2, <1>5 DEF OutOf, Types
<1>7. \A x \in Block : InOf(x) \subseteq InOf(x)'
  BY <1>1, <1>6 DEF InOf
<1>8. Rising'
  <2> SUFFICES ASSUME NEW x \in Block
               PROVE  liveIn'[x] \subseteq InOf(x)' /\ liveOut'[x] \subseteq OutOf(x)'
    BY DEF Rising
  <2> QED BY <1>3, <1>4, <1>6, <1>7
<1>9. CASE liveIn[b] # InOf(b)
  BY <1>4, <1>5, <1>8, <1>9
<1>10. CASE queue' = Tail(queue)
  <2>1. Len(queue') < Len(queue)
    BY <1>1, <1>2, <1>10
  <2> QED BY <2>1, <1>5, <1>8
<1> QED BY <1>1, <1>9, <1>10

LEMMA StepRising == Inv /\ Rising /\ [Next]_vars => Rising'
<1> SUFFICES ASSUME Inv, Rising, [Next]_vars PROVE Rising'
  OBVIOUS
<1>1. CASE Scan
  BY <1>1 DEF Scan, Reset, Rising
<1>2. CASE Pop
  BY <1>2, PopGrows
<1>3. CASE UNCHANGED vars
  BY <1>3 DEF vars, Rising, InOf, OutOf
<1>4. CASE \/ \E s \in Block : DfsVisit(s)
           \/ DfsLeave \/ Constructed
           \/ \E b \in Block, c \in Code : Rewrite(b, c)
  <2>1. phase' # "propagate"
    BY <1>4 DEF DfsVisit, DfsLeave, Constructed, Rewrite
  <2> QED BY <2>1 DEF Rising
<1> QED BY <1>1, <1>2, <1>3, <1>4 DEF Next

\* On every graph, with any number of registers, each turn of the propagation
\* finds something live and gives nothing up, or shortens the queue: with
\* finitely many registers it takes finitely many turns.
THEOREM EveryTurnGrows == Spec => PropagationGrows
<1>1. Inv /\ Rising /\ [Next]_vars =>
        [phase = "propagate" /\ phase' = "propagate" =>
           /\ \A b \in Block : liveIn[b] \subseteq liveIn'[b] /\ liveOut[b] \subseteq liveOut'[b]
           /\ liveIn' # liveIn \/ Len(queue') < Len(queue)]_vars
  <2> SUFFICES ASSUME Inv, Rising, Next, phase = "propagate", phase' = "propagate"
               PROVE  /\ \A b \in Block : /\ liveIn[b] \subseteq liveIn'[b]
                                          /\ liveOut[b] \subseteq liveOut'[b]
                      /\ liveIn' # liveIn \/ Len(queue') < Len(queue)
    OBVIOUS
  <2>1. Pop
    BY DEF Next, DfsVisit, DfsLeave, Constructed, Scan, Rewrite
  <2> QED BY <2>1, PopGrows
<1>2. Init => Rising
  BY DEF Init, Rising
<1> QED BY <1>1, <1>2, StepRising, AlwaysInv, PTL DEF Spec, PropagationGrows

-----------------------------------------------------------------------------
(***************************************************************************)
(* The least solution of the liveness equations is liveness, the registers *)
(* that some path reads before it writes them.  The set of the points that *)
(* reach a use is the limit of a recursive function (FixpointProofs); the  *)
(* equations are shown to describe it point by point.                      *)
(***************************************************************************)

\* The bit sets belong to the code as it is.
UpToDate ==
  phase = "propagate" => \A b \in Block : /\ liveUse[b] = LocalUse(code[b])
                                          /\ liveDef[b] = LocalDef(code[b])

\* The registers read from instruction i of b on before they are written, and
\* those live at the end of b that nothing writes from i on.
LiveFrom(b, i) ==
  {r \in Reg : \/ \E k \in i..Len(code[b]) :
                    r \in code[b][k].use /\ \A j \in i..(k - 1) : r \notin code[b][j].def
               \/ r \in liveOut[b] /\ \A j \in i..Len(code[b]) : r \notin code[b][j].def}

\* L has every point that uses r, and with a point those before it, up to a
\* definition of r.
Closed(r, L) ==
  \A p \in Point : UsesAt(r, p) \/ (~DefsAt(r, p) /\ After(p) \cap L # {}) => p \in L

-----------------------------------------------------------------------------
\* Instructions and points.
LEMMA CodeOf ==
  ASSUME Types, NEW b \in Block
  PROVE  /\ Len(code[b]) \in Nat
         /\ \A i \in 1..Len(code[b]) : code[b][i].use \subseteq Reg /\ code[b][i].def \subseteq Reg
<1>1. code[b] \in Seq([use : SUBSET Reg, def : SUBSET Reg, copy : BOOLEAN])
  BY FunctionAssumption DEF Types
<1>2. Len(code[b]) \in Nat
  BY <1>1, LenProperties
<1>3. \A i \in 1..Len(code[b]) : code[b][i] \in [use : SUBSET Reg, def : SUBSET Reg, copy : BOOLEAN]
  BY <1>1, ElementOfSeq
<1> QED BY <1>2, <1>3

LEMMA PointIs ==
  ASSUME NEW p
  PROVE  p \in Point <=> \E b \in Block : \E i \in 1..(Len(code[b]) + 1) : p = <<b, i>>
  BY DEF Point

LEMMA PointsFinite ==
  ASSUME Types
  PROVE  IsFiniteSet(Point)
<1> DEFINE h == [b \in Block |-> {<<b, i>> : i \in 1..(Len(code[b]) + 1)}]
           T == {h[b] : b \in Block}
<1>1. \A t \in T : IsFiniteSet(t)
  <2> SUFFICES ASSUME NEW b \in Block PROVE IsFiniteSet(h[b])
    OBVIOUS
  <2> DEFINE D == 1..(Len(code[b]) + 1)
             g == [i \in D |-> <<b, i>>]
  <2>1. 1 \in Int /\ Len(code[b]) + 1 \in Int
    BY CodeOf
  <2>2. IsFiniteSet(D)
    BY <2>1, FS_Interval
  <2> HIDE DEF D
  <2>3. g \in Surjection(D, {<<b, i>> : i \in D})
    BY DEF Surjection
  <2>4. IsFiniteSet({<<b, i>> : i \in D})
    BY <2>2, <2>3, FS_Surjection
  <2> QED BY <2>4 DEF D
<1>2. IsFiniteSet(T)
  <2> HIDE DEF h
  <2>1. [b \in Block |-> h[b]] \in Surjection(Block, T)
    BY DEF Surjection
  <2> QED BY <2>1, FunctionAssumption, FS_Surjection
<1>3. IsFiniteSet(UNION T)
  <2> HIDE DEF T
  <2> QED BY <1>1, <1>2, FS_UNION
<1>4. UNION T = Point
  BY DEF Point
<1> QED BY <1>3, <1>4

\* What LiveWithin computes is closed, and least.
LEMMA WithinIsLeast ==
  ASSUME Types, NEW r
  PROVE  /\ LiveWithin(r) \in SUBSET Point /\ Closed(r, LiveWithin(r))
         /\ \A C \in SUBSET Point : Closed(r, C) => LiveWithin(r) \subseteq C
<1> DEFINE P == Point
           T == SUBSET P
           A == {p \in P : UsesAt(r, p)}
           before(L) == {p \in P : ~DefsAt(r, p) /\ After(p) \cap L # {}}
           G == [L \in T |-> L \cup before(L)]
           IsFun(f) == f = [n \in Nat |-> IF n = 0 THEN A
                                          ELSE f[n - 1] \cup before(f[n - 1])]
           f == CHOOSE x : IsFun(x)
<1>1. A \in T /\ G \in [T -> T] /\ \A X \in T : X \subseteq G[X] /\ G[X] = X \cup before(X)
  OBVIOUS
<1>2. \E x : IsFun(x)
  <2> HIDE DEF A, before, G, T
  <2>1. \E x \in [Nat -> T] : x[0] = A /\ \A n \in Nat : x[n + 1] = G[x[n]]
    <3>1. A \in T /\ G \in [T -> T]
      BY <1>1
    <3> HIDE DEF IsFun, f, P
    <3> QED BY <3>1, IterationExists
  <2>2. PICK x \in [Nat -> T] : x[0] = A /\ \A n \in Nat : x[n + 1] = G[x[n]]
    BY <2>1
  <2>3. ASSUME NEW n \in Nat
        PROVE  x[n] = IF n = 0 THEN A ELSE x[n - 1] \cup before(x[n - 1])
    <3>1. CASE n = 0
      BY <3>1, <2>2
    <3>2. CASE n # 0
      <4>1. n - 1 \in Nat /\ (n - 1) + 1 = n
        BY <3>2
      <4>2. x[n - 1] \in T /\ x[(n - 1) + 1] = G[x[n - 1]]
        BY <4>1, <2>2
      <4> QED BY <4>1, <4>2, <3>2, <1>1
    <3> QED BY <3>1, <3>2
  <2>4. x = [n \in Nat |-> IF n = 0 THEN A ELSE x[n - 1] \cup before(x[n - 1])]
    BY <2>3
  <2> QED BY <2>4
<1>3. IsFun(f)
  <2> HIDE DEF IsFun
  <2> QED BY <1>2, Zenon
<1>4. LiveWithin(r) = f[Cardinality(P)]
  BY DEF LiveWithin
<1> HIDE DEF f
<1>5. f \in [Nat -> T] /\ f[0] = A /\ \A n \in Nat : f[n + 1] = G[f[n]]
  <2> HIDE DEF A, before, G, T
  <2>1. /\ f = [n \in Nat |-> f[n]] /\ f[0] = A
        /\ \A n \in Nat : f[n + 1] = f[n] \cup before(f[n])
    <3>1. \A n \in Nat : f[n] = IF n = 0 THEN A ELSE f[n - 1] \cup before(f[n - 1])
      BY <1>3
    <3>2. f = [n \in Nat |-> f[n]]
      BY <1>3
    <3>3. \A n \in Nat : n + 1 \in Nat /\ n + 1 # 0 /\ (n + 1) - 1 = n
      OBVIOUS
    <3>4. \A n \in Nat : f[n + 1] = f[n] \cup before(f[n])
      <4> HIDE DEF IsFun
      <4> TAKE n \in Nat
      <4>1. f[n + 1] = IF n + 1 = 0 THEN A ELSE f[(n + 1) - 1] \cup before(f[(n + 1) - 1])
        BY <3>1, <3>3
      <4> QED BY <4>1, <3>3
    <3> QED BY <3>1, <3>2, <3>4
  <2> DEFINE S == {n \in Nat : f[n] \in T}
  <2>2. 0 \in S /\ \A n \in S : n + 1 \in S
    <3>1. ASSUME NEW n \in S PROVE n + 1 \in S
      <4>1. f[n + 1] = G[f[n]]
        BY <2>1, <1>1
      <4> QED BY <4>1, <1>1
    <3> QED BY <3>1, <2>1, <1>1
  <2>3. S = Nat
    <3> HIDE DEF S
    <3>1. S \in SUBSET Nat
      BY DEF S
    <3> QED BY <3>1, <2>2, SetInduction
  <2> QED BY <2>1, <2>3, <1>1
<1>6. IsFiniteSet(P)
  BY PointsFinite
<1> DEFINE L == f[Cardinality(P)]
<1>7. /\ L \in SUBSET P /\ f[0] \subseteq L /\ G[L] = L
      /\ \A C \in SUBSET P :
           f[0] \subseteq C /\ (\A X \in SUBSET C : G[X] \subseteq C) => L \subseteq C
  <2> HIDE DEF P, A, G, IsFun
  <2>1. G \in [SUBSET P -> SUBSET P] /\ f \in [Nat -> SUBSET P]
    BY <1>1, <1>5 DEF T
  <2>2. \A X \in SUBSET P : X \subseteq G[X]
    BY <1>1 DEF T
  <2>3. f[0] = A /\ \A n \in Nat : f[n + 1] = G[f[n]]
    BY <1>5
  <2> QED BY ONLY <2>1, <2>2, <2>3, <1>6, LimitReached
<1> HIDE DEF L
<1>8. Closed(r, L)
  <2>1. \A p \in Point : UsesAt(r, p) => p \in L
    BY <1>5, <1>7
  <2>2. before(L) \subseteq L
    BY <1>1, <1>7
  <2> QED BY <2>1, <2>2 DEF Closed
<1>9. ASSUME NEW C \in SUBSET P, Closed(r, C) PROVE L \subseteq C
  <2>1. f[0] \subseteq C
    BY <1>5, <1>9 DEF Closed
  <2>2. \A X \in SUBSET C : G[X] \subseteq C
    BY <1>9 DEF Closed
  <2> QED BY <2>1, <2>2, <1>7
<1> QED BY <1>4, <1>7, <1>8, <1>9 DEF L

-----------------------------------------------------------------------------
\* Liveness within a block, from its end to its start.
LEMMA FromEnd ==
  ASSUME Types, NEW b \in Block
  PROVE  LiveFrom(b, Len(code[b]) + 1) = liveOut[b]
<1>1. (Len(code[b]) + 1)..Len(code[b]) = {}
  BY CodeOf
<1>2. liveOut[b] \subseteq Reg
  BY DEF Types
<1> QED BY <1>1, <1>2 DEF LiveFrom

LEMMA FromNext ==
  ASSUME Types, NEW b \in Block, NEW i \in 1..Len(code[b])
  PROVE  LiveFrom(b, i) = (LiveFrom(b, i + 1) \ code[b][i].def) \cup code[b][i].use
<1> DEFINE c == code[b]
           n == Len(code[b])
<1>1. n \in Nat /\ i \in Nat \ {0} /\ i <= n /\ c[i].use \subseteq Reg
  BY CodeOf
<1> HIDE DEF c, n
<1>2. \A j : j \in i..n <=> (j = i \/ j \in (i + 1)..n)
  BY <1>1
<1>3. \A k \in (i + 1)..n : \A j : j \in i..(k - 1) <=> (j = i \/ j \in (i + 1)..(k - 1))
  BY <1>1
<1>4. \A j : j \notin i..(i - 1)
  BY <1>1
<1>5. \A r \in Reg :
        r \in LiveFrom(b, i) <=>
          \/ \E k \in i..n : r \in c[k].use /\ \A j \in i..(k - 1) : r \notin c[j].def
          \/ r \in liveOut[b] /\ \A j \in i..n : r \notin c[j].def
  BY DEF LiveFrom, c, n
<1>6. \A r \in Reg :
        r \in LiveFrom(b, i + 1) <=>
          \/ \E k \in (i + 1)..n :
               r \in c[k].use /\ \A j \in (i + 1)..(k - 1) : r \notin c[j].def
          \/ r \in liveOut[b] /\ \A j \in (i + 1)..n : r \notin c[j].def
  BY DEF LiveFrom, c, n
<1>7. \A r \in Reg :
        r \in LiveFrom(b, i) <=> (r \in LiveFrom(b, i + 1) /\ r \notin c[i].def) \/ r \in c[i].use
  <2> TAKE r \in Reg
  <2>1. (\E k \in i..n : r \in c[k].use /\ \A j \in i..(k - 1) : r \notin c[j].def)
        <=> \/ r \in c[i].use
            \/ /\ r \notin c[i].def
               /\ \E k \in (i + 1)..n :
                    r \in c[k].use /\ \A j \in (i + 1)..(k - 1) : r \notin c[j].def
    BY <1>2, <1>3, <1>4
  <2>2. (\A j \in i..n : r \notin c[j].def)
        <=> r \notin c[i].def /\ \A j \in (i + 1)..n : r \notin c[j].def
    BY <1>2
  <2> QED BY <2>1, <2>2, <1>5, <1>6
<1>8. LiveFrom(b, i) \subseteq Reg /\ LiveFrom(b, i + 1) \subseteq Reg
  BY DEF LiveFrom
<1> QED BY <1>1, <1>7, <1>8 DEF c

LEMMA FromStart ==
  ASSUME Inv, UpToDate, Done, NEW b \in Block
  PROVE  LiveFrom(b, 1) = liveIn[b] /\ \A s \in suc[b] : liveIn[s] \subseteq liveOut[b]
<1>1. Types /\ NoLostUpdate /\ phase = "propagate" /\ queue = <<>>
  BY DEF Inv, Done
<1>2. liveOut[b] = OutOf(b) /\ liveIn[b] = InOf(b)
  BY <1>1 DEF NoLostUpdate, InSeq
<1>3. /\ liveUse[b] = LocalUse(code[b]) /\ liveDef[b] = LocalDef(code[b])
  BY <1>1 DEF UpToDate
<1>4. liveOut[b] \subseteq Reg
  BY <1>1 DEF Types
<1>5. \A r \in Reg : r \in LiveFrom(b, 1) <=> r \in (liveOut[b] \ LocalDef(code[b])) \cup LocalUse(code[b])
  BY DEF LiveFrom, LocalDef, LocalUse
<1>6. LiveFrom(b, 1) = liveIn[b]
  BY <1>2, <1>3, <1>4, <1>5 DEF InOf, LiveFrom, LocalUse
<1> QED BY <1>2, <1>6 DEF OutOf

-----------------------------------------------------------------------------
\* A closed set has the points before one of its points, back to a definition.
LEMMA GoBack ==
  ASSUME Types, NEW r, NEW L \in SUBSET Point, Closed(r, L), NEW b \in Block,
         NEW k \in 1..(Len(code[b]) + 1), <<b, k>> \in L,
         NEW i \in 1..k, \A j \in i..(k - 1) : r \notin code[b][j].def
  PROVE  <<b, i>> \in L
<1> DEFINE S == {d \in Nat : k - d >= i => <<b, k - d>> \in L}
<1>1. Len(code[b]) \in Nat /\ k \in Nat /\ i \in Nat /\ k <= Len(code[b]) + 1
  BY CodeOf
<1>2. 0 \in S
  BY <1>1
<1>3. ASSUME NEW d \in S PROVE d + 1 \in S
  <2> SUFFICES ASSUME k - (d + 1) >= i PROVE <<b, k - (d + 1)>> \in L
    OBVIOUS
  <2> DEFINE j == k - (d + 1)
  <2>1. /\ k - d >= i /\ j + 1 = k - d /\ j \in 1..Len(code[b]) /\ j \in i..(k - 1)
        /\ j \in 1..(Len(code[b]) + 1)
    BY <1>1
  <2>2. <<b, j + 1>> \in L
    BY <2>1
  <2> HIDE DEF j
  <2>3. <<b, j>> \in Point
    BY <2>1, PointIs
  <2>4. After(<<b, j>>) = {<<b, j + 1>>} /\ ~DefsAt(r, <<b, j>>)
    BY <2>1 DEF After, DefsAt
  <2>5. <<b, j>> \in L
    BY <2>2, <2>3, <2>4 DEF Closed
  <2> QED BY <2>5 DEF j
<1>4. S = Nat
  <2> HIDE DEF S
  <2>1. S \in SUBSET Nat
    BY DEF S
  <2> QED BY <2>1, <1>2, <1>3, SetInduction
<1>5. k - i \in Nat /\ k - (k - i) = i
  BY <1>1
<1>6. k - i \in S
  <2> HIDE DEF S
  <2> QED BY <1>4, <1>5
<1> QED BY <1>1, <1>5, <1>6

\* What the bit sets say holds of every point is closed.
LEMMA SetsAreClosed ==
  ASSUME Inv, UpToDate, Done, NEW r \in Reg
  PROVE  Closed(r, {p \in Point : r \in LiveFrom(p[1], p[2])})
<1>1. Types
  BY DEF Inv
<1> SUFFICES ASSUME NEW b \in Block, NEW i \in 1..(Len(code[b]) + 1),
                    \/ UsesAt(r, <<b, i>>)
                    \/ /\ ~DefsAt(r, <<b, i>>)
                       /\ \E q \in After(<<b, i>>) : r \in LiveFrom(q[1], q[2])
             PROVE  r \in LiveFrom(b, i)
  BY PointIs DEF Closed
<1>2. Len(code[b]) \in Nat
  BY <1>1, CodeOf
<1>3. CASE i <= Len(code[b])
  <2>1. i \in 1..Len(code[b])
    BY <1>2, <1>3
  <2>2. LiveFrom(b, i) = (LiveFrom(b, i + 1) \ code[b][i].def) \cup code[b][i].use
    BY <2>1, <1>1, FromNext
  <2>3. After(<<b, i>>) = {<<b, i + 1>>}
    BY <1>3 DEF After
  <2> QED BY <2>2, <2>3, <1>3 DEF UsesAt, DefsAt
<1>4. CASE ~(i <= Len(code[b]))
  <2>1. i = Len(code[b]) + 1
    BY <1>2, <1>4
  <2>2. LiveFrom(b, i) = liveOut[b]
    BY <2>1, <1>1, FromEnd
  <2>3. After(<<b, i>>) = {<<s, 1>> : s \in suc[b]} /\ ~UsesAt(r, <<b, i>>)
    BY <1>4 DEF After, UsesAt
  <2>4. PICK s \in suc[b] : r \in LiveFrom(s, 1)
    BY <2>3
  <2>5. s \in Block
    BY <1>1 DEF Types
  <2>6. LiveFrom(s, 1) = liveIn[s] /\ liveIn[s] \subseteq liveOut[b]
    BY <2>5, FromStart
  <2> QED BY <2>2, <2>4, <2>6
<1> QED BY <1>3, <1>4

\* The blocks whose start is in a closed set solve the equations.
LEMMA ClosedSolves ==
  ASSUME Inv, UpToDate, Done, NEW r \in Reg, NEW L \in SUBSET Point, Closed(r, L)
  PROVE  \A b \in Block : r \in liveIn[b] => <<b, 1>> \in L
<1>1. Types /\ Below /\ phase = "propagate"
  BY DEF Inv, Done
<1> DEFINE S == [b \in Block |-> {x \in Reg : x = r => <<b, 1>> \in L}]
<1>2. S \in [Block -> SUBSET Reg]
  OBVIOUS
<1>3. ASSUME NEW b \in Block
      PROVE  ((UNION {S[s] : s \in suc[b]}) \ liveDef[b]) \cup liveUse[b] \subseteq S[b]
  <2>1. liveUse[b] = LocalUse(code[b]) /\ liveDef[b] = LocalDef(code[b])
    BY <1>1 DEF UpToDate
  <2>2. suc[b] \subseteq Block /\ Len(code[b]) \in Nat
    BY <1>1, CodeOf DEF Types
  <2>3. UNION {S[s] : s \in suc[b]} \subseteq Reg /\ liveUse[b] \subseteq Reg
    BY <2>2, <1>1 DEF Types
  <2>4. ASSUME r \in liveUse[b] PROVE <<b, 1>> \in L
    <3>1. PICK k \in 1..Len(code[b]) : /\ r \in code[b][k].use
                                       /\ \A j \in 1..(k - 1) : r \notin code[b][j].def
      BY <2>1, <2>4 DEF LocalUse
    <3>2. k \in 1..(Len(code[b]) + 1) /\ 1 \in 1..k /\ k <= Len(code[b])
      BY <2>2
    <3>3. <<b, k>> \in Point
      BY <3>2, PointIs
    <3>4. UsesAt(r, <<b, k>>)
      BY <3>1, <3>2 DEF UsesAt
    <3>5. <<b, k>> \in L
      BY <3>3, <3>4 DEF Closed
    <3> QED BY <3>1, <3>2, <3>5, <1>1, GoBack
  <2>5. ASSUME NEW s \in suc[b], r \in S[s], r \notin liveDef[b] PROVE <<b, 1>> \in L
    <3> DEFINE e == Len(code[b]) + 1
    <3>1. <<s, 1>> \in L
      BY <2>2, <2>5
    <3>2. e \in 1..e /\ 1 \in 1..e /\ ~(e <= Len(code[b])) /\ e - 1 = Len(code[b])
      BY <2>2
    <3>3. <<b, e>> \in Point
      BY <3>2, PointIs
    <3>4. After(<<b, e>>) = {<<x, 1>> : x \in suc[b]} /\ ~DefsAt(r, <<b, e>>)
      BY <3>2 DEF After, DefsAt
    <3>5. <<b, e>> \in L
      BY <3>1, <3>3, <3>4 DEF Closed
    <3>6. \A j \in 1..(e - 1) : r \notin code[b][j].def
      BY <2>1, <2>5, <3>2 DEF LocalDef
    <3> QED BY <3>2, <3>5, <3>6, <1>1, GoBack
  <2> QED BY <2>2, <2>3, <2>4, <2>5
<1>4. Solution(S)
  BY <1>3 DEF Solution
<1>5. \A b \in Block : liveIn[b] \subseteq S[b]
  <2> HIDE DEF S
  <2> QED BY <1>1, <1>2, <1>4 DEF Below
<1> QED BY <1>5

\* The equations say of every point what the paths say.
LEMMA SetsAreLiveness ==
  ASSUME Inv, UpToDate, Done, NEW r \in Reg, NEW b \in Block, NEW i \in 1..(Len(code[b]) + 1)
  PROVE  <<b, i>> \in LiveWithin(r) <=> r \in LiveFrom(b, i)
<1> DEFINE L == LiveWithin(r)
           C == {p \in Point : r \in LiveFrom(p[1], p[2])}
<1>1. Types /\ NoLostUpdate
  BY DEF Inv
<1>2. /\ L \in SUBSET Point /\ Closed(r, L)
      /\ \A X \in SUBSET Point : Closed(r, X) => L \subseteq X
  BY <1>1, WithinIsLeast
<1>3. L \subseteq C
  BY <1>2, SetsAreClosed
<1> HIDE DEF L
<1>4. Len(code[b]) \in Nat /\ suc[b] \subseteq Block
  BY <1>1, CodeOf DEF Types
<1> DEFINE e == Len(code[b]) + 1
<1>5. e \in Nat /\ e \in 1..e /\ i \in 1..e /\ e - 1 = Len(code[b]) /\ ~(e <= Len(code[b]))
  BY <1>4
<1>6. r \in liveOut[b] => <<b, e>> \in L
  <2> SUFFICES ASSUME r \in liveOut[b] PROVE <<b, e>> \in L
    OBVIOUS
  <2>1. liveOut[b] = OutOf(b)
    BY <1>1 DEF NoLostUpdate, InSeq, Done
  <2>2. PICK s \in suc[b] : r \in liveIn[s]
    BY <2>1 DEF OutOf
  <2>3. <<s, 1>> \in L
    BY <2>2, <1>2, <1>4, ClosedSolves
  <2>4. After(<<b, e>>) = {<<x, 1>> : x \in suc[b]} /\ ~DefsAt(r, <<b, e>>)
    BY <1>5 DEF After, DefsAt
  <2>5. <<b, e>> \in Point
    BY <1>5, PointIs
  <2> QED BY <2>3, <2>4, <2>5, <1>2 DEF Closed
<1>7. ASSUME r \in LiveFrom(b, i) PROVE <<b, i>> \in L
  <2>1. CASE \E k \in i..Len(code[b]) :
               r \in code[b][k].use /\ \A j \in i..(k - 1) : r \notin code[b][j].def
    <3>1. PICK k \in i..Len(code[b]) :
                 r \in code[b][k].use /\ \A j \in i..(k - 1) : r \notin code[b][j].def
      BY <2>1
    <3>2. k \in 1..(Len(code[b]) + 1) /\ i \in 1..k /\ k <= Len(code[b])
      BY <1>4
    <3>3. <<b, k>> \in Point
      BY <3>2, PointIs
    <3>4. UsesAt(r, <<b, k>>)
      BY <3>1, <3>2 DEF UsesAt
    <3>5. <<b, k>> \in L
      BY <3>3, <3>4, <1>2 DEF Closed
    <3> QED BY <3>1, <3>2, <3>5, <1>1, <1>2, GoBack
  <2>2. CASE r \in liveOut[b] /\ \A j \in i..Len(code[b]) : r \notin code[b][j].def
    <3>1. <<b, e>> \in L
      BY <2>2, <1>6
    <3>2. \A j \in i..(e - 1) : r \notin code[b][j].def
      BY <2>2, <1>5
    <3> QED BY <3>1, <3>2, <1>1, <1>2, <1>5, GoBack
  <2> QED BY <2>1, <2>2, <1>7 DEF LiveFrom
<1>8. <<b, i>> \in L => r \in LiveFrom(b, i)
  BY <1>3
<1> QED BY <1>7, <1>8 DEF L

-----------------------------------------------------------------------------
LEMMA InitUpToDate == Init => UpToDate
  BY DEF Init, UpToDate

LEMMA StepUpToDate == Inv /\ UpToDate /\ [Next]_vars => UpToDate'
<1> SUFFICES ASSUME Inv, UpToDate, [Next]_vars PROVE UpToDate'
  OBVIOUS
<1>1. CASE Scan
  BY <1>1 DEF Scan, UpToDate
<1>2. CASE Pop
  BY <1>2 DEF Pop, UpToDate
<1>3. CASE UNCHANGED vars
  BY <1>3 DEF vars, UpToDate
<1>4. CASE \/ \E s \in Block : DfsVisit(s)
           \/ DfsLeave \/ Constructed
           \/ \E b \in Block, c \in Code : Rewrite(b, c)
  <2>1. phase' # "propagate"
    BY <1>4 DEF DfsVisit, DfsLeave, Constructed, Rewrite
  <2> QED BY <2>1 DEF UpToDate
<1> QED BY <1>1, <1>2, <1>3, <1>4 DEF Next

\* A register is live into (out of) a block exactly when some path from its
\* start (end) reads it before writing it: on every graph of reachable blocks,
\* for every code, and again after every round of spilling.
THEOREM ResultIsLiveness == Spec => []LiveIsLive
<1>1. Inv /\ UpToDate => LiveIsLive
  <2> SUFFICES ASSUME Inv, UpToDate, Done, NEW r \in Reg, NEW b \in Block
               PROVE  /\ r \in liveIn[b] <=> <<b, 1>> \in LiveWithin(r)
                      /\ r \in liveOut[b] <=> <<b, Len(code[b]) + 1>> \in LiveWithin(r)
    BY DEF LiveIsLive
  <2>1. Types /\ Len(code[b]) \in Nat
    BY CodeOf DEF Inv
  <2>2. 1 \in 1..(Len(code[b]) + 1) /\ Len(code[b]) + 1 \in 1..(Len(code[b]) + 1)
    BY <2>1
  <2>3. LiveFrom(b, 1) = liveIn[b] /\ LiveFrom(b, Len(code[b]) + 1) = liveOut[b]
    BY <2>1, FromStart, FromEnd
  <2>4. <<b, 1>> \in LiveWithin(r) <=> r \in LiveFrom(b, 1)
    BY <2>2, SetsAreLiveness
  <2>5. <<b, Len(code[b]) + 1>> \in LiveWithin(r) <=> r \in LiveFrom(b, Len(code[b]) + 1)
    BY <2>2, SetsAreLiveness
  <2> QED BY <2>3, <2>4, <2>5
<1> QED BY <1>1, InitUpToDate, StepUpToDate, AlwaysInv, PTL DEF Spec
=============================================================================
