------------------------------ MODULE Mem2Reg ------------------------------
(***************************************************************************)
(* Mem2Reg: variables in memory become values.  A phi is put at every      *)
(* block of the iterated dominance frontier of a variable's stores, then a *)
(* depth-first walk of the flow graph hands on what every variable holds.  *)
(* ConstGlobalEliminate, run before it, does away with the globals no      *)
(* store changes.                                                          *)
(***************************************************************************)
EXTENDS Passes

\* ConstGlobalEliminate::run(), localize_ is off.
NeverStored(m, g) == \A i \in DOMAIN m.ins : ~(Op(m, i) = "store" /\ m.ins[i].a[2] = <<"g", g>>)
LoadsOf(m, g) == {i \in DOMAIN m.ins : Op(m, i) = "load" /\ m.ins[i].a[1] = <<"g", g>>}
ReplaceLoads(m, g) ==
    Erase(InTurn(LAMBDA x, i : ReplaceUses(x, <<"i", i>>, <<"c", m.glob[g]>>), m,
                 Ascending(LoadsOf(m, g))),
          LoadsOf(m, g))
ConstGlobalEliminate(c) ==
    [FlushGlobalInfo(c) EXCEPT !.m =
        InTurn(ReplaceLoads, @, Ascending({g \in c.m.scalars : NeverStored(c.m, g)}))]

-----------------------------------------------------------------------------
\* is_valid_ptr(): no global, no element of an array.
IsVariable(m, o) == o[1] # "g" /\ ~(o[1] = "i" /\ Op(m, o[2]) = "gep")
StoredIn(m, b) == {m.ins[i].a[2] : i \in {j \in ToSet(m.blk[b]) : Op(m, j) = "store"}}
Variables(m, f) == {o \in UNION {StoredIn(m, b) : b \in Blocks(m, f)} : IsVariable(m, o)}

RECURSIVE IteratedFrontier(_, _)
IteratedFrontier(frontier, B) ==
    LET C == B \cup UNION {frontier[b] : b \in B}
    IN  IF C = B THEN B ELSE IteratedFrontier(frontier, C)

\* generate_phi(): r.of maps a phi to its variable.
TypeHeld(m, o) == IF o[1] = "i" THEN m.ins[o[2]].t ELSE "i"
PlacePhi(r, o, b) == [m |-> Insert(r.m, b, PhiEnd(r.m, b), "phi", <<>>, TypeHeld(r.m, o)),
                      of |-> (r.m.next :> o) @@ r.of]
GeneratePhi(m, f, tree) ==
    LET Places(o) ==
            LET B == {b \in Blocks(m, f) : o \in StoredIn(m, b)}
            IN  UNION {tree.frontier[b] : b \in IteratedFrontier(tree.frontier, B)}
        For(r, id) == LET o == <<"i", id>>
                      IN  InTurn(LAMBDA x, b : PlacePhi(x, o, b), r, Ascending(Places(o)))
    IN  InTurn(For, [m |-> m, of |-> <<>>], Ascending({o[2] : o \in Variables(m, f)}))

\* run_inner() on one instruction.  x.name: what the variables hold here; x.rep:
\* what stands for the loads met; x.dead: the instructions to delete.
Now(x, o) == IF o \in DOMAIN x.rep THEN x.rep[o] ELSE o
Rewrite(x, i) == [x EXCEPT !.m.ins[i].a = [k \in DOMAIN @ |-> Now(x, @[k])]]
RenameInst(x, of, i) ==
    LET I == x.m.ins[i]
        Kill == [x EXCEPT !.dead = @ \cup {i}]
    IN  CASE I.op = "alloca" -> IF I.t = "i" THEN Kill ELSE x
          [] I.op = "store" /\ IsVariable(x.m, I.a[2]) ->
               [Kill EXCEPT !.name = (I.a[2] :> Now(x, I.a[1])) @@ @]
          [] I.op = "load" -> IF I.a[1] \in DOMAIN x.name
                              THEN [Kill EXCEPT !.rep = (<<"i", i>> :> x.name[I.a[1]]) @@ @]
                              ELSE x
          [] I.op = "phi" -> IF i \in DOMAIN of THEN [x EXCEPT !.name = (of[i] :> <<"i", i>>) @@ @]
                             ELSE x
          [] OTHER -> Rewrite(x, i)

\* run_inner(): the block, then the phis of its successors take what holds at
\* its end.
FillPhi(x, of, b, i) ==
    IF i \in DOMAIN of /\ of[i] \in DOMAIN x.name
    THEN [x EXCEPT !.m.ins[i].a = @ \o <<x.name[of[i]], <<"b", b>>>>] ELSE x
RunInner(x, of, b) ==
    LET Fill(z, s) == InTurn(LAMBDA w, i : FillPhi(w, of, b, i), z, Phis(z.m, s))
    IN  [InTurn(Fill, InTurn(LAMBDA z, i : RenameInst(z, of, i), x, x.m.blk[b]), x.m.suc[b])
           EXCEPT !.visited = @ \cup {b}]

\* rename_helper::run(): x.todo, the blocks to go to, each with the names its
\* parent leaves it.
Successors(x, b) == [k \in DOMAIN x.m.suc[b] |-> [b |-> x.m.suc[b][k], name |-> x.name]]
NameBlock(x, of, b) == LET y == RunInner(x, of, b) IN [y EXCEPT !.todo = Successors(y, b) \o @]
RECURSIVE RenameFrom(_, _)
RenameFrom(x, of) ==
    IF x.todo = <<>> THEN x
    ELSE LET next == Head(x.todo)
             rest == [x EXCEPT !.todo = Tail(@)]
         IN  RenameFrom(IF next.b \in x.visited THEN rest
                        ELSE NameBlock([rest EXCEPT !.name = next.name], of, next.b), of)

Clean(x) == Erase(x.m, x.dead)
Rename(r, f) ==
    RenameFrom([m |-> r.m, name |-> <<>>, rep |-> <<>>, dead |-> {}, visited |-> {},
                todo |-> <<[b |-> Entry(r.m, f), name |-> <<>>]>>], r.of)
Mem2RegIn(c, f) == [c EXCEPT !.m = Clean(Rename(GeneratePhi(@, f, c.dom[f]), f))]
Mem2RegOn(c, f) == Mem2RegIn(GetDominators(c, f), f)

Mem2Reg(c) == FlushGlobalInfo(ForFunctions(c, Mem2RegOn))
=============================================================================
