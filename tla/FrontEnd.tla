------------------------------ MODULE FrontEnd ------------------------------
(***************************************************************************)
(* compiler.cpp's ir(): the parse tree becomes the AST, the AST becomes    *)
(* the intermediate representation.                                        *)
(***************************************************************************)
EXTENDS Ast2Ir

CONSTANTS Programs,   \* the parse trees compiled
          Inputs,     \* what a program may find on its input
          Fuel        \* bound on the iterations (and blocks) of an execution

VARIABLES phase, src, ast, code
vars == <<phase, src, ast, code>>

Init == phase = "parsed" /\ src \in Programs /\ ast = <<>> /\ code = <<>>

AstTree == /\ phase = "parsed"
           /\ ast' = A!VisitCompUnit(src)
           /\ phase' = "ast"
           /\ UNCHANGED <<src, code>>

MakeIR == /\ phase = "ast"
          /\ code' = Translate(ast)
          /\ phase' = "ir"
          /\ UNCHANGED <<src, ast>>

Done == phase = "ir" /\ UNCHANGED vars

Next == AstTree \/ MakeIR \/ Done

Spec == Init /\ [][Next]_vars

-----------------------------------------------------------------------------
\* What the source does with an input; the names of the globals and the bound
\* apart, an AST is a source program again.
SourceMeans(P, in) == A!Meaning(P, in, Fuel)

(* The AST prints and returns what the parse tree does: no fold, no moved   *)
(* negation, no dropped condition changes the program (Antlr2AstVisitor).    *)
AstMeansSource ==
    phase = "ast" => \A in \in Inputs : SourceMeans(ast, in) = SourceMeans(src, in)

(* The representation AST2IRVisitor builds prints and returns what the       *)
(* source does.                                                             *)
IRMeansSource ==
    phase = "ir" => \A in \in Inputs : Run(code, in, 4 * Fuel)
                                         = SourceMeans(src, in)

(* Block lists agree with branches, phis with predecessors, and no value is  *)
(* used before it is defined, in what AST2IRVisitor builds                    *)
(* (Function::checkBlockRelations).                                         *)
IRWellFormed == phase = "ir" => WellFormed(code)
=============================================================================
