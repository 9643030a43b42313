----------------------------- MODULE MCInputHold -----------------------------
(* Two Hold registrations under a name each, two combos, the poll thread and callers. *)
EXTENDS InputHold, TLC

CONSTANTS g1, g2, n1, n2, k1, k2

OwnNames == (g1 :> n1) @@ (g2 :> n2)

Both == <<k1, k2>>
Program(staged, calls, lists) == [staged |-> staged, calls |-> calls, lists |-> lists]
Staged(g, combos) == [gate |-> g, combos |-> combos]

\* A second binding is registered while the first is in use, and both are rewritten in place; or
\* two bindings of one combo each are released, or rebound to no combo, which releases them if held.
HoldPrograms ==
  {Program(<<Staged(g1, Both)>>, {"register", "rewrite", "release", "shutdown"}, {Both}),
   Program(<<Staged(g1, <<k1>>), Staged(g2, <<k2>>)>>, {"rebind", "release", "shutdown"}, {<<>>})}

\* One binding is reshaped, removed, cleared and unloaded.
ReshapePrograms ==
  {Program(<<Staged(g1, combos)>>,
           {"rebind", "remove", "unload", "clear", "release", "token", "shutdown", "loader lock"},
           {<<>>, Both}) : combos \in {<<>>, Both}}

\* The callers are interchangeable.
Symmetry == Permutations(Callers)
=============================================================================
