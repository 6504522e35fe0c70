------------------ MODULE MCCommonSubexpressionElimination ------------------
(****************************************************************************)
(* Instances of CommonSubexpressionElimination: four instructions spread    *)
(* over a few graphs of four blocks, in every valid way that has the first  *)
(* in one of the first two blocks.  The last two may use the first two, so  *)
(* that one elimination makes another one possible.                         *)
(****************************************************************************)
EXTENDS CommonSubexpressionElimination, FiniteSets, TLC

Graph(a, b, c, d) == (0 :> a) @@ (1 :> b) @@ (2 :> c) @@ (3 :> d)

Diamond == Graph({1, 2}, {3}, {3}, {})
Loop == Graph({1}, {2, 3}, {1}, {})
OneUnreachable == Graph({1, 2}, {}, {}, {2})
TwoUnreachable == Graph({1}, {}, {1}, {2})

Op(o, l, r) == [op |-> o, lhs |-> l, rhs |-> r]

\* 11 and 12 are arguments.  The third instruction may be a phi of a later one.
Bodies ==
  {<<Op("add", 11, 12), x, y, z>> :
     x \in {Op("add", 12, 11), Op("sub", 11, 12), Op("sub", 12, 11)},
     y \in {Op("add", 1, 11), Op("add", 2, 11), Op("other", 2, 4)},
     z \in {Op("add", 11, 1), Op("add", 11, 2), Op("add", 3, 11), Op("sub", 11, 12)}}

FunctionsWith(s, D, R) ==
  {h \in [succ : {s}, block : {c \in [1..4 -> Blocks] : c[1] \in {0, 1}}, instr : Bodies] :
     InSSAForm(h, D, R)}

\* D and R range over one value: TLC evaluates them once per graph.
FunctionsOn(s) ==
  UNION {FunctionsWith(s, D, R) : D \in {Dominance(s)}, R \in {Reachable(s)}}

MCFunctions ==
  UNION {FunctionsOn(s) : s \in {Diamond, Loop, OneUnreachable, TwoUnreachable}}

DiamondFunctions == FunctionsOn(Diamond)

==============================================================================
