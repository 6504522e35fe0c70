------------------------------- MODULE MCGVNPRE -------------------------------
(****************************************************************************)
(* Instances of GVNPRE: functions of seven blocks as removeCriticalEdges leaves  *)
(* them, in the shapes the comments and tests of GVNPRE.cpp draw and in one *)
(* that keeps critical edges.  51, 52 and 53 are arguments.                 *)
(****************************************************************************)
EXTENDS GVNPRE

Graph(a, b, c, d, e, f, h) ==
  (0 :> a) @@ (1 :> b) @@ (2 :> c) @@ (3 :> d) @@ (4 :> e) @@ (5 :> f) @@ (6 :> h)

\* The figure at lines 13-18 with the block C.5, 5, in place: A is 0, B is 1, C
\* is 2, D is 3 and E is 4.
Figure ==
  [succ |-> Graph({1, 2}, {3}, {4, 5}, {6}, {}, {3}, {}), roots |-> <<6, 4>>,
   below |-> Graph(<< >>, << >>, << >>, <<1, 5>>, << >>, << >>, <<3, 1, 5>>)]

\* A diamond with three blocks behind it, and two diamonds.
Diamond ==
  [succ |-> Graph({1, 2}, {3}, {3}, {4}, {5}, {6}, {}), roots |-> <<6>>,
   below |-> Graph(<< >>, << >>, << >>, <<1, 2, 0>>, <<3, 1, 2, 0>>, <<4, 3, 1, 2, 0>>,
                   <<5, 4, 3, 1, 2, 0>>)]
TwoDiamonds ==
  [succ |-> Graph({1, 2}, {3}, {3}, {4, 5}, {6}, {6}, {}), roots |-> <<6>>,
   below |-> Graph(<< >>, << >>, << >>, <<1, 2, 0>>, << >>, << >>, <<4, 5, 3, 1, 2, 0>>)]

\* Loops with the header 1 that are left at their end and at their beginning.
Until ==
  [succ |-> Graph({1}, {2}, {3, 4}, {1}, {5}, {6}, {}), roots |-> <<6>>,
   below |-> Graph(<< >>, <<3, 0>>, <<1, 3, 0>>, << >>, <<2, 1, 3, 0>>, <<4, 2, 1, 3, 0>>,
                   <<5, 4, 2, 1, 3, 0>>)]
While ==
  [succ |-> Graph({1}, {2, 4}, {3}, {1}, {5}, {6}, {}), roots |-> <<6>>,
   below |-> Graph(<< >>, <<3, 2, 0>>, << >>, <<2>>, <<1, 3, 2, 0>>, <<4, 1, 3, 2, 0>>,
                   <<5, 4, 1, 3, 2, 0>>)]

\* What removeCriticalEdges leaves of two blocks, 1 and 2, that both lead to 3 and
\* to 4: an edge into either is cut, and two are not.
Crossed ==
  [succ |-> Graph({1, 2}, {5, 6}, {3, 4}, {}, {}, {3}, {4}), roots |-> <<3, 4>>,
   below |-> Graph(<< >>, << >>, << >>, <<5>>, <<6>>, << >>, << >>)]

Op(o, l, r) == [op |-> o, args |-> <<l, r>>]

FunctionOf(s, join, preds, at, x, y, l, r, z, w) ==
  [succ |-> s.succ, roots |-> s.roots, below |-> s.below, layout |-> <<0, 1, 2, 3, 4, 5, 6>>,
   order |-> [b \in Blocks |-> (IF b = join THEN <<3>> ELSE << >>) \o
                SelectSeq(<<1, 2, 4, 5, 6>>, LAMBDA i : b = (1 :> at[1] @@ 2 :> at[2] @@
                            4 :> join @@ 5 :> at[3] @@ 6 :> at[4])[i])],
   instr |-> [i \in Instrs |->
                CASE i = 1 -> x [] i = 2 -> y
                  [] i = 3 -> [op |-> "phi", args |-> (preds[1] :> l) @@ (preds[2] :> r)]
                  [] i = 4 -> z [] i = 5 -> w
                  [] i = 6 -> [op |-> "other", args |-> <<5>>]
                  [] OTHER -> NoInstr]]

DefinedIn(f, i) == CHOOSE b \in Blocks : i \in ToSet(f.order[b])

\* In strict SSA form a definition is there before its uses.
Valid(f, D) ==
  \A i \in 1..N : \A k \in DOMAIN f.instr[i].args :
    LET v == f.instr[i].args[k]
        b == DefinedIn(f, i)
        c == DefinedIn(f, v)
    IN  v \in 1..N =>
          IF f.instr[i].op = "phi" THEN <<c, k>> \in D
          ELSE IF b = c THEN v = 3 \/ (i # 3 /\ v < i) ELSE <<c, b>> \in D

FunctionsWith(s, D, join, preds, places) ==
  {f \in {FunctionOf(s, join, preds, at, Op("add", 51, 52), y, lr[1], lr[2], z, w) :
            at \in places,
            y \in {Op("add", 52, 51), Op("sub", 51, 52), Op("add", 1, 53)},
            lr \in {<<1, 2>>, <<1, 1>>, <<1, 52>>, <<1, 4>>},
            z \in {Op("add", 51, 52), Op("add", 3, 53)},
            w \in {Op("add", 4, 53), Op("add", 3, 53), Op("add", 52, 51)}} :
     Valid(f, D)}

FunctionsOn(s, join, preds, places) ==
  UNION {FunctionsWith(s, D, join, preds, places) : D \in {Dominance(s.succ)}}

FigureFunctions == FunctionsOn(Figure, 3, <<1, 5>>, {0, 1} \X {1, 2, 5} \X {3} \X {3})
DiamondFunctions == FunctionsOn(Diamond, 3, <<1, 2>>, {0, 1} \X {1, 2} \X {3, 4} \X {5})
TwoDiamondFunctions ==
  FunctionsOn(TwoDiamonds, 3, <<1, 2>>, {1} \X {1, 2} \X {4, 6} \X {6})
UntilFunctions == FunctionsOn(Until, 1, <<0, 3>>, {0, 1} \X {0, 3} \X {1, 2} \X {5})
WhileFunctions == FunctionsOn(While, 1, <<0, 3>>, {0, 2} \X {0, 3} \X {1, 4} \X {5})

CrossedFunctions == FunctionsOn(Crossed, 3, <<5, 2>>, {0, 1, 5} \X {1, 2} \X {3, 4} \X {3, 4})

MCFunctions ==
  FigureFunctions \cup DiamondFunctions \cup TwoDiamondFunctions \cup UntilFunctions
    \cup WhileFunctions \cup CrossedFunctions

\* The phi of the join takes an argument from one predecessor, and an operator
\* is applied to it.
ArgumentInPhi ==
  {FunctionOf(Figure, 3, <<1, 5>>, <<1, 1, 3, 3>>, Op("add", 51, 52), Op("add", 1, 53),
              1, 52, Op("add", 3, 53), Op("add", 3, 53))}

\* The body of the loop and the block behind it compute the same.
SameAfterLoop ==
  {FunctionOf(While, 1, <<0, 3>>, <<2, 3, 4, 5>>, Op("add", 51, 52), Op("sub", 51, 52),
              51, 52, Op("sub", 53, 51), Op("add", 52, 51))}

\* One of two blocks computes what a block computes that both lead to.
EdgeLeftUncut ==
  {FunctionOf(Crossed, 3, <<5, 2>>, <<1, 2, 3, 3>>, Op("add", 51, 52), Op("sub", 51, 52),
              1, 2, Op("add", 51, 52), Op("add", 4, 53))}

MoreWork == SameAfterLoop \cup EdgeLeftUncut

\* The header of the loop computes what its latch computes for the next turn.
HeaderRepeats ==
  {FunctionOf(While, 1, <<0, 3>>, <<0, 3, 4, 5>>, Op("add", 51, 52), Op("add", 1, 53),
              1, 1, Op("add", 3, 53), Op("add", 4, 53))}

\* A block behind a join computes what the join computes.
JoinRepeated ==
  {FunctionOf(Diamond, 3, <<1, 2>>, <<1, 2, 4, 5>>, Op("add", 51, 52), Op("add", 52, 51),
              1, 2, Op("add", 51, 52), Op("add", 52, 51))}

\* Functions of sums in the blocks that ord says.
SumsOn(s, ord, sums) ==
  [succ |-> s.succ, roots |-> s.roots, below |-> s.below, layout |-> <<0, 1, 2, 3, 4, 5, 6>>,
   order |-> ord, instr |-> [i \in Instrs |-> IF i \in DOMAIN sums THEN sums[i] ELSE NoInstr]]

\* 2 gives way to 1, 3 gets the hash of 4, and 4 gives way to it; 5 has 4 for its
\* leader.
LeaderReplaced ==
  {SumsOn(Diamond, Graph(<<1>>, << >>, << >>, << >>, <<2, 3, 4>>, <<5, 6>>, << >>),
          <<Op("add", 51, 52), Op("add", 52, 51), Op("add", 2, 53), Op("add", 1, 53),
            Op("add", 1, 53), [op |-> "other", args |-> <<5>>]>>)}

\* 2 gives way to 1, and 3 is in the tables with the hash it had before.
OperandReplaced ==
  {SumsOn(Diamond, Graph(<<1>>, << >>, << >>, << >>, <<2, 3>>, <<4, 5>>, << >>),
          <<Op("add", 51, 52), Op("add", 52, 51), Op("add", 2, 53), Op("add", 1, 53),
            [op |-> "other", args |-> <<4>>]>>)}

Unsupported == ArgumentInPhi \cup MoreWork \cup HeaderRepeats \cup JoinRepeated
                 \cup LeaderReplaced \cup OperandReplaced

MCEnvironments == {51 :> 1 @@ 52 :> 10 @@ 53 :> 100}

==============================================================================
