--------------------------- MODULE MCLoopUnswitching ---------------------------
(****************************************************************************)
(* Instances of LoopUnswitching, in the shape of the files in               *)
(* test/Optimizations/LoopUnswitching.  The entry, 0, and block 1 lead to   *)
(* the preheader 2 of the loop 3..7, whose header is 3 and latch 7; 8       *)
(* returns.  51 and 52 are the constants 0 and 1, 53 the limit of the loop, *)
(* 54 the condition and 55 what the entry branches on.                      *)
(****************************************************************************)
EXTENDS LoopUnswitching

Graph(a, b, c, d, e, h, i, j, k) ==
  [x \in Blocks |-> CASE x = 0 -> a [] x = 1 -> b [] x = 2 -> c [] x = 3 -> d [] x = 4 -> e
                      [] x = 5 -> h [] x = 6 -> i [] x = 7 -> j [] x = 8 -> k
                      [] OTHER -> << >>]

\* A shape: the graph, the block that ends the loop, and the branch.
WithElse == [succ |-> Graph(<<1, 2>>, <<2>>, <<3>>, <<4, 8>>, <<5, 6>>, <<7>>, <<7>>, <<3>>, << >>),
             exiting |-> 3, at |-> 4]
WithoutElse == [WithElse EXCEPT !.succ[5] = <<6>>]
InHeader == [succ |-> Graph(<<1, 2>>, <<2>>, <<3>>, <<4, 5>>, <<6>>, <<6>>, <<7>>, <<3, 8>>, << >>),
             exiting |-> 7, at |-> 3]
OutOfLoop == [WithElse EXCEPT !.succ[4] = <<8, 5>>, !.succ[5] = <<6>>]
Shapes == {WithElse, WithoutElse, InHeader, OutOfLoop}

Op(o, l, r) == [op |-> o, args |-> <<l, r>>]
Call(v) == [op |-> "call", args |-> <<v>>]
Phi(a, v, b, w) == [op |-> "phi", args |-> (a :> v) @@ (b :> w)]

\* 1 is the variable of the loop, 2 its next value and 3 the test of the limit;
\* 4, 5 and 6 may be what the condition c is computed from; 7 and 8 are calls;
\* 9 is in the preheader and 10 behind the loop.
FunctionOf(s, c, x4, x5, x9, x10, switches) ==
  [succ |-> s.succ,
   cond |-> [b \in Blocks |-> CASE b = 0 -> 55 [] b = s.exiting -> 3 [] b = s.at -> c
                                [] OTHER -> None],
   switches |-> switches,
   order |-> [b \in Blocks |->
                CASE b = 2 -> <<9>> [] b = 3 -> <<1>> \o (IF s.at = 3 THEN <<6, 4, 5>>
                                                         ELSE <<6, 3>>)
                  [] b = 4 -> IF s.at = 4 THEN <<4, 5>> ELSE <<7>>
                  [] b = 5 -> IF s.at = 4 THEN <<7>> ELSE << >>
                  [] b = 6 -> <<8>>
                  [] b = 7 -> IF s.at = 4 THEN <<2>> ELSE <<2, 3>>
                  [] b = 8 -> <<10>> [] OTHER -> << >>],
   instr |-> [i \in Instrs |->
                CASE i = 1 -> Phi(2, 51, 7, 2) [] i = 2 -> Op("add", 1, 52)
                  [] i = 3 -> Op("lt", 1, 53) [] i = 4 -> x4 [] i = 5 -> x5
                  [] i = 6 -> Op("add", 54, 51) [] i = 7 -> Call(1) [] i = 8 -> Call(9)
                  [] i = 9 -> x9 [] i = 10 -> x10 [] OTHER -> NoInstr],
   loop |-> <<3, 4, 5, 6, 7>>]

\* A definition is there before its uses: the test of the limit is behind the
\* branch when the branch is in the header.
Usual ==
  {FunctionOf(sc[1], sc[2], x4, x5, x9, x10, switches) :
     sc \in (Shapes \X {54, 3, 4, 5}) \ {<<InHeader, 3>>},
     x4 \in {Op("lt", 6, 52), Op("lt", 9, 52), Op("lt", 1, 52), Call(54)},
     x5 \in {Op("lt", 4, 54), Op("lt", 6, 4), Op("lt", 1, 4)},
     x9 \in {Phi(0, 51, 1, 52), Op("add", 54, 51)},
     x10 \in {Call(53), Call(9)},
     switches \in {{}, {0}, {4}}}

\* What the pass is not ready for: this function, changed in one place.
Plain == FunctionOf(WithElse, 54, Op("lt", 6, 52), Op("lt", 4, 54), Op("add", 54, 51),
                    Call(53), {})

\* The preheader is the entry block.
PreheaderIsEntry ==
  [Plain EXCEPT !.succ[0] = <<3>>, !.cond[0] = None, !.order[0] = <<9>>,
                !.succ[1] = << >>, !.succ[2] = << >>, !.order[2] = << >>,
                !.instr[1] = Phi(0, 51, 7, 2)]

\* A switch leads to the preheader.
PreheaderBehindSwitch == [Plain EXCEPT !.switches = {0}]

\* What the preheader computes is used by the condition, where LICM leaves what
\* it moves, and behind the loop.
ConditionInPreheader == [Plain EXCEPT !.cond[4] = 4, !.instr[4] = Op("lt", 9, 52)]
PreheaderUsedBehind == [Plain EXCEPT !.instr[10] = Call(9)]

\* The condition 5 uses 6 and 4, and 4 uses 6 too.
SharedDependency == [Plain EXCEPT !.cond[4] = 5, !.instr[5] = Op("lt", 6, 4)]

\* The condition is a phi of constants, and what a call returns.
ConditionIsPhi ==
  [Plain EXCEPT !.cond[4] = 5, !.instr[5] = Phi(2, 51, 7, 52),
                !.order[3] = <<1, 5, 6, 3>>, !.order[4] = <<4>>]
ConditionIsCall == [Plain EXCEPT !.cond[4] = 5, !.instr[5] = Call(54)]

\* A phi joins the sides of an `if' without `else'; one brings a value of the
\* loop behind it, as the loop pass manager wants it.
PhiInTarget ==
  [Plain EXCEPT !.succ = WithoutElse.succ, !.instr[5] = Phi(4, 51, 5, 52),
                !.succ[4] = <<5, 6>>, !.instr[8] = Call(5),
                !.order[4] = <<4>>, !.order[6] = <<5, 8>>]
PhiBehindLoop ==
  [Plain EXCEPT !.instr[5] = [op |-> "phi", args |-> 3 :> 1], !.instr[10] = Call(5),
                !.order[4] = <<4>>, !.order[8] = <<5, 10>>]

Unsupported ==
  {PreheaderIsEntry, PreheaderBehindSwitch, ConditionInPreheader, PreheaderUsedBehind,
   SharedDependency, ConditionIsPhi, ConditionIsCall, PhiInTarget, PhiBehindLoop}

\* The loop can be entered from two blocks: there is no preheader.
NoPreheader ==
  [Plain EXCEPT !.succ[0] = <<1, 3>>, !.succ[2] = << >>, !.order[2] = << >>, !.succ[1] = <<3>>,
                !.order[0] = <<9>>,
                !.instr[1] = [op |-> "phi", args |-> (0 :> 51) @@ (1 :> 51) @@ (7 :> 2)]]

\* One branch in a side of the other, in two orders of the blocks.
TwoBranches ==
  {[FunctionOf(WithElse, c, x4, Op("lt", 4, 54), x9, Call(53), {}) EXCEPT
      !.succ[5] = <<6, 7>>, !.cond[5] = d, !.loop = l] :
     c, d \in {54, 3, 4, 5}, x4 \in {Op("lt", 6, 52), Op("lt", 1, 52)},
     x9 \in {Phi(0, 51, 1, 52), Op("add", 54, 51)},
     l \in {<<3, 4, 5, 6, 7>>, <<3, 5, 4, 6, 7>>}}

MCFunctions == TwoBranches \cup Usual \cup Unsupported \cup {NoPreheader}

MCEnvironments ==
  {(51 :> 0) @@ (52 :> 1) @@ (53 :> n) @@ (54 :> c) @@ (55 :> e) : n \in {0, 2}, c, e \in {0, 1}}

==============================================================================
