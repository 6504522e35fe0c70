--------------- MODULE MCSparseConditionalConstantPropagation ---------------
(****************************************************************************)
(* Instances of SparseConditionalConstantPropagation: four blocks, two adds *)
(* of one bit and one phi, whose graphs and layouts vary.  10 and 11 are    *)
(* the adds, 20 the phi, 30 an argument.                                    *)
(****************************************************************************)
EXTENDS SparseConditionalConstantPropagation, TLC

Targets(a, b, c, d) == (0 :> a) @@ (1 :> b) @@ (2 :> c) @@ (3 :> d)

Diamond == Targets(<<1, 2>>, <<3>>, <<3>>, << >>)
Ladder == Targets(<<1, 2>>, <<3, 2>>, <<3>>, << >>)
Loop == Targets(<<1>>, <<2, 3>>, <<1>>, << >>)
SkippedLoop == Targets(<<1, 3>>, <<2>>, <<1, 3>>, << >>)
SkippedChain == Targets(<<1, 3>>, <<2>>, <<3>>, << >>)
Unreachable == Targets(<<1, 3>>, <<3>>, <<3>>, << >>)

Layouts ==
  {<<0, 1, 2, 3>>, <<0, 1, 3, 2>>, <<0, 2, 1, 3>>,
   <<0, 2, 3, 1>>, <<0, 3, 1, 2>>, <<0, 3, 2, 1>>}

\* The phi sits in a block with several predecessors; in a chain a phi with one
\* value is legal as well.
PhiBlock(t) == IF t = SkippedChain THEN 2 ELSE IF t[0] = <<1>> THEN 1 ELSE 3

\* The definition of an operand dominates its use, or the predecessor the phi
\* takes it from.
Valid(c, D) ==
  /\ \A i \in Adds : Defined(c, D, c.add[i].lhs, c.add[i].block)
  /\ \A b \in Blocks : Defined(c, D, c.cond[b], b)
  /\ \A b \in c.phi[20].from : Defined(c, D, c.phi[20].values[b], b)

\* The phi takes v from the highest of its predecessors and 1 from the others.
CodeOf(t, order, ten, eleven, c0, c1, v) ==
  LET preds == {b \in Blocks : PhiBlock(t) \in ToSet(t[b])}
      top == CHOOSE b \in preds : \A q \in preds : q <= b
  IN  [order |-> order, targets |-> t,
       cond |-> [b \in Blocks |-> IF Len(t[b]) < 2 THEN 0
                                  ELSE IF b = 0 THEN c0 ELSE c1],
       add |-> (10 :> ten @@ 11 :> eleven),
       phi |-> (20 :> [block |-> PhiBlock(t), from |-> preds,
                       values |-> [b \in Blocks |-> IF b = top THEN v ELSE 1]]),
       live |-> {10, 11, 20}]

Add(b, l, r) == [block |-> b, lhs |-> l, rhs |-> r]
Tens == {Add(0, 1, 1), Add(0, 30, 1)}
Elevens == {Add(b, x, 1) : b \in {0, 1, 3}, x \in {10, 20}}

FunctionsWith(t, D) ==
  {c \in {CodeOf(t, order, ten, eleven, c0, c1, v) :
            order \in Layouts, ten \in Tens, eleven \in Elevens,
            c0 \in {0, 10, 11, 30}, c1 \in {30, 10, 11}, v \in {10, 20, 11}} :
     Valid(c, D)}

\* D ranges over one value: TLC evaluates it once per graph.
FunctionsOn(t) ==
  UNION {FunctionsWith(t, D) : D \in {Dominance([b \in Blocks |-> ToSet(t[b])])}}

MCFunctions ==
  UNION {FunctionsOn(t) : t \in {Diamond, Ladder, Loop, SkippedLoop, SkippedChain, Unreachable}}

\* A function whose loop is one block, and the same with the critical edge of
\* the loop split by block 2, as GVNPRE does; no branch is on a constant.
OneBlockLoop ==
  CodeOf(Targets(<<1>>, <<1, 3>>, << >>, << >>), <<0, 1, 3>>,
         Add(0, 30, 1), Add(1, 10, 1), 0, 30, 10)
SplitLoop ==
  CodeOf(Loop, <<0, 1, 2, 3>>, Add(0, 30, 1), Add(1, 10, 1), 0, 30, 10)

OpenFunctions == {OneBlockLoop, SplitLoop}

==============================================================================
