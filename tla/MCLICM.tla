-------------------------------- MODULE MCLICM --------------------------------
(****************************************************************************)
(* Instances of LICM.  Block 0 is the preheader, 1 the header, 3 the latch  *)
(* and 4 the exit of the loop {1, 2, 3}.  1 is defined before the loop; 2   *)
(* is the phi of the header; 3, 4 and 5 are in the loop; and 6 is the phi   *)
(* through which a value of the loop is used after it (LCSSA form).         *)
(****************************************************************************)
EXTENDS LICM, TLC

Graph(a, b, c, d, e) == (0 :> a) @@ (1 :> b) @@ (2 :> c) @@ (3 :> d) @@ (4 :> e)

While == Graph({1}, {2, 4}, {3}, {1}, {})
Branching == Graph({1}, {2, 3}, {3}, {1, 4}, {})

Exiting(s) == CHOOSE b \in 1..3 : 4 \in s[b]

At(b, ops) == ops \X {b}

FunctionOf(s, b4, b5, o3, o4, o5, next, after, fixed) ==
  [succ |-> s,
   order |-> [b \in Blocks |-> SelectSeq(<<1, 2, 3, 4, 5, 6>>,
                LAMBDA i : b = <<0, 1, 1, b4, b5, 4>>[i])],
   phis |-> {2, 6}, fixed |-> fixed,
   uses |-> <<{}, {<<next, 3>>}, At(1, o3), At(b4, o4), At(b5, o5),
              {<<after, Exiting(s)>>}>>,
   loops |-> <<[blocks |-> {1, 2, 3}, preheader |-> 0]>>]

\* In strict SSA form the block of a definition dominates the use.
Valid(g, D) ==
  \A i \in Instrs : \A u \in g.uses[i] :
    \E c \in Blocks : u[1] \in ToSet(g.order[c]) /\ <<c, u[2]>> \in D

FunctionsWith(s, D) ==
  {g \in {FunctionOf(s, b4, b5, o3, o4, o5, next, after, fixed) :
            b4 \in {1, 2}, b5 \in {2, 3}, o3 \in {{}, {1}, {2}},
            o4 \in {{}, {2}, {3}, {1, 3}}, o5 \in {{3}, {4}, {3, 4}, {2, 4}},
            next \in {2, 3, 5}, after \in {2, 5}, fixed \in {{}, {4}}} :
     Valid(g, D) /\ Tame(g)}

\* D ranges over one value: TLC evaluates it once per graph.
MCFunctions ==
  UNION {UNION {FunctionsWith(s, D) : D \in {Dominance(s)}} : s \in {While, Branching}}

\* Two loops of one block each, 1 and 3, one after the other, with preheaders 0
\* and 2.
Siblings == Graph({1}, {1, 2}, {3}, {3, 4}, {})
SiblingLoops == <<[blocks |-> {1}, preheader |-> 0], [blocks |-> {3}, preheader |-> 2]>>

\* Each loop has an invariant, 1 and 3, and a call that uses it, 2 and 4.
TwoLoops ==
  {[succ |-> Siblings,
    order |-> Graph(<< >>, <<1, 2>>, << >>, <<3, 4>>, <<5, 6>>),
    phis |-> {}, fixed |-> {2, 4, 5, 6},
    uses |-> <<{}, At(1, {1}), {}, At(3, {3}), {}, {}>>,
    loops |-> SiblingLoops]}

\* The invariant 1 of the first loop reaches the second loop through the phi 2:
\* it is what the phi 3 of the second loop starts from, and 4 its next value.
UsedAfter ==
  {[succ |-> Siblings,
    order |-> Graph(<< >>, <<1>>, <<2>>, <<3, 4>>, <<5, 6>>),
    phis |-> {2, 3}, fixed |-> {5, 6},
    uses |-> <<{}, At(1, {1}), {<<2, 2>>, <<4, 3>>}, At(3, {3}), {}, {}>>,
    loops |-> SiblingLoops]}

==============================================================================
