--------------------------- MODULE MCCriticalEdges ---------------------------
(****************************************************************************)
(* Instances of CriticalEdges: every graph of an entry and three more       *)
(* blocks with at most two successors each, in two layouts, with the use    *)
(* lists in two orders; and a few graphs with a switch of three targets.    *)
(****************************************************************************)
EXTENDS CriticalEdges, TLC

Ordered(S, up) ==
  SelectSeq(IF up THEN <<0, 1, 2, 3>> ELSE <<3, 2, 1, 0>>, LAMBDA b : b \in S)

FunctionOf(s, switches, layout, up) ==
  [succ |-> s, switches |-> switches, layout |-> layout,
   uses |-> [b \in Blocks |->
               LET preds == Ordered(Preds(s, b), up)
               IN  [k \in 1..Len(preds) |-> Use(preds[k], b)]]]

Branches == [Blocks -> {T \in SUBSET NonEntry : Cardinality(T) <= 2}]

WithSwitch == {s \in CFGs : s[0] = {1, 2, 3} /\ \A b \in 1..3 : Cardinality(s[b]) <= 1}

Layouts == {<<0, 1, 2, 3>>, <<0, 3, 2, 1>>}

BranchFunctions ==
  {FunctionOf(s, {}, layout, up) : s \in Branches, layout \in Layouts, up \in BOOLEAN}

MCFunctions ==
  BranchFunctions \cup {FunctionOf(s, {0}, <<0, 1, 2, 3>>, TRUE) : s \in WithSwitch}

==============================================================================
