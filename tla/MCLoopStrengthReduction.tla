------------------------- MODULE MCLoopStrengthReduction -------------------------
(****************************************************************************)
(* Instances of LoopStrengthReduction: a loop with the preheader 0, the     *)
(* header 1, the latch 3 and the exit 4, in which block 2 is conditional;   *)
(* two phis, 5 and 6; and three users, 11 and 12 of the first and 13 of the *)
(* second.                                                                  *)
(****************************************************************************)
EXTENDS LoopStrengthReduction, TLC

Graph == (0 :> {1}) @@ (1 :> {2, 3}) @@ (2 :> {3}) @@ (3 :> {1, 4}) @@ (4 :> {})

Phi(from, start, op, step) == [from |-> from, start |-> start, inc |-> [op |-> op, step |-> step]]
User(op, by, block) == [op |-> op, by |-> by, block |-> block]

FunctionOf(five, six, eleven, twelve, thirteen, list) ==
  [succ |-> Graph, loop |-> {1, 2, 3}, preheader |-> 0, header |-> 1, latch |-> 3,
   phi |-> (5 :> five) @@ (6 :> six),
   instr |-> (11 :> eleven) @@ (12 :> twelve) @@ (13 :> thirteen),
   users |-> (5 :> list) @@ (6 :> <<13>>)]

FunctionsWith(steps, blocks) ==
  {FunctionOf(five, six, eleven, twelve, User("mul", 3, 3), list) :
     five \in {Phi(<<0, 3>>, s, op, n) : s \in {0, 5, Unknown}, op \in {"add", "sub"}, n \in steps},
     six \in {Phi(<<0, 3>>, 2, "add", 1), Phi(<<3, 0>>, 1, "add", Unknown)},
     eleven \in {User(op, by, b) : op \in {"mul", "add"}, by \in {3, 7, Unknown}, b \in blocks},
     twelve \in {User("mul", 2, 1), User("add", 2, 2)},
     list \in {<<11, 12>>, <<12, 11>>}}

MCFunctions == FunctionsWith({1, 2, Unknown}, {1, 2, 3, 4})

\* A product in the header, and one in the conditional block.
Unsupported ==
  {h \in FunctionsWith({1}, {1, 2}) :
     /\ h.phi[5] = Phi(<<0, 3>>, 0, "add", 1)
     /\ h.phi[6].inc.step = 1
     /\ h.instr[11].op = "mul" /\ h.instr[11].by = 3
     /\ h.instr[12].op = "add" /\ h.users[5] = <<11, 12>>}

==============================================================================
