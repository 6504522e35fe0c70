-------------------- MODULE CommonSubexpressionElimination --------------------
(****************************************************************************)
(* lib/Optimizations/CommonSubexpressionElimination.cpp: walk the dominator *)
(* tree, one scope of a ScopedHashTable per block on the way down, replace  *)
(* an instruction the table already has and insert it otherwise.            *)
(*                                                                          *)
(* The table finds a key by its hash, which for a binary operator covers    *)
(* opcode and operands, and then by isEqual, which compares opcodes alone.  *)
(* So what a lookup returns depends on which hashes share a bucket, and     *)
(* those are hashes of pointers: any keys may.                              *)
(*                                                                          *)
(* The instructions of a function are numbered, in each block in layout     *)
(* order and so that the operands of a binary operator come before it.      *)
(****************************************************************************)
EXTENDS ControlFlow, Integers, SequencesExt

CONSTANTS
  N,          \* number of instructions
  Args,       \* operands that are no instructions
  Functions   \* the functions the pass is run on

Instrs == 1..N
Values == Instrs \cup Args

\* "other" stands for the instructions for which isBinaryOp is false.
IsBinaryOp(x) == x.op \in {"add", "sub"}
IsCommutative(x) == x.op = "add"
Instructions == [op : {"add", "sub", "other"}, lhs : Values, rhs : Values]

WellFormed(g) ==
  /\ g.succ \in CFGs
  /\ g.block \in [Instrs -> Blocks]
  /\ g.instr \in [Instrs -> Instructions]
  /\ \A i \in Instrs : IsBinaryOp(g.instr[i]) =>
                         {g.instr[i].lhs, g.instr[i].rhs} \subseteq 1..(i - 1) \cup Args

\* Strict SSA form: the operands of an operator in a reachable block dominate it.
InSSAForm(h, D, R) ==
  \A i \in Instrs : h.block[i] \in R /\ IsBinaryOp(h.instr[i]) =>
    \A v \in {h.instr[i].lhs, h.instr[i].rhs} \cap Instrs :
      IF h.block[v] = h.block[i] THEN v < i ELSE <<h.block[v], h.block[i]>> \in D

ASSUME ArgsAssumption == N \in Nat /\ Args \cap Instrs = {}
ASSUME FunctionsAssumption == \A g \in Functions : WellFormed(g)
ASSUME SSAAssumption ==
  \A h \in Functions : InSSAForm(h, Dominance(h.succ), Reachable(h.succ))

VARIABLES
  g,        \* the function as it was given to run
  tree,     \* the result of DominatorTreeAnalysis
  instr,    \* the instructions with the operands they have now
  leader,   \* what has taken the place of each instruction: itself, or another
  path,     \* the calls of processBlock that are active, one block each
  scopes,   \* the table: the keys each of these calls has inserted
  todo,     \* instructions of the innermost block not yet looked up
  visited,  \* tree nodes, as paths, that processBlock has been called on
  mistaken  \* history variable, read by the properties only: the instructions
            \* a lookup has taken for another expression

vars == <<g, tree, instr, leader, path, scopes, todo, visited, mistaken>>

Live(i) == leader[i] = i
InstrsIn(b) == {i \in Instrs : g.block[i] = b /\ Live(i)}

Init ==
  /\ \E s \in {h.succ : h \in Functions} :
       \E edges \in {TreeEdges(s)} :
         /\ g \in {h \in Functions : h.succ = s}
         /\ tree = edges
  /\ instr = g.instr
  /\ leader = [i \in Instrs |-> i]
  /\ path = <<Entry>>
  /\ scopes = <<{}>>
  /\ todo = {i \in Instrs : g.block[i] = Entry}
  /\ visited = {<<Entry>>}
  /\ mistaken = {}

------------------------------------------------------------------------------
(* The hash table *)

\* The definitions named X_... are X with a slip; the specification does not
\* use them.
InTable_InnerScope == Last(scopes)

InTable == UNION {scopes[k] : k \in 1..Len(scopes)}

SameExpression_AnyOrder(x, y) ==
  /\ x.op = y.op
  /\ {x.lhs, x.rhs} = {y.lhs, y.rhs}

\* getHashValue gives x and y one hash: it orders the operands of a commutative
\* operator by address.
SameExpression(x, y) ==
  /\ x.op = y.op
  /\ \/ x.lhs = y.lhs /\ x.rhs = y.rhs
     \/ IsCommutative(x) /\ x.lhs = y.rhs /\ x.rhs = y.lhs

\* isEqual, for different instructions.
IsEqual(x, y) == IsBinaryOp(x) /\ IsBinaryOp(y) /\ x.op = y.op

\* The keys lookup(&*I) may come upon: the probe starts at the bucket of the
\* hash and stops at the first key that isEqual accepts.
Found(i) == {y \in InTable : IsEqual(instr[i], instr[y])}

\* It cannot come away empty when its own expression is there.
MustFind(i) == \E y \in InTable : /\ IsEqual(instr[i], instr[y])
                                  /\ SameExpression(instr[i], instr[y])

------------------------------------------------------------------------------
(* processBlock *)

IsNext(i) == i \in todo /\ \A j \in todo : i <= j

Replaced(v, i, y) == IF v = i THEN y ELSE v

\* i is taken for y, and with it all that i stands for.
Mistaken(i, y) ==
  IF SameExpression(instr[i], instr[y]) THEN {} ELSE {k \in Instrs : leader[k] = i}

Replace_SameBlock(i, y) ==
  /\ IsNext(i) /\ y \in Found(i)
  /\ instr' = [k \in Instrs |->
                 IF g.block[k] # g.block[i] THEN instr[k] ELSE
                 [instr[k] EXCEPT !.lhs = Replaced(@, i, y), !.rhs = Replaced(@, i, y)]]
  /\ leader' = [k \in Instrs |-> Replaced(leader[k], i, y)]
  /\ todo' = todo \ {i}
  /\ mistaken' = mistaken \cup Mistaken(i, y)
  /\ UNCHANGED <<g, tree, path, scopes, visited>>

\* replaceAllUsesWith reaches the uses in all blocks, visited or not.
Replace(i, y) ==
  /\ IsNext(i) /\ y \in Found(i)
  /\ instr' = [k \in Instrs |->
                 [instr[k] EXCEPT !.lhs = Replaced(@, i, y), !.rhs = Replaced(@, i, y)]]
  /\ leader' = [k \in Instrs |-> Replaced(leader[k], i, y)]
  /\ todo' = todo \ {i}
  /\ mistaken' = mistaken \cup Mistaken(i, y)
  /\ UNCHANGED <<g, tree, path, scopes, visited>>

Insert(i) ==
  /\ IsNext(i) /\ ~MustFind(i)
  /\ scopes' = [scopes EXCEPT ![Len(scopes)] = @ \cup {i}]
  /\ todo' = todo \ {i}
  /\ UNCHANGED <<g, tree, instr, leader, path, visited, mistaken>>

ChildLeft(c) ==
  /\ todo = {} /\ path # << >>
  /\ <<Last(path), c>> \in tree /\ Append(path, c) \notin visited

\* The recursive call for a child, and the scope it opens.
Descend(c) ==
  /\ ChildLeft(c)
  /\ path' = Append(path, c)
  /\ scopes' = Append(scopes, {})
  /\ todo' = InstrsIn(c)
  /\ visited' = visited \cup {path'}
  /\ UNCHANGED <<g, tree, instr, leader, mistaken>>

Ascend_KeepScope ==
  /\ todo = {} /\ path # << >> /\ \A c \in Blocks : ~ChildLeft(c)
  /\ path' = Front(path)
  /\ scopes' = IF Len(scopes) = 1 THEN << >>
               ELSE [Front(scopes) EXCEPT ![Len(scopes) - 1] = @ \cup Last(scopes)]
  /\ UNCHANGED <<g, tree, instr, leader, todo, visited, mistaken>>

\* The call returns; its ScopedHashTableScope takes its keys out.
Ascend ==
  /\ todo = {} /\ path # << >> /\ \A c \in Blocks : ~ChildLeft(c)
  /\ path' = Front(path)
  /\ scopes' = Front(scopes)
  /\ UNCHANGED <<g, tree, instr, leader, todo, visited, mistaken>>

Done == path = << >>
Returned == Done /\ UNCHANGED vars

Run ==
  \/ \E i \in todo, y \in Instrs : Replace(i, y)
  \/ \E i \in todo : Insert(i)
  \/ \E c \in Blocks : Descend(c)
  \/ Ascend

Next == Run \/ Returned

\* The pass is one thread that nothing blocks.
Spec == Init /\ [][Next]_vars /\ WF_vars(Run)

------------------------------------------------------------------------------
(* Properties *)

\* The number of the value an instruction computes in the function as given:
\* equal numbers are equal operators applied to equal values.
ValueNumber ==
  LET num[i \in Instrs] ==
        LET Of(v) == IF v \in Instrs THEN num[v] ELSE v
            x == g.instr[i]
            Same(y) == \/ Of(x.lhs) = Of(y.lhs) /\ Of(x.rhs) = Of(y.rhs)
                       \/ IsCommutative(x) /\ Of(x.lhs) = Of(y.rhs) /\ Of(x.rhs) = Of(y.lhs)
            twins == {j \in 1..(i - 1) : IsEqual(x, g.instr[j]) /\ Same(g.instr[j])}
        IN  IF twins = {} THEN i ELSE num[CHOOSE j \in twins : TRUE]
  IN  num

\* What stands for v by now.
Now(v) == IF v \in Instrs THEN leader[v] ELSE v

\* The instructions that were mistaken for others, and those that are computed
\* from such.
Affected ==
  {i \in Instrs :
     \A S \in SUBSET Instrs :
       /\ mistaken \subseteq S
       /\ \A k \in Instrs : IsBinaryOp(g.instr[k]) /\ {g.instr[k].lhs, g.instr[k].rhs} \cap S # {}
                              => k \in S
       => i \in S}

\* What takes the place of i is the same operator of what stands for the operands
\* of i, whatever has been replaced since.
ReplacedByItsLike(i) ==
  SameExpression(instr[leader[i]],
                 [g.instr[i] EXCEPT !.lhs = Now(@), !.rhs = Now(@)])

\* `Replace expressions with duplicate available expressions' (lines 1-2), with
\* any hash table: except where isEqual itself takes an expression for another
\* (line 60), an instruction gives way to its like, and instructions that end up
\* as one computed the same value in the function as given, unless they are
\* computed from one that was mistaken.
ReplacedByEqualValue ==
  LET num == ValueNumber
      right == Instrs \ Affected
  IN  /\ \A i \in Instrs \ mistaken : ~Live(i) => ReplacedByItsLike(i)
      /\ \A i, j \in right : leader[i] = leader[j] => num[i] = num[j]

\* The same without exception: whatever takes the place of an instruction
\* computes the same value.
ValuesKept == LET num == ValueNumber IN \A i \in Instrs : num[leader[i]] = num[i]

\* The value of j has been computed on every path to i.
AvailableAt(j, i, D) ==
  LET b == g.block[i]
      c == g.block[j]
  IN  IF b = c THEN j < i ELSE <<c, b>> \in D

\* `we only replace Instructions with available values' (basic-available.ll):
\* what takes the place of a reachable instruction dominates it, so that the
\* blocks of a sibling subtree never leak in.
ReplacedByAvailable ==
  LET D == Dominance(g.succ)
      R == Reachable(g.succ)
  IN  \A i \in Instrs :
        ~Live(i) => /\ Live(leader[i])
                    /\ g.block[i] \in R => AvailableAt(leader[i], i, D)

\* No instruction that is left names one that is gone, in blocks the walk never
\* comes to as well, and the operands of reachable operators dominate them.
UsesStayDefined ==
  LET D == Dominance(g.succ)
      R == Reachable(g.succ)
  IN  \A i \in {k \in Instrs : Live(k)} :
        \A v \in {instr[i].lhs, instr[i].rhs} \cap Instrs :
          /\ Live(v)
          /\ g.block[i] \in R /\ IsBinaryOp(instr[i]) => AvailableAt(v, i, D)

\* One walk is enough, with any hash table: when it is over, no reachable
\* operator is left whose expression an available one has as well; nor one whose
\* value an available one computes, operands and operands' operands included,
\* unless they are computed from one that was mistaken for another.
NoneLeftToEliminate ==
  Done =>
    LET D == Dominance(g.succ)
        R == Reachable(g.succ)
        num == ValueNumber
        right == Instrs \ Affected
        Left == {i \in Instrs : Live(i) /\ IsBinaryOp(instr[i]) /\ g.block[i] \in R}
    IN  \A i, j \in Left :
          i # j /\ AvailableAt(j, i, D) =>
            /\ ~SameExpression(instr[i], instr[j])
            /\ {i, j} \subseteq right => num[i] # num[j]

==============================================================================
