-------------------------------- MODULE GVNPRE --------------------------------
(****************************************************************************)
(* lib/Optimizations/GVNPRE.cpp after removeCriticalEdges: which            *)
(* expressions are available and anticipated at each block, copies into the *)
(* predecessors that lack an expression the others have, and elimination.   *)
(*                                                                          *)
(*   "available" -> "anticipated" -> "insert" -> "eliminate" -> "returned"  *)
(*                                                                          *)
(* "undefined" is where a step ends that reads a phi at a block that is no  *)
(* predecessor of its own, or a leader that was erased.                     *)
(*                                                                          *)
(* An instruction is a record [op, args]: a binary operator has <<lhs,      *)
(* rhs>>, a phi a function from its predecessors to values, and "other"     *)
(* instructions, which stand for calls and returns, the value they use.     *)
(* A function is a record: succ, its graph; instr; order, the instructions  *)
(* of each block, branches left out; layout, the order of its blocks; and   *)
(* roots and below[b], what PostDominatorTree has for roots() and for       *)
(* getDescendants(b), b itself left out.  Every block is reachable.         *)
(*                                                                          *)
(* A hash stands for its expression: collisions are left out, and so are    *)
(* unary operators.  The first successor of a block is the one with the     *)
(* lowest number.  Fresh bounds what insert adds; TLC's check for deadlocks *)
(* shows that the bound is never met.                                       *)
(****************************************************************************)
EXTENDS ControlFlow, Integers, SequencesExt

CONSTANTS
  N,          \* number of instructions of the functions
  Fresh,      \* bound: how many instructions the pass may insert
  MaxPath,    \* bound: the executions the result is compared on
  Environments, \* the values of Args the result is compared on
  Args,       \* arguments and constants, numbers above N + Fresh
  CutFunctions \* the functions the pass is run on

Instrs == 1..(N + Fresh)
Values == Instrs \cup Args
NoInstr == [op |-> "none", args |-> << >>]

IsBinaryOp(x) == x.op \in {"add", "sub"}
IsExpression(x) == IsBinaryOp(x) \/ x.op = "phi"

\* What f has in its blocks, and what its instructions may use.
Placed(f) == UNION {ToSet(f.order[b]) : b \in Blocks}
Usable(f) == Placed(f) \cup Args

WellFormedCut(f) ==
  /\ f.succ \in CFGs /\ Reachable(f.succ) = Blocks
  /\ f.layout \in Seq(Blocks)
  /\ f.order \in [Blocks -> Seq(Instrs)]
  /\ \A b, c \in Blocks : \A j \in DOMAIN f.order[b] : \A k \in DOMAIN f.order[c] :
       f.order[b][j] = f.order[c][k] => b = c /\ j = k
  /\ f.instr = [i \in Instrs |-> f.instr[i]]
  /\ \A i \in Instrs :
       /\ f.instr[i].op # "none" <=> i \in Placed(f)
       /\ IsBinaryOp(f.instr[i]) => f.instr[i].args \in Usable(f) \X Usable(f)
       /\ f.instr[i].op = "phi" =>
            \A p \in DOMAIN f.instr[i].args : f.instr[i].args[p] \in Usable(f)

ASSUME BoundsAssumption == N \in Nat /\ Fresh \in Nat /\ MaxPath \in Nat
ASSUME ArgsAssumption == \A a \in Args : a \in Int /\ a > N + Fresh
ASSUME NumbersAssumption == Blocks \subseteq Nat
ASSUME CutFunctionsAssumption == \A f \in CutFunctions : WellFormedCut(f)

VARIABLES
  g,                  \* the function as it was given
  tree,               \* the result of DominatorTreeAnalysis
  walk,               \* the blocks with several predecessors, in the order a
                      \* recursive walk over the tree meets them
  instr, order,       \* the function now
  step,
  computed,           \* the blocks computeAvailable has been called for
  availIn, availOut,  \* available.in, available.out
  antIn, antOut,      \* anticipated.in, anticipated.out
  change,
  visited, queue,     \* `visited' and `worklist' of getAnticipated
  redundant,          \* determinedRedundant
  coming,             \* blocks the walk or the eliminating loop has in front
  block,              \* the block it is at
  todo,               \* expressions of block that insert has not come to
  next,               \* instructions of block that eliminate has not come to
  local               \* localExpressions

preVars == <<g, tree, walk, instr, order, step, computed, availIn, availOut, antIn, antOut,
             change, visited, queue, redundant, coming, block, todo, next, local>>

code == <<instr, order>>
given == <<g, tree>>
available == <<computed, availIn, availOut>>
anticipating == <<antIn, antOut, visited, queue>>
inserting == <<redundant, todo>>
eliminating == <<next, local>>

\* Maps from hashes to instructions: one with an entry, and one with the entries
\* of e and those of f that e lacks.
NoLeaders == [h \in {} |-> 0]
Leader(h, i) == [k \in {h} |-> i]
Extended(e, f) == [h \in DOMAIN e \cup DOMAIN f |-> IF h \in DOMAIN e THEN e[h] ELSE f[h]]

Live == UNION {ToSet(order[b]) : b \in Blocks}

Parent(edges, b) == CHOOSE p \in Blocks : <<p, b>> \in edges

\* The orders in which a recursive walk over the tree may meet the blocks: the
\* parent of each is on the path to the one before.
Walks(edges) ==
  LET above[b \in Blocks] == IF b = Entry THEN {b} ELSE {b} \cup above[Parent(edges, b)]
      Follows(s, b) == b \notin ToSet(s) /\ Parent(edges, b) \in above[Last(s)]
      walks[n \in 1..Cardinality(Blocks)] ==
        IF n = 1 THEN {<<Entry>>}
        ELSE UNION {{Append(s, b) : b \in {c \in Blocks : Follows(s, c)}} : s \in walks[n - 1]}
  IN  walks[Cardinality(Blocks)]

PREInit ==
  /\ \E s \in {h.succ : h \in CutFunctions} :
       \E edges \in {TreeEdges(s)} :
         /\ tree = edges
         /\ g \in {h \in CutFunctions : h.succ = s}
  /\ walk = << >>
  /\ instr = g.instr /\ order = g.order
  /\ step = "available" /\ computed = {}
  /\ availIn = [b \in Blocks |-> NoLeaders] /\ availOut = availIn
  /\ antIn = availIn /\ antOut = availIn
  /\ change = FALSE
  /\ visited = {} /\ queue = << >>
  /\ redundant = {}
  /\ coming = << >> /\ block = Entry /\ todo = {} /\ next = << >> /\ local = NoLeaders

------------------------------------------------------------------------------
(* Expressions *)

\* getHashValue of instruction i when it is x; hashes of different expressions
\* are taken to be different.
Hash(x, i) ==
  CASE x.op = "sub" -> <<"sub", x.args[1], x.args[2]>>
    [] x.op = "add" -> <<"add", Min({x.args[1], x.args[2]}), Max({x.args[1], x.args[2]})>>
    [] OTHER -> <<"itself", i, i>>

HashOf(i) == Hash(instr[i], i)

\* The first instruction of s with each hash.
FirstOf(s) ==
  LET hashes == {HashOf(s[k]) : k \in 1..Len(s)}
  IN  [h \in hashes |-> s[CHOOSE k \in 1..Len(s) :
                            /\ HashOf(s[k]) = h
                            /\ \A n \in 1..(k - 1) : HashOf(s[n]) # h]]

------------------------------------------------------------------------------
(* computeAvailable *)

\* One call of the recursion: what reaches b from its parent, and what b adds; the
\* leader of an expression is the first instruction that computes it.
ComputeAvailable(b) ==
  /\ step = "available" /\ b \notin computed
  /\ b = Entry \/ \E p \in computed : <<p, b>> \in tree
  /\ computed' = computed \cup {b}
  /\ LET in == IF b = Entry THEN NoLeaders ELSE availOut[Parent(tree, b)]
     IN  /\ availIn' = [availIn EXCEPT ![b] = in]
         /\ availOut' = [availOut EXCEPT ![b] = Extended(in, FirstOf(order[b]))]
  /\ UNCHANGED <<given, walk, code, step, anticipating, change, inserting, coming, block,
                 eliminating>>

StartAnticipated ==
  /\ step = "available" /\ computed = Blocks
  /\ step' = "anticipated"
  /\ queue' = g.roots
  /\ UNCHANGED <<given, walk, code, available, antIn, antOut, change, visited, inserting, coming,
                 block, eliminating>>

------------------------------------------------------------------------------
(* getAnticipated *)

\* What is anticipated at the end of b: for several successors, what all of
\* them anticipate.  For one successor the loop of lines 183-186 runs over the
\* set it is to fill, which is empty.
AnticipatedOut(b) ==
  IF Cardinality(g.succ[b]) <= 1 THEN antOut[b]
  ELSE LET first == CHOOSE c \in g.succ[b] : \A d \in g.succ[b] : c <= d
           common == {h \in DOMAIN antIn[first] : \A c \in g.succ[b] : h \in DOMAIN antIn[c]}
       IN  [h \in common |-> antIn[first][h]]

FirstExpressions(b) ==
  LET first == FirstOf(order[b])
  IN  [h \in {k \in DOMAIN first : IsExpression(instr[first[k]])} |-> first[h]]

\* One turn of the inner loop.
Anticipate ==
  /\ step = "anticipated" /\ queue # << >>
  /\ LET b == Head(queue)
         new == Extended(antIn[b], AnticipatedOut(b))
         own == FirstExpressions(b)
     IN  /\ visited' = visited \cup {b}
         /\ queue' = Tail(queue) \o SelectSeq(g.below[b], LAMBDA c : c \notin visited \cup {b})
         /\ antOut' = [antOut EXCEPT ![b] = AnticipatedOut(b)]
         /\ antIn' = [antIn EXCEPT ![b] = Extended(new, own)]
         /\ change' = (change \/ DOMAIN own \ DOMAIN new # {})
  /\ UNCHANGED <<given, walk, code, step, available, inserting, coming, block, eliminating>>

\* The definitions named X_... are X with a slip; the specification does not
\* use them.
AnticipateAgain_KeepChange ==
  /\ step = "anticipated" /\ queue = << >> /\ change
  /\ visited' = {}
  /\ queue' = g.roots
  /\ UNCHANGED <<given, walk, code, step, available, antIn, antOut, change, inserting,
                 coming, block, eliminating>>

\* Another turn of the outer loop, which starts with the roots again.
AnticipateAgain ==
  /\ step = "anticipated" /\ queue = << >> /\ change
  /\ change' = FALSE
  /\ visited' = {}
  /\ queue' = g.roots
  /\ UNCHANGED <<given, walk, code, step, available, antIn, antOut, inserting, coming, block,
                 eliminating>>

Joins(b) == Cardinality(Preds(g.succ, b)) > 1

FinishAnticipated ==
  /\ step = "anticipated" /\ queue = << >> /\ ~change
  /\ step' = "insert"
  /\ walk' \in {SelectSeq(w, Joins) : w \in Walks(tree)}
  /\ coming' = walk'
  /\ UNCHANGED <<given, code, available, anticipating, change, inserting, block,
                 eliminating>>

------------------------------------------------------------------------------
(* insert *)

\* insert does nothing at blocks with one predecessor; walk leaves them out.
InsertInto ==
  /\ step = "insert" /\ todo = {} /\ coming # << >>
  /\ block' = Head(coming)
  /\ coming' = Tail(coming)
  /\ todo' = IF Joins(block') THEN DOMAIN antIn[block'] ELSE {}
  /\ UNCHANGED <<given, walk, code, step, available, anticipating, change, redundant,
                 eliminating>>

\* Of the instructions ins, which are those of the function now or as it was.
IsPhi(ins, v) == v \in Instrs /\ ins[v].op = "phi"

\* getIncomingValueForBlock finds p in every phi among the operands of x.
Translatable(ins, x, p) ==
  \A k \in DOMAIN x.args : IsPhi(ins, x.args[k]) => p \in DOMAIN ins[x.args[k]].args

\* phiTranslate leaves a phi alone whose value from p is no instruction.
PhiTranslate(ins, v, p) ==
  IF IsPhi(ins, v) /\ ins[v].args[p] \in Instrs THEN ins[v].args[p] ELSE v

Translate_Unchanged(ins, x, p) == x

\* The clone of x that stands at the end of p.
Translate(ins, x, p) ==
  [op |-> x.op, args |-> [k \in DOMAIN x.args |-> PhiTranslate(ins, x.args[k], p)]]

\* A clone that is no binary operator has the hash of its own address.
HasLeader(x, p) == IsBinaryOp(x) /\ Hash(x, 0) \in DOMAIN availOut[p]

AlreadyRedundant(h) ==
  /\ step = "insert" /\ h \in todo
  /\ antIn[block][h] \in redundant
  /\ todo' = todo \ {h}
  /\ UNCHANGED <<given, walk, code, step, available, anticipating, change, redundant, coming,
                 block, eliminating>>

LosePhi(h) ==
  /\ step = "insert" /\ h \in todo
  /\ antIn[block][h] \notin redundant
  /\ \E p \in Preds(g.succ, block) : ~Translatable(instr, instr[antIn[block][h]], p)
  /\ step' = "undefined"
  /\ UNCHANGED <<given, walk, code, available, anticipating, change, inserting, coming, block,
                 eliminating>>

\* The predecessors at whose end the expression x has no leader.
Lacking(x) == {p \in Preds(g.succ, block) : ~HasLeader(Translate(instr, x, p), p)}

CanInsert(h) ==
  /\ step = "insert" /\ h \in todo
  /\ antIn[block][h] \notin redundant
  /\ \A p \in Preds(g.succ, block) : Translatable(instr, instr[antIn[block][h]], p)

NotRedundant(h) ==
  /\ CanInsert(h)
  /\ Lacking(instr[antIn[block][h]]) = Preds(g.succ, block)
  /\ todo' = todo \ {h}
  /\ UNCHANGED <<given, walk, code, step, available, anticipating, change, redundant, coming,
                 block, eliminating>>

Used == {i \in Instrs : instr[i].op # "none"}

\* Copies of x in the predecessors that lack it, a phi in block, and the phi as
\* the leader at block.
InsertPhi(h) ==
  /\ CanInsert(h)
  /\ LET x == instr[antIn[block][h]]
         preds == Preds(g.succ, block)
         lacking == Lacking(x)
         first == Max(Used \cup {0}) + 1
         copy == [p \in lacking |-> first + Cardinality({q \in lacking : q < p})]
         phi == first + Cardinality(lacking)
         value == [p \in preds |-> IF p \in lacking THEN copy[p]
                                   ELSE availOut[p][Hash(Translate(instr, x, p), 0)]]
         copied == {copy[p] : p \in lacking}
     IN  /\ lacking # preds
         /\ phi \in Instrs
         /\ instr' = [i \in Instrs |->
                        IF i = phi THEN [op |-> "phi", args |-> value]
                        ELSE IF i \in copied
                             THEN Translate(instr, x, CHOOSE p \in lacking : copy[p] = i)
                             ELSE instr[i]]
         /\ order' = [b \in Blocks |->
                        (IF b = block THEN <<phi>> ELSE << >>) \o order[b]
                        \o (IF b \in lacking THEN <<copy[b]>> ELSE << >>)]
         /\ availOut' = [b \in Blocks |->
                           Extended(IF b = block THEN Leader(h, phi) ELSE NoLeaders,
                             Extended(IF b \in lacking
                                      THEN Leader(Hash(Translate(instr, x, b), 0), copy[b])
                                      ELSE NoLeaders,
                                      availOut[b]))]
         /\ availIn' = [availIn EXCEPT ![block] = Extended(Leader(h, phi), @)]
  /\ redundant' = redundant \cup {antIn[block][h]}
  /\ change' = TRUE
  /\ todo' = todo \ {h}
  /\ UNCHANGED <<given, walk, step, computed, anticipating, coming, block, eliminating>>

InsertAgain ==
  /\ step = "insert" /\ todo = {} /\ coming = << >> /\ change
  /\ change' = FALSE
  /\ coming' = walk
  /\ UNCHANGED <<given, walk, code, step, available, anticipating, inserting, block,
                 eliminating>>

FinishInsert ==
  /\ step = "insert" /\ todo = {} /\ coming = << >> /\ ~change
  /\ step' = "eliminate"
  /\ coming' = g.layout
  /\ UNCHANGED <<given, walk, code, available, anticipating, change, inserting, block,
                 eliminating>>

------------------------------------------------------------------------------
(* eliminate *)

EliminateIn ==
  /\ step = "eliminate" /\ next = << >> /\ coming # << >>
  /\ block' = Head(coming)
  /\ coming' = Tail(coming)
  /\ next' = order[block']
  /\ local' = NoLeaders
  /\ UNCHANGED <<given, walk, code, step, available, anticipating, change, inserting>>

Leaders_NoLocal(h) ==
  IF IsExpression(instr[Head(next)]) /\ h \in DOMAIN availIn[block] THEN {availIn[block][h]} ELSE {}

Leaders_OnlyLocal(h) == IF h \in DOMAIN local THEN {local[h]} ELSE {}

Leaders_AtExit(h) ==
  IF IsExpression(instr[Head(next)]) /\ h \in DOMAIN availOut[block] THEN {availOut[block][h]}
  ELSE Leaders_OnlyLocal(h)

\* The leaders for the instruction the loop is at: the one available on entry
\* to the block, and only without it the local one.
Leaders(h) ==
  IF IsExpression(instr[Head(next)]) /\ h \in DOMAIN availIn[block] THEN {availIn[block][h]}
  ELSE IF h \in DOMAIN local THEN {local[h]}
  ELSE {}

\* replaceWithLeader.
ReplaceWith(i, l) ==
  /\ instr' = [k \in Instrs |->
                 IF k = i THEN NoInstr
                 ELSE [op |-> instr[k].op,
                       args |-> [n \in DOMAIN instr[k].args |->
                                   IF instr[k].args[n] = i THEN l ELSE instr[k].args[n]]]]
  /\ order' = [order EXCEPT ![block] = RemoveAt(@, CHOOSE k \in DOMAIN @ : @[k] = i)]

Eliminate ==
  /\ step = "eliminate" /\ next # << >>
  /\ \E l \in Leaders(HashOf(Head(next))) \cap Live : ReplaceWith(Head(next), l)
  /\ next' = Tail(next)
  /\ UNCHANGED <<given, walk, step, available, anticipating, change, inserting, coming, block,
                 local>>

\* The leader was erased when its own block was dealt with.
LoseLeader ==
  /\ step = "eliminate" /\ next # << >>
  /\ Leaders(HashOf(Head(next))) \ Live # {}
  /\ step' = "undefined"
  /\ UNCHANGED <<given, walk, code, available, anticipating, change, inserting, coming, block,
                 eliminating>>

Keep ==
  /\ step = "eliminate" /\ next # << >>
  /\ Leaders(HashOf(Head(next))) = {}
  /\ local' = Extended(Leader(HashOf(Head(next)), Head(next)), local)
  /\ next' = Tail(next)
  /\ UNCHANGED <<given, walk, code, step, available, anticipating, change, inserting, coming,
                 block>>

FinishEliminate ==
  /\ step = "eliminate" /\ next = << >> /\ coming = << >>
  /\ step' = "returned"
  /\ UNCHANGED <<given, walk, code, available, anticipating, change, inserting, coming, block,
                 eliminating>>

Stopped == step \in {"returned", "undefined"} /\ UNCHANGED preVars

PRERun ==
  \/ \E b \in Blocks : ComputeAvailable(b)
  \/ StartAnticipated
  \/ Anticipate \/ AnticipateAgain \/ FinishAnticipated
  \/ InsertInto
  \/ \E h \in todo : AlreadyRedundant(h) \/ LosePhi(h) \/ NotRedundant(h) \/ InsertPhi(h)
  \/ InsertAgain \/ FinishInsert
  \/ EliminateIn \/ Eliminate \/ LoseLeader \/ Keep
  \/ FinishEliminate

PRENext == PRERun \/ Stopped

\* The pass is one thread that nothing blocks.
PRESpec == PREInit /\ [][PRENext]_preVars /\ WF_preVars(PRERun)

------------------------------------------------------------------------------
(* Executions *)

Executions ==
  LET paths[n \in 1..MaxPath] ==
        IF n = 1 THEN {<<Entry>>}
        ELSE UNION {{Append(p, c) : c \in g.succ[Last(p)]} : p \in paths[n - 1]}
  IN  {p \in UNION {paths[n] : n \in 1..MaxPath} : g.succ[Last(p)] = {}}

\* What "other" instructions see along a path, one value after the other, and
\* the number of operators evaluated.  NoValue stands for a value that was not
\* computed yet.
NoValue == 2 ^ 20

Trace(ins, ord, path, env) ==
  LET Of(v, vals) == IF v \in Args THEN env[v] ELSE vals[v]
      Operation(op, l, r) == IF NoValue \in {l, r} THEN NoValue
                             ELSE IF op = "add" THEN l + r ELSE l - r
      Value(x, now, entry, pred) ==
        CASE x.op = "phi" -> IF pred \in DOMAIN x.args THEN Of(x.args[pred], entry) ELSE NoValue
          [] x.op = "other" -> Of(x.args[1], now)
          [] OTHER -> Operation(x.op, Of(x.args[1], now), Of(x.args[2], now))
      Block(state, k) ==
        LET pred == IF k = 1 THEN Entry ELSE path[k - 1]
            Instruction(st, i) ==
              LET v == Value(ins[i], st.vals, state.vals, pred)
              IN  [vals |-> [st.vals EXCEPT ![i] = v],
                   seen |-> IF ins[i].op = "other" THEN Append(st.seen, v) ELSE st.seen,
                   work |-> st.work + IF IsBinaryOp(ins[i]) THEN 1 ELSE 0]
        IN  FoldLeft(Instruction, state, ord[path[k]])
  IN  FoldLeft(Block, [vals |-> [i \in Instrs |-> NoValue], seen |-> << >>, work |-> 0],
               [k \in 1..Len(path) |-> k])

------------------------------------------------------------------------------
(* Properties *)

Operators(b) == {i \in ToSet(g.order[b]) : IsBinaryOp(g.instr[i])}
BlockOf(i) == CHOOSE b \in Blocks : i \in ToSet(g.order[b])

\* The functions for which copying an operator of a join into a predecessor
\* makes sense as the pass does it: a phi among the operands is one of the join
\* and has instructions for values, and no other operand is of the join.
CopiesMakeSense ==
  \A b \in {c \in Blocks : Joins(c)} : \A i \in Operators(b) :
    \A v \in {g.instr[i].args[1], g.instr[i].args[2]} \cap Instrs :
      IF g.instr[v].op = "phi"
      THEN BlockOf(v) = b /\ \A p \in DOMAIN g.instr[v].args : g.instr[v].args[p] \in Instrs
      ELSE BlockOf(v) # b

\* What the program does, on every execution, is what it did before.
ResultsKept ==
  step = "returned" =>
    \A p \in Executions : \A env \in Environments :
      Trace(instr, order, p, env).seen = Trace(g.instr, g.order, p, env).seen

\* ResultsKept for the functions insert is made for: every execution of the
\* function hands the same values to the instructions that are no expressions,
\* whatever was copied, merged in a phi and replaced on the way.
SameResults == ResultsKept \/ ~CopiesMakeSense

\* `has the same number of computations' (lines 25-26): no execution evaluates
\* more operators than before.
WorkKept ==
  step = "returned" =>
    \A p \in Executions : \A env \in Environments :
      Trace(instr, order, p, env).work <= Trace(g.instr, g.order, p, env).work

\* A join that branches anticipates what all its successors compute.
AnticipatesOwnOnly == \A b \in Blocks : Joins(b) => Cardinality(g.succ[b]) <= 1

\* `the predecessors will only have B as its successor due to critical edge
\* removal' (lines 250-251): so it is where no edge into a join was left uncut.
EdgesCut == \A b \in Blocks : Joins(b) =>
              \A p \in Preds(g.succ, b) : Cardinality(g.succ[p]) = 1

\* WorkKept where nothing is anticipated at a join but what the join computes
\* (getAnticipated takes nothing through a block with one successor), and the
\* predecessors lead nowhere else: a copy in a predecessor is paid for by the
\* operator eliminated in the join.
NoMoreWork == WorkKept \/ ~CopiesMakeSense \/ ~AnticipatesOwnOnly \/ ~EdgesCut

\* `Since we have determined that the leader is available on that program point,
\* it is safe to replace and remove the instruction' (lines 58-60): the leader
\* an instruction is replaced with has not been erased.
LeadersLive ==
  step = "eliminate" /\ next # << >> => Leaders(HashOf(Head(next))) \subseteq Live

\* Below a join nothing is computed that the join computes.
JoinsComputeLast ==
  \A b \in {c \in Blocks : Joins(c)} : \A c \in Blocks \ {b} :
    <<b, c>> \in Dominance(g.succ) =>
      \A i \in Operators(b), j \in Operators(c) : Hash(g.instr[i], i) # Hash(g.instr[j], j)

\* The operators as they were given, and as they are to be found in the
\* predecessors of joins.
Expressions ==
  LET operators == UNION {Operators(b) : b \in Blocks}
      joined == UNION {Preds(g.succ, b) : b \in {c \in Blocks : Joins(c)}}
  IN  {g.instr[i] : i \in operators} \cup
      {Translate(g.instr, g.instr[ip[1]], ip[2]) :
         ip \in {jq \in operators \X joined : Translatable(g.instr, g.instr[jq[1]], jq[2])}}

\* Two values that have one hash, or are one.
Alike(v, w) ==
  \/ v = w
  \/ /\ {v, w} \subseteq Instrs
     /\ IsBinaryOp(g.instr[v]) /\ IsBinaryOp(g.instr[w])
     /\ Hash(g.instr[v], v) = Hash(g.instr[w], w)

\* Operators of operands that are alike have one hash already: nothing gets
\* the hash of another expression when operands are replaced by their leaders.
HashesTell ==
  \A x, y \in Expressions :
    /\ x.op = y.op
    /\ \/ Alike(x.args[1], y.args[1]) /\ Alike(x.args[2], y.args[2])
       \/ x.op = "add" /\ Alike(x.args[1], y.args[2]) /\ Alike(x.args[2], y.args[1])
    => Hash(x, 0) = Hash(y, 0)

\* LeadersLive where no block below a join computes what the join computes:
\* there the leader that insert replaces by its phi is nobody else's; and where
\* no leader gets a hash that an instruction in front of it has.
LeadersStay == LeadersLive \/ ~JoinsComputeLast \/ ~HashesTell

\* What the blocks have available in the function as it is now.
LeadersOut ==
  LET out[b \in Blocks] ==
        Extended(IF b = Entry THEN NoLeaders ELSE out[Parent(tree, b)], FirstOf(order[b]))
  IN  out

\* `Test that we can determine partially redundant expressions' (phi-as-op.ll):
\* when run returns each operator that is left is its own leader, and no
\* predecessor of a join has an operator available that the join was given.
NoneLeftToEliminate ==
  step = "returned" =>
    \A b \in Blocks : \A i \in {j \in ToSet(order[b]) : IsBinaryOp(instr[j])} :
      /\ LeadersOut[b][HashOf(i)] = i
      /\ \A p \in Preds(g.succ, b) :
           Joins(b) /\ g.instr[i].op # "none" /\ Translatable(instr, instr[i], p) =>
             Hash(Translate(instr, instr[i], p), 0) \notin DOMAIN LeadersOut[p]

NoLoops == \A b \in Blocks : \A c \in g.succ[b] : <<c, b>> \notin Dominance(g.succ)

\* No operand of an expression gave way to its leader: the tables of leaders,
\* which are filled once, have the hashes of the expressions as they are.
OperandsStay ==
  \A i \in 1..N : IsExpression(g.instr[i]) =>
    Range(g.instr[i].args) \cap Instrs \subseteq Live

\* NoneLeftToEliminate without loops, for the functions insert is made for:
\* what could be known when the result comes out, a second run would not do.
RedundancyRemoved ==
  NoneLeftToEliminate \/ ~CopiesMakeSense \/ ~JoinsComputeLast \/ ~NoLoops \/ ~OperandsStay

\* insert and getAnticipated come to an end, and so does run.
Finishes == <>(step \in {"returned", "undefined"})

==============================================================================
