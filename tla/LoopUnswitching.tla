---------------------------- MODULE LoopUnswitching ----------------------------
(****************************************************************************)
(* lib/Optimizations/LoopUnswitching.cpp: find the first branch of a loop   *)
(* that a search through operands takes for invariant, move it in front of  *)
(* the loop, and clone the loop so that each side of the branch has its     *)
(* own.                                                                     *)
(*                                                                          *)
(*   "collect" -> "ask" -> "move" -> "phis" -> "retarget" -> "clone"        *)
(*             -> "redirect" -> "returned"                                  *)
(*                                                                          *)
(* A function is a record: succ[b], the successors of a block, the true one *)
(* first; cond[b], the condition of a block with two of them; switches, the *)
(* blocks whose terminator is no BranchInst; order[b], the instructions of  *)
(* a block, terminators left out; instr, what they are; and loop, the       *)
(* blocks of the loop that run is called for, in the order of L.blocks().   *)
(* An instruction is a record [op, args]: phi has a function from blocks to *)
(* values, "add", "lt" and "call" a tuple.  A branch has two different      *)
(* successors.                                                              *)
(*                                                                          *)
(* The given blocks are 0..(NB - 1) and the given instructions 1..N; the    *)
(* clone of block b is b + NB and that of instruction i is i + N; and 2 * NB  *)
(* is the block that splitBasicBlock makes.                                 *)
(****************************************************************************)
EXTENDS ControlFlow, Integers, SequencesExt

CONSTANTS
  NB, N,          \* number of blocks and of instructions of the functions
  Args,           \* arguments and constants, numbers above 2 * N
  LoopFunctions,  \* the functions the pass is run on
  Environments,   \* the values of Args the result is compared on
  Fuel            \* bound: the blocks of an execution that is compared

Given == 0..(NB - 1)
ifElseHeader == 2 * NB
Instrs == 1..(2 * N)
None == -1        \* no block, no condition
NoInstr == [op |-> "none", args |-> << >>]

ASSUME SizesAssumption == NB \in Nat /\ N \in Nat /\ Fuel \in Nat /\ Blocks = 0..(2 * NB)
ASSUME ArgsAssumption == \A a \in Args : a \in Int /\ a > 2 * N

\* What an operand or a condition may be in the given function.
Values == Args \cup 1..N

WellFormedLoop(g) ==
  /\ g.succ \in [Blocks -> Seq(Blocks)] /\ g.cond \in [Blocks -> Values \cup {None}]
  /\ g.order \in [Blocks -> Seq(Instrs)] /\ g.switches \subseteq Given
  /\ g.loop \in Seq(Given)
  /\ \A k, n \in 1..Len(g.loop) : g.loop[k] = g.loop[n] => k = n
  /\ \A i \in 1..N : IF g.instr[i].op = "phi"
                     THEN \E S \in SUBSET Blocks : g.instr[i].args \in [S -> Values]
                     ELSE g.instr[i].args \in Seq(Values)

ASSUME LoopFunctionsAssumption == \A g \in LoopFunctions : WellFormedLoop(g)

VARIABLES
  old,                          \* the function, as it was
  succ, cond, order, instr,   \* the function now
  stage,
  blocks,                     \* the blocks of the loop not yet looked at
  branches,                   \* the blocks of `branches' not yet asked about
  br,                         \* the block of the branch at hand: unswitchBlock
  invariant,                  \* the DenseMap of the search at hand
  stack                       \* the calls of isInvariant, then of
                              \* moveDependencies, innermost last

code == <<succ, cond, order, instr>>
search == <<blocks, branches, br, invariant>>
unswitchVars == <<old, code, stage, search, stack>>

UnswitchInit ==
  /\ old \in LoopFunctions
  /\ succ = old.succ /\ cond = old.cond /\ order = old.order /\ instr = old.instr
  /\ stage = "collect"
  /\ blocks = old.loop /\ branches = << >> /\ br = None
  /\ invariant = [v \in {} |-> TRUE]
  /\ stack = << >>

LoopBlocks == ToSet(old.loop)
InLoop(i) == \E b \in LoopBlocks : i \in ToSet(order[b])

\* What I->operands() may list; a phi has its values in any order.
OperandLists(x) ==
  IF x.op = "phi" THEN {[k \in DOMAIN o |-> x.args[o[k]]] :
                          o \in Bijection(1..Cardinality(DOMAIN x.args), DOMAIN x.args)}
  ELSE {x.args}

\* L.getLoopPreheader(): the one block that enters the loop, if it goes nowhere
\* else.
PreheaderOf(g) ==
  LET outside == {b \in Given \ ToSet(g.loop) : g.loop[1] \in ToSet(g.succ[b])}
      alone == {b \in outside : outside = {b} /\ Len(g.succ[b]) = 1}
  IN  IF alone = {} THEN None ELSE CHOOSE b \in alone : TRUE

preheader == PreheaderOf(old)

------------------------------------------------------------------------------
(* Finding a branch *)

Collect ==
  /\ stage = "collect" /\ blocks # << >>
  /\ branches' = IF Head(blocks) \in old.switches THEN branches
                 ELSE Append(branches, Head(blocks))
  /\ blocks' = Tail(blocks)
  /\ UNCHANGED <<old, code, stage, br, invariant, stack>>

StartAsking ==
  /\ stage = "collect" /\ blocks = << >>
  /\ stage' = "ask"
  /\ UNCHANGED <<old, code, search, stack>>

Frames(v) == {[value |-> v, left |-> s] : s \in OperandLists(instr[v])}

\* The definitions named X_... are X with a slip; the specification does not
\* use them.
AtFirst_True(v) == TRUE

\* What the map says of v while it is searched; an argument or a constant, which
\* no loop defines, needs no search.
AtFirst(v) == v \in Args

Opened(v, calls) == IF v \in Args THEN {calls} ELSE {Append(calls, r) : r \in Frames(v)}

SkipBranch ==
  /\ stage = "ask" /\ stack = << >> /\ br = None
  /\ branches # << >> /\ cond[Head(branches)] = None
  /\ branches' = Tail(branches)
  /\ UNCHANGED <<old, code, stage, blocks, br, invariant, stack>>

\* Blocks are operands of a branch as well; they are neither instructions nor
\* defined in the loop, so only the condition is asked about, with a new map.
AskBranch ==
  /\ stage = "ask" /\ stack = << >> /\ br = None
  /\ branches # << >> /\ cond[Head(branches)] # None
  /\ br' = Head(branches) /\ branches' = Tail(branches)
  /\ LET v == cond[Head(branches)]
     IN  invariant' = [w \in {v} |-> AtFirst(v)] /\ stack' \in Opened(v, << >>)
  /\ UNCHANGED <<old, code, stage, blocks>>

Top == Last(stack)

AskOperand ==
  /\ stage = "ask" /\ stack # << >> /\ Top.left # << >>
  /\ LET v == Head(Top.left)
     IN  /\ v \notin DOMAIN invariant
         /\ invariant' = [w \in {v} \cup DOMAIN invariant |-> IF w = v THEN AtFirst(v)
                                                              ELSE invariant[w]]
         /\ stack' \in Opened(v, stack)
  /\ UNCHANGED <<old, code, stage, blocks, branches, br>>

OperandIsInvariant ==
  /\ stage = "ask" /\ stack # << >> /\ Top.left # << >>
  /\ Head(Top.left) \in DOMAIN invariant /\ invariant[Head(Top.left)]
  /\ stack' = Append(Front(stack), [Top EXCEPT !.left = Tail(Top.left)])
  /\ UNCHANGED <<old, code, stage, search>>

\* The loop over the operands breaks.
OperandVaries ==
  /\ stage = "ask" /\ stack # << >> /\ Top.left # << >>
  /\ Head(Top.left) \in DOMAIN invariant /\ ~invariant[Head(Top.left)]
  /\ invariant' = [invariant EXCEPT ![Top.value] = FALSE]
  /\ stack' = Front(stack)
  /\ UNCHANGED <<old, code, stage, blocks, branches, br>>

AllInvariant ==
  /\ stage = "ask" /\ stack # << >> /\ Top.left = << >>
  /\ invariant' = [invariant EXCEPT ![Top.value] = TRUE]
  /\ stack' = Front(stack)
  /\ UNCHANGED <<old, code, stage, blocks, branches, br>>

BranchVaries ==
  /\ stage = "ask" /\ stack = << >> /\ br # None /\ ~invariant[cond[br]]
  /\ br' = None
  /\ UNCHANGED <<old, code, stage, blocks, branches, invariant, stack>>

\* No branch is invariant, or the loop has no preheader.
LeaveLoop ==
  /\ stage = "ask" /\ stack = << >>
  /\ \/ br = None /\ branches = << >>
     \/ br # None /\ invariant[cond[br]] /\ preheader = None
  /\ stage' = "returned"
  /\ UNCHANGED <<old, code, search, stack>>

------------------------------------------------------------------------------
(* Moving the branch *)

trueBlock == old.succ[br][1]
falseBlock == old.succ[br][2]

Renamed(x, from, to) ==
  IF x.op = "phi" /\ from \in DOMAIN x.args
  THEN [x EXCEPT !.args = [b \in (DOMAIN x.args \ {from}) \cup {to} |->
                             x.args[IF b = to THEN from ELSE b]]]
  ELSE x

\* splitBasicBlock takes the branch to a block of its own, and the phis of both
\* targets name that block from then on.
Split ==
  /\ stage = "ask" /\ stack = << >> /\ br # None
  /\ invariant[cond[br]] /\ preheader # None
  /\ succ' = [succ EXCEPT ![ifElseHeader] = succ[br], ![br] = << ifElseHeader >>]
  /\ cond' = [cond EXCEPT ![ifElseHeader] = cond[br], ![br] = None]
  /\ instr' = [i \in Instrs |->
                 IF \E b \in {trueBlock, falseBlock} : i \in ToSet(order[b])
                 THEN Renamed(instr[i], br, ifElseHeader) ELSE instr[i]]
  /\ stack' = << [value |-> None, left |-> << cond[br] >>] >>
  /\ stage' = "move"
  /\ UNCHANGED <<old, order, search>>

InFront(i, b) ==
  [c \in Blocks |-> IF c = b THEN <<i>> \o Remove(order[c], i) ELSE Remove(order[c], i)]

Dropped == Append(Front(stack), [Top EXCEPT !.left = Tail(Top.left)])

MoveDependency_NotItsOwn ==
  /\ stage = "move" /\ stack # << >> /\ Top.left # << >> /\ InLoop(Head(Top.left))
  /\ order' = InFront(Head(Top.left), ifElseHeader)
  /\ stack' = Dropped
  /\ UNCHANGED <<old, succ, cond, instr, stage, search>>

\* insOp->moveBefore(&ifElseHeader->front()) and the call for its operands.
MoveDependency ==
  /\ stage = "move" /\ stack # << >> /\ Top.left # << >> /\ InLoop(Head(Top.left))
  /\ order' = InFront(Head(Top.left), ifElseHeader)
  /\ \E r \in Frames(Head(Top.left)) : stack' = Append(Dropped, r)
  /\ UNCHANGED <<old, succ, cond, instr, stage, search>>

KeepDependency ==
  /\ stage = "move" /\ stack # << >> /\ Top.left # << >> /\ ~InLoop(Head(Top.left))
  /\ stack' = Dropped
  /\ UNCHANGED <<old, code, stage, search>>

DependenciesMoved ==
  /\ stage = "move" /\ stack # << >> /\ Top.left = << >>
  /\ stack' = Front(stack)
  /\ stage' = IF stack' = << >> THEN "phis" ELSE "move"
  /\ UNCHANGED <<old, code, search>>

IsPhi(i) == instr[i].op = "phi"

\* Each phi goes to the front, so the last one ends up first.
MovePhis ==
  /\ stage = "phis"
  /\ order' = [order EXCEPT
                 ![preheader] = SelectSeq(@, LAMBDA i : ~IsPhi(i)),
                 ![ifElseHeader] = Reverse(SelectSeq(order[preheader], IsPhi)) \o @]
  /\ stage' = "retarget"
  /\ UNCHANGED <<old, succ, cond, instr, search, stack>>

\* dyn_cast<BranchInst> leaves switches as they are.
Retarget ==
  /\ stage = "retarget"
  /\ succ' = [p \in Blocks |-> [k \in DOMAIN succ[p] |->
                IF p \notin old.switches /\ succ[p][k] = preheader THEN ifElseHeader
                ELSE succ[p][k]]]
  /\ stage' = "clone"
  /\ UNCHANGED <<old, cond, order, instr, search, stack>>

------------------------------------------------------------------------------
(* Cloning the loop *)

Cloned == LoopBlocks \cup {preheader}

ClonedInstrs == UNION {ToSet(order[b]) : b \in Cloned}

\* The clones still use what the originals use.
Clone ==
  /\ stage = "clone"
  /\ succ' = [b \in Blocks |-> IF b - NB \in Cloned THEN succ[b - NB] ELSE succ[b]]
  /\ cond' = [b \in Blocks |-> IF b - NB \in Cloned THEN cond[b - NB] ELSE cond[b]]
  /\ order' = [b \in Blocks |-> IF b - NB \in Cloned
                                THEN [k \in DOMAIN order[b - NB] |-> order[b - NB][k] + N]
                                ELSE order[b]]
  /\ instr' = [i \in Instrs |-> IF i - N \in ClonedInstrs THEN instr[i - N] ELSE instr[i]]
  /\ stage' = "redirect"
  /\ UNCHANGED <<old, search, stack>>

\* valueMap, for blocks and for values.  What it does not have, a value of another
\* part of the function, RemapInstruction leaves alone in a build without
\* assertions, which this is; line 213 does not pass RF_IgnoreMissingLocals, so an
\* LLVM built with assertions stops here.
BlockMap(b) == IF b \in Cloned THEN b + NB ELSE b
ValueMap(v) == IF v \in ClonedInstrs THEN v + N ELSE v

Remapped_KeepBlocks(x) ==
  [x EXCEPT !.args = [k \in DOMAIN x.args |-> ValueMap(x.args[k])]]

Remapped(x) ==
  IF x.op = "phi"
  THEN [x EXCEPT !.args = [b \in {BlockMap(p) : p \in DOMAIN x.args} |->
                             ValueMap(x.args[IF b \in Blocks /\ b - NB \in Cloned THEN b - NB
                                             ELSE b])]]
  ELSE [x EXCEPT !.args = [k \in DOMAIN x.args |-> ValueMap(x.args[k])]]

\* The branch chooses between the preheaders, the loop keeps its true block and
\* the clone its false block; then the clones are remapped.
Redirect ==
  /\ stage = "redirect"
  /\ succ' = [b \in Blocks |->
                CASE b = ifElseHeader -> << preheader, preheader + NB >>
                  [] b = br -> << trueBlock >>
                  [] b = br + NB -> << BlockMap(falseBlock) >>
                  [] b # br + NB /\ b - NB \in Cloned ->
                       [k \in DOMAIN succ[b] |-> BlockMap(succ[b][k])]
                  [] OTHER -> succ[b]]
  /\ cond' = [b \in Blocks |-> IF b - NB \in Cloned THEN ValueMap(cond[b]) ELSE cond[b]]
  /\ instr' = [i \in Instrs |-> IF i - N \in ClonedInstrs THEN Remapped(instr[i]) ELSE instr[i]]
  /\ stage' = "returned"
  /\ UNCHANGED <<old, order, search, stack>>

Returned == stage = "returned" /\ UNCHANGED unswitchVars

UnswitchRun ==
  \/ Collect \/ StartAsking
  \/ SkipBranch \/ AskBranch \/ AskOperand \/ OperandIsInvariant \/ OperandVaries
  \/ AllInvariant \/ BranchVaries \/ LeaveLoop
  \/ Split \/ MoveDependency \/ KeepDependency \/ DependenciesMoved
  \/ MovePhis \/ Retarget \/ Clone \/ Redirect

UnswitchNext == UnswitchRun \/ Returned

\* The pass is one thread that nothing blocks.
UnswitchSpec == UnswitchInit /\ [][UnswitchNext]_unswitchVars /\ WF_unswitchVars(UnswitchRun)

------------------------------------------------------------------------------
(* What the pass is for *)

unswitched == stage = "returned" /\ br # None /\ succ # old.succ

Final == [succ |-> succ, cond |-> cond, order |-> order, instr |-> instr]

\* One instruction that is no phi is executed: t.env has the values defined so
\* far, and the calls are what can be seen.
Executed(c, t, i) ==
  LET x == c.instr[i]
      a == [k \in DOMAIN x.args |-> t.env[x.args[k]]]
      value == CASE x.op = "add" -> a[1] + a[2]
                 [] x.op = "lt" -> IF a[1] < a[2] THEN 1 ELSE 0
                 [] x.op = "call" -> Len(t.calls)
  IN  IF \E k \in DOMAIN x.args : x.args[k] \notin DOMAIN t.env THEN [t EXCEPT !.at = None]
      ELSE [t EXCEPT !.env = (i :> value) @@ @,
                     !.calls = IF x.op = "call"
                               THEN Append(@, <<IF i > N THEN i - N ELSE i, a[1]>>) ELSE @]

\* t.at is executed, entered from t.from; t.at becomes None where the function
\* returns, and where it uses what is not defined.
BlockExecuted(c, t) ==
  LET o == c.order[t.at]
      phis == {i \in ToSet(o) : c.instr[i].op = "phi"}
      Taken(i) == c.instr[i].args[t.from]
      lost == \E i \in phis : \/ t.from \notin DOMAIN c.instr[i].args
                              \/ Taken(i) \notin DOMAIN t.env
      entered == [t EXCEPT !.env = [i \in phis |-> t.env[Taken(i)]] @@ @]
      done == FoldLeft(LAMBDA u, i : IF u.at = None THEN u ELSE Executed(c, u, i),
                       entered, SelectSeq(o, LAMBDA i : i \notin phis))
      next == c.succ[t.at]
  IN  IF lost THEN [t EXCEPT !.at = None]
      ELSE IF done.at = None \/ next = << >> THEN [done EXCEPT !.at = None]
      ELSE IF c.cond[t.at] = None THEN [done EXCEPT !.at = next[1], !.from = t.at]
      ELSE IF c.cond[t.at] \notin DOMAIN done.env THEN [done EXCEPT !.at = None]
      ELSE [done EXCEPT !.at = next[IF done.env[c.cond[t.at]] # 0 THEN 1 ELSE 2],
                        !.from = t.at]

\* The calls made in the first n blocks, with what they are given.
Calls(c, env, n) ==
  FoldLeft(LAMBDA t, k : IF t.at = None THEN t ELSE BlockExecuted(c, t),
           [at |-> Entry, from |-> None, env |-> env, calls |-> << >>],
           [k \in 1..n |-> k]).calls

\* The instructions of the loop that the condition of the branch is computed
\* from, and itself.
Dependencies ==
  LET inLoop == UNION {ToSet(old.order[b]) : b \in LoopBlocks}
      Used(S) == {i \in inLoop : i = old.cond[br] \/ \E d \in S : i \in Range(old.instr[d].args)}
  IN  FoldLeft(LAMBDA S, k : Used(S), {}, [k \in 1..N |-> k])

PhisIn(bs) == {i \in UNION {ToSet(old.order[b]) : b \in bs} : old.instr[i].op = "phi"}

\* What the search takes for invariant is more than what can be moved: the
\* condition must be computed from arguments and from instructions that give
\* the same value every time, each used for one of them only.
ComputedInFront ==
  LET D == Dependencies
      here == ToSet(old.order[preheader]) \ PhisIn({preheader})
      used == {old.cond[br]} \cup UNION {Range(old.instr[d].args) : d \in D}
  IN  /\ \A d \in D : old.instr[d].op \notin {"phi", "call"}
      /\ \A i, j \in D : \A v \in D :
           v \in Range(old.instr[i].args) /\ v \in Range(old.instr[j].args) => i = j
      /\ used \cap here = {}

\* The graph can take the new blocks: the preheader is entered by branches, no
\* phi is in a target of the branch or takes a value from the loop outside of
\* it, and what the preheader computes is used in the loop only.
RoomInGraph ==
  LET outside == Given \ Cloned
      entering == {p \in Given : preheader \in ToSet(old.succ[p])}
      computed == ToSet(old.order[preheader]) \ PhisIn({preheader})
      later == UNION {ToSet(old.order[b]) : b \in outside}
  IN  /\ entering # {} /\ entering \cap old.switches = {}
      /\ PhisIn({trueBlock, falseBlock}) = {}
      /\ \A i \in PhisIn(outside) : DOMAIN old.instr[i].args \cap LoopBlocks = {}
      /\ \A i \in later : Range(old.instr[i].args) \cap computed = {}

Supported == ComputedInFront /\ RoomInGraph

------------------------------------------------------------------------------
(* Properties *)

Untouched ==
  succ = old.succ /\ cond = old.cond /\ order = old.order /\ instr = old.instr

OfLoop == {i \in 1..N : \E b \in LoopBlocks : i \in ToSet(old.order[b])}

\* What is no phi and no call gives the same for the same operands.
Computes(i) == old.instr[i].op \notin {"phi", "call"}

\* v is known to be invariant: it is an argument, or in the least set that has
\* each instruction whose operands it has, phis and calls of the loop left out.
Steady(v) ==
  \A S \in SUBSET (1..N) :
    (\A i \in 1..N :
       (i \notin OfLoop \/ Computes(i)) /\ Range(old.instr[i].args) \cap 1..N \subseteq S => i \in S)
      => v \in Args \cup S

\* v goes round with the loop: it is in a set of instructions of the loop each
\* of which has an operand in the set.
Varies(v) ==
  \E S \in SUBSET OfLoop : v \in S /\ \A i \in S : S \cap Range(old.instr[i].args) # {}

IsConditional(b) == b \notin old.switches /\ old.cond[b] # None

\* `Discover loop invariant branches' (line 25), where the head of the file and
\* the search agree on what is invariant.  The search goes through operands that
\* may depend on each other, with a break and a map; yet no branch is unswitched
\* whose condition goes round with the loop, nor one behind a branch whose
\* condition is known to be invariant; and without a preheader, or if no branch
\* is unswitched, the function is left as it is.  Conditions in between, on calls
\* or on phis of constants, are left open here: UnswitchesInvariantsOnly.
UnswitchesFirst ==
  stage = "returned" =>
    \/ /\ Untouched
       /\ \/ preheader = None
          \/ \A b \in LoopBlocks : IsConditional(b) => ~Steady(old.cond[b])
    \/ /\ preheader # None /\ succ[ifElseHeader] = << preheader, preheader + NB >>
       /\ \E k \in 1..Len(old.loop) :
            /\ br = old.loop[k] /\ IsConditional(br) /\ ~Varies(old.cond[br])
            /\ \A n \in 1..(k - 1) :
                 IsConditional(old.loop[n]) => ~Steady(old.cond[old.loop[n]])

\* v has one value in all turns of the loop: it is from outside of the loop, or
\* computed from such values.
SameEachTurn(v) ==
  \A S \in SUBSET OfLoop :
    (\A i \in OfLoop :
       Computes(i) /\ Range(old.instr[i].args) \cap OfLoop \subseteq S => i \in S)
      => v \notin OfLoop \ S

\* `If cond is loop invariant' (line 1) and `all of the branch instructions
\* dependencies are loop invariant' (lines 143-145; not-unswitchable.ll tests
\* `that we don't unswitch on non-invariant branches'): no other is unswitched.
UnswitchesInvariantsOnly == unswitched => SameEachTurn(old.cond[br])

\* SameCalls without its condition.
CallsKept ==
  unswitched =>
    \A env \in Environments : Calls(Final, env, Fuel + 1) = Calls(old, env, Fuel)

\* The figure at the head of the file: whatever the arguments are, the function
\* makes the calls it made, in the order it made them and with the same values.
SameCalls == unswitched /\ Supported => CallsKept

\* The blocks that are reached without d.
ReachedWithout(d) ==
  FoldLeft(LAMBDA R, k : (R \cup UNION {ToSet(succ[p]) : p \in R}) \ {d},
           {Entry} \ {d}, [k \in 1..Cardinality(Blocks) |-> k])

\* After the move and the cloning a definition dominates each of its uses,
\* conditions included.
DefinitionsDominateUses ==
  LET reached == ReachedWithout(None)
      Without == [d \in Blocks |-> ReachedWithout(d)]
      AtEnd(v, b) == \E d \in Blocks : v \in ToSet(order[d]) /\ (b = d \/ b \notin Without[d])
      Before(v, i, b) ==
        \/ \E k \in 1..Len(order[b]) : order[b][k] = i /\ v \in ToSet(SubSeq(order[b], 1, k - 1))
        \/ v \notin ToSet(order[b]) /\ AtEnd(v, b)
  IN  \A b \in reached :
        /\ cond[b] \in Instrs => AtEnd(cond[b], b)
        /\ \A i \in ToSet(order[b]) : \A k \in DOMAIN instr[i].args :
             instr[i].args[k] \in Instrs =>
               IF IsPhi(i) THEN k \in reached => AtEnd(instr[i].args[k], k)
               ELSE Before(instr[i].args[k], i, b)

\* The phis of every block lead it, and have a value for each of its
\* predecessors and for no other block.
PhisListPredecessors ==
  \A b \in Blocks : \A k \in 1..Len(order[b]) :
    IsPhi(order[b][k]) =>
      /\ \A n \in 1..(k - 1) : IsPhi(order[b][n])
      /\ DOMAIN instr[order[b][k]].args = {p \in Blocks : b \in ToSet(succ[p])}

\* `This is safe, because all of the branch instructions dependencies are loop
\* invariant' (lines 143-145), `It's important to keep preheaders' (178) and
\* `remap cloned blocks' values' (210): moving, cloning and remapping one after
\* the other end in SSA form again, in both loops and in front of them.
StaysInSSAForm ==
  unswitched /\ Supported => DefinitionsDominateUses /\ PhisListPredecessors

==============================================================================
