----------------- MODULE SparseConditionalConstantPropagation -----------------
(****************************************************************************)
(* lib/Optimizations/SparseConditionalConstantPropagation.cpp: visit blocks *)
(* from the entry on, fold adds of constants, turn branches on constants    *)
(* into jumps, and delete the blocks that were never visited.               *)
(*                                                                          *)
(*   "idle" -> "visit" -> "fold" -> ... -> "delete" -> "clean" -> ...       *)
(*                                                   -> "returned" -> "idle"*)
(*                                                                          *)
(* BBExecutable is a member of the pass object that no line clears.         *)
(* Deleting a block looks at blocks and phis that may be freed already; the *)
(* phase "undefined" is where such a look ends if it does not go unnoticed. *)
(* The member `constants' is never filled, so lines 73-80 do nothing.       *)
(*                                                                          *)
(* A function is a record: order, the layout of its blocks; targets[b], the *)
(* successors of b; cond[b], the condition of its branch, 0 where it has    *)
(* none; add[i] and phi[p], the block and the operands of instructions; and *)
(* live, the instructions that are in place.                                *)
(****************************************************************************)
EXTENDS ControlFlow, Integers, SequencesExt

CONSTANTS
  Width,            \* bits of an integer
  Adds, Phis, Args, \* instructions, and values known only when the program runs
  Functions,        \* the functions the pass is run on
  ReusesAddresses   \* a function may be visited that has blocks visited before

Consts == 0..(2 ^ Width - 1)
Values == Consts \cup Adds \cup Phis \cup Args

AddCodes == [block : Blocks, lhs : Values, rhs : Values]
PhiCodes == [block : Blocks, values : [Blocks -> Values], from : SUBSET Blocks]

Codes ==
  [order : Seq(Blocks), targets : [Blocks -> Seq(NonEntry)],
   cond : [Blocks -> Values], add : [Adds -> AddCodes], phi : [Phis -> PhiCodes],
   live : SUBSET (Adds \cup Phis)]

Succ(c) == [b \in Blocks |-> ToSet(c.targets[b])]

DefBlock(c, v) == IF v \in Adds THEN c.add[v].block ELSE c.phi[v].block

\* What LLVM's verifier asks of a function: D is its dominance relation.  A phi
\* takes its value at the end of a predecessor, and any use may stand in a block
\* that is not reached.
Defined(c, D, v, b) ==
  v \in Adds \cup Phis => v \in c.live /\ <<DefBlock(c, v), b>> \in D

WellFormed(c) ==
  LET D == Dominance(Succ(c))
  IN  /\ Entry \in ToSet(c.order)
      /\ \A b \in ToSet(c.order) :
           ToSet(c.targets[b]) \subseteq ToSet(c.order) /\ Defined(c, D, c.cond[b], b)
      /\ \A i \in Adds \cap c.live :
           LET b == c.add[i].block
           IN  /\ b \in ToSet(c.order)
               /\ \A v \in {c.add[i].lhs, c.add[i].rhs} :
                    /\ Defined(c, D, v, b)
                    /\ v \in Adds /\ DefBlock(c, v) = b =>
                         v < i \/ b \notin Reachable(Succ(c))
      /\ \A p \in Phis \cap c.live :
           LET b == c.phi[p].block
           IN  /\ b \in ToSet(c.order)
               /\ c.phi[p].from = {q \in ToSet(c.order) : b \in ToSet(c.targets[q])}
               /\ \A q \in c.phi[p].from : Defined(c, D, c.phi[p].values[q], q)

\* The second part is there for the provers, which do not know `^'.
ASSUME WidthAssumption == Width \in Nat \ {0} /\ 2 ^ Width \in Nat \ {0}
ASSUME NamesAssumption ==
  Adds \subseteq Int /\ Adds \cap Phis = {} /\ (Adds \cup Phis) \cap Consts = {}
ASSUME FunctionsAssumption == Functions \subseteq Codes
ASSUME WellFormedAssumption == \A c \in Functions : WellFormed(c)
ASSUME ReuseAssumption == ReusesAddresses \in BOOLEAN

VARIABLES
  given,         \* the function as run gets it
  code,          \* the function now
  phase,
  BBExecutable,  \* member BBExecutable
  BBWorkList,    \* member BBWorkList, last element first out
  block,         \* the block being visited or deleted
  todo,          \* its instructions, or phis of its successors, still to look at
  rest           \* successors of block to look at yet, or blocks that the
                 \* deleting loop has not come to

vars == <<given, code, phase, BBExecutable, BBWorkList, block, todo, rest>>

NoCode ==
  [order |-> << >>, targets |-> [b \in Blocks |-> << >>],
   cond |-> [b \in Blocks |-> 0],
   add |-> [i \in Adds |-> [block |-> Entry, lhs |-> 0, rhs |-> 0]],
   phi |-> [p \in Phis |-> [block |-> Entry, values |-> [b \in Blocks |-> 0], from |-> {}]],
   live |-> {}]

Init ==
  /\ given = NoCode /\ code = NoCode /\ phase = "idle"
  /\ BBExecutable = {} /\ BBWorkList = << >>
  /\ block = Entry /\ todo = {} /\ rest = << >>

\* The definitions named X_... are X with a slip; the specification does not
\* use them.
Substituted_KeepUses(c, v, w) == [c EXCEPT !.live = @ \ {v}]

\* replaceAllUsesWith(v -> w), and erasing v.
Substituted(c, v, w) ==
  LET New(x) == IF x = v THEN w ELSE x
  IN  [c EXCEPT
         !.cond = [b \in Blocks |-> New(c.cond[b])],
         !.add = [i \in Adds |-> [c.add[i] EXCEPT !.lhs = New(@), !.rhs = New(@)]],
         !.phi = [p \in Phis |->
                    [c.phi[p] EXCEPT !.values = [b \in Blocks |-> New(@[b])]]],
         !.live = @ \ {v}]

------------------------------------------------------------------------------
(* Visiting *)

Begin ==
  /\ phase = "idle"
  /\ phase' = "visit"
  /\ \E c \in Functions :
       /\ ReusesAddresses \/ ToSet(c.order) \cap BBExecutable = {}
       /\ given' = c /\ code' = c
  /\ BBWorkList' = Append(BBWorkList, Entry)
  /\ UNCHANGED <<BBExecutable, block, todo, rest>>

\* pop_back_val.
Visit ==
  /\ phase = "visit" /\ rest = << >> /\ BBWorkList # << >>
  /\ phase' = "fold"
  /\ block' = Last(BBWorkList)
  /\ BBWorkList' = Front(BBWorkList)
  /\ BBExecutable' = BBExecutable \cup {block'}
  /\ todo' = {i \in Adds \cap code.live : code.add[i].block = block'}
  /\ UNCHANGED <<given, code, rest>>

IsNext_Last(i) == i \in todo /\ \A j \in todo : i >= j

\* The instructions of a block are numbered in their order.
IsNext(i) == i \in todo /\ \A j \in todo : i <= j

Foldable(i) == {code.add[i].lhs, code.add[i].rhs} \subseteq Consts

WrappedSum_NoWrap(i) == code.add[i].lhs + code.add[i].rhs

WrappedSum(i) == (code.add[i].lhs + code.add[i].rhs) % 2 ^ Width

Fold(i) ==
  /\ phase = "fold" /\ IsNext(i)
  /\ code' = IF Foldable(i) THEN Substituted(code, i, WrappedSum(i)) ELSE code
  /\ todo' = todo \ {i}
  /\ UNCHANGED <<given, phase, BBExecutable, BBWorkList, block, rest>>

IsConditional(b) == Len(code.targets[b]) = 2

\* getSuccessor(getBoolValue()): 0 is the first successor, the one of `true'.
Chosen(b) == code.targets[b][IF code.cond[b] # 0 THEN 2 ELSE 1]

\* The terminator of the block: a branch on a constant becomes a jump, and only
\* its target is pushed; otherwise the loop over the successors starts.
ToSuccessors_PushAll ==
  /\ phase = "fold" /\ todo = {}
  /\ phase' = "visit"
  /\ code' = IF IsConditional(block) /\ code.cond[block] \in Consts
             THEN [code EXCEPT !.targets[block] = <<Chosen(block)>>, !.cond[block] = 0]
             ELSE code
  /\ rest' = code.targets[block]
  /\ UNCHANGED <<given, BBExecutable, BBWorkList, block, todo>>

ToSuccessors ==
  /\ phase = "fold" /\ todo = {}
  /\ phase' = "visit"
  /\ IF IsConditional(block) /\ code.cond[block] \in Consts
     THEN /\ BBWorkList' = Append(BBWorkList, Chosen(block))
          /\ code' = [code EXCEPT !.targets[block] = <<Chosen(block)>>, !.cond[block] = 0]
          /\ UNCHANGED rest
     ELSE /\ rest' = code.targets[block]
          /\ UNCHANGED <<code, BBWorkList>>
  /\ UNCHANGED <<given, BBExecutable, block, todo>>

NotVisited_Always(b) == TRUE

NotVisited(b) == b \notin BBExecutable

PushSuccessor ==
  /\ phase = "visit" /\ rest # << >>
  /\ BBWorkList' = IF NotVisited(Head(rest)) THEN Append(BBWorkList, Head(rest))
                   ELSE BBWorkList
  /\ rest' = Tail(rest)
  /\ UNCHANGED <<given, code, phase, BBExecutable, block, todo>>

StartDelete ==
  /\ phase = "visit" /\ rest = << >> /\ BBWorkList = << >>
  /\ phase' = "delete"
  /\ rest' = code.order
  /\ UNCHANGED <<given, code, BBExecutable, BBWorkList, block, todo>>

------------------------------------------------------------------------------
(* Deleting *)

Present == ToSet(code.order)

KeepBlock ==
  /\ phase = "delete" /\ rest # << >> /\ Head(rest) \in BBExecutable
  /\ rest' = Tail(rest)
  /\ UNCHANGED <<given, code, phase, BBExecutable, BBWorkList, block, todo>>

DropBlock_SkipPhis ==
  /\ phase = "delete" /\ rest # << >> /\ Head(rest) \notin BBExecutable
  /\ phase' = "clean"
  /\ block' = Head(rest)
  /\ rest' = Tail(rest)
  /\ todo' = {}
  /\ UNCHANGED <<given, code, BBExecutable, BBWorkList>>

\* The block at the front goes; first the phis of its successors are edited.
DropBlock ==
  /\ phase = "delete" /\ rest # << >> /\ Head(rest) \notin BBExecutable
  /\ phase' = "clean"
  /\ block' = Head(rest)
  /\ rest' = Tail(rest)
  /\ todo' = {p \in Phis \cap code.live :
                code.phi[p].block \in ToSet(code.targets[block']) \cap Present}
  /\ UNCHANGED <<given, code, BBExecutable, BBWorkList>>

\* removeIncomingValue; with one value left the phi is that value.
CleanPhi(p) ==
  LET left == code.phi[p].from \ {block}
      edited == [code EXCEPT !.phi[p].from = left]
  IN  /\ phase = "clean" /\ p \in todo
      /\ todo' = todo \ {p}
      /\ \/ /\ Cardinality(left) > 1
            /\ code' = edited
         \/ \E b \in left : /\ left = {b}
                            /\ code.phi[p].values[b] # p
                            /\ code' = Substituted(edited, p, code.phi[p].values[b])
      /\ UNCHANGED <<given, phase, BBExecutable, BBWorkList, block, rest>>

\* A phi whose only value goes is freed by removeIncomingValue and then asked
\* how many values it has; one that is left with itself is replaced by itself.
LosePhi(p) ==
  LET left == code.phi[p].from \ {block}
  IN  /\ phase = "clean" /\ p \in todo
      /\ left = {} \/ \E b \in left : left = {b} /\ code.phi[p].values[b] = p
      /\ phase' = "undefined"
      /\ UNCHANGED <<given, code, BBExecutable, BBWorkList, block, todo, rest>>

\* The phis of a successor that was deleted before are read from freed memory,
\* which DropBlock passes over and this step does not.
ReadFreed ==
  /\ phase = "clean"
  /\ ToSet(code.targets[block]) \ Present # {}
  /\ phase' = "undefined"
  /\ UNCHANGED <<given, code, BBExecutable, BBWorkList, block, todo, rest>>

\* BB->eraseFromParent(), instructions included; rest is what comes after BB.
EraseBlock ==
  /\ phase = "clean" /\ todo = {}
  /\ phase' = "delete"
  /\ code' = [code EXCEPT
                !.order = RemoveAt(@, Len(@) - Len(rest)),
                !.live = @ \ ({i \in Adds : code.add[i].block = block}
                              \cup {p \in Phis : code.phi[p].block = block})]
  /\ UNCHANGED <<given, BBExecutable, BBWorkList, block, todo, rest>>

Return ==
  /\ phase = "delete" /\ rest = << >>
  /\ phase' = "returned"
  /\ UNCHANGED <<given, code, BBExecutable, BBWorkList, block, todo, rest>>

\* The pass manager is done with the function; the pass object stays.
Leave ==
  /\ phase = "returned"
  /\ phase' = "idle"
  /\ given' = NoCode /\ code' = NoCode /\ block' = Entry
  /\ UNCHANGED <<BBExecutable, BBWorkList, todo, rest>>

Stopped == phase \in {"idle", "undefined"} /\ UNCHANGED vars

Run ==
  \/ Visit
  \/ \E i \in todo \cap Adds : Fold(i)
  \/ ToSuccessors
  \/ PushSuccessor
  \/ StartDelete
  \/ KeepBlock
  \/ DropBlock
  \/ \E p \in todo \cap Phis : CleanPhi(p)
  \/ \E p \in todo \cap Phis : LosePhi(p)
  \/ ReadFreed
  \/ EraseBlock
  \/ Return

Next == Begin \/ Run \/ Leave \/ Stopped

\* The pass is one thread that nothing blocks; nobody has to call it.
Spec == Init /\ [][Next]_vars /\ WF_vars(Run)

------------------------------------------------------------------------------
(* Properties *)

\* Every variable is in range, integers within their width, and nothing is left
\* to do when no run is on.
TypeOK ==
  /\ code \in Codes
  /\ phase \in {"idle", "visit", "fold", "delete", "clean", "returned", "undefined"}
  /\ BBExecutable \subseteq Blocks
  /\ BBWorkList \in Seq(Blocks)
  /\ block \in Blocks
  /\ todo \subseteq Adds \cup Phis
  /\ rest \in Seq(Blocks)
  /\ phase \in {"idle", "returned"} => BBWorkList = << >> /\ todo = {} /\ rest = << >>

\* The blocks visited are those the entry reaches in the function as it has
\* become, jumps in the place of branches: the worklist loses none, and visits
\* none by a branch that is gone.  When run returns nothing else is left, so no
\* terminator names a deleted block.
ExecutableIsReachable ==
  phase \in {"delete", "clean", "returned"} =>
    LET R == Reachable(Succ(code))
    IN  /\ BBExecutable \cap ToSet(given.order) = R
        /\ phase = "returned" => Present = R

\* One visit of each block is enough: when the deleting starts no add of
\* constants is left in an executable block and no branch on a constant, since
\* a block is visited after the blocks that dominate it.
FoldsEverything ==
  phase = "delete" /\ code.order = given.order =>
    /\ \A i \in Adds \cap code.live :
         code.add[i].block \in BBExecutable => ~Foldable(i)
    /\ \A b \in BBExecutable \cap Present :
         IsConditional(b) => code.cond[b] \notin Consts

\* Whatever an instruction or a branch that is left uses is left as well.
UsesStayDefined ==
  phase = "returned" =>
    LET InPlace(v) == v \in Adds \cup Phis => v \in code.live
    IN  /\ \A i \in Adds \cap code.live :
             InPlace(code.add[i].lhs) /\ InPlace(code.add[i].rhs)
        /\ \A p \in Phis \cap code.live :
             \A b \in code.phi[p].from : InPlace(code.phi[p].values[b])
        /\ \A b \in Present : InPlace(code.cond[b])

\* A phi that is left has a value for each predecessor its block still has.
\* The values beyond those, which make the function malformed, are for blocks
\* whose branch to it became a jump elsewhere: lines 60-61 do not tell the phis.
PhisCoverPredecessors ==
  phase = "returned" =>
    \A p \in Phis \cap code.live :
      LET b == code.phi[p].block
          preds == {q \in Present : b \in ToSet(code.targets[q])}
      IN  /\ preds \subseteq code.phi[p].from
          /\ \A q \in code.phi[p].from \ preds :
               q \in Present /\ code.targets[q] # given.targets[q]

\* What each instruction computes when it is a constant, NotConst otherwise.
NotConst == 2 ^ Width
Constant ==
  LET value[v \in Values] ==
        IF v \in Consts THEN v
        ELSE IF v \in Adds
             THEN LET l == value[given.add[v].lhs]
                      r == value[given.add[v].rhs]
                  IN  IF l = NotConst \/ r = NotConst THEN NotConst
                      ELSE (l + r) % 2 ^ Width
             ELSE NotConst
  IN  value

\* The successors control may take, `br' going to the first when its condition
\* is true.
TakenSucc ==
  [b \in Blocks |->
     LET c == Constant[given.cond[b]]
     IN  IF Len(given.targets[b]) # 2 \/ c = NotConst THEN ToSet(given.targets[b])
         ELSE {given.targets[b][IF c # 0 THEN 1 ELSE 2]}]

\* `Also removes unexecutable basic blocks' (lines 2-3): those, and no others.
RemovesOnlyUnexecutable == phase = "returned" => Reachable(TakenSucc) \subseteq Present

\* `For each successor phi, remove the incoming value from BB' (lines 82-83):
\* the successors whose phis are edited exist.
SuccessorsExist == phase = "clean" => ToSet(code.targets[block]) \subseteq Present

\* The loops of run end, unless a look at freed memory ends everything.
Returns == phase = "visit" ~> phase \in {"returned", "undefined"}

==============================================================================
