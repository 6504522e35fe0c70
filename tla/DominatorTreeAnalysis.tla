------------------------ MODULE DominatorTreeAnalysis ------------------------
(****************************************************************************)
(* lib/Analysis/DominatorTreeAnalysis.cpp: the `simple' dominator algorithm *)
(* of DominatorTreeAnalysis::run, in its three phases.                      *)
(*                                                                          *)
(*   "dominators"  getDominators: rounds over the non-entry blocks until a  *)
(*                 round changes nothing                                    *)
(*   "immediate"   getImmediateDominators: erase from the strict dominators *)
(*                 of each block every j that another one, i, has as its    *)
(*                 dominator                                                *)
(*   "build"       addDominatorTreeChildren, one step per recursive call    *)
(*   "done"        run has returned                                         *)
(*                                                                          *)
(* The sets are DenseSets of pointers, so the order in which a round visits *)
(* the blocks and in which i runs over a set is not known to the program:   *)
(* it is a choice here.                                                     *)
(****************************************************************************)
EXTENDS ControlFlow, Integers, Sequences

CONSTANT Graphs   \* the graphs of the functions the analysis is run on

ASSUME GraphsAssumption == Graphs \subseteq CFGs

VARIABLES
  succ,        \* the graph of F; no step changes it
  phase,       \* which function of the analysis runs
  dominators,  \* dominators[b]: the blocks currently held to dominate b
  change,      \* this round has changed some dominators[b]
  todo,        \* blocks this round has still to visit
  idoms,       \* immediateDominators
  pending,     \* pending[b]: the i that the erase loop of b has still to visit
  tree         \* tree nodes, each the path of blocks from the root to it

vars == <<succ, phase, dominators, change, todo, idoms, pending, tree>>

Init ==
  /\ succ \in Graphs
  /\ phase = "dominators"
  /\ dominators = [b \in Blocks |-> IF b = Entry THEN {Entry} ELSE Blocks]
  /\ change = FALSE
  /\ todo = NonEntry
  /\ idoms = [b \in Blocks |-> {}]
  /\ pending = [b \in Blocks |-> {}]
  /\ tree = {}

------------------------------------------------------------------------------
(* getDominators *)

\* The meet over the predecessors; all blocks when there are none.
NewDominators(b) ==
  {b} \cup {d \in Blocks : \A p \in Preds(succ, b) : d \in dominators[p]}

VisitBlock(b) ==
  /\ phase = "dominators" /\ b \in todo
  /\ dominators' = [dominators EXCEPT ![b] = NewDominators(b)]
  /\ change' = (change \/ NewDominators(b) # dominators[b])
  /\ todo' = todo \ {b}
  /\ UNCHANGED <<succ, phase, idoms, pending, tree>>

NextRound ==
  /\ phase = "dominators" /\ todo = {} /\ change
  /\ change' = FALSE
  /\ todo' = NonEntry
  /\ UNCHANGED <<succ, phase, dominators, idoms, pending, tree>>

\* The definitions named X_... are X with a slip a change of the code could
\* make; the specification does not use them.
FinishDominators_KeepSelf ==
  /\ phase = "dominators" /\ todo = {} /\ ~change
  /\ phase' = "immediate"
  /\ idoms' = dominators
  /\ pending' = [b \in Blocks |-> IF b = Entry THEN {} ELSE dominators[b]]
  /\ UNCHANGED <<succ, dominators, change, todo, tree>>

FinishDominators_OneRound ==
  /\ phase = "dominators" /\ todo = {}
  /\ phase' = "immediate"
  /\ idoms' = [b \in Blocks |-> dominators[b] \ {b}]
  /\ pending' = [b \in Blocks |-> IF b = Entry THEN {} ELSE dominators[b] \ {b}]
  /\ UNCHANGED <<succ, dominators, change, todo, tree>>

\* A round without a change ends getDominators; getImmediateDominators starts
\* from the strict dominators, and leaves the entry block alone.
FinishDominators ==
  /\ phase = "dominators" /\ todo = {} /\ ~change
  /\ phase' = "immediate"
  /\ idoms' = [b \in Blocks |-> dominators[b] \ {b}]
  /\ pending' = [b \in Blocks |-> IF b = Entry THEN {} ELSE dominators[b] \ {b}]
  /\ UNCHANGED <<succ, dominators, change, todo, tree>>

------------------------------------------------------------------------------
(* getImmediateDominators *)

Erased_FromPruned(b, i) == {j \in idoms[b] : j # i /\ j \in idoms[i]}

\* What the inner loop over j erases for one i.
Erased(b, i) == {j \in idoms[b] : j # i /\ j \in dominators[i]}

\* One turn of the outer loop.  An i that an earlier turn has erased is
\* skipped, as the iterator skips it.
PruneWith(b, i) ==
  /\ phase = "immediate" /\ i \in pending[b] \cap idoms[b]
  /\ idoms' = [idoms EXCEPT ![b] = @ \ Erased(b, i)]
  /\ pending' = [pending EXCEPT ![b] = @ \ {i}]
  /\ UNCHANGED <<succ, phase, dominators, change, todo, tree>>

FinishImmediate ==
  /\ phase = "immediate"
  /\ \A b \in Blocks : pending[b] \cap idoms[b] = {}
  /\ phase' = "build"
  /\ tree' = {<<Entry>>}
  /\ UNCHANGED <<succ, dominators, change, todo, idoms, pending>>

------------------------------------------------------------------------------
(* addDominatorTreeChildren *)

\* b belongs under the node p and has no node there yet.
ChildMissing(p, b) == p[Len(p)] \in idoms[b] /\ Append(p, b) \notin tree

AddChild(p, b) ==
  /\ phase = "build" /\ p \in tree
  /\ ChildMissing(p, b)
  /\ tree' = tree \cup {Append(p, b)}
  /\ UNCHANGED <<succ, phase, dominators, change, todo, idoms, pending>>

FinishTree ==
  /\ phase = "build"
  /\ \A p \in tree, b \in Blocks : ~ChildMissing(p, b)
  /\ phase' = "done"
  /\ UNCHANGED <<succ, dominators, change, todo, idoms, pending, tree>>

Returned == phase = "done" /\ UNCHANGED vars

Run ==
  \/ \E b \in NonEntry : VisitBlock(b)
  \/ NextRound
  \/ FinishDominators
  \/ \E b, i \in Blocks : PruneWith(b, i)
  \/ FinishImmediate
  \/ \E p \in tree, b \in Blocks : AddChild(p, b)
  \/ FinishTree

Next == Run \/ Returned

\* The analysis is one thread that nothing blocks.
Spec == Init /\ [][Next]_vars /\ WF_vars(Run)

------------------------------------------------------------------------------
(* Properties *)

\* Every variable is in range, and a block is in its own dominator set in
\* every state: lines 50 and 65 insert it.
TypeOK ==
  /\ succ \in CFGs
  /\ phase \in {"dominators", "immediate", "build", "done"}
  /\ dominators \in [Blocks -> SUBSET Blocks]
  /\ \A b \in Blocks : b \in dominators[b]
  /\ change \in BOOLEAN
  /\ todo \subseteq NonEntry
  /\ idoms \in [Blocks -> SUBSET Blocks]
  /\ pending \in [Blocks -> SUBSET Blocks]
  /\ tree \subseteq Seq(Blocks)

\* The iteration comes down from above: whatever the order of the visits, no
\* step of getDominators drops a block that really dominates.
NeverTooFew == \A e \in Dominance(succ) : e[1] \in dominators[e[2]]

\* When getDominators returns, its sets are the dominators of the graph:
\* every path from the entry to b meets exactly these blocks.
DominatorsExact ==
  phase # "dominators" =>
    Dominance(succ) = {e \in Blocks \X Blocks : e[1] \in dominators[e[2]]}

\* The erase loops of getImmediateDominators, which shrink the set they run
\* over, leave exactly the immediate dominator of every reachable block.
ImmediateExact ==
  phase \in {"build", "done"} =>
    LET E == IDomEdges(succ)
    IN  \A b \in Reachable(succ) \ {Entry} :
          \E i \in Blocks : /\ idoms[b] = {i}
                            /\ \A j \in Blocks : <<j, b>> \in E <=> j = i

\* The recursion of addDominatorTreeChildren is bounded: no path through the
\* tree meets a block twice, whatever the unreachable part of the graph is.
NoRepeatOnPath ==
  \A p \in tree : \A j, k \in 1..Len(p) : p[j] = p[k] => j = k

Contract ==
  INSTANCE DominatorTreeContract WITH
    answered <- phase = "done",
    answer <- IF phase = "done"
              THEN {e \in Blocks \X Blocks :
                      \E p \in tree : /\ Len(p) > 1
                                      /\ e = <<p[Len(p) - 1], p[Len(p)]>>}
              ELSE {}

\* The analysis keeps the promise the passes that use it rely on.
ImplementsContract == Contract!Spec

==============================================================================
