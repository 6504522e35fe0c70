---------------------------- MODULE CriticalEdges ----------------------------
(****************************************************************************)
(* lib/Optimizations/GVNPRE.cpp, removeCriticalEdges: put a block in        *)
(* between the two ends of each edge whose source has other successors and  *)
(* whose target has other predecessors.                                     *)
(*                                                                          *)
(* predecessors(&BB) runs over the list of the uses of BB.  Creating the    *)
(* branch of the new block puts a use in front of that list; setSuccessor   *)
(* takes the use the iterator stands on out of it and makes it the only one *)
(* in the list of the new block, so that the iterator is at an end.         *)
(*                                                                          *)
(* An edge in between is split at most once, and its new block goes by the  *)
(* name of the edge: [from, to, new].  Blocks whose branch has one target   *)
(* twice are left out.                                                      *)
(****************************************************************************)
EXTENDS ControlFlow, Integers, SequencesExt

CONSTANT Functions   \* the functions the pass is run on

\* The use of block `to' by the terminator of block `from', or by the branch of
\* the block that was put in between.
Use(p, b) == [from |-> p, to |-> b, new |-> FALSE]
NewUse(p, b) == [from |-> p, to |-> b, new |-> TRUE]
Uses == [from : Blocks, to : Blocks, new : BOOLEAN]

\* A function: its graph, the blocks whose terminator is no BranchInst, its
\* layout, which has every block once, and the use list of each block.
WellFormed(f) ==
  /\ f.succ \in CFGs
  /\ f.switches \subseteq Blocks
  /\ f.layout \in Seq(Blocks)
  /\ ToSet(f.layout) = Blocks /\ Len(f.layout) = Cardinality(Blocks)
  /\ f.uses \in [Blocks -> Seq(Uses)]
  /\ \A b \in Blocks :
       /\ ToSet(f.uses[b]) = {Use(p, b) : p \in Preds(f.succ, b)}
       /\ Len(f.uses[b]) = Cardinality(Preds(f.succ, b))

ASSUME FunctionsAssumption == \A f \in Functions : WellFormed(f)

VARIABLES
  f,        \* the function as it was
  phase,    \* "blocks" is the outer loop, "predecessors" the inner one
  succ,     \* succ[b]: the uses that the terminator of b makes; a new block is
            \* the target of the use its edge had
  uses,     \* the use list of each block
  phiFrom,  \* the blocks that the phis of each block list, as uses of it
  rest,     \* blocks the outer loop has not come to
  BB,       \* the block it is at
  iter      \* what the predecessor iterator has in front of it

vars == <<f, phase, succ, uses, phiFrom, rest, BB, iter>>

Init ==
  /\ f \in Functions
  /\ phase = "blocks"
  /\ succ = [b \in Blocks |-> {Use(b, c) : c \in f.succ[b]}]
  /\ uses = f.uses
  /\ phiFrom = [b \in Blocks |-> ToSet(f.uses[b])]
  /\ rest = f.layout
  /\ BB = Entry /\ iter = << >>

SkipBlock ==
  /\ phase = "blocks" /\ rest # << >> /\ Len(uses[Head(rest)]) <= 1
  /\ rest' = Tail(rest)
  /\ UNCHANGED <<f, phase, succ, uses, phiFrom, BB, iter>>

EnterBlock ==
  /\ phase = "blocks" /\ rest # << >> /\ Len(uses[Head(rest)]) > 1
  /\ phase' = "predecessors"
  /\ BB' = Head(rest)
  /\ iter' = uses[Head(rest)]
  /\ rest' = Tail(rest)
  /\ UNCHANGED <<f, succ, uses, phiFrom>>

\* The definitions named X_... are X with a slip; the specification does not
\* use them.
OneSuccessor_Never(p) == FALSE

\* succ_size(pred) <= 1; a split edge still counts.
OneSuccessor(p) == Cardinality(succ[p]) <= 1

SkipPredecessor ==
  /\ phase = "predecessors" /\ iter # << >> /\ OneSuccessor(Head(iter).from)
  /\ iter' = Tail(iter)
  /\ UNCHANGED <<f, phase, succ, uses, phiFrom, rest, BB>>

PhisOf_Kept(p) == phiFrom[BB]

\* replacePhiUsesWith(pred, inBetween).
PhisOf(p) == (phiFrom[BB] \ {Use(p, BB)}) \cup {NewUse(p, BB)}

Retarget_Dropped(p) == succ[p] \ {Use(p, BB)}

\* setSuccessor: the edge of pred now leads to the new block.
Retarget(p) == (succ[p] \ {Use(p, BB)}) \cup {NewUse(p, BB)}

\* Where in the list of BB the use is that the iterator stands on.
Here == Len(uses[BB]) - Len(iter) + 1

SplitEdge ==
  /\ phase = "predecessors" /\ iter # << >>
  /\ LET p == Head(iter).from
     IN  /\ ~OneSuccessor(p)
         /\ phiFrom' = [phiFrom EXCEPT ![BB] = PhisOf(p)]
         /\ IF p \in f.switches
            THEN /\ uses' = [uses EXCEPT ![BB] = <<NewUse(p, BB)>> \o @]
                 /\ iter' = Tail(iter)
                 /\ UNCHANGED succ
            ELSE /\ uses' = [uses EXCEPT ![BB] =
                               <<NewUse(p, BB)>> \o RemoveAt(@, Here)]
                 /\ iter' = << >>
                 /\ succ' = [succ EXCEPT ![p] = Retarget(p)]
  /\ UNCHANGED <<f, phase, rest, BB>>

NextBlock_Again ==
  /\ phase = "predecessors" /\ iter = << >>
  /\ phase' = "blocks"
  /\ rest' = IF BB \in f.succ[BB] THEN <<BB>> \o rest ELSE rest
  /\ UNCHANGED <<f, succ, uses, phiFrom, BB, iter>>

NextBlock ==
  /\ phase = "predecessors" /\ iter = << >>
  /\ phase' = "blocks"
  /\ UNCHANGED <<f, succ, uses, phiFrom, rest, BB, iter>>

\* The new blocks are at the end of the layout, with one predecessor each or,
\* behind a switch, none: the outer loop passes over them.
Return ==
  /\ phase = "blocks" /\ rest = << >>
  /\ phase' = "returned"
  /\ UNCHANGED <<f, succ, uses, phiFrom, rest, BB, iter>>

Returned == phase = "returned" /\ UNCHANGED vars

Run ==
  \/ SkipBlock
  \/ EnterBlock
  \/ SkipPredecessor
  \/ SplitEdge
  \/ NextBlock
  \/ Return

Next == Run \/ Returned

\* The pass is one thread that nothing blocks.
Spec == Init /\ [][Next]_vars /\ WF_vars(Run)

------------------------------------------------------------------------------
(* Properties *)

\* Control goes where it went, through the new blocks or not, whichever edges
\* were split and in whichever order.
EdgesPreserved ==
  \A p \in Blocks : {u.to : u \in succ[p]} = f.succ[p] /\ \A u \in succ[p] : u.from = p

\* The edges of the present graph that lead to block b, by their sources.
EdgesTo(b) == {u \in Uses : u.to = b /\ u \in succ[u.from]}

BehindSwitch(b) == Preds(f.succ, b) \cap f.switches # {}

\* A phi lists the blocks its block now has as predecessors and no other, and
\* the use list has them too, where branches lead to it.
PhisListPredecessors ==
  \A b \in Blocks : ~BehindSwitch(b) => phiFrom[b] = EdgesTo(b) /\ phiFrom[b] = ToSet(uses[b])

CriticalIn(s, b) ==
  {p \in Preds(s, b) : Cardinality(s[p]) > 1 /\ Cardinality(Preds(s, b)) > 1}

\* The critical edges left: an edge through a new block is none.
CriticalNow(b) == {p \in CriticalIn(f.succ, b) : Use(p, b) \in succ[p]}

\* `This function removes critical edges' (lines 10-11), as far as it holds of
\* every function: however the use lists are ordered, each block that critical
\* edges lead to by branches loses at least one, a lone one thereby, no new one
\* arises, and no edge is split that was not critical.  That none is left is
\* NoCriticalEdges.
SplitsCriticalEdges ==
  phase = "returned" =>
    \A b \in Blocks :
      LET before == CriticalIn(f.succ, b)
      IN  /\ ~BehindSwitch(b) =>
               /\ CriticalNow(b) \subseteq before
               /\ before # {} => CriticalNow(b) # before
          /\ \A p \in Blocks \ before : NewUse(p, b) \notin phiFrom[b] \cup ToSet(uses[b])

\* `This function removes critical edges' (lines 10-11): none is left.
NoCriticalEdges ==
  phase = "returned" =>
    \A b \in Blocks : ~BehindSwitch(b) => CriticalNow(b) = {}

\* The loop over a use list that the loop itself changes comes to an end.
Returns == <>(phase = "returned")

==============================================================================
