---------------------- MODULE DominatorsAndTailCallsProofs ----------------------
(****************************************************************************)
(* Two passes that stand alone: the dominator analysis the plugin registers *)
(* and TailRecursionElimination.                                            *)
(*                                                                          *)
(* DominatorTreeAnalysis computes dominators and immediate dominators, for  *)
(* every graph and every order in which its hash sets are walked.           *)
(*                                                                          *)
(* TailRecursionElimination, with any number of parameters, values of any   *)
(* range and every well-formed function: the loop that it makes computes    *)
(* what the recursion did, and of a row of allocas the first is moved.      *)
(****************************************************************************)
EXTENDS DominatorTreeAnalysis, TailRecursionElimination, DominanceTheorems,
        SequenceTheorems

\* The entry block keeps the set it starts with.
EntryAlone == dominators[Entry] = {Entry}

\* What a round without a change has established so far, and what is left of it
\* when the loop has ended: the sets solve the data-flow equations.
Settled ==
  /\ phase = "dominators" /\ ~change =>
       \A b \in NonEntry \ todo : dominators[b] = NewDominators(b)
  /\ phase # "dominators" =>
       \A b \in NonEntry : dominators[b] = NewDominators(b)

\* The inductive invariant of getDominators.
DominatorsInv == TypeOK /\ NeverTooFew /\ EntryAlone /\ Settled

\* The state of the erase loops for a block b: something is left, what
\* is gone dominates something that is left, and an i the loop is done with has
\* none of its dominators beside it.
Pruned(b) ==
  /\ idoms[b] # {}
  /\ idoms[b] \subseteq dominators[b] \ {b}
  /\ \A j \in (dominators[b] \ {b}) \ idoms[b] :
       \E i \in idoms[b] : j \in dominators[i]
  /\ \A i \in idoms[b] \ pending[b] :
       \A j \in idoms[b] : j # i => j \notin dominators[i]

\* The inductive invariant of getImmediateDominators, relative to DominatorsInv.
ImmediateInv ==
  /\ phase # "dominators" => \A b \in NonEntry : Pruned(b)
  /\ phase # "dominators" => idoms[Entry] = {}
  /\ phase \in {"build", "done"} =>
       \A b \in Blocks : pending[b] \cap idoms[b] = {}

------------------------------------------------------------------------------
LEMMA InitDominators == Init => DominatorsInv
<1> SUFFICES ASSUME Init PROVE DominatorsInv
  OBVIOUS
<1> USE EntryAssumption, GraphsAssumption DEF Init
<1>1. TypeOK
  BY DEF TypeOK, NonEntry
<1>2. ASSUME NEW e \in Dominance(succ)
      PROVE  e[1] \in dominators[e[2]]
  <2>1. e \in Blocks \X Blocks /\ e = <<e[1], e[2]>> /\ succ \in CFGs
    BY DominancePairs
  <2>2. e[2] = Entry => e[1] = Entry
    BY <2>1, OnlyEntryDominatesEntry
  <2>3. QED
    BY <2>1, <2>2
<1>3. EntryAlone /\ Settled
  BY DEF EntryAlone, Settled
<1>4. QED
  BY <1>1, <1>2, <1>3 DEF DominatorsInv, NeverTooFew

\* A visit keeps every real dominator: one of b other than b dominates each
\* predecessor of b, whose set therefore holds it.
LEMMA VisitKeepsDominators ==
  ASSUME TypeOK, NeverTooFew, NEW b \in NonEntry,
         NEW d \in Blocks, <<d, b>> \in Dominance(succ)
  PROVE  d \in NewDominators(b)
<1>1. b \in Blocks /\ succ \in CFGs
  BY DEF NonEntry, TypeOK
<1>2. ASSUME NEW p \in Preds(succ, b), d # b
      PROVE  d \in dominators[p]
  <2>1. <<d, p>> \in Dominance(succ)
    BY <1>1, <1>2, DominatesPredecessor
  <2>2. QED
    BY <2>1 DEF NeverTooFew
<1>3. QED
  BY <1>2 DEF NewDominators

LEMMA VisitDominators ==
  ASSUME DominatorsInv, NEW b \in NonEntry, VisitBlock(b)
  PROVE  DominatorsInv'
<1> USE DEF DominatorsInv, VisitBlock
<1>0. b \in Blocks /\ b # Entry /\ NewDominators(b) \subseteq Blocks
      /\ b \in NewDominators(b)
  BY DEF NonEntry, NewDominators
<1>1. TypeOK'
  BY <1>0 DEF TypeOK
<1>2. ASSUME NEW e \in Dominance(succ)
      PROVE  e[1] \in dominators'[e[2]]
  <2>1. e \in Blocks \X Blocks /\ e = <<e[1], e[2]>>
    BY DominancePairs DEF TypeOK
  <2>2. CASE e[2] = b
    BY <2>1, <2>2, VisitKeepsDominators DEF TypeOK
  <2>3. CASE e[2] # b
    BY <2>1, <2>3 DEF TypeOK, NeverTooFew
  <2>4. QED
    BY <2>2, <2>3
<1>3. NeverTooFew'
  BY <1>2 DEF NeverTooFew
<1>4. EntryAlone'
  BY <1>0 DEF EntryAlone, TypeOK
<1>5. Settled'
  <2>1. SUFFICES ASSUME ~change'
                 PROVE  \A c \in NonEntry \ todo' :
                          dominators'[c] = NewDominators(c)'
    BY DEF Settled
  <2>2. ~change /\ dominators[b] = NewDominators(b)
    BY <2>1 DEF TypeOK
  <2>3. dominators' = dominators
    BY <2>2 DEF TypeOK
  <2>4. \A c : NewDominators(c)' = NewDominators(c)
    BY <2>3 DEF NewDominators, Preds
  <2>5. QED
    BY <2>2, <2>3, <2>4 DEF Settled
<1>6. QED
  BY <1>1, <1>3, <1>4, <1>5

\* The steps that leave the sets and the round alone, all those after
\* getDominators among them.
LEMMA SameDominators ==
  ASSUME DominatorsInv, TypeOK', UNCHANGED <<succ, dominators>>, Settled'
  PROVE  DominatorsInv'
BY DEF DominatorsInv, NeverTooFew, EntryAlone

LEMMA LaterKeepsSettled ==
  ASSUME Settled, UNCHANGED <<succ, dominators>>,
         phase # "dominators", phase' # "dominators"
  PROVE  Settled'
BY DEF Settled, NewDominators, Preds

LEMMA NextDominators == DominatorsInv /\ [Next]_vars => DominatorsInv'
<1> SUFFICES ASSUME DominatorsInv, [Next]_vars PROVE DominatorsInv'
  OBVIOUS
<1>0. TypeOK /\ Settled
  BY DEF DominatorsInv
<1>1. ASSUME NEW b \in NonEntry, VisitBlock(b)
      PROVE  DominatorsInv'
  BY <1>1, VisitDominators
<1>2. CASE NextRound
  <2>1. TypeOK'
    BY <1>0, <1>2 DEF NextRound, TypeOK
  <2>2. Settled'
    BY <1>0, <1>2 DEF NextRound, Settled
  <2>3. QED
    BY <1>2, <2>1, <2>2, SameDominators DEF NextRound
<1>3. CASE FinishDominators
  <2>1. TypeOK'
    BY <1>0, <1>3 DEF FinishDominators, TypeOK
  <2>2. Settled'
    BY <1>0, <1>3 DEF FinishDominators, Settled, NewDominators, Preds
  <2>3. QED
    BY <1>3, <2>1, <2>2, SameDominators DEF FinishDominators
<1>4. ASSUME NEW b \in Blocks, NEW i \in Blocks, PruneWith(b, i)
      PROVE  DominatorsInv'
  <2>1. TypeOK'
    BY <1>0, <1>4 DEF PruneWith, TypeOK
  <2>2. QED
    BY <1>0, <1>4, <2>1, LaterKeepsSettled, SameDominators DEF PruneWith
<1>5. CASE FinishImmediate
  <2>1. TypeOK'
    BY <1>0, <1>5, EntryAssumption DEF FinishImmediate, TypeOK
  <2>2. QED
    BY <1>0, <1>5, <2>1, LaterKeepsSettled, SameDominators DEF FinishImmediate
<1>6. ASSUME NEW p \in tree, NEW b \in Blocks, AddChild(p, b)
      PROVE  DominatorsInv'
  <2>1. TypeOK'
    BY <1>0, <1>6 DEF AddChild, TypeOK
  <2>2. QED
    BY <1>0, <1>6, <2>1, LaterKeepsSettled, SameDominators DEF AddChild
<1>7. CASE FinishTree
  <2>1. TypeOK'
    BY <1>0, <1>7 DEF FinishTree, TypeOK
  <2>2. QED
    BY <1>0, <1>7, <2>1, LaterKeepsSettled, SameDominators DEF FinishTree
<1>8. CASE UNCHANGED vars
  <2>1. TypeOK' /\ Settled'
    BY <1>0, <1>8 DEF vars, TypeOK, Settled, NewDominators, Preds
  <2>2. QED
    BY <1>8, <2>1, SameDominators DEF vars
<1>9. QED
  BY <1>1, <1>2, <1>3, <1>4, <1>5, <1>6, <1>7, <1>8 DEF Next, Run, Returned

------------------------------------------------------------------------------
\* A solution of the equations below the starting point is exact: the blocks
\* whose set misses d are closed under every edge but those into d.
LEMMA SolutionIsExact == DominatorsInv => DominatorsExact
<1> SUFFICES ASSUME DominatorsInv, phase # "dominators"
             PROVE  Dominance(succ) =
                      {e \in Blocks \X Blocks : e[1] \in dominators[e[2]]}
  BY DEF DominatorsExact
<1> USE DEF DominatorsInv
<1>1. succ \in CFGs
  BY DEF TypeOK
<1>2. ASSUME NEW d \in Blocks, NEW b \in Blocks, d \in dominators[b]
      PROVE  <<d, b>> \in Dominance(succ)
  <2> DEFINE T == {x \in Blocks : d \notin dominators[x]}
  <2>1. Entry # d => Entry \in T
    BY EntryAssumption DEF EntryAlone
  <2>2. ASSUME NEW p \in T, NEW c \in succ[p], c # d
        PROVE  c \in T
    <3>1. c \in NonEntry /\ c \in Blocks /\ p \in Preds(succ, c)
      BY <1>1 DEF CFGs, NonEntry, Preds
    <3>2. dominators[c] = NewDominators(c)
      BY <3>1 DEF Settled
    <3>3. QED
      BY <2>2, <3>1, <3>2 DEF NewDominators
  <2>3. T \in ClosedAvoiding(succ, d)
    BY <2>1, <2>2 DEF ClosedAvoiding
  <2>4. b \notin ReachAvoiding(succ, d)
    BY <1>1, <1>2, <2>3, ReachAvoidingLeast
  <2>5. QED
    BY <1>1, <2>4, DominanceMeaning
<1>3. ASSUME NEW e \in Dominance(succ)
      PROVE  e \in Blocks \X Blocks /\ e[1] \in dominators[e[2]]
  BY <1>1, DominancePairs DEF NeverTooFew
<1>4. ASSUME NEW e \in Blocks \X Blocks, e[1] \in dominators[e[2]]
      PROVE  e \in Dominance(succ)
  BY <1>2, <1>4
<1>5. QED
  BY <1>3, <1>4

\* Every variable keeps its type, and every dominator set holds its block.
THEOREM TypeCorrect == Spec => []TypeOK
<1>1. DominatorsInv => TypeOK
  BY DEF DominatorsInv
<1>2. QED
  BY <1>1, InitDominators, NextDominators, PTL DEF Spec

\* No step of getDominators drops a real dominator, whatever the visiting order.
THEOREM NeverDropsADominator == Spec => []NeverTooFew
<1>1. DominatorsInv => NeverTooFew
  BY DEF DominatorsInv
<1>2. QED
  BY <1>1, InitDominators, NextDominators, PTL DEF Spec

\* What getDominators returns is dominance, exactly.
THEOREM ComputesDominators == Spec => []DominatorsExact
BY InitDominators, NextDominators, SolutionIsExact, PTL DEF Spec

------------------------------------------------------------------------------
\* What getDominators returns, as facts about single blocks.
LEMMA DominatorsMean ==
  ASSUME DominatorsExact, phase # "dominators",
         NEW d \in Blocks, NEW b \in Blocks
  PROVE  d \in dominators[b] <=> <<d, b>> \in Dominance(succ)
BY DEF DominatorsExact

\* The strict dominators of a block meet the invariant of the erase
\* loops before the first turn: the entry block is one of them.
LEMMA StartPruned ==
  ASSUME DominatorsInv, DominatorsInv', FinishDominators
  PROVE  ImmediateInv'
<1>1. phase' = "immediate" /\ succ' = succ /\ dominators' = dominators
  BY DEF FinishDominators
<1>2. ASSUME NEW b \in NonEntry
      PROVE  Pruned(b)'
  <2>1. succ \in CFGs /\ b \in Blocks /\ b # Entry
    BY DEF DominatorsInv, TypeOK, NonEntry
  <2>2. idoms'[b] = dominators[b] \ {b} /\ pending'[b] = dominators[b] \ {b}
    BY <2>1 DEF FinishDominators
  <2>3. Entry \in dominators[b]
    BY <2>1, EntryDominatesAll, EntryAssumption DEF DominatorsInv, NeverTooFew
  <2>4. QED
    BY <1>1, <2>1, <2>2, <2>3 DEF Pruned
<1>3. idoms'[Entry] = {}
  BY EntryAssumption DEF FinishDominators, DominatorsInv, EntryAlone
<1>4. QED
  BY <1>1, <1>2, <1>3 DEF ImmediateInv

\* One turn of the erase loop.  An erased j that was the witness of another
\* block hands that duty to i, by transitivity.
LEMMA PrunePruned ==
  ASSUME DominatorsInv, ImmediateInv,
         NEW b \in Blocks, NEW i \in Blocks, PruneWith(b, i)
  PROVE  ImmediateInv'
<1> USE DEF PruneWith
<1>1. TypeOK /\ succ \in CFGs /\ DominatorsExact
  BY SolutionIsExact DEF DominatorsInv, TypeOK
<1>2. idoms'[b] = idoms[b] \ Erased(b, i) /\ pending'[b] = pending[b] \ {i}
      /\ i \in idoms[b]
  BY <1>1 DEF TypeOK
<1>3. \A c \in Blocks \ {b} : idoms'[c] = idoms[c] /\ pending'[c] = pending[c]
  BY <1>1 DEF TypeOK
<1>4. ASSUME NEW c \in NonEntry
      PROVE  Pruned(c)'
  <2>1. c \in Blocks /\ Pruned(c)
    BY <1>4 DEF ImmediateInv, NonEntry
  <2>2. CASE c # b
    BY <1>3, <2>1, <2>2 DEF Pruned
  <2>3. CASE c = b
    <3>1. i \in idoms'[b]
      BY <1>2 DEF Erased
    <3>2. idoms'[b] \subseteq dominators[b] \ {b}
      BY <1>2, <2>1, <2>3 DEF Pruned
    <3>3. ASSUME NEW j \in (dominators[b] \ {b}) \ idoms'[b]
          PROVE  \E k \in idoms'[b] : j \in dominators[k]
      <4>1. CASE j \in Erased(b, i)
        BY <3>1, <4>1 DEF Erased
      <4>2. CASE j \notin Erased(b, i)
        <5>1. PICK k \in idoms[b] : j \in dominators[k]
          BY <1>2, <2>1, <2>3, <4>2 DEF Pruned
        <5>2. CASE k \in Erased(b, i)
          <6>1. j \in Blocks /\ k \in Blocks /\ k \in dominators[i]
            BY <1>1, <5>2 DEF Erased, TypeOK
          <6>2. j \in dominators[i]
            BY <1>1, <5>1, <6>1, DominatorsMean, DominanceTransitive
          <6>3. QED
            BY <3>1, <6>2
        <5>3. CASE k \notin Erased(b, i)
          BY <1>2, <5>1, <5>3
        <5>4. QED
          BY <5>2, <5>3
      <4>3. QED
        BY <4>1, <4>2
    <3>4. ASSUME NEW k \in idoms'[b] \ pending'[b], NEW j \in idoms'[b], j # k
          PROVE  j \notin dominators[k]
      BY <1>2, <2>1, <2>3, <3>4 DEF Pruned, Erased
    <3>5. QED
      BY <2>3, <3>1, <3>2, <3>3, <3>4 DEF Pruned
  <2>4. QED
    BY <2>2, <2>3
<1>5. idoms'[Entry] = {}
  BY <1>2, <1>3, EntryAssumption DEF ImmediateInv
<1>6. QED
  BY <1>4, <1>5 DEF ImmediateInv

LEMMA NextImmediate ==
  DominatorsInv /\ DominatorsInv' /\ ImmediateInv /\ [Next]_vars => ImmediateInv'
<1> SUFFICES ASSUME DominatorsInv, DominatorsInv', ImmediateInv, [Next]_vars
             PROVE  ImmediateInv'
  OBVIOUS
<1>1. ASSUME NEW b \in NonEntry, VisitBlock(b)
      PROVE  ImmediateInv'
  BY <1>1 DEF VisitBlock, ImmediateInv
<1>2. CASE NextRound
  BY <1>2 DEF NextRound, ImmediateInv
<1>3. CASE FinishDominators
  BY <1>3, StartPruned
<1>4. ASSUME NEW b \in Blocks, NEW i \in Blocks, PruneWith(b, i)
      PROVE  ImmediateInv'
  BY <1>4, PrunePruned
<1>5. CASE FinishImmediate
  BY <1>5 DEF FinishImmediate, ImmediateInv, Pruned
<1>6. ASSUME NEW p \in tree, NEW b \in Blocks, AddChild(p, b)
      PROVE  ImmediateInv'
  BY <1>6 DEF AddChild, ImmediateInv, Pruned
<1>7. CASE FinishTree
  BY <1>7 DEF FinishTree, ImmediateInv, Pruned
<1>8. CASE UNCHANGED vars
  BY <1>8 DEF vars, ImmediateInv, Pruned
<1>9. QED
  BY <1>1, <1>2, <1>3, <1>4, <1>5, <1>6, <1>7, <1>8 DEF Next, Run, Returned

\* When the loops are done only one block is left, since of two dominators one
\* dominates the other; and every strict dominator dominates the one left.
LEMMA PrunedIsImmediate ==
  ASSUME DominatorsInv, ImmediateInv, phase \in {"build", "done"},
         NEW b \in Reachable(succ) \ {Entry}
  PROVE  \E i \in Blocks :
           /\ idoms[b] = {i}
           /\ \A j \in Blocks : <<j, b>> \in IDomEdges(succ) <=> j = i
<1>1. succ \in CFGs /\ DominatorsExact /\ b \in NonEntry /\ b \in Blocks /\ TypeOK
  BY SolutionIsExact, ReachableStep DEF DominatorsInv, TypeOK, NonEntry
<1>2. Pruned(b) /\ pending[b] \cap idoms[b] = {}
  BY <1>1 DEF ImmediateInv
<1>3. PICK i \in idoms[b] : TRUE
  BY <1>2 DEF Pruned
<1>4. i \in Blocks /\ i # b /\ i \in dominators[b] /\ <<i, b>> \in Dominance(succ)
  BY <1>1, <1>2, DominatorsMean DEF Pruned, TypeOK
<1>5. ASSUME NEW j \in idoms[b], j # i
      PROVE  FALSE
  <2>1. j \in Blocks /\ j \in dominators[b] /\ <<j, b>> \in Dominance(succ)
    BY <1>1, <1>2, DominatorsMean DEF Pruned, TypeOK
  <2>2. j \notin dominators[i] /\ i \notin dominators[j]
    BY <1>2, <1>5 DEF Pruned
  <2>3. <<i, j>> \in Dominance(succ) \/ <<j, i>> \in Dominance(succ)
    BY <1>1, <1>4, <2>1, DominatorsAreAChain
  <2>4. QED
    BY <1>1, <1>4, <2>1, <2>2, <2>3, DominatorsMean
<1>6. idoms[b] = {i}
  BY <1>5
<1>7. ASSUME NEW j \in Blocks \ {b}, <<j, b>> \in Dominance(succ)
      PROVE  <<j, i>> \in Dominance(succ)
  <2>1. j \in dominators[b] \ {b}
    BY <1>1, <1>7, DominatorsMean
  <2>2. CASE j = i
    BY <1>1, <1>4, <2>2, DominatesItself
  <2>3. CASE j # i
    <3>1. j \in dominators[i]
      BY <1>2, <1>6, <2>1, <2>3 DEF Pruned
    <3>2. QED
      BY <1>1, <1>4, <3>1, DominatorsMean
  <2>4. QED
    BY <2>2, <2>3
<1>8. <<i, b>> \in IDomEdges(succ)
  BY <1>4, <1>7 DEF IDomEdges
<1>9. ASSUME NEW j \in Blocks, <<j, b>> \in IDomEdges(succ)
      PROVE  j = i
  <2>1. /\ <<j, b>> \in Dominance(succ) /\ j # b
        /\ <<i, b>> \in Dominance(succ) => <<i, j>> \in Dominance(succ)
    BY <1>4, <1>9 DEF IDomEdges
  <2>2. <<i, j>> \in Dominance(succ) /\ <<j, i>> \in Dominance(succ)
    BY <1>4, <1>7, <2>1
  <2>3. i \in Reachable(succ)
    BY <1>1, <1>4, DominatorIsReachable
  <2>4. QED
    BY <1>1, <2>2, <2>3, DominanceAntisymmetric
<1>10. QED
  BY <1>4, <1>6, <1>8, <1>9

------------------------------------------------------------------------------
(* The tree *)

\* What the pruned sets hold of reachable blocks are the edges of the contract.
Links == {e \in Reachable(succ) \X Blocks : e[1] \in idoms[e[2]]}

\* A tree node is a path of such edges from the entry, along which each block
\* strictly dominates those behind it.
IsNode(p) ==
  /\ Len(p) >= 1 /\ p[1] = Entry
  /\ \A k \in 1..(Len(p) - 1) : <<p[k], p[k + 1]>> \in TreeEdges(succ)
  /\ \A j, k \in 1..Len(p) :
       j < k => <<p[j], p[k]>> \in Dominance(succ) /\ p[j] # p[k]

\* The recursion has a node for the entry, nothing but nodes, and misses none
\* when it ends.
TreeInv ==
  /\ phase \notin {"build", "done"} => tree = {}
  /\ phase \in {"build", "done"} => <<Entry>> \in tree /\ \A p \in tree : IsNode(p)
  /\ phase = "done" => \A p \in tree, b \in Blocks : ~ChildMissing(p, b)

\* When the erase loops are done: the sets hold strict dominators, each strict
\* dominator dominates one that is left, and none that is left another.
LEMMA PrunedMeans ==
  ASSUME DominatorsInv, ImmediateInv, phase \in {"build", "done"}, NEW b \in NonEntry
  PROVE  /\ b \in Blocks /\ succ \in CFGs
         /\ \A i \in idoms[b] : i \in Blocks /\ i # b
         /\ \A j \in Blocks \ {b} : <<j, b>> \in Dominance(succ) =>
              \E w \in idoms[b] : <<j, w>> \in Dominance(succ)
         /\ \A i, w \in idoms[b] : <<i, w>> \in Dominance(succ) => i = w
         /\ \A j \in Blocks \ {b} : j \notin idoms[b] /\ <<j, b>> \in Dominance(succ) =>
              \E w \in idoms[b] : <<j, w>> \in Dominance(succ) /\ w # j
<1>1. succ \in CFGs /\ DominatorsExact /\ b \in Blocks /\ TypeOK
  BY SolutionIsExact DEF DominatorsInv, TypeOK, NonEntry
<1>2. Pruned(b) /\ pending[b] \cap idoms[b] = {}
  BY <1>1 DEF ImmediateInv
<1>3. \A i \in idoms[b] : i \in Blocks /\ i # b
  BY <1>1, <1>2 DEF Pruned, TypeOK
<1>4. ASSUME NEW j \in Blocks \ {b}, <<j, b>> \in Dominance(succ), j \notin idoms[b]
      PROVE  \E w \in idoms[b] : <<j, w>> \in Dominance(succ) /\ w # j
  <2>1. j \in (dominators[b] \ {b}) \ idoms[b]
    BY <1>1, <1>4, DominatorsMean
  <2>2. PICK w \in idoms[b] : j \in dominators[w]
    BY <1>2, <2>1 DEF Pruned
  <2> QED
    BY <1>1, <1>3, <1>4, <2>2, DominatorsMean
<1>5. ASSUME NEW j \in Blocks \ {b}, <<j, b>> \in Dominance(succ)
      PROVE  \E w \in idoms[b] : <<j, w>> \in Dominance(succ)
  <2>1. CASE j \in idoms[b]
    BY <2>1, <1>1, DominatesItself
  <2>2. CASE j \notin idoms[b]
    BY <2>2, <1>4, <1>5
  <2> QED
    BY <2>1, <2>2
<1>6. ASSUME NEW i \in idoms[b], NEW w \in idoms[b], <<i, w>> \in Dominance(succ)
      PROVE  i = w
  <2>1. i \in dominators[w]
    BY <1>1, <1>3, <1>6, DominatorsMean
  <2> QED
    BY <2>1, <1>2 DEF Pruned
<1> QED
  BY <1>1, <1>3, <1>4, <1>5, <1>6

\* Under an unreachable block that is not alone nothing reachable is left.
LEMMA UnreachableAlone ==
  ASSUME DominatorsInv, ImmediateInv, phase \in {"build", "done"},
         NEW b \in Blocks \ Reachable(succ), NEW i \in Reachable(succ), i \in idoms[b]
  PROVE  Blocks \ Reachable(succ) = {b}
<1>1. succ \in CFGs
  BY DEF DominatorsInv, TypeOK
<1>2. b \in NonEntry /\ i \in Blocks
  BY <1>1, ReachableStep DEF NonEntry
<1>3. ASSUME NEW v \in Blocks \ Reachable(succ), v # b
      PROVE  FALSE
  <2>1. <<v, b>> \in Dominance(succ)
    BY <1>1, UnreachableIsDominatedByAll
  <2>2. PICK w \in idoms[b] : <<v, w>> \in Dominance(succ)
    BY <1>2, <1>3, <2>1, PrunedMeans
  <2>3. w \in Blocks
    BY <1>2, <2>2, PrunedMeans
  <2>4. w \notin Reachable(succ)
    BY <1>1, <1>3, <2>2, DominatorIsReachable
  <2>5. <<i, w>> \in Dominance(succ)
    BY <1>1, <1>2, <2>3, <2>4, UnreachableIsDominatedByAll
  <2> QED
    BY <1>2, <2>2, <2>4, <2>5, PrunedMeans
<1> QED
  BY <1>3

\* And what is left under one that is alone dominates nothing reachable.
LEMMA UnreachableBelowLeaf ==
  ASSUME DominatorsInv, ImmediateInv, phase \in {"build", "done"},
         NEW b \in Blocks \ Reachable(succ), NEW i \in Reachable(succ), i \in idoms[b],
         NEW k, <<i, k>> \in IDomEdges(succ)
  PROVE  FALSE
<1>1. succ \in CFGs
  BY DEF DominatorsInv, TypeOK
<1>2. b \in NonEntry /\ i \in Blocks
  BY <1>1, ReachableStep DEF NonEntry
<1>3. k \in Reachable(succ) /\ i # k /\ <<i, k>> \in Dominance(succ)
  BY DEF IDomEdges
<1>4. k \in Blocks /\ k # b /\ <<k, b>> \in Dominance(succ)
  BY <1>1, <1>3, ReachableStep, UnreachableIsDominatedByAll
<1>5. PICK w \in idoms[b] : <<k, w>> \in Dominance(succ)
  BY <1>2, <1>4, PrunedMeans
<1>6. w \in Blocks
  BY <1>2, <1>5, PrunedMeans
<1>7. <<i, w>> \in Dominance(succ)
  BY <1>1, <1>2, <1>3, <1>4, <1>5, <1>6, DominanceTransitive
<1>8. i = w
  BY <1>2, <1>5, <1>7, PrunedMeans
<1> QED
  BY <1>1, <1>2, <1>3, <1>4, <1>5, <1>8, DominanceAntisymmetric

\* What is left are the edges that the contract promises.
LEMMA LinksAreTreeEdges ==
  ASSUME DominatorsInv, ImmediateInv, phase \in {"build", "done"}
  PROVE  Links = TreeEdges(succ)
<1> DEFINE R == Reachable(succ)
           E == IDomEdges(succ)
           Special == {e \in R \X (Blocks \ R) : /\ Blocks \ R = {e[2]}
                                                 /\ \A g \in E : g[1] # e[1]}
<1>1. succ \in CFGs /\ TypeOK
  BY DEF DominatorsInv, TypeOK
<1>2. R \subseteq Blocks /\ Entry \in R
  BY <1>1, ReachableStep
<1>3. \A e \in E : e = <<e[1], e[2]>> /\ e[1] \in Blocks /\ e[2] \in R /\ e[1] # e[2] /\ e \in Dominance(succ)
  BY <1>1, DominancePairs DEF IDomEdges
<1>4. ASSUME NEW b \in R \ {Entry}, NEW i \in Blocks
      PROVE  /\ i \in idoms[b] <=> <<i, b>> \in E
             /\ i \in idoms[b] => i \in R
  <2>1. i \in idoms[b] <=> <<i, b>> \in E
    BY PrunedIsImmediate
  <2>2. <<i, b>> \in E => i \in R
    BY <1>1, <1>3, DominatorIsReachable
  <2> QED
    BY <2>1, <2>2
<1>5. ASSUME NEW b \in Blocks \ R, NEW i \in R
      PROVE  i \in idoms[b] <=> <<i, b>> \in Special
  <2>1. ASSUME i \in idoms[b]
        PROVE  <<i, b>> \in Special
    <3>1. Blocks \ R = {b}
      BY <2>1, UnreachableAlone
    <3>2. \A g \in E : g[1] # i
      BY <2>1, <1>3, UnreachableBelowLeaf
    <3> HIDE DEF R, E
    <3> QED
      BY <3>1, <3>2
  <2>2. ASSUME <<i, b>> \in Special, i \notin idoms[b]
        PROVE  FALSE
    <3>1. Blocks \ R = {b} /\ \A g \in E : g[1] # i
      BY <2>2
    <3>2. b \in NonEntry /\ i \in Blocks \ {b} /\ <<i, b>> \in Dominance(succ)
      BY <1>1, <1>2, UnreachableIsDominatedByAll DEF NonEntry
    <3>3. PICK w \in idoms[b] : <<i, w>> \in Dominance(succ) /\ w # i
      BY <2>2, <3>2, PrunedMeans
    <3>4. w \in R
      BY <3>1, <3>2, <3>3, PrunedMeans
    <3>5. PICK k \in R : <<i, k>> \in E
      BY <1>1, <3>2, <3>3, <3>4, DominatorHasChild
    <3> QED
      BY <3>1, <3>5
  <2> QED
    BY <2>1, <2>2
<1>6. idoms[Entry] = {}
  BY DEF ImmediateInv
<1>7. ASSUME NEW e \in Links
      PROVE  e \in E \cup Special
  <2>1. e = <<e[1], e[2]>> /\ e[1] \in R /\ e[2] \in Blocks /\ e[1] \in idoms[e[2]]
    BY DEF Links
  <2>2. CASE e[2] \in R
    BY <2>1, <2>2, <1>2, <1>4, <1>6
  <2>3. CASE e[2] \notin R
    <3> HIDE DEF Special, E, R
    <3> QED
      BY <2>1, <2>3, <1>5
  <2> QED
    BY <2>2, <2>3
<1>8. ASSUME NEW e \in E
      PROVE  e \in Links
  <2>1. e[2] # Entry
    BY <1>1, <1>3, OnlyEntryDominatesEntry
  <2>2. e[1] \in idoms[e[2]] /\ e[1] \in R
    BY <2>1, <1>3, <1>4
  <2> QED
    BY <2>2, <1>2, <1>3 DEF Links
<1>9. ASSUME NEW e \in Special
      PROVE  e \in Links
  <2>1. e = <<e[1], e[2]>> /\ e[1] \in R /\ e[2] \in Blocks \ R
    OBVIOUS
  <2>2. e[1] \in idoms[e[2]]
    BY <2>1, <1>5
  <2> QED
    BY <2>1, <2>2 DEF Links
<1>10. TreeEdges(succ) = E \cup Special
  BY DEF TreeEdges
<1> HIDE DEF E, Special, R
<1> QED
  BY <1>7, <1>8, <1>9, <1>10

\* An unreachable block that is alone is no one's immediate dominator.
LEMMA UnreachableHasNone ==
  ASSUME DominatorsInv, ImmediateInv, phase \in {"build", "done"},
         NEW u, Blocks \ Reachable(succ) = {u}, NEW b \in Blocks, u \in idoms[b]
  PROVE  FALSE
<1>1. succ \in CFGs
  BY DEF DominatorsInv, TypeOK
<1>2. b # Entry /\ b \in NonEntry
  BY DEF ImmediateInv, NonEntry
<1>3. u # b /\ u \in Blocks
  BY <1>2, PrunedMeans
<1>4. b \in Reachable(succ)
  BY <1>3
<1>5. <<u, b>> \in IDomEdges(succ)
  BY <1>2, <1>3, <1>4, PrunedIsImmediate
<1>6. <<u, b>> \in Dominance(succ)
  BY <1>5 DEF IDomEdges
<1>7. u \in Reachable(succ)
  BY <1>1, <1>3, <1>4, <1>6, DominatorIsReachable
<1> QED
  BY <1>7

\* A child of a node is a node: the block the path ends in is reachable, so what
\* is left of it in idoms[b] is an edge of the contract.
LEMMA ChildIsNode ==
  ASSUME DominatorsInv, ImmediateInv, TreeInv, phase \in {"build", "done"},
         NEW p \in tree, NEW b \in Blocks, p[Len(p)] \in idoms[b]
  PROVE  IsNode(Append(p, b))
<1> DEFINE n == Len(p)
           a == p[n]
           q == Append(p, b)
<1>1. succ \in CFGs /\ IsNode(p) /\ p \in Seq(Blocks)
  BY DEF DominatorsInv, TypeOK, TreeInv
<1>2. n \in Nat /\ n >= 1 /\ \A k \in 1..n : p[k] \in Blocks
  BY <1>1, LenProperties, ElementOfSeq DEF IsNode
<1>3. a \in Blocks /\ a \in idoms[b]
  BY <1>2
<1>4. a \in Reachable(succ)
  <2>1. CASE n = 1
    BY <1>1, <2>1, ReachableStep DEF IsNode
  <2>2. CASE n # 1
    <3> HIDE DEF n
    <3>0. n - 1 \in 1..(n - 1) /\ n - 1 \in 1..n /\ (n - 1) + 1 = n
      BY <1>2, <2>2
    <3>1. p[n - 1] \in Blocks
      BY <1>2, <3>0
    <3>2. <<p[n - 1], a>> \in TreeEdges(succ)
      BY <1>1, <3>0 DEF IsNode, n
    <3>3. a \in Reachable(succ) \/ Blocks \ Reachable(succ) = {a}
      BY <1>1, <3>2, TreeEdgeTarget
    <3> QED
      BY <1>3, <3>3, UnreachableHasNone
  <2> QED
    BY <2>1, <2>2
<1>5. <<a, b>> \in TreeEdges(succ)
  BY <1>4, LinksAreTreeEdges DEF Links
<1>6. <<a, b>> \in Dominance(succ) /\ a # b
  BY <1>1, <1>3, <1>5, TreeEdgesDominate
<1>7. ASSUME NEW j \in 1..n
      PROVE  <<p[j], b>> \in Dominance(succ) /\ p[j] # b
  <2>1. CASE j = n
    BY <1>6, <2>1
  <2>2. CASE j # n
    <3>1. j < n /\ n \in 1..n /\ p[j] \in Blocks
      BY <1>2, <2>2
    <3>2. <<p[j], a>> \in Dominance(succ) /\ p[j] # a
      BY <1>1, <3>1 DEF IsNode
    <3>3. <<p[j], b>> \in Dominance(succ)
      BY <1>1, <1>3, <1>6, <3>1, <3>2, DominanceTransitive
    <3>4. p[j] = b => a = b
      BY <1>1, <1>4, <1>6, <3>2, DominanceAntisymmetric
    <3> QED
      BY <1>6, <3>3, <3>4
  <2> QED
    BY <2>1, <2>2
<1>8. Len(q) = n + 1 /\ q[n + 1] = b /\ \A k \in 1..n : q[k] = p[k]
  BY <1>1, AppendProperties
<1> HIDE DEF n, q
<1>9. q[1] = Entry
  BY <1>1, <1>2, <1>8 DEF IsNode, n
<1>10. ASSUME NEW k \in 1..(Len(q) - 1)
       PROVE  <<q[k], q[k + 1]>> \in TreeEdges(succ)
  <2>1. CASE k = n
    BY <1>2, <1>5, <1>8, <2>1
  <2>2. CASE k # n
    <3>1. k \in 1..(n - 1) /\ k \in 1..n /\ k + 1 \in 1..n
      BY <1>2, <1>8, <2>2
    <3>2. <<p[k], p[k + 1]>> \in TreeEdges(succ)
      BY <1>1, <3>1 DEF IsNode, n
    <3> QED
      BY <1>8, <3>1, <3>2
  <2> QED
    BY <2>1, <2>2
<1>11. ASSUME NEW j \in 1..Len(q), NEW k \in 1..Len(q), j < k
       PROVE  <<q[j], q[k]>> \in Dominance(succ) /\ q[j] # q[k]
  <2>1. j \in 1..n /\ q[j] = p[j]
    BY <1>2, <1>8, <1>11
  <2>2. CASE k = n + 1
    BY <1>7, <1>8, <2>1, <2>2
  <2>3. CASE k # n + 1
    <3>1. k \in 1..n /\ q[k] = p[k]
      BY <1>2, <1>8, <2>3
    <3>2. <<p[j], p[k]>> \in Dominance(succ) /\ p[j] # p[k]
      BY <1>1, <1>11, <2>1, <3>1 DEF IsNode, n
    <3> QED
      BY <2>1, <3>1, <3>2
  <2> QED
    BY <2>2, <2>3
<1>12. Len(q) >= 1
  BY <1>2, <1>8
<1>13. IsNode(q)
  BY <1>9, <1>10, <1>11, <1>12, Zenon DEF IsNode
<1> QED
  BY <1>13 DEF q

LEMMA RootIsNode == IsNode(<<Entry>>)
BY DEF IsNode

LEMMA NodeStays ==
  ASSUME NEW p, UNCHANGED succ, IsNode(p)
  PROVE  IsNode(p)'
BY DEF IsNode

LEMMA NextTree ==
  DominatorsInv /\ ImmediateInv /\ TreeInv /\ [Next]_vars => TreeInv'
<1> SUFFICES ASSUME DominatorsInv, ImmediateInv, TreeInv, [Next]_vars
             PROVE  TreeInv'
  OBVIOUS
<1>1. ASSUME NEW b \in NonEntry, VisitBlock(b)
      PROVE  TreeInv'
  BY <1>1 DEF VisitBlock, TreeInv
<1>2. CASE NextRound
  BY <1>2 DEF NextRound, TreeInv
<1>3. CASE FinishDominators
  BY <1>3 DEF FinishDominators, TreeInv
<1>4. ASSUME NEW b \in Blocks, NEW i \in Blocks, PruneWith(b, i)
      PROVE  TreeInv'
  BY <1>4 DEF PruneWith, TreeInv
<1>5. CASE FinishImmediate
  <2>1. IsNode(<<Entry>>)'
    BY <1>5, RootIsNode, NodeStays DEF FinishImmediate
  <2> QED
    BY <1>5, <2>1 DEF FinishImmediate, TreeInv
<1>6. ASSUME NEW p \in tree, NEW b \in Blocks, AddChild(p, b)
      PROVE  TreeInv'
  <2>1. phase = "build" /\ phase' = "build" /\ succ' = succ
        /\ tree' = tree \cup {Append(p, b)} /\ p[Len(p)] \in idoms[b]
    BY <1>6 DEF AddChild, ChildMissing
  <2>2. \A c \in tree' : IsNode(c)
    BY <2>1, ChildIsNode DEF TreeInv
  <2>3. \A c \in tree' : IsNode(c)'
    BY <2>1, <2>2, NodeStays
  <2> QED
    BY <2>1, <2>3 DEF TreeInv
<1>7. CASE FinishTree
  <2>1. \A p \in tree : IsNode(p)'
    BY <1>7, NodeStays DEF FinishTree, TreeInv
  <2> QED
    BY <1>7, <2>1 DEF FinishTree, TreeInv, ChildMissing
<1>8. CASE UNCHANGED vars
  <2>1. phase \in {"build", "done"} => \A p \in tree : IsNode(p)'
    BY <1>8, NodeStays DEF vars, TreeInv
  <2> QED
    BY <1>8, <2>1 DEF vars, TreeInv, ChildMissing
<1>9. QED
  BY <1>1, <1>2, <1>3, <1>4, <1>5, <1>6, <1>7, <1>8 DEF Next, Run, Returned

LEMMA NodesDoNotRepeat == DominatorsInv /\ TreeInv => NoRepeatOnPath
<1> SUFFICES ASSUME DominatorsInv, TreeInv, NEW p \in tree,
                    NEW j \in 1..Len(p), NEW k \in 1..Len(p), p[j] = p[k], j # k
             PROVE  FALSE
  BY DEF NoRepeatOnPath
<1>1. IsNode(p) /\ Len(p) \in Nat
  BY LenProperties DEF DominatorsInv, TypeOK, TreeInv
<1>2. j < k \/ k < j
  BY <1>1
<1> QED
  BY <1>1, <1>2 DEF IsNode

------------------------------------------------------------------------------
\* The invariant of the whole analysis.
IInv == DominatorsInv /\ ImmediateInv /\ TreeInv

LEMMA InitIInv == Init => IInv
BY InitDominators DEF Init, ImmediateInv, TreeInv, IInv

LEMMA NextIInv == IInv /\ [Next]_vars => IInv'
BY NextDominators, NextImmediate, NextTree DEF IInv

\* The erase loops of getImmediateDominators leave the immediate dominator of
\* every reachable block and nothing beside it, in whatever order i and j run.
THEOREM ComputesImmediateDominators == Spec => []ImmediateExact
<1>1. IInv => ImmediateExact
  BY PrunedIsImmediate DEF ImmediateExact, IInv
<1>2. QED
  BY <1>1, InitIInv, NextIInv, PTL DEF Spec

\* addDominatorTreeChildren meets no block twice on a path, so that its
\* recursion ends on every graph, those with unreachable blocks included.
THEOREM RecursionEnds == Spec => []NoRepeatOnPath
<1>1. IInv => NoRepeatOnPath
  BY NodesDoNotRepeat DEF IInv
<1>2. QED
  BY <1>1, InitIInv, NextIInv, PTL DEF Spec

------------------------------------------------------------------------------
(* The refinement of DominatorTreeContract *)

\* What a caller finds in the tree: each block below the root with its parent.
Answer ==
  {e \in Blocks \X Blocks :
     \E p \in tree : Len(p) > 1 /\ e = <<p[Len(p) - 1], p[Len(p)]>>}

\* When the recursion ends it has followed every edge of the contract, since
\* the entry and those edges lead to all reachable blocks.
LEMMA AnswerIsTheTree == IInv /\ phase = "done" => Answer = TreeEdges(succ)
<1> SUFFICES ASSUME IInv, phase = "done" PROVE Answer = TreeEdges(succ)
  OBVIOUS
<1>1. succ \in CFGs /\ tree \subseteq Seq(Blocks)
  BY DEF IInv, DominatorsInv, TypeOK
<1>2. ASSUME NEW e \in Answer
      PROVE  e \in TreeEdges(succ)
  <2>1. PICK p \in tree : Len(p) > 1 /\ e = <<p[Len(p) - 1], p[Len(p)]>>
    BY DEF Answer
  <2>2. IsNode(p) /\ Len(p) \in Nat
    BY <1>1, LenProperties DEF IInv, TreeInv
  <2>3. Len(p) - 1 \in 1..(Len(p) - 1) /\ (Len(p) - 1) + 1 = Len(p)
    BY <2>1, <2>2
  <2> QED
    BY <2>1, <2>2, <2>3 DEF IsNode
<1>3. ASSUME NEW p \in tree, NEW c \in Blocks, <<p[Len(p)], c>> \in TreeEdges(succ)
      PROVE  Append(p, c) \in tree
  <2>1. p[Len(p)] \in idoms[c]
    BY <1>3, LinksAreTreeEdges DEF IInv, Links
  <2> QED
    BY <2>1 DEF IInv, TreeInv, ChildMissing
<1> DEFINE T == {p[Len(p)] : p \in tree}
<1>4. ASSUME NEW p \in tree, NEW c \in Blocks
      PROVE  LET q == Append(p, c)
             IN  q[Len(q)] = c /\ Len(q) > 1 /\ q[Len(q) - 1] = p[Len(p)]
  <2>1. p \in Seq(Blocks) /\ Len(p) \in Nat /\ Len(p) >= 1
    BY <1>1, LenProperties DEF IInv, TreeInv, IsNode
  <2>2. LET q == Append(p, c)
        IN  /\ Len(q) = Len(p) + 1 /\ q[Len(p) + 1] = c
            /\ \A k \in 1..Len(p) : q[k] = p[k]
    BY <2>1, AppendProperties
  <2> QED
    BY <2>1, <2>2
<1>5. Reachable(succ) \subseteq T
  <2>1. Entry \in T
    <3>1. <<Entry>> \in tree
      BY DEF IInv, TreeInv
    <3>2. <<Entry>>[Len(<<Entry>>)] = Entry
      OBVIOUS
    <3> QED
      BY <3>1, <3>2
  <2>2. ASSUME NEW a \in T, NEW c \in Blocks, <<a, c>> \in TreeEdges(succ)
        PROVE  c \in T
    BY <1>3, <1>4, <2>2
  <2> HIDE DEF T
  <2> QED
    BY <1>1, <2>1, <2>2, TreeReachesAll
<1>6. ASSUME NEW e \in TreeEdges(succ)
      PROVE  e \in Answer
  <2>1. e \in Blocks \X Blocks /\ e = <<e[1], e[2]>>
    BY <1>1, TreeEdgePairs
  <2>2. e[1] \in T
    BY <1>1, <1>5, <2>1, TreeEdgesDominate
  <2>3. PICK p \in tree : e[1] = p[Len(p)]
    BY <2>2
  <2>4. Append(p, e[2]) \in tree
    BY <1>3, <2>1, <2>3
  <2> DEFINE q == Append(p, e[2])
  <2>5. q \in tree /\ Len(q) > 1 /\ e = <<q[Len(q) - 1], q[Len(q)]>>
    BY <1>4, <2>1, <2>3, <2>4
  <2> HIDE DEF q
  <2> QED
    BY <2>1, <2>5 DEF Answer
<1> QED
  BY <1>2, <1>6

\* The contract has its own copy of the operators of ControlFlow.
LEMMA ContractTree == Contract!TreeEdges(succ) = TreeEdges(succ)
BY DEF Contract!TreeEdges, Contract!IDomEdges, Contract!Dominance,
       Contract!Reachable, Contract!ReachAvoiding, Contract!ClosedAvoiding,
       Contract!ClosedFromEntry, TreeEdges, IDomEdges, Dominance, Reachable,
       ReachAvoiding, ClosedAvoiding, ClosedFromEntry

LEMMA InitContract == Init => Contract!Init
BY DEF Init, Contract!Init

\* Only the step with which run returns is seen by a caller.
LEMMA StepContract ==
  ASSUME IInv, IInv', [Next]_vars
  PROVE  [Contract!Next]_(Contract!vars)
<1>1. CASE FinishTree
  <2>1. phase # "done" /\ phase' = "done" /\ succ' = succ
    BY <1>1 DEF FinishTree
  <2>2. (IInv /\ phase = "done" => Answer = TreeEdges(succ))'
    BY AnswerIsTheTree, PTL
  <2>3. Contract!Publish
    BY <2>1, <2>2, ContractTree DEF Contract!Publish, Answer
  <2> QED
    BY <2>3 DEF Contract!Next
<1>2. CASE phase # "done" /\ phase' # "done" /\ succ' = succ
  BY <1>2 DEF Contract!vars
<1>3. CASE UNCHANGED vars
  BY <1>3 DEF Contract!vars, vars
<1> QED
  BY <1>1, <1>2, <1>3 DEF Next, Run, Returned, VisitBlock, NextRound,
     FinishDominators, PruneWith, FinishImmediate, AddChild

\* The safety part of ImplementsContract: the analysis answers at most once,
\* with the tree of the graph it was asked about.  That it does answer needs
\* fairness and is left to the model checker.
THEOREM AnswersWithTheTree ==
  Spec => Contract!Init /\ [][Contract!Next]_(Contract!vars)
BY InitIInv, NextIInv, InitContract, StepContract, PTL DEF Spec

------------------------------------------------------------------------------
(* TailRecursionElimination: the allocas. *)

Places == 1..Len(f.entry)
Rising(s) == \A m, n \in 1..Len(s) : m < n => s[m] < s[n]

Eliminated == stage \in {"phis", "returned"} /\ call <= Len(f.calls)

\* In front of the iterator is what has not been looked at, without a gap and
\* behind all that was moved; an alloca that was passed stood behind a moved one.
Moving ==
  /\ newEntry \in Seq(Places) /\ oldEntry \in Seq(Places) /\ I \in Nat \ {0}
  /\ Rising(newEntry) /\ Rising(oldEntry)
  /\ \A k \in ToSet(newEntry) : IsAlloca(k)
  /\ \A k \in ToSet(newEntry) : \A n \in I..Len(oldEntry) : k < oldEntry[n]
  /\ \A n \in I..(Len(oldEntry) - 1) : oldEntry[n + 1] = oldEntry[n] + 1
  /\ \A n \in 1..Len(oldEntry) :
       n < I /\ IsAlloca(oldEntry[n]) => oldEntry[n] - 1 \in ToSet(newEntry)

AllocasInv ==
  /\ f \in Functions /\ call \in Nat /\ Moving
  /\ stage \in {"scan", "allocas", "phis", "returned", "undefined"}
  /\ Eliminated => I > Len(oldEntry)

LEMMA EntryOf ==
  ASSUME f \in Functions
  PROVE  Len(f.entry) \in Nat /\ Len(f.calls) \in Nat \ {0}
<1>1. WellFormed(f) /\ f.calls # << >>
  BY FunctionsAssumption
<1>2. f.entry \in Seq(BOOLEAN)
      /\ f.calls \in Seq([args : Seq(Arguments), recursive : BOOLEAN, pointer : BOOLEAN,
                          next : {"itself", "other", "void", "nothing"}, tail : BOOLEAN])
  BY <1>1 DEF WellFormed
<1> QED
  BY <1>1, <1>2, EmptySeq, LenProperties

LEMMA AllocasInit == ElimInit => AllocasInv
<1> SUFFICES ASSUME ElimInit PROVE AllocasInv
  OBVIOUS
<1> DEFINE N == Len(f.entry)
           s == [k \in 1..N |-> k]
<1>1. f \in Functions /\ call = 1 /\ stage = "scan" /\ newEntry = << >> /\ oldEntry = s /\ I = 1
  BY DEF ElimInit
<1>2. N \in Nat
  BY <1>1, EntryOf
<1>3. s \in Seq(Places) /\ Len(s) = N /\ \A k \in 1..N : s[k] = k
  <2>1. s \in Seq(Places)
    BY <1>2, IsASeq DEF Places
  <2> QED
    BY <1>2, <2>1, LenProperties
<1> HIDE DEF s
<1>4. << >> \in Seq(Places) /\ Len(<< >>) = 0
  BY EmptySeq
<1>5. ToSet(<< >>) = {}
  BY NothingInEmpty
<1>6. Rising(s)
  BY <1>2, <1>3 DEF Rising
<1>7. Rising(newEntry)
  BY <1>1, <1>4 DEF Rising
<1>8. \A n \in I..(Len(oldEntry) - 1) : oldEntry[n + 1] = oldEntry[n] + 1
  BY <1>1, <1>2, <1>3
<1>9. \A n \in 1..Len(oldEntry) : ~(n < I)
  BY <1>1, <1>2, <1>3
<1>10. Moving
  BY <1>1, <1>3, <1>4, <1>5, <1>6, <1>7, <1>8, <1>9 DEF Moving
<1> QED
  BY <1>1, <1>10 DEF AllocasInv, Eliminated

LEMMA MoveAllocaKeeps ==
  ASSUME AllocasInv, MoveAlloca
  PROVE  AllocasInv'
<1> DEFINE k == oldEntry[I]
           N == Len(oldEntry)
           r == RemoveAt(oldEntry, I)
           a == Append(newEntry, k)
<1>1. /\ stage = "allocas" /\ I <= N /\ IsAlloca(k)
      /\ newEntry' = a /\ oldEntry' = r /\ I' = I + 1
      /\ UNCHANGED <<f, call, stage>>
  BY DEF MoveAlloca, After, scanned
<1>2. Moving /\ f \in Functions /\ call \in Nat
  BY DEF AllocasInv
<1>3. newEntry \in Seq(Places) /\ oldEntry \in Seq(Places) /\ I \in Nat \ {0}
  BY <1>2 DEF Moving
<1>4. /\ N \in Nat /\ Len(newEntry) \in Nat
      /\ \A n \in 1..N : oldEntry[n] \in Places
      /\ \A n \in 1..Len(newEntry) : newEntry[n] \in Places /\ newEntry[n] \in ToSet(newEntry)
  BY <1>3, Elements, ElementOfSeq, LenProperties
<1>5. Places \subseteq Int
  BY <1>2, EntryOf DEF Places
<1>6. I \in 1..N /\ k \in Places
  BY <1>1, <1>3, <1>4
<1>7. /\ r \in Seq(Places) /\ Len(r) = N - 1
      /\ \A n \in 1..(N - 1) : r[n] = IF n < I THEN oldEntry[n] ELSE oldEntry[n + 1]
  BY <1>3, <1>6, RemovedFrom
<1>8. /\ a \in Seq(Places) /\ Len(a) = Len(newEntry) + 1
      /\ \A n \in 1..Len(newEntry) : a[n] = newEntry[n]
      /\ a[Len(newEntry) + 1] = k
  BY <1>3, <1>6, AppendProperties
<1>9. ToSet(a) = ToSet(newEntry) \cup {k}
  BY <1>3, <1>6, Pushed
<1> HIDE DEF r, a
<1>10. /\ \A m, n \in 1..N : m < n => oldEntry[m] < oldEntry[n]
       /\ \A m, n \in 1..Len(newEntry) : m < n => newEntry[m] < newEntry[n]
  BY <1>2 DEF Moving, Rising
<1>11. /\ \A x \in ToSet(newEntry) : IsAlloca(x)
       /\ \A x \in ToSet(newEntry) : \A n \in I..N : x < oldEntry[n]
       /\ \A n \in I..(N - 1) : oldEntry[n + 1] = oldEntry[n] + 1
       /\ \A n \in 1..N : n < I /\ IsAlloca(oldEntry[n]) => oldEntry[n] - 1 \in ToSet(newEntry)
  BY <1>2 DEF Moving
<1>12. Rising(a)
  <2> SUFFICES ASSUME NEW m \in 1..Len(a), NEW n \in 1..Len(a), m < n PROVE a[m] < a[n]
    BY DEF Rising
  <2>1. m \in 1..Len(newEntry) /\ a[m] = newEntry[m]
    BY <1>4, <1>8
  <2>2. CASE n \in 1..Len(newEntry)
    BY <1>8, <1>10, <2>1, <2>2
  <2>3. CASE n = Len(newEntry) + 1
    BY <1>4, <1>6, <1>8, <1>11, <2>1, <2>3
  <2> QED
    BY <1>4, <1>8, <2>2, <2>3
<1>13. Rising(r)
  <2> SUFFICES ASSUME NEW m \in 1..Len(r), NEW n \in 1..Len(r), m < n PROVE r[m] < r[n]
    BY DEF Rising
  <2>1. m \in 1..N /\ n \in 1..N /\ m + 1 \in 1..N /\ n + 1 \in 1..N /\ m < n + 1 /\ m + 1 < n + 1
    BY <1>4, <1>7
  <2>2. r[m] = IF m < I THEN oldEntry[m] ELSE oldEntry[m + 1]
    BY <1>7
  <2>3. r[n] = IF n < I THEN oldEntry[n] ELSE oldEntry[n + 1]
    BY <1>7
  <2>4. m < I \/ ~(n < I)
    BY <1>3, <2>1
  <2> QED
    BY <1>10, <2>1, <2>2, <2>3, <2>4
<1>14. \A x \in ToSet(a) : \A n \in (I + 1)..(N - 1) : x < r[n]
  <2> SUFFICES ASSUME NEW x \in ToSet(a), NEW n \in (I + 1)..(N - 1) PROVE x < r[n]
    OBVIOUS
  <2>1. n + 1 \in I..N /\ n + 1 \in 1..N /\ I < n + 1 /\ r[n] = oldEntry[n + 1]
    BY <1>3, <1>4, <1>7
  <2> QED
    BY <1>6, <1>9, <1>10, <1>11, <2>1
<1>15. \A n \in (I + 1)..(N - 1 - 1) : r[n + 1] = r[n] + 1
  <2> TAKE n \in (I + 1)..(N - 1 - 1)
  <2> DEFINE m == n + 1
  <2>2. m \in 1..(N - 1) /\ ~(m < I) /\ n \in 1..(N - 1) /\ ~(n < I) /\ m \in I..(N - 1)
    BY <1>3, <1>4
  <2> HIDE DEF m
  <2>3. r[m] = oldEntry[m + 1] /\ r[n] = oldEntry[n + 1]
    BY <1>7, <2>2
  <2>1. m \in I..(N - 1) /\ r[n] = oldEntry[m] /\ r[m] = oldEntry[m + 1]
    BY <2>2, <2>3 DEF m
  <2> QED
    BY <1>11, <2>1 DEF m
<1>16. ASSUME NEW n \in 1..(N - 1), n < I + 1, IsAlloca(r[n])
       PROVE  r[n] - 1 \in ToSet(a)
  <2>1. CASE n < I
    BY <1>3, <1>4, <1>7, <1>9, <1>11, <1>16, <2>1
  <2>2. CASE n = I
    <3>1. r[n] = oldEntry[I + 1] /\ I \in I..(N - 1)
      BY <1>3, <1>4, <1>7, <2>2
    <3>2. r[n] = k + 1
      BY <1>11, <3>1
    <3>3. k \in Int
      BY <1>5, <1>6
    <3>4. (k + 1) - 1 = k
      BY <3>3
    <3> QED
      BY <1>9, <3>2, <3>4
  <2> QED
    BY <1>3, <1>16, <2>1, <2>2
<1>17. \A x \in ToSet(a) : IsAlloca(x)
  BY <1>1, <1>9, <1>11
<1>18. Places' = Places /\ \A x : IsAlloca(x)' = IsAlloca(x)
  BY <1>1 DEF Places, IsAlloca
<1>19. I + 1 \in Nat \ {0}
  BY <1>3
<1>20. Moving'
  BY <1>1, <1>7, <1>8, <1>12, <1>13, <1>14, <1>15, <1>16, <1>17, <1>18, <1>19
  DEF Moving
<1> QED
  BY <1>1, <1>2, <1>20 DEF AllocasInv, Eliminated

LEMMA KeepInstrKeeps ==
  ASSUME AllocasInv, KeepInstr
  PROVE  AllocasInv'
<1> DEFINE N == Len(oldEntry)
<1>1. /\ stage = "allocas" /\ I <= N /\ ~IsAlloca(oldEntry[I])
      /\ I' = I + 1
      /\ UNCHANGED <<f, call, stage, newEntry, oldEntry>>
  BY DEF KeepInstr, scanned
<1>2. Moving /\ f \in Functions /\ call \in Nat
  BY DEF AllocasInv
<1>3. /\ newEntry \in Seq(Places) /\ oldEntry \in Seq(Places) /\ I \in Nat \ {0}
      /\ N \in Nat
  BY <1>2, LenProperties DEF Moving
<1>4. /\ \A x \in ToSet(newEntry) : \A n \in I..N : x < oldEntry[n]
      /\ \A n \in I..(N - 1) : oldEntry[n + 1] = oldEntry[n] + 1
      /\ \A n \in 1..N : n < I /\ IsAlloca(oldEntry[n]) => oldEntry[n] - 1 \in ToSet(newEntry)
  BY <1>2 DEF Moving
<1>5. /\ \A n \in (I + 1)..N : n \in I..N
      /\ \A n \in (I + 1)..(N - 1) : n \in I..(N - 1)
      /\ \A n \in 1..N : n < I + 1 => n < I \/ n = I
  BY <1>3
<1>6. /\ \A x \in ToSet(newEntry) : \A n \in (I + 1)..N : x < oldEntry[n]
      /\ \A n \in (I + 1)..(N - 1) : oldEntry[n + 1] = oldEntry[n] + 1
      /\ \A n \in 1..N : n < I + 1 /\ IsAlloca(oldEntry[n])
                           => oldEntry[n] - 1 \in ToSet(newEntry)
  BY <1>1, <1>4, <1>5
<1>7. Places' = Places /\ \A x : IsAlloca(x)' = IsAlloca(x)
  BY <1>1 DEF Places, IsAlloca
<1>8. I + 1 \in Nat \ {0}
  BY <1>3
<1>9. Moving'
  BY <1>1, <1>2, <1>6, <1>7, <1>8 DEF Moving
<1> QED
  BY <1>1, <1>2, <1>9 DEF AllocasInv, Eliminated

LEMMA AllocasNext == AllocasInv /\ [ElimNext]_elimVars => AllocasInv'
<1> SUFFICES ASSUME AllocasInv, [ElimNext]_elimVars PROVE AllocasInv'
  OBVIOUS
<1>1. f \in Functions /\ call \in Nat /\ Moving
      /\ stage \in {"scan", "allocas", "phis", "returned", "undefined"}
      /\ (Eliminated => I > Len(oldEntry))
  BY DEF AllocasInv
<1>2. ASSUME UNCHANGED <<f, newEntry, oldEntry, I>>, call' \in Nat,
             stage' \in {"scan", "allocas", "phis", "returned", "undefined"},
             Eliminated' => I > Len(oldEntry)
      PROVE  AllocasInv'
  BY <1>1, <1>2 DEF AllocasInv, Moving, Places, IsAlloca
<1>3. CASE MoveAlloca
  BY <1>3, MoveAllocaKeeps
<1>4. CASE KeepInstr
  BY <1>4, KeepInstrKeeps
<1>5. CASE NextCall
  BY <1>1, <1>2, <1>5 DEF NextCall, Scanning, entries, Eliminated
<1>6. CASE LoseReturn \/ StartElim \/ LoseParam
  BY <1>1, <1>2, <1>6 DEF LoseReturn, StartElim, LoseParam, entries, scanned, Eliminated
<1>7. CASE NoTailCall
  <2>1. call > Len(f.calls) /\ call' = call /\ f' = f /\ Len(f.calls) \in Nat
    BY <1>1, <1>7, EntryOf DEF NoTailCall, scanned
  <2>2. ~Eliminated'
    BY <1>1, <2>1 DEF Eliminated
  <2> QED
    BY <1>1, <1>2, <1>7, <2>2 DEF NoTailCall, entries, scanned
<1>8. CASE StartPhis
  BY <1>1, <1>2, <1>8 DEF StartPhis, entries, scanned
<1>9. CASE PassOn \/ MakePhi
  BY <1>1, <1>2, <1>9 DEF PassOn, MakePhi, entries, scanned, Eliminated
<1>10. CASE FinishElim
  BY <1>1, <1>2, <1>10 DEF FinishElim, entries, scanned, Eliminated
<1>11. CASE UNCHANGED elimVars
  BY <1>1, <1>2, <1>11 DEF elimVars, Eliminated
<1> QED
  BY <1>3, <1>4, <1>5, <1>6, <1>7, <1>8, <1>9, <1>10, <1>11 DEF ElimNext, ElimRun, Stopped

LEMMA AllocasInvGives == AllocasInv => AllocasApartMove
<1> SUFFICES ASSUME AllocasInv, stage = "returned", call <= Len(f.calls)
             PROVE  AllocasApartMove
  BY DEF AllocasApartMove
<1>1. Moving /\ f \in Functions /\ I > Len(oldEntry)
  BY DEF AllocasInv, Eliminated
<1>2. oldEntry \in Seq(Places) /\ newEntry \in Seq(Places) /\ I \in Nat \ {0}
  BY <1>1 DEF Moving
<1>3. Len(oldEntry) \in Nat /\ \A k \in ToSet(oldEntry) : \E n \in 1..Len(oldEntry) : oldEntry[n] = k
  BY <1>2, Elements, LenProperties
<1>4. \A n \in 1..Len(oldEntry) : n < I
  BY <1>1, <1>2, <1>3
<1>5. \A k \in ToSet(oldEntry) : IsAlloca(k) => k - 1 \in ToSet(newEntry)
  BY <1>1, <1>3, <1>4 DEF Moving
<1> QED
  BY <1>1, <1>5 DEF Moving, Rising, AllocasApartMove
------------------------------------------------------------------------------
\* The arguments, phis and uses when the first m parameters have a phi.
Rewritten(a, m) == [of |-> IF a.of \in 1..m THEN P + a.of ELSE a.of, less |-> a.less]
RewrittenCalls(m) ==
  [k \in 1..Len(f.calls) |->
     [n \in 1..Len(f.calls[k].args) |-> Rewritten(f.calls[k].args[n], m)]]
RewrittenPhis(m) ==
  [k \in 1..m |-> [entry |-> [of |-> k, less |-> 0],
                   back |-> Rewritten(f.calls[call].args[k], m)]]
RewrittenUses(m) == [p \in Params |-> IF p <= m THEN P + p ELSE p]

WithPhis(m) ==
  phis = RewrittenPhis(m) /\ use = RewrittenUses(m) /\ operands = RewrittenCalls(m)

PassedOn == f.calls[call].args[P] = [of |-> P, less |-> 0]

\* The parameters get their phis one by one, but for a last one that is passed
\* on.
Progress(m) ==
  /\ WithPhis(m)
  /\ \/ arg = m + 1 /\ param = m + 1
     \/ arg = P + 1 /\ param = P /\ m = P - 1 /\ PassedOn
  /\ stage = "returned" => arg = P + 1

RewriteInv ==
  /\ f \in Functions /\ call \in Nat \ {0}
  /\ stage \in {"scan", "allocas", "phis", "returned", "undefined"}
  /\ stage \in {"scan", "allocas"} => WithPhis(0) /\ param = 1 /\ arg = 1
  /\ stage \in {"allocas", "phis"} => call <= Len(f.calls)
  /\ stage \in {"allocas", "phis", "returned"} /\ call <= Len(f.calls)
       => IsTailCall(f.calls[call])
  /\ Eliminated /\ CanEliminate(f.calls[call]) => \E m \in 0..P : Progress(m)

LEMMA CallsOf ==
  ASSUME f \in Functions
  PROVE  /\ Len(f.calls) \in Nat \ {0}
         /\ \A k \in 1..Len(f.calls) :
              /\ f.calls[k].args \in Seq(Arguments)
              /\ Len(f.calls[k].args) \in Nat \ {0}
              /\ f.calls[k].recursive => Len(f.calls[k].args) = P
              /\ \A n \in 1..Len(f.calls[k].args) : f.calls[k].args[n] \in Arguments
<1> DEFINE Calls == [args : Seq(Arguments), recursive : BOOLEAN, pointer : BOOLEAN,
                     next : {"itself", "other", "void", "nothing"}, tail : BOOLEAN]
<1>1. WellFormed(f) /\ f.calls # << >>
  BY FunctionsAssumption
<1>2. f.calls \in Seq(Calls)
      /\ \A k \in 1..Len(f.calls) :
           IF f.calls[k].recursive THEN Len(f.calls[k].args) = P ELSE Len(f.calls[k].args) > 0
  BY <1>1 DEF WellFormed
<1>3. Len(f.calls) \in Nat \ {0}
  BY <1>1, <1>2, EmptySeq, LenProperties
<1>4. ASSUME NEW k \in 1..Len(f.calls)
      PROVE  /\ f.calls[k].args \in Seq(Arguments)
             /\ Len(f.calls[k].args) \in Nat \ {0}
             /\ f.calls[k].recursive => Len(f.calls[k].args) = P
             /\ \A n \in 1..Len(f.calls[k].args) : f.calls[k].args[n] \in Arguments
  <2>1. f.calls[k] \in Calls
    BY <1>2, ElementOfSeq
  <2>2. f.calls[k].args \in Seq(Arguments)
    BY <2>1
  <2>3. Len(f.calls[k].args) \in Nat
    BY <2>2, LenProperties
  <2> QED
    BY <1>2, <2>2, <2>3, ElementOfSeq, ParamsAssumption
<1> QED
  BY <1>3, <1>4

LEMMA ArgumentParts ==
  ASSUME NEW a \in Arguments
  PROVE  /\ a.of \in 0..P /\ a.less \in Numbers
         /\ a = [of |-> a.of, less |-> a.less]
BY DEF Arguments

LEMMA RewritingNothing ==
  ASSUME f \in Functions
  PROVE  /\ RewrittenCalls(0) = [k \in 1..Len(f.calls) |-> f.calls[k].args]
         /\ RewrittenPhis(0) = << >>
         /\ RewrittenUses(0) = [p \in Params |-> p]
<1>1. ASSUME NEW a \in Arguments PROVE Rewritten(a, 0) = a
  <2>1. a.of \notin 1..0
    OBVIOUS
  <2>2. Rewritten(a, 0) = [of |-> a.of, less |-> a.less]
    BY <2>1 DEF Rewritten
  <2> QED
    BY <2>2, ArgumentParts
<1>2. ASSUME NEW k \in 1..Len(f.calls)
      PROVE  [n \in 1..Len(f.calls[k].args) |-> Rewritten(f.calls[k].args[n], 0)] = f.calls[k].args
  <2> DEFINE s == f.calls[k].args
  <2>1. s \in Seq(Arguments) /\ Len(s) \in Nat /\ \A n \in 1..Len(s) : s[n] \in Arguments
    BY CallsOf
  <2> HIDE DEF s
  <2>2. s = [n \in 1..Len(s) |-> s[n]]
    BY <2>1, LenProperties
  <2>3. [n \in 1..Len(s) |-> Rewritten(s[n], 0)] = [n \in 1..Len(s) |-> s[n]]
    BY <1>1, <2>1
  <2>4. [n \in 1..Len(s) |-> Rewritten(s[n], 0)] = s
    BY <2>2, <2>3
  <2> QED
    BY <2>4 DEF s
<1>3. RewrittenCalls(0) = [k \in 1..Len(f.calls) |-> f.calls[k].args]
  BY <1>2 DEF RewrittenCalls
<1>4. RewrittenUses(0) = [p \in Params |-> p]
  BY ParamsAssumption DEF RewrittenUses, Params
<1>5. RewrittenPhis(0) = << >>
  <2>1. 1..0 = {}
    OBVIOUS
  <2> QED
    BY <2>1 DEF RewrittenPhis
<1> QED
  BY <1>3, <1>4, <1>5

\* One parameter more.
LEMMA RewritingOneMore ==
  ASSUME NEW m \in 0..(P - 1), NEW a \in Arguments
  PROVE  Replaced(Rewritten(a, m), m + 1, P + m + 1) = Rewritten(a, m + 1)
<1>1. P \in Nat /\ m \in Nat /\ m + 1 <= P
  BY ParamsAssumption
<1> DEFINE b == Rewritten(a, m)
<1>2. a.of \in 0..P
  BY ArgumentParts
<1>3. b = [of |-> b.of, less |-> a.less] /\ b.of = IF a.of \in 1..m THEN P + a.of ELSE a.of
  BY DEF Rewritten
<1>4. b.of = m + 1 <=> a.of = m + 1
  BY <1>1, <1>2, <1>3
<1>5. Rewritten(a, m + 1) = [of |-> IF a.of \in 1..(m + 1) THEN P + a.of ELSE a.of,
                             less |-> a.less]
  BY DEF Rewritten
<1> HIDE DEF b
<1>6. CASE a.of = m + 1
  <2>1. Replaced(b, m + 1, P + m + 1) = [of |-> P + m + 1, less |-> a.less]
    BY <1>3, <1>4, <1>6 DEF Replaced
  <2>2. a.of \in 1..(m + 1) /\ P + a.of = P + m + 1
    BY <1>1, <1>6
  <2> QED
    BY <1>5, <2>1, <2>2 DEF b
<1>7. CASE a.of # m + 1
  <2>1. Replaced(b, m + 1, P + m + 1) = b
    BY <1>4, <1>7 DEF Replaced
  <2>2. a.of \in 1..(m + 1) <=> a.of \in 1..m
    BY <1>1, <1>2, <1>7
  <2> QED
    BY <1>3, <1>5, <2>1, <2>2 DEF b
<1> QED
  BY <1>6, <1>7

LEMMA RewriteInit == ElimInit => RewriteInv
<1> SUFFICES ASSUME ElimInit PROVE RewriteInv
  OBVIOUS
<1>1. f \in Functions /\ stage = "scan" /\ call = 1 /\ param = 1 /\ arg = 1 /\ phis = << >>
      /\ use = [p \in Params |-> p] /\ operands = [k \in 1..Len(f.calls) |-> f.calls[k].args]
  BY DEF ElimInit
<1>2. WithPhis(0)
  BY <1>1, RewritingNothing DEF WithPhis
<1> QED
  BY <1>1, <1>2 DEF RewriteInv, Eliminated

\* What the loop over the arguments reads.
LEMMA Reads ==
  ASSUME f \in Functions, call \in 1..Len(f.calls), CanEliminate(f.calls[call]),
         NEW m \in 0..P, WithPhis(m)
  PROVE  /\ Len(operands[call]) = P
         /\ \A n \in 1..P : /\ f.calls[call].args[n] \in Arguments
                            /\ operands[call][n] = Rewritten(f.calls[call].args[n], m)
         /\ Len(phis) = m
<1>1. f.calls[call].recursive
  BY DEF CanEliminate
<1>2. Len(f.calls[call].args) = P /\ P \in Nat /\ m \in Nat
      /\ \A n \in 1..P : f.calls[call].args[n] \in Arguments
  BY <1>1, CallsOf, ParamsAssumption
<1> DEFINE s == operands[call]
<1>3. s = [n \in 1..P |-> Rewritten(f.calls[call].args[n], m)]
  BY <1>2 DEF WithPhis, RewrittenCalls
<1>4. phis = [k \in 1..m |-> [entry |-> [of |-> k, less |-> 0],
                              back |-> Rewritten(f.calls[call].args[k], m)]]
  BY DEF WithPhis, RewrittenPhis
<1> HIDE DEF s
<1>5. Len(s) = P
  BY <1>2, <1>3
<1>6. Len(phis) = m
  BY <1>2, <1>4
<1> QED
  BY <1>2, <1>3, <1>5, <1>6 DEF s

LEMMA PassOnKeeps ==
  ASSUME f \in Functions, call \in 1..Len(f.calls), CanEliminate(f.calls[call]), PassOn,
         NEW m \in 0..P, Progress(m)
  PROVE  Progress(m)'
<1>1. /\ stage = "phis" /\ arg <= Len(operands[call]) /\ IsParam(operands[call][arg])
      /\ arg' = arg + 1
      /\ UNCHANGED <<f, call, stage, param, phis, use, operands>>
  BY DEF PassOn, scanned
<1>2. WithPhis(m) /\ P \in Nat /\ m \in Nat
  BY ParamsAssumption DEF Progress
<1>3. /\ arg <= P
      /\ \A n \in 1..P : /\ f.calls[call].args[n] \in Arguments
                         /\ operands[call][n] = Rewritten(f.calls[call].args[n], m)
  BY <1>1, <1>2, Reads
<1>4. arg = m + 1 /\ param = m + 1
  BY <1>2, <1>3 DEF Progress
<1> DEFINE a == f.calls[call].args[arg]
<1>5. arg \in 1..P
  BY <1>2, <1>3, <1>4
<1>6. a \in Arguments /\ Rewritten(a, m) = [of |-> m + 1, less |-> 0]
  BY <1>1, <1>3, <1>4, <1>5 DEF IsParam
<1> HIDE DEF a
<1>7. /\ a = [of |-> a.of, less |-> a.less] /\ a.of \in 0..P /\ a.less = 0
      /\ (IF a.of \in 1..m THEN P + a.of ELSE a.of) = m + 1
  BY <1>6, ArgumentParts DEF Rewritten
<1>8. a.of = m + 1
  BY <1>2, <1>3, <1>4, <1>7
<1>9. a = [of |-> arg, less |-> 0]
  BY <1>4, <1>7, <1>8
<1>10. arg = P
  BY <1>2, <1>5, <1>9 DEF CanEliminate, a
<1>11. PassedOn /\ m = P - 1
  BY <1>2, <1>4, <1>9, <1>10 DEF PassedOn, a
<1>12. WithPhis(m)' /\ PassedOn'
  BY <1>1, <1>2, <1>11 DEF WithPhis, PassedOn, RewrittenPhis, RewrittenUses, RewrittenCalls
<1> QED
  BY <1>1, <1>4, <1>10, <1>11, <1>12 DEF Progress

LEMMA MakePhiKeeps ==
  ASSUME f \in Functions, call \in 1..Len(f.calls), CanEliminate(f.calls[call]), MakePhi,
         NEW m \in 0..P, Progress(m)
  PROVE  m + 1 \in 0..P /\ Progress(m + 1)'
<1> DEFINE phi == P + Len(phis) + 1
           New(a) == Replaced(a, param, phi)
           newArgs == [k \in 1..Len(operands) |->
                         [n \in 1..Len(operands[k]) |-> New(operands[k][n])]]
           newPhis == [n \in 1..Len(phis) |-> [entry |-> New(phis[n].entry),
                                               back |-> New(phis[n].back)]]
           last == [entry |-> [of |-> param, less |-> 0], back |-> newArgs[call][arg]]
<1>1. /\ stage = "phis" /\ arg <= Len(operands[call])
      /\ operands' = newArgs
      /\ use' = [p \in Params |-> IF use[p] = param THEN phi ELSE use[p]]
      /\ phis' = Append(newPhis, last)
      /\ param' = param + 1 /\ arg' = arg + 1
      /\ UNCHANGED <<f, call, stage>>
  BY DEF MakePhi, scanned
<1>2. WithPhis(m) /\ P \in Nat /\ m \in Nat
  BY ParamsAssumption DEF Progress
<1>3. /\ arg <= P /\ Len(phis) = m
      /\ \A n \in 1..P : f.calls[call].args[n] \in Arguments
  BY <1>1, <1>2, Reads
<1>4. arg = m + 1 /\ param = m + 1
  BY <1>2, <1>3 DEF Progress
<1>5. phi = P + m + 1 /\ m \in 0..(P - 1) /\ m + 1 \in 0..P
  BY <1>2, <1>3, <1>4
<1>6. ASSUME NEW a \in Arguments PROVE New(Rewritten(a, m)) = Rewritten(a, m + 1)
  BY <1>4, <1>5, RewritingOneMore
<1>7. operands = RewrittenCalls(m) /\ phis = RewrittenPhis(m) /\ use = RewrittenUses(m)
  BY <1>2 DEF WithPhis
<1> DEFINE C == Len(f.calls)
           A(k) == Len(f.calls[k].args)
<1>8. C \in Nat /\ \A k \in 1..C : A(k) \in Nat /\ \A n \in 1..A(k) : f.calls[k].args[n] \in Arguments
  BY CallsOf
<1>9. newArgs = RewrittenCalls(m + 1)
  <2>1. Len(operands) = C
    BY <1>7, <1>8 DEF RewrittenCalls
  <2>2. ASSUME NEW k \in 1..C
        PROVE  [n \in 1..Len(operands[k]) |-> New(operands[k][n])]
                 = [n \in 1..A(k) |-> Rewritten(f.calls[k].args[n], m + 1)]
    <3>1. operands[k] = [n \in 1..A(k) |-> Rewritten(f.calls[k].args[n], m)]
      BY <1>7 DEF RewrittenCalls
    <3>2. Len(operands[k]) = A(k)
      BY <1>8, <3>1
    <3> HIDE DEF New
    <3>3. \A n \in 1..A(k) : New(operands[k][n]) = Rewritten(f.calls[k].args[n], m + 1)
      BY <1>6, <1>8, <3>1
    <3> QED
      BY <3>2, <3>3
  <2> HIDE DEF New
  <2> QED
    BY <2>1, <2>2 DEF RewrittenCalls
<1>10. use' = RewrittenUses(m + 1)
  <2>1. \A p \in Params : use[p] = IF p <= m THEN P + p ELSE p
    BY <1>7 DEF RewrittenUses
  <2>2. ASSUME NEW p \in Params
        PROVE  (IF use[p] = m + 1 THEN P + m + 1 ELSE use[p]) = IF p <= m + 1 THEN P + p ELSE p
    <3>1. p \in 1..P /\ m + 1 <= P /\ use[p] = IF p <= m THEN P + p ELSE p
      BY <1>3, <1>4, <2>1 DEF Params
    <3>2. CASE p <= m
      <4>1. use[p] = P + p /\ P + p # m + 1 /\ p <= m + 1
        BY <1>2, <3>1, <3>2
      <4> QED
        BY <4>1
    <3>3. CASE p = m + 1
      <4>1. use[p] = p /\ p <= m + 1 /\ P + m + 1 = P + p
        BY <1>2, <3>1, <3>3
      <4> QED
        BY <3>3, <4>1
    <3>4. CASE ~(p <= m + 1)
      <4>1. use[p] = p /\ p # m + 1
        BY <1>2, <3>1, <3>4
      <4> QED
        BY <3>4, <4>1
    <3>5. p <= m \/ p = m + 1 \/ ~(p <= m + 1)
      BY <1>2, <3>1
    <3> QED
      BY <3>2, <3>3, <3>4, <3>5
  <2> QED
    BY <1>1, <1>4, <1>5, <2>2 DEF RewrittenUses
<1>11. phis' = RewrittenPhis(m + 1)'
  <2> DEFINE e(k, n) == [entry |-> [of |-> k, less |-> 0],
                         back |-> Rewritten(f.calls[call].args[k], n)]
             r == [k \in 1..(m + 1) |-> e(k, m + 1)]
  <2>1. \A k \in 1..m : /\ phis[k].entry = [of |-> k, less |-> 0]
                         /\ phis[k].back = Rewritten(f.calls[call].args[k], m)
    BY <1>7 DEF RewrittenPhis
  <2>2. ASSUME NEW k \in 1..m
        PROVE  [entry |-> New(phis[k].entry), back |-> New(phis[k].back)] = e(k, m + 1)
    <3>1. phis[k].entry = [of |-> k, less |-> 0]
          /\ phis[k].back = Rewritten(f.calls[call].args[k], m)
      BY <2>1
    <3>2. k # m + 1 /\ k \in 1..P
      BY <1>2, <1>3, <1>4
    <3>3. New(phis[k].entry) = phis[k].entry
      BY <1>4, <3>1, <3>2 DEF Replaced
    <3>4. New(phis[k].back) = Rewritten(f.calls[call].args[k], m + 1)
      BY <1>3, <1>6, <3>1, <3>2
    <3> HIDE DEF New
    <3> QED
      BY <3>1, <3>3, <3>4
  <2>3. newPhis = [k \in 1..m |-> e(k, m + 1)]
    <3> HIDE DEF New, e
    <3> QED
      BY <1>3, <2>2
  <2>4. last = e(m + 1, m + 1)
    <3>1. call \in 1..C /\ arg \in 1..A(call)
      <4>1. A(call) = P
        BY CallsOf DEF CanEliminate
      <4> QED
        BY <1>2, <1>3, <1>4, <4>1
    <3> DEFINE new == newArgs
    <3>3. new = RewrittenCalls(m + 1)
      BY <1>9
    <3> HIDE DEF new
    <3>4. new[call] = [n \in 1..A(call) |-> Rewritten(f.calls[call].args[n], m + 1)]
      BY <3>1, <3>3 DEF RewrittenCalls
    <3>5. new[call][arg] = Rewritten(f.calls[call].args[arg], m + 1)
      BY <3>1, <3>4
    <3>2. newArgs[call][arg] = Rewritten(f.calls[call].args[arg], m + 1)
      BY <3>5 DEF new
    <3> HIDE DEF newArgs
    <3> QED
      BY <1>4, <3>2
  <2> HIDE DEF last, newPhis, e
  <2>5. newPhis \in Seq({e(k, m + 1) : k \in 1..(m + 1)}) /\ Len(newPhis) = m
        /\ last \in {e(k, m + 1) : k \in 1..(m + 1)}
    <3>1. \A k \in 1..m : e(k, m + 1) \in {e(n, m + 1) : n \in 1..(m + 1)}
      BY <1>2
    <3>2. m + 1 \in 1..(m + 1)
      BY <1>2
    <3>3. newPhis \in Seq({e(k, m + 1) : k \in 1..(m + 1)})
      BY <1>2, <2>3, <3>1, IsASeq
    <3> QED
      BY <1>2, <2>3, <2>4, <3>2, <3>3, LenProperties
  <2>6. /\ Append(newPhis, last) \in Seq({e(k, m + 1) : k \in 1..(m + 1)})
        /\ Len(Append(newPhis, last)) = m + 1
        /\ \A k \in 1..m : Append(newPhis, last)[k] = newPhis[k]
        /\ Append(newPhis, last)[m + 1] = last
    BY <2>5, AppendProperties
  <2> DEFINE s == Append(newPhis, last)
  <2> HIDE DEF s
  <2>7. \A k \in 1..(m + 1) : s[k] = e(k, m + 1)
    <3>1. \A k \in 1..(m + 1) : k \in 1..m \/ k = m + 1
      BY <1>2
    <3> QED
      BY <2>3, <2>4, <2>6, <3>1 DEF s
  <2>8. s = [k \in 1..(m + 1) |-> s[k]]
    BY <2>6, LenProperties DEF s
  <2>9. s = r
    BY <2>7, <2>8
  <2>10. RewrittenPhis(m + 1)' = r
    BY <1>1 DEF RewrittenPhis, e
  <2> QED
    BY <1>1, <2>9, <2>10 DEF s
<1>12. RewrittenCalls(m + 1)' = RewrittenCalls(m + 1) /\ RewrittenUses(m + 1)' = RewrittenUses(m + 1)
  BY <1>1 DEF RewrittenCalls, RewrittenUses
<1>13. WithPhis(m + 1)'
  <2> HIDE DEF newArgs
  <2> QED
    BY <1>1, <1>9, <1>10, <1>11, <1>12 DEF WithPhis
<1> QED
  BY <1>1, <1>2, <1>4, <1>5, <1>13 DEF Progress

LEMMA RewriteNext == RewriteInv /\ [ElimNext]_elimVars => RewriteInv'
<1> SUFFICES ASSUME RewriteInv, [ElimNext]_elimVars PROVE RewriteInv'
  OBVIOUS
<1>1. /\ f \in Functions /\ call \in Nat \ {0}
      /\ stage \in {"scan", "allocas", "phis", "returned", "undefined"}
      /\ stage \in {"scan", "allocas"} => WithPhis(0) /\ param = 1 /\ arg = 1
      /\ stage \in {"allocas", "phis"} => call <= Len(f.calls)
      /\ stage \in {"allocas", "phis", "returned"} /\ call <= Len(f.calls)
           => IsTailCall(f.calls[call])
      /\ Eliminated /\ CanEliminate(f.calls[call]) => \E m \in 0..P : Progress(m)
  BY DEF RewriteInv
<1>2. Len(f.calls) \in Nat /\ P \in Nat
  BY <1>1, CallsOf, ParamsAssumption
<1>3. ASSUME UNCHANGED <<f, phis, use, operands>> PROVE WithPhis(0)' <=> WithPhis(0)
  <2>1. 1..0 = {}
    OBVIOUS
  <2> QED
    BY <1>3, <2>1 DEF WithPhis, RewrittenCalls, RewrittenPhis, RewrittenUses
<1>4. ASSUME UNCHANGED <<f, call, phis, use, operands>>, NEW m \in 0..P
      PROVE  (WithPhis(m)' <=> WithPhis(m)) /\ (PassedOn' <=> PassedOn)
  BY <1>4 DEF WithPhis, RewrittenCalls, RewrittenPhis, RewrittenUses, PassedOn
<1>5. CASE LoseReturn \/ LoseParam
  BY <1>1, <1>5 DEF LoseReturn, LoseParam, scanned, RewriteInv, Eliminated
<1>6. CASE NextCall
  <2>1. stage = "scan" /\ call' = call + 1 /\ UNCHANGED <<f, stage, phis, use, operands, param, arg>>
    BY <1>6 DEF NextCall, Scanning, values
  <2> QED
    BY <1>1, <1>3, <2>1 DEF RewriteInv, Eliminated
<1>7. CASE StartElim
  <2>1. /\ stage = "scan" /\ call <= Len(f.calls) /\ IsTailCall(f.calls[call])
        /\ stage' = "allocas"
        /\ UNCHANGED <<f, call, phis, use, operands, param, arg>>
    BY <1>7 DEF StartElim, Scanning, scanned, values
  <2>2. WithPhis(0)'
    BY <1>1, <1>3, <2>1
  <2> QED
    BY <1>1, <2>1, <2>2 DEF RewriteInv, Eliminated
<1>8. CASE NoTailCall
  <2>1. call > Len(f.calls) /\ stage' = "returned" /\ UNCHANGED <<f, call>>
    BY <1>8 DEF NoTailCall, scanned
  <2> QED
    BY <1>1, <1>2, <2>1 DEF RewriteInv, Eliminated
<1>9. CASE MoveAlloca \/ KeepInstr
  <2>1. stage = "allocas" /\ UNCHANGED <<f, stage, call, phis, use, operands, param, arg>>
    BY <1>9 DEF MoveAlloca, KeepInstr, scanned, values
  <2> QED
    BY <1>1, <1>3, <2>1 DEF RewriteInv, Eliminated
<1>10. CASE StartPhis
  <2>1. /\ stage = "allocas" /\ stage' = "phis"
        /\ UNCHANGED <<f, call, phis, use, operands, param, arg>>
    BY <1>10 DEF StartPhis, scanned, values
  <2>2. WithPhis(0)' /\ arg' = 0 + 1 /\ param' = 0 + 1
    BY <1>1, <1>3, <2>1
  <2>3. Progress(0)' /\ 0 \in 0..P
    BY <1>2, <2>1, <2>2 DEF Progress
  <2> QED
    BY <1>1, <2>1, <2>3 DEF RewriteInv, Eliminated
<1>11. CASE PassOn \/ MakePhi
  <2>1. stage = "phis" /\ UNCHANGED <<f, call, stage>>
    BY <1>11 DEF PassOn, MakePhi, scanned
  <2>2. call \in 1..Len(f.calls) /\ Eliminated
    BY <1>1, <1>2, <2>1 DEF Eliminated
  <2>3. ASSUME CanEliminate(f.calls[call]) PROVE \E m \in 0..P : Progress(m)'
    <3>1. PICK m \in 0..P : Progress(m)
      BY <1>1, <2>2, <2>3
    <3> QED
      BY <1>1, <1>11, <2>2, <2>3, <3>1, PassOnKeeps, MakePhiKeeps
  <2>4. CanEliminate(f.calls[call])' <=> CanEliminate(f.calls[call])
    BY <2>1
  <2>5. IsTailCall(f.calls[call])' <=> IsTailCall(f.calls[call])
    BY <2>1
  <2> QED
    BY <1>1, <2>1, <2>3, <2>4, <2>5 DEF RewriteInv, Eliminated
<1>12. CASE FinishElim
  <2>1. /\ stage = "phis" /\ arg > Len(operands[call]) /\ stage' = "returned"
        /\ UNCHANGED <<f, call, phis, use, operands, param, arg>>
    BY <1>12 DEF FinishElim, scanned, values
  <2>2. call \in 1..Len(f.calls) /\ Eliminated
    BY <1>1, <1>2, <2>1 DEF Eliminated
  <2>3. ASSUME CanEliminate(f.calls[call]) PROVE \E m \in 0..P : Progress(m)'
    <3>1. PICK m \in 0..P : Progress(m)
      BY <1>1, <2>2, <2>3
    <3>2. WithPhis(m) /\ Len(operands[call]) = P
      BY <1>1, <2>2, <2>3, <3>1, Reads DEF Progress
    <3>3. arg = P + 1
      BY <1>2, <2>1, <3>1, <3>2 DEF Progress
    <3>4. WithPhis(m)' /\ (PassedOn' <=> PassedOn)
      BY <1>4, <2>1, <3>2
    <3> QED
      BY <2>1, <3>1, <3>3, <3>4 DEF Progress
  <2> QED
    BY <1>1, <2>1, <2>3 DEF RewriteInv, Eliminated
<1>13. CASE UNCHANGED elimVars
  <2>1. UNCHANGED <<f, call, stage, phis, use, operands, param, arg>>
    BY <1>13 DEF elimVars
  <2>2. ASSUME NEW m \in 0..P, Progress(m) PROVE Progress(m)'
    BY <1>4, <2>1, <2>2 DEF Progress
  <2>3. Eliminated' <=> Eliminated
    BY <2>1 DEF Eliminated
  <2> QED
    BY <1>1, <1>3, <2>1, <2>2, <2>3 DEF RewriteInv
<1> QED
  BY <1>5, <1>6, <1>7, <1>8, <1>9, <1>10, <1>11, <1>12, <1>13 DEF ElimNext, ElimRun, Stopped

------------------------------------------------------------------------------
(* The recursive definitions of the results have the values they say. *)

LEMMA BeforeUnfolds ==
  /\ Before[0] = [x \in Inputs |-> More]
  /\ \A n \in 1..Fuel : Before[n] = FromCalls(Before[n - 1])
<1> DEFINE base == [x \in Inputs |-> More]
           Is(r, n) == r = [k \in 0..n |-> IF k = 0 THEN base ELSE FromCalls(r[k - 1])]
           Lacking == {n \in Nat : ~\E r : Is(r, n)}
<1> HIDE DEF base
<1>1. Lacking = {}
  <2>1. SUFFICES ASSUME Lacking # {} PROVE FALSE
    OBVIOUS
  <2>2. PICK n \in Lacking : \A m \in Lacking : n <= m
    BY <2>1, LeastNatural
  <2>3. n \in Nat /\ ~\E r : Is(r, n)
    OBVIOUS
  <2>4. CASE n = 0
    <3> DEFINE r == [k \in 0..0 |-> base]
    <3>1. Is(r, 0)
      OBVIOUS
    <3> QED
      BY <2>3, <2>4, <3>1
  <2>5. CASE n # 0
    <3>1. n - 1 \in Nat /\ ~(n <= n - 1)
      BY <2>3, <2>5
    <3>2. PICK q : Is(q, n - 1)
      BY <2>2, <3>1
    <3> DEFINE r == [k \in 0..n |-> IF k = n THEN FromCalls(q[n - 1]) ELSE q[k]]
    <3>3. \A k \in 0..(n - 1) : r[k] = q[k]
      BY <2>3
    <3>4. ASSUME NEW k \in 0..n
          PROVE  r[k] = IF k = 0 THEN base ELSE FromCalls(r[k - 1])
      <4>1. CASE k = n
        <5>1. r[k - 1] = q[n - 1] /\ r[k] = FromCalls(q[n - 1])
          BY <2>3, <3>1, <3>3, <4>1
        <5> QED
          BY <2>5, <4>1, <5>1
      <4>2. CASE k # n
        <5>1. k \in 0..(n - 1) /\ (k # 0 => k - 1 \in 0..(n - 1))
          BY <2>3, <4>2
        <5>2. r[k] = IF k = 0 THEN base ELSE FromCalls(q[k - 1])
          BY <3>2, <3>3, <5>1
        <5>3. k # 0 => r[k - 1] = q[k - 1]
          BY <3>3, <5>1
        <5> QED
          BY <5>2, <5>3
      <4> QED
        BY <4>1, <4>2
    <3>5. Is(r, n)
      <4>1. r = [k \in 0..n |-> r[k]]
        OBVIOUS
      <4> HIDE DEF r
      <4> QED
        BY <3>4, <4>1
    <3> QED
      BY <2>3, <3>5
  <2> QED
    BY <2>4, <2>5
<1>2. \E r : Is(r, Fuel)
  BY <1>1, ParamsAssumption
<1>3. Before = CHOOSE r : Is(r, Fuel)
  BY DEF Before, base
<1>4. Is(Before, Fuel)
  <2> DEFINE b == Before
  <2>1. b = CHOOSE r : Is(r, Fuel)
    BY <1>3
  <2> HIDE DEF b
  <2>2. Is(b, Fuel)
    BY <1>2, <2>1
  <2> QED
    BY <2>2 DEF b
<1> DEFINE w == Before
<1>5. w = [k \in 0..Fuel |-> IF k = 0 THEN base ELSE FromCalls(w[k - 1])]
  BY <1>4
<1> HIDE DEF w
<1>6. w[0] = base /\ \A n \in 1..Fuel : w[n] = FromCalls(w[n - 1])
  BY <1>5, ParamsAssumption
<1> QED
  BY <1>6 DEF w, base

LEMMA NowUnfolds ==
  /\ Now[0] = [t \in Turns |-> More]
  /\ \A n \in 1..Fuel : Now[n] = FromTurns(Now[n - 1])
<1> DEFINE base == [t \in Turns |-> More]
           Is(r, n) == r = [k \in 0..n |-> IF k = 0 THEN base ELSE FromTurns(r[k - 1])]
           Lacking == {n \in Nat : ~\E r : Is(r, n)}
<1> HIDE DEF base
<1>1. Lacking = {}
  <2>1. SUFFICES ASSUME Lacking # {} PROVE FALSE
    OBVIOUS
  <2>2. PICK n \in Lacking : \A m \in Lacking : n <= m
    BY <2>1, LeastNatural
  <2>3. n \in Nat /\ ~\E r : Is(r, n)
    OBVIOUS
  <2>4. CASE n = 0
    <3> DEFINE r == [k \in 0..0 |-> base]
    <3>1. Is(r, 0)
      OBVIOUS
    <3> QED
      BY <2>3, <2>4, <3>1
  <2>5. CASE n # 0
    <3>1. n - 1 \in Nat /\ ~(n <= n - 1)
      BY <2>3, <2>5
    <3>2. PICK q : Is(q, n - 1)
      BY <2>2, <3>1
    <3> DEFINE r == [k \in 0..n |-> IF k = n THEN FromTurns(q[n - 1]) ELSE q[k]]
    <3>3. \A k \in 0..(n - 1) : r[k] = q[k]
      BY <2>3
    <3>4. ASSUME NEW k \in 0..n
          PROVE  r[k] = IF k = 0 THEN base ELSE FromTurns(r[k - 1])
      <4>1. CASE k = n
        <5>1. r[k - 1] = q[n - 1] /\ r[k] = FromTurns(q[n - 1])
          BY <2>3, <3>1, <3>3, <4>1
        <5> QED
          BY <2>5, <4>1, <5>1
      <4>2. CASE k # n
        <5>1. k \in 0..(n - 1) /\ (k # 0 => k - 1 \in 0..(n - 1))
          BY <2>3, <4>2
        <5>2. r[k] = IF k = 0 THEN base ELSE FromTurns(q[k - 1])
          BY <3>2, <3>3, <5>1
        <5>3. k # 0 => r[k - 1] = q[k - 1]
          BY <3>3, <5>1
        <5> QED
          BY <5>2, <5>3
      <4> QED
        BY <4>1, <4>2
    <3>5. Is(r, n)
      <4>1. r = [k \in 0..n |-> r[k]]
        OBVIOUS
      <4> HIDE DEF r
      <4> QED
        BY <3>4, <4>1
    <3> QED
      BY <2>3, <3>5
  <2> QED
    BY <2>4, <2>5
<1>2. \E r : Is(r, Fuel)
  BY <1>1, ParamsAssumption
<1>3. Now = CHOOSE r : Is(r, Fuel)
  BY DEF Now, base
<1>4. Is(Now, Fuel)
  <2> DEFINE b == Now
  <2>1. b = CHOOSE r : Is(r, Fuel)
    BY <1>3
  <2> HIDE DEF b
  <2>2. Is(b, Fuel)
    BY <1>2, <2>1
  <2> QED
    BY <2>2 DEF b
<1> DEFINE w == Now
<1>5. w = [k \in 0..Fuel |-> IF k = 0 THEN base ELSE FromTurns(w[k - 1])]
  BY <1>4
<1> HIDE DEF w
<1>6. w[0] = base /\ \A n \in 1..Fuel : w[n] = FromTurns(w[n - 1])
  BY <1>5, ParamsAssumption
<1> QED
  BY <1>6 DEF w, base

------------------------------------------------------------------------------
(* What a turn computes: with phis for the first m parameters, it has the     *)
(* values of a call whose parameters are Joined.                              *)

Joined(x, ph, m) == [p \in Params |-> IF p <= m THEN ph[p] ELSE x[p]]

LEMMA JoinedIsInput ==
  ASSUME NEW m \in 0..P, NEW x \in Inputs, NEW ph \in [1..m -> Numbers]
  PROVE  Joined(x, ph, m) \in Inputs
<1>1. P \in Nat /\ m \in Nat
  BY ParamsAssumption
<1>2. ASSUME NEW p \in Params PROVE (IF p <= m THEN ph[p] ELSE x[p]) \in Numbers
  BY <1>1 DEF Params, Inputs
<1> QED
  BY <1>2 DEF Joined, Inputs

LEMMA Remainder ==
  /\ Modulus \in Nat \ {0}
  /\ \A v \in Int : v % Modulus \in Numbers
  /\ \A v \in Numbers : v \in Int /\ v # NoValue /\ v - 0 = v /\ v % Modulus = v /\ v \in 0..Modulus
BY ParamsAssumption DEF Numbers, NoValue

\* The values that are there in a call, and in a turn.
LEMMA ValuesOfCall ==
  ASSUME NEW x \in Inputs
  PROVE  \A v \in 0..P : /\ Env(x, << >>)[v] = IF v = 0 THEN 0 ELSE x[v]
                         /\ Env(x, << >>)[v] \in Numbers
<1>1. P \in Nat /\ Modulus \in Nat \ {0}
  BY ParamsAssumption
<1>2. Len(<< >>) = 0
  OBVIOUS
<1>3. ASSUME NEW v \in 0..P
      PROVE  /\ Env(x, << >>)[v] = IF v = 0 THEN 0 ELSE x[v]
             /\ Env(x, << >>)[v] \in Numbers
  <2>1. Env(x, << >>)[v] = IF v = 0 THEN 0 ELSE x[v]
    BY <1>1, <1>2 DEF Env
  <2>2. v # 0 => x[v] \in Numbers
    BY <1>1 DEF Inputs, Params
  <2>3. 0 \in Numbers
    BY <1>1 DEF Numbers
  <2> QED
    BY <2>1, <2>2, <2>3
<1> QED
  BY <1>3

LEMMA ValuesOfTurn ==
  ASSUME NEW m \in 0..P, NEW x \in Inputs, NEW ph \in [1..m -> Numbers]
  PROVE  /\ Env(x, ph)[0] = 0
         /\ \A p \in Params :
              Env(x, ph)[IF p <= m THEN P + p ELSE p] = Joined(x, ph, m)[p]
<1>1. P \in Nat /\ m \in Nat
  BY ParamsAssumption
<1>2. ph \in Seq(Numbers) /\ Len(ph) = m
  BY <1>1
<1>3. Env(x, ph) = [v \in 0..(P + m) |-> IF v = 0 THEN 0 ELSE IF v <= P THEN x[v] ELSE ph[v - P]]
  BY <1>2 DEF Env
<1>4. Env(x, ph)[0] = 0
  BY <1>1, <1>3
<1>5. ASSUME NEW p \in Params
      PROVE  Env(x, ph)[IF p <= m THEN P + p ELSE p] = Joined(x, ph, m)[p]
  <2>1. p \in 1..P /\ Joined(x, ph, m)[p] = IF p <= m THEN ph[p] ELSE x[p]
    BY DEF Params, Joined
  <2>2. CASE p <= m
    <3>1. P + p \in 0..(P + m) /\ P + p # 0 /\ ~(P + p <= P) /\ (P + p) - P = p
      BY <1>1, <2>1, <2>2
    <3> QED
      BY <1>3, <2>1, <2>2, <3>1
  <2>3. CASE ~(p <= m)
    <3>1. p \in 0..(P + m) /\ p # 0 /\ p <= P
      BY <1>1, <2>1
    <3> QED
      BY <1>3, <2>1, <2>3, <3>1
  <2> QED
    BY <2>2, <2>3
<1> QED
  BY <1>4, <1>5

LEMMA ValueKept ==
  ASSUME NEW m \in 0..P, NEW x \in Inputs, NEW ph \in [1..m -> Numbers], NEW a \in Arguments
  PROVE  /\ Of(Rewritten(a, m), Env(x, ph)) = Of(a, Env(Joined(x, ph, m), << >>))
         /\ Of(a, Env(Joined(x, ph, m), << >>)) \in Numbers
<1>1. P \in Nat /\ m \in Nat /\ a.of \in 0..P /\ a.less \in Numbers
  BY ArgumentParts, ParamsAssumption
<1> DEFINE z == Joined(x, ph, m)
           call0 == Env(z, << >>)
           turn == Env(x, ph)
           b == Rewritten(a, m)
<1>2. z \in Inputs
  BY JoinedIsInput
<1>3. b.of = (IF a.of \in 1..m THEN P + a.of ELSE a.of) /\ b.less = a.less
  BY DEF Rewritten
<1>4. call0[a.of] = (IF a.of = 0 THEN 0 ELSE z[a.of]) /\ call0[a.of] \in Numbers
  BY <1>1, <1>2, ValuesOfCall
<1>5. turn[b.of] = call0[a.of]
  <2>1. CASE a.of = 0
    BY <1>3, <1>4, <2>1, ValuesOfTurn
  <2>2. CASE a.of # 0
    <3>1. a.of \in Params /\ (a.of \in 1..m <=> a.of <= m)
      BY <1>1, <2>2 DEF Params
    <3>2. turn[IF a.of <= m THEN P + a.of ELSE a.of] = z[a.of]
      BY <3>1, ValuesOfTurn
    <3>3. b.of = IF a.of <= m THEN P + a.of ELSE a.of
      BY <1>3, <3>1
    <3> QED
      BY <1>4, <2>2, <3>2, <3>3
  <2> QED
    BY <2>1, <2>2
<1> HIDE DEF z, call0, turn, b
<1>6. ASSUME NEW v \in Numbers, NEW w \in Numbers
      PROVE  v # NoValue /\ (v - w) % Modulus \in Numbers
  <2>1. v \in Int /\ w \in Int /\ v # NoValue
    BY Remainder
  <2>2. v - w \in Int
    BY <2>1
  <2> QED
    BY <2>1, <2>2, Remainder
<1>7. call0[a.of] # NoValue /\ (call0[a.of] - a.less) % Modulus \in Numbers
  BY <1>1, <1>4, <1>6
<1>8. Of(b, turn) = Of(a, call0) /\ Of(a, call0) \in Numbers
  BY <1>3, <1>5, <1>7 DEF Of
<1> QED
  BY <1>8 DEF z, call0, turn, b

\* The arguments of a call, and of the turn for it.
LEMMA PassedKept ==
  ASSUME f \in Functions, NEW m \in 0..P, WithPhis(m), NEW k \in 1..Len(f.calls),
         NEW x \in Inputs, NEW ph \in [1..m -> Numbers]
  PROVE  /\ Passed(operands[k], Env(x, ph))
               = Passed(f.calls[k].args, Env(Joined(x, ph, m), << >>))
         /\ f.calls[k].recursive
              => Passed(f.calls[k].args, Env(Joined(x, ph, m), << >>)) \in Inputs
<1> DEFINE s == f.calls[k].args
           o == operands[k]
           z == Joined(x, ph, m)
<1>1. Len(s) \in Nat /\ \A n \in 1..Len(s) : s[n] \in Arguments
  BY CallsOf
<1>2. o = [n \in 1..Len(s) |-> Rewritten(s[n], m)]
  BY DEF WithPhis, RewrittenCalls
<1>3. f.calls[k].recursive => Len(s) = P
  BY CallsOf
<1> HIDE DEF s, o
<1>4. Len(o) = Len(s)
  BY <1>1, <1>2
<1>5. ASSUME NEW n \in 1..Len(s)
      PROVE  /\ Of(o[n], Env(x, ph)) = Of(s[n], Env(z, << >>))
             /\ Of(s[n], Env(z, << >>)) \in Numbers
  BY <1>1, <1>2, ValueKept
<1> HIDE DEF z
<1>6. Passed(o, Env(x, ph)) = Passed(s, Env(z, << >>))
  BY <1>4, <1>5 DEF Passed
<1>7. Len(s) = P => Passed(s, Env(z, << >>)) \in Inputs
  BY <1>5 DEF Passed, Inputs, Params
<1> QED
  BY <1>3, <1>6, <1>7 DEF s, o, z

\* A turn that is entered has the parameters of the call.
LEMMA Entering ==
  ASSUME NEW m \in 0..P, WithPhis(m), NEW y \in Inputs
  PROVE  \E ph \in [1..m -> Numbers] :
            Enter(y) = [x |-> y, ph |-> ph] /\ Joined(y, ph, m) = y
<1>1. P \in Nat /\ m \in Nat
  BY ParamsAssumption
<1>2. phis = RewrittenPhis(m) /\ Len(phis) = m
  BY <1>1 DEF WithPhis, RewrittenPhis
<1> DEFINE none == [n \in 1..m |-> NoValue]
           ph == [n \in 1..m |-> y[n]]
<1>3. none \in Seq({NoValue}) /\ Len(none) = m
  BY <1>1, IsASeq
<1>4. \A n \in 1..m : y[n] \in Numbers
  BY <1>1 DEF Inputs, Params
<1>5. ASSUME NEW n \in 1..m
      PROVE  Of(phis[n].entry, Env(y, none)) = y[n]
  <2>1. phis[n].entry = [of |-> n, less |-> 0]
    BY <1>2 DEF RewrittenPhis
  <2>2. n \in 0..(P + m) /\ n # 0 /\ n <= P
    BY <1>1
  <2>3. Env(y, none)[n] = y[n]
    BY <1>3, <2>2 DEF Env
  <2>4. y[n] # NoValue /\ y[n] - 0 = y[n] /\ y[n] % Modulus = y[n]
    BY <1>4, Remainder
  <2> QED
    BY <2>1, <2>3, <2>4 DEF Of
<1>6. Enter(y) = [x |-> y, ph |-> [n \in 1..m |-> Of(phis[n].entry, Env(y, none))]]
  BY <1>2 DEF Enter
<1> HIDE DEF none
<1>7. Enter(y) = [x |-> y, ph |-> ph]
  BY <1>5, <1>6
<1>8. ph \in [1..m -> Numbers]
  BY <1>4
<1>9. Joined(y, ph, m) = y
  <2>1. \A p \in Params : (IF p <= m THEN ph[p] ELSE y[p]) = y[p]
    BY <1>1 DEF Params
  <2>2. y = [p \in Params |-> y[p]]
    BY DEF Inputs
  <2> HIDE DEF ph
  <2> QED
    BY <2>1, <2>2 DEF Joined
<1> QED
  BY <1>7, <1>8, <1>9

\* The loop has gone over the arguments, with m phis made.
Finished(m) ==
  WithPhis(m) /\ (m = P \/ (m = P - 1 /\ PassedOn))

\* The turn that a turn jumps to has the parameters of the call it is for.
LEMMA Jumping ==
  ASSUME f \in Functions, call \in 1..Len(f.calls), CanEliminate(f.calls[call]),
         NEW m \in 0..P, Finished(m), NEW x \in Inputs, NEW ph \in [1..m -> Numbers]
  PROVE  LET back == [n \in 1..Len(phis) |-> Of(phis[n].back, Env(x, ph))]
         IN  /\ back \in [1..m -> Numbers]
             /\ Joined(x, back, m)
                  = Passed(f.calls[call].args, Env(Joined(x, ph, m), << >>))
<1> DEFINE s == f.calls[call].args
           z == Joined(x, ph, m)
           y == Passed(s, Env(z, << >>))
           back == [n \in 1..Len(phis) |-> Of(phis[n].back, Env(x, ph))]
<1>1. P \in Nat /\ m \in Nat
  BY ParamsAssumption
<1>2. phis = RewrittenPhis(m) /\ Len(phis) = m
  BY <1>1 DEF Finished, WithPhis, RewrittenPhis
<1>3. Len(s) = P /\ \A n \in 1..P : s[n] \in Arguments
  BY CallsOf DEF CanEliminate
<1>4. z \in Inputs
  BY JoinedIsInput
<1>5. y \in Inputs
  BY PassedKept DEF Finished, CanEliminate
<1>6. ASSUME NEW n \in Params
      PROVE  y[n] = Of(s[n], Env(z, << >>)) /\ s[n] \in Arguments
  BY <1>3, <1>6 DEF Passed, Params
<1>7. ASSUME NEW n \in 1..m
      PROVE  Of(phis[n].back, Env(x, ph)) = y[n] /\ y[n] \in Numbers
  <2>1. n \in Params
    BY <1>1 DEF Params
  <2>2. phis[n].back = Rewritten(s[n], m)
    BY <1>2 DEF RewrittenPhis
  <2> HIDE DEF y, z, s
  <2>3. Of(Rewritten(s[n], m), Env(x, ph)) = Of(s[n], Env(z, << >>))
        /\ Of(s[n], Env(z, << >>)) \in Numbers
    BY <1>6, <2>1, ValueKept DEF z
  <2> QED
    BY <1>6, <2>1, <2>2, <2>3
<1> HIDE DEF y
<1>8. back = [n \in 1..m |-> y[n]]
  BY <1>2, <1>7
<1>9. back \in [1..m -> Numbers]
  BY <1>7, <1>8
<1>10. ASSUME NEW p \in Params, ~(p <= m)
       PROVE  x[p] = y[p]
  <2>1. m = P - 1 /\ PassedOn /\ p = P
    BY <1>1, <1>10 DEF Finished, Params
  <2>2. s[p] = [of |-> p, less |-> 0]
    BY <2>1 DEF PassedOn
  <2>3. p \in 0..P /\ p # 0
    BY <1>1 DEF Params
  <2>4. Env(z, << >>)[p] = z[p]
    <3> HIDE DEF z
    <3> QED
      BY <1>4, <2>3, ValuesOfCall
  <2>5. z[p] = x[p]
    BY <1>10 DEF Joined
  <2>6. x[p] \in Numbers
    BY DEF Inputs
  <2>7. x[p] # NoValue /\ x[p] - 0 = x[p] /\ x[p] % Modulus = x[p]
    BY <2>6, Remainder
  <2> HIDE DEF z, s
  <2>8. Of(s[p], Env(z, << >>)) = x[p]
    BY <2>2, <2>4, <2>5, <2>7 DEF Of
  <2> QED
    BY <1>6, <2>8
<1> HIDE DEF back
<1>11. Joined(x, back, m) = y
  <2>1. ASSUME NEW p \in Params PROVE (IF p <= m THEN back[p] ELSE x[p]) = y[p]
    <3>1. p <= m => p \in 1..m
      BY <1>1 DEF Params
    <3> QED
      BY <1>8, <1>10, <3>1
  <2>2. y = [p \in Params |-> y[p]]
    BY <1>5 DEF Inputs
  <2> QED
    BY <2>1, <2>2 DEF Joined
<1> QED
  BY <1>9, <1>11 DEF back, y, z, s

\* If the turns of a depth agree with the calls of that depth, those of the next
\* depth do.
LEMMA OneTurn ==
  ASSUME f \in Functions, call \in 1..Len(f.calls), CanEliminate(f.calls[call]),
         IsTailCall(f.calls[call]), NEW m \in 0..P, Finished(m), NEW old, NEW new,
         \A x \in Inputs, ph \in [1..m -> Numbers] :
           new[[x |-> x, ph |-> ph]] = old[Joined(x, ph, m)],
         NEW x \in Inputs, NEW ph \in [1..m -> Numbers]
  PROVE  FromTurns(new)[[x |-> x, ph |-> ph]] = FromCalls(old)[Joined(x, ph, m)]
<1> DEFINE t == [x |-> x, ph |-> ph]
           z == Joined(x, ph, m)
           env == Env(x, ph)
           k == Selected(z[2])
           c == f.calls[k]
           y == Passed(c.args, Env(z, << >>))
           back == [n \in 1..Len(phis) |-> Of(phis[n].back, env)]
<1>1. P \in Nat /\ m \in Nat /\ Modulus \in Nat \ {0} /\ 1 \in Params /\ 2 \in Params /\ P \in Params
  BY ParamsAssumption DEF Params
<1>2. Len(phis) = m /\ WithPhis(m)
  BY <1>1 DEF Finished, WithPhis, RewrittenPhis
<1>3. t \in Turns
  <2>1. x \in [Params -> 0..Modulus]
    BY Remainder DEF Inputs
  <2>2. ph \in [1..Len(phis) -> 0..Modulus]
    BY <1>2, Remainder
  <2> QED
    BY <2>1, <2>2 DEF Turns
<1>4. z \in Inputs
  BY JoinedIsInput
<1>5. ASSUME NEW p \in Params PROVE env[use[p]] = z[p] /\ z[p] \in Numbers /\ z[p] # NoValue
  <2>1. use[p] = IF p <= m THEN P + p ELSE p
    BY <1>2 DEF WithPhis, RewrittenUses
  <2>2. z[p] \in Numbers
    BY <1>4 DEF Inputs
  <2>3. z[p] # NoValue
    <3> HIDE DEF z
    <3> QED
      BY <2>2, Remainder
  <2>4. env[IF p <= m THEN P + p ELSE p] = z[p]
    BY ValuesOfTurn
  <2> QED
    BY <2>1, <2>2, <2>3, <2>4
<1>6. k \in 1..Len(f.calls)
  <2>1. Len(f.calls) \in Nat \ {0}
    BY CallsOf
  <2> HIDE DEF z
  <2> QED
    BY <2>1 DEF Selected
<1>7. Passed(operands[k], env) = y /\ (c.recursive => y \in Inputs)
  <2> HIDE DEF k
  <2> QED
    BY <1>2, <1>6, PassedKept
<1>8. FromCalls(old)[z]
        = IF z[1] = 0 THEN z[P]
          ELSE Then(c, IF c.recursive THEN old[y] ELSE External(y), z[P])
  <2> HIDE DEF z
  <2> QED
    BY <1>4 DEF FromCalls
<1>9. FromTurns(new)[t]
        = IF z[1] = 0 THEN z[P]
          ELSE IF k = call THEN new[[x |-> x, ph |-> back]]
          ELSE Then(c, IF c.recursive THEN new[Enter(y)] ELSE External(y), z[P])
  <2>1. t.x = x /\ t.ph = ph
    OBVIOUS
  <2>2. env[use[1]] = z[1] /\ env[use[2]] = z[2] /\ env[use[P]] = z[P]
        /\ NoValue \notin {env[use[1]], env[use[2]]}
    BY <1>1, <1>5
  <2> DEFINE kk == Selected(env[use[2]])
             yy == Passed(operands[kk], env)
  <2>3. FromTurns(new)[t]
          = IF NoValue \in {env[use[1]], env[use[2]]} THEN NoValue
            ELSE IF env[use[1]] = 0 THEN env[use[P]]
            ELSE IF kk = call THEN new[[x |-> x, ph |-> back]]
            ELSE Then(f.calls[kk], IF f.calls[kk].recursive THEN new[Enter(yy)] ELSE External(yy),
                      env[use[P]])
    <3> HIDE DEF t
    <3> QED
      BY <1>3, <2>1 DEF FromTurns
  <2>4. kk = k /\ yy = y
    BY <1>7, <2>2
  <2> HIDE DEF kk, yy, k, y, env, back, z, t
  <2> QED
    BY <2>2, <2>3, <2>4
<1>10. CASE k = call
  <2>1. c.recursive /\ c.next = "itself"
    BY <1>10 DEF CanEliminate, IsTailCall
  <2>2. back \in [1..m -> Numbers] /\ Joined(x, back, m) = y
    BY <1>10, Jumping
  <2> HIDE DEF back, y, k, z, t
  <2>3. new[[x |-> x, ph |-> back]] = old[y]
    BY <2>2
  <2>4. Then(c, old[y], z[P]) = old[y]
    BY <2>1 DEF Then
  <2> QED
    BY <1>8, <1>9, <1>10, <2>1, <2>3, <2>4 DEF t, z
<1>11. CASE k # call
  <2>1. c.recursive => new[Enter(y)] = old[y]
    <3>1. SUFFICES ASSUME c.recursive PROVE new[Enter(y)] = old[y]
      OBVIOUS
    <3> HIDE DEF y
    <3>2. y \in Inputs
      BY <1>7, <3>1
    <3>3. PICK qh \in [1..m -> Numbers] : Enter(y) = [x |-> y, ph |-> qh] /\ Joined(y, qh, m) = y
      BY <1>2, <3>2, Entering
    <3>4. new[[x |-> y, ph |-> qh]] = old[Joined(y, qh, m)]
      BY <3>2
    <3> QED
      BY <3>3, <3>4
  <2> HIDE DEF back, y, k, z, t
  <2> QED
    BY <1>8, <1>9, <1>11, <2>1 DEF t, z
<1> QED
  BY <1>10, <1>11

LEMMA EveryTurn ==
  ASSUME f \in Functions, call \in 1..Len(f.calls), CanEliminate(f.calls[call]),
         IsTailCall(f.calls[call]), NEW m \in 0..P, Finished(m), NEW d \in 0..Fuel,
         NEW x \in Inputs, NEW ph \in [1..m -> Numbers]
  PROVE  Now[d][[x |-> x, ph |-> ph]] = Before[d][Joined(x, ph, m)]
<1> DEFINE Agree(n) == \A v \in Inputs, w \in [1..m -> Numbers] :
                         Now[n][[x |-> v, ph |-> w]] = Before[n][Joined(v, w, m)]
           Apart == {n \in Nat : n <= Fuel /\ ~Agree(n)}
<1>1. P \in Nat /\ m \in Nat /\ Fuel \in Nat
  BY ParamsAssumption
<1>2. Apart = {}
  <2>1. SUFFICES ASSUME Apart # {} PROVE FALSE
    OBVIOUS
  <2>2. PICK n \in Apart : \A k \in Apart : n <= k
    <3>1. Apart \subseteq Nat
      OBVIOUS
    <3> HIDE DEF Apart
    <3> QED
      BY <2>1, <3>1, LeastNatural
  <2>3. n \in Nat /\ n <= Fuel /\ ~Agree(n)
    OBVIOUS
  <2>4. PICK v \in Inputs, w \in [1..m -> Numbers] :
          Now[n][[x |-> v, ph |-> w]] # Before[n][Joined(v, w, m)]
    BY <2>3
  <2>5. Joined(v, w, m) \in Inputs
    BY JoinedIsInput
  <2>6. [x |-> v, ph |-> w] \in Turns
    <3>1. Len(phis) = m
      BY <1>1 DEF Finished, WithPhis, RewrittenPhis
    <3>2. v \in [Params -> 0..Modulus]
      BY Remainder DEF Inputs
    <3>3. w \in [1..Len(phis) -> 0..Modulus]
      BY <3>1, Remainder
    <3> QED
      BY <3>2, <3>3 DEF Turns
  <2>7. CASE n = 0
    <3>1. Now[0][[x |-> v, ph |-> w]] = More
      BY <2>6, NowUnfolds
    <3>2. Before[0][Joined(v, w, m)] = More
      BY <2>5, BeforeUnfolds
    <3> QED
      BY <2>4, <2>7, <3>1, <3>2
  <2>8. CASE n # 0
    <3>1. n \in 1..Fuel /\ n - 1 \in Nat /\ n - 1 <= Fuel /\ ~(n <= n - 1)
      BY <1>1, <2>3, <2>8
    <3>2. Agree(n - 1)
      BY <2>2, <3>1
    <3> DEFINE new == Now[n - 1]
               old == Before[n - 1]
    <3>3. Now[n] = FromTurns(new) /\ Before[n] = FromCalls(old)
      BY <3>1, NowUnfolds, BeforeUnfolds
    <3>4. \A q \in Inputs, r \in [1..m -> Numbers] :
            new[[x |-> q, ph |-> r]] = old[Joined(q, r, m)]
      BY <3>2
    <3> HIDE DEF new, old
    <3>5. FromTurns(new)[[x |-> v, ph |-> w]] = FromCalls(old)[Joined(v, w, m)]
      BY <3>4, OneTurn
    <3> QED
      BY <2>4, <3>3, <3>5
  <2> QED
    BY <2>7, <2>8
<1>3. Agree(d)
  <2>1. d \in Nat /\ d <= Fuel
    BY <1>1
  <2> HIDE DEF Agree
  <2> QED
    BY <1>2, <2>1
<1> QED
  BY <1>3

LEMMA RewriteInvGives == RewriteInv => SameResults
<1> SUFFICES ASSUME RewriteInv, call \in 1..Len(f.calls), CanEliminate(f.calls[call]),
                    stage = "returned", NEW x \in Inputs
             PROVE  Now[Fuel][Enter(x)] = Before[Fuel][x]
  BY DEF SameResults, ResultsKept
<1>1. f \in Functions /\ Len(f.calls) \in Nat /\ P \in Nat /\ Fuel \in Nat
  BY CallsOf, ParamsAssumption DEF RewriteInv
<1>2. IsTailCall(f.calls[call]) /\ Eliminated
  BY <1>1 DEF RewriteInv, Eliminated
<1>3. PICK m \in 0..P : Progress(m)
  BY <1>2 DEF RewriteInv
<1>4. Finished(m)
  BY <1>1, <1>3 DEF Progress, Finished
<1>5. PICK ph \in [1..m -> Numbers] : Enter(x) = [x |-> x, ph |-> ph] /\ Joined(x, ph, m) = x
  BY <1>4, Entering DEF Finished
<1> QED
  BY <1>1, <1>2, <1>4, <1>5, EveryTurn
------------------------------------------------------------------------------
\* Of a row of allocas the first is moved, whatever the entry block holds.
THEOREM AllocasBesideMovedStay == ElimSpec => []AllocasApartMove
<1> QED
  BY AllocasInit, AllocasNext, AllocasInvGives, PTL DEF ElimSpec

\* What the function computes is what it computed, when the call that the pass
\* eliminates is recursive, not marked before, and passes no parameter but the
\* last in its own place: elimTailCall gives every parameter a phi but that one.
THEOREM EliminationKeepsResults == ElimSpec => []SameResults
<1>1. RewriteInv /\ [ElimNext]_elimVars => RewriteInv'
  BY RewriteNext
<1>2. RewriteInv => SameResults
  BY RewriteInvGives
<1> QED
  BY RewriteInit, <1>1, <1>2, PTL DEF ElimSpec

==============================================================================
