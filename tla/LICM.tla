--------------------------------- MODULE LICM ---------------------------------
(****************************************************************************)
(* lib/Optimizations/LICM.cpp: mark the instructions of a loop whose        *)
(* operands are all constants, defined outside, or marked; move what is     *)
(* marked to the end of the preheader, in the order of the marking.         *)
(*                                                                          *)
(* The loop pass manager calls run once for each loop of the function, with *)
(* the same pass object: the four members are not cleared in between.       *)
(*                                                                          *)
(*   "idle" -> "mark" -> "move" -> "idle" -> ... -> "returned"              *)
(*                                                                          *)
(* A function is a record: succ, its graph; order, the instructions in the  *)
(* blocks, terminators left out; phis; fixed, those that are terminators or *)
(* may have side effects; uses[i], the pairs <<v, b>> such that i uses the  *)
(* value of v at b, which is the block of i or, for a phi, the predecessor  *)
(* it takes v from; and loops, the loops in the order the loop pass manager *)
(* has for them.  It has put each in simplified form, with a preheader.     *)
(****************************************************************************)
EXTENDS ControlFlow, Integers, SequencesExt

CONSTANTS
  Instrs,      \* the instructions
  Functions    \* the functions the pass is run on

Loops == [blocks : SUBSET Blocks, preheader : Blocks]

\* The loop pass manager hands out loops that control enters by one edge from
\* the preheader, and that are strongly connected.
Simplified(s, l) ==
  /\ l.preheader \in Reachable(s) \ l.blocks
  /\ Entry \notin l.blocks
  /\ \E header \in l.blocks :
       /\ s[l.preheader] = {header}
       /\ \A b \in l.blocks : Preds(s, b) \subseteq l.blocks \cup {l.preheader}
       /\ \A S \in SUBSET l.blocks :
            header \in S /\ (\A b \in S : s[b] \cap l.blocks \subseteq S) => S = l.blocks

\* Nothing stands twice in s; and i stands in front of j.
Distinct(s) == \A m, n \in 1..Len(s) : s[m] = s[n] => m = n
Before(s, i, j) == \E m, n \in 1..Len(s) : m < n /\ s[m] = i /\ s[n] = j

\* The instructions of g are in the blocks as o has them.  Where i uses v: in
\* its block, or at the end of a predecessor; and the value of v is there.
UseBlocks(g, o, i, u) == IF i \in g.phis THEN {u[2]} ELSE {b \in Blocks : i \in ToSet(o[b])}

Available(g, o, v, i, b, D) ==
  IF i \notin g.phis /\ v \in ToSet(o[b]) THEN Before(o[b], v, i)
  ELSE \E c \in Blocks : v \in ToSet(o[c]) /\ <<c, b>> \in D

InSSAForm(g, o) ==
  LET D == Dominance(g.succ)
  IN  \A i \in Instrs : \A u \in g.uses[i] : \A b \in UseBlocks(g, o, i, u) :
        Available(g, o, u[1], i, b, D)

WellFormed(g) ==
  /\ g.succ \in CFGs
  /\ g.order \in [Blocks -> Seq(Instrs)]
  /\ \A b \in Blocks : Distinct(g.order[b])
  /\ \A b, c \in Blocks : b # c => ToSet(g.order[b]) \cap ToSet(g.order[c]) = {}
  /\ g.phis \subseteq Instrs /\ g.fixed \subseteq Instrs
  /\ g.uses \in [Instrs -> SUBSET (Instrs \X Blocks)]
  /\ g.loops \in Seq(Loops) \ {<< >>}
  /\ \A k \in 1..Len(g.loops) : Simplified(g.succ, g.loops[k])
  /\ InSSAForm(g, g.order)

ASSUME FunctionsAssumption == \A g \in Functions : WellFormed(g)

VARIABLES
  f,                  \* the function, as it was
  order,              \* the instructions in the blocks now
  loop,               \* the number of the loop that run was last called for
  phase,
  loopDefinedValues,  \* members of the pass object
  worklist,
  invariantValues,
  invariantSequence,
  rest                \* what of invariantSequence is still to be moved

vars == <<f, order, loop, phase, loopDefinedValues, worklist, invariantValues,
          invariantSequence, rest>>

Init ==
  /\ f \in Functions
  /\ order = f.order
  /\ loop = 0 /\ phase = "idle"
  /\ loopDefinedValues = {} /\ worklist = {}
  /\ invariantValues = {} /\ invariantSequence = << >>
  /\ rest = << >>

Operands(i) == {u[1] : u \in f.uses[i]}
Users(i) == {u \in Instrs : i \in Operands(u)}
InLoop(l) == UNION {ToSet(order[b]) : b \in f.loops[l].blocks}

\* An instruction stands in one place at most.
Without(s, i) ==
  IF i \in ToSet(s) THEN RemoveAt(s, CHOOSE k \in 1..Len(s) : s[k] = i) ELSE s

------------------------------------------------------------------------------
(* Marking *)

\* run is called for the next loop.
Begin ==
  /\ phase = "idle" /\ loop < Len(f.loops)
  /\ phase' = "mark"
  /\ loop' = loop + 1
  /\ loopDefinedValues' = loopDefinedValues \cup InLoop(loop')
  /\ worklist' = worklist \cup (InLoop(loop') \ f.fixed)
  /\ UNCHANGED <<f, order, invariantValues, invariantSequence, rest>>

IsInvariant(i) == Operands(i) \cap loopDefinedValues \subseteq invariantValues

\* The definitions named X_... are X with a slip; the specification does not
\* use them.
Recheck_Marked(i) == (Users(i) \ f.fixed) \cup {i}
Recheck_None(i) == {}

\* The users that may have become invariant with i, in the loop or not.
Recheck(i) == Users(i) \ f.fixed

\* The vector may get an instruction twice.  Moving it the second time undoes
\* the first move, so the last place is the one that is kept.
Listed_InFront(i) == <<i>> \o Without(invariantSequence, i)

Listed(i) == Append(Without(invariantSequence, i), i)

\* *worklist.begin() is whatever element the hash table has first.
Examine(i) ==
  /\ phase = "mark" /\ i \in worklist
  /\ IF IsInvariant(i)
     THEN /\ invariantValues' = invariantValues \cup {i}
          /\ invariantSequence' = Listed(i)
          /\ worklist' = (worklist \ {i}) \cup Recheck(i)
     ELSE /\ worklist' = worklist \ {i}
          /\ UNCHANGED <<invariantValues, invariantSequence>>
  /\ UNCHANGED <<f, order, loop, phase, loopDefinedValues, rest>>

StartMove ==
  /\ phase = "mark" /\ worklist = {}
  /\ phase' = "move"
  /\ rest' = invariantSequence
  /\ UNCHANGED <<f, order, loop, loopDefinedValues, worklist, invariantValues,
                 invariantSequence>>

------------------------------------------------------------------------------
(* Moving *)

Preheader == f.loops[loop].preheader

\* moveBefore(preheader->getTerminator()), wherever the instruction is.
Move ==
  /\ phase = "move" /\ rest # << >>
  /\ order' = [b \in Blocks |->
                 IF b = Preheader THEN Append(Without(order[b], Head(rest)), Head(rest))
                 ELSE Without(order[b], Head(rest))]
  /\ rest' = Tail(rest)
  /\ UNCHANGED <<f, loop, phase, loopDefinedValues, worklist, invariantValues,
                 invariantSequence>>

Return ==
  /\ phase = "move" /\ rest = << >>
  /\ phase' = IF loop = Len(f.loops) THEN "returned" ELSE "idle"
  /\ UNCHANGED <<f, order, loop, loopDefinedValues, worklist, invariantValues,
                 invariantSequence, rest>>

Returned == phase = "returned" /\ UNCHANGED vars

Run ==
  \/ Begin
  \/ \E i \in worklist : Examine(i)
  \/ StartMove
  \/ Move
  \/ Return

Next == Run \/ Returned

\* The pass is one thread that nothing blocks, and the pass manager calls it
\* for every loop.
Spec == Init /\ [][Next]_vars /\ WF_vars(Run)

------------------------------------------------------------------------------
(* Properties *)

DefinedIn(g, l) == UNION {ToSet(g.order[b]) : b \in g.loops[l].blocks}

\* The instructions of loop l of g that the head of LICM.cpp (lines 4-7) calls
\* invariant: the least set that holds an instruction when it holds those of
\* its operands that are defined in the loop.
LoopInvariant(g, l) ==
  LET movable == DefinedIn(g, l) \ g.fixed
      Enabled(S) == {i \in movable : \A u \in g.uses[i] : u[1] \in DefinedIn(g, l) => u[1] \in S}
      closed == {S \in SUBSET movable : Enabled(S) \subseteq S}
  IN  {i \in movable : \A S \in closed : i \in S}

\* The functions LICM can cope with: no phi has only invariant values, and
\* nothing that can be moved computes with invariants alone behind the loop.
Tame(g) ==
  LET invariant == LoopInvariant(g, 1)
      InLoopOf(i) == {u[1] : u \in g.uses[i]} \cap DefinedIn(g, 1)
  IN  /\ g.phis \cap invariant = {}
      /\ \A i \in Instrs \ (DefinedIn(g, 1) \cup g.fixed) :
           InLoopOf(i) = {} \/ ~(InLoopOf(i) \subseteq invariant)

\* The first run of the pass object takes exactly the invariant instructions
\* from the blocks of the loop, leaves the others as they were ordered, and
\* adds to the end of the preheader, however the hash table orders the work.
HoistsExactly ==
  loop = 1 /\ phase \in {"idle", "returned"} =>
    LET invariant == LoopInvariant(f, 1)
        pre == f.loops[1].preheader
    IN  /\ \A b \in Blocks : Distinct(order[b])
        /\ \A b \in Blocks \ {pre} : ToSet(order[b]) = ToSet(f.order[b]) \ invariant
        /\ ToSet(order[pre]) = ToSet(f.order[pre]) \cup invariant
        /\ \A b \in Blocks : \A i, j \in ToSet(order[b]) :
             Before(f.order[b], i, j) => Before(order[b], i, j)
        /\ \A i \in ToSet(f.order[pre]), j \in invariant : Before(order[pre], i, j)

\* `We move loop invariant values in this order, to make sure invariant
\* instructions dominate all its uses' (LICM.h): in every state, after each
\* single move as well, a definition dominates its uses.
DefinitionsDominateUses == InSSAForm(f, order)

\* `Iterate until the worklist is empty' (lines 85-86): it gets empty, and run
\* returns for every loop.
Returns == <>(phase = "returned")

==============================================================================
