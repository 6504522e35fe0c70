-------------- MODULE SparseConditionalConstantPropagationProofs --------------
(****************************************************************************)
(* Proofs about SparseConditionalConstantPropagation, for every function    *)
(* that LLVM's verifier accepts: a pass object on its first function visits *)
(* the blocks that can be reached once branches on constants are jumps,     *)
(* folds all there is to fold in one visit, and deletes the other blocks    *)
(* without leaving a use of anything in them.                               *)
(*                                                                          *)
(* A look at freed memory ends in the phase "undefined", of which nothing   *)
(* is claimed.                                                              *)
(****************************************************************************)
EXTENDS SparseConditionalConstantPropagation, DominanceTheorems, SequenceTheorems

Visiting == phase \in {"visit", "fold"}
Deleting == phase \in {"delete", "clean", "returned"}
InRun == Visiting \/ Deleting

\* What each phase has used up.
Shape ==
  /\ phase \in {"visit", "delete"} => todo = {}
  /\ Deleting => BBWorkList = << >>
  /\ phase = "fold" => rest = << >>
  /\ phase = "delete" => Len(rest) <= Len(code.order)
  /\ phase = "clean" => Len(rest) < Len(code.order)

\* A member that survives cannot matter: no second function is visited.
FirstFunction ==
  /\ phase = "idle" => BBExecutable = {} \/ Entry \in BBExecutable
  /\ InRun => given \in Functions /\ BBExecutable \subseteq ToSet(given.order)

\* Instructions stay in their block, and only a visited block loses targets.
SameFrame ==
  InRun =>
    /\ \A i \in Adds : code.add[i].block = given.add[i].block
    /\ \A p \in Phis : code.phi[p].block = given.phi[p].block
    /\ \A b \in Blocks : ToSet(code.targets[b]) \subseteq ToSet(given.targets[b])
    /\ \A b \in Blocks \ BBExecutable : code.targets[b] = given.targets[b]
    /\ Visiting => code.order = given.order

D == Dominance(Succ(given))

\* Blocks that will be visited.
Ahead == ToSet(BBWorkList) \cup ToSet(rest)

\* A block is visited after the blocks that dominate it.
DominatorsFirst ==
  /\ InRun => \A b \in BBExecutable, d \in Blocks : <<d, b>> \in D => d \in BBExecutable
  /\ Visiting =>
       \A b \in Ahead, d \in Blocks : <<d, b>> \in D => d = b \/ d \in BBExecutable

\* Each successor of a visited block is visited or will be.
NoneLost ==
  Visiting =>
    /\ Entry \in BBExecutable \cup Ahead
    /\ phase = "fold" => block \in BBExecutable
    /\ \A b \in BBExecutable :
         (phase = "fold" /\ b = block)
           \/ ToSet(code.targets[b]) \subseteq BBExecutable \cup Ahead

\* What is visited, or will be, is reached by way of the blocks in W.
Through(W) ==
  \A S \in SUBSET Blocks :
    Entry \in S /\ (\A b \in S \cap W : ToSet(code.targets[b]) \subseteq S)
      => BBExecutable \cup Ahead \subseteq S

\* Nothing can be folded in b any more.
Settled(b) ==
  /\ \A i \in Adds \cap code.live : code.add[i].block = b => ~Foldable(i)
  /\ IsConditional(b) => code.cond[b] \notin Consts

\* On the first visit of a block neither what it computes nor its branch has
\* played a part so far.
FirstVisit ==
  /\ \A b \in BBExecutable \ {block} : <<block, b>> \notin D
  /\ Through(BBExecutable \ {block})
  /\ \A i \in Adds \cap code.live : code.add[i].block = block /\ i \notin todo =>
       ~Foldable(i) /\ \A j \in todo : i < j

\* One visit settles a block for good.
OneVisitSettles ==
  /\ phase = "visit" => Through(BBExecutable) /\ \A b \in BBExecutable : Settled(b)
  /\ phase = "fold" =>
       /\ todo \subseteq {i \in Adds \cap code.live : code.add[i].block = block}
       /\ \A b \in BBExecutable \ {block} : Settled(b)
       /\ FirstVisit \/ (Settled(block) /\ Through(BBExecutable))
  /\ phase = "delete" =>
       (\A b \in BBExecutable : Settled(b)) \/ Len(code.order) < Len(given.order)
  /\ phase \in {"delete", "clean"} => Len(code.order) <= Len(given.order)

\* Until the deleting starts the function is in SSA form.
InSSAForm ==
  Visiting =>
    /\ \A b \in ToSet(code.order) : Defined(code, D, code.cond[b], b)
    /\ \A i \in Adds \cap code.live :
         \A v \in {code.add[i].lhs, code.add[i].rhs} :
           /\ Defined(code, D, v, code.add[i].block)
           /\ v \in Adds /\ code.add[v].block = code.add[i].block =>
                v < i \/ code.add[i].block \notin Reachable(Succ(given))
    /\ \A p \in Phis \cap code.live :
         /\ code.phi[p].from \subseteq ToSet(code.order)
         /\ \A q \in code.phi[p].from : Defined(code, D, code.phi[p].values[q], q)

\* Behind the deleting loop only visited blocks are left, and those are the
\* reachable ones.
Layout ==
  Deleting =>
    LET here == Len(code.order) - Len(rest)
    IN  /\ BBExecutable = Reachable(Succ(code))
        /\ BBExecutable \subseteq Present
        /\ here \in Nat
        /\ \A k \in 1..Len(rest) : rest[k] = code.order[here + k]
        /\ \A k \in 1..here : code.order[k] \notin BBExecutable =>
             phase = "clean" /\ k = here
        /\ phase = "clean" => /\ here >= 1 /\ code.order[here] = block
                              /\ block \notin BBExecutable
        /\ phase = "returned" => rest = << >>

\* What is left stands in a block that is left.
InPlace ==
  InRun => /\ \A i \in Adds \cap code.live : code.add[i].block \in Present
           /\ \A p \in Phis \cap code.live : code.phi[p].block \in Present

\* A phi has a value for each visited predecessor, and for no block that is
\* behind the deleting loop and gone.
PhisFollow ==
  InRun =>
    \A p \in Phis \cap code.live :
      LET b == code.phi[p].block
      IN  /\ \A q \in code.phi[p].from : b \in ToSet(given.targets[q])
          /\ \A q \in Present :
               (Visiting \/ q \in BBExecutable) /\ b \in ToSet(code.targets[q]) =>
                 q \in code.phi[p].from
          /\ Deleting => \A q \in code.phi[p].from :
               \/ q \in BBExecutable \cup ToSet(rest)
               \/ phase = "clean" /\ p \in todo /\ q = block

\* A value that the deleting does not touch.
Safe(v) ==
  v \in Adds \cup Phis => v \in code.live /\ DefBlock(code, v) \in BBExecutable

\* The visited blocks use nothing else.
SafeUses ==
  Deleting =>
    /\ \A b \in BBExecutable : Safe(code.cond[b])
    /\ \A i \in Adds \cap code.live : code.add[i].block \in BBExecutable =>
         Safe(code.add[i].lhs) /\ Safe(code.add[i].rhs)
    /\ \A p \in Phis \cap code.live : code.phi[p].block \in BBExecutable =>
         \A q \in code.phi[p].from \cap BBExecutable : Safe(code.phi[p].values[q])

\* The phis to be cleaned are those of successors of the block that goes.
ToClean ==
  phase = "clean" =>
    todo \subseteq {p \in Phis \cap code.live : code.phi[p].block \in ToSet(code.targets[block])}

IInv ==
  /\ TypeOK /\ Shape
  /\ FirstFunction /\ SameFrame /\ DominatorsFirst /\ NoneLost
  /\ OneVisitSettles /\ InSSAForm /\ Layout /\ InPlace /\ PhisFollow /\ SafeUses /\ ToClean

------------------------------------------------------------------------------
(* Functions *)

LEMMA ConstsAre ==
  /\ 0 \in Consts /\ Consts \subseteq Values
  /\ \A l, r \in Consts : (l + r) % 2 ^ Width \in Consts
<1> DEFINE n == 2 ^ Width
<1>1. n \in Nat \ {0} /\ Consts = 0..(n - 1)
  BY WidthAssumption DEF Consts
<1> HIDE DEF n
<1>2. \A l, r \in Consts : (l + r) % n \in Consts
  BY <1>1
<1>3. 0 \in Consts /\ Consts \subseteq Values
  BY <1>1 DEF Values
<1> QED
  BY <1>2, <1>3 DEF n

\* The parts of a function and their types.
LEMMA CodeFields ==
  ASSUME NEW c \in Codes
  PROVE  /\ c.order \in Seq(Blocks) /\ c.targets \in [Blocks -> Seq(NonEntry)]
         /\ c.cond \in [Blocks -> Values] /\ c.live \subseteq Adds \cup Phis
         /\ \A i \in Adds : /\ c.add[i].block \in Blocks
                            /\ c.add[i].lhs \in Values /\ c.add[i].rhs \in Values
         /\ \A p \in Phis : /\ c.phi[p].block \in Blocks /\ c.phi[p].from \subseteq Blocks
                            /\ c.phi[p].values \in [Blocks -> Values]
<1>1. \A i \in Adds : c.add[i] \in AddCodes
  BY DEF Codes
<1>2. \A p \in Phis : c.phi[p] \in PhiCodes
  BY DEF Codes
<1>3. \A i \in Adds : /\ c.add[i].block \in Blocks
                      /\ c.add[i].lhs \in Values /\ c.add[i].rhs \in Values
  BY <1>1 DEF AddCodes
<1>4. \A p \in Phis : /\ c.phi[p].block \in Blocks /\ c.phi[p].from \subseteq Blocks
                      /\ c.phi[p].values \in [Blocks -> Values]
  BY <1>2 DEF PhiCodes
<1>5. /\ c.order \in Seq(Blocks) /\ c.targets \in [Blocks -> Seq(NonEntry)]
      /\ c.cond \in [Blocks -> Values] /\ c.live \subseteq Adds \cup Phis
  BY DEF Codes
<1> QED
  BY <1>3, <1>4, <1>5

\* The graph of a function.
LEMMA SuccIsGraph ==
  ASSUME NEW c \in Codes
  PROVE  /\ Succ(c) \in CFGs
         /\ \A b \in Blocks : Succ(c)[b] = ToSet(c.targets[b])
         /\ \A b \in Blocks : ToSet(c.targets[b]) \subseteq NonEntry
<1>1. \A b \in Blocks : c.targets[b] \in Seq(NonEntry)
  BY DEF Codes
<1>2. \A b \in Blocks : ToSet(c.targets[b]) \subseteq NonEntry
  BY <1>1, Elements
<1> QED
  BY <1>2 DEF Succ, CFGs

Renamed(v, w, x) == IF x = v THEN w ELSE x

\* What replaceAllUsesWith does and what it leaves alone.
LEMMA SubstitutedFields ==
  ASSUME NEW c \in Codes, NEW v, NEW w \in Values
  PROVE  LET n == Substituted(c, v, w)
         IN  /\ n \in Codes
             /\ n.order = c.order /\ n.targets = c.targets /\ n.live = c.live \ {v}
             /\ \A b \in Blocks : n.cond[b] = Renamed(v, w, c.cond[b])
             /\ \A i \in Adds : /\ n.add[i].block = c.add[i].block
                                /\ n.add[i].lhs = Renamed(v, w, c.add[i].lhs)
                                /\ n.add[i].rhs = Renamed(v, w, c.add[i].rhs)
             /\ \A p \in Phis : /\ n.phi[p].block = c.phi[p].block
                                /\ n.phi[p].from = c.phi[p].from
                                /\ \A b \in Blocks : n.phi[p].values[b] =
                                     Renamed(v, w, c.phi[p].values[b])
<1> DEFINE cond == [b \in Blocks |-> Renamed(v, w, c.cond[b])]
           add == [i \in Adds |-> [c.add[i] EXCEPT !.lhs = Renamed(v, w, @), !.rhs = Renamed(v, w, @)]]
           phi == [p \in Phis |->
                     [c.phi[p] EXCEPT !.values = [b \in Blocks |-> Renamed(v, w, @[b])]]]
           live == c.live \ {v}
           n == [c EXCEPT !.cond = cond, !.add = add, !.phi = phi, !.live = live]
<1>1. Substituted(c, v, w) = n
  BY DEF Substituted, Renamed
<1>2. \A x \in Values : Renamed(v, w, x) \in Values
  BY DEF Renamed
<1>3. cond \in [Blocks -> Values] /\ \A b \in Blocks : cond[b] = Renamed(v, w, c.cond[b])
  BY <1>2 DEF Codes
<1>4. ASSUME NEW i \in Adds
      PROVE  /\ add[i] \in AddCodes
             /\ add[i].block = c.add[i].block
             /\ add[i].lhs = Renamed(v, w, c.add[i].lhs)
             /\ add[i].rhs = Renamed(v, w, c.add[i].rhs)
  <2> DEFINE l == Renamed(v, w, c.add[i].lhs)
             r == Renamed(v, w, c.add[i].rhs)
  <2>1. c.add[i] \in AddCodes
    BY DEF Codes
  <2>2. l \in Values /\ r \in Values
    BY <1>2, <2>1 DEF AddCodes
  <2>3. add[i] = [c.add[i] EXCEPT !.lhs = l, !.rhs = r]
    OBVIOUS
  <2> HIDE DEF l, r, add
  <2>4. /\ add[i] \in AddCodes
        /\ add[i].block = c.add[i].block /\ add[i].lhs = l /\ add[i].rhs = r
    BY <2>1, <2>2, <2>3 DEF AddCodes
  <2> QED
    BY <2>4 DEF l, r
<1>5. ASSUME NEW p \in Phis
      PROVE  /\ phi[p] \in PhiCodes
             /\ phi[p].block = c.phi[p].block /\ phi[p].from = c.phi[p].from
             /\ \A b \in Blocks : phi[p].values[b] = Renamed(v, w, c.phi[p].values[b])
  <2> DEFINE new == [b \in Blocks |-> Renamed(v, w, c.phi[p].values[b])]
  <2>1. new \in [Blocks -> Values] /\ \A b \in Blocks : new[b] = Renamed(v, w, c.phi[p].values[b])
    BY <1>2, CodeFields
  <2>2. phi[p] = [c.phi[p] EXCEPT !.values = new]
    OBVIOUS
  <2> HIDE DEF new, phi
  <2>3. c.phi[p] \in PhiCodes
    BY DEF Codes
  <2> QED
    BY <2>1, <2>2, <2>3 DEF PhiCodes
<1>6. add \in [Adds -> AddCodes]
  <2> HIDE DEF add
  <2>1. DOMAIN add = Adds /\ add = [i \in Adds |-> add[i]]
    BY DEF add
  <2> QED
    BY <1>4, <2>1
<1>7. phi \in [Phis -> PhiCodes]
  <2> HIDE DEF phi
  <2>1. DOMAIN phi = Phis /\ phi = [p \in Phis |-> phi[p]]
    BY DEF phi
  <2> QED
    BY <1>5, <2>1
<1> HIDE DEF cond, add, phi
<1>8. /\ n \in Codes
      /\ n.order = c.order /\ n.targets = c.targets /\ n.live = c.live \ {v}
      /\ n.cond = cond /\ n.add = add /\ n.phi = phi
  <2>1. live \in SUBSET (Adds \cup Phis)
    BY DEF Codes
  <2> HIDE DEF live
  <2>2. cond \in [Blocks -> Values]
    BY <1>3
  <2>3. /\ n \in Codes
        /\ n.order = c.order /\ n.targets = c.targets /\ n.live = live
        /\ n.cond = cond /\ n.add = add /\ n.phi = phi
    BY <1>6, <1>7, <2>1, <2>2 DEF Codes
  <2> QED
    BY <2>3 DEF live
<1> HIDE DEF n
<1> QED
  BY <1>1, <1>3, <1>4, <1>5, <1>8

\* A branch becomes a jump.
Jumping(c, b, x) == [c EXCEPT !.targets[b] = <<x>>, !.cond[b] = 0]

LEMMA JumpFields ==
  ASSUME NEW c \in Codes, NEW b \in Blocks, NEW x \in NonEntry
  PROVE  LET n == Jumping(c, b, x)
         IN  /\ n \in Codes
             /\ n.order = c.order /\ n.live = c.live /\ n.add = c.add /\ n.phi = c.phi
             /\ n.targets[b] = <<x>> /\ n.cond[b] = 0
             /\ \A q \in Blocks \ {b} : n.targets[q] = c.targets[q] /\ n.cond[q] = c.cond[q]
<1> DEFINE targets == [c.targets EXCEPT ![b] = <<x>>]
           cond == [c.cond EXCEPT ![b] = 0]
           n == [c EXCEPT !.targets = targets, !.cond = cond]
<1>1. c.targets \in [Blocks -> Seq(NonEntry)] /\ c.cond \in [Blocks -> Values]
  BY CodeFields
<1>2. /\ targets \in [Blocks -> Seq(NonEntry)] /\ targets[b] = <<x>>
      /\ \A q \in Blocks \ {b} : targets[q] = c.targets[q]
  <2>1. <<x>> \in Seq(NonEntry)
    OBVIOUS
  <2> QED
    BY <1>1, <2>1
<1>3. /\ cond \in [Blocks -> Values] /\ cond[b] = 0
      /\ \A q \in Blocks \ {b} : cond[q] = c.cond[q]
  BY <1>1, ConstsAre
<1>4. Jumping(c, b, x) = n
  BY DEF Jumping
<1> HIDE DEF targets, cond
<1>5. /\ n \in Codes /\ n.targets = targets /\ n.cond = cond
      /\ n.order = c.order /\ n.live = c.live /\ n.add = c.add /\ n.phi = c.phi
  BY <1>2, <1>3 DEF Codes
<1> HIDE DEF n
<1> QED
  BY <1>2, <1>3, <1>4, <1>5

\* A phi loses values.
Trimmed(c, p, left) == [c EXCEPT !.phi[p].from = left]

LEMMA TrimFields ==
  ASSUME NEW c \in Codes, NEW p \in Phis, NEW left \in SUBSET Blocks
  PROVE  LET n == Trimmed(c, p, left)
         IN  /\ n \in Codes
             /\ n.order = c.order /\ n.live = c.live /\ n.add = c.add
             /\ n.targets = c.targets /\ n.cond = c.cond
             /\ n.phi[p].from = left
             /\ \A r \in Phis : /\ n.phi[r].block = c.phi[r].block
                                /\ n.phi[r].values = c.phi[r].values
                                /\ r # p => n.phi[r].from = c.phi[r].from
<1> DEFINE new == [c.phi[p] EXCEPT !.from = left]
           phi == [c.phi EXCEPT ![p] = new]
           n == [c EXCEPT !.phi = phi]
<1>1. c.phi \in [Phis -> PhiCodes] /\ c.phi[p] \in PhiCodes
  BY DEF Codes
<1>2. /\ new \in PhiCodes /\ new.from = left /\ new.block = c.phi[p].block
      /\ new.values = c.phi[p].values
  BY <1>1 DEF PhiCodes
<1>3. Trimmed(c, p, left) = n
  BY DEF Trimmed
<1> HIDE DEF new
<1>4. phi \in [Phis -> PhiCodes] /\ phi[p] = new /\ \A r \in Phis \ {p} : phi[r] = c.phi[r]
  BY <1>1, <1>2
<1> HIDE DEF phi
<1>5. /\ n \in Codes /\ n.phi = phi /\ n.targets = c.targets /\ n.cond = c.cond
      /\ n.order = c.order /\ n.live = c.live /\ n.add = c.add
  BY <1>4 DEF Codes
<1> HIDE DEF n
<1> QED
  BY <1>2, <1>3, <1>4, <1>5

\* A block goes.
Without(c, order, gone) == [c EXCEPT !.order = order, !.live = @ \ gone]

LEMMA EraseFields ==
  ASSUME NEW c \in Codes, NEW order \in Seq(Blocks), NEW gone
  PROVE  LET n == Without(c, order, gone)
         IN  /\ n \in Codes
             /\ n.order = order /\ n.live = c.live \ gone /\ n.add = c.add
             /\ n.targets = c.targets /\ n.cond = c.cond /\ n.phi = c.phi
<1> DEFINE live == c.live \ gone
<1>1. live \in SUBSET (Adds \cup Phis)
  BY DEF Codes
<1> HIDE DEF live
<1>2. LET n == [c EXCEPT !.order = order, !.live = live]
      IN  /\ n \in Codes
          /\ n.order = order /\ n.live = live /\ n.add = c.add
          /\ n.targets = c.targets /\ n.cond = c.cond /\ n.phi = c.phi
  BY <1>1 DEF Codes
<1> QED
  BY <1>2 DEF live, Without

------------------------------------------------------------------------------
(* Types *)

Typed == TypeOK /\ Shape

LEMMA NoCodeTyped == NoCode \in Codes
<1>1. NoCode \in Codes
  <2> DEFINE none == [b \in Blocks |-> 0]
  <2>1. none \in [Blocks -> Values] /\ 0 \in Values
    BY ConstsAre
  <2>2. [b \in Blocks |-> << >>] \in [Blocks -> Seq(NonEntry)] /\ << >> \in Seq(Blocks)
    OBVIOUS
  <2> HIDE DEF none
  <2>3. [block |-> Entry, lhs |-> 0, rhs |-> 0] \in AddCodes
    BY <2>1, EntryAssumption DEF AddCodes
  <2>4. [block |-> Entry, values |-> none, from |-> {}] \in PhiCodes
    BY <2>1, EntryAssumption DEF PhiCodes
  <2>5. [p \in Phis |-> [block |-> Entry, values |-> none, from |-> {}]] \in [Phis -> PhiCodes]
    BY <2>4
  <2>6. [i \in Adds |-> [block |-> Entry, lhs |-> 0, rhs |-> 0]] \in [Adds -> AddCodes]
    BY <2>3
  <2> QED
    BY <2>1, <2>2, <2>5, <2>6 DEF NoCode, Codes, none
<1> QED
  BY <1>1

LEMMA InitTyped == Init => Typed
BY NoCodeTyped, EntryAssumption DEF Init, Typed, TypeOK, Shape, Deleting

LEMMA NextTyped == Typed /\ [Next]_vars => Typed'
<1> SUFFICES ASSUME Typed, [Next]_vars PROVE Typed'
  OBVIOUS
<1> USE DEF Typed, Shape, Deleting
<1>0. /\ code \in Codes /\ block \in Blocks /\ BBExecutable \subseteq Blocks
      /\ BBWorkList \in Seq(Blocks) /\ rest \in Seq(Blocks) /\ todo \subseteq Adds \cup Phis
      /\ code.order \in Seq(Blocks) /\ code.targets \in [Blocks -> Seq(NonEntry)]
  BY CodeFields DEF TypeOK
<1>1. CASE Begin
  <2>1. BBWorkList = << >> /\ todo = {} /\ rest = << >>
    BY <1>1 DEF Begin, TypeOK
  <2>2. code' \in Codes
    BY <1>1, FunctionsAssumption DEF Begin
  <2>3. BBWorkList' \in Seq(Blocks)
    BY <1>0, <1>1, EntryAssumption, Pushed DEF Begin
  <2> QED
    BY <1>1, <2>1, <2>2, <2>3 DEF Begin, TypeOK
<1>2. CASE Visit
  <2>1. /\ BBWorkList' \in Seq(Blocks) /\ block' \in Blocks
        /\ rest = << >>
    BY <1>0, <1>2, Popped DEF Visit
  <2>2. /\ todo' \subseteq Adds \cup Phis /\ phase' = "fold"
        /\ BBExecutable' \subseteq Blocks /\ UNCHANGED <<code, rest>>
    BY <1>0, <1>2, <2>1 DEF Visit
  <2> QED
    BY <1>0, <2>1, <2>2 DEF TypeOK
<1>3. ASSUME NEW i \in todo \cap Adds, Fold(i)
      PROVE  Typed'
  <2>1. code' \in Codes
    <3>1. CASE Foldable(i)
      <4>1. code' = Substituted(code, i, WrappedSum(i)) /\ WrappedSum(i) \in Values
        BY <1>3, <3>1, ConstsAre DEF Fold, Foldable, WrappedSum
      <4> QED
        BY <1>0, <4>1, SubstitutedFields
    <3> QED
      BY <1>0, <1>3, <3>1 DEF Fold
  <2> QED
    BY <1>0, <1>3, <2>1 DEF Fold, TypeOK
<1>4. CASE ToSuccessors
  <2>1. rest = << >> /\ todo = {} /\ phase = "fold" /\ phase' = "visit"
        /\ UNCHANGED <<BBExecutable, block, todo>>
    BY <1>4 DEF ToSuccessors
  <2>2. CASE IsConditional(block) /\ code.cond[block] \in Consts
    <3>1. Len(code.targets[block]) = 2 /\ code.targets[block] \in Seq(NonEntry)
      BY <1>0, <2>2 DEF IsConditional
    <3>2. Chosen(block) \in NonEntry /\ Chosen(block) \in Blocks
      BY <3>1, ElementOfSeq DEF Chosen, NonEntry
    <3>3. /\ code' = Jumping(code, block, Chosen(block))
          /\ BBWorkList' = Append(BBWorkList, Chosen(block)) /\ rest' = rest
      BY <1>4, <2>2 DEF ToSuccessors, Jumping
    <3>4. code' \in Codes
      BY <1>0, <3>2, <3>3, JumpFields
    <3>5. BBWorkList' \in Seq(Blocks)
      BY <1>0, <3>2, <3>3, Pushed
    <3> QED
      BY <1>0, <2>1, <3>3, <3>4, <3>5 DEF TypeOK
  <2>3. CASE ~(IsConditional(block) /\ code.cond[block] \in Consts)
    <3>1. rest' = code.targets[block] /\ UNCHANGED <<code, BBWorkList>>
      BY <1>4, <2>3 DEF ToSuccessors
    <3>2. rest' \in Seq(NonEntry) /\ NonEntry \subseteq Blocks
      BY <1>0, <3>1 DEF NonEntry
    <3>3. rest' \in Seq(Blocks)
      BY <3>2
    <3> QED
      BY <1>0, <2>1, <3>1, <3>3 DEF TypeOK
  <2> QED
    BY <2>2, <2>3
<1>5. CASE PushSuccessor
  <2>1. rest' \in Seq(Blocks) /\ Head(rest) \in Blocks
    BY <1>0, <1>5, Beheaded DEF PushSuccessor
  <2>2. BBWorkList' \in Seq(Blocks)
    BY <1>0, <1>5, <2>1, Pushed DEF PushSuccessor
  <2> QED
    BY <1>0, <1>5, <2>1, <2>2 DEF PushSuccessor, TypeOK
<1>6. CASE StartDelete
  <2>1. Len(code.order) \in Nat /\ todo = {}
    BY <1>0, <1>6, LenProperties DEF StartDelete
  <2> QED
    BY <1>0, <1>6, <2>1 DEF StartDelete, TypeOK
<1>7. CASE KeepBlock
  <2>1. /\ rest' \in Seq(Blocks) /\ Len(rest') = Len(rest) - 1 /\ Len(rest) \in Nat
        /\ Len(code.order) \in Nat
    BY <1>0, <1>7, Beheaded, LenProperties DEF KeepBlock
  <2>2. Len(rest) <= Len(code.order) => Len(rest) - 1 <= Len(code.order)
    BY <2>1
  <2> QED
    BY <1>0, <1>7, <2>1, <2>2 DEF KeepBlock, TypeOK
<1>8. CASE DropBlock
  <2>1. /\ rest' \in Seq(Blocks) /\ block' \in Blocks /\ Len(rest') = Len(rest) - 1
        /\ Len(rest) \in Nat /\ Len(code.order) \in Nat
    BY <1>0, <1>8, Beheaded, LenProperties DEF DropBlock
  <2>3. Len(rest) <= Len(code.order) => Len(rest) - 1 < Len(code.order)
    BY <2>1
  <2>2. todo' \subseteq Phis
    BY <1>8 DEF DropBlock
  <2> QED
    BY <1>0, <1>8, <2>1, <2>2, <2>3 DEF DropBlock, TypeOK
<1>9. ASSUME NEW p \in todo \cap Phis, CleanPhi(p)
      PROVE  Typed'
  <2> DEFINE left == code.phi[p].from \ {block}
             edited == Trimmed(code, p, left)
  <2>1. left \in SUBSET Blocks
    BY <1>0, CodeFields
  <2>2. /\ phase = "clean" /\ todo' = todo \ {p}
        /\ UNCHANGED <<phase, BBExecutable, BBWorkList, block, rest>>
        /\ code' = edited
           \/ \E b \in left : code' = Substituted(edited, p, code.phi[p].values[b])
    BY <1>9 DEF CleanPhi, Trimmed
  <2>3. \A b \in left : code.phi[p].values[b] \in Values
    BY <1>0, <2>1, CodeFields
  <2> HIDE DEF left
  <2>4. edited \in Codes /\ edited.order = code.order
    BY <1>0, <2>1, TrimFields
  <2> HIDE DEF edited
  <2>5. code' \in Codes /\ code'.order = code.order
    BY <2>2, <2>3, <2>4, SubstitutedFields
  <2> QED
    BY <1>0, <2>2, <2>5 DEF TypeOK
<1>10. ASSUME NEW p \in todo \cap Phis, LosePhi(p)
       PROVE  Typed'
  BY <1>0, <1>10 DEF LosePhi, TypeOK
<1>11. CASE ReadFreed
  BY <1>0, <1>11 DEF ReadFreed, TypeOK
<1>12. CASE EraseBlock
  <2>1. phase = "clean" /\ todo = {} /\ phase' = "delete"
        /\ UNCHANGED <<BBExecutable, BBWorkList, block, todo, rest>>
    BY <1>12 DEF EraseBlock
  <2> DEFINE here == Len(code.order) - Len(rest)
             order == RemoveAt(code.order, here)
  <2>2. Len(rest) \in Nat /\ Len(code.order) \in Nat /\ here \in 1..Len(code.order)
    BY <1>0, <2>1, LenProperties
  <2>3. order \in Seq(Blocks) /\ Len(order) = Len(code.order) - 1
    BY <1>0, <2>2, RemovedFrom
  <2>4. \E gone : code' = Without(code, order, gone)
    BY <1>12 DEF EraseBlock, Without
  <2> HIDE DEF order, here
  <2>5. code' \in Codes /\ code'.order = order
    BY <1>0, <2>3, <2>4, EraseFields
  <2>6. Len(rest) <= Len(code.order) - 1
    BY <2>1, <2>2
  <2> QED
    BY <1>0, <2>1, <2>3, <2>5, <2>6 DEF TypeOK
<1>13. CASE Return
  BY <1>0, <1>13 DEF Return, TypeOK
<1>14. CASE Leave
  <2>1. NoCode \in Codes
    BY NoCodeTyped
  <2> QED
    BY <1>0, <1>14, <2>1, EntryAssumption DEF Leave, TypeOK
<1>15. CASE UNCHANGED vars
  BY <1>15 DEF vars, TypeOK
<1> QED
  BY <1>1, <1>2, <1>3, <1>4, <1>5, <1>6, <1>7, <1>8, <1>9, <1>10, <1>11, <1>12,
     <1>13, <1>14, <1>15 DEF Next, Run, Stopped

------------------------------------------------------------------------------
(* Visiting *)

\* The function at hand, as it was.
LEMMA GivenFacts ==
  ASSUME FirstFunction, InRun
  PROVE  /\ given \in Functions /\ given \in Codes /\ WellFormed(given)
         /\ Succ(given) \in CFGs
         /\ \A b \in Blocks : Succ(given)[b] = ToSet(given.targets[b])
         /\ \A b \in Blocks : ToSet(given.targets[b]) \subseteq NonEntry
<1>1. given \in Functions /\ given \in Codes /\ WellFormed(given)
  BY FunctionsAssumption, WellFormedAssumption DEF FirstFunction
<1> QED
  BY <1>1, SuccIsGraph

\* What will be visited stands in the function.
LEMMA AheadStands ==
  ASSUME Typed, FirstFunction, SameFrame, Visiting,
         NEW W \in SUBSET Blocks, Through(W)
  PROVE  /\ BBExecutable \cup Ahead \subseteq ToSet(given.order)
         /\ BBExecutable \cup Ahead \subseteq Reachable(Succ(given))
         /\ BBExecutable \cup Ahead \subseteq Blocks
<1>1. InRun /\ WellFormed(given) /\ given \in Codes
  BY GivenFacts DEF InRun
<1> DEFINE S == ToSet(given.order)
           R == Reachable(Succ(given))
<1>2. S \in SUBSET Blocks
  BY <1>1, CodeFields, Elements
<1>3. Entry \in S /\ \A b \in S : ToSet(given.targets[b]) \subseteq S
  BY <1>1 DEF WellFormed
<1>4. \A b \in Blocks : ToSet(code.targets[b]) \subseteq ToSet(given.targets[b])
  BY <1>1 DEF SameFrame
<1>5. R \in SUBSET Blocks /\ Entry \in R /\ \A b \in R : ToSet(given.targets[b]) \subseteq R
  BY <1>1, GivenFacts, ReachableStep
<1> HIDE DEF S, R
<1>6. BBExecutable \cup Ahead \subseteq S
  BY <1>2, <1>3, <1>4 DEF Through
<1>7. BBExecutable \cup Ahead \subseteq R
  BY <1>4, <1>5 DEF Through
<1> QED
  BY <1>2, <1>6, <1>7 DEF S, R

\* The steps of the visiting, each under the invariant and with its types known.
LEMMA BeginInv ==
  ASSUME ~ReusesAddresses, IInv, Typed', Begin
  PROVE  IInv'
<1>1. TypeOK /\ FirstFunction /\ phase = "idle" /\ BBWorkList = << >> /\ rest = << >>
  BY DEF IInv, TypeOK, Begin
<1>2. PICK c \in Functions : /\ ToSet(c.order) \cap BBExecutable = {}
                             /\ given' = c /\ code' = c
  BY DEF Begin
<1>3. /\ phase' = "visit" /\ BBWorkList' = Append(<< >>, Entry)
      /\ UNCHANGED <<BBExecutable, block, todo, rest>>
  BY <1>1 DEF Begin
<1>4. c \in Codes /\ WellFormed(c) /\ Succ(c) \in CFGs
  BY <1>2, FunctionsAssumption, WellFormedAssumption, SuccIsGraph
<1>5. BBExecutable = {}
  BY <1>1, <1>2, <1>4 DEF FirstFunction, WellFormed
<1>6. Ahead' = {Entry}
  <2>1. << >> \in Seq(Blocks)
    OBVIOUS
  <2>2. ToSet(<< >>) = {}
    BY DEF ToSet
  <2>3. \A s \in Seq(Blocks) : ToSet(Append(s, Entry)) = ToSet(s) \cup {Entry}
    BY Pushed, EntryAssumption
  <2>4. ToSet(Append(<< >>, Entry)) = ToSet(<< >>) \cup {Entry}
    BY <2>1, <2>3
  <2> QED
    BY <1>1, <1>3, <2>2, <2>4 DEF Ahead
<1>7. D' = Dominance(Succ(c))
  BY <1>2 DEF D
<1>8. FirstFunction'
  BY <1>2, <1>3, <1>5 DEF FirstFunction
<1>9. SameFrame'
  BY <1>2, <1>5 DEF SameFrame
<1>10. DominatorsFirst'
  BY <1>3, <1>4, <1>5, <1>6, <1>7, OnlyEntryDominatesEntry DEF DominatorsFirst
<1>11. NoneLost'
  BY <1>3, <1>5, <1>6 DEF NoneLost
<1>12. OneVisitSettles'
  BY <1>3, <1>5, <1>6 DEF OneVisitSettles, Through
<1>13. InSSAForm'
  <2>1. \A b \in ToSet(c.order) : Defined(c, D', c.cond[b], b)
    BY <1>4, <1>7 DEF WellFormed
  <2>2. \A i \in Adds \cap c.live :
          \A v \in {c.add[i].lhs, c.add[i].rhs} :
            /\ Defined(c, D', v, c.add[i].block)
            /\ v \in Adds /\ c.add[v].block = c.add[i].block =>
                 v < i \/ c.add[i].block \notin Reachable(Succ(c))
    BY <1>4, <1>7 DEF WellFormed, DefBlock
  <2>3. \A p \in Phis \cap c.live :
          /\ c.phi[p].from \subseteq ToSet(c.order)
          /\ \A q \in c.phi[p].from : Defined(c, D', c.phi[p].values[q], q)
    BY <1>4, <1>7 DEF WellFormed
  <2> QED
    BY <1>2, <2>1, <2>2, <2>3 DEF InSSAForm
<1>14. InPlace'
  BY <1>2, <1>4 DEF InPlace, Present, WellFormed
<1>15. PhisFollow'
  <2>1. \A p \in Phis \cap c.live :
          c.phi[p].from = {q \in ToSet(c.order) : c.phi[p].block \in ToSet(c.targets[q])}
    BY <1>4 DEF WellFormed
  <2> QED
    BY <1>2, <1>3, <2>1 DEF PhisFollow, Present, Deleting
<1>16. Layout' /\ SafeUses' /\ ToClean'
  BY <1>3 DEF Layout, SafeUses, ToClean, Deleting
<1> QED
  BY <1>8, <1>9, <1>10, <1>11, <1>12, <1>13, <1>14, <1>15, <1>16 DEF IInv, Typed

\* The function stays in SSA form while it stays as it is.
LEMMA SSAFormStays ==
  ASSUME InSSAForm, Visiting, code' = code, given' = given
  PROVE  InSSAForm'
<1>1. D' = D
  BY DEF D
<1>2. /\ \A b \in ToSet(code.order) : Defined(code', D', code'.cond[b], b)
      /\ \A i \in Adds \cap code.live :
           \A v \in {code.add[i].lhs, code.add[i].rhs} : Defined(code', D', v, code'.add[i].block)
      /\ \A p \in Phis \cap code.live :
           \A q \in code.phi[p].from : Defined(code', D', code'.phi[p].values[q], q)
  BY <1>1 DEF InSSAForm
<1>3. /\ \A i \in Adds \cap code.live : \A v \in {code.add[i].lhs, code.add[i].rhs} :
           v \in Adds /\ code.add[v].block = code.add[i].block =>
             v < i \/ code.add[i].block \notin Reachable(Succ(given))
      /\ \A p \in Phis \cap code.live : code.phi[p].from \subseteq ToSet(code.order)
  BY DEF InSSAForm
<1> QED
  BY <1>2, <1>3 DEF InSSAForm

LEMMA VisitInv ==
  ASSUME IInv, Typed', Visit
  PROVE  IInv'
<1> DEFINE b == block'
<1>1. /\ Typed /\ TypeOK /\ FirstFunction /\ SameFrame /\ DominatorsFirst /\ NoneLost
      /\ OneVisitSettles /\ InSSAForm /\ InPlace /\ PhisFollow
  BY DEF IInv, Typed
<1>2. /\ phase = "visit" /\ phase' = "fold" /\ rest = << >>
      /\ BBWorkList # << >> /\ b = Last(BBWorkList) /\ BBWorkList' = Front(BBWorkList)
      /\ BBExecutable' = BBExecutable \cup {b}
      /\ todo' = {i \in Adds \cap code.live : code.add[i].block = b}
      /\ UNCHANGED <<given, code, rest>>
  BY DEF Visit
<1>3. Visiting /\ Visiting' /\ InRun /\ InRun'
  BY <1>2 DEF Visiting, InRun
<1>4. BBWorkList \in Seq(Blocks) /\ b \in Blocks /\ BBExecutable \subseteq Blocks
  BY <1>1, <1>2, Popped DEF TypeOK
<1>5. Ahead = Ahead' \cup {b}
  <2>1. ToSet(BBWorkList) = ToSet(Front(BBWorkList)) \cup {b}
    BY <1>2, <1>4, Popped
  <2> QED
    BY <1>2, <2>1 DEF Ahead
<1>6. D' = D
  BY <1>2 DEF D
<1>7. Through(BBExecutable) /\ \A x \in BBExecutable : Settled(x)
  BY <1>1, <1>2 DEF OneVisitSettles
<1>8. BBExecutable \cup Ahead \subseteq ToSet(given.order)
  BY <1>1, <1>3, <1>4, <1>7, AheadStands
<1> HIDE DEF b
<1>9. FirstFunction'
  BY <1>1, <1>2, <1>3, <1>5, <1>8 DEF FirstFunction
<1>10. SameFrame'
  BY <1>1, <1>2, <1>3 DEF SameFrame
<1>11. DominatorsFirst'
  <2>1. ASSUME NEW x \in BBExecutable', NEW d \in Blocks, <<d, x>> \in D
        PROVE  d \in BBExecutable'
    BY <1>1, <1>2, <1>3, <1>5, <2>1 DEF DominatorsFirst
  <2>2. ASSUME NEW x \in Ahead', NEW d \in Blocks, <<d, x>> \in D
        PROVE  d = x \/ d \in BBExecutable'
    BY <1>1, <1>2, <1>3, <1>5, <2>2 DEF DominatorsFirst
  <2> QED
    BY <1>6, <2>1, <2>2 DEF DominatorsFirst
<1>12. NoneLost'
  <2>1. BBExecutable' \cup Ahead' = BBExecutable \cup Ahead
    BY <1>2, <1>5
  <2>2. \A x \in BBExecutable : ToSet(code.targets[x]) \subseteq BBExecutable \cup Ahead
    BY <1>1, <1>2, <1>3 DEF NoneLost
  <2>3. Entry \in BBExecutable \cup Ahead
    BY <1>1, <1>3 DEF NoneLost
  <2> QED
    BY <1>2, <2>1, <2>2, <2>3 DEF NoneLost, b
<1>13. OneVisitSettles'
  <2>1. \A x \in Blocks : Settled(x)' <=> Settled(x)
    BY <1>2 DEF Settled, Foldable, IsConditional
  <2>2. \A x \in BBExecutable' \ {b} : Settled(x)'
    BY <1>2, <1>4, <1>7, <2>1
  <2>3. CASE b \in BBExecutable
    <3>1. Settled(block)'
      <4>1. Settled(b)
        BY <1>7, <2>3
      <4> QED
        BY <1>2, <4>1 DEF Settled, Foldable, IsConditional, b
    <3>2. Through(BBExecutable)'
      BY <1>2, <1>5, <1>7, <2>3 DEF Through
    <3> QED
      BY <1>2, <2>2, <3>1, <3>2 DEF OneVisitSettles, b
  <2>4. CASE b \notin BBExecutable
    <3>1. BBExecutable' \ {b} = BBExecutable
      BY <1>2, <2>4
    <3>2. \A x \in BBExecutable : <<b, x>> \notin D
      BY <1>1, <1>3, <1>4, <2>4 DEF DominatorsFirst
    <3>3. Through(BBExecutable \ {block})'
      <4>1. BBExecutable' \ {block'} = BBExecutable
        BY <3>1 DEF b
      <4> QED
        BY <1>2, <1>5, <1>7, <4>1 DEF Through
    <3>4. FirstVisit'
      BY <1>2, <1>6, <3>1, <3>2, <3>3 DEF FirstVisit, b
    <3> QED
      BY <1>2, <2>2, <3>4 DEF OneVisitSettles, b
  <2> QED
    BY <2>3, <2>4
<1>14. InSSAForm'
  BY <1>1, <1>2, <1>3, SSAFormStays
<1>15. InPlace'
  BY <1>1, <1>2, <1>3 DEF InPlace, Present
<1>16. PhisFollow'
  <2>1. ~Deleting'
    BY <1>2 DEF Deleting
  <2> QED
    BY <1>1, <1>2, <1>3, <2>1 DEF PhisFollow, Present
<1>17. Layout' /\ SafeUses' /\ ToClean'
  BY <1>2 DEF Layout, SafeUses, ToClean, Deleting
<1> QED
  BY <1>9, <1>10, <1>11, <1>12, <1>13, <1>14, <1>15, <1>16, <1>17 DEF IInv, Typed

LEMMA PushInv ==
  ASSUME IInv, Typed', PushSuccessor
  PROVE  IInv'
<1> DEFINE h == Head(rest)
<1>1. /\ Typed /\ TypeOK /\ FirstFunction /\ SameFrame /\ DominatorsFirst /\ NoneLost
      /\ OneVisitSettles /\ InSSAForm /\ InPlace /\ PhisFollow
  BY DEF IInv, Typed
<1>2. /\ phase = "visit" /\ phase' = "visit" /\ rest # << >> /\ rest' = Tail(rest)
      /\ BBWorkList' = (IF h \notin BBExecutable THEN Append(BBWorkList, h) ELSE BBWorkList)
      /\ UNCHANGED <<given, code, BBExecutable, block, todo>>
  BY DEF PushSuccessor, NotVisited
<1>3. Visiting /\ Visiting' /\ InRun /\ InRun'
  BY <1>2 DEF Visiting, InRun
<1>4. h \in Blocks /\ ToSet(rest) = {h} \cup ToSet(rest') /\ BBWorkList \in Seq(Blocks)
  BY <1>1, <1>2, Beheaded DEF TypeOK
<1>5. ToSet(BBWorkList') = ToSet(BBWorkList) \cup ({h} \ BBExecutable)
  BY <1>2, <1>4, Pushed
<1>6. Ahead' \subseteq Ahead /\ BBExecutable \cup Ahead' = BBExecutable \cup Ahead
  BY <1>4, <1>5 DEF Ahead
<1>7. D' = D
  BY <1>2 DEF D
<1>8. FirstFunction' /\ SameFrame'
  BY <1>1, <1>2, <1>3 DEF FirstFunction, SameFrame
<1>9. DominatorsFirst'
  BY <1>1, <1>2, <1>3, <1>6, <1>7 DEF DominatorsFirst
<1>10. NoneLost'
  BY <1>1, <1>2, <1>3, <1>6 DEF NoneLost
<1>11. OneVisitSettles'
  <2>1. Through(BBExecutable) /\ \A x \in BBExecutable : Settled(x)
    BY <1>1, <1>2 DEF OneVisitSettles
  <2>2. Through(BBExecutable)'
    BY <1>2, <1>6, <2>1 DEF Through
  <2>3. \A x \in BBExecutable' : Settled(x)'
    BY <1>2, <2>1 DEF Settled, Foldable, IsConditional
  <2> QED
    BY <1>2, <2>2, <2>3 DEF OneVisitSettles
<1>12. InSSAForm'
  BY <1>1, <1>2, <1>3, SSAFormStays
<1>13. InPlace'
  BY <1>1, <1>2, <1>3 DEF InPlace, Present
<1>14. PhisFollow'
  <2>1. ~Deleting'
    BY <1>2 DEF Deleting
  <2> QED
    BY <1>1, <1>2, <1>3, <2>1 DEF PhisFollow, Present
<1>15. Layout' /\ SafeUses' /\ ToClean'
  BY <1>2 DEF Layout, SafeUses, ToClean, Deleting
<1> QED
  BY <1>8, <1>9, <1>10, <1>11, <1>12, <1>13, <1>14, <1>15 DEF IInv, Typed

LEMMA FoldInv ==
  ASSUME IInv, Typed', NEW i \in todo \cap Adds, Fold(i)
  PROVE  IInv'
<1> DEFINE sum == WrappedSum(i)
<1>1. /\ Typed /\ TypeOK /\ FirstFunction /\ SameFrame /\ DominatorsFirst /\ NoneLost
      /\ OneVisitSettles /\ InSSAForm /\ InPlace /\ PhisFollow
  BY DEF IInv, Typed
<1>2. /\ phase = "fold" /\ phase' = "fold" /\ todo' = todo \ {i}
      /\ \A j \in todo : i <= j
      /\ UNCHANGED <<given, BBExecutable, BBWorkList, block, rest>>
      /\ code' = IF Foldable(i) THEN Substituted(code, i, sum) ELSE code
  BY DEF Fold, IsNext
<1>3. Visiting /\ Visiting' /\ InRun /\ InRun' /\ ~Deleting'
  BY <1>2 DEF Visiting, InRun, Deleting
<1>4. /\ todo \subseteq {j \in Adds \cap code.live : code.add[j].block = block}
      /\ i \in code.live /\ code.add[i].block = block /\ code \in Codes
      /\ block \in Blocks /\ BBExecutable \subseteq Blocks /\ block \in BBExecutable
      /\ todo \subseteq Int /\ Adds \subseteq Int
  BY <1>1, <1>2, NamesAssumption DEF OneVisitSettles, TypeOK, NoneLost, Visiting
<1>5. D' = D /\ Ahead' = Ahead
  BY <1>2 DEF D, Ahead
<1>6. Layout' /\ SafeUses' /\ ToClean'
  BY <1>2, <1>3 DEF Layout, SafeUses, ToClean
<1>7. CASE ~Foldable(i)
  <2>1. code' = code
    BY <1>2, <1>7
  <2>2. FirstFunction' /\ SameFrame' /\ DominatorsFirst' /\ NoneLost'
    BY <1>1, <1>2, <1>3, <1>5, <2>1
       DEF FirstFunction, SameFrame, DominatorsFirst, NoneLost, Visiting
  <2>3. InSSAForm' /\ InPlace'
    BY <1>1, <1>2, <1>3, <2>1, SSAFormStays DEF InPlace, Present
  <2>4. PhisFollow'
    BY <1>1, <1>2, <1>3, <2>1 DEF PhisFollow, Present
  <2>5. \A x \in BBExecutable \ {block} : Settled(x)'
    BY <1>1, <1>2, <2>1 DEF OneVisitSettles, Settled, Foldable, IsConditional
  <2>6. CASE Settled(block) /\ Through(BBExecutable)
    <3>1. (Settled(block) /\ Through(BBExecutable))'
      BY <1>2, <1>5, <2>1, <2>6 DEF Settled, Foldable, IsConditional, Through
    <3> QED
      BY <1>2, <1>4, <2>1, <2>2, <2>3, <2>4, <2>5, <3>1, <1>6 DEF OneVisitSettles, IInv, Typed
  <2>7. CASE FirstVisit
    <3>1. /\ \A b \in BBExecutable \ {block} : <<block, b>> \notin D
          /\ Through(BBExecutable \ {block})
          /\ \A j \in Adds \cap code.live : code.add[j].block = block /\ j \notin todo =>
               ~Foldable(j) /\ \A k \in todo : j < k
      BY <2>7 DEF FirstVisit
    <3>2. Through(BBExecutable \ {block})'
      BY <1>2, <1>5, <2>1, <3>1 DEF Through
    <3>3. ASSUME NEW j \in Adds \cap code.live, code.add[j].block = block, j \notin todo'
          PROVE  ~Foldable(j) /\ \A k \in todo' : j < k
      <4>1. CASE j = i
        <5>1. \A k \in todo' : i <= k /\ k # i /\ k \in Int /\ i \in Int
          BY <1>2, <1>4
        <5> QED
          BY <1>7, <4>1, <5>1
      <4>2. CASE j # i
        BY <1>2, <3>1, <3>3, <4>2
      <4> QED
        BY <4>1, <4>2
    <3>4. \A j \in Adds : Foldable(j)' <=> Foldable(j)
      BY <2>1 DEF Foldable
    <3>5. FirstVisit'
      BY <1>2, <1>5, <2>1, <3>1, <3>2, <3>3, <3>4 DEF FirstVisit
    <3> QED
      BY <1>2, <1>4, <2>1, <2>2, <2>3, <2>4, <2>5, <3>5, <1>6 DEF OneVisitSettles, IInv, Typed
  <2> QED
    BY <1>1, <1>2, <2>6, <2>7 DEF OneVisitSettles
<1>8. CASE Foldable(i)
  <2>1. sum \in Consts /\ sum \in Values /\ sum \notin Adds \cup Phis
    BY <1>8, ConstsAre, NamesAssumption DEF Foldable, WrappedSum
  <2> HIDE DEF sum
  <2> DEFINE R(x) == Renamed(i, sum, x)
  <2>2. /\ code'.order = code.order /\ code'.targets = code.targets
        /\ code'.live = code.live \ {i}
        /\ \A b \in Blocks : code'.cond[b] = R(code.cond[b])
        /\ \A j \in Adds : /\ code'.add[j].block = code.add[j].block
                           /\ code'.add[j].lhs = R(code.add[j].lhs)
                           /\ code'.add[j].rhs = R(code.add[j].rhs)
        /\ \A p \in Phis : /\ code'.phi[p].block = code.phi[p].block
                           /\ code'.phi[p].from = code.phi[p].from
                           /\ \A b \in Blocks : code'.phi[p].values[b] =
                                R(code.phi[p].values[b])
    <3>1. code' = Substituted(code, i, sum)
      BY <1>2, <1>8
    <3> QED
      BY <1>4, <2>1, <3>1, SubstitutedFields
  <2>3. \A x : (x # i => R(x) = x) /\ (x = i => R(x) = sum)
    BY DEF Renamed
  <2> HIDE DEF R
  <2>4. FirstVisit
    <3>1. ~Settled(block)
      BY <1>4, <1>8 DEF Settled
    <3> QED
      BY <1>1, <1>2, <3>1 DEF OneVisitSettles
  <2>5. /\ \A b \in BBExecutable \ {block} : <<block, b>> \notin D
        /\ Through(BBExecutable \ {block})
        /\ \A j \in Adds \cap code.live : code.add[j].block = block /\ j \notin todo =>
             ~Foldable(j) /\ \A k \in todo : j < k
    BY <2>4 DEF FirstVisit
  <2>6. block \in Reachable(Succ(given)) /\ BBExecutable \subseteq ToSet(code.order)
    <3>1. BBExecutable \ {block} \in SUBSET Blocks
      BY <1>4
    <3> HIDE DEF Reachable
    <3>2. BBExecutable \cup Ahead \subseteq Reachable(Succ(given))
      BY <1>1, <1>3, <2>5, <3>1, AheadStands
    <3> QED
      BY <1>1, <1>3, <1>4, <3>2 DEF FirstFunction, SameFrame
  <2>7. FirstFunction' /\ SameFrame' /\ DominatorsFirst' /\ NoneLost'
    BY <1>1, <1>2, <1>3, <1>5, <2>2
       DEF FirstFunction, SameFrame, DominatorsFirst, NoneLost, Visiting
  \* Nothing in another visited block uses i, nor what comes before it in its own.
  <2>8. \A v, b : Defined(code, D, v, b) =>
          /\ Defined(code', D', R(v), b)
          /\ b \in BBExecutable \ {block} => R(v) = v
    <3> SUFFICES ASSUME NEW v, NEW b, Defined(code, D, v, b)
                 PROVE  /\ Defined(code', D', R(v), b)
                        /\ b \in BBExecutable \ {block} => R(v) = v
      OBVIOUS
    <3>1. CASE v = i
      <4>1. <<block, b>> \in D
        BY <1>4, <3>1 DEF Defined, DefBlock
      <4>2. R(v) \notin Adds \cup Phis
        BY <2>1, <2>3, <3>1
      <4> QED
        BY <2>5, <4>1, <4>2 DEF Defined
    <3>2. CASE v # i
      <4>1. v \in Adds \cup Phis => DefBlock(code', v) = DefBlock(code, v) /\ v \in code'.live
        BY <2>2, <3>2 DEF DefBlock, Defined
      <4> QED
        BY <1>5, <2>3, <3>2, <4>1 DEF Defined
    <3> QED
      BY <3>1, <3>2
  <2>9. ASSUME NEW j \in Adds \cap code.live
        PROVE  \A v \in {code.add[j].lhs, code.add[j].rhs} :
                 /\ Defined(code, D, v, code.add[j].block)
                 /\ v \in Adds /\ code.add[v].block = code.add[j].block =>
                      v < j \/ code.add[j].block \notin Reachable(Succ(given))
    BY <1>1, <1>3 DEF InSSAForm
  <2>10. InSSAForm'
    <3>1. ASSUME NEW b \in ToSet(code.order)
          PROVE  Defined(code', D', code'.cond[b], b)
      <4>1. b \in Blocks
        BY <1>4, CodeFields, Elements
      <4>2. Defined(code, D, code.cond[b], b)
        BY <1>1, <1>3 DEF InSSAForm
      <4> QED
        BY <2>2, <2>8, <4>1, <4>2
    <3>2. ASSUME NEW j \in Adds \cap code'.live, NEW v \in {code'.add[j].lhs, code'.add[j].rhs}
          PROVE  /\ Defined(code', D', v, code'.add[j].block)
                 /\ v \in Adds /\ code'.add[v].block = code'.add[j].block =>
                      v < j \/ code'.add[j].block \notin Reachable(Succ(given))
      <4>1. PICK u \in {code.add[j].lhs, code.add[j].rhs} : v = R(u)
        BY <2>2
      <4>2. j \in Adds \cap code.live /\ code'.add[j].block = code.add[j].block
        BY <2>2
      <4>3. Defined(code', D', v, code'.add[j].block)
        BY <2>8, <2>9, <4>1, <4>2
      <4>4. v \in Adds => v = u /\ code'.add[v].block = code.add[v].block
        BY <2>1, <2>2, <2>3, <4>1
      <4> QED
        BY <2>9, <4>2, <4>3, <4>4
    <3>3. ASSUME NEW p \in Phis \cap code'.live
          PROVE  /\ code'.phi[p].from \subseteq ToSet(code.order)
                 /\ \A q \in code'.phi[p].from : Defined(code', D', code'.phi[p].values[q], q)
      <4>1. /\ code.phi[p].from \subseteq ToSet(code.order)
            /\ \A q \in code.phi[p].from : Defined(code, D, code.phi[p].values[q], q)
        BY <1>1, <1>3, <2>2 DEF InSSAForm
      <4>2. code.phi[p].from \subseteq Blocks
        BY <1>4, CodeFields
      <4> QED
        BY <2>2, <2>8, <4>1, <4>2
    <3>4. /\ \A b \in ToSet(code'.order) : Defined(code', D', code'.cond[b], b)
          /\ \A p \in Phis \cap code'.live : code'.phi[p].from \subseteq ToSet(code'.order)
      BY <2>2, <3>1, <3>3
    <3>5. \A j \in Adds \cap code'.live :
            \A v \in {code'.add[j].lhs, code'.add[j].rhs} :
              v \in Adds /\ code'.add[v].block = code'.add[j].block =>
                v < j \/ code'.add[j].block \notin Reachable(Succ(given'))
      BY <1>2, <3>2
    <3> QED
      BY <3>2, <3>3, <3>4, <3>5 DEF InSSAForm
  <2>11. InPlace'
    BY <1>1, <1>2, <1>3, <2>2 DEF InPlace, Present
  <2>12. PhisFollow'
    BY <1>1, <1>2, <1>3, <2>2 DEF PhisFollow, Present
  <2>13. \A b \in BBExecutable \ {block} : Settled(b)'
    <3> SUFFICES ASSUME NEW b \in BBExecutable \ {block} PROVE Settled(b)'
      OBVIOUS
    <3>1. Settled(b) /\ b \in Blocks /\ b \in ToSet(code.order)
      BY <1>1, <1>2, <1>4, <2>6 DEF OneVisitSettles
    <3>2. ASSUME NEW j \in Adds \cap code.live, code.add[j].block = b
          PROVE  code'.add[j].lhs = code.add[j].lhs /\ code'.add[j].rhs = code.add[j].rhs
      BY <2>2, <2>8, <2>9, <3>2
    <3>3. code'.cond[b] = code.cond[b]
      <4>1. Defined(code, D, code.cond[b], b)
        BY <1>1, <1>3, <3>1 DEF InSSAForm
      <4> QED
        BY <2>2, <2>8, <3>1, <4>1
    <3> QED
      BY <2>2, <3>1, <3>2, <3>3 DEF Settled, Foldable, IsConditional
  <2>14. FirstVisit'
    <3>1. ASSUME NEW j \in Adds \cap code'.live, code'.add[j].block = block, j \notin todo'
          PROVE  ~Foldable(j)' /\ \A k \in todo' : j < k
      <4>1. j \in Adds \cap code.live /\ j # i /\ code.add[j].block = block /\ j \notin todo
        BY <1>2, <2>2, <3>1
      <4>2. ~Foldable(j) /\ \A k \in todo : j < k
        BY <2>5, <4>1
      <4>3. ~(i < j) /\ i \in Adds
        BY <1>4, <4>1, <4>2
      <4>4. i \notin {code.add[j].lhs, code.add[j].rhs}
        BY <1>4, <2>6, <2>9, <4>1, <4>3
      <4>5. code'.add[j].lhs = code.add[j].lhs /\ code'.add[j].rhs = code.add[j].rhs
        BY <2>2, <2>3, <4>1, <4>4
      <4> QED
        BY <1>2, <4>2, <4>5 DEF Foldable
    <3>2. Through(BBExecutable \ {block})'
      BY <1>2, <1>5, <2>2, <2>5 DEF Through
    <3> QED
      BY <1>2, <1>5, <2>5, <3>1, <3>2 DEF FirstVisit
  <2>15. OneVisitSettles'
    <3>1. todo' \subseteq {j \in Adds \cap code'.live : code'.add[j].block = block}
      BY <1>2, <1>4, <2>2
    <3> QED
      BY <1>2, <2>13, <2>14, <3>1 DEF OneVisitSettles
  <2> QED
    BY <1>6, <2>7, <2>10, <2>11, <2>12, <2>15 DEF IInv, Typed
<1> QED
  BY <1>7, <1>8

LEMMA ToSuccessorsInv ==
  ASSUME IInv, Typed', ToSuccessors
  PROVE  IInv'
<1> DEFINE Jumps == IsConditional(block) /\ code.cond[block] \in Consts
           T == ToSet(code'.targets[block])
<1>1. /\ Typed /\ TypeOK /\ FirstFunction /\ SameFrame /\ DominatorsFirst /\ NoneLost
      /\ OneVisitSettles /\ InSSAForm /\ InPlace /\ PhisFollow
  BY DEF IInv, Typed
<1>2. /\ phase = "fold" /\ phase' = "visit" /\ todo = {} /\ rest = << >>
      /\ UNCHANGED <<given, BBExecutable, block, todo>>
  BY <1>1 DEF ToSuccessors, Typed, Shape
<1>3. Visiting /\ Visiting' /\ InRun /\ InRun' /\ ~Deleting'
  BY <1>2 DEF Visiting, InRun, Deleting
<1>4. /\ code \in Codes /\ block \in Blocks /\ BBExecutable \subseteq Blocks
      /\ block \in BBExecutable /\ BBWorkList \in Seq(Blocks)
  BY <1>1, <1>2, <1>3 DEF TypeOK, NoneLost
<1>5. code.targets[block] \in Seq(NonEntry) /\ NonEntry \subseteq Blocks
  BY <1>4, CodeFields DEF NonEntry
<1>6. D' = D
  BY <1>2 DEF D
<1>7. FirstVisit \/ (Settled(block) /\ Through(BBExecutable))
  BY <1>1, <1>2 DEF OneVisitSettles
<1>8. /\ code'.order = code.order /\ code'.live = code.live
      /\ code'.add = code.add /\ code'.phi = code.phi
      /\ \A q \in Blocks \ {block} :
           code'.targets[q] = code.targets[q] /\ code'.cond[q] = code.cond[q]
      /\ T \subseteq ToSet(code.targets[block])
      /\ Ahead' = Ahead \cup T
      /\ code'.cond[block] \notin Consts => code'.cond[block] = code.cond[block]
      /\ IsConditional(block)' => code'.cond[block] \notin Consts
      /\ Jumps \/ code' = code
  <2>1. ToSet(<< >>) = {}
    BY DEF ToSet
  <2>2. Ahead = ToSet(BBWorkList)
    BY <1>2, <2>1 DEF Ahead
  <2>3. CASE Jumps
    <3> DEFINE ch == Chosen(block)
    <3>1. /\ BBWorkList' = Append(BBWorkList, ch) /\ rest' = << >>
          /\ code' = Jumping(code, block, ch)
      BY <1>2, <2>3 DEF ToSuccessors, Jumping
    <3>2. ch \in ToSet(code.targets[block]) /\ ch \in NonEntry /\ ch \in Blocks
      <4>1. Len(code.targets[block]) = 2
        BY <2>3 DEF IsConditional
      <4>2. (IF code.cond[block] # 0 THEN 2 ELSE 1) \in 1..Len(code.targets[block])
        BY <4>1
      <4> QED
        BY <1>5, <4>2, Elements DEF Chosen
    <3> HIDE DEF ch
    <3>3. /\ code'.order = code.order /\ code'.live = code.live
          /\ code'.add = code.add /\ code'.phi = code.phi
          /\ code'.targets[block] = <<ch>> /\ code'.cond[block] = 0
          /\ \A q \in Blocks \ {block} :
               code'.targets[q] = code.targets[q] /\ code'.cond[q] = code.cond[q]
      BY <1>4, <3>1, <3>2, JumpFields
    <3>4. T = {ch}
      BY <3>3 DEF ToSet
    <3>5. Ahead' = ToSet(BBWorkList')
      BY <2>1, <3>1 DEF Ahead
    <3>6. ToSet(BBWorkList') = ToSet(BBWorkList) \cup {ch}
      BY <1>4, <3>1, <3>2, Pushed
    <3>7. Len(code'.targets[block]) # 2
      BY <3>3
    <3> QED
      BY <1>2, <2>2, <2>3, <3>2, <3>3, <3>4, <3>5, <3>6, <3>7, ConstsAre DEF IsConditional
  <2>4. CASE ~Jumps
    <3>1. rest' = code.targets[block] /\ code' = code /\ BBWorkList' = BBWorkList
      BY <2>4 DEF ToSuccessors
    <3>2. Ahead' = Ahead \cup T
      BY <2>2, <3>1 DEF Ahead
    <3>3. IsConditional(block)' => code'.cond[block] \notin Consts
      BY <1>2, <2>4, <3>1 DEF IsConditional
    <3> QED
      BY <3>1, <3>2, <3>3
  <2> QED
    BY <2>3, <2>4
<1>9. Jumps => FirstVisit
  BY <1>7 DEF Settled
<1> HIDE DEF T, Jumps
<1>10. FirstFunction'
  BY <1>1, <1>2, <1>3 DEF FirstFunction
<1>11. \A q \in Blocks : ToSet(code'.targets[q]) \subseteq ToSet(code.targets[q])
  BY <1>8 DEF T
<1>12. SameFrame'
  <2>1. \A q \in Blocks \ BBExecutable : code'.targets[q] = given.targets[q]
    BY <1>1, <1>3, <1>4, <1>8 DEF SameFrame
  <2>2. \A q \in Blocks : ToSet(code'.targets[q]) \subseteq ToSet(given.targets[q])
    BY <1>1, <1>3, <1>11 DEF SameFrame
  <2> QED
    BY <1>1, <1>2, <1>3, <1>8, <2>1, <2>2 DEF SameFrame
<1>13. DominatorsFirst'
  <2>1. ASSUME NEW x \in T, NEW d \in Blocks, <<d, x>> \in D, d # x
        PROVE  d \in BBExecutable
    <3>1. Succ(given) \in CFGs /\ Succ(given)[block] = ToSet(given.targets[block])
      BY <1>1, <1>3, <1>4, GivenFacts
    <3>2. x \in Succ(given)[block] /\ x \in Blocks
      <4>1. x \in ToSet(code.targets[block])
        BY <1>8
      <4>2. x \in ToSet(given.targets[block])
        BY <1>1, <1>3, <1>4, <4>1 DEF SameFrame
      <4>3. Succ(given)[block] \subseteq Blocks
        BY <1>4, <3>1 DEF CFGs, NonEntry
      <4> QED
        BY <3>1, <4>2, <4>3
    <3>3. block \in Preds(Succ(given), x)
      BY <1>4, <3>2 DEF Preds
    <3>4. <<d, block>> \in D
      BY <2>1, <3>1, <3>2, <3>3, DominatesPredecessor DEF D
    <3> QED
      BY <1>1, <1>3, <1>4, <3>4 DEF DominatorsFirst
  <2> QED
    BY <1>1, <1>2, <1>3, <1>6, <1>8, <2>1 DEF DominatorsFirst
<1>14. NoneLost'
  <2>1. ASSUME NEW b \in BBExecutable
        PROVE  ToSet(code'.targets[b]) \subseteq BBExecutable \cup Ahead'
    <3>1. CASE b = block
      BY <1>8, <3>1 DEF T
    <3>2. CASE b # block
      BY <1>1, <1>2, <1>3, <1>4, <1>8, <3>2 DEF NoneLost
    <3> QED
      BY <3>1, <3>2
  <2> QED
    BY <1>1, <1>2, <1>3, <1>8, <2>1 DEF NoneLost
<1>15. OneVisitSettles'
  <2>1. ASSUME NEW S \in SUBSET Blocks, Entry \in S,
               \A b \in S \cap BBExecutable : ToSet(code'.targets[b]) \subseteq S
        PROVE  BBExecutable \cup Ahead' \subseteq S
    <3>1. BBExecutable \cup Ahead \subseteq S
      <4>1. CASE FirstVisit
        <5>1. \A b \in S \cap (BBExecutable \ {block}) : ToSet(code.targets[b]) \subseteq S
          BY <1>4, <1>8, <2>1
        <5> QED
          BY <2>1, <4>1, <5>1 DEF FirstVisit, Through
      <4>2. CASE ~FirstVisit
        <5>1. code' = code /\ Through(BBExecutable)
          BY <1>7, <1>8, <1>9, <4>2
        <5> QED
          BY <2>1, <5>1 DEF Through
      <4> QED
        BY <4>1, <4>2
    <3>2. T \subseteq S
      BY <1>4, <2>1, <3>1 DEF T
    <3> QED
      BY <1>8, <3>1, <3>2
  <2>2. Through(BBExecutable)'
    BY <1>2, <2>1 DEF Through
  <2>3. \A b \in BBExecutable \ {block} : Settled(b)'
    <3>1. \A b \in BBExecutable \ {block} : Settled(b)
      BY <1>1, <1>2 DEF OneVisitSettles
    <3> QED
      BY <1>4, <1>8, <3>1 DEF Settled, Foldable, IsConditional
  <2>4. Settled(block)'
    <3>1. \A i \in Adds \cap code.live : code.add[i].block = block => ~Foldable(i)
      BY <1>2, <1>7 DEF FirstVisit, Settled
    <3> QED
      BY <1>2, <1>8, <3>1 DEF Settled, Foldable
  <2>5. \A b \in BBExecutable : Settled(b)'
    <3> SUFFICES ASSUME NEW b \in BBExecutable PROVE Settled(b)'
      OBVIOUS
    <3>1. CASE b = block
      BY <1>2, <2>4, <3>1 DEF Settled, Foldable, IsConditional
    <3> QED
      BY <2>3, <3>1
  <2> QED
    BY <1>2, <2>2, <2>5 DEF OneVisitSettles
<1>16. InSSAForm'
  <2>1. \A v, b : Defined(code', D', v, b) <=> Defined(code, D, v, b)
    BY <1>6, <1>8 DEF Defined, DefBlock
  <2>2. ASSUME NEW b \in ToSet(code.order)
        PROVE  Defined(code', D', code'.cond[b], b)
    <3>1. b \in Blocks /\ Defined(code, D, code.cond[b], b)
      BY <1>1, <1>3, <1>4, CodeFields, Elements DEF InSSAForm
    <3>2. code'.cond[b] \in Consts \/ code'.cond[b] = code.cond[b]
      BY <1>8, <3>1
    <3>3. \A v \in Consts : Defined(code, D, v, b)
      BY NamesAssumption DEF Defined
    <3> QED
      BY <2>1, <3>1, <3>2, <3>3
  <2> QED
    BY <1>1, <1>2, <1>3, <1>8, <2>1, <2>2 DEF InSSAForm
<1>17. InPlace'
  BY <1>1, <1>2, <1>3, <1>8 DEF InPlace, Present
<1>18. PhisFollow'
  <2>1. Present \subseteq Blocks
    BY <1>4, CodeFields, Elements DEF Present
  <2> QED
    BY <1>1, <1>2, <1>3, <1>8, <1>11, <2>1 DEF PhisFollow, Present
<1>19. Layout' /\ SafeUses' /\ ToClean'
  BY <1>2, <1>3 DEF Layout, SafeUses, ToClean
<1> QED
  BY <1>10, <1>12, <1>13, <1>14, <1>15, <1>16, <1>17, <1>18, <1>19 DEF IInv, Typed

------------------------------------------------------------------------------
(* Deleting *)

\* What dominates a visited block was visited: the deleting does not touch what
\* visited blocks use.
LEMMA StartDeleteInv ==
  ASSUME IInv, Typed', StartDelete
  PROVE  IInv'
<1>1. /\ Typed /\ TypeOK /\ FirstFunction /\ SameFrame /\ DominatorsFirst /\ NoneLost
      /\ OneVisitSettles /\ InSSAForm /\ InPlace /\ PhisFollow
  BY DEF IInv, Typed
<1>2. /\ phase = "visit" /\ phase' = "delete" /\ rest = << >> /\ BBWorkList = << >>
      /\ rest' = code.order
      /\ UNCHANGED <<given, code, BBExecutable, BBWorkList, block, todo>>
  BY DEF StartDelete
<1>3. Visiting /\ ~Visiting' /\ InRun /\ InRun' /\ Deleting'
  BY <1>2 DEF Visiting, InRun, Deleting
<1>4. code \in Codes /\ BBExecutable \in SUBSET Blocks /\ code.order = given.order
  BY <1>1, <1>3 DEF TypeOK, SameFrame
<1>5. Ahead = {}
  <2>1. ToSet(<< >>) = {}
    BY DEF ToSet
  <2> QED
    BY <1>2, <2>1 DEF Ahead
<1>6. Through(BBExecutable) /\ \A b \in BBExecutable : Settled(b)
  BY <1>1, <1>2 DEF OneVisitSettles
<1>7. BBExecutable = Reachable(Succ(code))
  <2>1. /\ Succ(code) \in CFGs
        /\ \A b \in Blocks : Succ(code)[b] = ToSet(code.targets[b])
    BY <1>4, SuccIsGraph
  <2>2. Entry \in BBExecutable /\ \A b \in BBExecutable : ToSet(code.targets[b]) \subseteq BBExecutable
    BY <1>1, <1>2, <1>3, <1>5 DEF NoneLost
  <2>3. Reachable(Succ(code)) \subseteq BBExecutable
    BY <1>4, <2>1, <2>2, ReachableLeast
  <2>4. /\ Reachable(Succ(code)) \in SUBSET Blocks /\ Entry \in Reachable(Succ(code))
        /\ \A b \in Reachable(Succ(code)) : ToSet(code.targets[b]) \subseteq Reachable(Succ(code))
    BY <2>1, ReachableStep
  <2>5. BBExecutable \subseteq Reachable(Succ(code))
    BY <1>6, <2>4 DEF Through
  <2> QED
    BY <2>3, <2>5
<1>8. BBExecutable \subseteq Present
  BY <1>1, <1>3, <1>4 DEF FirstFunction, Present
<1>9. FirstFunction' /\ SameFrame' /\ NoneLost' /\ InSSAForm' /\ ToClean'
  BY <1>1, <1>2, <1>3 DEF FirstFunction, SameFrame, NoneLost, InSSAForm, ToClean
<1>10. D' = D
  BY <1>2 DEF D
<1>11. DominatorsFirst'
  BY <1>1, <1>2, <1>3, <1>10 DEF DominatorsFirst
<1>12. OneVisitSettles'
  <2>1. \A b \in BBExecutable' : Settled(b)'
    BY <1>2, <1>6 DEF Settled, Foldable, IsConditional
  <2>2. Len(code.order) \in Nat
    BY <1>4, CodeFields, LenProperties
  <2>3. Len(code'.order) <= Len(given'.order)
    BY <1>2, <1>4, <2>2
  <2> QED
    BY <1>2, <2>1, <2>3 DEF OneVisitSettles
<1>13. Layout'
  <2>1. Len(code.order) \in Nat
    BY <1>4, CodeFields, LenProperties
  <2>2. Len(code.order) - Len(code.order) = 0 /\ 1..0 = {}
        /\ \A k \in 1..Len(code.order) : 0 + k = k
    BY <2>1
  <2>3. Present' = Present
    BY <1>2 DEF Present
  <2> QED
    BY <1>2, <1>7, <1>8, <2>2, <2>3 DEF Layout
<1>14. InPlace'
  BY <1>1, <1>2, <1>3 DEF InPlace, Present
<1>15. PhisFollow'
  <2>1. \A p \in Phis \cap code.live : code.phi[p].from \subseteq ToSet(rest')
    BY <1>1, <1>2, <1>3 DEF InSSAForm
  <2> QED
    BY <1>1, <1>2, <1>3, <2>1 DEF PhisFollow, Present
<1>16. SafeUses'
  <2>1. \A v, b : b \in BBExecutable /\ Defined(code, D, v, b) => Safe(v)
    <3> SUFFICES ASSUME NEW v \in Adds \cup Phis, NEW b \in BBExecutable, Defined(code, D, v, b)
                 PROVE  Safe(v)
      BY DEF Safe
    <3>1. DefBlock(code, v) \in Blocks
      BY <1>4, CodeFields DEF DefBlock
    <3> QED
      BY <1>1, <1>3, <3>1 DEF Defined, DominatorsFirst, Safe
  <2>2. \A v : Safe(v)' <=> Safe(v)
    BY <1>2 DEF Safe
  <2>3. \A b \in BBExecutable : Safe(code.cond[b])
    BY <1>1, <1>3, <1>8, <2>1 DEF InSSAForm, Present
  <2>4. \A i \in Adds \cap code.live : code.add[i].block \in BBExecutable =>
          Safe(code.add[i].lhs) /\ Safe(code.add[i].rhs)
    BY <1>1, <1>3, <2>1 DEF InSSAForm
  <2>5. \A p \in Phis \cap code.live :
          \A q \in code.phi[p].from \cap BBExecutable : Safe(code.phi[p].values[q])
    BY <1>1, <1>3, <2>1 DEF InSSAForm
  <2> QED
    BY <1>2, <2>2, <2>3, <2>4, <2>5 DEF SafeUses, Safe
<1> QED
  BY <1>9, <1>11, <1>12, <1>13, <1>14, <1>15, <1>16 DEF IInv, Typed

LEMMA WalkInv ==
  ASSUME IInv, Typed', KeepBlock \/ DropBlock
  PROVE  IInv'
<1> DEFINE h == Head(rest)
           here == Len(code.order) - Len(rest)
<1>1. /\ Typed /\ TypeOK /\ FirstFunction /\ SameFrame /\ DominatorsFirst
      /\ OneVisitSettles /\ Layout /\ InPlace /\ PhisFollow /\ SafeUses
  BY DEF IInv, Typed
<1>2. /\ phase = "delete" /\ rest # << >> /\ rest' = Tail(rest)
      /\ phase' \in {"delete", "clean"}
      /\ phase' = "delete" => h \in BBExecutable /\ block' = block
      /\ phase' = "clean" =>
           /\ h \notin BBExecutable /\ block' = h
           /\ todo' = {p \in Phis \cap code.live :
                         code.phi[p].block \in ToSet(code.targets[h]) \cap Present}
      /\ UNCHANGED <<given, code, BBExecutable, BBWorkList>>
  BY DEF KeepBlock, DropBlock
<1>3. InRun /\ InRun' /\ Deleting /\ Deleting' /\ ~Visiting /\ ~Visiting'
  BY <1>2 DEF InRun, Deleting, Visiting
<1>4. /\ code \in Codes /\ h \in Blocks
      /\ ToSet(rest) = {h} \cup ToSet(rest') /\ h = rest[1]
      /\ Len(rest') = Len(rest) - 1 /\ Len(rest) \in Nat /\ Len(rest) # 0
      /\ \A k \in 1..Len(rest') : rest'[k] = rest[k + 1]
  BY <1>1, <1>2, Beheaded, LenProperties, EmptySeq DEF TypeOK
<1>5. Len(code.order) \in Nat /\ here \in Nat
  BY <1>1, <1>3, <1>4, CodeFields, LenProperties DEF Layout
<1>6. /\ FirstFunction' /\ SameFrame' /\ NoneLost' /\ InSSAForm' /\ InPlace'
  BY <1>1, <1>2, <1>3 DEF FirstFunction, SameFrame, NoneLost, InSSAForm, InPlace, Present
<1>7. DominatorsFirst'
  BY <1>1, <1>2, <1>3 DEF DominatorsFirst, D
<1>8. OneVisitSettles'
  <2>1. \A b \in BBExecutable : Settled(b)' <=> Settled(b)
    BY <1>2 DEF Settled, Foldable, IsConditional
  <2> QED
    BY <1>1, <1>2, <2>1 DEF OneVisitSettles
<1>9. Layout'
  <2>1. /\ \A k \in 1..Len(rest) : rest[k] = code.order[here + k]
        /\ \A k \in 1..here : code.order[k] \in BBExecutable
        /\ BBExecutable = Reachable(Succ(code)) /\ BBExecutable \subseteq Present
    BY <1>1, <1>2, <1>3 DEF Layout
  <2>2. Len(code'.order) - Len(rest') = here + 1
    BY <1>2, <1>4, <1>5
  <2>3. code.order[here + 1] = h
    <3>1. 1 \in 1..Len(rest)
      BY <1>4
    <3> QED
      BY <1>4, <2>1, <3>1
  <2>4. \A k \in 1..Len(rest') : rest'[k] = code.order[(here + 1) + k]
    <3> TAKE k \in 1..Len(rest')
    <3> HIDE DEF here
    <3>1. k + 1 \in 1..Len(rest)
      BY <1>4
    <3>2. here + (k + 1) = (here + 1) + k
      BY <1>5
    <3>3. rest[k + 1] = code.order[here + (k + 1)]
      BY <2>1, <3>1
    <3> QED
      BY <1>4, <3>2, <3>3
  <2> HIDE DEF here
  <2>5. \A k \in 1..(here + 1) : k \in 1..here \/ k = here + 1
    BY <1>5
  <2>6. here + 1 \in Nat /\ here + 1 >= 1
    BY <1>5
  <2> QED
    BY <1>2, <2>1, <2>2, <2>3, <2>4, <2>5, <2>6 DEF Layout, Present
<1>10. PhisFollow'
  <2>1. ASSUME NEW p \in Phis \cap code.live, NEW q \in code.phi[p].from
        PROVE  \/ q \in BBExecutable \cup ToSet(rest')
               \/ phase' = "clean" /\ p \in todo' /\ q = block'
    <3>1. q \in BBExecutable \cup {h} \cup ToSet(rest')
      BY <1>1, <1>2, <1>3, <1>4 DEF PhisFollow
    <3>2. CASE q = h /\ h \notin BBExecutable
      <4>1. code.phi[p].block \in ToSet(given.targets[h])
        BY <1>1, <1>3, <3>2 DEF PhisFollow
      <4>2. code.phi[p].block \in ToSet(code.targets[h]) \cap Present
        BY <1>1, <1>3, <1>4, <3>2, <4>1 DEF SameFrame, InPlace
      <4> QED
        BY <1>2, <3>2, <4>2
    <3> QED
      BY <3>1, <3>2
  <2> QED
    BY <1>1, <1>2, <1>3, <2>1 DEF PhisFollow, Present
<1>11. SafeUses'
  <2>1. \A v : Safe(v)' <=> Safe(v)
    BY <1>2 DEF Safe, DefBlock
  <2> QED
    BY <1>1, <1>2, <1>3, <2>1 DEF SafeUses
<1>12. ToClean'
  BY <1>2 DEF ToClean
<1> QED
  BY <1>6, <1>7, <1>8, <1>9, <1>10, <1>11, <1>12 DEF IInv, Typed

\* What CleanPhi does to the function: w stands in the place of p, or p for
\* itself.
Cleaned(p, w) ==
  /\ code'.order = code.order /\ code'.targets = code.targets
  /\ code'.live \subseteq code.live /\ code.live \ {p} \subseteq code'.live
  /\ \A b \in Blocks : code'.cond[b] = Renamed(p, w, code.cond[b])
  /\ \A i \in Adds : /\ code'.add[i].block = code.add[i].block
                     /\ code'.add[i].lhs = Renamed(p, w, code.add[i].lhs)
                     /\ code'.add[i].rhs = Renamed(p, w, code.add[i].rhs)
  /\ \A r \in Phis :
       /\ code'.phi[r].block = code.phi[r].block
       /\ code'.phi[r].from \subseteq code.phi[r].from
       /\ r # p => code'.phi[r].from = code.phi[r].from
       /\ r = p => code'.phi[r].from = code.phi[r].from \ {block}
       /\ \A b \in Blocks :
            code'.phi[r].values[b] = Renamed(p, w, code.phi[r].values[b])

\* The phi that goes may have uses in a visited block only if it stands in one;
\* then the value it is replaced by is that of a visited predecessor.
LEMMA CleanPhiInv ==
  ASSUME IInv, Typed', NEW p \in todo \cap Phis, CleanPhi(p)
  PROVE  IInv'
<1> DEFINE left == code.phi[p].from \ {block}
           edited == Trimmed(code, p, left)
<1>1. /\ Typed /\ TypeOK /\ FirstFunction /\ SameFrame /\ DominatorsFirst
      /\ OneVisitSettles /\ Layout /\ InPlace /\ PhisFollow /\ SafeUses /\ ToClean
  BY DEF IInv, Typed
<1>2. /\ phase = "clean" /\ phase' = "clean" /\ todo' = todo \ {p}
      /\ UNCHANGED <<given, BBExecutable, BBWorkList, block, rest>>
      /\ \/ code' = edited
         \/ \E b \in left : /\ left = {b} /\ code.phi[p].values[b] # p
                            /\ code' = Substituted(edited, p, code.phi[p].values[b])
  BY DEF CleanPhi, Trimmed
<1>3. InRun /\ InRun' /\ Deleting /\ Deleting' /\ ~Visiting /\ ~Visiting'
  BY <1>2 DEF InRun, Deleting, Visiting
<1>4. /\ code \in Codes /\ code' \in Codes /\ block \in Blocks /\ BBExecutable \subseteq Blocks
      /\ p \in Phis \cap code.live /\ code.phi[p].block \in ToSet(code.targets[block])
      /\ block \notin BBExecutable
  BY <1>1, <1>2, <1>3 DEF TypeOK, Typed, ToClean, Layout
<1>5. /\ edited \in Codes
      /\ edited.order = code.order /\ edited.live = code.live /\ edited.add = code.add
      /\ edited.targets = code.targets /\ edited.cond = code.cond
      /\ edited.phi[p].from = left
      /\ \A r \in Phis : /\ edited.phi[r].block = code.phi[r].block
                         /\ edited.phi[r].values = code.phi[r].values
                         /\ r # p => edited.phi[r].from = code.phi[r].from
  <2>1. left \in SUBSET Blocks
    BY <1>4, CodeFields
  <2> HIDE DEF left
  <2> QED
    BY <1>4, <2>1, TrimFields
<1>6. \A r \in Phis : code.phi[r].from \subseteq Blocks
  BY <1>4, CodeFields
<1> HIDE DEF edited
<1>7. \E w : Cleaned(p, w) /\ \A x : Safe(x) => Safe(Renamed(p, w, x))'
  <2>1. CASE code' = edited
    <3>1. \A x : Renamed(p, p, x) = x
      BY DEF Renamed
    <3>2. \A x : Safe(x) => Safe(x)'
      BY <1>2, <1>5, <2>1 DEF Safe, DefBlock
    <3>3. Cleaned(p, p)
      BY <1>5, <2>1, <3>1 DEF Cleaned
    <3> QED
      BY <3>1, <3>2, <3>3
  <2>2. ASSUME NEW b \in left, left = {b}, code.phi[p].values[b] # p,
               code' = Substituted(edited, p, code.phi[p].values[b])
        PROVE  \E w : Cleaned(p, w) /\ \A x : Safe(x) => Safe(Renamed(p, w, x))'
    <3>0. PICK w : w = code.phi[p].values[b]
      OBVIOUS
    <3>1. w \in Values /\ w # p
      BY <1>4, <1>6, <2>2, <3>0, CodeFields
    <3>2. code' = Substituted(edited, p, w)
      BY <2>2, <3>0
    <3>3. /\ code'.order = edited.order /\ code'.targets = edited.targets
          /\ code'.live = edited.live \ {p}
          /\ \A q \in Blocks : code'.cond[q] = Renamed(p, w, edited.cond[q])
          /\ \A i \in Adds : /\ code'.add[i].block = edited.add[i].block
                             /\ code'.add[i].lhs = Renamed(p, w, edited.add[i].lhs)
                             /\ code'.add[i].rhs = Renamed(p, w, edited.add[i].rhs)
          /\ \A r \in Phis : /\ code'.phi[r].block = edited.phi[r].block
                             /\ code'.phi[r].from = edited.phi[r].from
                             /\ \A q \in Blocks : code'.phi[r].values[q] =
                                  Renamed(p, w, edited.phi[r].values[q])
      BY <1>5, <3>1, <3>2, SubstitutedFields
    <3>4. Safe(p) => Safe(w)
      <4> SUFFICES ASSUME Safe(p) PROVE Safe(w)
        OBVIOUS
      <4> DEFINE pb == code.phi[p].block
      <4>1. pb \in BBExecutable
        BY <1>4, NamesAssumption DEF Safe, DefBlock
      <4>2. /\ Succ(code) \in CFGs /\ \A q \in Blocks : Succ(code)[q] = ToSet(code.targets[q])
            /\ pb # Entry
        BY <1>4, SuccIsGraph DEF NonEntry
      <4>3. BBExecutable = Reachable(Succ(code)) /\ BBExecutable \subseteq Present
        BY <1>1, <1>3 DEF Layout
      <4>4. PICK q \in BBExecutable : pb \in ToSet(code.targets[q])
        BY <1>4, <4>1, <4>2, <4>3, ReachablePredecessor
      <4>5. q \in code.phi[p].from
        BY <1>1, <1>3, <1>4, <4>3, <4>4 DEF PhisFollow
      <4>6. q = b
        BY <1>4, <2>2, <4>5
      <4> QED
        BY <1>1, <1>3, <1>4, <3>0, <4>1, <4>5, <4>6 DEF SafeUses
    <3>5. \A x : x # p /\ Safe(x) => Safe(x)'
      BY <1>2, <1>5, <3>3 DEF Safe, DefBlock
    <3>6. \A x : Safe(x) => Safe(Renamed(p, w, x))'
      <4> SUFFICES ASSUME NEW x, Safe(x) PROVE Safe(Renamed(p, w, x))'
        OBVIOUS
      <4>1. CASE x = p
        <5>1. Safe(w)'
          BY <3>1, <3>4, <3>5, <4>1
        <5> QED
          BY <4>1, <5>1 DEF Renamed
      <4>2. CASE x # p
        <5>1. Safe(x)'
          BY <3>5, <4>2
        <5> QED
          BY <4>2, <5>1 DEF Renamed
      <4> QED
        BY <4>1, <4>2
    <3>7. Cleaned(p, w)
      BY <1>5, <1>6, <3>3 DEF Cleaned
    <3> QED
      BY <3>6, <3>7
  <2> QED
    BY <1>2, <2>1, <2>2
<1>8. PICK w : Cleaned(p, w) /\ \A x : Safe(x) => Safe(Renamed(p, w, x))'
  BY <1>7
<1> DEFINE New(x) == Renamed(p, w, x)
<1>9. /\ code'.order = code.order /\ code'.targets = code.targets
      /\ code'.live \subseteq code.live /\ code.live \ {p} \subseteq code'.live
      /\ \A b \in Blocks : code'.cond[b] = New(code.cond[b])
      /\ \A i \in Adds : /\ code'.add[i].block = code.add[i].block
                         /\ code'.add[i].lhs = New(code.add[i].lhs)
                         /\ code'.add[i].rhs = New(code.add[i].rhs)
      /\ \A r \in Phis : /\ code'.phi[r].block = code.phi[r].block
                         /\ code'.phi[r].from \subseteq code.phi[r].from
                         /\ r # p => code'.phi[r].from = code.phi[r].from
                         /\ r = p => code'.phi[r].from = left
                         /\ \A b \in Blocks : code'.phi[r].values[b] = New(code.phi[r].values[b])
  BY <1>8 DEF Cleaned
<1> HIDE DEF New
<1>10. FirstFunction' /\ NoneLost' /\ InSSAForm'
  BY <1>1, <1>2, <1>3 DEF FirstFunction, NoneLost, InSSAForm
<1>11. SameFrame'
  BY <1>1, <1>2, <1>3, <1>9 DEF SameFrame
<1>12. DominatorsFirst'
  BY <1>1, <1>2, <1>3 DEF DominatorsFirst, D
<1>13. OneVisitSettles'
  BY <1>1, <1>2, <1>9 DEF OneVisitSettles
<1>14. Layout'
  <2>1. Succ(code') = Succ(code) /\ Present' = Present
    BY <1>9 DEF Succ, Present
  <2> QED
    BY <1>1, <1>2, <1>3, <1>9, <2>1 DEF Layout
<1>15. InPlace'
  BY <1>1, <1>3, <1>9 DEF InPlace, Present
<1>16. PhisFollow'
  <2>1. ASSUME NEW r \in Phis \cap code'.live
        PROVE  /\ \A q \in code'.phi[r].from : code'.phi[r].block \in ToSet(given.targets[q])
               /\ \A q \in BBExecutable \cap Present :
                    code'.phi[r].block \in ToSet(code.targets[q]) => q \in code'.phi[r].from
               /\ \A q \in code'.phi[r].from :
                    q \in BBExecutable \cup ToSet(rest) \/ (r \in todo' /\ q = block)
    <3>1. r \in Phis \cap code.live /\ code'.phi[r].block = code.phi[r].block
      BY <1>9
    <3>2. /\ \A q \in code.phi[r].from : code.phi[r].block \in ToSet(given.targets[q])
          /\ \A q \in BBExecutable \cap Present :
               code.phi[r].block \in ToSet(code.targets[q]) => q \in code.phi[r].from
          /\ \A q \in code.phi[r].from :
               q \in BBExecutable \cup ToSet(rest) \/ (r \in todo /\ q = block)
      BY <1>1, <1>3, <3>1 DEF PhisFollow
    <3>3. \A q \in code'.phi[r].from : code'.phi[r].block \in ToSet(given.targets[q])
      BY <1>9, <3>1, <3>2
    <3>4. \A q \in BBExecutable \cap Present :
            code'.phi[r].block \in ToSet(code.targets[q]) => q \in code'.phi[r].from
      BY <1>4, <1>9, <3>1, <3>2
    <3>5. \A q \in code'.phi[r].from :
            q \in BBExecutable \cup ToSet(rest) \/ (r \in todo' /\ q = block)
      BY <1>2, <1>4, <1>9, <3>1, <3>2
    <3> QED
      BY <3>3, <3>4, <3>5
  <2> QED
    BY <1>2, <1>3, <1>9, <2>1 DEF PhisFollow, Present
<1>17. SafeUses'
  <2>1. \A x : Safe(x) => Safe(New(x))'
    BY <1>8 DEF New
  <2>2. ASSUME NEW b \in BBExecutable
        PROVE  Safe(code.cond[b]) /\ code'.cond[b] = New(code.cond[b])
    BY <1>1, <1>3, <1>4, <1>9 DEF SafeUses, New
  <2>3. ASSUME NEW i \in Adds \cap code'.live, code'.add[i].block \in BBExecutable
        PROVE  /\ Safe(code.add[i].lhs) /\ code'.add[i].lhs = New(code.add[i].lhs)
               /\ Safe(code.add[i].rhs) /\ code'.add[i].rhs = New(code.add[i].rhs)
    BY <1>1, <1>3, <1>9, <2>3 DEF SafeUses, New
  <2>4. ASSUME NEW r \in Phis \cap code'.live, code'.phi[r].block \in BBExecutable,
               NEW q \in code'.phi[r].from \cap BBExecutable
        PROVE  /\ Safe(code.phi[r].values[q])
               /\ code'.phi[r].values[q] = New(code.phi[r].values[q])
    <3>1. r \in Phis \cap code.live /\ code.phi[r].block \in BBExecutable
          /\ q \in code.phi[r].from \cap BBExecutable /\ q \in Blocks
      BY <1>4, <1>9, <2>4
    <3> QED
      BY <1>1, <1>3, <1>9, <3>1 DEF SafeUses, New
  <2>5. /\ \A b \in BBExecutable : Safe(code.cond[b])'
        /\ \A i \in Adds \cap code'.live : code'.add[i].block \in BBExecutable =>
             Safe(code.add[i].lhs)' /\ Safe(code.add[i].rhs)'
        /\ \A r \in Phis \cap code'.live : code'.phi[r].block \in BBExecutable =>
             \A q \in code'.phi[r].from \cap BBExecutable : Safe(code.phi[r].values[q])'
    <3>1. ASSUME NEW b \in BBExecutable PROVE Safe(code.cond[b])'
      BY <2>1, <2>2 DEF Safe
    <3>2. ASSUME NEW i \in Adds \cap code'.live, code'.add[i].block \in BBExecutable
          PROVE  Safe(code.add[i].lhs)' /\ Safe(code.add[i].rhs)'
      BY <2>1, <2>3, <3>2 DEF Safe
    <3>3. ASSUME NEW r \in Phis \cap code'.live, code'.phi[r].block \in BBExecutable,
                 NEW q \in code'.phi[r].from \cap BBExecutable
          PROVE  Safe(code.phi[r].values[q])'
      BY <2>1, <2>4, <3>3 DEF Safe
    <3> QED
      BY <3>1, <3>2, <3>3
  <2> QED
    BY <1>2, <2>5 DEF SafeUses
<1>18. ToClean'
  BY <1>1, <1>2, <1>9 DEF ToClean
<1> QED
  BY <1>10, <1>11, <1>12, <1>13, <1>14, <1>15, <1>16, <1>17, <1>18 DEF IInv, Typed

LEMMA EraseBlockInv ==
  ASSUME IInv, Typed', EraseBlock
  PROVE  IInv'
<1> DEFINE here == Len(code.order) - Len(rest)
           order == RemoveAt(code.order, here)
           gone == {i \in Adds : code.add[i].block = block}
                   \cup {p \in Phis : code.phi[p].block = block}
<1>1. /\ Typed /\ TypeOK /\ FirstFunction /\ SameFrame /\ DominatorsFirst
      /\ OneVisitSettles /\ Layout /\ InPlace /\ PhisFollow /\ SafeUses
  BY DEF IInv, Typed
<1>2. /\ phase = "clean" /\ phase' = "delete" /\ todo = {}
      /\ UNCHANGED <<given, BBExecutable, BBWorkList, block, todo, rest>>
      /\ code' = Without(code, order, gone)
  BY DEF EraseBlock, Without
<1>3. InRun /\ InRun' /\ Deleting /\ Deleting' /\ ~Visiting /\ ~Visiting'
  BY <1>2 DEF InRun, Deleting, Visiting
<1>4. /\ code \in Codes /\ given \in Codes /\ code.order \in Seq(Blocks)
      /\ Len(code.order) \in Nat /\ Len(rest) \in Nat /\ Len(given.order) \in Nat
      /\ DOMAIN code.order = 1..Len(code.order)
  BY <1>1, <1>3, GivenFacts, CodeFields, LenProperties DEF TypeOK
<1>5. /\ here \in 1..Len(code.order)
      /\ code.order[here] = block /\ block \notin BBExecutable
      /\ \A k \in 1..Len(rest) : rest[k] = code.order[here + k]
      /\ \A k \in 1..here : code.order[k] \notin BBExecutable => k = here
      /\ BBExecutable = Reachable(Succ(code)) /\ BBExecutable \subseteq Present
  <2>1. here >= 1 /\ here \in Nat
    BY <1>1, <1>2, <1>3 DEF Layout
  <2>2. here <= Len(code.order)
    BY <1>4
  <2>3. here \in 1..Len(code.order)
    BY <1>4, <2>1, <2>2
  <2> QED
    BY <1>1, <1>2, <1>3, <2>3 DEF Layout
<1> HIDE DEF here
<1>6. /\ order \in Seq(Blocks) /\ Len(order) = Len(code.order) - 1
      /\ ToSet(order) = {code.order[k] : k \in (1..Len(code.order)) \ {here}}
      /\ \A k \in 1..(Len(code.order) - 1) :
           order[k] = IF k < here THEN code.order[k] ELSE code.order[k + 1]
  <2>1. ToSet(order) = Others(code.order, here)
    BY <1>4, <1>5, RemovedFrom
  <2>2. /\ order \in Seq(Blocks) /\ Len(order) = Len(code.order) - 1
        /\ \A k \in 1..(Len(code.order) - 1) :
             order[k] = IF k < here THEN code.order[k] ELSE code.order[k + 1]
    BY <1>4, <1>5, RemovedFrom
  <2> QED
    BY <2>1, <2>2 DEF Others
<1> HIDE DEF order, gone
<1>7. /\ code'.order = order /\ code'.live = code.live \ gone
      /\ code'.add = code.add /\ code'.phi = code.phi
      /\ code'.targets = code.targets /\ code'.cond = code.cond
  BY <1>2, <1>4, <1>6, EraseFields
<1>8. Present \ {block} \subseteq Present' /\ Present' \subseteq Present
  <2>1. Present = {code.order[k] : k \in 1..Len(code.order)}
    BY <1>4 DEF Present, ToSet
  <2>2. Present' = {code.order[k] : k \in (1..Len(code.order)) \ {here}}
    BY <1>6, <1>7 DEF Present
  <2> QED
    BY <1>5, <2>1, <2>2
<1>9. FirstFunction' /\ NoneLost' /\ InSSAForm' /\ ToClean'
  BY <1>1, <1>2, <1>3 DEF FirstFunction, NoneLost, InSSAForm, ToClean
<1>10. SameFrame'
  BY <1>1, <1>2, <1>3, <1>7 DEF SameFrame
<1>11. DominatorsFirst'
  BY <1>1, <1>2, <1>3 DEF DominatorsFirst, D
<1>12. OneVisitSettles'
  <2>1. Len(code.order) <= Len(given.order)
    BY <1>1, <1>2 DEF OneVisitSettles
  <2>2. Len(code'.order) < Len(given'.order) /\ Len(code'.order) <= Len(given'.order)
    BY <1>2, <1>4, <1>6, <1>7, <2>1
  <2> QED
    BY <1>2, <2>2 DEF OneVisitSettles
<1>13. Layout'
  <2>1. Len(code'.order) - Len(rest') = here - 1 /\ here - 1 \in Nat
    BY <1>2, <1>4, <1>5, <1>6, <1>7 DEF here
  <2>2. Succ(code') = Succ(code)
    BY <1>7 DEF Succ
  <2>3. BBExecutable \subseteq Present'
    BY <1>5, <1>8
  <2>4. ASSUME NEW k \in 1..Len(rest)
        PROVE  rest[k] = order[(here - 1) + k]
    <3>1. Len(rest) = Len(code.order) - here
      BY <1>4 DEF here
    <3>2. /\ (here - 1) + k \in 1..(Len(code.order) - 1)
          /\ ~((here - 1) + k < here) /\ ((here - 1) + k) + 1 = here + k
      BY <1>4, <1>5, <3>1
    <3>3. order[(here - 1) + k] = code.order[here + k]
      BY <1>6, <3>2
    <3> QED
      BY <1>5, <3>3
  <2>5. ASSUME NEW k \in 1..(here - 1)
        PROVE  order[k] \in BBExecutable
    <3>1. k \in 1..(Len(code.order) - 1) /\ k < here /\ k \in 1..here /\ k # here
      BY <1>4, <1>5
    <3> QED
      BY <1>5, <1>6, <3>1
  <2> QED
    BY <1>2, <1>5, <1>7, <2>1, <2>2, <2>3, <2>4, <2>5 DEF Layout
<1>14. InPlace'
  <2>1. ASSUME NEW i \in Adds \cap code'.live PROVE code.add[i].block \in Present'
    BY <1>1, <1>3, <1>7, <1>8, <2>1 DEF InPlace, gone
  <2>2. ASSUME NEW p \in Phis \cap code'.live PROVE code.phi[p].block \in Present'
    BY <1>1, <1>3, <1>7, <1>8, <2>2 DEF InPlace, gone
  <2> QED
    BY <1>7, <2>1, <2>2 DEF InPlace
<1>15. PhisFollow'
  <2>1. ASSUME NEW p \in Phis \cap code'.live
        PROVE  /\ \A q \in code.phi[p].from : code.phi[p].block \in ToSet(given.targets[q])
               /\ \A q \in Present' : q \in BBExecutable /\ code.phi[p].block \in ToSet(code.targets[q])
                                        => q \in code.phi[p].from
               /\ \A q \in code.phi[p].from : q \in BBExecutable \cup ToSet(rest)
    BY <1>1, <1>2, <1>3, <1>7, <1>8 DEF PhisFollow
  <2> QED
    BY <1>2, <1>3, <1>7, <2>1 DEF PhisFollow
<1>16. SafeUses'
  <2>1. \A v : Safe(v) => Safe(v)'
    <3> SUFFICES ASSUME NEW v \in Adds \cup Phis, Safe(v) PROVE Safe(v)'
      BY DEF Safe
    <3>1. v \in code.live /\ DefBlock(code, v) \in BBExecutable
      BY DEF Safe
    <3>2. v \notin gone
      BY <1>5, <3>1, NamesAssumption DEF gone, DefBlock
    <3> QED
      BY <1>2, <1>7, <3>1, <3>2 DEF Safe, DefBlock
  <2>2. /\ \A b \in BBExecutable : Safe(code.cond[b])
        /\ \A i \in Adds \cap code.live : code.add[i].block \in BBExecutable =>
             Safe(code.add[i].lhs) /\ Safe(code.add[i].rhs)
        /\ \A p \in Phis \cap code.live : code.phi[p].block \in BBExecutable =>
             \A q \in code.phi[p].from \cap BBExecutable : Safe(code.phi[p].values[q])
    BY <1>1, <1>3 DEF SafeUses
  <2>3. /\ \A b \in BBExecutable : Safe(code.cond[b])'
        /\ \A i \in Adds \cap code'.live : code.add[i].block \in BBExecutable =>
             Safe(code.add[i].lhs)' /\ Safe(code.add[i].rhs)'
        /\ \A p \in Phis \cap code'.live : code.phi[p].block \in BBExecutable =>
             \A q \in code.phi[p].from \cap BBExecutable : Safe(code.phi[p].values[q])'
    BY <1>7, <2>1, <2>2 DEF Safe, DefBlock
  <2> QED
    BY <1>2, <1>7, <2>3 DEF SafeUses
<1> QED
  BY <1>9, <1>10, <1>11, <1>12, <1>13, <1>14, <1>15, <1>16 DEF IInv, Typed

\* The steps that end the deleting, and those after which nothing is claimed.
LEMMA ReturnInv ==
  ASSUME IInv, Typed', Return
  PROVE  IInv'
<1>1. /\ Typed /\ TypeOK /\ FirstFunction /\ SameFrame /\ DominatorsFirst
      /\ Layout /\ InPlace /\ PhisFollow /\ SafeUses
  BY DEF IInv, Typed
<1>2. /\ phase = "delete" /\ phase' = "returned" /\ rest = << >>
      /\ UNCHANGED <<given, code, BBExecutable, BBWorkList, block, todo, rest>>
  BY DEF Return
<1>3. InRun /\ InRun' /\ Deleting /\ Deleting' /\ ~Visiting /\ ~Visiting'
  BY <1>2 DEF InRun, Deleting, Visiting
<1>4. FirstFunction' /\ SameFrame' /\ NoneLost' /\ InSSAForm' /\ InPlace' /\ ToClean'
  BY <1>1, <1>2, <1>3 DEF FirstFunction, SameFrame, NoneLost, InSSAForm, InPlace, ToClean, Present
<1>5. DominatorsFirst' /\ OneVisitSettles'
  BY <1>1, <1>2, <1>3 DEF DominatorsFirst, D, OneVisitSettles
<1>6. Layout'
  BY <1>1, <1>2, <1>3 DEF Layout, Present
<1>7. PhisFollow'
  BY <1>1, <1>2, <1>3 DEF PhisFollow, Present
<1>8. SafeUses'
  BY <1>1, <1>2, <1>3 DEF SafeUses, Safe, DefBlock
<1> QED
  BY <1>4, <1>5, <1>6, <1>7, <1>8 DEF IInv, Typed

LEMMA OutsideInv ==
  ASSUME IInv, Typed', ~InRun',
         phase' = "idle" => BBExecutable' = {} \/ Entry \in BBExecutable'
  PROVE  IInv'
<1>1. ~Visiting' /\ ~Deleting' /\ phase' \notin {"visit", "fold", "delete", "clean"}
  BY DEF InRun, Visiting, Deleting
<1> QED
  BY <1>1 DEF IInv, Typed, FirstFunction, SameFrame, DominatorsFirst, NoneLost,
     OneVisitSettles, InSSAForm, Layout, InPlace, PhisFollow, SafeUses, ToClean

LEMMA LeaveInv ==
  ASSUME IInv, Typed', Leave
  PROVE  IInv'
<1>1. phase = "returned" /\ Deleting /\ code \in Codes /\ Layout
  BY DEF IInv, Leave, Deleting, TypeOK
<1>2. Entry \in BBExecutable
  BY <1>1, SuccIsGraph, ReachableStep DEF Layout
<1>3. phase' = "idle" /\ BBExecutable' = BBExecutable
  BY DEF Leave
<1>4. ~InRun'
  BY <1>3 DEF InRun, Visiting, Deleting
<1> QED
  BY <1>2, <1>3, <1>4, OutsideInv

LEMMA StutterInv ==
  ASSUME IInv, Typed', UNCHANGED vars
  PROVE  IInv'
<1> USE DEF vars
<1>1. FirstFunction' /\ SameFrame' /\ InPlace' /\ ToClean'
  BY DEF IInv, FirstFunction, SameFrame, InPlace, ToClean, InRun, Visiting, Deleting, Present
<1>2. DominatorsFirst' /\ NoneLost'
  BY DEF IInv, DominatorsFirst, NoneLost, InRun, Visiting, Deleting, D, Ahead
<1>3. OneVisitSettles'
  <2>1. \A b \in BBExecutable : Settled(b)' <=> Settled(b)
    BY DEF Settled, Foldable, IsConditional
  <2>2. Settled(block)' <=> Settled(block)
    BY DEF Settled, Foldable, IsConditional
  <2>3. (Through(BBExecutable)' <=> Through(BBExecutable)) /\ (FirstVisit' <=> FirstVisit)
    BY DEF FirstVisit, Through, Foldable, Ahead, D
  <2> QED
    BY <2>1, <2>2, <2>3 DEF IInv, OneVisitSettles
<1>4. InSSAForm'
  <2>1. CASE Visiting
    BY <2>1, SSAFormStays DEF IInv
  <2>2. CASE ~Visiting
    BY <2>2 DEF InSSAForm, Visiting
  <2> QED
    BY <2>1, <2>2
<1>5. Layout'
  BY DEF IInv, Layout, Deleting, Present
<1>6. PhisFollow'
  BY DEF IInv, PhisFollow, InRun, Visiting, Deleting, Present
<1>7. SafeUses'
  <2>1. \A v : Safe(v)' <=> Safe(v)
    BY DEF Safe, DefBlock
  <2> QED
    BY <2>1 DEF IInv, SafeUses, Deleting
<1> QED
  BY <1>1, <1>2, <1>3, <1>4, <1>5, <1>6, <1>7 DEF IInv, Typed

------------------------------------------------------------------------------
(* The invariant and what follows from it *)

LEMMA InitInv == Init => IInv
<1> SUFFICES ASSUME Init PROVE IInv
  OBVIOUS
<1>1. ~Visiting /\ ~Deleting /\ ~InRun /\ phase = "idle" /\ BBExecutable = {}
  BY DEF Init, InRun, Visiting, Deleting
<1> QED
  BY <1>1, InitTyped DEF IInv, Typed, FirstFunction, SameFrame, DominatorsFirst, NoneLost,
     OneVisitSettles, InSSAForm, Layout, InPlace, PhisFollow, SafeUses, ToClean

LEMMA NextInv ==
  ASSUME ~ReusesAddresses, IInv, [Next]_vars
  PROVE  IInv'
<1>1. Typed'
  BY NextTyped DEF IInv, Typed
<1>2. CASE Begin
  BY <1>1, <1>2, BeginInv
<1>3. CASE Visit
  BY <1>1, <1>3, VisitInv
<1>4. ASSUME NEW i \in todo \cap Adds, Fold(i) PROVE IInv'
  BY <1>1, <1>4, FoldInv
<1>5. CASE ToSuccessors
  BY <1>1, <1>5, ToSuccessorsInv
<1>6. CASE PushSuccessor
  BY <1>1, <1>6, PushInv
<1>7. CASE StartDelete
  BY <1>1, <1>7, StartDeleteInv
<1>8. CASE KeepBlock \/ DropBlock
  BY <1>1, <1>8, WalkInv
<1>9. ASSUME NEW p \in todo \cap Phis, CleanPhi(p) PROVE IInv'
  BY <1>1, <1>9, CleanPhiInv
<1>10. ASSUME phase' = "undefined" PROVE IInv'
  <2>1. ~InRun'
    BY <1>10 DEF InRun, Visiting, Deleting
  <2> QED
    BY <1>1, <1>10, <2>1, OutsideInv
<1>11. CASE EraseBlock
  BY <1>1, <1>11, EraseBlockInv
<1>12. CASE Return
  BY <1>1, <1>12, ReturnInv
<1>13. CASE Leave
  BY <1>1, <1>13, LeaveInv
<1>14. CASE UNCHANGED vars
  BY <1>1, <1>14, StutterInv
<1> QED
  BY <1>2, <1>3, <1>4, <1>5, <1>6, <1>7, <1>8, <1>9, <1>10, <1>11, <1>12, <1>13, <1>14
     DEF Next, Run, Stopped, LosePhi, ReadFreed

\* Every variable stays in range, whatever functions are visited one after the
\* other.
THEOREM TypeCorrect == Spec => []TypeOK
<1>1. Typed => TypeOK
  BY DEF Typed
<1> QED
  BY InitTyped, NextTyped, <1>1, PTL DEF Spec

\* With functions that share no block: the worklist loop computes reachability
\* in the function as it becomes, and what is deleted is the rest.
THEOREM VisitsTheReachable ==
  ASSUME ~ReusesAddresses
  PROVE  Spec => []ExecutableIsReachable
<1>1. IInv => ExecutableIsReachable
  <2> SUFFICES ASSUME IInv, phase \in {"delete", "clean", "returned"}
               PROVE  /\ BBExecutable \cap ToSet(given.order) = Reachable(Succ(code))
                      /\ phase = "returned" => Present = Reachable(Succ(code))
    BY DEF ExecutableIsReachable
  <2>1. Deleting /\ InRun /\ Layout /\ FirstFunction /\ code \in Codes /\ rest \in Seq(Blocks)
    BY DEF IInv, Deleting, InRun, TypeOK
  <2>2. BBExecutable = Reachable(Succ(code)) /\ BBExecutable \subseteq Present
    BY <2>1 DEF Layout
  <2>3. BBExecutable \subseteq ToSet(given.order)
    BY <2>1 DEF FirstFunction
  <2>4. ASSUME phase = "returned" PROVE Present \subseteq BBExecutable
    <3>1. Len(code.order) \in Nat /\ Len(rest) = 0 /\ code.order \in Seq(Blocks)
      BY <2>1, <2>4, CodeFields, LenProperties DEF Layout
    <3>2. Len(code.order) - Len(rest) = Len(code.order)
      BY <3>1
    <3>3. \A k \in 1..Len(code.order) : code.order[k] \in BBExecutable
      BY <2>1, <2>4, <3>2 DEF Layout
    <3> QED
      BY <3>1, <3>3, Elements DEF Present
  <2> QED
    BY <2>2, <2>3, <2>4
<1>2. IInv /\ [Next]_vars => IInv'
  BY NextInv
<1> QED
  BY InitInv, <1>1, <1>2, PTL DEF Spec

\* One visit of each block leaves nothing to fold where control can come.
THEOREM OneVisitFoldsEverything ==
  ASSUME ~ReusesAddresses
  PROVE  Spec => []FoldsEverything
<1>1. IInv => FoldsEverything
  <2> SUFFICES ASSUME IInv, phase = "delete", code.order = given.order
               PROVE  \A b \in BBExecutable : Settled(b)
    BY DEF FoldsEverything, Settled
  <2>1. OneVisitSettles /\ code \in Codes
    BY DEF IInv, TypeOK
  <2>2. Len(code.order) \in Nat
    BY <2>1, CodeFields, LenProperties
  <2>3. ~(Len(code.order) < Len(given.order))
    BY <2>2
  <2> QED
    BY <2>1, <2>3 DEF OneVisitSettles
<1>2. IInv /\ [Next]_vars => IInv'
  BY NextInv
<1> QED
  BY InitInv, <1>1, <1>2, PTL DEF Spec

\* What is left when run returns, as the next two theorems need it.
LEMMA Left ==
  ASSUME IInv, phase = "returned"
  PROVE  /\ InRun /\ Deleting /\ ~Visiting /\ Present = BBExecutable /\ code \in Codes
         /\ \A p \in Phis \cap code.live : code.phi[p].from \subseteq BBExecutable
<1>1. /\ Deleting /\ InRun /\ ~Visiting /\ Layout /\ PhisFollow
      /\ code \in Codes /\ rest = << >>
  BY DEF IInv, Deleting, Visiting, InRun, TypeOK
<1>2. Len(code.order) \in Nat /\ Len(rest) = 0 /\ code.order \in Seq(Blocks)
  BY <1>1, CodeFields, LenProperties
<1>3. Len(code.order) - Len(rest) = Len(code.order)
  BY <1>2
<1>4. \A k \in 1..Len(code.order) : code.order[k] \in BBExecutable
  BY <1>1, <1>3 DEF Layout
<1>5. Present = BBExecutable
  <2>1. Present \subseteq BBExecutable
    BY <1>2, <1>4, Elements DEF Present
  <2> QED
    BY <1>1, <2>1 DEF Layout
<1>6. ToSet(rest) = {}
  BY <1>1 DEF ToSet
<1> QED
  BY <1>1, <1>5, <1>6 DEF PhisFollow

\* No instruction, phi or branch that is left uses anything that is not.
THEOREM LeavesUsesDefined ==
  ASSUME ~ReusesAddresses
  PROVE  Spec => []UsesStayDefined
<1>1. IInv => UsesStayDefined
  <2> SUFFICES ASSUME IInv, phase = "returned" PROVE UsesStayDefined
    BY DEF UsesStayDefined
  <2>1. /\ InRun /\ Deleting /\ Present = BBExecutable
        /\ \A p \in Phis \cap code.live : code.phi[p].from \subseteq BBExecutable
    BY Left
  <2>2. SafeUses /\ InPlace
    BY DEF IInv
  <2> QED
    BY <2>1, <2>2 DEF UsesStayDefined, SafeUses, InPlace, Safe
<1>2. IInv /\ [Next]_vars => IInv'
  BY NextInv
<1> QED
  BY InitInv, <1>1, <1>2, PTL DEF Spec

\* The phis that are left have a value for every predecessor, and one too many
\* only for a branch that became a jump.
THEOREM PhisAreCovered ==
  ASSUME ~ReusesAddresses
  PROVE  Spec => []PhisCoverPredecessors
<1>1. IInv => PhisCoverPredecessors
  <2> SUFFICES ASSUME IInv, phase = "returned", NEW p \in Phis \cap code.live
               PROVE  LET b == code.phi[p].block
                          preds == {q \in Present : b \in ToSet(code.targets[q])}
                      IN  /\ preds \subseteq code.phi[p].from
                          /\ \A q \in code.phi[p].from \ preds :
                               q \in Present /\ code.targets[q] # given.targets[q]
    BY DEF PhisCoverPredecessors
  <2>1. InRun /\ Present = BBExecutable /\ code.phi[p].from \subseteq BBExecutable
    BY Left
  <2>2. PhisFollow
    BY DEF IInv
  <2> QED
    BY <2>1, <2>2 DEF PhisFollow
<1>2. IInv /\ [Next]_vars => IInv'
  BY NextInv
<1> QED
  BY InitInv, <1>1, <1>2, PTL DEF Spec

==============================================================================
