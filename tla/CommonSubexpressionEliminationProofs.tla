----------------- MODULE CommonSubexpressionEliminationProofs -----------------
(****************************************************************************)
(* Common subexpression elimination puts only what is available in the      *)
(* place of an instruction, and leaves no expression behind that is         *)
(* available, in every function, with every hash table and every order in   *)
(* which the children of a block are visited.  Values change only where     *)
(* isEqual itself has taken an expression for another.                      *)
(****************************************************************************)
EXTENDS CommonSubexpressionElimination, DominanceTheorems, SequenceTheorems

Avail(j, i) == AvailableAt(j, i, Dominance(g.succ))
InReach(i) == g.block[i] \in Reachable(g.succ)

TypeOK ==
  /\ g \in Functions /\ tree = TreeEdges(g.succ)
  /\ instr \in [Instrs -> Instructions]
  /\ leader \in [Instrs -> Instrs]
  /\ path \in Seq(Blocks)
  /\ scopes \in Seq(SUBSET Instrs) /\ Len(scopes) = Len(path)
  /\ todo \subseteq Instrs

\* What has taken the place of an instruction has not been replaced itself, and
\* every operand is what now stands for the one that was given.
LeadersInv ==
  /\ \A i \in Instrs : Live(leader[i])
  /\ \A i \in Instrs : /\ instr[i].op = g.instr[i].op
                       /\ instr[i].lhs = Now(g.instr[i].lhs)
                       /\ instr[i].rhs = Now(g.instr[i].rhs)

\* Of two active calls the outer one is for a reachable block that strictly
\* dominates that of the inner one.
PathInv ==
  \A j, k \in 1..Len(path) :
    j < k => /\ path[j] # path[k] /\ path[j] \in Reachable(g.succ)
             /\ <<path[j], path[k]>> \in Dominance(g.succ)

\* The table holds live instructions of the blocks of the active calls, and of
\* the innermost block those that are in front of all that is left of it.
ScopesInv ==
  /\ \A k \in 1..Len(path) : \A y \in scopes[k] :
       /\ Live(y) /\ g.block[y] = path[k]
       /\ \A i \in todo : k = Len(path) => y < i
  /\ \A i \in todo : path # << >> /\ Live(i) /\ g.block[i] = path[Len(path)]

\* The part of ReplacedByAvailable that is inductive with the above.
LeadersAvailable == \A i \in Instrs : ~Live(i) /\ InReach(i) => Avail(leader[i], i)

IInv == TypeOK /\ LeadersInv /\ PathInv /\ ScopesInv /\ LeadersAvailable

------------------------------------------------------------------------------
\* What the assumptions say of the function at hand.
LEMMA GivenFunction ==
  ASSUME NEW h \in Functions
  PROVE  /\ h.succ \in CFGs
         /\ h.block \in [Instrs -> Blocks]
         /\ h.instr \in [Instrs -> Instructions]
         /\ InSSAForm(h, Dominance(h.succ), Reachable(h.succ))
BY FunctionsAssumption, SSAAssumption DEF WellFormed

LEMMA InstrsAreNumbers == Instrs \subseteq Nat
BY ArgsAssumption DEF Instrs

\* Available at j, and j at i: available at i.  Two blocks cannot dominate each
\* other, so coming back to the same block is impossible.
LEMMA AvailTransitive ==
  ASSUME g \in Functions, NEW h \in Instrs, NEW j \in Instrs, NEW i \in Instrs,
         InReach(i), Avail(h, j), Avail(j, i)
  PROVE  Avail(h, i)
<1> DEFINE a == g.block[h]
           b == g.block[j]
           c == g.block[i]
<1>1. a \in Blocks /\ b \in Blocks /\ c \in Blocks /\ g.succ \in CFGs
  BY GivenFunction
<1>2. h \in Nat /\ j \in Nat /\ i \in Nat
  BY InstrsAreNumbers
<1>3. /\ IF a = b THEN h < j ELSE <<a, b>> \in Dominance(g.succ)
      /\ IF b = c THEN j < i ELSE <<b, c>> \in Dominance(g.succ)
      /\ c \in Reachable(g.succ)
  BY DEF Avail, AvailableAt, InReach
<1>4. SUFFICES IF a = c THEN h < i ELSE <<a, c>> \in Dominance(g.succ)
  BY DEF Avail, AvailableAt
<1> HIDE DEF a, b, c
<1>5. CASE a = b \/ b = c
  BY <1>2, <1>3, <1>5
<1>6. CASE a # b /\ b # c
  <2>1. <<a, c>> \in Dominance(g.succ)
    BY <1>1, <1>3, <1>6, DominanceTransitive
  <2>2. b \in Reachable(g.succ)
    BY <1>1, <1>3, <1>6, DominatorIsReachable
  <2>3. a # c
    BY <1>1, <1>3, <1>6, <2>2, DominanceAntisymmetric
  <2>4. QED
    BY <2>1, <2>3
<1>7. QED
  BY <1>5, <1>6

\* In the function as it was given, operands are available where they are used.
LEMMA OperandsAvailable ==
  ASSUME g \in Functions, NEW i \in Instrs, InReach(i), IsBinaryOp(g.instr[i]),
         NEW v \in {g.instr[i].lhs, g.instr[i].rhs} \cap Instrs
  PROVE  Avail(v, i) /\ InReach(v)
<1>1. InSSAForm(g, Dominance(g.succ), Reachable(g.succ)) /\ g.succ \in CFGs
      /\ g.block[v] \in Blocks /\ g.block[i] \in Blocks
  BY GivenFunction
<1>2. IF g.block[v] = g.block[i] THEN v < i ELSE <<g.block[v], g.block[i]>> \in Dominance(g.succ)
  BY <1>1 DEF InSSAForm, InReach
<1>3. InReach(v)
  BY <1>1, <1>2, DominatorIsReachable DEF InReach
<1>4. QED
  BY <1>2, <1>3 DEF Avail, AvailableAt

------------------------------------------------------------------------------
(* The invariant *)

LEMMA InitInv == Init => IInv
<1> SUFFICES ASSUME Init PROVE IInv
  OBVIOUS
<1>1. g \in Functions /\ tree = TreeEdges(g.succ)
  BY DEF Init
<1>2. /\ g.instr \in [Instrs -> Instructions]
      /\ instr = g.instr /\ leader = [i \in Instrs |-> i] /\ path = <<Entry>>
      /\ scopes = <<{}>> /\ todo = {i \in Instrs : g.block[i] = Entry}
  BY <1>1, GivenFunction DEF Init
<1>3. TypeOK
  BY <1>1, <1>2, EntryAssumption DEF TypeOK
<1>4. \A i \in Instrs : Live(i)
  BY <1>2 DEF Live
<1>5. LeadersInv
  <2>1. \A i \in Instrs : Live(leader[i])
    BY <1>2, <1>4
  <2>2. \A v : Now(v) = v
    BY <1>2 DEF Now
  <2>3. QED
    BY <1>2, <2>1, <2>2 DEF LeadersInv
<1>6. PathInv
  BY <1>2 DEF PathInv
<1>7. ScopesInv
  BY <1>2, <1>4 DEF ScopesInv
<1>8. LeadersAvailable
  BY <1>4 DEF LeadersAvailable
<1>9. QED
  BY <1>3, <1>5, <1>6, <1>7, <1>8 DEF IInv

\* What the table holds is live, is available at the instruction looked up, and
\* is not that instruction.
LEMMA FoundIsAvailable ==
  ASSUME IInv, NEW i \in todo, NEW y \in InTable
  PROVE  y \in Instrs /\ Live(y) /\ y # i /\ Avail(y, i) /\ i \in Instrs /\ Live(i)
<1> USE DEF IInv
<1>1. PICK k \in 1..Len(scopes) : y \in scopes[k]
  BY Zenon DEF InTable
<1>2. /\ k \in 1..Len(path) /\ path # << >> /\ Len(path) \in Nat
      /\ path[k] \in Blocks /\ path[Len(path)] \in Blocks
  BY DEF TypeOK, ScopesInv
<1>3. y \in Instrs /\ i \in Instrs /\ y \in Nat /\ i \in Nat
  <2>1. scopes[k] \in SUBSET Instrs /\ todo \subseteq Instrs
    BY ElementOfSeq DEF TypeOK
  <2>2. QED
    BY <1>1, <2>1, InstrsAreNumbers
<1>4. /\ Live(y) /\ g.block[y] = path[k] /\ (k = Len(path) => y < i)
      /\ Live(i) /\ g.block[i] = path[Len(path)]
  BY <1>1, <1>2 DEF ScopesInv
<1>5. CASE k = Len(path)
  BY <1>3, <1>4, <1>5 DEF Avail, AvailableAt
<1>6. CASE k # Len(path)
  <2>1. path[k] # path[Len(path)] /\ <<path[k], path[Len(path)]>> \in Dominance(g.succ)
    BY <1>2, <1>6 DEF PathInv
  <2>2. QED
    BY <1>3, <1>4, <2>1 DEF Avail, AvailableAt
<1>7. QED
  BY <1>5, <1>6

\* What stays the same as long as the function does.
LEMMA SameFunction ==
  ASSUME g' = g
  PROVE  /\ \A i, j : Avail(j, i)' <=> Avail(j, i)
         /\ \A i : InReach(i)' <=> InReach(i)
BY DEF Avail, AvailableAt, InReach

LEMMA ReplaceStep ==
  ASSUME IInv, NEW i \in todo, NEW y \in Instrs, Replace(i, y)
  PROVE  IInv'
<1> USE DEF IInv
<1>1. y \in InTable /\ IsNext(i)
  BY DEF Replace, Found
<1>2. /\ i \in Instrs /\ Live(i) /\ y # i /\ Live(y) /\ Avail(y, i)
  BY <1>1, FoundIsAvailable
<1>3. /\ instr' = [k \in Instrs |-> [instr[k] EXCEPT !.lhs = Replaced(@, i, y),
                                                    !.rhs = Replaced(@, i, y)]]
      /\ leader' = [k \in Instrs |-> Replaced(leader[k], i, y)]
      /\ todo' = todo \ {i}
      /\ g' = g /\ tree' = tree /\ path' = path /\ scopes' = scopes
  BY DEF Replace
<1>4. \A k \in Instrs : leader'[k] = IF leader[k] = i THEN y ELSE leader[k]
  BY <1>3 DEF Replaced
<1>5. TypeOK'
  <2>1. leader' \in [Instrs -> Instrs]
    BY <1>2, <1>3 DEF TypeOK, Replaced
  <2>2. \A k \in Instrs : [instr[k] EXCEPT !.lhs = Replaced(@, i, y),
                                           !.rhs = Replaced(@, i, y)] \in Instructions
    BY DEF TypeOK, Instructions, Replaced, Values
  <2>3. QED
    BY <1>3, <2>1, <2>2 DEF TypeOK
<1>6. \A k \in Instrs : Live(k)' <=> Live(k) /\ k # i
  BY <1>2, <1>4 DEF Live
<1>7. LeadersInv'
  <2>1. \A k \in Instrs : Live(leader[k])'
    <3>1. SUFFICES ASSUME NEW k \in Instrs PROVE leader'[leader'[k]] = leader'[k]
      BY DEF Live
    <3>2. leader[k] \in Instrs /\ leader[leader[k]] = leader[k] /\ leader[y] = y
      BY <1>2 DEF TypeOK, LeadersInv, Live
    <3>3. QED
      BY <1>2, <1>4, <3>2
  <2>2. \A v : Now(v)' = Replaced(Now(v), i, y)
    BY <1>2, <1>3 DEF Now, Replaced
  <2>3. ASSUME NEW k \in Instrs
        PROVE  /\ instr'[k].op = instr[k].op
               /\ instr'[k].lhs = Replaced(instr[k].lhs, i, y)
               /\ instr'[k].rhs = Replaced(instr[k].rhs, i, y)
    BY <1>3 DEF TypeOK, Instructions
  <2>4. QED
    BY <1>3, <2>1, <2>2, <2>3 DEF LeadersInv
<1>8. PathInv'
  BY <1>3 DEF PathInv
<1>9. ScopesInv'
  <2>1. ASSUME NEW k \in 1..Len(path), NEW z \in scopes[k]
        PROVE  z # i /\ z \in Instrs
    <3>1. z \in InTable
      BY Zenon DEF TypeOK, InTable
    <3>2. QED
      BY <3>1, FoundIsAvailable
  <2>2. QED
    BY <1>3, <1>6, <2>1 DEF ScopesInv, TypeOK
<1>10. LeadersAvailable'
  <2>1. SUFFICES ASSUME NEW k \in Instrs, ~Live(k)', InReach(k)
                 PROVE  Avail(leader'[k], k)
    BY <1>3, SameFunction DEF LeadersAvailable
  <2>2. CASE k = i
    <3>1. leader'[k] = y
      BY <1>2, <1>4, <2>2 DEF Live
    <3>2. QED
      BY <1>2, <2>2, <3>1
  <2>3. CASE k # i
    <3>1. ~Live(k) /\ Avail(leader[k], k)
      BY <1>6, <2>1, <2>3 DEF LeadersAvailable
    <3>2. CASE leader[k] = i
      BY <1>2, <1>4, <2>1, <3>1, <3>2, AvailTransitive DEF TypeOK
    <3>3. CASE leader[k] # i
      BY <1>4, <3>1, <3>3
    <3>4. QED
      BY <3>2, <3>3
  <2>4. QED
    BY <2>2, <2>3
<1>11. QED
  BY <1>5, <1>7, <1>8, <1>9, <1>10

\* The steps that replace nothing.
LEMMA SameLeaders ==
  ASSUME IInv, UNCHANGED <<g, instr, leader>>
  PROVE  LeadersInv' /\ LeadersAvailable' /\ \A i : Live(i)' <=> Live(i)
<1>1. (\A v : Now(v)' = Now(v)) /\ \A i : Live(i)' <=> Live(i)
  BY DEF Now, Live
<1>2. LeadersInv'
  BY <1>1 DEF IInv, LeadersInv
<1>3. LeadersAvailable'
  BY <1>1, SameFunction DEF IInv, LeadersAvailable
<1>4. QED
  BY <1>1, <1>2, <1>3

LEMMA InsertStep ==
  ASSUME IInv, NEW i \in todo, Insert(i)
  PROVE  IInv'
<1> USE DEF IInv
<1>1. /\ IsNext(i) /\ todo' = todo \ {i}
      /\ scopes' = [scopes EXCEPT ![Len(scopes)] = @ \cup {i}]
      /\ UNCHANGED <<g, tree, instr, leader, path>>
  BY DEF Insert
<1>2. /\ path # << >> /\ Live(i) /\ g.block[i] = path[Len(path)] /\ i \in Instrs
      /\ Len(path) \in 1..Len(path) /\ Len(scopes) = Len(path)
  BY DEF ScopesInv, TypeOK
<1>3. /\ scopes' \in Seq(SUBSET Instrs) /\ Len(scopes') = Len(scopes)
      /\ \A k \in 1..Len(path) :
           scopes'[k] = IF k = Len(path) THEN scopes[k] \cup {i} ELSE scopes[k]
  <2>1. scopes[Len(scopes)] \cup {i} \in SUBSET Instrs /\ scopes \in Seq(SUBSET Instrs)
    BY <1>2, ElementOfSeq DEF TypeOK
  <2> DEFINE n == Len(scopes)
             e == scopes[n] \cup {i}
  <2>2. n \in 1..Len(scopes) /\ e \in SUBSET Instrs /\ scopes' = [scopes EXCEPT ![n] = e]
    BY <1>1, <1>2, <2>1
  <2> HIDE DEF n, e
  <2>3. /\ scopes' \in Seq(SUBSET Instrs) /\ Len(scopes') = Len(scopes)
        /\ \A k \in 1..Len(scopes) : scopes'[k] = IF k = n THEN e ELSE scopes[k]
    BY <2>1, <2>2, ExceptSeq
  <2>4. QED
    BY <1>2, <2>3 DEF n, e
<1>4. TypeOK'
  BY <1>1, <1>3 DEF TypeOK
<1>5. PathInv'
  BY <1>1 DEF PathInv
<1>6. ScopesInv'
  <2>1. ASSUME NEW j \in todo'
        PROVE  i < j
    BY <1>1, InstrsAreNumbers DEF IsNext, TypeOK
  <2>2. \A k \in Instrs : Live(k)' <=> Live(k)
    BY <1>1, SameLeaders
  <2>3. ASSUME NEW k \in 1..Len(path), NEW z \in scopes'[k]
        PROVE  /\ Live(z)' /\ g.block[z] = path[k]
               /\ \A j \in todo' : k = Len(path) => z < j
    <3>1. CASE z \in scopes[k]
      BY <1>1, <2>2, <3>1 DEF ScopesInv, Live
    <3>2. CASE z \notin scopes[k]
      BY <1>2, <1>3, <2>1, <2>2, <3>2
    <3>3. QED
      BY <3>1, <3>2
  <2>4. \A j \in todo' : Live(j)' /\ path # << >> /\ g.block[j] = path[Len(path)]
    BY <1>1, <2>2 DEF ScopesInv, TypeOK
  <2>5. QED
    BY <1>1, <2>3, <2>4 DEF ScopesInv
<1>7. QED
  BY <1>1, <1>4, <1>5, <1>6, SameLeaders

LEMMA DescendStep ==
  ASSUME IInv, NEW c \in Blocks, Descend(c)
  PROVE  IInv'
<1> USE DEF IInv
<1>1. /\ todo = {} /\ path # << >> /\ <<path[Len(path)], c>> \in TreeEdges(g.succ)
      /\ path' = Append(path, c) /\ scopes' = Append(scopes, {})
      /\ todo' = {i \in Instrs : g.block[i] = c /\ Live(i)}
      /\ UNCHANGED <<g, tree, instr, leader>>
  BY DEF Descend, ChildLeft, Last, InstrsIn, TypeOK
<1>2. /\ path \in Seq(Blocks) /\ scopes \in Seq(SUBSET Instrs) /\ Len(scopes) = Len(path)
      /\ Len(path) \in Nat /\ Len(path) \in 1..Len(path) /\ g.succ \in CFGs
  BY <1>1, GivenFunction DEF TypeOK
<1>3. /\ path' \in Seq(Blocks) /\ Len(path') = Len(path) + 1 /\ path'[Len(path) + 1] = c
      /\ \A k \in 1..Len(path) : path'[k] = path[k] /\ path[k] \in Blocks
  BY <1>1, <1>2, AppendProperties, ElementOfSeq
<1>4. /\ scopes' \in Seq(SUBSET Instrs) /\ Len(scopes') = Len(path) + 1
      /\ scopes'[Len(path) + 1] = {}
      /\ \A k \in 1..Len(path) : scopes'[k] = scopes[k]
  BY <1>1, <1>2, AppendProperties
<1>5. TypeOK'
  BY <1>1, <1>3, <1>4 DEF TypeOK
<1>6. PathInv'
  <2> DEFINE p == path[Len(path)]
  <2>1. p \in Blocks /\ p \in Reachable(g.succ) /\ p # c /\ <<p, c>> \in Dominance(g.succ)
    BY <1>1, <1>2, <1>3, TreeEdgesDominate
  <2>2. ASSUME NEW j \in 1..Len(path)
        PROVE  /\ path[j] # c /\ path[j] \in Reachable(g.succ)
               /\ <<path[j], c>> \in Dominance(g.succ)
    <3>1. CASE j = Len(path)
      BY <2>1, <3>1
    <3>2. CASE j # Len(path)
      <4>1. path[j] \in Reachable(g.succ) /\ <<path[j], p>> \in Dominance(g.succ)
            /\ path[j] \in Blocks
        BY <1>2, <1>3, <3>2 DEF PathInv
      <4>2. <<path[j], c>> \in Dominance(g.succ)
        BY <1>2, <2>1, <4>1, DominanceTransitive
      <4>3. path[j] # c
        BY <1>2, <2>1, <4>1, DominanceAntisymmetric
      <4>4. QED
        BY <4>1, <4>2, <4>3
    <3>3. QED
      BY <3>1, <3>2
  <2> HIDE DEF p
  <2>3. ASSUME NEW j \in 1..Len(path'), NEW k \in 1..Len(path'), j < k
        PROVE  /\ path'[j] # path'[k] /\ path'[j] \in Reachable(g.succ)
               /\ <<path'[j], path'[k]>> \in Dominance(g.succ)
    <3>1. j \in 1..Len(path) /\ path'[j] = path[j]
      BY <1>2, <1>3, <2>3
    <3>2. CASE k = Len(path) + 1
      BY <1>3, <2>2, <3>1, <3>2
    <3>3. CASE k # Len(path) + 1
      <4>1. k \in 1..Len(path) /\ path'[k] = path[k]
        BY <1>2, <1>3, <3>3
      <4>2. QED
        BY <2>3, <3>1, <4>1 DEF PathInv
    <3>4. QED
      BY <3>2, <3>3
  <2>4. QED
    BY <1>1, <2>3 DEF PathInv
<1>7. ScopesInv'
  <2>1. \A k : Live(k)' <=> Live(k)
    BY <1>1, SameLeaders
  <2>2. ASSUME NEW k \in 1..Len(path'), NEW y \in scopes'[k]
        PROVE  Live(y)' /\ g.block[y] = path'[k] /\ k # Len(path')
    <3>1. k \in 1..Len(path)
      BY <1>2, <1>3, <1>4, <2>2
    <3>2. QED
      BY <1>2, <1>3, <1>4, <2>1, <2>2, <3>1 DEF ScopesInv
  <2>3. \A i \in todo' : Live(i)' /\ path' # << >> /\ g.block[i] = path'[Len(path')]
    BY <1>1, <1>2, <1>3, <2>1
  <2>4. QED
    BY <1>1, <2>2, <2>3 DEF ScopesInv
<1>8. QED
  BY <1>1, <1>5, <1>6, <1>7, SameLeaders

LEMMA AscendStep ==
  ASSUME IInv, Ascend
  PROVE  IInv'
<1> USE DEF IInv
<1>1. /\ todo = {} /\ path # << >> /\ todo' = todo
      /\ path' = SubSeq(path, 1, Len(path) - 1)
      /\ scopes' = SubSeq(scopes, 1, Len(path) - 1)
      /\ UNCHANGED <<g, tree, instr, leader>>
  BY DEF Ascend, Front, TypeOK
<1>2. /\ path \in Seq(Blocks) /\ scopes \in Seq(SUBSET Instrs)
      /\ Len(scopes) = Len(path) /\ Len(path) \in Nat \ {0}
  BY <1>1, EmptySeq DEF TypeOK
<1>3. /\ path' \in Seq(Blocks) /\ Len(path') = Len(path) - 1
      /\ \A k \in 1..(Len(path) - 1) : path'[k] = path[k]
  BY <1>1, <1>2, SubSeqProperties
<1>4. /\ scopes' \in Seq(SUBSET Instrs) /\ Len(scopes') = Len(path) - 1
      /\ \A k \in 1..(Len(path) - 1) : scopes'[k] = scopes[k]
  BY <1>1, <1>2, SubSeqProperties
<1>5. TypeOK'
  BY <1>1, <1>3, <1>4 DEF TypeOK
<1>6. PathInv'
  BY <1>1, <1>2, <1>3 DEF PathInv
<1>7. ScopesInv'
  <2>1. \A k : Live(k)' <=> Live(k)
    BY <1>1, SameLeaders
  <2>2. ASSUME NEW k \in 1..Len(path'), NEW y \in scopes'[k]
        PROVE  Live(y)' /\ g.block[y] = path'[k]
    <3>1. k \in 1..Len(path) /\ path'[k] = path[k] /\ scopes'[k] = scopes[k]
      BY <1>2, <1>3, <1>4, <2>2
    <3>2. Live(y) /\ g.block[y] = path[k]
      BY <2>2, <3>1 DEF ScopesInv
    <3> QED
      BY <2>1, <3>1, <3>2
  <2>3. QED
    BY <1>1, <2>2 DEF ScopesInv
<1>8. QED
  BY <1>1, <1>5, <1>6, <1>7, SameLeaders

LEMMA NextInv == IInv /\ [Next]_vars => IInv'
<1> SUFFICES ASSUME IInv, [Next]_vars PROVE IInv'
  OBVIOUS
<1>1. CASE UNCHANGED vars
  <2>1. TypeOK' /\ PathInv'
    BY <1>1 DEF vars, IInv, TypeOK, PathInv
  <2>2. LeadersInv' /\ LeadersAvailable' /\ \A i : Live(i)' <=> Live(i)
    BY <1>1, SameLeaders DEF vars
  <2>3. ScopesInv'
    BY <1>1, <2>2 DEF vars, IInv, ScopesInv
  <2>4. QED
    BY <2>1, <2>2, <2>3 DEF IInv
<1>2. QED
  BY <1>1, ReplaceStep, InsertStep, DescendStep, AscendStep DEF Next, Run, Returned

LEMMA Invariance == Spec => []IInv
BY InitInv, NextInv, PTL DEF Spec

------------------------------------------------------------------------------
(* What it gives *)

\* Whatever takes the place of a reachable instruction has been computed on
\* every path to it (`we only replace Instructions with available values'), in
\* every function, whether or not different keys share a bucket.
THEOREM ReplacesByAvailable == Spec => []ReplacedByAvailable
<1>1. IInv => ReplacedByAvailable
  BY DEF IInv, LeadersInv, LeadersAvailable, ReplacedByAvailable, Avail, InReach
<1>2. QED
  BY <1>1, Invariance, PTL

\* What now stands for an operand is available where the operand was used.
LEMMA LeaderAvailable ==
  ASSUME IInv, NEW i \in Instrs, InReach(i), IsBinaryOp(g.instr[i]),
         NEW v \in {g.instr[i].lhs, g.instr[i].rhs} \cap Instrs
  PROVE  Avail(leader[v], i)
<1> USE DEF IInv
<1>1. Avail(v, i) /\ InReach(v) /\ g \in Functions /\ leader[v] \in Instrs
  BY OperandsAvailable DEF TypeOK
<1>2. CASE Live(v)
  BY <1>1, <1>2 DEF Live
<1>3. CASE ~Live(v)
  <2>1. Avail(leader[v], v)
    BY <1>1, <1>3 DEF LeadersAvailable
  <2>2. QED
    BY <1>1, <2>1, AvailTransitive
<1>4. QED
  BY <1>2, <1>3

LEMMA UsesDefined == IInv => UsesStayDefined
<1> SUFFICES ASSUME IInv, NEW i \in Instrs, Live(i),
                    NEW v \in {instr[i].lhs, instr[i].rhs} \cap Instrs
             PROVE  /\ Live(v)
                    /\ InReach(i) /\ IsBinaryOp(instr[i]) => Avail(v, i)
  BY DEF UsesStayDefined, Avail, InReach
<1> USE DEF IInv
<1>1. g.instr[i] \in Instructions
  BY GivenFunction DEF TypeOK
<1>2. PICK u \in {g.instr[i].lhs, g.instr[i].rhs} : v = Now(u)
  BY DEF LeadersInv
<1>3. u \in Instrs /\ v = leader[u]
  BY <1>1, <1>2, ArgsAssumption DEF Instructions, Values, Now
<1>4. Live(v)
  BY <1>3 DEF LeadersInv
<1>5. InReach(i) /\ IsBinaryOp(instr[i]) => Avail(v, i)
  BY <1>2, <1>3, LeaderAvailable DEF IsBinaryOp, LeadersInv
<1>6. QED
  BY <1>4, <1>5

\* No instruction is left that names a replaced one, and the function stays in
\* SSA form after every single replacement: the operands of a reachable
\* operator are computed on every path to it.
THEOREM KeepsUsesDefined == Spec => []UsesStayDefined
BY Invariance, UsesDefined, PTL

------------------------------------------------------------------------------
(* Value numbers *)

\* The number of v under num, and when num gives operators x and y one value.
Of(num, v) == IF v \in Instrs THEN num[v] ELSE v

SameUnder(num, x, y) ==
  \/ Of(num, x.lhs) = Of(num, y.lhs) /\ Of(num, x.rhs) = Of(num, y.rhs)
  \/ IsCommutative(x) /\ Of(num, x.lhs) = Of(num, y.rhs) /\ Of(num, x.rhs) = Of(num, y.lhs)

Twins(h, num, i) ==
  {j \in 1..(i - 1) : IsEqual(h.instr[i], h.instr[j]) /\ SameUnder(num, h.instr[i], h.instr[j])}

\* One step of the recursion of ValueNumber.
NumberIn(h, num, i) ==
  IF Twins(h, num, i) = {} THEN i ELSE num[CHOOSE j \in Twins(h, num, i) : TRUE]

Numbers(h) == CHOOSE num : num = [i \in Instrs |-> NumberIn(h, num, i)]

LEMMA ValueNumberIsNumbers == ValueNumber = Numbers(g)
BY DEF ValueNumber, Numbers, NumberIn, Twins, SameUnder, Of

\* The number of an instruction depends on those of the instructions before it
\* only: operands come before the operator that uses them.
LEMMA NumberLooksBack ==
  ASSUME NEW h \in Functions, NEW m, NEW n, NEW i \in Instrs,
         \A j \in 1..(i - 1) : m[j] = n[j]
  PROVE  NumberIn(h, m, i) = NumberIn(h, n, i)
<1>1. i \in Nat /\ 1..(i - 1) \subseteq Instrs /\ Args \cap Instrs = {}
  BY ArgsAssumption DEF Instrs
<1>2. ASSUME NEW k \in 1..i, IsBinaryOp(h.instr[k]), NEW v \in {h.instr[k].lhs, h.instr[k].rhs}
      PROVE  Of(m, v) = Of(n, v)
  <2>1. k \in Instrs /\ 1..(k - 1) \subseteq 1..(i - 1)
    BY <1>1 DEF Instrs
  <2>2. v \in 1..(i - 1) \cup Args
    BY <1>2, <2>1, FunctionsAssumption DEF WellFormed
  <2>3. QED
    BY <1>1, <2>2 DEF Of
<1>3. Twins(h, m, i) = Twins(h, n, i)
  <2>1. ASSUME NEW j \in 1..(i - 1), IsEqual(h.instr[i], h.instr[j])
        PROVE  SameUnder(m, h.instr[i], h.instr[j]) <=> SameUnder(n, h.instr[i], h.instr[j])
    <3>1. i \in 1..i /\ j \in 1..i /\ IsBinaryOp(h.instr[i]) /\ IsBinaryOp(h.instr[j])
      BY <1>1, <2>1 DEF IsEqual
    <3>2. \A v \in {h.instr[i].lhs, h.instr[i].rhs, h.instr[j].lhs, h.instr[j].rhs} :
            Of(m, v) = Of(n, v)
      BY <1>2, <3>1
    <3>3. QED
      BY <3>2 DEF SameUnder
  <2>2. QED
    BY <2>1 DEF Twins
<1>4. QED
  BY <1>3 DEF NumberIn, Twins

\* The recursion has a solution: there is one for every first part of the
\* numbers, or there would be a least part without.
LEMMA NumbersUnfold ==
  ASSUME NEW h \in Functions
  PROVE  Numbers(h) = [i \in Instrs |-> NumberIn(h, Numbers(h), i)]
<1> DEFINE Solves(num, n) == num = [i \in 1..n |-> NumberIn(h, num, i)]
           Unsolved == {n \in 0..N : ~\E num : Solves(num, n)}
<1>1. N \in Nat /\ Instrs = 1..N
  BY ArgsAssumption DEF Instrs
<1>2. SUFFICES Unsolved = {}
  <2>1. N \notin Unsolved
    BY <1>2
  <2>2. \E num : Solves(num, N)
    BY <1>1, <2>1
  <2>3. \E num : num = [i \in Instrs |-> NumberIn(h, num, i)]
    BY <1>1, <2>2
  <2>4. QED
    BY <2>3, Zenon DEF Numbers
<1>3. SUFFICES ASSUME Unsolved # {} PROVE FALSE
  OBVIOUS
<1>4. PICK n \in Unsolved : \A m \in Unsolved : n <= m
  <2>1. Unsolved \in SUBSET Nat
    BY <1>1
  <2> HIDE DEF Unsolved
  <2>2. QED
    BY <1>3, <2>1, LeastNatural
<1>5. n # 0
  <2>1. Solves(<< >>, 0)
    OBVIOUS
  <2>2. 0 \notin Unsolved
    BY <2>1
  <2>3. QED
    BY <2>2
<1>6. n - 1 \in 0..N /\ n - 1 \notin Unsolved /\ n \in 1..N
  BY <1>1, <1>4, <1>5
<1>7. PICK num : Solves(num, n - 1)
  BY <1>6
<1> DEFINE more == [i \in 1..n |-> IF i = n THEN NumberIn(h, num, n) ELSE num[i]]
<1>8. \A i \in 1..(n - 1) : more[i] = num[i] /\ num[i] = NumberIn(h, num, i)
  BY <1>6, <1>7
<1>9. \A i \in 1..n : more[i] = NumberIn(h, num, i)
  <2>1. SUFFICES ASSUME NEW i \in 1..n PROVE more[i] = NumberIn(h, num, i)
    OBVIOUS
  <2>2. CASE i = n
    BY <2>2
  <2>3. CASE i # n
    <3>1. i \in 1..(n - 1)
      BY <1>1, <1>6, <2>3
    <3>2. QED
      BY <1>8, <3>1
  <2>4. QED
    BY <2>2, <2>3
<1>10. ASSUME NEW i \in 1..n
       PROVE  NumberIn(h, num, i) = NumberIn(h, more, i)
  <2>1. i \in Instrs /\ \A j \in 1..(i - 1) : num[j] = more[j]
    BY <1>1, <1>6, <1>8
  <2> HIDE DEF more
  <2>2. QED
    BY <2>1, NumberLooksBack
<1>11. more = [i \in 1..n |-> NumberIn(h, more, i)]
  <2>1. \A i \in 1..n : more[i] = NumberIn(h, more, i)
    BY <1>9, <1>10
  <2>2. DOMAIN more = 1..n /\ more = [i \in 1..n |-> more[i]]
    OBVIOUS
  <2> HIDE DEF more
  <2>3. QED
    BY <2>1, <2>2
<1>12. Solves(more, n)
  BY <1>11
<1>13. QED
  <2> HIDE DEF more
  <2>1. n \notin Unsolved
    BY <1>12
  <2>2. QED
    BY <1>4, <2>1

\* Operators of equal operands have equal numbers.  The number of the later one
\* is that of some earlier twin, which is a twin of the other one too, and so on
\* down: a least pair with different numbers cannot exist.
LEMMA TwinsHaveOneNumber ==
  ASSUME NEW h \in Functions, NEW num, num = Numbers(h),
         NEW i \in Instrs, NEW j \in Instrs,
         IsEqual(h.instr[i], h.instr[j]), SameUnder(num, h.instr[i], h.instr[j])
  PROVE  num[i] = num[j]
<1> DEFINE Same(a, b) == /\ IsEqual(h.instr[a], h.instr[b])
                         /\ SameUnder(num, h.instr[a], h.instr[b])
           Wrong == {a \in Instrs : \E b \in 1..a : Same(a, b) /\ num[a] # num[b]}
<1>1. Instrs = 1..N /\ N \in Nat
  BY ArgsAssumption DEF Instrs
<1>2. \A a, b : Same(a, b) => Same(b, a)
  BY DEF IsEqual, IsBinaryOp, IsCommutative, SameUnder
<1>3. \A a, b, c : Same(a, b) /\ Same(a, c) => Same(b, c)
  BY DEF IsEqual, IsBinaryOp, IsCommutative, SameUnder
<1>4. \A a \in Instrs : num[a] = NumberIn(h, num, a)
  BY NumbersUnfold
<1>5. SUFFICES Wrong = {}
  <2>1. CASE j \in 1..i
    BY <1>5, <2>1
  <2>2. CASE i \in 1..j
    <3>1. Same(j, i)
      BY <1>2
    <3>2. QED
      BY <1>5, <2>2, <3>1
  <2>3. QED
    BY <1>1, <2>1, <2>2
<1>6. SUFFICES ASSUME Wrong # {} PROVE FALSE
  OBVIOUS
<1>7. PICK a \in Wrong : \A b \in Wrong : a <= b
  <2>1. Wrong \in SUBSET Nat
    BY <1>1
  <2> HIDE DEF Wrong
  <2>2. QED
    BY <1>6, <2>1, LeastNatural
<1>8. PICK b \in 1..a : Same(a, b) /\ num[a] # num[b]
  BY <1>7
<1>9. a \in Instrs /\ a \in Nat /\ b \in 1..(a - 1) /\ b \in Instrs
  BY <1>1, <1>7, <1>8
<1>10. b \in Twins(h, num, a)
  BY <1>8, <1>9 DEF Twins
<1>11. PICK t \in Twins(h, num, a) : num[a] = num[t]
  BY <1>4, <1>9, <1>10 DEF NumberIn
<1>12. t \in 1..(a - 1) /\ t \in Instrs /\ Same(a, t)
  BY <1>1, <1>9, <1>11 DEF Twins
<1>13. Same(t, b) /\ Same(b, t) /\ num[t] # num[b]
  BY <1>2, <1>3, <1>8, <1>11, <1>12
<1>14. t \in Wrong \/ b \in Wrong
  BY <1>9, <1>12, <1>13
<1>15. QED
  BY <1>7, <1>9, <1>12, <1>14

------------------------------------------------------------------------------
(* Expressions mistaken for each other *)

\* What has taken the place of an instruction is an operator that isEqual takes
\* for it, and has its expression, if the instruction was not mistaken.
LikeInv ==
  \A k \in Instrs : ~Live(k) =>
    /\ IsEqual(instr[k], instr[leader[k]])
    /\ k \notin mistaken => SameExpression(instr[leader[k]], instr[k])

LEMMA OneExpression ==
  ASSUME NEW x, NEW y, NEW z
  PROVE  /\ SameExpression(x, x)
         /\ SameExpression(x, y) => SameExpression(y, x)
         /\ SameExpression(x, y) /\ SameExpression(y, z) => SameExpression(x, z)
BY DEF SameExpression, IsCommutative

\* Instructions of one expression keep it in common when a value is replaced.
LEMMA ReplacedAlike ==
  ASSUME IInv, NEW i \in todo, NEW y \in Instrs, Replace(i, y), NEW a \in Instrs, NEW b \in Instrs
  PROVE  /\ IsEqual(instr[a], instr[b]) => IsEqual(instr'[a], instr'[b])
         /\ SameExpression(instr[a], instr[b]) => SameExpression(instr'[a], instr'[b])
<1>1. \A k \in Instrs : /\ instr'[k].op = instr[k].op
                        /\ instr'[k].lhs = Replaced(instr[k].lhs, i, y)
                        /\ instr'[k].rhs = Replaced(instr[k].rhs, i, y)
  BY DEF Replace, IInv, TypeOK, Instructions
<1> QED
  BY <1>1 DEF IsEqual, SameExpression, IsBinaryOp, IsCommutative

LEMMA InitLike == Init => LikeInv
BY DEF Init, LikeInv, Live

LEMMA NextLike == IInv /\ LikeInv /\ [Next]_vars => LikeInv'
<1> SUFFICES ASSUME IInv, LikeInv, [Next]_vars PROVE LikeInv'
  OBVIOUS
<1>1. CASE UNCHANGED <<instr, leader, mistaken>>
  BY <1>1 DEF LikeInv, Live
<1>2. ASSUME NEW i \in todo, NEW y \in Instrs, Replace(i, y)
      PROVE  LikeInv'
  <2>1. y \in InTable /\ IsEqual(instr[i], instr[y])
    BY <1>2 DEF Replace, Found
  <2>2. i \in Instrs /\ Live(i) /\ Live(y) /\ y # i
    BY <2>1, FoundIsAvailable
  <2>3. /\ \A k \in Instrs : leader'[k] = IF leader[k] = i THEN y ELSE leader[k]
        /\ mistaken' = mistaken \cup Mistaken(i, y)
    BY <1>2 DEF Replace, Replaced
  <2>4. \A k \in Instrs : leader[k] \in Instrs
    BY DEF IInv, TypeOK
  <2> SUFFICES ASSUME NEW k \in Instrs, ~Live(k)'
               PROVE  /\ IsEqual(instr'[k], instr'[leader'[k]])
                      /\ k \notin mistaken' => SameExpression(instr'[leader'[k]], instr'[k])
    BY DEF LikeInv
  <2>5. CASE leader[k] # i
    <3>1. leader'[k] = leader[k] /\ ~Live(k)
      BY <2>3, <2>5 DEF Live
    <3>2. /\ IsEqual(instr[k], instr[leader[k]])
          /\ k \notin mistaken' => SameExpression(instr[leader[k]], instr[k])
      BY <2>3, <3>1 DEF LikeInv
    <3> QED
      BY <1>2, <2>4, <3>1, <3>2, ReplacedAlike
  <2>6. CASE leader[k] = i
    <3>1. leader'[k] = y
      BY <2>3, <2>6
    <3>2. IsEqual(instr[k], instr[i])
      <4>1. CASE k = i
        BY <2>1, <4>1 DEF IsEqual
      <4>2. CASE k # i
        BY <2>6, <4>2 DEF LikeInv, Live
      <4> QED
        BY <4>1, <4>2
    <3>3. IsEqual(instr[k], instr[y])
      BY <2>1, <3>2 DEF IsEqual
    <3>4. ASSUME k \notin mistaken'
          PROVE  SameExpression(instr[y], instr[k])
      <4>1. k \notin mistaken /\ SameExpression(instr[i], instr[y])
        BY <2>3, <2>6, <3>4 DEF Mistaken
      <4>2. SameExpression(instr[i], instr[k])
        BY <2>6, <4>1, OneExpression DEF LikeInv, Live
      <4> QED
        BY <4>1, <4>2, OneExpression
    <3> QED
      BY <1>2, <3>1, <3>3, <3>4, ReplacedAlike
  <2> QED
    BY <2>5, <2>6
<1>3. QED
  BY <1>1, <1>2 DEF Next, Run, Returned, vars, Insert, Descend, Ascend

\* What is not affected was not mistaken, and has operands that are not affected.
LEMMA AffectedIsClosed ==
  ASSUME NEW k \in Instrs \ Affected
  PROVE  /\ k \notin mistaken
         /\ IsBinaryOp(g.instr[k]) =>
              \A v \in {g.instr[k].lhs, g.instr[k].rhs} \cap Instrs : v \notin Affected
<1>1. PICK S \in SUBSET Instrs :
        /\ mistaken \subseteq S /\ k \notin S
        /\ \A j \in Instrs :
             IsBinaryOp(g.instr[j]) /\ {g.instr[j].lhs, g.instr[j].rhs} \cap S # {} => j \in S
  BY DEF Affected
<1>2. \A v \in Affected : v \in S
  BY <1>1 DEF Affected
<1> QED
  BY <1>1, <1>2

\* With whatever has taken its place, or is itself.
LEMMA LikeItsLeader ==
  ASSUME IInv, LikeInv, NEW k \in Instrs
  PROVE  /\ leader[k] # k => IsBinaryOp(instr[k]) /\ IsBinaryOp(instr[leader[k]])
         /\ k \notin mistaken => SameExpression(instr[leader[k]], instr[k])
BY OneExpression DEF LikeInv, Live, IsEqual

\* Instructions that end up as one have one number, unless they are affected.  A
\* pair with different numbers has operands that end up as one, and so on down.
LEMMA OneLeaderOneNumber ==
  ASSUME IInv, LikeInv, NEW num, num = Numbers(g),
         NEW i \in Instrs \ Affected, NEW j \in Instrs \ Affected, leader[i] = leader[j]
  PROVE  num[i] = num[j]
<1> DEFINE Wrong == {a \in Instrs \ Affected :
                       \E b \in 1..a : b \notin Affected /\ leader[a] = leader[b] /\ num[a] # num[b]}
<1>1. /\ Instrs = 1..N /\ N \in Nat /\ Args \cap Instrs = {}
      /\ g \in Functions /\ WellFormed(g) /\ leader \in [Instrs -> Instrs]
  BY ArgsAssumption, FunctionsAssumption DEF Instrs, IInv, TypeOK
<1>2. SUFFICES Wrong = {}
  <2>1. i \in 1..j \/ j \in 1..i
    BY <1>1
  <2> QED
    BY <1>2, <2>1
<1>3. SUFFICES ASSUME Wrong # {} PROVE FALSE
  OBVIOUS
<1>4. PICK a \in Wrong : \A b \in Wrong : a <= b
  <2>1. Wrong \in SUBSET Nat
    BY <1>1
  <2> HIDE DEF Wrong
  <2> QED
    BY <1>3, <2>1, LeastNatural
<1>5. PICK b \in 1..a : b \notin Affected /\ leader[a] = leader[b] /\ num[a] # num[b]
  BY <1>4
<1>6. a \in Instrs \ Affected /\ b \in Instrs \ Affected /\ a # b /\ b < a
  BY <1>1, <1>4, <1>5
<1>7. SameExpression(instr[a], instr[b])
  <2>1. SameExpression(instr[leader[a]], instr[a]) /\ SameExpression(instr[leader[a]], instr[b])
    BY <1>5, <1>6, AffectedIsClosed, LikeItsLeader
  <2> QED
    BY <2>1, OneExpression
<1>8. IsBinaryOp(g.instr[a]) /\ IsBinaryOp(g.instr[b])
  <2>1. IsBinaryOp(instr[a]) \/ IsBinaryOp(instr[b])
    BY <1>5, <1>6, LikeItsLeader
  <2>2. instr[a].op = instr[b].op
    BY <1>7 DEF SameExpression
  <2> QED
    BY <1>6, <2>1, <2>2 DEF IInv, LeadersInv, IsBinaryOp
<1>9. ASSUME NEW v \in {g.instr[a].lhs, g.instr[a].rhs},
             NEW w \in {g.instr[b].lhs, g.instr[b].rhs}, Now(v) = Now(w)
      PROVE  Of(num, v) = Of(num, w)
  <2>1. v \in 1..(a - 1) \cup Args /\ w \in 1..(b - 1) \cup Args
    BY <1>1, <1>6, <1>8 DEF WellFormed
  <2>2. CASE v \in Args \/ w \in Args
    <3>1. \A x \in Instrs : leader[x] \notin Args
      BY <1>1
    <3>2. v = w
      BY <1>1, <1>6, <1>9, <2>1, <2>2, <3>1 DEF Now
    <3> QED
      BY <3>2
  <2>3. CASE v \in 1..(a - 1) /\ w \in 1..(b - 1)
    <3>1. v \in Instrs \ Affected /\ w \in Instrs \ Affected
      <4>1. v \in Instrs /\ w \in Instrs
        BY <1>1, <1>6, <2>3
      <4> QED
        BY <1>6, <1>8, <4>1, AffectedIsClosed
    <3>2. v \notin Wrong /\ w \notin Wrong
      <4> HIDE DEF Wrong
      <4> QED
        BY <1>1, <1>4, <1>6, <2>3
    <3>3. leader[v] = leader[w]
      BY <1>9, <3>1 DEF Now
    <3>4. v \in 1..w \/ w \in 1..v
      BY <1>1, <3>1
    <3>5. num[v] = num[w]
      BY <3>1, <3>2, <3>3, <3>4
    <3> QED
      BY <3>1, <3>5 DEF Of
  <2> QED
    BY <2>1, <2>2, <2>3
<1>10. /\ instr[a].op = g.instr[a].op /\ instr[b].op = g.instr[b].op
       /\ instr[a].lhs = Now(g.instr[a].lhs) /\ instr[a].rhs = Now(g.instr[a].rhs)
       /\ instr[b].lhs = Now(g.instr[b].lhs) /\ instr[b].rhs = Now(g.instr[b].rhs)
  BY <1>6 DEF IInv, LeadersInv
<1> HIDE DEF Wrong
<1>11. IsEqual(g.instr[a], g.instr[b]) /\ SameUnder(num, g.instr[a], g.instr[b])
  BY <1>7, <1>8, <1>9, <1>10 DEF IsEqual, SameUnder, SameExpression, IsCommutative
<1>12. num[a] = num[b]
  <2>1. g \in Functions /\ a \in Instrs /\ b \in Instrs
    BY <1>1, <1>6
  <2> QED
    BY <2>1, <1>11, TwinsHaveOneNumber
<1> QED
  BY <1>5, <1>12

\* `Replace expressions with duplicate available expressions' (lines 1-2): in
\* every function and with every hash table, an instruction gives way to its
\* like, and only instructions of one value end up as one, but for those that
\* isEqual takes for another expression (line 60) and what is computed from them.
THEOREM ReplacesByEqualValue == Spec => []ReplacedByEqualValue
<1>1. IInv /\ LikeInv => ReplacedByEqualValue
  <2> SUFFICES ASSUME IInv, LikeInv PROVE ReplacedByEqualValue
    OBVIOUS
  <2>1. ASSUME NEW i \in Instrs \ mistaken, ~Live(i)
        PROVE  ReplacedByItsLike(i)
    <3>1. SameExpression(instr[leader[i]], instr[i])
      BY <2>1 DEF LikeInv
    <3>2. g.instr[i] \in Instructions
      BY GivenFunction DEF IInv, TypeOK
    <3>3. /\ instr[i].op = g.instr[i].op
          /\ instr[i].lhs = Now(g.instr[i].lhs) /\ instr[i].rhs = Now(g.instr[i].rhs)
      BY DEF IInv, LeadersInv
    <3> QED
      BY <3>1, <3>2, <3>3 DEF ReplacedByItsLike, SameExpression, IsCommutative, Instructions
  <2>2. \A i, j \in Instrs \ Affected : leader[i] = leader[j] => ValueNumber[i] = ValueNumber[j]
    BY OneLeaderOneNumber, ValueNumberIsNumbers
  <2> QED
    BY <2>1, <2>2 DEF ReplacedByEqualValue
<1>2. QED
  BY <1>1, InitLike, NextLike, Invariance, PTL DEF Spec

------------------------------------------------------------------------------
(* One walk is enough *)

\* The tree node p is the block of an active call.
OnPath(p) == Len(p) <= Len(path) /\ \A k \in 1..Len(p) : p[k] = path[k]

\* The walk leaves nothing out: it has come to the entry block, to the block of
\* each active call, and to every child of a node it has gone up from.
WalkInv ==
  /\ visited \subseteq Seq(Blocks) \ {<< >>} /\ <<Entry>> \in visited
  /\ \A k \in 1..Len(path) : \E p \in visited : Last(p) = path[k]
  /\ \A p \in visited : ~OnPath(p) =>
       \A c \in Blocks : <<Last(p), c>> \in tree => Append(p, c) \in visited

\* What dominates a block on the path p stands there in front of it.
Covers(s, p) ==
  \A k \in 1..Len(p) : p[k] \in Reachable(s) =>
    \A d \in Dominators(s, p[k]) : \E m \in 1..k : p[m] = d

\* The blocks that dominate the one the walk is at are those of active calls,
\* and the table has what is live in them.
TableInv ==
  /\ Covers(g.succ, path)
  /\ \A k \in 1..Len(path), i \in Instrs :
       Live(i) /\ g.block[i] = path[k] => i \in scopes[k] \/ (k = Len(path) /\ i \in todo)

\* The walk has come to i and is done with it.
LookedUp(i) == i \notin todo /\ \E p \in visited : Last(p) = g.block[i]

Candidate(i) == Live(i) /\ IsBinaryOp(g.instr[i])

\* The walk comes to each reachable block once, through the blocks that dominate
\* it; and before it is done with a block, no other node has that block on its
\* way.
WalkOnceInv ==
  /\ path # << >> => path \in visited
  /\ \A q \in visited : q = <<Entry>>
       \/ \E p \in visited, c \in Blocks : q = Append(p, c) /\ <<Last(p), c>> \in TreeEdges(g.succ)
  /\ \A p, q \in visited : Last(p) = Last(q) /\ Last(p) \in Reachable(g.succ) => p = q
  /\ \A p \in visited : Covers(g.succ, p) /\ \A k \in 1..Len(p) : \E q \in visited : Last(q) = p[k]
  /\ todo # {} /\ Last(path) \in Reachable(g.succ) =>
       \A p \in visited \ {path} : \A k \in 1..Len(p) : p[k] # Last(path)

\* What has been looked up has its expression from no other operator that is
\* left.
NoDuplicates ==
  \A i, j \in Instrs :
    Candidate(i) /\ Candidate(j) /\ i # j /\ InReach(i) /\ LookedUp(i) /\ Avail(j, i)
    => ~SameExpression(instr[i], instr[j])

WholeInv ==
  IInv /\ LikeInv /\ WalkInv /\ TableInv /\ WalkOnceInv /\ NoDuplicates

LEMMA InitWalk == Init => WalkInv /\ TableInv /\ WalkOnceInv /\ NoDuplicates
<1> SUFFICES ASSUME Init PROVE WalkInv /\ TableInv /\ WalkOnceInv /\ NoDuplicates
  OBVIOUS
<1>1. /\ path = <<Entry>> /\ visited = {<<Entry>>} /\ g \in Functions
      /\ todo = {i \in Instrs : g.block[i] = Entry}
  BY DEF Init
<1>2. g.succ \in CFGs /\ Entry \in Blocks /\ Last(<<Entry>>) = Entry
  BY <1>1, GivenFunction, EntryAssumption DEF Last
<1>3. WalkInv
  BY <1>1, <1>2 DEF WalkInv, OnPath
<1>4. TableInv
  <2>1. \A d \in Dominators(g.succ, Entry) : d = Entry
    BY <1>2, OnlyEntryDominatesEntry DEF Dominators
  <2>2. QED
    BY <1>1, <2>1 DEF TableInv, Covers
<1>5. \A i \in Instrs : ~LookedUp(i)
  BY <1>1, <1>2 DEF LookedUp
<1>6. WalkOnceInv
  <2>1. Covers(g.succ, <<Entry>>) /\ \A k \in 1..Len(<<Entry>>) : <<Entry>>[k] = Entry
    BY <1>1, <1>4 DEF TableInv
  <2> QED
    BY <1>1, <1>2, <2>1 DEF WalkOnceInv
<1>7. QED
  BY <1>3, <1>4, <1>5, <1>6 DEF NoDuplicates

LEMMA WalkStep ==
  ASSUME IInv, WalkInv, [Next]_vars
  PROVE  WalkInv'
<1> USE DEF WalkInv
<1>1. CASE UNCHANGED <<tree, path, visited>>
  BY <1>1 DEF OnPath
<1>2. ASSUME NEW c \in Blocks, Descend(c)
      PROVE  WalkInv'
  <2>1. path \in Seq(Blocks) /\ Len(path) \in Nat
    BY DEF IInv, TypeOK
  <2>2. path' = Append(path, c) /\ visited' = visited \cup {path'} /\ tree' = tree
    BY <1>2 DEF Descend
  <2>3. /\ path' \in Seq(Blocks) \ {<< >>} /\ Len(path') = Len(path) + 1
        /\ Last(path') = c /\ path'[Len(path')] = c
        /\ \A k \in 1..Len(path) : path'[k] = path[k]
    BY <2>1, <2>2, AppendProperties DEF Last
  <2>4. \A p \in visited : ~OnPath(p)' => ~OnPath(p)
    <3>1. \A p \in visited : Len(p) \in Nat
      OBVIOUS
    <3>2. QED
      BY <2>1, <2>3, <3>1 DEF OnPath
  <2>5. \A q : q = path' => OnPath(q)'
    BY <2>1, <2>3 DEF OnPath
  <2>6. \A p \in visited' : ~OnPath(p)' =>
          \A b \in Blocks : <<Last(p), b>> \in tree => Append(p, b) \in visited'
    BY <2>2, <2>4, <2>5
  <2>7. \A k \in 1..Len(path') : \E p \in visited' : Last(p) = path'[k]
    <3>1. SUFFICES ASSUME NEW k \in 1..Len(path') PROVE \E p \in visited' : Last(p) = path'[k]
      OBVIOUS
    <3>2. CASE k = Len(path')
      BY <2>2, <2>3, <3>2
    <3>3. CASE k # Len(path')
      <4>1. k \in 1..Len(path)
        BY <2>1, <2>3, <3>3
      <4>2. QED
        BY <2>2, <2>3, <4>1
    <3>4. QED
      BY <3>2, <3>3
  <2>8. QED
    BY <2>2, <2>3, <2>6, <2>7
<1>3. CASE Ascend
  <2>1. /\ path \in Seq(Blocks) /\ path # << >> /\ Len(path) \in Nat \ {0}
        /\ todo = {} /\ \A c \in Blocks : ~ChildLeft(c)
        /\ path' = SubSeq(path, 1, Len(path) - 1) /\ visited' = visited /\ tree' = tree
    BY <1>3, EmptySeq DEF Ascend, Front, IInv, TypeOK
  <2>2. /\ Len(path') = Len(path) - 1
        /\ \A k \in 1..(Len(path) - 1) : path'[k] = path[k]
    BY <2>1, SubSeqProperties
  <2>3. ASSUME NEW p \in visited, ~OnPath(p)', OnPath(p)
        PROVE  p = path
    <3>1. p \in Seq(Blocks) /\ Len(p) \in Nat
      OBVIOUS
    <3>2. Len(p) = Len(path)
      BY <2>1, <2>2, <2>3, <3>1 DEF OnPath
    <3>3. QED
      BY <2>1, <2>3, <3>1, <3>2, SeqEqual DEF OnPath
  <2>4. \A c \in Blocks : <<Last(path), c>> \in tree => Append(path, c) \in visited
    BY <2>1 DEF ChildLeft
  <2>5. \A p \in visited : ~OnPath(p)' =>
          \A c \in Blocks : <<Last(p), c>> \in tree => Append(p, c) \in visited
    BY <2>3, <2>4
  <2>6. \A k \in 1..Len(path') : \E p \in visited' : Last(p) = path'[k]
    <3> SUFFICES ASSUME NEW k \in 1..Len(path') PROVE \E p \in visited' : Last(p) = path'[k]
      OBVIOUS
    <3>1. k \in 1..Len(path) /\ path'[k] = path[k]
      BY <2>1, <2>2
    <3> QED
      BY <2>1, <3>1
  <2>7. QED
    BY <2>1, <2>5, <2>6
<1>4. QED
  BY <1>1, <1>2, <1>3 DEF Next, Run, Returned, vars, Replace, Insert

LEMMA TableStep ==
  ASSUME IInv, IInv', TableInv, [Next]_vars
  PROVE  TableInv'
<1> USE DEF TableInv
<1>0. /\ path \in Seq(Blocks) /\ Len(path) \in Nat /\ g \in Functions /\ g.succ \in CFGs
      /\ scopes \in Seq(SUBSET Instrs) /\ Len(scopes) = Len(path)
  BY GivenFunction DEF IInv, TypeOK
<1>1. CASE UNCHANGED <<g, leader, path, scopes, todo>>
  BY <1>1 DEF Live
<1>2. ASSUME NEW i \in todo, NEW y \in Instrs, Replace(i, y)
      PROVE  TableInv'
  <2>1. g' = g /\ path' = path /\ scopes' = scopes /\ todo' = todo \ {i}
    BY <1>2 DEF Replace
  <2>2. \A k \in Instrs : Live(k)' => Live(k) /\ k # i
    <3>1. y \in InTable /\ i \in Instrs
      BY <1>2 DEF Replace, Found, IInv, TypeOK
    <3>2. y # i /\ Live(i) /\ Live(y)
      BY <3>1, FoundIsAvailable
    <3>3. \A k \in Instrs : leader'[k] = IF leader[k] = i THEN y ELSE leader[k]
      BY <1>2 DEF Replace, Replaced
    <3>4. QED
      BY <3>1, <3>2, <3>3 DEF Live
  <2>3. ASSUME NEW k \in 1..Len(path), NEW j \in Instrs, Live(j)', g.block[j] = path[k]
        PROVE  j \in scopes[k] \/ (k = Len(path) /\ j \in todo \ {i})
    BY <2>2, <2>3
  <2>4. Covers(g.succ, path)'
    BY <2>1
  <2>5. \A k \in 1..Len(path'), j \in Instrs :
          Live(j)' /\ g'.block[j] = path'[k]
            => j \in scopes'[k] \/ (k = Len(path') /\ j \in todo')
    BY <2>1, <2>3
  <2>6. QED
    BY <2>4, <2>5
<1>3. ASSUME NEW i \in todo, Insert(i)
      PROVE  TableInv'
  <2>1. /\ g' = g /\ path' = path /\ leader' = leader /\ todo' = todo \ {i}
        /\ scopes' = [scopes EXCEPT ![Len(scopes)] = @ \cup {i}]
    BY <1>3 DEF Insert
  <2>2. \A k \in 1..Len(path) : scopes[k] \subseteq scopes'[k]
    BY <1>0, <2>1
  <2>3. i \in scopes'[Len(path)]
    BY <1>0, <2>1 DEF IInv, ScopesInv
  <2>4. Covers(g.succ, path)'
    BY <2>1
  <2>5. \A k \in 1..Len(path), j \in Instrs :
          Live(j)' /\ g.block[j] = path[k]
            => j \in scopes'[k] \/ (k = Len(path) /\ j \in todo \ {i})
    <3> SUFFICES ASSUME NEW k \in 1..Len(path), NEW j \in Instrs, Live(j)', g.block[j] = path[k]
                 PROVE  j \in scopes'[k] \/ (k = Len(path) /\ j \in todo \ {i})
      OBVIOUS
    <3>1. Live(j)
      BY <2>1 DEF Live
    <3>2. j \in scopes[k] \/ (k = Len(path) /\ j \in todo)
      BY <3>1
    <3> QED
      BY ONLY <2>2, <2>3, <3>2
  <2>6. QED
    BY <2>1, <2>4, <2>5
<1>4. ASSUME NEW c \in Blocks, Descend(c)
      PROVE  TableInv'
  <2>1. /\ path # << >> /\ todo = {} /\ <<path[Len(path)], c>> \in TreeEdges(g.succ)
        /\ path' = Append(path, c) /\ scopes' = Append(scopes, {})
        /\ todo' = {i \in Instrs : g.block[i] = c /\ Live(i)}
        /\ UNCHANGED <<g, leader>>
    BY <1>4 DEF Descend, ChildLeft, Last, InstrsIn, IInv, TypeOK
  <2>2. /\ Len(path') = Len(path) + 1 /\ path'[Len(path) + 1] = c
        /\ \A k \in 1..Len(path) : path'[k] = path[k]
        /\ \A k \in 1..Len(path) : scopes'[k] = scopes[k]
        /\ Len(path) \in 1..Len(path)
    BY <1>0, <2>1, AppendProperties
  <2>3. ASSUME c \in Reachable(g.succ), NEW d \in Dominators(g.succ, c), d # c
        PROVE  \E m \in 1..Len(path) : path[m] = d
    <3>1. path[Len(path)] \in Reachable(g.succ)
      BY <1>0, <2>1, <2>2, TreeEdgesDominate, ElementOfSeq
    <3>2. <<path[Len(path)], c>> \in IDomEdges(g.succ)
      BY <2>1, <2>3 DEF TreeEdges
    <3>3. d \in Dominators(g.succ, path[Len(path)])
      BY <2>3, <3>2 DEF IDomEdges, Dominators
    <3>4. QED
      BY <2>2, <3>1, <3>3 DEF Covers
  <2>4. ASSUME NEW k \in 1..Len(path'), path'[k] \in Reachable(g.succ),
               NEW d \in Dominators(g.succ, path'[k])
        PROVE  \E m \in 1..k : path'[m] = d
    <3>1. CASE k = Len(path) + 1 /\ d = c
      BY <1>0, <2>2, <3>1
    <3>2. CASE k = Len(path) + 1 /\ d # c
      <4>1. PICK m \in 1..Len(path) : path[m] = d
        BY <2>2, <2>3, <2>4, <3>2
      <4>2. m \in 1..k /\ path'[m] = d
        BY <1>0, <2>2, <3>2, <4>1
      <4>3. QED
        BY <4>2
    <3>3. CASE k # Len(path) + 1
      <4>1. k \in 1..Len(path)
        BY <1>0, <2>2, <3>3
      <4>2. PICK m \in 1..k : path[m] = d
        BY <2>1, <2>2, <2>4, <4>1 DEF Covers
      <4>3. m \in 1..Len(path)
        BY <1>0, <4>1
      <4>4. QED
        BY <2>2, <4>2, <4>3
    <3>4. QED
      BY <3>1, <3>2, <3>3
  <2>5. ASSUME NEW k \in 1..Len(path'), NEW i \in Instrs, Live(i), g.block[i] = path'[k]
        PROVE  i \in scopes'[k] \/ (k = Len(path') /\ i \in todo')
    <3>1. CASE k = Len(path) + 1
      BY <2>1, <2>2, <2>5, <3>1
    <3>2. CASE k # Len(path) + 1
      <4>1. k \in 1..Len(path)
        BY <1>0, <2>2, <3>2
      <4>2. QED
        BY <2>1, <2>2, <2>5, <4>1
    <3>3. QED
      BY <3>1, <3>2
  <2>6. Covers(g.succ, path)'
    BY <2>1, <2>4 DEF Covers
  <2>7. QED
    BY <2>1, <2>5, <2>6 DEF Live
<1>5. CASE Ascend
  <2>1. /\ path # << >> /\ todo = {} /\ todo' = todo /\ UNCHANGED <<g, leader>>
        /\ path' = SubSeq(path, 1, Len(path) - 1)
        /\ scopes' = SubSeq(scopes, 1, Len(path) - 1)
    BY <1>0, <1>5 DEF Ascend, Front
  <2>2. /\ Len(path) \in Nat \ {0} /\ Len(path') = Len(path) - 1
        /\ \A k \in 1..(Len(path) - 1) : path'[k] = path[k] /\ scopes'[k] = scopes[k]
    BY <1>0, <2>1, EmptySeq, SubSeqProperties
  <2>3. ASSUME NEW k \in 1..Len(path')
        PROVE  /\ k \in 1..Len(path) /\ k # Len(path) /\ path'[k] = path[k]
               /\ scopes'[k] = scopes[k] /\ \A m \in 1..k : path'[m] = path[m]
    BY <2>2
  <2>4. ASSUME NEW k \in 1..Len(path'), path'[k] \in Reachable(g.succ),
               NEW d \in Dominators(g.succ, path'[k])
        PROVE  \E m \in 1..k : path'[m] = d
    <3>1. k \in 1..Len(path) /\ path[k] \in Reachable(g.succ) /\ d \in Dominators(g.succ, path[k])
      BY <2>3, <2>4
    <3>2. PICK m \in 1..k : path[m] = d
      BY <3>1 DEF Covers
    <3>3. QED
      BY <2>3, <3>2
  <2>5. ASSUME NEW k \in 1..Len(path'), NEW i \in Instrs, Live(i), g.block[i] = path'[k]
        PROVE  i \in scopes'[k]
    BY <2>3, <2>5
  <2>6. Covers(g.succ, path)'
    BY <2>1, <2>4 DEF Covers
  <2>7. QED
    BY <2>1, <2>5, <2>6 DEF Live
<1>6. QED
  BY <1>1, <1>2, <1>3, <1>4, <1>5 DEF Next, Run, Returned, vars

\* A reachable block has one parent in the tree, and the entry block none.
LEMMA OneParent ==
  ASSUME NEW t \in CFGs, NEW c \in Reachable(t), NEW a \in Blocks, <<a, c>> \in TreeEdges(t)
  PROVE  /\ c # Entry
         /\ \A b \in Blocks : <<b, c>> \in TreeEdges(t) => b = a
<1>1. \A b : <<b, c>> \in TreeEdges(t) => <<b, c>> \in IDomEdges(t)
  BY DEF TreeEdges
<1>2. c \in Blocks
  BY ReachableStep
<1>3. \A b : <<b, c>> \in TreeEdges(t) =>
        /\ b # c /\ <<b, c>> \in Dominance(t)
        /\ \A j \in Blocks \ {c} : <<j, c>> \in Dominance(t) => <<j, b>> \in Dominance(t)
  BY <1>1 DEF IDomEdges
<1>4. c # Entry
  BY <1>3, OnlyEntryDominatesEntry
<1>5. ASSUME NEW b \in Blocks, <<b, c>> \in TreeEdges(t)
      PROVE  b = a
  <2>1. <<a, b>> \in Dominance(t) /\ <<b, a>> \in Dominance(t)
    BY <1>3, <1>5
  <2>2. a \in Reachable(t)
    BY <1>2, TreeEdgesDominate
  <2> QED
    BY <2>1, <2>2, DominanceAntisymmetric
<1> QED
  BY <1>4, <1>5

LEMMA AppendedOnce ==
  ASSUME NEW p \in Seq(Blocks), NEW q \in Seq(Blocks), NEW c \in Blocks, NEW d \in Blocks,
         Append(p, c) = Append(q, d)
  PROVE  p = q /\ c = d
<1>1. /\ Len(Append(p, c)) = Len(p) + 1 /\ Len(Append(q, d)) = Len(q) + 1
      /\ \A k \in 1..Len(p) : Append(p, c)[k] = p[k]
      /\ \A k \in 1..Len(q) : Append(q, d)[k] = q[k]
      /\ Append(p, c)[Len(p) + 1] = c /\ Append(q, d)[Len(q) + 1] = d
  BY AppendProperties
<1>2. Len(p) = Len(q) /\ \A k \in 1..Len(p) : p[k] = q[k]
  BY <1>1
<1> QED
  BY <1>1, <1>2, SeqEqual

LEMMA CutShort ==
  ASSUME NEW p \in Seq(Blocks), p # << >>
  PROVE  /\ SubSeq(p, 1, Len(p) - 1) \in Seq(Blocks)
         /\ Len(SubSeq(p, 1, Len(p) - 1)) = Len(p) - 1
<1> DEFINE n == Len(p) - 1
<1>1. n \in Nat /\ \A k \in 1..n : p[k] \in Blocks
  BY EmptySeq, ElementOfSeq
<1> HIDE DEF n
<1>2. SubSeq(p, 1, n) \in Seq(Blocks) /\ Len(SubSeq(p, 1, n)) = IF 1 <= n THEN n - 1 + 1 ELSE 0
  BY <1>1, SubSeqProperties
<1>3. Len(SubSeq(p, 1, n)) = n
  BY <1>1, <1>2
<1> QED
  BY <1>2, <1>3 DEF n

LEMMA WalkOnceStep ==
  ASSUME IInv, WalkInv, WalkInv', TableInv', WalkOnceInv, [Next]_vars
  PROVE  WalkOnceInv'
<1>0. /\ path \in Seq(Blocks) /\ g.succ \in CFGs /\ tree = TreeEdges(g.succ)
      /\ visited \subseteq Seq(Blocks) \ {<< >>}
  BY GivenFunction DEF IInv, TypeOK, WalkInv
<1>1. CASE UNCHANGED <<g, path, visited>> /\ todo' \subseteq todo
  BY <1>1 DEF WalkOnceInv
<1>2. ASSUME NEW c \in Blocks, Descend(c)
      PROVE  WalkOnceInv'
  <2>1. /\ path # << >> /\ path' = Append(path, c) /\ visited' = visited \cup {path'} /\ g' = g
        /\ <<Last(path), c>> \in TreeEdges(g.succ) /\ path' \notin visited
    BY <1>0, <1>2 DEF Descend, ChildLeft
  <2>2. /\ path' \in Seq(Blocks) /\ path' # << >> /\ Last(path') = c /\ path \in visited
        /\ Last(path) \in Blocks
    BY <1>0, <2>1, AppendProperties, ElementOfSeq, EmptySeq DEF Last, WalkOnceInv
  <2>3. ASSUME c \in Reachable(g.succ), NEW q \in visited, Last(q) = c
        PROVE  FALSE
    <3>1. Last(<<Entry>>) = Entry
      BY DEF Last
    <3>2. PICK p \in visited, d \in Blocks : q = Append(p, d) /\ <<Last(p), d>> \in TreeEdges(g.succ)
      BY <1>0, <2>1, <2>2, <2>3, <3>1, OneParent DEF WalkOnceInv
    <3>3. Last(q) = d /\ Last(p) \in Blocks
      BY <1>0, <3>2, AppendProperties, ElementOfSeq, EmptySeq DEF Last
    <3>4. Last(p) = Last(path) /\ Last(path) \in Reachable(g.succ)
      BY <1>0, <2>1, <2>2, <2>3, <3>2, <3>3, OneParent, TreeEdgesDominate
    <3>5. p = path
      BY <2>2, <3>4 DEF WalkOnceInv
    <3> QED
      BY <2>1, <2>3, <3>2, <3>3, <3>5
  <2>4. Covers(g.succ, path') /\ \A k \in 1..Len(path') : \E q \in visited' : Last(q) = path'[k]
    <3>1. Covers(g.succ, path)'
      BY DEF TableInv
    <3>2. Covers(g.succ, path')
      BY <2>1, <3>1 DEF Covers
    <3>3. \A k \in 1..Len(path') : \E q \in visited' : Last(q) = path'[k]
      BY DEF WalkInv
    <3> QED
      BY <3>2, <3>3
  <2>5. \A p, q \in visited' : Last(p) = Last(q) /\ Last(p) \in Reachable(g.succ) => p = q
    <3> SUFFICES ASSUME NEW p \in visited', NEW q \in visited',
                        Last(p) = Last(q), Last(p) \in Reachable(g.succ)
                 PROVE  p = q
      OBVIOUS
    <3>1. CASE p \in visited /\ q \in visited
      BY <3>1 DEF WalkOnceInv
    <3>2. CASE p = path' \/ q = path'
      BY <2>1, <2>2, <2>3, <3>2
    <3> QED
      BY <2>1, <3>1, <3>2
  <2>6. c \in Reachable(g.succ) => \A p \in visited : \A k \in 1..Len(p) : p[k] # c
    BY <2>3 DEF WalkOnceInv
  <2>7. \A q \in visited' : q = <<Entry>>
          \/ \E p \in visited', d \in Blocks : q = Append(p, d) /\ <<Last(p), d>> \in TreeEdges(g.succ)
    BY <2>1, <2>2 DEF WalkOnceInv
  <2>8. \A p \in visited' :
          Covers(g.succ, p) /\ \A k \in 1..Len(p) : \E q \in visited' : Last(q) = p[k]
    <3>1. \A p \in visited :
            Covers(g.succ, p) /\ \A k \in 1..Len(p) : \E q \in visited : Last(q) = p[k]
      BY DEF WalkOnceInv
    <3> SUFFICES ASSUME NEW p \in visited'
                 PROVE  Covers(g.succ, p) /\ \A k \in 1..Len(p) : \E q \in visited' : Last(q) = p[k]
      OBVIOUS
    <3>2. CASE p \in visited
      BY <2>1, <3>1, <3>2
    <3>3. CASE p = path'
      BY <2>4, <3>3
    <3> QED
      BY <2>1, <3>2, <3>3
  <2>9. c \in Reachable(g.succ) => \A p \in visited' \ {path'} : \A k \in 1..Len(p) : p[k] # c
    BY <2>1, <2>6
  <2>10. \A p : Covers(g.succ, p)' <=> Covers(g.succ, p)
    BY <2>1 DEF Covers
  <2>11. \A p \in visited' : Covers(g.succ, p)'
    BY <2>8, <2>10
  <2>12. path' \in visited' /\ (Last(path') \in Reachable(g.succ) =>
           \A p \in visited' \ {path'} : \A k \in 1..Len(p) : p[k] # Last(path'))
    BY <2>1, <2>2, <2>9
  <2> QED
    BY <2>1, <2>5, <2>7, <2>8, <2>11, <2>12 DEF WalkOnceInv
<1>3. CASE Ascend
  <2>1. /\ path # << >> /\ todo' = {} /\ UNCHANGED <<g, visited>>
        /\ path' = SubSeq(path, 1, Len(path) - 1)
    BY <1>0, <1>3 DEF Ascend, Front
  <2>2. ASSUME path' # << >>
        PROVE  path' \in visited
    <3>1. path # <<Entry>>
      <4>1. Len(path) \in Nat \ {0}
        BY <1>0, <2>1, EmptySeq
      <4>2. Len(path') = Len(path) - 1 /\ path' \in Seq(Blocks)
        BY <1>0, <2>1, CutShort
      <4>3. Len(path') # 0
        BY <2>2, <4>1, <4>2, EmptySeq
      <4> QED
        BY <4>1, <4>2, <4>3
    <3>2. PICK p \in visited, d \in Blocks : path = Append(p, d)
      BY <2>1, <3>1 DEF WalkOnceInv
    <3>3. /\ p \in Seq(Blocks) /\ Len(path) = Len(p) + 1 /\ Len(p) \in Nat
          /\ \A k \in 1..Len(p) : path[k] = p[k]
      BY <1>0, <3>2, AppendProperties
    <3>4. path' \in Seq(Blocks) /\ Len(path') = Len(p) /\ \A k \in 1..Len(p) : path'[k] = path[k]
      BY <1>0, <2>1, <3>3, SubSeqProperties, EmptySeq
    <3>5. path' = p
      BY <3>3, <3>4, SeqEqual
    <3> QED
      BY <3>5
  <2>3. \A p : Covers(g.succ, p)' <=> Covers(g.succ, p)
    BY <2>1 DEF Covers
  <2> QED
    BY <2>1, <2>2, <2>3 DEF WalkOnceInv
<1>4. QED
  BY <1>1, <1>2, <1>3 DEF Next, Run, Returned, vars, Replace, Insert

\* The number of an instruction is that of a twin or its own.
LEMMA NumberIsATwin ==
  ASSUME NEW h \in Functions, NEW num, num = Numbers(h), NEW i \in Instrs
  PROVE  /\ num[i] \in Instrs
         /\ \/ num[i] = i
            \/ /\ IsEqual(h.instr[i], h.instr[num[i]])
               /\ SameUnder(num, h.instr[i], h.instr[num[i]])
<1> DEFINE Same(a, b) == /\ IsEqual(h.instr[a], h.instr[b])
                         /\ SameUnder(num, h.instr[a], h.instr[b])
           Good(a) == num[a] \in Instrs /\ (num[a] = a \/ Same(a, num[a]))
           Wrong == {a \in Instrs : ~Good(a)}
<1>1. Instrs = 1..N /\ N \in Nat
  BY ArgsAssumption DEF Instrs
<1>2. \A a, b, c : Same(a, b) /\ Same(b, c) => Same(a, c)
  BY DEF IsEqual, IsBinaryOp, IsCommutative, SameUnder
<1>3. \A a \in Instrs : num[a] = NumberIn(h, num, a)
  BY NumbersUnfold
<1>4. SUFFICES ASSUME Wrong # {} PROVE FALSE
  OBVIOUS
<1>5. PICK a \in Wrong : \A b \in Wrong : a <= b
  <2>1. Wrong \in SUBSET Nat
    BY <1>1
  <2> HIDE DEF Wrong
  <2>2. QED
    BY <1>4, <2>1, LeastNatural
<1>6. PICK t \in Twins(h, num, a) : num[a] = num[t]
  <2>1. num[a] # a
    BY <1>5
  <2>2. QED
    BY <1>3, <1>5, <2>1 DEF NumberIn
<1>7. t \in 1..(a - 1) /\ t \in Instrs /\ Same(a, t)
  BY <1>1, <1>5, <1>6 DEF Twins
<1>8. Good(t)
  BY <1>1, <1>5, <1>7
<1>9. Good(a)
  <2>1. num[a] \in Instrs /\ (num[a] = t \/ Same(t, num[a]))
    BY <1>6, <1>8
  <2> HIDE DEF Same
  <2>2. QED
    BY <1>2, <1>7, <2>1
<1>10. QED
  BY <1>5, <1>9

LEMMA OneNumberMeansTwins ==
  ASSUME NEW h \in Functions, NEW num, num = Numbers(h),
         NEW i \in Instrs, NEW j \in Instrs, i # j, num[i] = num[j]
  PROVE  IsEqual(h.instr[i], h.instr[j]) /\ SameUnder(num, h.instr[i], h.instr[j])
<1> DEFINE Same(a, b) == /\ IsEqual(h.instr[a], h.instr[b])
                         /\ SameUnder(num, h.instr[a], h.instr[b])
<1>1. \A a, b : Same(a, b) => Same(b, a)
  BY DEF IsEqual, IsBinaryOp, IsCommutative, SameUnder
<1>2. \A a, b, c : Same(a, b) /\ Same(b, c) => Same(a, c)
  BY DEF IsEqual, IsBinaryOp, IsCommutative, SameUnder
<1>3. (num[i] = i \/ Same(i, num[i])) /\ (num[i] = j \/ Same(j, num[i]))
  BY NumberIsATwin
<1> HIDE DEF Same
<1>4. Same(i, j)
  BY <1>1, <1>2, <1>3
<1>5. QED
  BY <1>4 DEF Same

\* What is available where the walk is, and live, is in the table.
LEMMA AvailableIsInTable ==
  ASSUME IInv, WalkInv, TableInv, NEW i \in todo, IsNext(i), InReach(i),
         NEW j \in Instrs, Live(j), Avail(j, i)
  PROVE  j \in InTable /\ LookedUp(j)
<1> USE DEF IInv
<1> DEFINE n == Len(path)
<1>1. /\ i \in Instrs /\ i \in Nat /\ j \in Nat /\ path # << >> /\ g.block[i] = path[n]
      /\ n \in 1..n /\ Len(scopes) = n /\ g.block[j] \in Blocks
  <2>1. i \in Instrs /\ i \in Nat /\ j \in Nat /\ g.block[j] \in Blocks
    BY InstrsAreNumbers, GivenFunction DEF TypeOK
  <2>2. path # << >> /\ g.block[i] = path[n] /\ Len(scopes) = n
    BY DEF TypeOK, ScopesInv
  <2>3. n \in 1..n
    BY <2>2, EmptySeq DEF TypeOK
  <2>4. QED
    BY <2>1, <2>2, <2>3
<1>2. PICK k \in 1..n : path[k] = g.block[j]
  <2>1. CASE g.block[j] = g.block[i]
    BY <1>1, <2>1
  <2>2. CASE g.block[j] # g.block[i]
    <3>1. path[n] \in Reachable(g.succ) /\ g.block[j] \in Dominators(g.succ, path[n])
      BY <1>1, <2>2 DEF Avail, AvailableAt, InReach, Dominators
    <3>2. PICK m \in 1..n : path[m] = g.block[j]
      BY <1>1, <3>1 DEF TableInv, Covers
    <3>3. QED
      BY <3>2
  <2>3. QED
    BY <2>1, <2>2
<1>3. j \notin todo
  <2>1. SUFFICES ASSUME j \in todo PROVE FALSE
    OBVIOUS
  <2>2. g.block[j] = g.block[i] /\ i <= j
    BY <1>1, <2>1 DEF ScopesInv, IsNext
  <2>3. j < i
    BY <2>2 DEF Avail, AvailableAt
  <2>4. QED
    BY <1>1, <2>2, <2>3
<1>4. j \in scopes[k]
  BY <1>2, <1>3 DEF TableInv
<1>5. j \in InTable
  BY <1>1, <1>4, Zenon DEF InTable
<1>6. \E p \in visited : Last(p) = g.block[j]
  BY <1>2 DEF WalkInv
<1>7. QED
  BY <1>3, <1>5, <1>6 DEF LookedUp

LEMMA AvailableAreAChain ==
  ASSUME g \in Functions, NEW i \in Instrs, InReach(i), NEW u \in Instrs, NEW x \in Instrs,
         u # x, Avail(u, i), Avail(x, i)
  PROVE  /\ Avail(u, x) \/ Avail(x, u)
         /\ InReach(u) /\ InReach(x)
<1> DEFINE a == g.block[u]
           b == g.block[x]
           c == g.block[i]
<1>1. a \in Blocks /\ b \in Blocks /\ c \in Blocks /\ g.succ \in CFGs
  BY GivenFunction
<1>2. u \in Nat /\ x \in Nat /\ c \in Reachable(g.succ)
  BY InstrsAreNumbers DEF InReach
<1>3. /\ a = c \/ <<a, c>> \in Dominance(g.succ)
      /\ b = c \/ <<b, c>> \in Dominance(g.succ)
  BY DEF Avail, AvailableAt
<1>4. SUFFICES /\ \/ IF a = b THEN u < x ELSE <<a, b>> \in Dominance(g.succ)
                  \/ IF b = a THEN x < u ELSE <<b, a>> \in Dominance(g.succ)
               /\ a \in Reachable(g.succ) /\ b \in Reachable(g.succ)
  BY DEF Avail, AvailableAt, InReach
<1> HIDE DEF a, b, c
<1>5. a \in Reachable(g.succ) /\ b \in Reachable(g.succ)
  BY <1>1, <1>2, <1>3, DominatorIsReachable
<1>6. CASE a = b
  BY <1>2, <1>5, <1>6
<1>7. CASE a # b
  <2>1. <<a, b>> \in Dominance(g.succ) \/ <<b, a>> \in Dominance(g.succ)
    BY <1>1, <1>2, <1>3, <1>7, DominatorsAreAChain
  <2>2. QED
    BY <1>5, <1>7, <2>1
<1>8. QED
  BY <1>6, <1>7

\* The walk is done with what is available where it is done.
LEMMA LookedUpBehind ==
  ASSUME IInv, WalkInv, TableInv, WalkOnceInv,
         NEW k \in Instrs, Live(k), InReach(k), LookedUp(k),
         NEW m \in Instrs, Live(m), Avail(m, k)
  PROVE  LookedUp(m)
<1>1. PICK p \in visited : Last(p) = g.block[k]
  BY DEF LookedUp
<1>2. /\ p \in Seq(Blocks) /\ Len(p) \in 1..Len(p) /\ p[Len(p)] = g.block[k]
      /\ k \in Nat /\ m \in Nat /\ g.block[m] \in Blocks /\ g.block[k] \in Reachable(g.succ)
      /\ g.succ \in CFGs
  BY <1>1, InstrsAreNumbers, GivenFunction, EmptySeq DEF WalkInv, Last, IInv, TypeOK, InReach
<1>3. ASSUME g.block[m] # g.block[k]
      PROVE  \E n \in 1..Len(p) : p[n] = g.block[m]
  <2>1. g.block[m] \in Dominators(g.succ, p[Len(p)])
    BY <1>2, <1>3 DEF Avail, AvailableAt, Dominators
  <2> QED
    BY <1>2, <2>1 DEF WalkOnceInv, Covers
<1>4. \E q \in visited : Last(q) = g.block[m]
  BY <1>1, <1>3 DEF WalkOnceInv
<1>5. ASSUME m \in todo
      PROVE  FALSE
  <2> DEFINE n == Len(path)
  <2>1. path # << >> /\ g.block[m] = path[n] /\ n \in 1..n /\ Last(path) = path[n]
    BY <1>5, EmptySeq DEF IInv, TypeOK, ScopesInv, Last
  <2>2. CASE g.block[m] = g.block[k]
    <3>1. m < k
      BY <2>2 DEF Avail, AvailableAt
    <3>2. k \in scopes[n]
      BY <2>1, <2>2 DEF TableInv, LookedUp
    <3>3. k < m
      BY <1>5, <2>1, <3>2 DEF IInv, ScopesInv
    <3> QED
      BY <1>2, <3>1, <3>3
  <2>3. CASE g.block[m] # g.block[k]
    <3>1. g.block[m] \in Reachable(g.succ)
      BY <1>2, <2>3, DominatorIsReachable DEF Avail, AvailableAt
    <3>2. p # path
      BY <1>2, <2>1, <2>3
    <3> QED
      BY <1>3, <1>5, <2>1, <2>3, <3>1, <3>2 DEF WalkOnceInv
  <2> QED
    BY <2>2, <2>3
<1> QED
  BY <1>4, <1>5 DEF LookedUp

LEMMA DuplicateIsFound ==
  ASSUME WholeInv, NEW i \in todo, IsNext(i), InReach(i), Candidate(i),
         NEW j \in Instrs, Candidate(j), Avail(j, i), SameExpression(instr[i], instr[j])
  PROVE  MustFind(i)
<1>1. j \in InTable /\ i \in Instrs
  BY AvailableIsInTable DEF WholeInv, Candidate, IInv, TypeOK
<1>2. IsEqual(instr[i], instr[j])
  BY <1>1 DEF WholeInv, IInv, LeadersInv, Candidate, IsEqual, IsBinaryOp, SameExpression
<1> QED
  BY <1>1, <1>2 DEF MustFind

\* Replacing what is being looked up changes nothing that has been: its operands
\* are available.
LEMMA LookedUpKeeps ==
  ASSUME WholeInv, NEW i \in todo, NEW y \in Instrs, Replace(i, y),
         NEW k \in Instrs, Candidate(k), InReach(k), LookedUp(k)
  PROVE  instr'[k].op = instr[k].op /\ instr'[k].lhs = instr[k].lhs /\ instr'[k].rhs = instr[k].rhs
<1> USE DEF WholeInv
<1>1. i \in Instrs /\ instr[k] \in Instructions
  BY DEF IInv, TypeOK
<1>2. ASSUME i \in {instr[k].lhs, instr[k].rhs}
      PROVE  FALSE
  <2>1. Live(k) /\ IsBinaryOp(instr[k])
    BY DEF Candidate, IInv, LeadersInv, IsBinaryOp
  <2>2. UsesStayDefined
    BY UsesDefined
  <2>3. Live(i) /\ Avail(i, k)
    BY <1>1, <1>2, <2>1, <2>2 DEF UsesStayDefined, Avail, InReach
  <2>4. LookedUp(i)
    BY <1>1, <2>1, <2>3, LookedUpBehind
  <2> QED
    BY <2>4 DEF LookedUp
<1>3. instr'[k] = [instr[k] EXCEPT !.lhs = Replaced(@, i, y), !.rhs = Replaced(@, i, y)]
  BY DEF Replace
<1> QED
  BY <1>1, <1>2, <1>3 DEF Replaced, Instructions

LEMMA NoDuplicatesStep ==
  ASSUME WholeInv, [Next]_vars
  PROVE  NoDuplicates'
<1>0. IInv /\ NoDuplicates /\ g \in Functions /\ todo \subseteq Instrs
  BY DEF WholeInv, IInv, TypeOK
<1>1. SUFFICES ASSUME NEW k \in Instrs, NEW j \in Instrs,
                      Candidate(k)', Candidate(j)', k # j, InReach(k), LookedUp(k)',
                      Avail(j, k), SameExpression(instr'[k], instr'[j])
               PROVE  FALSE
  <2>1. g' = g
    BY DEF Next, Run, Returned, vars, Replace, Insert, Descend, Ascend
  <2>2. QED
    BY <1>1, <2>1, SameFunction DEF NoDuplicates
<1>2. ASSUME LookedUp(k), Candidate(k), Candidate(j), SameExpression(instr[k], instr[j])
      PROVE  FALSE
  BY <1>0, <1>1, <1>2 DEF NoDuplicates
<1>3. CASE UNCHANGED vars
  BY <1>1, <1>2, <1>3 DEF vars, LookedUp, Candidate, Live
<1>4. ASSUME NEW i \in todo, NEW y \in Instrs, Replace(i, y)
      PROVE  FALSE
  <2>1. y \in InTable /\ i \in Instrs
    BY <1>0, <1>4 DEF Replace, Found
  <2>2. y # i /\ Live(i) /\ Live(y)
    BY <1>0, <2>1, FoundIsAvailable
  <2>3. /\ \A m \in Instrs : leader'[m] = IF leader[m] = i THEN y ELSE leader[m]
        /\ g' = g /\ todo' = todo \ {i} /\ visited' = visited
    BY <1>4 DEF Replace, Replaced
  <2>4. \A m \in Instrs : Live(m)' => Live(m) /\ m # i
    BY <2>1, <2>2, <2>3 DEF Live
  <2>5. Candidate(k) /\ Candidate(j) /\ LookedUp(k)
    BY <1>1, <2>3, <2>4 DEF Candidate, LookedUp
  <2>6. LookedUp(j) /\ InReach(j)
    <3>1. LookedUp(j)
      BY <1>1, <2>5, LookedUpBehind DEF WholeInv, Candidate
    <3>2. g.succ \in CFGs /\ g.block[j] \in Blocks
      BY <1>0, GivenFunction
    <3> QED
      BY <1>1, <3>1, <3>2, DominatorIsReachable DEF Avail, AvailableAt, InReach
  <2>7. SameExpression(instr[k], instr[j])
    <3>1. instr'[k].op = instr[k].op /\ instr'[k].lhs = instr[k].lhs /\ instr'[k].rhs = instr[k].rhs
      BY <1>1, <1>4, <2>5, LookedUpKeeps
    <3>2. instr'[j].op = instr[j].op /\ instr'[j].lhs = instr[j].lhs /\ instr'[j].rhs = instr[j].rhs
      BY <1>4, <2>5, <2>6, LookedUpKeeps
    <3> QED
      BY <1>1, <3>1, <3>2 DEF SameExpression, IsCommutative
  <2> QED
    BY <1>2, <2>5, <2>7
<1>5. ASSUME NEW i \in todo, Insert(i)
      PROVE  FALSE
  <2>1. /\ g' = g /\ todo' = todo \ {i} /\ visited' = visited /\ leader' = leader /\ instr' = instr
        /\ IsNext(i) /\ ~MustFind(i)
    BY <1>5 DEF Insert
  <2>2. Candidate(k) /\ Candidate(j)
    BY <1>1, <2>1 DEF Candidate, Live
  <2>3. CASE k = i
    BY <1>1, <2>1, <2>2, <2>3, DuplicateIsFound
  <2>4. CASE k # i
    <3>1. LookedUp(k)
      BY <1>1, <2>1, <2>4 DEF LookedUp
    <3>2. QED
      BY <1>1, <1>2, <2>1, <2>2, <3>1
  <2>5. QED
    BY <2>3, <2>4
<1>6. ASSUME NEW c \in Blocks, Descend(c)
      PROVE  FALSE
  <2>1. /\ g' = g /\ leader' = leader /\ visited' = visited \cup {path'} /\ todo = {}
        /\ todo' = InstrsIn(c) /\ path' = Append(path, c) /\ instr' = instr
    BY <1>6 DEF Descend, ChildLeft
  <2>2. Candidate(k) /\ Candidate(j)
    BY <1>1, <2>1 DEF Candidate, Live
  <2>3. Last(path') = c
    BY <1>0, <2>1, AppendProperties DEF IInv, TypeOK, Last
  <2>4. g.block[k] # c
    BY <1>1, <2>1, <2>2 DEF LookedUp, InstrsIn, Candidate
  <2>5. LookedUp(k)
    BY <1>1, <2>1, <2>3, <2>4 DEF LookedUp
  <2>6. QED
    BY <1>1, <1>2, <2>1, <2>2, <2>5
<1>7. CASE Ascend
  <2>1. g' = g /\ leader' = leader /\ visited' = visited /\ todo' = todo /\ instr' = instr
    BY <1>7 DEF Ascend
  <2>2. QED
    BY <1>1, <1>2, <2>1 DEF LookedUp, Candidate, Live
<1>8. QED
  BY <1>3, <1>4, <1>5, <1>6, <1>7 DEF Next, Run, Returned

\* When the walk is over, it has come to every reachable instruction.
LEMMA DoneIsEverywhere ==
  ASSUME WholeInv, Done, NEW i \in Instrs, InReach(i)
  PROVE  LookedUp(i)
<1> USE DEF WholeInv
<1>1. g \in Functions /\ g.succ \in CFGs /\ tree = TreeEdges(g.succ) /\ path = << >>
  BY GivenFunction DEF IInv, TypeOK, Done
<1> DEFINE T == {Last(p) : p \in visited}
<1>3. Entry \in T
  <2>1. Last(<<Entry>>) = Entry
    BY DEF Last
  <2>2. QED
    BY <2>1 DEF WalkInv
<1>4. ASSUME NEW a \in T, NEW c \in Blocks, <<a, c>> \in TreeEdges(g.succ)
      PROVE  c \in T
  <2>1. PICK p \in visited : Last(p) = a
    OBVIOUS
  <2>2. p \in Seq(Blocks) /\ p # << >> /\ ~OnPath(p)
    BY <1>1, <2>1, EmptySeq DEF WalkInv, OnPath
  <2>3. Append(p, c) \in visited
    BY <1>1, <1>4, <2>1, <2>2 DEF WalkInv
  <2>4. Last(Append(p, c)) = c
    BY <2>2, AppendProperties DEF Last
  <2>5. QED
    BY <2>3, <2>4
<1>5. Reachable(g.succ) \subseteq T
  <2> HIDE DEF T
  <2>1. QED
    BY <1>1, <1>3, <1>4, TreeReachesAll
<1>6. todo = {}
  BY <1>1 DEF IInv, ScopesInv
<1> QED
  BY <1>5, <1>6 DEF LookedUp, InReach

\* Control comes to both, and to one on the way to the other.
OnOneWay(u, x) == InReach(u) /\ InReach(x) /\ (u = x \/ Avail(u, x) \/ Avail(x, u))

\* What has taken the place of two such instructions is on one way too.
LEMMA LeadersOnOneWay ==
  ASSUME IInv, NEW u \in Instrs, NEW x \in Instrs, OnOneWay(u, x)
  PROVE  OnOneWay(leader[u], leader[x])
<1>1. g \in Functions /\ leader[u] \in Instrs /\ leader[x] \in Instrs
  BY DEF IInv, TypeOK
<1>2. \A k \in Instrs : InReach(k) => leader[k] = k \/ Avail(leader[k], k)
  BY DEF IInv, LeadersAvailable, Live
<1>3. ASSUME NEW a \in Instrs, NEW b \in Instrs, a = b \/ Avail(a, b), InReach(a), InReach(b)
      PROVE  OnOneWay(leader[a], leader[b])
  <2>1. leader[a] \in Instrs /\ leader[b] \in Instrs
    BY DEF IInv, TypeOK
  <2>2. leader[a] = b \/ Avail(leader[a], b)
    BY <1>1, <1>2, <1>3, <2>1, AvailTransitive
  <2>3. leader[b] = b \/ Avail(leader[b], b)
    BY <1>2, <1>3
  <2>4. \A k \in Instrs : Avail(k, b) => InReach(k)
    <3>1. g.succ \in CFGs /\ \A k \in Instrs : g.block[k] \in Blocks
      BY <1>1, GivenFunction
    <3> QED
      BY <1>3, <3>1, DominatorIsReachable DEF Avail, AvailableAt, InReach
  <2>5. CASE leader[a] = b \/ leader[b] = b
    BY <1>3, <2>1, <2>2, <2>3, <2>4, <2>5 DEF OnOneWay
  <2>6. CASE leader[a] # b /\ leader[b] # b
    <3>1. Avail(leader[a], b) /\ Avail(leader[b], b)
      BY <2>2, <2>3, <2>6
    <3> QED
      BY <1>1, <1>3, <2>1, <2>4, <3>1, AvailableAreAChain DEF OnOneWay
  <2> QED
    BY <2>5, <2>6
<1> QED
  BY <1>3 DEF OnOneWay

\* When the walk is over, reachable instructions of one value have been replaced
\* by one, where one is on the way to the other and neither is affected.  A pair
\* that has not has operands of one value that have not, and so on down.
LEMMA OneNumberOneLeader ==
  ASSUME WholeInv, Done, NEW num, num = Numbers(g),
         NEW i \in Instrs \ Affected, NEW j \in Instrs \ Affected,
         num[i] = num[j], OnOneWay(i, j)
  PROVE  leader[i] = leader[j]
<1> DEFINE Apart(a, b) == /\ b \notin Affected /\ num[a] = num[b] /\ OnOneWay(a, b)
                          /\ leader[a] # leader[b]
           Wrong == {a \in Instrs \ Affected : \E b \in 1..a : Apart(a, b)}
<1> USE DEF WholeInv
<1>1. /\ Instrs = 1..N /\ N \in Nat /\ Args \cap Instrs = {}
      /\ g \in Functions /\ WellFormed(g) /\ leader \in [Instrs -> Instrs]
  BY ArgsAssumption, FunctionsAssumption DEF Instrs, IInv, TypeOK
<1>2. SUFFICES Wrong = {}
  <2>1. i \in 1..j \/ j \in 1..i
    BY <1>1
  <2>2. OnOneWay(j, i)
    BY DEF OnOneWay
  <2> QED
    BY <1>2, <2>1, <2>2
<1>3. SUFFICES ASSUME Wrong # {} PROVE FALSE
  OBVIOUS
<1>4. PICK a \in Wrong : \A b \in Wrong : a <= b
  <2>1. Wrong \in SUBSET Nat
    BY <1>1
  <2> HIDE DEF Wrong
  <2> QED
    BY <1>3, <2>1, LeastNatural
<1>5. PICK b \in 1..a : Apart(a, b)
  BY <1>4
<1>6. a \in Instrs \ Affected /\ b \in Instrs \ Affected /\ a # b /\ b < a
  <2>1. a \in Instrs \ Affected /\ a \in 1..N
    BY <1>1, <1>4
  <2>2. b \notin Affected /\ leader[a] # leader[b]
    BY <1>5
  <2>3. a # b
    BY <2>2
  <2> HIDE DEF Wrong, Apart
  <2>4. b \in Instrs /\ b < a
    BY <1>1, <2>1, <2>3
  <2> QED
    BY <2>1, <2>2, <2>3, <2>4
<1>7. IsEqual(g.instr[a], g.instr[b]) /\ SameUnder(num, g.instr[a], g.instr[b])
  BY <1>1, <1>5, <1>6, OneNumberMeansTwins
<1>8. IsBinaryOp(g.instr[a]) /\ IsBinaryOp(g.instr[b])
  BY <1>7 DEF IsEqual
<1>9. ASSUME NEW v \in {g.instr[a].lhs, g.instr[a].rhs},
             NEW w \in {g.instr[b].lhs, g.instr[b].rhs}, Of(num, v) = Of(num, w)
      PROVE  Now(v) = Now(w)
  <2>1. v \in 1..(a - 1) \cup Args /\ w \in 1..(b - 1) \cup Args
    BY <1>1, <1>6, <1>8 DEF WellFormed
  <2>2. CASE v \in Args \/ w \in Args
    <3>1. \A x \in Instrs : num[x] \notin Args
      BY <1>1, NumberIsATwin
    <3>2. v = w
      BY <1>1, <1>6, <1>9, <2>1, <2>2, <3>1 DEF Of
    <3> QED
      BY <3>2
  <2>3. CASE v \in 1..(a - 1) /\ w \in 1..(b - 1)
    <3>1. v \in Instrs \ Affected /\ w \in Instrs \ Affected
      <4>1. v \in Instrs /\ w \in Instrs
        BY <1>1, <1>6, <2>3
      <4> QED
        BY <1>6, <1>8, <4>1, AffectedIsClosed
    <3>2. v \notin Wrong /\ w \notin Wrong
      <4> HIDE DEF Wrong, Apart
      <4>1. a \in Nat /\ b \in Nat
        BY <1>1, <1>6
      <4> QED
        BY <1>4, <1>6, <2>3, <4>1
    <3>3. num[v] = num[w]
      BY <1>9, <3>1 DEF Of
    <3>4. Avail(v, a) /\ InReach(v) /\ Avail(w, b) /\ InReach(w)
      BY <1>1, <1>5, <1>6, <1>8, <3>1, OperandsAvailable DEF OnOneWay
    <3>5. OnOneWay(v, w) /\ OnOneWay(w, v)
      <4>1. CASE Avail(a, b)
        <5>1. Avail(v, b)
          BY <1>1, <1>5, <1>6, <3>1, <3>4, <4>1, AvailTransitive DEF OnOneWay
        <5> QED
          BY <1>1, <1>5, <1>6, <3>1, <3>4, <5>1, AvailableAreAChain DEF OnOneWay
      <4>2. CASE Avail(b, a)
        <5>1. Avail(w, a)
          BY <1>1, <1>5, <1>6, <3>1, <3>4, <4>2, AvailTransitive DEF OnOneWay
        <5> QED
          BY <1>1, <1>5, <1>6, <3>1, <3>4, <5>1, AvailableAreAChain DEF OnOneWay
      <4> QED
        BY <1>5, <1>6, <4>1, <4>2 DEF OnOneWay
    <3>6. v \in 1..w \/ w \in 1..v
      BY <1>1, <3>1
    <3>7. leader[v] = leader[w]
      BY <3>1, <3>2, <3>3, <3>5, <3>6
    <3> QED
      BY <3>1, <3>7 DEF Now
  <2> QED
    BY <2>1, <2>2, <2>3
<1>10. /\ instr[a].op = g.instr[a].op /\ instr[b].op = g.instr[b].op
       /\ instr[a].lhs = Now(g.instr[a].lhs) /\ instr[a].rhs = Now(g.instr[a].rhs)
       /\ instr[b].lhs = Now(g.instr[b].lhs) /\ instr[b].rhs = Now(g.instr[b].rhs)
  BY <1>6 DEF IInv, LeadersInv
<1>11. leader[a] # leader[b] /\ OnOneWay(a, b)
  BY <1>5
<1> HIDE DEF Wrong, Apart
<1>12. SameExpression(instr[a], instr[b])
  BY <1>7, <1>9, <1>10 DEF IsEqual, SameUnder, SameExpression, IsCommutative
<1> DEFINE u == leader[a]
           x == leader[b]
<1>13. u \in Instrs /\ x \in Instrs /\ Live(u) /\ Live(x) /\ OnOneWay(u, x)
  BY <1>1, <1>6, <1>11, LeadersOnOneWay DEF IInv, LeadersInv
<1>14. SameExpression(instr[u], instr[x]) /\ SameExpression(instr[x], instr[u])
  <2>1. SameExpression(instr[u], instr[a]) /\ SameExpression(instr[x], instr[b])
    BY <1>6, AffectedIsClosed, LikeItsLeader
  <2> QED
    BY <1>12, <2>1, OneExpression
<1>15. Candidate(u) /\ Candidate(x)
  <2>1. instr[u].op = instr[a].op /\ instr[x].op = instr[b].op
    BY <1>6, AffectedIsClosed, LikeItsLeader DEF SameExpression
  <2> QED
    BY <1>8, <1>10, <1>13, <2>1 DEF Candidate, IInv, LeadersInv, IsBinaryOp
<1>16. LookedUp(u) /\ LookedUp(x)
  BY <1>13, DoneIsEverywhere DEF OnOneWay
<1> HIDE DEF u, x
<1>17. u # x
  BY <1>11 DEF u, x
<1> QED
  BY <1>13, <1>14, <1>15, <1>16, <1>17 DEF NoDuplicates, OnOneWay

LEMMA DoneMeansNoneLeft == WholeInv => NoneLeftToEliminate
<1> SUFFICES ASSUME WholeInv, Done, NEW i \in Instrs, NEW j \in Instrs,
                    Live(i), IsBinaryOp(instr[i]), InReach(i),
                    Live(j), IsBinaryOp(instr[j]), InReach(j), i # j, Avail(j, i)
             PROVE  /\ ~SameExpression(instr[i], instr[j])
                    /\ {i, j} \subseteq Instrs \ Affected => ValueNumber[i] # ValueNumber[j]
  BY DEF NoneLeftToEliminate, Avail, InReach
<1>1. Candidate(i) /\ Candidate(j)
  BY DEF WholeInv, Candidate, IInv, LeadersInv, IsBinaryOp
<1>2. ~SameExpression(instr[i], instr[j])
  BY <1>1, DoneIsEverywhere DEF WholeInv, NoDuplicates
<1>3. ASSUME {i, j} \subseteq Instrs \ Affected, ValueNumber[i] = ValueNumber[j]
      PROVE  FALSE
  <2>1. leader[i] = leader[j]
    BY <1>3, OneNumberOneLeader, ValueNumberIsNumbers DEF OnOneWay
  <2> QED
    BY <2>1 DEF Live
<1> QED
  BY <1>2, <1>3

\* One walk is enough, in every function and with every hash table: when it is
\* over, no reachable operator is left whose expression an available one has,
\* nor one whose value an available one computes, but for what is computed from
\* an instruction that isEqual has taken for another expression.
THEOREM LeavesNoneToEliminate == Spec => []NoneLeftToEliminate
<1>1. Init => WholeInv
  BY InitInv, InitLike, InitWalk DEF WholeInv
<1>2. WholeInv /\ [Next]_vars => WholeInv'
  <2> SUFFICES ASSUME WholeInv, [Next]_vars PROVE WholeInv'
    OBVIOUS
  <2>1. IInv' /\ LikeInv' /\ WalkInv'
    BY NextInv, NextLike, WalkStep DEF WholeInv
  <2>2. TableInv'
    BY <2>1, TableStep DEF WholeInv
  <2> QED
    BY <2>1, <2>2, WalkOnceStep, NoDuplicatesStep DEF WholeInv
<1>3. QED
  BY <1>1, <1>2, DoneMeansNoneLeft, PTL DEF Spec

==============================================================================
