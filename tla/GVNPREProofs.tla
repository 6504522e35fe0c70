----------------------------- MODULE GVNPREProofs -----------------------------
(****************************************************************************)
(* Proofs about GVNPRE.cpp, for every set of blocks and every function.     *)
(*                                                                          *)
(* CriticalEdges: removeCriticalEdges leaves control where it went, keeps   *)
(* phis and use lists in step with the edges, and splits one critical edge  *)
(* into every block that has one, however the layout and the use lists are  *)
(* ordered.                                                                 *)
(*                                                                          *)
(* GVNPRE: no instruction is replaced with a leader that was erased, where  *)
(* joins compute last and hashes tell expressions apart.                    *)
(****************************************************************************)
EXTENDS CriticalEdges, GVNPRE, DominanceTheorems, SequenceTheorems

TypeOK ==
  /\ f \in Functions
  /\ phase \in {"blocks", "predecessors", "returned"}
  /\ succ \in [Blocks -> SUBSET Uses]
  /\ uses \in [Blocks -> Seq(Uses)]
  /\ phiFrom \in [Blocks -> SUBSET Uses]
  /\ rest \in Seq(Blocks)
  /\ BB \in Blocks
  /\ iter \in Seq(Uses)

\* Each edge is either as it was or split, and none is both.
EdgesOnce ==
  \A p \in Blocks :
    /\ \A u \in succ[p] : u.from = p /\ u.to \in f.succ[p]
    /\ \A b \in f.succ[p] : (Use(p, b) \in succ[p]) # (NewUse(p, b) \in succ[p])
    /\ Cardinality(succ[p]) = Cardinality(f.succ[p])

\* No edge to b has been split.
Unsplit(b) == \A p \in Preds(f.succ, b) : Use(p, b) \in succ[p]

\* The blocks ahead of the outer loop are as they were, and each comes once.
Ahead ==
  /\ \A j, k \in 1..Len(rest) : rest[j] = rest[k] => j = k
  /\ \A b \in ToSet(rest) : uses[b] = f.uses[b] /\ Unsplit(b)
  /\ phase = "predecessors" => BB \notin ToSet(rest)

\* How many uses of BB the iterator has gone past.
Passed == Len(f.uses[BB]) - Len(iter)

\* The iterator goes over the list as it was, until an edge is split; those it
\* has gone past had no other successor.
AtHand ==
  phase = "predecessors" =>
    /\ Len(f.uses[BB]) > 1
    /\ Len(iter) <= Len(f.uses[BB])
    /\ iter # << >> => Len(iter) <= Len(uses[BB])
    /\ \A k \in 1..Len(iter) : iter[k] = f.uses[BB][Passed + k]
    /\ iter # << >> =>
         /\ Unsplit(BB)
         /\ ~BehindSwitch(BB) =>
              /\ uses[BB] = f.uses[BB]
              /\ \A k \in 1..Passed : f.uses[BB][k].from \notin CriticalIn(f.succ, BB)

\* The iterator stands on a use of b.
Iterating(b) == phase = "predecessors" /\ b = BB /\ iter # << >>

\* A block behind the outer loop has lost one critical edge, if it had any.
Behind ==
  \A b \in Blocks \ ToSet(rest) :
    ~Iterating(b) /\ ~BehindSwitch(b) /\ CriticalIn(f.succ, b) # {} =>
      \E p \in CriticalIn(f.succ, b) : CriticalNow(b) = CriticalIn(f.succ, b) \ {p}

\* Only a critical edge gets a block in between.
OnlyCritical ==
  \A b, p \in Blocks :
    NewUse(p, b) \in phiFrom[b] \cup ToSet(uses[b]) => p \in CriticalIn(f.succ, b)

IInv == TypeOK /\ EdgesOnce /\ Ahead /\ AtHand /\ Behind /\ OnlyCritical /\ PhisListPredecessors

------------------------------------------------------------------------------
(* Sequences *)

\* A sequence as long as the set of what it holds is large has nothing twice.
LEMMA NothingTwice ==
  ASSUME NEW S, NEW s \in Seq(S), NEW T, NEW F \in [S -> T],
         Len(s) = Cardinality({F[x] : x \in ToSet(s)})
  PROVE  \A j, k \in 1..Len(s) : s[j] = s[k] => j = k
<1> DEFINE R == {F[x] : x \in ToSet(s)}
           h == [k \in 1..Len(s) |-> F[s[k]]]
<1>1. Len(s) \in Nat
  BY LenProperties
<1>2. IsFiniteSet(1..Len(s)) /\ Cardinality(1..Len(s)) = Len(s)
  BY <1>1, FS_Interval
<1>3. \A k \in 1..Len(s) : s[k] \in ToSet(s)
  BY Elements
<1>4. \A x \in ToSet(s) : \E k \in 1..Len(s) : s[k] = x
  BY Elements
<1>5. h \in [1..Len(s) -> R]
  BY <1>3
<1>6. ASSUME NEW r \in R PROVE \E k \in 1..Len(s) : h[k] = r
  <2>1. PICK x \in ToSet(s) : r = F[x]
    OBVIOUS
  <2>2. PICK k \in 1..Len(s) : s[k] = x
    BY <1>4
  <2> QED
    BY <2>1, <2>2
<1>7. h \in Surjection(1..Len(s), R)
  BY <1>5, <1>6 DEF Surjection
<1>8. Len(s) = Cardinality(R)
  OBVIOUS
<1> HIDE DEF R, h
<1>9. h \in Injection(1..Len(s), R)
  BY <1>2, <1>7, <1>8, FS_Surjection
<1>10. \A j, k \in 1..Len(s) : h[j] = h[k] => j = k
  BY <1>9, <1>5 DEF Injection, IsInjective
<1> QED
  BY <1>10 DEF h

\* Putting one in front of a sequence.
LEMMA PutInFront ==
  ASSUME NEW S, NEW s \in Seq(S), NEW x \in S
  PROVE  /\ <<x>> \o s \in Seq(S)
         /\ Len(<<x>> \o s) = Len(s) + 1
         /\ ToSet(<<x>> \o s) = {x} \cup ToSet(s)
<1>1. <<x>> \in Seq(S) /\ Len(<<x>>) = 1 /\ <<x>>[1] = x /\ Len(s) \in Nat
  BY LenProperties
<1> DEFINE r == <<x>>
<1>2. r \in Seq(S) /\ Len(r) = 1 /\ r[1] = x
  BY <1>1
<1> HIDE DEF r
<1> DEFINE t == r \o s
<1>3. /\ t \in Seq(S)
      /\ Len(t) = 1 + Len(s)
      /\ \A i \in 1..1 + Len(s) : t[i] = IF i <= 1 THEN r[i] ELSE s[i - 1]
  <2>1. /\ r \o s \in Seq(S)
        /\ Len(r \o s) = Len(r) + Len(s)
        /\ \A i \in 1..Len(r) + Len(s) : (r \o s)[i] = IF i <= Len(r) THEN r[i] ELSE s[i - Len(r)]
    BY <1>2, ConcatProperties
  <2> QED
    BY <2>1, <1>2
<1> HIDE DEF t
<1>4. DOMAIN t = 1..(Len(s) + 1) /\ DOMAIN s = 1..Len(s)
  BY <1>1, <1>3, LenProperties
<1>5. ToSet(t) = {t[i] : i \in 1..(Len(s) + 1)} /\ ToSet(s) = {s[i] : i \in 1..Len(s)}
  BY <1>4 DEF ToSet
<1>6. t[1] = x
  BY <1>1, <1>2, <1>3
<1>7. \A i \in 1..Len(s) : i + 1 \in 1..(Len(s) + 1) /\ t[i + 1] = s[i]
  BY <1>1, <1>3
<1>8. \A i \in 1..(Len(s) + 1) : i = 1 \/ (i - 1 \in 1..Len(s) /\ t[i] = s[i - 1])
  BY <1>1, <1>3
<1>9. 1 \in 1..(Len(s) + 1)
  BY <1>1
<1>10. ToSet(t) = {x} \cup ToSet(s)
  <2>1. x \in ToSet(t)
    BY <1>5, <1>6, <1>9
  <2>2. ASSUME NEW y \in ToSet(s) PROVE y \in ToSet(t)
    <3>1. PICK i \in 1..Len(s) : y = s[i]
      BY <1>5
    <3> QED
      BY <3>1, <1>5, <1>7
  <2>3. ASSUME NEW y \in ToSet(t) PROVE y \in {x} \cup ToSet(s)
    <3>1. PICK i \in 1..(Len(s) + 1) : y = t[i]
      BY <1>5
    <3> QED
      BY <3>1, <1>5, <1>6, <1>8
  <2> QED
    BY <2>1, <2>2, <2>3
<1> QED
  BY <1>1, <1>3, <1>10 DEF r, t

------------------------------------------------------------------------------
(* Functions *)

\* A use says which blocks it is between.
LEMMA Fields ==
  ASSUME NEW p, NEW b
  PROVE  /\ Use(p, b).from = p /\ Use(p, b).to = b /\ Use(p, b).new = FALSE
         /\ NewUse(p, b).from = p /\ NewUse(p, b).to = b /\ NewUse(p, b).new = TRUE
         /\ p \in Blocks /\ b \in Blocks => Use(p, b) \in Uses /\ NewUse(p, b) \in Uses
         /\ Use(p, b) # NewUse(p, b)
         /\ \A q, c : Use(p, b) = Use(q, c) \/ NewUse(p, b) = NewUse(q, c) => p = q /\ b = c
         /\ \A q, c : Use(p, b) # NewUse(q, c)
BY DEF Use, NewUse, Uses

\* There is no use but these.
LEMMA EveryUse ==
  ASSUME NEW u \in Uses
  PROVE  /\ u.from \in Blocks /\ u.to \in Blocks
         /\ u = Use(u.from, u.to) \/ u = NewUse(u.from, u.to)
BY DEF Use, NewUse, Uses

\* A function as the pass gets it: its use lists have each predecessor once, and
\* its layout each block.
LEMMA GivenFunction ==
  ASSUME f \in Functions
  PROVE  /\ f.succ \in [Blocks -> SUBSET Blocks]
         /\ f.uses \in [Blocks -> Seq(Uses)]
         /\ f.layout \in Seq(Blocks) /\ ToSet(f.layout) = Blocks
         /\ \A j, k \in 1..Len(f.layout) : f.layout[j] = f.layout[k] => j = k
<1>1. WellFormed(f)
  BY FunctionsAssumption
<1>2. f.layout \in Seq(Blocks) /\ ToSet(f.layout) = Blocks /\ Len(f.layout) = Cardinality(Blocks)
  BY <1>1 DEF WellFormed
<1> DEFINE F == [b \in Blocks |-> b]
<1>3. {F[x] : x \in ToSet(f.layout)} = Blocks
  BY <1>2
<1>4. F \in [Blocks -> Blocks]
  OBVIOUS
<1> HIDE DEF F
<1>5. \A j, k \in 1..Len(f.layout) : f.layout[j] = f.layout[k] => j = k
  BY <1>2, <1>3, <1>4, NothingTwice
<1> QED
  BY <1>1, <1>2, <1>5 DEF WellFormed, CFGs, NonEntry

LEMMA GivenUses ==
  ASSUME f \in Functions, NEW b \in Blocks
  PROVE  /\ f.uses[b] \in Seq(Uses)
         /\ Len(f.uses[b]) = Cardinality(Preds(f.succ, b))
         /\ ToSet(f.uses[b]) = {Use(p, b) : p \in Preds(f.succ, b)}
         /\ \A k \in 1..Len(f.uses[b]) :
              /\ f.uses[b][k].from \in Preds(f.succ, b)
              /\ f.uses[b][k] = Use(f.uses[b][k].from, b)
         /\ \A p \in Preds(f.succ, b) : \E k \in 1..Len(f.uses[b]) : f.uses[b][k] = Use(p, b)
         /\ \A j, k \in 1..Len(f.uses[b]) : f.uses[b][j] = f.uses[b][k] => j = k
<1>1. WellFormed(f)
  BY FunctionsAssumption
<1>2. /\ f.uses[b] \in Seq(Uses)
      /\ Len(f.uses[b]) = Cardinality(Preds(f.succ, b))
      /\ ToSet(f.uses[b]) = {Use(p, b) : p \in Preds(f.succ, b)}
  BY <1>1 DEF WellFormed
<1>3. Preds(f.succ, b) \subseteq Blocks
  BY DEF Preds
<1>4. \A k \in 1..Len(f.uses[b]) : f.uses[b][k] \in {Use(p, b) : p \in Preds(f.succ, b)}
  BY <1>2, Elements
<1>5. \A k \in 1..Len(f.uses[b]) :
        /\ f.uses[b][k].from \in Preds(f.succ, b)
        /\ f.uses[b][k] = Use(f.uses[b][k].from, b)
  <2> TAKE k \in 1..Len(f.uses[b])
  <2>1. PICK p \in Preds(f.succ, b) : f.uses[b][k] = Use(p, b)
    BY <1>4
  <2>2. f.uses[b][k].from = p
    BY <2>1 DEF Use
  <2> QED
    BY <2>1, <2>2
<1>6. \A p \in Preds(f.succ, b) : \E k \in 1..Len(f.uses[b]) : f.uses[b][k] = Use(p, b)
  <2> TAKE p \in Preds(f.succ, b)
  <2>1. Use(p, b) \in ToSet(f.uses[b])
    BY <1>2
  <2> QED
    BY <1>2, <2>1, Elements
<1> DEFINE F == [u \in Uses |-> u.from]
<1>7. F \in [Uses -> Blocks]
  BY DEF Uses
<1>8. {F[x] : x \in ToSet(f.uses[b])} = Preds(f.succ, b)
  <2>1. \A p \in Preds(f.succ, b) : F[Use(p, b)] = p
    BY <1>3, Fields
  <2> HIDE DEF F
  <2>2. ASSUME NEW p \in Preds(f.succ, b)
        PROVE  p \in {F[x] : x \in ToSet(f.uses[b])}
    BY <1>2, <2>1
  <2>3. ASSUME NEW x \in ToSet(f.uses[b])
        PROVE  F[x] \in Preds(f.succ, b)
    BY <1>2, <2>1
  <2> QED
    BY <2>2, <2>3
<1> HIDE DEF F
<1>9. \A j, k \in 1..Len(f.uses[b]) : f.uses[b][j] = f.uses[b][k] => j = k
  BY <1>2, <1>7, <1>8, NothingTwice
<1> QED
  BY <1>2, <1>5, <1>6, <1>9

\* Everything about a block is finite.
LEMMA FewNeighbours ==
  ASSUME f \in Functions, NEW b \in Blocks
  PROVE  /\ IsFiniteSet(f.succ[b]) /\ Cardinality(f.succ[b]) \in Nat
         /\ IsFiniteSet(Preds(f.succ, b)) /\ Cardinality(Preds(f.succ, b)) \in Nat
         /\ IsFiniteSet(CriticalIn(f.succ, b)) /\ CriticalIn(f.succ, b) \subseteq Preds(f.succ, b)
<1>1. f.succ[b] \subseteq Blocks /\ Preds(f.succ, b) \subseteq Blocks
  BY GivenFunction DEF Preds
<1>2. CriticalIn(f.succ, b) \subseteq Preds(f.succ, b)
  BY DEF CriticalIn
<1> QED
  BY <1>1, <1>2, BlocksAssumption, FS_Subset, FS_CardinalityType

\* There are finitely many uses.
LEMMA FewUses == IsFiniteSet(Uses)
<1> DEFINE R == (Blocks \X Blocks) \X BOOLEAN
           h == [x \in R |-> [from |-> x[1][1], to |-> x[1][2], new |-> x[2]]]
<1>1. IsFiniteSet(Blocks \X Blocks)
  BY BlocksAssumption, FS_Product
<1>2. IsFiniteSet(BOOLEAN)
  <2>1. BOOLEAN = ({} \cup {TRUE}) \cup {FALSE}
    OBVIOUS
  <2>2. IsFiniteSet({} \cup {TRUE})
    BY FS_EmptySet, FS_AddElement
  <2> QED
    BY <2>1, <2>2, FS_AddElement
<1>3. IsFiniteSet(R)
  BY <1>1, <1>2, FS_Product
<1>4. h \in [R -> Uses]
  BY DEF Uses
<1>5. \A u \in Uses : \E x \in R : h[x] = u
  <2> TAKE u \in Uses
  <2>1. u = [from |-> u.from, to |-> u.to, new |-> u.new]
        /\ u.from \in Blocks /\ u.to \in Blocks /\ u.new \in BOOLEAN
    BY DEF Uses
  <2>2. <<<<u.from, u.to>>, u.new>> \in R
    BY <2>1
  <2>3. h[<<<<u.from, u.to>>, u.new>>] = [from |-> u.from, to |-> u.to, new |-> u.new]
    BY <2>2
  <2> QED
    BY <2>1, <2>2, <2>3
<1>6. h \in Surjection(R, Uses)
  BY <1>4, <1>5 DEF Surjection
<1> HIDE DEF R, h
<1> QED
  BY <1>3, <1>6, FS_Surjection

\* What is critical, by the lengths of the lists.
LEMMA CriticalMeans ==
  ASSUME f \in Functions, NEW b \in Blocks, NEW p
  PROVE  p \in CriticalIn(f.succ, b) <=>
           /\ p \in Preds(f.succ, b)
           /\ Cardinality(f.succ[p]) > 1
           /\ Len(f.uses[b]) > 1
BY GivenUses DEF CriticalIn

\* A block has as many edges as targets.
LEMMA AsManyEdges ==
  ASSUME NEW p, NEW T, IsFiniteSet(T)
  PROVE  /\ IsFiniteSet({Use(p, b) : b \in T})
         /\ Cardinality({Use(p, b) : b \in T}) = Cardinality(T)
<1> DEFINE R == {Use(p, b) : b \in T}
           h == [b \in T |-> Use(p, b)]
<1>1. h \in [T -> R]
  OBVIOUS
<1>2. \A b, c \in T : h[b] = h[c] => b = c
  BY DEF Use
<1>3. \A r \in R : \E b \in T : h[b] = r
  OBVIOUS
<1>4. h \in Bijection(T, R)
  BY <1>1, <1>2, <1>3 DEF Bijection, Injection, Surjection, IsInjective
<1> HIDE DEF h, R
<1>5. ExistsBijection(T, R)
  BY <1>4 DEF ExistsBijection
<1>6. IsFiniteSet(R) /\ Cardinality(R) = Cardinality(T)
  BY <1>5, FS_Bijection
<1> QED
  BY <1>6 DEF R

------------------------------------------------------------------------------
(* The invariant *)

\* What is left of a sequence without its first.
LEMMA Rest ==
  ASSUME NEW S, NEW s \in Seq(S), s # << >>
  PROVE  /\ Head(s) = s[1] /\ Head(s) \in S
         /\ Tail(s) \in Seq(S) /\ Len(s) \in Nat /\ Len(s) >= 1 /\ Len(Tail(s)) = Len(s) - 1
         /\ \A k \in 1..Len(Tail(s)) : k + 1 \in 1..Len(s) /\ Tail(s)[k] = s[k + 1]
         /\ \A x \in ToSet(s) : x = Head(s) \/ x \in ToSet(Tail(s))
         /\ \A x \in ToSet(Tail(s)) : x \in ToSet(s)
         /\ (\A j, k \in 1..Len(s) : s[j] = s[k] => j = k) =>
              /\ \A j, k \in 1..Len(Tail(s)) : Tail(s)[j] = Tail(s)[k] => j = k
              /\ Head(s) \notin ToSet(Tail(s))
<1>1. /\ Head(s) \in S
      /\ Tail(s) \in Seq(S)
      /\ Len(Tail(s)) = Len(s) - 1
      /\ \A k \in 1..Len(Tail(s)) : Tail(s)[k] = s[k + 1]
  BY HeadTailProperties
<1>2. Len(s) \in Nat \ {0}
  BY EmptySeq
<1>3. Head(s) = s[1]
  OBVIOUS
<1>4. \A k \in 1..Len(Tail(s)) : k + 1 \in 1..Len(s)
  BY <1>1, <1>2
<1>5. ASSUME NEW x \in ToSet(s)
      PROVE  x = Head(s) \/ x \in ToSet(Tail(s))
  <2>1. PICK k \in 1..Len(s) : s[k] = x
    BY Elements
  <2>2. CASE k = 1
    BY <2>1, <2>2, <1>3
  <2>3. CASE k # 1
    <3>1. k - 1 \in 1..Len(Tail(s)) /\ (k - 1) + 1 = k
      BY <2>3, <1>1, <1>2
    <3>2. Tail(s)[k - 1] = x
      BY <3>1, <2>1, <1>1
    <3> QED
      BY <3>1, <3>2, <1>1, Elements
  <2> QED
    BY <2>2, <2>3
<1>6. ASSUME NEW x \in ToSet(Tail(s))
      PROVE  x \in ToSet(s)
  <2>1. PICK k \in 1..Len(Tail(s)) : Tail(s)[k] = x
    BY <1>1, Elements
  <2> QED
    BY <2>1, <1>1, <1>4, Elements
<1>7. ASSUME \A j, k \in 1..Len(s) : s[j] = s[k] => j = k
      PROVE  /\ \A j, k \in 1..Len(Tail(s)) : Tail(s)[j] = Tail(s)[k] => j = k
             /\ Head(s) \notin ToSet(Tail(s))
  <2>1. ASSUME NEW j \in 1..Len(Tail(s)), NEW k \in 1..Len(Tail(s)), Tail(s)[j] = Tail(s)[k]
        PROVE  j = k
    <3>1. j + 1 \in 1..Len(s) /\ k + 1 \in 1..Len(s) /\ s[j + 1] = s[k + 1]
      BY <2>1, <1>1, <1>4
    <3>2. j + 1 = k + 1
      BY <3>1, <1>7
    <3> QED
      BY <3>2, <1>1, <1>2
  <2>2. ASSUME Head(s) \in ToSet(Tail(s))
        PROVE  FALSE
    <3>1. PICK k \in 1..Len(Tail(s)) : Tail(s)[k] = Head(s)
      BY <2>2, <1>1, Elements
    <3>2. k + 1 \in 1..Len(s) /\ s[k + 1] = s[1] /\ 1 \in 1..Len(s)
      BY <3>1, <1>1, <1>2, <1>3, <1>4
    <3>3. k + 1 = 1
      BY <3>2, <1>7
    <3> QED
      BY <3>3, <1>1, <1>2
  <2> QED
    BY <2>1, <2>2
<1> QED
  BY <1>1, <1>2, <1>3, <1>4, <1>5, <1>6, <1>7

LEMMA InitInv == Init => IInv
<1> SUFFICES ASSUME Init
             PROVE  IInv
  OBVIOUS
<1>1. f \in Functions
  BY DEF Init
<1> USE <1>1
<1>2. /\ f.succ \in [Blocks -> SUBSET Blocks] /\ f.uses \in [Blocks -> Seq(Uses)]
      /\ f.layout \in Seq(Blocks) /\ ToSet(f.layout) = Blocks
      /\ \A j, k \in 1..Len(f.layout) : f.layout[j] = f.layout[k] => j = k
  BY GivenFunction
<1>3. \A p \in Blocks : succ[p] = {Use(p, b) : b \in f.succ[p]}
  BY DEF Init
<1>4. \A b \in Blocks : ToSet(f.uses[b]) = {Use(p, b) : p \in Preds(f.succ, b)}
  BY GivenUses
<1>5. \A b \in Blocks : phiFrom[b] = ToSet(f.uses[b])
  BY DEF Init
<1>6. uses = f.uses /\ rest = f.layout /\ phase = "blocks" /\ BB = Entry /\ iter = << >>
  BY DEF Init
<1>7. \A b \in Blocks : Unsplit(b)
  BY <1>3 DEF Unsplit, Preds
<1>8. TypeOK
  <2>1. succ \in [Blocks -> SUBSET Uses]
    <3>1. \A p \in Blocks : {Use(p, b) : b \in f.succ[p]} \in SUBSET Uses
      <4> TAKE p \in Blocks
      <4>1. f.succ[p] \subseteq Blocks
        BY <1>2
      <4>2. \A b \in f.succ[p] : Use(p, b) \in Uses
        BY <4>1 DEF Use, Uses
      <4> QED
        BY <4>2
    <3> QED
      BY <3>1 DEF Init
  <2>2. phiFrom \in [Blocks -> SUBSET Uses]
    <3>1. \A b \in Blocks : ToSet(f.uses[b]) \in SUBSET Uses
      <4>1. \A s \in Seq(Uses) : ToSet(s) \in SUBSET Uses
        BY Elements
      <4> QED
        BY <1>2, <4>1
    <3> QED
      BY <3>1 DEF Init
  <2>3. iter \in Seq(Uses)
    BY <1>6
  <2> QED
    BY <2>1, <2>2, <2>3, <1>2, <1>6, EntryAssumption DEF TypeOK
<1>9. EdgesOnce
  <2> SUFFICES ASSUME NEW p \in Blocks
               PROVE  /\ \A u \in succ[p] : u.from = p /\ u.to \in f.succ[p]
                      /\ \A b \in f.succ[p] : (Use(p, b) \in succ[p]) # (NewUse(p, b) \in succ[p])
                      /\ Cardinality(succ[p]) = Cardinality(f.succ[p])
    BY DEF EdgesOnce
  <2>1. \A u \in succ[p] : u.from = p /\ u.to \in f.succ[p]
    BY <1>3 DEF Use
  <2>2. \A b \in f.succ[p] : Use(p, b) \in succ[p] /\ NewUse(p, b) \notin succ[p]
    BY <1>3 DEF Use, NewUse
  <2>3. Cardinality(succ[p]) = Cardinality(f.succ[p])
    BY <1>3, FewNeighbours, AsManyEdges
  <2> QED
    BY <2>1, <2>2, <2>3
<1>10. Ahead
  BY <1>2, <1>6, <1>7 DEF Ahead
<1>11. AtHand
  BY <1>6 DEF AtHand
<1>12. Behind
  BY <1>2, <1>6 DEF Behind
<1>13. OnlyCritical
  <2>1. \A b, p \in Blocks : NewUse(p, b) \notin {Use(q, b) : q \in Preds(f.succ, b)}
    BY DEF Use, NewUse
  <2> QED
    BY <2>1, <1>4, <1>5, <1>6 DEF OnlyCritical
<1>14. PhisListPredecessors
  <2> SUFFICES ASSUME NEW b \in Blocks
               PROVE  phiFrom[b] = EdgesTo(b) /\ phiFrom[b] = ToSet(uses[b])
    BY DEF PhisListPredecessors
  <2>1. phiFrom[b] = ToSet(uses[b]) /\ phiFrom[b] = {Use(p, b) : p \in Preds(f.succ, b)}
    BY <1>4, <1>5, <1>6
  <2>2. ASSUME NEW u \in EdgesTo(b)
        PROVE  u \in {Use(p, b) : p \in Preds(f.succ, b)}
    <3>1. u \in Uses /\ u.to = b /\ u \in succ[u.from]
      BY <2>2 DEF EdgesTo
    <3>2. u.from \in Blocks
      BY <3>1, EveryUse
    <3>3. PICK c \in f.succ[u.from] : u = Use(u.from, c)
      BY <3>1, <3>2, <1>3
    <3>4. c = b
      BY <3>1, <3>3 DEF Use
    <3> QED
      BY <3>2, <3>3, <3>4 DEF Preds
  <2>3. ASSUME NEW p \in Preds(f.succ, b)
        PROVE  Use(p, b) \in EdgesTo(b)
    <3>1. p \in Blocks /\ Use(p, b) \in succ[p]
      BY <1>3 DEF Preds
    <3>2. Use(p, b) \in Uses /\ Use(p, b).to = b /\ Use(p, b).from = p
      BY <3>1 DEF Use, Uses
    <3> QED
      BY <3>1, <3>2 DEF EdgesTo
  <2> QED
    BY <2>1, <2>2, <2>3
<1> QED
  BY <1>8, <1>9, <1>10, <1>11, <1>12, <1>13, <1>14 DEF IInv

\* The parts that the loops themselves do not disturb.
LEMMA SameEdges ==
  ASSUME UNCHANGED <<f, succ, uses, phiFrom>>
  PROVE  /\ EdgesOnce => EdgesOnce'
         /\ OnlyCritical => OnlyCritical'
         /\ PhisListPredecessors => PhisListPredecessors'
         /\ \A b : Unsplit(b)' <=> Unsplit(b)
         /\ \A b : BehindSwitch(b)' <=> BehindSwitch(b)
         /\ \A b : CriticalNow(b)' = CriticalNow(b)
<1>1. f' = f /\ succ' = succ /\ uses' = uses /\ phiFrom' = phiFrom
  OBVIOUS
<1>2. \A b : Unsplit(b)' <=> Unsplit(b)
  BY <1>1 DEF Unsplit
<1>3. \A b : BehindSwitch(b)' <=> BehindSwitch(b)
  BY <1>1 DEF BehindSwitch
<1>4. \A b : CriticalNow(b)' = CriticalNow(b)
  BY <1>1 DEF CriticalNow
<1>5. \A b : EdgesTo(b)' = EdgesTo(b)
  BY <1>1 DEF EdgesTo
<1>6. EdgesOnce => EdgesOnce'
  BY <1>1 DEF EdgesOnce
<1>7. OnlyCritical => OnlyCritical'
  BY <1>1 DEF OnlyCritical
<1>8. PhisListPredecessors => PhisListPredecessors'
  BY <1>1, <1>3, <1>5 DEF PhisListPredecessors
<1> QED
  BY <1>2, <1>3, <1>4, <1>6, <1>7, <1>8

\* The use the iterator stands on.
LEMMA AtIterator ==
  ASSUME IInv, phase = "predecessors", iter # << >>,
         NEW p, p = Head(iter).from
  PROVE  /\ p \in Blocks /\ p \in Preds(f.succ, BB)
         /\ Passed \in Nat /\ Passed + 1 \in 1..Len(f.uses[BB])
         /\ f.uses[BB][Passed + 1] = Use(p, BB)
         /\ Use(p, BB) \in succ[p] /\ NewUse(p, BB) \notin succ[p]
         /\ Cardinality(succ[p]) = Cardinality(f.succ[p])
         /\ Cardinality(succ[p]) \in Nat
         /\ ~OneSuccessor(p) <=> p \in CriticalIn(f.succ, BB)
<1>1. TypeOK /\ EdgesOnce /\ AtHand
  BY DEF IInv
<1>2. f \in Functions /\ BB \in Blocks /\ iter \in Seq(Uses)
  BY <1>1 DEF TypeOK
<1>3. /\ Len(f.uses[BB]) > 1
      /\ Len(iter) <= Len(f.uses[BB])
      /\ \A k \in 1..Len(iter) : iter[k] = f.uses[BB][Passed + k]
      /\ Unsplit(BB)
  BY <1>1 DEF AtHand
<1>4. /\ f.uses[BB] \in Seq(Uses)
      /\ \A k \in 1..Len(f.uses[BB]) :
           /\ f.uses[BB][k].from \in Preds(f.succ, BB)
           /\ f.uses[BB][k] = Use(f.uses[BB][k].from, BB)
  BY <1>2, GivenUses
<1>5. Len(f.uses[BB]) \in Nat /\ Len(iter) \in Nat /\ Len(iter) >= 1 /\ Head(iter) = iter[1]
  BY <1>2, <1>4, Rest, LenProperties
<1>6. Passed \in Nat /\ Passed + 1 \in 1..Len(f.uses[BB])
  BY <1>3, <1>5 DEF Passed
<1>7. Head(iter) = f.uses[BB][Passed + 1]
  <2>1. 1 \in 1..Len(iter)
    BY <1>5
  <2> QED
    BY <2>1, <1>3, <1>5
<1>8. p \in Preds(f.succ, BB) /\ f.uses[BB][Passed + 1] = Use(p, BB)
  BY <1>4, <1>6, <1>7
<1>9. p \in Blocks /\ BB \in f.succ[p]
  BY <1>8 DEF Preds
<1>10. Use(p, BB) \in succ[p]
  BY <1>3, <1>8 DEF Unsplit
<1>11. /\ (Use(p, BB) \in succ[p]) # (NewUse(p, BB) \in succ[p])
       /\ Cardinality(succ[p]) = Cardinality(f.succ[p])
  BY <1>1, <1>9 DEF EdgesOnce
<1>12. Cardinality(f.succ[p]) \in Nat
  BY <1>2, <1>9, FewNeighbours
<1>13. ~OneSuccessor(p) <=> p \in CriticalIn(f.succ, BB)
  <2>1. p \in CriticalIn(f.succ, BB) <=> Cardinality(f.succ[p]) > 1
    BY <1>2, <1>3, <1>8, CriticalMeans
  <2> QED
    BY <2>1, <1>11, <1>12 DEF OneSuccessor
<1> QED
  BY <1>6, <1>8, <1>9, <1>10, <1>11, <1>12, <1>13

\* The outer loop takes the next block.
LEMMA NextBlockAhead ==
  ASSUME TypeOK, Ahead, rest # << >>, rest' = Tail(rest)
  PROVE  /\ Head(rest) \in Blocks /\ Head(rest) \in ToSet(rest) /\ Head(rest) \notin ToSet(rest')
         /\ rest' \in Seq(Blocks)
         /\ \A x \in ToSet(rest) : x = Head(rest) \/ x \in ToSet(rest')
         /\ \A x \in ToSet(rest') : x \in ToSet(rest)
         /\ \A j, k \in 1..Len(rest') : rest'[j] = rest'[k] => j = k
<1>1. rest \in Seq(Blocks)
  BY DEF TypeOK
<1>2. /\ Head(rest) = rest[1] /\ Head(rest) \in Blocks
      /\ rest' \in Seq(Blocks) /\ 1 \in 1..Len(rest)
      /\ \A x \in ToSet(rest) : x = Head(rest) \/ x \in ToSet(rest')
      /\ \A x \in ToSet(rest') : x \in ToSet(rest)
  BY <1>1, Rest
<1>3. \A j, k \in 1..Len(rest) : rest[j] = rest[k] => j = k
  BY DEF Ahead
<1>4. /\ \A j, k \in 1..Len(rest') : rest'[j] = rest'[k] => j = k
      /\ Head(rest) \notin ToSet(rest')
  BY <1>1, <1>3, Rest
<1>5. Head(rest) \in ToSet(rest)
  BY <1>1, <1>2, Elements
<1> QED
  BY <1>2, <1>4, <1>5

LEMMA SkipBlockInv == IInv /\ SkipBlock => IInv'
<1> SUFFICES ASSUME IInv, SkipBlock
             PROVE  IInv'
  OBVIOUS
<1>1. TypeOK /\ EdgesOnce /\ Ahead /\ Behind /\ OnlyCritical /\ PhisListPredecessors
  BY DEF IInv
<1>2. /\ phase = "blocks" /\ rest # << >> /\ Len(uses[Head(rest)]) <= 1
      /\ rest' = Tail(rest)
      /\ UNCHANGED <<f, phase, succ, uses, phiFrom, BB, iter>>
  BY DEF SkipBlock
<1>3. f \in Functions /\ rest \in Seq(Blocks)
  BY <1>1 DEF TypeOK
<1>4. /\ Head(rest) \in ToSet(rest)
      /\ rest' \in Seq(Blocks)
      /\ \A x \in ToSet(rest) : x = Head(rest) \/ x \in ToSet(rest')
      /\ \A x \in ToSet(rest') : x \in ToSet(rest)
      /\ \A j, k \in 1..Len(rest') : rest'[j] = rest'[k] => j = k
  BY <1>1, <1>2, <1>3, NextBlockAhead
<1>5. /\ EdgesOnce' /\ OnlyCritical' /\ PhisListPredecessors'
      /\ \A b : Unsplit(b)' <=> Unsplit(b)
      /\ \A b : BehindSwitch(b)' <=> BehindSwitch(b)
      /\ \A b : CriticalNow(b)' = CriticalNow(b)
  BY <1>1, <1>2, SameEdges
<1>6. TypeOK'
  BY <1>1, <1>2, <1>4 DEF TypeOK
<1>7. Ahead'
  BY <1>1, <1>2, <1>4, <1>5 DEF Ahead
<1>8. AtHand'
  BY <1>2 DEF AtHand
<1>9. Behind'
  <2> SUFFICES ASSUME NEW b \in Blocks \ ToSet(rest'),
                      ~BehindSwitch(b), CriticalIn(f.succ, b) # {}
               PROVE  \E p \in CriticalIn(f.succ, b) :
                        CriticalNow(b) = CriticalIn(f.succ, b) \ {p}
    BY <1>2, <1>5 DEF Behind
  <2>1. CASE b \in ToSet(rest)
    <3>1. b = Head(rest)
      BY <2>1, <1>4
    <3>2. Len(uses[b]) <= 1 /\ uses[b] = f.uses[b]
      BY <3>1, <1>1, <1>2, <1>4 DEF Ahead
    <3>3. Len(f.uses[b]) \in Nat
      BY <1>3, GivenUses, LenProperties
    <3> QED
      BY <3>2, <3>3, <1>3, CriticalMeans
  <2>2. CASE b \notin ToSet(rest)
    BY <2>2, <1>1, <1>2 DEF Behind, Iterating
  <2> QED
    BY <2>1, <2>2
<1> QED
  BY <1>5, <1>6, <1>7, <1>8, <1>9 DEF IInv

LEMMA EnterBlockInv == IInv /\ EnterBlock => IInv'
<1> SUFFICES ASSUME IInv, EnterBlock
             PROVE  IInv'
  OBVIOUS
<1>1. TypeOK /\ EdgesOnce /\ Ahead /\ Behind /\ OnlyCritical /\ PhisListPredecessors
  BY DEF IInv
<1>2. /\ phase = "blocks" /\ rest # << >> /\ Len(uses[Head(rest)]) > 1
      /\ phase' = "predecessors" /\ BB' = Head(rest) /\ iter' = uses[Head(rest)]
      /\ rest' = Tail(rest)
      /\ UNCHANGED <<f, succ, uses, phiFrom>>
  BY DEF EnterBlock
<1>3. f \in Functions /\ uses \in [Blocks -> Seq(Uses)]
  BY <1>1 DEF TypeOK
<1>4. /\ BB' \in Blocks /\ BB' \in ToSet(rest) /\ BB' \notin ToSet(rest')
      /\ rest' \in Seq(Blocks)
      /\ \A x \in ToSet(rest) : x = BB' \/ x \in ToSet(rest')
      /\ \A x \in ToSet(rest') : x \in ToSet(rest)
      /\ \A j, k \in 1..Len(rest') : rest'[j] = rest'[k] => j = k
  BY <1>1, <1>2, NextBlockAhead
<1>5. /\ EdgesOnce' /\ OnlyCritical' /\ PhisListPredecessors'
      /\ \A b : Unsplit(b)' <=> Unsplit(b)
      /\ \A b : BehindSwitch(b)' <=> BehindSwitch(b)
      /\ \A b : CriticalNow(b)' = CriticalNow(b)
  BY <1>1, <1>2, SameEdges
<1>6. TypeOK'
  BY <1>1, <1>2, <1>3, <1>4 DEF TypeOK
<1>7. Ahead'
  BY <1>1, <1>2, <1>4, <1>5 DEF Ahead
<1> DEFINE L == f.uses[BB']
<1>8. iter' = L /\ L \in Seq(Uses) /\ Len(L) \in Nat /\ Len(L) > 1
  <2>1. uses[BB'] = f.uses[BB']
    BY <1>1, <1>4 DEF Ahead
  <2>2. L \in Seq(Uses)
    BY <1>3, <1>4, GivenUses
  <2> QED
    BY <2>1, <2>2, <1>2, LenProperties
<1>9. iter' # << >> /\ Passed' = 0
  <2>1. L # << >>
    BY <1>8, EmptySeq
  <2> QED
    BY <2>1, <1>2, <1>8 DEF Passed
<1>10. AtHand'
  <2>1. \E b : b = BB' /\ Unsplit(b)
    BY <1>1, <1>4 DEF Ahead
  <2>2. Unsplit(BB)'
    BY <2>1, <1>2 DEF Unsplit
  <2>3. uses'[BB'] = L /\ f'.uses[BB'] = L
    BY <1>2, <1>8
  <2>4. \A k \in 1..Len(iter') : iter'[k] = L[Passed' + k]
    BY <1>8, <1>9
  <2> HIDE DEF L
  <2> QED
    BY <2>2, <2>3, <2>4, <1>8, <1>9 DEF AtHand
<1>11. Behind'
  BY <1>1, <1>2, <1>4, <1>5, <1>9 DEF Behind, Iterating
<1> QED
  BY <1>5, <1>6, <1>7, <1>10, <1>11 DEF IInv

LEMMA SkipPredecessorInv == IInv /\ SkipPredecessor => IInv'
<1> SUFFICES ASSUME IInv, SkipPredecessor
             PROVE  IInv'
  OBVIOUS
<1>1. TypeOK /\ EdgesOnce /\ Ahead /\ AtHand /\ Behind /\ OnlyCritical /\ PhisListPredecessors
  BY DEF IInv
<1>2. /\ phase = "predecessors" /\ iter # << >> /\ OneSuccessor(Head(iter).from)
      /\ iter' = Tail(iter)
      /\ UNCHANGED <<f, phase, succ, uses, phiFrom, rest, BB>>
  BY DEF SkipPredecessor
<1>3. f \in Functions /\ iter \in Seq(Uses) /\ BB \in Blocks /\ uses \in [Blocks -> Seq(Uses)]
  BY <1>1 DEF TypeOK
<1>4. /\ iter' \in Seq(Uses) /\ Len(iter) \in Nat /\ Len(iter) >= 1 /\ Len(iter') = Len(iter) - 1
      /\ \A k \in 1..Len(iter') : k + 1 \in 1..Len(iter) /\ iter'[k] = iter[k + 1]
  BY <1>2, <1>3, Rest
<1>5. /\ EdgesOnce' /\ OnlyCritical' /\ PhisListPredecessors'
      /\ \A b : Unsplit(b)' <=> Unsplit(b)
      /\ \A b : BehindSwitch(b)' <=> BehindSwitch(b)
      /\ \A b : CriticalNow(b)' = CriticalNow(b)
  BY <1>1, <1>2, SameEdges
<1> DEFINE L == f.uses[BB]
           p == Head(iter).from
<1>6. /\ Passed \in Nat /\ Passed + 1 \in 1..Len(L)
      /\ L[Passed + 1] = Use(p, BB) /\ p \notin CriticalIn(f.succ, BB)
  BY <1>2, AtIterator
<1>7. L \in Seq(Uses) /\ Len(L) \in Nat /\ Len(uses[BB]) \in Nat
  BY <1>3, GivenUses, LenProperties
<1>8. /\ Len(L) > 1 /\ Len(iter) <= Len(L) /\ Len(iter) <= Len(uses[BB])
      /\ \A k \in 1..Len(iter) : iter[k] = L[Passed + k]
      /\ Unsplit(BB)
      /\ ~BehindSwitch(BB) =>
           /\ uses[BB] = L
           /\ \A k \in 1..Passed : L[k].from \notin CriticalIn(f.succ, BB)
  BY <1>1, <1>2 DEF AtHand
<1>9. Passed' = Passed + 1
  BY <1>2, <1>4, <1>7 DEF Passed
<1>10. ~BehindSwitch(BB) => \A k \in 1..(Passed + 1) : L[k].from \notin CriticalIn(f.succ, BB)
  <2> SUFFICES ASSUME ~BehindSwitch(BB), NEW k \in 1..(Passed + 1)
               PROVE  L[k].from \notin CriticalIn(f.succ, BB)
    OBVIOUS
  <2>1. CASE k \in 1..Passed
    BY <2>1, <1>8
  <2>2. CASE k = Passed + 1
    <3>1. L[k].from = p
      BY <2>2, <1>6 DEF Use
    <3> QED
      BY <3>1, <1>6
  <2> QED
    BY <2>1, <2>2, <1>6
<1>11. TypeOK'
  BY <1>1, <1>2, <1>4 DEF TypeOK
<1>12. Ahead'
  BY <1>1, <1>2, <1>5 DEF Ahead
<1>13. AtHand'
  <2>1. \A k \in 1..Len(iter') : iter'[k] = L[Passed' + k]
    <3> TAKE k \in 1..Len(iter')
    <3>1. iter'[k] = L[Passed + (k + 1)]
      BY <1>4, <1>8
    <3>2. Passed + (k + 1) = Passed' + k
      BY <1>4, <1>6, <1>9
    <3> QED
      BY <3>1, <3>2
  <2>2. Len(iter') <= Len(L) /\ Len(iter') <= Len(uses[BB])
    BY <1>4, <1>7, <1>8
  <2>3. Unsplit(BB)' /\ (BehindSwitch(BB)' <=> BehindSwitch(BB))
    BY <1>2, <1>8 DEF Unsplit, BehindSwitch
  <2>4. ~BehindSwitch(BB)' => uses[BB] = L
                              /\ \A k \in 1..Passed' : L[k].from \notin CriticalIn(f.succ, BB)
    BY <2>3, <1>8, <1>9, <1>10
  <2>5. L = f'.uses[BB'] /\ uses'[BB'] = uses[BB] /\ f' = f /\ BB' = BB
    BY <1>2
  <2> HIDE DEF L
  <2> QED
    BY <2>1, <2>2, <2>3, <2>4, <2>5, <1>8 DEF AtHand
<1>14. Behind'
  <2> SUFFICES ASSUME NEW b \in Blocks \ ToSet(rest),
                      ~Iterating(b)', ~BehindSwitch(b), CriticalIn(f.succ, b) # {}
               PROVE  \E q \in CriticalIn(f.succ, b) :
                        CriticalNow(b) = CriticalIn(f.succ, b) \ {q}
    BY <1>2, <1>5 DEF Behind
  <2>1. CASE b = BB
    <3>1. iter' = << >>
      BY <2>1, <1>2 DEF Iterating
    <3>2. Passed + 1 = Len(L)
      <4>1. Len(iter') = 0
        BY <3>1
      <4>2. Len(iter) = 1
        BY <4>1, <1>4
      <4>3. Passed = Len(L) - 1
        BY <4>2 DEF Passed
      <4> HIDE DEF L
      <4> QED
        BY <4>3, <1>7
    <3>3. PICK q : q \in CriticalIn(f.succ, BB)
      BY <2>1
    <3>4. q \in Preds(f.succ, BB)
      BY <3>3, <1>3, CriticalMeans
    <3>5. PICK k \in 1..Len(L) : L[k] = Use(q, BB)
      BY <3>4, <1>3, GivenUses
    <3>6. L[k].from = q
      BY <3>5 DEF Use
    <3> QED
      BY <3>2, <3>3, <3>5, <3>6, <2>1, <1>10
  <2>2. CASE b # BB
    BY <2>2, <1>1, <1>2 DEF Behind, Iterating
  <2> QED
    BY <2>1, <2>2
<1> QED
  BY <1>5, <1>11, <1>12, <1>13, <1>14 DEF IInv

\* A block in between behind a switch: the list gets longer, and the edge stays.
LEMMA SplitSwitchInv ==
  ASSUME IInv, SplitEdge, Head(iter).from \in f.switches
  PROVE  IInv'
<1> DEFINE p == Head(iter).from
           front == <<NewUse(p, BB)>>
<1>1. TypeOK /\ EdgesOnce /\ Ahead /\ AtHand /\ Behind /\ OnlyCritical /\ PhisListPredecessors
  BY DEF IInv
<1>2. /\ phase = "predecessors" /\ iter # << >> /\ ~OneSuccessor(p)
      /\ phiFrom' = [phiFrom EXCEPT ![BB] = PhisOf(p)]
      /\ uses' = [uses EXCEPT ![BB] = front \o uses[BB]]
      /\ iter' = Tail(iter)
      /\ UNCHANGED <<f, phase, rest, BB, succ>>
  BY DEF SplitEdge
<1>3. /\ f \in Functions /\ iter \in Seq(Uses) /\ BB \in Blocks /\ uses \in [Blocks -> Seq(Uses)]
      /\ phiFrom \in [Blocks -> SUBSET Uses]
  BY <1>1 DEF TypeOK
<1>4. /\ iter' \in Seq(Uses) /\ Len(iter) \in Nat /\ Len(iter) >= 1 /\ Len(iter') = Len(iter) - 1
      /\ \A k \in 1..Len(iter') : k + 1 \in 1..Len(iter) /\ iter'[k] = iter[k + 1]
  BY <1>2, <1>3, Rest
<1> DEFINE L == f.uses[BB]
<1>5. /\ p \in Blocks /\ p \in Preds(f.succ, BB)
      /\ Passed \in Nat /\ Passed + 1 \in 1..Len(L)
      /\ p \in CriticalIn(f.succ, BB)
  BY <1>2, AtIterator
<1>6. /\ Use(p, BB) \in Uses /\ NewUse(p, BB) \in Uses
  BY <1>3, <1>5 DEF Use, NewUse, Uses
<1> DEFINE longer == front \o uses[BB]
<1>7. /\ longer \in Seq(Uses) /\ Len(longer) = Len(uses[BB]) + 1
      /\ ToSet(longer) = {NewUse(p, BB)} \cup ToSet(uses[BB])
  BY <1>3, <1>6, PutInFront
<1>8. /\ uses'[BB] = longer /\ phiFrom'[BB] = PhisOf(p)
      /\ \A b \in Blocks \ {BB} : uses'[b] = uses[b] /\ phiFrom'[b] = phiFrom[b]
  BY <1>2, <1>3
<1>9. BehindSwitch(BB)
  BY <1>5 DEF BehindSwitch
<1>10. /\ \A b : Unsplit(b)' <=> Unsplit(b)
       /\ \A b : BehindSwitch(b)' <=> BehindSwitch(b)
       /\ \A b : CriticalNow(b)' = CriticalNow(b)
       /\ \A b : EdgesTo(b)' = EdgesTo(b)
  BY <1>2 DEF Unsplit, BehindSwitch, CriticalNow, EdgesTo
<1>11. TypeOK'
  <2>1. PhisOf(p) \subseteq Uses
    BY <1>3, <1>6 DEF PhisOf
  <2> HIDE DEF longer, p
  <2>2. uses' \in [Blocks -> Seq(Uses)]
    BY <1>2, <1>3, <1>7, <1>8
  <2>3. phiFrom' \in [Blocks -> SUBSET Uses]
    BY <2>1, <1>2, <1>3
  <2> QED
    BY <2>2, <2>3, <1>1, <1>2, <1>4 DEF TypeOK
<1>12. EdgesOnce'
  BY <1>1, <1>2 DEF EdgesOnce
<1>13. Ahead'
  <2>1. \A b \in ToSet(rest) : b \in Blocks /\ b # BB
    BY <1>1, <1>2, Elements DEF Ahead, TypeOK
  <2> QED
    BY <2>1, <1>1, <1>2, <1>8, <1>10 DEF Ahead
<1>14. AtHand'
  <2>1. /\ Len(L) > 1 /\ Len(iter) <= Len(L) /\ Len(iter) <= Len(uses[BB])
        /\ \A k \in 1..Len(iter) : iter[k] = L[Passed + k]
        /\ Unsplit(BB)
    BY <1>1, <1>2 DEF AtHand
  <2>2. L \in Seq(Uses) /\ Len(L) \in Nat /\ Len(uses[BB]) \in Nat
    BY <1>3, GivenUses, LenProperties
  <2>3. Passed' = Passed + 1
    BY <2>2, <1>2, <1>4 DEF Passed
  <2>4. \A k \in 1..Len(iter') : iter'[k] = L[Passed' + k]
    <3> TAKE k \in 1..Len(iter')
    <3>1. iter'[k] = L[Passed + (k + 1)]
      BY <1>4, <2>1
    <3>2. Passed + (k + 1) = Passed' + k
      BY <1>4, <1>5, <2>3
    <3> QED
      BY <3>1, <3>2
  <2>5. Len(iter') <= Len(L) /\ Len(iter') <= Len(uses'[BB])
    BY <1>4, <1>7, <1>8, <2>1, <2>2
  <2>6. Unsplit(BB)' /\ BehindSwitch(BB)'
    BY <1>2, <1>9, <2>1 DEF Unsplit, BehindSwitch
  <2>7. L = f'.uses[BB'] /\ BB' = BB
    BY <1>2
  <2> HIDE DEF L
  <2> QED
    BY <2>1, <2>4, <2>5, <2>6, <2>7 DEF AtHand
<1>15. Behind'
  <2> SUFFICES ASSUME NEW b \in Blocks \ ToSet(rest),
                      ~BehindSwitch(b), CriticalIn(f.succ, b) # {}
               PROVE  \E q \in CriticalIn(f.succ, b) :
                        CriticalNow(b) = CriticalIn(f.succ, b) \ {q}
    BY <1>2, <1>10 DEF Behind
  <2> QED
    BY <1>1, <1>9 DEF Behind, Iterating
<1>16. OnlyCritical'
  <2> SUFFICES ASSUME NEW b \in Blocks, NEW q \in Blocks,
                      NewUse(q, b) \in phiFrom'[b] \cup ToSet(uses'[b])
               PROVE  q \in CriticalIn(f.succ, b)
    BY <1>2 DEF OnlyCritical
  <2>1. CASE b = BB
    <3>1. NewUse(q, BB) \in phiFrom[BB] \cup ToSet(uses[BB]) \/ NewUse(q, BB) = NewUse(p, BB)
      BY <2>1, <1>7, <1>8 DEF PhisOf
    <3>2. NewUse(q, BB) = NewUse(p, BB) => q = p
      BY DEF NewUse
    <3> QED
      BY <3>1, <3>2, <2>1, <1>1, <1>5 DEF OnlyCritical
  <2>2. CASE b # BB
    BY <2>2, <1>1, <1>8 DEF OnlyCritical
  <2> QED
    BY <2>1, <2>2
<1>17. PhisListPredecessors'
  <2> SUFFICES ASSUME NEW b \in Blocks, ~BehindSwitch(b)
               PROVE  phiFrom'[b] = EdgesTo(b) /\ phiFrom'[b] = ToSet(uses'[b])
    BY <1>10 DEF PhisListPredecessors
  <2> QED
    BY <1>1, <1>8, <1>9 DEF PhisListPredecessors
<1> QED
  BY <1>11, <1>12, <1>13, <1>14, <1>15, <1>16, <1>17 DEF IInv

\* A block in between behind a branch: the use the iterator stands on moves to
\* the new block.
LEMMA SplitBranchInv ==
  ASSUME IInv, SplitEdge, Head(iter).from \notin f.switches
  PROVE  IInv'
<1> DEFINE p == Head(iter).from
           others == RemoveAt(uses[BB], Here)
           changed == <<NewUse(p, BB)>> \o others
<1>1. TypeOK /\ EdgesOnce /\ Ahead /\ AtHand /\ Behind /\ OnlyCritical /\ PhisListPredecessors
  BY DEF IInv
<1>2. /\ phase = "predecessors" /\ iter # << >> /\ ~OneSuccessor(p)
      /\ phiFrom' = [phiFrom EXCEPT ![BB] = PhisOf(p)]
      /\ uses' = [uses EXCEPT ![BB] = changed]
      /\ iter' = << >>
      /\ succ' = [succ EXCEPT ![p] = Retarget(p)]
      /\ UNCHANGED <<f, phase, rest, BB>>
  BY DEF SplitEdge
<1>3. /\ f \in Functions /\ iter \in Seq(Uses) /\ BB \in Blocks /\ uses \in [Blocks -> Seq(Uses)]
      /\ phiFrom \in [Blocks -> SUBSET Uses] /\ succ \in [Blocks -> SUBSET Uses]
  BY <1>1 DEF TypeOK
<1> DEFINE L == f.uses[BB]
<1>4. /\ p \in Blocks /\ p \in Preds(f.succ, BB)
      /\ Passed \in Nat /\ Passed + 1 \in 1..Len(L) /\ L[Passed + 1] = Use(p, BB)
      /\ Use(p, BB) \in succ[p] /\ NewUse(p, BB) \notin succ[p]
      /\ Cardinality(succ[p]) = Cardinality(f.succ[p])
      /\ p \in CriticalIn(f.succ, BB)
  BY <1>2, AtIterator
<1>5. Use(p, BB) \in Uses /\ NewUse(p, BB) \in Uses
  BY <1>3, <1>4 DEF Use, NewUse, Uses
<1>6. /\ Len(iter) <= Len(uses[BB]) /\ Len(iter) >= 1
      /\ Len(iter) \in Nat /\ Len(uses[BB]) \in Nat /\ Here \in 1..Len(uses[BB])
  <2>1. Len(iter) <= Len(uses[BB]) /\ Len(iter) >= 1
    BY <1>1, <1>2, <1>3, Rest DEF AtHand
  <2>2. Len(iter) \in Nat /\ Len(uses[BB]) \in Nat
    BY <1>3, LenProperties
  <2> QED
    BY <2>1, <2>2 DEF Here
<1>7. /\ others \in Seq(Uses)
      /\ ToSet(others) = {uses[BB][j] : j \in (1..Len(uses[BB])) \ {Here}}
  <2>1. uses[BB] \in Seq(Uses)
    BY <1>3
  <2>2. \A s \in Seq(Uses) : \A k \in 1..Len(s) :
          RemoveAt(s, k) \in Seq(Uses) /\ ToSet(RemoveAt(s, k)) = Others(s, k)
    BY RemovedFrom
  <2> QED
    BY <1>6, <2>1, <2>2 DEF Others
<1>8. /\ changed \in Seq(Uses)
      /\ ToSet(changed) = {NewUse(p, BB)} \cup ToSet(others)
  <2> HIDE DEF others
  <2> QED
    BY <1>5, <1>7, PutInFront
<1>9. /\ uses'[BB] = changed /\ phiFrom'[BB] = PhisOf(p)
      /\ \A b \in Blocks \ {BB} : uses'[b] = uses[b] /\ phiFrom'[b] = phiFrom[b]
      /\ succ'[p] = Retarget(p) /\ \A q \in Blocks \ {p} : succ'[q] = succ[q]
  BY <1>2, <1>3, <1>4
<1> HIDE DEF others, changed, p
<1>10. ASSUME NEW q \in Blocks, NEW u, u # Use(p, BB), u # NewUse(p, BB)
       PROVE  u \in succ'[q] <=> u \in succ[q]
  BY <1>9, <1>10 DEF Retarget
<1>11. Use(p, BB) \notin succ'[p] /\ NewUse(p, BB) \in succ'[p]
  BY <1>9 DEF Retarget, Use, NewUse
<1>12. TypeOK'
  <2>1. PhisOf(p) \subseteq Uses /\ Retarget(p) \subseteq Uses
    BY <1>3, <1>4, <1>5 DEF PhisOf, Retarget
  <2>2. uses' \in [Blocks -> Seq(Uses)]
    BY <1>2, <1>3, <1>8
  <2>3. phiFrom' \in [Blocks -> SUBSET Uses] /\ succ' \in [Blocks -> SUBSET Uses]
    BY <2>1, <1>2, <1>3
  <2>4. iter' \in Seq(Uses)
    BY <1>2
  <2> QED
    BY <2>2, <2>3, <2>4, <1>1, <1>2 DEF TypeOK
<1>13. EdgesOnce'
  <2> SUFFICES ASSUME NEW q \in Blocks
               PROVE  /\ \A u \in succ'[q] : u.from = q /\ u.to \in f.succ[q]
                      /\ \A b \in f.succ[q] : (Use(q, b) \in succ'[q]) # (NewUse(q, b) \in succ'[q])
                      /\ Cardinality(succ'[q]) = Cardinality(f.succ[q])
    BY <1>2 DEF EdgesOnce
  <2>1. CASE q # p
    BY <2>1, <1>1, <1>9 DEF EdgesOnce
  <2>2. CASE q = p
    <3>1. BB \in f.succ[p]
      BY <1>4 DEF Preds
    <3>2. ASSUME NEW u \in succ'[p]
          PROVE  u.from = p /\ u.to \in f.succ[p]
      <4>1. CASE u = NewUse(p, BB)
        BY <4>1, <3>1 DEF NewUse
      <4>2. CASE u \in succ[p]
        BY <4>2, <1>1, <1>4 DEF EdgesOnce
      <4> QED
        BY <4>1, <4>2, <1>9 DEF Retarget
    <3>3. ASSUME NEW b \in f.succ[p]
          PROVE  (Use(p, b) \in succ'[p]) # (NewUse(p, b) \in succ'[p])
      <4>1. CASE b = BB
        BY <4>1, <1>11
      <4>2. CASE b # BB
        <5>1. /\ Use(p, b) # Use(p, BB) /\ Use(p, b) # NewUse(p, BB)
              /\ NewUse(p, b) # Use(p, BB) /\ NewUse(p, b) # NewUse(p, BB)
          BY <4>2 DEF Use, NewUse
        <5>2. /\ Use(p, b) \in succ'[p] <=> Use(p, b) \in succ[p]
              /\ NewUse(p, b) \in succ'[p] <=> NewUse(p, b) \in succ[p]
          BY <5>1, <1>4, <1>10
        <5> QED
          BY <5>2, <1>1, <1>4 DEF EdgesOnce
      <4> QED
        BY <4>1, <4>2
    <3>4. Cardinality(succ'[p]) = Cardinality(f.succ[p])
      <4>1. succ[p] \subseteq Uses /\ IsFiniteSet(Uses)
        BY <1>3, <1>4, FewUses
      <4>2. IsFiniteSet(succ[p])
        BY <4>1, FS_Subset
      <4> DEFINE R == succ[p] \ {Use(p, BB)}
      <4>3. IsFiniteSet(R) /\ Cardinality(R) = Cardinality(succ[p]) - 1
        BY <4>2, <1>4, FS_RemoveElement
      <4>4. NewUse(p, BB) \notin R
        BY <1>4
      <4> HIDE DEF R
      <4>5. Cardinality(R \cup {NewUse(p, BB)}) = Cardinality(R) + 1
        BY <4>3, <4>4, FS_AddElement
      <4>6. Cardinality(succ[p]) \in Nat
        BY <4>2, FS_CardinalityType
      <4>7. succ'[p] = R \cup {NewUse(p, BB)}
        BY <1>9 DEF Retarget, R
      <4> QED
        BY <4>3, <4>5, <4>6, <4>7, <1>4
    <3> QED
      BY <3>2, <3>3, <3>4, <2>2
  <2> QED
    BY <2>1, <2>2
<1>14. ASSUME NEW b, b # BB
       PROVE  /\ Unsplit(b)' <=> Unsplit(b)
              /\ CriticalNow(b)' = CriticalNow(b)
              /\ EdgesTo(b)' = EdgesTo(b)
  <2>1. \A q \in Blocks : Use(q, b) \in succ'[q] <=> Use(q, b) \in succ[q]
    <3> TAKE q \in Blocks
    <3>1. Use(q, b) # Use(p, BB) /\ Use(q, b) # NewUse(p, BB)
      BY <1>14 DEF Use, NewUse
    <3> QED
      BY <3>1, <1>10
  <2>2. ASSUME NEW u \in Uses, u.to = b
        PROVE  u \in succ'[u.from] <=> u \in succ[u.from]
    <3>1. u.from \in Blocks
      BY EveryUse
    <3>2. u # Use(p, BB) /\ u # NewUse(p, BB)
      BY <2>2, <1>14 DEF Use, NewUse
    <3> QED
      BY <3>1, <3>2, <1>10
  <2>3. Preds(f.succ, b) \subseteq Blocks /\ CriticalIn(f.succ, b) \subseteq Blocks
    BY DEF Preds, CriticalIn
  <2>4. EdgesTo(b)' = EdgesTo(b)
    BY <2>2 DEF EdgesTo
  <2>5. CriticalNow(b)' = CriticalNow(b)
    BY <2>1, <2>3, <1>2 DEF CriticalNow
  <2>6. Unsplit(b)' <=> Unsplit(b)
    BY <2>1, <2>3, <1>2 DEF Unsplit
  <2> QED
    BY <2>4, <2>5, <2>6
<1>15. \A b : BehindSwitch(b)' <=> BehindSwitch(b)
  BY <1>2 DEF BehindSwitch
<1>16. Ahead'
  <2>1. \A b \in ToSet(rest) : b \in Blocks /\ b # BB
    BY <1>1, <1>2, Elements DEF Ahead, TypeOK
  <2> QED
    BY <2>1, <1>1, <1>2, <1>9, <1>14 DEF Ahead
<1>17. AtHand'
  <2>1. Len(L) > 1 /\ L \in Seq(Uses)
    BY <1>1, <1>2, <1>3, GivenUses DEF AtHand
  <2>2. Len(iter') = 0 /\ Len(L) \in Nat
    BY <2>1, <1>2, LenProperties
  <2>3. L = f'.uses[BB']
    BY <1>2
  <2> HIDE DEF L
  <2> QED
    BY <2>1, <2>2, <2>3, <1>2 DEF AtHand
<1>18. Behind'
  <2> SUFFICES ASSUME NEW b \in Blocks \ ToSet(rest),
                      ~BehindSwitch(b), CriticalIn(f.succ, b) # {}
               PROVE  \E q \in CriticalIn(f.succ, b) :
                        CriticalNow(b)' = CriticalIn(f.succ, b) \ {q}
    BY <1>2, <1>15 DEF Behind
  <2>1. CASE b # BB
    BY <2>1, <1>1, <1>2, <1>14 DEF Behind, Iterating
  <2>2. CASE b = BB
    <3>1. Unsplit(BB)
      BY <1>1, <1>2 DEF AtHand
    <3>2. ASSUME NEW q \in CriticalIn(f.succ, BB)
          PROVE  Use(q, BB) \in succ'[q] <=> q # p
      <4>1. q \in Blocks /\ Use(q, BB) \in succ[q]
        BY <3>1 DEF Unsplit, CriticalIn, Preds
      <4>2. CASE q # p
        BY <4>1, <4>2, <1>9
      <4>3. CASE q = p
        BY <4>3, <1>11
      <4> QED
        BY <4>2, <4>3
    <3>3. CriticalNow(BB)' = CriticalIn(f.succ, BB) \ {p}
      BY <3>2, <1>2 DEF CriticalNow
    <3>4. CriticalNow(b)' = CriticalIn(f.succ, b) \ {p}
      BY <3>3, <2>2, <1>2 DEF CriticalNow
    <3> QED
      BY <3>4, <2>2, <1>4
  <2> QED
    BY <2>1, <2>2
<1>19. OnlyCritical'
  <2> SUFFICES ASSUME NEW b \in Blocks, NEW q \in Blocks,
                      NewUse(q, b) \in phiFrom'[b] \cup ToSet(uses'[b])
               PROVE  q \in CriticalIn(f.succ, b)
    BY <1>2 DEF OnlyCritical
  <2>1. CASE b = BB
    <3>1. ToSet(others) \subseteq ToSet(uses[BB])
      BY <1>3, <1>7, Elements
    <3>2. NewUse(q, BB) \in phiFrom[BB] \cup ToSet(uses[BB]) \/ NewUse(q, BB) = NewUse(p, BB)
      BY <3>1, <2>1, <1>8, <1>9 DEF PhisOf
    <3>3. NewUse(q, BB) = NewUse(p, BB) => q = p
      BY DEF NewUse
    <3> QED
      BY <3>2, <3>3, <2>1, <1>1, <1>3, <1>4 DEF OnlyCritical
  <2>2. CASE b # BB
    BY <2>2, <1>1, <1>9 DEF OnlyCritical
  <2> QED
    BY <2>1, <2>2
<1>20. PhisListPredecessors'
  <2> SUFFICES ASSUME NEW b \in Blocks, ~BehindSwitch(b)
               PROVE  phiFrom'[b] = EdgesTo(b)' /\ phiFrom'[b] = ToSet(uses'[b])
    BY <1>15 DEF PhisListPredecessors
  <2>1. CASE b # BB
    BY <2>1, <1>1, <1>9, <1>14 DEF PhisListPredecessors
  <2>2. CASE b = BB
    <3>1. /\ uses[BB] = L /\ phiFrom[BB] = EdgesTo(BB) /\ phiFrom[BB] = ToSet(uses[BB])
      BY <2>2, <1>1, <1>2, <1>3 DEF AtHand, PhisListPredecessors
    <3>2. Here = Passed + 1
      BY <3>1, <1>6 DEF Here, Passed
    <3>3. ToSet(others) = ToSet(uses[BB]) \ {Use(p, BB)}
      <4>1. \A j, k \in 1..Len(L) : L[j] = L[k] => j = k
        BY <1>3, GivenUses
      <4>2. \A j \in 1..Len(L) : L[j] = Use(p, BB) <=> j = Here
        BY <4>1, <3>2, <1>4
      <4>3. ASSUME NEW u \in ToSet(others)
            PROVE  u \in ToSet(uses[BB]) /\ u # Use(p, BB)
        BY <4>2, <3>1, <1>3, <1>7, Elements
      <4>4. ASSUME NEW u \in ToSet(uses[BB]), u # Use(p, BB)
            PROVE  u \in ToSet(others)
        <5>1. PICK j \in 1..Len(uses[BB]) : uses[BB][j] = u
          BY <1>3, Elements
        <5> QED
          BY <5>1, <4>2, <4>4, <3>1, <1>7
      <4> QED
        BY <4>3, <4>4
    <3>4. phiFrom'[BB] = (phiFrom[BB] \ {Use(p, BB)}) \cup {NewUse(p, BB)}
      BY <1>9 DEF PhisOf
    <3>5. ToSet(uses'[BB]) = phiFrom'[BB]
      BY <3>1, <3>3, <3>4, <1>8, <1>9
    <3>6. \A u : u \in EdgesTo(BB)' <=> u \in phiFrom'[BB]
      <4> TAKE u
      <4>1. u \in EdgesTo(BB)' <=> u \in Uses /\ u.to = BB /\ u \in succ'[u.from]
        BY <1>2 DEF EdgesTo
      <4>2. u \in EdgesTo(BB) <=> u \in Uses /\ u.to = BB /\ u \in succ[u.from]
        BY DEF EdgesTo
      <4>3. CASE u = Use(p, BB)
        <5>1. u.from = p
          BY <4>3 DEF Use
        <5>2. u \notin EdgesTo(BB)'
          BY <5>1, <4>1, <4>3, <1>11
        <5>3. u # NewUse(p, BB)
          BY <4>3 DEF Use, NewUse
        <5> QED
          BY <5>2, <5>3, <4>3, <3>4
      <4>4. CASE u = NewUse(p, BB)
        <5>1. u.from = p /\ u.to = BB
          BY <4>4 DEF NewUse
        <5>2. u \in EdgesTo(BB)'
          BY <5>1, <4>1, <4>4, <1>5, <1>11
        <5> QED
          BY <5>2, <4>4, <3>4
      <4>5. CASE u # Use(p, BB) /\ u # NewUse(p, BB)
        <5>1. u \in Uses => (u \in succ'[u.from] <=> u \in succ[u.from])
          BY <4>5, <1>10, EveryUse
        <5> QED
          BY <5>1, <4>1, <4>2, <4>5, <3>1, <3>4
      <4> QED
        BY <4>3, <4>4, <4>5
    <3>7. EdgesTo(BB)' = phiFrom'[BB]
      <4>1. EdgesTo(BB)' \subseteq Uses
        BY DEF EdgesTo
      <4> QED
        BY <3>6
    <3>8. EdgesTo(b)' = EdgesTo(BB)'
      BY <2>2, <1>2 DEF EdgesTo
    <3> QED
      BY <3>5, <3>7, <3>8, <2>2
  <2> QED
    BY <2>1, <2>2
<1> QED
  BY <1>12, <1>13, <1>16, <1>17, <1>18, <1>19, <1>20 DEF IInv

\* Ending an inner loop, or the outer one, or nothing.
LEMMA EndLoopInv ==
  ASSUME IInv,
         \/ phase = "predecessors" /\ iter = << >> /\ phase' = "blocks"
         \/ phase = "blocks" /\ phase' = "returned"
         \/ phase' = phase,
         UNCHANGED <<f, succ, uses, phiFrom, rest, BB, iter>>
  PROVE  IInv'
<1>1. TypeOK /\ EdgesOnce /\ Ahead /\ AtHand /\ Behind /\ OnlyCritical /\ PhisListPredecessors
  BY DEF IInv
<1>2. /\ EdgesOnce' /\ OnlyCritical' /\ PhisListPredecessors'
      /\ \A b : Unsplit(b)' <=> Unsplit(b)
      /\ \A b : BehindSwitch(b)' <=> BehindSwitch(b)
      /\ \A b : CriticalNow(b)' = CriticalNow(b)
  BY <1>1, SameEdges
<1>3. phase' = "predecessors" => phase = "predecessors"
  OBVIOUS
<1>4. \A b : Iterating(b)' <=> Iterating(b)
  BY DEF Iterating
<1>5. TypeOK'
  BY <1>1 DEF TypeOK
<1>6. Ahead'
  BY <1>1, <1>2, <1>3 DEF Ahead
<1>7. AtHand'
  BY <1>1, <1>3 DEF AtHand, Passed, Unsplit, BehindSwitch
<1>8. Behind'
  BY <1>1, <1>2, <1>4 DEF Behind
<1> QED
  BY <1>2, <1>5, <1>6, <1>7, <1>8 DEF IInv

LEMMA NextInv == IInv /\ [Next]_vars => IInv'
<1> SUFFICES ASSUME IInv, [Next]_vars
             PROVE  IInv'
  OBVIOUS
<1>1. CASE SkipBlock
  BY <1>1, SkipBlockInv
<1>2. CASE EnterBlock
  BY <1>2, EnterBlockInv
<1>3. CASE SkipPredecessor
  BY <1>3, SkipPredecessorInv
<1>4. CASE SplitEdge
  BY <1>4, SplitSwitchInv, SplitBranchInv
<1>5. CASE NextBlock
  BY <1>5, EndLoopInv DEF NextBlock
<1>6. CASE Return
  BY <1>6, EndLoopInv DEF Return
<1>7. CASE UNCHANGED vars
  BY <1>7, EndLoopInv DEF vars
<1> QED
  BY <1>1, <1>2, <1>3, <1>4, <1>5, <1>6, <1>7 DEF Next, Run, Returned

LEMMA Invariant == Spec => []IInv
BY InitInv, NextInv, PTL DEF Spec

------------------------------------------------------------------------------
(* What it gives *)

\* When run has returned, nothing is ahead.  The invariant says so only of the
\* states in between, hence this second one.
Finished == phase = "returned" => rest = << >>

LEMMA FinishedInv == Spec => []Finished
<1>1. Init => Finished
  BY DEF Init, Finished
<1>2. Finished /\ [Next]_vars => Finished'
  BY DEF Finished, Next, Run, Returned, vars, SkipBlock, EnterBlock, SkipPredecessor, SplitEdge,
         NextBlock, Return
<1> QED
  BY <1>1, <1>2, PTL DEF Spec

\* Every variable of the pass keeps its type.
THEOREM TypeCorrect == Spec => []TypeOK
<1>1. IInv => TypeOK
  BY DEF IInv
<1> QED
  BY <1>1, Invariant, PTL

\* Splitting leaves control where it went, at every moment (lines 104-119).
THEOREM KeepsEdges == Spec => []EdgesPreserved
<1>1. IInv => EdgesPreserved
  <2> SUFFICES ASSUME IInv, NEW p \in Blocks
               PROVE  {u.to : u \in succ[p]} = f.succ[p] /\ \A u \in succ[p] : u.from = p
    BY DEF EdgesPreserved
  <2>1. \A u \in succ[p] : u.from = p /\ u.to \in f.succ[p]
    BY DEF IInv, EdgesOnce
  <2>2. ASSUME NEW b \in f.succ[p]
        PROVE  \E u \in succ[p] : u.to = b
    <3>1. (Use(p, b) \in succ[p]) # (NewUse(p, b) \in succ[p])
      BY DEF IInv, EdgesOnce
    <3>2. Use(p, b).to = b /\ NewUse(p, b).to = b
      BY DEF Use, NewUse
    <3> QED
      BY <3>1, <3>2
  <2> QED
    BY <2>1, <2>2
<1> QED
  BY <1>1, Invariant, PTL

\* A phi lists the predecessors its block has, and so does the use list, at
\* every moment (lines 108-116).
THEOREM PhisFollowEdges == Spec => []PhisListPredecessors
<1>1. IInv => PhisListPredecessors
  BY DEF IInv
<1> QED
  BY <1>1, Invariant, PTL

\* Each block that critical edges lead to by branches has lost one at least when
\* the pass returns, and no other edge is split (lines 95-120).
THEOREM SplitsTheCritical == Spec => []SplitsCriticalEdges
<1>1. IInv /\ Finished => SplitsCriticalEdges
  <2> SUFFICES ASSUME IInv, Finished, phase = "returned", NEW b \in Blocks
               PROVE  /\ ~BehindSwitch(b) =>
                           /\ CriticalNow(b) \subseteq CriticalIn(f.succ, b)
                           /\ CriticalIn(f.succ, b) # {} => CriticalNow(b) # CriticalIn(f.succ, b)
                      /\ \A p \in Blocks \ CriticalIn(f.succ, b) :
                           NewUse(p, b) \notin phiFrom[b] \cup ToSet(uses[b])
    BY DEF SplitsCriticalEdges
  <2>1. b \notin ToSet(rest)
    BY DEF Finished, ToSet
  <2>2. CriticalNow(b) \subseteq CriticalIn(f.succ, b)
    BY DEF CriticalNow
  <2>3. ASSUME ~BehindSwitch(b), CriticalIn(f.succ, b) # {}
        PROVE  CriticalNow(b) # CriticalIn(f.succ, b)
    <3>1. PICK p \in CriticalIn(f.succ, b) : CriticalNow(b) = CriticalIn(f.succ, b) \ {p}
      BY <2>1, <2>3 DEF IInv, Behind, Iterating
    <3> QED
      BY <3>1
  <2>4. \A p \in Blocks \ CriticalIn(f.succ, b) :
          NewUse(p, b) \notin phiFrom[b] \cup ToSet(uses[b])
    BY DEF IInv, OnlyCritical
  <2> QED
    BY <2>2, <2>3, <2>4
<1> QED
  BY <1>1, Invariant, FinishedInv, PTL

------------------------------------------------------------------------------
(* Leaders *)

GivenHash(i) == Hash(g.instr[i], i)
BinaryOps == UNION {Operators(b) : b \in Blocks}

\* A table that has something for each block.
IsTable(t) == t = [b \in Blocks |-> t[b]]

\* Instruction l was the first with hash h on the way through the blocks D.
FirstWith(l, h, D) ==
  \E d \in D : \E m \in DOMAIN g.order[d] :
    /\ g.order[d][m] = l /\ GivenHash(l) = h
    /\ \A e \in StrictDominators(g.succ, d) : \A j \in ToSet(g.order[e]) : GivenHash(j) # h
    /\ \A n \in 1..(m - 1) : GivenHash(g.order[d][n]) # h

\* The expressions of the table c, which has for each value the expression it
\* stands for: the one it computed when it came into the function, and for a phi
\* of insert the one it merges.
ClassesOfGiven(c) ==
  /\ c = [v \in Values |-> c[v]]
  /\ \A a \in Args : c[a] = <<"itself", a, a>>
  /\ \A i \in Placed(g) : c[i] = GivenHash(i)

\* The record x is one that instruction i may have: its operands stand for those
\* of the expression that i stands for.
StandsFor(x, i, c) ==
  IsBinaryOp(x) =>
    /\ DOMAIN x.args = {1, 2} /\ x.args[1] \in Values /\ x.args[2] \in Values
    /\ \E e \in Expressions :
         /\ e.op = x.op /\ Hash(e, 0) = c[i]
         /\ c[x.args[1]] = c[e.args[1]] /\ c[x.args[2]] = c[e.args[2]]

\* A phi that insert made the leader of h in b.
Merged(l, h, b, c) ==
  /\ Joins(b) /\ l \in Live /\ instr[l].op = "phi" /\ c[l] = h
  /\ \E x \in BinaryOps : GivenHash(x) = h

Tables ==
  /\ IsTable(availIn) /\ IsTable(availOut) /\ IsTable(antIn) /\ IsTable(antOut)

\* What the tables of available expressions have.
Available(c) ==
  /\ computed \subseteq Blocks
  /\ step # "available" => computed = Blocks
  /\ \A b \in Blocks : \A h \in DOMAIN availIn[b] :
       \/ FirstWith(availIn[b][h], h, StrictDominators(g.succ, b))
       \/ Merged(availIn[b][h], h, b, c)
  /\ \A b \in computed : \A d \in Dominators(g.succ, b) : \A j \in ToSet(g.order[d]) :
       GivenHash(j) \in DOMAIN availOut[b]
  /\ step = "available" =>
       \A b \in computed : \A h \in DOMAIN availOut[b] :
         FirstWith(availOut[b][h], h, Dominators(g.succ, b))

Given(x, h) == x \in Placed(g) /\ GivenHash(x) = h /\ IsExpression(g.instr[x])

Anticipated ==
  \A b \in Blocks : /\ \A h \in DOMAIN antIn[b] : Given(antIn[b][h], h)
                    /\ \A h \in DOMAIN antOut[b] : Given(antOut[b][h], h)

\* If instruction l is an operator b was given, so is each operator k in front of
\* it, and it was there in front of it.
Earlier(k, l, b) ==
  l \in Operators(b) /\ IsBinaryOp(instr[k]) =>
    \E m, n \in DOMAIN g.order[b] : m < n /\ g.order[b][m] = k /\ g.order[b][n] = l

\* What eliminate may take out of b: something else has its hash in front of it,
\* or insert may have put a phi there that has.
Dispensable(i, b) ==
  /\ IsBinaryOp(g.instr[i])
  /\ \/ Joins(b)
     \/ \E d \in StrictDominators(g.succ, b) : \E j \in ToSet(g.order[d]) :
          GivenHash(j) = GivenHash(i)
     \/ \E m, n \in DOMAIN g.order[b] :
          m < n /\ g.order[b][n] = i /\ GivenHash(g.order[b][m]) = GivenHash(i)

Distinct(s) == \A j, k \in DOMAIN s : s[j] = s[k] => j = k

\* The blocks: what each has, and in which order.
Layouts ==
  /\ order \in [Blocks -> Seq(Instrs)]
  /\ \A b \in Blocks :
       /\ Distinct(order[b])
       /\ ToSet(order[b]) \cap Placed(g) \subseteq ToSet(g.order[b])
       /\ \A k \in DOMAIN order[b] : \A j \in 1..(k - 1) : Earlier(order[b][j], order[b][k], b)
       /\ \A i \in ToSet(g.order[b]) : i \in ToSet(order[b]) \/ Dispensable(i, b)

\* The instructions, and that a copy computes what nothing above it does.
Records(c) ==
  /\ instr = [i \in Instrs |-> instr[i]]
  /\ \A i \in Instrs : StandsFor(instr[i], i, c)
  /\ \A i \in Placed(g) : IsBinaryOp(instr[i]) => IsBinaryOp(g.instr[i])
  /\ \A b \in Blocks : \A k \in ToSet(order[b]) \ Placed(g) :
       IsBinaryOp(instr[k]) =>
         \A d \in StrictDominators(g.succ, b) : \A j \in ToSet(g.order[d]) : GivenHash(j) # c[k]

\* Until eliminate starts, what was given is there as it was.
Untouched ==
  /\ step \in {"available", "anticipated"} => instr = g.instr /\ order = g.order
  /\ step \in {"available", "anticipated", "insert"} =>
       /\ \A i \in Placed(g) : instr[i] = g.instr[i]
       /\ \A b \in Blocks : ToSet(order[b]) \subseteq Used
       /\ \A i \in Instrs : IsBinaryOp(instr[i]) =>
            instr[i].args[1] \in Usable(g) /\ instr[i].args[2] \in Usable(g)

InsertingAt ==
  todo # {} =>
    step \in {"insert", "undefined"} /\ block \in Blocks /\ Joins(block) /\ todo \subseteq DOMAIN antIn[block]

\* What localExpressions has.
LocalLeader(v, h, c) ==
  /\ v \in ToSet(order[block]) /\ v \notin ToSet(next)
  /\ \A k \in DOMAIN next : Earlier(v, next[k], block)
  /\ \E y : /\ h = Hash(y, v) /\ StandsFor(y, v, c)
            /\ IsBinaryOp(y) <=> IsBinaryOp(instr[v])

Working(c) ==
  /\ block \in Blocks
  /\ ToSet(next) \subseteq ToSet(order[block]) /\ Distinct(next)
  /\ \A k \in DOMAIN next : \A j \in 1..(k - 1) : Earlier(next[j], next[k], block)
  /\ \A h \in DOMAIN local : LocalLeader(local[h], h, c)

EliminatingIn(c) ==
  /\ step \in {"available", "anticipated", "insert"} => next = << >>
  /\ step = "eliminate" =>
       coming \in Seq(Blocks) /\ next \in Seq(Instrs) /\ (next # << >> => Working(c))

Static == g \in CutFunctions /\ tree = TreeEdges(g.succ)

LeadInv(c) ==
  /\ Static /\ Tables /\ ClassesOfGiven(c)
  /\ Available(c) /\ Anticipated
  /\ Layouts /\ Records(c) /\ Untouched
  /\ InsertingAt /\ EliminatingIn(c)

Telling == JoinsComputeLast /\ HashesTell

LeadersInv == Telling => \E c : LeadInv(c)

------------------------------------------------------------------------------
(* Hashes *)

LEMMA MinMaxOfTwo ==
  ASSUME NEW a \in Int, NEW b \in Int
  PROVE  /\ a <= b => Min({a, b}) = a /\ Max({a, b}) = b
         /\ b <= a => Min({a, b}) = b /\ Max({a, b}) = a
<1>1. \E x \in {a, b} : \A y \in {a, b} : x <= y
  OBVIOUS
<1>2. \E x \in {a, b} : \A y \in {a, b} : x >= y
  OBVIOUS
<1>3. /\ Min({a, b}) \in {a, b}
      /\ \A y \in {a, b} : Min({a, b}) <= y
  BY <1>1 DEF Min
<1>4. /\ Max({a, b}) \in {a, b}
      /\ \A y \in {a, b} : Max({a, b}) >= y
  BY <1>2 DEF Max
<1> QED
  BY <1>3, <1>4

\* What one may conclude from equal hashes.
LEMMA SameHash ==
  ASSUME NEW x, NEW y, NEW i, NEW j, IsBinaryOp(x), Hash(x, i) = Hash(y, j),
         x.args[1] \in Values, x.args[2] \in Values,
         IsBinaryOp(y) => y.args[1] \in Values /\ y.args[2] \in Values
  PROVE  /\ IsBinaryOp(y) /\ x.op = y.op
         /\ \/ x.args[1] = y.args[1] /\ x.args[2] = y.args[2]
            \/ x.op = "add" /\ x.args[1] = y.args[2] /\ x.args[2] = y.args[1]
<1>1. IsBinaryOp(y)
  BY DEF Hash, IsBinaryOp
<1>2. x.op = y.op
  BY <1>1 DEF Hash, IsBinaryOp
<1>n. \A v \in Values : v \in Int
  BY ArgsAssumption, BoundsAssumption DEF Values, Instrs
<1>3. CASE x.op = "sub"
  BY <1>1, <1>2, <1>3 DEF Hash
<1>4. CASE x.op = "add"
  <2> DEFINE a == x.args[1]
             b == x.args[2]
             c == y.args[1]
             d == y.args[2]
  <2>1. a \in Int /\ b \in Int /\ c \in Int /\ d \in Int
    BY <1>1, <1>n
  <2>2. Hash(x, i) = <<"add", Min({a, b}), Max({a, b})>>
    BY <1>4 DEF Hash
  <2>3. Hash(y, j) = <<"add", Min({c, d}), Max({c, d})>>
    BY <1>2, <1>4 DEF Hash
  <2> HIDE DEF a, b, c, d
  <2>4. Min({a, b}) = Min({c, d}) /\ Max({a, b}) = Max({c, d})
    <3> DEFINE p == Min({a, b})
               q == Max({a, b})
               r == Min({c, d})
               s == Max({c, d})
    <3>1. <<"add", p, q>> = <<"add", r, s>>
      BY <2>2, <2>3
    <3> HIDE DEF p, q, r, s
    <3>2. p = r /\ q = s
      BY <3>1
    <3> QED
      BY <3>2 DEF p, q, r, s
  <2>5. (a = c /\ b = d) \/ (a = d /\ b = c)
    <3>1. /\ a <= b => Min({a, b}) = a /\ Max({a, b}) = b
          /\ b <= a => Min({a, b}) = b /\ Max({a, b}) = a
      BY <2>1, MinMaxOfTwo
    <3>2. /\ c <= d => Min({c, d}) = c /\ Max({c, d}) = d
          /\ d <= c => Min({c, d}) = d /\ Max({c, d}) = c
      BY <2>1, MinMaxOfTwo
    <3> QED
      BY <3>1, <3>2, <2>4, <2>1
  <2> QED
    BY <2>5, <1>1, <1>2, <1>4 DEF a, b, c, d
<1> QED
  BY <1>1, <1>2, <1>3, <1>4 DEF IsBinaryOp

LEMMA SwappedHash ==
  ASSUME NEW x, NEW y, NEW i, NEW j, x.op = y.op, IsBinaryOp(x),
         x.args[1] = y.args[1] /\ x.args[2] = y.args[2]
  PROVE  Hash(x, i) = Hash(y, j)
BY DEF Hash, IsBinaryOp

\* The functions the pass is run on.
LEMMA GivenFacts ==
  ASSUME Static
  PROVE  /\ WellFormedCut(g) /\ g.succ \in CFGs /\ Reachable(g.succ) = Blocks
         /\ g.order \in [Blocks -> Seq(Instrs)]
         /\ Placed(g) \subseteq Instrs /\ Usable(g) \subseteq Values
         /\ \A b \in Blocks : ToSet(g.order[b]) \subseteq Placed(g)
         /\ \A b \in Blocks : Distinct(g.order[b])
         /\ \A b, d \in Blocks : \A i \in ToSet(g.order[b]) : i \in ToSet(g.order[d]) => b = d
<1>1. WellFormedCut(g)
  BY CutFunctionsAssumption DEF Static
<1>2. /\ g.succ \in CFGs /\ Reachable(g.succ) = Blocks
      /\ g.order \in [Blocks -> Seq(Instrs)]
      /\ \A b, d \in Blocks : \A j \in DOMAIN g.order[b] : \A k \in DOMAIN g.order[d] :
           g.order[b][j] = g.order[d][k] => b = d /\ j = k
  BY <1>1 DEF WellFormedCut
<1>3. \A b \in Blocks : ToSet(g.order[b]) \subseteq Instrs
  BY <1>2, Elements
<1>4. \A b \in Blocks : ToSet(g.order[b]) \subseteq Placed(g)
  BY DEF Placed
<1>5. Placed(g) \subseteq Instrs
  BY <1>3 DEF Placed
<1>6. Usable(g) \subseteq Values
  BY <1>5 DEF Usable, Values
<1>7. \A b \in Blocks : Distinct(g.order[b])
  BY <1>2 DEF Distinct
<1>8. ASSUME NEW b \in Blocks, NEW d \in Blocks, NEW i \in ToSet(g.order[b]),
             i \in ToSet(g.order[d])
      PROVE  b = d
  <2>1. PICK j \in DOMAIN g.order[b] : g.order[b][j] = i
    BY <1>2, Elements, LenProperties
  <2>2. PICK k \in DOMAIN g.order[d] : g.order[d][k] = i
    BY <1>2, <1>8, Elements, LenProperties
  <2> QED
    BY <2>1, <2>2, <1>2
<1> QED
  BY <1>1, <1>2, <1>4, <1>5, <1>6, <1>7, <1>8

LEMMA OperatorFacts ==
  ASSUME Static
  PROVE  /\ \A i \in Instrs : g.instr[i].op # "none" <=> i \in Placed(g)
         /\ \A i \in Placed(g) : IsBinaryOp(g.instr[i]) <=> i \in BinaryOps
         /\ BinaryOps \subseteq Placed(g)
         /\ \A i \in BinaryOps : /\ g.instr[i] \in Expressions
                                 /\ g.instr[i].args \in Usable(g) \X Usable(g)
                                 /\ Hash(g.instr[i], 0) = GivenHash(i)
         /\ \A i \in Placed(g) : i \notin BinaryOps => GivenHash(i) = <<"itself", i, i>>
<1>1. WellFormedCut(g) /\ Placed(g) \subseteq Instrs
  BY GivenFacts
<1>2. \A i \in Instrs : g.instr[i].op # "none" <=> i \in Placed(g)
  BY <1>1 DEF WellFormedCut
<1>3. \A i \in Placed(g) : IsBinaryOp(g.instr[i]) <=> i \in BinaryOps
  BY DEF Placed, BinaryOps, Operators
<1>4. BinaryOps \subseteq Placed(g)
  BY DEF Placed, BinaryOps, Operators
<1>5. ASSUME NEW i \in BinaryOps
      PROVE  /\ g.instr[i] \in Expressions
             /\ g.instr[i].args \in Usable(g) \X Usable(g)
             /\ Hash(g.instr[i], 0) = GivenHash(i)
  <2>1. g.instr[i] \in Expressions
    BY DEF Expressions, BinaryOps
  <2>2. IsBinaryOp(g.instr[i]) /\ i \in Instrs
    BY <1>1, <1>3, <1>4
  <2>3. g.instr[i].args \in Usable(g) \X Usable(g)
    BY <1>1, <2>2 DEF WellFormedCut
  <2>4. Hash(g.instr[i], 0) = GivenHash(i)
    BY <2>2, SwappedHash DEF GivenHash
  <2> QED
    BY <2>1, <2>3, <2>4
<1>6. ASSUME NEW i \in Placed(g), i \notin BinaryOps
      PROVE  GivenHash(i) = <<"itself", i, i>>
  BY <1>3, <1>6 DEF GivenHash, Hash, IsBinaryOp
<1> QED
  BY <1>2, <1>3, <1>4, <1>5, <1>6

\* An operator as it is to be found in a predecessor of a join.
LEMMA TranslationFacts ==
  ASSUME Static, NEW i \in BinaryOps, NEW p, Translatable(g.instr, g.instr[i], p)
  PROVE  LET e == Translate(g.instr, g.instr[i], p)
         IN  /\ IsBinaryOp(e) /\ e.op = g.instr[i].op
             /\ e.args[1] \in Usable(g) /\ e.args[2] \in Usable(g)
<1> DEFINE x == g.instr[i]
           e == Translate(g.instr, x, p)
<1>1. x.args \in Usable(g) \X Usable(g) /\ IsBinaryOp(x)
  BY OperatorFacts
<1>2. DOMAIN x.args = {1, 2} /\ x.args[1] \in Usable(g) /\ x.args[2] \in Usable(g)
  BY <1>1
<1>3. e.op = x.op
  BY DEF Translate
<1>4. e.args = [k \in DOMAIN x.args |-> PhiTranslate(g.instr, x.args[k], p)]
  BY DEF Translate
<1>5. ASSUME NEW k \in {1, 2}
      PROVE  PhiTranslate(g.instr, x.args[k], p) \in Usable(g)
  <2> DEFINE v == x.args[k]
  <2>1. v \in Usable(g)
    BY <1>2
  <2>2. CASE IsPhi(g.instr, v) /\ g.instr[v].args[p] \in Instrs
    <3>1. p \in DOMAIN g.instr[v].args
      BY <1>2, <2>2 DEF Translatable
    <3>2. g.instr[v].args[p] \in Usable(g)
      BY <3>1, <2>2, GivenFacts DEF WellFormedCut, IsPhi
    <3> QED
      BY <3>2, <2>2 DEF PhiTranslate
  <2>3. CASE ~(IsPhi(g.instr, v) /\ g.instr[v].args[p] \in Instrs)
    BY <2>1, <2>3 DEF PhiTranslate
  <2> QED
    BY <2>2, <2>3
<1> QED
  BY <1>1, <1>2, <1>3, <1>4, <1>5 DEF IsBinaryOp

LEMMA ExpressionFacts ==
  ASSUME Static, NEW e \in Expressions
  PROVE  IsBinaryOp(e) /\ e.args[1] \in Usable(g) /\ e.args[2] \in Usable(g)
<1> DEFINE joined == UNION {Preds(g.succ, b) : b \in {d \in Blocks : Joins(d)}}
<1>1. CASE e \in {g.instr[i] : i \in BinaryOps}
  BY <1>1, OperatorFacts
<1>2. CASE e \in {Translate(g.instr, g.instr[ip[1]], ip[2]) :
                    ip \in {jq \in BinaryOps \X joined :
                              Translatable(g.instr, g.instr[jq[1]], jq[2])}}
  <2>1. PICK ip \in BinaryOps \X joined :
          /\ Translatable(g.instr, g.instr[ip[1]], ip[2])
          /\ e = Translate(g.instr, g.instr[ip[1]], ip[2])
    BY <1>2
  <2>2. ip[1] \in BinaryOps
    BY <2>1
  <2> QED
    BY <2>1, <2>2, TranslationFacts
<1> QED
  BY <1>1, <1>2 DEF Expressions, BinaryOps

------------------------------------------------------------------------------
(* What equal hashes tell *)

LEMMA BinaryHash ==
  ASSUME NEW x, NEW i, IsBinaryOp(x), NEW u
  PROVE  Hash(x, i) # <<"itself", u, u>>
<1>1. CASE x.op = "sub"
  <2>1. Hash(x, i) = <<"sub", x.args[1], x.args[2]>>
    BY <1>1 DEF Hash
  <2> QED
    BY <2>1
<1>2. CASE x.op = "add"
  <2>1. Hash(x, i) = <<"add", Min({x.args[1], x.args[2]}), Max({x.args[1], x.args[2]})>>
    BY <1>2 DEF Hash
  <2> DEFINE m == Min({x.args[1], x.args[2]})
             n == Max({x.args[1], x.args[2]})
  <2> HIDE DEF m, n
  <2>2. Hash(x, i) = <<"add", m, n>>
    BY <2>1 DEF m, n
  <2> QED
    BY <2>2
<1> QED
  BY <1>1, <1>2 DEF IsBinaryOp

LEMMA SameClassIsAlike ==
  ASSUME Static, NEW c, ClassesOfGiven(c), NEW v \in Usable(g), NEW w \in Usable(g),
         c[v] = c[w]
  PROVE  Alike(v, w)
<1>1. /\ \A a \in Args : a \notin Instrs
      /\ Placed(g) \subseteq Instrs
  BY ArgsAssumption, BoundsAssumption, GivenFacts DEF Instrs
<1>2. \A a \in Args : c[a] = <<"itself", a, a>>
  BY DEF ClassesOfGiven
<1>3. \A i \in Placed(g) \ BinaryOps : c[i] = <<"itself", i, i>>
  BY OperatorFacts DEF ClassesOfGiven
<1>4. \A i \in BinaryOps : IsBinaryOp(g.instr[i]) /\ c[i] = Hash(g.instr[i], i)
  BY OperatorFacts DEF ClassesOfGiven, GivenHash
<1>5. ASSUME NEW i \in BinaryOps, NEW u
      PROVE  c[i] # <<"itself", u, u>>
  BY <1>4, BinaryHash
<1>6. CASE v \in BinaryOps /\ w \in BinaryOps
  BY <1>1, <1>4, <1>6, OperatorFacts DEF Alike
<1>7. CASE v \notin BinaryOps \/ w \notin BinaryOps
  <2>1. v = w
    BY <1>2, <1>3, <1>5, <1>7 DEF Usable
  <2> QED
    BY <2>1 DEF Alike
<1> QED
  BY <1>6, <1>7

\* Two records with one hash stand for one expression.
LEMMA SameExpression ==
  ASSUME Static, NEW c, ClassesOfGiven(c), HashesTell,
         NEW x, NEW i, NEW y, NEW j, StandsFor(x, i, c), StandsFor(y, j, c),
         IsBinaryOp(x), Hash(x, i) = Hash(y, j)
  PROVE  IsBinaryOp(y) /\ c[i] = c[j]
<1>1. /\ IsBinaryOp(y) /\ x.op = y.op
      /\ \/ x.args[1] = y.args[1] /\ x.args[2] = y.args[2]
         \/ x.op = "add" /\ x.args[1] = y.args[2] /\ x.args[2] = y.args[1]
  BY SameHash DEF StandsFor
<1>2. PICK e \in Expressions :
        /\ e.op = x.op /\ Hash(e, 0) = c[i]
        /\ c[x.args[1]] = c[e.args[1]] /\ c[x.args[2]] = c[e.args[2]]
  BY DEF StandsFor
<1>3. PICK d \in Expressions :
        /\ d.op = y.op /\ Hash(d, 0) = c[j]
        /\ c[y.args[1]] = c[d.args[1]] /\ c[y.args[2]] = c[d.args[2]]
  BY <1>1 DEF StandsFor
<1>4. /\ e.args[1] \in Usable(g) /\ e.args[2] \in Usable(g)
      /\ d.args[1] \in Usable(g) /\ d.args[2] \in Usable(g)
  BY ExpressionFacts
<1>5. CASE x.args[1] = y.args[1] /\ x.args[2] = y.args[2]
  <2>1. Alike(e.args[1], d.args[1]) /\ Alike(e.args[2], d.args[2])
    BY <1>2, <1>3, <1>4, <1>5, SameClassIsAlike
  <2> QED
    BY <2>1, <1>1, <1>2, <1>3 DEF HashesTell
<1>6. CASE x.op = "add" /\ x.args[1] = y.args[2] /\ x.args[2] = y.args[1]
  <2>1. Alike(e.args[1], d.args[2]) /\ Alike(e.args[2], d.args[1])
    BY <1>2, <1>3, <1>4, <1>6, SameClassIsAlike
  <2> QED
    BY <2>1, <1>1, <1>2, <1>3, <1>6 DEF HashesTell
<1> QED
  BY <1>1, <1>5, <1>6

\* An operator as it was given stands for itself.
LEMMA GivenStandsForItself ==
  ASSUME Static, NEW c, ClassesOfGiven(c), NEW i \in Placed(g)
  PROVE  StandsFor(g.instr[i], i, c)
<1>1. CASE i \in BinaryOps
  <2> DEFINE x == g.instr[i]
  <2>1. x \in Expressions /\ x.args \in Usable(g) \X Usable(g)
        /\ Hash(x, 0) = GivenHash(i)
    BY <1>1, OperatorFacts
  <2>2. DOMAIN x.args = {1, 2} /\ x.args[1] \in Values /\ x.args[2] \in Values
    BY <2>1, GivenFacts
  <2>3. Hash(x, 0) = c[i]
    BY <2>1 DEF ClassesOfGiven
  <2> QED
    BY <2>1, <2>2, <2>3 DEF StandsFor
<1>2. CASE i \notin BinaryOps
  BY <1>2, OperatorFacts DEF StandsFor
<1> QED
  BY <1>1, <1>2

------------------------------------------------------------------------------
(* Steps that leave the code alone *)

LEMMA GivenStays ==
  ASSUME UNCHANGED g
  PROVE  /\ \A i : GivenHash(i)' = GivenHash(i)
         /\ \A b : Operators(b)' = Operators(b)
         /\ BinaryOps' = BinaryOps
         /\ \A b : Joins(b)' = Joins(b)
         /\ Expressions' = Expressions
         /\ Telling' <=> Telling
<1>1. \A i : GivenHash(i)' = GivenHash(i)
  BY DEF GivenHash
<1>2. \A b : Operators(b)' = Operators(b)
  BY DEF Operators
<1>3. BinaryOps' = BinaryOps
  BY DEF BinaryOps, Operators
<1>4. \A b : Joins(b)' = Joins(b)
  BY DEF Joins
<1>5. Expressions' = Expressions
  BY DEF Expressions, Operators, Joins
<1>6. Telling' <=> Telling
  <2>1. JoinsComputeLast' <=> JoinsComputeLast
    BY DEF JoinsComputeLast, Operators, Joins
  <2>2. HashesTell' <=> HashesTell
    BY <1>5 DEF HashesTell, Alike
  <2> QED
    BY <2>1, <2>2 DEF Telling
<1> QED
  BY <1>1, <1>2, <1>3, <1>4, <1>5, <1>6

LEMMA NotionsStay ==
  ASSUME UNCHANGED g
  PROVE  /\ \A l, h, D : FirstWith(l, h, D)' <=> FirstWith(l, h, D)
         /\ \A i, b : Dispensable(i, b)' <=> Dispensable(i, b)
         /\ \A x, h : Given(x, h)' <=> Given(x, h)
         /\ \A c : ClassesOfGiven(c)' <=> ClassesOfGiven(c)
         /\ \A x, i, c : StandsFor(x, i, c)' <=> StandsFor(x, i, c)
<1>1. \A l, h, D : FirstWith(l, h, D)' <=> FirstWith(l, h, D)
  BY DEF FirstWith, GivenHash
<1>2. \A i, b : Dispensable(i, b)' <=> Dispensable(i, b)
  BY DEF Dispensable, GivenHash, Joins
<1>3. \A x, h : Given(x, h)' <=> Given(x, h)
  BY DEF Given, GivenHash
<1>4. \A c : ClassesOfGiven(c)' <=> ClassesOfGiven(c)
  BY DEF ClassesOfGiven, GivenHash
<1>5. \A x, i, c : StandsFor(x, i, c)' <=> StandsFor(x, i, c)
  BY GivenStays DEF StandsFor
<1> QED
  BY <1>1, <1>2, <1>3, <1>4, <1>5

\* What may happen to the step a run is in.
Onward ==
  /\ step' \in {"available", "anticipated"} => step \in {"available", "anticipated"}
  /\ step' = "available" => step = "available"
  /\ step' = "insert" => step \in {"available", "anticipated", "insert"}

LEMMA CodeLeftAlone ==
  ASSUME NEW c, LeadInv(c), UNCHANGED <<g, tree, instr, order>>, Onward
  PROVE  Static' /\ ClassesOfGiven(c)' /\ Layouts' /\ Records(c)' /\ Untouched'
<1>1. Static'
  BY DEF LeadInv, Static
<1>2. ClassesOfGiven(c)'
  BY NotionsStay DEF LeadInv
<1>3. Layouts'
  <2>1. \A k, l, b : Earlier(k, l, b)' <=> Earlier(k, l, b)
    BY DEF Earlier, Operators
  <2> QED
    BY <2>1, NotionsStay DEF LeadInv, Layouts
<1>4. Records(c)'
  BY NotionsStay, GivenStays DEF LeadInv, Records
<1>5. Untouched'
  BY DEF LeadInv, Untouched, Onward, Used
<1> QED
  BY <1>1, <1>2, <1>3, <1>4, <1>5

LEMMA LeadersLeftAlone ==
  ASSUME NEW c, LeadInv(c), UNCHANGED <<g, tree, instr, order, computed, availIn, availOut>>,
         Onward, step' # "available" => computed = Blocks
  PROVE  Available(c)'
<1>1. \A l, h, b : Merged(l, h, b, c)' <=> Merged(l, h, b, c)
  BY GivenStays DEF Merged, Live
<1> QED
  BY <1>1, NotionsStay, GivenStays DEF LeadInv, Available, Onward

LEMMA TablesLeftAlone ==
  ASSUME NEW c, LeadInv(c), Onward, step' # "available" => computed = Blocks,
         UNCHANGED <<g, tree, instr, order, computed, availIn, availOut, antIn, antOut>>
  PROVE  /\ Static' /\ Tables' /\ ClassesOfGiven(c)' /\ Available(c)' /\ Anticipated'
         /\ Layouts' /\ Records(c)' /\ Untouched'
<1>1. Anticipated'
  BY NotionsStay DEF LeadInv, Anticipated
<1>2. Tables'
  BY DEF LeadInv, Tables, IsTable
<1> QED
  BY <1>1, <1>2, CodeLeftAlone, LeadersLeftAlone

LEMMA LocalsLeftAlone ==
  ASSUME NEW c, LeadInv(c), UNCHANGED <<g, instr, order, coming, next, block, local>>,
         step' = "eliminate" => step = "eliminate", Onward
  PROVE  EliminatingIn(c)'
<1>1. \A k, l, b : Earlier(k, l, b)' <=> Earlier(k, l, b)
  BY DEF Earlier, Operators
<1>2. \A v, h : LocalLeader(v, h, c)' <=> LocalLeader(v, h, c)
  BY <1>1, NotionsStay DEF LocalLeader
<1>3. Working(c)' <=> Working(c)
  BY <1>1, <1>2 DEF Working
<1> QED
  BY <1>3 DEF LeadInv, EliminatingIn, Onward

LEMMA JoinsAreBlocks ==
  ASSUME Static, NEW b, Joins(b)
  PROVE  b \in Blocks
<1>1. g.succ \in CFGs
  BY GivenFacts
<1>2. SUFFICES ASSUME b \notin Blocks
               PROVE  FALSE
  OBVIOUS
<1>3. Preds(g.succ, b) = {}
  BY <1>1, <1>2 DEF Preds, CFGs, NonEntry
<1> QED
  BY <1>3, FS_EmptySet DEF Joins

\* The steps that change nothing but where the loops are.
QuietSteps ==
  \/ StartAnticipated \/ AnticipateAgain \/ FinishAnticipated
  \/ InsertInto \/ (\E h \in todo : AlreadyRedundant(h) \/ LosePhi(h) \/ NotRedundant(h))
  \/ InsertAgain \/ FinishInsert
  \/ EliminateIn \/ LoseLeader \/ FinishEliminate \/ UNCHANGED preVars

LEMMA QuietStepsKeepLeaders ==
  ASSUME NEW c, LeadInv(c), QuietSteps
  PROVE  LeadInv(c)'
<1> DEFINE Tables8 ==
             /\ Static' /\ Tables' /\ ClassesOfGiven(c)' /\ Available(c)' /\ Anticipated'
             /\ Layouts' /\ Records(c)' /\ Untouched'
<1>a. step # "available" => computed = Blocks
  BY DEF LeadInv, Available
<1>t. ASSUME UNCHANGED <<given, code, available, antIn, antOut>>, Onward,
             step' # "available" => computed = Blocks
      PROVE  Tables8
  BY <1>t, TablesLeftAlone DEF given, code, available
<1> HIDE DEF Tables8
<1>s. ASSUME UNCHANGED <<given, code, available, antIn, antOut, step>>
      PROVE  Tables8
  BY <1>s, <1>t, <1>a DEF Onward
<1>q. ASSUME Tables8, InsertingAt', EliminatingIn(c)'
      PROVE  LeadInv(c)'
  BY <1>q DEF LeadInv, Tables8
<1>i. ASSUME UNCHANGED <<antIn, block, g>>, todo' \subseteq todo,
             step \in {"insert", "undefined"} => step' \in {"insert", "undefined"}
      PROVE  InsertingAt'
  BY <1>i, GivenStays DEF LeadInv, InsertingAt
<1>l. ASSUME UNCHANGED <<given, code, coming, block, eliminating>>,
             step' = "eliminate" => step = "eliminate", Onward
      PROVE  EliminatingIn(c)'
  BY <1>l, LocalsLeftAlone DEF given, code, eliminating
<1>1. CASE StartAnticipated
  <2>1. Tables8
    BY <1>1, <1>t DEF StartAnticipated, Onward
  <2>2. InsertingAt'
    BY <1>1 DEF StartAnticipated, InsertingAt, inserting, LeadInv
  <2>3. EliminatingIn(c)'
    BY <1>1, <1>l DEF StartAnticipated, Onward
  <2> QED
    BY <2>1, <2>2, <2>3, <1>q
<1>2. CASE AnticipateAgain
  <2>1. Tables8
    BY <1>2, <1>s DEF AnticipateAgain, anticipating
  <2>2. InsertingAt'
    BY <1>2, <1>i DEF AnticipateAgain, given, anticipating, inserting
  <2>3. EliminatingIn(c)'
    BY <1>2, <1>l DEF AnticipateAgain, Onward
  <2> QED
    BY <2>1, <2>2, <2>3, <1>q
<1>3. CASE FinishAnticipated
  <2>1. Tables8
    BY <1>3, <1>t, <1>a DEF FinishAnticipated, Onward, anticipating
  <2>2. InsertingAt'
    BY <1>3 DEF FinishAnticipated, InsertingAt, inserting, LeadInv
  <2>3. EliminatingIn(c)'
    BY <1>3 DEF FinishAnticipated, EliminatingIn, LeadInv, inserting, eliminating
  <2> QED
    BY <2>1, <2>2, <2>3, <1>q
<1>4. CASE InsertInto
  <2>1. Tables8
    BY <1>4, <1>s DEF InsertInto, anticipating
  <2>2. InsertingAt'
    <3>1. /\ block' = Head(coming) /\ UNCHANGED <<g, antIn>> /\ step' = "insert"
          /\ todo' = IF Joins(block') THEN DOMAIN antIn[block'] ELSE {}
      BY <1>4 DEF InsertInto, given, anticipating
    <3>2. \A b : Joins(b)' <=> Joins(b)
      BY <3>1, GivenStays
    <3>3. Joins(Head(coming)) => Head(coming) \in Blocks
      BY JoinsAreBlocks DEF LeadInv
    <3>4. CASE Joins(Head(coming))
      <4>1. todo' = DOMAIN antIn[Head(coming)]
        BY <3>1, <3>4
      <4> QED
        BY <3>1, <3>2, <3>3, <3>4, <4>1 DEF InsertingAt
    <3>5. CASE ~Joins(Head(coming))
      <4>1. todo' = {}
        BY <3>1, <3>5
      <4> QED
        BY <4>1 DEF InsertingAt
    <3> QED
      BY <3>4, <3>5
  <2>3. EliminatingIn(c)'
    BY <1>4 DEF InsertInto, EliminatingIn, LeadInv, inserting, eliminating
  <2> QED
    BY <2>1, <2>2, <2>3, <1>q
<1>5. ASSUME NEW h \in todo, AlreadyRedundant(h)
      PROVE  LeadInv(c)'
  <2>1. Tables8
    BY <1>5, <1>s DEF AlreadyRedundant, anticipating
  <2>2. InsertingAt'
    BY <1>5, <1>i DEF AlreadyRedundant, given, anticipating, inserting
  <2>3. EliminatingIn(c)'
    BY <1>5 DEF AlreadyRedundant, EliminatingIn, LeadInv, inserting, eliminating
  <2> QED
    BY <2>1, <2>2, <2>3, <1>q
<1>6. ASSUME NEW h \in todo, LosePhi(h)
      PROVE  LeadInv(c)'
  <2>1. Tables8
    BY <1>6, <1>t, <1>a DEF LosePhi, Onward, anticipating
  <2>2. InsertingAt'
    BY <1>6, <1>i DEF LosePhi, given, anticipating, inserting
  <2>3. EliminatingIn(c)'
    BY <1>6 DEF LosePhi, EliminatingIn, LeadInv, inserting, eliminating
  <2> QED
    BY <2>1, <2>2, <2>3, <1>q
<1>7. ASSUME NEW h \in todo, NotRedundant(h)
      PROVE  LeadInv(c)'
  <2>1. Tables8
    BY <1>7, <1>s DEF NotRedundant, anticipating, CanInsert
  <2>2. InsertingAt'
    BY <1>7, <1>i DEF NotRedundant, given, anticipating, inserting
  <2>3. EliminatingIn(c)'
    BY <1>7 DEF NotRedundant, EliminatingIn, LeadInv, inserting, eliminating, CanInsert
  <2> QED
    BY <2>1, <2>2, <2>3, <1>q
<1>8. CASE InsertAgain
  <2>1. Tables8
    BY <1>8, <1>s DEF InsertAgain, anticipating
  <2>2. InsertingAt'
    BY <1>8, <1>i DEF InsertAgain, given, anticipating, inserting
  <2>3. EliminatingIn(c)'
    BY <1>8 DEF InsertAgain, EliminatingIn, LeadInv, inserting, eliminating
  <2> QED
    BY <2>1, <2>2, <2>3, <1>q
<1>9. CASE FinishInsert
  <2>1. Tables8
    BY <1>9, <1>t, <1>a DEF FinishInsert, Onward, anticipating
  <2>2. InsertingAt'
    BY <1>9 DEF FinishInsert, InsertingAt, inserting, LeadInv
  <2>3. EliminatingIn(c)'
    <3>1. g.layout \in Seq(Blocks)
      BY GivenFacts DEF WellFormedCut, LeadInv
    <3> QED
      BY <1>9, <3>1 DEF FinishInsert, EliminatingIn, LeadInv, given, eliminating
  <2> QED
    BY <2>1, <2>2, <2>3, <1>q
<1>10. CASE EliminateIn
  <2>1. Tables8
    BY <1>10, <1>s DEF EliminateIn, anticipating
  <2>2. InsertingAt'
    BY <1>10 DEF EliminateIn, InsertingAt, inserting, LeadInv
  <2>3. EliminatingIn(c)'
    <3>1. /\ block' = Head(coming) /\ coming' = Tail(coming) /\ next' = order[block']
          /\ local' = NoLeaders /\ coming \in Seq(Blocks) /\ coming # << >>
          /\ step = "eliminate" /\ UNCHANGED <<g, instr, order, step>>
      BY <1>10 DEF EliminateIn, EliminatingIn, LeadInv, given, code
    <3>2. Head(coming) \in Blocks /\ Tail(coming) \in Seq(Blocks)
      BY <3>1, Beheaded
    <3>3. \A k, l, b : Earlier(k, l, b)' <=> Earlier(k, l, b)
      BY <3>1 DEF Earlier, Operators
    <3>4. DOMAIN local' = {}
      BY <3>1 DEF NoLeaders
    <3>5. /\ order \in [Blocks -> Seq(Instrs)]
          /\ Distinct(order[Head(coming)])
          /\ \A k \in DOMAIN order[Head(coming)] : \A j \in 1..(k - 1) :
               Earlier(order[Head(coming)][j], order[Head(coming)][k], Head(coming))
      BY <3>2 DEF LeadInv, Layouts
    <3>6. Working(c)'
      BY <3>1, <3>2, <3>3, <3>4, <3>5 DEF Working
    <3> QED
      BY <3>1, <3>2, <3>5, <3>6 DEF EliminatingIn
  <2> QED
    BY <2>1, <2>2, <2>3, <1>q
<1>11. CASE LoseLeader
  <2>1. Tables8
    BY <1>11, <1>t, <1>a DEF LoseLeader, Onward, anticipating
  <2>2. InsertingAt'
    BY <1>11 DEF LoseLeader, InsertingAt, inserting, LeadInv
  <2>3. EliminatingIn(c)'
    BY <1>11 DEF LoseLeader, EliminatingIn, LeadInv, inserting, eliminating
  <2> QED
    BY <2>1, <2>2, <2>3, <1>q
<1>12. CASE FinishEliminate
  <2>1. Tables8
    BY <1>12, <1>t, <1>a DEF FinishEliminate, Onward, anticipating
  <2>2. InsertingAt'
    BY <1>12 DEF FinishEliminate, InsertingAt, inserting, LeadInv
  <2>3. EliminatingIn(c)'
    BY <1>12 DEF FinishEliminate, EliminatingIn, LeadInv, inserting, eliminating
  <2> QED
    BY <2>1, <2>2, <2>3, <1>q
<1>13. CASE UNCHANGED preVars
  <2>1. Tables8
    BY <1>13, <1>s DEF preVars, given, code, available
  <2>2. InsertingAt'
    BY <1>13, <1>i DEF preVars
  <2>3. EliminatingIn(c)'
    BY <1>13, <1>l DEF preVars, given, code, eliminating, Onward
  <2> QED
    BY <2>1, <2>2, <2>3, <1>q
<1> QED
  BY <1>1, <1>2, <1>3, <1>4, <1>5, <1>6, <1>7, <1>8, <1>9, <1>10, <1>11, <1>12, <1>13 DEF QuietSteps

------------------------------------------------------------------------------
(* computeAvailable and getAnticipated *)

LEMMA FirstOfFacts ==
  ASSUME NEW s \in Seq(Instrs), instr = g.instr
  PROVE  /\ DOMAIN FirstOf(s) = {GivenHash(i) : i \in ToSet(s)}
         /\ \A h \in DOMAIN FirstOf(s) : \E m \in 1..Len(s) :
              /\ FirstOf(s)[h] = s[m] /\ GivenHash(s[m]) = h
              /\ \A n \in 1..(m - 1) : GivenHash(s[n]) # h
<1>1. \A i : HashOf(i) = GivenHash(i)
  BY DEF HashOf, GivenHash
<1>2. DOMAIN FirstOf(s) = {HashOf(s[k]) : k \in 1..Len(s)}
  BY DEF FirstOf
<1>3. {HashOf(s[k]) : k \in 1..Len(s)} = {GivenHash(i) : i \in ToSet(s)}
  BY <1>1, Elements
<1>4. ASSUME NEW h \in DOMAIN FirstOf(s)
      PROVE  \E m \in 1..Len(s) :
               /\ FirstOf(s)[h] = s[m] /\ GivenHash(s[m]) = h
               /\ \A n \in 1..(m - 1) : GivenHash(s[n]) # h
  <2> DEFINE First(k) == HashOf(s[k]) = h /\ \A n \in 1..(k - 1) : HashOf(s[n]) # h
             T == {k \in 1..Len(s) : HashOf(s[k]) = h}
  <2>1. T \in SUBSET Nat /\ T # {} /\ Len(s) \in Nat
    BY <1>2, <1>4, LenProperties
  <2>2. PICK m \in T : \A k \in T : m <= k
    BY <2>1, LeastNatural
  <2>3. m \in 1..Len(s) /\ First(m)
    BY <2>1, <2>2
  <2>4. FirstOf(s)[h] = s[CHOOSE k \in 1..Len(s) : First(k)]
    BY <1>2, <1>4 DEF FirstOf
  <2> DEFINE w == CHOOSE k \in 1..Len(s) : First(k)
  <2>5. w \in 1..Len(s) /\ First(w)
    BY <2>3
  <2> HIDE DEF w
  <2>6. FirstOf(s)[h] = s[w]
    BY <2>4 DEF w
  <2> QED
    BY <2>5, <2>6, <1>1
<1> QED
  BY <1>2, <1>3, <1>4

\* The tree the pass walks.
LEMMA ParentFacts ==
  ASSUME Static, NEW b \in Blocks, b # Entry, NEW q \in Blocks, <<q, b>> \in tree
  PROVE  /\ Parent(tree, b) = q
         /\ Dominators(g.succ, q) = StrictDominators(g.succ, b)
<1>1. g.succ \in CFGs /\ Reachable(g.succ) = Blocks /\ tree = TreeEdges(g.succ)
  BY GivenFacts DEF Static
<1>2. ASSUME NEW p \in Blocks, <<p, b>> \in tree
      PROVE  Dominators(g.succ, p) = StrictDominators(g.succ, b)
  <2>1. <<p, b>> \in IDomEdges(g.succ)
    BY <1>1, <1>2 DEF TreeEdges
  <2>2. /\ p # b /\ <<p, b>> \in Dominance(g.succ)
        /\ \A j \in Blocks \ {b} :
             <<j, b>> \in Dominance(g.succ) => <<j, p>> \in Dominance(g.succ)
    BY <2>1 DEF IDomEdges
  <2>3. p \in StrictDominators(g.succ, b)
    BY <2>2 DEF StrictDominators, Dominators
  <2>4. Dominators(g.succ, p) \subseteq StrictDominators(g.succ, b)
    BY <1>1, <2>3, DominatorsShrink
  <2> QED
    BY <2>2, <2>4 DEF StrictDominators, Dominators
<1>3. ASSUME NEW p \in Blocks, <<p, b>> \in tree
      PROVE  p = q
  <2>1. Dominators(g.succ, p) = Dominators(g.succ, q)
    BY <1>2, <1>3
  <2>2. <<p, q>> \in Dominance(g.succ) /\ <<q, p>> \in Dominance(g.succ)
    BY <2>1, <1>1, DominatesItself DEF Dominators
  <2> QED
    BY <2>2, <1>1, DominanceAntisymmetric
<1>4. Parent(tree, b) = q
  BY <1>3 DEF Parent
<1> QED
  BY <1>2, <1>4

LEMMA NothingAboveEntry ==
  ASSUME Static
  PROVE  StrictDominators(g.succ, Entry) = {}
BY GivenFacts, OnlyEntryDominatesEntry, EntryAssumption DEF StrictDominators, Dominators

LEMMA ComputeAvailableKeepsLeaders ==
  ASSUME NEW c, LeadInv(c), NEW b \in Blocks, ComputeAvailable(b)
  PROVE  LeadInv(c)'
<1> DEFINE in == IF b = Entry THEN NoLeaders ELSE availOut[Parent(tree, b)]
           own == FirstOf(order[b])
           SD == StrictDominators(g.succ, b)
           DB == Dominators(g.succ, b)
<1>1. /\ step = "available" /\ b \notin computed
      /\ b = Entry \/ \E p \in computed : <<p, b>> \in tree
      /\ computed' = computed \cup {b}
      /\ availIn' = [availIn EXCEPT ![b] = in]
      /\ availOut' = [availOut EXCEPT ![b] = Extended(in, own)]
      /\ UNCHANGED <<given, walk, code, step, anticipating, change, inserting, coming, block,
                     eliminating>>
  BY DEF ComputeAvailable
<1>2. /\ UNCHANGED <<g, tree, instr, order, step, antIn, antOut, todo, coming, block, next, local>>
      /\ Onward
  BY <1>1 DEF given, code, anticipating, inserting, eliminating, Onward
<1>3. Static /\ computed \subseteq Blocks /\ instr = g.instr /\ order = g.order
      /\ Tables /\ order[b] \in Seq(Instrs)
  BY <1>1, GivenFacts DEF LeadInv, Available, Untouched
<1>4. SD \subseteq DB /\ b \in DB /\ DB = SD \cup {b} /\ b \notin SD /\ SD \subseteq Blocks
  BY <1>3, GivenFacts, DominatesItself DEF StrictDominators, Dominators
<1>5. /\ \A d \in SD : \A j \in ToSet(g.order[d]) : GivenHash(j) \in DOMAIN in
      /\ \A h \in DOMAIN in : FirstWith(in[h], h, SD)
  <2>1. CASE b = Entry
    <3>1. SD = {}
      BY <2>1, <1>3, NothingAboveEntry
    <3>2. DOMAIN in = {}
      BY <2>1 DEF NoLeaders
    <3> QED
      BY <3>1, <3>2
  <2>2. CASE b # Entry
    <3>1. PICK p \in computed : <<p, b>> \in tree
      BY <2>2, <1>1
    <3>2. Parent(tree, b) = p /\ Dominators(g.succ, p) = SD
      BY <3>1, <2>2, <1>3, ParentFacts
    <3>3. in = availOut[p]
      BY <3>2, <2>2
    <3>4. /\ \A d \in SD : \A j \in ToSet(g.order[d]) : GivenHash(j) \in DOMAIN availOut[p]
          /\ \A h \in DOMAIN availOut[p] : FirstWith(availOut[p][h], h, SD)
      BY <3>2, <1>1 DEF LeadInv, Available
    <3> QED
      BY <3>3, <3>4
  <2> QED
    BY <2>1, <2>2
<1>6. /\ DOMAIN own = {GivenHash(i) : i \in ToSet(g.order[b])}
      /\ \A h \in DOMAIN own : \E m \in 1..Len(g.order[b]) :
              /\ own[h] = g.order[b][m] /\ GivenHash(g.order[b][m]) = h
              /\ \A n \in 1..(m - 1) : GivenHash(g.order[b][n]) # h
  <2> DEFINE s == order[b]
  <2>1. s \in Seq(Instrs) /\ s = g.order[b] /\ own = FirstOf(s)
    BY <1>3
  <2> HIDE DEF s, own
  <2>2. /\ DOMAIN FirstOf(s) = {GivenHash(i) : i \in ToSet(s)}
        /\ \A h \in DOMAIN FirstOf(s) : \E m \in 1..Len(s) :
             /\ FirstOf(s)[h] = s[m] /\ GivenHash(s[m]) = h
             /\ \A n \in 1..(m - 1) : GivenHash(s[n]) # h
    BY <2>1, <1>3, FirstOfFacts
  <2> QED
    BY <2>1, <2>2
<1> HIDE DEF in, own, SD, DB
<1> DEFINE out == Extended(in, own)
<1>7. /\ \A d \in DB : \A j \in ToSet(g.order[d]) : GivenHash(j) \in DOMAIN out
      /\ DOMAIN out = DOMAIN in \cup DOMAIN own
  BY <1>4, <1>5, <1>6 DEF Extended
<1>8. ASSUME NEW h \in DOMAIN out
      PROVE  FirstWith(out[h], h, DB)
  <2>1. CASE h \in DOMAIN in
    <3>1. out[h] = in[h]
      BY <2>1, <1>7 DEF Extended
    <3>2. FirstWith(in[h], h, SD)
      BY <2>1, <1>5
    <3> QED
      BY <3>1, <3>2, <1>4 DEF FirstWith
  <2>2. CASE h \notin DOMAIN in
    <3>1. out[h] = own[h] /\ h \in DOMAIN own
      BY <2>2, <1>7, <1>8 DEF Extended
    <3>2. PICK m \in 1..Len(g.order[b]) :
              /\ own[h] = g.order[b][m] /\ GivenHash(g.order[b][m]) = h
              /\ \A n \in 1..(m - 1) : GivenHash(g.order[b][n]) # h
      BY <3>1, <1>6
    <3>3. \A e \in SD : \A j \in ToSet(g.order[e]) : GivenHash(j) # h
      BY <2>2, <1>5
    <3>4. m \in DOMAIN g.order[b]
      BY <1>3, LenProperties
    <3> QED
      BY <3>1, <3>2, <3>3, <3>4, <1>4 DEF FirstWith, SD
  <2> QED
    BY <2>1, <2>2
<1> HIDE DEF out
<1>9. /\ availIn = [d \in Blocks |-> availIn[d]] /\ availOut = [d \in Blocks |-> availOut[d]]
  BY <1>3 DEF Tables, IsTable
<1>10. /\ availIn' = [availIn EXCEPT ![b] = in] /\ availOut' = [availOut EXCEPT ![b] = out]
       /\ \A d \in Blocks : availIn'[d] = IF d = b THEN in ELSE availIn[d]
       /\ \A d \in Blocks : availOut'[d] = IF d = b THEN out ELSE availOut[d]
       /\ IsTable(availIn)' /\ IsTable(availOut)'
  <2>1. availIn' = [availIn EXCEPT ![b] = in] /\ availOut' = [availOut EXCEPT ![b] = out]
    BY <1>1 DEF in, own, out
  <2> QED
    BY <2>1, <1>9 DEF IsTable
<1>11. Available(c)'
  <2>1. \A l, h, D : FirstWith(l, h, D)' <=> FirstWith(l, h, D)
    BY <1>2, NotionsStay
  <2>2. \A i : GivenHash(i)' = GivenHash(i)
    BY <1>2, GivenStays
  <2>3. \A l, h, d : Merged(l, h, d, c)' <=> Merged(l, h, d, c)
    BY <1>2, GivenStays DEF Merged, Live
  <2>4. \A d \in Blocks : \A h \in DOMAIN availIn'[d] :
          \/ FirstWith(availIn'[d][h], h, StrictDominators(g.succ, d))
          \/ Merged(availIn'[d][h], h, d, c)
    BY <1>5, <1>10 DEF LeadInv, Available, SD
  <2>5. \A q \in computed' : \A d \in Dominators(g.succ, q) : \A j \in ToSet(g.order[d]) :
          GivenHash(j) \in DOMAIN availOut'[q]
    BY <1>1, <1>3, <1>7, <1>10 DEF LeadInv, Available, DB
  <2>6. \A q \in computed' : \A h \in DOMAIN availOut'[q] :
          FirstWith(availOut'[q][h], h, Dominators(g.succ, q))
    BY <1>1, <1>3, <1>8, <1>10 DEF LeadInv, Available, DB
  <2>7. computed' \subseteq Blocks /\ step' = "available"
    BY <1>1, <1>2, <1>3
  <2> QED
    BY <1>2, <2>1, <2>2, <2>3, <2>4, <2>5, <2>6, <2>7 DEF Available
<1>12. Tables' /\ Anticipated'
  BY <1>2, <1>10, NotionsStay DEF LeadInv, Tables, IsTable, Anticipated
<1>13. InsertingAt'
  BY <1>2, GivenStays DEF LeadInv, InsertingAt
<1>14. EliminatingIn(c)'
  BY <1>2, LocalsLeftAlone
<1> QED
  BY <1>2, <1>11, <1>12, <1>13, <1>14, CodeLeftAlone DEF LeadInv

\* What getAnticipated makes known at the end of b.
LEMMA AnticipatedOutFacts ==
  ASSUME NEW c, LeadInv(c), NEW b \in Blocks, NEW h \in DOMAIN AnticipatedOut(b)
  PROVE  Given(AnticipatedOut(b)[h], h)
<1>1. CASE Cardinality(g.succ[b]) <= 1
  BY <1>1 DEF AnticipatedOut, LeadInv, Anticipated
<1>2. CASE ~(Cardinality(g.succ[b]) <= 1)
  <2> DEFINE Low(u) == \A d \in g.succ[b] : u <= d
             first == CHOOSE u \in g.succ[b] : Low(u)
             common == {k \in DOMAIN antIn[first] : \A u \in g.succ[b] : k \in DOMAIN antIn[u]}
  <2>1. g.succ[b] \in SUBSET Blocks
    BY GivenFacts DEF LeadInv, CFGs, NonEntry
  <2>2. g.succ[b] # {}
    BY <1>2, FS_EmptySet
  <2>3. \E u \in g.succ[b] : Low(u)
    <3> DEFINE S == g.succ[b]
    <3>1. S \in SUBSET Nat /\ S # {}
      BY <2>1, <2>2, NumbersAssumption
    <3> HIDE DEF S
    <3>2. \E u \in S : \A d \in S : u <= d
      BY <3>1, LeastNatural
    <3> QED
      BY <3>2 DEF S
  <2>4. first \in Blocks
    BY <2>1, <2>3
  <2>5. AnticipatedOut(b) = [k \in common |-> antIn[first][k]]
    BY <1>2 DEF AnticipatedOut
  <2> HIDE DEF first
  <2>6. h \in DOMAIN antIn[first] /\ AnticipatedOut(b)[h] = antIn[first][h]
    BY <2>5
  <2> QED
    BY <2>4, <2>6 DEF LeadInv, Anticipated
<1> QED
  BY <1>1, <1>2

LEMMA AnticipateKeepsLeaders ==
  ASSUME NEW c, LeadInv(c), Anticipate
  PROVE  LeadInv(c)'
<1> DEFINE b == Head(queue)
           out == AnticipatedOut(b)
           own == FirstExpressions(b)
           in == Extended(Extended(antIn[b], out), own)
<1>1. /\ step = "anticipated"
      /\ antOut' = [antOut EXCEPT ![b] = out] /\ antIn' = [antIn EXCEPT ![b] = in]
      /\ UNCHANGED <<given, walk, code, step, available, inserting, coming, block, eliminating>>
  BY DEF Anticipate
<1>2. /\ UNCHANGED <<g, tree, instr, order, step, computed, availIn, availOut, todo, coming,
                     block, next, local>>
      /\ Onward
  BY <1>1 DEF given, code, available, inserting, eliminating, Onward
<1>3. Static /\ Tables /\ Anticipated /\ instr = g.instr /\ order = g.order /\ computed = Blocks
  BY <1>1 DEF LeadInv, Untouched, Available
<1>4. ASSUME b \in Blocks, NEW h \in DOMAIN out
      PROVE  Given(out[h], h)
  <2> DEFINE q == b
  <2>1. q \in Blocks /\ h \in DOMAIN AnticipatedOut(q)
    BY <1>4
  <2> HIDE DEF q
  <2>2. Given(AnticipatedOut(q)[h], h)
    BY <2>1, AnticipatedOutFacts
  <2> QED
    BY <2>2 DEF q
<1>5. ASSUME b \in Blocks, NEW h \in DOMAIN own
      PROVE  Given(own[h], h)
  <2> DEFINE s == g.order[b]
  <2>1. s \in Seq(Instrs) /\ ToSet(s) \subseteq Placed(g)
    BY <1>3, <1>5, GivenFacts
  <2>2. h \in DOMAIN FirstOf(s) /\ own[h] = FirstOf(s)[h] /\ IsExpression(g.instr[FirstOf(s)[h]])
    BY <1>3, <1>5 DEF FirstExpressions
  <2> HIDE DEF s, own
  <2>f. \A k \in DOMAIN FirstOf(s) : \E m \in 1..Len(s) :
          FirstOf(s)[k] = s[m] /\ GivenHash(s[m]) = k
    BY <2>1, <1>3, FirstOfFacts
  <2>3. PICK m \in 1..Len(s) : FirstOf(s)[h] = s[m] /\ GivenHash(s[m]) = h
    BY <2>2, <2>f
  <2>4. s[m] \in Placed(g)
    BY <2>1, Elements
  <2> QED
    BY <2>2, <2>3, <2>4 DEF Given
<1> HIDE DEF out, own, b
<1>6. ASSUME b \in Blocks, NEW h \in DOMAIN in
      PROVE  Given(in[h], h)
  <2>1. \A k \in DOMAIN antIn[b] : Given(antIn[b][k], k)
    BY <1>3, <1>6 DEF Anticipated
  <2> QED
    BY <2>1, <1>4, <1>5, <1>6 DEF Extended
<1> HIDE DEF in
<1>7. /\ antIn' = [d \in Blocks |-> IF d = b THEN in ELSE antIn[d]]
      /\ antOut' = [d \in Blocks |-> IF d = b THEN out ELSE antOut[d]]
  BY <1>1, <1>3 DEF Tables, IsTable
<1>8. Tables'
  BY <1>2, <1>3, <1>7 DEF Tables, IsTable
<1>9. Anticipated'
  <2>1. \A d \in Blocks : \A h \in DOMAIN antIn'[d] : Given(antIn'[d][h], h)
    BY <1>3, <1>6, <1>7 DEF Anticipated
  <2>2. \A d \in Blocks : \A h \in DOMAIN antOut'[d] : Given(antOut'[d][h], h)
    BY <1>3, <1>4, <1>7 DEF Anticipated
  <2> QED
    BY <1>2, <2>1, <2>2, NotionsStay DEF Anticipated
<1>10. InsertingAt'
  BY <1>1, <1>2 DEF LeadInv, InsertingAt
<1>11. EliminatingIn(c)'
  BY <1>2, LocalsLeftAlone
<1>12. Available(c)'
  BY <1>2, <1>3, LeadersLeftAlone
<1> QED
  BY <1>2, <1>8, <1>9, <1>10, <1>11, <1>12, CodeLeftAlone DEF LeadInv

LEMMA PREInitLeaders ==
  ASSUME PREInit
  PROVE  \E c : LeadInv(c)
<1>1. Static
  BY DEF PREInit, Static
<1>2. /\ instr = g.instr /\ order = g.order /\ step = "available" /\ computed = {}
      /\ todo = {} /\ next = << >>
      /\ availIn = [b \in Blocks |-> NoLeaders] /\ availOut = availIn
      /\ antIn = availIn /\ antOut = availIn
  BY DEF PREInit
<1> DEFINE c == [v \in Values |-> IF v \in Placed(g) THEN GivenHash(v) ELSE <<"itself", v, v>>]
<1>3. ClassesOfGiven(c)
  <2>1. Placed(g) \subseteq Values
    BY <1>1, GivenFacts DEF Usable
  <2>2. \A a \in Args : a \in Values /\ a \notin Placed(g)
    BY <1>1, GivenFacts, ArgsAssumption, BoundsAssumption DEF Values, Instrs
  <2>3. \A v \in Values : c[v] = IF v \in Placed(g) THEN GivenHash(v) ELSE <<"itself", v, v>>
    OBVIOUS
  <2>4. c = [v \in Values |-> c[v]]
    OBVIOUS
  <2> HIDE DEF c
  <2> QED
    BY <2>1, <2>2, <2>3, <2>4 DEF ClassesOfGiven
<1> HIDE DEF c
<1>4. Tables
  BY <1>2 DEF Tables, IsTable
<1>5. \A b \in Blocks : DOMAIN availIn[b] = {}
  BY <1>2 DEF NoLeaders
<1>6. Available(c)
  BY <1>2, <1>5 DEF Available
<1>7. Anticipated
  BY <1>2, <1>5 DEF Anticipated
<1>8. WellFormedCut(g) /\ Placed(g) \subseteq Instrs /\ g.order \in [Blocks -> Seq(Instrs)]
  BY <1>1, GivenFacts
<1>9. Layouts
  <2>1. ASSUME NEW b \in Blocks, NEW k \in DOMAIN order[b], NEW j \in 1..(k - 1)
        PROVE  Earlier(order[b][j], order[b][k], b)
    <3>1. DOMAIN g.order[b] = 1..Len(g.order[b]) /\ Len(g.order[b]) \in Nat
      BY <1>8, LenProperties
    <3>2. j \in DOMAIN g.order[b] /\ j < k
      BY <3>1, <1>2
    <3> QED
      BY <3>2, <1>2 DEF Earlier
  <2>2. \A b \in Blocks : Distinct(order[b])
    BY <1>1, <1>2, GivenFacts
  <2> QED
    BY <1>2, <1>8, <2>1, <2>2 DEF Layouts
<1>10. \A i \in Instrs : i \notin Placed(g) => ~IsBinaryOp(g.instr[i])
  BY <1>8 DEF WellFormedCut, IsBinaryOp
<1>11. g.instr = [i \in Instrs |-> g.instr[i]]
  BY <1>8 DEF WellFormedCut
<1>12. \A i \in Instrs : StandsFor(g.instr[i], i, c)
  BY <1>1, <1>3, <1>10, GivenStandsForItself DEF StandsFor
<1>13. Records(c)
  <2>1. \A b \in Blocks : ToSet(order[b]) \subseteq Placed(g)
    BY <1>1, <1>2, GivenFacts
  <2> QED
    BY <1>2, <1>11, <1>12, <2>1 DEF Records
<1>14. Untouched
  <2>1. \A b \in Blocks : ToSet(order[b]) \subseteq Used
    BY <1>1, <1>2, <1>8, GivenFacts, OperatorFacts DEF Used
  <2>2. \A i \in Instrs : IsBinaryOp(instr[i]) =>
            instr[i].args[1] \in Usable(g) /\ instr[i].args[2] \in Usable(g)
    BY <1>1, <1>2, <1>10, OperatorFacts
  <2> QED
    BY <1>2, <2>1, <2>2 DEF Untouched
<1>15. InsertingAt /\ EliminatingIn(c)
  BY <1>2 DEF InsertingAt, EliminatingIn
<1> QED
  BY <1>1, <1>3, <1>4, <1>6, <1>7, <1>9, <1>13, <1>14, <1>15 DEF LeadInv

------------------------------------------------------------------------------
(* insert *)

\* A sequence with something new in front of it, and something else behind.
Surround(A, a, s, Z, z) ==
  (IF A THEN <<a>> ELSE << >>) \o s \o (IF Z THEN <<z>> ELSE << >>)

LEMMA Surrounded ==
  ASSUME NEW S, NEW s \in Seq(S), NEW a \in S, NEW z \in S, NEW A \in BOOLEAN, NEW Z \in BOOLEAN,
         A => a \notin ToSet(s), Z => z \notin ToSet(s), A /\ Z => a # z, Distinct(s)
  PROVE  LET t == Surround(A, a, s, Z, z)
         IN  /\ t \in Seq(S) /\ Distinct(t)
             /\ ToSet(t) = ToSet(s) \cup (IF A THEN {a} ELSE {}) \cup (IF Z THEN {z} ELSE {})
             /\ \A k \in DOMAIN t : \A j \in 1..(k - 1) :
                  \/ A /\ t[j] = a
                  \/ Z /\ t[k] = z
                  \/ \E n \in DOMAIN s : \E m \in 1..(n - 1) : t[j] = s[m] /\ t[k] = s[n]
<1> DEFINE p == IF A THEN <<a>> ELSE << >>
           q == IF Z THEN <<z>> ELSE << >>
           m == IF A THEN 1 ELSE 0
           n == IF Z THEN 1 ELSE 0
           u == p \o s
           t == u \o q
<1>1. /\ p \in Seq(S) /\ Len(p) = m /\ (A => p[1] = a)
      /\ q \in Seq(S) /\ Len(q) = n /\ (Z => q[1] = z)
      /\ m \in {0, 1} /\ n \in {0, 1} /\ (A <=> m = 1) /\ (Z <=> n = 1)
  OBVIOUS
<1>2. Len(s) \in Nat
  BY LenProperties
<1> HIDE DEF p, q, m, n
<1>3. /\ u \in Seq(S) /\ Len(u) = m + Len(s)
      /\ \A i \in 1..(m + Len(s)) : u[i] = IF i <= m THEN p[i] ELSE s[i - m]
  BY <1>1, ConcatProperties
<1> HIDE DEF u
<1>4. /\ t \in Seq(S) /\ Len(t) = m + Len(s) + n
      /\ \A i \in 1..(m + Len(s) + n) : t[i] = IF i <= m + Len(s) THEN u[i] ELSE q[i - (m + Len(s))]
  BY <1>1, <1>3, ConcatProperties
<1> HIDE DEF t
<1>5. ASSUME NEW i \in 1..Len(t)
      PROVE  \/ A /\ i = 1 /\ t[i] = a
             \/ i - m \in 1..Len(s) /\ t[i] = s[i - m]
             \/ Z /\ i = Len(t) /\ t[i] = z
  <2>1. CASE i <= m
    <3>1. A /\ i = 1
      BY <2>1, <1>1
    <3>2. t[i] = a
      <4>1. p[1] = a /\ 1 \in 1..(m + Len(s)) /\ 1 <= m /\ 1 \in 1..(m + Len(s) + n)
            /\ 1 <= m + Len(s)
        BY <3>1, <2>1, <1>1, <1>2
      <4>2. u[1] = p[1]
        BY <4>1, <1>3
      <4>3. t[1] = u[1]
        BY <4>1, <1>4
      <4> QED
        BY <3>1, <4>1, <4>2, <4>3
    <3> QED
      BY <3>1, <3>2
  <2>2. CASE i > m /\ i <= m + Len(s)
    <3>1. t[i] = u[i] /\ u[i] = s[i - m] /\ i - m \in 1..Len(s)
      BY <2>2, <1>1, <1>2, <1>3, <1>4
    <3> QED
      BY <3>1
  <2>3. CASE i > m + Len(s)
    <3>1. Z /\ i = m + Len(s) + 1 /\ i = Len(t)
      BY <2>3, <1>1, <1>2, <1>4
    <3>2. t[i] = q[i - (m + Len(s))] /\ i - (m + Len(s)) = 1
      BY <2>3, <3>1, <1>1, <1>2, <1>4
    <3> QED
      BY <3>1, <3>2, <1>1
  <2> QED
    BY <2>1, <2>2, <2>3, <1>1, <1>2, <1>4
<1>6. /\ \A k \in 1..Len(s) : k + m \in 1..Len(t) /\ t[k + m] = s[k]
      /\ A => 1 \in 1..Len(t) /\ t[1] = a
      /\ Z => Len(t) \in 1..Len(t) /\ t[Len(t)] = z
  <2>1. ASSUME NEW k \in 1..Len(s)
        PROVE  k + m \in 1..Len(t) /\ t[k + m] = s[k]
    <3>1. k + m \in 1..(m + Len(s)) /\ k + m > m /\ (k + m) - m = k
      BY <1>1, <1>2
    <3>2. u[k + m] = s[(k + m) - m]
      BY <3>1, <1>1, <1>3
    <3> QED
      BY <3>1, <3>2, <1>1, <1>2, <1>4
  <2>2. A => 1 \in 1..Len(t) /\ t[1] = a
    BY <1>1, <1>2, <1>3, <1>4
  <2>3. ASSUME Z
        PROVE  Len(t) \in 1..Len(t) /\ t[Len(t)] = z
    <3>1. Len(t) = m + Len(s) + 1 /\ Len(t) \in Nat
      BY <2>3, <1>1, <1>2, <1>4
    <3>2. Len(t) - (m + Len(s)) = 1 /\ ~(Len(t) <= m + Len(s))
      BY <3>1, <1>1, <1>2
    <3> QED
      BY <2>3, <3>1, <3>2, <1>1, <1>2, <1>4
  <2> QED
    BY <2>1, <2>2, <2>3
<1>7. \A i \in 1..Len(s) : s[i] \in ToSet(s)
  BY Elements
<1>8. DOMAIN t = 1..Len(t) /\ DOMAIN s = 1..Len(s) /\ Len(t) \in Nat
  BY <1>4, LenProperties
<1>9. Distinct(t)
  <2> SUFFICES ASSUME NEW j \in 1..Len(t), NEW k \in 1..Len(t), t[j] = t[k]
               PROVE  j = k
    BY <1>8 DEF Distinct
  <2>1. ASSUME j - m \in 1..Len(s), k - m \in 1..Len(s), t[j] = s[j - m], t[k] = s[k - m]
        PROVE  j = k
    <3>1. j - m = k - m
      BY <2>1, <1>8 DEF Distinct
    <3> QED
      BY <3>1, <1>1
  <2> QED
    BY <2>1, <1>5, <1>7
<1>10. ToSet(t) = ToSet(s) \cup (IF A THEN {a} ELSE {}) \cup (IF Z THEN {z} ELSE {})
  <2>1. ASSUME NEW x \in ToSet(t)
        PROVE  x \in ToSet(s) \/ (A /\ x = a) \/ (Z /\ x = z)
    <3>1. PICK i \in 1..Len(t) : t[i] = x
      BY <1>4, Elements
    <3> QED
      BY <3>1, <1>5, <1>7
  <2>2. ASSUME NEW x, x \in ToSet(s) \/ (A /\ x = a) \/ (Z /\ x = z)
        PROVE  x \in ToSet(t)
    <3>1. \A i \in 1..Len(t) : t[i] \in ToSet(t)
      BY <1>4, Elements
    <3>2. CASE x \in ToSet(s)
      <4>1. PICK i \in 1..Len(s) : s[i] = x
        BY <3>2, Elements
      <4> QED
        BY <4>1, <3>1, <1>6
    <3> QED
      BY <2>2, <3>1, <3>2, <1>6
  <2> QED
    BY <2>1, <2>2
<1>11. ASSUME NEW k \in DOMAIN t, NEW j \in 1..(k - 1)
       PROVE  \/ A /\ t[j] = a
              \/ Z /\ t[k] = z
              \/ \E y \in DOMAIN s : \E x \in 1..(y - 1) : t[j] = s[x] /\ t[k] = s[y]
  <2>1. k \in 1..Len(t) /\ j \in 1..Len(t) /\ j < k
    BY <1>8
  <2>2. ASSUME j - m \in 1..Len(s), k - m \in 1..Len(s), t[j] = s[j - m], t[k] = s[k - m]
        PROVE  \E y \in DOMAIN s : \E x \in 1..(y - 1) : t[j] = s[x] /\ t[k] = s[y]
    <3>1. k - m \in DOMAIN s /\ j - m \in 1..((k - m) - 1)
      BY <2>1, <2>2, <1>1, <1>8
    <3> QED
      BY <3>1, <2>2
  <2> QED
    BY <2>1, <2>2, <1>5
<1> QED
  BY <1>4, <1>9, <1>10, <1>11 DEF Surround, t, u, p, q

\* The numbers insert gives to copies.
LEMMA NewNumbers ==
  ASSUME NEW L \in SUBSET Blocks
  PROVE  LET first == Max(Used \cup {0}) + 1
             copy == [p \in L |-> first + Cardinality({q \in L : q < p})]
             phi == first + Cardinality(L)
         IN  /\ \A i \in Used : i < first
             /\ first \in Nat /\ phi \in Nat /\ phi >= first
             /\ \A p \in L : copy[p] \in Nat /\ first <= copy[p] /\ copy[p] < phi
             /\ \A p, r \in L : copy[p] = copy[r] => p = r
<1> DEFINE top == Max(Used \cup {0})
           rank(p) == Cardinality({q \in L : q < p})
<1>1. Used \subseteq 1..(N + Fresh) /\ N + Fresh \in Nat
  BY BoundsAssumption DEF Used, Instrs
<1>2. top \in Nat /\ \A i \in Used : i <= top
  <2> DEFINE T == {n \in Nat : \A i \in Used \cup {0} : i <= n}
  <2>1. T \in SUBSET Nat /\ N + Fresh \in T
    BY <1>1
  <2>2. PICK n \in T : \A k \in T : n <= k
    BY <2>1, LeastNatural
  <2>3. n \in Used \cup {0}
    <3>1. SUFFICES ASSUME n \notin Used \cup {0}
                   PROVE  FALSE
      OBVIOUS
    <3>2. n - 1 \in Nat /\ \A i \in Used \cup {0} : i <= n - 1
      BY <3>1, <2>2, <1>1
    <3> QED
      BY <3>2, <2>2
  <2>4. \E x \in Used \cup {0} : \A y \in Used \cup {0} : x >= y
    BY <2>2, <2>3, <1>1
  <2>5. top \in Used \cup {0} /\ \A y \in Used \cup {0} : top >= y
    BY <2>4 DEF Max
  <2> HIDE DEF top
  <2> QED
    BY <2>5, <1>1
<1>3. IsFiniteSet(L) /\ Cardinality(L) \in Nat /\ L \subseteq Nat
  BY BlocksAssumption, NumbersAssumption, FS_Subset, FS_CardinalityType
<1>4. ASSUME NEW p \in L
      PROVE  rank(p) \in Nat /\ rank(p) < Cardinality(L)
  <2>1. {q \in L : q < p} \subseteq L /\ p \notin {q \in L : q < p}
    BY <1>3
  <2>2. IsFiniteSet({q \in L : q < p}) /\ rank(p) \in Nat /\ rank(p) <= Cardinality(L)
        /\ rank(p) # Cardinality(L)
    BY <2>1, <1>3, FS_Subset, FS_CardinalityType
  <2> QED
    BY <2>2, <1>3
<1>5. ASSUME NEW p \in L, NEW r \in L, p < r
      PROVE  rank(p) < rank(r)
  <2> DEFINE P == {q \in L : q < p}
             R == {q \in L : q < r}
  <2>n. \A v \in L : v \in Nat
    BY <1>3
  <2>1. P \subseteq R /\ p \notin P /\ p \in R
    <3>1. ASSUME NEW q \in L, q < p
          PROVE  q < r
      BY <2>n, <3>1, <1>5
    <3>2. P \subseteq R
      BY <3>1
    <3>3. ~(p < p)
      BY <2>n
    <3> QED
      BY <3>2, <3>3, <1>5
  <2>2. IsFiniteSet(R)
    BY <1>3, FS_Subset
  <2>3. Cardinality(P) <= Cardinality(R) /\ Cardinality(P) # Cardinality(R)
    BY <2>1, <2>2, FS_Subset
  <2> QED
    BY <2>3, <1>4
<1>6. ASSUME NEW p \in L, NEW r \in L, rank(p) = rank(r)
      PROVE  p = r
  <2>n. p \in Nat /\ r \in Nat
    BY <1>3
  <2>r. rank(p) \in Nat /\ rank(r) \in Nat
    BY <1>4
  <2>1. p < r => rank(p) < rank(r)
    BY <1>5
  <2>2. r < p => rank(r) < rank(p)
    BY <1>5
  <2> HIDE DEF rank
  <2> QED
    BY <2>n, <2>r, <2>1, <2>2, <1>6
<1> HIDE DEF top, rank
<1> DEFINE first == top + 1
           copy == [p \in L |-> first + rank(p)]
<1>7. \A p \in L : copy[p] = first + rank(p)
  OBVIOUS
<1>8. /\ \A i \in Used : i < first
      /\ first \in Nat /\ first + Cardinality(L) \in Nat /\ first + Cardinality(L) >= first
  BY <1>1, <1>2, <1>3
<1>9. \A p \in L : copy[p] \in Nat /\ first <= copy[p] /\ copy[p] < first + Cardinality(L)
  BY <1>2, <1>3, <1>4, <1>7
<1>10. \A p, r \in L : copy[p] = copy[r] => p = r
  BY <1>2, <1>4, <1>6, <1>7
<1> QED
  BY <1>8, <1>9, <1>10 DEF top, rank

\* What insert finds out about the expression it is to copy.
LEMMA CopyFacts ==
  ASSUME NEW c, LeadInv(c), NEW h \in todo, InsertPhi(h)
  PROVE  LET i == antIn[block][h]
             lacking == Lacking(instr[i])
         IN  /\ step = "insert" /\ block \in Blocks /\ Joins(block)
             /\ i \in BinaryOps /\ GivenHash(i) = h /\ lacking \in SUBSET Blocks
             /\ \A p \in lacking :
                  LET e == Translate(instr, instr[i], p)
                  IN  /\ e \in Expressions /\ IsBinaryOp(e) /\ DOMAIN e.args = {1, 2}
                      /\ e.args[1] \in Usable(g) /\ e.args[2] \in Usable(g)
                      /\ \A d \in Dominators(g.succ, p) : \A j \in ToSet(g.order[d]) :
                           GivenHash(j) # Hash(e, 0)
<1> DEFINE i == antIn[block][h]
           x == instr[i]
           preds == Preds(g.succ, block)
           lacking == Lacking(x)
<1>1. /\ step = "insert" /\ h \in todo /\ lacking # preds
      /\ \A p \in preds : Translatable(instr, x, p)
  BY DEF InsertPhi, CanInsert
<1>2. /\ block \in Blocks /\ Joins(block) /\ h \in DOMAIN antIn[block]
      /\ Static /\ computed = Blocks
      /\ \A k \in Placed(g) : instr[k] = g.instr[k]
  BY <1>1 DEF LeadInv, InsertingAt, Available, Untouched
<1>3. i \in Placed(g) /\ GivenHash(i) = h
  BY <1>2 DEF LeadInv, Anticipated, Given
<1>4. x = g.instr[i]
  BY <1>2, <1>3
<1> HIDE DEF i
<1>5. lacking \subseteq preds /\ preds \subseteq Blocks
  BY DEF Lacking, Preds
<1>6. i \in BinaryOps
  <2>1. PICK p \in preds : p \notin lacking
    BY <1>1, <1>5
  <2>2. HasLeader(Translate(instr, x, p), p)
    BY <2>1 DEF Lacking
  <2>3. IsBinaryOp(x)
    BY <2>2 DEF HasLeader, Translate, IsBinaryOp
  <2> QED
    BY <2>3, <1>2, <1>3, <1>4, OperatorFacts
<1>7. x.args \in Usable(g) \X Usable(g)
  BY <1>2, <1>4, <1>6, OperatorFacts
<1>8. \A a \in Args : a \notin Instrs
  BY ArgsAssumption, BoundsAssumption DEF Instrs
<1>9. ASSUME NEW v \in Usable(g), NEW p
      PROVE  /\ IsPhi(instr, v) <=> IsPhi(g.instr, v)
             /\ IsPhi(g.instr, v) => instr[v] = g.instr[v]
             /\ PhiTranslate(instr, v, p) = PhiTranslate(g.instr, v, p)
  <2>1. CASE v \in Args
    BY <2>1, <1>8 DEF IsPhi, PhiTranslate
  <2>2. CASE v \in Placed(g)
    BY <2>2, <1>2 DEF IsPhi, PhiTranslate
  <2> QED
    BY <2>1, <2>2 DEF Usable
<1>10. DOMAIN x.args = {1, 2} /\ x.args[1] \in Usable(g) /\ x.args[2] \in Usable(g)
  BY <1>7
<1>11. ASSUME NEW p \in lacking
       PROVE  LET e == Translate(instr, x, p)
              IN  /\ e \in Expressions /\ IsBinaryOp(e) /\ DOMAIN e.args = {1, 2}
                  /\ e.args[1] \in Usable(g) /\ e.args[2] \in Usable(g)
                  /\ \A d \in Dominators(g.succ, p) : \A j \in ToSet(g.order[d]) :
                       GivenHash(j) # Hash(e, 0)
  <2> DEFINE e == Translate(instr, x, p)
  <2>1. Translatable(g.instr, x, p)
    <3>1. Translatable(instr, x, p)
      BY <1>1, <1>5
    <3> QED
      BY <3>1, <1>9, <1>10 DEF Translatable
  <2>2. \A k \in DOMAIN x.args :
          PhiTranslate(instr, x.args[k], p) = PhiTranslate(g.instr, x.args[k], p)
    BY <1>9, <1>10
  <2>3. e = Translate(g.instr, x, p)
    BY <2>2 DEF Translate
  <2>4. p \in UNION {Preds(g.succ, b) : b \in {d \in Blocks : Joins(d)}}
    BY <1>2, <1>5
  <2>5. e \in Expressions
    <3> DEFINE joined == UNION {Preds(g.succ, b) : b \in {d \in Blocks : Joins(d)}}
               pairs == {jq \in BinaryOps \X joined : Translatable(g.instr, g.instr[jq[1]], jq[2])}
    <3>1. <<i, p>> \in BinaryOps \X joined /\ <<i, p>>[1] = i /\ <<i, p>>[2] = p
      BY <1>6, <2>4
    <3>2. <<i, p>> \in pairs
      BY <3>1, <2>1, <1>4
    <3>3. e = Translate(g.instr, g.instr[<<i, p>>[1]], <<i, p>>[2])
      BY <2>3, <3>1, <1>4
    <3> HIDE DEF e, joined
    <3>4. e \in {Translate(g.instr, g.instr[ip[1]], ip[2]) : ip \in pairs}
      BY <3>2, <3>3
    <3> QED
      BY <3>4 DEF Expressions, BinaryOps, joined
  <2>6. IsBinaryOp(e) /\ e.args[1] \in Usable(g) /\ e.args[2] \in Usable(g)
    BY <2>5, <1>2, ExpressionFacts
  <2>d. DOMAIN e.args = {1, 2}
    BY <1>10 DEF Translate
  <2>7. Hash(e, 0) \notin DOMAIN availOut[p]
    BY <2>6 DEF Lacking, HasLeader
  <2>8. p \in computed
    BY <1>2, <1>5
  <2>9. \A d \in Dominators(g.succ, p) : \A j \in ToSet(g.order[d]) :
          GivenHash(j) \in DOMAIN availOut[p]
    BY <2>8 DEF LeadInv, Available
  <2> HIDE DEF e
  <2>10. \A d \in Dominators(g.succ, p) : \A j \in ToSet(g.order[d]) : GivenHash(j) # Hash(e, 0)
    BY <2>7, <2>9
  <2> QED
    BY <2>5, <2>6, <2>d, <2>10 DEF e
<1> QED
  BY <1>1, <1>2, <1>3, <1>5, <1>6, <1>11 DEF i

\* The new table of classes: a phi stands for the expression it merges, a copy
\* for what it is a copy of.
InsertedClasses(c, h, phi, copied, ins) ==
  [v \in Values |-> IF v = phi THEN h ELSE IF v \in copied THEN Hash(ins[v], 0) ELSE c[v]]

LEMMA InsertPhiKeepsLeaders ==
  ASSUME NEW c, LeadInv(c), NEW h \in todo, InsertPhi(h)
  PROVE  \E d : LeadInv(d)'
<1> DEFINE xi == antIn[block][h]
           x == instr[xi]
           preds == Preds(g.succ, block)
           lacking == Lacking(x)
           first == Max(Used \cup {0}) + 1
           copy == [p \in lacking |-> first + Cardinality({q \in lacking : q < p})]
           phi == first + Cardinality(lacking)
           copied == {copy[p] : p \in lacking}
           value == [p \in preds |-> IF p \in lacking THEN copy[p]
                                     ELSE availOut[p][Hash(Translate(instr, x, p), 0)]]
           e(p) == Translate(instr, x, p)
<1>1. /\ phi \in Instrs
      /\ instr' = [i \in Instrs |->
                        IF i = phi THEN [op |-> "phi", args |-> value]
                        ELSE IF i \in copied
                             THEN e(CHOOSE p \in lacking : copy[p] = i)
                             ELSE instr[i]]
      /\ order' = [b \in Blocks |->
                        (IF b = block THEN <<phi>> ELSE << >>) \o order[b]
                        \o (IF b \in lacking THEN <<copy[b]>> ELSE << >>)]
      /\ availOut' = [b \in Blocks |->
                           Extended(IF b = block THEN Leader(h, phi) ELSE NoLeaders,
                             Extended(IF b \in lacking
                                      THEN Leader(Hash(e(b), 0), copy[b])
                                      ELSE NoLeaders,
                                      availOut[b]))]
      /\ availIn' = [availIn EXCEPT ![block] = Extended(Leader(h, phi), @)]
      /\ todo' = todo \ {h}
      /\ UNCHANGED <<given, walk, step, computed, anticipating, coming, block, eliminating>>
  BY DEF InsertPhi
<1>2. UNCHANGED <<g, tree, step, computed, antIn, antOut, coming, block, next, local>>
  BY <1>1 DEF given, anticipating, eliminating
<1>3. /\ step = "insert" /\ block \in Blocks /\ Joins(block)
      /\ xi \in BinaryOps /\ GivenHash(xi) = h /\ lacking \in SUBSET Blocks
      /\ \A p \in lacking :
           /\ e(p) \in Expressions /\ IsBinaryOp(e(p)) /\ DOMAIN e(p).args = {1, 2}
           /\ e(p).args[1] \in Usable(g) /\ e(p).args[2] \in Usable(g)
           /\ \A d \in Dominators(g.succ, p) : \A j \in ToSet(g.order[d]) :
                GivenHash(j) # Hash(e(p), 0)
  BY CopyFacts
<1> HIDE DEF value, e, xi, lacking
<1>4. /\ \A i \in Used : i < first
      /\ first \in Nat /\ phi \in Nat /\ phi >= first
      /\ \A p \in lacking : copy[p] \in Nat /\ first <= copy[p] /\ copy[p] < phi
      /\ \A p, r \in lacking : copy[p] = copy[r] => p = r
  <2> DEFINE L == lacking
  <2>1. L \in SUBSET Blocks
    BY <1>3
  <2> HIDE DEF L
  <2> QED
    BY <2>1, NewNumbers DEF L
<1> HIDE DEF first
<1>i. Instrs = 1..(N + Fresh) /\ N + Fresh \in Nat /\ Used \subseteq Instrs
  BY BoundsAssumption DEF Instrs, Used
<1>5. /\ phi \notin Used /\ phi \notin copied
      /\ \A p \in lacking : copy[p] \in Instrs /\ copy[p] \notin Used /\ copy[p] # phi
  <2>n. \A i \in Used : i \in Nat
    BY <1>i
  <2>1. phi \notin Used
    BY <1>4, <2>n
  <2>2. ASSUME NEW p \in lacking
        PROVE  copy[p] \in Instrs /\ copy[p] \notin Used /\ copy[p] # phi
    <3>1. copy[p] \in Nat /\ first <= copy[p] /\ copy[p] < phi
      BY <1>4
    <3>2. copy[p] # phi
      BY <3>1, <1>4
    <3>3. copy[p] \notin Used
      BY <3>1, <1>4, <2>n
    <3>4. 1 <= first
      <4>1. first = Max(Used \cup {0}) + 1
        BY DEF first
      <4>2. CASE Used = {}
        <5>1. Used \cup {0} = {0}
          BY <4>2
        <5>2. \E z \in {0} : \A y \in {0} : z >= y
          OBVIOUS
        <5>3. Max({0}) = 0
          BY <5>2 DEF Max
        <5> QED
          BY <4>1, <5>1, <5>3
      <4>3. CASE Used # {}
        <5>1. PICK i : i \in Used
          BY <4>3
        <5>2. i >= 1 /\ i < first /\ i \in Nat
          BY <5>1, <1>i, <1>4
        <5> QED
          BY <5>2, <1>4
      <4> QED
        BY <4>2, <4>3
    <3>5. copy[p] \in Instrs
      BY <1>1, <1>i, <1>4, <3>1, <3>4
    <3> QED
      BY <3>2, <3>3, <3>5
  <2> QED
    BY <2>1, <2>2
<1> HIDE DEF phi, copy
<1>6. \A p \in lacking : copy[p] \in copied
  OBVIOUS
<1>7. \A k \in copied : \E p \in lacking : k = copy[p]
  OBVIOUS
<1>8. \A i \in copied : i \in Instrs /\ i \notin Used /\ i # phi
  BY <1>5, <1>7
<1> HIDE DEF copied
\* The instructions.
<1>9. /\ instr' = [i \in Instrs |-> instr'[i]]
      /\ instr'[phi].op = "phi"
      /\ \A i \in Used : instr'[i] = instr[i]
      /\ \A i \in Instrs : i # phi /\ i \notin copied => instr'[i] = instr[i]
      /\ \A p \in lacking : instr'[copy[p]] = e(p)
  <2>1. instr' = [i \in Instrs |-> instr'[i]]
    BY <1>1
  <2>2. instr'[phi].op = "phi"
    BY <1>1
  <2>3. \A i \in Instrs : i # phi /\ i \notin copied => instr'[i] = instr[i]
    BY <1>1
  <2>4. ASSUME NEW p \in lacking
        PROVE  instr'[copy[p]] = e(p)
    <3>1. (CHOOSE q \in lacking : copy[q] = copy[p]) = p
      BY <1>4
    <3>2. copy[p] \in Instrs /\ copy[p] # phi /\ copy[p] \in copied
      BY <1>5, <1>6
    <3> QED
      BY <1>1, <3>1, <3>2
  <2> QED
    BY <2>1, <2>2, <2>3, <2>4, <1>i, <1>5, <1>8
<1>10. /\ ~IsBinaryOp(instr'[phi])
       /\ \A i \in Instrs : i = phi \/ i \in Used \/ (\E p \in lacking : i = copy[p])
                            \/ (i # phi /\ i \notin copied)
  BY <1>9, <1>7 DEF IsBinaryOp
\* The classes.
<1>d. PICK d : d = InsertedClasses(c, h, phi, copied, instr')
  OBVIOUS
<1>11. /\ d = [v \in Values |-> d[v]]
       /\ d[phi] = h
       /\ \A p \in lacking : d[copy[p]] = Hash(e(p), 0)
       /\ \A v \in Values : v # phi /\ v \notin copied => d[v] = c[v]
  <2>1. Instrs \subseteq Values
    BY DEF Values
  <2>2. d = [v \in Values |-> IF v = phi THEN h ELSE IF v \in copied THEN Hash(instr'[v], 0) ELSE c[v]]
    BY <1>d DEF InsertedClasses
  <2>3. \A v \in Values : d[v] = IF v = phi THEN h ELSE IF v \in copied THEN Hash(instr'[v], 0) ELSE c[v]
    BY <2>2
  <2>4. d = [v \in Values |-> d[v]]
    BY <2>2
  <2>5. d[phi] = h
    BY <2>1, <2>3, <1>1
  <2>6. ASSUME NEW p \in lacking
        PROVE  d[copy[p]] = Hash(e(p), 0)
    <3>1. copy[p] \in Values /\ copy[p] # phi /\ copy[p] \in copied
      BY <2>1, <1>5, <1>6
    <3>2. d[copy[p]] = Hash(instr'[copy[p]], 0)
      BY <3>1, <2>3
    <3> QED
      BY <3>2, <1>9
  <2> QED
    BY <2>3, <2>4, <2>5, <2>6
<1>12. /\ Placed(g) \subseteq Used /\ Static
       /\ \A i \in Placed(g) : instr[i] = g.instr[i]
       /\ \A b \in Blocks : ToSet(order[b]) \subseteq Used
       /\ \A i \in Instrs : IsBinaryOp(instr[i]) =>
            instr[i].args[1] \in Usable(g) /\ instr[i].args[2] \in Usable(g)
  <2>1. /\ Static
        /\ \A i \in Placed(g) : instr[i] = g.instr[i]
        /\ \A b \in Blocks : ToSet(order[b]) \subseteq Used
        /\ \A i \in Instrs : IsBinaryOp(instr[i]) =>
             instr[i].args[1] \in Usable(g) /\ instr[i].args[2] \in Usable(g)
    BY <1>3 DEF LeadInv, Untouched
  <2>2. Placed(g) \subseteq Used
    BY <2>1, GivenFacts, OperatorFacts DEF Used
  <2> QED
    BY <2>1, <2>2
<1>13. \A v \in Usable(g) : v \in Values /\ v # phi /\ v \notin copied /\ d[v] = c[v]
  <2>1. \A a \in Args : a \notin Instrs
    BY ArgsAssumption, BoundsAssumption DEF Instrs
  <2>2. \A v \in Usable(g) : v \in Values /\ v # phi /\ v \notin copied
    BY <2>1, <1>1, <1>5, <1>8, <1>12, GivenFacts DEF Usable
  <2> QED
    BY <2>2, <1>11
<1>14. \A i \in Used : i \in Values /\ d[i] = c[i]
  BY <1>5, <1>8, <1>11, <1>i DEF Values
<1>15. ClassesOfGiven(d)'
  <2>1. /\ \A a \in Args : c[a] = <<"itself", a, a>>
        /\ \A i \in Placed(g) : c[i] = GivenHash(i)
    BY DEF LeadInv, ClassesOfGiven
  <2>2. ClassesOfGiven(d)
    BY <2>1, <1>11, <1>13 DEF ClassesOfGiven, Usable
  <2> QED
    BY <2>2, <1>2, NotionsStay
<1>16. ASSUME NEW i \in Instrs
       PROVE  StandsFor(instr'[i], i, d)
  <2>1. CASE i = phi
    BY <2>1, <1>10 DEF StandsFor
  <2>2. ASSUME NEW p \in lacking, i = copy[p]
        PROVE  StandsFor(instr'[i], i, d)
    <3> DEFINE y == e(p)
    <3>1. /\ y \in Expressions /\ IsBinaryOp(y) /\ y.args[1] \in Usable(g) /\ y.args[2] \in Usable(g)
          /\ instr'[i] = y /\ Hash(y, 0) = d[i] /\ DOMAIN y.args = {1, 2}
      BY <2>2, <1>3, <1>9, <1>11
    <3> HIDE DEF y
    <3>2. y.args[1] \in Values /\ y.args[2] \in Values
      BY <3>1, <1>13
    <3> QED
      BY <3>1, <3>2 DEF StandsFor
  <2>3. CASE i # phi /\ i \notin copied
    <3>1. instr'[i] = instr[i] /\ d[i] = c[i] /\ StandsFor(instr[i], i, c)
      BY <2>3, <1>9, <1>11 DEF Values, LeadInv, Records
    <3>2. SUFFICES ASSUME IsBinaryOp(instr[i])
                   PROVE  StandsFor(instr[i], i, d)
      BY <3>1 DEF StandsFor
    <3>3. PICK y \in Expressions : /\ y.op = instr[i].op /\ Hash(y, 0) = c[i]
                                   /\ c[instr[i].args[1]] = c[y.args[1]]
                                   /\ c[instr[i].args[2]] = c[y.args[2]]
      BY <3>1, <3>2 DEF StandsFor
    <3>4. y.args[1] \in Usable(g) /\ y.args[2] \in Usable(g)
      BY <1>12, ExpressionFacts
    <3>5. instr[i].args[1] \in Usable(g) /\ instr[i].args[2] \in Usable(g)
      BY <3>2, <1>12
    <3> QED
      BY <3>1, <3>3, <3>4, <3>5, <1>13 DEF StandsFor
  <2> QED
    BY <2>1, <2>2, <2>3, <1>7
\* The blocks.
<1>17. ASSUME NEW b \in Blocks
       PROVE  /\ order'[b] \in Seq(Instrs) /\ Distinct(order'[b])
              /\ ToSet(order'[b]) = ToSet(order[b]) \cup (IF b = block THEN {phi} ELSE {})
                                    \cup (IF b \in lacking THEN {copy[b]} ELSE {})
              /\ \A k \in DOMAIN order'[b] : \A j \in 1..(k - 1) :
                   \/ order'[b][j] = phi
                   \/ b \in lacking /\ order'[b][k] = copy[b]
                   \/ \E n \in DOMAIN order[b] : \E m \in 1..(n - 1) :
                        order'[b][j] = order[b][m] /\ order'[b][k] = order[b][n]
  <2> DEFINE s == order[b]
             A == b = block
             Z == b \in lacking
             z == IF Z THEN copy[b] ELSE phi
             t == Surround(A, phi, s, Z, z)
  <2>1. s \in Seq(Instrs) /\ Distinct(s) /\ ToSet(s) \subseteq Used
    BY <1>12 DEF LeadInv, Layouts
  <2>2. /\ A \in BOOLEAN /\ Z \in BOOLEAN /\ phi \in Instrs /\ z \in Instrs
        /\ (A => phi \notin ToSet(s)) /\ (Z => z \notin ToSet(s)) /\ (A /\ Z => phi # z)
    BY <2>1, <1>1, <1>5
  <2>3. order'[b] = t
    <3>1. order'[b] = (IF A THEN <<phi>> ELSE << >>) \o s \o (IF Z THEN <<copy[b]>> ELSE << >>)
      BY <1>1
    <3>2. CASE Z
      BY <3>1, <3>2 DEF Surround
    <3>3. CASE ~Z
      BY <3>1, <3>3 DEF Surround
    <3> QED
      BY <3>2, <3>3
  <2> HIDE DEF s, A, Z, z
  <2>4. /\ t \in Seq(Instrs) /\ Distinct(t)
        /\ ToSet(t) = ToSet(s) \cup (IF A THEN {phi} ELSE {}) \cup (IF Z THEN {z} ELSE {})
        /\ \A k \in DOMAIN t : \A j \in 1..(k - 1) :
             \/ A /\ t[j] = phi
             \/ Z /\ t[k] = z
             \/ \E n \in DOMAIN s : \E m \in 1..(n - 1) : t[j] = s[m] /\ t[k] = s[n]
    BY <2>1, <2>2, Surrounded
  <2> HIDE DEF t
  <2>5. ToSet(order'[b]) = ToSet(order[b]) \cup (IF b = block THEN {phi} ELSE {})
                           \cup (IF b \in lacking THEN {copy[b]} ELSE {})
    BY <2>3, <2>4 DEF s, A, Z, z
  <2>6. \A k \in DOMAIN t : \A j \in 1..(k - 1) :
          \/ t[j] = phi
          \/ b \in lacking /\ t[k] = copy[b]
          \/ \E n \in DOMAIN order[b] : \E m \in 1..(n - 1) :
               t[j] = order[b][m] /\ t[k] = order[b][n]
    BY <2>4 DEF s, A, Z, z
  <2> QED
    BY <2>3, <2>4, <2>5, <2>6
<1>18. order' \in [Blocks -> Seq(Instrs)]
  BY <1>1, <1>17
<1>19. \A i : \A b : Operators(b)' = Operators(b)
  BY <1>2, GivenStays
<1>20. ASSUME NEW b \in Blocks, NEW k \in DOMAIN order'[b], NEW j \in 1..(k - 1),
              NEW u, NEW w, u = order'[b][j], w = order'[b][k],
              w \in Operators(b), IsBinaryOp(instr'[u])
       PROVE  \E m, n \in DOMAIN g.order[b] : m < n /\ g.order[b][m] = u /\ g.order[b][n] = w
  <2>2. w \in Used
    <3>1. w \in ToSet(g.order[b])
      BY <1>20 DEF Operators
    <3> QED
      BY <3>1, <1>12, GivenFacts
  <2>3. u # phi /\ ~(b \in lacking /\ w = copy[b])
    BY <1>20, <2>2, <1>10, <1>5
  <2>4. PICK n \in DOMAIN order[b] : \E m \in 1..(n - 1) : u = order[b][m] /\ w = order[b][n]
    BY <2>3, <1>17, <1>20
  <2>5. PICK m \in 1..(n - 1) : u = order[b][m] /\ w = order[b][n]
    BY <2>4
  <2>6. Earlier(order[b][m], order[b][n], b)
    BY <2>4, <2>5 DEF LeadInv, Layouts
  <2>7. u \in Used
    <3>1. order[b] \in Seq(Instrs)
      BY DEF LeadInv, Layouts
    <3>2. m \in 1..Len(order[b])
      BY <3>1, <2>4, <2>5, LenProperties
    <3>3. order[b][m] \in ToSet(order[b])
      BY <3>1, <3>2, Elements
    <3> QED
      BY <3>3, <2>5, <1>12
  <2>8. Earlier(u, w, b)
    BY <2>5, <2>6
  <2>9. IsBinaryOp(instr[u])
    BY <2>7, <1>9, <1>20
  <2> QED
    BY <2>8, <2>9, <1>20 DEF Earlier
<1>21. ASSUME NEW b \in Blocks, NEW i \in ToSet(g.order[b])
       PROVE  i \in ToSet(order'[b]) \/ Dispensable(i, b)'
  BY <1>2, <1>17, NotionsStay DEF LeadInv, Layouts
<1>22. ASSUME NEW b \in Blocks
       PROVE  ToSet(order'[b]) \cap Placed(g) \subseteq ToSet(g.order[b])
  <2>1. ToSet(order[b]) \cap Placed(g) \subseteq ToSet(g.order[b])
    BY DEF LeadInv, Layouts
  <2>2. phi \notin Placed(g) /\ (b \in lacking => copy[b] \notin Placed(g))
    BY <1>5, <1>12
  <2> QED
    BY <2>1, <2>2, <1>17
<1>23. Layouts'
  <2>1. ASSUME NEW b \in Blocks, NEW k \in DOMAIN order'[b], NEW j \in 1..(k - 1)
        PROVE  Earlier(order[b][j], order[b][k], b)'
    <3>1. PICK u, w : u = order'[b][j] /\ w = order'[b][k]
      OBVIOUS
    <3>2. /\ w \in Operators(b) /\ IsBinaryOp(instr'[u]) =>
               \E m, n \in DOMAIN g.order[b] : m < n /\ g.order[b][m] = u /\ g.order[b][n] = w
      BY <3>1, <1>20
    <3> QED
      BY <3>1, <3>2, <1>2, <1>19 DEF Earlier
  <2>2. \A b \in Blocks : \A i \in ToSet(g.order[b]) : i \in ToSet(order'[b]) \/ Dispensable(i, b)'
    BY <1>21
  <2>3. \A b \in Blocks : Distinct(order'[b]) /\ ToSet(order'[b]) \cap Placed(g) \subseteq ToSet(g.order[b])
    BY <1>17, <1>22
  <2> QED
    BY <2>1, <2>2, <2>3, <1>2, <1>18 DEF Layouts
<1>24. ASSUME NEW b \in Blocks, NEW k \in ToSet(order'[b]) \ Placed(g), IsBinaryOp(instr'[k]),
              NEW a \in StrictDominators(g.succ, b), NEW j \in ToSet(g.order[a])
       PROVE  GivenHash(j) # d[k]
  <2>1. k # phi
    BY <1>10, <1>24
  <2>2. CASE b \in lacking /\ k = copy[b]
    <3>1. a \in Dominators(g.succ, b)
      BY DEF StrictDominators
    <3> QED
      BY <2>2, <3>1, <1>3, <1>11
  <2>3. CASE k \in ToSet(order[b])
    <3>1. k \in Used
      BY <2>3, <1>12
    <3>2. instr'[k] = instr[k] /\ d[k] = c[k]
      BY <3>1, <1>9, <1>14
    <3>3. GivenHash(j) # c[k]
      BY <2>3, <3>2, <1>24 DEF LeadInv, Records
    <3> QED
      BY <3>2, <3>3
  <2> QED
    BY <2>1, <2>2, <2>3, <1>17
<1>25. Records(d)'
  <2>1. \A i \in Instrs : StandsFor(instr[i], i, d)'
    BY <1>16, <1>2, NotionsStay
  <2>2. \A i \in Placed(g) : IsBinaryOp(instr'[i]) => IsBinaryOp(g.instr[i])
    BY <1>9, <1>12
  <2>3. \A i : GivenHash(i)' = GivenHash(i)
    BY <1>2, GivenStays
  <2> QED
    BY <2>1, <2>2, <2>3, <1>2, <1>9, <1>24 DEF Records
<1>26. Untouched'
  <2>1. \A b \in Blocks : ToSet(order'[b]) \subseteq Used'
    <3>1. Used \subseteq Used'
      BY <1>9 DEF Used
    <3>2. phi \in Used'
      BY <1>1, <1>9 DEF Used
    <3>3. \A p \in lacking : copy[p] \in Used'
      BY <1>3, <1>5, <1>9 DEF Used, IsBinaryOp
    <3>4. ASSUME NEW b \in Blocks
          PROVE  ToSet(order'[b]) \subseteq Used'
      <4>1. ToSet(order[b]) \subseteq Used'
        BY <3>1, <1>12
      <4>2. (IF b = block THEN {phi} ELSE {}) \subseteq Used'
        BY <3>2
      <4>3. (IF b \in lacking THEN {copy[b]} ELSE {}) \subseteq Used'
        BY <3>3
      <4>4. ToSet(order'[b]) = ToSet(order[b]) \cup (IF b = block THEN {phi} ELSE {})
                               \cup (IF b \in lacking THEN {copy[b]} ELSE {})
        BY <1>17
      <4> QED
        BY <4>1, <4>2, <4>3, <4>4
    <3> QED
      BY <3>4
  <2>2. ASSUME NEW i \in Instrs, IsBinaryOp(instr'[i])
        PROVE  instr'[i].args[1] \in Usable(g) /\ instr'[i].args[2] \in Usable(g)
    <3>1. i # phi
      BY <2>2, <1>10
    <3>2. CASE i \in copied
      BY <3>2, <1>3, <1>7, <1>9
    <3>3. CASE i \notin copied
      BY <3>1, <3>3, <2>2, <1>9, <1>12
    <3> QED
      BY <3>2, <3>3
  <2> QED
    BY <2>1, <2>2, <1>2, <1>3, <1>9, <1>12 DEF Untouched
\* The tables.
<1>27. Tables'
  BY <1>1, <1>2 DEF LeadInv, Tables, IsTable
<1>28. ASSUME NEW b \in Blocks, NEW k \in DOMAIN availIn'[b], NEW l, l = availIn'[b][k]
       PROVE  \/ FirstWith(l, k, StrictDominators(g.succ, b))
              \/ Merged(l, k, b, d)'
  <2>1. ASSUME Merged(l, k, b, c)
        PROVE  Merged(l, k, b, d)'
    <3>1. l \in Live' /\ l \in Used
      <4>1. PICK a \in Blocks : l \in ToSet(order[a])
        BY <2>1 DEF Merged, Live
      <4>2. l \in Used /\ l \in ToSet(order'[a])
        BY <4>1, <1>12, <1>17
      <4>3. l \in Live'
        BY <4>2 DEF Live
      <4> QED
        BY <4>2, <4>3
    <3>2. instr'[l] = instr[l] /\ d[l] = c[l]
      BY <3>1, <1>9, <1>14
    <3> QED
      BY <2>1, <3>1, <3>2, <1>2, GivenStays DEF Merged
  <2>2. CASE b = block /\ k = h
    <3>1. l = phi
      BY <2>2, <1>1, <1>3, <1>28 DEF LeadInv, Tables, IsTable, Extended, Leader
    <3>2. phi \in Live'
      <4>1. phi \in ToSet(order'[block])
        BY <1>3, <1>17
      <4> QED
        BY <4>1, <1>3 DEF Live
    <3>3. \E y \in BinaryOps : GivenHash(y) = h
      BY <1>3
    <3>4. l \in Live' /\ instr'[l].op = "phi" /\ d[l] = k /\ Joins(b)
          /\ \E y \in BinaryOps : GivenHash(y) = k
      BY <2>2, <3>1, <3>2, <3>3, <1>3, <1>9, <1>11
    <3> QED
      BY <3>4, <1>2, GivenStays DEF Merged
  <2>3. CASE ~(b = block /\ k = h)
    <3>1. k \in DOMAIN availIn[b] /\ l = availIn[b][k]
      BY <2>3, <1>1, <1>3, <1>28 DEF LeadInv, Tables, IsTable, Extended, Leader
    <3>2. \/ FirstWith(availIn[b][k], k, StrictDominators(g.succ, b))
          \/ Merged(availIn[b][k], k, b, c)
      BY <3>1 DEF LeadInv, Available
    <3> QED
      BY <3>1, <3>2, <2>1
  <2> QED
    BY <2>2, <2>3
<1>29. Available(d)'
  <2>1. ASSUME NEW b \in Blocks, NEW k \in DOMAIN availIn'[b]
        PROVE  \/ FirstWith(availIn[b][k], k, StrictDominators(g.succ, b))'
               \/ Merged(availIn[b][k], k, b, d)'
    <3>1. PICK l : l = availIn'[b][k]
      OBVIOUS
    <3>2. \/ FirstWith(l, k, StrictDominators(g.succ, b))
          \/ Merged(l, k, b, d)'
      BY <3>1, <1>28
    <3>3. FirstWith(l, k, StrictDominators(g.succ, b)) =>
            FirstWith(availIn[b][k], k, StrictDominators(g.succ, b))'
      BY <3>1, <1>2 DEF FirstWith, GivenHash
    <3>4. Merged(l, k, b, d)' => Merged(availIn[b][k], k, b, d)'
      BY <3>1 DEF Merged
    <3> QED
      BY <3>2, <3>3, <3>4
  <2>2. \A b \in Blocks : DOMAIN availOut[b] \subseteq DOMAIN availOut'[b]
    BY <1>1 DEF Extended
  <2>3. \A b \in computed : \A a \in Dominators(g.succ, b) : \A j \in ToSet(g.order[a]) :
          GivenHash(j) \in DOMAIN availOut'[b]
    BY <2>2 DEF LeadInv, Available
  <2>4. computed \subseteq Blocks /\ computed = Blocks
    BY <1>3 DEF LeadInv, Available
  <2>5. \A i : GivenHash(i)' = GivenHash(i)
    BY <1>2, GivenStays
  <2> QED
    BY <2>1, <2>3, <2>4, <2>5, <1>2, <1>3 DEF Available
<1>30. Anticipated'
  BY <1>2, NotionsStay DEF LeadInv, Anticipated
<1>31. InsertingAt'
  BY <1>1, <1>2, GivenStays DEF LeadInv, InsertingAt
<1>32. EliminatingIn(d)'
  BY <1>2, <1>3 DEF LeadInv, EliminatingIn
<1>33. Static'
  BY <1>2, <1>12 DEF Static
<1> QED
  BY <1>15, <1>23, <1>25, <1>26, <1>27, <1>29, <1>30, <1>31, <1>32, <1>33 DEF LeadInv

------------------------------------------------------------------------------
(* eliminate *)

LEMMA OtherHash ==
  ASSUME NEW x, NEW i, ~IsBinaryOp(x)
  PROVE  Hash(x, i) = <<"itself", i, i>>
BY DEF Hash, IsBinaryOp

\* Where eliminate is.
LEMMA NextFacts ==
  ASSUME NEW c, LeadInv(c), step = "eliminate", next # << >>
  PROVE  LET i == Head(next)
             after == Tail(next)
         IN  /\ Static /\ ClassesOfGiven(c) /\ block \in Blocks /\ Working(c)
             /\ i \in Instrs /\ i \in ToSet(order[block]) /\ StandsFor(instr[i], i, c)
             /\ order[block] \in Seq(Instrs) /\ Distinct(order[block])
             /\ after \in Seq(Instrs) /\ ToSet(after) \subseteq ToSet(next) /\ Distinct(after)
             /\ i \in ToSet(next) /\ i \notin ToSet(after)
             /\ \A k \in DOMAIN after : Earlier(i, after[k], block)
             /\ \A k \in DOMAIN after : \A j \in 1..(k - 1) : Earlier(after[j], after[k], block)
             /\ \A k \in DOMAIN after : \E n \in DOMAIN next : next[n] = after[k]
<1> DEFINE i == Head(next)
           after == Tail(next)
<1>1. /\ Static /\ ClassesOfGiven(c) /\ Working(c) /\ next \in Seq(Instrs)
      /\ block \in Blocks /\ ToSet(next) \subseteq ToSet(order[block]) /\ Distinct(next)
      /\ \A k \in DOMAIN next : \A j \in 1..(k - 1) : Earlier(next[j], next[k], block)
  BY DEF LeadInv, EliminatingIn, Working
<1>2. /\ after \in Seq(Instrs) /\ i \in Instrs /\ ToSet(next) = {i} \cup ToSet(after)
      /\ i = next[1] /\ Len(after) = Len(next) - 1
      /\ \A k \in 1..Len(after) : after[k] = next[k + 1]
  BY <1>1, Beheaded
<1>3. order[block] \in Seq(Instrs) /\ Distinct(order[block]) /\ StandsFor(instr[i], i, c)
  BY <1>1, <1>2 DEF LeadInv, Layouts, Records
<1>4. DOMAIN next = 1..Len(next) /\ DOMAIN after = 1..Len(after) /\ Len(after) \in Nat /\ Len(next) \in Nat
  BY <1>1, <1>2, LenProperties
<1> HIDE DEF i, after
<1>5. Distinct(after)
  <2>1. SUFFICES ASSUME NEW j \in 1..Len(after), NEW k \in 1..Len(after), after[j] = after[k]
                 PROVE  j = k
    BY <1>4 DEF Distinct
  <2>2. next[j + 1] = next[k + 1] /\ j + 1 \in DOMAIN next /\ k + 1 \in DOMAIN next
    BY <2>1, <1>2, <1>4
  <2>3. j + 1 = k + 1
    BY <2>2, <1>1 DEF Distinct
  <2> QED
    BY <2>3
<1>6. i \notin ToSet(after)
  <2>1. SUFFICES ASSUME i \in ToSet(after)
                 PROVE  FALSE
    OBVIOUS
  <2>2. PICK k \in 1..Len(after) : after[k] = i
    BY <2>1, <1>2, Elements
  <2>3. next[k + 1] = next[1] /\ k + 1 \in DOMAIN next /\ 1 \in DOMAIN next
    BY <2>2, <1>2, <1>4
  <2>4. k + 1 = 1
    BY <2>3, <1>1 DEF Distinct
  <2> QED
    BY <2>4
<1>7. ASSUME NEW k \in DOMAIN after
      PROVE  /\ Earlier(i, after[k], block) /\ \E n \in DOMAIN next : next[n] = after[k]
             /\ \A j \in 1..(k - 1) : Earlier(after[j], after[k], block)
  <2>1. k + 1 \in DOMAIN next /\ after[k] = next[k + 1] /\ 1 \in 1..((k + 1) - 1)
    BY <1>2, <1>4
  <2>2. Earlier(i, after[k], block)
    BY <2>1, <1>1, <1>2
  <2>3. ASSUME NEW j \in 1..(k - 1)
        PROVE  Earlier(after[j], after[k], block)
    <3>1. j \in 1..Len(after) /\ j + 1 \in 1..((k + 1) - 1)
      BY <1>4
    <3>2. after[j] = next[j + 1]
      BY <3>1, <1>2
    <3> QED
      BY <3>1, <3>2, <2>1, <1>1
  <2> QED
    BY <2>1, <2>2, <2>3
<1> QED
  BY <1>1, <1>2, <1>3, <1>5, <1>6, <1>7 DEF i, after

\* What a leader has the hash of.
LEMMA ClassOfHash ==
  ASSUME Static, NEW c, ClassesOfGiven(c), HashesTell, NEW i, StandsFor(instr[i], i, c),
         IsBinaryOp(instr[i]), NEW j \in Placed(g), GivenHash(j) = HashOf(i)
  PROVE  c[j] = c[i] /\ GivenHash(j) = c[i]
<1> DEFINE x == instr[i]
           y == g.instr[j]
<1>1. StandsFor(x, i, c) /\ StandsFor(y, j, c) /\ IsBinaryOp(x) /\ Hash(x, i) = Hash(y, j)
  BY GivenStandsForItself DEF GivenHash, HashOf
<1>2. c[j] = GivenHash(j)
  BY DEF ClassesOfGiven
<1> HIDE DEF x, y
<1>3. c[i] = c[j]
  BY <1>1, SameExpression
<1> QED
  BY <1>2, <1>3

\* An instruction that is no operator has no leader.
LEMMA OnlyOperatorsHaveLeaders ==
  ASSUME NEW c, LeadInv(c), step = "eliminate", next # << >>,
         NEW l \in Leaders(HashOf(Head(next)))
  PROVE  IsBinaryOp(instr[Head(next)])
<1> DEFINE i == Head(next)
           h == HashOf(i)
<1>1. /\ Static /\ block \in Blocks /\ i \in ToSet(order[block]) /\ i \in ToSet(next) /\ Working(c)
  BY NextFacts
<1>2. \/ h \in DOMAIN availIn[block] /\ l = availIn[block][h]
      \/ h \in DOMAIN local /\ l = local[h]
  BY DEF Leaders
<1> HIDE DEF i
<1>3. SUFFICES ASSUME ~IsBinaryOp(instr[i])
               PROVE  FALSE
  BY DEF i
<1>4. h = <<"itself", i, i>>
  BY <1>3, OtherHash DEF HashOf
<1> HIDE DEF h
<1>5. \A x \in BinaryOps : GivenHash(x) # h
  BY <1>1, <1>4, OperatorFacts, BinaryHash DEF GivenHash
<1>6. CASE h \in DOMAIN availIn[block] /\ l = availIn[block][h]
  <2>1. \/ FirstWith(l, h, StrictDominators(g.succ, block))
        \/ Merged(l, h, block, c)
    BY <1>1, <1>6 DEF LeadInv, Available
  <2>2. ~Merged(l, h, block, c)
    BY <1>5 DEF Merged
  <2>3. PICK d \in StrictDominators(g.succ, block) : \E m \in DOMAIN g.order[d] :
          g.order[d][m] = l /\ GivenHash(l) = h
    BY <2>1, <2>2 DEF FirstWith
  <2>4. d \in Blocks /\ d # block
    BY DEF StrictDominators, Dominators
  <2>5. l \in ToSet(g.order[d])
    BY <2>3, <2>4, GivenFacts, <1>1, Elements, LenProperties
  <2>6. l \in Placed(g) /\ GivenHash(l) = h
    BY <2>3, <2>4, <2>5, GivenFacts, <1>1
  <2>7. l = i
    BY <2>6, <1>1, <1>4, <1>5, OperatorFacts
  <2>8. i \in ToSet(g.order[block])
    BY <2>6, <2>7, <1>1 DEF LeadInv, Layouts
  <2> QED
    BY <2>4, <2>5, <2>7, <2>8, <1>1, GivenFacts
<1>7. CASE h \in DOMAIN local /\ l = local[h]
  <2>1. LocalLeader(l, h, c)
    BY <1>1, <1>7 DEF Working
  <2>2. PICK y : h = Hash(y, l)
    BY <2>1 DEF LocalLeader
  <2>3. ~IsBinaryOp(y)
    BY <2>2, <1>4, BinaryHash
  <2>4. h = <<"itself", l, l>>
    BY <2>2, <2>3, OtherHash
  <2> QED
    BY <2>1, <2>4, <1>1, <1>4 DEF LocalLeader
<1> QED
  BY <1>2, <1>6, <1>7

\* A leader is there, and stands for the expression that the instruction stands
\* for; eliminate may take the instruction out.
LEMMA LeaderFacts ==
  ASSUME NEW c, LeadInv(c), Telling, step = "eliminate", next # << >>,
         NEW l \in Leaders(HashOf(Head(next)))
  PROVE  /\ l \in Live /\ c[l] = c[Head(next)]
         /\ Head(next) \in Placed(g) => Dispensable(Head(next), block)
<1> DEFINE i == Head(next)
           h == HashOf(i)
<1>1. /\ Static /\ ClassesOfGiven(c) /\ block \in Blocks /\ Working(c)
      /\ i \in Instrs /\ i \in ToSet(order[block]) /\ StandsFor(instr[i], i, c) /\ i \in ToSet(next)
      /\ \E k \in DOMAIN next : next[k] = i
  <2>1. 1 \in DOMAIN next /\ next[1] = i
    <3>1. next \in Seq(Instrs)
      BY DEF LeadInv, EliminatingIn
    <3> QED
      BY <3>1, HeadTailProperties, EmptySeq, LenProperties
  <2> QED
    BY <2>1, NextFacts
<1>2. IsBinaryOp(instr[i])
  BY OnlyOperatorsHaveLeaders
<1>3. \/ h \in DOMAIN availIn[block] /\ l = availIn[block][h]
      \/ h \in DOMAIN local /\ l = local[h]
  BY DEF Leaders
<1> HIDE DEF i
<1>4. /\ i \in Placed(g) => /\ IsBinaryOp(g.instr[i]) /\ c[i] = GivenHash(i)
                            /\ i \in ToSet(g.order[block]) /\ i \in Operators(block)
      /\ HashesTell /\ JoinsComputeLast
  BY <1>1, <1>2 DEF LeadInv, Records, Layouts, ClassesOfGiven, Operators, Telling
<1>5. ASSUME NEW j \in Placed(g), GivenHash(j) = h
      PROVE  c[j] = c[i] /\ GivenHash(j) = c[i]
  BY <1>1, <1>2, <1>4, <1>5, ClassOfHash
<1> HIDE DEF h
<1>6. CASE FirstWith(l, h, StrictDominators(g.succ, block))
  <2>1. PICK d \in StrictDominators(g.succ, block) : \E m \in DOMAIN g.order[d] :
          /\ g.order[d][m] = l /\ GivenHash(l) = h
          /\ \A e \in StrictDominators(g.succ, d) : \A j \in ToSet(g.order[e]) : GivenHash(j) # h
          /\ \A n \in 1..(m - 1) : GivenHash(g.order[d][n]) # h
    BY <1>6 DEF FirstWith
  <2>2. PICK m \in DOMAIN g.order[d] :
          /\ g.order[d][m] = l /\ GivenHash(l) = h
          /\ \A e \in StrictDominators(g.succ, d) : \A j \in ToSet(g.order[e]) : GivenHash(j) # h
          /\ \A n \in 1..(m - 1) : GivenHash(g.order[d][n]) # h
    BY <2>1
  <2>3. d \in Blocks /\ d # block /\ <<d, block>> \in Dominance(g.succ)
    BY DEF StrictDominators, Dominators
  <2>4. g.order[d] \in Seq(Instrs) /\ Distinct(g.order[d]) /\ DOMAIN g.order[d] = 1..Len(g.order[d])
    BY <2>3, <1>1, GivenFacts, LenProperties
  <2>5. l \in ToSet(g.order[d]) /\ l \in Placed(g)
    BY <2>2, <2>3, <2>4, <1>1, GivenFacts, Elements
  <2>6. c[l] = c[i] /\ GivenHash(l) = c[i]
    BY <2>2, <2>5, <1>5
  <2>7. i \in Placed(g) => Dispensable(i, block)
    BY <2>5, <2>6, <1>4 DEF Dispensable
  <2>8. ~Dispensable(l, d)
    <3>1. SUFFICES ASSUME Dispensable(l, d)
                   PROVE  FALSE
      OBVIOUS
    <3>2. IsBinaryOp(g.instr[l]) /\ l \in Operators(d)
      BY <3>1, <2>5 DEF Dispensable, Operators
    <3>3. CASE Joins(d)
      <4>1. CASE i \in Placed(g)
        <5>1. GivenHash(l) = GivenHash(i) /\ i \in Operators(block)
          BY <4>1, <1>4, <2>6
        <5>2. Hash(g.instr[l], l) # Hash(g.instr[i], i)
          BY <5>1, <3>2, <3>3, <2>3, <1>1, <1>4 DEF JoinsComputeLast
        <5> QED
          BY <5>1, <5>2 DEF GivenHash
      <4>2. CASE i \notin Placed(g)
        BY <4>2, <1>1, <1>2, <2>5, <2>6 DEF LeadInv, Records
      <4> QED
        BY <4>1, <4>2
    <3>4. ASSUME NEW e \in StrictDominators(g.succ, d), NEW j \in ToSet(g.order[e]),
                 GivenHash(j) = GivenHash(l)
          PROVE  FALSE
      BY <3>4, <2>2
    <3>5. ASSUME NEW n \in DOMAIN g.order[d], NEW k \in DOMAIN g.order[d], k < n,
                 g.order[d][n] = l, GivenHash(g.order[d][k]) = GivenHash(l)
          PROVE  FALSE
      <4>1. n = m
        BY <3>5, <2>2, <2>4 DEF Distinct
      <4>2. k \in 1..(m - 1)
        BY <4>1, <3>5, <2>4, LenProperties
      <4> QED
        BY <4>2, <3>5, <2>2
    <3> QED
      BY <3>1, <3>3, <3>4, <3>5 DEF Dispensable
  <2>9. l \in Live
    BY <2>3, <2>5, <2>8 DEF LeadInv, Layouts, Live
  <2> QED
    BY <2>6, <2>7, <2>9 DEF i
<1>7. CASE Merged(l, h, block, c)
  <2>1. l \in Live /\ c[l] = h /\ Joins(block)
    BY <1>7 DEF Merged
  <2>2. PICK x \in BinaryOps : GivenHash(x) = h
    BY <1>7 DEF Merged
  <2>3. h = c[i]
    BY <2>2, <1>1, <1>5, OperatorFacts
  <2>4. i \in Placed(g) => Dispensable(i, block)
    BY <2>1, <1>4 DEF Dispensable
  <2> QED
    BY <2>1, <2>3, <2>4 DEF i
<1>8. CASE h \in DOMAIN local /\ l = local[h]
  <2>1. LocalLeader(l, h, c)
    BY <1>1, <1>8 DEF Working
  <2>2. /\ l \in ToSet(order[block])
        /\ \A k \in DOMAIN next : Earlier(l, next[k], block)
    BY <2>1 DEF LocalLeader
  <2>3. PICK y : /\ h = Hash(y, l) /\ StandsFor(y, l, c)
                 /\ IsBinaryOp(y) <=> IsBinaryOp(instr[l])
    BY <2>1 DEF LocalLeader
  <2>4. IsBinaryOp(y) /\ c[i] = c[l]
    <3> DEFINE x == instr[i]
    <3>1. StandsFor(x, i, c) /\ IsBinaryOp(x) /\ Hash(x, i) = Hash(y, l)
      BY <1>1, <1>2, <2>3 DEF h, HashOf
    <3> HIDE DEF x
    <3> QED
      BY <3>1, <2>3, <1>1, <1>4, SameExpression
  <2>5. l \in Live
    BY <2>2, <1>1 DEF Live
  <2>6. ASSUME i \in Placed(g)
        PROVE  Dispensable(i, block)
    <3>1. Earlier(l, i, block)
      BY <2>2, <1>1
    <3>2. PICK m, n \in DOMAIN g.order[block] :
            m < n /\ g.order[block][m] = l /\ g.order[block][n] = i
      BY <3>1, <2>3, <2>4, <2>6, <1>4 DEF Earlier
    <3>3. l \in Placed(g)
      <4>1. g.order[block] \in Seq(Instrs)
        BY <1>1, GivenFacts
      <4>2. l \in ToSet(g.order[block])
        BY <4>1, <3>2, Elements, LenProperties
      <4> QED
        BY <4>2, <1>1, GivenFacts
    <3>4. GivenHash(l) = GivenHash(i)
      BY <3>3, <2>4, <2>6, <1>1, <1>4 DEF ClassesOfGiven
    <3> QED
      BY <3>2, <3>4, <2>6, <1>4 DEF Dispensable
  <2> QED
    BY <2>4, <2>5, <2>6 DEF i
<1>9. CASE h \in DOMAIN availIn[block] /\ l = availIn[block][h]
  <2>1. \/ FirstWith(l, h, StrictDominators(g.succ, block))
        \/ Merged(l, h, block, c)
    BY <1>1, <1>9 DEF LeadInv, Available
  <2> QED
    BY <2>1, <1>6, <1>7
<1> QED
  BY <1>3, <1>8, <1>9

LEMMA TakenOut ==
  ASSUME NEW S, NEW s \in Seq(S), Distinct(s), NEW at \in DOMAIN s
  PROVE  LET t == RemoveAt(s, at)
         IN  /\ t \in Seq(S) /\ Distinct(t) /\ ToSet(t) = ToSet(s) \ {s[at]}
             /\ \A k \in DOMAIN t : \A j \in 1..(k - 1) :
                  \E n \in DOMAIN s : \E m \in 1..(n - 1) : t[j] = s[m] /\ t[k] = s[n]
<1> DEFINE x == s[at]
           t == RemoveAt(s, at)
<1>1. DOMAIN s = 1..Len(s) /\ Len(s) \in Nat
  BY LenProperties
<1>2. at \in 1..Len(s) /\ s[at] = x
  BY <1>1
<1> HIDE DEF x
<1>3. /\ t \in Seq(S) /\ ToSet(t) = Others(s, at) /\ Len(t) = Len(s) - 1
      /\ \A i \in 1..(Len(s) - 1) : t[i] = IF i < at THEN s[i] ELSE s[i + 1]
  BY <1>2, RemovedFrom
<1> HIDE DEF t
<1>4. DOMAIN t = 1..(Len(s) - 1)
  BY <1>3, LenProperties
<1> DEFINE to(i) == IF i < at THEN i ELSE i + 1
<1>5. \A i \in 1..(Len(s) - 1) : to(i) \in 1..Len(s) /\ t[i] = s[to(i)]
  BY <1>1, <1>2, <1>3
<1>6. \A i, j \in 1..(Len(s) - 1) : (i < j => to(i) < to(j)) /\ (to(i) = to(j) => i = j)
  BY <1>1, <1>2
<1> HIDE DEF to
<1>7. Distinct(t)
  BY <1>1, <1>4, <1>5, <1>6 DEF Distinct
<1>8. ToSet(t) = ToSet(s) \ {x}
  <2>1. ASSUME NEW y \in ToSet(t)
        PROVE  y \in ToSet(s) /\ y # x
    <3>1. PICK k \in (1..Len(s)) \ {at} : y = s[k]
      BY <1>3 DEF Others
    <3>2. y # x
      BY <3>1, <1>1, <1>2 DEF Distinct
    <3> QED
      BY <3>1, <3>2, Elements
  <2>2. ASSUME NEW y \in ToSet(s), y # x
        PROVE  y \in ToSet(t)
    <3>1. PICK k \in 1..Len(s) : y = s[k]
      BY Elements
    <3>2. k # at
      BY <3>1, <2>2, <1>2
    <3> QED
      BY <3>1, <3>2, <1>3 DEF Others
  <2> QED
    BY <2>1, <2>2
<1>9. ASSUME NEW k \in DOMAIN t, NEW j \in 1..(k - 1)
      PROVE  \E n \in DOMAIN s : \E m \in 1..(n - 1) : t[j] = s[m] /\ t[k] = s[n]
  <2>1. k \in 1..(Len(s) - 1) /\ j \in 1..(Len(s) - 1) /\ j < k
    BY <1>1, <1>4
  <2>2. /\ to(k) \in 1..Len(s) /\ to(j) \in 1..Len(s) /\ to(j) < to(k)
        /\ t[j] = s[to(j)] /\ t[k] = s[to(k)]
    BY <2>1, <1>5, <1>6
  <2>3. to(k) \in DOMAIN s /\ to(j) \in 1..(to(k) - 1)
    BY <2>2, <1>1
  <2> QED
    BY <2>2, <2>3
<1> QED
  BY <1>3, <1>7, <1>8, <1>9 DEF t, x

LEMMA KeepKeepsLeaders ==
  ASSUME NEW c, LeadInv(c), Keep
  PROVE  LeadInv(c)'
<1> DEFINE i == Head(next)
           after == Tail(next)
           h == HashOf(i)
<1>1. /\ step = "eliminate" /\ next # << >> /\ next' = after
      /\ local' = Extended(Leader(h, i), local)
      /\ UNCHANGED <<g, tree, instr, order, step, computed, availIn, availOut, antIn, antOut, todo,
                     coming, block>>
  BY DEF Keep, given, code, available, anticipating, inserting
<1>2. Onward /\ (step' # "available" => computed = Blocks)
  BY <1>1 DEF Onward, LeadInv, Available
<1>3. /\ block \in Blocks /\ Working(c)
      /\ i \in Instrs /\ i \in ToSet(order[block]) /\ StandsFor(instr[i], i, c)
      /\ after \in Seq(Instrs) /\ ToSet(after) \subseteq ToSet(next) /\ Distinct(after)
      /\ i \in ToSet(next) /\ i \notin ToSet(after)
      /\ \A k \in DOMAIN after : Earlier(i, after[k], block)
      /\ \A k \in DOMAIN after : \A j \in 1..(k - 1) : Earlier(after[j], after[k], block)
      /\ \A k \in DOMAIN after : \E n \in DOMAIN next : next[n] = after[k]
  BY <1>1, NextFacts
<1>4. coming \in Seq(Blocks)
  BY <1>1 DEF LeadInv, EliminatingIn
<1>5. h = Hash(instr[i], i)
  BY DEF HashOf
<1> HIDE DEF i, after, h
<1>6. /\ \A k, l, b : Earlier(k, l, b)' <=> Earlier(k, l, b)
      /\ \A x, k : StandsFor(x, k, c)' <=> StandsFor(x, k, c)
  BY <1>1, NotionsStay DEF Earlier, Operators
<1>7. ASSUME NEW k \in DOMAIN local', NEW v, v = local'[k]
      PROVE  /\ v \in ToSet(order[block]) /\ v \notin ToSet(after)
             /\ \A n \in DOMAIN after : Earlier(v, after[n], block)
             /\ \E y : /\ k = Hash(y, v) /\ StandsFor(y, v, c)
                       /\ IsBinaryOp(y) <=> IsBinaryOp(instr[v])
  <2>1. CASE k = h
    <3>1. v = i
      BY <1>1, <1>7, <2>1 DEF Extended, Leader
    <3>2. k = Hash(instr[i], i) /\ StandsFor(instr[i], i, c)
          /\ (IsBinaryOp(instr[i]) <=> IsBinaryOp(instr[i]))
      BY <2>1, <1>3, <1>5
    <3>3. \E y : /\ k = Hash(y, i) /\ StandsFor(y, i, c)
                 /\ IsBinaryOp(y) <=> IsBinaryOp(instr[i])
      BY <3>2
    <3> QED
      BY <3>1, <3>3, <1>3
  <2>2. CASE k # h
    <3>1. k \in DOMAIN local /\ v = local[k]
      BY <1>1, <1>7, <2>2 DEF Extended, Leader
    <3>2. LocalLeader(v, k, c)
      BY <3>1, <1>3 DEF Working
    <3> QED
      BY <3>2, <1>3 DEF LocalLeader
  <2> QED
    BY <2>1, <2>2
<1>8. \A k \in DOMAIN local' : LocalLeader(local[k], k, c)'
  <2>1. SUFFICES ASSUME NEW k \in DOMAIN local'
                 PROVE  LocalLeader(local[k], k, c)'
    OBVIOUS
  <2>2. PICK v : v = local'[k]
    OBVIOUS
  <2>3. /\ v \in ToSet(order[block]) /\ v \notin ToSet(after)
        /\ \A n \in DOMAIN after : Earlier(v, after[n], block)
        /\ \E y : /\ k = Hash(y, v) /\ StandsFor(y, v, c)
                  /\ IsBinaryOp(y) <=> IsBinaryOp(instr[v])
    BY <2>2, <1>7
  <2>4. /\ v \in ToSet(order'[block']) /\ v \notin ToSet(next')
        /\ \E y : /\ k = Hash(y, v) /\ StandsFor(y, v, c)
                  /\ IsBinaryOp(y) <=> IsBinaryOp(instr'[v])
    BY <2>3, <1>1
  <2>5. \A n \in DOMAIN next' : Earlier(v, next[n], block)'
    <3>1. \A n \in DOMAIN next' : \E l : l = next'[n] /\ Earlier(v, l, block)
      BY <2>3, <1>1
    <3> QED
      BY <3>1, <1>1 DEF Earlier, Operators
  <2>6. LocalLeader(v, k, c)'
    BY <2>4, <2>5, <1>1 DEF LocalLeader, StandsFor, Expressions, Operators, Joins
  <2> QED
    BY <2>2, <2>6 DEF LocalLeader
<1>9. Working(c)'
  <2>1. /\ block' \in Blocks /\ ToSet(next') \subseteq ToSet(order'[block']) /\ Distinct(next')
    BY <1>1, <1>3 DEF Working
  <2>2. \A k \in DOMAIN next' : \A j \in 1..(k - 1) : Earlier(next[j], next[k], block)'
    <3>1. \A k \in DOMAIN next' : \A j \in 1..(k - 1) : Earlier(after[j], after[k], block)
      BY <1>1, <1>3
    <3> QED
      BY <3>1, <1>1 DEF Earlier, Operators
  <2> QED
    BY <2>1, <2>2, <1>8 DEF Working
<1>10. EliminatingIn(c)'
  BY <1>1, <1>3, <1>4, <1>9 DEF EliminatingIn
<1>11. InsertingAt'
  BY <1>1 DEF LeadInv, InsertingAt
<1> QED
  BY <1>1, <1>2, <1>10, <1>11, TablesLeftAlone DEF LeadInv

\* Taking an instruction out that another one stands for leaves all others with
\* the expressions they stood for.
LEMMA EliminateKeepsLeaders ==
  ASSUME NEW c, LeadInv(c), Telling, Eliminate
  PROVE  LeadInv(c)'
<1> DEFINE i == Head(next)
           after == Tail(next)
<1>1. PICK l \in Leaders(HashOf(Head(next))) \cap Live : ReplaceWith(Head(next), l)
  BY DEF Eliminate
<1>2. /\ step = "eliminate" /\ next # << >> /\ next' = after
      /\ UNCHANGED <<g, tree, step, computed, availIn, availOut, antIn, antOut, todo,
                     coming, block, local>>
  BY DEF Eliminate, given, available, anticipating, inserting
<1>3. /\ Static /\ ClassesOfGiven(c) /\ block \in Blocks /\ Working(c)
      /\ i \in Instrs /\ i \in ToSet(order[block])
      /\ order[block] \in Seq(Instrs) /\ Distinct(order[block])
      /\ after \in Seq(Instrs) /\ ToSet(after) \subseteq ToSet(next) /\ Distinct(after)
      /\ i \in ToSet(next) /\ i \notin ToSet(after)
      /\ \A k \in DOMAIN after : \A j \in 1..(k - 1) : Earlier(after[j], after[k], block)
      /\ \A k \in DOMAIN after : \E n \in DOMAIN next : next[n] = after[k]
  BY <1>2, NextFacts
<1>4. /\ IsBinaryOp(instr[i]) /\ c[l] = c[i] /\ l \in Live
      /\ i \in Placed(g) => Dispensable(i, block)
  BY <1>1, <1>2, OnlyOperatorsHaveLeaders, LeaderFacts
<1>5. /\ instr' = [k \in Instrs |->
                     IF k = i THEN NoInstr
                     ELSE [op |-> instr[k].op,
                           args |-> [n \in DOMAIN instr[k].args |->
                                       IF instr[k].args[n] = i THEN l ELSE instr[k].args[n]]]]
      /\ order' = [order EXCEPT ![block] = RemoveAt(@, CHOOSE k \in DOMAIN @ : @[k] = i)]
  BY <1>1 DEF ReplaceWith
<1>6. computed = Blocks /\ Onward
  BY <1>2 DEF LeadInv, Available, Onward
<1> HIDE DEF i, after
<1>7. l \in Values
  <2>1. PICK b \in Blocks : l \in ToSet(order[b])
    BY <1>4 DEF Live
  <2>2. order[b] \in Seq(Instrs)
    BY DEF LeadInv, Layouts
  <2> QED
    BY <2>1, <2>2, Elements DEF Values
\* The instructions.
<1>8. ~IsBinaryOp(instr'[i])
  BY <1>3, <1>5 DEF IsBinaryOp, NoInstr
<1>9. ASSUME NEW k \in Instrs, k # i
      PROVE  /\ instr'[k].op = instr[k].op
             /\ IsBinaryOp(instr'[k]) <=> IsBinaryOp(instr[k])
             /\ instr'[k].args = [n \in DOMAIN instr[k].args |->
                                    IF instr[k].args[n] = i THEN l ELSE instr[k].args[n]]
  BY <1>5, <1>9 DEF IsBinaryOp
<1>10. ASSUME NEW k \in Instrs
       PROVE  StandsFor(instr'[k], k, c)
  <2>1. CASE k = i
    BY <2>1, <1>8 DEF StandsFor
  <2>2. CASE k # i
    <3> DEFINE x == instr[k]
               y == instr'[k]
    <3>1. StandsFor(x, k, c)
      BY DEF LeadInv, Records
    <3>2. /\ y.op = x.op /\ (IsBinaryOp(y) <=> IsBinaryOp(x))
          /\ y.args = [n \in DOMAIN x.args |-> IF x.args[n] = i THEN l ELSE x.args[n]]
      BY <2>2, <1>9
    <3> HIDE DEF x, y
    <3>3. SUFFICES ASSUME IsBinaryOp(x)
                   PROVE  StandsFor(y, k, c)
      BY <3>2 DEF StandsFor, y
    <3>4. DOMAIN x.args = {1, 2} /\ x.args[1] \in Values /\ x.args[2] \in Values
      BY <3>1, <3>3 DEF StandsFor
    <3>5. \A n \in {1, 2} : y.args[n] \in Values /\ c[y.args[n]] = c[x.args[n]]
      BY <3>2, <3>4, <1>4, <1>7
    <3>6. DOMAIN y.args = {1, 2}
      BY <3>2, <3>4
    <3> QED
      BY <3>1, <3>2, <3>3, <3>5, <3>6 DEF StandsFor
  <2> QED
    BY <2>1, <2>2
\* The blocks.
<1>11. order \in [Blocks -> Seq(Instrs)]
  BY DEF LeadInv, Layouts
<1>12. /\ order'[block] \in Seq(Instrs) /\ Distinct(order'[block])
       /\ ToSet(order'[block]) = ToSet(order[block]) \ {i}
       /\ \A k \in DOMAIN order'[block] : \A j \in 1..(k - 1) :
            \E n \in DOMAIN order[block] : \E m \in 1..(n - 1) :
              order'[block][j] = order[block][m] /\ order'[block][k] = order[block][n]
  <2> DEFINE s == order[block]
             t == order'[block]
  <2>1. t = RemoveAt(s, CHOOSE k \in DOMAIN s : s[k] = i)
    BY <1>3, <1>5, <1>11
  <2>2. s \in Seq(Instrs) /\ Distinct(s) /\ i \in ToSet(s)
    BY <1>3
  <2> HIDE DEF s, t
  <2> DEFINE p == CHOOSE k \in DOMAIN s : s[k] = i
             u == RemoveAt(s, p)
  <2>p. p \in DOMAIN s /\ s[p] = i
    <3>1. \E k \in DOMAIN s : s[k] = i
      BY <2>2, Elements, LenProperties
    <3> QED
      BY <3>1
  <2>3. /\ u \in Seq(Instrs) /\ Distinct(u) /\ ToSet(u) = ToSet(s) \ {i}
        /\ \A k \in DOMAIN u : \A j \in 1..(k - 1) :
             \E n \in DOMAIN s : \E m \in 1..(n - 1) : u[j] = s[m] /\ u[k] = s[n]
    <3> HIDE DEF p
    <3> QED
      BY <2>2, <2>p, TakenOut
  <2>4. t = u
    BY <2>1
  <2> HIDE DEF u
  <2> QED
    BY <2>3, <2>4 DEF s, t
<1>13. \A b \in Blocks : b # block => order'[b] = order[b]
  BY <1>5, <1>11
<1>14. ASSUME NEW b \in Blocks
       PROVE  /\ order'[b] \in Seq(Instrs) /\ Distinct(order'[b])
              /\ ToSet(order'[b]) \subseteq ToSet(order[b])
              /\ \A j \in ToSet(order[b]) : j # i => j \in ToSet(order'[b])
              /\ \A k \in DOMAIN order'[b] : \A j \in 1..(k - 1) :
                   \E n \in DOMAIN order[b] : \E m \in 1..(n - 1) :
                     order'[b][j] = order[b][m] /\ order'[b][k] = order[b][n]
  <2>1. CASE b = block
    <3>1. order'[b] = order'[block] /\ order[b] = order[block]
      BY <2>1
    <3>2. \A j \in ToSet(order[block]) : j # i => j \in ToSet(order'[block])
      BY <1>12
    <3>3. ToSet(order'[block]) \subseteq ToSet(order[block])
      BY <1>12
    <3>4. /\ order'[block] \in Seq(Instrs) /\ Distinct(order'[block])
          /\ \A k \in DOMAIN order'[block] : \A j \in 1..(k - 1) :
               \E n \in DOMAIN order[block] : \E m \in 1..(n - 1) :
                 order'[block][j] = order[block][m] /\ order'[block][k] = order[block][n]
      BY <1>12
    <3> DEFINE s == order[block]
               t == order'[block]
    <3> HIDE DEF s, t
    <3>5. /\ t \in Seq(Instrs) /\ Distinct(t) /\ ToSet(t) \subseteq ToSet(s)
          /\ \A j \in ToSet(s) : j # i => j \in ToSet(t)
          /\ \A k \in DOMAIN t : \A j \in 1..(k - 1) :
               \E n \in DOMAIN s : \E m \in 1..(n - 1) : t[j] = s[m] /\ t[k] = s[n]
      BY <3>2, <3>3, <3>4 DEF s, t
    <3>6. order'[b] = t /\ order[b] = s
      BY <3>1 DEF s, t
    <3> QED
      BY <3>5, <3>6
  <2>2. CASE b # block
    <3>1. order'[b] = order[b] /\ order[b] \in Seq(Instrs) /\ Distinct(order[b])
      BY <2>2, <1>11, <1>13 DEF LeadInv, Layouts
    <3> QED
      BY <3>1
  <2> QED
    BY <2>1, <2>2
<1>15. order' \in [Blocks -> Seq(Instrs)]
  BY <1>5, <1>11, <1>14
<1>16. \A k \in Instrs : IsBinaryOp(instr'[k]) => IsBinaryOp(instr[k])
  BY <1>8, <1>9
<1>17. ASSUME NEW u \in Instrs, NEW w, NEW b, Earlier(u, w, b)
       PROVE  Earlier(u, w, b)'
  BY <1>2, <1>16, <1>17 DEF Earlier, Operators
<1>18. Layouts'
  <2>1. ASSUME NEW b \in Blocks, NEW k \in DOMAIN order'[b], NEW j \in 1..(k - 1)
        PROVE  Earlier(order[b][j], order[b][k], b)'
    <3>1. PICK n \in DOMAIN order[b] : \E m \in 1..(n - 1) :
            order'[b][j] = order[b][m] /\ order'[b][k] = order[b][n]
      BY <1>14
    <3>2. PICK m \in 1..(n - 1) :
            order'[b][j] = order[b][m] /\ order'[b][k] = order[b][n]
      BY <3>1
    <3>3. Earlier(order[b][m], order[b][n], b)
      BY <3>1, <3>2 DEF LeadInv, Layouts
    <3>4. PICK u, w : u = order[b][m] /\ w = order[b][n]
      OBVIOUS
    <3>5. u \in Instrs
      <4>1. order[b] \in Seq(Instrs)
        BY <1>11
      <4>2. m \in 1..Len(order[b])
        BY <4>1, <3>1, <3>2, LenProperties
      <4> QED
        BY <4>1, <4>2, <3>4, ElementOfSeq
    <3>6. Earlier(u, w, b)
      BY <3>3, <3>4
    <3>7. Earlier(u, w, b)'
      BY <3>5, <3>6, <1>17
    <3> QED
      BY <3>2, <3>4, <3>7 DEF Earlier
  <2>2. ASSUME NEW b \in Blocks, NEW j \in ToSet(g.order[b])
        PROVE  j \in ToSet(order'[b]) \/ Dispensable(j, b)
    <3>1. CASE j = i
      <4>1. i \in ToSet(g.order[block]) /\ i \in Placed(g)
        <5>1. i \in Placed(g)
          BY <3>1, <1>3, GivenFacts
        <5> QED
          BY <5>1, <1>3 DEF LeadInv, Layouts
      <4>2. b = block
        BY <4>1, <3>1, <1>3, GivenFacts
      <4> QED
        BY <4>1, <4>2, <3>1, <1>4
    <3>2. CASE j # i
      BY <3>2, <1>14 DEF LeadInv, Layouts
    <3> QED
      BY <3>1, <3>2
  <2>3. ASSUME NEW b \in Blocks
        PROVE  ToSet(order'[b]) \cap Placed(g) \subseteq ToSet(g.order[b])
    BY <1>14 DEF LeadInv, Layouts
  <2>4. \A b \in Blocks : \A j \in ToSet(g.order[b]) : j \in ToSet(order'[b]) \/ Dispensable(j, b)'
    BY <2>2, <1>2, NotionsStay
  <2> QED
    BY <2>1, <2>3, <2>4, <1>2, <1>14, <1>15 DEF Layouts
<1>19. Records(c)'
  <2>1. instr' = [k \in Instrs |-> instr'[k]]
    BY <1>5
  <2>2. \A k \in Instrs : StandsFor(instr[k], k, c)'
    BY <1>2, <1>10, NotionsStay
  <2>3. \A k \in Placed(g) : IsBinaryOp(instr'[k]) => IsBinaryOp(g.instr[k])
    BY <1>3, <1>16, GivenFacts DEF LeadInv, Records
  <2>4. ASSUME NEW b \in Blocks, NEW k \in ToSet(order'[b]) \ Placed(g), IsBinaryOp(instr'[k]),
               NEW a \in StrictDominators(g.succ, b), NEW j \in ToSet(g.order[a])
        PROVE  GivenHash(j) # c[k]
    <3>1. k \in ToSet(order[b]) \ Placed(g) /\ k \in Instrs
      <4>1. order[b] \in Seq(Instrs)
        BY <1>11
      <4> QED
        BY <4>1, <1>14, Elements
    <3>2. IsBinaryOp(instr[k])
      BY <3>1, <2>4, <1>16
    <3> QED
      BY <3>1, <3>2 DEF LeadInv, Records
  <2>5. \A k : GivenHash(k)' = GivenHash(k)
    BY <1>2, GivenStays
  <2> QED
    BY <2>1, <2>2, <2>3, <2>4, <2>5, <1>2 DEF Records
<1>20. Untouched'
  BY <1>2 DEF Untouched
<1>21. Available(c)'
  <2>1. ASSUME NEW v, NEW k, NEW b, Merged(v, k, b, c)
        PROVE  Merged(v, k, b, c)'
    <3>1. PICK a \in Blocks : v \in ToSet(order[a])
      BY <2>1 DEF Merged, Live
    <3>2. v \in Instrs /\ v # i
      <4>1. order[a] \in Seq(Instrs)
        BY <1>11
      <4>2. instr[v].op = "phi"
        BY <2>1 DEF Merged
      <4>3. v # i
        BY <4>2, <1>4 DEF IsBinaryOp
      <4> QED
        BY <3>1, <4>1, <4>3, Elements
    <3>3. v \in ToSet(order'[a]) /\ instr'[v].op = instr[v].op
      BY <3>1, <3>2, <1>9, <1>14
    <3>4. v \in Live'
      BY <3>3 DEF Live
    <3> QED
      BY <3>3, <3>4, <2>1, <1>2, GivenStays DEF Merged
  <2>2. \A b \in Blocks : \A k \in DOMAIN availIn[b] :
          \/ FirstWith(availIn[b][k], k, StrictDominators(g.succ, b))
          \/ Merged(availIn[b][k], k, b, c)
    BY DEF LeadInv, Available
  <2>3. ASSUME NEW b \in Blocks, NEW k \in DOMAIN availIn[b]
        PROVE  \/ FirstWith(availIn[b][k], k, StrictDominators(g.succ, b))'
               \/ Merged(availIn[b][k], k, b, c)'
    <3>1. PICK v : v = availIn[b][k]
      OBVIOUS
    <3>2. \/ FirstWith(v, k, StrictDominators(g.succ, b))
          \/ Merged(v, k, b, c)
      BY <3>1, <2>2
    <3>3. FirstWith(v, k, StrictDominators(g.succ, b)) =>
            FirstWith(availIn[b][k], k, StrictDominators(g.succ, b))'
      BY <3>1, <1>2 DEF FirstWith, GivenHash
    <3>4. Merged(v, k, b, c) => Merged(availIn[b][k], k, b, c)'
      BY <3>1, <2>1, <1>2 DEF Merged
    <3> QED
      BY <3>2, <3>3, <3>4
  <2>4. \A k : GivenHash(k)' = GivenHash(k)
    BY <1>2, GivenStays
  <2> QED
    BY <2>3, <2>4, <1>2, <1>6 DEF LeadInv, Available
\* What the loop has in front of it and behind it.
<1>22. ASSUME NEW k \in DOMAIN local
       PROVE  LocalLeader(local[k], k, c)'
  <2>1. PICK v : v = local[k]
    OBVIOUS
  <2>2. LocalLeader(v, k, c)
    BY <2>1, <1>3 DEF Working
  <2>3. /\ v \in ToSet(order[block]) /\ v \notin ToSet(next)
        /\ \A n \in DOMAIN next : Earlier(v, next[n], block)
    BY <2>2 DEF LocalLeader
  <2>4. PICK y : /\ k = Hash(y, v) /\ StandsFor(y, v, c)
                 /\ IsBinaryOp(y) <=> IsBinaryOp(instr[v])
    BY <2>2 DEF LocalLeader
  <2>5. v # i /\ v \in Instrs
    BY <2>3, <1>3, Elements
  <2>6. /\ v \in ToSet(order'[block']) /\ v \notin ToSet(next')
        /\ (IsBinaryOp(y) <=> IsBinaryOp(instr'[v]))
    BY <2>3, <2>4, <2>5, <1>2, <1>3, <1>9, <1>14
  <2>7. \A n \in DOMAIN next' : Earlier(v, next[n], block)'
    <3>1. ASSUME NEW n \in DOMAIN next'
          PROVE  Earlier(v, next[n], block)'
      <4>1. PICK w, b : w = after[n] /\ b = block
        OBVIOUS
      <4>2. Earlier(v, w, b)
        BY <4>1, <2>3, <1>2, <1>3
      <4>3. Earlier(v, w, b)'
        BY <4>2, <2>5, <1>17
      <4> QED
        BY <4>1, <4>3, <1>2 DEF Earlier
    <3> QED
      BY <3>1
  <2>8. StandsFor(y, v, c)'
    BY <2>4, <1>2, NotionsStay
  <2>9. LocalLeader(v, k, c)'
    BY <2>4, <2>6, <2>7, <2>8 DEF LocalLeader
  <2> QED
    BY <2>1, <2>9, <1>2 DEF LocalLeader
<1>23. Working(c)'
  <2>1. /\ block' \in Blocks /\ ToSet(next') \subseteq ToSet(order'[block']) /\ Distinct(next')
    <3>1. ToSet(after) \subseteq ToSet(order[block])
      BY <1>3 DEF Working
    <3> QED
      BY <3>1, <1>2, <1>3, <1>12
  <2>2. \A k \in DOMAIN next' : \A j \in 1..(k - 1) : Earlier(next[j], next[k], block)'
    <3>1. ASSUME NEW k \in DOMAIN next', NEW j \in 1..(k - 1)
          PROVE  Earlier(next[j], next[k], block)'
      <4>1. PICK u, w, b : u = after[j] /\ w = after[k] /\ b = block
        OBVIOUS
      <4>2. Earlier(u, w, b)
        BY <4>1, <1>2, <1>3
      <4>3. u \in Instrs
        <5>1. j \in 1..Len(after)
          BY <1>2, <1>3, LenProperties
        <5> QED
          BY <5>1, <4>1, <1>3, ElementOfSeq
      <4>4. Earlier(u, w, b)'
        BY <4>2, <4>3, <1>17
      <4> QED
        BY <4>1, <4>4, <1>2 DEF Earlier
    <3> QED
      BY <3>1
  <2> QED
    BY <2>1, <2>2, <1>2, <1>22 DEF Working
<1>24. EliminatingIn(c)'
  <2>1. coming \in Seq(Blocks)
    BY <1>2 DEF LeadInv, EliminatingIn
  <2> QED
    BY <2>1, <1>2, <1>3, <1>23 DEF EliminatingIn
<1>25. InsertingAt'
  BY <1>2 DEF LeadInv, InsertingAt
<1>26. Static' /\ Tables' /\ ClassesOfGiven(c)' /\ Anticipated'
  BY <1>2, <1>3, NotionsStay DEF LeadInv, Static, Tables, IsTable, Anticipated
<1> QED
  BY <1>18, <1>19, <1>20, <1>21, <1>24, <1>25, <1>26 DEF LeadInv

------------------------------------------------------------------------------
(* The pass *)

LEMMA EveryStepKeepsLeaders ==
  ASSUME NEW c, LeadInv(c), Telling, PRENext \/ UNCHANGED preVars
  PROVE  \E d : LeadInv(d)'
<1>1. CASE QuietSteps
  BY <1>1, QuietStepsKeepLeaders
<1>2. ASSUME NEW b \in Blocks, ComputeAvailable(b)
      PROVE  LeadInv(c)'
  BY <1>2, ComputeAvailableKeepsLeaders
<1>3. CASE Anticipate
  BY <1>3, AnticipateKeepsLeaders
<1>4. ASSUME NEW h \in todo, InsertPhi(h)
      PROVE  \E d : LeadInv(d)'
  BY <1>4, InsertPhiKeepsLeaders
<1>5. CASE Eliminate
  BY <1>5, EliminateKeepsLeaders
<1>6. CASE Keep
  BY <1>6, KeepKeepsLeaders
<1> QED
  BY <1>1, <1>2, <1>3, <1>4, <1>5, <1>6 DEF PRENext, PRERun, Stopped, QuietSteps

LEMMA LeadersInvInductive ==
  LeadersInv /\ [PRENext]_preVars => LeadersInv'
<1>1. SUFFICES ASSUME LeadersInv, [PRENext]_preVars, Telling'
               PROVE  \E d : LeadInv(d)'
  BY DEF LeadersInv
<1>2. UNCHANGED g
  BY <1>1 DEF PRENext, PRERun, Stopped, preVars, given, ComputeAvailable, StartAnticipated,
     Anticipate, AnticipateAgain, FinishAnticipated, InsertInto, AlreadyRedundant, LosePhi,
     NotRedundant, InsertPhi, InsertAgain, FinishInsert, EliminateIn, Eliminate, LoseLeader, Keep,
     FinishEliminate
<1>3. Telling
  BY <1>1, <1>2, GivenStays
<1>4. PICK c : LeadInv(c)
  BY <1>1, <1>3 DEF LeadersInv
<1> QED
  BY <1>1, <1>3, <1>4, EveryStepKeepsLeaders

\* Whatever the function, if joins compute last and hashes tell expressions
\* apart: the leader an instruction is replaced with has not been erased (the
\* comment of lines 58-60).
THEOREM LeadersAreThere == PRESpec => []LeadersStay
<1>1. PREInit => LeadersInv
  BY PREInitLeaders DEF LeadersInv
<1>2. LeadersInv => LeadersStay
  <2>1. SUFFICES ASSUME LeadersInv, Telling, step = "eliminate", next # << >>
                 PROVE  Leaders(HashOf(Head(next))) \subseteq Live
    BY DEF LeadersStay, LeadersLive, Telling
  <2>2. PICK c : LeadInv(c)
    BY <2>1 DEF LeadersInv
  <2> QED
    BY <2>1, <2>2, LeaderFacts
<1> QED
  BY <1>1, <1>2, LeadersInvInductive, PTL DEF PRESpec

==============================================================================
