-------------------------- MODULE DominanceTheorems --------------------------
(****************************************************************************)
(* What the other proofs need to know of reachability and dominance in an   *)
(* arbitrary control flow graph, and of sequences.  Most proofs about       *)
(* graphs show some set of blocks closed and use that reachability is the   *)
(* least one; those that need an extreme block take a set of blocks that is *)
(* least under inclusion, for which the blocks have to be finite.           *)
(****************************************************************************)
EXTENDS ControlFlow, Integers, SequencesExt, FiniteSetTheorems, SequenceTheorems, TLAPS

\* The blocks reached without meeting d form a closed set, the least one.
LEMMA ReachAvoidingClosed ==
  ASSUME NEW s \in CFGs, NEW d \in Blocks
  PROVE  ReachAvoiding(s, d) \in ClosedAvoiding(s, d)
<1> USE EntryAssumption
<1>1. ReachAvoiding(s, d) \in SUBSET Blocks
  BY DEF ReachAvoiding
<1>2. Entry # d => Entry \in ReachAvoiding(s, d)
  BY DEF ReachAvoiding, ClosedAvoiding
<1>3. ASSUME NEW p \in ReachAvoiding(s, d), NEW c \in s[p], c # d
      PROVE  c \in ReachAvoiding(s, d)
  <2>1. c \in Blocks
    BY DEF CFGs, NonEntry, ReachAvoiding
  <2>2. ASSUME NEW S \in ClosedAvoiding(s, d)
        PROVE  c \in S
    BY <1>3, <2>2 DEF ReachAvoiding, ClosedAvoiding
  <2>3. QED
    BY <2>1, <2>2 DEF ReachAvoiding
<1>4. QED
  BY <1>1, <1>2, <1>3 DEF ClosedAvoiding

LEMMA ReachAvoidingLeast ==
  ASSUME NEW s \in CFGs, NEW d \in Blocks, NEW S \in ClosedAvoiding(s, d)
  PROVE  ReachAvoiding(s, d) \subseteq S
BY DEF ReachAvoiding

\* The two halves of closedness, in the form the other proofs cite.
LEMMA ReachAvoidingStep ==
  ASSUME NEW s \in CFGs, NEW d \in Blocks
  PROVE  /\ ReachAvoiding(s, d) \subseteq Blocks
         /\ Entry # d => Entry \in ReachAvoiding(s, d)
         /\ \A p \in ReachAvoiding(s, d) :
              \A c \in s[p] : c # d => c \in ReachAvoiding(s, d)
BY ReachAvoidingClosed DEF ClosedAvoiding

LEMMA NotReachedAvoidingItself ==
  ASSUME NEW s \in CFGs, NEW d \in Blocks
  PROVE  d \notin ReachAvoiding(s, d)
<1>1. Blocks \ {d} \in ClosedAvoiding(s, d)
  BY EntryAssumption DEF ClosedAvoiding, CFGs, NonEntry
<1>2. QED
  BY <1>1, ReachAvoidingLeast

\* The same for plain reachability.
LEMMA ReachableStep ==
  ASSUME NEW s \in CFGs
  PROVE  /\ Reachable(s) \subseteq Blocks
         /\ Entry \in Reachable(s)
         /\ \A p \in Reachable(s) : s[p] \subseteq Reachable(s)
<1>1. Reachable(s) \subseteq Blocks /\ Entry \in Reachable(s)
  BY EntryAssumption DEF Reachable, ClosedFromEntry
<1>2. ASSUME NEW p \in Reachable(s), NEW c \in s[p]
      PROVE  c \in Reachable(s)
  <2>1. c \in Blocks
    BY <1>1 DEF CFGs, NonEntry
  <2>2. ASSUME NEW S \in ClosedFromEntry(s)
        PROVE  c \in S
    BY <1>2, <2>2 DEF Reachable, ClosedFromEntry
  <2>3. QED
    BY <2>1, <2>2 DEF Reachable
<1>3. QED
  BY <1>1, <1>2

LEMMA ReachableLeast ==
  ASSUME NEW s \in CFGs, NEW S \in SUBSET Blocks, Entry \in S,
         \A p \in S : s[p] \subseteq S
  PROVE  Reachable(s) \subseteq S
BY DEF Reachable, ClosedFromEntry

------------------------------------------------------------------------------
\* Dominance is what its comment says: d dominates b iff b is not reached
\* without meeting d.
LEMMA DominanceMeaning ==
  ASSUME NEW s \in CFGs, NEW d \in Blocks, NEW b \in Blocks
  PROVE  <<d, b>> \in Dominance(s) <=> b \notin ReachAvoiding(s, d)
<1>1. ASSUME <<d, b>> \in Dominance(s)
      PROVE  b \notin ReachAvoiding(s, d)
  <2>1. PICK e \in Blocks : <<d, b>> \in {e} \X (Blocks \ ReachAvoiding(s, e))
    BY <1>1, Zenon DEF Dominance
  <2>2. QED
    BY <2>1
<1>2. ASSUME b \notin ReachAvoiding(s, d)
      PROVE  <<d, b>> \in Dominance(s)
  <2>1. <<d, b>> \in {d} \X (Blocks \ ReachAvoiding(s, d))
    BY <1>2
  <2>2. QED
    BY <2>1, Zenon DEF Dominance
<1>3. QED
  BY <1>1, <1>2

LEMMA DominancePairs ==
  ASSUME NEW s \in CFGs, NEW e \in Dominance(s)
  PROVE  e \in Blocks \X Blocks /\ e = <<e[1], e[2]>>
<1>1. PICK d \in Blocks : e \in {d} \X (Blocks \ ReachAvoiding(s, d))
  BY Zenon DEF Dominance
<1>2. QED
  BY <1>1

LEMMA DominatesItself ==
  ASSUME NEW s \in CFGs, NEW b \in Blocks
  PROVE  <<b, b>> \in Dominance(s)
BY NotReachedAvoidingItself, DominanceMeaning

LEMMA EntryDominatesAll ==
  ASSUME NEW s \in CFGs, NEW b \in Blocks
  PROVE  <<Entry, b>> \in Dominance(s)
<1>1. {} \in ClosedAvoiding(s, Entry)
  BY DEF ClosedAvoiding
<1>2. ReachAvoiding(s, Entry) \subseteq {}
  BY <1>1, ReachAvoidingLeast, EntryAssumption
<1>3. QED
  BY <1>2, DominanceMeaning, EntryAssumption

LEMMA OnlyEntryDominatesEntry ==
  ASSUME NEW s \in CFGs, NEW d \in Blocks, <<d, Entry>> \in Dominance(s)
  PROVE  d = Entry
BY DominanceMeaning, ReachAvoidingStep, EntryAssumption

\* A dominator of b other than b dominates every predecessor of b.
LEMMA DominatesPredecessor ==
  ASSUME NEW s \in CFGs, NEW d \in Blocks, NEW b \in Blocks,
         <<d, b>> \in Dominance(s), d # b,
         NEW p \in Preds(s, b)
  PROVE  <<d, p>> \in Dominance(s)
<1>1. p \in Blocks /\ b \in s[p]
  BY DEF Preds
<1>2. b \notin ReachAvoiding(s, d)
  BY DominanceMeaning
<1>3. p \notin ReachAvoiding(s, d)
  BY <1>1, <1>2, ReachAvoidingStep
<1>4. QED
  BY <1>1, <1>3, DominanceMeaning

LEMMA DominanceTransitive ==
  ASSUME NEW s \in CFGs, NEW a \in Blocks, NEW b \in Blocks, NEW c \in Blocks,
         <<a, b>> \in Dominance(s), <<b, c>> \in Dominance(s)
  PROVE  <<a, c>> \in Dominance(s)
<1> DEFINE T == ReachAvoiding(s, a) \cap ReachAvoiding(s, b)
<1>1. b \notin ReachAvoiding(s, a) /\ c \notin ReachAvoiding(s, b)
  BY DominanceMeaning
<1>2. T \in ClosedAvoiding(s, a)
  <2>1. T \in SUBSET Blocks
    BY ReachAvoidingStep
  <2>2. Entry # a => Entry \in T
    BY <1>1, ReachAvoidingStep
  <2>3. ASSUME NEW p \in T, NEW x \in s[p], x # a
        PROVE  x \in T
    <3>1. x \in ReachAvoiding(s, a)
      BY <2>3, ReachAvoidingStep
    <3>2. x # b
      BY <3>1, <1>1
    <3>3. QED
      BY <3>1, <3>2, ReachAvoidingStep
  <2>4. QED
    BY <2>1, <2>2, <2>3 DEF ClosedAvoiding
<1>3. c \notin ReachAvoiding(s, a)
  BY <1>1, <1>2, ReachAvoidingLeast
<1>4. QED
  BY <1>3, DominanceMeaning

\* The dominators of a reachable block are a chain: this is why there is a
\* dominator tree at all.
LEMMA DominatorsAreAChain ==
  ASSUME NEW s \in CFGs, NEW a \in Blocks, NEW b \in Blocks,
         NEW c \in Reachable(s),
         <<a, c>> \in Dominance(s), <<b, c>> \in Dominance(s)
  PROVE  <<a, b>> \in Dominance(s) \/ <<b, a>> \in Dominance(s)
<1> DEFINE T == ReachAvoiding(s, a) \cup ReachAvoiding(s, b)
<1>0. c \in Blocks
  BY ReachableStep
<1>1. c \notin T
  BY <1>0, DominanceMeaning
<1>2. SUFFICES ASSUME b \in ReachAvoiding(s, a), a \in ReachAvoiding(s, b)
               PROVE  FALSE
  BY DominanceMeaning
<1>3. T \in SUBSET Blocks
  BY ReachAvoidingStep
<1>4. Entry \in T
  BY <1>2, ReachAvoidingStep
<1>5. ASSUME NEW p \in T, NEW x \in s[p]
      PROVE  x \in T
  BY <1>2, <1>5, ReachAvoidingStep
<1>6. QED
  BY <1>1, <1>3, <1>4, <1>5, ReachableLeast

\* Two different blocks dominate each other only where control never comes.
LEMMA DominanceAntisymmetric ==
  ASSUME NEW s \in CFGs, NEW a \in Reachable(s), NEW b \in Blocks,
         <<a, b>> \in Dominance(s), <<b, a>> \in Dominance(s)
  PROVE  a = b
<1> DEFINE T == ReachAvoiding(s, a) \cap ReachAvoiding(s, b)
<1>0. a \in Blocks
  BY ReachableStep
<1>1. SUFFICES ASSUME a # b PROVE FALSE
  OBVIOUS
<1>2. b \notin ReachAvoiding(s, a) /\ a \notin ReachAvoiding(s, b)
  BY <1>0, DominanceMeaning
<1>3. T \in SUBSET Blocks
  BY <1>0, ReachAvoidingStep
<1>4. Entry \in T
  BY <1>0, <1>1, <1>2, ReachAvoidingStep
<1>5. ASSUME NEW p \in T, NEW x \in s[p]
      PROVE  x \in T
  BY <1>0, <1>1, <1>2, <1>5, ReachAvoidingStep
<1>6. a \notin T
  BY <1>0, NotReachedAvoidingItself
<1>7. QED
  BY <1>3, <1>4, <1>5, <1>6, ReachableLeast

LEMMA DominatorIsReachable ==
  ASSUME NEW s \in CFGs, NEW a \in Blocks, NEW b \in Reachable(s),
         <<a, b>> \in Dominance(s)
  PROVE  a \in Reachable(s)
<1> DEFINE T == ReachAvoiding(s, a) \cap Reachable(s)
<1>1. SUFFICES ASSUME a \notin Reachable(s) PROVE FALSE
  OBVIOUS
<1>2. b \in Blocks /\ b \notin ReachAvoiding(s, a)
  BY ReachableStep, DominanceMeaning
<1>3. T \in SUBSET Blocks
  BY ReachableStep
<1>4. Entry \in T
  BY <1>1, ReachableStep, ReachAvoidingStep
<1>5. ASSUME NEW p \in T, NEW x \in s[p]
      PROVE  x \in T
  BY <1>1, <1>5, ReachableStep, ReachAvoidingStep
<1>6. QED
  BY <1>2, <1>3, <1>4, <1>5, ReachableLeast

------------------------------------------------------------------------------
LEMMA UnreachableIsDominatedByAll ==
  ASSUME NEW s \in CFGs, NEW d \in Blocks, NEW b \in Blocks \ Reachable(s)
  PROVE  <<d, b>> \in Dominance(s)
<1>1. Reachable(s) \in ClosedAvoiding(s, d)
  BY ReachableStep DEF ClosedAvoiding
<1>2. QED
  BY <1>1, ReachAvoidingLeast, DominanceMeaning

LEMMA TreeEdgePairs ==
  ASSUME NEW s \in CFGs, NEW e \in TreeEdges(s)
  PROVE  e \in Blocks \X Blocks /\ e = <<e[1], e[2]>>
<1>1. CASE e \in IDomEdges(s)
  BY <1>1, DominancePairs DEF IDomEdges
<1>2. CASE e \in Reachable(s) \X (Blocks \ Reachable(s))
  BY <1>2, ReachableStep
<1> QED
  BY <1>1, <1>2 DEF TreeEdges

\* The child of an edge of the tree is reachable or the only block that is not.
LEMMA TreeEdgeTarget ==
  ASSUME NEW s \in CFGs, NEW a, NEW c, <<a, c>> \in TreeEdges(s)
  PROVE  c \in Reachable(s) \/ Blocks \ Reachable(s) = {c}
BY DEF TreeEdges, IDomEdges

\* What an edge of the tree that the analysis hands out says: the parent is
\* reachable and dominates the child.
LEMMA TreeEdgesDominate ==
  ASSUME NEW s \in CFGs, NEW a \in Blocks, NEW c \in Blocks, <<a, c>> \in TreeEdges(s)
  PROVE  /\ a \in Reachable(s) /\ a # c
         /\ <<a, c>> \in Dominance(s)
<1>1. CASE <<a, c>> \in IDomEdges(s)
  <2>1. <<a, c>> \in Dominance(s) /\ a # c /\ c \in Reachable(s)
    BY <1>1 DEF IDomEdges
  <2>2. QED
    BY <2>1, DominatorIsReachable
<1>2. CASE <<a, c>> \notin IDomEdges(s)
  <2>1. a \in Reachable(s) /\ c \in Blocks \ Reachable(s)
    BY <1>2 DEF TreeEdges
  <2>2. QED
    BY <2>1, UnreachableIsDominatedByAll
<1>3. QED
  BY <1>1, <1>2

\* A set of numbers that is not empty has a least one: what the other proofs
\* use instead of induction.
LEMMA LeastNatural ==
  ASSUME NEW T \in SUBSET Nat, T # {}
  PROVE  \E n \in T : \A m \in T : n <= m
<1> DEFINE Below == {0..n : n \in T}
<1>1. IsWellFoundedOn(StrictSubsetOrdering(Nat), FiniteSubsetsOf(Nat))
  BY FS_StrictSubsetOrderingWellFounded
<1>2. Below \subseteq FiniteSubsetsOf(Nat)
  <2>1. SUFFICES ASSUME NEW n \in T PROVE 0..n \in FiniteSubsetsOf(Nat)
    OBVIOUS
  <2>2. n \in Int /\ 0 \in Int /\ 0..n \in SUBSET Nat
    OBVIOUS
  <2>3. IsFiniteSet(0..n)
    BY <2>2, FS_Interval
  <2>4. QED
    BY <2>2, <2>3 DEF FiniteSubsetsOf
<1>3. Below # {}
  OBVIOUS
<1>4. PICK S \in Below : \A U \in Below : <<U, S>> \notin StrictSubsetOrdering(Nat)
  <2> HIDE DEF Below
  <2>1. QED
    BY <1>1, <1>2, <1>3, WFMin
<1>5. PICK n \in T : S = 0..n
  BY <1>4
<1>6. ASSUME NEW m \in T, m < n
      PROVE  FALSE
  <2>1. 0..m \in Below /\ n \in Nat /\ m \in Nat
    OBVIOUS
  <2>2. 0..m \subseteq S /\ n \in S /\ n \notin 0..m /\ S \subseteq Nat
    BY <1>5, <1>6, <2>1
  <2>3. <<0..m, S>> \in StrictSubsetOrdering(Nat)
    BY <2>1, <2>2 DEF StrictSubsetOrdering
  <2>4. QED
    BY <1>4, <2>1, <2>3
<1>7. QED
  BY <1>6

\* The same for finite sets ordered by inclusion.
LEMMA LeastFiniteSet ==
  ASSUME NEW S, NEW T \in SUBSET SUBSET S, IsFiniteSet(S), T # {}
  PROVE  \E A \in T : \A B \in T : B \subseteq A => B = A
<1>1. IsWellFoundedOn(StrictSubsetOrdering(S), FiniteSubsetsOf(S))
  BY FS_StrictSubsetOrderingWellFounded
<1>2. T \subseteq FiniteSubsetsOf(S)
  BY FS_FiniteSubsetsOfFinite
<1>3. PICK A \in T : \A B \in T : <<B, A>> \notin StrictSubsetOrdering(S)
  BY <1>1, <1>2, WFMin
<1>4. QED
  BY <1>3 DEF StrictSubsetOrdering

------------------------------------------------------------------------------
Dominators(s, b) == {d \in Blocks : <<d, b>> \in Dominance(s)}
StrictDominators(s, b) == Dominators(s, b) \ {b}

LEMMA DominatorsShrink ==
  ASSUME NEW s \in CFGs, NEW b \in Reachable(s), NEW i \in StrictDominators(s, b)
  PROVE  /\ Dominators(s, i) \subseteq StrictDominators(s, b)
         /\ i \notin StrictDominators(s, i) /\ i \in Reachable(s)
<1>1. b \in Blocks /\ i \in Blocks /\ <<i, b>> \in Dominance(s) /\ i # b
  BY ReachableStep DEF StrictDominators, Dominators
<1>2. ASSUME NEW d \in Blocks, <<d, i>> \in Dominance(s)
      PROVE  <<d, b>> \in Dominance(s) /\ d # b
  BY <1>1, <1>2, DominanceTransitive, DominanceAntisymmetric
<1>3. i \in Reachable(s)
  BY <1>1, DominatorIsReachable
<1>4. QED
  BY <1>2, <1>3 DEF StrictDominators, Dominators

\* The strict dominators of a reachable block are a chain, and it has an end.
LEMMA ImmediateDominatorExists ==
  ASSUME NEW s \in CFGs, NEW b \in Reachable(s), b # Entry
  PROVE  \E i \in StrictDominators(s, b) : <<i, b>> \in IDomEdges(s)
<1> DEFINE SD == StrictDominators(s, b)
           Beyond(i) == SD \ Dominators(s, i)
<1>1. b \in Blocks /\ SD \subseteq Blocks /\ IsFiniteSet(SD) /\ Entry \in SD
  BY ReachableStep, EntryDominatesAll, EntryAssumption, BlocksAssumption, FS_Subset
     DEF StrictDominators, Dominators
<1>2. PICK i \in SD : \A j \in SD : Beyond(j) \subseteq Beyond(i) => Beyond(j) = Beyond(i)
  <2> DEFINE T == {Beyond(i) : i \in SD}
  <2>1. T \in SUBSET SUBSET SD /\ T # {}
    BY <1>1
  <2>2. PICK A \in T : \A B \in T : B \subseteq A => B = A
    <3> HIDE DEF T, SD
    <3>1. QED
      BY <1>1, <2>1, LeastFiniteSet
  <2>3. PICK i \in SD : A = Beyond(i)
    BY <2>2
  <2>4. \A j \in SD : Beyond(j) \in T
    OBVIOUS
  <2> HIDE DEF Beyond, T, SD
  <2>5. QED
    BY <2>2, <2>3, <2>4
<1>3. ASSUME NEW j \in SD, <<j, i>> \notin Dominance(s)
      PROVE  FALSE
  <2>1. i \in Blocks /\ j \in Blocks /\ <<i, j>> \in Dominance(s)
    BY <1>1, <1>3, DominatorsAreAChain DEF StrictDominators, Dominators
  <2>2. Dominators(s, i) \subseteq Dominators(s, j)
    BY <2>1, DominanceTransitive DEF Dominators
  <2>3. j \in Beyond(i) /\ j \notin Beyond(j)
    BY <1>3, <2>1, DominatesItself DEF Dominators
  <2>4. QED
    BY <1>2, <2>2, <2>3
<1>4. <<i, b>> \in Dominance(s) /\ i # b
      /\ \A j \in Blocks \ {b} : <<j, b>> \in Dominance(s) => <<j, i>> \in Dominance(s)
  BY <1>3 DEF StrictDominators, Dominators
<1>5. QED
  BY <1>4 DEF IDomEdges

\* Following the edges of the tree down from the entry block leads to every
\* reachable block.
LEMMA TreeReachesAll ==
  ASSUME NEW s \in CFGs, NEW T, Entry \in T,
         \A a \in T, c \in Blocks : <<a, c>> \in TreeEdges(s) => c \in T
  PROVE  Reachable(s) \subseteq T
<1> DEFINE Missed == {StrictDominators(s, b) : b \in Reachable(s) \ T}
<1>1. SUFFICES ASSUME Reachable(s) \ T # {} PROVE FALSE
  OBVIOUS
<1>2. Missed \in SUBSET SUBSET Blocks /\ Missed # {}
  BY <1>1 DEF StrictDominators, Dominators
<1>3. PICK A \in Missed : \A B \in Missed : B \subseteq A => B = A
  <2> HIDE DEF Missed
  <2>1. QED
    BY <1>2, LeastFiniteSet, BlocksAssumption
<1>4. PICK b \in Reachable(s) \ T : A = StrictDominators(s, b)
  BY <1>3
<1>5. PICK i \in StrictDominators(s, b) : <<i, b>> \in IDomEdges(s)
  BY <1>4, ImmediateDominatorExists
<1>6. i \notin T
  BY <1>4, <1>5, ReachableStep DEF TreeEdges
<1>7. /\ i \in Reachable(s) /\ i \notin StrictDominators(s, i)
      /\ StrictDominators(s, i) \subseteq StrictDominators(s, b)
  BY <1>5, DominatorsShrink DEF StrictDominators
<1>8. StrictDominators(s, i) \in Missed
  BY <1>6, <1>7
<1>9. QED
  BY <1>3, <1>4, <1>5, <1>7, <1>8

\* A block that dominates another reachable one is the immediate dominator of
\* some block.
LEMMA DominatorHasChild ==
  ASSUME NEW s \in CFGs, NEW i \in Blocks, NEW j \in Reachable(s),
         <<i, j>> \in Dominance(s), i # j
  PROVE  \E k \in Reachable(s) : <<i, k>> \in IDomEdges(s)
<1> DEFINE Below == {k \in Reachable(s) : <<i, k>> \in Dominance(s) /\ i # k}
           T == {Dominators(s, k) : k \in Below}
<1>1. T \in SUBSET SUBSET Blocks /\ T # {}
  BY DEF Dominators
<1>2. PICK A \in T : \A B \in T : B \subseteq A => B = A
  <2> HIDE DEF T
  <2> QED
    BY <1>1, BlocksAssumption, LeastFiniteSet
<1>3. PICK k \in Below : A = Dominators(s, k)
  BY <1>2
<1>4. k \in Reachable(s) /\ k \in Blocks /\ <<i, k>> \in Dominance(s) /\ i # k
  BY <1>3, ReachableStep
<1>5. k # Entry
  BY <1>4, OnlyEntryDominatesEntry
<1>6. PICK d \in StrictDominators(s, k) : <<d, k>> \in IDomEdges(s)
  BY <1>4, <1>5, ImmediateDominatorExists
<1>7. /\ Dominators(s, d) \subseteq StrictDominators(s, k)
      /\ d \in Reachable(s)
  BY <1>4, <1>6, DominatorsShrink
<1>8. <<i, d>> \in Dominance(s)
  BY <1>4, <1>6 DEF IDomEdges
<1>9. i = d
  <2> SUFFICES ASSUME i # d
               PROVE  FALSE
    OBVIOUS
  <2>1. Dominators(s, d) \in T
    BY <1>7, <1>8
  <2>2. Dominators(s, d) = Dominators(s, k)
    BY <2>1, <1>2, <1>3, <1>7 DEF StrictDominators
  <2>3. k \in Dominators(s, k)
    BY <1>4, DominatesItself DEF Dominators
  <2> QED
    BY <2>2, <2>3, <1>7 DEF StrictDominators
<1> QED
  BY <1>4, <1>6, <1>9

\* A block that is reached has a predecessor that is.
LEMMA ReachablePredecessor ==
  ASSUME NEW s \in CFGs, NEW b \in Reachable(s), b # Entry
  PROVE  \E q \in Reachable(s) : b \in s[q]
<1>1. SUFFICES ASSUME \A q \in Reachable(s) : b \notin s[q] PROVE FALSE
  OBVIOUS
<1>2. Reachable(s) \ {b} \in ClosedFromEntry(s)
  BY <1>1, ReachableStep DEF ClosedFromEntry
<1> QED
  BY <1>2 DEF Reachable

------------------------------------------------------------------------------
(* Sequences *)

\* What a sequence holds.
LEMMA Elements ==
  ASSUME NEW S, NEW s \in Seq(S)
  PROVE  /\ \A k \in 1..Len(s) : s[k] \in ToSet(s)
         /\ \A x \in ToSet(s) : \E k \in 1..Len(s) : s[k] = x
         /\ ToSet(s) \subseteq S
         /\ s = << >> <=> Len(s) = 0
<1>1. DOMAIN s = 1..Len(s) /\ Len(s) \in Nat
  BY LenProperties
<1>2. ToSet(s) = {s[k] : k \in 1..Len(s)}
  BY <1>1 DEF ToSet
<1>3. s = << >> <=> Len(s) = 0
  BY EmptySeq
<1> QED
  BY <1>2, <1>3, ElementOfSeq

LEMMA NothingInEmpty == ToSet(<< >>) = {}
<1> DEFINE e == << >>
<1>1. e \in Seq({}) /\ Len(e) = 0
  BY EmptySeq
<1> HIDE DEF e
<1>2. \A k \in 1..Len(e) : FALSE
  BY <1>1
<1> QED
  BY <1>1, <1>2, Elements DEF e

\* The elements of s but for the one in place k.
Others(s, k) == {s[j] : j \in (1..Len(s)) \ {k}}

\* Taking one out of a sequence.
LEMMA RemovedFrom ==
  ASSUME NEW S, NEW s \in Seq(S), NEW k \in 1..Len(s)
  PROVE  /\ RemoveAt(s, k) \in Seq(S)
         /\ ToSet(RemoveAt(s, k)) = Others(s, k)
         /\ Len(RemoveAt(s, k)) = Len(s) - 1
         /\ \A i \in 1..(Len(s) - 1) :
              RemoveAt(s, k)[i] = IF i < k THEN s[i] ELSE s[i + 1]
<1>1. Len(s) \in Nat
  BY LenProperties
<1> DEFINE a == SubSeq(s, 1, k - 1)
           b == SubSeq(s, k + 1, Len(s))
<1>2. \A j \in 1..Len(s) : s[j] \in S
  BY ElementOfSeq
<1>3. \A j \in 1..(k - 1) : s[j] \in S
  BY <1>1, <1>2
<1>4. \A j \in (k + 1)..Len(s) : s[j] \in S
  BY <1>1, <1>2
<1>5. /\ a \in Seq(S) /\ Len(a) = k - 1
      /\ \A i \in 1..(k - 1) : a[i] = s[i]
  <2>1. /\ a \in Seq(S) /\ Len(a) = IF 1 <= k - 1 THEN k - 1 - 1 + 1 ELSE 0
        /\ \A i \in 1..(k - 1 - 1 + 1) : a[i] = s[1 + i - 1]
    BY <1>1, <1>3, SubSeqProperties
  <2> QED
    BY <2>1, <1>1
<1>6. /\ b \in Seq(S) /\ Len(b) = Len(s) - k
      /\ \A i \in 1..(Len(s) - k) : b[i] = s[k + i]
  <2>1. /\ b \in Seq(S) /\ Len(b) = IF k + 1 <= Len(s) THEN Len(s) - (k + 1) + 1 ELSE 0
        /\ \A i \in 1..(Len(s) - (k + 1) + 1) : b[i] = s[(k + 1) + i - 1]
    BY <1>1, <1>4, SubSeqProperties
  <2> QED
    BY <2>1, <1>1
<1> HIDE DEF a, b
<1> DEFINE c == a \o b
<1>7. /\ c \in Seq(S)
      /\ Len(c) = Len(a) + Len(b)
      /\ \A i \in 1..Len(a) + Len(b) : c[i] = IF i <= Len(a) THEN a[i] ELSE b[i - Len(a)]
  BY <1>5, <1>6, ConcatProperties
<1> HIDE DEF c
<1>8. Len(c) = Len(s) - 1
  BY <1>1, <1>5, <1>6, <1>7
<1>9. \A i \in 1..(Len(s) - 1) : c[i] = IF i < k THEN s[i] ELSE s[i + 1]
  <2> TAKE i \in 1..(Len(s) - 1)
  <2>1. c[i] = IF i <= Len(a) THEN a[i] ELSE b[i - Len(a)]
    <3>1. Len(a) + Len(b) = Len(s) - 1 /\ Len(a) \in Nat
      BY <1>1, <1>5, <1>6
    <3>2. i \in 1..(Len(a) + Len(b))
      BY <3>1
    <3> QED
      BY <3>2, <1>7
  <2>2. CASE i < k
    BY <2>1, <2>2, <1>1, <1>5
  <2>3. CASE i >= k
    <3>1. c[i] = b[i - (k - 1)]
      BY <2>1, <2>3, <1>1, <1>5
    <3>2. b[i - (k - 1)] = s[k + (i - (k - 1))]
      BY <2>3, <1>1, <1>6
    <3> QED
      BY <3>1, <3>2, <2>3, <1>1
  <2> QED
    BY <2>2, <2>3, <1>1
<1>10. DOMAIN c = 1..(Len(s) - 1)
  BY <1>7, <1>8, LenProperties
<1>11. ToSet(c) = {c[i] : i \in 1..(Len(s) - 1)}
  BY <1>10 DEF ToSet
<1>12. ASSUME NEW i \in 1..(Len(s) - 1)
       PROVE  \E j \in (1..Len(s)) \ {k} : c[i] = s[j]
  <2>1. CASE i < k
    BY <2>1, <1>1, <1>9
  <2>2. CASE i >= k
    <3>1. i + 1 \in (1..Len(s)) \ {k}
      BY <2>2, <1>1
    <3> QED
      BY <3>1, <2>2, <1>1, <1>9
  <2> QED
    BY <2>1, <2>2, <1>1
<1>13. ASSUME NEW j \in (1..Len(s)) \ {k}
       PROVE  \E i \in 1..(Len(s) - 1) : c[i] = s[j]
  <2>1. CASE j < k
    BY <2>1, <1>1, <1>9
  <2>2. CASE j > k
    <3>1. j - 1 \in 1..(Len(s) - 1) /\ ~(j - 1 < k) /\ (j - 1) + 1 = j
      BY <2>2, <1>1
    <3> QED
      BY <3>1, <1>9
  <2> QED
    BY <2>1, <2>2, <1>1
<1>14. ToSet(c) = {s[j] : j \in (1..Len(s)) \ {k}}
  <2>1. ASSUME NEW x \in ToSet(c) PROVE x \in {s[j] : j \in (1..Len(s)) \ {k}}
    <3>1. PICK i \in 1..(Len(s) - 1) : x = c[i]
      BY <1>11
    <3> QED
      BY <3>1, <1>12
  <2>2. ASSUME NEW x \in {s[j] : j \in (1..Len(s)) \ {k}} PROVE x \in ToSet(c)
    <3>1. PICK j \in (1..Len(s)) \ {k} : x = s[j]
      OBVIOUS
    <3>2. PICK i \in 1..(Len(s) - 1) : c[i] = s[j]
      BY <1>13
    <3> QED
      BY <3>1, <3>2, <1>11
  <2> QED
    BY <2>1, <2>2
<1> QED
  BY <1>7, <1>8, <1>9, <1>14 DEF RemoveAt, Others, a, b, c

\* The elements of the two ends of a sequence.
LEMMA Pushed ==
  ASSUME NEW S, NEW s \in Seq(S), NEW x \in S
  PROVE  Append(s, x) \in Seq(S) /\ ToSet(Append(s, x)) = ToSet(s) \cup {x}
<1> DEFINE a == Append(s, x)
<1>1. /\ a \in Seq(S) /\ Len(a) = Len(s) + 1 /\ Len(s) \in Nat
      /\ \A k \in 1..Len(s) : a[k] = s[k]
      /\ a[Len(s) + 1] = x
  BY AppendProperties, LenProperties
<1> HIDE DEF a
<1>2. ToSet(a) = {a[k] : k \in 1..(Len(s) + 1)} /\ ToSet(s) = {s[k] : k \in 1..Len(s)}
  BY <1>1, LenProperties DEF ToSet
<1>3. ASSUME NEW y \in ToSet(a) PROVE y \in ToSet(s) \cup {x}
  <2>1. PICK k \in 1..(Len(s) + 1) : y = a[k]
    BY <1>2
  <2>2. k \in 1..Len(s) \/ k = Len(s) + 1
    BY <1>1
  <2> QED
    BY <1>1, <1>2, <2>1, <2>2
<1>4. ASSUME NEW y \in ToSet(s) PROVE y \in ToSet(a)
  <2>1. PICK k \in 1..Len(s) : y = s[k]
    BY <1>2
  <2>2. k \in 1..(Len(s) + 1)
    BY <1>1
  <2> QED
    BY <1>1, <1>2, <2>1, <2>2
<1>5. x \in ToSet(a)
  <2>1. Len(s) + 1 \in 1..(Len(s) + 1)
    BY <1>1
  <2> QED
    BY <1>1, <1>2, <2>1
<1>6. ToSet(a) = ToSet(s) \cup {x}
  BY <1>3, <1>4, <1>5
<1> QED
  BY <1>1, <1>6 DEF a

LEMMA Popped ==
  ASSUME NEW S, NEW s \in Seq(S), s # << >>
  PROVE  /\ Front(s) \in Seq(S) /\ Last(s) \in S
         /\ ToSet(s) = ToSet(Front(s)) \cup {Last(s)}
<1>1. Len(s) \in Nat /\ Len(s) # 0
  BY EmptySeq, LenProperties
<1>2. \A k \in 1..Len(s) : s[k] \in S
  BY ElementOfSeq
<1> DEFINE a == SubSeq(s, 1, Len(s) - 1)
<1>3. /\ a \in Seq(S) /\ Len(a) = Len(s) - 1
      /\ \A k \in 1..(Len(s) - 1) : a[k] = s[k]
  <2>1. \A k \in 1..(Len(s) - 1) : s[k] \in S
    BY <1>1, <1>2
  <2>2. /\ a \in Seq(S) /\ Len(a) = IF 1 <= Len(s) - 1 THEN Len(s) - 1 - 1 + 1 ELSE 0
        /\ \A k \in 1..(Len(s) - 1 - 1 + 1) : a[k] = s[1 + k - 1]
    BY <1>1, <2>1, SubSeqProperties
  <2> HIDE DEF a
  <2>3. \A m, n : /\ n \in Nat /\ n # 0
                  /\ m = IF 1 <= n - 1 THEN n - 1 - 1 + 1 ELSE 0
                  => m = n - 1
    OBVIOUS
  <2>4. ASSUME NEW k \in 1..(Len(s) - 1) PROVE a[k] = s[k]
    <3>1. k \in 1..(Len(s) - 1 - 1 + 1) /\ 1 + k - 1 = k
      BY <1>1
    <3> QED
      BY <2>2, <3>1
  <2>5. Len(a) = Len(s) - 1
    BY <1>1, <2>2, <2>3
  <2> QED
    BY <2>2, <2>4, <2>5
<1> HIDE DEF a
<1>4. ToSet(a) = {a[k] : k \in 1..(Len(s) - 1)} /\ ToSet(s) = {s[k] : k \in 1..Len(s)}
  BY <1>3, LenProperties DEF ToSet
<1>5. ASSUME NEW y \in ToSet(s) PROVE y \in ToSet(a) \cup {s[Len(s)]}
  <2>1. PICK k \in 1..Len(s) : y = s[k]
    BY <1>4
  <2>2. k \in 1..(Len(s) - 1) \/ k = Len(s)
    BY <1>1
  <2> QED
    BY <1>3, <1>4, <2>1, <2>2
<1>6. ASSUME NEW y \in ToSet(a) PROVE y \in ToSet(s)
  <2>1. PICK k \in 1..(Len(s) - 1) : y = a[k]
    BY <1>4
  <2>2. k \in 1..Len(s)
    BY <1>1
  <2> QED
    BY <1>3, <1>4, <2>1, <2>2
<1>7. s[Len(s)] \in ToSet(s) /\ s[Len(s)] \in S
  <2>1. Len(s) \in 1..Len(s)
    BY <1>1
  <2> QED
    BY <1>2, <1>4, <2>1
<1>8. ToSet(s) = ToSet(a) \cup {s[Len(s)]}
  BY <1>5, <1>6, <1>7
<1> QED
  BY <1>3, <1>7, <1>8 DEF a, Front, Last

LEMMA Beheaded ==
  ASSUME NEW S, NEW s \in Seq(S), s # << >>
  PROVE  /\ Tail(s) \in Seq(S) /\ Head(s) \in S
         /\ ToSet(s) = {Head(s)} \cup ToSet(Tail(s))
         /\ Head(s) = s[1] /\ Len(Tail(s)) = Len(s) - 1
         /\ \A k \in 1..Len(Tail(s)) : Tail(s)[k] = s[k + 1]
<1>1. Len(s) \in Nat /\ Len(s) # 0
  BY EmptySeq, LenProperties
<1> DEFINE a == Tail(s)
<1>2. /\ a \in Seq(S) /\ Head(s) \in S /\ Head(s) = s[1] /\ Len(a) = Len(s) - 1
      /\ \A k \in 1..Len(a) : a[k] = s[k + 1]
  BY HeadTailProperties, ElementOfSeq, <1>1
<1> HIDE DEF a
<1>3. ToSet(a) = {a[k] : k \in 1..(Len(s) - 1)} /\ ToSet(s) = {s[k] : k \in 1..Len(s)}
  BY <1>2, LenProperties DEF ToSet
<1>4. ASSUME NEW y \in ToSet(s) PROVE y \in {s[1]} \cup ToSet(a)
  <2>1. PICK k \in 1..Len(s) : y = s[k]
    BY <1>3
  <2>2. CASE k = 1
    BY <2>1, <2>2
  <2>3. CASE k # 1
    <3>1. k - 1 \in 1..(Len(s) - 1) /\ (k - 1) + 1 = k
      BY <1>1, <2>3
    <3>2. a[k - 1] = y
      BY <1>2, <2>1, <3>1
    <3> QED
      BY <1>3, <3>1, <3>2
  <2> QED
    BY <2>2, <2>3
<1>5. ASSUME NEW y \in ToSet(a) PROVE y \in ToSet(s)
  <2>1. PICK k \in 1..(Len(s) - 1) : y = a[k]
    BY <1>3
  <2>2. k + 1 \in 1..Len(s)
    BY <1>1
  <2> QED
    BY <1>2, <1>3, <2>1, <2>2
<1>6. s[1] \in ToSet(s)
  <2>1. 1 \in 1..Len(s)
    BY <1>1
  <2> QED
    BY <1>3, <2>1
<1>7. ToSet(s) = {s[1]} \cup ToSet(a)
  BY <1>4, <1>5, <1>6
<1> QED
  BY <1>2, <1>7 DEF a

==============================================================================
