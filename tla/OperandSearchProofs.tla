------------------------- MODULE OperandSearchProofs -------------------------
(****************************************************************************)
(* Two passes that follow the operands of instructions.  When no address is *)
(* reused, DeadCodeElimination leaves exactly what the essential            *)
(* instructions need, in every function it is ever run on; and              *)
(* LoopUnswitching, on every loop, unswitches the first branch whose        *)
(* condition depends on no circle of instructions, which is never one whose *)
(* condition goes round with the loop, nor one behind an invariant branch.  *)
(****************************************************************************)
EXTENDS DeadCodeElimination, LoopUnswitching, DominanceTheorems

RestSet == {rest[k] : k \in 1..Len(rest)}

\* What marking has established, while it runs and once it is over.
Marking ==
  /\ rest = f.order /\ kept = {}
  /\ worklist \subseteq InstrsOf(f)
  /\ Essential(f) \subseteq used \cup worklist
  /\ \A u \in used \cap InstrsOf(f) : f.operands[u] \subseteq used \cup worklist
  /\ (used \cup worklist) \cap InstrsOf(f) \subseteq Needed(f)

\* What the erasing loop keeps true: no needed instruction is lost, and only
\* needed ones are put behind it.
Sweeping ==
  /\ used \cap InstrsOf(f) = Needed(f)
  /\ RestSet \subseteq InstrsOf(f)
  /\ kept \subseteq Needed(f)
  /\ Needed(f) \subseteq kept \cup RestSet

IInv ==
  /\ TypeOK
  /\ phase = "mark" => Marking
  /\ phase \in {"sweep", "returned"} => Sweeping
  /\ phase = "returned" => rest = << >>

------------------------------------------------------------------------------
\* The needed instructions are a set as Needed describes it, and the least one.
LEMMA NeededClosed ==
  ASSUME NEW g, WellFormed(g)
  PROVE  /\ Needed(g) \subseteq InstrsOf(g)
         /\ Essential(g) \subseteq Needed(g)
         /\ \A i \in Needed(g) : g.operands[i] \subseteq Needed(g)
<1>1. Needed(g) \subseteq InstrsOf(g) /\ Essential(g) \subseteq Needed(g)
  BY DEF Needed, WellFormed
<1>2. ASSUME NEW i \in Needed(g), NEW o \in g.operands[i]
      PROVE  o \in Needed(g)
  <2>1. InstrsOf(g) \subseteq Addrs
    BY DEF WellFormed, InstrsOf
  <2>2. o \in InstrsOf(g)
    BY <1>1, <2>1 DEF WellFormed
  <2>3. ASSUME NEW S \in SUBSET InstrsOf(g), Essential(g) \subseteq S,
               \A j \in S : g.operands[j] \subseteq S
        PROVE  o \in S
    BY <2>3 DEF Needed
  <2>4. QED
    BY <2>2, <2>3 DEF Needed
<1>3. QED
  BY <1>1, <1>2

LEMMA NeededLeast ==
  ASSUME NEW g, NEW S \in SUBSET InstrsOf(g), Essential(g) \subseteq S,
         \A i \in S : g.operands[i] \subseteq S
  PROVE  Needed(g) \subseteq S
BY DEF Needed

\* The loop of the sweep takes the instructions one by one from the front.
LEMMA HeadAndTail ==
  ASSUME NEW S, NEW s \in Seq(S), s # << >>
  PROVE  /\ Tail(s) \in Seq(S) /\ Head(s) \in S
         /\ {s[k] : k \in 1..Len(s)} =
              {Head(s)} \cup {Tail(s)[k] : k \in 1..Len(Tail(s))}
<1>1. Len(s) \in Nat /\ Len(s) >= 1 /\ Head(s) = s[1]
  OBVIOUS
<1>2. Tail(s) \in Seq(S) /\ Len(Tail(s)) = Len(s) - 1
  OBVIOUS
<1>3. \A k \in 1..(Len(s) - 1) : Tail(s)[k] = s[k + 1]
  OBVIOUS
<1>4. ASSUME NEW k \in 1..Len(s)
      PROVE  s[k] \in {Head(s)} \cup {Tail(s)[j] : j \in 1..Len(Tail(s))}
  <2>1. CASE k = 1
    BY <1>1, <2>1
  <2>2. CASE k # 1
    <3>1. k - 1 \in 1..(Len(s) - 1) /\ (k - 1) + 1 = k
      BY <1>1, <2>2
    <3>2. s[k] = Tail(s)[k - 1]
      BY <1>3, <3>1
    <3>3. QED
      BY <1>2, <3>1, <3>2
  <2>3. QED
    BY <2>1, <2>2
<1>5. ASSUME NEW k \in 1..Len(Tail(s))
      PROVE  Tail(s)[k] \in {s[j] : j \in 1..Len(s)}
  <2>1. Tail(s)[k] = s[k + 1] /\ k + 1 \in 1..Len(s)
    BY <1>1, <1>2, <1>3
  <2>2. QED
    BY <2>1
<1>6. Head(s) \in S /\ Head(s) \in {s[j] : j \in 1..Len(s)}
  BY <1>1
<1>7. QED
  BY <1>2, <1>4, <1>5, <1>6

------------------------------------------------------------------------------
\* Steps that leave the sets alone leave the sweep where it is.
LEMMA SameSweep ==
  ASSUME Sweeping, UNCHANGED <<f, used, rest, kept>>
  PROVE  Sweeping'
<1>1. Needed(f)' = Needed(f) /\ InstrsOf(f)' = InstrsOf(f) /\ RestSet' = RestSet
  BY DEF Needed, InstrsOf, RestSet
<1>2. QED
  BY <1>1 DEF Sweeping

LEMMA SameMarking ==
  ASSUME Marking, UNCHANGED <<f, used, worklist, rest, kept>>
  PROVE  Marking'
<1>1. Needed(f)' = Needed(f) /\ InstrsOf(f)' = InstrsOf(f)
  BY DEF Needed, InstrsOf
<1>2. QED
  BY <1>1 DEF Marking

LEMMA InitInv == Init => IInv
BY DEF Init, IInv, TypeOK, WellFormed, InstrsOf, Essential, NoFunction

\* A run starts afresh: nothing of the function is marked, since none of its
\* addresses has been seen.
LEMMA BeginInv ==
  ASSUME IInv, ~ReusesAddresses, Begin
  PROVE  IInv'
<1>1. PICK g \in Functions : /\ InstrsOf(g) \cap used = {}
                             /\ f' = g
                             /\ worklist' = worklist \cup Essential(g)
                             /\ rest' = g.order
  BY DEF Begin
<1>2. WellFormed(g) /\ worklist = {} /\ used \subseteq Addrs
  BY FunctionsAssumption DEF IInv, TypeOK, Begin
<1>3. Essential(g) \subseteq InstrsOf(g) /\ InstrsOf(g) \subseteq Addrs
      /\ g.order \in Seq(Addrs)
  BY <1>2 DEF WellFormed, InstrsOf
<1>4. TypeOK'
  BY <1>1, <1>2, <1>3 DEF TypeOK, Begin
<1>5. Marking'
  BY <1>1, <1>2, <1>3, NeededClosed DEF Marking, Begin
<1>6. QED
  BY <1>4, <1>5 DEF IInv, Begin

LEMMA ProcessInv ==
  ASSUME IInv, NEW v \in worklist, Process(v)
  PROVE  IInv'
<1> USE DEF Process
<1>1. TypeOK /\ Marking /\ WellFormed(f) /\ UNCHANGED <<f, phase>>
  BY DEF IInv, TypeOK
<1>2. v \in Needed(f) /\ v \in Addrs /\ NewlyNeeded(v) \subseteq Needed(f)
  BY <1>1, NeededClosed DEF Marking, TypeOK, NewlyNeeded
<1>3. Needed(f) \subseteq InstrsOf(f) /\ InstrsOf(f) \subseteq Addrs
  BY <1>1, NeededClosed DEF WellFormed, InstrsOf
<1>4. TypeOK'
  BY <1>1, <1>2, <1>3 DEF TypeOK
<1>5. used' \cup worklist' = (used \cup worklist) \cup NewlyNeeded(v)
  OBVIOUS
<1>6. f.operands[v] \subseteq used' \cup worklist'
  BY <1>1 DEF Marking, NewlyNeeded
<1>7. \A u \in used' \cap InstrsOf(f) : f.operands[u] \subseteq used' \cup worklist'
  BY <1>1, <1>5, <1>6 DEF Marking
<1>8. (used' \cup worklist') \cap InstrsOf(f) \subseteq Needed(f)
  BY <1>1, <1>2, <1>5 DEF Marking
<1>9. worklist' \subseteq InstrsOf(f) /\ Essential(f) \subseteq used' \cup worklist'
  BY <1>1, <1>2, <1>3, <1>5 DEF Marking
<1>10. Needed(f)' = Needed(f) /\ InstrsOf(f)' = InstrsOf(f)
  BY <1>1 DEF Needed, InstrsOf
<1>11. Marking'
  BY <1>1, <1>7, <1>8, <1>9, <1>10 DEF Marking
<1>12. QED
  BY <1>1, <1>4, <1>11 DEF IInv

\* When the worklist is empty the marked instructions are closed under operands
\* and so are all the needed ones.
LEMMA StartSweepInv ==
  ASSUME IInv, StartSweep
  PROVE  IInv'
<1> USE DEF StartSweep
<1>1. TypeOK /\ Marking /\ WellFormed(f) /\ worklist = {}
  BY DEF IInv, TypeOK
<1>2. TypeOK'
  BY <1>1 DEF TypeOK
<1>3. InstrsOf(f) \subseteq Addrs
  BY <1>1 DEF WellFormed, InstrsOf
<1>4. Needed(f) \subseteq used \cap InstrsOf(f)
  <2> DEFINE S == used \cap InstrsOf(f)
  <2>1. S \in SUBSET InstrsOf(f) /\ Essential(f) \subseteq S
    BY <1>1 DEF Marking, WellFormed
  <2>2. \A i \in S : f.operands[i] \subseteq S
    BY <1>1, <1>3 DEF Marking, WellFormed
  <2>3. QED
    BY <2>1, <2>2, NeededLeast
<1>5. Sweeping
  BY <1>1, <1>4 DEF Marking, Sweeping, RestSet, InstrsOf
<1>6. Sweeping'
  BY <1>5, SameSweep
<1>7. QED
  BY <1>2, <1>6 DEF IInv

LEMMA SweepInv ==
  ASSUME IInv, EraseNext \/ KeepNext
  PROVE  IInv'
<1>1. TypeOK /\ Sweeping /\ rest \in Seq(Addrs) /\ rest # << >>
      /\ rest' = Tail(rest) /\ UNCHANGED <<f, phase, used, worklist>>
      /\ phase = "sweep"
  BY DEF IInv, TypeOK, EraseNext, KeepNext
<1>2. RestSet = {Head(rest)} \cup RestSet' /\ rest' \in Seq(Addrs)
      /\ Head(rest) \in Addrs
  <2>1. RestSet' = {Tail(rest)[k] : k \in 1..Len(Tail(rest))}
    BY <1>1 DEF RestSet
  <2>2. RestSet = {Head(rest)} \cup {Tail(rest)[k] : k \in 1..Len(Tail(rest))}
    BY <1>1, HeadAndTail DEF RestSet
  <2>3. Tail(rest) \in Seq(Addrs) /\ Head(rest) \in Addrs
    BY <1>1, HeadAndTail
  <2>4. QED
    BY <1>1, <2>1, <2>2, <2>3
<1>3. Head(rest) \in used <=> Head(rest) \in Needed(f)
  BY <1>1, <1>2 DEF Sweeping
<1>4. TypeOK'
  BY <1>1, <1>2 DEF TypeOK, EraseNext, KeepNext
<1>5. Needed(f)' = Needed(f) /\ InstrsOf(f)' = InstrsOf(f)
  BY <1>1 DEF Needed, InstrsOf
<1>6. /\ kept' \subseteq Needed(f)
      /\ Needed(f) \subseteq kept' \cup RestSet'
  BY <1>1, <1>2, <1>3 DEF Sweeping, EraseNext, KeepNext, Unused
<1>7. Sweeping'
  BY <1>1, <1>2, <1>5, <1>6 DEF Sweeping
<1>8. QED
  BY <1>1, <1>4, <1>7 DEF IInv

LEMMA NextInv ==
  ASSUME ~ReusesAddresses
  PROVE  IInv /\ [Next]_vars => IInv'
<1> SUFFICES ASSUME IInv, [Next]_vars PROVE IInv'
  OBVIOUS
<1>1. CASE Begin
  BY <1>1, BeginInv
<1>2. ASSUME NEW v \in worklist, Process(v)
      PROVE  IInv'
  BY <1>2, ProcessInv
<1>3. CASE StartSweep
  BY <1>3, StartSweepInv
<1>4. CASE EraseNext \/ KeepNext
  BY <1>4, SweepInv
<1>5. CASE Return
  BY <1>5, SameSweep DEF Return, IInv, TypeOK
<1>6. CASE Leave
  BY <1>6 DEF Leave, IInv, TypeOK, WellFormed, InstrsOf, Essential, NoFunction
<1>7. CASE UNCHANGED vars
  BY <1>7, SameMarking, SameSweep DEF vars, IInv, TypeOK
<1>8. QED
  BY <1>1, <1>2, <1>3, <1>4, <1>5, <1>6, <1>7 DEF Next, Run, Stopped

------------------------------------------------------------------------------
\* The variables keep their types, and the worklist is empty between runs.
THEOREM TypeCorrect ==
  ASSUME ~ReusesAddresses
  PROVE  Spec => []TypeOK
<1>1. IInv => TypeOK
  BY DEF IInv
<1>2. IInv /\ [Next]_vars => IInv'
  BY NextInv
<1>3. QED
  BY <1>1, <1>2, InitInv, PTL DEF Spec

\* After every run the function holds the needed instructions and no others:
\* operands of survivors survive, dead phi cycles do not.
THEOREM LeavesExactlyTheNeeded ==
  ASSUME ~ReusesAddresses
  PROVE  Spec => []SurvivorsExact
<1>1. IInv => SurvivorsExact
  <2> SUFFICES ASSUME IInv, phase = "returned"
               PROVE  kept = Needed(f)
    BY DEF SurvivorsExact
  <2>1. RestSet = {}
    BY DEF IInv, RestSet
  <2>2. QED
    BY <2>1 DEF IInv, Sweeping
<1>2. IInv /\ [Next]_vars => IInv'
  BY NextInv
<1>3. QED
  BY <1>1, <1>2, InitInv, PTL DEF Spec

\* An instruction that is erased while others still name it as an operand is
\* named only by instructions that the sweep will erase as well.
THEOREM ErasesSafely ==
  ASSUME ~ReusesAddresses
  PROVE  Spec => ErasesOnlyBeforeDoomedUsers
<1> DEFINE Safe ==
      \A a \in Remaining \ Remaining' :
        phase = "sweep" =>
          \A u \in Remaining' : a \in f.operands[u] => u \notin kept /\ u \notin used
<1>1. ASSUME IInv, [Next]_vars
      PROVE  [Safe]_vars
  <2> SUFFICES ASSUME phase = "sweep", NEW a \in Remaining \ Remaining',
                      NEW u \in Remaining', a \in f.operands[u]
               PROVE  u \notin kept /\ u \notin used
    OBVIOUS
  <2>1. EraseNext \/ KeepNext
    BY <1>1 DEF Next, Run, Begin, Process, StartSweep, Return, Leave, Stopped, vars,
                Remaining
  <2>2. TypeOK /\ WellFormed(f) /\ Sweeping /\ rest \in Seq(Addrs) /\ rest # << >>
        /\ rest' = Tail(rest)
    BY <1>1, <2>1 DEF IInv, TypeOK, EraseNext, KeepNext
  <2>3. RestSet = {Head(rest)} \cup RestSet'
    BY <2>2, HeadAndTail DEF RestSet
  <2>4. Remaining = kept \cup RestSet /\ Remaining' = kept' \cup RestSet'
    BY DEF Remaining, RestSet
  <2>5. EraseNext /\ a = Head(rest) /\ a \notin used
    BY <2>1, <2>3, <2>4 DEF EraseNext, KeepNext, Unused
  <2>6. u \in InstrsOf(f)
    BY <2>2, <2>3, <2>4, <2>5, NeededClosed DEF Sweeping, EraseNext
  <2>7. a \notin Needed(f)
    BY <2>2, <2>5 DEF Sweeping
  <2>8. u \notin Needed(f)
    BY <2>2, <2>7, NeededClosed
  <2>9. QED
    BY <2>2, <2>6, <2>8 DEF Sweeping
<1>2. IInv /\ [Next]_vars => IInv'
  BY NextInv
<1>3. QED
  BY <1>1, <1>2, InitInv, PTL DEF Spec, ErasesOnlyBeforeDoomedUsers

------------------------------------------------------------------------------
(* LoopUnswitching: the search for a branch. *)

\* The operands of v lead into a circle: v is in a set of instructions each of
\* which has an operand in the set.  This is what the search finds out.
Circular(v) ==
  \E S \in SUBSET (1..N) :
    v \in S /\ \A i \in S : S \cap Range(old.instr[i].args) # {}

\* The search takes the branch in block b of the loop for invariant.
Invariable(b) == IsConditional(b) /\ ~Circular(old.cond[b])

OperandsOf(v) == Range(old.instr[v].args)
SearchCalls == [value : 1..N, left : Seq(Values)]

\* What the calls s of isInvariant are for.
Asked(s) == {s[k].value : k \in 1..Len(s)}

\* A value that the map has for variant is in a circle or still being searched.
MapFits(s, map) ==
  /\ DOMAIN map \subseteq Values /\ map \in [DOMAIN map -> BOOLEAN]
  /\ \A v \in DOMAIN map : IF map[v] THEN ~Circular(v) ELSE v \in Asked(s) \/ Circular(v)

\* The calls are for different values, each an operand of the one below it, and
\* have found every operand invariant that they are done with.
CallFits(s, map, k) ==
  /\ s[k].value \in DOMAIN map /\ ~map[s[k].value]
  /\ ToSet(s[k].left) \subseteq OperandsOf(s[k].value)
  /\ \A w \in OperandsOf(s[k].value) \ ToSet(s[k].left) : w \in DOMAIN map /\ map[w]
  /\ \A n \in 1..(k - 1) : s[n].value # s[k].value
  /\ k > 1 => s[k].value \in OperandsOf(s[k - 1].value)

SearchFits(s, map) ==
  s \in Seq(SearchCalls) /\ MapFits(s, map) /\ \A k \in 1..Len(s) : CallFits(s, map, k)

Searching == SearchFits(stack, invariant)

\* The order of the loop.
Precedes(a, b) ==
  \E m, n \in 1..Len(old.loop) : m < n /\ old.loop[m] = a /\ old.loop[n] = b

\* The branches are those of the loop, in its order.
Listing ==
  /\ branches \in Seq(LoopBlocks) /\ ToSet(branches) \cap old.switches = {}
  /\ \A m, n \in 1..Len(branches) : m < n => Precedes(branches[m], branches[n])

LookedAt == Len(old.loop) - Len(blocks)

\* The loop over the blocks has found all branches in front of it.
Collecting ==
  /\ br = None /\ stack = << >> /\ invariant = [v \in {} |-> TRUE]
  /\ blocks \in Seq(LoopBlocks) /\ LookedAt \in Nat
  /\ \A k \in 1..Len(blocks) : blocks[k] = old.loop[LookedAt + k]
  /\ \A n \in 1..LookedAt : old.loop[n] \in old.switches \cup ToSet(branches)
  /\ \A b \in ToSet(branches) : \E n \in 1..LookedAt : old.loop[n] = b

\* No branch that was asked about can be unswitched, and none that was not comes
\* in front of the one at hand.
Asking ==
  /\ \A b \in LoopBlocks : Invariable(b) => b = br \/ b \in ToSet(branches)
  /\ br = None => stack = << >>
  /\ br # None => /\ br \in LoopBlocks \ old.switches
                  /\ old.cond[br] # None /\ old.cond[br] \in DOMAIN invariant
                  /\ \A b \in ToSet(branches) : Precedes(br, b)

\* The branch at hand is the one to unswitch.
Decided ==
  /\ preheader # None /\ br \in LoopBlocks /\ Invariable(br)
  /\ \A b \in LoopBlocks : Invariable(b) => b = br \/ Precedes(br, b)

NothingToDo == preheader = None \/ \A b \in LoopBlocks : ~Invariable(b)

UnswitchInv ==
  /\ old \in LoopFunctions
  /\ stage \in {"collect", "ask", "move", "phis", "retarget", "clone", "redirect", "returned"}
  /\ stage \in {"collect", "ask"} => Untouched /\ Listing /\ Searching
  /\ stage = "collect" => Collecting
  /\ stage = "ask" => Asking
  /\ stage \in {"move", "phis", "retarget", "clone", "redirect"} => Decided
  /\ stage = "returned" =>
       \/ Untouched /\ NothingToDo
       \/ Decided /\ succ[ifElseHeader] = << preheader, preheader + NB >>

LEMMA NumbersOfCode ==
  /\ NB \in Nat /\ N \in Nat /\ None \notin Blocks /\ None \notin Values
  /\ ifElseHeader \in Blocks /\ Given \subseteq Blocks
  /\ \A a \in Args : a \notin 1..N
BY SizesAssumption, ArgsAssumption DEF None, Values, ifElseHeader, Given

LEMMA LoopOf ==
  ASSUME old \in LoopFunctions
  PROVE  /\ old.loop \in Seq(Given) /\ Len(old.loop) \in Nat /\ LoopBlocks \subseteq Blocks
         /\ \A k \in 1..Len(old.loop) : old.loop[k] \in LoopBlocks
         /\ \A b \in LoopBlocks : \E k \in 1..Len(old.loop) : old.loop[k] = b
         /\ \A k, n \in 1..Len(old.loop) : old.loop[k] = old.loop[n] => k = n
         /\ \A b \in LoopBlocks : old.cond[b] \in Values \cup {None}
<1>1. WellFormedLoop(old)
  BY LoopFunctionsAssumption
<1>2. old.loop \in Seq(Given) /\ old.cond \in [Blocks -> Values \cup {None}]
      /\ \A k, n \in 1..Len(old.loop) : old.loop[k] = old.loop[n] => k = n
  BY <1>1 DEF WellFormedLoop
<1>3. Len(old.loop) \in Nat
  BY <1>2, LenProperties
<1>4. /\ \A k \in 1..Len(old.loop) : old.loop[k] \in LoopBlocks
      /\ \A b \in LoopBlocks : \E k \in 1..Len(old.loop) : old.loop[k] = b
      /\ LoopBlocks \subseteq Given
  BY <1>2, Elements DEF LoopBlocks
<1> QED
  BY <1>2, <1>3, <1>4, NumbersOfCode

LEMMA OperandListsOf ==
  ASSUME old \in LoopFunctions, NEW v \in 1..N, NEW s \in OperandLists(old.instr[v])
  PROVE  s \in Seq(Values) /\ ToSet(s) = OperandsOf(v)
<1> DEFINE x == old.instr[v]
<1>1. IF x.op = "phi" THEN \E S \in SUBSET Blocks : x.args \in [S -> Values]
      ELSE x.args \in Seq(Values)
  BY LoopFunctionsAssumption DEF WellFormedLoop
<1>2. s \in OperandLists(x)
  OBVIOUS
<1> DEFINE a == x.args
<1>3. OperandsOf(v) = {a[k] : k \in DOMAIN a}
  BY DEF OperandsOf, Range
<1>4. CASE x.op = "phi"
  <2>1. PICK S \in SUBSET Blocks : a \in [S -> Values]
    BY <1>1, <1>4
  <2>2. Cardinality(S) \in Nat /\ DOMAIN a = S
    BY <2>1, BlocksAssumption, FS_Subset, FS_CardinalityType
  <2>3. PICK o \in Bijection(1..Cardinality(S), S) : s = [k \in DOMAIN o |-> a[o[k]]]
    BY <1>2, <1>4, <2>2 DEF OperandLists
  <2>4. o \in [1..Cardinality(S) -> S] /\ \A b \in S : \E k \in 1..Cardinality(S) : o[k] = b
    BY DEF Bijection, Injection, Surjection
  <2>5. s = [k \in 1..Cardinality(S) |-> a[o[k]]]
    BY <2>3, <2>4
  <2> HIDE DEF a, x
  <2>6. \A k \in 1..Cardinality(S) : a[o[k]] \in Values
    BY <2>1, <2>4
  <2>7. s \in Seq(Values) /\ DOMAIN s = 1..Cardinality(S)
    BY <2>2, <2>5, <2>6, IsASeq
  <2>8. ToSet(s) = {s[k] : k \in 1..Cardinality(S)}
    BY <2>7 DEF ToSet
  <2>9. ToSet(s) = {a[b] : b \in S}
    BY <2>4, <2>5, <2>8
  <2> QED
    BY <1>3, <2>2, <2>7, <2>9
<1>5. CASE x.op # "phi"
  <2>1. s = a /\ s \in Seq(Values)
    BY <1>1, <1>2, <1>5 DEF OperandLists
  <2> HIDE DEF a, x
  <2> QED
    BY <1>3, <2>1 DEF ToSet
<1> QED
  BY <1>4, <1>5

LEMMA OperandsAreValues ==
  ASSUME old \in LoopFunctions, NEW v \in 1..N
  PROVE  OperandsOf(v) \subseteq Values
<1> DEFINE x == old.instr[v]
           a == x.args
<1>1. IF x.op = "phi" THEN \E S \in SUBSET Blocks : a \in [S -> Values]
      ELSE a \in Seq(Values)
  BY LoopFunctionsAssumption DEF WellFormedLoop
<1>2. OperandsOf(v) = {a[k] : k \in DOMAIN a}
  BY DEF OperandsOf, Range
<1> HIDE DEF a, x
<1>3. CASE a \in Seq(Values)
  <2>1. DOMAIN a = 1..Len(a)
    BY <1>3, LenProperties
  <2> QED
    BY <1>2, <1>3, <2>1, ElementOfSeq
<1>4. CASE \E S \in SUBSET Blocks : a \in [S -> Values]
  BY <1>2, <1>4
<1> QED
  BY <1>1, <1>3, <1>4

\* A circle is entered through an operand, and only so.
LEMMA CircleBehind ==
  ASSUME NEW v \in 1..N
  PROVE  Circular(v) <=> \E w \in OperandsOf(v) : Circular(w)
<1>1. ASSUME Circular(v) PROVE \E w \in OperandsOf(v) : Circular(w)
  <2>1. PICK S \in SUBSET (1..N) : v \in S /\ \A i \in S : S \cap Range(old.instr[i].args) # {}
    BY <1>1 DEF Circular
  <2>2. PICK w \in S : w \in Range(old.instr[v].args)
    BY <2>1
  <2> QED
    BY <2>1, <2>2 DEF Circular, OperandsOf
<1>2. ASSUME NEW w \in OperandsOf(v), Circular(w) PROVE Circular(v)
  <2>1. PICK S \in SUBSET (1..N) : w \in S /\ \A i \in S : S \cap Range(old.instr[i].args) # {}
    BY <1>2 DEF Circular
  <2> DEFINE T == S \cup {v}
  <2>2. T \in SUBSET (1..N) /\ v \in T /\ \A i \in T : T \cap Range(old.instr[i].args) # {}
    BY <2>1 DEF OperandsOf
  <2> QED
    BY <2>2 DEF Circular
<1> QED
  BY <1>1, <1>2

LEMMA ArgsAreInvariant == \A a \in Args : ~Circular(a)
BY NumbersOfCode DEF Circular

\* A call that comes back to one it was called from closes a circle.
LEMMA CircleOfCalls ==
  ASSUME Searching, stack # << >>, NEW w \in Asked(stack), w \in OperandsOf(Last(stack).value)
  PROVE  Circular(Last(stack).value)
<1> DEFINE L == Len(stack)
<1>1. stack \in Seq(SearchCalls) /\ L \in Nat /\ L # 0 /\ Last(stack) = stack[L]
  BY EmptySeq, LenProperties DEF Searching, SearchFits, Last
<1>2. \A k \in 1..L : stack[k].value \in 1..N
  <2>1. \A k \in 1..L : stack[k] \in SearchCalls
    BY <1>1, ElementOfSeq
  <2> QED
    BY <2>1 DEF SearchCalls
<1>3. PICK j \in 1..L : w = stack[j].value
  BY DEF Asked
<1> DEFINE S == {stack[k].value : k \in j..L}
<1>4. S \in SUBSET (1..N) /\ Last(stack).value \in S
  BY <1>1, <1>2
<1>5. ASSUME NEW k \in j..L PROVE S \cap OperandsOf(stack[k].value) # {}
  <2>1. CASE k = L
    BY <1>1, <1>3, <2>1
  <2>2. CASE k # L
    <3>1. k + 1 \in 1..L /\ k + 1 > 1 /\ k + 1 \in j..L /\ (k + 1) - 1 = k
      BY <1>1, <2>2
    <3>2. stack[k + 1].value \in OperandsOf(stack[k].value)
      BY <3>1 DEF Searching, SearchFits, CallFits
    <3> QED
      BY <3>1, <3>2
  <2> QED
    BY <2>1, <2>2
<1>6. \A i \in S : S \cap OperandsOf(i) # {}
  BY <1>5
<1> DEFINE v == Last(stack).value
<1> HIDE DEF S
<1>7. S \in SUBSET (1..N) /\ v \in S
  BY <1>4
<1> HIDE DEF v
<1>8. Circular(v)
  BY <1>6, <1>7 DEF Circular, OperandsOf
<1> QED
  BY <1>8 DEF v

\* The calls when the one on top is replaced or has returned.
LEMMA CallsBelow ==
  ASSUME NEW S, NEW s \in Seq(S), s # << >>, NEW x \in S
  PROVE  /\ Len(s) \in Nat \ {0} /\ Last(s) = s[Len(s)] /\ Last(s) \in S
         /\ Front(s) \in Seq(S) /\ Len(Front(s)) = Len(s) - 1
         /\ \A k \in 1..(Len(s) - 1) : Front(s)[k] = s[k]
         /\ Append(Front(s), x) \in Seq(S) /\ Len(Append(Front(s), x)) = Len(s)
         /\ \A k \in 1..(Len(s) - 1) : Append(Front(s), x)[k] = s[k]
         /\ Append(Front(s), x)[Len(s)] = x
<1>1. Len(s) \in Nat \ {0} /\ Last(s) = s[Len(s)] /\ Last(s) \in S /\ Front(s) \in Seq(S)
  BY EmptySeq, LenProperties, Popped DEF Last
<1> DEFINE a == Front(s)
<1>2. Len(a) = Len(s) - 1 /\ \A k \in 1..(Len(s) - 1) : a[k] = s[k]
  <2>1. \A k \in 1..(Len(s) - 1) : s[k] \in S
    BY <1>1, ElementOfSeq
  <2>2. /\ Len(a) = IF 1 <= Len(s) - 1 THEN Len(s) - 1 - 1 + 1 ELSE 0
        /\ \A k \in 1..(Len(s) - 1 - 1 + 1) : a[k] = s[1 + k - 1]
    BY <1>1, <2>1, SubSeqProperties DEF Front
  <2> HIDE DEF a
  <2>3. \A m, n : /\ n \in Nat /\ n # 0
                  /\ m = IF 1 <= n - 1 THEN n - 1 - 1 + 1 ELSE 0
                  => m = n - 1
    OBVIOUS
  <2>4. ASSUME NEW k \in 1..(Len(s) - 1) PROVE a[k] = s[k]
    <3>1. k \in 1..(Len(s) - 1 - 1 + 1) /\ 1 + k - 1 = k
      BY <1>1
    <3> QED
      BY <2>2, <3>1
  <2>5. Len(a) = Len(s) - 1
    BY <1>1, <2>2, <2>3
  <2> QED
    BY <2>4, <2>5
<1> HIDE DEF a
<1>3. a \in Seq(S)
  BY <1>1 DEF a
<1>4. /\ Append(a, x) \in Seq(S) /\ Len(Append(a, x)) = Len(a) + 1
      /\ \A k \in 1..Len(a) : Append(a, x)[k] = a[k]
      /\ Append(a, x)[Len(a) + 1] = x
  BY <1>3, AppendProperties
<1>5. Len(a) + 1 = Len(s)
  BY <1>1, <1>2
<1> QED
  BY <1>1, <1>2, <1>3, <1>4, <1>5 DEF a

LEMMA UnswitchInitInv == UnswitchInit => UnswitchInv
<1> SUFFICES ASSUME UnswitchInit PROVE UnswitchInv
  OBVIOUS
<1>1. /\ old \in LoopFunctions /\ stage = "collect" /\ Untouched
      /\ blocks = old.loop /\ branches = << >> /\ br = None
      /\ invariant = [v \in {} |-> TRUE] /\ stack = << >>
  BY DEF UnswitchInit, Untouched
<1> DEFINE l == old.loop
           e == << >>
<1>2. l \in Seq(LoopBlocks) /\ Len(l) \in Nat /\ \A k \in 1..Len(l) : l[k] = l[0 + k]
  <2>1. l \in Seq(Given) /\ Len(l) \in Nat /\ l = [k \in 1..Len(l) |-> l[k]]
    BY <1>1, LoopOf, LenProperties
  <2>2. \A k \in 1..Len(l) : l[k] \in LoopBlocks
    BY <1>1, LoopOf
  <2> HIDE DEF l
  <2>3. l \in Seq(LoopBlocks)
    BY <2>1, <2>2, IsASeq
  <2> QED
    BY <2>1, <2>3
<1>3. Len(l) - Len(l) = 0
  BY <1>2
<1>4. Collecting
  <2>1. LookedAt = 0 /\ 1..0 = {}
    BY <1>1, <1>3 DEF LookedAt
  <2>2. ToSet(branches) = {}
    BY <1>1, NothingInEmpty
  <2> QED
    BY <1>1, <1>2, <2>1, <2>2 DEF Collecting
<1>5. e \in Seq(LoopBlocks) /\ e \in Seq(SearchCalls) /\ Len(e) = 0
  BY EmptySeq
<1>6. Listing /\ Searching
  BY <1>1, <1>5, NothingInEmpty DEF Listing, Searching, SearchFits, MapFits
<1> QED
  BY <1>1, <1>4, <1>6 DEF UnswitchInv

\* What the invariant says of the given function stays.
LEMMA GivenStays ==
  ASSUME UNCHANGED old
  PROVE  /\ LoopBlocks' = LoopBlocks /\ preheader' = preheader
         /\ \A a, b : Precedes(a, b)' <=> Precedes(a, b)
         /\ \A v : (Circular(v)' <=> Circular(v)) /\ OperandsOf(v)' = OperandsOf(v)
         /\ \A b : Invariable(b)' <=> Invariable(b)
         /\ NothingToDo' <=> NothingToDo
<1>1. LoopBlocks' = LoopBlocks /\ preheader' = preheader
  BY DEF LoopBlocks, preheader
<1>2. \A a, b : Precedes(a, b)' <=> Precedes(a, b)
  BY DEF Precedes
<1>3. \A v : (Circular(v)' <=> Circular(v)) /\ OperandsOf(v)' = OperandsOf(v)
  BY DEF Circular, OperandsOf
<1>4. \A b : Invariable(b)' <=> Invariable(b)
  BY DEF Invariable, IsConditional, Circular
<1> QED
  BY <1>1, <1>2, <1>3, <1>4 DEF NothingToDo

LEMMA SearchGoesOn ==
  ASSUME UNCHANGED old, NEW s, NEW map, stack' = s, invariant' = map, SearchFits(s, map)
  PROVE  Searching'
<1>1. s \in Seq(SearchCalls) /\ MapFits(s, map) /\ \A k \in 1..Len(s) : CallFits(s, map, k)
  BY DEF SearchFits
<1>2. MapFits(stack, invariant)'
  BY <1>1, GivenStays DEF MapFits, Asked
<1>3. ASSUME NEW k \in 1..Len(stack') PROVE CallFits(stack, invariant, k)'
  <2>1. CallFits(s, map, k)
    BY <1>1
  <2> QED
    BY <2>1, GivenStays DEF CallFits
<1> QED
  BY <1>1, <1>2, <1>3 DEF Searching, SearchFits

LEMMA SearchStays ==
  ASSUME UNCHANGED <<old, invariant, stack>>, Searching
  PROVE  Searching'
<1>1. PICK s, map : s = stack /\ map = invariant
  OBVIOUS
<1> QED
  BY <1>1, SearchGoesOn DEF Searching

LEMMA CollectKeeps == UnswitchInv /\ Collect => UnswitchInv'
<1> SUFFICES ASSUME UnswitchInv, Collect PROVE UnswitchInv'
  OBVIOUS
<1>1. /\ stage = "collect" /\ blocks # << >>
      /\ branches' = IF Head(blocks) \in old.switches THEN branches ELSE Append(branches, Head(blocks))
      /\ blocks' = Tail(blocks)
      /\ UNCHANGED <<old, succ, cond, order, instr, stage, br, invariant, stack>>
  BY DEF Collect, code
<1>2. old \in LoopFunctions /\ Untouched /\ Listing /\ Searching /\ Collecting
  BY <1>1 DEF UnswitchInv
<1>3. Untouched' /\ Searching'
  BY <1>1, <1>2, SearchStays DEF Untouched
<1>4. LoopBlocks' = LoopBlocks /\ \A a, b : Precedes(a, b)' <=> Precedes(a, b)
  BY <1>1 DEF LoopBlocks, Precedes
<1> DEFINE b == Head(blocks)
           c == LookedAt
           new == branches'
           more == blocks'
<1>5. /\ more \in Seq(LoopBlocks) /\ Len(more) = Len(blocks) - 1 /\ b \in LoopBlocks
      /\ b = blocks[1] /\ \A k \in 1..Len(more) : more[k] = blocks[k + 1]
  BY <1>1, <1>2, Beheaded DEF Collecting
<1>6. Len(blocks) \in Nat \ {0} /\ Len(old.loop) \in Nat /\ c \in Nat
  BY <1>1, <1>2, LoopOf, EmptySeq, LenProperties DEF Collecting
<1>7. LookedAt' = c + 1
  BY <1>1, <1>5, <1>6 DEF LookedAt
<1>8. b = old.loop[c + 1] /\ c + 1 \in 1..Len(old.loop)
  <2>1. 1 \in 1..Len(blocks) /\ c = Len(old.loop) - Len(blocks)
    BY <1>6 DEF LookedAt
  <2> QED
    BY <1>2, <1>5, <1>6, <2>1 DEF Collecting
<1>9. \A k \in 1..Len(more) : more[k] = old.loop[(c + 1) + k]
  <2>1. SUFFICES ASSUME NEW k \in 1..Len(more) PROVE more[k] = old.loop[(c + 1) + k]
    OBVIOUS
  <2>2. k + 1 \in 1..Len(blocks) /\ c + (k + 1) = (c + 1) + k
    BY <1>5, <1>6
  <2>3. blocks[k + 1] = old.loop[c + (k + 1)]
    BY <1>2, <2>2 DEF Collecting
  <2> QED
    BY <1>5, <2>2, <2>3
<1>10. branches \in Seq(LoopBlocks)
  BY <1>2 DEF Listing
<1>11. /\ new \in Seq(LoopBlocks)
       /\ ToSet(new) = ToSet(branches) \cup (IF b \in old.switches THEN {} ELSE {b})
  BY <1>1, <1>5, <1>10, Pushed
<1>12. ASSUME NEW n \in 1..(c + 1) PROVE old.loop[n] \in old.switches \cup ToSet(new)
  <2>1. n \in 1..c \/ n = c + 1
    BY <1>6
  <2> QED
    BY <1>2, <1>8, <1>11, <2>1 DEF Collecting
<1>13. ASSUME NEW d \in ToSet(new) PROVE \E n \in 1..(c + 1) : old.loop[n] = d
  <2>1. CASE d \in ToSet(branches)
    <3>1. PICK n \in 1..c : old.loop[n] = d
      BY <1>2, <2>1 DEF Collecting
    <3> QED
      BY <1>6, <3>1
  <2>2. CASE d = b
    BY <1>6, <1>8, <2>2
  <2> QED
    BY <1>11, <2>1, <2>2
<1>14. ASSUME NEW m \in 1..Len(new), NEW n \in 1..Len(new), m < n
       PROVE  Precedes(new[m], new[n])
  <2>1. CASE b \in old.switches
    BY <1>1, <1>2, <1>14, <2>1 DEF Listing
  <2>2. CASE b \notin old.switches
    <3>1. /\ Len(new) = Len(branches) + 1 /\ Len(branches) \in Nat
          /\ \A k \in 1..Len(branches) : new[k] = branches[k]
          /\ new[Len(branches) + 1] = b
      BY <1>1, <1>5, <1>10, <2>2, AppendProperties, LenProperties
    <3>2. m \in 1..Len(branches)
      BY <1>14, <3>1
    <3>3. CASE n = Len(new)
      <4>1. new[m] \in ToSet(branches)
        BY <1>10, <3>1, <3>2, Elements
      <4>2. PICK k \in 1..c : old.loop[k] = new[m]
        BY <1>2, <4>1 DEF Collecting
      <4>3. k \in 1..Len(old.loop) /\ k < c + 1
        BY <1>6, <1>8
      <4> QED
        BY <1>8, <3>1, <3>3, <4>2, <4>3 DEF Precedes
    <3>4. CASE n # Len(new)
      <4>1. n \in 1..Len(branches)
        BY <3>1, <3>4
      <4> QED
        BY <1>2, <1>14, <3>1, <3>2, <4>1 DEF Listing
    <3> QED
      BY <3>3, <3>4
  <2> QED
    BY <2>1, <2>2
<1>15. Listing'
  <2>1. ToSet(new) \cap old.switches = {}
    BY <1>2, <1>11 DEF Listing
  <2> QED
    BY <1>1, <1>4, <1>11, <1>14, <2>1 DEF Listing
<1>16. Collecting'
  <2>1. \A k \in 1..Len(blocks') : blocks'[k] = old.loop[LookedAt' + k]
    BY <1>7, <1>9
  <2>2. \A n \in 1..LookedAt' : old.loop[n] \in old.switches \cup ToSet(branches')
    BY <1>7, <1>12
  <2>3. \A d \in ToSet(branches') : \E n \in 1..LookedAt' : old.loop[n] = d
    BY <1>7, <1>13
  <2>4. br' = None /\ stack' = << >> /\ invariant' = [v \in {} |-> TRUE] /\ LookedAt' \in Nat
    BY <1>1, <1>2, <1>6, <1>7 DEF Collecting
  <2> QED
    BY <1>1, <1>4, <1>5, <2>1, <2>2, <2>3, <2>4 DEF Collecting
<1> QED
  BY <1>1, <1>2, <1>3, <1>15, <1>16 DEF UnswitchInv

LEMMA StartAskingKeeps == UnswitchInv /\ StartAsking => UnswitchInv'
<1> SUFFICES ASSUME UnswitchInv, StartAsking PROVE UnswitchInv'
  OBVIOUS
<1>1. /\ stage = "collect" /\ blocks = << >> /\ stage' = "ask"
      /\ UNCHANGED <<old, succ, cond, order, instr, blocks, branches, br, invariant, stack>>
  BY DEF StartAsking, code, search
<1>2. old \in LoopFunctions /\ Untouched /\ Listing /\ Searching /\ Collecting
  BY <1>1 DEF UnswitchInv
<1>3. Untouched' /\ Searching' /\ Listing'
  <2>1. Untouched'
    BY <1>1, <1>2 DEF Untouched
  <2>2. Searching'
    BY <1>1, <1>2, SearchStays
  <2> QED
    BY <1>1, <1>2, <2>1, <2>2, GivenStays DEF Listing
<1>4. LookedAt = Len(old.loop) /\ Len(old.loop) \in Nat
  <2>1. Len(blocks) = 0 /\ Len(old.loop) \in Nat
    BY <1>1, <1>2, LoopOf
  <2> QED
    BY <2>1 DEF LookedAt
<1>5. ASSUME NEW b \in LoopBlocks, Invariable(b) PROVE b \in ToSet(branches)
  <2>1. PICK n \in 1..Len(old.loop) : old.loop[n] = b
    BY <1>2, LoopOf
  <2> QED
    BY <1>2, <1>4, <1>5, <2>1 DEF Collecting, Invariable, IsConditional
<1>6. Asking'
  BY <1>1, <1>2, <1>5, GivenStays DEF Asking, Collecting
<1> QED
  BY <1>1, <1>2, <1>3, <1>6 DEF UnswitchInv

\* When the search is over, the map says whether there is a circle.
LEMMA SearchIsExact ==
  ASSUME Searching, stack = << >>, NEW v \in DOMAIN invariant
  PROVE  invariant[v] <=> ~Circular(v)
<1>1. Asked(stack) = {}
  <2>1. Len(stack) = 0
    OBVIOUS
  <2>2. 1..0 = {}
    OBVIOUS
  <2> QED
    BY <2>1, <2>2 DEF Asked
<1> QED
  BY <1>1 DEF Searching, SearchFits, MapFits

LEMMA NewCall ==
  ASSUME old \in LoopFunctions, Untouched, NEW v \in 1..N, NEW r \in Frames(v)
  PROVE  r \in SearchCalls /\ r.value = v /\ ToSet(r.left) = OperandsOf(v)
<1>1. PICK s \in OperandLists(old.instr[v]) : r = [value |-> v, left |-> s]
  BY DEF Untouched, Frames
<1>2. s \in Seq(Values) /\ ToSet(s) = OperandsOf(v)
  BY OperandListsOf
<1> QED
  BY <1>1, <1>2 DEF SearchCalls

LEMMA ValueKinds == \A v \in Values : v \in Args \/ (v \notin Args /\ v \in 1..N)
BY DEF Values

LEMMA AskBranchKeeps == UnswitchInv /\ AskBranch => UnswitchInv'
<1> SUFFICES ASSUME UnswitchInv, AskBranch PROVE UnswitchInv'
  OBVIOUS
<1> DEFINE b == Head(branches)
           v == cond[b]
<1>1. /\ stage = "ask" /\ stack = << >> /\ br = None /\ branches # << >> /\ cond[b] # None
      /\ br' = b /\ branches' = Tail(branches)
      /\ invariant' = [w \in {v} |-> AtFirst(v)] /\ stack' \in Opened(v, << >>)
      /\ UNCHANGED <<old, succ, cond, order, instr, stage>>
  BY DEF AskBranch, code
<1>2. old \in LoopFunctions /\ Untouched /\ Listing /\ Asking /\ Untouched'
  BY <1>1 DEF UnswitchInv, Untouched
<1> DEFINE more == branches'
<1>3. /\ more \in Seq(LoopBlocks) /\ b \in LoopBlocks /\ ToSet(branches) = {b} \cup ToSet(more)
      /\ b = branches[1] /\ Len(more) = Len(branches) - 1
      /\ \A k \in 1..Len(more) : more[k] = branches[k + 1]
      /\ Len(branches) \in Nat \ {0}
  BY <1>1, <1>2, Beheaded, LenProperties, EmptySeq DEF Listing
<1>4. v = old.cond[b] /\ v \in Values /\ v # None
  BY <1>1, <1>2, <1>3, LoopOf DEF Untouched
<1>5. b # None
  BY <1>2, <1>3, LoopOf, NumbersOfCode
<1>6. ASSUME NEW d \in ToSet(more) PROVE Precedes(b, d)
  <2>1. PICK k \in 1..Len(more) : more[k] = d
    BY <1>3, Elements
  <2>2. 1 \in 1..Len(branches) /\ k + 1 \in 1..Len(branches) /\ 1 < k + 1
    BY <1>3
  <2> QED
    BY <1>2, <1>3, <2>1, <2>2 DEF Listing
<1>7. Listing'
  <2>1. ToSet(more) \cap old.switches = {}
    BY <1>2, <1>3 DEF Listing
  <2>2. ASSUME NEW m \in 1..Len(more), NEW n \in 1..Len(more), m < n
        PROVE  Precedes(more[m], more[n])
    <3>1. m + 1 \in 1..Len(branches) /\ n + 1 \in 1..Len(branches) /\ m + 1 < n + 1
      BY <1>3, <2>2
    <3>2. Precedes(branches[m + 1], branches[n + 1])
      BY <1>2, <3>1 DEF Listing
    <3> QED
      BY <1>3, <3>2
  <2> QED
    BY <1>1, <1>3, <2>1, <2>2, GivenStays DEF Listing
<1>8. Asking'
  <2>1. \A d \in LoopBlocks : Invariable(d) => d = b \/ d \in ToSet(more)
    BY <1>1, <1>2, <1>3, <1>5, LoopOf, NumbersOfCode DEF Asking
  <2>2. b \notin old.switches
    BY <1>2, <1>3 DEF Listing
  <2>3. DOMAIN invariant' = {v}
    BY <1>1
  <2> QED
    BY <1>1, <1>3, <1>4, <1>5, <1>6, <2>1, <2>2, <2>3, GivenStays DEF Asking
<1>9. Searching'
  <2>1. PICK s, map : s = stack' /\ map = invariant'
    OBVIOUS
  <2>2. DOMAIN map = {v} /\ map[v] = (v \in Args) /\ map \in [DOMAIN map -> BOOLEAN]
    BY <1>1, <2>1 DEF AtFirst
  <2> DEFINE e == << >>
  <2>3. e \in Seq(SearchCalls) /\ Len(e) = 0
    BY EmptySeq
  <2>4. CASE v \in Args
    <3>1. s = e /\ ~Circular(v)
      BY <1>1, <2>1, <2>4, ArgsAreInvariant DEF Opened
    <3>2. SearchFits(s, map)
      BY <1>4, <2>2, <2>3, <2>4, <3>1 DEF SearchFits, MapFits
    <3> QED
      BY <1>1, <2>1, <3>2, SearchGoesOn
  <2>5. CASE v \notin Args
    <3>1. v \in 1..N
      BY <1>4, <2>5, ValueKinds
    <3>2. PICK r \in Frames(v) : s = Append(e, r)
      BY <1>1, <2>1, <2>5 DEF Opened
    <3>3. r \in SearchCalls /\ r.value = v /\ ToSet(r.left) = OperandsOf(v)
      BY <1>2, <3>1, NewCall
    <3> HIDE DEF e
    <3>4. s \in Seq(SearchCalls) /\ Len(s) = 1 /\ s[1] = r
      BY <2>3, <3>2, <3>3, AppendProperties
    <3> HIDE DEF v
    <3>5. v \in Asked(s)
      BY <3>3, <3>4 DEF Asked
    <3>6. ASSUME NEW k \in 1..Len(s) PROVE CallFits(s, map, k)
      <4>1. k = 1 /\ s[k].value = v /\ ToSet(s[k].left) = OperandsOf(v)
        BY <3>3, <3>4
      <4>2. \A n \in 1..(k - 1) : FALSE
        BY <4>1
      <4>3. v \in DOMAIN map /\ ~map[v]
        BY <2>2, <2>5
      <4> QED
        BY <4>1, <4>2, <4>3 DEF CallFits
    <3>7. MapFits(s, map)
      BY <1>4, <2>2, <2>5, <3>5 DEF MapFits
    <3>8. SearchFits(s, map)
      BY <3>4, <3>6, <3>7 DEF SearchFits
    <3> QED
      BY <1>1, <2>1, <3>8, SearchGoesOn
  <2> QED
    BY <2>4, <2>5
<1> QED
  BY <1>1, <1>2, <1>7, <1>8, <1>9 DEF UnswitchInv

LEMMA SkipBranchKeeps == UnswitchInv /\ SkipBranch => UnswitchInv'
<1> SUFFICES ASSUME UnswitchInv, SkipBranch PROVE UnswitchInv'
  OBVIOUS
<1> DEFINE b == Head(branches)
           more == branches'
<1>1. /\ stage = "ask" /\ stack = << >> /\ br = None /\ branches # << >> /\ cond[b] = None
      /\ branches' = Tail(branches)
      /\ UNCHANGED <<old, succ, cond, order, instr, stage, br, invariant, stack>>
  BY DEF SkipBranch, code
<1>2. old \in LoopFunctions /\ Untouched /\ Listing /\ Searching /\ Asking /\ Untouched'
  BY <1>1 DEF UnswitchInv, Untouched
<1>3. /\ more \in Seq(LoopBlocks) /\ b \in LoopBlocks /\ ToSet(branches) = {b} \cup ToSet(more)
      /\ Len(more) = Len(branches) - 1 /\ \A k \in 1..Len(more) : more[k] = branches[k + 1]
      /\ Len(branches) \in Nat \ {0}
  BY <1>1, <1>2, Beheaded, LenProperties, EmptySeq DEF Listing
<1>4. Listing'
  <2>1. ToSet(more) \cap old.switches = {}
    BY <1>2, <1>3 DEF Listing
  <2>2. ASSUME NEW m \in 1..Len(more), NEW n \in 1..Len(more), m < n
        PROVE  Precedes(more[m], more[n])
    <3>1. m + 1 \in 1..Len(branches) /\ n + 1 \in 1..Len(branches) /\ m + 1 < n + 1
      BY <1>3, <2>2
    <3>2. Precedes(branches[m + 1], branches[n + 1])
      BY <1>2, <3>1 DEF Listing
    <3> QED
      BY <1>3, <3>2
  <2> QED
    BY <1>1, <1>3, <2>1, <2>2, GivenStays DEF Listing
<1>5. Asking'
  <2>1. ~Invariable(b)
    BY <1>1, <1>2 DEF Invariable, IsConditional, Untouched
  <2>2. \A d \in LoopBlocks : Invariable(d) => d = br \/ d \in ToSet(more)
    BY <1>2, <1>3, <2>1 DEF Asking
  <2> QED
    BY <1>1, <2>2, GivenStays DEF Asking
<1>6. Searching'
  BY <1>1, <1>2, SearchStays
<1> QED
  BY <1>1, <1>2, <1>4, <1>5, <1>6 DEF UnswitchInv

\* A step of the search keeps what is said of the branches.
LEMMA SearchStep ==
  ASSUME UnswitchInv, stage = "ask", stack # << >>, Searching',
         UNCHANGED <<old, succ, cond, order, instr, stage, branches, br>>,
         DOMAIN invariant \subseteq DOMAIN invariant'
  PROVE  UnswitchInv'
<1>1. old \in LoopFunctions /\ Untouched /\ Listing /\ Asking
  BY DEF UnswitchInv
<1>2. br # None /\ old.cond[br] \in DOMAIN invariant'
  BY <1>1 DEF Asking
<1>3. Asking' /\ Listing' /\ Untouched'
  BY <1>1, <1>2, GivenStays DEF Asking, Listing, Untouched
<1> QED
  BY <1>1, <1>3 DEF UnswitchInv

\* The call on top of the stack.
LEMMA TopCall ==
  ASSUME old \in LoopFunctions, Searching, stack # << >>
  PROVE  /\ stack \in Seq(SearchCalls) /\ Len(stack) \in Nat \ {0}
         /\ Top = stack[Len(stack)] /\ Top \in SearchCalls
         /\ Top.value \in 1..N /\ Top.left \in Seq(Values) /\ Top.value \in Asked(stack)
         /\ Top.left # << >> => /\ Head(Top.left) \in OperandsOf(Top.value)
                                /\ Head(Top.left) \in Values
                                /\ Tail(Top.left) \in Seq(Values)
                                /\ ToSet(Top.left) = {Head(Top.left)} \cup ToSet(Tail(Top.left))
<1>1. stack \in Seq(SearchCalls)
  BY DEF Searching, SearchFits
<1> DEFINE t == Top
<1>2. Len(stack) \in Nat \ {0} /\ t = stack[Len(stack)] /\ t \in SearchCalls
  BY <1>1, EmptySeq, LenProperties, Popped DEF Top, Last
<1>3. Len(stack) \in 1..Len(stack)
  BY <1>2
<1>4. t.value \in Asked(stack) /\ ToSet(t.left) \subseteq OperandsOf(t.value)
  BY <1>2, <1>3 DEF Asked, Searching, SearchFits, CallFits
<1> HIDE DEF t
<1>5. t.value \in 1..N /\ t.left \in Seq(Values)
  BY <1>2 DEF SearchCalls
<1>6. t.left # << >> => /\ Head(t.left) \in Values /\ Tail(t.left) \in Seq(Values)
                        /\ ToSet(t.left) = {Head(t.left)} \cup ToSet(Tail(t.left))
  BY <1>5, Beheaded
<1> QED
  BY <1>1, <1>2, <1>4, <1>5, <1>6 DEF t

\* An argument or a constant is entered in the map.
LEMMA ArgEntered ==
  ASSUME NEW s, NEW map, NEW v \in Args, NEW big, SearchFits(s, map), v \notin DOMAIN map,
         DOMAIN big = {v} \cup DOMAIN map, big[v] = TRUE,
         \A w \in DOMAIN map : big[w] = map[w], big \in [DOMAIN big -> BOOLEAN]
  PROVE  SearchFits(s, big)
<1>1. ~Circular(v) /\ v \in Values
  BY ArgsAreInvariant DEF Values
<1>2. MapFits(s, big)
  BY <1>1 DEF SearchFits, MapFits
<1>3. ASSUME NEW k \in 1..Len(s) PROVE CallFits(s, big, k)
  BY DEF SearchFits, CallFits
<1> QED
  BY <1>2, <1>3 DEF SearchFits

\* A call for a value is made.
LEMMA CallMade ==
  ASSUME NEW s, NEW map, NEW v \in Values, NEW big, NEW r \in SearchCalls,
         SearchFits(s, map), s # << >>, v \notin DOMAIN map,
         DOMAIN big = {v} \cup DOMAIN map, big[v] = FALSE,
         \A w \in DOMAIN map : big[w] = map[w], big \in [DOMAIN big -> BOOLEAN],
         v \in OperandsOf(s[Len(s)].value), r.value = v, ToSet(r.left) = OperandsOf(v)
  PROVE  SearchFits(Append(s, r), big)
<1> DEFINE L == Len(s)
           new == Append(s, r)
<1>1. s \in Seq(SearchCalls) /\ L \in Nat \ {0}
  BY EmptySeq, LenProperties DEF SearchFits
<1>2. /\ new \in Seq(SearchCalls) /\ Len(new) = L + 1
      /\ \A k \in 1..L : new[k] = s[k]
      /\ new[L + 1] = r
  BY <1>1, AppendProperties
<1> HIDE DEF new
<1>3. ASSUME NEW k \in 1..L PROVE CallFits(new, big, k)
  <2>1. /\ new[k] = s[k] /\ \A n \in 1..(k - 1) : new[n] = s[n]
        /\ k > 1 => new[k - 1] = s[k - 1]
    BY <1>1, <1>2
  <2>2. CallFits(s, map, k)
    BY DEF SearchFits
  <2> QED
    BY <2>1, <2>2 DEF CallFits
<1>4. CallFits(new, big, L + 1)
  <2>1. \A n \in 1..L : new[n].value # v
    BY <1>2 DEF SearchFits, CallFits
  <2>2. L + 1 > 1 /\ (L + 1) - 1 = L /\ new[L] = s[L]
    BY <1>1, <1>2
  <2> QED
    BY <1>2, <2>1, <2>2 DEF CallFits
<1>5. \A k \in 1..Len(new) : CallFits(new, big, k)
  <2>1. \A k \in 1..Len(new) : k \in 1..L \/ k = L + 1
    BY <1>1, <1>2
  <2> QED
    BY <1>3, <1>4, <2>1
<1>6. Asked(s) \cup {v} \subseteq Asked(new)
  <2>1. \A k \in 1..L : k \in 1..Len(new) /\ new[k].value = s[k].value
    BY <1>1, <1>2
  <2>2. L + 1 \in 1..Len(new) /\ new[L + 1].value = v
    BY <1>1, <1>2
  <2> QED
    BY <2>1, <2>2 DEF Asked
<1>7. MapFits(new, big)
  BY <1>6 DEF SearchFits, MapFits
<1> QED
  BY <1>2, <1>5, <1>7 DEF SearchFits, new

LEMMA AskOperandKeeps == UnswitchInv /\ AskOperand => UnswitchInv'
<1> SUFFICES ASSUME UnswitchInv, AskOperand PROVE UnswitchInv'
  OBVIOUS
<1> DEFINE v == Head(Top.left)
<1>1. /\ stage = "ask" /\ stack # << >> /\ Top.left # << >> /\ v \notin DOMAIN invariant
      /\ invariant' = [w \in {v} \cup DOMAIN invariant |-> IF w = v THEN AtFirst(v) ELSE invariant[w]]
      /\ stack' \in Opened(v, stack)
      /\ UNCHANGED <<old, succ, cond, order, instr, stage, branches, br>>
  BY DEF AskOperand, code
<1>2. old \in LoopFunctions /\ Untouched /\ Searching
  BY <1>1 DEF UnswitchInv
<1>3. Top = stack[Len(stack)] /\ v \in OperandsOf(Top.value) /\ v \in Values
  BY <1>1, <1>2, TopCall
<1> HIDE DEF v
<1>4. PICK new, big : new = stack' /\ big = invariant'
  OBVIOUS
<1>5. /\ DOMAIN big = {v} \cup DOMAIN invariant /\ big[v] = (v \in Args)
      /\ \A w \in DOMAIN invariant : big[w] = invariant[w]
      /\ big \in [DOMAIN big -> BOOLEAN]
  <2>1. invariant \in [DOMAIN invariant -> BOOLEAN]
    BY <1>2 DEF Searching, SearchFits, MapFits
  <2>2. PICK map : map = invariant
    OBVIOUS
  <2>3. big = [w \in {v} \cup DOMAIN map |-> IF w = v THEN v \in Args ELSE map[w]]
    BY <1>1, <1>4, <2>2 DEF AtFirst
  <2>4. /\ DOMAIN big = {v} \cup DOMAIN map /\ big[v] = (v \in Args)
        /\ \A w \in DOMAIN map : w # v => big[w] = map[w]
    BY <2>3
  <2>5. \A w \in DOMAIN map : w # v /\ map[w] \in BOOLEAN
    BY <1>1, <2>1, <2>2
  <2>6. ASSUME NEW w \in DOMAIN big PROVE big[w] \in BOOLEAN
    <3>1. CASE w = v
      <4>1. (v \in Args) \in BOOLEAN
        OBVIOUS
      <4> QED
        BY <2>4, <3>1, <4>1, Zenon
    <3>2. CASE w # v
      <4>1. w \in DOMAIN map
        BY <2>4, <3>2
      <4>2. big[w] = map[w]
        BY <2>4, <4>1, <3>2, Zenon
      <4> QED
        BY <2>5, <4>1, <4>2, Zenon
    <3> QED
      BY <3>1, <3>2
  <2>7. big \in [DOMAIN big -> BOOLEAN]
    BY <2>3, <2>6
  <2> QED
    BY <2>2, <2>4, <2>5, <2>7
<1>6. SearchFits(new, big)
  <2>1. CASE v \in Args
    <3>1. new = stack
      BY <1>1, <1>4, <2>1 DEF Opened
    <3> QED
      BY <1>1, <1>2, <1>5, <2>1, <3>1, ArgEntered DEF Searching
  <2>2. CASE v \notin Args
    <3>1. v \in 1..N
      BY <1>3, <2>2, ValueKinds
    <3>2. PICK r \in Frames(v) : new = Append(stack, r)
      BY <1>1, <1>4, <2>2 DEF Opened
    <3>3. r \in SearchCalls /\ r.value = v /\ ToSet(r.left) = OperandsOf(v)
      BY <1>2, <3>1, NewCall
    <3>4. big[v] = FALSE
      BY <1>5, <2>2
    <3> QED
      BY <1>1, <1>2, <1>3, <1>5, <3>2, <3>3, <3>4, CallMade DEF Searching
  <2> QED
    BY <2>1, <2>2
<1>7. Searching'
  BY <1>1, <1>4, <1>6, SearchGoesOn
<1>8. DOMAIN invariant \subseteq DOMAIN invariant'
  BY <1>4, <1>5
<1> QED
  BY <1>1, <1>7, <1>8, SearchStep

\* The call on top is done with an operand.
LEMMA OperandDone ==
  ASSUME NEW s, NEW map, SearchFits(s, map), s # << >>, NEW t, t = s[Len(s)], NEW v,
         v \in DOMAIN map, map[v], NEW r \in SearchCalls, r.value = t.value,
         ToSet(t.left) = {v} \cup ToSet(r.left)
  PROVE  SearchFits(Append(Front(s), r), map)
<1> DEFINE L == Len(s)
           new == Append(Front(s), r)
<1>1. s \in Seq(SearchCalls)
  BY DEF SearchFits
<1>2. /\ L \in Nat \ {0}
      /\ new \in Seq(SearchCalls) /\ Len(new) = L
      /\ \A k \in 1..(L - 1) : new[k] = s[k]
      /\ new[L] = r
  BY <1>1, CallsBelow
<1> HIDE DEF new
<1>3. ASSUME NEW k \in 1..L
      PROVE  /\ new[k].value = s[k].value
             /\ ToSet(new[k].left) \subseteq ToSet(s[k].left)
             /\ ToSet(s[k].left) \subseteq ToSet(new[k].left) \cup {v}
  <2>1. k \in 1..(L - 1) \/ k = L
    BY <1>2
  <2> QED
    BY <1>2, <2>1
<1>4. ASSUME NEW k \in 1..L PROVE CallFits(new, map, k)
  <2>1. /\ new[k].value = s[k].value
        /\ \A n \in 1..(k - 1) : new[n].value = s[n].value
        /\ k > 1 => new[k - 1].value = s[k - 1].value
    BY <1>2, <1>3
  <2>2. CallFits(s, map, k)
    BY DEF SearchFits
  <2>3. \A w \in OperandsOf(new[k].value) \ ToSet(new[k].left) : w \in DOMAIN map /\ map[w]
    BY <1>3, <2>2 DEF CallFits
  <2>4. ToSet(new[k].left) \subseteq OperandsOf(new[k].value)
    BY <1>3, <2>2 DEF CallFits
  <2> QED
    BY <2>1, <2>2, <2>3, <2>4 DEF CallFits
<1>5. Asked(new) = Asked(s)
  BY <1>2, <1>3 DEF Asked
<1> QED
  BY <1>2, <1>4, <1>5 DEF SearchFits, MapFits, new

LEMMA OperandIsInvariantKeeps == UnswitchInv /\ OperandIsInvariant => UnswitchInv'
<1> SUFFICES ASSUME UnswitchInv, OperandIsInvariant PROVE UnswitchInv'
  OBVIOUS
<1>1. /\ stage = "ask" /\ stack # << >> /\ Top.left # << >>
      /\ Head(Top.left) \in DOMAIN invariant /\ invariant[Head(Top.left)]
      /\ stack' = Append(Front(stack), [Top EXCEPT !.left = Tail(Top.left)])
      /\ UNCHANGED <<old, succ, cond, order, instr, stage, branches, br, invariant>>
  BY DEF OperandIsInvariant, code, search
<1>2. old \in LoopFunctions /\ Searching
  BY <1>1 DEF UnswitchInv
<1>3. PICK t, v, map : t = Top /\ v = Head(Top.left) /\ map = invariant
  OBVIOUS
<1>4. PICK r : r = [t EXCEPT !.left = Tail(t.left)]
  OBVIOUS
<1>5. /\ t = stack[Len(stack)] /\ t \in SearchCalls
      /\ Tail(t.left) \in Seq(Values) /\ ToSet(t.left) = {v} \cup ToSet(Tail(t.left))
  BY <1>1, <1>2, <1>3, TopCall
<1>6. r \in SearchCalls /\ r.value = t.value /\ r.left = Tail(t.left)
  BY <1>4, <1>5 DEF SearchCalls
<1>7. SearchFits(Append(Front(stack), r), map)
  BY <1>1, <1>2, <1>3, <1>5, <1>6, OperandDone DEF Searching
<1>8. stack' = Append(Front(stack), r) /\ invariant' = map
  BY <1>1, <1>3, <1>4
<1>9. Searching'
  <2>1. PICK s : s = Append(Front(stack), r)
    OBVIOUS
  <2> QED
    BY <1>1, <1>7, <1>8, <2>1, SearchGoesOn
<1> QED
  BY <1>1, <1>9, SearchStep

\* The call on top returns: FALSE when it is in a circle, TRUE when all its
\* operands are invariant.
LEMMA CallReturns ==
  ASSUME old \in LoopFunctions, NEW s, NEW map, SearchFits(s, map), s # << >>, NEW v,
         v = s[Len(s)].value, NEW big \in [DOMAIN map -> BOOLEAN],
         \A w \in DOMAIN map : w # v => big[w] = map[w],
         IF big[v] THEN ~Circular(v) ELSE Circular(v)
  PROVE  SearchFits(Front(s), big)
<1> DEFINE L == Len(s)
           new == Front(s)
<1>1. s \in Seq(SearchCalls)
  BY DEF SearchFits
<1>2. /\ L \in Nat \ {0} /\ new \in Seq(SearchCalls) /\ Len(new) = L - 1
      /\ \A k \in 1..(L - 1) : new[k] = s[k]
  <2>1. s[L] \in SearchCalls
    BY <1>1, EmptySeq, LenProperties, ElementOfSeq
  <2> QED
    BY <1>1, <2>1, CallsBelow
<1> HIDE DEF new
<1>3. L \in 1..L /\ CallFits(s, map, L)
  BY <1>2 DEF SearchFits
<1>4. \A n \in 1..(L - 1) : s[n].value # v
  BY <1>3 DEF CallFits
<1>5. v \in DOMAIN map /\ ~map[v]
  BY <1>3 DEF CallFits
<1>6. ASSUME NEW k \in 1..(L - 1) PROVE CallFits(new, big, k)
  <2>1. k \in 1..L /\ CallFits(s, map, k)
    BY <1>2 DEF SearchFits
  <2>2. /\ new[k] = s[k] /\ \A n \in 1..(k - 1) : new[n] = s[n]
        /\ k > 1 => new[k - 1] = s[k - 1]
    BY <1>2
  <2>3. ASSUME NEW w \in DOMAIN map, map[w] PROVE big[w]
    BY <1>5, <2>3
  <2>4. ~big[s[k].value]
    BY <1>4, <2>1 DEF CallFits
  <2> QED
    BY <2>1, <2>2, <2>3, <2>4 DEF CallFits
<1>7. Asked(s) \subseteq Asked(new) \cup {v}
  <2>1. \A k \in 1..L : k \in 1..(L - 1) \/ k = L
    BY <1>2
  <2> QED
    BY <1>2, <2>1 DEF Asked
<1>8. MapFits(new, big)
  <2>1. MapFits(s, map) /\ DOMAIN big = DOMAIN map
    BY DEF SearchFits
  <2>2. ASSUME NEW w \in DOMAIN big
        PROVE  IF big[w] THEN ~Circular(w) ELSE w \in Asked(new) \/ Circular(w)
    <3>1. CASE w = v
      BY <3>1
    <3>2. CASE w # v
      BY <1>7, <2>1, <3>2 DEF MapFits
    <3> QED
      BY <3>1, <3>2
  <2> QED
    BY <2>1, <2>2 DEF MapFits
<1> QED
  BY <1>2, <1>6, <1>8 DEF SearchFits, new

LEMMA OperandVariesKeeps == UnswitchInv /\ OperandVaries => UnswitchInv'
<1> SUFFICES ASSUME UnswitchInv, OperandVaries PROVE UnswitchInv'
  OBVIOUS
<1>1. /\ stage = "ask" /\ stack # << >> /\ Top.left # << >>
      /\ Head(Top.left) \in DOMAIN invariant /\ ~invariant[Head(Top.left)]
      /\ invariant' = [invariant EXCEPT ![Top.value] = FALSE]
      /\ stack' = Front(stack)
      /\ UNCHANGED <<old, succ, cond, order, instr, stage, branches, br>>
  BY DEF OperandVaries, code
<1>2. old \in LoopFunctions /\ Searching
  BY <1>1 DEF UnswitchInv
<1>3. PICK s, map, w, v : s = stack /\ map = invariant /\ w = Head(Top.left) /\ v = Top.value
  OBVIOUS
<1>4. PICK big : big = [map EXCEPT ![v] = FALSE]
  OBVIOUS
<1>5. v = s[Len(s)].value /\ v \in 1..N /\ w \in OperandsOf(v)
  BY <1>1, <1>2, <1>3, TopCall
<1>6. map \in [DOMAIN map -> BOOLEAN]
  BY <1>2, <1>3 DEF Searching, SearchFits, MapFits
<1>7. big \in [DOMAIN map -> BOOLEAN] /\ \A u \in DOMAIN map : u # v => big[u] = map[u]
  BY <1>4, <1>6
<1>8. v \in DOMAIN map
  <2>1. v \in Asked(s)
    BY <1>1, <1>2, <1>3, TopCall
  <2> QED
    BY <1>2, <1>3, <2>1 DEF Asked, Searching, SearchFits, CallFits
<1>9. ~big[v]
  BY <1>4, <1>6, <1>8
<1>10. Circular(v)
  <2>1. w \in Asked(s) \/ Circular(w)
    BY <1>1, <1>2, <1>3 DEF Searching, SearchFits, MapFits
  <2>2. ASSUME w \in Asked(s) PROVE Circular(v)
    <3>1. v = Last(stack).value
      BY <1>3 DEF Top
    <3> QED
      BY <1>1, <1>2, <1>3, <1>5, <2>2, <3>1, CircleOfCalls
  <2> QED
    BY <1>5, <2>1, <2>2, CircleBehind
<1>11. SearchFits(Front(s), big)
  BY <1>1, <1>2, <1>3, <1>5, <1>7, <1>9, <1>10, CallReturns DEF Searching
<1>12. Searching'
  <2>1. PICK n : n = Front(s)
    OBVIOUS
  <2>2. stack' = n /\ invariant' = big
    BY <1>1, <1>3, <1>4, <2>1
  <2> QED
    BY <1>1, <1>11, <2>1, <2>2, SearchGoesOn
<1>13. DOMAIN invariant \subseteq DOMAIN invariant'
  BY <1>1
<1> QED
  BY <1>1, <1>12, <1>13, SearchStep

LEMMA AllInvariantKeeps == UnswitchInv /\ AllInvariant => UnswitchInv'
<1> SUFFICES ASSUME UnswitchInv, AllInvariant PROVE UnswitchInv'
  OBVIOUS
<1>1. /\ stage = "ask" /\ stack # << >> /\ Top.left = << >>
      /\ invariant' = [invariant EXCEPT ![Top.value] = TRUE]
      /\ stack' = Front(stack)
      /\ UNCHANGED <<old, succ, cond, order, instr, stage, branches, br>>
  BY DEF AllInvariant, code
<1>2. old \in LoopFunctions /\ Searching
  BY <1>1 DEF UnswitchInv
<1>3. PICK s, map, v : s = stack /\ map = invariant /\ v = Top.value
  OBVIOUS
<1>4. PICK big : big = [map EXCEPT ![v] = TRUE]
  OBVIOUS
<1>5. /\ v = s[Len(s)].value /\ v \in 1..N /\ s[Len(s)].left = << >>
      /\ Len(s) \in 1..Len(s)
  BY <1>1, <1>2, <1>3, TopCall
<1>6. map \in [DOMAIN map -> BOOLEAN]
  BY <1>2, <1>3 DEF Searching, SearchFits, MapFits
<1>7. big \in [DOMAIN map -> BOOLEAN] /\ \A u \in DOMAIN map : u # v => big[u] = map[u]
  BY <1>4, <1>6
<1>8. CallFits(s, map, Len(s))
  BY <1>2, <1>3, <1>5 DEF Searching, SearchFits
<1>9. v \in DOMAIN map
  BY <1>5, <1>8 DEF CallFits
<1>10. big[v]
  BY <1>4, <1>6, <1>9
<1>11. ~Circular(v)
  <2>1. ASSUME NEW w \in OperandsOf(v) PROVE ~Circular(w)
    <3>1. w \notin ToSet(s[Len(s)].left)
      BY <1>5, NothingInEmpty
    <3>2. w \in DOMAIN map /\ map[w]
      BY <1>5, <1>8, <3>1 DEF CallFits
    <3> QED
      BY <1>2, <1>3, <3>2 DEF Searching, SearchFits, MapFits
  <2> QED
    BY <1>5, <2>1, CircleBehind
<1>12. SearchFits(Front(s), big)
  BY <1>1, <1>2, <1>3, <1>5, <1>7, <1>10, <1>11, CallReturns DEF Searching
<1>13. Searching'
  <2>1. PICK n : n = Front(s)
    OBVIOUS
  <2>2. stack' = n /\ invariant' = big
    BY <1>1, <1>3, <1>4, <2>1
  <2> QED
    BY <1>1, <1>12, <2>1, <2>2, SearchGoesOn
<1>14. DOMAIN invariant \subseteq DOMAIN invariant'
  BY <1>1
<1> QED
  BY <1>1, <1>13, <1>14, SearchStep

LEMMA BranchVariesKeeps == UnswitchInv /\ BranchVaries => UnswitchInv'
<1> SUFFICES ASSUME UnswitchInv, BranchVaries PROVE UnswitchInv'
  OBVIOUS
<1>1. /\ stage = "ask" /\ stack = << >> /\ br # None /\ ~invariant[cond[br]] /\ br' = None
      /\ UNCHANGED <<old, succ, cond, order, instr, stage, branches, invariant, stack>>
  BY DEF BranchVaries, code
<1>2. old \in LoopFunctions /\ Untouched /\ Listing /\ Searching /\ Asking /\ Untouched'
  BY <1>1 DEF UnswitchInv, Untouched
<1>3. ~Invariable(br)
  <2>1. cond[br] = old.cond[br] /\ old.cond[br] \in DOMAIN invariant
    BY <1>1, <1>2 DEF Untouched, Asking
  <2>2. Circular(old.cond[br])
    BY <1>1, <1>2, <2>1, SearchIsExact
  <2> QED
    BY <2>2 DEF Invariable, IsConditional
<1>4. Asking'
  BY <1>1, <1>2, <1>3, GivenStays DEF Asking
<1>5. Listing' /\ Searching'
  BY <1>1, <1>2, GivenStays, SearchStays DEF Listing
<1> QED
  BY <1>1, <1>2, <1>4, <1>5 DEF UnswitchInv

LEMMA LeaveLoopKeeps == UnswitchInv /\ LeaveLoop => UnswitchInv'
<1> SUFFICES ASSUME UnswitchInv, LeaveLoop PROVE UnswitchInv'
  OBVIOUS
<1>1. /\ stage = "ask" /\ stage' = "returned"
      /\ (br = None /\ branches = << >>) \/ preheader = None
      /\ UNCHANGED <<old, succ, cond, order, instr>>
  BY DEF LeaveLoop, code
<1>2. old \in LoopFunctions /\ Untouched /\ Asking /\ Untouched'
  BY <1>1 DEF UnswitchInv, Untouched
<1>3. NothingToDo
  <2>1. ASSUME br = None, branches = << >>, NEW b \in LoopBlocks, Invariable(b) PROVE FALSE
    <3>1. b # None /\ b \notin ToSet(branches)
      BY <1>2, <2>1, LoopOf, NumbersOfCode, NothingInEmpty
    <3> QED
      BY <1>2, <2>1, <3>1 DEF Asking
  <2> QED
    BY <1>1, <2>1 DEF NothingToDo
<1> QED
  BY <1>1, <1>2, <1>3, GivenStays DEF UnswitchInv

LEMMA SplitKeeps == UnswitchInv /\ Split => UnswitchInv'
<1> SUFFICES ASSUME UnswitchInv, Split PROVE UnswitchInv'
  OBVIOUS
<1>1. /\ stage = "ask" /\ stack = << >> /\ br # None /\ stage' = "move"
      /\ invariant[cond[br]] /\ preheader # None
      /\ UNCHANGED <<old, br>>
  BY DEF Split, search
<1>2. old \in LoopFunctions /\ Untouched /\ Searching /\ Asking
  BY <1>1 DEF UnswitchInv
<1>3. br \in LoopBlocks /\ Invariable(br) /\ \A b \in ToSet(branches) : Precedes(br, b)
  <2>1. cond[br] = old.cond[br] /\ old.cond[br] \in DOMAIN invariant /\ old.cond[br] # None
        /\ br \in LoopBlocks \ old.switches /\ \A b \in ToSet(branches) : Precedes(br, b)
    BY <1>1, <1>2 DEF Untouched, Asking
  <2>2. ~Circular(old.cond[br])
    BY <1>1, <1>2, <2>1, SearchIsExact
  <2> QED
    BY <2>1, <2>2 DEF Invariable, IsConditional
<1>4. Decided
  BY <1>1, <1>2, <1>3 DEF Decided, Asking
<1>5. Decided'
  BY <1>1, <1>4, GivenStays DEF Decided
<1> QED
  BY <1>1, <1>2, <1>5 DEF UnswitchInv

LEMMA RebuildingKeeps ==
  UnswitchInv /\ (MoveDependency \/ KeepDependency \/ DependenciesMoved \/ MovePhis
                    \/ Retarget \/ Clone) => UnswitchInv'
<1> SUFFICES ASSUME UnswitchInv,
                    MoveDependency \/ KeepDependency \/ DependenciesMoved \/ MovePhis
                      \/ Retarget \/ Clone
             PROVE  UnswitchInv'
  OBVIOUS
<1>1. /\ stage \in {"move", "phis", "retarget", "clone"}
      /\ stage' \in {"move", "phis", "retarget", "clone", "redirect"}
      /\ UNCHANGED <<old, br>>
  BY DEF MoveDependency, KeepDependency, DependenciesMoved, MovePhis, Retarget, Clone,
         search, code
<1>2. old \in LoopFunctions /\ Decided
  BY <1>1 DEF UnswitchInv
<1>3. Decided'
  BY <1>1, <1>2, GivenStays DEF Decided
<1> QED
  BY <1>1, <1>2, <1>3 DEF UnswitchInv

LEMMA ClonedGiven ==
  ASSUME old \in LoopFunctions, preheader # None
  PROVE  Cloned \subseteq Given
<1>1. LoopBlocks \subseteq Given
  <2>1. old.loop \in Seq(Given)
    BY LoopOf
  <2> QED
    BY <2>1, Elements DEF LoopBlocks
<1>2. preheader \in Given
  BY DEF preheader, PreheaderOf
<1> QED
  BY <1>1, <1>2 DEF Cloned

LEMMA RedirectKeeps == UnswitchInv /\ Redirect => UnswitchInv'
<1> SUFFICES ASSUME UnswitchInv, Redirect PROVE UnswitchInv'
  OBVIOUS
<1>1. /\ stage = "redirect" /\ stage' = "returned" /\ UNCHANGED <<old, br>>
      /\ succ' = [b \in Blocks |->
                    CASE b = ifElseHeader -> << preheader, preheader + NB >>
                      [] b = br -> << trueBlock >>
                      [] b = br + NB -> << BlockMap(falseBlock) >>
                      [] b # br + NB /\ b - NB \in Cloned ->
                           [k \in DOMAIN succ[b] |-> BlockMap(succ[b][k])]
                      [] OTHER -> succ[b]]
  BY DEF Redirect, search
<1>2. old \in LoopFunctions /\ Decided
  BY <1>1 DEF UnswitchInv
<1>3. br # ifElseHeader /\ br + NB # ifElseHeader
  <2>1. br \in Given
    <3>1. WellFormedLoop(old)
      BY <1>2, LoopFunctionsAssumption
    <3> QED
      BY <1>2, <3>1, Elements DEF Decided, LoopBlocks, WellFormedLoop
  <2> QED
    BY <2>1, SizesAssumption DEF Given, ifElseHeader
<1>4. succ'[ifElseHeader] = << preheader, preheader + NB >>
  <2>1. ifElseHeader \in Blocks
    BY SizesAssumption DEF ifElseHeader
  <2>2. ifElseHeader - NB \notin Cloned
    BY <1>2, SizesAssumption, ClonedGiven DEF Decided, Given, ifElseHeader
  <2> HIDE DEF ifElseHeader, preheader, trueBlock, falseBlock, Cloned
  <2> QED
    BY <1>1, <1>3, <2>1, <2>2
<1>5. Decided' /\ preheader' = preheader /\ ifElseHeader' = ifElseHeader
  BY <1>1, <1>2, GivenStays DEF Decided, ifElseHeader
<1> QED
  BY <1>1, <1>2, <1>4, <1>5 DEF UnswitchInv

LEMMA UnswitchNextInv == UnswitchInv /\ [UnswitchNext]_unswitchVars => UnswitchInv'
<1> SUFFICES ASSUME UnswitchInv, [UnswitchNext]_unswitchVars PROVE UnswitchInv'
  OBVIOUS
<1>1. CASE UNCHANGED unswitchVars
  <2>1. UNCHANGED <<old, succ, cond, order, instr, stage, blocks, branches, br, invariant, stack>>
    BY <1>1 DEF unswitchVars, code, search
  <2>2. Untouched' <=> Untouched
    BY <2>1 DEF Untouched
  <2>3. Searching => Searching'
    BY <2>1, SearchStays
  <2>4. (Listing => Listing') /\ (Asking => Asking') /\ (Decided => Decided')
        /\ LookedAt' = LookedAt
    BY <2>1, GivenStays DEF Listing, Asking, Decided, LookedAt
  <2>5. Collecting => Collecting'
    BY <2>1, <2>4, GivenStays DEF Collecting
  <2>6. preheader' = preheader /\ ifElseHeader' = ifElseHeader /\ (NothingToDo' <=> NothingToDo)
    BY <2>1, GivenStays DEF ifElseHeader
  <2> QED
    BY <2>1, <2>2, <2>3, <2>4, <2>5, <2>6 DEF UnswitchInv
<1> QED
  BY <1>1, CollectKeeps, StartAskingKeeps, SkipBranchKeeps, AskBranchKeeps, AskOperandKeeps,
     OperandIsInvariantKeeps, OperandVariesKeeps, AllInvariantKeeps, BranchVariesKeeps,
     LeaveLoopKeeps, SplitKeeps, RebuildingKeeps, RedirectKeeps
     DEF UnswitchNext, UnswitchRun, Returned

\* What is known to be invariant is in no circle: what such a circle leaves over
\* has each instruction whose operands it has.
LEMMA SteadyIsNotCircular ==
  ASSUME NEW v, Steady(v)
  PROVE  ~Circular(v)
<1> SUFFICES ASSUME NEW S \in SUBSET (1..N), v \in S,
                    \A i \in S : S \cap Range(old.instr[i].args) # {}
             PROVE  FALSE
  BY DEF Circular
<1>1. v \notin Args
  BY ArgsAreInvariant DEF Circular
<1> DEFINE T == (1..N) \ S
<1>2. ASSUME NEW i \in 1..N, Range(old.instr[i].args) \cap 1..N \subseteq T
      PROVE  i \in T
  BY <1>2
<1>3. v \in Args \cup T
  <2>1. T \in SUBSET (1..N)
    OBVIOUS
  <2> QED
    BY <1>2, <2>1 DEF Steady
<1> QED
  BY <1>1, <1>3

\* What goes round with the loop is in a circle.
LEMMA VariesIsCircular ==
  ASSUME NEW v, Varies(v)
  PROVE  Circular(v)
<1>1. PICK S \in SUBSET OfLoop : v \in S /\ \A i \in S : S \cap Range(old.instr[i].args) # {}
  BY DEF Varies
<1>2. S \in SUBSET (1..N)
  BY DEF OfLoop
<1> QED
  BY <1>1, <1>2 DEF Circular

LEMMA UnswitchInvGives == UnswitchInv => UnswitchesFirst
<1> SUFFICES ASSUME UnswitchInv, stage = "returned"
             PROVE  \/ /\ Untouched
                       /\ \/ preheader = None
                          \/ \A b \in LoopBlocks : IsConditional(b) => ~Steady(old.cond[b])
                    \/ /\ preheader # None /\ succ[ifElseHeader] = << preheader, preheader + NB >>
                       /\ \E k \in 1..Len(old.loop) :
                            /\ br = old.loop[k] /\ IsConditional(br) /\ ~Varies(old.cond[br])
                            /\ \A n \in 1..(k - 1) :
                                 IsConditional(old.loop[n]) => ~Steady(old.cond[old.loop[n]])
  BY DEF UnswitchesFirst
<1>1. CASE Untouched /\ NothingToDo
  BY <1>1, SteadyIsNotCircular DEF NothingToDo, Invariable
<1>2. CASE ~(Untouched /\ NothingToDo)
  <2>1. Decided /\ succ[ifElseHeader] = << preheader, preheader + NB >> /\ old \in LoopFunctions
    BY <1>2 DEF UnswitchInv
  <2>2. PICK k \in 1..Len(old.loop) : br = old.loop[k]
    BY <2>1, LoopOf DEF Decided
  <2>3. ASSUME NEW n \in 1..(k - 1), IsConditional(old.loop[n]), Steady(old.cond[old.loop[n]])
        PROVE  FALSE
    <3>1. n \in 1..Len(old.loop) /\ n # k /\ n < k /\ Len(old.loop) \in Nat
      BY <2>1, LoopOf
    <3>2. old.loop[n] \in LoopBlocks /\ old.loop[n] # br
      BY <2>1, <2>2, <3>1, LoopOf
    <3>3. Invariable(old.loop[n])
      BY <2>3, SteadyIsNotCircular DEF Invariable
    <3>4. PICK i, j \in 1..Len(old.loop) : i < j /\ old.loop[i] = br /\ old.loop[j] = old.loop[n]
      BY <2>1, <3>2, <3>3 DEF Decided, Precedes
    <3>5. i = k /\ j = n
      BY <2>1, <2>2, <3>1, <3>4, LoopOf
    <3> QED
      BY <3>1, <3>4, <3>5
  <2>4. IsConditional(br) /\ ~Varies(old.cond[br])
    BY <2>1, VariesIsCircular DEF Decided, Invariable
  <2> QED
    BY <2>1, <2>2, <2>3, <2>4 DEF Decided
<1> QED
  BY <1>1, <1>2

\* In any loop, whatever depends on what in it and in whatever order a phi has
\* its values, no branch is unswitched whose condition goes round with the loop,
\* nor one behind a branch whose condition is known to be invariant; and without
\* a preheader, or if no branch is unswitched, run leaves the function as it is
\* (lines 76-101, 218-243).
THEOREM FindsTheFirst == UnswitchSpec => []UnswitchesFirst
<1> QED
  BY UnswitchInitInv, UnswitchNextInv, UnswitchInvGives, PTL DEF UnswitchSpec

==============================================================================
