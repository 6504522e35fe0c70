-------------------------- MODULE LoopStrengthReduction --------------------------
(****************************************************************************)
(* lib/Optimizations/LoopStrengthReduction.cpp: for each induction variable *)
(* of a loop, replace its products with constants by sums of a phi and the  *)
(* constant.                                                                *)
(*                                                                          *)
(*   "collect" -> "phis" <-> "users", "phis" -> "returned"                  *)
(*                                                                          *)
(* A function is a record: succ, its graph; loop, the blocks of the loop,   *)
(* which it is put in simplified form with a preheader, header and latch;   *)
(* phi[p], a phi of the header: from, the predecessors in the order it      *)
(* lists them; start, its value from the first of them; and inc, the value  *)
(* from the second, the operator of an instruction on p and step.  instr[i] *)
(* is a user of a phi, with the other operand on the right, and users[p]    *)
(* the list of the uses of p but for that in inc, by their users.  An       *)
(* operand that is no constant is Unknown.                                  *)
(****************************************************************************)
EXTENDS ControlFlow, Integers, SequencesExt

CONSTANTS
  Width,      \* bits of an integer
  Phis,       \* the phis of the header
  Instrs,     \* the users of the phis
  Functions,  \* the functions the pass is run on
  Turns       \* bound: the turns of the loop the values are compared on

Consts == 0..(2 ^ Width - 1)
Unknown == 2 ^ Width
Operands == Consts \cup {Unknown}

WellFormed(g) ==
  /\ g.succ \in CFGs /\ g.loop \subseteq Blocks
  /\ {g.preheader, g.header} \subseteq Blocks /\ g.latch \in g.loop
  /\ g.phi \in [Phis -> [from : {<<g.preheader, g.latch>>, <<g.latch, g.preheader>>},
                         start : Operands, inc : [op : {"add", "sub"}, step : Operands]]]
  /\ g.instr \in [Instrs -> [op : {"mul", "add"}, by : Operands, block : Blocks]]
  /\ g.users \in [Phis -> Seq(Instrs)]
  /\ \A p, q \in Phis : \A j \in DOMAIN g.users[p], k \in DOMAIN g.users[q] :
       g.users[p][j] = g.users[q][k] /\ g.instr[g.users[p][j]].by # Unknown =>
         p = q /\ j = k

\* The second part is there for the provers, which do not know `^'.
ASSUME WidthAssumption == Width \in Nat \ {0} /\ 2 ^ Width \in Nat \ {0}
ASSUME TurnsAssumption == Turns \in Nat
ASSUME FunctionsAssumption == \A g \in Functions : WellFormed(g)

VARIABLES
  f,          \* the function as it was
  phase,
  induction,  \* inductionVariables, those the loop has not come to
  phi,        \* inductionVar
  uses,       \* the lists of the uses of the phis, as they are now
  user,       \* where the iterator stands in that of phi
  reduced     \* the products replaced: reduced[i] has the new phi, which comes
              \* to init from the preheader, and the new sum, in a block

vars == <<f, phase, induction, phi, uses, user, reduced>>

Init ==
  /\ f \in Functions
  /\ phase = "collect"
  /\ induction = {}
  /\ phi \in Phis
  /\ uses = f.users /\ user = 1
  /\ reduced = [i \in {} |-> 0]

Wrapped(n) == n % 2 ^ Width

\* getInductionVariables.  A phi that lists the latch first is none.
Collect ==
  /\ phase = "collect"
  /\ phase' = "phis"
  /\ induction' = {p \in Phis : f.phi[p].from[1] = f.preheader /\ f.phi[p].from[2] \in f.loop}
  /\ UNCHANGED <<f, phi, uses, user, reduced>>

\* It starts from a constant and is incremented by one.
Counts(p) ==
  /\ f.phi[p].start # Unknown
  /\ f.phi[p].inc.op = "add" /\ f.phi[p].inc.step # Unknown

\* The set of pointers gives the phis in any order.
EnterPhi(p) ==
  /\ phase = "phis" /\ p \in induction
  /\ induction' = induction \ {p}
  /\ IF Counts(p)
     THEN phase' = "users" /\ phi' = p /\ user' = 1
     ELSE UNCHANGED <<phase, phi, user>>
  /\ UNCHANGED <<f, uses, reduced>>

AtEnd == user > Len(uses[phi])

Reducible(i) ==
  /\ f.instr[i].block \in f.loop
  /\ f.instr[i].op = "mul" /\ f.instr[i].by # Unknown

\* The definitions named X_... are X with a slip; the specification does not
\* use them.
InitOf_Start(i) == f.phi[phi].start

\* What the new phi has from the preheader.
InitOf(i) == Wrapped(f.phi[phi].start * f.instr[i].by)

Replacement(i) ==
  [of |-> phi, init |-> InitOf(i), by |-> f.instr[i].by,
   block |-> f.instr[i].block, from |-> f.phi[phi].from]

Reduced(i) ==
  [j \in {i} \cup DOMAIN reduced |-> IF j = i THEN Replacement(i) ELSE reduced[j]]

Reduce_SkipNext ==
  /\ phase = "users" /\ ~AtEnd /\ Reducible(uses[phi][user])
  /\ reduced' = Reduced(uses[phi][user])
  /\ uses' = [uses EXCEPT ![phi] = RemoveAt(@, user)]
  /\ user' = user + 1
  /\ UNCHANGED <<f, phase, induction, phi>>

\* The iterator goes on before the product is erased, whose use leaves the list
\* then: so it stands at what was the next use, which has moved up.
Reduce ==
  /\ phase = "users" /\ ~AtEnd /\ Reducible(uses[phi][user])
  /\ reduced' = Reduced(uses[phi][user])
  /\ uses' = [uses EXCEPT ![phi] = RemoveAt(@, user)]
  /\ UNCHANGED <<f, phase, induction, phi, user>>

KeepUser_Stay ==
  /\ phase = "users" /\ ~AtEnd /\ ~Reducible(uses[phi][user])
  /\ UNCHANGED vars

KeepUser ==
  /\ phase = "users" /\ ~AtEnd /\ ~Reducible(uses[phi][user])
  /\ user' = user + 1
  /\ UNCHANGED <<f, phase, induction, phi, uses, reduced>>

LeavePhi ==
  /\ phase = "users" /\ AtEnd
  /\ phase' = "phis"
  /\ UNCHANGED <<f, induction, phi, uses, user, reduced>>

Return ==
  /\ phase = "phis" /\ induction = {}
  /\ phase' = "returned"
  /\ UNCHANGED <<f, induction, phi, uses, user, reduced>>

Returned == phase = "returned" /\ UNCHANGED vars

Run ==
  \/ Collect
  \/ \E p \in induction : EnterPhi(p)
  \/ Reduce \/ KeepUser
  \/ LeavePhi
  \/ Return

Next == Run \/ Returned

\* The pass is one thread that nothing blocks.
Spec == Init /\ [][Next]_vars /\ WF_vars(Run)

------------------------------------------------------------------------------
(* Properties *)

\* What phi p is in turn k of the loop, and a product of it.
Value(p, k) == Wrapped(f.phi[p].start + k * f.phi[p].inc.step)
Product(i, k) == Wrapped(Value(reduced[i].of, k) * f.instr[i].by)

\* What the new phi and the new sum of i are in turn k, when the block of the
\* sum is part of every turn.
NewPhi(i) ==
  LET value[k \in 0..Turns] == IF k = 0 THEN reduced[i].init
                               ELSE Wrapped(value[k - 1] + reduced[i].by)
  IN  value
NewSum(i, k) == Wrapped(NewPhi(i)[k] + reduced[i].by)

\* The sum is computed in every turn, before the latch passes it to the phi.
SumDominatesLatch(i) == <<reduced[i].block, f.latch>> \in Dominance(f.succ)

\* Whichever phi the set has first and however the list of the users changes
\* under the iterator, the pass replaces the constant multiples that are
\* computed in the loop of the variables that count, and nothing else.
ReducesExactly ==
  phase = "returned" =>
    DOMAIN reduced =
      {i \in Instrs : /\ f.instr[i].block \in f.loop
                      /\ f.instr[i].op = "mul" /\ f.instr[i].by \in Consts
                      /\ \E p \in Phis : /\ i \in ToSet(f.users[p])
                                         /\ f.phi[p].from[1] = f.preheader
                                         /\ Counts(p)}

\* `A new phi on entry to the loop that will be incremented by the multiplier
\* on each iteration' (lines 108-109): for a variable that goes up by one, and
\* a product computed in every turn, the phi is that product turn after turn,
\* past the width of the integers as well.
PhiIsProduct ==
  \A i \in DOMAIN reduced :
    f.phi[reduced[i].of].inc.step = 1 /\ SumDominatesLatch(i) =>
      \A k \in 0..Turns : NewPhi(i)[k] = Product(i, k)

\* `Strength reduction transforms instructions with equivalent cheaper
\* instructions' (lines 1-2): what takes the place of a product is the product.
\* It does not hold: line 122 has the sum take the place and not the phi.
SumIsProduct ==
  \A i \in DOMAIN reduced : \A k \in 0..Turns : NewSum(i, k) = Product(i, k)

\* The phi gets the sum from the latch.  It does not hold for a product in a
\* conditional part of the loop: line 113 puts the sum there.
SumsReachLatch == \A i \in DOMAIN reduced : SumDominatesLatch(i)

\* The loops over phis and users end.
Returns == <>(phase = "returned")

==============================================================================
