----------------------- MODULE LoopStrengthReductionProofs -----------------------
(****************************************************************************)
(* Proofs about LoopStrengthReduction, for integers of any width, loops     *)
(* that turn any number of times and every function: which products give    *)
(* way, and that the phi that is made for one is the product in each turn.  *)
(****************************************************************************)
EXTENDS LoopStrengthReduction, DominanceTheorems

Reductions ==
  [of : Phis, init : Consts, by : Consts, block : Blocks,
   from : {<<f.preheader, f.latch>>, <<f.latch, f.preheader>>}]

TypeOK ==
  /\ f \in Functions
  /\ phase \in {"collect", "phis", "users", "returned"}
  /\ induction \in SUBSET Phis
  /\ phi \in Phis
  /\ uses \in [Phis -> Seq(Instrs)] /\ user \in Nat \ {0}
  /\ reduced \in [DOMAIN reduced -> Reductions] /\ DOMAIN reduced \subseteq Instrs

\* What getInductionVariables collects, and what is reduced of it.
Variables == {p \in Phis : f.phi[p].from[1] = f.preheader /\ f.phi[p].from[2] \in f.loop}
Multiples(p) == {i \in ToSet(f.users[p]) : Reducible(i)}

\* What the iterator has in front of it.
Ahead == {uses[phi][k] : k \in user..Len(uses[phi])}

\* The iterator stands in the list of a variable that counts; lists only lose
\* uses, and those of phis that are still to come have lost none.
AtHand ==
  /\ phase = "users" =>
       phi \in Variables \ induction /\ Counts(phi) /\ Ahead \subseteq ToSet(f.users[phi])
  /\ phase = "collect" => uses = f.users
  /\ \A p \in induction : uses[p] = f.users[p]

\* Of the variables behind the loop over phis every multiple is reduced, but for
\* those of the current one that the iterator has in front of it.
AllReduced ==
  /\ phase = "collect" => reduced = [i \in {} |-> 0]
  /\ phase # "collect" => induction \subseteq Variables
  /\ phase = "returned" => induction = {}
  /\ \A p \in Variables \ induction : \A i \in Multiples(p) :
       phase # "collect" /\ Counts(p) =>
         i \in DOMAIN reduced \/ (phase = "users" /\ p = phi /\ i \in Ahead)

\* Nothing else is, and each by the phi that the code makes for it.
ReducedFrom ==
  \A i \in DOMAIN reduced :
    LET p == reduced[i].of
    IN  /\ p \in Variables /\ Counts(p) /\ i \in Multiples(p)
        /\ reduced[i].init = Wrapped(f.phi[p].start * f.instr[i].by)
        /\ reduced[i].by = f.instr[i].by

IInv == TypeOK /\ AtHand /\ AllReduced /\ ReducedFrom

------------------------------------------------------------------------------
(* Arithmetic modulo the number of values *)

\* A division has one remainder.
LEMMA OneRemainder ==
  ASSUME NEW m \in Nat \ {0}, NEW x \in Int, NEW r \in 0..(m - 1), NEW s \in 0..(m - 1),
         r = s + m * x
  PROVE  r = s
<1>1. CASE x >= 1
  <2>1. m * x >= m
    BY <1>1
  <2> QED
    BY <2>1
<1>2. CASE x <= -1
  <2>1. m * x <= -m
    BY <1>2
  <2> QED
    BY <2>1
<1> QED
  BY <1>1, <1>2

LEMMA Division ==
  ASSUME NEW m \in Nat \ {0}, NEW a \in Int
  PROVE  \E q \in Int : a % m \in 0..(m - 1) /\ a = (m * q) + (a % m)
<1>1. a \div m \in Int /\ a % m \in 0..(m - 1) /\ a = (m * (a \div m)) + (a % m)
  OBVIOUS
<1> QED
  BY <1>1

\* A multiple of m may be added.
LEMMA SameRemainder ==
  ASSUME NEW m \in Nat \ {0}, NEW a \in Int, NEW c \in Int, NEW q \in Int, c = a + m * q
  PROVE  a % m = c % m
<1>1. PICK d \in Int : a % m \in 0..(m - 1) /\ a = (m * d) + (a % m)
  BY Division
<1>2. PICK e \in Int : c % m \in 0..(m - 1) /\ c = (m * e) + (c % m)
  BY Division
<1>3. ASSUME NEW r \in 0..(m - 1), NEW s \in 0..(m - 1), a = m * d + r, c = m * e + s
      PROVE  r = s
  <2>1. s = r + m * (d + q - e)
    <3>1. m * (d + q - e) = m * d + m * q - m * e
      OBVIOUS
    <3>2. m * d \in Int /\ m * e \in Int /\ m * q \in Int
      OBVIOUS
    <3> QED
      BY <1>3, <3>1, <3>2
  <2>2. d + q - e \in Int
    OBVIOUS
  <2> QED
    BY <2>1, <2>2, OneRemainder
<1> QED
  BY <1>1, <1>2, <1>3

\* Additions and products may wrap early.
LEMMA WrapsOnce ==
  ASSUME NEW a \in Int, NEW b \in Int
  PROVE  /\ Wrapped(a) \in Consts
         /\ Wrapped(Wrapped(a) + b) = Wrapped(a + b)
         /\ Wrapped(Wrapped(a) * b) = Wrapped(a * b)
<1> DEFINE m == 2 ^ Width
<1>1. m \in Nat \ {0}
  BY WidthAssumption
<1>2. Wrapped(a) = a % m /\ Consts = 0..(m - 1)
  BY DEF Wrapped, Consts
<1> HIDE DEF m
<1>3. PICK q \in Int : a % m \in 0..(m - 1) /\ a = (m * q) + (a % m)
  BY <1>1, Division
<1> DEFINE r == a % m
<1>4. r \in Int /\ a = (m * q) + r
  BY <1>1, <1>3
<1> HIDE DEF r
<1>5. (r + b) % m = (a + b) % m
  <2>1. a + b = (r + b) + m * q
    BY <1>1, <1>4
  <2>2. r + b \in Int /\ a + b \in Int
    BY <1>4
  <2> HIDE DEF r
  <2> QED
    BY <1>1, <2>1, <2>2, SameRemainder
<1>6. (r * b) % m = (a * b) % m
  <2>1. a * b = r * b + m * (q * b)
    <3>1. ((m * q) + r) * b = r * b + m * (q * b)
      BY <1>1, <1>4
    <3> QED
      BY <1>4, <3>1
  <2>2. r * b \in Int /\ a * b \in Int /\ q * b \in Int
    BY <1>4
  <2> QED
    BY <1>1, <2>1, <2>2, SameRemainder
<1>7. Wrapped(r + b) = (r + b) % m /\ Wrapped(a + b) = (a + b) % m
  BY DEF Wrapped, m
<1>8. Wrapped(r * b) = (r * b) % m /\ Wrapped(a * b) = (a * b) % m
  BY DEF Wrapped, m
<1> QED
  BY <1>2, <1>3, <1>5, <1>6, <1>7, <1>8 DEF r

LEMMA WrapsConst ==
  ASSUME NEW a \in Consts
  PROVE  a \in Int /\ Wrapped(a) = a
<1> DEFINE m == 2 ^ Width
<1>1. m \in Nat \ {0} /\ a \in 0..(m - 1)
  BY WidthAssumption DEF Consts
<1> HIDE DEF m
<1>2. a % m = a
  BY <1>1
<1> QED
  BY <1>1, <1>2 DEF Wrapped, m

LEMMA ConstsAreInt == Consts \subseteq Int
BY WidthAssumption DEF Consts

------------------------------------------------------------------------------
(* The invariant *)

\* What the assumption on functions says of the one at hand.
LEMMA Shape ==
  ASSUME f \in Functions
  PROVE  /\ f.preheader \in Blocks /\ f.latch \in f.loop /\ f.succ \in CFGs
         /\ \A p \in Phis : /\ f.phi[p].from \in {<<f.preheader, f.latch>>, <<f.latch, f.preheader>>}
                            /\ f.phi[p].start \in Operands /\ f.phi[p].inc.step \in Operands
                            /\ f.users[p] \in Seq(Instrs) /\ ToSet(f.users[p]) \subseteq Instrs
         /\ \A i \in Instrs : f.instr[i].by \in Operands /\ f.instr[i].block \in Blocks
<1>1. WellFormed(f)
  BY FunctionsAssumption
<1>2. \A p \in Phis : f.users[p] \in Seq(Instrs)
  BY <1>1 DEF WellFormed
<1>3. \A s \in Seq(Instrs) : ToSet(s) \subseteq Instrs
  BY Elements
<1>4. \A p \in Phis : ToSet(f.users[p]) \subseteq Instrs
  BY <1>2, <1>3
<1>5. \A p \in Phis : f.phi[p] \in [from : {<<f.preheader, f.latch>>, <<f.latch, f.preheader>>},
                         start : Operands, inc : [op : {"add", "sub"}, step : Operands]]
  BY <1>1 DEF WellFormed
<1>6. \A i \in Instrs : f.instr[i] \in [op : {"mul", "add"}, by : Operands, block : Blocks]
  BY <1>1 DEF WellFormed
<1>7. f.preheader \in Blocks /\ f.latch \in f.loop /\ f.succ \in CFGs
  BY <1>1 DEF WellFormed
<1> QED
  BY <1>2, <1>4, <1>5, <1>6, <1>7

LEMMA InitInv == Init => IInv
<1> SUFFICES ASSUME Init PROVE IInv
  OBVIOUS
<1>1. f \in Functions /\ phase = "collect" /\ induction = {} /\ phi \in Phis
      /\ uses = f.users /\ user = 1
  BY DEF Init
<1>2. reduced = [i \in {} |-> 0] /\ DOMAIN reduced = {}
  BY DEF Init
<1>3. TypeOK
  <2>1. reduced \in [DOMAIN reduced -> Reductions]
    BY <1>2
  <2>2. f.users \in [Phis -> Seq(Instrs)]
    BY <1>1, FunctionsAssumption DEF WellFormed
  <2> QED
    BY <1>1, <1>2, <2>1, <2>2 DEF TypeOK
<1>4. AtHand /\ AllReduced /\ ReducedFrom
  BY <1>1, <1>2 DEF AtHand, AllReduced, ReducedFrom
<1> QED
  BY <1>3, <1>4 DEF IInv

\* Nothing that the invariant says of a reduction depends on anything but f.
LEMMA ReductionsStay ==
  ASSUME IInv, f' = f, reduced' = reduced
  PROVE  ReducedFrom' /\ reduced' \in [DOMAIN reduced' -> Reductions'] /\ DOMAIN reduced' \subseteq Instrs
BY DEF IInv, TypeOK, ReducedFrom, Reductions, Variables, Counts, Multiples, Reducible, Wrapped

LEMMA CollectInv == IInv /\ Collect => IInv'
<1> SUFFICES ASSUME IInv, Collect PROVE IInv'
  OBVIOUS
<1>1. /\ phase' = "phis" /\ induction' = Variables
      /\ f' = f /\ phi' = phi /\ uses' = uses /\ user' = user /\ reduced' = reduced
      /\ phase = "collect"
  BY DEF Collect, Variables
<1>2. TypeOK'
  BY <1>1, ReductionsStay DEF IInv, TypeOK, Variables
<1>3. Variables' = Variables
  BY <1>1 DEF Variables
<1>4. uses = f.users /\ Variables \subseteq Phis
  BY <1>1 DEF IInv, AtHand, Variables
<1>5. AtHand' /\ AllReduced'
  BY <1>1, <1>3, <1>4 DEF AtHand, AllReduced
<1> QED
  BY <1>1, <1>2, <1>5, ReductionsStay DEF IInv

\* The iterator is put at the first use.
LEMMA AheadAtFirst ==
  ASSUME NEW s \in Seq(Instrs)
  PROVE  {s[k] : k \in 1..Len(s)} = ToSet(s)
BY Elements

LEMMA EnterPhiInv == ASSUME NEW p \in induction PROVE IInv /\ EnterPhi(p) => IInv'
<1> SUFFICES ASSUME IInv, EnterPhi(p) PROVE IInv'
  OBVIOUS
<1>1. /\ phase = "phis" /\ induction' = induction \ {p} /\ f' = f /\ reduced' = reduced
      /\ uses' = uses
  BY DEF EnterPhi
<1>2. p \in Phis /\ p \in Variables /\ phi \in Phis /\ induction \subseteq Phis /\ induction \subseteq Variables
  BY <1>1 DEF IInv, TypeOK, AllReduced
<1>3. \/ Counts(p) /\ phase' = "users" /\ phi' = p /\ user' = 1
      \/ ~Counts(p) /\ phase' = phase /\ phi' = phi /\ user' = user
  BY DEF EnterPhi
<1>4. TypeOK'
  BY <1>1, <1>2, <1>3, ReductionsStay DEF IInv, TypeOK
<1>5. /\ Variables' = Variables
      /\ \A q : (Counts(q)' <=> Counts(q)) /\ Multiples(q)' = Multiples(q)
  BY <1>1 DEF Variables, Counts, Multiples, Reducible
<1>6. Counts(p) => Ahead' = ToSet(f.users[p])
  <2>1. uses[p] = f.users[p] /\ f.users[p] \in Seq(Instrs)
    BY <1>2, Shape DEF IInv, TypeOK, AtHand
  <2>2. Counts(p) => Ahead' = {f.users[p][k] : k \in 1..Len(f.users[p])}
    BY <1>1, <1>3, <2>1 DEF Ahead
  <2> QED
    BY <2>1, <2>2, AheadAtFirst
<1>7. AtHand'
  <2>1. ASSUME phase' = "users"
        PROVE  phi' \in Variables' \ induction' /\ Counts(phi)'
               /\ Ahead' \subseteq ToSet(f.users[phi])'
    <3>1. Counts(p) /\ phi' = p
      BY <1>1, <1>3, <2>1
    <3> QED
      BY <1>1, <1>2, <1>5, <1>6, <3>1 DEF Counts
  <2>2. \A q \in induction' : uses'[q] = f'.users[q]
    BY <1>1 DEF IInv, AtHand
  <2>3. phase' # "collect"
    BY <1>1, <1>3
  <2> QED
    BY <2>1, <2>2, <2>3 DEF AtHand
<1>8. AllReduced'
  <2>1. ASSUME NEW q \in Variables \ (induction \ {p}), NEW i \in Multiples(q), Counts(q)
        PROVE  i \in DOMAIN reduced \/ (phase' = "users" /\ q = phi' /\ i \in Ahead')
    <3>1. CASE q = p
      BY <1>3, <1>6, <2>1, <3>1 DEF Multiples
    <3>2. CASE q # p
      BY <1>1, <2>1, <3>2 DEF IInv, AllReduced
    <3> QED
      BY <3>1, <3>2
  <2>2. phase' \in {"phis", "users"} /\ induction' \subseteq Variables
    BY <1>1, <1>2, <1>3
  <2> QED
    BY <1>1, <1>5, <2>1, <2>2 DEF AllReduced
<1> QED
  BY <1>1, <1>4, <1>7, <1>8, ReductionsStay DEF IInv

\* What is erased leaves the list, and what was behind it moves up.
LEMMA AheadOfRemoved ==
  ASSUME NEW s \in Seq(Instrs), NEW m \in 1..Len(s)
  PROVE  LET t == RemoveAt(s, m)
         IN  {s[k] : k \in m..Len(s)} = {s[m]} \cup {t[k] : k \in m..Len(t)}
<1> DEFINE t == RemoveAt(s, m)
<1>1. /\ Len(s) \in Nat /\ Len(t) = Len(s) - 1
      /\ \A k \in 1..(Len(s) - 1) : t[k] = IF k < m THEN s[k] ELSE s[k + 1]
  BY RemovedFrom, LenProperties
<1> HIDE DEF t
<1>2. ASSUME NEW k \in m..Len(s)
      PROVE  s[k] \in {s[m]} \cup {t[j] : j \in m..Len(t)}
  <2>1. CASE k = m
    BY <2>1
  <2>2. CASE k # m
    <3>1. k - 1 \in m..Len(t) /\ t[k - 1] = s[k]
      BY <1>1, <2>2
    <3> QED
      BY <3>1
  <2> QED
    BY <2>1, <2>2
<1>3. ASSUME NEW k \in m..Len(t)
      PROVE  t[k] \in {s[j] : j \in m..Len(s)}
  <2>1. k + 1 \in m..Len(s) /\ t[k] = s[k + 1]
    BY <1>1
  <2> QED
    BY <2>1
<1>4. s[m] \in {s[j] : j \in m..Len(s)}
  <2>1. m \in m..Len(s)
    BY <1>1
  <2> QED
    BY <2>1
<1> QED
  BY <1>2, <1>3, <1>4 DEF t

LEMMA ReduceInv == IInv /\ Reduce => IInv'
<1> SUFFICES ASSUME IInv, Reduce PROVE IInv'
  OBVIOUS
<1> DEFINE i == uses[phi][user]
<1>1. /\ phase = "users" /\ ~AtEnd /\ Reducible(i) /\ user' = user
      /\ uses' = [uses EXCEPT ![phi] = RemoveAt(uses[phi], user)]
      /\ f' = f /\ phase' = phase /\ induction' = induction /\ phi' = phi
  BY DEF Reduce
<1>2. f \in Functions /\ phi \in Phis /\ phi \in Variables /\ phi \notin induction /\ Counts(phi)
      /\ induction \subseteq Phis /\ Ahead \subseteq ToSet(f.users[phi])
      /\ induction \subseteq Variables /\ uses \in [Phis -> Seq(Instrs)] /\ user \in Nat \ {0}
  BY <1>1 DEF IInv, TypeOK, AtHand, AllReduced
<1>3. i \in Instrs /\ uses' \in [Phis -> Seq(Instrs)] /\ Ahead = {i} \cup Ahead'
  <2>1. uses[phi] \in Seq(Instrs) /\ user \in 1..Len(uses[phi])
    BY <1>1, <1>2, LenProperties DEF AtEnd
  <2>2. RemoveAt(uses[phi], user) \in Seq(Instrs) /\ uses'[phi] = RemoveAt(uses[phi], user)
    BY <1>1, <1>2, <2>1, RemovedFrom
  <2>3. Ahead = {i} \cup {uses'[phi][k] : k \in user..Len(uses'[phi])}
    <3> DEFINE s == uses[phi]
               t == RemoveAt(s, user)
    <3>1. {s[k] : k \in user..Len(s)} = {s[user]} \cup {t[k] : k \in user..Len(t)}
      <4> HIDE DEF s
      <4>1. s \in Seq(Instrs) /\ user \in 1..Len(s)
        BY <2>1 DEF s
      <4> QED
        BY <4>1, AheadOfRemoved
    <3>2. t = uses'[phi]
      BY <2>2
    <3> HIDE DEF t
    <3> QED
      BY <3>1, <3>2 DEF Ahead
  <2>4. Ahead' = {uses'[phi][k] : k \in user..Len(uses'[phi])}
    BY <1>1 DEF Ahead
  <2>5. i \in Instrs
    BY <2>1, ElementOfSeq
  <2>6. uses' \in [Phis -> Seq(Instrs)]
    BY <1>1, <1>2, <2>2
  <2> QED
    BY <2>3, <2>4, <2>5, <2>6
<1> DEFINE new == Replacement(i)
<1>4. reduced' = [j \in {i} \cup DOMAIN reduced |-> IF j = i THEN new ELSE reduced[j]]
  BY DEF Reduce, Reduced
<1>5. InitOf(i) = Wrapped(f.phi[phi].start * f.instr[i].by) /\ i \in Multiples(phi)
  BY <1>1, <1>2, <1>3 DEF InitOf, Multiples
<1> HIDE DEF i
<1>6. f.instr[i].by \in Consts /\ f.phi[phi].start \in Consts
  BY <1>1, <1>2, <1>3, Shape DEF Reducible, Counts, Operands
<1>7. Wrapped(f.phi[phi].start * f.instr[i].by) \in Consts
  <2>1. f.instr[i].by \in Int /\ f.phi[phi].start \in Int
    BY <1>6, ConstsAreInt
  <2>2. f.phi[phi].start * f.instr[i].by \in Int
    BY <2>1
  <2> QED
    BY <2>2, WrapsOnce, 0 \in Int
<1>8. new \in Reductions
  <2>1. f.instr[i].block \in Blocks
        /\ f.phi[phi].from \in {<<f.preheader, f.latch>>, <<f.latch, f.preheader>>}
    BY <1>2, <1>3, Shape
  <2> QED
    BY <1>2, <1>5, <1>6, <1>7, <2>1 DEF Reductions, Replacement
<1>9. /\ new.of = phi /\ new.init = Wrapped(f.phi[phi].start * f.instr[i].by)
      /\ new.by = f.instr[i].by
  BY <1>5 DEF Replacement
<1> HIDE DEF new
<1>10. /\ DOMAIN reduced' = {i} \cup DOMAIN reduced /\ reduced'[i] = new
       /\ \A j \in DOMAIN reduced : j # i => reduced'[j] = reduced[j]
  BY <1>4
<1>11. TypeOK'
  <2>1. reduced \in [DOMAIN reduced -> Reductions] /\ DOMAIN reduced \subseteq Instrs
    BY DEF IInv, TypeOK
  <2>2. reduced' \in [DOMAIN reduced' -> Reductions]
    <3>1. \A j \in {i} \cup DOMAIN reduced : (IF j = i THEN new ELSE reduced[j]) \in Reductions
      BY <1>8, <2>1
    <3>2. reduced' \in [{i} \cup DOMAIN reduced -> Reductions]
      BY ONLY <1>4, <3>1
    <3> QED
      BY <3>2, <1>10
  <2>3. Reductions' = Reductions
    BY <1>1 DEF Reductions
  <2> QED
    BY <1>1, <1>2, <1>3, <1>10, <2>1, <2>2, <2>3 DEF IInv, TypeOK
<1>12. /\ Variables' = Variables
       /\ \A q : (Counts(q)' <=> Counts(q)) /\ Multiples(q)' = Multiples(q)
  BY <1>1 DEF Variables, Counts, Multiples, Reducible
<1>13. AtHand'
  <2>1. \A q \in induction : uses'[q] = f.users[q]
    BY <1>1, <1>2 DEF IInv, AtHand
  <2> QED
    BY <1>1, <1>2, <1>3, <1>12, <2>1 DEF AtHand, Counts
<1>14. AllReduced'
  <2>1. ASSUME NEW q \in Variables \ induction, NEW j \in Multiples(q), Counts(q)
        PROVE  j \in {i} \cup DOMAIN reduced \/ (q = phi /\ j \in Ahead')
    BY <1>1, <1>3, <2>1 DEF IInv, AllReduced
  <2> QED
    BY <1>1, <1>2, <1>10, <1>12, <2>1 DEF AllReduced
<1>15. ReducedFrom'
  <2>1. ASSUME NEW j \in {i} \cup DOMAIN reduced
        PROVE  LET p == reduced'[j].of
               IN  /\ p \in Variables /\ Counts(p) /\ j \in Multiples(p)
                   /\ reduced'[j].init = Wrapped(f.phi[p].start * f.instr[j].by)
                   /\ reduced'[j].by = f.instr[j].by
    <3>1. CASE j = i
      BY <1>2, <1>5, <1>9, <1>10, <3>1
    <3>2. CASE j # i
      BY <1>10, <3>2 DEF IInv, ReducedFrom
    <3> QED
      BY <3>1, <3>2
  <2>2. \A n : Wrapped(n)' = Wrapped(n)
    BY DEF Wrapped
  <2> QED
    BY <1>1, <1>10, <1>12, <2>1, <2>2 DEF ReducedFrom
<1> QED
  BY <1>11, <1>13, <1>14, <1>15 DEF IInv

LEMMA KeepUserInv == IInv /\ KeepUser => IInv'
<1> SUFFICES ASSUME IInv, KeepUser PROVE IInv'
  OBVIOUS
<1> DEFINE i == uses[phi][user]
<1>1. /\ phase = "users" /\ ~AtEnd /\ ~Reducible(i) /\ user' = user + 1 /\ uses' = uses
      /\ f' = f /\ phase' = phase /\ induction' = induction /\ phi' = phi /\ reduced' = reduced
  BY DEF KeepUser
<1>2. /\ uses[phi] \in Seq(Instrs) /\ user \in Nat \ {0}
      /\ Ahead \subseteq ToSet(f.users[phi])
  BY <1>1 DEF IInv, TypeOK, AtHand
<1>3. Ahead = {i} \cup Ahead' /\ user' \in Nat \ {0}
  <2>1. Len(uses[phi]) \in Nat /\ user \in 1..Len(uses[phi])
    BY <1>1, <1>2, LenProperties DEF AtEnd
  <2>2. \A k : k \in user..Len(uses[phi]) <=> k = user \/ k \in (user + 1)..Len(uses[phi])
    BY <2>1
  <2> QED
    BY <1>1, <1>2, <2>2 DEF Ahead
<1> HIDE DEF i
<1>4. /\ Variables' = Variables
      /\ \A q : (Counts(q)' <=> Counts(q)) /\ Multiples(q)' = Multiples(q)
  BY <1>1 DEF Variables, Counts, Multiples, Reducible
<1>5. TypeOK'
  BY <1>1, <1>3, ReductionsStay DEF IInv, TypeOK
<1>6. AtHand'
  BY <1>1, <1>2, <1>3, <1>4 DEF IInv, AtHand, Counts
<1>7. AllReduced'
  <2>1. ASSUME NEW q \in Variables \ induction, NEW j \in Multiples(q), Counts(q)
        PROVE  j \in DOMAIN reduced \/ (q = phi /\ j \in Ahead')
    <3>1. j # i
      BY <1>1 DEF Multiples
    <3> QED
      BY <1>1, <1>3, <2>1, <3>1 DEF IInv, AllReduced
  <2> QED
    BY <1>1, <1>4, <2>1 DEF IInv, AllReduced
<1> QED
  BY <1>1, <1>5, <1>6, <1>7, ReductionsStay DEF IInv

LEMMA LeavePhiInv == IInv /\ (LeavePhi \/ Return) => IInv'
<1> SUFFICES ASSUME IInv, LeavePhi \/ Return PROVE IInv'
  OBVIOUS
<1>1. /\ phase' \in {"phis", "returned"} /\ phase \in {"phis", "users"}
      /\ phase = "users" => AtEnd
      /\ phase' = "returned" => induction = {}
      /\ f' = f /\ induction' = induction /\ phi' = phi /\ uses' = uses /\ user' = user
      /\ reduced' = reduced
  BY DEF LeavePhi, Return
<1>2. phase = "users" => Ahead = {}
  <2>1. user \in Nat /\ Len(uses[phi]) \in Nat
    BY LenProperties DEF IInv, TypeOK
  <2>2. AtEnd => \A k : k \notin user..Len(uses[phi])
    BY <2>1 DEF AtEnd
  <2> QED
    BY <1>1, <2>2 DEF Ahead
<1>3. /\ Variables' = Variables
      /\ \A q : (Counts(q)' <=> Counts(q)) /\ Multiples(q)' = Multiples(q)
  BY <1>1 DEF Variables, Counts, Multiples, Reducible
<1>4. TypeOK'
  BY <1>1, ReductionsStay DEF IInv, TypeOK
<1>5. AtHand'
  BY <1>1 DEF IInv, AtHand
<1>6. AllReduced'
  BY <1>1, <1>2, <1>3 DEF IInv, AllReduced
<1> QED
  BY <1>1, <1>4, <1>5, <1>6, ReductionsStay DEF IInv

LEMMA NextInv == IInv /\ [Next]_vars => IInv'
<1> SUFFICES ASSUME IInv, [Next]_vars PROVE IInv'
  OBVIOUS
<1>1. CASE UNCHANGED vars
  <2>1. /\ f' = f /\ phase' = phase /\ induction' = induction
        /\ phi' = phi /\ uses' = uses /\ user' = user /\ reduced' = reduced
    BY <1>1 DEF vars
  <2>2. /\ Variables' = Variables
        /\ \A q : (Counts(q)' <=> Counts(q)) /\ Multiples(q)' = Multiples(q)
    BY <2>1 DEF Variables, Counts, Multiples, Reducible
  <2>3. TypeOK'
    BY <2>1, ReductionsStay DEF IInv, TypeOK
  <2>4. AtHand'
    BY <2>1, <2>2 DEF IInv, AtHand, Counts, Ahead
  <2>5. AllReduced'
    BY <2>1, <2>2 DEF IInv, AllReduced, Ahead
  <2> QED
    BY <2>1, <2>3, <2>4, <2>5, ReductionsStay DEF IInv
<1>2. CASE Run
  BY <1>2, CollectInv, EnterPhiInv, ReduceInv, KeepUserInv, LeavePhiInv DEF Run
<1> QED
  BY <1>1, <1>2 DEF Next, Returned

------------------------------------------------------------------------------
(* Which products give way *)

LEMMA InvReducesExactly == IInv => ReducesExactly
<1> SUFFICES ASSUME IInv, phase = "returned"
             PROVE  DOMAIN reduced =
                      {i \in Instrs : /\ f.instr[i].block \in f.loop
                                      /\ f.instr[i].op = "mul" /\ f.instr[i].by \in Consts
                                      /\ \E p \in Phis : /\ i \in ToSet(f.users[p])
                                                         /\ f.phi[p].from[1] = f.preheader
                                                         /\ Counts(p)}
  BY DEF ReducesExactly
<1>1. f \in Functions /\ DOMAIN reduced \subseteq Instrs /\ induction = {}
  BY DEF IInv, TypeOK, AllReduced
<1>2. \A i \in Instrs : f.instr[i].by # Unknown <=> f.instr[i].by \in Consts
  <2>1. Unknown \notin Consts
    BY WidthAssumption DEF Unknown, Consts
  <2> QED
    BY <1>1, <2>1, Shape DEF Operands
<1>3. \A i \in DOMAIN reduced :
        /\ f.instr[i].block \in f.loop /\ f.instr[i].op = "mul" /\ f.instr[i].by \in Consts
        /\ \E p \in Phis : i \in ToSet(f.users[p]) /\ f.phi[p].from[1] = f.preheader /\ Counts(p)
  BY <1>1, <1>2 DEF IInv, ReducedFrom, Variables, Multiples, Reducible
<1>4. ASSUME NEW i \in Instrs, NEW p \in Phis,
             f.instr[i].block \in f.loop, f.instr[i].op = "mul", f.instr[i].by \in Consts,
             i \in ToSet(f.users[p]), f.phi[p].from[1] = f.preheader, Counts(p)
      PROVE  i \in DOMAIN reduced
  <2>1. f.phi[p].from[2] \in f.loop
    <3>1. f.phi[p].from \in {<<f.preheader, f.latch>>, <<f.latch, f.preheader>>} /\ f.latch \in f.loop
      BY <1>1, Shape
    <3> QED
      BY <1>4, <3>1
  <2>2. p \in Variables \ induction /\ i \in Multiples(p)
    BY <1>1, <1>2, <1>4, <2>1 DEF Variables, Multiples, Reducible
  <2> QED
    BY <1>4, <2>2 DEF IInv, AllReduced
<1> QED
  BY <1>1, <1>3, <1>4

------------------------------------------------------------------------------
(* The values of the new phi *)

\* The recursive definition of NewPhi has the solution that repeated addition
\* suggests, so it has one.
LEMMA NewPhiExists ==
  ASSUME NEW init \in Consts, NEW by \in Consts
  PROVE  \E v : v = [k \in 0..Turns |-> IF k = 0 THEN init ELSE Wrapped(v[k - 1] + by)]
<1> DEFINE w == [k \in 0..Turns |-> Wrapped(init + k * by)]
<1>1. init \in Int /\ by \in Int
  BY ConstsAreInt
<1>2. ASSUME NEW k \in 0..Turns
      PROVE  Wrapped(init + k * by) = IF k = 0 THEN init ELSE Wrapped(w[k - 1] + by)
  <2>1. CASE k = 0
    <3>1. init + k * by = init
      BY <1>1, <2>1
    <3> QED
      BY <2>1, <3>1, WrapsConst
  <2>2. CASE k # 0
    <3>1. k - 1 \in 0..Turns /\ k \in Int
      BY <2>2, TurnsAssumption
    <3>2. w[k - 1] = Wrapped(init + (k - 1) * by)
      BY <3>1
    <3>3. init + (k - 1) * by \in Int /\ (init + (k - 1) * by) + by = init + k * by
      BY <1>1, <3>1
    <3>4. Wrapped(w[k - 1] + by) = Wrapped((init + (k - 1) * by) + by)
      BY <1>1, <3>2, <3>3, WrapsOnce
    <3> QED
      BY <2>2, <3>3, <3>4
  <2> QED
    BY <2>1, <2>2
<1>3. w = [k \in 0..Turns |-> IF k = 0 THEN init ELSE Wrapped(w[k - 1] + by)]
  BY <1>2
<1> QED
  BY <1>3

\* A phi that starts from init and goes up by the constant by is their multiple
\* in each turn.  Of the turns in which it is not, take the first.
LEMMA NewPhiValue ==
  ASSUME NEW i, reduced[i].init \in Consts, reduced[i].by \in Consts, NEW k \in 0..Turns
  PROVE  NewPhi(i)[k] = Wrapped(reduced[i].init + k * reduced[i].by)
<1> DEFINE v == NewPhi(i)
           init == reduced[i].init
           by == reduced[i].by
<1>1. init \in Int /\ by \in Int
  BY ConstsAreInt
<1>2. v = [n \in 0..Turns |-> IF n = 0 THEN init ELSE Wrapped(v[n - 1] + by)]
  <2>1. \E u : u = [n \in 0..Turns |-> IF n = 0 THEN init ELSE Wrapped(u[n - 1] + by)]
    BY NewPhiExists
  <2>2. v = CHOOSE u : u = [n \in 0..Turns |-> IF n = 0 THEN init ELSE Wrapped(u[n - 1] + by)]
    BY DEF NewPhi
  <2> HIDE DEF v
  <2> QED
    BY <2>1, <2>2
<1> HIDE DEF v
<1> DEFINE Differs == {n \in 0..Turns : v[n] # Wrapped(init + n * by)}
<1>3. SUFFICES ASSUME Differs # {} PROVE FALSE
  <2>1. k \notin Differs
    BY <1>3
  <2> QED
    BY <2>1 DEF v
<1>4. Differs \in SUBSET Nat
  BY TurnsAssumption
<1>5. PICK n \in Differs : \A m \in Differs : n <= m
  BY <1>3, <1>4, LeastNatural
<1>6. n \in 0..Turns /\ n \in Nat /\ v[n] # Wrapped(init + n * by)
  BY <1>4
<1>7. CASE n = 0
  <2>1. init + n * by = init
    BY <1>1, <1>7
  <2>2. v[n] = init
    BY <1>2, <1>6, <1>7
  <2> QED
    BY <1>6, <2>1, <2>2, WrapsConst
<1>8. CASE n # 0
  <2>1. n - 1 \in 0..Turns
    BY <1>6, <1>8, TurnsAssumption
  <2>2. v[n - 1] = Wrapped(init + (n - 1) * by)
    <3>1. ~(n <= n - 1)
      BY <1>6
    <3> QED
      BY <1>5, <2>1, <3>1
  <2>3. v[n] = Wrapped(v[n - 1] + by)
    BY <1>2, <1>6, <1>8
  <2>4. init + (n - 1) * by \in Int /\ (init + (n - 1) * by) + by = init + n * by
    BY <1>1, <1>6
  <2>5. Wrapped(v[n - 1] + by) = Wrapped((init + (n - 1) * by) + by)
    BY <1>1, <2>2, <2>4, WrapsOnce
  <2> QED
    BY <1>6, <2>3, <2>4, <2>5
<1> QED
  BY <1>7, <1>8

LEMMA InvPhiIsProduct == IInv => PhiIsProduct
<1> SUFFICES ASSUME IInv, NEW i \in DOMAIN reduced, f.phi[reduced[i].of].inc.step = 1,
                    NEW k \in 0..Turns
             PROVE  NewPhi(i)[k] = Product(i, k)
  BY DEF PhiIsProduct
<1> DEFINE start == f.phi[reduced[i].of].start
           by == f.instr[i].by
<1>1. reduced[i] \in Reductions /\ f \in Functions
  BY DEF IInv, TypeOK
<1>2. /\ reduced[i].init = Wrapped(start * by) /\ reduced[i].by = by
      /\ start # Unknown
  BY DEF IInv, ReducedFrom, Counts
<1>3. reduced[i].of \in Phis /\ reduced[i].init \in Consts /\ by \in Consts
  BY <1>1, <1>2 DEF Reductions
<1>4. start \in Int /\ by \in Int /\ k \in Int
  <2>1. start \in Consts
    BY <1>1, <1>2, <1>3, Shape DEF Operands
  <2>2. k \in Int
    BY TurnsAssumption
  <2>3. start \in Int /\ by \in Int
    BY <1>3, <2>1, ConstsAreInt
  <2> QED
    BY <2>2, <2>3
<1>5. NewPhi(i)[k] = Wrapped(Wrapped(start * by) + k * by)
  BY <1>2, <1>3, NewPhiValue
<1>6. Product(i, k) = Wrapped(Wrapped(start + k * 1) * by)
  BY DEF Product, Value
<1> HIDE DEF start, by
<1>7. start * by \in Int /\ k * by \in Int /\ start + k * 1 \in Int
      /\ start * by + k * by = (start + k * 1) * by
  BY <1>4
<1>8. Wrapped(Wrapped(start * by) + k * by) = Wrapped(start * by + k * by)
  BY <1>7, WrapsOnce
<1>9. Wrapped(Wrapped(start + k * 1) * by) = Wrapped((start + k * 1) * by)
  BY <1>4, <1>7, WrapsOnce
<1> QED
  BY <1>5, <1>6, <1>7, <1>8, <1>9

------------------------------------------------------------------------------
(* Theorems *)

\* The pass keeps its data well formed on every function: it reduces users of
\* the phis only, and the constants it computes stay in their width.
THEOREM TypeCorrect == Spec => []TypeOK
<1>1. IInv => TypeOK
  BY DEF IInv
<1> QED
  BY <1>1, InitInv, NextInv, PTL DEF Spec

\* In whatever order the set has the phis, the products that are replaced are
\* the multiples by constants, computed in the loop, of the variables that count.
THEOREM ReducesTheMultiples == Spec => []ReducesExactly
BY InitInv, NextInv, InvReducesExactly, PTL DEF Spec

\* The phi that is made for a product is that product in every turn of the
\* loop, for integers of any width and past it.
THEOREM PhiFollowsProduct == Spec => []PhiIsProduct
BY InitInv, NextInv, InvPhiIsProduct, PTL DEF Spec

==============================================================================
