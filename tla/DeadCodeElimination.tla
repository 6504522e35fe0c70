------------------------ MODULE DeadCodeElimination ------------------------
(****************************************************************************)
(* lib/Optimizations/DeadCodeElimination.cpp: mark what the essential       *)
(* instructions need, erase the rest.                                       *)
(*                                                                          *)
(* The pass object lives as long as the pipeline (PassRegistration.cpp      *)
(* builds it once) and its members `used' and `worklist' are sets of        *)
(* addresses that no line clears, so what one run leaves is what the next   *)
(* one starts from.  Between two runs the object is "idle" and nothing but  *)
(* its members is left of the earlier one: the next function may be another *)
(* one, or the same one after other passes have changed it.                 *)
(*                                                                          *)
(*   "idle" -> "mark" -> "sweep" -> "returned" -> "idle"                    *)
(****************************************************************************)
EXTENDS Integers, Sequences

CONSTANTS
  Addrs,             \* addresses of instructions
  Functions,         \* the functions the pass is run on
  ReusesAddresses    \* an instruction may sit where an earlier one was freed

\* The instructions of a function in layout order, all blocks one after the
\* other; the operands of each that are instructions; the terminators, and the
\* instructions that may have side effects.
InstrsOf(g) == {g.order[k] : k \in 1..Len(g.order)}

\* isEssentialInstruction
Essential(g) == g.terminators \cup g.effects

WellFormed(g) ==
  /\ g.order \in Seq(Addrs)
  /\ g.operands \in [Addrs -> SUBSET InstrsOf(g)]
  /\ Essential(g) \subseteq InstrsOf(g)

ASSUME FunctionsAssumption == \A g \in Functions : WellFormed(g)
ASSUME ReuseAssumption == ReusesAddresses \in BOOLEAN

NoFunction == [order |-> << >>, operands |-> [a \in Addrs |-> {}],
               terminators |-> {}, effects |-> {}]

VARIABLES
  f,          \* the function the pass runs on
  phase,
  used,       \* member `used'
  worklist,   \* member `worklist'
  rest,       \* instructions the erasing loop has not come to
  kept        \* instructions it has passed and left in place

vars == <<f, phase, used, worklist, rest, kept>>

Init ==
  /\ f = NoFunction /\ phase = "idle"
  /\ used = {} /\ worklist = {}
  /\ rest = << >> /\ kept = {}

Remaining == kept \cup {rest[k] : k \in 1..Len(rest)}

------------------------------------------------------------------------------
\* run is called on g: the first loop collects the essential instructions.
Begin ==
  /\ phase = "idle"
  /\ phase' = "mark"
  /\ \E g \in Functions :
       /\ ReusesAddresses \/ InstrsOf(g) \cap used = {}
       /\ f' = g
       /\ worklist' = worklist \cup Essential(g)
       /\ rest' = g.order
  /\ kept' = {}
  /\ UNCHANGED used

\* The definitions named X_... are X with a slip; the specification does not
\* use them.
NewlyNeeded_Unchecked(v) == f.operands[v] \ Essential(f)
NewlyNeeded_None(v) == {o \in f.operands[v] : o \in Essential(f)}

\* The operands of v that the loop inserts; v is in `used' by then.
NewlyNeeded(v) == (f.operands[v] \ Essential(f)) \ (used \cup {v})

\* *worklist.begin() is whatever element the hash table has first.
Process(v) ==
  /\ phase = "mark" /\ v \in worklist
  /\ used' = used \cup {v}
  /\ worklist' = (worklist \ {v}) \cup NewlyNeeded(v)
  /\ UNCHANGED <<f, phase, rest, kept>>

StartSweep ==
  /\ phase = "mark" /\ worklist = {}
  /\ phase' = "sweep"
  /\ UNCHANGED <<f, used, worklist, rest, kept>>

Unused_OnlyEssential(a) == a \notin Essential(f)

Unused(a) == a \notin used

EraseNext ==
  /\ phase = "sweep" /\ rest # << >> /\ Unused(Head(rest))
  /\ rest' = Tail(rest)
  /\ UNCHANGED <<f, phase, used, worklist, kept>>

KeepNext ==
  /\ phase = "sweep" /\ rest # << >> /\ ~Unused(Head(rest))
  /\ rest' = Tail(rest)
  /\ kept' = kept \cup {Head(rest)}
  /\ UNCHANGED <<f, phase, used, worklist>>

Return ==
  /\ phase = "sweep" /\ rest = << >>
  /\ phase' = "returned"
  /\ UNCHANGED <<f, used, worklist, rest, kept>>

\* The pass manager is done with the function; the pass object stays.
Leave ==
  /\ phase = "returned"
  /\ phase' = "idle"
  /\ f' = NoFunction
  /\ kept' = {}
  /\ UNCHANGED <<used, worklist, rest>>

\* The pipeline ends, or has no further function the environment allows.
Stopped == phase = "idle" /\ UNCHANGED vars

Run ==
  \/ \E v \in worklist : Process(v)
  \/ StartSweep
  \/ EraseNext
  \/ KeepNext
  \/ Return

Next ==
  \/ Begin
  \/ Run
  \/ Leave
  \/ Stopped

\* The pass is one thread that nothing blocks; nobody has to call it.
Spec == Init /\ [][Next]_vars /\ WF_vars(Run)

------------------------------------------------------------------------------
(* Properties *)

\* Every variable is in range, and the worklist member, which no line clears,
\* is empty whenever run is not in its marking loop.
TypeOK ==
  /\ WellFormed(f)
  /\ phase \in {"idle", "mark", "sweep", "returned"}
  /\ used \subseteq Addrs
  /\ worklist \subseteq Addrs
  /\ rest \in Seq(Addrs)
  /\ kept \subseteq Addrs
  /\ phase # "mark" => worklist = {}

\* What the essential instructions of g need: the least set that holds them and
\* the operands of its members.
Needed(g) ==
  {a \in InstrsOf(g) :
     \A S \in SUBSET InstrsOf(g) :
       /\ Essential(g) \subseteq S
       /\ \A i \in S : g.operands[i] \subseteq S
       => a \in S}

\* When no address is reused, run leaves exactly the needed instructions: none
\* too few, so no survivor has lost an operand, and no dead phi cycle besides.
SurvivorsExact == phase = "returned" => kept = Needed(f)

\* `Elimates all instructions that are unused' (line 1).
EliminatesUnused == phase = "returned" => kept \subseteq Needed(f)

\* The sweep erases a definition before the users below it.  Whenever it does,
\* the users that are left are all still to come and all doomed themselves:
\* for good, no operand dangles.
ErasesOnlyBeforeDoomedUsers ==
  [][\A a \in Remaining \ Remaining' :
       phase = "sweep" =>
         \A u \in Remaining' : a \in f.operands[u] => u \notin kept /\ u \notin used]_vars

\* Marking ends although operands form cycles through phis, and so does run.
Returns == phase = "mark" ~> phase = "returned"

==============================================================================
