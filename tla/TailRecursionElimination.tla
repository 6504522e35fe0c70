------------------------- MODULE TailRecursionElimination -------------------------
(****************************************************************************)
(* lib/Optimizations/TailRecursionElimination.cpp: find the first call that *)
(* is a tail call, move the allocas of the entry block to a new one, and    *)
(* jump from the call to the old entry block, where phis take the           *)
(* parameters' place.                                                       *)
(*                                                                          *)
(*   "scan" -> "allocas" -> "phis" -> "returned"                            *)
(*                                                                          *)
(* "undefined" is where the pass ends when it reads an operand or a         *)
(* parameter that is not there.                                             *)
(*                                                                          *)
(* The functions have one shape: parameter 1 is tested for 0, then the last *)
(* parameter is returned; otherwise parameter 2 selects one of the calls.   *)
(* A function is a record: entry, which instructions of the entry block are *)
(* allocas; and calls, in layout order: args; whether it is recursive; what *)
(* is next to it, a return of the call `itself', a return of `other', here  *)
(* the last parameter, a return of `void', or `nothing' of the kind, which  *)
(* comes to a return of the last parameter; and whether a pointer is passed *)
(* and an earlier pass has marked it as a tail call.                        *)
(* An argument is the value `of' a parameter, or of 0, `less' a constant.   *)
(****************************************************************************)
EXTENDS Integers, SequencesExt

CONSTANTS
  P,          \* number of parameters
  Modulus,    \* the values are 0..Modulus-1
  Functions,  \* the functions the pass is run on
  Fuel        \* bound: the depth of the recursions the results are compared on

Params == 1..P
Numbers == 0..(Modulus - 1)
Inputs == [Params -> Numbers]
Arguments == [of : 0..P, less : Numbers]

WellFormed(g) ==
  /\ g.entry \in Seq(BOOLEAN)
  /\ g.calls \in Seq([args : Seq(Arguments), recursive : BOOLEAN, pointer : BOOLEAN,
                      next : {"itself", "other", "void", "nothing"}, tail : BOOLEAN])
  /\ \A k \in 1..Len(g.calls) :
       IF g.calls[k].recursive THEN Len(g.calls[k].args) = P ELSE Len(g.calls[k].args) > 0

ASSUME ParamsAssumption == P \in Nat /\ P > 1 /\ Modulus \in Nat \ {0} /\ Fuel \in Nat
ASSUME FunctionsAssumption == \A g \in Functions : WellFormed(g) /\ g.calls # << >>

VARIABLES
  f,               \* the function as it was
  stage,
  call,            \* the call the scan is at, or that is eliminated
  newEntry,        \* the allocas of the new entry block, by their old places
  oldEntry,        \* what is left of the old one
  I,               \* the place in oldEntry of the iterator
  param, arg,      \* the parameter and the argument the last loop is at
  phis,            \* phi n of the old entry block, value P + n: its values from
                   \* the new entry block and from the call
  use,             \* what the uses of each parameter are now uses of
  operands             \* the arguments of the calls now

elimVars == <<f, stage, call, newEntry, oldEntry, I, param, arg, phis, use, operands>>

scanned == <<f, call>>
entries == <<newEntry, oldEntry, I>>
values == <<param, arg, phis, use, operands>>

ElimInit ==
  /\ f \in Functions
  /\ stage = "scan" /\ call = 1
  /\ newEntry = << >>
  /\ oldEntry = [k \in 1..Len(f.entry) |-> k]
  /\ I = 1
  /\ param = 1 /\ arg = 1 /\ phis = << >>
  /\ use = [p \in Params |-> p]
  /\ operands = [k \in 1..Len(f.calls) |-> f.calls[k].args]

------------------------------------------------------------------------------
(* run and markTailCall *)

Scanning == stage = "scan" /\ call <= Len(f.calls)

\* The definitions named X_... are X with a slip; the specification does not
\* use them.
IsTailCall_AnyReturn(c) == c.tail \/ (c.next # "nothing" /\ ~c.pointer)

\* No value that is returned has the type void.
IsTailCall(c) == c.tail \/ (c.next = "itself" /\ ~c.pointer)

\* `ret void' has no operand 0.
LoseReturn ==
  /\ Scanning /\ f.calls[call].next = "void"
  /\ stage' = "undefined"
  /\ UNCHANGED <<scanned, entries, values>>

NextCall ==
  /\ Scanning /\ f.calls[call].next # "void" /\ ~IsTailCall(f.calls[call])
  /\ call' = call + 1
  /\ UNCHANGED <<f, stage, entries, values>>

\* elimTailCall: the caller of a call is the function it is in, so the test for
\* recursion lets every call pass.
StartElim ==
  /\ Scanning /\ f.calls[call].next # "void" /\ IsTailCall(f.calls[call])
  /\ stage' = "allocas"
  /\ UNCHANGED <<scanned, entries, values>>

NoTailCall ==
  /\ stage = "scan" /\ call > Len(f.calls)
  /\ stage' = "returned"
  /\ UNCHANGED <<scanned, entries, values>>

------------------------------------------------------------------------------
(* elimTailCall *)

IsAlloca(k) == f.entry[k]

After_Twice(n) == n + 2

\* Where the iterator is, in what is left, when an alloca at place n is gone:
\* it steps over the alloca and over what follows it.
After(n) == n + 1

MoveAlloca ==
  /\ stage = "allocas" /\ I <= Len(oldEntry) /\ IsAlloca(oldEntry[I])
  /\ newEntry' = Append(newEntry, oldEntry[I])
  /\ oldEntry' = RemoveAt(oldEntry, I)
  /\ I' = After(I)
  /\ UNCHANGED <<scanned, stage, values>>

KeepInstr ==
  /\ stage = "allocas" /\ I <= Len(oldEntry) /\ ~IsAlloca(oldEntry[I])
  /\ I' = I + 1
  /\ UNCHANGED <<scanned, stage, newEntry, oldEntry, values>>

StartPhis ==
  /\ stage = "allocas" /\ I > Len(oldEntry)
  /\ stage' = "phis"
  /\ UNCHANGED <<scanned, entries, values>>

IsParam(a) == param \in Params /\ a = [of |-> param, less |-> 0]

\* `continue': the parameter stays where it is.
PassOn ==
  /\ stage = "phis" /\ arg <= Len(operands[call]) /\ IsParam(operands[call][arg])
  /\ arg' = arg + 1
  /\ UNCHANGED <<scanned, stage, entries, param, phis, use, operands>>

Replaced(a, v, w) == IF a.of = v THEN [a EXCEPT !.of = w] ELSE a

\* replaceAllUsesWith comes before the phi gets its values, and reaches the
\* values of the phis made before it.
MakePhi ==
  /\ stage = "phis" /\ arg <= Len(operands[call]) /\ ~IsParam(operands[call][arg])
  /\ param \in Params
  /\ LET phi == P + Len(phis) + 1
         New(a) == Replaced(a, param, phi)
         newArgs == [k \in 1..Len(operands) |->
                      [n \in 1..Len(operands[k]) |-> New(operands[k][n])]]
         newPhis == [n \in 1..Len(phis) |-> [entry |-> New(phis[n].entry),
                                              back |-> New(phis[n].back)]]
     IN  /\ operands' = newArgs
         /\ use' = [p \in Params |-> IF use[p] = param THEN phi ELSE use[p]]
         /\ phis' = Append(newPhis, [entry |-> [of |-> param, less |-> 0],
                                     back |-> newArgs[call][arg]])
  /\ param' = param + 1
  /\ arg' = arg + 1
  /\ UNCHANGED <<scanned, stage, entries>>

\* A call of another function with more arguments than there are parameters.
LoseParam ==
  /\ stage = "phis" /\ arg <= Len(operands[call]) /\ param \notin Params
  /\ stage' = "undefined"
  /\ UNCHANGED <<scanned, entries, values>>

\* The call is erased, and then the return that still uses it, which a build
\* without assertions survives.
FinishElim ==
  /\ stage = "phis" /\ arg > Len(operands[call])
  /\ stage' = "returned"
  /\ UNCHANGED <<scanned, entries, values>>

Stopped == stage \in {"returned", "undefined"} /\ UNCHANGED elimVars

ElimRun ==
  \/ LoseReturn \/ NextCall \/ StartElim \/ NoTailCall
  \/ MoveAlloca \/ KeepInstr \/ StartPhis
  \/ PassOn \/ MakePhi \/ LoseParam \/ FinishElim

ElimNext == ElimRun \/ Stopped

\* The pass is one thread that nothing blocks.
ElimSpec == ElimInit /\ [][ElimNext]_elimVars /\ WF_elimVars(ElimRun)

------------------------------------------------------------------------------
(* Executions *)

\* A phi used before it has a value, and a result that Fuel does not suffice for.
NoValue == Modulus
More == -1

\* The values there are: 0, the parameters, and the phis.
Env(x, ph) ==
  [v \in 0..(P + Len(ph)) |-> IF v = 0 THEN 0 ELSE IF v <= P THEN x[v] ELSE ph[v - P]]

Of(a, env) == IF env[a.of] = NoValue THEN NoValue ELSE (env[a.of] - a.less) % Modulus
Passed(args, env) == [k \in 1..Len(args) |-> Of(args[k], env)]

External(y) == 1000 + 100 * y[1] + y[Len(y)]

\* The call selected by the value v.
Selected(v) == IF v = 0 THEN Len(f.calls) ELSE 1

Then(c, result, last) == IF c.next = "itself" \/ result = More THEN result ELSE last

\* The results of the function as it was, from those of the calls it makes; and
\* the results within a depth of n.
FromCalls(result) ==
  [x \in Inputs |->
     LET c == f.calls[Selected(x[2])]
         y == Passed(c.args, Env(x, << >>))
     IN  IF x[1] = 0 THEN x[P]
         ELSE Then(c, IF c.recursive THEN result[y] ELSE External(y), x[P])]

Before[n \in 0..Fuel] ==
  IF n = 0 THEN [x \in Inputs |-> More] ELSE FromCalls(Before[n - 1])

\* The same of the function as it is.  A turn has the parameters x and the
\* values ph of the phis; Enter is the first one.
Turns == [x : [Params -> 0..Modulus], ph : [1..Len(phis) -> 0..Modulus]]

Enter(x) ==
  [x |-> x,
   ph |-> [n \in 1..Len(phis) |-> Of(phis[n].entry, Env(x, [m \in 1..Len(phis) |-> NoValue]))]]

FromTurns(result) ==
  [t \in Turns |->
     LET env == Env(t.x, t.ph)
         last == env[use[P]]
         k == Selected(env[use[2]])
         y == Passed(operands[k], env)
     IN  IF NoValue \in {env[use[1]], env[use[2]]} THEN NoValue
         ELSE IF env[use[1]] = 0 THEN last
         ELSE IF k = call
              THEN result[[x |-> t.x, ph |-> [n \in 1..Len(phis) |-> Of(phis[n].back, env)]]]
         ELSE Then(f.calls[k],
                   IF f.calls[k].recursive THEN result[Enter(y)] ELSE External(y),
                   last)]

Now[n \in 0..Fuel] ==
  IF n = 0 THEN [t \in Turns |-> More] ELSE FromTurns(Now[n - 1])

------------------------------------------------------------------------------
(* Properties *)

\* What the function computes is what it computed.
ResultsKept ==
  stage = "returned" => \A x \in Inputs : Now[Fuel][Enter(x)] = Before[Fuel][x]

\* A recursive call that no earlier pass has marked, with no parameter passed on
\* in its own place but the last.
CanEliminate(c) ==
  /\ c.recursive /\ ~c.tail
  /\ \A k \in 1..(P - 1) : c.args[k] # [of |-> k, less |-> 0]

\* When the call found is one of these, the loop computes what the recursion did,
\* however the arguments permute, combine and drop the parameters, with calls
\* that stay calls before and behind it; and no other return is taken for a
\* return of the call.
SameResults ==
  call \in 1..Len(f.calls) /\ CanEliminate(f.calls[call]) => ResultsKept

\* `Move allocas over to the header' (line 84): the stack does not grow from
\* turn to turn.  It does not hold: the loop steps over what follows an alloca.
AllocasMoved ==
  stage = "returned" /\ call <= Len(f.calls) =>
    ToSet(newEntry) = {k \in 1..Len(f.entry) : IsAlloca(k)}

\* Of a row of allocas the first is moved, and none but every other one stays;
\* what is moved and what stays keeps its order.
AllocasApartMove ==
  stage = "returned" /\ call <= Len(f.calls) =>
    /\ \A k \in ToSet(oldEntry) : IsAlloca(k) => k - 1 \in ToSet(newEntry)
    /\ \A k \in ToSet(newEntry) : IsAlloca(k)
    /\ \A s \in {newEntry, oldEntry} : \A m, n \in 1..Len(s) : m < n => s[m] < s[n]

==============================================================================
