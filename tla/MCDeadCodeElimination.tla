----------------------- MODULE MCDeadCodeElimination -----------------------
(****************************************************************************)
(* Instances of DeadCodeElimination.  Each function ends in a terminator,   *)
(* which has no users; the other instructions take at most two operands, in *)
(* any direction: phis close cycles.  At most one of them has effects.      *)
(****************************************************************************)
EXTENDS DeadCodeElimination, FiniteSets

CONSTANTS Orders   \* the layouts to try

FunctionsOver(order) ==
  LET term == order[Len(order)]
      body == {order[k] : k \in 1..(Len(order) - 1)}
      few(n) == {S \in SUBSET body : Cardinality(S) <= n}
  IN  {[order |-> order,
        operands |-> [a \in Addrs |->
                        IF a \in body THEN o[a] ELSE IF a = term THEN t ELSE {}],
        terminators |-> {term}, effects |-> e] :
         o \in [body -> few(2)], t \in few(1), e \in few(1)}

MCFunctions == {g \in UNION {FunctionsOver(order) : order \in Orders} : TRUE}

\* Two functions at a time: one of four instructions, and one of two elsewhere.
ApartOrders == {<<1, 2, 3, 4>>, <<5, 6>>}

\* Small functions whose instructions share addresses.
SharedOrders == {<<1, 2, 3>>, <<2, 1, 3>>, <<1, 3>>}

==============================================================================
