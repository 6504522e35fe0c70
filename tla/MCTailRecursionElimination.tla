------------------------ MODULE MCTailRecursionElimination ------------------------
(****************************************************************************)
(* Instances of TailRecursionElimination: three parameters over 0..2, one   *)
(* or two calls, and entry blocks with and without allocas side by side.    *)
(****************************************************************************)
EXTENDS TailRecursionElimination

Arg(of, less) == [of |-> of, less |-> less]

Call(args, recursive, next, tail) ==
  [args |-> args, recursive |-> recursive, pointer |-> FALSE, next |-> next, tail |-> tail]

TailCalls == {Call(<<a, b, c>>, TRUE, "itself", FALSE) :
                a \in {Arg(1, 1), Arg(2, 0), Arg(3, 0), Arg(1, 0)},
                b \in {Arg(0, 1), Arg(1, 0), Arg(2, 0), Arg(3, 1)},
                c \in {Arg(1, 1), Arg(2, 0), Arg(3, 0)}}

Inner == Call(<<Arg(1, 1), Arg(3, 0), Arg(2, 1)>>, TRUE, "other", FALSE)
WithPointer == [Inner EXCEPT !.pointer = TRUE, !.next = "itself"]
Foreign(next, tail) == Call(<<Arg(3, 0), Arg(1, 0)>>, FALSE, next, tail)

\* What stands in layout order before the call, and behind it.
Rows(c) ==
  {<<c>>, <<Inner, c>>, <<c, Inner>>, <<WithPointer, c>>, <<Foreign("nothing", FALSE), c>>,
   <<c, Call(<<Arg(1, 1), Arg(1, 0), Arg(3, 2)>>, TRUE, "itself", FALSE)>>}

Function(calls, entry) == [calls |-> calls, entry |-> entry]

\* Functions with a call that is no tail call, or not one of this function, or
\* in front of a `ret void'.
OtherFunctions ==
  {Function(calls, <<TRUE>>) :
     calls \in {<<Inner>>, <<WithPointer, Inner>>, <<[Inner EXCEPT !.next = "void"]>>,
                <<Foreign("itself", FALSE)>>, <<Foreign("nothing", TRUE)>>,
                <<Call(<<Arg(1, 1), Arg(2, 0), Arg(3, 0), Arg(2, 0)>>, FALSE, "itself", FALSE)>>,
                <<Call(<<Arg(3, 0), Arg(3, 1), Arg(1, 0), Arg(2, 0)>>, FALSE, "itself", FALSE)>>}}

MCFunctions ==
  OtherFunctions
  \cup {Function(calls, <<TRUE, FALSE>>) : calls \in UNION {Rows(c) : c \in TailCalls}}
  \cup {Function(<<Call(<<Arg(1, 1), Arg(3, 0), Arg(2, 0)>>, TRUE, "itself", FALSE)>>, entry) :
          entry \in UNION {[1..n -> BOOLEAN] : n \in 0..5}}

\* A tail call of another function.
ForeignTail == {Function(<<Foreign("itself", FALSE)>>, << >>)}

\* A recursive call that passes the first parameter on.
PassesOn == {Function(<<Call(<<Arg(1, 0), Arg(2, 1), Arg(2, 1)>>, TRUE, "itself", FALSE)>>, << >>)}

\* Two allocas side by side.
RowOfAllocas == {Function(<<Call(<<Arg(1, 1), Arg(3, 0), Arg(2, 0)>>, TRUE, "itself", FALSE)>>,
                          <<TRUE, TRUE>>)}

Unsupported == ForeignTail \cup PassesOn \cup RowOfAllocas

==============================================================================
