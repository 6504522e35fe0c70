------------------------ MODULE DominatorTreeContract ------------------------
(****************************************************************************)
(* What DominatorTreeAnalysis promises to the passes that ask for its       *)
(* result: it answers, once, and the answer is the tree of the function's   *)
(* graph as it was when the analysis was asked.                             *)
(****************************************************************************)
EXTENDS ControlFlow

CONSTANT Graphs     \* the graphs of the functions the analysis is run on

VARIABLES succ,      \* the graph
          answered,  \* run has returned
          answer     \* its result

vars == <<succ, answered, answer>>

Init == succ \in Graphs /\ answered = FALSE /\ answer = {}

Publish ==
  /\ ~answered
  /\ answered' = TRUE
  /\ answer' = TreeEdges(succ)
  /\ UNCHANGED succ

Next == Publish

Spec == Init /\ [][Next]_vars /\ WF_vars(Next)

==============================================================================
