---------------------------- MODULE MCPassPipeline ----------------------------
(****************************************************************************)
(* Instances of PassPipeline: every pipeline of up to three elements, with  *)
(* loop(...) of one pass and of two.                                        *)
(****************************************************************************)
EXTENDS PassPipeline

LoopElements ==
  {<<p>> : p \in LoopPasses} \cup {<<"lllvm-loop-unswitching", "lllvm-licm">>}

MCElements == {<<p>> : p \in FunctionPasses} \cup LoopElements
MCPipelines == UNION {[1..n -> MCElements] : n \in 1..3}

PrintThenGVNPRE == {<<<<"lllvm-print-dom-tree">>, <<"lllvm-gvnpre">>>>}

==============================================================================
