----------------------------- MODULE PassPipeline -----------------------------
(****************************************************************************)
(* What lib/PassRegistration.cpp puts together: a pipeline of the plugin's  *)
(* passes, run on one function after the other, and the results of analyses *)
(* that LLVM's managers keep between the passes.                            *)
(*                                                                          *)
(* A pipeline is a sequence of elements; an element is a tuple of pass      *)
(* names: one function pass, or the loop passes of one loop(...).  What a   *)
(* pass does inside is in the modules of the passes; here it asks for       *)
(* analyses, it may change the graph of the function, and it says whether   *)
(* the analyses are preserved.                                              *)
(*                                                                          *)
(*   "between" -> "split" -> "ask" -> "work" -> "return" -> "between"       *)
(*   "between" -> "simplify" -> "loops" -> "return" -> "between"            *)
(*                                                                          *)
(* A graph is the number of times it was changed, and a cached analysis the *)
(* number of the graph it was computed from.                                *)
(****************************************************************************)
EXTENDS Integers, Sequences

CONSTANTS
  ModuleFunctions,   \* the functions of the module
  Pipelines,   \* the pipelines opt may be given
  MaxLoops     \* bound: the loops of a function

\* The names the two pipeline callbacks know.
FunctionPasses ==
  {"lllvm-cse", "lllvm-dce", "lllvm-gvnpre", "lllvm-sccp", "lllvm-tre", "lllvm-print-dom-tree"}
LoopPasses == {"lllvm-licm", "lllvm-loop-strength-reduction", "lllvm-loop-unswitching"}

\* LoopInfo and PostDominatorTree are LLVM's own.
Analyses == {"DominatorTree", "PostDominatorTree", "LoopInfo"}
Absent == -1

PipelineElements == {<<p>> : p \in FunctionPasses} \cup (Seq(LoopPasses) \ {<< >>})

ASSUME PipelinesAssumption == Pipelines \subseteq Seq(PipelineElements)
ASSUME MaxLoopsAssumption == MaxLoops \in Nat

VARIABLES
  pipeline,
  todo, F,     \* the functions still to come, and the one at hand
  at,          \* the number of the element at hand
  step,
  graph,       \* graph[f]
  cache,       \* cache[f][a], what the analysis manager holds
  used,        \* the results the element at hand holds references to
  left,        \* the loop passes still to be run, loop by loop
  met          \* the pairs <<object, function>>: a pass object was run on it

pipelineVars == <<pipeline, todo, F, at, step, graph, cache, used, left, met>>

Nothing == [a \in Analyses |-> Absent]

PipelineInit ==
  /\ pipeline \in Pipelines
  /\ F \in ModuleFunctions /\ todo = ModuleFunctions \ {F}
  /\ at = 1 /\ step = "between"
  /\ graph = [f \in ModuleFunctions |-> 0]
  /\ cache = [f \in ModuleFunctions |-> Nothing]
  /\ used = Nothing
  /\ left = << >>
  /\ met = {}

Running == at \in 1..Len(pipeline)
Element == pipeline[at]
Is(name) == Element = << name >>
IsFunctionPass == \E name \in FunctionPasses : Is(name)

\* The definitions named X_... are X with a slip; the specification does not
\* use them.
ObjectsOf_ByName(k) == {CHOOSE n \in 1..k : /\ pipeline[n] = pipeline[k]
                                            /\ \A m \in 1..(n - 1) : pipeline[m] # pipeline[k]}
                         \X (1..Len(pipeline[k]))

\* addPass(XPass()): each mention has objects of its own, known by their place.
ObjectsOf(k) == {k} \X (1..Len(pipeline[k]))

Start ==
  /\ step = "between" /\ Running
  /\ met' = met \cup (ObjectsOf(at) \X {F})
  /\ step' = IF ~IsFunctionPass THEN "simplify"
             ELSE IF Is("lllvm-gvnpre") THEN "split" ELSE "ask"
  /\ UNCHANGED <<pipeline, todo, F, at, graph, cache, used, left>>

Changed == [graph EXCEPT ![F] = @ + 1]

\* removeCriticalEdges comes before the trees are asked for.
SplitEdges ==
  /\ step = "split"
  /\ graph' \in {graph, Changed}
  /\ step' = "ask"
  /\ UNCHANGED <<pipeline, todo, F, at, cache, used, left, met>>

Asked ==
  CASE Is("lllvm-gvnpre") -> {"DominatorTree", "PostDominatorTree"}
    [] Is("lllvm-cse") \/ Is("lllvm-print-dom-tree") -> {"DominatorTree"}
    [] OTHER -> {}

\* getResult: what the cache does not have is computed and put there.
Held(as) ==
  [a \in Analyses |-> IF a \in as /\ cache[F][a] = Absent THEN graph[F] ELSE cache[F][a]]

Ask ==
  /\ step = "ask"
  /\ cache' = [cache EXCEPT ![F] = Held(Asked)]
  /\ used' = [a \in Analyses |-> IF a \in Asked THEN Held(Asked)[a] ELSE Absent]
  /\ step' = "work"
  /\ UNCHANGED <<pipeline, todo, F, at, graph, left, met>>

\* Deleting blocks and folding branches, or jumping to a new entry, changes the
\* graph; the other passes change instructions only.
Work ==
  /\ step = "work"
  /\ graph' \in {graph} \cup (IF Is("lllvm-sccp") \/ Is("lllvm-tre") THEN {Changed} ELSE {})
  /\ step' = "return"
  /\ UNCHANGED <<pipeline, todo, F, at, cache, used, left, met>>

\* Before the loop passes LLVM simplifies the loops.  That keeps LoopInfo as
\* right as it was; the other analyses go when the graph is changed.
Simplify ==
  /\ step = "simplify"
  /\ \E g \in {graph, Changed}, n \in 0..MaxLoops :
       LET known == Held({"LoopInfo"})["LoopInfo"]
           loops == IF known = graph[F] THEN g[F] ELSE known
       IN  /\ graph' = g
           /\ cache' = [cache EXCEPT ![F] =
                          [a \in Analyses |->
                             IF a = "LoopInfo" THEN loops ELSE IF g = graph THEN @[a] ELSE Absent]]
           /\ used' = [Nothing EXCEPT !["LoopInfo"] = loops]
           /\ left' = [k \in 1..(n * Len(Element)) |-> Element[((k - 1) % Len(Element)) + 1]]
           /\ step' = IF n = 0 THEN "return" ELSE "loops"
  /\ UNCHANGED <<pipeline, todo, F, at, met>>

\* One loop pass on one loop.  Unswitching makes blocks that LoopInfo does not
\* get to know.
RunOnLoop ==
  /\ step = "loops" /\ left # << >>
  /\ graph' \in {graph} \cup (IF Head(left) = "lllvm-loop-unswitching" THEN {Changed} ELSE {})
  /\ left' = Tail(left)
  /\ UNCHANGED <<pipeline, todo, F, at, step, cache, used, met>>

\* Loop passes return none() as well, but they are bound to keep LoopInfo right,
\* and it stays.
ReturnLoops ==
  /\ step = "loops" /\ left = << >>
  /\ cache' = [cache EXCEPT ![F] = [Nothing EXCEPT !["LoopInfo"] = cache[F]["LoopInfo"]]]
  /\ used' = Nothing
  /\ at' = at + 1 /\ step' = "between"
  /\ UNCHANGED <<pipeline, todo, F, graph, left, met>>

Preserves_EdgesCut == \E p \in {"lllvm-print-dom-tree", "lllvm-gvnpre"} : Is(p)
Preserves_ReadOnly == Is("lllvm-print-dom-tree") \/ Is("lllvm-cse") \/ ~IsFunctionPass

\* Only the printer returns all(); loop passes that met no loop return nothing.
Preserves == Is("lllvm-print-dom-tree") \/ ~IsFunctionPass

ReturnPass ==
  /\ step = "return"
  /\ cache' = IF Preserves THEN cache ELSE [cache EXCEPT ![F] = Nothing]
  /\ used' = Nothing
  /\ at' = at + 1 /\ step' = "between"
  /\ UNCHANGED <<pipeline, todo, F, graph, left, met>>

NextFunction ==
  /\ step = "between" /\ ~Running
  /\ \E f \in todo : F' = f /\ todo' = todo \ {f}
  /\ at' = 1
  /\ UNCHANGED <<pipeline, step, graph, cache, used, left, met>>

LeaveModule ==
  /\ step = "between" /\ ~Running /\ todo = {}
  /\ step' = "done"
  /\ UNCHANGED <<pipeline, todo, F, at, graph, cache, used, left, met>>

Done == step = "done" /\ UNCHANGED pipelineVars

PipelineNext ==
  \/ Start \/ SplitEdges \/ Ask \/ Work \/ ReturnPass
  \/ Simplify \/ RunOnLoop \/ ReturnLoops
  \/ NextFunction \/ LeaveModule
  \/ Done

PipelineSpec == PipelineInit /\ [][PipelineNext]_pipelineVars

------------------------------------------------------------------------------
(* Properties *)

Fits(f, a) == cache[f][a] \in {Absent, graph[f]}

\* What CSE, GVNPRE and the printer are built on: between two elements of a
\* pipeline no dominator tree and no post-dominator tree is kept that is not
\* that of the function as it is, whatever was run before.
CachedTreesFit ==
  step \in {"between", "done"} =>
    \A f \in ModuleFunctions : Fits(f, "DominatorTree") /\ Fits(f, "PostDominatorTree")

\* Since element k there were only elements that may keep what is cached.
OnlyKeepersSince(k) ==
  \A j \in (k + 1)..(at - 1) : pipeline[j] = << "lllvm-print-dom-tree" >>
                                \/ pipeline[j] \in Seq(LoopPasses)

PrintedBefore ==
  \E k \in 1..(at - 1) : pipeline[k] = << "lllvm-print-dom-tree" >> /\ OnlyKeepersSince(k)

UnswitchedBefore ==
  \E k \in 1..at : /\ \E n \in DOMAIN pipeline[k] : pipeline[k][n] = "lllvm-loop-unswitching"
                   /\ OnlyKeepersSince(k)

\* A pass works on analyses of the graph it works on.  GVNPRE cuts edges before
\* it asks, so behind the printer its tree may be an old one; and loop passes
\* behind unswitching may see old loops.  There is no third way.
WorksOnPresentGraph ==
  /\ step = "work" =>
       \A a \in Asked : \/ used[a] = graph[F]
                        \/ a = "DominatorTree" /\ Is("lllvm-gvnpre") /\ PrintedBefore
  /\ step = "loops" => used["LoopInfo"] = graph[F] \/ UnswitchedBefore

\* WorksOnPresentGraph without its exception for GVNPRE.
TreeIsPresent ==
  step = "work" /\ "DominatorTree" \in Asked => used["DominatorTree"] = graph[F]

\* Members that nobody clears (`used' of DCE, `BBExecutable' of SCCP) hold
\* addresses of other functions only: a pass object never comes to a function
\* that it was run on before.
ObjectsMeetOnce ==
  step = "between" /\ Running => (ObjectsOf(at) \X {F}) \cap met = {}

==============================================================================
