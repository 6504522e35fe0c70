---------------------------- MODULE PassObjectProofs ----------------------------
(****************************************************************************)
(* Pass objects: what they find when the pipeline calls them, and what the  *)
(* first call does to that of LICM.                                         *)
(*                                                                          *)
(* Whatever passes a pipeline of the plugin has and however long it is, the *)
(* trees that stay between passes are those of the function as it is, and a *)
(* pass works on old ones in the two known cases only.  And whatever order  *)
(* the hash table of LICM has, its first run hoists what is invariant, with *)
(* every definition in front of its uses.                                   *)
(****************************************************************************)
EXTENDS PassPipeline, LICM, DominanceTheorems

ItsPasses == {Element[m] : m \in DOMAIN Element}

TypeOK ==
  /\ pipeline \in Seq(PipelineElements)
  /\ F \in ModuleFunctions /\ todo \subseteq ModuleFunctions \ {F}
  /\ at \in Nat \ {0}
  /\ step \in {"between", "split", "ask", "work", "simplify", "loops", "return", "done"}
  /\ step \notin {"between", "done"} => Running
  /\ step \in {"split", "ask", "work"} => IsFunctionPass
  /\ step \in {"simplify", "loops"} => ~IsFunctionPass
  /\ step = "split" => Is("lllvm-gvnpre")
  /\ graph \in [ModuleFunctions -> Nat]
  /\ cache \in [ModuleFunctions -> [Analyses -> Int]]
  /\ used \in [Analyses -> Int]
  /\ step = "loops" => left \in Seq(ItsPasses)

TreesFit(fn) == Fits(fn, "DominatorTree") /\ Fits(fn, "PostDominatorTree")

\* The trees of the function at hand may be old only while a pass is at work
\* that drops them when it returns.
Coherent ==
  /\ \A fn \in ModuleFunctions \ {F} : TreesFit(fn)
  /\ \/ TreesFit(F)
     \/ step \in {"ask", "work"} /\ (Is("lllvm-gvnpre") \/ Is("lllvm-sccp") \/ Is("lllvm-tre"))
     \/ step = "return" /\ ~Preserves
     \/ step = "loops"

\* Nothing is known of the functions still to come, and no object has met them;
\* the objects that met this one are behind in the pipeline.
Fresh ==
  /\ \A fn \in todo : cache[fn] = Nothing
  /\ \A p \in met : p[2] \notin todo
  /\ \A p \in met : p[2] = F => /\ p[1][1] \in Nat
                                /\ p[1][1] < at \/ (p[1][1] = at /\ step # "between")

UnswitchedSoFar(n) ==
  \E k \in 1..n : /\ \E m \in DOMAIN pipeline[k] : pipeline[k][m] = "lllvm-loop-unswitching"
                  /\ OnlyKeepersSince(k)

LoopsFitOr(n) == Fits(F, "LoopInfo") \/ UnswitchedSoFar(n)

\* Where what is in the cache comes from.
Sources ==
  /\ step \notin {"work", "return"} => cache[F]["PostDominatorTree"] = Absent
  /\ step = "work" /\ Is("lllvm-print-dom-tree") => cache[F]["PostDominatorTree"] = Absent
  /\ step = "return" /\ Preserves => cache[F]["PostDominatorTree"] = Absent
  /\ step \in {"between", "split", "ask", "simplify"} =>
       cache[F]["DominatorTree"] = Absent \/ PrintedBefore
  /\ step = "return" /\ Preserves =>
       Is("lllvm-print-dom-tree") \/ cache[F]["DominatorTree"] = Absent \/ PrintedBefore
  /\ step \in {"between", "simplify"} => LoopsFitOr(at - 1)
  /\ step \in {"ask", "work"} /\ Is("lllvm-print-dom-tree") => LoopsFitOr(at - 1)
  /\ step = "return" /\ Preserves => LoopsFitOr(at - 1)
  /\ step = "loops" => LoopsFitOr(at) /\ used["LoopInfo"] = cache[F]["LoopInfo"]
                       /\ used["LoopInfo"] # Absent

IInv == TypeOK /\ Coherent /\ Fresh /\ Sources /\ WorksOnPresentGraph

------------------------------------------------------------------------------
(* The element at hand *)

LEMMA OneName ==
  ASSUME NEW p, NEW q, Is(p), Is(q)
  PROVE  p = q
BY DEF Is

LEMMA ElementOfPipeline ==
  ASSUME TypeOK, Running
  PROVE  /\ Element \in PipelineElements
         /\ ~IsFunctionPass => Element \in Seq(LoopPasses)
<1>1. Element \in PipelineElements
  BY DEF TypeOK, Running, Element
<1>2. ASSUME NEW p \in FunctionPasses, Element = << p >>
      PROVE  IsFunctionPass
  BY <1>2 DEF IsFunctionPass, Is
<1>3. QED
  BY <1>1, <1>2 DEF PipelineElements

LEMMA AskedAnalyses == Asked \subseteq Analyses
BY DEF Asked, Analyses

LEMMA HeldType ==
  ASSUME TypeOK, NEW as
  PROVE  Held(as) \in [Analyses -> Int]
<1>1. graph[F] \in Int /\ \A a \in Analyses : cache[F][a] \in Int
  BY DEF TypeOK
<1>2. QED
  BY <1>1 DEF Held

\* A keeper that is left behind does not hide what is behind it.
LEMMA KeeperPassed ==
  ASSUME TypeOK, Running, at' = at + 1, pipeline' = pipeline,
         Is("lllvm-print-dom-tree") \/ ~IsFunctionPass
  PROVE  /\ PrintedBefore => PrintedBefore'
         /\ Is("lllvm-print-dom-tree") => PrintedBefore'
         /\ UnswitchedSoFar(at - 1) => UnswitchedSoFar(at - 1)'
         /\ UnswitchedSoFar(at) => UnswitchedSoFar(at - 1)'
<1>1. at \in Nat \ {0} /\ at' - 1 = at
  BY DEF TypeOK
<1>2. pipeline[at] = << "lllvm-print-dom-tree" >> \/ pipeline[at] \in Seq(LoopPasses)
  BY ElementOfPipeline DEF Is, Element
<1>3. ASSUME NEW k \in 1..at, OnlyKeepersSince(k)
      PROVE  OnlyKeepersSince(k)'
  BY <1>1, <1>2, <1>3 DEF OnlyKeepersSince
<1>4. PrintedBefore => PrintedBefore'
  <2> SUFFICES ASSUME NEW k \in 1..(at - 1), pipeline[k] = << "lllvm-print-dom-tree" >>,
                      OnlyKeepersSince(k)
               PROVE  PrintedBefore'
    BY DEF PrintedBefore
  <2>1. k \in 1..(at' - 1) /\ k \in 1..at
    BY <1>1
  <2>2. QED
    BY <2>1, <1>3 DEF PrintedBefore
<1>5. Is("lllvm-print-dom-tree") => PrintedBefore'
  <2>1. PICK k \in 1..at : k = at
    BY <1>1
  <2>2. OnlyKeepersSince(k)' /\ k \in 1..(at' - 1)
    BY <1>1, <2>1 DEF OnlyKeepersSince
  <2>3. Is("lllvm-print-dom-tree") => pipeline'[k] = << "lllvm-print-dom-tree" >>
    BY <2>1 DEF Is, Element
  <2>4. QED
    BY <2>2, <2>3 DEF PrintedBefore
<1>6. ASSUME NEW n \in {at - 1, at}, UnswitchedSoFar(n)
      PROVE  UnswitchedSoFar(at - 1)'
  <2>1. PICK k \in 1..n : /\ \E m \in DOMAIN pipeline[k] :
                               pipeline[k][m] = "lllvm-loop-unswitching"
                          /\ OnlyKeepersSince(k)
    BY <1>6 DEF UnswitchedSoFar
  <2>2. k \in 1..at /\ k \in 1..(at' - 1)
    BY <1>1
  <2>3. OnlyKeepersSince(k)' /\ pipeline'[k] = pipeline[k]
    BY <2>1, <2>2, <1>3
  <2>4. QED
    BY <2>1, <2>2, <2>3 DEF UnswitchedSoFar
<1>7. QED
  BY <1>4, <1>5, <1>6

\* Nothing about the past changes while the same element is at hand.
LEMMA SamePast ==
  ASSUME at' = at, pipeline' = pipeline
  PROVE  /\ PrintedBefore' <=> PrintedBefore
         /\ \A n : UnswitchedSoFar(n)' <=> UnswitchedSoFar(n)
         /\ Element' = Element /\ ItsPasses' = ItsPasses /\ Running' <=> Running
         /\ IsFunctionPass' <=> IsFunctionPass
         /\ Preserves' <=> Preserves
         /\ Asked' = Asked
         /\ \A p : Is(p)' <=> Is(p)
BY DEF PrintedBefore, UnswitchedSoFar, OnlyKeepersSince, Element, ItsPasses, Running,
       IsFunctionPass, Preserves, Asked, Is

LEMMA UnswitchedNow ==
  ASSUME TypeOK, UnswitchedSoFar(at - 1)
  PROVE  UnswitchedSoFar(at)
BY DEF TypeOK, UnswitchedSoFar

------------------------------------------------------------------------------
(* One lemma for each action *)

LEMMA InitInv == PipelineInit => IInv
<1> SUFFICES ASSUME PipelineInit PROVE IInv
  OBVIOUS
<1>1. TypeOK
  BY PipelinesAssumption DEF PipelineInit, TypeOK, Nothing, Absent
<1>2. \A fn \in ModuleFunctions : cache[fn] = Nothing
  BY DEF PipelineInit
<1>3. \A a \in Analyses : Nothing[a] = Absent
  BY DEF Nothing
<1>4. /\ "DominatorTree" \in Analyses /\ "PostDominatorTree" \in Analyses
      /\ "LoopInfo" \in Analyses
  BY DEF Analyses
<1>5. Coherent
  BY <1>1, <1>2, <1>3, <1>4 DEF Coherent, TreesFit, Fits, TypeOK
<1>6. Fresh
  BY <1>2 DEF PipelineInit, Fresh
<1>7. Sources
  BY <1>1, <1>2, <1>3, <1>4 DEF PipelineInit, Sources, TypeOK, LoopsFitOr, Fits
<1>8. WorksOnPresentGraph
  BY DEF PipelineInit, WorksOnPresentGraph
<1>9. QED
  BY <1>1, <1>5, <1>6, <1>7, <1>8 DEF IInv

LEMMA StartInv == IInv /\ Start => IInv'
<1> SUFFICES ASSUME IInv, Start PROVE IInv'
  OBVIOUS
<1>1. TypeOK /\ at' = at /\ pipeline' = pipeline /\ Running
  BY DEF IInv, Start
<1>2. UNCHANGED <<todo, F, graph, cache, used>> /\ step = "between"
      /\ step' \in {"simplify", "split", "ask"}
  BY DEF Start
<1>3. TypeOK'
  BY <1>1, <1>2, SamePast DEF Start, TypeOK
<1>4. Coherent'
  BY <1>2 DEF IInv, Coherent, TreesFit, Fits
<1>5. Fresh'
  <2>1. \A p \in met' \ met : p[2] = F /\ p[1][1] = at
    BY DEF Start, ObjectsOf
  <2>2. QED
    BY <1>1, <1>2, <2>1 DEF IInv, Fresh, TypeOK
<1>6. Sources'
  BY <1>1, <1>2, SamePast DEF IInv, Sources, LoopsFitOr, Fits
<1>7. WorksOnPresentGraph'
  BY <1>2 DEF WorksOnPresentGraph
<1>8. QED
  BY <1>3, <1>4, <1>5, <1>6, <1>7 DEF IInv

\* A change of the graph at hand leaves the other functions as they are.
LEMMA ChangedType ==
  ASSUME TypeOK
  PROVE  /\ Changed \in [ModuleFunctions -> Nat]
         /\ \A fn \in ModuleFunctions \ {F} : Changed[fn] = graph[fn]
BY DEF TypeOK, Changed

LEMMA SplitInv == IInv /\ SplitEdges => IInv'
<1> SUFFICES ASSUME IInv, SplitEdges PROVE IInv'
  OBVIOUS
<1>1. TypeOK /\ at' = at /\ pipeline' = pipeline /\ Is("lllvm-gvnpre")
  BY DEF IInv, SplitEdges, TypeOK
<1>2. UNCHANGED <<todo, F, cache, used, met>> /\ step = "split" /\ step' = "ask"
  BY DEF SplitEdges
<1>3. /\ graph' \in [ModuleFunctions -> Nat]
      /\ \A fn \in ModuleFunctions \ {F} : graph'[fn] = graph[fn]
  BY <1>1, ChangedType DEF SplitEdges, TypeOK
<1>4. TypeOK'
  BY <1>1, <1>2, <1>3, SamePast DEF TypeOK
<1>5. Coherent'
  BY <1>1, <1>2, <1>3, SamePast DEF IInv, Coherent, TreesFit, Fits, TypeOK
<1>6. Fresh'
  BY <1>1, <1>2 DEF IInv, Fresh
<1>7. Sources'
  <2>1. ~Is("lllvm-print-dom-tree")
    BY <1>1, OneName
  <2>2. QED
    BY <1>1, <1>2, <2>1, SamePast DEF IInv, Sources
<1>8. WorksOnPresentGraph'
  BY <1>2 DEF WorksOnPresentGraph
<1>9. QED
  BY <1>4, <1>5, <1>6, <1>7, <1>8 DEF IInv

LEMMA AskInv == IInv /\ Ask => IInv'
<1> SUFFICES ASSUME IInv, Ask PROVE IInv'
  OBVIOUS
<1> DEFINE held == Held(Asked)
<1>1. TypeOK /\ at' = at /\ pipeline' = pipeline
  BY DEF IInv, Ask
<1>2. UNCHANGED <<todo, F, graph, met>> /\ step = "ask" /\ step' = "work"
  BY DEF Ask
<1>3. held \in [Analyses -> Int] /\ F \in ModuleFunctions /\ graph[F] \in Nat
  BY <1>1, HeldType DEF TypeOK
<1>4. /\ cache' = [cache EXCEPT ![F] = held]
      /\ cache'[F] = held /\ \A fn \in ModuleFunctions \ {F} : cache'[fn] = cache[fn]
  BY <1>1, <1>3 DEF Ask, TypeOK
<1>5. \A a \in Asked : used'[a] = held[a]
  BY AskedAnalyses DEF Ask
<1>6. used' \in [Analyses -> Int]
  BY <1>3 DEF Ask, Absent
<1>7. \A a \in Analyses :
        held[a] = cache[F][a] \/ (held[a] = graph[F] /\ a \in Asked /\ cache[F][a] = Absent)
  BY DEF Held
<1>8. /\ "DominatorTree" \in Analyses /\ "PostDominatorTree" \in Analyses
      /\ "LoopInfo" \in Analyses
  BY DEF Analyses
<1>9. TypeOK'
  BY <1>1, <1>2, <1>3, <1>4, <1>6, SamePast DEF TypeOK
<1>10. Coherent'
  BY <1>1, <1>2, <1>4, <1>7, <1>8, SamePast DEF IInv, Coherent, TreesFit, Fits, TypeOK
<1>11. Fresh'
  BY <1>1, <1>2, <1>4 DEF IInv, Fresh, TypeOK
<1>12. Sources'
  <2>1. Is("lllvm-print-dom-tree") => "PostDominatorTree" \notin Asked
    BY OneName DEF Asked
  <2>2. QED
    BY <1>1, <1>2, <1>4, <1>7, <1>8, <2>1, SamePast DEF IInv, Sources, LoopsFitOr, Fits
<1>13. ASSUME NEW a \in Asked
       PROVE  held[a] = graph[F] \/ (a = "DominatorTree" /\ Is("lllvm-gvnpre") /\ PrintedBefore)
  <2>1. a \in {"DominatorTree", "PostDominatorTree"} /\ a \in Analyses
    BY AskedAnalyses DEF Asked
  <2>2. CASE cache[F][a] = Absent
    BY <2>1, <2>2 DEF Held
  <2>3. CASE cache[F][a] # Absent
    <3>1. held[a] = cache[F][a] /\ a = "DominatorTree" /\ PrintedBefore
      BY <1>2, <1>7, <2>1, <2>3 DEF IInv, Sources
    <3>2. TreesFit(F) \/ Is("lllvm-gvnpre") \/ Is("lllvm-sccp") \/ Is("lllvm-tre")
      BY <1>2 DEF IInv, Coherent
    <3>3. ~Is("lllvm-sccp") /\ ~Is("lllvm-tre")
      BY OneName DEF Asked
    <3>4. QED
      BY <3>1, <3>2, <3>3, <2>3 DEF TreesFit, Fits
  <2>4. QED
    BY <2>2, <2>3
<1>14. WorksOnPresentGraph'
  BY <1>1, <1>2, <1>5, <1>13, SamePast DEF WorksOnPresentGraph
<1>15. QED
  BY <1>9, <1>10, <1>11, <1>12, <1>14 DEF IInv

LEMMA WorkInv == IInv /\ Work => IInv'
<1> SUFFICES ASSUME IInv, Work PROVE IInv'
  OBVIOUS
<1>1. TypeOK /\ at' = at /\ pipeline' = pipeline /\ IsFunctionPass
  BY DEF IInv, Work, TypeOK
<1>2. UNCHANGED <<todo, F, cache, used, met>> /\ step = "work" /\ step' = "return"
  BY DEF Work
<1>3. /\ graph' \in [ModuleFunctions -> Nat]
      /\ \A fn \in ModuleFunctions \ {F} : graph'[fn] = graph[fn]
  BY <1>1, ChangedType DEF Work, TypeOK
<1>4. Preserves => Is("lllvm-print-dom-tree") /\ graph' = graph
  BY <1>1, OneName DEF Preserves, Work
<1>5. TypeOK'
  BY <1>1, <1>2, <1>3, SamePast DEF TypeOK
<1>6. Coherent'
  <2>1. CASE Preserves
    <3>1. ~Is("lllvm-gvnpre") /\ ~Is("lllvm-sccp") /\ ~Is("lllvm-tre")
      BY <1>4, <2>1, OneName
    <3>2. QED
      BY <1>2, <1>4, <2>1, <3>1 DEF IInv, Coherent, TreesFit, Fits
  <2>2. CASE ~Preserves
    BY <1>1, <1>2, <1>3, <2>2, SamePast DEF IInv, Coherent, TreesFit, Fits, TypeOK
  <2>3. QED
    BY <2>1, <2>2
<1>7. Fresh'
  BY <1>1, <1>2 DEF IInv, Fresh
<1>8. Sources'
  BY <1>1, <1>2, <1>4, SamePast DEF IInv, Sources, LoopsFitOr, Fits
<1>9. WorksOnPresentGraph'
  BY <1>2 DEF WorksOnPresentGraph
<1>10. QED
  BY <1>5, <1>6, <1>7, <1>8, <1>9 DEF IInv

LEMMA ReturnPassInv == IInv /\ ReturnPass => IInv'
<1> SUFFICES ASSUME IInv, ReturnPass PROVE IInv'
  OBVIOUS
<1>1. TypeOK /\ at' = at + 1 /\ pipeline' = pipeline /\ Running
  BY DEF IInv, ReturnPass, TypeOK
<1>2. UNCHANGED <<todo, F, graph, met>> /\ step = "return" /\ step' = "between"
  BY DEF ReturnPass
<1>3. Nothing \in [Analyses -> Int] /\ \A a \in Analyses : Nothing[a] = Absent
  BY DEF Nothing, Absent
<1>4. /\ "DominatorTree" \in Analyses /\ "PostDominatorTree" \in Analyses
      /\ "LoopInfo" \in Analyses
  BY DEF Analyses
<1>5. \/ Preserves /\ cache' = cache
      \/ /\ ~Preserves /\ cache' = [cache EXCEPT ![F] = Nothing]
         /\ cache'[F] = Nothing /\ \A fn \in ModuleFunctions \ {F} : cache'[fn] = cache[fn]
  BY <1>1 DEF ReturnPass, TypeOK
<1>6. cache' \in [ModuleFunctions -> [Analyses -> Int]] /\ used' \in [Analyses -> Int]
  BY <1>1, <1>3 DEF ReturnPass, TypeOK
<1>7. TypeOK'
  BY <1>1, <1>2, <1>6 DEF TypeOK
<1>8. Coherent'
  BY <1>1, <1>2, <1>3, <1>4, <1>5 DEF IInv, Coherent, TreesFit, Fits, TypeOK
<1>9. Fresh'
  <2>1. \A fn \in todo : cache'[fn] = cache[fn]
    BY <1>1, <1>5 DEF TypeOK
  <2>2. ASSUME NEW p \in met, p[2] = F
        PROVE  p[1][1] \in Nat /\ p[1][1] < at'
    BY <1>1, <2>2 DEF IInv, Fresh, TypeOK
  <2>3. QED
    BY <1>2, <2>1, <2>2 DEF IInv, Fresh
<1>10. Sources'
  <2>1. CASE Preserves
    <3>1. /\ PrintedBefore \/ Is("lllvm-print-dom-tree") => PrintedBefore'
          /\ UnswitchedSoFar(at - 1) => UnswitchedSoFar(at - 1)'
      BY <1>1, <2>1, KeeperPassed DEF Preserves
    <3>2. QED
      BY <1>1, <1>2, <1>5, <2>1, <3>1 DEF IInv, Sources, LoopsFitOr, Fits
  <2>2. CASE ~Preserves
    BY <1>1, <1>2, <1>3, <1>4, <1>5, <2>2 DEF Sources, LoopsFitOr, Fits, TypeOK
  <2>3. QED
    BY <2>1, <2>2
<1>11. WorksOnPresentGraph'
  BY <1>2 DEF WorksOnPresentGraph
<1>12. QED
  BY <1>7, <1>8, <1>9, <1>10, <1>11 DEF IInv

LEMMA SimplifyInv == IInv /\ Simplify => IInv'
<1> SUFFICES ASSUME IInv, Simplify PROVE IInv'
  OBVIOUS
<1> DEFINE known == Held({"LoopInfo"})["LoopInfo"]
<1>1. TypeOK /\ at' = at /\ pipeline' = pipeline /\ ~IsFunctionPass
  BY DEF IInv, Simplify, TypeOK
<1>2. UNCHANGED <<todo, F, met>> /\ step = "simplify" /\ step' \in {"return", "loops"}
  BY DEF Simplify
<1>3. /\ "DominatorTree" \in Analyses /\ "PostDominatorTree" \in Analyses
      /\ "LoopInfo" \in Analyses
  BY DEF Analyses
<1>4. PICK g \in {graph, Changed} :
        LET loops == IF known = graph[F] THEN g[F] ELSE known
        IN  /\ graph' = g
            /\ cache' = [cache EXCEPT ![F] =
                           [a \in Analyses |->
                              IF a = "LoopInfo" THEN loops
                              ELSE IF g = graph THEN @[a] ELSE Absent]]
            /\ used' = [Nothing EXCEPT !["LoopInfo"] = loops]
  BY DEF Simplify
<1> DEFINE loops == IF known = graph[F] THEN g[F] ELSE known
<1>5. /\ g \in [ModuleFunctions -> Nat]
      /\ \A fn \in ModuleFunctions \ {F} : g[fn] = graph[fn]
  BY <1>1, ChangedType DEF TypeOK
<1>6. known = graph[F] \/ (known = cache[F]["LoopInfo"] /\ known # Absent)
  BY <1>3 DEF Held
<1>7. known \in Int /\ loops \in Int
  BY <1>1, <1>3, <1>5, HeldType DEF TypeOK
<1>8. /\ cache' \in [ModuleFunctions -> [Analyses -> Int]]
      /\ \A fn \in ModuleFunctions \ {F} : cache'[fn] = cache[fn]
      /\ cache'[F] = [a \in Analyses |-> IF a = "LoopInfo" THEN loops
                                         ELSE IF g = graph THEN cache[F][a] ELSE Absent]
  BY <1>1, <1>4, <1>7 DEF TypeOK, Absent
<1>9. used' \in [Analyses -> Int] /\ used'["LoopInfo"] = loops
  BY <1>3, <1>4, <1>7 DEF Nothing, Absent
<1>10. /\ cache'[F]["LoopInfo"] = loops
       /\ \A a \in {"DominatorTree", "PostDominatorTree"} :
            \/ cache'[F][a] = Absent
            \/ g = graph /\ cache'[F][a] = cache[F][a]
  BY <1>3, <1>8
<1>11. loops # Absent /\ (loops = g[F] \/ UnswitchedSoFar(at - 1))
  <2>1. known = graph[F] \/ UnswitchedSoFar(at - 1)
    BY <1>2, <1>6 DEF IInv, Sources, LoopsFitOr, Fits
  <2>2. g[F] # Absent /\ known # Absent
    BY <1>1, <1>5, <1>6 DEF TypeOK, Absent
  <2>3. QED
    BY <2>1, <2>2
<1>12. TypeOK'
  <2>1. left' \in Seq(ItsPasses)
    <3>1. /\ Element \in Seq(LoopPasses) /\ Element # << >>
      <4>1. Running
        BY <1>1, <1>2 DEF TypeOK
      <4>2. QED
        BY <1>1, <4>1, ElementOfPipeline DEF PipelineElements
    <3> DEFINE L == Len(Element)
    <3>2. L \in Nat \ {0} /\ DOMAIN Element = 1..L
      BY <3>1
    <3>3. PICK n \in 0..MaxLoops :
            left' = [k \in 1..(n * L) |-> Element[((k - 1) % L) + 1]]
      BY DEF Simplify
    <3>4. n * L \in Nat
      BY <3>2, MaxLoopsAssumption
    <3>5. \A k \in 1..(n * L) : Element[((k - 1) % L) + 1] \in ItsPasses
      <4> HIDE DEF L
      <4> TAKE k \in 1..(n * L)
      <4>1. k - 1 \in Nat
        BY <3>4
      <4>2. ((k - 1) % L) + 1 \in 1..L
        BY <4>1, <3>2
      <4>3. QED
        BY <4>2, <3>2 DEF ItsPasses
    <3>6. QED
      BY <3>3, <3>4, <3>5, SeqDef
  <2>2. QED
    BY <1>1, <1>2, <1>4, <1>5, <1>8, <1>9, <2>1, SamePast DEF TypeOK
<1>13. Coherent'
  <2>1. TreesFit(F)
    BY <1>1, <1>2, OneName DEF IInv, Coherent
  <2>2. TreesFit(F)'
    BY <1>2, <1>4, <1>10, <2>1 DEF TreesFit, Fits
  <2>3. \A fn \in ModuleFunctions \ {F} : TreesFit(fn)'
    BY <1>2, <1>4, <1>5, <1>8 DEF IInv, Coherent, TreesFit, Fits
  <2>4. QED
    BY <1>2, <2>2, <2>3 DEF Coherent
<1>14. Fresh'
  BY <1>1, <1>2, <1>8 DEF IInv, Fresh, TypeOK
<1>15. LoopsFitOr(at)' /\ (step' = "return" => LoopsFitOr(at - 1)')
  BY <1>1, <1>2, <1>4, <1>10, <1>11, SamePast, UnswitchedNow DEF LoopsFitOr, Fits
<1>16. Sources'
  BY <1>1, <1>2, <1>9, <1>10, <1>11, <1>15, SamePast DEF IInv, Sources
<1>17. WorksOnPresentGraph'
  BY <1>1, <1>2, <1>4, <1>9, <1>11, SamePast, UnswitchedNow
  DEF WorksOnPresentGraph, UnswitchedBefore, UnswitchedSoFar
<1>18. QED
  BY <1>12, <1>13, <1>14, <1>16, <1>17 DEF IInv

LEMMA RunOnLoopInv == IInv /\ RunOnLoop => IInv'
<1> SUFFICES ASSUME IInv, RunOnLoop PROVE IInv'
  OBVIOUS
<1>1. TypeOK /\ at' = at /\ pipeline' = pipeline /\ ~IsFunctionPass /\ Running
  BY DEF IInv, RunOnLoop, TypeOK
<1>2. UNCHANGED <<todo, F, cache, used, met>> /\ step = "loops" /\ step' = "loops"
  BY DEF RunOnLoop
<1>3. /\ graph' \in [ModuleFunctions -> Nat]
      /\ \A fn \in ModuleFunctions \ {F} : graph'[fn] = graph[fn]
  BY <1>1, ChangedType DEF RunOnLoop, TypeOK
<1>4. left \in Seq(ItsPasses) /\ left # << >> /\ left' = Tail(left)
  BY <1>1, <1>2 DEF RunOnLoop, TypeOK
<1>5. left' \in Seq(ItsPasses) /\ Head(left) \in ItsPasses
  BY <1>4
<1>6. graph' = graph \/ UnswitchedSoFar(at)
  <2> SUFFICES ASSUME Head(left) = "lllvm-loop-unswitching" PROVE UnswitchedSoFar(at)
    BY DEF RunOnLoop
  <2>1. PICK m \in DOMAIN Element : Element[m] = "lllvm-loop-unswitching"
    BY <1>5 DEF ItsPasses
  <2>2. at \in 1..at /\ OnlyKeepersSince(at)
    BY <1>1 DEF TypeOK, OnlyKeepersSince
  <2>3. QED
    BY <2>1, <2>2 DEF UnswitchedSoFar, Element
<1>7. TypeOK'
  BY <1>1, <1>2, <1>3, <1>5, SamePast DEF TypeOK
<1>8. Coherent'
  BY <1>1, <1>2, <1>3 DEF IInv, Coherent, TreesFit, Fits, TypeOK
<1>9. Fresh'
  BY <1>1, <1>2 DEF IInv, Fresh
<1>10. LoopsFitOr(at)'
  BY <1>1, <1>2, <1>6, SamePast DEF IInv, Sources, LoopsFitOr, Fits
<1>11. Sources'
  BY <1>1, <1>2, <1>10 DEF IInv, Sources
<1>12. WorksOnPresentGraph'
  <2>1. UnswitchedSoFar(at) => UnswitchedBefore'
    BY <1>1, SamePast DEF UnswitchedSoFar, UnswitchedBefore
  <2>2. used'["LoopInfo"] = graph'[F] \/ UnswitchedBefore'
    BY <1>1, <1>2, <1>10, <2>1, SamePast DEF IInv, Sources, LoopsFitOr, Fits
  <2>3. QED
    BY <1>2, <2>2 DEF WorksOnPresentGraph
<1>13. QED
  BY <1>7, <1>8, <1>9, <1>11, <1>12 DEF IInv

LEMMA ReturnLoopsInv == IInv /\ ReturnLoops => IInv'
<1> SUFFICES ASSUME IInv, ReturnLoops PROVE IInv'
  OBVIOUS
<1> DEFINE kept == [Nothing EXCEPT !["LoopInfo"] = cache[F]["LoopInfo"]]
<1>1. TypeOK /\ at' = at + 1 /\ pipeline' = pipeline /\ Running /\ ~IsFunctionPass
  BY DEF IInv, ReturnLoops, TypeOK
<1>2. UNCHANGED <<todo, F, graph, met>> /\ step = "loops" /\ step' = "between"
  BY DEF ReturnLoops
<1>3. Nothing \in [Analyses -> Int] /\ \A a \in Analyses : Nothing[a] = Absent
  BY DEF Nothing, Absent
<1>4. /\ "DominatorTree" \in Analyses /\ "PostDominatorTree" \in Analyses
      /\ "LoopInfo" \in Analyses
  BY DEF Analyses
<1>5. /\ kept \in [Analyses -> Int] /\ kept["LoopInfo"] = cache[F]["LoopInfo"]
      /\ kept["DominatorTree"] = Absent /\ kept["PostDominatorTree"] = Absent
  BY <1>1, <1>3, <1>4 DEF TypeOK
<1>6. /\ cache' \in [ModuleFunctions -> [Analyses -> Int]] /\ used' \in [Analyses -> Int]
      /\ cache'[F] = kept /\ \A fn \in ModuleFunctions \ {F} : cache'[fn] = cache[fn]
  BY <1>1, <1>3, <1>5 DEF ReturnLoops, TypeOK
<1>7. TypeOK'
  BY <1>1, <1>2, <1>6 DEF TypeOK
<1>8. Coherent'
  BY <1>2, <1>5, <1>6 DEF IInv, Coherent, TreesFit, Fits
<1>9. Fresh'
  <2>1. \A fn \in todo : cache'[fn] = cache[fn]
    BY <1>1, <1>6 DEF TypeOK
  <2>2. ASSUME NEW p \in met, p[2] = F
        PROVE  p[1][1] \in Nat /\ p[1][1] < at'
    BY <1>1, <2>2 DEF IInv, Fresh, TypeOK
  <2>3. QED
    BY <1>2, <2>1, <2>2 DEF IInv, Fresh
<1>10. LoopsFitOr(at - 1)'
  <2>1. Fits(F, "LoopInfo") \/ UnswitchedSoFar(at)
    BY <1>2 DEF IInv, Sources, LoopsFitOr
  <2>2. QED
    BY <1>1, <1>2, <1>5, <1>6, <2>1, KeeperPassed DEF LoopsFitOr, Fits
<1>11. Sources'
  BY <1>2, <1>5, <1>6, <1>10 DEF Sources
<1>12. WorksOnPresentGraph'
  BY <1>2 DEF WorksOnPresentGraph
<1>13. QED
  BY <1>7, <1>8, <1>9, <1>11, <1>12 DEF IInv

LEMMA NextFunctionInv == IInv /\ NextFunction => IInv'
<1> SUFFICES ASSUME IInv, NextFunction PROVE IInv'
  OBVIOUS
<1>1. TypeOK /\ at' = 1 /\ pipeline' = pipeline
  BY DEF IInv, NextFunction
<1>2. UNCHANGED <<graph, cache, used, left, met, step>> /\ step = "between"
  BY DEF NextFunction
<1>3. F' \in todo /\ todo' = todo \ {F'}
  BY DEF NextFunction
<1>4. /\ F' \in ModuleFunctions /\ todo' \subseteq ModuleFunctions \ {F'}
  BY <1>1, <1>3 DEF TypeOK
<1>5. \A a \in Analyses : cache[F'][a] = Absent
  BY <1>2, <1>3 DEF IInv, Fresh, Nothing
<1>6. /\ "DominatorTree" \in Analyses /\ "PostDominatorTree" \in Analyses
      /\ "LoopInfo" \in Analyses
  BY DEF Analyses
<1>7. TypeOK'
  BY <1>1, <1>2, <1>4 DEF TypeOK
<1>8. Coherent'
  BY <1>2, <1>4, <1>5, <1>6 DEF IInv, Coherent, TreesFit, Fits
<1>9. Fresh'
  BY <1>2, <1>3 DEF IInv, Fresh
<1>10. Sources'
  BY <1>2, <1>5, <1>6 DEF Sources, LoopsFitOr, Fits
<1>11. WorksOnPresentGraph'
  BY <1>2 DEF WorksOnPresentGraph
<1>12. QED
  BY <1>7, <1>8, <1>9, <1>10, <1>11 DEF IInv

LEMMA LeaveModuleInv == IInv /\ LeaveModule => IInv'
<1> SUFFICES ASSUME IInv, LeaveModule PROVE IInv'
  OBVIOUS
<1>1. at' = at /\ pipeline' = pipeline
  BY DEF LeaveModule
<1>2. UNCHANGED <<todo, F, graph, cache, used, left, met>> /\ step = "between" /\ step' = "done"
  BY DEF LeaveModule
<1>3. TypeOK'
  BY <1>1, <1>2, SamePast DEF IInv, TypeOK
<1>4. Coherent'
  BY <1>2 DEF IInv, Coherent, TreesFit, Fits
<1>5. Fresh'
  BY <1>1, <1>2 DEF IInv, Fresh
<1>6. Sources'
  BY <1>1, <1>2 DEF IInv, Sources
<1>7. WorksOnPresentGraph'
  BY <1>2 DEF WorksOnPresentGraph
<1>8. QED
  BY <1>3, <1>4, <1>5, <1>6, <1>7 DEF IInv

LEMMA StutterInv == IInv /\ UNCHANGED pipelineVars => IInv'
<1> SUFFICES ASSUME IInv, UNCHANGED pipelineVars PROVE IInv'
  OBVIOUS
<1>1. at' = at /\ pipeline' = pipeline
  BY DEF pipelineVars
<1>2. UNCHANGED <<todo, F, step, graph, cache, used, left, met>>
  BY DEF pipelineVars
<1>3. TypeOK'
  BY <1>1, <1>2, SamePast DEF IInv, TypeOK
<1>4. Coherent'
  BY <1>1, <1>2, SamePast DEF IInv, Coherent, TreesFit, Fits
<1>5. Fresh'
  BY <1>1, <1>2 DEF IInv, Fresh
<1>6. Sources'
  BY <1>1, <1>2, SamePast DEF IInv, Sources, LoopsFitOr, Fits
<1>7. WorksOnPresentGraph'
  BY <1>1, <1>2 DEF IInv, WorksOnPresentGraph, Asked, Is, Element, PrintedBefore,
                    UnswitchedBefore, OnlyKeepersSince
<1>8. QED
  BY <1>3, <1>4, <1>5, <1>6, <1>7 DEF IInv

THEOREM IInvHolds == PipelineSpec => []IInv
<1>1. PipelineInit => IInv
  BY InitInv
<1>2. IInv /\ [PipelineNext]_pipelineVars => IInv'
  BY StartInv, SplitInv, AskInv, WorkInv, ReturnPassInv, SimplifyInv, RunOnLoopInv,
     ReturnLoopsInv, NextFunctionInv, LeaveModuleInv, StutterInv DEF PipelineNext, Done
<1>3. QED
  BY <1>1, <1>2, PTL DEF PipelineSpec

------------------------------------------------------------------------------
(* The properties, for every pipeline and any number of functions and loops *)

\* The analysis manager, the counters and the passes at hand stay what they are
\* declared to be.
THEOREM TypeCorrect == PipelineSpec => []TypeOK
<1>1. IInv => TypeOK
  BY DEF IInv
<1>2. QED
  BY <1>1, IInvHolds, PTL

\* No tree of an older graph is kept between two elements.
THEOREM TreesFitBetweenPasses == PipelineSpec => []CachedTreesFit
<1>1. IInv => CachedTreesFit
  <2> SUFFICES ASSUME IInv, step \in {"between", "done"} PROVE CachedTreesFit
    BY DEF CachedTreesFit
  <2>1. \A fn \in ModuleFunctions : TreesFit(fn)
    BY DEF IInv, Coherent
  <2>2. QED
    BY <2>1 DEF CachedTreesFit, TreesFit
<1>2. QED
  BY <1>1, IInvHolds, PTL

\* Old analyses are used by GVNPRE behind the printer and by loop passes behind
\* unswitching, and nowhere else.
THEOREM OldAnalysesOnlyThere == PipelineSpec => []WorksOnPresentGraph
<1>1. IInv => WorksOnPresentGraph
  BY DEF IInv
<1>2. QED
  BY <1>1, IInvHolds, PTL

\* What a pass object remembers is of other functions.
THEOREM ObjectsStartFresh == PipelineSpec => []ObjectsMeetOnce
<1>1. IInv => ObjectsMeetOnce
  <2> SUFFICES ASSUME IInv, step = "between",
                      NEW p \in met, p \in ObjectsOf(at) \X {F}
               PROVE  FALSE
    BY DEF ObjectsMeetOnce
  <2>1. p[2] = F /\ p[1][1] = at
    BY DEF ObjectsOf
  <2>2. QED
    BY <2>1 DEF IInv, Fresh, TypeOK
<1>2. QED
  BY <1>1, IInvHolds, PTL

------------------------------------------------------------------------------
(* LICM: the first run of a pass object, which is for loop 1 of the function *)

HoistTypeOK ==
  /\ f \in Functions
  /\ order \in [Blocks -> Seq(Instrs)]
  /\ loop \in 0..Len(f.loops)
  /\ phase \in {"idle", "mark", "move", "returned"}
  /\ loopDefinedValues \subseteq Instrs /\ worklist \subseteq Instrs
  /\ invariantValues \subseteq Instrs
  /\ invariantSequence \in Seq(Instrs) /\ rest \in Seq(Instrs)

\* Before the first call nothing has happened.
NotCalled ==
  loop = 0 => /\ phase = "idle" /\ order = f.order /\ worklist = {} /\ rest = << >>
              /\ loopDefinedValues = {} /\ invariantValues = {} /\ invariantSequence = << >>

Here == DefinedIn(f, 1)

\* What the first run has marked is invariant, and what it could mark still is
\* in the worklist.
Marked ==
  /\ loopDefinedValues = Here
  /\ invariantValues \subseteq LoopInvariant(f, 1)
  /\ \A j \in invariantValues : Operands(j) \cap Here \subseteq invariantValues
  /\ worklist \cap f.fixed = {}
  /\ \A i \in worklist \ Here : Operands(i) \cap invariantValues # {}
  /\ \A i \in Here \ (f.fixed \cup invariantValues) :
       Operands(i) \cap Here \subseteq invariantValues => i \in worklist
  /\ phase # "mark" => worklist = {}

\* A definition is listed in front of its uses, but for those to be listed again.
Sequenced ==
  /\ Distinct(invariantSequence) /\ ToSet(invariantSequence) = invariantValues
  /\ \A j \in invariantValues : \A v \in Operands(j) \cap invariantValues :
       j \in worklist \/ Before(invariantSequence, v, j)

\* The moves come in the order of the sequence.
InTurn ==
  /\ phase = "mark" => rest = << >> /\ order = f.order
  /\ phase \in {"idle", "returned"} => rest = << >>
  /\ Distinct(rest) /\ ToSet(rest) \subseteq invariantValues
  /\ \A i, j \in ToSet(rest) : Before(rest, i, j) <=> Before(invariantSequence, i, j)
  /\ \A i \in invariantValues \ ToSet(rest), j \in ToSet(rest) : Before(invariantSequence, i, j)

Moved == IF phase = "mark" THEN {} ELSE invariantValues \ ToSet(rest)
Pre == f.loops[1].preheader

\* What has been moved stands at the end of the preheader in that order, and
\* what has not is where it was.
Placed ==
  /\ \A b \in Blocks : Distinct(order[b])
  /\ \A b \in Blocks \ {Pre} : ToSet(order[b]) = ToSet(f.order[b]) \ Moved
  /\ ToSet(order[Pre]) = ToSet(f.order[Pre]) \cup Moved
  /\ \A b \in Blocks : \A i, j \in ToSet(order[b]) :
       Before(f.order[b], i, j) => Before(order[b], i, j)
  /\ \A i \in ToSet(f.order[Pre]), j \in Moved : Before(order[Pre], i, j)
  /\ \A i, j \in Moved : Before(invariantSequence, i, j) => Before(order[Pre], i, j)

HoistInv ==
  /\ HoistTypeOK /\ NotCalled
  /\ loop = 1 => Marked /\ Sequenced /\ InTurn /\ Placed

------------------------------------------------------------------------------
\* What stands in the sequences and in which order, in terms of places.
LEMMA Placing ==
  ASSUME NEW S, NEW s \in Seq(S)
  PROVE  /\ Len(s) \in Nat
         /\ \A k \in 1..Len(s) : s[k] \in S /\ s[k] \in ToSet(s)
         /\ \A x : x \in ToSet(s) <=> \E k \in 1..Len(s) : s[k] = x
BY Elements, LenProperties

LEMMA EmptyIsDistinct == << >> \in Seq(Instrs) /\ ToSet(<< >>) = {} /\ Distinct(<< >>)
<1> DEFINE e == << >>
<1>1. e \in Seq(Instrs) /\ Len(e) = 0
  BY EmptySeq
<1> HIDE DEF e
<1>2. \A k \in 1..Len(e) : FALSE
  BY <1>1
<1>3. \A x : x \in ToSet(e) <=> \E k \in 1..Len(e) : e[k] = x
  BY <1>1, Placing
<1> QED
  BY <1>1, <1>2, <1>3 DEF Distinct, e

\* In a sequence nothing stands twice in, the order is strict, and total.
LEMMA OrderIsStrict ==
  ASSUME NEW S, NEW s \in Seq(S), Distinct(s)
  PROVE  /\ \A a, b : Before(s, a, b) => a \in ToSet(s) /\ b \in ToSet(s) /\ a # b
         /\ \A a, b : Before(s, a, b) => ~Before(s, b, a)
         /\ \A a, b, c : Before(s, a, b) /\ Before(s, b, c) => Before(s, a, c)
         /\ \A a, b \in ToSet(s) : a = b \/ Before(s, a, b) \/ Before(s, b, a)
<1>1. /\ Len(s) \in Nat
      /\ \A k \in 1..Len(s) : s[k] \in ToSet(s)
      /\ \A x : x \in ToSet(s) => \E k \in 1..Len(s) : s[k] = x
  BY Placing
<1>2. \A m, n \in 1..Len(s) : s[m] = s[n] => m = n
  BY DEF Distinct
<1>3. ASSUME NEW a, NEW b, Before(s, a, b)
      PROVE  a \in ToSet(s) /\ b \in ToSet(s) /\ a # b /\ ~Before(s, b, a)
  BY <1>1, <1>2, <1>3 DEF Before
<1>4. ASSUME NEW a, NEW b, NEW c, Before(s, a, b), Before(s, b, c)
      PROVE  Before(s, a, c)
  <2>1. PICK m, n \in 1..Len(s) : m < n /\ s[m] = a /\ s[n] = b
    BY <1>4 DEF Before
  <2>2. PICK q, r \in 1..Len(s) : q < r /\ s[q] = b /\ s[r] = c
    BY <1>4 DEF Before
  <2>3. n = q
    BY <1>2, <2>1, <2>2
  <2>4. m < r
    BY <1>1, <2>1, <2>2, <2>3
  <2> QED
    BY <2>1, <2>2, <2>4 DEF Before
<1>5. ASSUME NEW a \in ToSet(s), NEW b \in ToSet(s)
      PROVE  a = b \/ Before(s, a, b) \/ Before(s, b, a)
  <2>1. PICK m \in 1..Len(s) : s[m] = a
    BY <1>1
  <2>2. PICK n \in 1..Len(s) : s[n] = b
    BY <1>1
  <2>3. m = n \/ m < n \/ n < m
    BY <1>1
  <2> QED
    BY <2>1, <2>2, <2>3 DEF Before
<1> QED
  BY <1>3, <1>4, <1>5

\* Taking i out leaves the others in order.
LEMMA WithoutIt ==
  ASSUME NEW S, NEW s \in Seq(S), Distinct(s), NEW i
  PROVE  /\ Without(s, i) \in Seq(S)
         /\ Distinct(Without(s, i))
         /\ ToSet(Without(s, i)) = ToSet(s) \ {i}
         /\ \A a, b : Before(Without(s, i), a, b) <=> Before(s, a, b) /\ a # i /\ b # i
<1>1. /\ Len(s) \in Nat
      /\ \A x : x \in ToSet(s) <=> \E k \in 1..Len(s) : s[k] = x
  BY Placing
<1>2. \A m, n \in 1..Len(s) : s[m] = s[n] => m = n
  BY DEF Distinct
<1>3. CASE i \notin ToSet(s)
  <2>1. Without(s, i) = s
    BY <1>3 DEF Without
  <2> QED
    BY <1>3, <2>1, OrderIsStrict
<1>4. CASE i \in ToSet(s)
  <2> DEFINE k == CHOOSE j \in 1..Len(s) : s[j] = i
             r == RemoveAt(s, k)
             up(j) == IF j < k THEN j ELSE j + 1
  <2>1. k \in 1..Len(s) /\ s[k] = i
    BY <1>1, <1>4
  <2>2. Without(s, i) = r
    BY <1>4 DEF Without
  <2> HIDE DEF k
  <2>3. /\ r \in Seq(S) /\ Len(r) = Len(s) - 1
        /\ \A j \in 1..(Len(s) - 1) : r[j] = IF j < k THEN s[j] ELSE s[j + 1]
    BY <2>1, RemovedFrom
  <2> HIDE DEF r
  <2>4. \A j \in 1..Len(r) : up(j) \in 1..Len(s) /\ up(j) # k /\ r[j] = s[up(j)]
    BY <1>1, <2>1, <2>3
  <2>5. \A m, n \in 1..Len(r) : (m < n <=> up(m) < up(n)) /\ (up(m) = up(n) => m = n)
    BY <1>1, <2>1, <2>3
  <2>6. ASSUME NEW j \in 1..Len(s), j # k
        PROVE  \E m \in 1..Len(r) : up(m) = j
    <3>1. CASE j < k
      <4>1. j \in 1..Len(r) /\ up(j) = j
        BY <1>1, <2>1, <2>3, <3>1
      <4> QED
        BY <4>1
    <3>2. CASE k < j
      <4>1. j - 1 \in 1..Len(r) /\ up(j - 1) = j
        BY <1>1, <2>1, <2>3, <3>2
      <4> QED
        BY <4>1
    <3> QED
      BY <1>1, <2>1, <2>6, <3>1, <3>2
  <2> HIDE DEF up
  <2>7. \A j \in 1..Len(s) : s[j] = i <=> j = k
    BY <1>2, <2>1
  <2>8. Distinct(r)
    BY <1>2, <2>4, <2>5 DEF Distinct
  <2>9. \A x : x \in ToSet(r) <=> \E j \in 1..Len(r) : r[j] = x
    BY <2>3, Placing
  <2>10. ASSUME NEW x PROVE x \in ToSet(r) <=> x \in ToSet(s) \ {i}
    <3>1. x \in ToSet(r) => x \in ToSet(s) \ {i}
      BY <1>1, <2>4, <2>7, <2>9
    <3>2. ASSUME x \in ToSet(s) \ {i} PROVE x \in ToSet(r)
      <4>1. PICK j \in 1..Len(s) : s[j] = x
        BY <1>1, <3>2
      <4>2. PICK m \in 1..Len(r) : up(m) = j
        BY <2>1, <2>6, <3>2, <4>1
      <4> QED
        BY <2>4, <2>9, <4>1, <4>2
    <3> QED
      BY <3>1, <3>2
  <2>11. ASSUME NEW a, NEW b
         PROVE  Before(r, a, b) <=> Before(s, a, b) /\ a # i /\ b # i
    <3>1. ASSUME Before(r, a, b) PROVE Before(s, a, b) /\ a # i /\ b # i
      <4>1. PICK m, n \in 1..Len(r) : m < n /\ r[m] = a /\ r[n] = b
        BY <3>1 DEF Before
      <4>2. up(m) \in 1..Len(s) /\ up(n) \in 1..Len(s) /\ up(m) < up(n)
            /\ s[up(m)] = a /\ s[up(n)] = b /\ up(m) # k /\ up(n) # k
        BY <2>4, <2>5, <4>1
      <4> QED
        BY <2>7, <4>2 DEF Before
    <3>2. ASSUME Before(s, a, b), a # i, b # i PROVE Before(r, a, b)
      <4>1. PICK m, n \in 1..Len(s) : m < n /\ s[m] = a /\ s[n] = b
        BY <3>2 DEF Before
      <4>2. m # k /\ n # k
        BY <2>1, <3>2, <4>1
      <4>3. PICK p \in 1..Len(r) : up(p) = m
        BY <2>6, <4>2
      <4>4. PICK q \in 1..Len(r) : up(q) = n
        BY <2>6, <4>2
      <4>5. p < q /\ r[p] = a /\ r[q] = b
        BY <2>4, <2>5, <4>1, <4>3, <4>4
      <4> QED
        BY <4>5 DEF Before
    <3> QED
      BY <3>1, <3>2
  <2> QED
    BY <2>2, <2>3, <2>8, <2>10, <2>11
<1> QED
  BY <1>3, <1>4

\* Adding i behind the others.
LEMMA AddedLast ==
  ASSUME NEW S, NEW s \in Seq(S), Distinct(s), NEW i \in S, i \notin ToSet(s)
  PROVE  /\ Append(s, i) \in Seq(S)
         /\ Distinct(Append(s, i))
         /\ ToSet(Append(s, i)) = ToSet(s) \cup {i}
         /\ \A a, b : Before(Append(s, i), a, b) <=>
                        Before(s, a, b) \/ (a \in ToSet(s) /\ b = i)
<1> DEFINE r == Append(s, i)
<1>1. /\ Len(s) \in Nat
      /\ \A x : x \in ToSet(s) <=> \E k \in 1..Len(s) : s[k] = x
  BY Placing
<1>2. \A m, n \in 1..Len(s) : s[m] = s[n] => m = n
  BY DEF Distinct
<1>3. /\ r \in Seq(S) /\ Len(r) = Len(s) + 1
      /\ \A k \in 1..Len(s) : r[k] = s[k]
      /\ r[Len(s) + 1] = i
  BY AppendProperties
<1>4. ToSet(r) = ToSet(s) \cup {i}
  BY Pushed
<1> HIDE DEF r
<1>5. \A k \in 1..Len(r) : k \in 1..Len(s) \/ k = Len(s) + 1
  BY <1>1, <1>3
<1>6. \A k \in 1..Len(s) : r[k] # i
  BY <1>1, <1>3
<1>7. Distinct(r)
  BY <1>2, <1>3, <1>5, <1>6 DEF Distinct
<1>8. ASSUME NEW a, NEW b
      PROVE  Before(r, a, b) <=> Before(s, a, b) \/ (a \in ToSet(s) /\ b = i)
  <2>1. ASSUME Before(r, a, b) PROVE Before(s, a, b) \/ (a \in ToSet(s) /\ b = i)
    <3>1. PICK m, n \in 1..Len(r) : m < n /\ r[m] = a /\ r[n] = b
      BY <2>1 DEF Before
    <3>2. m \in 1..Len(s)
      BY <1>1, <1>3, <3>1
    <3>3. CASE n \in 1..Len(s)
      BY <1>3, <3>1, <3>2, <3>3 DEF Before
    <3>4. CASE n = Len(s) + 1
      BY <1>1, <1>3, <3>1, <3>2, <3>4
    <3> QED
      BY <1>5, <3>3, <3>4
  <2>2. ASSUME Before(s, a, b) PROVE Before(r, a, b)
    <3>1. PICK m, n \in 1..Len(s) : m < n /\ s[m] = a /\ s[n] = b
      BY <2>2 DEF Before
    <3>2. m \in 1..Len(r) /\ n \in 1..Len(r) /\ r[m] = a /\ r[n] = b
      BY <1>1, <1>3, <3>1
    <3> QED
      BY <3>1, <3>2 DEF Before
  <2>3. ASSUME a \in ToSet(s), b = i PROVE Before(r, a, b)
    <3>1. PICK m \in 1..Len(s) : s[m] = a
      BY <1>1, <2>3
    <3>2. m \in 1..Len(r) /\ Len(r) \in 1..Len(r) /\ m < Len(r) /\ r[m] = a /\ r[Len(r)] = b
      BY <1>1, <1>3, <2>3, <3>1
    <3> QED
      BY <3>2 DEF Before
  <2> QED
    BY <2>1, <2>2, <2>3
<1> QED
  BY <1>3, <1>4, <1>7, <1>8 DEF r

\* Taking the first one off.
LEMMA TakenFirst ==
  ASSUME NEW S, NEW s \in Seq(S), Distinct(s), s # << >>
  PROVE  /\ Head(s) \in S /\ Head(s) \in ToSet(s)
         /\ Tail(s) \in Seq(S)
         /\ Distinct(Tail(s))
         /\ ToSet(Tail(s)) = ToSet(s) \ {Head(s)}
         /\ \A a, b \in ToSet(Tail(s)) : Before(Tail(s), a, b) <=> Before(s, a, b)
         /\ \A a \in ToSet(Tail(s)) : Before(s, Head(s), a)
<1> DEFINE t == Tail(s)
           h == Head(s)
<1>1. /\ Len(s) \in Nat
      /\ \A x : x \in ToSet(s) <=> \E k \in 1..Len(s) : s[k] = x
  BY Placing
<1>2. \A m, n \in 1..Len(s) : s[m] = s[n] => m = n
  BY DEF Distinct
<1>3. /\ t \in Seq(S) /\ h \in S
      /\ ToSet(s) = {h} \cup ToSet(t)
      /\ h = s[1] /\ Len(t) = Len(s) - 1
      /\ \A k \in 1..Len(t) : t[k] = s[k + 1]
  BY Beheaded
<1>4. \A x : x \in ToSet(t) <=> \E k \in 1..Len(t) : t[k] = x
  BY <1>3, Placing
<1> HIDE DEF t, h
<1>5. Len(t) \in Nat /\ 1 \in 1..Len(s) /\ \A k \in 1..Len(t) : k + 1 \in 1..Len(s) /\ 1 # k + 1
  <2>1. Len(s) # 0
    BY EmptySeq
  <2> QED
    BY <1>1, <1>3, <2>1
<1>6. h \notin ToSet(t)
  BY <1>2, <1>3, <1>4, <1>5
<1>7. Distinct(t)
  <2>1. ASSUME NEW m \in 1..Len(t), NEW n \in 1..Len(t), t[m] = t[n] PROVE m = n
    <3>1. m + 1 = n + 1
      BY <1>2, <1>3, <1>5, <2>1
    <3> QED
      BY <1>5, <3>1
  <2> QED
    BY <2>1 DEF Distinct
<1>8. ASSUME NEW a \in ToSet(t) PROVE Before(s, h, a)
  <2>1. PICK k \in 1..Len(t) : t[k] = a
    BY <1>4
  <2>2. 1 < k + 1 /\ s[1] = h /\ s[k + 1] = a
    BY <1>3, <1>5, <2>1
  <2> QED
    BY <1>5, <2>2 DEF Before
<1>9. ASSUME NEW a \in ToSet(t), NEW b \in ToSet(t)
      PROVE  Before(t, a, b) <=> Before(s, a, b)
  <2>1. PICK m \in 1..Len(t) : t[m] = a
    BY <1>4
  <2>2. PICK n \in 1..Len(t) : t[n] = b
    BY <1>4
  <2>3. s[m + 1] = a /\ s[n + 1] = b /\ (m < n <=> m + 1 < n + 1)
    BY <1>3, <1>5, <2>1, <2>2
  <2>4. Before(t, a, b) <=> m < n
    BY <1>7, <2>1, <2>2 DEF Before, Distinct
  <2>5. Before(s, a, b) <=> m + 1 < n + 1
    BY <1>2, <1>5, <2>3 DEF Before
  <2> QED
    BY <2>3, <2>4, <2>5
<1>10. ToSet(t) = ToSet(s) \ {h} /\ h \in ToSet(s)
  BY <1>3, <1>6
<1> QED
  BY <1>3, <1>7, <1>8, <1>9, <1>10 DEF t, h

------------------------------------------------------------------------------
\* The preheader dominates the loop; what dominates a block of the loop from
\* outside dominates the preheader; and nothing in the loop does.
LEMMA PreheaderDominates ==
  ASSUME NEW s \in CFGs, NEW l \in Loops, Simplified(s, l), NEW b \in l.blocks
  PROVE  <<l.preheader, b>> \in Dominance(s)
<1>1. l.blocks \subseteq Blocks /\ l.preheader \in Blocks
  BY DEF Loops
<1> DEFINE S == Blocks \ (l.blocks \cup {l.preheader})
<1>2. \A c \in l.blocks : \A p \in S : c \notin s[p]
  BY DEF Simplified, Preds
<1>3. \A p \in S : s[p] \subseteq Blocks
  BY DEF CFGs, NonEntry
<1>4. S \in ClosedAvoiding(s, l.preheader)
  BY <1>2, <1>3, EntryAssumption DEF ClosedAvoiding, Simplified
<1>5. b \notin ReachAvoiding(s, l.preheader)
  BY <1>1, <1>4, ReachAvoidingLeast
<1> QED
  BY <1>1, <1>5, DominanceMeaning

LEMMA DominatorsFromOutside ==
  ASSUME NEW s \in CFGs, NEW l \in Loops, Simplified(s, l),
         NEW b \in l.blocks, NEW d \in Blocks \ l.blocks, <<d, b>> \in Dominance(s)
  PROVE  <<d, l.preheader>> \in Dominance(s)
<1>1. l.blocks \subseteq Blocks /\ l.preheader \in Blocks
  BY DEF Loops
<1> DEFINE R == ReachAvoiding(s, d)
           P == l.preheader
<1>2. SUFFICES ASSUME P \in R PROVE FALSE
  BY <1>1, DominanceMeaning
<1>3. PICK header \in l.blocks :
        /\ s[P] = {header}
        /\ \A S \in SUBSET l.blocks :
             header \in S /\ (\A x \in S : s[x] \cap l.blocks \subseteq S) => S = l.blocks
  BY DEF Simplified
<1>4. \A p \in R : \A c \in s[p] : c # d => c \in R
  BY ReachAvoidingStep
<1>5. header \in R
  BY <1>2, <1>3, <1>4
<1>6. \A x \in R \cap l.blocks : s[x] \cap l.blocks \subseteq R \cap l.blocks
  BY <1>4
<1>7. R \cap l.blocks = l.blocks
  BY <1>3, <1>5, <1>6
<1> QED
  BY <1>1, <1>7, DominanceMeaning

LEMMA NothingInsideDominates ==
  ASSUME NEW s \in CFGs, NEW l \in Loops, Simplified(s, l), NEW b \in l.blocks
  PROVE  <<b, l.preheader>> \notin Dominance(s)
<1>1. b \in Blocks /\ l.preheader \in Blocks /\ b # l.preheader
  BY DEF Loops, Simplified
<1>2. l.preheader \in Reachable(s)
  BY DEF Simplified
<1> QED
  BY <1>1, <1>2, PreheaderDominates, DominanceAntisymmetric

------------------------------------------------------------------------------
\* The invariant instructions are the least set that holds an instruction with
\* its operands.
Ops(g, i) == {u[1] : u \in g.uses[i]}

LEMMA InvariantsAreLeast ==
  ASSUME NEW g, NEW l
  PROVE  LET movable == DefinedIn(g, l) \ g.fixed
         IN  /\ LoopInvariant(g, l) \subseteq movable
             /\ \A i \in movable :
                  Ops(g, i) \cap DefinedIn(g, l) \subseteq LoopInvariant(g, l)
                    => i \in LoopInvariant(g, l)
             /\ \A S \in SUBSET movable :
                  (\A i \in movable : Ops(g, i) \cap DefinedIn(g, l) \subseteq S => i \in S)
                    => LoopInvariant(g, l) \subseteq S
<1> DEFINE movable == DefinedIn(g, l) \ g.fixed
           Enabled(S) == {i \in movable : \A u \in g.uses[i] : u[1] \in DefinedIn(g, l) => u[1] \in S}
           closed == {S \in SUBSET movable : Enabled(S) \subseteq S}
           L == {i \in movable : \A S \in closed : i \in S}
<1>1. LoopInvariant(g, l) = L
  BY DEF LoopInvariant
<1>2. \A i, S : i \in movable /\ Ops(g, i) \cap DefinedIn(g, l) \subseteq S => i \in Enabled(S)
  BY DEF Ops
<1>3. \A i, S : i \in Enabled(S) => i \in movable /\ Ops(g, i) \cap DefinedIn(g, l) \subseteq S
  BY DEF Ops
<1> HIDE DEF movable, Enabled
<1>4. ASSUME NEW i \in movable, Ops(g, i) \cap DefinedIn(g, l) \subseteq L PROVE i \in L
  <2>1. ASSUME NEW S \in closed PROVE i \in S
    <3>1. L \subseteq S
      OBVIOUS
    <3>2. i \in Enabled(S)
      BY <1>2, <1>4, <3>1
    <3> QED
      BY <3>2
  <2> QED
    BY <2>1
<1>5. ASSUME NEW S \in SUBSET movable,
             \A i \in movable : Ops(g, i) \cap DefinedIn(g, l) \subseteq S => i \in S
      PROVE  L \subseteq S
  <2>1. Enabled(S) \subseteq S
    BY <1>3, <1>5
  <2> QED
    BY <2>1
<1> QED
  BY <1>1, <1>4, <1>5 DEF movable

------------------------------------------------------------------------------
\* What is defined in the loop stands in its blocks and nowhere else.
LEMMA TheFirstLoop ==
  ASSUME NEW g \in Functions
  PROVE  /\ g.loops \in Seq(Loops) /\ Len(g.loops) \in Nat /\ 1 <= Len(g.loops)
         /\ g.loops[1] \in Loops /\ g.loops[1].blocks \subseteq Blocks
         /\ g.loops[1].preheader \in Blocks \ g.loops[1].blocks
         /\ g.succ \in CFGs /\ Simplified(g.succ, g.loops[1])
         /\ g.order \in [Blocks -> Seq(Instrs)]
         /\ \A b \in Blocks : Distinct(g.order[b]) /\ ToSet(g.order[b]) \subseteq Instrs
         /\ \A b, c \in Blocks : b # c => ToSet(g.order[b]) \cap ToSet(g.order[c]) = {}
         /\ DefinedIn(g, 1) \subseteq Instrs
         /\ \A b \in Blocks : \A i \in ToSet(g.order[b]) :
              i \in DefinedIn(g, 1) <=> b \in g.loops[1].blocks
         /\ \A i \in DefinedIn(g, 1) : \E b \in g.loops[1].blocks : i \in ToSet(g.order[b])
<1>1. WellFormed(g)
  BY FunctionsAssumption
<1>2. /\ g.loops \in Seq(Loops) /\ g.loops # << >>
      /\ g.succ \in CFGs /\ g.order \in [Blocks -> Seq(Instrs)]
      /\ \A b \in Blocks : Distinct(g.order[b])
      /\ \A b, c \in Blocks : b # c => ToSet(g.order[b]) \cap ToSet(g.order[c]) = {}
      /\ \A k \in 1..Len(g.loops) : Simplified(g.succ, g.loops[k])
  BY <1>1 DEF WellFormed
<1>3. Len(g.loops) \in Nat /\ 1 <= Len(g.loops) /\ 1 \in 1..Len(g.loops)
  BY <1>2, EmptySeq, LenProperties
<1>4. g.loops[1] \in Loops
  BY <1>2, <1>3, ElementOfSeq
<1>5. /\ g.loops[1].blocks \subseteq Blocks
      /\ g.loops[1].preheader \in Blocks
  BY <1>4 DEF Loops
<1>6. g.loops[1].preheader \notin g.loops[1].blocks
  BY <1>2, <1>3 DEF Simplified
<1>7. \A b \in Blocks : ToSet(g.order[b]) \subseteq Instrs
  <2>1. \A t \in Seq(Instrs) : ToSet(t) \subseteq Instrs
    BY Elements
  <2> QED
    BY <1>2, <2>1
<1> DEFINE was(b) == ToSet(g.order[b])
<1>8. \A i : i \in DefinedIn(g, 1) <=> \E b \in g.loops[1].blocks : i \in was(b)
  BY DEF DefinedIn
<1>9. /\ \A b, c \in Blocks : b # c => was(b) \cap was(c) = {}
      /\ \A b \in Blocks : was(b) \subseteq Instrs
  BY <1>2, <1>7
<1> HIDE DEF was
<1>10. DefinedIn(g, 1) \subseteq Instrs
  BY <1>5, <1>8, <1>9
<1>11. \A b \in Blocks : \A i \in was(b) : i \in DefinedIn(g, 1) <=> b \in g.loops[1].blocks
  BY <1>5, <1>8, <1>9
<1> QED
  BY <1>2, <1>3, <1>4, <1>5, <1>6, <1>7, <1>8, <1>10, <1>11 DEF was

\* Operands and Users, of the function in the state.
LEMMA OperandsOf ==
  ASSUME NEW i
  PROVE  /\ Operands(i) = Ops(f, i)
         /\ \A u \in Instrs : u \in Users(i) <=> i \in Ops(f, u)
         /\ Users(i) \subseteq Instrs
BY DEF Operands, Ops, Users

LEMMA HoistInvInit == Init => HoistInv
<1> SUFFICES ASSUME Init PROVE HoistInv
  OBVIOUS
<1>1. f \in Functions /\ order = f.order /\ loop = 0 /\ phase = "idle"
      /\ loopDefinedValues = {} /\ worklist = {}
      /\ invariantValues = {} /\ invariantSequence = << >> /\ rest = << >>
  BY DEF Init
<1>2. /\ f.order \in [Blocks -> Seq(Instrs)]
      /\ Len(f.loops) \in Nat /\ 1 <= Len(f.loops)
  BY <1>1, TheFirstLoop
<1>3. 0 \in 0..Len(f.loops)
  BY <1>2
<1>4. << >> \in Seq(Instrs)
  BY EmptySeq
<1>5. HoistTypeOK
  BY <1>1, <1>2, <1>3, <1>4 DEF HoistTypeOK
<1>6. NotCalled
  BY <1>1 DEF NotCalled
<1>7. loop # 1
  BY <1>1
<1> QED
  BY <1>5, <1>6, <1>7 DEF HoistInv

LEMMA WithoutTyped ==
  ASSUME NEW S, NEW s \in Seq(S), NEW i
  PROVE  Without(s, i) \in Seq(S)
<1>1. CASE i \in ToSet(s)
  <2> DEFINE k == CHOOSE j \in 1..Len(s) : s[j] = i
  <2>1. k \in 1..Len(s)
    BY <1>1, Placing
  <2>2. Without(s, i) = RemoveAt(s, k)
    BY <1>1 DEF Without
  <2> HIDE DEF k
  <2> QED
    BY <2>1, <2>2, RemovedFrom
<1>2. CASE i \notin ToSet(s)
  BY <1>2 DEF Without
<1> QED
  BY <1>1, <1>2

LEMMA HoistTypes == HoistTypeOK /\ NotCalled /\ Next => HoistTypeOK' /\ NotCalled'
<1> SUFFICES ASSUME HoistTypeOK, NotCalled, Next PROVE HoistTypeOK' /\ NotCalled'
  OBVIOUS
<1>1. /\ f \in Functions
      /\ order \in [Blocks -> Seq(Instrs)]
      /\ loop \in 0..Len(f.loops)
      /\ loopDefinedValues \subseteq Instrs /\ worklist \subseteq Instrs
      /\ invariantValues \subseteq Instrs
      /\ invariantSequence \in Seq(Instrs) /\ rest \in Seq(Instrs)
  BY DEF HoistTypeOK
<1>2. f.loops \in Seq(Loops) /\ Len(f.loops) \in Nat
  BY <1>1, TheFirstLoop
<1>3. loop \in Nat /\ loop <= Len(f.loops)
  BY <1>1, <1>2
<1>4. \A t \in Seq(Instrs) : \A i : Without(t, i) \in Seq(Instrs)
  BY WithoutTyped
<1>5. \A t \in Seq(Instrs) : \A i \in Instrs : Append(t, i) \in Seq(Instrs)
  BY AppendProperties
<1>6. CASE Begin
  <2>1. /\ phase' = "mark" /\ loop' = loop + 1 /\ loop < Len(f.loops)
        /\ loopDefinedValues' = loopDefinedValues \cup InLoop(loop')
        /\ worklist' = worklist \cup (InLoop(loop') \ f.fixed)
        /\ UNCHANGED <<f, order, invariantValues, invariantSequence, rest>>
    BY <1>6 DEF Begin
  <2>2. loop' \in 1..Len(f.loops)
    BY <1>2, <1>3, <2>1
  <2>3. f.loops[loop'] \in Loops
    BY <1>2, <2>2, ElementOfSeq
  <2>4. f.loops[loop'].blocks \subseteq Blocks
    BY <2>3 DEF Loops
  <2>5. \A t \in Seq(Instrs) : ToSet(t) \subseteq Instrs
    BY Elements
  <2>6. InLoop(loop') \subseteq Instrs
    BY <1>1, <2>4, <2>5 DEF InLoop
  <2>7. HoistTypeOK'
    BY <1>1, <1>2, <2>1, <2>2, <2>6 DEF HoistTypeOK
  <2>8. loop' # 0
    BY <1>2, <2>2
  <2> QED
    BY <2>7, <2>8 DEF NotCalled
<1>7. CASE \E i \in worklist : Examine(i)
  <2>1. PICK i \in worklist : Examine(i)
    BY <1>7
  <2>2. /\ phase = "mark"
        /\ UNCHANGED <<f, order, loop, phase, loopDefinedValues, rest>>
        /\ \/ /\ invariantValues' = invariantValues \cup {i}
              /\ invariantSequence' = Listed(i)
              /\ worklist' = (worklist \ {i}) \cup Recheck(i)
           \/ /\ worklist' = worklist \ {i}
              /\ UNCHANGED <<invariantValues, invariantSequence>>
    BY <2>1 DEF Examine
  <2>3. i \in Instrs /\ Listed(i) \in Seq(Instrs)
    BY <1>1, <1>4, <1>5 DEF Listed
  <2>4. Recheck(i) \subseteq Instrs
    BY OperandsOf DEF Recheck
  <2>5. /\ worklist' \subseteq Instrs /\ invariantValues' \subseteq Instrs
        /\ invariantSequence' \in Seq(Instrs)
    BY <1>1, <2>2, <2>3, <2>4
  <2>6. HoistTypeOK'
    BY <1>1, <2>2, <2>5 DEF HoistTypeOK
  <2>7. loop' # 0
    BY <2>2 DEF NotCalled
  <2> QED
    BY <2>6, <2>7 DEF NotCalled
<1>8. CASE StartMove
  BY <1>1, <1>8 DEF StartMove, HoistTypeOK, NotCalled
<1>9. CASE Move
  <2>1. /\ phase = "move" /\ rest # << >>
        /\ order' = [b \in Blocks |->
                       IF b = Preheader THEN Append(Without(order[b], Head(rest)), Head(rest))
                       ELSE Without(order[b], Head(rest))]
        /\ rest' = Tail(rest)
        /\ UNCHANGED <<f, loop, phase, loopDefinedValues, worklist, invariantValues,
                       invariantSequence>>
    BY <1>9 DEF Move
  <2>2. Head(rest) \in Instrs /\ Tail(rest) \in Seq(Instrs)
    BY <1>1, <2>1, HeadTailProperties
  <2>3. order' \in [Blocks -> Seq(Instrs)]
    BY <1>1, <1>4, <1>5, <2>1, <2>2
  <2>4. HoistTypeOK'
    BY <1>1, <2>1, <2>2, <2>3 DEF HoistTypeOK
  <2>5. loop' # 0
    BY <2>1 DEF NotCalled
  <2> QED
    BY <2>4, <2>5 DEF NotCalled
<1>10. CASE Return
  BY <1>1, <1>10 DEF Return, HoistTypeOK, NotCalled
<1>11. CASE Returned
  BY <1>1, <1>11 DEF Returned, vars, HoistTypeOK, NotCalled
<1> QED
  BY <1>6, <1>7, <1>8, <1>9, <1>10, <1>11 DEF Next, Run

------------------------------------------------------------------------------
\* The first call.
LEMMA BeginKeeps ==
  ASSUME HoistTypeOK, NotCalled, Begin, loop' = 1
  PROVE  Marked' /\ Sequenced' /\ InTurn' /\ Placed'
<1>1. f \in Functions /\ loop \in 0..Len(f.loops)
  BY DEF HoistTypeOK
<1>2. /\ phase' = "mark" /\ loop' = loop + 1
      /\ loopDefinedValues' = loopDefinedValues \cup InLoop(loop')
      /\ worklist' = worklist \cup (InLoop(loop') \ f.fixed)
      /\ UNCHANGED <<f, order, invariantValues, invariantSequence, rest>>
  BY DEF Begin
<1>3. loop = 0
  BY <1>1, <1>2, TheFirstLoop
<1>4. /\ order = f.order /\ worklist = {} /\ rest = << >>
      /\ loopDefinedValues = {} /\ invariantValues = {} /\ invariantSequence = << >>
  BY <1>3 DEF NotCalled
<1>5. InLoop(loop') = Here
  BY <1>4 DEF InLoop, Here, DefinedIn
<1>6. Here' = Here /\ Pre' = Pre
  BY <1>2 DEF Here, Pre
<1>7. Marked'
  BY <1>2, <1>4, <1>5, <1>6 DEF Marked
<1>9. ToSet(<< >>) = {} /\ Distinct(<< >>)
  BY EmptyIsDistinct
<1>10. Sequenced'
  BY <1>2, <1>4, <1>9 DEF Sequenced
<1>11. InTurn'
  BY <1>2, <1>4, <1>9 DEF InTurn
<1>12. Moved' = {}
  BY <1>2 DEF Moved
<1>13. /\ \A b \in Blocks : Distinct(f.order[b])
       /\ \A b, c \in Blocks : b # c => ToSet(f.order[b]) \cap ToSet(f.order[c]) = {}
  BY <1>1, TheFirstLoop
<1>14. Placed'
  BY <1>2, <1>4, <1>6, <1>12, <1>13 DEF Placed
<1> QED
  BY <1>7, <1>10, <1>11, <1>14

\* An instruction found invariant is in the loop, and invariant.
LEMMA FoundInvariant ==
  ASSUME HoistTypeOK, Tame(f), Marked, NEW i \in worklist, IsInvariant(i)
  PROVE  i \in Here \ f.fixed /\ i \in LoopInvariant(f, 1)
<1>1. /\ loopDefinedValues = Here /\ invariantValues \subseteq LoopInvariant(f, 1)
      /\ worklist \cap f.fixed = {}
      /\ \A x \in worklist \ Here : Operands(x) \cap invariantValues # {}
  BY DEF Marked
<1>2. Ops(f, i) \cap Here \subseteq invariantValues
  BY <1>1, OperandsOf DEF IsInvariant
<1>3. LoopInvariant(f, 1) \subseteq Here
  BY InvariantsAreLeast DEF Here
<1>4. i \in Instrs
  BY DEF HoistTypeOK
<1>5. \A x \in Instrs \ (Here \cup f.fixed) :
        \/ Ops(f, x) \cap Here = {}
        \/ ~(Ops(f, x) \cap Here \subseteq LoopInvariant(f, 1))
  BY DEF Tame, Ops, Here
<1>6. i \in Here
  BY <1>1, <1>2, <1>3, <1>4, <1>5, OperandsOf
<1> QED
  BY <1>1, <1>2, <1>6, InvariantsAreLeast DEF Here

LEMMA ExamineKeeps ==
  ASSUME HoistTypeOK, Tame(f), Marked, Sequenced, InTurn, Placed,
         NEW i \in worklist, Examine(i)
  PROVE  Marked' /\ Sequenced' /\ InTurn' /\ Placed'
<1>1. /\ f \in Functions /\ worklist \subseteq Instrs /\ invariantValues \subseteq Instrs
      /\ invariantSequence \in Seq(Instrs)
  BY DEF HoistTypeOK
<1>2. /\ phase = "mark"
      /\ UNCHANGED <<f, order, loop, phase, loopDefinedValues, rest>>
  BY DEF Examine
<1> DEFINE V == invariantValues
           W == worklist
           L == LoopInvariant(f, 1)
<1>3. /\ loopDefinedValues = Here /\ V \subseteq L
      /\ \A j \in V : Ops(f, j) \cap Here \subseteq V
      /\ W \cap f.fixed = {}
      /\ \A x \in W \ Here : Ops(f, x) \cap V # {}
      /\ \A x \in Here \ (f.fixed \cup V) : Ops(f, x) \cap Here \subseteq V => x \in W
  BY OperandsOf DEF Marked
<1>4. /\ Distinct(invariantSequence) /\ ToSet(invariantSequence) = V
      /\ \A j \in V : \A v \in Ops(f, j) \cap V : j \in W \/ Before(invariantSequence, v, j)
  BY OperandsOf DEF Sequenced
<1>5. Here' = Here /\ Pre' = Pre /\ L' = L /\ \A x : Operands(x)' = Ops(f, x)
  BY <1>2 DEF Here, Pre, Operands, Ops
<1>6. L \subseteq Here \ f.fixed
  BY InvariantsAreLeast DEF Here
<1>7. Here \subseteq Instrs
  BY <1>1, TheFirstLoop DEF Here
<1>8. rest = << >> /\ order = f.order
  BY <1>2 DEF InTurn
<1>9. << >> \in Seq(Instrs) /\ ToSet(<< >>) = {} /\ Distinct(<< >>)
  BY EmptyIsDistinct
<1>10. InTurn'
  BY <1>2, <1>8, <1>9 DEF InTurn
<1>11. Moved' = {} /\ Moved = {}
  BY <1>2 DEF Moved
<1>12. Placed'
  <2>1. /\ \A b \in Blocks : Distinct(order[b])
        /\ \A b \in Blocks \ {Pre} : ToSet(order[b]) = ToSet(f.order[b]) \ {}
        /\ ToSet(order[Pre]) = ToSet(f.order[Pre]) \cup {}
        /\ \A b \in Blocks : \A x, j \in ToSet(order[b]) :
             Before(f.order[b], x, j) => Before(order[b], x, j)
    BY <1>11 DEF Placed
  <2> QED
    BY <1>2, <1>5, <1>11, <2>1 DEF Placed
<1>13. CASE IsInvariant(i)
  <2>1. /\ invariantValues' = V \cup {i}
        /\ invariantSequence' = Append(Without(invariantSequence, i), i)
        /\ worklist' = (W \ {i}) \cup Recheck(i)
    BY <1>13 DEF Examine, Listed
  <2>2. \A x : x \in Recheck(i) <=> x \in Instrs \ f.fixed /\ i \in Ops(f, x)
    BY OperandsOf DEF Recheck
  <2>3. i \in Here \ f.fixed /\ i \in L
    BY <1>13, FoundInvariant
  <2>4. i \in Instrs
    BY <1>1
  <2> DEFINE t == Without(invariantSequence, i)
  <2>5. /\ t \in Seq(Instrs) /\ Distinct(t) /\ ToSet(t) = V \ {i}
        /\ \A a, b : Before(t, a, b) <=> Before(invariantSequence, a, b) /\ a # i /\ b # i
    BY <1>1, <1>4, WithoutIt
  <2> HIDE DEF t
  <2>6. /\ Distinct(Append(t, i)) /\ ToSet(Append(t, i)) = ToSet(t) \cup {i}
        /\ \A a, b : Before(Append(t, i), a, b) <=> Before(t, a, b) \/ (a \in ToSet(t) /\ b = i)
    BY <2>4, <2>5, AddedLast
  <2>7. invariantSequence' = Append(t, i)
    BY <2>1 DEF t
  <2> DEFINE N == V \cup {i}
             X == (W \ {i}) \cup Recheck(i)
             r == Append(t, i)
  <2>8. Distinct(r) /\ ToSet(r) = N
        /\ \A a, b : Before(r, a, b) <=>
             (Before(invariantSequence, a, b) /\ a # i /\ b # i) \/ (a \in V \ {i} /\ b = i)
    BY <2>5, <2>6
  <2> HIDE DEF r
  <2>9. \A j \in N : \A v \in Ops(f, j) \cap N : j \in X \/ Before(r, v, j)
    <3> SUFFICES ASSUME NEW j \in N, NEW v \in Ops(f, j) \cap N
                 PROVE  j \in X \/ Before(r, v, j)
      OBVIOUS
    <3>1. CASE v = i
      BY <1>1, <1>3, <1>6, <2>2, <2>3, <3>1
    <3>2. CASE v # i /\ j = i
      BY <2>8, <3>2
    <3>3. CASE v # i /\ j # i
      BY <1>4, <2>8, <3>3
    <3> QED
      BY <3>1, <3>2, <3>3
  <2>10. Sequenced'
    BY <1>5, <2>1, <2>7, <2>8, <2>9 DEF Sequenced, r
  <2>11. \A x \in X \ Here : Ops(f, x) \cap N # {}
    BY <1>3, <2>2
  <2>12. \A x \in Here \ (f.fixed \cup N) : Ops(f, x) \cap Here \subseteq N => x \in X
    <3> SUFFICES ASSUME NEW x \in Here \ (f.fixed \cup N), Ops(f, x) \cap Here \subseteq N
                 PROVE  x \in X
      OBVIOUS
    <3>1. CASE i \in Ops(f, x)
      BY <1>7, <2>2, <3>1
    <3>2. CASE i \notin Ops(f, x)
      BY <1>3, <3>2
    <3> QED
      BY <3>1, <3>2
  <2>13. N \subseteq L /\ X \cap f.fixed = {}
         /\ \A j \in N : Ops(f, j) \cap Here \subseteq N
    <3>1. Ops(f, i) \cap Here \subseteq V
      BY <1>3, <1>13, OperandsOf DEF IsInvariant
    <3> QED
      BY <1>3, <2>2, <2>3, <3>1
  <2>14. Marked'
    <3>1. invariantValues' = N /\ worklist' = X
      BY <2>1
    <3> HIDE DEF N, X
    <3> QED
      BY <1>2, <1>3, <1>5, <2>11, <2>12, <2>13, <3>1 DEF Marked
  <2> QED
    BY <1>10, <1>12, <2>10, <2>14
<1>14. CASE ~IsInvariant(i)
  <2>1. worklist' = W \ {i} /\ UNCHANGED <<invariantValues, invariantSequence>>
    BY <1>14 DEF Examine
  <2>2. ~(Ops(f, i) \cap Here \subseteq V)
    BY <1>3, <1>14, OperandsOf DEF IsInvariant
  <2>3. i \notin V
    BY <1>3, <2>2
  <2>4. Sequenced'
    BY <1>4, <1>5, <2>1, <2>3 DEF Sequenced
  <2>5. /\ \A x \in Here \ (f.fixed \cup V) : Ops(f, x) \cap Here \subseteq V => x \in W \ {i}
        /\ (W \ {i}) \cap f.fixed = {}
        /\ \A x \in (W \ {i}) \ Here : Ops(f, x) \cap V # {}
    BY <1>3, <2>2
  <2>6. Marked'
    <3>1. invariantValues' = V
      BY <2>1
    <3> QED
      BY <1>2, <1>3, <1>5, <2>1, <2>5, <3>1 DEF Marked
  <2> QED
    BY <1>10, <1>12, <2>4, <2>6
<1> QED
  BY <1>13, <1>14

LEMMA StartMoveKeeps ==
  ASSUME HoistTypeOK, Marked, Sequenced, InTurn, Placed, StartMove
  PROVE  Marked' /\ Sequenced' /\ InTurn' /\ Placed'
<1>1. /\ phase = "mark" /\ worklist = {} /\ phase' = "move" /\ rest' = invariantSequence
      /\ UNCHANGED <<f, order, loop, loopDefinedValues, worklist, invariantValues,
                     invariantSequence>>
  BY DEF StartMove
<1>2. Here' = Here /\ Pre' = Pre /\ LoopInvariant(f, 1)' = LoopInvariant(f, 1)
      /\ \A x : Operands(x)' = Operands(x)
  BY <1>1 DEF Here, Pre, Operands
<1>3. Marked'
  BY <1>1, <1>2 DEF Marked
<1>4. Sequenced'
  BY <1>1, <1>2 DEF Sequenced
<1>5. Distinct(invariantSequence) /\ ToSet(invariantSequence) = invariantValues
  BY DEF Sequenced
<1>6. InTurn'
  BY <1>1, <1>5 DEF InTurn
<1>7. Moved = {} /\ Moved' = {}
  BY <1>1, <1>5 DEF Moved
<1>8. Placed'
  BY <1>1, <1>2, <1>7 DEF Placed
<1> QED
  BY <1>3, <1>4, <1>6, <1>8

LEMMA MoveKeeps ==
  ASSUME HoistTypeOK, loop = 1, Marked, Sequenced, InTurn, Placed, Move
  PROVE  Marked' /\ Sequenced' /\ InTurn' /\ Placed'
<1> DEFINE h == Head(rest)
           t == Tail(rest)
           seq == invariantSequence
           V == invariantValues
<1>1. /\ f \in Functions /\ rest \in Seq(Instrs) /\ order \in [Blocks -> Seq(Instrs)]
      /\ seq \in Seq(Instrs)
  BY DEF HoistTypeOK
<1>2. /\ phase = "move" /\ rest # << >>
      /\ rest' = t
      /\ UNCHANGED <<f, loop, phase, loopDefinedValues, worklist, invariantValues,
                     invariantSequence>>
  BY DEF Move
<1>3. order' = [b \in Blocks |-> IF b = Pre THEN Append(Without(order[b], h), h)
                                 ELSE Without(order[b], h)]
  BY DEF Move, Preheader, Pre
<1>4. Here' = Here /\ Pre' = Pre /\ LoopInvariant(f, 1)' = LoopInvariant(f, 1)
      /\ \A x : Operands(x)' = Operands(x)
  BY <1>2 DEF Here, Pre, Operands
<1>5. Marked'
  BY <1>2, <1>4 DEF Marked
<1>6. Sequenced'
  BY <1>2, <1>4 DEF Sequenced
<1>7. /\ Distinct(rest) /\ ToSet(rest) \subseteq V
      /\ \A i, j \in ToSet(rest) : Before(rest, i, j) <=> Before(seq, i, j)
      /\ \A i \in V \ ToSet(rest), j \in ToSet(rest) : Before(seq, i, j)
  BY DEF InTurn
<1>8. /\ h \in Instrs /\ h \in ToSet(rest)
      /\ Distinct(t) /\ ToSet(t) = ToSet(rest) \ {h}
      /\ \A a, b \in ToSet(t) : Before(t, a, b) <=> Before(rest, a, b)
      /\ \A a \in ToSet(t) : Before(rest, h, a)
  BY <1>1, <1>2, <1>7, TakenFirst
<1> HIDE DEF h, t
<1>9. InTurn'
  <2>1. \A i, j \in ToSet(t) : Before(t, i, j) <=> Before(seq, i, j)
    BY <1>7, <1>8
  <2>2. \A i \in V \ ToSet(t), j \in ToSet(t) : Before(seq, i, j)
    BY <1>7, <1>8
  <2>3. /\ rest' = t /\ invariantSequence' = seq /\ invariantValues' = V
        /\ phase' = "move" /\ ToSet(t) \subseteq V
    BY <1>2, <1>7, <1>8
  <2> QED
    BY <1>8, <2>1, <2>2, <2>3 DEF InTurn
<1>10. /\ Moved = V \ ToSet(rest) /\ Moved' = Moved \cup {h} /\ h \in V /\ h \notin Moved
  <2>1. Moved = V \ ToSet(rest) /\ Moved' = V \ ToSet(t)
    BY <1>2 DEF Moved
  <2> QED
    BY <1>7, <1>8, <2>1
<1> DEFINE M == Moved
           was(b) == f.order[b]
<1>11. /\ \A b \in Blocks : Distinct(order[b])
       /\ \A b \in Blocks \ {Pre} : ToSet(order[b]) = ToSet(was(b)) \ M
       /\ ToSet(order[Pre]) = ToSet(was(Pre)) \cup M
       /\ \A b \in Blocks : \A i, j \in ToSet(order[b]) :
            Before(was(b), i, j) => Before(order[b], i, j)
       /\ \A i \in ToSet(was(Pre)), j \in M : Before(order[Pre], i, j)
       /\ \A i, j \in M : Before(seq, i, j) => Before(order[Pre], i, j)
  BY DEF Placed
<1>12. Pre \in Blocks /\ h \notin ToSet(was(Pre))
  <2>1. V \subseteq Here
    BY InvariantsAreLeast DEF Marked, Here
  <2>2. Pre \in Blocks \ f.loops[1].blocks
    BY <1>1, TheFirstLoop DEF Pre
  <2> QED
    BY <1>1, <1>10, <2>1, <2>2, TheFirstLoop DEF Here
<1>13. \A b \in Blocks : /\ Without(order[b], h) \in Seq(Instrs)
                         /\ Distinct(Without(order[b], h))
                         /\ ToSet(Without(order[b], h)) = ToSet(order[b]) \ {h}
                         /\ \A i, j : Before(Without(order[b], h), i, j)
                                        <=> Before(order[b], i, j) /\ i # h /\ j # h
  <2>1. \A s \in Seq(Instrs) : Distinct(s) =>
          /\ Without(s, h) \in Seq(Instrs)
          /\ Distinct(Without(s, h))
          /\ ToSet(Without(s, h)) = ToSet(s) \ {h}
          /\ \A i, j : Before(Without(s, h), i, j) <=> Before(s, i, j) /\ i # h /\ j # h
    BY WithoutIt
  <2> QED
    BY <1>1, <1>11, <2>1
<1> DEFINE w == Without(order[Pre], h)
<1>14. /\ Distinct(Append(w, h)) /\ ToSet(Append(w, h)) = ToSet(w) \cup {h}
       /\ \A i, j : Before(Append(w, h), i, j) <=> Before(w, i, j) \/ (i \in ToSet(w) /\ j = h)
  <2> HIDE DEF w
  <2>1. w \in Seq(Instrs) /\ Distinct(w) /\ h \notin ToSet(w)
    BY <1>12, <1>13 DEF w
  <2> QED
    BY <1>8, <2>1, AddedLast
<1>15. /\ Distinct(order'[Pre])
       /\ ToSet(order'[Pre]) = ToSet(order[Pre]) \cup {h}
       /\ \A i, j : Before(order'[Pre], i, j) <=>
            (Before(order[Pre], i, j) /\ i # h /\ j # h)
              \/ (i \in ToSet(order[Pre]) \ {h} /\ j = h)
  <2>1. order'[Pre] = Append(w, h)
    BY <1>3, <1>12
  <2>2. /\ ToSet(w) = ToSet(order[Pre]) \ {h}
        /\ \A i, j : Before(w, i, j) <=> Before(order[Pre], i, j) /\ i # h /\ j # h
    BY <1>12, <1>13
  <2> HIDE DEF w
  <2>3. Distinct(order'[Pre])
    BY <1>14, <2>1
  <2>4. ToSet(order'[Pre]) = ToSet(order[Pre]) \cup {h}
    BY <1>14, <2>1, <2>2
  <2>5. \A i, j : Before(order'[Pre], i, j) <=>
            (Before(order[Pre], i, j) /\ i # h /\ j # h)
              \/ (i \in ToSet(order[Pre]) \ {h} /\ j = h)
    BY <1>14, <2>1, <2>2
  <2> QED
    BY <2>3, <2>4, <2>5
<1>16. \A b \in Blocks \ {Pre} :
         /\ Distinct(order'[b])
         /\ ToSet(order'[b]) = ToSet(order[b]) \ {h}
         /\ \A i, j : Before(order'[b], i, j) <=> Before(order[b], i, j) /\ i # h /\ j # h
  <2>1. \A b \in Blocks \ {Pre} : order'[b] = Without(order[b], h)
    BY <1>3
  <2> QED
    BY <1>13, <2>1
<1> HIDE DEF w
<1>17. /\ \A b \in Blocks : Distinct(order'[b])
       /\ \A b \in Blocks \ {Pre} : ToSet(order'[b]) = ToSet(was(b)) \ (M \cup {h})
       /\ ToSet(order'[Pre]) = ToSet(was(Pre)) \cup (M \cup {h})
  BY <1>11, <1>12, <1>15, <1>16
<1>18. ASSUME NEW b \in Blocks, NEW i \in ToSet(order'[b]), NEW j \in ToSet(order'[b]),
              Before(was(b), i, j)
       PROVE  Before(order'[b], i, j)
  <2>1. CASE b # Pre
    BY <1>11, <1>16, <1>18, <2>1
  <2>2. CASE b = Pre
    <3>1. Distinct(was(Pre)) /\ was(Pre) \in Seq(Instrs)
      BY <1>1, <1>12, TheFirstLoop
    <3>2. i \in ToSet(was(Pre)) /\ j \in ToSet(was(Pre))
      BY <1>18, <2>2, <3>1, OrderIsStrict
    <3>3. i # h /\ j # h
      BY <1>12, <3>2
    <3> QED
      BY <1>11, <1>12, <1>15, <1>18, <2>2, <3>2, <3>3
  <2> QED
    BY <2>1, <2>2
<1>19. \A i \in ToSet(was(Pre)), j \in M \cup {h} : Before(order'[Pre], i, j)
  BY <1>10, <1>11, <1>12, <1>15
<1>20. ASSUME NEW i \in M \cup {h}, NEW j \in M \cup {h}, Before(seq, i, j)
       PROVE  Before(order'[Pre], i, j)
  <2>1. Distinct(seq)
    BY DEF Sequenced
  <2>2. i # j /\ ~Before(seq, j, i)
    BY <1>1, <1>20, <2>1, OrderIsStrict
  <2>3. CASE i = h
    BY <1>7, <1>8, <1>10, <2>2, <2>3
  <2>4. CASE i # h /\ j = h
    BY <1>11, <1>15, <2>4
  <2>5. CASE i # h /\ j # h
    BY <1>11, <1>15, <1>20, <2>5
  <2> QED
    BY <2>3, <2>4, <2>5
<1>21. Placed'
  <2>1. f.order' = f.order /\ Pre' = Pre /\ invariantSequence' = seq /\ Moved' = M \cup {h}
    BY <1>2, <1>4, <1>10
  <2> HIDE DEF M
  <2> QED
    BY <1>17, <1>18, <1>19, <1>20, <2>1 DEF Placed
<1> QED
  BY <1>5, <1>6, <1>9, <1>21

LEMMA ReturnKeeps ==
  ASSUME HoistTypeOK, Marked, Sequenced, InTurn, Placed, Return
  PROVE  Marked' /\ Sequenced' /\ InTurn' /\ Placed'
<1>1. /\ phase = "move" /\ rest = << >> /\ phase' \in {"idle", "returned"}
      /\ UNCHANGED <<f, order, loop, loopDefinedValues, worklist, invariantValues,
                     invariantSequence, rest>>
  BY DEF Return
<1>2. Here' = Here /\ Pre' = Pre /\ LoopInvariant(f, 1)' = LoopInvariant(f, 1)
      /\ \A x : Operands(x)' = Operands(x)
  BY <1>1 DEF Here, Pre, Operands
<1>3. Marked'
  BY <1>1, <1>2 DEF Marked
<1>4. Sequenced'
  BY <1>1, <1>2 DEF Sequenced
<1>5. InTurn'
  BY <1>1 DEF InTurn
<1>6. Moved' = Moved
  BY <1>1 DEF Moved
<1>7. Placed'
  BY <1>1, <1>2, <1>6 DEF Placed
<1> QED
  BY <1>3, <1>4, <1>5, <1>7

LEMMA HoistInvNext ==
  ASSUME \A g \in Functions : Tame(g), HoistInv, [Next]_vars
  PROVE  HoistInv'
<1>1. /\ HoistTypeOK /\ NotCalled
      /\ loop = 1 => Marked /\ Sequenced /\ InTurn /\ Placed
  BY DEF HoistInv
<1>2. f \in Functions /\ Tame(f)
  BY <1>1 DEF HoistTypeOK
<1>3. CASE Next
  <2>1. HoistTypeOK' /\ NotCalled'
    BY <1>1, <1>3, HoistTypes
  <2>2. ASSUME loop' = 1 PROVE Marked' /\ Sequenced' /\ InTurn' /\ Placed'
    <3>1. CASE Begin
      BY <1>1, <2>2, <3>1, BeginKeeps
    <3>2. CASE \E i \in worklist : Examine(i)
      <4>1. PICK i \in worklist : Examine(i)
        BY <3>2
      <4>2. loop = 1
        BY <2>2, <4>1 DEF Examine
      <4> QED
        BY <1>1, <1>2, <4>1, <4>2, ExamineKeeps
    <3>3. CASE StartMove
      BY <1>1, <2>2, <3>3, StartMoveKeeps DEF StartMove
    <3>4. CASE Move
      BY <1>1, <2>2, <3>4, MoveKeeps DEF Move
    <3>5. CASE Return
      BY <1>1, <2>2, <3>5, ReturnKeeps DEF Return
    <3>6. CASE Returned
      BY <1>1, <2>2, <3>6 DEF Returned, vars, Marked, Sequenced, InTurn, Placed, Here, Pre,
           Moved, Operands
    <3> QED
      BY <1>3, <3>1, <3>2, <3>3, <3>4, <3>5, <3>6 DEF Next, Run
  <2> QED
    BY <2>1, <2>2 DEF HoistInv
<1>4. CASE UNCHANGED vars
  BY <1>1, <1>4 DEF vars, HoistInv, HoistTypeOK, NotCalled, Marked, Sequenced, InTurn, Placed,
       Here, Pre, Moved, Operands
<1> QED
  BY <1>3, <1>4

------------------------------------------------------------------------------
LEMMA WholeLoopMoved ==
  ASSUME HoistInv, loop = 1, phase \in {"idle", "returned"}
  PROVE  Moved = LoopInvariant(f, 1)
<1>1. Marked /\ InTurn
  BY DEF HoistInv
<1>2. /\ worklist = {} /\ invariantValues \subseteq LoopInvariant(f, 1)
      /\ \A i \in Here \ (f.fixed \cup invariantValues) :
           ~(Ops(f, i) \cap Here \subseteq invariantValues)
  BY <1>1, OperandsOf DEF Marked
<1>3. LoopInvariant(f, 1) \subseteq Here \ f.fixed
  BY InvariantsAreLeast DEF Here
<1>4. LoopInvariant(f, 1) \subseteq invariantValues
  <2>1. /\ invariantValues \subseteq Here \ f.fixed
        /\ \A i \in Here \ f.fixed : Ops(f, i) \cap Here \subseteq invariantValues
                                       => i \in invariantValues
    BY <1>2, <1>3
  <2> QED
    BY <2>1, InvariantsAreLeast DEF Here
<1>5. rest = << >>
  BY <1>1 DEF InTurn
<1>6. Moved = invariantValues
  BY <1>5, EmptyIsDistinct DEF Moved
<1> QED
  BY <1>2, <1>4, <1>6

LEMMA InvariantGivesHoistsExactly == HoistInv => HoistsExactly
<1> SUFFICES ASSUME HoistInv, loop = 1, phase \in {"idle", "returned"}
             PROVE  HoistsExactly
  BY DEF HoistsExactly
<1>1. Moved = LoopInvariant(f, 1)
  BY WholeLoopMoved
<1>2. Placed
  BY DEF HoistInv
<1> QED
  BY <1>1, <1>2, Zenon DEF HoistsExactly, Placed, Pre

LEMMA InvariantGivesDominance ==
  ASSUME HoistInv, Len(f.loops) = 1
  PROVE  DefinitionsDominateUses
<1> DEFINE D == Dominance(f.succ)
           was(b) == ToSet(f.order[b])
           now(b) == ToSet(order[b])
           M == Moved
           seq == invariantSequence
           Inside == f.loops[1].blocks
<1>1. f \in Functions /\ loop \in {0, 1} /\ order \in [Blocks -> Seq(Instrs)] /\ NotCalled
      /\ seq \in Seq(Instrs)
  BY DEF HoistInv, HoistTypeOK
<1>2. InSSAForm(f, f.order)
  BY <1>1, FunctionsAssumption DEF WellFormed
<1>3. CASE loop = 0
  BY <1>1, <1>2, <1>3 DEF NotCalled, DefinitionsDominateUses
<1>4. CASE loop = 1 /\ phase = "mark"
  BY <1>2, <1>4 DEF HoistInv, InTurn, DefinitionsDominateUses
<1>5. CASE loop = 1 /\ phase # "mark"
  <2>1. Marked /\ Sequenced /\ InTurn /\ Placed
    BY <1>5 DEF HoistInv
  <2>2. /\ Pre \in Blocks \ Inside /\ Inside \subseteq Blocks
        /\ f.succ \in CFGs /\ f.loops[1] \in Loops /\ Simplified(f.succ, f.loops[1])
        /\ \A b, c \in Blocks : b # c => was(b) \cap was(c) = {}
        /\ \A b \in Blocks : \A i \in was(b) : i \in Here <=> b \in Inside
    BY <1>1, TheFirstLoop DEF Here, Pre
  <2>3. /\ \A b \in Inside : <<Pre, b>> \in D /\ <<b, Pre>> \notin D
        /\ \A b \in Inside, d \in Blocks \ Inside : <<d, b>> \in D => <<d, Pre>> \in D
        /\ \A b \in Blocks : <<b, b>> \in D
        /\ \A a, b, c \in Blocks : <<a, b>> \in D /\ <<b, c>> \in D => <<a, c>> \in D
    BY <2>2, PreheaderDominates, NothingInsideDominates, DominatorsFromOutside,
       DominatesItself, DominanceTransitive DEF Pre
  <2>4. /\ M = invariantValues \ ToSet(rest) /\ M \subseteq Here
        /\ \A i \in M : Ops(f, i) \cap Here \subseteq invariantValues
        /\ \A i \in M : \A v \in Ops(f, i) \cap invariantValues : Before(seq, v, i)
    <3>1. M = invariantValues \ ToSet(rest) /\ worklist = {}
      BY <1>5, <2>1 DEF Moved, Marked
    <3>2. LoopInvariant(f, 1) \subseteq Here
      BY InvariantsAreLeast DEF Here
    <3> QED
      BY <2>1, <3>1, <3>2, OperandsOf DEF Marked, Sequenced
  <2>5. ASSUME NEW i \in M, NEW v \in Ops(f, i) \cap Here
        PROVE  v \in M /\ Before(seq, v, i)
    <3>1. v \in invariantValues /\ Before(seq, v, i)
      BY <2>4
    <3>2. ~Before(seq, i, v)
      BY <1>1, <2>1, <3>1, OrderIsStrict DEF Sequenced
    <3>3. v \notin ToSet(rest)
      BY <2>1, <2>4, <3>2 DEF InTurn
    <3> QED
      BY <2>4, <3>1, <3>3
  <2>6. /\ \A b \in Blocks \ {Pre} : now(b) = was(b) \ M
        /\ now(Pre) = was(Pre) \cup M
        /\ \A b \in Blocks : \A i, j \in now(b) :
             Before(f.order[b], i, j) => Before(order[b], i, j)
        /\ \A i \in was(Pre), j \in M : Before(order[Pre], i, j)
        /\ \A i, j \in M : Before(seq, i, j) => Before(order[Pre], i, j)
    BY <2>1 DEF Placed
  <2> SUFFICES ASSUME NEW i \in Instrs, NEW u \in f.uses[i], NEW b \in UseBlocks(f, order, i, u)
               PROVE  Available(f, order, u[1], i, b, D)
    BY DEF DefinitionsDominateUses, InSSAForm
  <2> DEFINE v == u[1]
  <2>7. v \in Ops(f, i)
    BY DEF Ops
  <2>8. u[2] \in Blocks
    BY <1>1, FunctionsAssumption DEF WellFormed
  <2>9. \A c \in UseBlocks(f, f.order, i, u) : Available(f, f.order, v, i, c, D)
    BY <1>2 DEF InSSAForm
  <2> HIDE DEF D, v
  <2>10. b \in Blocks
    BY <2>8 DEF UseBlocks
  \* Where a definition was that reached some block, and is now.
  <2>11. ASSUME NEW c \in Blocks, NEW x \in Blocks, v \in was(c), <<c, x>> \in D
         PROVE  \E d \in Blocks : v \in now(d) /\ <<d, x>> \in D
    <3>1. CASE v \in M
      <4>1. c \in Inside
        BY <2>2, <2>4, <2>11, <3>1
      <4>2. <<Pre, x>> \in D /\ v \in now(Pre)
        BY <2>2, <2>3, <2>6, <2>11, <3>1, <4>1
      <4> QED
        BY <2>2, <4>2
    <3>2. CASE v \notin M
      BY <2>6, <2>11, <3>2
    <3> QED
      BY <3>1, <3>2
  <2>12. CASE i \in f.phis
    <3>1. b = u[2] /\ b \in UseBlocks(f, f.order, i, u)
      BY <2>12 DEF UseBlocks
    <3>2. PICK c \in Blocks : v \in was(c) /\ <<c, b>> \in D
      BY <2>9, <2>12, <3>1 DEF Available
    <3>3. PICK d \in Blocks : v \in now(d) /\ <<d, b>> \in D
      BY <2>10, <2>11, <3>2
    <3> QED
      BY <2>12, <3>3 DEF Available, v
  <2>13. CASE i \notin f.phis
    <3>1. i \in now(b)
      BY <2>13 DEF UseBlocks
    <3>2. ASSUME NEW c \in Blocks, i \in was(c)
          PROVE  \/ v \in was(c) /\ Before(f.order[c], v, i)
                 \/ v \notin was(c) /\ \E d \in Blocks : v \in was(d) /\ <<d, c>> \in D
      <4>1. c \in UseBlocks(f, f.order, i, u)
        BY <2>13, <3>2 DEF UseBlocks
      <4> QED
        BY <2>9, <2>13, <4>1 DEF Available
    <3>3. \/ v \in now(b) /\ Before(order[b], v, i)
          \/ v \notin now(b) /\ \E d \in Blocks : v \in now(d) /\ <<d, b>> \in D
      <4>1. CASE i \in M
        <5>1. b = Pre
          BY <2>6, <2>10, <3>1, <4>1
        <5>2. PICK c \in Inside : i \in was(c)
          BY <1>1, <2>4, <4>1, TheFirstLoop DEF Here
        <5>3. PICK d \in Blocks : v \in was(d) /\ <<d, c>> \in D
          BY <2>2, <2>3, <3>2, <5>2
        <5>4. CASE v \in Here
          BY <2>2, <2>5, <2>6, <2>7, <4>1, <5>1, <5>4
        <5>5. CASE v \notin Here
          <6>1. d \notin Inside /\ <<d, Pre>> \in D /\ v \notin M
            BY <2>2, <2>3, <2>4, <5>3, <5>5
          <6>2. CASE d = Pre
            BY <2>6, <4>1, <5>1, <5>3, <6>2
          <6>3. CASE d # Pre
            <7>1. v \in now(d)
              BY <2>6, <5>3, <6>1, <6>3
            <7>2. v \notin now(Pre)
              BY <2>2, <2>6, <5>3, <6>1, <6>3
            <7> QED
              BY <5>1, <6>1, <7>1, <7>2
          <6> QED
            BY <6>2, <6>3
        <5> QED
          BY <5>4, <5>5
      <4>2. CASE i \notin M
        <5>1. i \in was(b)
          BY <2>6, <2>10, <3>1, <4>2
        <5>2. CASE v \in was(b) /\ v \notin M
          <6>1. v \in now(b)
            BY <2>6, <2>10, <5>2
          <6> QED
            BY <2>6, <2>10, <3>1, <3>2, <5>1, <5>2, <6>1
        <5>3. CASE v \in was(b) /\ v \in M
          <6>1. b \in Inside
            BY <2>2, <2>4, <2>10, <5>3
          <6>2. v \notin now(b)
            BY <2>2, <2>6, <2>10, <5>3, <6>1
          <6> QED
            BY <2>2, <2>3, <2>6, <5>3, <6>1, <6>2
        <5>4. CASE v \notin was(b)
          <6>1. PICK d \in Blocks : v \in was(d) /\ <<d, b>> \in D
            BY <2>10, <3>2, <5>1, <5>4
          <6>2. v \notin now(b)
            <7>1. CASE b = Pre /\ v \in M
              <8>1. d \in Inside
                BY <2>2, <2>4, <6>1, <7>1
              <8> QED
                BY <2>3, <6>1, <7>1, <8>1
            <7>2. CASE b # Pre \/ v \notin M
              BY <2>6, <2>10, <5>4, <7>2
            <7> QED
              BY <7>1, <7>2
          <6> QED
            BY <2>10, <2>11, <6>1, <6>2
        <5> QED
          BY <5>2, <5>3, <5>4
      <4> QED
        BY <4>1, <4>2
    <3> QED
      BY <2>10, <2>13, <3>3 DEF Available, v
  <2> QED
    BY <2>12, <2>13
<1> QED
  BY <1>1, <1>3, <1>4, <1>5

------------------------------------------------------------------------------
THEOREM HoistTypeCorrect == Spec => [](HoistTypeOK /\ NotCalled)
<1>1. HoistTypeOK /\ NotCalled /\ [Next]_vars => (HoistTypeOK /\ NotCalled)'
  <2>1. HoistTypeOK /\ NotCalled /\ UNCHANGED vars => (HoistTypeOK /\ NotCalled)'
    BY DEF HoistTypeOK, NotCalled, vars
  <2> QED
    BY <2>1, HoistTypes
<1>2. Init => HoistTypeOK /\ NotCalled
  BY HoistInvInit DEF HoistInv
<1> QED
  BY <1>1, <1>2, PTL DEF Spec

THEOREM HoistsExactlyTheInvariants ==
  ASSUME \A g \in Functions : Tame(g)
  PROVE  Spec => []HoistsExactly
<1>1. HoistInv /\ [Next]_vars => HoistInv'
  BY HoistInvNext
<1> QED
  BY <1>1, HoistInvInit, InvariantGivesHoistsExactly, PTL DEF Spec

THEOREM HoistingKeepsDominance ==
  ASSUME \A g \in Functions : Tame(g) /\ Len(g.loops) = 1
  PROVE  Spec => []DefinitionsDominateUses
<1>1. HoistInv /\ [Next]_vars => HoistInv'
  BY HoistInvNext
<1>2. HoistInv => DefinitionsDominateUses
  BY InvariantGivesDominance DEF HoistInv, HoistTypeOK
<1> QED
  BY <1>1, <1>2, HoistInvInit, PTL DEF Spec

==============================================================================
