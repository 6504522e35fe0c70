----------------------- MODULE MCDominatorTreeAnalysis -----------------------
(****************************************************************************)
(* Instances of DominatorTreeAnalysis over numbered blocks, 0 the entry.    *)
(* Graphs that differ by a renaming of the other blocks behave alike, so    *)
(* one of them is enough: the one with the least code.                      *)
(****************************************************************************)
EXTENDS DominatorTreeAnalysis, FiniteSets, FiniteSetsExt

CONSTANT MaxSuccs   \* successors of a block; 2 is what br allows

Code(s) ==
  MapThenSumSet(LAMBDA e : 2 ^ (Cardinality(Blocks) * e[1] + e[2]),
                {e \in Blocks \X Blocks : e[2] \in s[e[1]]})

Renamings ==
  {r \in [Blocks -> Blocks] :
     r[Entry] = Entry /\ \A b, c \in Blocks : r[b] = r[c] => b = c}

Rename(s, r) ==
  [b \in Blocks |->
     LET a == CHOOSE x \in Blocks : r[x] = b IN {r[c] : c \in s[a]}]

MCGraphs ==
  {s \in [Blocks -> {S \in SUBSET NonEntry : Cardinality(S) <= MaxSuccs}] :
     \A r \in Renamings : Code(s) <= Code(Rename(s, r))}

==============================================================================
