----------------------------- MODULE ControlFlow -----------------------------
(****************************************************************************)
(* The control flow graph of one LLVM function, as the passes see it        *)
(* through predecessors() and successors(), and the textbook notions of     *)
(* reachability and dominance the passes are judged against.                *)
(*                                                                          *)
(* A graph is a function s: s[b] is the set of successor blocks of b.  The  *)
(* entry block of an LLVM function has no predecessors.  Reachability is    *)
(* given by closed sets and not by paths: a block is reachable iff it is in *)
(* every set that holds the entry and is closed under edges.  That form can *)
(* be evaluated on small graphs and reasoned about on all of them.          *)
(****************************************************************************)
EXTENDS FiniteSets

CONSTANTS Blocks,   \* the basic blocks of the function
          Entry     \* F.getEntryBlock()

ASSUME EntryAssumption == Entry \in Blocks
ASSUME BlocksAssumption == IsFiniteSet(Blocks)

NonEntry == Blocks \ {Entry}

\* Every graph a function over Blocks may have.
CFGs == [Blocks -> SUBSET NonEntry]

Preds(s, b) == {p \in Blocks : b \in s[p]}

\* The sets of blocks that control cannot leave once d is taken out.
ClosedAvoiding(s, d) ==
  {S \in SUBSET Blocks : /\ Entry # d => Entry \in S
                         /\ \A p \in S : \A c \in s[p] : c # d => c \in S}

\* The blocks the entry reaches along paths that do not meet d.
ReachAvoiding(s, d) ==
  LET closed == ClosedAvoiding(s, d)
  IN  {b \in Blocks : \A S \in closed : b \in S}

ClosedFromEntry(s) ==
  {S \in SUBSET Blocks : Entry \in S /\ \A p \in S : s[p] \subseteq S}

Reachable(s) ==
  LET closed == ClosedFromEntry(s)
  IN  {b \in Blocks : \A S \in closed : b \in S}

\* The pairs <<d, b>> such that d dominates b: no path from the entry reaches b
\* without meeting d.  Every block dominates an unreachable one.
Dominance(s) == UNION {{d} \X (Blocks \ ReachAvoiding(s, d)) : d \in Blocks}

\* The pairs <<i, b>> such that i is the immediate dominator of the reachable
\* block b: a strict dominator that every other strict dominator dominates.
IDomEdges(s) ==
  LET D == Dominance(s)
      R == Reachable(s)
  IN  {e \in D : /\ e[1] # e[2] /\ e[2] \in R
                 /\ \A j \in Blocks \ {e[2]} :
                      <<j, e[2]>> \in D => <<j, e[1]>> \in D}

\* The edges <<parent, child>> of the tree the analysis hands out.  Blocks the
\* entry does not reach have no place in a dominator tree, but the passes do
\* walk over the result in functions that have such blocks, so their fate is
\* part of the promise: a single unreachable block hangs below every leaf, and
\* two or more do not appear at all.
TreeEdges(s) ==
  LET E == IDomEdges(s)
      R == Reachable(s)
  IN  E \cup {e \in R \X (Blocks \ R) : /\ Blocks \ R = {e[2]}
                                        /\ \A f \in E : f[1] # e[1]}

==============================================================================
