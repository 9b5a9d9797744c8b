----------------------------- MODULE TaskGraph -----------------------------
(***************************************************************************)
(* What a session store promises about its tasks (core.Task.Blocks and     *)
(* core.Task.BlockedBy): the open tasks of a session form a directed graph *)
(* without cycles, an edge always joins two open tasks, and an edit either *)
(* happens whole or not at all.                                            *)
(***************************************************************************)
EXTENDS Naturals

CONSTANT Ids        \* task identifiers

VARIABLES open,     \* the tasks that exist and are not deleted
          edges     \* <<a, b>>: task a blocks task b

\* A graph has a cycle exactly when some set of nodes is left by none of them.
Acyclic(E) ==
    \A S \in (SUBSET Ids) \ {{}} : \E a \in S : \A b \in S : <<a, b>> \notin E

GraphInit == open = {} /\ edges = {}

\* One task is created, edited, deleted or revived: only it changes sides, and
\* only edges that touch it change.  Clearing the session empties the graph.
Edit(t) ==
    /\ open' \ {t} = open \ {t}
    /\ edges' \subseteq open' \X open'
    /\ Acyclic(edges')
    /\ \A e \in (edges \ edges') \cup (edges' \ edges) : t \in {e[1], e[2]}

Clear == open' = {} /\ edges' = {}

GraphNext == Clear \/ \E t \in Ids : Edit(t)

GraphSpec == GraphInit /\ [][GraphNext]_<<open, edges>>
=============================================================================
