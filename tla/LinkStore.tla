------------------------------- MODULE LinkStore ------------------------------
(* What the decompressor promises: asked for a page, it answers with the links *)
(* the page has in the graph, whatever it was asked before.                    *)

CONSTANTS Page, Nobody

VARIABLES
  graph,  \* the links of each page, <<>> while there are none yet
  asked,  \* the page asked for, or Nobody
  answer  \* the links last answered

Init == asked = Nobody /\ answer = {}

Fill ==
  /\ graph = <<>> /\ asked = Nobody
  /\ UNCHANGED <<asked, answer>>

Ask(p) ==
  /\ asked = Nobody /\ asked' = p
  /\ UNCHANGED <<graph, answer>>

Answer ==
  /\ asked # Nobody /\ asked' = Nobody
  /\ answer' = graph[asked]
  /\ UNCHANGED graph

vars == <<graph, asked, answer>>

Next == Fill \/ Answer \/ \E p \in Page : Ask(p)

SafeSpec == Init /\ [][Next]_vars
Spec == SafeSpec /\ WF_vars(Answer)
===============================================================================
