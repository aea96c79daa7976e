----------------------------- MODULE MCDecompress -----------------------------
(* Compress and Decompress on small graphs. *)
EXTENDS Decompress

\* Lists of links with blocks, intervals and lone links, near to and far from
\* each other; some share links and some do not.  A link may lead to a page that
\* does not exist, as CreateGraph makes them.
Menu == {{2, 3, 5}, {1, 5, 9}, {1, 2, 4, 5, 6}, {1, 2, 3, 4, 5, 6}}

\* All pages but the last have links of the menu, the last has one or none; and
\* the graph without links.
MCGraphs ==
  {[i \in 0..PageCount |->
      IF i = 0 THEN {} ELSE IF i = PageCount THEN {1} \cap g[1] ELSE g[i]] :
     g \in [1..(PageCount - 1) -> Menu]}
  \cup {[i \in 0..PageCount |-> {}]}
===============================================================================
