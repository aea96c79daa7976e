----------------------------- MODULE CreateGraph ------------------------------
(***************************************************************************)
(* How a web graph comes to be (src/webgraph-v2.1/creategraph.cpp): it is  *)
(* read from a file, or made up.  The first pages get links at random, the *)
(* others copy most of theirs from pages shortly before them.  rand is a   *)
(* choice over what it may return.                                         *)
(***************************************************************************)
EXTENDS NodeCode

CONSTANTS
  Graphs,      \* the graphs a file may hold
  Exist,       \* exist: the pages whose links are not copied
  LinkCounts   \* what link_count may return

ASSUME GraphsAssumption ==
  \A g \in Graphs : g \in [0..PageCount -> SUBSET Nat] /\ g[Root] = {}
                    /\ \A i \in Page : IsFiniteSet(g[i])

\* create writes behind its array when there are fewer pages than exist, and
\* new_link and copy_id do not end when there is nothing to choose from.
ASSUME CreateAssumption == Exist \in 2..PageCount /\ LinkCounts \subseteq 2..(PageCount - 1)

VARIABLES
  graph,      \* the links of each page, <<>> until they are sorted
  stage,      \* how far the programs are
  linkscount, \* of the pages that were begun: how many links they are to have
  drawn,      \* of the same pages: the links they have, in the order they got them
  copying     \* the page links are copied from, and how many are left to copy

createVars == <<linkscount, drawn, copying>>

\* range: how far from a page the links it makes up and copies are.
range == Min({300, Exist})
page == Len(drawn)
Idle == [from |-> Root, subcount |-> 0]

\* load_origin_graph reads a graph; or create is about to begin its first page.
CreateInit ==
  /\ linkscount = <<>> /\ drawn = <<>> /\ copying = Idle
  /\ \/ graph \in Graphs /\ stage = "reference"
     \/ graph = <<>> /\ stage = "create"

have_existed(x) == x \in ToSet(drawn[page])
Finished == page # 0 => Len(drawn[page]) = linkscount[page]
Link(x) == drawn' = [drawn EXCEPT ![page] = Append(@, x)]

\* create: the next page, and how many links it gets.
NextPage ==
  /\ stage = "create" /\ Finished /\ page < PageCount
  /\ \E c \in LinkCounts : linkscount' = Append(linkscount, c)
  /\ drawn' = Append(drawn, <<>>)
  /\ copying' = Idle
  /\ UNCHANGED <<graph, stage>>

\* new_link for one of the first pages: any other page it does not link to yet.
NewLink ==
  /\ stage = "create" /\ ~Finished /\ page <= Exist
  /\ \E x \in Page \ {page} : ~have_existed(x) /\ Link(x)
  /\ UNCHANGED <<graph, stage, linkscount, copying>>

\* copy_links chooses a page before this one, and how many of its links to copy.
CopyFrom ==
  /\ stage = "create" /\ ~Finished /\ page > Exist /\ copying.subcount = 0
  /\ \E from \in (page - range + 1)..(page - 1) : \E n \in 1..linkscount[from] :
       copying' = [from |-> from, subcount |-> Min({n, linkscount[page] - Len(drawn[page])})]
  /\ UNCHANGED <<graph, stage, linkscount, drawn>>

\* What new_link may make of a link that is about to be copied.
Near == {page + range \div 2 - r : r \in 0..(range - 1)}

\* MUTANT: a changed link is not looked up.
CopyLinkUnchecked ==
  /\ copying.subcount > 0
  /\ \E current \in ToSet(drawn[copying.from]) \ {page} :
       /\ ~have_existed(current)
       /\ \E x \in {current} \cup (Near \ {page}) : Link(x)
  /\ copying' = [copying EXCEPT !.subcount = @ - 1]
  /\ UNCHANGED <<graph, stage, linkscount>>

\* A link of the other page is copied as it is, or new_link changes it.
CopyLink ==
  /\ copying.subcount > 0
  /\ \E current \in ToSet(drawn[copying.from]) \ {page} :
       /\ ~have_existed(current)
       /\ \/ Link(current)
          \/ \E x \in Near \ {page} : ~have_existed(x) /\ Link(x)
  /\ copying' = [copying EXCEPT !.subcount = @ - 1]
  /\ UNCHANGED <<graph, stage, linkscount>>

\* A hundred times the chosen link was there already: another page is chosen.
GiveUp ==
  /\ copying.subcount > 0
  /\ \E current \in ToSet(drawn[copying.from]) \ {page} : have_existed(current)
  /\ copying' = Idle
  /\ UNCHANGED <<graph, stage, linkscount, drawn>>

\* sort; from here on only the sorted lists count.
Sort ==
  /\ stage = "create" /\ Finished /\ page = PageCount
  /\ graph' = [i \in 0..PageCount |-> IF i = Root THEN {} ELSE ToSet(drawn[i])]
  /\ stage' = "reference"
  /\ drawn' = <<>> /\ linkscount' = <<>> /\ copying' = Idle

CreateNext == NextPage \/ NewLink \/ CopyFrom \/ CopyLink \/ GiveUp \/ Sort

-------------------------------------------------------------------------------
(* Properties. *)

\* A page never links to itself, to the root or twice to the same page, although
\* a link is looked up before it is changed.  rest_links_encoding relies on it:
\* two links in a row that are the same would have a negative gap.
LinksAreSimple ==
  \A i \in DOMAIN drawn :
    /\ IsInjective(drawn[i])
    /\ ToSet(drawn[i]) \cap {Root, i} = {}
===============================================================================
