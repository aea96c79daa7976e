------------------------------- MODULE NodeCode -------------------------------
(***************************************************************************)
(* How src/webgraph-v2.1 describes one page of a web graph by another: the *)
(* choice of the reference page (find_ref), the copied and the remaining   *)
(* links (encode_bitvector), and the three lists a page is written with    *)
(* (block_encoding, interval_encoding, rest_links_encoding).               *)
(*                                                                         *)
(* The links of a page are kept in ascending order without duplicates, so  *)
(* a list of links is a set here and a sequence only where order counts.   *)
(***************************************************************************)
EXTENDS SortedSet, SequencesExt

CONSTANTS
  PageCount,  \* pages are numbered from 1, the root, page 0, has no links
  Window,     \* the win of find_ref: how far back a reference may be
  Half        \* 65536: what a half of a split number is smaller than

ASSUME NumbersAssumption ==
  PageCount \in Nat \ {0} /\ Window \in Nat \ {0} /\ Half \in Nat \ {0, 1}

Page == 1..PageCount
Root == 0

Distance(x, y) == IF x >= y THEN x - y ELSE y - x

-------------------------------------------------------------------------------
(* References. *)

\* ceil(log2(nodecount)), the root counted: the bits of a page number.
PageBits == Cardinality({b \in 0..PageCount : 2^b < PageCount + 1})

\* The links of the first page that the second does not have.
difference(links, refLinks) == Cardinality(links \ refLinks)

cost(links, refLinks) ==
  Cardinality(refLinks) + PageBits * (difference(links, refLinks) + 1)

\* MUTANT: a reference is taken whatever describing the page by the root costs.
find_ref_always(graph, i) ==
  LET candidates == (IF i > Window THEN i - Window ELSE 0) .. (i - 1)
      Cost(k) == cost(graph[i], graph[k])
  IN Min({k \in candidates : \A m \in candidates : Cost(k) <= Cost(m)})

\* One turn of find_ref: the first of the cheapest pages of the window, unless
\* describing the page by the root is as cheap.
find_ref(graph, i) ==
  LET candidates == (IF i > Window THEN i - Window ELSE 0) .. (i - 1)
      Cost(k) == cost(graph[i], graph[k])
      cheapest == Min({k \in candidates : \A m \in candidates : Cost(k) <= Cost(m)})
  IN IF Cost(cheapest) >= cost(graph[i], graph[Root]) THEN Root ELSE cheapest

\* For each link of a list whether it is in another, too.
Bits(refLinks, links) ==
  [p \in 1..Cardinality(refLinks) |->
     \E l \in refLinks : l \in links /\ Position(refLinks, l) = p]

\* encode_bitvector: for each link of the reference whether the page has it too,
\* and the links only the page has.
encode_bitvector(graph, i, ref) ==
  [reference |-> ref,
   bitvector |-> Bits(graph[ref], graph[i]),
   differences |-> graph[i] \ graph[ref]]

-------------------------------------------------------------------------------
(* Blocks, intervals and the rest. *)

\* How many times in a row each value of a vector comes.
RunLengths(vector) ==
  LET starts == Ascending({p \in DOMAIN vector : p > 1 => vector[p] # vector[p - 1]})
  IN [k \in DOMAIN starts |->
        (IF k < Len(starts) THEN starts[k + 1] ELSE Len(vector) + 1) - starts[k]]

\* block_encoding: the last block is left out, the reference's outdegree tells
\* it.  block_flag is the first bit; that of an empty vector is never written.
block_encoding(bits) ==
  [flag |-> bits # <<>> /\ bits[1],
   blocks |-> IF bits = <<>> THEN <<>> ELSE Front(RunLengths(bits))]

number_to_pair(x) == [multiplier |-> x \div Half, remainer |-> x % Half]

\* The last number of the run of consecutive numbers x is in.
RunEnd(S, x) == Min({y \in S : y >= x /\ y + 1 \notin S})
IsRun(S, x) == x \in S /\ x - 1 \notin S /\ x + 1 \in S
IsAlone(S, x) == x \in S /\ x - 1 \notin S /\ x + 1 \notin S

\* interval_encoding: runs of two or more links, the first start relative to the
\* page itself, the others to the end of the interval before.
interval_encoding(S, nodeid) ==
  LET starts == Ascending({x \in S : IsRun(S, x)})
      Gap(k) == IF k = 1 THEN Distance(starts[1], nodeid)
                         ELSE starts[k] - RunEnd(S, starts[k - 1]) - 1
  IN [flag |-> starts = <<>> \/ starts[1] >= nodeid,
      intervals |-> [k \in DOMAIN starts |->
        [start |-> number_to_pair(Gap(k)), length |-> RunEnd(S, starts[k]) - starts[k]]]]

\* big_to_little_encoding: numbers that do not fit a half are split in two.  The
\* numbers come in runs of those that fit and those that do not.
big_to_little_encoding(numbers) ==
  [lengths |-> RunLengths([k \in DOMAIN numbers |-> numbers[k] < Half]),
   halves |-> FlattenSeq([k \in DOMAIN numbers |->
                IF numbers[k] < Half THEN <<numbers[k]>>
                ELSE LET p == number_to_pair(numbers[k]) IN <<p.multiplier, p.remainer>>])]

\* rest_links_encoding: the links that are in no interval, each relative to the
\* one before; two of them differ by two at least.
rest_links_encoding(S, nodeid) ==
  LET alone == Ascending({x \in S : IsAlone(S, x)})
      gaps == [k \in DOMAIN alone |->
                 IF k = 1 THEN Distance(alone[1], nodeid) ELSE alone[k] - alone[k - 1] - 2]
      little == big_to_little_encoding(gaps)
  IN [flag |-> alone # <<>> /\ alone[1] >= nodeid,
      bigFirst |-> gaps # <<>> /\ gaps[1] >= Half,
      lengths |-> little.lengths,
      halves |-> little.halves]
===============================================================================
