------------------------------- MODULE Huffman --------------------------------
(***************************************************************************)
(* The Huffman tree of src/webgraph-v2.1/HuffmanTree.cpp: an array of tree *)
(* nodes, the leaves first, to which the constructor adds one inner node a *)
(* turn.  A node without parent has parent 0.                              *)
(***************************************************************************)
EXTENDS SortedSet, SequencesExt

\* The leaves, in ascending order of what they stand for; weights is a function.
Leaves(weights) ==
  LET ids == Ascending(DOMAIN weights)
  IN [k \in DOMAIN ids |->
        [id |-> ids[k], weight |-> weights[ids[k]], parent |-> 0, lchild |-> 0, rchild |-> 0]]

TreeSize(nodesize) == 2 * nodesize - 1

\* max_index: the heavier of two nodes, the first one when they weigh the same.
max_index(data, s) == IF data[s[2]].weight > data[s[1]].weight THEN 2 ELSE 1

\* One turn of select's last loop: a lighter node takes the heavier one's place.
Lighter(data, s, i) ==
  LET heavy == max_index(data, s) IN
  IF data[i].parent = 0 /\ data[i].weight < data[s[heavy]].weight
    THEN [s EXCEPT ![heavy] = i] ELSE s

\* MUTANT: the two nodes without parent that come first, whatever they weigh.
select_first(data) ==
  LET first == Min({i \in DOMAIN data : data[i].parent = 0})
      second == Min({i \in DOMAIN data : data[i].parent = 0 /\ i > first})
  IN <<first, second>>

\* select: two nodes without parent, of the least weight.
select(data) ==
  LET first == Min({i \in DOMAIN data : data[i].parent = 0})
      second == Min({i \in DOMAIN data : data[i].parent = 0 /\ i > first})
      picked[i \in second..Len(data)] ==
        IF i = second THEN <<first, second>> ELSE Lighter(data, picked[i - 1], i)
  IN picked[Len(data)]

\* One turn of the constructor: the two become the children of a new node.
Merge(data) ==
  LET s == select(data)
      i == Len(data) + 1
  IN Append([data EXCEPT ![s[1]].parent = i, ![s[2]].parent = i],
            [id |-> 0, weight |-> data[s[1]].weight + data[s[2]].weight,
             parent |-> 0, lchild |-> s[1], rchild |-> s[2]])

\* The code of each leaf: the way from the root to it, 0 for left.
Codes(data, nodesize) ==
  LET path[i \in DOMAIN data] ==
        IF data[i].parent = 0 THEN <<>>
        ELSE Append(path[data[i].parent], IF data[data[i].parent].lchild = i THEN 0 ELSE 1)
  IN [k \in 1..nodesize |-> [info |-> data[k].id, vector |-> path[k]]]
===============================================================================
