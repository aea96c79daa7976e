------------------------------- MODULE Compress -------------------------------
(***************************************************************************)
(* The constructor of Compress (src/webgraph-v2.1/Compress.cpp): it picks  *)
(* a reference for every page, encodes the pages, gives each value that is *)
(* to be written a Huffman code and writes the pages one after the other.  *)
(* A page is written as a record of the parts the bit stream has in this   *)
(* order; a flag the code leaves out is an empty sequence.                 *)
(***************************************************************************)
EXTENDS CreateGraph, Huffman

VARIABLES
  encodes,    \* _encodes: reference, bitvector and differences of each page
  nodes,      \* _nodes: the lists each page is written with
  data,       \* the tree under construction, its leaves first
  codes,      \* _nodesvector: the code of each value
  result      \* what was written for each page

compressVars == <<graph, stage, createVars, encodes, nodes, data, codes, result>>

CompressInit ==
  /\ CreateInit
  /\ encodes = <<>> /\ nodes = <<>> /\ data = <<>> /\ codes = <<>> /\ result = <<>>

\* find_ref, and the first half of encode_nodesvector.
FindReferences ==
  /\ stage = "reference" /\ stage' = "nodes"
  /\ encodes' = [i \in Page |-> encode_bitvector(graph, i, find_ref(graph, i))]
  /\ UNCHANGED <<graph, createVars, nodes, data, codes, result>>

-------------------------------------------------------------------------------
(* The lists of a page, and the values among them that get a code. *)

EncodedNode(i) ==
  [outdegree |-> Cardinality(graph[i]),
   reference |-> IF encodes[i].reference = Root THEN 0 ELSE i - encodes[i].reference,
   block |-> block_encoding(encodes[i].bitvector),
   interval |-> interval_encoding(encodes[i].differences, i),
   rest |-> rest_links_encoding(encodes[i].differences, i)]

EncodeNodes ==
  /\ stage = "nodes" /\ stage' = "count"
  /\ nodes' = [i \in Page |-> EncodedNode(i)]
  /\ UNCHANGED <<graph, createVars, encodes, data, codes, result>>

\* MUTANT: the outdegrees are not counted.
CountedNoDegree(n) ==
  <<n.reference>> \o n.rest.halves \o
  FlattenSeq([k \in DOMAIN n.interval.intervals |->
    LET p == n.interval.intervals[k].start IN
    IF p.multiplier = 0 THEN <<p.remainer>> ELSE <<p.multiplier, p.remainer>>])

\* The values of a page that encode_nodesvector counts.
Counted(n) ==
  <<n.outdegree, n.reference>> \o n.rest.halves \o
  FlattenSeq([k \in DOMAIN n.interval.intervals |->
    LET p == n.interval.intervals[k].start IN
    IF p.multiplier = 0 THEN <<p.remainer>> ELSE <<p.multiplier, p.remainer>>])

\* The counts become the leaves of the tree.  HuffmanTree ends the program when
\* there are fewer than two.
CountValues ==
  LET weights == ToBag(FlattenSeq([i \in Page |-> Counted(nodes[i])])) IN
  /\ stage = "count"
  /\ data' = Leaves(weights)
  /\ stage' = IF Len(data') <= 1 THEN "exited" ELSE "tree"
  /\ UNCHANGED <<graph, createVars, encodes, nodes, codes, result>>

Nodesize == Cardinality({k \in DOMAIN data : data[k].lchild = 0})

MergeNodes ==
  /\ stage = "tree" /\ Len(data) < TreeSize(Nodesize)
  /\ data' = Merge(data)
  /\ UNCHANGED <<graph, stage, createVars, encodes, nodes, codes, result>>

SaveCodes ==
  /\ stage = "tree" /\ Len(data) = TreeSize(Nodesize)
  /\ stage' = "result"
  /\ codes' = Codes(data, Nodesize)
  /\ UNCHANGED <<graph, createVars, encodes, nodes, data, result>>

-------------------------------------------------------------------------------
(* create_result. *)

Total(numbers, k) ==
  LET sum[j \in 0..k] == IF j = 0 THEN 0 ELSE sum[j - 1] + numbers[j] IN sum[k]

\* The halves a run of the rest is written as: two for each number of a run of
\* big ones.  Runs of both sorts alternate.
IsBigRun(rest, k) == IF k % 2 = 1 THEN rest.bigFirst ELSE ~rest.bigFirst
RunHalves(rest) ==
  [k \in DOMAIN rest.lengths |-> rest.lengths[k] * (IF IsBigRun(rest, k) THEN 2 ELSE 1)]

\* The rest as create_result writes it.  After each run its index goes back by
\* one, so a run that follows another begins with the other's last half.
WrittenRest(rest) ==
  LET halves == RunHalves(rest)
      Index(k) == Total(halves, k - 1) - (k - 1)
  IN [k \in DOMAIN halves |->
        [size |-> Len(rest.halves) + 1 - Total(rest.lengths, k),
         halves |-> SubSeq(rest.halves, Index(k) + 1, Index(k) + halves[k])]]

\* What is written for a page: values go through codes, sizes and lengths
\* through gamma_encoding, flags are single bits.
Written(n) ==
  [degree |-> n.outdegree, reference |-> n.reference,
   blockCount |-> Len(n.block.blocks) + 1,
   blockFlag |-> IF n.block.blocks = <<>> THEN <<>> ELSE <<n.block.flag>>,
   blocks |-> n.block.blocks,
   intervalCount |-> Len(n.interval.intervals) + 1,
   startFlag |-> IF n.interval.intervals = <<>> THEN <<>> ELSE <<n.interval.flag>>,
   intervals |-> [k \in DOMAIN n.interval.intervals |->
     [multiplier |-> LET m == n.interval.intervals[k].start.multiplier
                     IN IF m = 0 THEN <<>> ELSE <<m>>,
      remainer |-> n.interval.intervals[k].start.remainer,
      length |-> n.interval.intervals[k].length]],
   restFlags |-> IF n.rest.halves = <<>> THEN <<>> ELSE <<n.rest.flag, n.rest.bigFirst>>,
   rest |-> WrittenRest(n.rest)]

CreateResult ==
  /\ stage = "result" /\ stage' = "done"
  /\ result' = [i \in Page |-> Written(nodes[i])]
  /\ UNCHANGED <<graph, createVars, encodes, nodes, data, codes>>

CompressNext ==
  \/ CreateNext /\ UNCHANGED <<encodes, nodes, data, codes, result>>
  \/ FindReferences \/ EncodeNodes \/ CountValues \/ MergeNodes \/ SaveCodes \/ CreateResult

-------------------------------------------------------------------------------
(* Properties. *)

\* The values and the sizes of a written page.
CodedValues(w) ==
  {w.degree, w.reference}
  \cup (UNION {{w.intervals[k].remainer} \cup ToSet(w.intervals[k].multiplier) :
                 k \in DOMAIN w.intervals})
  \cup (UNION {ToSet(w.rest[k].halves) : k \in DOMAIN w.rest})
GammaCoded(w) ==
  {w.blockCount, w.intervalCount} \cup ToSet(w.blocks)
  \cup {w.intervals[k].length : k \in DOMAIN w.intervals}
  \cup {w.rest[k].size : k \in DOMAIN w.rest}

\* Whatever create_result writes can be written: find returns a code for every
\* value it dereferences (Compress.cpp:316, 343-347, 377-388), and gamma_encoding
\* is never asked for the logarithm of 0.
WritableOnly ==
  stage = "done" => \A i \in Page :
    /\ CodedValues(result[i]) \subseteq {codes[k].info : k \in DOMAIN codes}
    /\ \A x \in GammaCoded(result[i]) : x >= 1

\* The links of a page as a reader of the stream finds them, given the links it has
\* found for the reference.  First the copied ones: the number of the block a position is
\* in tells whether it is; the flag is that of the first block.
BlockOf(w, p) == Cardinality({k \in DOMAIN w.blocks : Total(w.blocks, k) < p}) + 1
ReadCopied(w, refLinks) ==
  LET ref == Ascending(refLinks)
      First == IF w.blockFlag = <<>> THEN TRUE ELSE w.blockFlag[1]
  IN {ref[p] : p \in {q \in DOMAIN ref : (BlockOf(w, q) % 2 = 1) = First}}

Signed(i, flag, x) == IF flag THEN i + x ELSE i - x

\* The intervals: where each of them starts, given the end of the one before.
ReadStart(w, i, k, before) ==
  LET iv == w.intervals[k]
      x == (IF iv.multiplier = <<>> THEN 0 ELSE iv.multiplier[1]) * Half + iv.remainer
  IN IF k = 1 THEN Signed(i, w.startFlag[1], x) ELSE before + x + 1
ReadRuns(w, i) ==
  LET end[k \in 0..Len(w.intervals)] ==
        IF k = 0 THEN 0 ELSE ReadStart(w, i, k, end[k - 1]) + w.intervals[k].length
  IN UNION {(end[k] - w.intervals[k].length)..end[k] : k \in DOMAIN w.intervals}

\* The links in no interval: as many as are left of the outdegree.
ReadGap(w, k) ==
  LET halves == w.rest[1].halves
  IN IF w.restFlags[2] THEN halves[2 * k - 1] * Half + halves[2 * k] ELSE halves[k]
ReadAlone(w, i, count) ==
  LET alone[k \in 1..count] ==
        IF k = 1 THEN Signed(i, w.restFlags[1], ReadGap(w, 1))
        ELSE alone[k - 1] + ReadGap(w, k) + 2
  IN {alone[k] : k \in 1..count}

ReadLinks(w, i, refLinks) ==
  LET copied == ReadCopied(w, refLinks)
      runs == ReadRuns(w, i)
      count == w.degree - Cardinality(copied) - Cardinality(runs)
  IN copied \cup runs \cup ReadAlone(w, i, count)

\* What that reader finds page by page: the links of a reference are those it has
\* found before.
Found[i \in Page] ==
  LET r == result[i].reference
  IN ReadLinks(result[i], i, IF r = 0 THEN {} ELSE Found[i - r])

\* A page's gaps come in one run: all of them fit a half, or none of them does.
OneRun(i) == Len(nodes[i].rest.lengths) <= 1

\* Pages that hold their references and whose gaps come in one run.
Closed(S) ==
  \A i \in S : LET r == result[i].reference IN OneRun(i) /\ (r # 0 => i - r \in S)

\* What is written determines the graph: from the stream alone, the links of each
\* page's reference included, a reader finds the links of every page whose gaps
\* come in one run, and so do those of its reference, of the reference's
\* reference, and so on.  The stream leaves out the last block and, when there is
\* one block only, the flag that tells whether it is copied; that is enough only
\* because find_ref never takes a reference that shares no link.
Lossless ==
  stage = "done" => \A S \in SUBSET Page : Closed(S) => \A i \in S : Found[i] = graph[i]

\* The comment at Compress.cpp:395 says of the decrement of index that it puts
\* index back where it belongs.  Then every half is written, in order.
RestIsWritten ==
  stage = "done" => \A i \in Page :
    FlattenSeq([k \in DOMAIN result[i].rest |-> result[i].rest[k].halves])
      = nodes[i].rest.halves

\* What DecodeTree::decode finds at the start of some bits: it goes down the tree
\* of all codes until a node has a value.
decode(table, bits) ==
  LET hits == {k \in DOMAIN table : IsPrefix(table[k].vector, bits)}
      stop == CHOOSE k \in hits :
        \A m \in hits : \/ Len(table[k].vector) < Len(table[m].vector)
                        \/ Len(table[k].vector) = Len(table[m].vector) /\ m <= k
  IN IF hits = {} THEN -1 ELSE table[stop].info

\* A value that was written is read again, whatever is written behind it, and a
\* value that comes more often never has the longer code.
CodesAreRead ==
  stage = "result" => \A k, m \in DOMAIN codes :
    /\ decode(codes, codes[k].vector \o codes[m].vector) = codes[k].info
    /\ data[k].weight > data[m].weight => Len(codes[k].vector) <= Len(codes[m].vector)
===============================================================================
