------------------------------ MODULE Decompress ------------------------------
(***************************************************************************)
(* DeCompress::getlinks of src/webgraph-v2.1/Decompress.cpp: the links of  *)
(* a page are rebuilt along the chain of its references, and pages from    *)
(* the middle of a chain are kept in a cache, whatever its limit is.       *)
(*                                                                         *)
(* The decompressor was written for the files of versions 1.4 and 1.5: for *)
(* every page its outdegree, its reference, one bit for each link of the   *)
(* reference and the remaining links.  The Compress of today writes other  *)
(* files: offered those, DeCompress::init ends the program.  So there are  *)
(* two ways on from here, and only the former compressor, of which the     *)
(* sources keep the form but not the code, leads to answers.               *)
(***************************************************************************)
EXTENDS Compress

CONSTANTS
  CacheSize,         \* cachesize
  LimitUp, LimitDown \* limit is LimitUp / LimitDown

ASSUME CacheAssumption ==
  CacheSize \in Nat \ {0} /\ LimitUp \in Nat /\ LimitDown \in Nat \ {0}

VARIABLES
  stream,      \* graph_vector, taken apart where position says the pages begin
  asked,       \* the page getlinks was called for, 0 when it has returned
  pageid,      \* the page of the chain that is next, 0 behind the last one
  decodelist,  \* the chain: the page first, then its reference, and so on
  length,      \* pages of the chain that were decoded
  restored,    \* the position in decodelist of the page restored last
  cache,       \* pages with their links
  answer       \* what the last call returned

queryVars == <<asked, pageid, decodelist, length, restored, cache, answer>>
vars == <<compressVars, stream, queryVars>>

Init ==
  /\ CompressInit
  /\ stream = <<>>
  /\ asked = 0 /\ pageid = 0 /\ decodelist = <<>> /\ length = 0 /\ restored = 0
  /\ cache = <<>> /\ answer = {}

-------------------------------------------------------------------------------
(* The files. *)

\* A page as the former compressor wrote it: outdegree, reference, bitvector and
\* diffvector, the bits as 0 and 1 and the other values as what their codes mean.
FormerPage(i) ==
  LET e == encodes[i] IN
  <<Cardinality(graph[i]), e.reference>>
  \o [p \in DOMAIN e.bitvector |-> IF e.bitvector[p] THEN 1 ELSE 0]
  \o Ascending(e.differences)

FormerCompress ==
  /\ stage = "nodes" /\ stage' = "former"
  /\ stream' = [i \in Page |-> FormerPage(i)]
  /\ UNCHANGED <<graph, createVars, encodes, nodes, data, codes, result, queryVars>>

\* DeCompress and init read such files.
Load ==
  /\ stage = "former" /\ stage' = "loaded"
  /\ UNCHANGED <<graph, createVars, encodes, nodes, data, codes, result, stream, queryVars>>

\* Behind the present Compress there is no degree file: init ends the program.
NoDegreeFile ==
  /\ stage = "done" /\ stage' = "exited"
  /\ UNCHANGED <<graph, createVars, encodes, nodes, data, codes, result, stream, queryVars>>

-------------------------------------------------------------------------------
(* The chain. *)

\* page_existed: the places in the cache a page is found at.
Places(p) == {k \in DOMAIN cache : cache[k].nodeid = p}

GetLinks(p) ==
  /\ stage = "loaded" /\ asked = 0
  /\ asked' = p /\ pageid' = p
  /\ decodelist' = <<>> /\ length' = 0 /\ restored' = 0
  /\ UNCHANGED <<compressVars, stream, cache, answer>>

\* The chain ends at a page that is in the cache.
FindInCache ==
  /\ pageid # 0 /\ Places(pageid) # {}
  /\ decodelist' = Append(decodelist,
       [nodeid |-> pageid, reference |-> 0, bitvector |-> <<>>, differences |-> {},
        links |-> cache[Min(Places(pageid))].links])
  /\ pageid' = 0
  /\ restored' = Len(decodelist')  + 1
  /\ UNCHANGED <<compressVars, stream, asked, length, cache, answer>>

\* decodenode: as many bits as the reference has links, and then what is left of
\* the outdegree.
decodenode(p) ==
  LET s == stream[p]
      ref == s[2]
      ref_outdegree == IF ref = 0 THEN 0 ELSE stream[ref][1]
      count == Cardinality({k \in 1..ref_outdegree : s[2 + k] = 1})
  IN [nodeid |-> p, reference |-> ref,
      bitvector |-> [k \in 1..ref_outdegree |-> s[2 + k] = 1],
      differences |-> {s[2 + ref_outdegree + k] : k \in 1..(s[1] - count)},
      links |-> {}]

\* The chain also ends at a page without reference.
DecodeNode ==
  LET n == decodenode(pageid) IN
  /\ pageid # 0 /\ Places(pageid) = {}
  /\ decodelist' = Append(decodelist, n)
  /\ length' = length + 1
  /\ pageid' = n.reference
  /\ restored' = IF n.reference = 0 THEN Len(decodelist') + 1 ELSE 0
  /\ UNCHANGED <<compressVars, stream, asked, cache, answer>>

-------------------------------------------------------------------------------
(* The cache. *)

\* similarity is Common(a, b) / Cardinality(b); it is not a number when b has no
\* links, and then it is not below the limit.
Common(links, refLinks) == Cardinality(links \cap refLinks)
BelowLimit(links, refLinks) ==
  /\ refLinks # {}
  /\ Common(links, refLinks) * LimitDown < LimitUp * Cardinality(refLinks)
AtLeastAsSimilar(links, a, b) ==
  Common(links, a) * Cardinality(b) >= Common(links, b) * Cardinality(a)

\* MUTANT: a page that is replaced keeps its number.
insertcache_links(n) ==
  LET new == [nodeid |-> n.nodeid, links |-> n.links]
      most == {k \in DOMAIN cache : \A m \in DOMAIN cache :
                 AtLeastAsSimilar(n.links, cache[k].links, cache[m].links)}
  IN IF Len(cache) < CacheSize THEN Append(cache, new)
     ELSE IF \A k \in DOMAIN cache : BelowLimit(n.links, cache[k].links)
     THEN [cache EXCEPT ![Min(most)].links = n.links]
     ELSE cache

\* insertcache: while there is room the page is added; then it takes the place of
\* the first of the most similar ones, unless one is too similar.
insertcache(n) ==
  LET new == [nodeid |-> n.nodeid, links |-> n.links]
      most == {k \in DOMAIN cache : \A m \in DOMAIN cache :
                 AtLeastAsSimilar(n.links, cache[k].links, cache[m].links)}
  IN IF Len(cache) < CacheSize THEN Append(cache, new)
     ELSE IF \A k \in DOMAIN cache : BelowLimit(n.links, cache[k].links)
     THEN [cache EXCEPT ![Min(most)] = new]
     ELSE cache

-------------------------------------------------------------------------------
(* Restoring the links, from the end of the chain to the page. *)

\* MUTANT: the marked links are taken from the page itself.
Copied_own(i) ==
  LET n == decodelist[i]
  IN {l \in n.links : Position(n.links, l) \in {p \in DOMAIN n.bitvector : n.bitvector[p]}}

\* The marked links of the reference, which is the next one in the list.
Copied(i) ==
  LET n == decodelist[i]
      from == decodelist[i + 1].links
  IN IF n.reference = 0 THEN {}
     ELSE {l \in from : /\ Position(from, l) \in DOMAIN n.bitvector
                        /\ n.bitvector[Position(from, l)]}

\* One turn of the loop; the page in the middle of the chain goes to the cache.
RestoreLinks ==
  LET i == restored - 1
      links == decodelist[i].links \cup Copied(i) \cup decodelist[i].differences
  IN
  /\ restored > 1
  /\ decodelist' = [decodelist EXCEPT ![i].links = links]
  /\ restored' = i
  /\ cache' = IF i - 1 = (length + 1) \div 2 THEN insertcache(decodelist'[i]) ELSE cache
  /\ UNCHANGED <<compressVars, stream, asked, pageid, length, answer>>

Return ==
  /\ restored = 1
  /\ answer' = decodelist[1].links
  /\ asked' = 0 /\ restored' = 0
  /\ decodelist' = <<>> /\ length' = 0
  /\ UNCHANGED <<compressVars, stream, pageid, cache>>

GetLinksWork == FindInCache \/ DecodeNode \/ RestoreLinks \/ Return

Exited == stage = "exited" /\ UNCHANGED vars

Next ==
  \/ CompressNext /\ UNCHANGED <<stream, queryVars>>
  \/ FormerCompress
  \/ Load
  \/ NoDegreeFile
  \/ \E p \in Page : GetLinks(p)
  \/ GetLinksWork
  \/ Exited

Spec == Init /\ [][Next]_vars

\* A call that was made goes on; nothing makes anybody call.
FairSpec == Spec /\ WF_vars(GetLinksWork)

-------------------------------------------------------------------------------
(* Properties. *)

TypeOK ==
  /\ graph = <<>> \/ graph \in [0..PageCount -> SUBSET Nat]
  /\ linkscount \in Seq(LinkCounts) /\ Len(drawn) = Len(linkscount)
  /\ copying.from \in 0..PageCount /\ copying.subcount \in Nat
  /\ stage \in {"create", "reference", "nodes", "count", "tree", "result", "done", "former",
                "loaded", "exited"}
  /\ asked \in 0..PageCount /\ pageid \in 0..PageCount
  /\ length \in 0..Len(decodelist)
  /\ restored \in 0..(Len(decodelist) + 1)
  /\ Len(cache) <= CacheSize
  /\ \A k \in DOMAIN cache : cache[k].nodeid \in Page
  /\ \A i \in DOMAIN decodelist : decodelist[i].nodeid \in Page

\* The cache never holds links under a page that has others: whatever chain a
\* page was restored in, whatever it replaced.
CacheIsRight == \A k \in DOMAIN cache : cache[k].links = graph[cache[k].nodeid]

\* When the marked links of a reference are copied, the reference is complete: it
\* has one link for each bit, and decodelist[i+1].links[j] is inside the vector.
BitsFit ==
  restored > 1 =>
    LET n == decodelist[restored - 1]
    IN n.reference # 0 =>
         /\ restored <= Len(decodelist)
         /\ decodelist[restored].nodeid = n.reference
         /\ Len(n.bitvector) = Cardinality(decodelist[restored].links)

Store == INSTANCE LinkStore WITH Nobody <- 0

\* Over a file of the form decodenode reads, getlinks implements a plain table of
\* links, and every call returns.  It is a property of the decoder alone: nothing
\* Compress writes today gets this far.
LinkStoreSpec == Store!Spec
===============================================================================
