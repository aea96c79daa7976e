--------------------------- MODULE Decompress_proofs ----------------------------
(***************************************************************************)
(* Theorems about Decompress, for every graph and every number of pages,   *)
(* window, Half, cache size and limit.  The specification takes a graph    *)
(* from its creation to the files of Compress, or, over files in the form  *)
(* the decompressor reads, to the answers of getlinks.                     *)
(***************************************************************************)
EXTENDS Decompress, Compress_proofs

-------------------------------------------------------------------------------
(* The creation: pages get simple links, and the graph that is handed on is one. *)

PageNumber == Nat \ {Root}

\* The pages that were begun, and what is copied to the last of them: never more
\* than it is to get, and always from a page before it that is not the first.
DrawnOK ==
  /\ linkscount \in Seq(LinkCounts) /\ drawn \in Seq(Seq(PageNumber))
  /\ Len(drawn) = Len(linkscount) /\ Len(drawn) <= PageCount
  /\ copying \in [from : 0..PageCount, subcount : Nat]
  /\ page # 0 => Len(drawn[page]) + copying.subcount <= linkscount[page]
  /\ copying.subcount > 0 => page > Exist /\ copying.from \in 1..(page - 1)

\* There is no graph before the lists are sorted, and none is made after.
GraphOK ==
  /\ stage = "create" => graph = <<>>
  /\ stage # "create" => IsGraph(graph) /\ drawn = <<>>

CreateInv == DrawnOK /\ LinksAreSimple /\ GraphOK

LEMMA CreateInitInv == CreateInit => CreateInv
<1> SUFFICES ASSUME CreateInit PROVE CreateInv
  OBVIOUS
<1>1. DrawnOK
  BY NumbersAssumption DEF CreateInit, DrawnOK, Idle, page, Root
<1>2. LinksAreSimple
  BY DEF CreateInit, LinksAreSimple
<1>3. GraphOK
  <2>1. ASSUME graph \in Graphs PROVE IsGraph(graph)
    <3>1. /\ graph \in [0..PageCount -> SUBSET Nat] /\ graph[Root] = {}
          /\ \A i \in Page : IsFiniteSet(graph[i])
      BY <2>1, GraphsAssumption
    <3>2. ASSUME NEW i \in 0..PageCount PROVE IsFiniteSet(graph[i])
      <4>1. CASE i = Root
        BY <3>1, <4>1, FS_EmptySet
      <4>2. CASE i # Root
        <5>1. i \in Page
          BY <4>2, NumbersAssumption DEF Page, Root
        <5> QED
          BY <3>1, <5>1
      <4> QED
        BY <4>1, <4>2
    <3> QED
      BY <3>1, <3>2 DEF IsGraph
  <2> QED
    BY <2>1 DEF CreateInit, GraphOK
<1> QED
  BY <1>1, <1>2, <1>3 DEF CreateInv

\* The list of a page as a set.
LEMMA LinksOfPage ==
  ASSUME NEW s \in Seq(PageNumber)
  PROVE  ToSet(s) \in SUBSET PageNumber /\ IsFiniteSet(ToSet(s))
<1>1. s \in Surjection(1..Len(s), ToSet(s))
  BY DEF Surjection, ToSet
<1>2. IsFiniteSet(1..Len(s))
  BY FS_Interval
<1> QED
  BY <1>1, <1>2, FS_Surjection DEF ToSet

\* The pages that were begun have lists and numbers of links.
LEMMA DrawnTypes ==
  ASSUME DrawnOK
  PROVE  /\ page \in Nat /\ page = Len(drawn) /\ DOMAIN drawn = 1..page
         /\ \A i \in 1..page : /\ drawn[i] \in Seq(PageNumber) /\ Len(drawn[i]) \in Nat
                             /\ linkscount[i] \in Nat
<1>1. page \in Nat /\ page = Len(drawn) /\ DOMAIN drawn = 1..page
  BY DEF DrawnOK, page
<1>2. ASSUME NEW i \in 1..page
      PROVE  drawn[i] \in Seq(PageNumber) /\ linkscount[i] \in LinkCounts
  BY <1>1 DEF DrawnOK
<1>3. LinkCounts \subseteq Nat
  BY CreateAssumption
<1>4. \A t \in Seq(PageNumber) : Len(t) \in Nat
  OBVIOUS
<1> QED
  BY <1>1, <1>2, <1>3, <1>4

\* An index up to m + 1 is one up to m or the last.
LEMMA LastOrBefore == \A m \in Nat : \A k \in 1..(m + 1) : k \in 1..m \/ k = m + 1
OBVIOUS

\* A page that is not finished gets a link it does not have.
LEMMA LinkKeeps ==
  ASSUME CreateInv, NEW x \in PageNumber, page # 0, x # page, ~have_existed(x), Link(x)
  PROVE  /\ drawn' \in Seq(Seq(PageNumber)) /\ Len(drawn') = Len(drawn)
         /\ Len(drawn'[page]) = Len(drawn[page]) + 1
         /\ LinksAreSimple'
<1> USE DEF CreateInv, DrawnOK
<1>1. /\ page \in 1..Len(drawn) /\ page = Len(drawn)
      /\ drawn[page] \in Seq(PageNumber) /\ Len(drawn[page]) \in Nat
  BY DrawnTypes
<1>2. drawn' = [drawn EXCEPT ![page] = Append(@, x)]
  BY DEF Link
<1>3. Append(drawn[page], x) \in Seq(PageNumber)
  BY <1>1
<1>4. drawn' \in Seq(Seq(PageNumber)) /\ Len(drawn') = Len(drawn) /\ DOMAIN drawn' = DOMAIN drawn
  BY <1>1, <1>2, <1>3
<1>6. drawn'[page] = Append(drawn[page], x) /\ Len(drawn'[page]) = Len(drawn[page]) + 1
  BY <1>1, <1>2
<1>5. ASSUME NEW i \in DOMAIN drawn
      PROVE  IsInjective(drawn'[i]) /\ ToSet(drawn'[i]) \cap {Root, i} = {}
  <2>1. IsInjective(drawn[i]) /\ ToSet(drawn[i]) \cap {Root, i} = {} /\ drawn[i] \in Seq(PageNumber)
    BY DEF LinksAreSimple
  <2>2. CASE i # page
    BY <1>2, <2>1, <2>2
  <2>3. CASE i = page
    <3> DEFINE s == drawn[i]
    <3>1. drawn'[i] = Append(s, x)
      BY <1>2, <2>3
    <3>2. \A k \in DOMAIN s : s[k] # x /\ s[k] # Root /\ s[k] # i
      BY <2>1, <2>3 DEF have_existed, ToSet
    <3>8. Len(s) \in Nat
      BY <2>1
    <3>3. /\ DOMAIN Append(s, x) = 1..(Len(s) + 1) /\ DOMAIN s = 1..Len(s)
          /\ \A k \in 1..Len(s) : Append(s, x)[k] = s[k]
          /\ Append(s, x)[Len(s) + 1] = x
      BY <2>1
    <3>4. x # Root /\ x # i
      BY <2>3 DEF PageNumber
    <3> HIDE DEF s
    <3>5. \A k \in 1..(Len(s) + 1) : k \in 1..Len(s) \/ k = Len(s) + 1
      BY <3>8, LastOrBefore
    <3>6. IsInjective(Append(s, x))
      BY <2>1, <3>2, <3>3, <3>5 DEF IsInjective, s
    <3>7. ToSet(Append(s, x)) \cap {Root, i} = {}
      BY <3>2, <3>3, <3>4, <3>5 DEF ToSet
    <3> QED
      BY <3>1, <3>6, <3>7
  <2> QED
    BY <2>2, <2>3
<1> QED
  BY <1>4, <1>5, <1>6 DEF LinksAreSimple

\* range is between 2 and the number of pages whose links are not copied.
LEMMA RangeType == range \in 2..Exist
BY MinOfNaturals, CreateAssumption DEF range

\* A link made up near a page that copies its links is a page number.
LEMMA NearPages ==
  ASSUME NEW p \in Nat, p > Exist, NEW r \in 0..(range - 1)
  PROVE  p + range \div 2 - r \in PageNumber
<1>1. range \in Nat /\ range < p
  BY RangeType, CreateAssumption, NumbersAssumption
<1>2. range \div 2 \in Nat
  BY <1>1
<1> DEFINE half == range \div 2
<1> HIDE DEF half
<1>3. half \in Nat
  BY <1>2 DEF half
<1>4. p + half - r \in Nat /\ p + half - r > 0
  BY <1>1, <1>3
<1> QED
  BY <1>4 DEF PageNumber, Root, half

LEMMA CreateStepInv == CreateInv /\ CreateNext => CreateInv'
<1> SUFFICES ASSUME CreateInv, CreateNext PROVE CreateInv'
  OBVIOUS
<1> USE NumbersAssumption, CreateAssumption
<1>1. CASE NextPage
  <2> USE <1>1 DEF NextPage
  <2>1. PICK c \in LinkCounts : linkscount' = Append(linkscount, c)
    OBVIOUS
  <2>2. DrawnOK'
    BY <2>1 DEF CreateInv, DrawnOK, page, Idle, Root
  <2>3. LinksAreSimple'
    <3>1. ASSUME NEW i \in DOMAIN drawn'
          PROVE  IsInjective(drawn'[i]) /\ ToSet(drawn'[i]) \cap {Root, i} = {}
      <4>1. CASE i \in DOMAIN drawn
        BY <4>1 DEF CreateInv, DrawnOK, LinksAreSimple
      <4>2. CASE i = Len(drawn) + 1
        <5>1. drawn'[i] = <<>>
          BY <4>2 DEF CreateInv, DrawnOK
        <5> QED
          BY <5>1 DEF IsInjective, ToSet
      <4> QED
        <5>1. DOMAIN drawn' = 1..(Len(drawn) + 1) /\ DOMAIN drawn = 1..Len(drawn) /\ Len(drawn) \in Nat
          BY DEF CreateInv, DrawnOK
        <5>2. i \in DOMAIN drawn \/ i = Len(drawn) + 1
          BY <5>1
        <5> QED
          BY <4>1, <4>2, <5>2
    <3> QED
      BY <3>1 DEF LinksAreSimple
  <2>4. GraphOK'
    BY DEF CreateInv, GraphOK
  <2> QED
    BY <2>2, <2>3, <2>4 DEF CreateInv
<1>2. CASE NewLink
  <2> USE <1>2 DEF NewLink
  <2>1. PICK x \in Page \ {page} : ~have_existed(x) /\ Link(x)
    OBVIOUS
  <2>2. page # 0 /\ page \in 1..Len(drawn)
    BY DrawnTypes DEF Finished, CreateInv
  <2>3. x \in PageNumber
    BY DEF Page, PageNumber, Root
  <2>4. /\ drawn' \in Seq(Seq(PageNumber)) /\ Len(drawn') = Len(drawn)
        /\ Len(drawn'[page]) = Len(drawn[page]) + 1
        /\ LinksAreSimple'
    BY <2>1, <2>2, <2>3, LinkKeeps
  <2>5. DrawnOK'
    <3>1. copying.subcount = 0 /\ Len(drawn[page]) # linkscount[page]
      BY <2>2 DEF CreateInv, DrawnOK, Finished
    <3>2. Len(drawn[page]) \in Nat /\ linkscount[page] \in Nat
      BY <2>2, DrawnTypes DEF CreateInv
    <3> QED
      BY <2>2, <2>4, <3>1, <3>2 DEF CreateInv, DrawnOK, page
  <2>6. GraphOK'
    BY DEF CreateInv, GraphOK
  <2> QED
    BY <2>4, <2>5, <2>6 DEF CreateInv
<1>3. CASE CopyFrom
  <2> USE <1>3 DEF CopyFrom
  <2> DEFINE rest == linkscount[page] - Len(drawn[page])
  <2>0. PICK from \in (page - range + 1)..(page - 1) : \E n \in 1..linkscount[from] :
          copying' = [from |-> from, subcount |-> Min({n, rest})]
    OBVIOUS
  <2>1. PICK n \in 1..linkscount[from] : copying' = [from |-> from, subcount |-> Min({n, rest})]
    BY <2>0
  <2>2. page \in 1..Len(drawn) /\ page # 0 /\ page = Len(drawn) /\ page > Exist
    BY DrawnTypes DEF CreateInv
  <2>3. from \in 1..(page - 1)
    BY <2>2, RangeType
  <2>4. linkscount[page] \in Nat /\ linkscount[from] \in Nat /\ Len(drawn[page]) \in Nat
    BY <2>2, <2>3, DrawnTypes DEF CreateInv
  <2>5. rest \in Nat
    <3>1. copying.subcount \in Nat /\ Len(drawn[page]) + copying.subcount <= linkscount[page]
      BY <2>2 DEF CreateInv, DrawnOK
    <3> QED
      BY <2>4, <3>1
  <2>6. Min({n, rest}) \in Nat /\ Min({n, rest}) <= rest
    <3>1. {n, rest} \in SUBSET Nat /\ {n, rest} # {}
      BY <2>4, <2>5
    <3> HIDE DEF rest
    <3> QED
      BY <3>1, MinOfNaturals
  <2>7. DrawnOK'
    <3>1. copying'.from = from /\ copying'.subcount = Min({n, rest})
      BY <2>1
    <3>2. copying' \in [from : 0..PageCount, subcount : Nat]
      <4>1. from \in 0..PageCount
        BY <2>2, <2>3 DEF CreateInv, DrawnOK
      <4> QED
        BY <2>1, <2>6, <4>1
    <3>3. Len(drawn[page]) + copying'.subcount <= linkscount[page]
      BY <2>4, <2>6, <3>1
    <3>4. UNCHANGED <<linkscount, drawn>> /\ page' = page
      BY DEF page
    <3>5. copying'.subcount > 0 => page > Exist /\ copying'.from \in 1..(page - 1)
      BY <2>2, <2>3, <3>1
    <3> HIDE DEF rest
    <3> QED
      BY <3>2, <3>3, <3>4, <3>5 DEF CreateInv, DrawnOK
  <2>8. LinksAreSimple' /\ GraphOK'
    BY DEF CreateInv, LinksAreSimple, GraphOK
  <2> QED
    BY <2>7, <2>8 DEF CreateInv
<1>4. CASE CopyLink
  <2> USE <1>4 DEF CopyLink
  <2>1. /\ page \in 1..Len(drawn) /\ page # 0 /\ page = Len(drawn) /\ page > Exist
        /\ copying.from \in 1..(page - 1) /\ copying.subcount \in Nat \ {0}
    <3>1. copying.subcount \in Nat \ {0} /\ page > Exist /\ copying.from \in 1..(page - 1)
      BY DEF CreateInv, DrawnOK
    <3> QED
      BY <3>1, DrawnTypes DEF CreateInv
  <2>2. PICK x : /\ x \in ToSet(drawn[copying.from]) \ {page} \/ x \in Near \ {page}
                 /\ ~have_existed(x) /\ Link(x)
    OBVIOUS
  <2>3. x \in PageNumber
    <3>1. ASSUME x \in ToSet(drawn[copying.from]) PROVE x \in PageNumber
      <4>1. drawn[copying.from] \in Seq(PageNumber)
        BY <2>1, DrawnTypes DEF CreateInv
      <4> QED
        BY <3>1, <4>1, LinksOfPage
    <3>2. ASSUME x \in Near PROVE x \in PageNumber
      <4>1. PICK r \in 0..(range - 1) : x = page + range \div 2 - r
        BY <3>2 DEF Near
      <4>2. page \in Nat /\ page > Exist
        BY <2>1, DrawnTypes DEF CreateInv
      <4> QED
        BY <4>1, <4>2, NearPages
    <3> QED
      BY <2>2, <3>1, <3>2
  <2>4. /\ drawn' \in Seq(Seq(PageNumber)) /\ Len(drawn') = Len(drawn)
        /\ Len(drawn'[page]) = Len(drawn[page]) + 1
        /\ LinksAreSimple'
    BY <2>1, <2>2, <2>3, LinkKeeps
  <2>5. DrawnOK'
    <3>1. Len(drawn[page]) \in Nat /\ linkscount[page] \in Nat
      BY <2>1, DrawnTypes DEF CreateInv
    <3>2. /\ copying \in [from : 0..PageCount, subcount : Nat] /\ linkscount' = linkscount
          /\ copying' = [copying EXCEPT !.subcount = copying.subcount - 1]
      BY DEF CreateInv, DrawnOK
    <3>3. copying'.subcount = copying.subcount - 1 /\ copying'.from = copying.from
          /\ copying' \in [from : 0..PageCount, subcount : Nat]
      BY <2>1, <3>2
    <3>4. Len(drawn[page]) + copying.subcount <= linkscount[page]
      BY <2>1 DEF CreateInv, DrawnOK
    <3>5. page' = page
      BY <2>4 DEF page
    <3>6. Len(drawn'[page]) + copying'.subcount <= linkscount[page]
      BY <2>1, <2>4, <3>1, <3>3, <3>4
    <3> QED
      BY <2>1, <2>4, <3>2, <3>3, <3>5, <3>6 DEF CreateInv, DrawnOK
  <2>6. GraphOK'
    BY <2>1 DEF CreateInv, GraphOK, page
  <2> QED
    BY <2>4, <2>5, <2>6 DEF CreateInv
<1>5. CASE GiveUp
  <2> USE <1>5 DEF GiveUp
  <2>1. DrawnOK'
    <3>1. copying' = [from |-> 0, subcount |-> 0] /\ drawn' = drawn /\ linkscount' = linkscount
      BY DEF Idle, Root
    <3>2. ASSUME page # 0 PROVE Len(drawn[page]) + 0 <= linkscount[page]
      <4>1. page \in 1..page
        BY <3>2, DrawnTypes DEF CreateInv
      <4>2. Len(drawn[page]) \in Nat /\ linkscount[page] \in Nat
        BY <4>1, DrawnTypes DEF CreateInv
      <4>3. copying.subcount \in Nat /\ Len(drawn[page]) + copying.subcount <= linkscount[page]
        BY <3>2 DEF CreateInv, DrawnOK
      <4> QED
        BY <4>2, <4>3
    <3>3. page' = page
      BY DEF page
    <3> QED
      BY <3>1, <3>2, <3>3, DrawnTypes DEF CreateInv, DrawnOK
  <2>2. LinksAreSimple' /\ GraphOK'
    BY DEF CreateInv, LinksAreSimple, GraphOK
  <2> QED
    BY <2>1, <2>2 DEF CreateInv
<1>6. CASE Sort
  <2> USE <1>6 DEF Sort
  <2>1. DrawnOK'
    BY DEF CreateInv, DrawnOK, page, Idle, Root
  <2>2. LinksAreSimple'
    BY DEF LinksAreSimple
  <2>3. IsGraph(graph')
    <3>1. ASSUME NEW i \in 0..PageCount, i # Root
          PROVE  ToSet(drawn[i]) \in SUBSET Nat /\ IsFiniteSet(ToSet(drawn[i]))
      <4>1. drawn[i] \in Seq(PageNumber)
        BY <3>1 DEF CreateInv, DrawnOK, page, Root
      <4> QED
        BY <4>1, LinksOfPage DEF PageNumber
    <3>2. graph' = [i \in 0..PageCount |-> IF i = Root THEN {} ELSE ToSet(drawn[i])]
      OBVIOUS
    <3>3. graph' \in [0..PageCount -> SUBSET Nat]
      BY <3>1, <3>2
    <3>4. graph'[Root] = {}
      BY <3>2 DEF Root
    <3>5. \A i \in 0..PageCount : IsFiniteSet(graph'[i])
      BY <3>1, <3>2, FS_EmptySet
    <3> QED
      BY <3>3, <3>4, <3>5 DEF IsGraph
  <2>4. GraphOK'
    BY <2>3 DEF GraphOK
  <2> QED
    BY <2>1, <2>2, <2>4 DEF CreateInv
<1> QED
  BY <1>1, <1>2, <1>3, <1>4, <1>5, <1>6 DEF CreateNext

-------------------------------------------------------------------------------
(* The calls. *)

Stages == {"create", "reference", "nodes", "count", "tree", "result", "done", "former",
           "loaded", "exited"}

\* The pages are described by the references find_ref takes.
ChosenOK ==
  stage \notin {"create", "reference"} =>
    encodes = [i \in Page |-> encode_bitvector(graph, i, find_ref(graph, i))]

\* The decompressor reads what the former compressor makes of the references.
StreamOK ==
  stage \in {"former", "loaded"} => stream = [i \in Page |-> FormerPage(i)]

\* Nobody asks before the files are read.
QuietOK ==
  stage # "loaded" =>
    asked = 0 /\ pageid = 0 /\ decodelist = <<>> /\ length = 0 /\ restored = 0 /\ cache = <<>>

\* A call follows the chain first and restores then.
CallOK ==
  /\ asked \in 0..PageCount /\ pageid \in 0..PageCount
  /\ length \in 0..Len(decodelist) /\ restored \in 0..(Len(decodelist) + 1)
  /\ asked = 0 => pageid = 0 /\ decodelist = <<>> /\ restored = 0
  /\ asked # 0 /\ decodelist = <<>> => pageid = asked
  /\ pageid # 0 => restored = 0
  /\ restored # 0 => decodelist # <<>>

ChainNode ==
  [nodeid : Page, reference : 0..PageCount, bitvector : Seq(BOOLEAN),
   differences : SUBSET Nat, links : SUBSET Nat]

\* A page of the chain is as it was read, or it was found in the cache.
IsCoded(n) ==
  /\ n.reference = encodes[n.nodeid].reference
  /\ n.bitvector = encodes[n.nodeid].bitvector
  /\ n.differences = encodes[n.nodeid].differences
IsWhole(n) == n.reference = 0 /\ n.differences = {} /\ n.links = graph[n.nodeid]

\* Each page refers to the next one of the chain; those that were restored have
\* all of their links, and no page has a link that is not its own.
ChainOK ==
  /\ decodelist \in Seq(ChainNode)
  /\ decodelist # <<>> => decodelist[1].nodeid = asked
  /\ \A i \in DOMAIN decodelist :
       /\ decodelist[i].reference =
            IF i < Len(decodelist) THEN decodelist[i + 1].nodeid ELSE pageid
       /\ IsCoded(decodelist[i]) \/ IsWhole(decodelist[i])
       /\ decodelist[i].links \subseteq graph[decodelist[i].nodeid]
       /\ restored > 0 /\ i >= restored => decodelist[i].links = graph[decodelist[i].nodeid]

CacheEntry == [nodeid : Page, links : SUBSET Nat]
CacheOK == cache \in Seq(CacheEntry) /\ Len(cache) <= CacheSize /\ CacheIsRight

QueryInv == QuietOK /\ CallOK /\ ChainOK /\ CacheOK

Inv == CreateInv /\ stage \in Stages /\ ChosenOK /\ StreamOK /\ QueryInv

-------------------------------------------------------------------------------
(* The steps of Compress. *)

LEMMA InvInit == Init => Inv
<1> SUFFICES ASSUME Init PROVE Inv
  OBVIOUS
<1> USE DEF Init, CompressInit
<1>1. CreateInv
  BY CreateInitInv
<1>2. stage \in Stages /\ ChosenOK /\ StreamOK /\ QuietOK
  BY DEF CreateInit, Stages, ChosenOK, StreamOK, QuietOK
<1>3. CallOK
  BY NumbersAssumption DEF CallOK
<1>4. ChainOK /\ CacheOK
  BY CacheAssumption DEF ChainOK, CacheOK, CacheIsRight
<1> QED
  BY <1>1, <1>2, <1>3, <1>4 DEF Inv, QueryInv

\* While nobody asks, the query's part holds whatever the graph is.
LEMMA QuietKeeps ==
  ASSUME Inv, stage # "loaded", UNCHANGED queryVars
  PROVE  QueryInv'
<1> USE DEF Inv, QueryInv, queryVars, QuietOK
<1>1. /\ asked' = 0 /\ pageid' = 0 /\ decodelist' = <<>> /\ length' = 0 /\ restored' = 0
      /\ cache' = <<>>
  OBVIOUS
<1>2. QuietOK' /\ CallOK'
  BY <1>1, NumbersAssumption DEF CallOK
<1>3. ChainOK' /\ CacheOK'
  BY <1>1, CacheAssumption DEF ChainOK, CacheOK, CacheIsRight
<1> QED
  BY <1>2, <1>3

\* When there is a graph the creation's part holds on.
LEMMA CreatedKeeps ==
  ASSUME CreateInv, UNCHANGED <<graph, createVars>>, stage # "create", stage' # "create"
  PROVE  CreateInv'
BY DEF CreateInv, DrawnOK, LinksAreSimple, GraphOK, createVars, page

\* Creating the graph ends with the choice of references.
LEMMA CreateStage ==
  ASSUME Inv, CreateNext
  PROVE  stage = "create" /\ stage' \in {"create", "reference"}
<1>1. copying.subcount > 0 => stage = "create"
  <2>1. copying.subcount > 0 => page # 0
    BY CreateAssumption, NumbersAssumption DEF Inv, CreateInv, DrawnOK
  <2>2. page # 0 => stage = "create"
    BY DEF Inv, CreateInv, GraphOK, page
  <2> QED
    BY <2>1, <2>2
<1> QED
  BY <1>1 DEF CreateNext, NextPage, NewLink, CopyFrom, CopyLink, GiveUp, Sort

LEMMA CompressStep ==
  ASSUME Inv, CompressNext, UNCHANGED <<stream, queryVars>>
  PROVE  Inv'
<1> USE DEF Inv
<1>1. CASE CreateNext /\ UNCHANGED <<encodes, nodes, data, codes, result>>
  <2>1. CreateInv'
    BY <1>1, CreateStepInv
  <2>2. stage = "create" /\ stage' \in {"create", "reference"}
    BY <1>1, CreateStage
  <2>3. QueryInv'
    BY <2>2, QuietKeeps
  <2> QED
    BY <2>1, <2>2, <2>3 DEF Stages, ChosenOK, StreamOK
<1>2. CASE FindReferences
  <2> USE <1>2 DEF FindReferences
  <2>1. CreateInv' /\ QueryInv'
    BY CreatedKeeps, QuietKeeps
  <2>2. ChosenOK' /\ StreamOK'
    BY DEF ChosenOK, StreamOK
  <2> QED
    BY <2>1, <2>2 DEF Stages
<1>3. CASE EncodeNodes \/ CountValues \/ MergeNodes \/ SaveCodes \/ CreateResult
  <2>1. /\ stage \in Stages \ {"create", "reference", "former", "loaded"}
        /\ stage' \in Stages \ {"create", "reference", "former", "loaded"}
        /\ UNCHANGED <<graph, createVars, encodes>>
    BY <1>3 DEF EncodeNodes, CountValues, MergeNodes, SaveCodes, CreateResult, Stages
  <2>2. CreateInv' /\ QueryInv'
    BY <2>1, CreatedKeeps, QuietKeeps
  <2>3. ChosenOK' /\ StreamOK'
    BY <2>1 DEF ChosenOK, StreamOK
  <2> QED
    BY <2>1, <2>2, <2>3
<1> QED
  BY <1>1, <1>2, <1>3 DEF CompressNext

-------------------------------------------------------------------------------
(* The steps of a call. *)

\* What was read for a page.
LEMMA Chosen ==
  ASSUME Inv, stage = "loaded", NEW p \in Page
  PROVE  LET e == encodes[p] IN
         /\ e.reference \in 0..PageCount
         /\ e.bitvector = Bits(graph[e.reference], graph[p]) /\ e.bitvector \in Seq(BOOLEAN)
         /\ e.differences = graph[p] \ graph[e.reference] /\ e.differences \in SUBSET Nat
<1> DEFINE ref == find_ref(graph, p)
<1>1. IsGraph(graph)
  BY DEF Inv, CreateInv, GraphOK
<1>2. encodes[p] = encode_bitvector(graph, p, ref)
  BY DEF Inv, ChosenOK
<1>3. ref \in 0..PageCount /\ p \in 0..PageCount
  BY <1>1, FindRefBefore, NumbersAssumption DEF Page
<1>4. graph[ref] \in SUBSET Nat /\ IsFiniteSet(graph[ref]) /\ graph[p] \in SUBSET Nat
  BY <1>1, <1>3 DEF IsGraph
<1>5. Bits(graph[ref], graph[p]) \in Seq(BOOLEAN)
  BY <1>4, BitsType
<1> HIDE DEF ref
<1> QED
  BY <1>2, <1>3, <1>4, <1>5 DEF encode_bitvector

\* The marks of a reference's links that a page has, too: as many as such links.
LEMMA MarksCounted ==
  ASSUME NEW S \in SUBSET Nat, IsFiniteSet(S), NEW links
  PROVE  LET M == {k \in 1..Cardinality(S) : Bits(S, links)[k]}
         IN Cardinality(M) = Cardinality(S \cap links)
<1> DEFINE n == Cardinality(S)
           a == Ascending(S)
           M == {k \in 1..n : Bits(S, links)[k]}
           f == [k \in M |-> a[k]]
<1>1. /\ n \in Nat /\ Len(a) = n
      /\ \A k \in 1..n : a[k] \in S /\ Position(S, a[k]) = k
      /\ \A x \in S : Position(S, x) \in 1..n /\ a[Position(S, x)] = x
  BY AscendingList
<1> HIDE DEF a, n
<1>2. ASSUME NEW k \in 1..n PROVE Bits(S, links)[k] <=> a[k] \in links
  <2>1. Bits(S, links)[k] = (\E l \in S : l \in links /\ Position(S, l) = k)
    BY DEF Bits, n
  <2> QED
    BY <1>1, <2>1
<1>3. f \in Bijection(M, S \cap links)
  <2>1. f \in [M -> S \cap links]
    BY <1>1, <1>2
  <2>2. \A j, k \in M : f[j] = f[k] => j = k
    BY <1>1
  <2>3. \A x \in S \cap links : \E k \in M : f[k] = x
    <3> SUFFICES ASSUME NEW x \in S \cap links PROVE \E k \in M : f[k] = x
      OBVIOUS
    <3>1. Position(S, x) \in M /\ f[Position(S, x)] = x
      BY <1>1, <1>2
    <3> QED
      BY <3>1
  <2> HIDE DEF f, M
  <2> QED
    BY <2>1, <2>2, <2>3 DEF Bijection, Injection, IsInjective, Surjection
<1>4. IsFiniteSet(M)
  <2>1. IsFiniteSet(1..n) /\ M \subseteq 1..n
    BY <1>1, FS_Interval
  <2> HIDE DEF M
  <2> QED
    BY <2>1, FS_Subset
<1>5. Cardinality(M) = Cardinality(S \cap links)
  <2> HIDE DEF f, M
  <2> QED
    BY <1>3, <1>4, FS_Bijection DEF ExistsBijection
<1> QED
  BY <1>5 DEF n

\* The parts of a sequence put together like a page.
LEMMA PartsOf ==
  ASSUME NEW x, NEW y, NEW A, NEW t \in Seq(A), NEW B, NEW u \in Seq(B)
  PROVE  LET s == <<x, y>> \o t \o u IN
         /\ s[1] = x /\ s[2] = y
         /\ \A k \in 1..Len(t) : s[2 + k] = t[k]
         /\ \A k \in 1..Len(u) : s[2 + Len(t) + k] = u[k]
OBVIOUS

\* decodenode finds in the stream what the former compressor put there.
LEMMA Decoded ==
  ASSUME Inv, stage = "loaded", NEW p \in Page
  PROVE  decodenode(p) = [nodeid |-> p, reference |-> encodes[p].reference,
                          bitvector |-> encodes[p].bitvector,
                          differences |-> encodes[p].differences, links |-> {}]
<1> DEFINE e == encodes[p]
           R == graph[e.reference]
           L == graph[p]
           s == stream[p]
           w == Cardinality(R)
           marks == [k \in DOMAIN e.bitvector |-> IF e.bitvector[k] THEN 1 ELSE 0]
           rest == Ascending(e.differences)
<1>1. /\ e.reference \in 0..PageCount
      /\ e.bitvector = Bits(R, L) /\ e.differences = L \ R
  BY Chosen
<1>2. /\ R \in SUBSET Nat /\ IsFiniteSet(R) /\ L \in SUBSET Nat /\ IsFiniteSet(L)
      /\ w \in Nat /\ graph[0] = {}
  <2>1. IsGraph(graph) /\ p \in 0..PageCount
    BY NumbersAssumption DEF Inv, CreateInv, GraphOK, Page
  <2> HIDE DEF e
  <2> QED
    BY <1>1, <2>1, FS_CardinalityType DEF IsGraph, Root
<1>3. stream = [i \in Page |-> FormerPage(i)]
  BY DEF Inv, StreamOK
<1>4. s = <<Cardinality(L), e.reference>> \o marks \o rest
  BY <1>3 DEF FormerPage
<1>5. /\ marks \in Seq(Nat) /\ Len(marks) = w
      /\ \A k \in 1..w : marks[k] = 1 <=> Bits(R, L)[k]
  <2>1. DOMAIN e.bitvector = 1..w
    BY <1>1, <1>2, BitsType
  <2>2. marks \in [1..w -> Nat]
    BY <2>1
  <2>3. \A k \in 1..w : marks[k] = 1 <=> e.bitvector[k]
    BY <2>1
  <2> HIDE DEF marks, e, w
  <2>4. marks \in Seq(Nat) /\ Len(marks) = w
    BY <1>2, <2>2
  <2> QED
    BY <1>1, <2>3, <2>4
<1>6. /\ rest \in Seq(L \ R) /\ Len(rest) = Cardinality(L \ R) /\ Len(rest) \in Nat
      /\ \A k \in 1..Len(rest) : rest[k] \in L \ R
      /\ \A x \in L \ R : \E k \in 1..Len(rest) : rest[k] = x
  <2>1. (L \ R) \in SUBSET Nat /\ IsFiniteSet(L \ R)
    BY <1>2, FS_Difference
  <2>2. rest = Ascending(L \ R)
    BY <1>1
  <2> HIDE DEF rest, L, R
  <2> QED
    BY <2>1, <2>2, AscendingList
<1> HIDE DEF marks, rest
<1>7. /\ s[1] = Cardinality(L) /\ s[2] = e.reference
      /\ \A k \in 1..w : s[2 + k] = marks[k]
      /\ \A k \in 1..Len(rest) : s[2 + w + k] = rest[k]
  <2> DEFINE D == L \ R
             q == <<Cardinality(L), e.reference>> \o marks \o rest
  <2>1. rest \in Seq(D)
    BY <1>6
  <2> HIDE DEF D
  <2>2. /\ q[1] = Cardinality(L) /\ q[2] = e.reference
        /\ \A k \in 1..Len(marks) : q[2 + k] = marks[k]
        /\ \A k \in 1..Len(rest) : q[2 + Len(marks) + k] = rest[k]
    BY <1>5, <2>1, PartsOf
  <2> HIDE DEF q
  <2>3. s = q
    BY <1>4 DEF q
  <2> HIDE DEF s, e, L, w
  <2> QED
    BY <1>5, <2>2, <2>3
<1>8. (IF s[2] = 0 THEN 0 ELSE stream[s[2]][1]) = w
  <2>1. CASE e.reference = 0
    BY <1>2, <1>7, <2>1, FS_EmptySet
  <2>2. CASE e.reference # 0
    <3> DEFINE r == e.reference
    <3>1. r \in Page
      BY <1>1, <2>2, NumbersAssumption DEF Page
    <3>2. stream[r] = FormerPage(r)
      BY <1>3, <3>1
    <3>3. stream[r][1] = Cardinality(graph[r])
      <4>1. \A i \in Page : encodes[i].bitvector \in Seq(BOOLEAN) /\ encodes[i].differences \in SUBSET Nat
        BY Chosen
      <4> DEFINE b == encodes[r].bitvector
                 t == [k \in DOMAIN b |-> IF b[k] THEN 1 ELSE 0]
                 u == Ascending(encodes[r].differences)
      <4>2. t \in Seq(Nat)
        <5>1. b \in Seq(BOOLEAN)
          BY <3>1, <4>1
        <5>2. Len(b) \in Nat /\ DOMAIN b = 1..Len(b)
          BY <5>1
        <5>3. t \in [1..Len(b) -> Nat]
          BY <5>2
        <5> HIDE DEF t, b
        <5> QED
          BY <5>2, <5>3
      <4>3. \E B : u \in Seq(B)
        <5>1. u \in Seq(encodes[r].differences)
          <6>1. IsFiniteSet(encodes[r].differences)
            <7>1. /\ encodes[r].differences = graph[r] \ graph[encodes[r].reference]
              BY <3>1, Chosen
            <7>2. IsFiniteSet(graph[r])
              BY <3>1, NumbersAssumption DEF Inv, CreateInv, GraphOK, IsGraph, Page
            <7> QED
              BY <7>1, <7>2, FS_Difference
          <6> HIDE DEF r
          <6> QED
            BY <3>1, <4>1, <6>1, AscendingList
        <5> QED
          BY <5>1
      <4>4. stream[r] = <<Cardinality(graph[r]), encodes[r].reference>> \o t \o u
        BY <3>2 DEF FormerPage
      <4> HIDE DEF t, u, r
      <4> QED
        BY <4>2, <4>3, <4>4, PartsOf
    <3> QED
      BY <1>7, <2>2, <3>3
  <2> QED
    BY <2>1, <2>2
<1> DEFINE found == [k \in 1..w |-> s[2 + k] = 1]
           count == Cardinality({k \in 1..w : s[2 + k] = 1})
           others == {s[2 + w + k] : k \in 1..(s[1] - count)}
<1>9. found = e.bitvector
  <2>1. \A k \in 1..w : found[k] <=> Bits(R, L)[k]
    BY <1>5, <1>7
  <2>2. Bits(R, L) = [k \in 1..w |-> \E l \in R : l \in L /\ Position(R, l) = k]
    BY DEF Bits
  <2>3. \A k \in 1..w : found[k] = Bits(R, L)[k]
    <3> SUFFICES ASSUME NEW k \in 1..w PROVE found[k] = Bits(R, L)[k]
      OBVIOUS
    <3>1. found[k] \in BOOLEAN /\ Bits(R, L)[k] \in BOOLEAN
      BY <2>2
    <3> HIDE DEF found
    <3> QED
      BY <2>1, <3>1
  <2>4. found = [k \in 1..w |-> found[k]] /\ Bits(R, L) = [k \in 1..w |-> Bits(R, L)[k]]
    BY <2>2
  <2>5. found = Bits(R, L)
    <3> HIDE DEF found
    <3> QED
      BY <2>3, <2>4
  <2> QED
    BY <1>1, <2>5
<1>10. others = e.differences
  <2>1. count = Cardinality(R \cap L)
    <3>1. {k \in 1..w : s[2 + k] = 1} = {k \in 1..w : Bits(R, L)[k]}
      BY <1>5, <1>7
    <3> QED
      BY <1>2, <3>1, MarksCounted
  <2>2. Cardinality(L) - Cardinality(R \cap L) = Cardinality(L \ R)
    <3>1. Cardinality(L) \in Nat /\ Cardinality(L \cap R) \in Nat
      BY <1>2, FS_CardinalityType, FS_Intersection
    <3>2. Cardinality(L \ R) = Cardinality(L) - Cardinality(L \cap R)
      BY <1>2, FS_Difference
    <3>3. R \cap L = L \cap R
      OBVIOUS
    <3> QED
      BY <3>1, <3>2, <3>3
  <2>3. s[1] - count = Len(rest)
    BY <1>6, <1>7, <2>1, <2>2
  <2>4. others = {rest[k] : k \in 1..Len(rest)}
    <3> HIDE DEF count, s, w, L
    <3> QED
      BY <1>7, <2>3
  <2>5. others = L \ R
    <3> HIDE DEF others, L, R
    <3> QED
      BY <1>6, <2>4
  <2> QED
    BY <1>1, <2>5
<1>11. decodenode(p) = [nodeid |-> p, reference |-> s[2], bitvector |-> found,
                        differences |-> others, links |-> {}]
  BY <1>8 DEF decodenode
<1> HIDE DEF found, others
<1> QED
  BY <1>7, <1>9, <1>10, <1>11

\* Whatever insertcache does with a page that has its links, the cache is right.
LEMMA InsertKeeps ==
  ASSUME CacheOK, NEW n \in ChainNode, n.links = graph[n.nodeid]
  PROVE  LET c == insertcache(n) IN
         /\ c \in Seq(CacheEntry) /\ Len(c) <= CacheSize
         /\ \A k \in DOMAIN c : c[k].links = graph[c[k].nodeid]
<1> DEFINE new == [nodeid |-> n.nodeid, links |-> n.links]
<1> USE DEF CacheOK, CacheIsRight
<1>1. new \in CacheEntry /\ new.links = graph[new.nodeid]
  BY DEF CacheEntry, ChainNode
<1>2. CASE insertcache(n) = cache
  BY <1>2
<1>3. CASE Len(cache) < CacheSize /\ insertcache(n) = Append(cache, new)
  <2>1. /\ Append(cache, new) \in Seq(CacheEntry)
        /\ Len(Append(cache, new)) = Len(cache) + 1 /\ Len(cache) \in Nat
        /\ \A k \in DOMAIN Append(cache, new) :
             \/ k \in DOMAIN cache /\ Append(cache, new)[k] = cache[k]
             \/ Append(cache, new)[k] = new
    BY <1>1
  <2> HIDE DEF new
  <2> QED
    BY <1>1, <1>3, <2>1, CacheAssumption
<1>4. CASE \E k : insertcache(n) = [cache EXCEPT ![k] = new]
  <2>1. PICK k : insertcache(n) = [cache EXCEPT ![k] = new]
    BY <1>4
  <2> DEFINE c == [cache EXCEPT ![k] = new]
  <2>2. c \in Seq(CacheEntry) /\ Len(c) = Len(cache) /\ DOMAIN c = DOMAIN cache
    <3>1. Len(cache) \in Nat /\ cache \in [1..Len(cache) -> CacheEntry]
      OBVIOUS
    <3>2. c \in [1..Len(cache) -> CacheEntry]
      BY <1>1, <3>1
    <3>3. \A l \in Nat : \A t \in [1..l -> CacheEntry] :
            t \in Seq(CacheEntry) /\ Len(t) = l /\ DOMAIN t = 1..l
      OBVIOUS
    <3> HIDE DEF c
    <3> QED
      BY <3>1, <3>2, <3>3
  <2>3. \A m \in DOMAIN cache : c[m] = cache[m] \/ c[m] = new
    OBVIOUS
  <2> HIDE DEF c, new
  <2> QED
    BY <1>1, <2>1, <2>2, <2>3 DEF c
<1> QED
  BY <1>2, <1>3, <1>4 DEF insertcache

\* What the steps of a call leave alone.
LEMMA CompressKeeps ==
  ASSUME Inv, UNCHANGED <<compressVars, stream>>
  PROVE  CreateInv' /\ stage' \in Stages /\ ChosenOK' /\ StreamOK' /\ StreamOK'
<1> USE DEF compressVars, createVars
<1>1. CreateInv' /\ stage' \in Stages /\ ChosenOK'
  BY DEF Inv, CreateInv, DrawnOK, LinksAreSimple, GraphOK, page, ChosenOK
<1>2. StreamOK'
  BY DEF Inv, StreamOK, FormerPage
<1> QED
  BY <1>1, <1>2

\* The steps between the compression and the calls.
LEMMA FileStep ==
  ASSUME Inv, FormerCompress \/ Load \/ NoDegreeFile
  PROVE  Inv'
<1>1. /\ stage \notin {"create", "reference", "loaded"} /\ stage' \in Stages
      /\ stage' \notin {"create", "reference"}
      /\ UNCHANGED <<graph, createVars>> /\ UNCHANGED encodes /\ UNCHANGED queryVars
  BY DEF FormerCompress, Load, NoDegreeFile, Stages
<1>2. CreateInv'
  BY <1>1, CreatedKeeps DEF Inv
<1>3. QueryInv'
  BY <1>1, QuietKeeps
<1>4. ChosenOK'
  BY <1>1 DEF Inv, ChosenOK
<1>5. StreamOK'
  <2>1. \A i \in Page : FormerPage(i)' = FormerPage(i)
    BY <1>1 DEF FormerPage
  <2>2. CASE FormerCompress
    BY <2>1, <2>2 DEF FormerCompress, StreamOK
  <2>3. CASE Load
    BY <2>1, <2>3 DEF Load, Inv, StreamOK
  <2>4. CASE NoDegreeFile
    BY <2>4 DEF NoDegreeFile, StreamOK
  <2> QED
    BY <2>2, <2>3, <2>4
<1> QED
  BY <1>1, <1>2, <1>4, <1>5, <1>3 DEF Inv

LEMMA GetLinksStep ==
  ASSUME Inv, NEW p \in Page, GetLinks(p)
  PROVE  Inv'
<1> USE DEF GetLinks
<1>1. CreateInv' /\ stage' \in Stages /\ ChosenOK' /\ StreamOK' /\ stage' = "loaded"
  BY CompressKeeps DEF compressVars
<1>2. CallOK'
  BY NumbersAssumption DEF CallOK, Page
<1>3. ChainOK'
  BY DEF ChainOK
<1>4. CacheOK'
  BY DEF Inv, QueryInv, CacheOK, CacheIsRight, compressVars
<1> QED
  BY <1>1, <1>2, <1>3, <1>4 DEF Inv, QueryInv, QuietOK

\* The chain grows by a page that has its links already, or none yet.
LEMMA ChainGrows ==
  ASSUME Inv, pageid # 0, UNCHANGED <<asked, compressVars>>,
         NEW n \in ChainNode, n.nodeid = pageid, n.reference = pageid',
         IsCoded(n) \/ IsWhole(n), n.links \subseteq graph[n.nodeid],
         decodelist' = Append(decodelist, n),
         restored' > 0 => restored' = Len(decodelist) + 2
  PROVE  /\ ChainOK' /\ decodelist' # <<>> /\ Len(decodelist') = Len(decodelist) + 1
         /\ Len(decodelist) \in Nat
<1> DEFINE last == Len(decodelist) + 1
<1>1. /\ decodelist \in Seq(ChainNode) /\ restored = 0
      /\ decodelist # <<>> => decodelist[1].nodeid = asked
      /\ decodelist = <<>> => pageid = asked
  BY DEF Inv, QueryInv, CallOK, ChainOK
<1>2. /\ Len(decodelist) \in Nat /\ Len(decodelist') = last /\ decodelist' \in Seq(ChainNode)
      /\ DOMAIN decodelist = 1..Len(decodelist) /\ DOMAIN decodelist' = 1..last
      /\ \A i \in 1..Len(decodelist) : decodelist'[i] = decodelist[i]
      /\ decodelist'[last] = n
  BY <1>1
<1>3. decodelist'[1].nodeid = asked' /\ decodelist' # <<>>
  <2>1. decodelist' # <<>>
    BY <1>2
  <2>2. CASE decodelist = <<>>
    <3>1. last = 1
      BY <2>2
    <3> QED
      BY <1>1, <1>2, <2>1, <2>2, <3>1
  <2>3. CASE decodelist # <<>>
    <3>1. 1 \in 1..Len(decodelist)
      BY <1>1, <2>3
    <3> QED
      BY <1>1, <1>2, <2>1, <2>3, <3>1
  <2> QED
    BY <2>2, <2>3
<1>4. UNCHANGED <<graph, encodes>>
  BY DEF compressVars
<1>5. ASSUME NEW i \in 1..last
      PROVE  /\ decodelist'[i].reference = IF i < last THEN decodelist'[i + 1].nodeid ELSE pageid'
             /\ (IsCoded(decodelist[i]) \/ IsWhole(decodelist[i]))'
             /\ decodelist'[i].links \subseteq graph'[decodelist'[i].nodeid]
             /\ ~(restored' > 0 /\ i >= restored')
  <2>1. ~(restored' > 0 /\ i >= restored')
    BY <1>2
  <2>2. CASE i = last
    BY <1>2, <1>4, <2>1, <2>2 DEF IsCoded, IsWhole
  <2>3. CASE i # last
    <3>1. i \in 1..Len(decodelist) /\ i < last /\ i + 1 \in 1..last
      BY <1>2, <2>3
    <3>2. /\ decodelist[i].reference =
               IF i < Len(decodelist) THEN decodelist[i + 1].nodeid ELSE pageid
          /\ IsCoded(decodelist[i]) \/ IsWhole(decodelist[i])
          /\ decodelist[i].links \subseteq graph[decodelist[i].nodeid]
      BY <1>2, <3>1 DEF Inv, QueryInv, ChainOK
    <3>3. decodelist'[i + 1].nodeid =
            IF i < Len(decodelist) THEN decodelist[i + 1].nodeid ELSE pageid
      BY <1>2, <3>1
    <3> QED
      BY <1>2, <1>4, <2>1, <3>1, <3>2, <3>3 DEF IsCoded, IsWhole
  <2> QED
    BY <2>2, <2>3
<1> QED
  BY <1>2, <1>3, <1>5 DEF ChainOK

LEMMA FindInCacheStep ==
  ASSUME Inv, FindInCache
  PROVE  Inv'
<1> USE DEF FindInCache
<1> DEFINE k == Min(Places(pageid))
           n == [nodeid |-> pageid, reference |-> 0, bitvector |-> <<>>, differences |-> {},
                 links |-> cache[k].links]
<1>1. CreateInv' /\ stage' \in Stages /\ ChosenOK' /\ StreamOK' /\ stage = "loaded" /\ stage' = stage
  BY CompressKeeps DEF compressVars, Inv, QueryInv, QuietOK
<1>2. k \in DOMAIN cache /\ cache[k].nodeid = pageid
  <2>1. Places(pageid) \in SUBSET Nat
    BY DEF Inv, QueryInv, CacheOK, Places
  <2>2. k \in Places(pageid)
    BY <2>1, MinOfNaturals
  <2> QED
    BY <2>2 DEF Places
<1>3. n \in ChainNode /\ n.links = graph[n.nodeid]
  <2>1. pageid \in Page /\ 0 \in 0..PageCount
    BY NumbersAssumption DEF Inv, QueryInv, CallOK, Page
  <2>2. cache[k] \in CacheEntry /\ cache[k].links = graph[pageid]
    BY <1>2 DEF Inv, QueryInv, CacheOK, CacheIsRight
  <2>3. <<>> \in Seq(BOOLEAN)
    OBVIOUS
  <2> HIDE DEF k
  <2> QED
    BY <2>1, <2>2, <2>3 DEF ChainNode, CacheEntry
<1>4. IsWhole(n)
  BY <1>3 DEF IsWhole
<1>5. /\ ChainOK' /\ decodelist' # <<>> /\ Len(decodelist') = Len(decodelist) + 1
      /\ Len(decodelist) \in Nat
  <2>1. /\ decodelist' = Append(decodelist, n) /\ n.reference = pageid' /\ n.nodeid = pageid
        /\ restored' = Len(decodelist') + 1
    OBVIOUS
  <2>2. restored' = Len(decodelist) + 2
    BY <2>1 DEF Inv, QueryInv, ChainOK
  <2> HIDE DEF n
  <2> QED
    BY <1>3, <1>4, <2>1, <2>2, ChainGrows
<1>6. CallOK'
  BY <1>5, NumbersAssumption DEF Inv, QueryInv, CallOK
<1>7. CacheOK'
  BY DEF Inv, QueryInv, CacheOK, CacheIsRight, compressVars
<1> QED
  BY <1>1, <1>5, <1>6, <1>7 DEF Inv, QueryInv, QuietOK

LEMMA DecodeNodeStep ==
  ASSUME Inv, DecodeNode
  PROVE  Inv'
<1> USE DEF DecodeNode
<1> DEFINE n == decodenode(pageid)
           ref == n.reference
<1>1. /\ CreateInv' /\ stage' \in Stages /\ ChosenOK' /\ StreamOK'
      /\ stage = "loaded" /\ stage' = stage
  BY CompressKeeps DEF compressVars, Inv, QueryInv, QuietOK
<1>2. pageid \in Page
  BY NumbersAssumption DEF Inv, QueryInv, CallOK, Page
<1>3. n = [nodeid |-> pageid, reference |-> encodes[pageid].reference,
           bitvector |-> encodes[pageid].bitvector,
           differences |-> encodes[pageid].differences, links |-> {}]
  BY <1>1, <1>2, Decoded
<1>4. /\ pageid' = ref /\ restored' = (IF ref = 0 THEN Len(decodelist') + 1 ELSE 0)
      /\ length' = length + 1 /\ asked' = asked /\ pageid # 0
  OBVIOUS
<1> HIDE DEF n
<1>5. n \in ChainNode /\ ref \in 0..PageCount
  BY <1>1, <1>2, <1>3, Chosen DEF ChainNode
<1>6. IsCoded(n) /\ n.nodeid = pageid /\ n.links = {}
  BY <1>3 DEF IsCoded
<1>7. /\ ChainOK' /\ decodelist' # <<>> /\ Len(decodelist') = Len(decodelist) + 1
      /\ Len(decodelist) \in Nat
  <2>1. /\ decodelist' = Append(decodelist, n) /\ n.reference = pageid' /\ n.nodeid = pageid
        /\ restored' = (IF ref = 0 THEN Len(decodelist') + 1 ELSE 0)
        /\ n.links \subseteq graph[n.nodeid]
    BY <1>6 DEF n
  <2>2. restored' > 0 => restored' = Len(decodelist) + 2
    BY <2>1 DEF Inv, QueryInv, ChainOK
  <2> QED
    BY <1>5, <1>6, <2>1, <2>2, ChainGrows
<1>8. CallOK'
  <2> HIDE DEF DecodeNode, ref
  <2> QED
    BY <1>5, <1>7, <1>4, NumbersAssumption DEF Inv, QueryInv, CallOK
<1>9. CacheOK'
  BY DEF Inv, QueryInv, CacheOK, CacheIsRight, compressVars
<1> QED
  BY <1>1, <1>7, <1>8, <1>9 DEF Inv, QueryInv, QuietOK

\* The page that is restored next, and its reference, which is the next one in
\* the chain and has all of its links.
LEMMA NextRestored ==
  ASSUME Inv, restored > 1
  PROVE  LET i == restored - 1
             n == decodelist[i]
         IN /\ stage = "loaded" /\ i \in 1..Len(decodelist) /\ n \in ChainNode
            /\ IsCoded(n) \/ IsWhole(n)
            /\ n.links \subseteq graph[n.nodeid]
            /\ n.reference # 0 =>
                 /\ restored <= Len(decodelist) /\ decodelist[restored].nodeid = n.reference
                 /\ decodelist[restored].links = graph[n.reference]
<1> DEFINE i == restored - 1
           n == decodelist[i]
<1>1. /\ restored \in Nat /\ Len(decodelist) \in Nat /\ restored <= Len(decodelist) + 1
      /\ pageid = 0 /\ stage = "loaded"
  BY DEF Inv, QueryInv, QuietOK, CallOK, ChainOK
<1>2. i \in 1..Len(decodelist) /\ i + 1 = restored /\ i \in DOMAIN decodelist
  BY <1>1 DEF Inv, QueryInv, ChainOK
<1>3. n \in ChainNode
  BY <1>2 DEF Inv, QueryInv, ChainOK
<1>4. /\ n.reference = IF i < Len(decodelist) THEN decodelist[i + 1].nodeid ELSE pageid
      /\ IsCoded(n) \/ IsWhole(n)
      /\ n.links \subseteq graph[n.nodeid]
  BY <1>2 DEF Inv, QueryInv, ChainOK
<1>5. ASSUME n.reference # 0
      PROVE  /\ restored <= Len(decodelist) /\ decodelist[restored].nodeid = n.reference
             /\ decodelist[restored].links = graph[n.reference]
  <2>1. i < Len(decodelist) /\ decodelist[restored].nodeid = n.reference
    BY <1>1, <1>2, <1>4, <1>5
  <2>2. restored \in DOMAIN decodelist
    BY <1>1, <1>2, <2>1 DEF Inv, QueryInv, ChainOK
  <2>3. decodelist[restored].links = graph[decodelist[restored].nodeid]
    BY <1>1, <2>2 DEF Inv, QueryInv, ChainOK
  <2> QED
    BY <1>1, <1>2, <2>1, <2>3
<1> QED
  BY <1>1, <1>2, <1>3, <1>4, <1>5

\* The copied links are those the page shares with its reference.
LEMMA RestoredLinks ==
  ASSUME Inv, restored > 1
  PROVE  LET i == restored - 1
             n == decodelist[i]
         IN n.links \cup Copied(i) \cup n.differences = graph[n.nodeid]
<1> DEFINE i == restored - 1
           n == decodelist[i]
<1>1. /\ stage = "loaded" /\ n \in ChainNode
      /\ IsCoded(n) \/ IsWhole(n)
      /\ n.links \subseteq graph[n.nodeid]
      /\ n.reference # 0 => decodelist[restored].links = graph[n.reference]
  BY NextRestored
<1>2. IsGraph(graph) /\ restored = i + 1
  <2>1. restored \in Int
    BY DEF Inv, QueryInv, CallOK, ChainOK
  <2> QED
    BY <1>1, <2>1 DEF Inv, CreateInv, GraphOK
<1>3. CASE IsWhole(n)
  BY <1>1, <1>3 DEF IsWhole, Copied
<1>4. CASE IsCoded(n)
  <2>1. \A m \in ChainNode : m.nodeid \in Page
    BY DEF ChainNode
  <2>2. /\ n.reference \in 0..PageCount
        /\ n.bitvector = Bits(graph[n.reference], graph[n.nodeid])
        /\ n.differences = graph[n.nodeid] \ graph[n.reference]
    <3> HIDE DEF n
    <3>1. n.nodeid \in Page
      BY <1>1, <2>1
    <3> QED
      BY <1>1, <1>4, <3>1, Chosen DEF IsCoded
  <2>3. graph[n.reference] \in SUBSET Nat /\ IsFiniteSet(graph[n.reference])
    BY <1>2, <2>2 DEF IsGraph
  <2>4. CASE n.reference = 0
    <3>1. Copied(i) = {}
      BY <2>4 DEF Copied
    <3>2. n.differences = graph[n.nodeid]
      BY <1>2, <2>2, <2>4 DEF IsGraph, Root
    <3> QED
      BY <1>1, <3>1, <3>2
  <2>5. CASE n.reference # 0
    <3> DEFINE from == graph[n.reference]
    <3>1. decodelist[i + 1].links = from
      BY <1>1, <1>2, <2>5
    <3>2. Copied(i) = {l \in from : /\ Position(from, l) \in DOMAIN n.bitvector
                                    /\ n.bitvector[Position(from, l)]}
      BY <2>5, <3>1 DEF Copied
    <3>3. Copied(i) = from \cap graph[n.nodeid]
      BY <2>2, <2>3, <3>2, MarkedLinks
    <3> QED
      BY <1>1, <2>2, <3>3
  <2> QED
    BY <2>4, <2>5
<1> QED
  BY <1>1, <1>3, <1>4

LEMMA RestoreLinksStep ==
  ASSUME Inv, RestoreLinks
  PROVE  Inv'
<1>0. ChainOK /\ restored > 0
  <2>1. ChainOK
    BY DEF Inv, QueryInv
  <2>2. restored > 1
    BY DEF RestoreLinks
  <2>3. Len(decodelist) \in Nat
    BY <2>1 DEF ChainOK
  <2>4. restored \in 0..(Len(decodelist) + 1)
    BY DEF Inv, QueryInv, CallOK
  <2> QED
    BY <2>1, <2>2, <2>3, <2>4
<1> USE DEF RestoreLinks
<1> DEFINE i == restored - 1
           n == decodelist[i]
           links == n.links \cup Copied(i) \cup n.differences
           full == [n EXCEPT !.links = links]
<1>1. CreateInv' /\ stage' \in Stages /\ ChosenOK' /\ StreamOK' /\ stage' = stage
  BY CompressKeeps DEF compressVars
<1>2. /\ stage = "loaded" /\ i \in 1..Len(decodelist) /\ n \in ChainNode
      /\ IsCoded(n) \/ IsWhole(n)
  BY NextRestored
<1>3. links = graph[n.nodeid]
  BY RestoredLinks
<1>4. /\ full.nodeid = n.nodeid /\ full.reference = n.reference
      /\ full.bitvector = n.bitvector /\ full.differences = n.differences
      /\ full.links = graph[n.nodeid] /\ full \in ChainNode
  <2>1. n.nodeid \in Page /\ Page \subseteq 0..PageCount
    BY <1>2, NumbersAssumption DEF ChainNode, Page
  <2>2. graph[n.nodeid] \in SUBSET Nat
    BY <1>2, <2>1 DEF Inv, CreateInv, GraphOK, IsGraph
  <2> HIDE DEF n, links
  <2> QED
    BY <1>2, <1>3, <2>2 DEF ChainNode
<1>5. /\ decodelist \in Seq(ChainNode) /\ Len(decodelist) \in Nat
      /\ DOMAIN decodelist = 1..Len(decodelist)
  BY DEF Inv, QueryInv, ChainOK
<1>6. /\ decodelist' \in Seq(ChainNode) /\ Len(decodelist') = Len(decodelist)
      /\ DOMAIN decodelist' = 1..Len(decodelist)
      /\ decodelist'[i] = full
      /\ \A j \in 1..Len(decodelist) : j # i => decodelist'[j] = decodelist[j]
  <2>1. decodelist' = [decodelist EXCEPT ![i] = full]
    BY <1>2, <1>5
  <2> HIDE DEF i, full, n, RestoreLinks
  <2>2. \A s \in Seq(ChainNode) : \A k \in 1..Len(s) : \A m \in ChainNode :
          LET t == [s EXCEPT ![k] = m] IN
          /\ t \in Seq(ChainNode) /\ Len(t) = Len(s) /\ DOMAIN t = 1..Len(s)
          /\ t[k] = m /\ \A j \in 1..Len(s) : j # k => t[j] = s[j]
    OBVIOUS
  <2> QED
    BY <1>2, <1>4, <1>5, <2>1, <2>2
<1>7. \A j \in 1..Len(decodelist) :
        /\ decodelist'[j].nodeid = decodelist[j].nodeid
        /\ decodelist'[j].reference = decodelist[j].reference
        /\ decodelist'[j].bitvector = decodelist[j].bitvector
        /\ decodelist'[j].differences = decodelist[j].differences
        /\ j # i => decodelist'[j].links = decodelist[j].links
  <2> HIDE DEF i, full
  <2> QED
    BY <1>4, <1>6 DEF n
<1>8. UNCHANGED <<graph, encodes, asked, pageid, length>> /\ restored' = i
  BY DEF compressVars
<1>9. ChainOK'
  <2>1. decodelist' # <<>> => decodelist'[1].nodeid = asked'
    BY <1>2, <1>5, <1>6, <1>7, <1>8 DEF Inv, QueryInv, ChainOK
  <2>2. ASSUME NEW j \in 1..Len(decodelist)
        PROVE  /\ decodelist'[j].reference =
                    IF j < Len(decodelist) THEN decodelist'[j + 1].nodeid ELSE pageid'
               /\ (IsCoded(decodelist[j]) \/ IsWhole(decodelist[j]))'
               /\ decodelist'[j].links \subseteq graph'[decodelist'[j].nodeid]
               /\ j >= i => decodelist'[j].links = graph'[decodelist'[j].nodeid]
    <3>1. /\ decodelist[j].reference =
               IF j < Len(decodelist) THEN decodelist[j + 1].nodeid ELSE pageid
          /\ IsCoded(decodelist[j]) \/ IsWhole(decodelist[j])
          /\ decodelist[j].links \subseteq graph[decodelist[j].nodeid]
          /\ j >= restored => decodelist[j].links = graph[decodelist[j].nodeid]
      <4>1. ChainOK /\ restored > 0 /\ j \in DOMAIN decodelist
        BY <1>0, <1>5
      <4> HIDE DEF i, full, n, RestoreLinks
      <4> QED
        BY <4>1 DEF ChainOK
    <3>2. decodelist'[j].reference =
            IF j < Len(decodelist) THEN decodelist'[j + 1].nodeid ELSE pageid'
      <4>1. j < Len(decodelist) => j + 1 \in 1..Len(decodelist)
        BY <1>5
      <4> QED
        BY <1>7, <1>8, <3>1, <4>1
    <3>3. CASE j = i
      BY <1>4, <1>6, <1>7, <1>8, <3>1, <3>2, <3>3 DEF IsCoded, IsWhole
    <3>4. CASE j # i
      <4>1. j >= i => j >= restored
        BY <3>4 DEF Inv, QueryInv, CallOK
      <4>2. decodelist'[j] = decodelist[j]
        BY <1>6, <3>4
      <4> HIDE DEF i
      <4> QED
        BY <1>8, <3>1, <3>2, <4>1, <4>2 DEF IsCoded, IsWhole
    <3> QED
      BY <3>3, <3>4
  <2> HIDE DEF i, full, n, RestoreLinks
  <2>3. DOMAIN decodelist' = 1..Len(decodelist) /\ Len(decodelist') = Len(decodelist)
    BY <1>6
  <2> QED
    BY <1>6, <1>8, <2>1, <2>2, <2>3 DEF ChainOK
<1>10. CacheOK'
  <2>1. CASE cache' = cache
    BY <1>8, <2>1 DEF Inv, QueryInv, CacheOK, CacheIsRight
  <2>2. CASE cache' = insertcache(full)
    <3>1. CacheOK
      BY DEF Inv, QueryInv
    <3> HIDE DEF full
    <3> QED
      BY <1>4, <1>8, <2>2, <3>1, InsertKeeps DEF CacheOK, CacheIsRight
  <2>3. cache' = cache \/ cache' = insertcache(full)
    <3>1. cache' = cache \/ cache' = insertcache(decodelist'[i])
      BY DEF insertcache
    <3> QED
      BY <1>6, <3>1
  <2> QED
    BY <2>1, <2>2, <2>3
<1>11. CallOK'
  <2> HIDE DEF full
  <2>1. restored' \in 0..(Len(decodelist) + 1) /\ decodelist' # <<>> /\ decodelist # <<>>
    BY <1>2, <1>5, <1>6, <1>8
  <2>2. CallOK /\ restored > 1
    BY DEF Inv, QueryInv
  <2> QED
    BY <1>6, <1>8, <2>1, <2>2 DEF CallOK
<1> QED
  BY <1>1, <1>2, <1>9, <1>10, <1>11 DEF Inv, QueryInv, QuietOK

LEMMA ReturnStep ==
  ASSUME Inv, Return
  PROVE  Inv' /\ answer' = graph[asked] /\ asked # 0
<1> USE DEF Return
<1>1. CreateInv' /\ stage' \in Stages /\ ChosenOK' /\ StreamOK' /\ stage' = stage /\ stage = "loaded"
  BY CompressKeeps DEF compressVars, Inv, QueryInv, QuietOK
<1>2. CallOK' /\ asked # 0
  BY NumbersAssumption DEF Inv, QueryInv, CallOK
<1>3. ChainOK'
  BY DEF ChainOK
<1>4. CacheOK'
  BY DEF Inv, QueryInv, CacheOK, CacheIsRight, compressVars
<1>5. answer' = graph[asked]
  <2>1. decodelist # <<>> /\ 1 \in DOMAIN decodelist
    BY DEF Inv, QueryInv, CallOK, ChainOK
  <2>2. decodelist[1].nodeid = asked /\ decodelist[1].links = graph[decodelist[1].nodeid]
    BY <2>1 DEF Inv, QueryInv, ChainOK
  <2> QED
    BY <2>2
<1> QED
  BY <1>1, <1>2, <1>3, <1>4, <1>5 DEF Inv, QueryInv, QuietOK

-------------------------------------------------------------------------------
(* All steps. *)

LEMMA InvStep == Inv /\ [Next]_vars => Inv'
<1> SUFFICES ASSUME Inv, [Next]_vars PROVE Inv'
  OBVIOUS
<1>1. CASE CompressNext /\ UNCHANGED <<stream, queryVars>>
  BY <1>1, CompressStep
<1>2. CASE FormerCompress \/ Load \/ NoDegreeFile
  BY <1>2, FileStep
<1>3. ASSUME NEW p \in Page, GetLinks(p) PROVE Inv'
  BY <1>3, GetLinksStep
<1>4. CASE GetLinksWork
  BY <1>4, FindInCacheStep, DecodeNodeStep, RestoreLinksStep, ReturnStep DEF GetLinksWork
<1>5. CASE UNCHANGED vars
  <2>1. CreateInv' /\ stage' \in Stages /\ ChosenOK' /\ StreamOK'
    BY <1>5, CompressKeeps DEF vars
  <2>2. QuietOK' /\ CallOK'
    BY <1>5 DEF Inv, QueryInv, QuietOK, CallOK, vars, compressVars, queryVars
  <2>3. ChainOK'
    BY <1>5 DEF Inv, QueryInv, ChainOK, IsCoded, IsWhole, vars, compressVars, queryVars
  <2>4. CacheOK'
    BY <1>5 DEF Inv, QueryInv, CacheOK, CacheIsRight, vars, compressVars, queryVars
  <2> QED
    BY <2>1, <2>2, <2>3, <2>4 DEF Inv, QueryInv
<1> QED
  BY <1>1, <1>2, <1>3, <1>4, <1>5 DEF Next, Exited

LEMMA InvAlways == Spec => []Inv
BY InvInit, InvStep, PTL DEF Spec

-------------------------------------------------------------------------------
(* What Compress keeps from the nodes to the result. *)

\* The values that are counted.
Values == ToSet(FlattenSeq([i \in Page |-> Counted(nodes[i])]))

NodesOK ==
  stage \notin {"create", "reference", "nodes", "former", "loaded"} => nodes = [i \in Page |-> EncodedNode(i)]
TreeOK == stage = "tree" => IsTree(data, Values)
CodesOK ==
  stage \in {"result", "done"} =>
    \A x \in Values : \E k \in DOMAIN codes : codes[k].info = x
ResultOK ==
  stage = "done" => result = [i \in Page |-> Written(nodes[i])]
WrittenInv == NodesOK /\ TreeOK /\ CodesOK /\ ResultOK

\* Before the nodes are encoded.
LEMMA EncodedIsNode ==
  ASSUME Inv, stage \notin {"create", "reference"}, NEW i \in Page
  PROVE  IsNode(EncodedNode(i), graph, i) /\ IsGraph(graph)
<1> DEFINE ref == find_ref(graph, i)
<1>1. encodes[i] = encode_bitvector(graph, i, ref)
  BY DEF Inv, ChosenOK
<1> HIDE DEF ref
<1>2. /\ encodes[i].reference = ref /\ encodes[i].bitvector = Bits(graph[ref], graph[i])
      /\ encodes[i].differences = graph[i] \ graph[ref]
  BY <1>1 DEF encode_bitvector
<1>3. IsNode(EncodedNode(i), graph, i)
  BY <1>2 DEF EncodedNode, IsNode, ref
<1>4. IsGraph(graph)
  BY DEF Inv, CreateInv, GraphOK
<1> QED
  BY <1>3, <1>4

\* The nodes of the pages.
LEMMA NodesAre ==
  ASSUME Inv, NodesOK, stage \notin {"create", "reference", "nodes", "former", "loaded"},
         NEW i \in Page
  PROVE  IsNode(nodes[i], graph, i) /\ IsGraph(graph)
<1>1. nodes[i] = EncodedNode(i)
  BY DEF NodesOK
<1> QED
  BY <1>1, EncodedIsNode

\* The values that are counted are those of the pages.
LEMMA ValuesAre ==
  ASSUME Inv, NodesOK, stage \notin {"create", "reference", "nodes", "former", "loaded"}
  PROVE  /\ Values \in SUBSET Nat /\ IsFiniteSet(Values)
         /\ FlattenSeq([i \in Page |-> Counted(nodes[i])]) \in Seq(Nat)
         /\ \A i \in Page : ToSet(Counted(nodes[i])) \subseteq Values
<1> DEFINE s == [i \in Page |-> Counted(nodes[i])]
<1>1. ASSUME NEW i \in Page PROVE Counted(nodes[i]) \in Seq(Nat)
  <2>1. IsNode(nodes[i], graph, i) /\ IsGraph(graph)
    BY NodesAre
  <2> QED
    BY <2>1, PageIsWritable
<1>2. s \in Seq(Seq(Nat)) /\ Len(s) = PageCount /\ PageCount \in Nat
  <2>1. s \in [Page -> Seq(Nat)]
    BY <1>1
  <2> HIDE DEF s
  <2> QED
    BY <2>1, NumbersAssumption DEF Page
<1>3. Values = ToSet(FlattenSeq(s))
  BY DEF Values
<1>4. \A i \in Page : s[i] = Counted(nodes[i])
  OBVIOUS
<1>7. FlattenSeq([i \in Page |-> Counted(nodes[i])]) = FlattenSeq(s)
  OBVIOUS
<1> HIDE DEF s
<1>5. FlattenSeq(s) \in Seq(Nat)
  BY <1>2, FlattenPlaces
<1>6. \A i \in Page : ToSet(s[i]) \subseteq ToSet(FlattenSeq(s))
  BY <1>2, FlattenHolds DEF Page
<1> QED
  BY <1>3, <1>4, <1>5, <1>6, <1>7, SetIsFinite

LEMMA WrittenInit == Init => WrittenInv
BY DEF Init, CompressInit, CreateInit, WrittenInv, NodesOK, TreeOK, CodesOK, ResultOK

\* What does not change the lists keeps what is known of them.
LEMMA WrittenKeeps ==
  ASSUME WrittenInv, UNCHANGED <<graph, encodes, nodes, data, codes, result>>,
         \/ stage' = stage
         \/ stage = "nodes" /\ stage' = "former"
         \/ stage = "former" /\ stage' = "loaded"
         \/ stage = "done" /\ stage' = "exited"
  PROVE  WrittenInv'
<1>1. Values' = Values /\ \A i \in Page : EncodedNode(i)' = EncodedNode(i)
  BY DEF Values, EncodedNode
<1>2. NodesOK'
  BY <1>1 DEF WrittenInv, NodesOK
<1>3. TreeOK' /\ CodesOK' /\ ResultOK'
  BY <1>1 DEF WrittenInv, TreeOK, CodesOK, ResultOK
<1> QED
  BY <1>2, <1>3 DEF WrittenInv

LEMMA WrittenStep == Inv /\ Inv' /\ WrittenInv /\ [Next]_vars => WrittenInv'
<1> SUFFICES ASSUME Inv, Inv', WrittenInv, [Next]_vars PROVE WrittenInv'
  OBVIOUS
<1>1. CASE CreateNext /\ UNCHANGED <<encodes, nodes, data, codes, result>>
  <2>1. stage' \in {"create", "reference"}
    BY <1>1, CreateStage
  <2> QED
    BY <2>1 DEF WrittenInv, NodesOK, TreeOK, CodesOK, ResultOK
<1>2. CASE FindReferences
  BY <1>2 DEF FindReferences, WrittenInv, NodesOK, TreeOK, CodesOK, ResultOK
<1>3. CASE EncodeNodes
  <2>1. stage' = "count" /\ nodes' = [i \in Page |-> EncodedNode(i)]
        /\ \A i \in Page : EncodedNode(i)' = EncodedNode(i)
    BY <1>3 DEF EncodeNodes, EncodedNode
  <2> QED
    BY <2>1 DEF WrittenInv, NodesOK, TreeOK, CodesOK, ResultOK
<1>4. CASE CountValues
  <2> DEFINE counted == FlattenSeq([i \in Page |-> Counted(nodes[i])])
             weights == ToBag(counted)
  <2>1. /\ stage = "count" /\ data' = Leaves(weights) /\ stage' \in {"exited", "tree"}
        /\ UNCHANGED <<graph, encodes, nodes, codes, result>>
    BY <1>4 DEF CountValues
  <2>2. NodesOK' /\ Values' = Values
    <3>1. \A i \in Page : EncodedNode(i)' = EncodedNode(i)
      BY <2>1 DEF EncodedNode
    <3> QED
      BY <2>1, <3>1 DEF WrittenInv, NodesOK, Values
  <2>3. DOMAIN weights = Values
    <3> HIDE DEF counted
    <3> QED
      BY DEF ToBag, Range, Values, ToSet, counted
  <2>4. Values \in SUBSET Nat /\ IsFiniteSet(Values)
    BY <2>1, ValuesAre DEF WrittenInv
  <2> HIDE DEF weights
  <2>5. IsTree(data', Values')
    BY <2>1, <2>2, <2>3, <2>4, LeavesAreTree
  <2> QED
    BY <2>1, <2>2, <2>5 DEF WrittenInv, TreeOK, CodesOK, ResultOK
<1>5. CASE MergeNodes
  <2>1. /\ stage = "tree" /\ stage' = "tree" /\ data' = Merge(data)
        /\ UNCHANGED <<graph, encodes, nodes, codes, result>>
    BY <1>5 DEF MergeNodes
  <2>2. NodesOK' /\ Values' = Values
    <3>1. \A i \in Page : EncodedNode(i)' = EncodedNode(i)
      BY <2>1 DEF EncodedNode
    <3> QED
      BY <2>1, <3>1 DEF WrittenInv, NodesOK, Values
  <2>3. Cardinality(Values) \in Nat
    BY <2>1, ValuesAre, FS_CardinalityType DEF WrittenInv
  <2>4. IsTree(data', Values')
    BY <2>1, <2>2, <2>3, MergeKeepsTree DEF WrittenInv, TreeOK
  <2> QED
    BY <2>1, <2>2, <2>4 DEF WrittenInv, TreeOK, CodesOK, ResultOK
<1>6. CASE SaveCodes
  <2>1. /\ stage = "tree" /\ stage' = "result" /\ codes' = Codes(data, Nodesize)
        /\ UNCHANGED <<graph, encodes, nodes, data, result>>
    BY <1>6 DEF SaveCodes
  <2>2. NodesOK' /\ Values' = Values
    <3>1. \A i \in Page : EncodedNode(i)' = EncodedNode(i)
      BY <2>1 DEF EncodedNode
    <3> QED
      BY <2>1, <3>1 DEF WrittenInv, NodesOK, Values
  <2>3. Values \in SUBSET Nat /\ IsFiniteSet(Values) /\ IsTree(data, Values)
    BY <2>1, ValuesAre DEF WrittenInv, TreeOK
  <2>4. \A x \in Values : \E k \in DOMAIN codes' : codes'[k].info = x
    BY <2>1, <2>3, CodesOfLeaves DEF Nodesize
  <2> QED
    BY <2>1, <2>2, <2>4 DEF WrittenInv, TreeOK, CodesOK, ResultOK
<1>7. CASE CreateResult
  <2>1. /\ stage = "result" /\ stage' = "done" /\ result' = [i \in Page |-> Written(nodes[i])]
        /\ UNCHANGED <<graph, encodes, nodes, data, codes>>
    BY <1>7 DEF CreateResult
  <2>2. NodesOK' /\ Values' = Values
    <3>1. \A i \in Page : EncodedNode(i)' = EncodedNode(i)
      BY <2>1 DEF EncodedNode
    <3> QED
      BY <2>1, <3>1 DEF WrittenInv, NodesOK, Values
  <2> QED
    BY <2>1, <2>2 DEF WrittenInv, TreeOK, CodesOK, ResultOK
<1>8. CASE FormerCompress \/ Load \/ NoDegreeFile
  BY <1>8, WrittenKeeps DEF FormerCompress, Load, NoDegreeFile
<1>9. CASE \/ \E p \in Page : GetLinks(p)
           \/ GetLinksWork
           \/ UNCHANGED vars
  <2>1. UNCHANGED compressVars
    BY <1>9 DEF GetLinks, GetLinksWork, FindInCache, DecodeNode, RestoreLinks, Return, vars
  <2> QED
    BY <2>1, WrittenKeeps DEF compressVars
<1> QED
  BY <1>1, <1>2, <1>3, <1>4, <1>5, <1>6, <1>7, <1>8, <1>9 DEF Next, CompressNext, Exited

LEMMA WrittenAlways == Spec => [](Inv /\ WrittenInv)
<1>1. Init => WrittenInv
  BY WrittenInit
<1>2. Inv /\ Inv' /\ WrittenInv /\ [Next]_vars => WrittenInv'
  BY WrittenStep
<1> QED
  BY <1>1, <1>2, InvAlways, PTL DEF Spec

-------------------------------------------------------------------------------
(* The tree and the codes. *)

\* Until its codes are used the tree is one of the counted values; the codes are
\* those of the finished tree.
TreeInv ==
  /\ stage \in {"tree", "result"} => IsTree(data, Values) /\ IsBuilt(data, Cardinality(Values))
  /\ stage = "result" => codes = Codes(data, Nodesize) /\ Len(data) = TreeSize(Nodesize)

LEMMA TreeInit == Init => TreeInv
BY DEF Init, CompressInit, CreateInit, TreeInv

\* The number of values, and the tree's nodes.
LEMMA TreeIs ==
  ASSUME Inv, WrittenInv, TreeInv, stage \in {"tree", "result"}
  PROVE  /\ Cardinality(Values) \in Nat /\ Nodesize = Cardinality(Values)
         /\ Len(data) \in Nat /\ DOMAIN data = 1..Len(data)
<1>1. IsTree(data, Values) /\ IsBuilt(data, Cardinality(Values))
  BY DEF TreeInv
<1>2. Cardinality(Values) \in Nat
  BY ValuesAre, FS_CardinalityType DEF WrittenInv
<1>3. Len(data) \in Nat /\ data = [k \in 1..Len(data) |-> data[k]]
  BY <1>1 DEF IsTree
<1>4. DOMAIN data = 1..Len(data)
  BY <1>3
<1>5. Nodesize = Cardinality(Values)
  BY <1>1, <1>2, <1>3, <1>4, LeavesAre DEF Nodesize
<1> QED
  BY <1>2, <1>3, <1>4, <1>5

LEMMA TreeStep == Inv /\ WrittenInv /\ TreeInv /\ [Next]_vars => TreeInv'
<1> SUFFICES ASSUME Inv, WrittenInv, TreeInv, [Next]_vars PROVE TreeInv'
  OBVIOUS
<1>1. CASE CreateNext /\ UNCHANGED <<encodes, nodes, data, codes, result>>
  BY <1>1, CreateStage DEF TreeInv
<1>2. CASE \/ FindReferences \/ EncodeNodes \/ CreateResult
           \/ FormerCompress \/ Load \/ NoDegreeFile
  BY <1>2 DEF FindReferences, EncodeNodes, CreateResult, FormerCompress, Load, NoDegreeFile,
              TreeInv
<1>3. CASE CountValues
  <2> DEFINE counted == FlattenSeq([i \in Page |-> Counted(nodes[i])])
             weights == ToBag(counted)
  <2>1. /\ stage = "count" /\ data' = Leaves(weights) /\ stage' \in {"exited", "tree"}
        /\ nodes' = nodes
    BY <1>3 DEF CountValues
  <2>2. Values' = Values /\ Values = ToSet(counted)
    BY <2>1 DEF Values
  <2>3. counted \in Seq(Nat) /\ Values \in SUBSET Nat /\ IsFiniteSet(Values)
    BY <2>1, ValuesAre DEF WrittenInv
  <2> HIDE DEF counted
  <2>4. weights \in [Values -> Nat] /\ DOMAIN weights = Values
    BY <2>2, <2>3, BagIsCounts
  <2> HIDE DEF weights
  <2>5. IsTree(data', Values') /\ IsBuilt(data', Cardinality(Values'))
    BY <2>1, <2>2, <2>3, <2>4, LeavesAreTree, LeavesBuilt
  <2> QED
    BY <2>1, <2>5 DEF TreeInv
<1>4. CASE MergeNodes
  <2>1. /\ stage = "tree" /\ stage' = "tree" /\ data' = Merge(data) /\ nodes' = nodes
        /\ Len(data) < TreeSize(Nodesize)
    BY <1>4 DEF MergeNodes
  <2>2. Values' = Values
    BY <2>1 DEF Values
  <2>3. IsTree(data, Values) /\ IsBuilt(data, Cardinality(Values))
    BY <2>1 DEF TreeInv
  <2>4. Cardinality(Values) \in Nat /\ Nodesize = Cardinality(Values)
    BY <2>1, TreeIs
  <2>5. Len(data) < 2 * Cardinality(Values) - 1
    BY <2>1, <2>4 DEF TreeSize
  <2>6. IsTree(data', Values') /\ IsBuilt(data', Cardinality(Values'))
    BY <2>1, <2>2, <2>3, <2>4, <2>5, MergeKeepsTree, MergeBuilt
  <2> QED
    BY <2>1, <2>6 DEF TreeInv
<1>5. CASE SaveCodes
  <2>1. /\ stage = "tree" /\ stage' = "result" /\ codes' = Codes(data, Nodesize)
        /\ Len(data) = TreeSize(Nodesize) /\ UNCHANGED <<nodes, data>>
    BY <1>5 DEF SaveCodes
  <2>2. Values' = Values /\ Nodesize' = Nodesize
    BY <2>1 DEF Values, Nodesize
  <2> QED
    BY <2>1, <2>2 DEF TreeInv
<1>6. CASE \/ \E p \in Page : GetLinks(p)
           \/ GetLinksWork
           \/ UNCHANGED vars
  <2>1. UNCHANGED <<stage, nodes, data, codes>>
    BY <1>6 DEF GetLinks, GetLinksWork, FindInCache, DecodeNode, RestoreLinks, Return, vars,
                compressVars
  <2>2. Values' = Values /\ Nodesize' = Nodesize
    BY <2>1 DEF Values, Nodesize
  <2> QED
    BY <2>1, <2>2 DEF TreeInv
<1> QED
  BY <1>1, <1>2, <1>3, <1>4, <1>5, <1>6 DEF Next, CompressNext, Exited

LEMMA TreeAlways == Spec => [](Inv /\ WrittenInv /\ TreeInv)
<1>1. Init => TreeInv
  BY TreeInit
<1>2. Inv /\ WrittenInv /\ TreeInv /\ [Next]_vars => TreeInv'
  BY TreeStep
<1> QED
  BY <1>1, <1>2, WrittenAlways, PTL DEF Spec

-------------------------------------------------------------------------------
(* The theorems. *)

\* All variables keep their types: the lists being drawn, the stage, the chain and
\* the cache, which never outgrows cachesize.
THEOREM TypeCorrect == Spec => []TypeOK
<1>1. Inv => TypeOK
  <2> SUFFICES ASSUME Inv PROVE TypeOK
    OBVIOUS
  <2>1. graph = <<>> \/ graph \in [0..PageCount -> SUBSET Nat]
    BY DEF Inv, CreateInv, GraphOK, IsGraph
  <2>2. /\ linkscount \in Seq(LinkCounts) /\ Len(drawn) = Len(linkscount)
        /\ copying.from \in 0..PageCount /\ copying.subcount \in Nat
    BY DEF Inv, CreateInv, DrawnOK
  <2>3. /\ \A k \in DOMAIN cache : cache[k].nodeid \in Page
        /\ \A i \in DOMAIN decodelist : decodelist[i].nodeid \in Page
    <3>1. cache \in Seq(CacheEntry) /\ decodelist \in Seq(ChainNode)
      BY DEF Inv, QueryInv, CacheOK, ChainOK
    <3>2. /\ \A k \in DOMAIN cache : cache[k] \in CacheEntry
          /\ \A i \in DOMAIN decodelist : decodelist[i] \in ChainNode
      BY <3>1
    <3> QED
      BY <3>2 DEF CacheEntry, ChainNode
  <2> QED
    BY <2>1, <2>2, <2>3 DEF TypeOK, Inv, Stages, QueryInv, CallOK, CacheOK
<1> QED
  BY <1>1, InvAlways, PTL

\* No page that is made up links to itself, to the root or twice to one page.
THEOREM SimpleLinks == Spec => []LinksAreSimple
<1>1. Inv => LinksAreSimple
  BY DEF Inv, CreateInv
<1> QED
  BY <1>1, InvAlways, PTL

\* The cache holds under each page's number the links of that page, whatever was
\* asked and whatever was replaced.
THEOREM RightCache == Spec => []CacheIsRight
<1>1. Inv => CacheIsRight
  BY DEF Inv, QueryInv, CacheOK
<1> QED
  BY <1>1, InvAlways, PTL

\* When a page's marked links are copied, its reference is the next page of the
\* chain and has one link for each bit: no index is out of bounds.
THEOREM FittingBits == Spec => []BitsFit
<1>1. Inv => BitsFit
  <2> SUFFICES ASSUME Inv, restored > 1, decodelist[restored - 1].reference # 0
               PROVE  LET n == decodelist[restored - 1] IN
                      /\ restored <= Len(decodelist)
                      /\ decodelist[restored].nodeid = n.reference
                      /\ Len(n.bitvector) = Cardinality(decodelist[restored].links)
    BY DEF BitsFit
  <2> DEFINE n == decodelist[restored - 1]
  <2>1. /\ stage = "loaded" /\ n \in ChainNode
        /\ IsCoded(n) \/ IsWhole(n)
        /\ restored <= Len(decodelist) /\ decodelist[restored].nodeid = n.reference
        /\ decodelist[restored].links = graph[n.reference]
    BY NextRestored
  <2>2. IsCoded(n) /\ n.nodeid \in Page
    BY <2>1 DEF IsWhole, ChainNode
  <2>3. n.reference \in 0..PageCount /\ n.bitvector = Bits(graph[n.reference], graph[n.nodeid])
    <3> HIDE DEF n
    <3> QED
      BY <2>1, <2>2, Chosen DEF IsCoded
  <2>4. IsFiniteSet(graph[n.reference])
    BY <2>1, <2>3 DEF Inv, CreateInv, GraphOK, IsGraph
  <2>5. Len(n.bitvector) = Cardinality(graph[n.reference])
    BY <2>3, <2>4, BitsType
  <2> QED
    BY <2>1, <2>5
<1> QED
  BY <1>1, InvAlways, PTL

\* Over a file of the form decodenode reads, getlinks implements a plain table of
\* links: every answer is the links the page has in the graph, whatever was asked
\* before.  Each step is a step of LinkStore or changes nothing it sees.
THEOREM AnswersAreLinks == Spec => Store!SafeSpec
<1>1. Init => Store!Init
  BY DEF Init, Store!Init
<1>2. Inv /\ [Next]_vars => [Store!Next]_(Store!vars)
  <2> SUFFICES ASSUME Inv, [Next]_vars PROVE Store!Next \/ UNCHANGED Store!vars
    OBVIOUS
  <2> USE DEF Store!vars
  <2>1. CASE CompressNext /\ UNCHANGED <<stream, queryVars>>
    <3>1. CASE stage = "create"
      <4>1. graph = <<>> /\ asked = 0 /\ UNCHANGED <<asked, answer>>
        BY <2>1, <3>1 DEF Inv, CreateInv, GraphOK, QueryInv, QuietOK, queryVars
      <4> QED
        BY <4>1 DEF Store!Next, Store!Fill
    <3>2. CASE stage # "create"
      <4>1. ~CreateNext
        BY <3>2, CreateStage
      <4>2. UNCHANGED <<graph, asked, answer>>
        BY <2>1, <4>1 DEF CompressNext, FindReferences, EncodeNodes, CountValues, MergeNodes,
                          SaveCodes, CreateResult, queryVars
      <4> QED
        BY <4>2
    <3> QED
      BY <3>1, <3>2
  <2>2. CASE FormerCompress \/ Load \/ NoDegreeFile
    BY <2>2 DEF FormerCompress, Load, NoDegreeFile, queryVars
  <2>3. ASSUME NEW p \in Page, GetLinks(p) PROVE Store!Next
    BY <2>3 DEF GetLinks, compressVars, Store!Next, Store!Ask
  <2>4. CASE FindInCache \/ DecodeNode \/ RestoreLinks
    BY <2>4 DEF FindInCache, DecodeNode, RestoreLinks, compressVars
  <2>5. CASE Return
    <3>1. answer' = graph[asked] /\ asked # 0
      BY <2>5, ReturnStep
    <3> QED
      BY <2>5, <3>1 DEF Return, compressVars, Store!Next, Store!Answer
  <2>6. CASE UNCHANGED vars
    BY <2>6 DEF vars, compressVars, queryVars
  <2> QED
    BY <2>1, <2>2, <2>3, <2>4, <2>5, <2>6 DEF Next, GetLinksWork, Exited
<1> QED
  BY <1>1, <1>2, InvAlways, PTL DEF Spec, Store!SafeSpec

\* Whatever create_result writes has a code, and gamma_encoding never gets a 0.
THEOREM OnlyWritable == Spec => []WritableOnly
<1>1. Inv /\ WrittenInv => WritableOnly
  <2> SUFFICES ASSUME Inv, WrittenInv, stage = "done", NEW i \in Page
               PROVE  /\ CodedValues(result[i]) \subseteq {codes[k].info : k \in DOMAIN codes}
                      /\ \A x \in GammaCoded(result[i]) : x >= 1
    BY DEF WritableOnly
  <2>1. IsNode(nodes[i], graph, i) /\ IsGraph(graph)
    BY NodesAre DEF WrittenInv
  <2>2. result[i] = Written(nodes[i])
    BY DEF WrittenInv, ResultOK
  <2>3. /\ CodedValues(Written(nodes[i])) \subseteq ToSet(Counted(nodes[i]))
        /\ \A x \in GammaCoded(Written(nodes[i])) : x >= 1
    BY <2>1, PageIsWritable
  <2>4. ToSet(Counted(nodes[i])) \subseteq Values
    BY ValuesAre DEF WrittenInv
  <2>5. Values \subseteq {codes[k].info : k \in DOMAIN codes}
    BY DEF WrittenInv, CodesOK
  <2> QED
    BY <2>2, <2>3, <2>4, <2>5
<1> QED
  BY <1>1, WrittenAlways, PTL

\* A page comes after its reference.
LEMMA ReferenceBefore ==
  ASSUME Inv, WrittenInv, stage = "done", NEW i \in Page
  PROVE  result[i].reference \in 0..(i - 1)
<1>1. IsNode(nodes[i], graph, i) /\ IsGraph(graph) /\ result[i] = Written(nodes[i])
  BY NodesAre DEF WrittenInv, ResultOK
<1>2. find_ref(graph, i) \in 0..(i - 1) /\ i \in Nat
  BY <1>1, PageParts
<1>3. result[i].reference = IF find_ref(graph, i) = Root THEN 0 ELSE i - find_ref(graph, i)
  BY <1>1 DEF Written, IsNode
<1> QED
  BY <1>2, <1>3 DEF Root

\* What is found on the first n pages.
IsFound(f, n) ==
  f = [i \in 1..n |-> LET r == result[i].reference
                      IN ReadLinks(result[i], i, IF r = 0 THEN {} ELSE f[i - r])]

\* There is such a function, because a page comes after its reference.
LEMMA FoundExists ==
  ASSUME \A i \in Page : result[i].reference \in 0..(i - 1)
  PROVE  \E f : IsFound(f, PageCount)
<1> DEFINE P == {n \in 0..PageCount : \E f : IsFound(f, n)}
<1>1. 0 \in P
  <2>1. IsFound([i \in 1..0 |-> {}], 0)
    BY DEF IsFound
  <2> QED
    BY <2>1, NumbersAssumption
<1>2. ASSUME NEW n \in 0..(PageCount - 1), n \in P PROVE n + 1 \in P
  <2>1. PICK f : IsFound(f, n)
    BY <1>2
  <2> DEFINE From(g, i) == LET r == result[i].reference
                           IN ReadLinks(result[i], i, IF r = 0 THEN {} ELSE g[i - r])
             h == [i \in 1..(n + 1) |-> IF i <= n THEN f[i] ELSE From(f, i)]
  <2>2. f = [i \in 1..n |-> From(f, i)]
    BY <2>1 DEF IsFound
  <2>3. n \in Nat /\ n + 1 \in 0..PageCount /\ 1..(n + 1) \subseteq Page
    BY NumbersAssumption DEF Page
  <2>4. ASSUME NEW i \in 1..(n + 1) PROVE h[i] = From(h, i)
    <3> DEFINE r == result[i].reference
    <3>1. r \in 0..(i - 1)
      BY <2>3
    <3>2. r # 0 => i - r \in 1..n
      BY <2>3, <3>1
    <3>3. r # 0 => h[i - r] = f[i - r]
      BY <2>3, <3>2
    <3>4. From(h, i) = From(f, i)
      BY <3>3
    <3>5. h[i] = From(f, i)
      <4>1. CASE i <= n
        <5>1. i \in 1..n /\ h[i] = f[i]
          BY <2>3, <4>1
        <5> HIDE DEF From, h
        <5> QED
          BY <2>2, <5>1
      <4>2. CASE ~(i <= n)
        BY <4>2
      <4> QED
        BY <4>1, <4>2
    <3> QED
      BY <3>4, <3>5
  <2>5. h = [i \in 1..(n + 1) |-> h[i]]
    OBVIOUS
  <2>6. h = [i \in 1..(n + 1) |-> From(h, i)]
    <3> HIDE DEF From, h
    <3> QED
      BY <2>4, <2>5
  <2>7. IsFound(h, n + 1)
    <3> HIDE DEF h
    <3> QED
      BY <2>6 DEF IsFound
  <2> QED
    BY <2>3, <2>7
<1>3. PageCount \in P
  <2> HIDE DEF P
  <2>1. PageCount \in Nat /\ PageCount \in 0..PageCount
    BY NumbersAssumption
  <2> QED
    BY <1>1, <1>2, <2>1, Induction
<1> QED
  BY <1>3

\* From the stream alone, the links of each page's reference included, a reader finds
\* the links of every page whose gaps come in one run together with those of the
\* pages its chain of references leads to.
THEOREM NothingIsLost == Spec => []Lossless
<1>1. Inv /\ WrittenInv => Lossless
  <2> SUFFICES ASSUME Inv, WrittenInv, stage = "done",
                      NEW S \in SUBSET Page, Closed(S), NEW k \in S
               PROVE  Found[k] = graph[k]
    BY DEF Lossless
  <2>1. \A i \in Page : result[i].reference \in 0..(i - 1)
    BY ReferenceBefore
  <2>2. \E f : IsFound(f, PageCount)
    BY <2>1, FoundExists
  <2>3. IsFound(Found, PageCount)
    <3>1. Found = CHOOSE f : IsFound(f, PageCount)
      BY DEF Found, IsFound, Page
    <3> HIDE DEF Found
    <3> QED
      BY <2>2, <3>1
  <2> DEFINE P == {n \in 0..PageCount : \A i \in S : i <= n => Found[i] = graph[i]}
  <2>4. 0 \in P
    BY NumbersAssumption DEF Page
  <2>5. ASSUME NEW n \in 0..(PageCount - 1), n \in P PROVE n + 1 \in P
    <3>1. n \in Nat /\ n + 1 \in 0..PageCount
      BY NumbersAssumption
    <3>2. \A i \in S : i <= n => Found[i] = graph[i]
      BY <2>5
    <3>3. ASSUME NEW i \in S, i <= n + 1 PROVE Found[i] = graph[i]
      <4>1. CASE i <= n
        BY <3>2, <4>1
      <4>2. CASE i = n + 1
        <5> DEFINE r == result[i].reference
        <5>1. i \in Page /\ r \in 0..(i - 1) /\ OneRun(i) /\ (r # 0 => i - r \in S)
          BY <2>1 DEF Closed
        <5>2. r # 0 => Found[i - r] = graph[i - r]
          <6>1. r # 0 => i - r <= n
            BY <3>1, <4>2, <5>1
          <6> QED
            BY <3>2, <5>1, <6>1
        <5>3. Found[i] = ReadLinks(result[i], i, IF r = 0 THEN {} ELSE Found[i - r])
          BY <2>3, <5>1 DEF IsFound, Page
        <5>4. ReadLinks(result[i], i, IF r = 0 THEN {} ELSE graph[i - r]) = graph[i]
          <6>1. IsNode(nodes[i], graph, i) /\ IsGraph(graph)
            BY <5>1, NodesAre DEF WrittenInv
          <6>2. result[i] = Written(nodes[i])
            BY <5>1 DEF WrittenInv, ResultOK
          <6>3. Len(nodes[i].rest.lengths) <= 1
            BY <5>1 DEF OneRun
          <6> QED
            BY <5>1, <6>1, <6>2, <6>3, PageIsRead
        <5> QED
          BY <5>2, <5>3, <5>4
      <4> QED
        <5>1. i \in Nat
          BY DEF Page
        <5> QED
          BY <3>1, <3>3, <4>1, <4>2, <5>1
    <3> QED
      BY <3>1, <3>3
  <2>6. PageCount \in P
    <3> HIDE DEF P
    <3>1. PageCount \in Nat /\ PageCount \in 0..PageCount
      BY NumbersAssumption
    <3> QED
      BY <2>4, <2>5, <3>1, Induction
  <2>7. k <= PageCount
    BY NumbersAssumption DEF Page
  <2> QED
    BY <2>6, <2>7
<1> QED
  BY <1>1, WrittenAlways, PTL

\* A value that was written is read again whatever is written behind it, and a value
\* that comes more often never has the longer code.
THEOREM EveryCodeIsRead == Spec => []CodesAreRead
<1>1. Inv /\ WrittenInv /\ TreeInv => CodesAreRead
  <2> SUFFICES ASSUME Inv, WrittenInv, TreeInv, stage = "result"
               PROVE  \A k, m \in DOMAIN codes :
                        /\ decode(codes, codes[k].vector \o codes[m].vector) = codes[k].info
                        /\ data[k].weight > data[m].weight =>
                             Len(codes[k].vector) <= Len(codes[m].vector)
    BY DEF CodesAreRead
  <2> DEFINE n == Cardinality(Values)
             L == Len(data)
  <2>1. n \in Nat /\ Nodesize = n /\ L \in Nat /\ DOMAIN data = 1..L
    BY TreeIs
  <2>2. IsBuilt(data, n) /\ codes = Codes(data, n) /\ L = 2 * n - 1
    BY <2>1 DEF TreeInv, TreeSize
  <2> HIDE DEF n
  <2> QED
    BY <2>1, <2>2, FinishedIsRead
<1> QED
  BY <1>1, TreeAlways, PTL
===============================================================================
