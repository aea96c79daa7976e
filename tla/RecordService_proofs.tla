-------------------------- MODULE RecordService_proofs --------------------------
(***************************************************************************)
(* Theorems about Record and RecordService, for any file, buffer, number   *)
(* of workers and requests, and for any configuration the file gives, a    *)
(* size of 0 among them.  First the service of Record, whose configuration *)
(* is given, then the one that reads it.                                   *)
(***************************************************************************)
EXTENDS RecordService, ConfFile_proofs, FiniteSetTheorems, TLAPS

-------------------------------------------------------------------------------
(* What the operations of the record list return, for a list of any        *)
(* capacity.                                                               *)

\* url_record_list_init gives an empty list of the capacity asked for.
LEMMA ListInitEmpty ==
  ASSUME NEW n \in Nat
  PROVE  /\ ListInit(n) \in Lists(n)
         /\ ListInit(n).count = 0 /\ ListInit(n).size = n
BY DEF Lists, ListInit

\* url_record_list_add on a list with room: the entry is the last one.
LEMMA ListAddRoom ==
  ASSUME NEW n \in Nat, NEW records \in Lists(n), NEW e \in Entry, ~IsFull(records)
  PROVE  LET new == ListAdd(records, e) IN
         /\ new \in Lists(n)
         /\ new.count = records.count + 1 /\ new.size = records.size
         /\ new.array[new.count] = e
         /\ \A i \in 1..records.count : new.array[i] = records.array[i]
         /\ \A i \in 1..n : new.array[i] \in {records.array[i], e}
BY DEF Lists, IsFull, ListAdd

\* url_record_list_add on a full list changes nothing.
LEMMA ListAddFull ==
  ASSUME NEW records, NEW e, IsFull(records)
  PROVE  ListAdd(records, e) = records
BY DEF ListAdd

\* url_record_list_copy keeps the shape of the destination, which may be a list
\* that was never allocated.
LEMMA ListCopyType ==
  ASSUME NEW n \in Nat, NEW dest \in Lists(n) \cup {ListInit(0)}, NEW src \in Lists(n),
         CanCopy(dest, src)
  PROVE  LET new == ListCopy(dest, src) IN
         /\ new \in Lists(n) \cup {ListInit(0)}
         /\ \/ new = dest /\ src.count = 0
            \/ new.count = src.count /\ \A i \in 1..src.count : new.array[i] = src.array[i]
<1>1. CASE src.count = 0
  BY <1>1 DEF ListCopy
<1>2. CASE src.count # 0
  <2>1. dest \in Lists(n)
    BY <1>2 DEF CanCopy, Lists, ListInit
  <2>2. ListCopy(dest, src) =
          [array |-> [i \in 1..n |-> IF i <= src.count THEN src.array[i] ELSE dest.array[i]],
           count |-> src.count, size |-> dest.size]
    BY <1>2, <2>1 DEF ListCopy, Lists
  <2> QED
    BY <2>1, <2>2 DEF Lists
<1> QED
  BY <1>1, <1>2

\* url_record_list_reset and url_record_list_clean clear the count and leave
\* the array.
LEMMA ListEmptied ==
  ASSUME NEW n \in Nat, NEW records \in Lists(n)
  PROVE  /\ ListReset(records) \in Lists(n) /\ ListReset(records).count = 0
         /\ ListReset(records).size = records.size /\ ListReset(records).array = records.array
         /\ ListClean(records) \in Lists(n) /\ ListClean(records).count = 0
         /\ ListClean(records).array = records.array
BY DEF Lists, ListReset, ListClean

-------------------------------------------------------------------------------
(* The same in terms of the entries a list holds. *)

\* A list without entries.
LEMMA EntriesNone ==
  ASSUME NEW records, records.count = 0, NEW f \in Nat \ {0}
  PROVE  EntriesFrom(records, f) = {} /\ Injective(records)
BY DEF EntriesFrom, Injective

\* Adding an entry the list does not hold.
LEMMA EntriesAdd ==
  ASSUME NEW n \in Nat, NEW records \in Lists(n), NEW e \in Entry, ~IsFull(records)
  PROVE  /\ EntriesFrom(ListAdd(records, e), 1) = EntriesFrom(records, 1) \cup {e}
         /\ Injective(records) /\ e \notin EntriesFrom(records, 1) => Injective(ListAdd(records, e))
<1> DEFINE new == ListAdd(records, e)
<1>1. /\ new.count = records.count + 1 /\ new.array[records.count + 1] = e
      /\ \A i \in 1..records.count : new.array[i] = records.array[i]
  BY ListAddRoom
<1>2. records.count \in Nat
  BY DEF Lists
<1> HIDE DEF new
<1>3. EntriesFrom(new, 1) = EntriesFrom(records, 1) \cup {e}
  BY <1>1, <1>2 DEF EntriesFrom
<1>4. Injective(records) /\ e \notin EntriesFrom(records, 1) => Injective(new)
  BY <1>1, <1>2 DEF EntriesFrom, Injective
<1> QED
  BY <1>3, <1>4 DEF new

\* A copy holds what the source holds.
LEMMA EntriesCopy ==
  ASSUME NEW n \in Nat, NEW dest \in Lists(n) \cup {ListInit(0)}, NEW src \in Lists(n),
         CanCopy(dest, src), dest.count = 0
  PROVE  /\ ListCopy(dest, src).count = src.count
         /\ EntriesFrom(ListCopy(dest, src), 1) = EntriesFrom(src, 1)
         /\ Injective(src) => Injective(ListCopy(dest, src))
<1> DEFINE new == ListCopy(dest, src)
<1>1. new.count = src.count /\ \A i \in 1..src.count : new.array[i] = src.array[i]
  <2>1. \/ new = dest /\ src.count = 0
        \/ new.count = src.count /\ \A i \in 1..src.count : new.array[i] = src.array[i]
    BY ListCopyType
  <2> QED
    BY <2>1
<1> HIDE DEF new
<1>2. EntriesFrom(new, 1) = EntriesFrom(src, 1) /\ (Injective(src) => Injective(new))
  BY <1>1 DEF EntriesFrom, Injective
<1> QED
  BY <1>1, <1>2 DEF new

\* Going one entry further takes that entry, and no other, off what is left.
LEMMA EntriesStep ==
  ASSUME NEW records, records.count \in Nat, Injective(records), NEW f \in 1..records.count
  PROVE  /\ records.array[f] \in EntriesFrom(records, f)
         /\ EntriesFrom(records, f + 1) = EntriesFrom(records, f) \ {records.array[f]}
<1>1. records.array[f] \in EntriesFrom(records, f)
  BY DEF EntriesFrom
<1>2. ASSUME NEW e \in EntriesFrom(records, f + 1)
      PROVE  e \in EntriesFrom(records, f) \ {records.array[f]}
  BY <1>2 DEF EntriesFrom, Injective
<1>3. ASSUME NEW e \in EntriesFrom(records, f) \ {records.array[f]}
      PROVE  e \in EntriesFrom(records, f + 1)
  <2>1. PICK i \in f..records.count : e = records.array[i]
    BY <1>3 DEF EntriesFrom
  <2>2. i \in f + 1..records.count
    BY <1>3, <2>1
  <2> QED
    BY <2>1, <2>2 DEF EntriesFrom
<1> QED
  BY <1>1, <1>2, <1>3

\* Past the end there is nothing.
LEMMA EntriesPast ==
  ASSUME NEW records, records.count \in Nat, NEW f \in Nat, f > records.count
  PROVE  EntriesFrom(records, f) = {}
BY DEF EntriesFrom

-------------------------------------------------------------------------------
USE SizeAssumption, FlagsAssumption, RequestAssumption, ModelValueAssumption,
    NoEntryAssumption

\* The numbers and flags of a configuration.
LEMMA ConfigType ==
  ASSUME record_conf \in RecordConfs
  PROVE  UrlRecordSize \in Nat /\ RecordUrlOn \in BOOLEAN /\ RecordWordOn \in BOOLEAN
BY DEF RecordConfs, UrlRecordSize, RecordUrlOn, RecordWordOn

\* What Init says of the configuration.
LEMMA ConfigInit == Init => Started /\ record_conf \in RecordConfs /\ UrlRecordSize \in Nat \ {0}
BY DEF Init, RecordConfs, UrlRecordSize

\* No step changes the configuration, nor what is read from it.
LEMMA ConfigStep ==
  ASSUME [Next]_vars
  PROVE  /\ record_conf' = record_conf /\ UrlRecordSize' = UrlRecordSize
         /\ RecordUrlOn' = RecordUrlOn /\ RecordWordOn' = RecordWordOn
<1>1. ASSUME NEW t \in Worker, InitRequestData(t) \/ Work(t) \/ LeaveThread(t)
      PROVE  record_conf' = record_conf
  BY <1>1 DEF Goto, Work, InitRequestData, CheckPreview, ReleaseRequestData, ParseUrl, RecordWord,
              LockList, AddRecord, Counted, AllocBatch, CopyBatch, ResetList, UnlockList,
              ConnectDatabase, InsertRow, CloseDatabase, FinishRequest, LeaveThread
<1>2. ASSUME Stop \/ Close \/ Crash \/ Terminated \/ UNCHANGED vars
      PROVE  record_conf' = record_conf
  BY <1>2 DEF Stop, Close, CloseService, FlushConnect, FlushRow, FlushDone, CleanService,
              ExitProcess, Crash, Vanish, Terminated, vars
<1>3. record_conf' = record_conf
  BY <1>1, <1>2 DEF Next
<1> QED
  BY <1>3 DEF UrlRecordSize, RecordUrlOn, RecordWordOn

-------------------------------------------------------------------------------
(* Types, and what is in memory was put there.                             *)

\* A worker that serves a request has its entry and, on the way to the list,
\* its data, and when it copies the list, a local one as large.
Serving ==
  \A t \in Worker :
    /\ pc[t] \notin Idle => entry[t] \in Entry
    /\ pc[t] \in {"release", "word"} => data[t] # NoRequest
    /\ pc[t] = "copy" => batch[t].size = UrlRecordSize

\* Every array element that a loop will read holds an entry that was added.
Filled ==
  /\ \A i \in 1..urlList.count : urlList.array[i] \in accepted
  /\ \A t \in Worker : \A i \in 1..batch[t].count : batch[t].array[i] \in accepted
  /\ phase = "flushing" =>
       /\ toFlush <= UrlRecordSize
       /\ \A i \in 1..toFlush : urlList.array[i] \in accepted

TypeInv == TypeOK /\ Serving /\ Filled

LEMMA TypeInit == Started /\ record_conf \in RecordConfs => TypeInv
<1> SUFFICES ASSUME Started, record_conf \in RecordConfs PROVE TypeInv
  OBVIOUS
<1>0. record_conf \in RecordConfs /\ UrlRecordSize \in Nat
  BY ConfigType
<1> USE <1>0 DEF Started, Unserved
<1>1. /\ urlList \in Lists(UrlRecordSize) /\ urlList.count = 0
      /\ Emptied.count = 0
  BY ListInitEmpty DEF Emptied
<1>2. TypeOK
  <2>1. batch \in [Worker -> Lists(UrlRecordSize) \cup {Emptied}]
    OBVIOUS
  <2>2. words \in [Entry -> [Engine -> Nat]]
    OBVIOUS
  <2>3. pc \in [Worker -> Location]
    BY DEF Location, Idle
  <2>4. /\ entry \in [Worker -> Entry \cup {NoEntry}]
        /\ data \in [Worker -> Request \cup {NoRequest}]
        /\ engine \in [Worker -> Nat \ {0}]
        /\ next \in [Worker -> Nat \ {0}]
    OBVIOUS
  <2>5. /\ rows \in [Entry -> Nat] /\ order \in [Entry -> Nat] /\ adds \in Nat
        /\ asked \in [Entry -> SUBSET Engine] /\ seen \subseteq Entry /\ lost \subseteq Entry
    OBVIOUS
  <2>6. /\ phase = "running" /\ flushed \in Nat /\ toFlush \in Nat
        /\ mutex = Free
    OBVIOUS
  <2> HIDE DEF Started, Unserved
  <2> QED
    BY <1>1, <2>1, <2>2, <2>3, <2>4, <2>5, <2>6 DEF TypeOK
<1>3. Serving
  BY DEF Serving, Idle
<1>4. Filled
  BY <1>1 DEF Filled
<1> QED
  BY <1>2, <1>3, <1>4 DEF TypeInv

LEMMA SizeType == TypeInv => UrlRecordSize \in Nat
BY ConfigType DEF TypeInv, TypeOK

\* The local list has room for the shared one when it is copied.
LEMMA CopyRoom ==
  ASSUME TypeInv, NEW t \in Worker, pc[t] = "copy"
  PROVE  CanCopy(batch[t], urlList)
<1>1. batch[t].size = UrlRecordSize /\ urlList \in Lists(UrlRecordSize)
  BY DEF TypeInv, TypeOK, Serving
<1>2. UrlRecordSize \in Nat
  BY SizeType
<1> QED
  BY <1>1, <1>2 DEF CanCopy, Lists

LEMMA TypeStep == TypeInv /\ [Next]_vars => TypeInv'
<1> SUFFICES ASSUME TypeInv, [Next]_vars PROVE TypeInv'
  OBVIOUS
<1>0. /\ record_conf' = record_conf /\ UrlRecordSize' = UrlRecordSize
      /\ RecordUrlOn' = RecordUrlOn /\ RecordWordOn' = RecordWordOn
      /\ UrlRecordSize \in Nat
  BY ConfigStep, SizeType
<1> USE <1>0
<1> USE DEF TypeInv
<1> USE DEF Goto, Location, Idle, BeforeAdd, Critical,
      wordVars, reqVars, orderVars, listVars, batchVars, dbVars, exitVars
<1>1. ASSUME NEW t \in Worker, InitRequestData(t) PROVE TypeInv'
  <2> USE <1>1 DEF InitRequestData
  <2>1. PICK e \in Entry \ seen, r \in Request :
          /\ entry' = [entry EXCEPT ![t] = e]
          /\ seen' = seen \cup {e}
          /\ data' = [data EXCEPT ![t] = r] \/ data' = [data EXCEPT ![t] = NoRequest]
    OBVIOUS
  <2>2. TypeOK'
    BY <2>1 DEF TypeOK
  <2>3. Serving'
    BY <2>1 DEF TypeOK, Serving
  <2>4. Filled'
    BY DEF Filled, accepted
  <2> QED
    BY <2>2, <2>3, <2>4
<1>2. ASSUME NEW t \in Worker, CheckPreview(t) PROVE TypeInv'
  <2> USE <1>2 DEF CheckPreview
  <2>2. TypeOK'
    BY DEF TypeOK
  <2>3. Serving'
    BY DEF TypeOK, Serving
  <2>4. Filled'
    BY DEF Filled, accepted
  <2> QED
    BY <2>2, <2>3, <2>4
<1>3. ASSUME NEW t \in Worker, ReleaseRequestData(t) PROVE TypeInv'
  <2> USE <1>3 DEF ReleaseRequestData, ParseUrl, AfterWords
  <2>2. TypeOK'
    BY DEF TypeOK
  <2>3. Serving'
    BY DEF TypeOK, Serving
  <2>4. Filled'
    BY DEF Filled, accepted
  <2> QED
    BY <2>2, <2>3, <2>4
<1>4. ASSUME NEW t \in Worker, RecordWord(t) PROVE TypeInv'
  <2> USE <1>4 DEF RecordWord, AfterWords
  <2>1. words' \in [Entry -> [Engine -> Nat]]
    <3>1. CASE words' = words
      BY <3>1 DEF TypeOK
    <3>2. CASE /\ HasWord(data[t], engine[t])
               /\ words' = [words EXCEPT ![entry[t]][engine[t]] = @ + 1]
      <4>1. data[t] \in Request
        BY DEF TypeOK, Serving
      <4>2. engine[t] \in Engine
        BY <3>2, <4>1 DEF HasWord
      <4> QED
        BY <3>2, <4>2 DEF TypeOK, Serving
    <3> QED
      BY <3>1, <3>2
  <2>5. asked' \in [Entry -> SUBSET Engine]
    <3>1. CASE asked' = asked
      BY <3>1 DEF TypeOK
    <3>2. CASE /\ HasWord(data[t], engine[t])
               /\ asked' = [asked EXCEPT ![entry[t]] = @ \cup {engine[t]}]
      <4>1. data[t] \in Request
        BY DEF TypeOK, Serving
      <4>2. engine[t] \in Engine
        BY <3>2, <4>1 DEF HasWord
      <4> QED
        BY <3>2, <4>2 DEF TypeOK, Serving
    <3> QED
      BY <3>1, <3>2
  <2>2. TypeOK'
    BY <2>1, <2>5 DEF TypeOK
  <2>3. Serving'
    BY DEF TypeOK, Serving
  <2>4. Filled'
    BY DEF Filled, accepted
  <2> QED
    BY <2>2, <2>3, <2>4
<1>5. ASSUME NEW t \in Worker, LockList(t) PROVE TypeInv'
  <2> USE <1>5 DEF LockList
  <2>2. TypeOK'
    BY DEF TypeOK
  <2>3. Serving'
    BY DEF TypeOK, Serving
  <2>4. Filled'
    BY DEF Filled, accepted
  <2> QED
    BY <2>2, <2>3, <2>4
<1>6. ASSUME NEW t \in Worker, AddRecord(t) PROVE TypeInv'
  <2> USE <1>6 DEF AddRecord
  <2>1. entry[t] \in Entry /\ urlList \in Lists(UrlRecordSize)
    BY DEF TypeOK, Serving
  <2>2. CASE IsFull(urlList)
    <3>1. urlList' = urlList /\ UNCHANGED orderVars
      BY <2>2, ListAddFull DEF Counted
    <3>2. TypeOK'
      BY <3>1 DEF TypeOK
    <3>3. Serving'
      BY DEF TypeOK, Serving
    <3>4. Filled'
      BY <3>1 DEF Filled, accepted
    <3> QED
      BY <3>2, <3>3, <3>4
  <2>3. CASE ~IsFull(urlList)
    <3> DEFINE new == ListAdd(urlList, entry[t])
    <3>1. adds' = adds + 1 /\ order' = [order EXCEPT ![entry[t]] = adds + 1]
      BY <2>3 DEF Counted
    <3>2. accepted' = accepted \cup {entry[t]}
      BY <2>1, <3>1 DEF TypeOK, accepted
    <3>3. /\ new \in Lists(UrlRecordSize)
          /\ new.count = urlList.count + 1
          /\ new.array[new.count] = entry[t]
          /\ \A i \in 1..urlList.count : new.array[i] = urlList.array[i]
          /\ \A i \in 1..UrlRecordSize : new.array[i] \in {urlList.array[i], entry[t]}
      BY <2>1, <2>3, ListAddRoom
    <3>4. urlList' = new /\ urlList.count \in Nat
      BY <2>1 DEF Lists
    <3> HIDE DEF new
    <3>5. TypeOK'
      BY <2>1, <3>1, <3>3, <3>4 DEF TypeOK
    <3>6. Serving'
      BY DEF TypeOK, Serving
    <3>7. Filled'
      <4>1. \A u \in Worker : \A i \in 1..batch'[u].count : batch'[u].array[i] \in accepted'
        BY <3>2 DEF Filled
      <4>2. \A i \in 1..urlList'.count : urlList'.array[i] \in accepted'
        BY <3>2, <3>3, <3>4 DEF Filled
      <4>3. ASSUME phase' = "flushing"
            PROVE  /\ toFlush' <= UrlRecordSize
                   /\ \A i \in 1..toFlush' : urlList'.array[i] \in accepted'
        <5>1. /\ toFlush' = toFlush /\ toFlush \in Nat /\ toFlush <= UrlRecordSize
              /\ \A i \in 1..toFlush : urlList.array[i] \in accepted
          BY <4>3 DEF Filled, TypeOK
        <5>2. \A i \in 1..toFlush : i \in 1..UrlRecordSize
          BY <5>1
        <5> QED
          BY <3>2, <3>3, <3>4, <5>1, <5>2
      <4> QED
        BY <4>1, <4>2, <4>3 DEF Filled
    <3> QED
      BY <3>5, <3>6, <3>7
  <2> QED
    BY <2>2, <2>3
<1>7. ASSUME NEW t \in Worker, AllocBatch(t) PROVE TypeInv'
  <2> USE <1>7 DEF AllocBatch
  <2>1. /\ ListInit(UrlRecordSize) \in Lists(UrlRecordSize)
        /\ ListInit(UrlRecordSize).count = 0 /\ ListInit(UrlRecordSize).size = UrlRecordSize
    BY ListInitEmpty
  <2>5. batch' \in [Worker -> Lists(UrlRecordSize) \cup {Emptied}]
    BY <2>1 DEF TypeOK
  <2>2. TypeOK'
    BY <2>5 DEF TypeOK
  <2>3. Serving'
    BY <2>1 DEF TypeOK, Serving
  <2>4. Filled'
    <3>1. \A u \in Worker : batch'[u] = batch[u] \/ batch'[u].count = 0
      BY <2>1 DEF TypeOK
    <3> QED
      BY <3>1 DEF Filled, accepted
  <2> QED
    BY <2>2, <2>3, <2>4
<1>8. ASSUME NEW t \in Worker, CopyBatch(t) PROVE TypeInv'
  <2> USE <1>8 DEF CopyBatch
  <2> DEFINE new == ListCopy(batch[t], urlList)
  <2>0. CanCopy(batch[t], urlList)
    BY CopyRoom
  <2>1. /\ new \in Lists(UrlRecordSize) \cup {Emptied}
        /\ \/ new = batch[t]
           \/ new.count = urlList.count /\ \A i \in 1..urlList.count : new.array[i] = urlList.array[i]
    <3>1. /\ urlList \in Lists(UrlRecordSize)
          /\ batch[t] \in Lists(UrlRecordSize) \cup {ListInit(0)}
      BY DEF TypeOK, Emptied
    <3> QED
      BY <2>0, <3>1, ListCopyType DEF Emptied
  <2>2. batch' = [batch EXCEPT ![t] = new] /\ pc' = [pc EXCEPT ![t] = "reset"]
    BY <2>0
  <2> HIDE DEF new
  <2>3. TypeOK'
    BY <2>1, <2>2 DEF TypeOK
  <2>4. Serving'
    BY <2>2 DEF TypeOK, Serving
  <2>5. Filled'
    <3>1. \A i \in 1..new.count : new.array[i] \in accepted
      BY <2>1 DEF Filled
    <3>2. \A u \in Worker : batch'[u] = (IF u = t THEN new ELSE batch[u])
      BY <2>2 DEF TypeOK
    <3>3. \A u \in Worker : \A i \in 1..batch'[u].count : batch'[u].array[i] \in accepted
      BY <3>1, <3>2 DEF Filled
    <3> QED
      BY <3>3 DEF Filled, accepted
  <2> QED
    BY <2>3, <2>4, <2>5
<1>9. ASSUME NEW t \in Worker, ResetList(t) PROVE TypeInv'
  <2> USE <1>9 DEF ResetList
  <2>1. /\ urlList' \in Lists(UrlRecordSize) /\ urlList'.count = 0
        /\ urlList'.array = urlList.array
    BY ListEmptied DEF TypeOK
  <2>2. TypeOK'
    BY <2>1 DEF TypeOK
  <2>3. Serving'
    BY DEF TypeOK, Serving
  <2>4. Filled'
    BY <2>1 DEF Filled, accepted, TypeOK
  <2> QED
    BY <2>2, <2>3, <2>4
<1>10. ASSUME NEW t \in Worker, UnlockList(t) PROVE TypeInv'
  <2> USE <1>10 DEF UnlockList
  <2>2. TypeOK'
    BY DEF TypeOK
  <2>3. Serving'
    BY DEF TypeOK, Serving
  <2>4. Filled'
    BY DEF Filled, accepted
  <2> QED
    BY <2>2, <2>3, <2>4
<1>11. ASSUME NEW t \in Worker, ConnectDatabase(t) PROVE TypeInv'
  <2> USE <1>11 DEF ConnectDatabase, CleanBatch
  <2>1. Emptied.count = 0
    BY ListInitEmpty DEF Emptied
  <2>2. Unwritten(t) \subseteq Entry
    BY DEF Unwritten, EntriesFrom, Filled, accepted, TypeOK
  <2>3. TypeOK'
    <3>1. /\ batch' \in [Worker -> Lists(UrlRecordSize) \cup {Emptied}]
          /\ next' \in [Worker -> Nat \ {0}]
      BY DEF TypeOK
    <3>3. pc' \in [Worker -> Location]
      <4>1. pc' = [pc EXCEPT ![t] = "insert"] \/ pc' = [pc EXCEPT ![t] = "finish"]
        BY DEF Goto
      <4> QED
        BY <4>1 DEF TypeOK, Location
    <3>2. lost' \subseteq Entry
      BY <2>2 DEF TypeOK
    <3> QED
      BY <3>1, <3>2, <3>3 DEF TypeOK
  <2>4. Serving'
    BY DEF TypeOK, Serving
  <2>5. Filled'
    BY <2>1 DEF Filled, accepted, TypeOK
  <2> QED
    BY <2>3, <2>4, <2>5
<1>12. ASSUME NEW t \in Worker, InsertRow(t) PROVE TypeInv'
  <2> USE <1>12 DEF InsertRow
  <2>1. batch[t].array[next[t]] \in Entry
    BY DEF Filled, accepted, TypeOK
  <2>5. rows' \in [Entry -> Nat] /\ lost' \subseteq Entry /\ next' \in [Worker -> Nat \ {0}]
    BY <2>1 DEF TypeOK
  <2>2. TypeOK'
    BY <2>5 DEF TypeOK
  <2>3. Serving'
    BY DEF TypeOK, Serving
  <2>4. Filled'
    BY DEF Filled, accepted, TypeOK
  <2> QED
    BY <2>2, <2>3, <2>4
<1>13. ASSUME NEW t \in Worker, CloseDatabase(t) PROVE TypeInv'
  <2> USE <1>13 DEF CloseDatabase, CleanBatch
  <2>1. Emptied.count = 0
    BY ListInitEmpty DEF Emptied
  <2>2. TypeOK'
    BY DEF TypeOK
  <2>3. Serving'
    BY DEF TypeOK, Serving
  <2>4. Filled'
    BY <2>1 DEF Filled, accepted, TypeOK
  <2> QED
    BY <2>2, <2>3, <2>4
<1>14. ASSUME NEW t \in Worker, FinishRequest(t) PROVE TypeInv'
  <2> USE <1>14 DEF FinishRequest
  <2>2. TypeOK'
    BY DEF TypeOK
  <2>3. Serving'
    BY DEF TypeOK, Serving
  <2>4. Filled'
    BY DEF Filled, accepted, TypeOK
  <2> QED
    BY <2>2, <2>3, <2>4
<1>15. ASSUME NEW t \in Worker, LeaveThread(t) PROVE TypeInv'
  <2> USE <1>15 DEF LeaveThread
  <2>2. TypeOK'
    BY DEF TypeOK
  <2>3. Serving'
    BY DEF TypeOK, Serving
  <2>4. Filled'
    BY DEF Filled, accepted, TypeOK
  <2> QED
    BY <2>2, <2>3, <2>4
<1>16. ASSUME Stop PROVE TypeInv'
  <2> USE <1>16 DEF Stop
  <2>2. TypeOK'
    BY DEF TypeOK
  <2>3. Serving'
    BY DEF TypeOK, Serving
  <2>4. Filled'
    BY DEF Filled, accepted, TypeOK
  <2> QED
    BY <2>2, <2>3, <2>4
<1>17. ASSUME CloseService PROVE TypeInv'
  <2> USE <1>17 DEF CloseService
  <2>2. TypeOK'
    BY DEF TypeOK
  <2>3. Serving'
    BY DEF TypeOK, Serving
  <2>4. Filled'
    BY DEF Filled, accepted, TypeOK
  <2> QED
    BY <2>2, <2>3, <2>4
<1>18. ASSUME FlushConnect PROVE TypeInv'
  <2> USE <1>18 DEF FlushConnect
  <2>1. urlList.count \in 0..UrlRecordSize
    BY DEF TypeOK, Lists
  <2>2. Listed \subseteq Entry
    BY <2>1 DEF Listed, EntriesFrom, Filled, accepted, TypeOK
  <2>3. TypeOK'
    BY <2>1, <2>2 DEF TypeOK
  <2>4. Serving'
    BY DEF TypeOK, Serving
  <2>5. Filled'
    <3>1. UNCHANGED <<urlList, batch, order>> /\ accepted' = accepted
      BY DEF accepted
    <3>2. phase' = "flushing" => toFlush' = urlList.count
      BY DEF TypeOK
    <3>3. \A i \in 1..urlList.count : urlList.array[i] \in accepted
      BY DEF Filled
    <3>4. \A t \in Worker : \A i \in 1..batch[t].count : batch[t].array[i] \in accepted
      BY DEF Filled
    <3>5. UrlRecordSize' = UrlRecordSize /\ urlList.count <= UrlRecordSize
      BY <2>1 DEF TypeOK, UrlRecordSize
    <3> QED
      BY <3>1, <3>2, <3>3, <3>4, <3>5 DEF Filled
  <2> QED
    BY <2>3, <2>4, <2>5
<1>19. ASSUME FlushRow PROVE TypeInv'
  <2> USE <1>19 DEF FlushRow
  <2>1. urlList.array[flushed + 1] \in Entry
    BY DEF Filled, accepted, TypeOK
  <2>2. TypeOK'
    BY <2>1 DEF TypeOK
  <2>3. Serving'
    BY DEF TypeOK, Serving
  <2>4. Filled'
    BY DEF Filled, accepted, TypeOK
  <2> QED
    BY <2>2, <2>3, <2>4
<1>20. ASSUME FlushDone PROVE TypeInv'
  <2> USE <1>20 DEF FlushDone
  <2>2. TypeOK'
    BY DEF TypeOK
  <2>3. Serving'
    BY DEF TypeOK, Serving
  <2>4. Filled'
    BY DEF Filled, accepted, TypeOK
  <2> QED
    BY <2>2, <2>3, <2>4
<1>21. ASSUME CleanService PROVE TypeInv'
  <2> USE <1>21 DEF CleanService
  <2>1. /\ urlList' \in Lists(UrlRecordSize) /\ urlList'.count = 0
        /\ urlList'.array = urlList.array
    BY ListEmptied DEF TypeOK
  <2>2. TypeOK'
    BY <2>1 DEF TypeOK
  <2>3. Serving'
    BY DEF TypeOK, Serving
  <2>4. Filled'
    BY <2>1 DEF Filled, accepted, TypeOK
  <2> QED
    BY <2>2, <2>3, <2>4
<1>22. ASSUME Vanish, lost' \subseteq Entry PROVE TypeInv'
  <2> USE <1>22 DEF Vanish
  <2>1. /\ urlList' \in Lists(UrlRecordSize) /\ urlList'.count = 0
        /\ Emptied.count = 0
    BY ListEmptied, ListInitEmpty DEF TypeOK, Emptied
  <2>2. TypeOK'
    BY <2>1 DEF TypeOK
  <2>3. Serving'
    BY DEF TypeOK, Serving
  <2>4. Filled'
    BY <2>1 DEF Filled, accepted, TypeOK
  <2> QED
    BY <2>2, <2>3, <2>4
<1>23. ASSUME ExitProcess PROVE TypeInv'
  BY <1>22, <1>23 DEF ExitProcess, TypeOK
<1>24. ASSUME Crash PROVE TypeInv'
  <2>1. Listed \subseteq Entry
    <3>1. flushed \in Nat /\ urlList.count \in Nat
      BY DEF TypeOK, Lists
    <3> QED
      BY <3>1 DEF Listed, EntriesFrom, Filled, accepted
  <2>2. ASSUME NEW t \in Worker PROVE Unwritten(t) \subseteq Entry
    BY DEF Unwritten, EntriesFrom, Filled, accepted, TypeOK
  <2>3. InMemory \subseteq Entry
    BY <2>1, <2>2 DEF InMemory
  <2> QED
    BY <1>22, <1>24, <2>3 DEF Crash, TypeOK
<1>25. ASSUME UNCHANGED vars PROVE TypeInv'
  BY <1>25 DEF vars, TypeOK, Serving, Filled, accepted
<1> QED
  BY <1>1, <1>2, <1>3, <1>4, <1>5, <1>6, <1>7, <1>8, <1>9, <1>10, <1>11, <1>12, <1>13,
     <1>14, <1>15, <1>16, <1>17, <1>18, <1>19, <1>20, <1>21, <1>23, <1>24, <1>25
     DEF Next, Work, Close, Terminated

\* A list or a batch of records that were added holds no unwritten element.
LEMMA TypeMeans == TypeInv => TypeOK /\ NoUnwrittenMemory
BY ConfigType DEF TypeInv, TypeOK, Filled, NoUnwrittenMemory

\* Every variable keeps its type, and nobody reads an element of a list or of a
\* batch that was not written first, nor does the shutdown, whose loop may find
\* a list that was left full.
THEOREM TypeCorrect == Spec => [](TypeOK /\ NoUnwrittenMemory)
BY TypeMeans, ConfigInit, TypeInit, TypeStep, PTL DEF Spec

-------------------------------------------------------------------------------
(* The lock.                                                               *)

\* The mutex exists while the workers run and is never free afterwards; its
\* holder is the one worker in the critical section; whoever locks it finds
\* room in the list.
LockInv ==
  /\ phase \in {"running", "stopping"} => mutex # Destroyed /\ urlList.size = UrlRecordSize
  /\ phase \notin {"running", "stopping"} => mutex # Free /\ \A t \in Worker : pc[t] = "gone"
  /\ mutex = Free => urlList.count < urlList.size
  /\ \A t \in Worker :
       /\ pc[t] \in Critical => mutex = t
       /\ pc[t] \in {"add", "unlock"} => urlList.count < urlList.size
       /\ pc[t] \in {"alloc", "copy", "reset"} => urlList.count = UrlRecordSize
       /\ pc[t] = "unlockFull" => urlList.count = 0

\* The workers have not begun, and the list is empty.
LEMMA LockInit == Started /\ UrlRecordSize \in Nat \ {0} => LockInv
BY ListInitEmpty DEF Started, Unserved, LockInv, Critical

LEMMA LockStep == UrlRecordSize > 0 /\ TypeInv /\ LockInv /\ [Next]_vars => LockInv'
<1> SUFFICES ASSUME UrlRecordSize > 0, TypeInv, LockInv, [Next]_vars PROVE LockInv'
  BY DEF LockInv
<1>0. /\ record_conf' = record_conf /\ UrlRecordSize' = UrlRecordSize
      /\ RecordUrlOn' = RecordUrlOn /\ RecordWordOn' = RecordWordOn
      /\ UrlRecordSize \in Nat
  BY ConfigStep, SizeType
<1> USE <1>0
<1> USE DEF Goto, Idle, Critical, wordVars, reqVars, orderVars, listVars, batchVars, dbVars, exitVars
<1>1. /\ pc \in [Worker -> Location] /\ urlList \in Lists(UrlRecordSize)
      /\ urlList.count \in Nat /\ urlList.size \in Nat
      /\ urlList.count <= UrlRecordSize
  BY DEF TypeInv, TypeOK, Lists
<1>2. ASSUME NEW t \in Worker, InitRequestData(t) PROVE LockInv'
  BY <1>1, <1>2 DEF InitRequestData, LockInv
<1>3. ASSUME NEW t \in Worker, CheckPreview(t) PROVE LockInv'
  BY <1>1, <1>3 DEF CheckPreview, LockInv
<1>4. ASSUME NEW t \in Worker, ReleaseRequestData(t) PROVE LockInv'
  BY <1>1, <1>4 DEF ReleaseRequestData, ParseUrl, AfterWords, LockInv
<1>5. ASSUME NEW t \in Worker, RecordWord(t) PROVE LockInv'
  BY <1>1, <1>5 DEF RecordWord, AfterWords, LockInv
<1>6. ASSUME NEW t \in Worker, LockList(t) PROVE LockInv'
  BY <1>1, <1>6 DEF LockList, LockInv
<1>7. ASSUME NEW t \in Worker, AddRecord(t) PROVE LockInv'
  <2>1. /\ urlList.count < urlList.size /\ urlList.size = UrlRecordSize
        /\ mutex = t /\ entry[t] \in Entry
    BY <1>7 DEF AddRecord, Counted, LockInv, TypeInv, Serving
  <2>2. urlList'.count = urlList.count + 1 /\ urlList'.size = urlList.size
    BY <1>1, <1>7, <2>1, ListAddRoom DEF AddRecord, Counted, IsFull
  <2> QED
    BY <1>1, <1>7, <2>1, <2>2 DEF AddRecord, Counted, LockInv, IsFull
<1>8. ASSUME NEW t \in Worker, AllocBatch(t) PROVE LockInv'
  BY <1>1, <1>8 DEF AllocBatch, LockInv
<1>9. ASSUME NEW t \in Worker, CopyBatch(t) PROVE LockInv'
  <2>1. CanCopy(batch[t], urlList)
    BY <1>9, CopyRoom DEF CopyBatch
  <2> QED
    BY <1>1, <1>9, <2>1 DEF CopyBatch, LockInv
<1>10. ASSUME NEW t \in Worker, ResetList(t) PROVE LockInv'
  <2>1. urlList'.count = 0 /\ urlList'.size = urlList.size
    BY <1>1, <1>10, ListEmptied DEF ResetList
  <2> QED
    BY <1>1, <1>10, <2>1 DEF ResetList, LockInv
<1>11. ASSUME NEW t \in Worker, UnlockList(t) PROVE LockInv'
  BY <1>1, <1>11 DEF UnlockList, LockInv
<1>12. ASSUME NEW t \in Worker, ConnectDatabase(t) PROVE LockInv'
  BY <1>1, <1>12 DEF ConnectDatabase, LockInv
<1>13. ASSUME NEW t \in Worker, InsertRow(t) PROVE LockInv'
  BY <1>1, <1>13 DEF InsertRow, LockInv
<1>14. ASSUME NEW t \in Worker, CloseDatabase(t) PROVE LockInv'
  BY <1>1, <1>14 DEF CloseDatabase, LockInv
<1>15. ASSUME NEW t \in Worker, FinishRequest(t) PROVE LockInv'
  BY <1>1, <1>15 DEF FinishRequest, LockInv
<1>16. ASSUME NEW t \in Worker, LeaveThread(t) PROVE LockInv'
  BY <1>1, <1>16 DEF LeaveThread, LockInv
<1>17. ASSUME Stop PROVE LockInv'
  BY <1>17 DEF Stop, LockInv
<1>18. ASSUME CloseService PROVE LockInv'
  BY <1>18 DEF CloseService, LockInv
<1>19. ASSUME FlushConnect PROVE LockInv'
  BY <1>19 DEF FlushConnect, LockInv
<1>20. ASSUME FlushRow PROVE LockInv'
  BY <1>20 DEF FlushRow, LockInv
<1>21. ASSUME FlushDone PROVE LockInv'
  BY <1>21 DEF FlushDone, LockInv
<1>22. ASSUME CleanService PROVE LockInv'
  BY <1>22 DEF CleanService, LockInv
<1>23. ASSUME Vanish PROVE LockInv'
  BY <1>23 DEF Vanish, LockInv
<1>24. ASSUME UNCHANGED vars PROVE LockInv'
  BY <1>24 DEF vars, LockInv
<1> QED
  BY <1>2, <1>3, <1>4, <1>5, <1>6, <1>7, <1>8, <1>9, <1>10, <1>11, <1>12, <1>13, <1>14,
     <1>15, <1>16, <1>17, <1>18, <1>19, <1>20, <1>21, <1>22, <1>23, <1>24
     DEF Next, Work, Close, ExitProcess, Crash, Terminated

\* At most one worker is between locking and unlocking url_mutex, and it never
\* meets a full list, whatever the number of workers, the requests and the
\* configured size.
THEOREM LockCorrect == Spec => [](MutualExclusion /\ NeverRefused)
<1>1. TypeInv /\ LockInv => MutualExclusion /\ NeverRefused
  <2> SUFFICES ASSUME TypeInv, LockInv PROVE MutualExclusion /\ NeverRefused
    BY DEF MutualExclusion, NeverRefused
  <2>1. MutualExclusion
    BY DEF MutualExclusion, LockInv
  <2>2. ASSUME NEW t \in Worker
        PROVE  /\ pc[t] = "add" => ~IsFull(urlList)
               /\ pc[t] = "copy" => CanCopy(batch[t], urlList)
    BY CopyRoom, SizeType DEF LockInv, IsFull, TypeInv, TypeOK, Lists
  <2> QED
    BY <2>1, <2>2 DEF NeverRefused
<1> QED
  <2> DEFINE I == UrlRecordSize > 0 /\ TypeInv /\ LockInv
  <2>1. Init => I
    BY ConfigInit, TypeInit, LockInit
  <2>2. I /\ [Next]_vars => I'
    BY ConfigStep, TypeStep, LockStep
  <2>3. I => MutualExclusion /\ NeverRefused
    BY <1>1
  <2> QED
    BY <2>1, <2>2, <2>3, PTL DEF Spec

-------------------------------------------------------------------------------
(* Requests: an entry belongs to one request, which adds it once.          *)

RequestInv ==
  /\ accepted \subseteq seen
  /\ \A t \in Worker : pc[t] \notin Idle => entry[t] \in seen
  /\ \A t \in Worker : pc[t] \in BeforeAdd => entry[t] \notin accepted
  /\ \A t, u \in Worker :
       t # u /\ pc[t] \notin Idle /\ pc[u] \notin Idle => entry[t] # entry[u]

LEMMA RequestInit == Started /\ record_conf \in RecordConfs => RequestInv
BY DEF Started, Unserved, RequestInv, accepted, Idle, BeforeAdd

LEMMA RequestStep == TypeInv /\ RequestInv /\ [Next]_vars => RequestInv'
<1> SUFFICES ASSUME TypeInv, RequestInv, [Next]_vars PROVE RequestInv'
  OBVIOUS
<1>0. /\ record_conf' = record_conf /\ UrlRecordSize' = UrlRecordSize
      /\ RecordUrlOn' = RecordUrlOn /\ RecordWordOn' = RecordWordOn
      /\ UrlRecordSize \in Nat
  BY ConfigStep, SizeType
<1> USE <1>0
<1> USE DEF Goto, Idle, BeforeAdd, wordVars, reqVars, orderVars, listVars, batchVars, dbVars, exitVars
<1>1. /\ pc \in [Worker -> Location] /\ entry \in [Worker -> Entry \cup {NoEntry}]
      /\ order \in [Entry -> Nat] /\ adds \in Nat
  BY DEF TypeInv, TypeOK
<1>2. ASSUME NEW t \in Worker, InitRequestData(t) PROVE RequestInv'
  <2>1. PICK e \in Entry \ seen :
          entry' = [entry EXCEPT ![t] = e] /\ seen' = seen \cup {e}
    BY <1>2 DEF InitRequestData
  <2> QED
    BY <1>1, <1>2, <2>1 DEF InitRequestData, RequestInv, accepted
<1>3. ASSUME NEW t \in Worker, AddRecord(t) PROVE RequestInv'
  <2>1. accepted' = accepted \/ accepted' = accepted \cup {entry[t]}
    BY <1>1, <1>3 DEF AddRecord, Counted, accepted, TypeInv, Serving
  <2> QED
    BY <1>1, <1>3, <2>1 DEF AddRecord, RequestInv
<1>4. ASSUME NEW t \in Worker, FinishRequest(t) PROVE RequestInv'
  BY <1>1, <1>4 DEF FinishRequest, RequestInv, accepted
<1>5. ASSUME UNCHANGED <<entry, seen, order>>,
             NEW t \in Worker, NEW to,
             pc' = [pc EXCEPT ![t] = to],
             to \in BeforeAdd => pc[t] \in BeforeAdd,
             to \notin Idle => pc[t] \notin Idle
      PROVE  RequestInv'
  BY <1>1, <1>5 DEF RequestInv, accepted
<1>6. ASSUME NEW t \in Worker,
             \/ CheckPreview(t) \/ ReleaseRequestData(t) \/ RecordWord(t) \/ LockList(t)
             \/ LeaveThread(t)
      PROVE  RequestInv'
  BY <1>5, <1>6 DEF CheckPreview, ReleaseRequestData, ParseUrl, RecordWord, AfterWords, LockList,
                    LeaveThread
<1>7. ASSUME NEW t \in Worker,
             \/ AllocBatch(t) \/ CopyBatch(t) \/ ResetList(t) \/ UnlockList(t)
             \/ ConnectDatabase(t) \/ InsertRow(t) \/ CloseDatabase(t)
      PROVE  RequestInv'
  BY <1>5, <1>7 DEF AllocBatch, CopyBatch, ResetList, UnlockList, ConnectDatabase,
                    InsertRow, CloseDatabase
<1>8. ASSUME Stop \/ CloseService \/ FlushConnect \/ FlushRow \/ FlushDone \/ CleanService
      PROVE  RequestInv'
  <2>1. UNCHANGED <<entry, seen, order, pc>>
    BY <1>8 DEF Stop, CloseService, FlushConnect, FlushRow, FlushDone, CleanService
  <2> QED
    BY <2>1 DEF RequestInv, accepted
<1>9. ASSUME Vanish PROVE RequestInv'
  BY <1>9 DEF Vanish, RequestInv, accepted
<1>10. ASSUME UNCHANGED vars PROVE RequestInv'
  BY <1>10 DEF vars, RequestInv, accepted
<1> QED
  BY <1>2, <1>3, <1>4, <1>6, <1>7, <1>8, <1>9, <1>10
     DEF Next, Work, Close, ExitProcess, Crash, Terminated

-------------------------------------------------------------------------------
(* Places: where an accepted record is.                                    *)

\* A worker has a batch only between copying the list and closing the
\* database, and goes through it only in between; the closing thread goes
\* through the list once.
LoopInv ==
  /\ \A t \in Worker :
       /\ pc[t] \notin {"reset", "unlockFull", "connect", "insert"} => batch[t].count = 0
       /\ pc[t] # "insert" => next[t] = 1
  /\ phase \in {"running", "stopping", "closing"} => flushed = 0
  /\ phase = "flushing" => toFlush = urlList.count /\ flushed <= toFlush
  /\ phase = "cleaning" => flushed >= urlList.count
  /\ phase \in {"closed", "exited"} => urlList.count = 0

LEMMA LoopInit == Started /\ record_conf \in RecordConfs => LoopInv
BY ListInitEmpty DEF Started, Unserved, LoopInv, Emptied

LEMMA LoopStep == TypeInv /\ LockInv /\ LoopInv /\ [Next]_vars => LoopInv'
<1> SUFFICES ASSUME TypeInv, LockInv, LoopInv, [Next]_vars PROVE LoopInv'
  OBVIOUS
<1>0. /\ record_conf' = record_conf /\ UrlRecordSize' = UrlRecordSize
      /\ RecordUrlOn' = RecordUrlOn /\ RecordWordOn' = RecordWordOn
      /\ UrlRecordSize \in Nat
  BY ConfigStep, SizeType
<1> USE <1>0
<1> USE DEF Goto, Idle, wordVars, reqVars, orderVars, listVars, batchVars, dbVars, exitVars
<1>1. /\ pc \in [Worker -> Location] /\ urlList \in Lists(UrlRecordSize)
      /\ urlList.count \in Nat /\ flushed \in Nat /\ toFlush \in Nat
      /\ batch \in [Worker -> Lists(UrlRecordSize) \cup {Emptied}]
      /\ next \in [Worker -> Nat \ {0}]
  BY DEF TypeInv, TypeOK, Lists
<1>2. Emptied.count = 0 /\ ListInit(UrlRecordSize).count = 0
  BY ListInitEmpty DEF Emptied
<1>3. ASSUME NEW t \in Worker, pc[t] \notin Idle
      PROVE  phase \in {"running", "stopping"}
  BY <1>3 DEF LockInv
<1>4. ASSUME UNCHANGED <<exitVars, batch, next>>,
             NEW t \in Worker, NEW to,
             pc' = [pc EXCEPT ![t] = to],
             pc[t] \notin Idle \/ urlList' = urlList,
             to = "insert" \/ pc[t] # "insert",
             to \notin {"reset", "unlockFull", "connect", "insert"} =>
               pc[t] \notin {"reset", "unlockFull", "connect", "insert"}
      PROVE  LoopInv'
  BY <1>1, <1>3, <1>4 DEF LoopInv
<1>5. ASSUME NEW t \in Worker,
             \/ InitRequestData(t) \/ CheckPreview(t) \/ ReleaseRequestData(t)
             \/ RecordWord(t) \/ LockList(t) \/ AddRecord(t) \/ LeaveThread(t)
      PROVE  LoopInv'
  BY <1>4, <1>5 DEF InitRequestData, CheckPreview, ReleaseRequestData, ParseUrl, RecordWord,
                    AfterWords, LockList, AddRecord, Counted, LeaveThread
<1>6. ASSUME NEW t \in Worker, ResetList(t) \/ UnlockList(t) \/ FinishRequest(t)
      PROVE  LoopInv'
  BY <1>4, <1>6 DEF ResetList, UnlockList, FinishRequest
<1>7. ASSUME NEW t \in Worker, AllocBatch(t) \/ CopyBatch(t)
      PROVE  LoopInv'
  <2>1. CopyBatch(t) => CanCopy(batch[t], urlList)
    BY CopyRoom DEF CopyBatch
  <2> QED
    BY <1>1, <1>2, <1>7, <2>1 DEF AllocBatch, CopyBatch, LoopInv
<1>8. ASSUME NEW t \in Worker, ConnectDatabase(t) \/ InsertRow(t) \/ CloseDatabase(t)
      PROVE  LoopInv'
  BY <1>1, <1>2, <1>8 DEF ConnectDatabase, InsertRow, CloseDatabase, CleanBatch, LoopInv
<1>9. ASSUME Stop \/ CloseService \/ FlushConnect \/ FlushRow \/ FlushDone
      PROVE  LoopInv'
  BY <1>1, <1>9 DEF Stop, CloseService, FlushConnect, FlushRow, FlushDone, LoopInv
<1>10. ASSUME CleanService PROVE LoopInv'
  <2>1. urlList'.count = 0
    BY <1>1, <1>10, ListEmptied DEF CleanService
  <2> QED
    BY <1>10, <2>1 DEF CleanService, LoopInv
<1>11. ASSUME Vanish PROVE LoopInv'
  <2>1. urlList'.count = 0
    BY <1>1, <1>11, ListEmptied DEF Vanish
  <2> QED
    BY <1>2, <1>11, <2>1 DEF Vanish, LoopInv
<1>12. ASSUME UNCHANGED vars PROVE LoopInv'
  BY <1>12 DEF vars, LoopInv
<1> QED
  BY <1>5, <1>6, <1>7, <1>8, <1>9, <1>10, <1>11, <1>12
     DEF Next, Work, Close, ExitProcess, Crash, Terminated

\* No entry is twice in the list or in a batch, and none is in two of them, but
\* for a batch that was copied from the list before the list is reset.
PlaceInv ==
  /\ Injective(urlList)
  /\ \A t \in Worker : Injective(batch[t])
  /\ \A t, u \in Worker : t # u => Unwritten(t) \cap Unwritten(u) = {}
  /\ \A t \in Worker : IF pc[t] = "reset" THEN Unwritten(t) = Listed
                                        ELSE Unwritten(t) \cap Listed = {}

\* The records that have a row.
Written == {e \in Entry : rows[e] > 0}

\* An accepted record is in memory, written or lost, and was written once.
SettledInv ==
  /\ accepted = InMemory \cup Written \cup lost
  /\ InMemory \cap Written = {} /\ InMemory \cap lost = {} /\ Written \cap lost = {}
  /\ \A e \in Entry : rows[e] <= 1

\* What a step does to the records: nothing, or one of the steps of RecordLog.
Stays == UNCHANGED <<InMemory, accepted, rows, lost>>
Accepts(e) ==
  /\ e \in Entry \ accepted
  /\ InMemory' = InMemory \cup {e} /\ accepted' = accepted \cup {e}
  /\ UNCHANGED <<rows, lost>>
Writes(e) ==
  /\ e \in InMemory /\ InMemory' = InMemory \ {e}
  /\ rows' = [rows EXCEPT ![e] = @ + 1]
  /\ UNCHANGED <<accepted, lost>>
Loses(S) ==
  /\ S \subseteq InMemory /\ InMemory' = InMemory \ S
  /\ lost' = lost \cup S
  /\ UNCHANGED <<accepted, rows>>
Effect ==
  \/ Stays
  \/ \E e \in Entry : Accepts(e) \/ Writes(e)
  \/ \E S \in SUBSET InMemory : Loses(S)

LEMMA MemoryType == TypeInv => InMemory \subseteq Entry /\ accepted \subseteq Entry
<1> SUFFICES ASSUME TypeInv PROVE InMemory \subseteq Entry
  BY DEF accepted
<1>0. UrlRecordSize \in Nat
  BY SizeType
<1> USE <1>0
<1>1. Listed \subseteq Entry
  <2>1. flushed \in Nat /\ urlList.count \in Nat
    BY DEF TypeInv, TypeOK, Lists
  <2> QED
    BY <2>1 DEF Listed, EntriesFrom, TypeInv, Filled, accepted
<1>2. ASSUME NEW t \in Worker PROVE Unwritten(t) \subseteq Entry
  BY DEF Unwritten, EntriesFrom, TypeInv, TypeOK, Filled, accepted
<1> QED
  BY <1>1, <1>2 DEF InMemory

LEMMA BatchCount ==
  ASSUME TypeInv, NEW t \in Worker
  PROVE  batch[t].count \in Nat
<1>0. UrlRecordSize \in Nat
  BY SizeType
<1> USE <1>0
<1>1. batch[t] \in Lists(UrlRecordSize) \/ batch[t] = Emptied
  BY DEF TypeInv, TypeOK
<1>2. Emptied.count = 0
  BY ListInitEmpty DEF Emptied
<1> QED
  BY <1>1, <1>2 DEF Lists

LEMMA PlaceInit == Started /\ record_conf \in RecordConfs => PlaceInv /\ SettledInv
<1> SUFFICES ASSUME Started, record_conf \in RecordConfs PROVE PlaceInv /\ SettledInv
  OBVIOUS
<1>1. Listed = {} /\ Injective(urlList)
  BY ConfigType, ListInitEmpty, EntriesNone DEF Started, Unserved, Listed
<1>2. ASSUME NEW t \in Worker PROVE Unwritten(t) = {} /\ Injective(batch[t])
  BY ListInitEmpty, EntriesNone DEF Started, Unserved, Unwritten, Emptied
<1>3. InMemory = {}
  BY <1>1, <1>2 DEF InMemory
<1>4. accepted = {} /\ Written = {} /\ lost = {} /\ \A e \in Entry : rows[e] <= 1
  BY DEF Started, Unserved, accepted, Written
<1>5. PlaceInv
  BY <1>1, <1>2 DEF PlaceInv
<1>6. SettledInv
  BY <1>3, <1>4 DEF SettledInv
<1> QED
  BY <1>5, <1>6

\* The four effects keep every record in one place.
LEMMA SettledStep ==
  ASSUME TypeInv, SettledInv, Effect
  PROVE  SettledInv'
<1>1. InMemory \subseteq Entry /\ accepted \subseteq Entry /\ rows \in [Entry -> Nat]
  BY MemoryType DEF TypeInv, TypeOK
<1>2. CASE Stays
  BY <1>2 DEF Stays, SettledInv, Written
<1>3. ASSUME NEW e \in Entry, Accepts(e) PROVE SettledInv'
  BY <1>1, <1>3 DEF Accepts, SettledInv, Written
<1>4. ASSUME NEW e \in Entry, Writes(e) PROVE SettledInv'
  <2>1. Written' = Written \cup {e} /\ rows'[e] = 1
        /\ \A d \in Entry \ {e} : rows'[d] = rows[d]
    BY <1>1, <1>4 DEF Writes, Written, SettledInv
  <2> QED
    BY <1>1, <1>4, <2>1 DEF Writes, SettledInv
<1>5. ASSUME NEW S \in SUBSET InMemory, Loses(S) PROVE SettledInv'
  BY <1>1, <1>5 DEF Loses, SettledInv, Written
<1> QED
  BY <1>2, <1>3, <1>4, <1>5 DEF Effect

\* A step that changes no list and no progress through one, and moves no worker
\* to or from the point where batch and list are the same.
LEMMA PlaceStays ==
  ASSUME PlaceInv, UNCHANGED <<urlList, flushed, batch, next, order, rows, lost>>,
         \A t \in Worker : pc'[t] = "reset" <=> pc[t] = "reset"
  PROVE  PlaceInv' /\ Effect
<1>1. Listed' = Listed /\ \A t \in Worker : Unwritten(t)' = Unwritten(t)
  BY DEF Listed, Unwritten
<1>2. InMemory' = InMemory /\ accepted' = accepted
  BY <1>1 DEF InMemory, accepted
<1>3. PlaceInv'
  BY <1>1 DEF PlaceInv
<1> QED
  BY <1>2, <1>3 DEF Effect, Stays

\* The worker goes one entry further in its batch, or past the end of it.
LEMMA PlaceInsert ==
  ASSUME TypeInv, LoopInv, PlaceInv, NEW t \in Worker, InsertRow(t)
  PROVE  PlaceInv' /\ Effect
<1> DEFINE e == batch[t].array[next[t]]
<1> USE DEF Goto, wordVars, reqVars, orderVars, listVars, batchVars, dbVars, exitVars
<1>1. /\ batch[t].count \in Nat /\ next[t] \in 1..batch[t].count
      /\ pc[t] = "insert" /\ next \in [Worker -> Nat \ {0}]
      /\ pc' = pc
  <2>1. pc[t] = "insert" /\ pc' = pc /\ next \in [Worker -> Nat \ {0}]
    BY DEF InsertRow, TypeInv, TypeOK
  <2>2. batch[t].count \in Nat
    BY BatchCount
  <2> QED
    BY <2>1, <2>2 DEF InsertRow
<1>2. /\ e \in Unwritten(t)
      /\ Unwritten(t)' = Unwritten(t) \ {e}
      /\ \A u \in Worker \ {t} : Unwritten(u)' = Unwritten(u)
      /\ Listed' = Listed
  <2>1. Injective(batch[t])
    BY <1>1 DEF PlaceInv
  <2>2. e \in Unwritten(t) /\ EntriesFrom(batch[t], next[t] + 1) = Unwritten(t) \ {e}
    BY <1>1, <2>1, EntriesStep DEF Unwritten
  <2> QED
    BY <1>1, <2>2 DEF InsertRow, Unwritten, Listed
<1>3. e \in InMemory /\ e \in Entry /\ InMemory' = InMemory \ {e} /\ InMemory \subseteq Entry
  <2>1. e \in InMemory /\ InMemory \subseteq Entry
    BY <1>2, MemoryType DEF InMemory
  <2>2. e \notin Listed /\ \A u \in Worker \ {t} : e \notin Unwritten(u)
    BY <1>1, <1>2 DEF PlaceInv
  <2> HIDE DEF e
  <2>3. InMemory' = InMemory \ {e}
    BY <1>2, <2>2 DEF InMemory
  <2> QED
    BY <2>1, <2>3
<1>4. PlaceInv'
  BY <1>1, <1>2 DEF InsertRow, PlaceInv
<1>5. Writes(e) \/ Loses({e})
  BY <1>3 DEF InsertRow, Writes, Loses, accepted
<1> QED
  BY <1>3, <1>4, <1>5 DEF Effect

\* The worker is through with its batch, or gives it up.
LEMMA PlaceClean ==
  ASSUME TypeInv, PlaceInv, NEW t \in Worker,
         UNCHANGED <<urlList, flushed, order, rows>>, CleanBatch(t),
         lost' = lost \cup Unwritten(t),
         pc[t] # "reset" /\ \E to : to # "reset" /\ pc' = [pc EXCEPT ![t] = to]
  PROVE  PlaceInv' /\ Effect
<1>1. /\ Unwritten(t)' = {} /\ Injective(batch[t])'
      /\ \A u \in Worker \ {t} : Unwritten(u)' = Unwritten(u) /\ batch'[u] = batch[u]
      /\ Listed' = Listed
  <2>1. batch'[t] = Emptied /\ next'[t] = 1
    BY DEF CleanBatch, TypeInv, TypeOK
  <2> QED
    BY <2>1, ListInitEmpty, EntriesNone DEF CleanBatch, Unwritten, Listed, Emptied
<1>2. pc \in [Worker -> Location]
  BY DEF TypeInv, TypeOK
<1>3. PlaceInv'
  BY <1>1, <1>2 DEF PlaceInv
<1>4. InMemory' = InMemory \ Unwritten(t) /\ Unwritten(t) \subseteq InMemory
  <2>1. Unwritten(t) \cap Listed = {} /\ \A u \in Worker \ {t} : Unwritten(t) \cap Unwritten(u) = {}
    BY DEF PlaceInv
  <2> QED
    BY <1>1, <2>1 DEF InMemory
<1>5. Loses(Unwritten(t))
  BY <1>4 DEF Loses, accepted
<1> QED
  BY <1>3, <1>4, <1>5 DEF Effect

\* The worker adds its entry, copies the full list and resets it.
LEMMA PlaceAdd ==
  ASSUME TypeInv, LockInv, RequestInv, LoopInv, PlaceInv, NEW t \in Worker, AddRecord(t)
  PROVE  PlaceInv' /\ Effect
<1>0. UrlRecordSize \in Nat
  BY SizeType
<1> USE <1>0
<1> DEFINE e == entry[t]
<1> USE DEF Goto, wordVars, reqVars, orderVars, listVars, batchVars, dbVars, exitVars
<1>1. /\ pc[t] = "add" /\ flushed = 0 /\ e \in Entry /\ e \notin accepted
      /\ urlList \in Lists(UrlRecordSize) /\ ~IsFull(urlList)
      /\ pc \in [Worker -> Location] /\ order \in [Entry -> Nat] /\ adds \in Nat
  <2>1. pc[t] = "add"
    BY DEF AddRecord, Counted
  <2>2. phase \in {"running", "stopping"} /\ urlList.count < urlList.size
    BY <2>1 DEF LockInv
  <2>3. e \in Entry /\ e \notin accepted
    BY <2>1 DEF RequestInv, BeforeAdd, TypeInv, Serving, Idle
  <2> QED
    BY <2>1, <2>2, <2>3 DEF LoopInv, IsFull, TypeInv, TypeOK, Lists
<1>2. Listed \subseteq accepted /\ \A u \in Worker : Unwritten(u) \subseteq accepted
  <2>1. Listed \subseteq accepted
    BY <1>1 DEF Listed, EntriesFrom, TypeInv, Filled
  <2>2. ASSUME NEW u \in Worker PROVE Unwritten(u) \subseteq accepted
    BY DEF Unwritten, EntriesFrom, TypeInv, TypeOK, Filled
  <2> QED
    BY <2>1, <2>2
<1>3. Listed' = Listed \cup {e} /\ Injective(urlList')
  <2>1. Injective(urlList) /\ e \notin EntriesFrom(urlList, 1)
    BY <1>1, <1>2 DEF PlaceInv, Listed
  <2> QED
    BY <1>1, <2>1, EntriesAdd DEF AddRecord, Counted, Listed
<1>4. \A u \in Worker : Unwritten(u)' = Unwritten(u)
  BY DEF AddRecord, Counted, Unwritten
<1>5. accepted' = accepted \cup {e}
  BY <1>1 DEF AddRecord, Counted, accepted
<1>6. PlaceInv'
  <2>1. \A u \in Worker : pc[u] # "reset" /\ pc'[u] # "reset"
    BY <1>1 DEF AddRecord, Counted, LockInv, Critical
  <2> HIDE DEF e
  <2> QED
    BY <1>1, <1>2, <1>3, <1>4, <2>1 DEF AddRecord, Counted, PlaceInv
<1>7. Accepts(e)
  BY <1>1, <1>3, <1>4, <1>5 DEF AddRecord, Counted, Accepts, InMemory
<1> QED
  BY <1>1, <1>6, <1>7 DEF Effect

LEMMA PlaceAlloc ==
  ASSUME TypeInv, LoopInv, PlaceInv, NEW t \in Worker, AllocBatch(t)
  PROVE  PlaceInv' /\ Effect
<1>0. UrlRecordSize \in Nat
  BY SizeType
<1> USE <1>0
<1> USE DEF Goto, wordVars, reqVars, orderVars, listVars, batchVars, dbVars, exitVars
<1>1. /\ pc \in [Worker -> Location]
      /\ pc[t] = "alloc" /\ pc'[t] \in {"copy", "finish"}
      /\ next[t] = 1 /\ batch[t].count = 0 /\ batch'[t].count = 0
      /\ \A u \in Worker \ {t} : batch'[u] = batch[u]
  BY ListInitEmpty DEF AllocBatch, TypeInv, TypeOK, LoopInv
<1>2. /\ Unwritten(t) = {} /\ Unwritten(t)' = {} /\ Injective(batch'[t])
      /\ \A u \in Worker \ {t} : Unwritten(u)' = Unwritten(u)
      /\ Listed' = Listed
  BY <1>1, EntriesNone DEF AllocBatch, Unwritten, Listed
<1>3. PlaceInv'
  BY <1>1, <1>2 DEF AllocBatch, PlaceInv
<1>4. Stays
  BY <1>2 DEF AllocBatch, Stays, InMemory, accepted
<1> QED
  BY <1>3, <1>4 DEF Effect

LEMMA PlaceCopy ==
  ASSUME TypeInv, LockInv, LoopInv, PlaceInv, NEW t \in Worker, CopyBatch(t)
  PROVE  PlaceInv' /\ Effect
<1>0. UrlRecordSize \in Nat
  BY SizeType
<1> USE <1>0
<1> USE DEF Goto, wordVars, reqVars, orderVars, listVars, batchVars, dbVars, exitVars
<1>1. /\ pc \in [Worker -> Location] /\ flushed = 0
      /\ pc[t] = "copy" /\ pc'[t] = "reset" /\ next[t] = 1 /\ batch[t].count = 0
      /\ urlList \in Lists(UrlRecordSize)
      /\ batch \in [Worker -> Lists(UrlRecordSize) \cup {ListInit(0)}]
      /\ batch'[t] = ListCopy(batch[t], urlList)
      /\ \A u \in Worker \ {t} : batch'[u] = batch[u]
  <2>1. phase \in {"running", "stopping"} /\ CanCopy(batch[t], urlList)
    BY CopyRoom DEF CopyBatch, LockInv
  <2> QED
    BY <2>1 DEF CopyBatch, TypeInv, TypeOK, LoopInv, Emptied
<1>2. /\ Unwritten(t) = {} /\ Unwritten(t)' = Listed /\ Injective(batch'[t])
      /\ \A u \in Worker \ {t} : Unwritten(u)' = Unwritten(u)
      /\ Listed' = Listed
  <2>1. Unwritten(t) = {}
    BY <1>1, EntriesNone DEF Unwritten
  <2>2. EntriesFrom(batch'[t], 1) = EntriesFrom(urlList, 1) /\ Injective(batch'[t])
    BY <1>1, CopyRoom, EntriesCopy DEF PlaceInv
  <2> QED
    BY <1>1, <2>1, <2>2 DEF CopyBatch, Unwritten, Listed
<1>3. PlaceInv'
  <2>1. \A u \in Worker \ {t} : pc[u] # "reset" /\ pc'[u] # "reset"
    BY <1>1 DEF CopyBatch, LockInv, Critical
  <2> QED
    BY <1>1, <1>2, <2>1 DEF CopyBatch, PlaceInv
<1>4. Stays
  BY <1>2 DEF CopyBatch, Stays, InMemory, accepted
<1> QED
  BY <1>3, <1>4 DEF Effect

LEMMA PlaceReset ==
  ASSUME TypeInv, LockInv, LoopInv, PlaceInv, NEW t \in Worker, ResetList(t)
  PROVE  PlaceInv' /\ Effect
<1>0. UrlRecordSize \in Nat
  BY SizeType
<1> USE <1>0
<1> USE DEF Goto, wordVars, reqVars, orderVars, listVars, batchVars, dbVars, exitVars
<1>1. /\ pc \in [Worker -> Location]
      /\ pc[t] = "reset" /\ \A u \in Worker : pc'[u] # "reset"
      /\ urlList'.count = 0 /\ flushed \in Nat
  <2>1. urlList'.count = 0
    BY ListEmptied DEF ResetList, TypeInv, TypeOK
  <2> QED
    BY <2>1 DEF ResetList, LockInv, Critical, TypeInv, TypeOK
<1>2. /\ Listed' = {} /\ Injective(urlList') /\ Listed = Unwritten(t)
      /\ \A u \in Worker : Unwritten(u)' = Unwritten(u)
  BY <1>1, EntriesNone DEF ResetList, Listed, Unwritten, PlaceInv
<1>3. PlaceInv'
  BY <1>1, <1>2 DEF ResetList, PlaceInv
<1>4. Stays
  BY <1>2 DEF ResetList, Stays, InMemory, accepted
<1> QED
  BY <1>3, <1>4 DEF Effect

\* The closing thread, when every worker is gone.
LEMMA PlaceFlush ==
  ASSUME TypeInv, LockInv, LoopInv, PlaceInv, FlushConnect \/ FlushRow \/ CleanService
  PROVE  PlaceInv' /\ Effect
<1>0. UrlRecordSize \in Nat
  BY SizeType
<1> USE <1>0
<1> USE DEF wordVars, reqVars, orderVars, listVars, batchVars, dbVars, exitVars
<1>1. /\ flushed \in Nat
      /\ urlList \in Lists(UrlRecordSize) /\ urlList.count \in Nat
      /\ UNCHANGED <<pc, batch, next, order>>
      /\ \A t \in Worker : pc[t] = "gone"
  BY DEF FlushConnect, FlushRow, CleanService, LockInv, TypeInv, TypeOK, Lists
<1>2. ASSUME NEW t \in Worker
      PROVE  Unwritten(t) = {} /\ Unwritten(t)' = {} /\ Injective(batch[t])
  <2>1. batch[t].count = 0 /\ next[t] = 1
    BY <1>1 DEF LoopInv
  <2> QED
    BY <1>1, <2>1, EntriesNone DEF Unwritten
<1>3. InMemory = Listed /\ InMemory' = Listed'
  BY <1>2 DEF InMemory
<1>4. Injective(urlList') => PlaceInv'
  BY <1>1, <1>2 DEF PlaceInv
<1>5. CASE FlushConnect
  <2>1. urlList' = urlList /\ Injective(urlList)
    BY <1>1, <1>5 DEF FlushConnect, PlaceInv
  <2>2. \/ Listed' = Listed /\ lost' = lost
        \/ Listed' = {} /\ lost' = lost \cup Listed
    BY <1>1, <1>5, <2>1, EntriesPast DEF FlushConnect, Listed
  <2>3. Stays \/ Loses(Listed)
    BY <1>1, <1>3, <1>5, <2>2 DEF FlushConnect, Stays, Loses, accepted
  <2> QED
    BY <1>3, <1>4, <2>1, <2>3 DEF Effect
<1>6. CASE FlushRow
  <2> DEFINE e == urlList.array[flushed + 1]
  <2>1. urlList' = urlList /\ Injective(urlList) /\ flushed + 1 \in 1..urlList.count
    BY <1>1, <1>6 DEF FlushRow, PlaceInv, LoopInv
  <2>2. e \in Listed /\ Listed' = Listed \ {e}
    BY <1>1, <1>6, <2>1, EntriesStep DEF FlushRow, Listed
  <2>3. e \in Entry
    BY <1>3, <2>2, MemoryType
  <2>4. Writes(e) \/ Loses({e})
    BY <1>1, <1>3, <1>6, <2>2 DEF FlushRow, Writes, Loses, accepted
  <2> QED
    BY <1>3, <1>4, <2>1, <2>2, <2>3, <2>4 DEF Effect
<1>7. CASE CleanService
  <2>1. urlList'.count = 0 /\ flushed' = flushed /\ flushed >= urlList.count
    BY <1>1, <1>7, ListEmptied DEF CleanService, LoopInv
  <2>2. Listed = {} /\ Listed' = {} /\ Injective(urlList')
    BY <1>1, <2>1, EntriesNone, EntriesPast DEF Listed
  <2>3. Stays
    BY <1>1, <1>3, <1>7, <2>2 DEF CleanService, Stays, accepted
  <2> QED
    BY <1>4, <2>2, <2>3 DEF Effect
<1> QED
  BY <1>5, <1>6, <1>7

\* The process is gone and so is what it held.
LEMMA PlaceVanish ==
  ASSUME TypeInv, LockInv, LoopInv, PlaceInv, ExitProcess \/ Crash
  PROVE  PlaceInv' /\ Effect
<1>0. UrlRecordSize \in Nat
  BY SizeType
<1> USE <1>0
<1> USE DEF wordVars, reqVars, orderVars, listVars, batchVars, dbVars, exitVars
<1>1. /\ Vanish /\ flushed' \in Nat /\ urlList \in Lists(UrlRecordSize)
  BY DEF ExitProcess, Crash, Vanish, TypeInv, TypeOK
<1>2. Listed' = {} /\ Injective(urlList')
  BY <1>1, ListEmptied, EntriesNone DEF Vanish, Listed
<1>3. ASSUME NEW t \in Worker
      PROVE  Unwritten(t)' = {} /\ Injective(batch'[t])
  <2>1. batch'[t] = Emptied /\ next'[t] = 1
    BY <1>1 DEF Vanish
  <2> QED
    BY <2>1, ListInitEmpty, EntriesNone DEF Unwritten, Emptied
<1>4. InMemory' = {}
  BY <1>2, <1>3 DEF InMemory
<1>5. PlaceInv'
  BY <1>1, <1>2, <1>3 DEF Vanish, PlaceInv
<1>6. CASE Crash
  BY <1>1, <1>4, <1>5, <1>6 DEF Crash, Vanish, Effect, Loses, accepted
<1>7. CASE ExitProcess
  <2>1. Listed = {}
    BY <1>1, <1>7, EntriesNone DEF ExitProcess, LoopInv, Listed, TypeInv, TypeOK
  <2>2. ASSUME NEW t \in Worker PROVE Unwritten(t) = {}
    <3>1. pc[t] = "gone"
      BY <1>1, <1>7 DEF ExitProcess, LockInv
    <3>2. batch[t].count = 0 /\ next[t] = 1
      BY <3>1 DEF LoopInv
    <3> QED
      BY <3>2, EntriesNone DEF Unwritten
  <2>3. InMemory = {}
    BY <2>1, <2>2 DEF InMemory
  <2> QED
    BY <1>1, <1>4, <1>5, <1>7, <2>3 DEF ExitProcess, Vanish, Effect, Stays, accepted
<1> QED
  BY <1>6, <1>7

LEMMA PlaceStep ==
  ASSUME TypeInv, LockInv, RequestInv, LoopInv, PlaceInv, [Next]_vars
  PROVE  PlaceInv' /\ Effect
<1> USE DEF Goto, wordVars, reqVars, orderVars, listVars, batchVars, dbVars, exitVars
<1>1. pc \in [Worker -> Location]
  BY DEF TypeInv, TypeOK
<1>2. ASSUME UNCHANGED <<urlList, flushed, batch, next, order, rows, lost>>,
             NEW t \in Worker, NEW from, NEW to,
             pc[t] = from, pc' = [pc EXCEPT ![t] = to], from # "reset", to # "reset"
      PROVE  PlaceInv' /\ Effect
  <2>1. \A u \in Worker : pc'[u] = "reset" <=> pc[u] = "reset"
    BY <1>1, <1>2
  <2> QED
    BY <1>2, <2>1, PlaceStays
<1>3. ASSUME NEW t \in Worker,
             \/ InitRequestData(t) \/ CheckPreview(t) \/ ReleaseRequestData(t)
             \/ RecordWord(t) \/ LockList(t) \/ FinishRequest(t) \/ LeaveThread(t)
      PROVE  PlaceInv' /\ Effect
  BY <1>2, <1>3 DEF InitRequestData, CheckPreview, ReleaseRequestData, ParseUrl, RecordWord,
                    AfterWords, LockList, FinishRequest, LeaveThread
<1>4. ASSUME NEW t \in Worker, UnlockList(t) PROVE PlaceInv' /\ Effect
  BY <1>2, <1>4 DEF UnlockList
<1>5. ASSUME NEW t \in Worker, ConnectDatabase(t) PROVE PlaceInv' /\ Effect
  <2>1. CASE UNCHANGED <<batchVars, lost>>
    BY <1>2, <1>5, <2>1 DEF ConnectDatabase
  <2>2. CASE lost' = lost \cup Unwritten(t) /\ CleanBatch(t)
    BY <1>5, <2>2, PlaceClean DEF ConnectDatabase
  <2> QED
    BY <1>5, <2>1, <2>2 DEF ConnectDatabase
<1>6. ASSUME NEW t \in Worker, CloseDatabase(t) PROVE PlaceInv' /\ Effect
  <2>1. Unwritten(t) = {}
    <3>1. next[t] \in Nat /\ batch[t].count \in Nat
      BY BatchCount DEF TypeInv, TypeOK
    <3> QED
      BY <1>6, <3>1, EntriesPast DEF CloseDatabase, Unwritten
  <2> QED
    BY <1>6, <2>1, PlaceClean DEF CloseDatabase
<1>7. ASSUME Stop \/ CloseService \/ FlushDone PROVE PlaceInv' /\ Effect
  <2>1. UNCHANGED <<urlList, flushed, batch, next, order, rows, lost, pc>>
    BY <1>7 DEF Stop, CloseService, FlushDone, TypeInv, TypeOK
  <2> QED
    BY <2>1, PlaceStays
<1>8. ASSUME UNCHANGED vars PROVE PlaceInv' /\ Effect
  BY <1>8, PlaceStays DEF vars
<1> QED
  BY <1>3, <1>4, <1>5, <1>6, <1>7, <1>8, PlaceAdd, PlaceAlloc, PlaceCopy, PlaceReset,
     PlaceInsert, PlaceFlush, PlaceVanish
     DEF Next, Work, Close, Terminated

-------------------------------------------------------------------------------
(* The inductive invariant and what follows from it.                       *)

Inv ==
  UrlRecordSize > 0 /\ TypeInv /\ LockInv /\ RequestInv /\ LoopInv /\ PlaceInv /\ SettledInv

LEMMA InvInit == Started /\ record_conf \in RecordConfs /\ UrlRecordSize > 0 => Inv
BY ConfigType, TypeInit, LockInit, RequestInit, LoopInit, PlaceInit DEF Inv

LEMMA InvStep == Inv /\ [Next]_vars => Inv'
<1> SUFFICES ASSUME Inv, [Next]_vars PROVE Inv'
  OBVIOUS
<1>1. TypeInv' /\ LockInv' /\ RequestInv' /\ LoopInv'
  BY TypeStep, LockStep, RequestStep, LoopStep DEF Inv
<1>4. UrlRecordSize' > 0
  BY ConfigStep DEF Inv
<1>2. PlaceInv' /\ Effect
  BY PlaceStep DEF Inv
<1> QED
  BY <1>1, <1>2, <1>4, SettledStep DEF Inv

LEMMA Invariant == Spec => []Inv
<1>1. Init => Inv
  BY ConfigInit, InvInit
<1> QED
  BY <1>1, InvStep, PTL DEF Spec

\* The inductive invariant puts every accepted record in exactly one place.
LEMMA Accounted == Inv => NoDuplicateRow /\ RecordAccounted
<1>1. Inv => NoDuplicateRow
  BY DEF Inv, SettledInv, NoDuplicateRow
<1>2. ASSUME Inv, NEW e \in accepted
      PROVE  Cardinality({p \in {"memory", "row", "lost"} :
                            \/ p = "memory" /\ e \in InMemory
                            \/ p = "row" /\ rows[e] > 0
                            \/ p = "lost" /\ e \in lost}) = 1
  <2> DEFINE Place == {p \in {"memory", "row", "lost"} :
                            \/ p = "memory" /\ e \in InMemory
                            \/ p = "row" /\ rows[e] > 0
                            \/ p = "lost" /\ e \in lost}
  <2>1. /\ e \in InMemory \/ e \in Written \/ e \in lost
        /\ ~(e \in InMemory /\ e \in Written) /\ ~(e \in InMemory /\ e \in lost)
        /\ ~(e \in Written /\ e \in lost)
        /\ e \in Written <=> rows[e] > 0
    BY <1>2 DEF Inv, SettledInv, Written, accepted
  <2>2. CASE e \in InMemory
    BY <2>1, <2>2, Place = {"memory"}, FS_Singleton
  <2>3. CASE e \in Written
    BY <2>1, <2>3, Place = {"row"}, FS_Singleton
  <2>4. CASE e \in lost
    BY <2>1, <2>4, Place = {"lost"}, FS_Singleton
  <2> QED
    BY <2>1, <2>2, <2>3, <2>4
<1>3. Inv => RecordAccounted
  BY <1>2 DEF RecordAccounted
<1> QED
  BY <1>1, <1>3

\* No record gets a second row and every record
\* that was accepted is in exactly one place: in memory, in the table or lost.
THEOREM RecordsCorrect == Spec => [](NoDuplicateRow /\ RecordAccounted)
BY Accounted, Invariant, PTL

-------------------------------------------------------------------------------
(* The order of the batches.                                               *)

\* The list holds the latest records, one after the other, and a batch held
\* them when it was copied.
OrderInv ==
  /\ phase \in {"running", "stopping"} =>
       \A i \in 1..urlList.count : order[urlList.array[i]] + urlList.count = adds + i
  /\ \A t \in Worker :
       pc[t] \in {"reset", "unlockFull", "connect", "insert"} =>
         /\ batch[t].count = UrlRecordSize
         /\ \A i \in 1..UrlRecordSize :
              order[batch[t].array[i]] = order[batch[t].array[1]] + i - 1

LEMMA OrderInit == Started /\ record_conf \in RecordConfs => OrderInv
BY ConfigType, ListInitEmpty DEF Started, Unserved, OrderInv

LEMMA OrderStep == Inv /\ OrderInv /\ [Next]_vars => OrderInv'
<1> SUFFICES ASSUME Inv, OrderInv, [Next]_vars PROVE OrderInv'
  BY DEF OrderInv
<1>0. /\ record_conf' = record_conf /\ UrlRecordSize' = UrlRecordSize
      /\ RecordUrlOn' = RecordUrlOn /\ RecordWordOn' = RecordWordOn
      /\ UrlRecordSize \in Nat
  BY ConfigStep, SizeType DEF Inv
<1> USE <1>0
<1> USE DEF Goto, Idle, wordVars, reqVars, orderVars, listVars, batchVars, dbVars, exitVars
<1>1. /\ pc \in [Worker -> Location] /\ urlList \in Lists(UrlRecordSize)
      /\ urlList.count \in Nat /\ adds \in Nat /\ order \in [Entry -> Nat]
      /\ batch \in [Worker -> Lists(UrlRecordSize) \cup {ListInit(0)}]
      /\ accepted \subseteq Entry
  BY DEF Inv, TypeInv, TypeOK, Lists, Emptied, accepted
<1>2. ASSUME UNCHANGED <<urlList, adds, order, batch>>,
             phase' \in {"running", "stopping"} => phase \in {"running", "stopping"},
             \A t \in Worker :
               pc'[t] \in {"reset", "unlockFull", "connect", "insert"} =>
                 pc[t] \in {"reset", "unlockFull", "connect", "insert"}
      PROVE  OrderInv'
  BY <1>2 DEF OrderInv
<1>3. ASSUME NEW t \in Worker,
             \/ InitRequestData(t) \/ CheckPreview(t) \/ ReleaseRequestData(t)
             \/ RecordWord(t) \/ LockList(t)
      PROVE  OrderInv'
  BY <1>1, <1>2, <1>3 DEF InitRequestData, CheckPreview, ReleaseRequestData, ParseUrl, RecordWord,
                          AfterWords, LockList
<1>4. ASSUME NEW t \in Worker,
             UnlockList(t) \/ InsertRow(t) \/ FinishRequest(t) \/ LeaveThread(t)
      PROVE  OrderInv'
  BY <1>1, <1>2, <1>4 DEF UnlockList, InsertRow, FinishRequest, LeaveThread
<1>5. ASSUME NEW t \in Worker, AddRecord(t) PROVE OrderInv'
  <2> DEFINE new == ListAdd(urlList, entry[t])
  <2>1. /\ pc[t] = "add" /\ phase \in {"running", "stopping"}
        /\ entry[t] \in Entry /\ entry[t] \notin accepted /\ ~IsFull(urlList)
    <3>1. pc[t] = "add"
      BY <1>5 DEF AddRecord, Counted
    <3>2. phase \in {"running", "stopping"} /\ urlList.count < urlList.size
      BY <3>1 DEF Inv, LockInv
    <3>3. entry[t] \in Entry /\ entry[t] \notin accepted
      BY <3>1 DEF Inv, RequestInv, BeforeAdd, TypeInv, Serving
    <3> QED
      BY <1>1, <3>1, <3>2, <3>3 DEF IsFull, Lists
  <2>2. /\ new.count = urlList.count + 1 /\ new.array[new.count] = entry[t]
        /\ \A i \in 1..urlList.count : new.array[i] = urlList.array[i]
    BY <1>1, <2>1, ListAddRoom
  <2>3. urlList' = new
    BY <1>5 DEF AddRecord, Counted
  <2> HIDE DEF new
  <2>4. /\ order'[entry[t]] = adds + 1 /\ adds' = adds + 1
        /\ \A e \in accepted : order'[e] = order[e]
    BY <1>1, <1>5, <2>1 DEF AddRecord, Counted
  <2>5. ASSUME NEW i \in 1..urlList'.count
        PROVE  order'[urlList'.array[i]] + urlList'.count = adds' + i
    <3>1. CASE i = new.count
      BY <1>1, <2>2, <2>3, <2>4, <3>1
    <3>2. CASE i # new.count
      <4>1. i \in 1..urlList.count
        BY <1>1, <2>2, <2>3, <3>2
      <4>2. urlList.array[i] \in accepted
        BY <4>1 DEF Inv, TypeInv, Filled
      <4>3. order[urlList.array[i]] + urlList.count = adds + i
        BY <2>1, <4>1 DEF OrderInv
      <4>4. order[urlList.array[i]] \in Nat
        BY <1>1, <4>2
      <4> QED
        BY <1>1, <2>2, <2>3, <2>4, <4>1, <4>2, <4>3, <4>4
    <3> QED
      BY <3>1, <3>2
  <2>6. ASSUME NEW u \in Worker, pc'[u] \in {"reset", "unlockFull", "connect", "insert"}
        PROVE  /\ batch'[u].count = UrlRecordSize
               /\ \A i \in 1..UrlRecordSize :
                    order'[batch'[u].array[i]] = order'[batch'[u].array[1]] + i - 1
    <3>1. pc[u] \in {"reset", "unlockFull", "connect", "insert"} /\ batch'[u] = batch[u]
      BY <1>1, <1>5, <2>6 DEF AddRecord, Counted
    <3>2. batch[u].count = UrlRecordSize
      BY <2>1, <3>1 DEF OrderInv
    <3>3. \A i \in 1..UrlRecordSize : batch[u].array[i] \in accepted
      BY <3>2 DEF Inv, TypeInv, Filled
    <3>4. 1 \in 1..UrlRecordSize
      BY DEF Inv
    <3> QED
      BY <2>1, <2>4, <3>1, <3>2, <3>3, <3>4 DEF OrderInv
  <2> QED
    BY <2>5, <2>6 DEF OrderInv
<1>6. ASSUME NEW t \in Worker, AllocBatch(t) PROVE OrderInv'
  BY <1>1, <1>6 DEF AllocBatch, OrderInv
<1>7. ASSUME NEW t \in Worker, CopyBatch(t) PROVE OrderInv'
  <2>1. /\ pc[t] = "copy" /\ phase \in {"running", "stopping"}
        /\ urlList.count = UrlRecordSize /\ batch[t].count = 0
    BY <1>7 DEF CopyBatch, Inv, LockInv, LoopInv
  <2>0. CanCopy(batch[t], urlList) /\ batch' = [batch EXCEPT ![t] = ListCopy(@, urlList)]
    BY <1>7, <2>1, CopyRoom DEF CopyBatch, Inv
  <2>2. \A i \in 1..UrlRecordSize :
          order[urlList.array[i]] \in Nat /\ order[urlList.array[i]] + UrlRecordSize = adds + i
    BY <1>1, <2>1 DEF OrderInv, Inv, TypeInv, Filled
  <2>3. batch'[t].count = UrlRecordSize
    BY <1>1, <2>0, <2>1, EntriesCopy
  <2>4. \A i \in 1..UrlRecordSize : batch'[t].array[i] = urlList.array[i]
    <3> DEFINE new == ListCopy(batch[t], urlList)
    <3>1. /\ batch[t] \in Lists(UrlRecordSize) \cup {ListInit(0)}
          /\ CanCopy(batch[t], urlList) /\ new = batch'[t]
      BY <1>1, <2>0
    <3>2. \/ new = batch[t] /\ urlList.count = 0
          \/ new.count = urlList.count /\ \A i \in 1..urlList.count : new.array[i] = urlList.array[i]
      BY <1>1, <3>1, ListCopyType
    <3> QED
      BY <2>1, <3>1, <3>2
  <2>5. \A i \in 1..UrlRecordSize : order[batch'[t].array[i]] = order[batch'[t].array[1]] + i - 1
    <3>1. 1 \in 1..UrlRecordSize
      BY DEF Inv
    <3> QED
      BY <1>1, <2>2, <2>4, <3>1
  <2>6. /\ UNCHANGED <<phase, urlList, adds, order>>
        /\ \A u \in Worker \ {t} : pc'[u] = pc[u] /\ batch'[u] = batch[u]
    BY <1>1, <1>7 DEF CopyBatch
  <2> QED
    BY <2>3, <2>5, <2>6 DEF OrderInv
<1>8. ASSUME NEW t \in Worker, ResetList(t) PROVE OrderInv'
  <2>1. urlList'.count = 0
    BY <1>1, <1>8, ListEmptied DEF ResetList
  <2> QED
    BY <1>1, <1>8, <2>1 DEF ResetList, OrderInv
<1>9. ASSUME NEW t \in Worker, ConnectDatabase(t) \/ CloseDatabase(t) PROVE OrderInv'
  BY <1>1, <1>9 DEF ConnectDatabase, CloseDatabase, CleanBatch, OrderInv
<1>10. ASSUME Stop \/ CloseService \/ FlushConnect \/ FlushRow \/ FlushDone PROVE OrderInv'
  BY <1>2, <1>10 DEF Stop, CloseService, FlushConnect, FlushRow, FlushDone
<1>11. ASSUME CleanService \/ Vanish PROVE OrderInv'
  BY <1>11 DEF CleanService, Vanish, OrderInv
<1>12. ASSUME UNCHANGED vars PROVE OrderInv'
  BY <1>2, <1>12 DEF vars
<1> QED
  BY <1>3, <1>4, <1>5, <1>6, <1>7, <1>8, <1>9, <1>10, <1>11, <1>12
     DEF Next, Work, Close, ExitProcess, Crash, Terminated

\* Every batch that goes to the database has the configured size and consists of consecutive records.
THEOREM BatchesCorrect == Spec => []BatchesAreConsecutive
<1>1. OrderInv => BatchesAreConsecutive
  BY DEF OrderInv, BatchesAreConsecutive
<1> QED
  BY <1>1, Invariant, ConfigInit, OrderInit, OrderStep, PTL DEF Spec

-------------------------------------------------------------------------------
(* What becomes of a request.                                              *)

\* The engines whose word a request has when its words are to be recorded.
Sought(t) == IF RecordWordOn /\ Passes(data[t]) THEN data[t].engines ELSE {}

\* What was done for a request when its worker has come so far.  A list of size 0
\* takes no record.
Handled(t) ==
  /\ pc[t] \in {"preview", "release"} =>
       asked[entry[t]] = {} /\ (data[t] # NoRequest => Kept(data[t]))
  /\ pc[t] = "word" =>
       /\ RecordWordOn /\ Passes(data[t]) /\ engine[t] \in Engine
       /\ asked[entry[t]] = {k \in data[t].engines : k < engine[t]}
  /\ pc[t] \in {"lock", "connect", "insert"} \cup Critical =>
       RecordUrlOn /\ Passes(data[t]) /\ asked[entry[t]] = Sought(t)
  /\ pc[t] \in {"connect", "insert"} \cup (Critical \ {"add"}) =>
       (UrlRecordSize > 0 => entry[t] \in accepted)
  /\ pc[t] = "finish" =>
       /\ entry[t] \in accepted <=> RecordUrlOn /\ Passes(data[t]) /\ UrlRecordSize > 0
       /\ asked[entry[t]] = Sought(t)

\* No word is recorded twice or without being asked for.
WordsOnce == \A e \in Entry : \A k \in Engine : words[e][k] <= IF k \in asked[e] THEN 1 ELSE 0

HandledInv ==
  /\ WordsOnce
  /\ \A e \in Entry \ seen : asked[e] = {}
  /\ ~RecordWordOn => \A e \in Entry : asked[e] = {}
  /\ adds > 0 => RecordUrlOn
  /\ UrlRecordSize = 0 => accepted = {}
  /\ \A t \in Worker : Handled(t)

\* Nobody has a request yet.
LEMMA HandledInit == Started /\ record_conf \in RecordConfs => HandledInv
BY DEF Started, Unserved, HandledInv, WordsOnce, Handled, Critical, accepted

\* A worker's step leaves the request of another worker as it is.
LEMMA HandledOthers ==
  ASSUME TypeInv, RequestInv, HandledInv, NEW t \in Worker, NEW u \in Worker \ {t},
         record_conf' = record_conf, pc'[u] = pc[u], entry'[u] = entry[u], data'[u] = data[u],
         engine'[u] = engine[u],
         \A e \in Entry : e # entry[t] => asked'[e] = asked[e] /\ order'[e] = order[e],
         pc[t] \in Idle => UNCHANGED <<asked, order>>
  PROVE  Handled(u)'
<1>1. CASE pc[u] \in Idle
  BY <1>1 DEF Handled, Idle, Critical
<1>2. CASE pc[u] \notin Idle
  <2>1. entry[u] \in Entry
    BY <1>2 DEF TypeInv, Serving
  <2>2. asked'[entry[u]] = asked[entry[u]] /\ order'[entry[u]] = order[entry[u]]
    BY <1>2, <2>1 DEF RequestInv
  <2>3. /\ RecordUrlOn' = RecordUrlOn /\ RecordWordOn' = RecordWordOn
        /\ UrlRecordSize' = UrlRecordSize
        /\ (entry[u] \in accepted)' <=> entry[u] \in accepted
    BY <2>1, <2>2 DEF accepted, RecordUrlOn, RecordWordOn, UrlRecordSize
  <2>4. Handled(u)
    BY DEF HandledInv
  <2> QED
    BY <2>2, <2>3, <2>4 DEF Handled, Sought
<1> QED
  BY <1>1, <1>2

\* A step that only moves a worker, to a place that asks no more of its request.
LEMMA HandledMove ==
  ASSUME TypeInv, RequestInv, HandledInv, NEW t \in Worker,
         UNCHANGED <<record_conf, entry, data, words, asked, seen, adds, order>>,
         \A u \in Worker \ {t} : pc'[u] = pc[u] /\ engine'[u] = engine[u],
         Handled(t)'
  PROVE  HandledInv'
<1>1. ASSUME NEW u \in Worker \ {t} PROVE Handled(u)'
  BY HandledOthers
<1>2. /\ RecordUrlOn' = RecordUrlOn /\ RecordWordOn' = RecordWordOn
      /\ UrlRecordSize' = UrlRecordSize /\ accepted' = accepted
  BY DEF RecordUrlOn, RecordWordOn, UrlRecordSize, accepted
<1> QED
  BY <1>1, <1>2 DEF HandledInv, WordsOnce

LEMMA HandledStep ==
  ASSUME TypeInv, UrlRecordSize > 0 => LockInv, RequestInv, HandledInv, [Next]_vars
  PROVE  HandledInv'
<1>0. /\ record_conf' = record_conf /\ RecordUrlOn' = RecordUrlOn
      /\ RecordWordOn' = RecordWordOn /\ UrlRecordSize' = UrlRecordSize
      /\ UrlRecordSize \in Nat
  BY ConfigStep, SizeType
<1> USE <1>0
<1> USE DEF Goto, wordVars, reqVars, orderVars, listVars, batchVars, dbVars, exitVars
<1>1. /\ pc \in [Worker -> Location] /\ entry \in [Worker -> Entry \cup {NoEntry}]
      /\ data \in [Worker -> Request \cup {NoRequest}] /\ engine \in [Worker -> Nat \ {0}]
      /\ words \in [Entry -> [Engine -> Nat]] /\ asked \in [Entry -> SUBSET Engine]
      /\ order \in [Entry -> Nat] /\ adds \in Nat
      /\ seen \subseteq Entry /\ EngineCount \in Nat
  BY DEF TypeInv, TypeOK
<1>2. ASSUME NEW t \in Worker, InitRequestData(t) PROVE HandledInv'
  <2>1. PICK e \in Entry \ seen, r \in Request :
          /\ entry' = [entry EXCEPT ![t] = e] /\ seen' = seen \cup {e}
          /\ \/ Kept(r) /\ data' = [data EXCEPT ![t] = r]
             \/ data' = [data EXCEPT ![t] = NoRequest]
    BY <1>2 DEF InitRequestData
  <2>2. /\ pc[t] = "idle" /\ pc' = [pc EXCEPT ![t] = "preview"]
        /\ UNCHANGED <<engine, words, asked, order, adds>>
    BY <1>2 DEF InitRequestData
  <2>3. Handled(t)'
    BY <1>1, <2>1, <2>2 DEF Handled, HandledInv, Critical
  <2>4. ASSUME NEW u \in Worker \ {t} PROVE Handled(u)'
    BY <1>1, <2>1, <2>2, HandledOthers DEF Idle
  <2> QED
    BY <1>1, <2>1, <2>2, <2>3, <2>4 DEF HandledInv, WordsOnce, accepted
<1>3. ASSUME NEW t \in Worker, CheckPreview(t) PROVE HandledInv'
  <2>1. /\ pc[t] = "preview"
        /\ pc' = [pc EXCEPT ![t] = IF data[t] = NoRequest THEN "finish" ELSE "release"]
        /\ UNCHANGED <<entry, data, words, asked, seen, adds, order, engine>>
    BY <1>3 DEF CheckPreview
  <2>2. /\ Handled(t) /\ entry[t] \in Entry /\ entry[t] \notin accepted
        /\ accepted' = accepted
    BY <2>1 DEF HandledInv, RequestInv, BeforeAdd, TypeInv, Serving, Idle, accepted
  <2>3. Handled(t)'
    BY <1>1, <2>1, <2>2 DEF Handled, Sought, Passes, Critical
  <2> QED
    BY <1>1, <2>1, <2>3, HandledMove
<1>4. ASSUME NEW t \in Worker, ReleaseRequestData(t) PROVE HandledInv'
  <2>1. /\ pc[t] = "release"
        /\ pc' = [pc EXCEPT ![t] =
                    IF Filtered(data[t]) THEN "finish" ELSE ParseUrl(data[t])]
        /\ UNCHANGED <<entry, data, words, asked, seen, adds, order>>
        /\ engine' = [engine EXCEPT ![t] = 1]
    BY <1>4 DEF ReleaseRequestData
  <2>2. /\ Handled(t) /\ entry[t] \in Entry /\ entry[t] \notin accepted
        /\ accepted' = accepted /\ data[t] # NoRequest /\ data[t] \in Request
    BY <1>1, <2>1 DEF HandledInv, RequestInv, BeforeAdd, TypeInv, Serving, Idle, accepted
  <2>3. /\ Passes(data[t]) <=> ~Filtered(data[t]) /\ data[t].timed
        /\ asked[entry[t]] = {} /\ data[t].engines \subseteq Engine
    BY <1>1, <2>1, <2>2 DEF Handled, Passes, Filtered
  <2>4. /\ entry'[t] = entry[t] /\ data'[t] = data[t] /\ asked'[entry'[t]] = {}
        /\ entry'[t] \notin accepted'
    BY <2>1, <2>2, <2>3
  <2>5. Handled(t)'
    <3>1. CASE Passes(data[t]) /\ RecordWordOn /\ EngineCount > 0
      <4>1. /\ 1 \in Engine /\ {k \in data[t].engines : k < 1} = {} /\ engine'[t] = 1
            /\ pc'[t] = "word"
        BY <1>1, <2>1, <2>3, <3>1 DEF Engine, ParseUrl
      <4>2. asked'[entry'[t]] = {k \in data'[t].engines : k < engine'[t]}
        BY <2>4, <4>1
      <4> QED
        BY <2>4, <3>1, <4>1, <4>2 DEF Handled, Critical
    <3>2. CASE Passes(data[t]) /\ ~(RecordWordOn /\ EngineCount > 0)
      <4>1. Sought(t) = {} /\ pc'[t] = AfterWords
        BY <1>1, <2>1, <2>3, <3>2 DEF Sought, Engine, ParseUrl
      <4>2. Sought(t)' = {} /\ Passes(data'[t])
        BY <2>4, <3>2, <4>1 DEF Sought
      <4>3. pc'[t] = IF RecordUrlOn THEN "lock" ELSE "finish"
        BY <4>1 DEF AfterWords
      <4> QED
        BY <2>4, <4>2, <4>3 DEF Handled, Critical
    <3>3. CASE ~Passes(data[t])
      <4>1. pc'[t] = "finish"
        BY <1>1, <2>1, <2>3, <3>3 DEF ParseUrl
      <4>2. Sought(t)' = {} /\ ~Passes(data'[t])
        BY <2>4, <3>3 DEF Sought
      <4> QED
        BY <2>4, <4>1, <4>2 DEF Handled, Critical
    <3> QED
      BY <3>1, <3>2, <3>3
  <2> QED
    BY <1>1, <2>1, <2>5, HandledMove
<1>5. ASSUME NEW t \in Worker, RecordWord(t) PROVE HandledInv'
  <2> DEFINE e == entry[t]
             n == engine[t]
  <2>1. /\ pc[t] = "word"
        /\ pc' = [pc EXCEPT ![t] = IF n < EngineCount THEN "word" ELSE AfterWords]
        /\ UNCHANGED <<entry, data, seen, adds, order>>
        /\ engine' = [engine EXCEPT ![t] = @ + 1]
    BY <1>5 DEF RecordWord
  <2>2. /\ e \in Entry /\ e \notin accepted /\ accepted' = accepted
        /\ e \in seen
    BY <2>1 DEF RequestInv, BeforeAdd, TypeInv, Serving, Idle, accepted
  <2>3. /\ RecordWordOn /\ Passes(data[t]) /\ n \in Engine
        /\ asked[e] = {k \in data[t].engines : k < n}
        /\ data[t].engines \subseteq Engine
    <3>1. data[t] \in Request
      BY <1>1, <2>1 DEF TypeInv, Serving
    <3> QED
      BY <2>1, <3>1 DEF HandledInv, Handled
  <2> HIDE DEF e, n
  <2>5. e = entry[t] /\ n = engine[t]
    BY DEF e, n
  <2>4. /\ \A d \in Entry \ {e} : words'[d] = words[d] /\ asked'[d] = asked[d]
        /\ asked'[e] = {k \in data[t].engines : k < n + 1}
        /\ \A k \in Engine : words'[e][k] <= IF k \in asked'[e] THEN 1 ELSE 0
    <3>1. CASE n \notin data[t].engines
      <4>1. words' = words /\ asked' = asked
        BY <1>5, <2>5, <3>1 DEF RecordWord, HasWord
      <4>2. {k \in data[t].engines : k < n + 1} = {k \in data[t].engines : k < n}
        BY <1>1, <2>3, <3>1 DEF Engine
      <4> QED
        BY <2>2, <2>3, <4>1, <4>2 DEF HandledInv, WordsOnce
    <3>2. CASE n \in data[t].engines
      <4>1. /\ asked' = [asked EXCEPT ![e] = @ \cup {n}]
            /\ words' = [words EXCEPT ![e][n] = @ + 1] \/ words' = words
        BY <1>5, <2>5, <3>2 DEF RecordWord, HasWord
      <4>2. {k \in data[t].engines : k < n + 1} = {k \in data[t].engines : k < n} \cup {n}
        BY <1>1, <2>3, <3>2 DEF Engine
      <4>3. asked'[e] = {k \in data[t].engines : k < n + 1}
        BY <1>1, <2>2, <2>3, <4>1, <4>2
      <4>4. words[e][n] = 0
        <5>1. n \notin asked[e] /\ words[e][n] \in Nat
          BY <1>1, <2>2, <2>3 DEF Engine
        <5>2. words[e][n] <= 0
          BY <2>2, <2>3, <5>1 DEF HandledInv, WordsOnce
        <5> QED
          BY <5>1, <5>2
      <4>5. ASSUME NEW k \in Engine
            PROVE  words'[e][k] <= IF k \in asked'[e] THEN 1 ELSE 0
        <5>1. words[e][k] <= (IF k \in asked[e] THEN 1 ELSE 0) /\ words[e][k] \in Nat
          BY <1>1, <2>2 DEF HandledInv, WordsOnce
        <5>2. k \in asked'[e] <=> k \in asked[e] \/ k = n
          BY <1>1, <2>2, <4>1
        <5>3. words'[e][k] = words[e][k] \/ (k = n /\ words'[e][k] = 1)
          BY <1>1, <2>2, <2>3, <4>1, <4>4
        <5> QED
          BY <4>4, <5>1, <5>2, <5>3
      <4>6. \A d \in Entry \ {e} : words'[d] = words[d] /\ asked'[d] = asked[d]
        BY <1>1, <4>1
      <4> QED
        BY <4>3, <4>5, <4>6
    <3> QED
      BY <3>1, <3>2
  <2>7. Handled(t)'
    <3>1. CASE n < EngineCount
      <4>1. pc'[t] = "word" /\ engine'[t] = n + 1 /\ n + 1 \in Engine
        BY <1>1, <2>1, <2>3, <2>5, <3>1 DEF Engine
      <4> QED
        BY <2>1, <2>3, <2>4, <2>5, <4>1 DEF Handled, Critical
    <3>2. CASE ~(n < EngineCount)
      <4>1. pc'[t] = IF RecordUrlOn THEN "lock" ELSE "finish"
        BY <1>1, <2>1, <3>2 DEF AfterWords
      <4>2. entry'[t] \notin accepted' /\ Passes(data'[t])
        BY <2>1, <2>2, <2>3, <2>5
      <4>3. {k \in data[t].engines : k < n + 1} = data[t].engines
        BY <1>1, <2>3, <3>2 DEF Engine
      <4>4. Sought(t)' = data[t].engines
        BY <2>1, <2>3, <4>2 DEF Sought
      <4>5. asked'[entry'[t]] = Sought(t)'
        BY <2>1, <2>4, <2>5, <4>3, <4>4
      <4> QED
        BY <4>1, <4>2, <4>5 DEF Handled, Critical
    <3> QED
      BY <3>1, <3>2
  <2>8. ASSUME NEW u \in Worker \ {t} PROVE Handled(u)'
    BY <1>1, <2>1, <2>4, <2>5, HandledOthers DEF Idle
  <2>9. WordsOnce'
    <3>1. ASSUME NEW d \in Entry \ {e}, NEW k \in Engine
          PROVE  words'[d][k] <= IF k \in asked'[d] THEN 1 ELSE 0
      BY <2>4 DEF HandledInv, WordsOnce
    <3> QED
      BY <2>4, <3>1 DEF WordsOnce
  <2> QED
    BY <2>1, <2>2, <2>3, <2>4, <2>7, <2>8, <2>9 DEF HandledInv
<1>6. ASSUME NEW t \in Worker, LockList(t) PROVE HandledInv'
  <2>1. /\ pc[t] = "lock" /\ pc' = [pc EXCEPT ![t] = "add"]
        /\ UNCHANGED <<entry, data, words, asked, seen, adds, order, engine>>
    BY <1>6 DEF LockList
  <2>2. Handled(t)'
    BY <1>1, <2>1 DEF HandledInv, Handled, Sought, Critical
  <2> QED
    BY <1>1, <2>1, <2>2, HandledMove
<1>7. ASSUME NEW t \in Worker, AddRecord(t) PROVE HandledInv'
  <2>1. /\ pc[t] = "add"
        /\ \E to \in {"alloc", "unlock"} : pc' = [pc EXCEPT ![t] = to]
        /\ UNCHANGED <<entry, data, words, asked, seen, engine>> /\ Counted(t)
    BY <1>7 DEF AddRecord
  <2>2. entry[t] \in Entry /\ Handled(t)
    BY <2>1 DEF HandledInv, TypeInv, Serving, Idle
  <2>3. UrlRecordSize > 0 => /\ adds' = adds + 1 /\ order' = [order EXCEPT ![entry[t]] = adds + 1]
                             /\ entry[t] \in accepted'
    <3>1. UrlRecordSize > 0 => ~IsFull(urlList)
      BY <2>1 DEF LockInv, IsFull, TypeInv, TypeOK, Lists
    <3> QED
      BY <1>1, <2>1, <2>2, <3>1 DEF Counted, accepted
  <2>4. UrlRecordSize = 0 => UNCHANGED <<adds, order>> /\ accepted' = accepted
    <3>1. UrlRecordSize = 0 => IsFull(urlList)
      BY DEF IsFull, TypeInv, TypeOK, Lists
    <3> QED
      BY <2>1, <3>1 DEF Counted, accepted
  <2>5. RecordUrlOn /\ Handled(t)'
    BY <1>1, <2>1, <2>2, <2>3 DEF Handled, Sought, Critical
  <2>6. ASSUME NEW u \in Worker \ {t} PROVE Handled(u)'
    <3>1. \A e \in Entry : e # entry[t] => asked'[e] = asked[e] /\ order'[e] = order[e]
      BY <1>1, <2>1, <2>3, <2>4
    <3> QED
      BY <1>1, <2>1, <3>1, HandledOthers DEF Idle
  <2>7. WordsOnce' /\ (UrlRecordSize' = 0 => accepted' = {})
    BY <2>1, <2>4 DEF HandledInv, WordsOnce
  <2> QED
    BY <2>1, <2>5, <2>6, <2>7 DEF HandledInv
<1>8. ASSUME NEW t \in Worker,
             \/ AllocBatch(t) \/ CopyBatch(t) \/ ResetList(t) \/ UnlockList(t)
             \/ ConnectDatabase(t) \/ InsertRow(t) \/ CloseDatabase(t)
      PROVE  HandledInv'
  <2>1. /\ pc[t] \in {"connect", "insert"} \cup (Critical \ {"add"})
        /\ \E to \in {"finish", "connect", "insert"} \cup (Critical \ {"add"}) :
             pc' = [pc EXCEPT ![t] = to]
        /\ UNCHANGED <<entry, data, words, asked, seen, adds, order, engine>>
    BY <1>8 DEF AllocBatch, CopyBatch, ResetList, UnlockList, ConnectDatabase, InsertRow,
                CloseDatabase, Critical
  <2>2. Handled(t) /\ accepted' = accepted /\ HandledInv
    BY <2>1 DEF HandledInv, accepted
  <2>3. pc[t] # "finish" /\ Sought(t)' = Sought(t)
    BY <2>1 DEF Sought, Critical
  <2>4. UrlRecordSize > 0 \/ accepted = {}
    BY <2>2 DEF HandledInv
  <2>5. Handled(t)'
    BY <1>1, <2>1, <2>2, <2>3, <2>4 DEF Handled, Critical
  <2> QED
    BY <1>1, <2>1, <2>5, HandledMove
<1>9. ASSUME NEW t \in Worker, FinishRequest(t) PROVE HandledInv'
  <2>1. /\ pc[t] = "finish" /\ pc' = [pc EXCEPT ![t] = "idle"]
        /\ entry' = [entry EXCEPT ![t] = NoEntry] /\ data' = [data EXCEPT ![t] = NoRequest]
        /\ UNCHANGED <<words, asked, seen, adds, order, engine>>
    BY <1>9 DEF FinishRequest
  <2>2. Handled(t)'
    BY <1>1, <2>1 DEF Handled, Critical
  <2>3. ASSUME NEW u \in Worker \ {t} PROVE Handled(u)'
    BY <1>1, <2>1, HandledOthers DEF Idle
  <2> QED
    BY <2>1, <2>2, <2>3 DEF HandledInv, WordsOnce, accepted
<1>10. ASSUME NEW t \in Worker, LeaveThread(t) PROVE HandledInv'
  <2>1. /\ pc' = [pc EXCEPT ![t] = "gone"]
        /\ UNCHANGED <<entry, data, words, asked, seen, adds, order, engine>>
    BY <1>10 DEF LeaveThread
  <2>2. Handled(t)'
    BY <1>1, <2>1 DEF Handled, Critical
  <2> QED
    BY <1>1, <2>1, <2>2, HandledMove
<1>11. ASSUME UNCHANGED <<entry, data, words, asked, seen, adds, order, engine, pc>>
       PROVE  HandledInv'
  BY <1>11 DEF HandledInv, WordsOnce, Handled, Sought, accepted
<1>12. ASSUME Stop \/ CloseService \/ FlushConnect \/ FlushRow \/ FlushDone \/ CleanService
       PROVE  HandledInv'
  BY <1>11, <1>12 DEF Stop, CloseService, FlushConnect, FlushRow, FlushDone, CleanService
<1>13. ASSUME Vanish PROVE HandledInv'
  <2>1. \A t \in Worker : Handled(t)'
    BY <1>13 DEF Vanish, Handled, Critical
  <2> QED
    BY <1>13, <2>1 DEF Vanish, HandledInv, WordsOnce, accepted
<1>14. ASSUME UNCHANGED vars PROVE HandledInv'
  BY <1>11, <1>14 DEF vars
<1> QED
  BY <1>2, <1>3, <1>4, <1>5, <1>6, <1>7, <1>8, <1>9, <1>10, <1>12, <1>13, <1>14
     DEF Next, Work, Close, ExitProcess, Crash, Terminated

\* A request is recorded exactly when nothing holds it back and the service is to
\* record URLs; the words recorded are asked for under the same condition, each
\* engine's, and none of them is recorded twice.
THEOREM RequestsCorrect == Spec => []RecordedAsConfigured
<1> DEFINE I == Inv /\ HandledInv
<1>1. Init => HandledInv
  BY ConfigInit, HandledInit
<1>2. I /\ [Next]_vars => HandledInv'
  BY HandledStep DEF Inv
<1>3. I => RecordedAsConfigured
  <2> SUFFICES ASSUME I, NEW t \in Worker, pc[t] = "finish"
      PROVE  /\ entry[t] \in accepted <=> RecordUrlOn /\ Passes(data[t])
             /\ asked[entry[t]] =
                  IF RecordWordOn /\ Passes(data[t]) THEN data[t].engines ELSE {}
             /\ \A k \in Engine :
                  words[entry[t]][k] <= IF k \in asked[entry[t]] THEN 1 ELSE 0
    BY DEF RecordedAsConfigured
  <2>1. Handled(t) /\ WordsOnce /\ entry[t] \in Entry /\ UrlRecordSize > 0
    BY DEF HandledInv, Inv, TypeInv, Serving, Idle
  <2> QED
    BY <2>1 DEF Handled, Sought, WordsOnce
<1> QED
  BY <1>1, <1>2, <1>3, Invariant, PTL DEF Spec

-------------------------------------------------------------------------------
(* Refinement.                                                             *)

\* Each of the four effects is a step of RecordLog.
LEMMA EffectIsLogStep ==
  ASSUME TypeInv, SettledInv, Effect
  PROVE  [Log!Next]_(Log!vars)
<1>1. InMemory \subseteq Entry /\ accepted \subseteq Entry /\ rows \in [Entry -> Nat]
  BY MemoryType DEF TypeInv, TypeOK
<1>2. CASE Stays
  BY <1>2 DEF Stays, Log!vars
<1>3. ASSUME NEW e \in Entry, Accepts(e) PROVE Log!Next
  <2>1. Log!Accept(e)
    BY <1>1, <1>3 DEF Accepts, Log!Accept, SettledInv, Written
  <2> QED
    BY <2>1 DEF Log!Next
<1>4. ASSUME NEW e \in Entry, Writes(e) PROVE Log!Next
  BY <1>4 DEF Writes, Log!Write, Log!Next
<1>5. ASSUME NEW S \in SUBSET InMemory, Loses(S) PROVE Log!Next
  BY <1>5 DEF Loses, Log!Lose, Log!Next
<1> QED
  BY <1>2, <1>3, <1>4, <1>5 DEF Effect

\* The threads, the lock, the shared list, the batches and the flush together do
\* what RecordLog says of one set of records.
THEOREM Refinement == Spec => LogSpec
<1>1. Init => Log!Init
  <2> SUFFICES ASSUME Started, record_conf \in RecordConfs PROVE Log!Init
    BY ConfigInit
  <2>1. Written = {} /\ accepted = {}
    BY DEF Started, Unserved, Written, accepted
  <2>2. InMemory = {}
    BY <2>1, PlaceInit DEF SettledInv
  <2> QED
    BY <2>1, <2>2 DEF Started, Unserved, Log!Init
<1>2. Inv /\ [Next]_vars => [Log!Next]_(Log!vars)
  BY PlaceStep, EffectIsLogStep DEF Inv
<1> QED
  BY <1>1, <1>2, Invariant, PTL DEF Spec, LogSpec, Log!Spec

-------------------------------------------------------------------------------
(* The configuration that was read.                                        *)

\* atoi returns a number: of the numbers a text can begin with, all no longer
\* than the text, one is longest.
LEMMA AtoiType ==
  ASSUME NEW text, IsSequence(text)
  PROVE  Atoi(text) \in Nat
<1> DEFINE read == {k \in DOMAIN Number : IsPrefix(k, text)}
           short == {Len(text) - Len(k) : k \in read}
<1>1. \A k \in read : Len(k) \in Nat /\ Len(k) <= Len(text)
  BY ServiceAssumption DEF IsPrefix
<1>2. Len(text) \in Nat
  BY DEF IsSequence
<1>3. CASE read = {}
  BY <1>3 DEF Atoi
<1>4. CASE read # {}
  <2>1. short \subseteq Nat /\ short # {}
    BY <1>1, <1>2, <1>4
  <2>2. Min(short) \in short /\ \A i \in short : Min(short) <= i
    BY <2>1, LeastOf
  <2>3. PICK k \in read : Min(short) = Len(text) - Len(k)
    BY <2>2
  <2>4. ASSUME NEW j \in read PROVE Len(j) <= Len(k)
    <3>1. Len(text) - Len(j) \in short
      OBVIOUS
    <3>2. Len(text) - Len(k) <= Len(text) - Len(j)
      BY <2>2, <2>3, <3>1
    <3>3. Len(j) \in Nat /\ Len(k) \in Nat
      BY <1>1
    <3> HIDE DEF read, short
    <3> QED
      BY <1>2, <3>2, <3>3
  <2>5. (CHOOSE l \in read : \A j \in read : Len(j) <= Len(l)) \in DOMAIN Number
    BY <2>4
  <2> QED
    BY <1>4, <2>5, ServiceAssumption DEF Atoi
<1> QED
  BY <1>3, <1>4

\* What is read is a configuration.
LEMMA ConfReadType == TextInv => ConfRead \in RecordConfs
<1> SUFFICES ASSUME TextInv PROVE ConfRead \in RecordConfs
  OBVIOUS
<1>1. IsSequence(conf["url_record_size"])
  BY ServiceAssumption DEF TextInv
<1>2. url_record_size \in Nat
  BY <1>1, AtoiType DEF url_record_size
<1> QED
  BY <1>2 DEF ConfRead, RecordConfs, record_url, record_word, IsOn

-------------------------------------------------------------------------------
(* What the service adds to the invariants of Record: a list of size 0.    *)

\* The list has the configured size until it is cleaned, and a list of size 0
\* never writes.
SizeInv ==
  /\ urlList.size \in {0, UrlRecordSize}
  /\ UrlRecordSize = 0 => \A e \in Entry : rows[e] = 0

\* The empty list has the configured size.
LEMMA SizeInit == Started /\ record_conf \in RecordConfs => SizeInv
BY ConfigType, ListInitEmpty DEF Started, Unserved, SizeInv

\* Only the cleaning changes the size, and only an INSERT the rows.
LEMMA SizeStep == TypeInv /\ SizeInv /\ [Next]_vars => SizeInv'
<1> SUFFICES ASSUME TypeInv, SizeInv, [Next]_vars PROVE SizeInv'
  OBVIOUS
<1>0. UrlRecordSize' = UrlRecordSize /\ UrlRecordSize \in Nat
  BY ConfigStep, SizeType
<1> USE <1>0 DEF Goto, wordVars, reqVars, orderVars, listVars, batchVars, dbVars, exitVars
<1>1. UNCHANGED <<urlList, rows>> => SizeInv'
  BY DEF SizeInv
<1>2. urlList'.size \in {0, urlList.size} /\ UNCHANGED rows => SizeInv'
  BY DEF SizeInv
<1>3. ASSUME NEW t \in Worker, AddRecord(t) PROVE SizeInv'
  BY <1>2, <1>3 DEF AddRecord, Counted, ListAdd
<1>4. ASSUME NEW t \in Worker, ResetList(t) PROVE SizeInv'
  BY <1>2, <1>4 DEF ResetList, ListReset
<1>5. ASSUME CleanService \/ Vanish PROVE SizeInv'
  BY <1>2, <1>5 DEF CleanService, Vanish, ListClean
<1>6. ASSUME NEW t \in Worker, InsertRow(t) PROVE SizeInv'
  <2>1. CASE UrlRecordSize = 0
    <3>1. next[t] \in Nat \ {0} /\ next[t] <= batch[t].count
      BY <1>6 DEF InsertRow, TypeInv, TypeOK
    <3>2. batch[t] \in Lists(0) \cup {Emptied}
      BY <2>1 DEF TypeInv, TypeOK
    <3>3. batch[t].count = 0
      BY <3>2, ListInitEmpty DEF Lists, Emptied
    <3> QED
      BY <3>1, <3>3
  <2>2. CASE UrlRecordSize # 0
    BY <1>6, <2>2 DEF InsertRow, SizeInv
  <2> QED
    BY <2>1, <2>2
<1>7. ASSUME FlushRow PROVE SizeInv'
  <2>1. /\ phase = "flushing" /\ flushed < toFlush /\ flushed \in Nat /\ toFlush \in Nat
        /\ toFlush <= UrlRecordSize
    BY <1>7 DEF FlushRow, TypeInv, TypeOK, Filled
  <2>2. UrlRecordSize # 0
    BY <2>1
  <2> QED
    BY <1>7, <2>2 DEF FlushRow, SizeInv
<1>8. ASSUME NEW t \in Worker,
             \/ InitRequestData(t) \/ CheckPreview(t) \/ ReleaseRequestData(t)
             \/ RecordWord(t) \/ LockList(t) \/ AllocBatch(t) \/ CopyBatch(t) \/ UnlockList(t)
             \/ ConnectDatabase(t) \/ CloseDatabase(t) \/ FinishRequest(t) \/ LeaveThread(t)
      PROVE  SizeInv'
  BY <1>1, <1>8 DEF InitRequestData, CheckPreview, ReleaseRequestData, ParseUrl, RecordWord, LockList,
       AllocBatch, CopyBatch, UnlockList, ConnectDatabase, CloseDatabase, FinishRequest,
       LeaveThread
<1>9. ASSUME Stop \/ CloseService \/ FlushConnect \/ FlushDone \/ UNCHANGED vars PROVE SizeInv'
  BY <1>1, <1>9 DEF Stop, CloseService, FlushConnect, FlushDone, vars
<1> QED
  BY <1>3, <1>4, <1>5, <1>6, <1>7, <1>8, <1>9
     DEF Next, Work, Close, ExitProcess, Crash, Terminated

\* The invariant of the running service: a part that holds for every size, and
\* the rest for a list that has room.
RunInv ==
  /\ TypeInv /\ RequestInv /\ HandledInv /\ SizeInv
  /\ UrlRecordSize > 0 => Inv /\ OrderInv

LEMMA RunInit == Started /\ record_conf \in RecordConfs => RunInv
BY ConfigType, TypeInit, RequestInit, HandledInit, SizeInit, InvInit, OrderInit DEF RunInv

LEMMA RunStep == RunInv /\ [Next]_vars => RunInv'
<1> SUFFICES ASSUME RunInv, [Next]_vars PROVE RunInv'
  OBVIOUS
<1>1. UrlRecordSize > 0 => LockInv
  BY DEF RunInv, Inv
<1> QED
  BY <1>1, ConfigStep, TypeStep, RequestStep, HandledStep, SizeStep, InvStep, OrderStep DEF RunInv

-------------------------------------------------------------------------------
(* The service from its start.                                             *)

\* Nothing is served before the file was read, and the service runs with what was
\* read from it.
ServiceInv ==
  /\ TextInv /\ ReadingInv /\ DeclaredInv
  /\ record_conf \in RecordConfs
  /\ reading \in {"read", "serving"} => record_conf = ConfRead
  /\ reading # "serving" => Unserved
  /\ reading = "serving" => RunInv

\* The file is not open and the structure holds zeros.
LEMMA ServiceBegins == ServiceInit => ServiceInv
BY TextInit, ReadingInit, DeclaredInit DEF ServiceInit, ServiceInv, RecordConfs, ConfInit

\* What is read from the file is a configuration, at the step that reads it too.
LEMMA ReadBegins == TextInv' => (ConfRead \in RecordConfs)'
BY ConfReadType, PTL

\* The invariant of the running service begins to hold when the list is there.
LEMMA RunBegins == (Started /\ record_conf \in RecordConfs)' => RunInv'
BY RunInit, PTL

LEMMA ServiceStep == ServiceInv /\ [ServiceNext]_serviceVars => ServiceInv'
<1> SUFFICES ASSUME ServiceInv, [ServiceNext]_serviceVars PROVE ServiceInv'
  OBVIOUS
<1>1. CASE ReadConf
  <2>1. TextInv' /\ ReadingInv' /\ DeclaredInv'
    BY <1>1, TextStep, ReadingStep, DeclaredStep DEF ReadConf, ServiceInv
  <2>2. ConfRead' \in RecordConfs
    BY <2>1, ReadBegins DEF RecordConfs
  <2>3. record_conf' \in RecordConfs /\ (reading' = "read" => record_conf' = ConfRead')
    BY <1>1, <2>2 DEF ReadConf, ServiceInv
  <2>4. reading # "serving" /\ reading' # "serving"
    BY <1>1 DEF ReadConf, ConfNext, OpenFile, ReadLine, AddEntry, AddFails, Configure
  <2>5. Unserved'
    BY <1>1, <2>4 DEF ReadConf, ServiceInv, recordVars, wordVars, reqVars, orderVars, listVars,
                      batchVars, dbVars, exitVars, Unserved
  <2> QED
    BY <2>1, <2>3, <2>4, <2>5 DEF ServiceInv
<1>2. ASSUME UNCHANGED <<file, fs, at, name, value, list, strings, conf, record_conf>>,
             reading' \in {"serving", "interrupted"}
      PROVE  /\ TextInv' /\ ReadingInv' /\ DeclaredInv'
             /\ record_conf' = record_conf /\ ConfRead' = ConfRead
  BY <1>2 DEF ServiceInv, TextInv, ReadingInv, DeclaredInv, ConfiguredAsDeclared, ConfRead,
              url_record_size, record_url, record_word
<1>3. CASE InitService
  <2>1. UrlRecordSize' = UrlRecordSize
    BY <1>3 DEF InitService, UrlRecordSize
  <2>2. Unserved /\ Started'
    BY <1>3, <2>1 DEF InitService, ServiceInv, Started, Unserved, wordVars, reqVars, orderVars,
                      batchVars, dbVars, exitVars
  <2>3. RunInv'
    BY <1>3, <2>2, RunBegins DEF InitService, ServiceInv
  <2> QED
    BY <1>2, <1>3, <2>3 DEF InitService, ServiceInv
<1>4. CASE Interrupt
  <2>1. Unserved'
    BY <1>4 DEF Interrupt, ServiceInv, recordVars, wordVars, reqVars, orderVars, listVars, batchVars,
                dbVars, exitVars, Unserved
  <2> QED
    BY <1>2, <1>4, <2>1 DEF Interrupt, ServiceInv
<1>5. CASE Serve
  <2>1. /\ reading = "serving" /\ reading' = "serving"
        /\ UNCHANGED <<file, fs, at, name, value, list, strings, conf>> /\ record_conf' = record_conf
    BY <1>5, ConfigStep DEF Serve, confVars
  <2>2. RunInv'
    BY <1>5, <2>1, RunStep DEF ServiceInv, Serve
  <2> QED
    BY <1>2, <2>1, <2>2 DEF ServiceInv
<1>6. CASE UNCHANGED serviceVars
  <2>1. UNCHANGED confVars /\ UNCHANGED vars
    BY <1>6 DEF serviceVars, recordVars, vars
  <2>2. TextInv' /\ ReadingInv' /\ DeclaredInv'
    BY <2>1, TextStep, ReadingStep, DeclaredStep DEF ServiceInv
  <2>3. reading = "serving" => RunInv'
    BY <2>1, RunStep DEF ServiceInv
  <2>4. UNCHANGED <<reading, conf, record_conf>> /\ (Unserved => Unserved')
    BY <2>1 DEF confVars, vars, wordVars, reqVars, orderVars, listVars, batchVars, dbVars, exitVars,
                Unserved
  <2>5. ConfRead' = ConfRead
    BY <2>4 DEF ConfRead, url_record_size, record_url, record_word
  <2> QED
    BY <2>2, <2>3, <2>4, <2>5 DEF ServiceInv
<1> QED
  BY <1>1, <1>3, <1>4, <1>5, <1>6 DEF ServiceNext, Interrupted

LEMMA ServiceInvariant == ServiceSpec => []ServiceInv
BY ServiceBegins, ServiceStep, PTL DEF ServiceSpec

-------------------------------------------------------------------------------
(* Theorems.                                                               *)

\* What the options of the file say is what the service was configured with.
LEMMA ServedConf ==
  ASSUME ServiceInv, Serves
  PROVE  /\ RunInv
         /\ UrlRecordSize = url_record_size /\ RecordUrlOn = record_url
         /\ RecordWordOn = record_word
BY DEF ServiceInv, Serves, ConfRead, UrlRecordSize, RecordUrlOn, RecordWordOn

\* The batches have the size the file gives, URLs and words are recorded only when
\* it asks for them, and a size of 0 writes nothing, whatever the file says.
THEOREM ServesAsRead == ServiceSpec => []ServedAsConfigured
<1>1. ServiceInv => ServedAsConfigured
  <2> SUFFICES ASSUME ServiceInv, Serves PROVE ServedAsConfigured
    BY DEF ServedAsConfigured
  <2>1. /\ RunInv
        /\ UrlRecordSize = url_record_size /\ RecordUrlOn = record_url
        /\ RecordWordOn = record_word
    BY ServedConf
  <2>2. ASSUME NEW t \in Worker, pc[t] = "insert"
        PROVE  batch[t].count = UrlRecordSize
    <3>1. CASE UrlRecordSize > 0
      BY <2>1, <2>2, <3>1 DEF RunInv, OrderInv
    <3>2. CASE ~(UrlRecordSize > 0)
      <4>1. UrlRecordSize = 0
        BY <2>1, <3>2, SizeType DEF RunInv
      <4>2. batch[t] \in Lists(0) \cup {Emptied}
        BY <2>1, <4>1 DEF RunInv, TypeInv, TypeOK
      <4> QED
        BY <4>1, <4>2, ListInitEmpty DEF Lists, Emptied
    <3> QED
      BY <3>1, <3>2
  <2>3. ~RecordWordOn => \A e \in Entry : \A k \in Engine : words[e][k] = 0
    <3> SUFFICES ASSUME ~RecordWordOn, NEW e \in Entry, NEW k \in Engine PROVE words[e][k] = 0
      OBVIOUS
    <3>1. words[e][k] <= 0 /\ words[e][k] \in Nat
      BY <2>1 DEF RunInv, HandledInv, WordsOnce, TypeInv, TypeOK
    <3> QED
      BY <3>1
  <2> QED
    BY <2>1, <2>2, <2>3 DEF ServedAsConfigured, RunInv, SizeInv, HandledInv
<1> QED
  BY <1>1, ServiceInvariant, PTL

\* No INSERT reads an element nobody has written, and every record the list took
\* is in exactly one place, whatever the file says.
THEOREM ServiceKeeps == ServiceSpec => []RecordsKept
<1>1. ServiceInv => RecordsKept
  <2> SUFFICES ASSUME ServiceInv, Serves PROVE RecordsKept
    BY DEF RecordsKept
  <2>1. RunInv /\ UrlRecordSize = url_record_size
    BY ServedConf
  <2>2. NoUnwrittenMemory
    BY <2>1, TypeMeans DEF RunInv
  <2>3. RecordAccounted
    <3>1. CASE UrlRecordSize > 0
      BY <2>1, <3>1, Accounted DEF RunInv
    <3>2. CASE ~(UrlRecordSize > 0)
      <4>1. accepted = {}
        BY <2>1, <3>2, SizeType DEF RunInv, HandledInv
      <4> QED
        BY <4>1 DEF RecordAccounted
    <3> QED
      BY <3>1, <3>2
  <2> QED
    BY <2>2, <2>3 DEF RecordsKept
<1> QED
  BY <1>1, ServiceInvariant, PTL

\* A request is recorded, and its words are, as the file that was read asks for.
THEOREM ServiceRecords == ServiceSpec => []RequestsAsConfigured
<1>1. ServiceInv => RequestsAsConfigured
  <2> SUFFICES ASSUME ServiceInv, Serves PROVE RequestsAsConfigured
    BY DEF RequestsAsConfigured
  <2>1. /\ HandledInv /\ TypeInv /\ UrlRecordSize = url_record_size
        /\ RecordUrlOn = record_url /\ RecordWordOn = record_word
    BY ServedConf DEF RunInv
  <2>2. ASSUME NEW t \in Worker, pc[t] = "finish"
        PROVE  Handled(t) /\ WordsOnce /\ entry[t] \in Entry
    BY <2>1, <2>2 DEF HandledInv, TypeInv, Serving, Idle
  <2> QED
    BY <2>1, <2>2 DEF RequestsAsConfigured, Handled, Sought, WordsOnce
<1> QED
  BY <1>1, ServiceInvariant, PTL

\* Every option has the value its first line in the file declares, as far as the
\* values fit the arrays they are copied to, and reading the file frees every
\* string; the stream stays open only where reading was given up at an entry.
THEOREM ServiceReads == ServiceSpec => [](ConfiguredAsDeclared /\ OnlyStreamLeft)
<1>1. ServiceInv => ConfiguredAsDeclared /\ OnlyStreamLeft
  BY ReadingMeans DEF ServiceInv, DeclaredInv
<1> QED
  BY <1>1, ServiceInvariant, PTL
===============================================================================
