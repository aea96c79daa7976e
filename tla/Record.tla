-------------------------------- MODULE Record --------------------------------
(***************************************************************************)
(* The record service of src/record, one process of the c-icap server: the *)
(* worker threads that serve requests, the list of URL records they share  *)
(* under url_mutex, the batches they write to the database after releasing *)
(* it, and the thread that shuts the process down.                         *)
(*                                                                         *)
(* A request is named by the entry it would leave in the database, so an   *)
(* entry stands for one (time, ip, url) row and the set Entry bounds how   *)
(* many requests the process serves.                                       *)
(***************************************************************************)
EXTENDS UrlRecord, FiniteSets

CONSTANTS
  Worker,         \* the worker threads of the process
  Configuration,  \* what struct RecordConf may hold when the service starts
  EngineCount,    \* number of search engines registered by addNewPair
  Request,        \* what the handlers read of a request's headers and URL
  AllocMayFail,   \* malloc can return NULL
  Free,           \* url_mutex is unlocked
  Destroyed,      \* url_mutex was destroyed by search_record_close_service
  NoRequest       \* service_data is NULL

Engine == 1..EngineCount

\* struct RecordConf, as far as the service uses it.
RecordConfs == [url_record_size : Nat, record_url : BOOLEAN, record_word : BOOLEAN]

ASSUME SizeAssumption ==
  /\ Configuration \subseteq {c \in RecordConfs : c.url_record_size > 0}
  /\ EngineCount \in Nat
ASSUME FlagsAssumption == AllocMayFail \in BOOLEAN
ASSUME RequestAssumption ==
  /\ Request \subseteq [named : BOOLEAN,    \* full URL and client IP were found
                        checked : BOOLEAN,  \* User-Agent names Chrome or Firefox
                        asksHtml : BOOLEAN, \* Accept starts with text/html
                        except : BOOLEAN,   \* is_except: URL holds except_url
                        html : BOOLEAN,     \* is_html
                        timed : BOOLEAN,    \* currentTimeStr finds the time
                        engines : SUBSET Engine] \* the ones whose word it carries
  /\ NoRequest \notin Request
ASSUME ModelValueAssumption ==
  /\ NoEntry \notin Entry
  /\ {Free, Destroyed} \cap Worker = {}
  /\ Free # Destroyed

VARIABLES
  record_conf, \* the configuration, which nobody changes once the service runs
  phase,     \* the process: running, then the steps of its shutdown
  mutex,     \* url_mutex: Free, Destroyed or the thread that holds it
  urlList,   \* url_list
  flushed,   \* entries of url_list the closing thread has gone through
  toFlush,   \* the count of url_list it read before it began
  pc,        \* where each worker is
  entry,     \* the entry of the request each worker serves
  data,      \* struct SearchRecord: what the worker kept of the request
  engine,    \* loop index of parseUrl over the search engines
  batch,     \* the local list urls of recordUrl
  next,      \* loop index of url_record_list_write_database
  rows,      \* rows of table urlrecord, by entry
  words,     \* rows of table wordrecord, by entry and engine
  asked,     \* engines recordWord was called for, by entry (history)
  seen,      \* entries of requests the process has taken (history)
  adds,      \* calls of url_record_list_add that returned TRUE (history)
  order,     \* the number of the call an entry was added by, or 0 (history)
  lost       \* entries a database error or a crash took (history)

wordVars == <<words, asked>>
reqVars  == <<entry, data, engine, wordVars, seen>>
orderVars == <<adds, order>>
listVars == <<urlList, orderVars>>
batchVars == <<batch, next>>
dbVars   == <<rows, lost>>
exitVars == <<phase, flushed, toFlush>>
vars == <<record_conf, reqVars, listVars, batchVars, dbVars, exitVars, mutex, pc>>

UrlRecordSize == record_conf.url_record_size
RecordUrlOn == record_conf.record_url
RecordWordOn == record_conf.record_word

Emptied == ListInit(0)

\* A worker between pthread_mutex_lock and pthread_mutex_unlock of recordUrl.
Critical == {"add", "alloc", "copy", "reset", "unlockFull", "unlock"}
\* A worker that has yet to add the record of its request.
BeforeAdd == {"preview", "release", "word", "lock", "add"}
Idle == {"idle", "gone"}
Location == Idle \cup BeforeAdd \cup Critical \cup {"connect", "insert", "finish"}

Alive == phase # "exited"

\* No request was served yet.
Unserved ==
  /\ phase = "running" /\ flushed = 0 /\ toFlush = 0
  /\ mutex = Free
  /\ pc = [t \in Worker |-> "idle"]
  /\ entry = [t \in Worker |-> NoEntry]
  /\ data = [t \in Worker |-> NoRequest]
  /\ engine = [t \in Worker |-> 1]
  /\ batch = [t \in Worker |-> Emptied]
  /\ next = [t \in Worker |-> 1]
  /\ rows = [e \in Entry |-> 0]
  /\ words = [e \in Entry |-> [k \in Engine |-> 0]]
  /\ asked = [e \in Entry |-> {}]
  /\ seen = {} /\ lost = {}
  /\ adds = 0 /\ order = [e \in Entry |-> 0]

\* search_record_init_service and search_record_post_init_service have run:
\* the list is allocated, the mutex initialised, the workers wait for work.
Started == Unserved /\ urlList = ListInit(UrlRecordSize)

Init == record_conf \in Configuration /\ Started

Goto(t, from, to) ==
  pc[t] = from /\ Alive /\ pc' = [pc EXCEPT ![t] = to] /\ UNCHANGED record_conf

-------------------------------------------------------------------------------
(* Serving a request. *)

\* search_record_init_request_data keeps the URL and the IP of a request, or
\* returns NULL: neither found, a Chrome or Firefox request that does not ask
\* for HTML, or no memory.
Kept(r) == r.named /\ (r.checked => r.asksHtml)

InitRequestData(t) ==
  /\ phase \in {"running", "stopping"}
  /\ Goto(t, "idle", "preview")
  /\ \E e \in Entry \ seen, r \in Request :
       /\ entry' = [entry EXCEPT ![t] = e]
       /\ seen' = seen \cup {e}
       /\ \/ Kept(r) /\ data' = [data EXCEPT ![t] = r]
          \/ ~Kept(r) /\ data' = [data EXCEPT ![t] = NoRequest]
          \/ AllocMayFail /\ Kept(r) /\ data' = [data EXCEPT ![t] = NoRequest]
  /\ UNCHANGED <<engine, wordVars, listVars, batchVars, dbVars, exitVars, mutex>>

\* search_record_check_preview_handler answers 204 whatever the data is; c-icap
\* then releases service_data, unless it is NULL.
CheckPreview(t) ==
  /\ Goto(t, "preview", IF data[t] = NoRequest THEN "finish" ELSE "release")
  /\ UNCHANGED <<reqVars, listVars, batchVars, dbVars, exitVars, mutex>>

\* parseUrl, behind its loop over the engines.
AfterWords == IF RecordUrlOn THEN "lock" ELSE "finish"

\* parseUrl, up to that loop: without the time nothing is recorded.
ParseUrl(r) ==
  IF ~r.timed
    THEN "finish"
    ELSE IF RecordWordOn /\ EngineCount > 0 THEN "word" ELSE AfterWords

\* MUTANT: the except_url filter is forgotten.
ReleaseRequestDataNoExcept(t) ==
  /\ Goto(t, "release", IF ~data[t].html THEN "finish" ELSE ParseUrl(data[t]))
  /\ engine' = [engine EXCEPT ![t] = 1]
  /\ UNCHANGED <<entry, data, wordVars, seen, listVars, batchVars, dbVars, exitVars, mutex>>

\* is_except and is_html: the URL is not to be recorded, or names no page.
Filtered(r) == r.except \/ ~r.html

\* search_record_release_request_data: filtered requests are only freed, the
\* others go through parseUrl.
ReleaseRequestData(t) ==
  /\ Goto(t, "release", IF Filtered(data[t]) THEN "finish" ELSE ParseUrl(data[t]))
  /\ engine' = [engine EXCEPT ![t] = 1]
  /\ UNCHANGED <<entry, data, wordVars, seen, listVars, batchVars, dbVars, exitVars, mutex>>

\* isSearchUrl and parseWord: the URL is one of the engine's and has a word.
HasWord(r, k) == k \in r.engines

\* One turn of parseUrl's loop over the engines.  recordWord opens a connection
\* of its own; any of its steps can fail, which only loses this word.
RecordWord(t) ==
  /\ Goto(t, "word", IF engine[t] < EngineCount THEN "word" ELSE AfterWords)
  /\ \/ /\ HasWord(data[t], engine[t])
        /\ asked' = [asked EXCEPT ![entry[t]] = @ \cup {engine[t]}]
        /\ \/ words' = [words EXCEPT ![entry[t]][engine[t]] = @ + 1]
           \/ UNCHANGED words
     \/ ~HasWord(data[t], engine[t]) /\ UNCHANGED wordVars
  /\ engine' = [engine EXCEPT ![t] = @ + 1]
  /\ UNCHANGED <<entry, data, seen, listVars, batchVars, dbVars, exitVars, mutex>>

-------------------------------------------------------------------------------
(* recordUrl. *)

\* pthread_mutex_lock
LockList(t) ==
  /\ Goto(t, "lock", "add")
  /\ mutex = Free /\ mutex' = t
  /\ UNCHANGED <<reqVars, listVars, batchVars, dbVars, exitVars>>

\* The number of the entry a list that is not full takes; a full one refuses.
Counted(t) ==
  IF IsFull(urlList)
    THEN UNCHANGED orderVars
    ELSE adds' = adds + 1 /\ order' = [order EXCEPT ![entry[t]] = adds + 1]

\* MUTANT: the list is flushed when it is about to be full, or only when
\* it is more than full.
AddRecordWhen(t, full) ==
  /\ urlList' = ListAdd(urlList, entry[t])
  /\ Goto(t, "add", IF full THEN "alloc" ELSE "unlock")
  /\ Counted(t)
  /\ UNCHANGED <<reqVars, batchVars, dbVars, exitVars, mutex>>
AddRecordEarly(t) == AddRecordWhen(t, urlList'.count + 1 >= urlList'.size)
AddRecordLate(t) == AddRecordWhen(t, urlList'.count > urlList'.size)

\* url_record_list_add, then the test whether the list is full.
AddRecord(t) ==
  /\ urlList' = ListAdd(urlList, entry[t])
  /\ Goto(t, "add", IF IsFull(urlList') THEN "alloc" ELSE "unlock")
  /\ Counted(t)
  /\ UNCHANGED <<reqVars, batchVars, dbVars, exitVars, mutex>>

\* url_record_list_init of the local list.  When it fails, recordUrl returns
\* at once: the mutex stays locked and the list full.
AllocBatch(t) ==
  /\ \/ /\ Goto(t, "alloc", "copy")
        /\ batch' = [batch EXCEPT ![t] = ListInit(UrlRecordSize)]
     \/ /\ AllocMayFail
        /\ Goto(t, "alloc", "finish")
        /\ UNCHANGED batch
  /\ UNCHANGED <<reqVars, listVars, next, dbVars, exitVars, mutex>>

\* MUTANT: the mutex is released before the list is reset.
CopyBatchUnlocks(t) ==
  /\ Goto(t, "copy", "reset")
  /\ batch' = [batch EXCEPT ![t] = ListCopy(@, urlList)]
  /\ mutex' = Free
  /\ UNCHANGED <<reqVars, listVars, next, dbVars, exitVars>>

\* url_record_list_copy.  When it fails, the local list is freed and recordUrl
\* returns, again with the mutex locked.
CopyBatch(t) ==
  LET copied == CanCopy(batch[t], urlList) IN
  /\ Goto(t, "copy", IF copied THEN "reset" ELSE "finish")
  /\ batch' = [batch EXCEPT ![t] = IF copied THEN ListCopy(@, urlList) ELSE Emptied]
  /\ UNCHANGED <<reqVars, listVars, next, dbVars, exitVars, mutex>>

\* MUTANT: the list is not reset.
ResetListNot(t) ==
  /\ Goto(t, "reset", "unlockFull")
  /\ UNCHANGED <<reqVars, listVars, batchVars, dbVars, exitVars, mutex>>

ResetList(t) ==
  /\ Goto(t, "reset", "unlockFull")
  /\ urlList' = ListReset(urlList)
  /\ UNCHANGED <<reqVars, orderVars, batchVars, dbVars, exitVars, mutex>>

\* MUTANT: the branch without a batch returns with the mutex locked.
UnlockListFullOnly(t) ==
  /\ \/ Goto(t, "unlockFull", "connect") /\ mutex' = Free
     \/ Goto(t, "unlock", "finish") /\ UNCHANGED mutex
  /\ UNCHANGED <<reqVars, listVars, batchVars, dbVars, exitVars>>

\* pthread_mutex_unlock, on the path with a batch to write and on the other.
UnlockList(t) ==
  /\ \/ Goto(t, "unlockFull", "connect")
     \/ Goto(t, "unlock", "finish")
  /\ mutex' = Free
  /\ UNCHANGED <<reqVars, listVars, batchVars, dbVars, exitVars>>

-------------------------------------------------------------------------------
(* url_record_list_write_database, on the local batch and without the lock. *)

\* The entries of its batch a worker has not tried to insert yet.
Unwritten(t) == EntriesFrom(batch[t], next[t])
\* The entries in the shared list the closing thread has not gone through.
Listed == EntriesFrom(urlList, flushed + 1)
InMemory == Listed \cup UNION {Unwritten(t) : t \in Worker}

\* The batch is done: url_record_list_clean frees it.
CleanBatch(t) ==
  /\ batch' = [batch EXCEPT ![t] = Emptied]
  /\ next' = [next EXCEPT ![t] = 1]

\* mysql_real_connect and "set names": an error in either loses the batch.
ConnectDatabase(t) ==
  /\ \/ /\ Goto(t, "connect", "insert")
        /\ batch[t].count > 0
        /\ UNCHANGED <<batchVars, lost>>
     \/ /\ Goto(t, "connect", "finish")
        /\ lost' = lost \cup Unwritten(t)
        /\ CleanBatch(t)
  /\ UNCHANGED <<reqVars, listVars, rows, exitVars, mutex>>

\* One INSERT.  An error is logged and the loop goes on with the next entry.
InsertRow(t) ==
  LET e == batch[t].array[next[t]] IN
  /\ next[t] <= batch[t].count
  /\ Goto(t, "insert", "insert")
  /\ \/ rows' = [rows EXCEPT ![e] = @ + 1] /\ UNCHANGED lost
     \/ lost' = lost \cup {e} /\ UNCHANGED rows
  /\ next' = [next EXCEPT ![t] = @ + 1]
  /\ UNCHANGED <<reqVars, listVars, batch, exitVars, mutex>>

CloseDatabase(t) ==
  /\ next[t] > batch[t].count
  /\ Goto(t, "insert", "finish")
  /\ CleanBatch(t)
  /\ UNCHANGED <<reqVars, listVars, dbVars, exitVars, mutex>>

\* The request is over: its data is freed and the thread looks for work.
FinishRequest(t) ==
  /\ Goto(t, "finish", "idle")
  /\ data' = [data EXCEPT ![t] = NoRequest]
  /\ entry' = [entry EXCEPT ![t] = NoEntry]
  /\ UNCHANGED <<engine, wordVars, seen, listVars, batchVars, dbVars, exitVars, mutex>>

-------------------------------------------------------------------------------
(* Shutdown of the process by c-icap, and its death. *)

\* The process is told to stop; idle workers then leave, but a worker may still
\* take a connection that is queued.
Stop ==
  /\ phase = "running" /\ phase' = "stopping"
  /\ UNCHANGED <<record_conf, flushed, toFlush, reqVars, listVars, batchVars, dbVars, mutex, pc>>

LeaveThread(t) ==
  /\ phase = "stopping"
  /\ Goto(t, "idle", "gone")
  /\ UNCHANGED <<reqVars, listVars, batchVars, dbVars, exitVars, mutex>>

\* search_record_close_service begins after c-icap has joined every worker.  It
\* destroys the mutex, which has no effect when it is still locked.
CloseService ==
  /\ phase = "stopping" /\ phase' = "closing"
  /\ \A t \in Worker : pc[t] = "gone"
  /\ mutex' = IF mutex = Free THEN Destroyed ELSE mutex
  /\ UNCHANGED <<record_conf, flushed, toFlush, reqVars, listVars, batchVars, dbVars, pc>>

\* MUTANT: the flush goes through the capacity of the list.
FlushConnectCapacity ==
  /\ phase = "closing" /\ phase' = "flushing"
  /\ toFlush' = urlList.size
  /\ UNCHANGED <<record_conf, flushed, reqVars, listVars, batchVars, dbVars, mutex, pc>>

\* MUTANT: search_record_close_service does not flush.
FlushConnectNot ==
  /\ phase = "closing" /\ phase' = "cleaning"
  /\ UNCHANGED <<record_conf, flushed, toFlush, reqVars, listVars, batchVars, dbVars, mutex, pc>>

\* flush_url_records writes what is left in the list, without the lock.
FlushConnect ==
  /\ phase = "closing"
  /\ \/ /\ phase' = "flushing" /\ urlList.count > 0
        /\ toFlush' = urlList.count
        /\ UNCHANGED <<lost, flushed>>
     \/ /\ phase' = "cleaning"
        /\ lost' = lost \cup Listed
        /\ flushed' = urlList.count
        /\ UNCHANGED toFlush
  /\ UNCHANGED <<record_conf, reqVars, listVars, batchVars, rows, mutex, pc>>

\* Its loop reads the live list, up to the count it began with.
FlushRow ==
  LET e == urlList.array[flushed + 1] IN
  /\ phase = "flushing" /\ flushed < toFlush
  /\ \/ rows' = [rows EXCEPT ![e] = @ + 1] /\ UNCHANGED lost
     \/ lost' = lost \cup {e} /\ UNCHANGED rows
  /\ flushed' = flushed + 1
  /\ UNCHANGED <<record_conf, phase, toFlush, reqVars, listVars, batchVars, mutex, pc>>

FlushDone ==
  /\ phase = "flushing" /\ flushed = toFlush /\ phase' = "cleaning"
  /\ UNCHANGED <<record_conf, flushed, toFlush, reqVars, listVars, batchVars, dbVars, mutex, pc>>

\* cleanupPairs and url_record_list_clean.
CleanService ==
  /\ phase = "cleaning" /\ phase' = "closed"
  /\ urlList' = ListClean(urlList)
  /\ UNCHANGED <<record_conf, flushed, toFlush, reqVars, orderVars, batchVars, dbVars, mutex, pc>>

\* The process is gone, and what it held in memory with it.
Vanish ==
  /\ phase' = "exited"
  /\ pc' = [t \in Worker |-> "gone"]
  /\ urlList' = ListClean(urlList)
  /\ batch' = [t \in Worker |-> Emptied]
  /\ next' = [t \in Worker |-> 1]
  /\ mutex' = Destroyed
  /\ UNCHANGED <<record_conf, flushed, toFlush, reqVars, orderVars, rows>>

ExitProcess == phase = "closed" /\ Vanish /\ UNCHANGED lost

\* The process is killed.
Crash == Alive /\ Vanish /\ lost' = lost \cup InMemory

Terminated == phase = "exited" /\ UNCHANGED vars

-------------------------------------------------------------------------------
Work(t) ==
  \/ CheckPreview(t) \/ ReleaseRequestData(t) \/ RecordWord(t)
  \/ LockList(t) \/ AddRecord(t) \/ AllocBatch(t) \/ CopyBatch(t)
  \/ ResetList(t) \/ UnlockList(t)
  \/ ConnectDatabase(t) \/ InsertRow(t) \/ CloseDatabase(t)
  \/ FinishRequest(t)

Close == CloseService \/ FlushConnect \/ FlushRow \/ FlushDone
         \/ CleanService \/ ExitProcess

Next ==
  \/ \E t \in Worker : InitRequestData(t) \/ Work(t) \/ LeaveThread(t)
  \/ Stop \/ Close \/ Crash \/ Terminated

Spec == Init /\ [][Next]_vars

\* Threads are scheduled and database calls return: a worker with a request and
\* an idle one told to leave make progress, and so does the closing thread.
\* Nothing forces a request, a stop or a crash to come.
FairSpec ==
  /\ Spec
  /\ \A t \in Worker : WF_vars(Work(t)) /\ WF_vars(LeaveThread(t))
  /\ WF_vars(Close)

-------------------------------------------------------------------------------
(* Properties. *)

\* The records url_record_list_add has taken.
accepted == {e \in Entry : order[e] > 0}

TypeOK ==
  /\ record_conf \in RecordConfs
  /\ phase \in {"running", "stopping", "closing", "flushing", "cleaning", "closed", "exited"}
  /\ flushed \in Nat /\ toFlush \in Nat
  /\ mutex \in Worker \cup {Free, Destroyed}
  /\ urlList \in Lists(UrlRecordSize)
  /\ pc \in [Worker -> Location]
  /\ entry \in [Worker -> Entry \cup {NoEntry}]
  /\ data \in [Worker -> Request \cup {NoRequest}]
  /\ engine \in [Worker -> Nat \ {0}]
  /\ batch \in [Worker -> Lists(UrlRecordSize) \cup {Emptied}]
  /\ next \in [Worker -> Nat \ {0}]
  /\ rows \in [Entry -> Nat]
  /\ words \in [Entry -> [Engine -> Nat]] /\ asked \in [Entry -> SUBSET Engine]
  /\ seen \subseteq Entry /\ lost \subseteq Entry
  /\ adds \in Nat /\ order \in [Entry -> Nat]

\* At most one worker is between locking and unlocking url_mutex
\* (parse.c:61-94).
MutualExclusion ==
  \A t, u \in Worker : pc[t] \in Critical /\ pc[u] \in Critical => t = u

\* url_record_list_add never meets a full list: whoever fills the list empties
\* it before letting go of the lock, so recordUrl may ignore its result; and the
\* local list has room for the copy, so the return of parse.c:77, which would
\* keep the lock, is never taken.
NeverRefused ==
  \A t \in Worker :
    /\ pc[t] = "add" => ~IsFull(urlList)
    /\ pc[t] = "copy" => CanCopy(batch[t], urlList)

\* No record is in table urlrecord twice, although the list, its copy and the
\* shutdown's flush all hold records and none of them removes what it writes.
NoDuplicateRow ==
  \A e \in Entry : rows[e] <= 1

\* Every record url_record_list_add has taken is in exactly one place: waiting
\* in memory, written, or lost to a database error or the death of the process.
RecordAccounted ==
  \A e \in accepted :
    Cardinality({p \in {"memory", "row", "lost"} :
                   \/ p = "memory" /\ e \in InMemory
                   \/ p = "row" /\ rows[e] > 0
                   \/ p = "lost" /\ e \in lost}) = 1

\* What goes to table urlrecord was put into the list by a request: neither the
\* loop over a batch nor the one of the shutdown over the list, which is still
\* full when its copy could not be allocated, reads an array element nobody has
\* written.
NoUnwrittenMemory ==
  /\ \A t \in Worker :
       pc[t] = "insert" /\ next[t] <= batch[t].count =>
         batch[t].array[next[t]] \in accepted
  /\ phase = "flushing" /\ flushed < toFlush =>
       urlList.array[flushed + 1] \in accepted

\* Records are written in batches of exactly url_record_size, each made of
\* records accepted one after the other (record.conf:41-44): no record of
\* another worker slips out of its batch or into the next one.
BatchesAreConsecutive ==
  \A t \in Worker :
    pc[t] \in {"reset", "unlockFull", "connect", "insert"} =>
      /\ batch[t].count = UrlRecordSize
      /\ \A i \in 1..UrlRecordSize :
           order[batch[t].array[i]] = order[batch[t].array[1]] + i - 1

\* Nothing holds a request back: it was kept, no filter takes it, and the time is
\* known when its data is released.
Passes(r) == r # NoRequest /\ Kept(r) /\ r.html /\ ~r.except /\ r.timed

\* When the handlers are done with a request, its URL was put in the list if
\* and only if nothing held it back and the configuration asks for it; its words
\* were recorded under the same condition, each engine's, once at most, and no
\* other.
RecordedAsConfigured ==
  \A t \in Worker :
    pc[t] = "finish" =>
      /\ entry[t] \in accepted <=> RecordUrlOn /\ Passes(data[t])
      /\ asked[entry[t]] =
           IF RecordWordOn /\ Passes(data[t]) THEN data[t].engines ELSE {}
      /\ \A k \in Engine :
           words[entry[t]][k] <= IF k \in asked[entry[t]] THEN 1 ELSE 0

\* url_mutex is always released: whoever locks it, whichever branch it takes.
LockReleased == \A t \in Worker : mutex = t ~> mutex # t

\* A full list is emptied into the database (record.conf:41-44).
FullBatchWritten ==
  IsFull(urlList) /\ phase \in {"running", "stopping"} ~> ~IsFull(urlList) \/ ~Alive

\* A record that is in memory does not stay there once the process is stopping.
RecordSettles == \A e \in Entry :
  phase = "stopping" /\ e \in InMemory ~> rows[e] = 1 \/ e \in lost

-------------------------------------------------------------------------------
(* What the service promises of the records, whatever the threads do. *)
Log == INSTANCE RecordLog WITH memory <- InMemory

\* The list, the batches and the flush implement RecordLog.
LogSpec == Log!Spec
===============================================================================
