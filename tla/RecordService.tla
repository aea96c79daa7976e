---------------------------- MODULE RecordService -----------------------------
(***************************************************************************)
(* The record service from its start: search_record_init_service reads     *)
(* record.conf, allocates the list of the size the file gives and registers*)
(* the search engines; the service of module Record then runs as the file  *)
(* configures it.  A configuration that cannot be read stops the process.  *)
(***************************************************************************)
EXTENDS ConfFile, Record

CONSTANTS
  Number  \* the numbers url_record_size can be read as, by their text

recordVars == <<reqVars, listVars, batchVars, dbVars, exitVars, mutex, pc>>
serviceVars == <<confVars, record_conf, recordVars>>

ASSUME ServiceAssumption ==
  /\ Number \in [DOMAIN Number -> Nat] /\ DOMAIN Number \subseteq Seq(STRING)
  /\ {"url_record_size", "record_url", "record_word"} \subseteq DOMAIN Default

\* strcmp(value, "on")
IsOn(text) == text = <<"o", "n">>

\* atoi: the number the text begins with, 0 when it begins with none.
Atoi(text) ==
  LET read == {k \in DOMAIN Number : IsPrefix(k, text)} IN
  IF read = {} THEN 0 ELSE Number[CHOOSE k \in read : \A j \in read : Len(j) <= Len(k)]

url_record_size == Atoi(conf["url_record_size"])
record_url == IsOn(conf["record_url"])
record_word == IsOn(conf["record_word"])

\* MUTANT: a size of 0 is taken for the default.
ConfReadDefault ==
  [url_record_size |->
     IF url_record_size = 0 THEN Atoi(Default["url_record_size"]) ELSE url_record_size,
   record_url |-> record_url, record_word |-> record_word]

\* What record_conf_read makes of the texts.
ConfRead ==
  [url_record_size |-> url_record_size, record_url |-> record_url, record_word |-> record_word]

\* A static struct begins with zeros; the list is not there yet.
ServiceInit ==
  /\ ConfInit
  /\ record_conf = [url_record_size |-> 0, record_url |-> FALSE, record_word |-> FALSE]
  /\ Unserved /\ urlList = Emptied

\* read_conf, up to the values it leaves in record_conf.
ReadConf ==
  /\ ConfNext
  /\ record_conf' = IF reading' = "read" THEN ConfRead' ELSE record_conf
  /\ UNCHANGED recordVars

\* search_record_init_service once the file was read; the workers then start.
InitService ==
  /\ reading = "read" /\ reading' = "serving"
  /\ urlList' = ListInit(UrlRecordSize)
  /\ UNCHANGED <<file, fs, at, name, value, list, strings, conf, record_conf, reqVars, orderVars,
                 batchVars, dbVars, exitVars, mutex, pc>>

\* The file could not be read and read_conf sends the process SIGINT, or there is
\* no memory for the list and c-icap does not load the service.
Interrupt ==
  /\ \/ reading = "failed"
     \/ reading = "read" /\ AllocMayFail
  /\ reading' = "interrupted"
  /\ UNCHANGED <<file, fs, at, name, value, list, strings, conf, record_conf, recordVars>>

Interrupted == reading = "interrupted" /\ UNCHANGED serviceVars

\* One step of the service.
Serve == reading = "serving" /\ Next /\ UNCHANGED confVars

ServiceNext == ReadConf \/ InitService \/ Interrupt \/ Interrupted \/ Serve

ServiceSpec == ServiceInit /\ [][ServiceNext]_serviceVars

-------------------------------------------------------------------------------
(* Properties. *)

Serves == reading = "serving"

\* The values the file gives are the ones the service runs with to its end: whole
\* batches have the size of the configuration, records and words reach the
\* database only when it asks for them, and with a size of 0, for which the list
\* has no room, nothing is written.
ServedAsConfigured ==
  Serves =>
    /\ urlList.size \in {0, url_record_size}
    /\ \A t \in Worker : pc[t] = "insert" => batch[t].count = url_record_size
    /\ adds > 0 => record_url
    /\ ~record_word => \A e \in Entry : \A k \in Engine : words[e][k] = 0
    /\ url_record_size = 0 => \A e \in Entry : rows[e] = 0

\* Whatever malloc and the configured size do, no INSERT reads an element of a
\* list that nobody has written, also after a full list could not be copied and
\* the lock was kept, and every record the list took is in exactly one place.
RecordsKept == Serves => NoUnwrittenMemory /\ RecordAccounted

\* A request is recorded, and its words are, exactly when the options that were
\* read ask for it and nothing holds it back; a list of size 0 takes no record.
RequestsAsConfigured ==
  Serves =>
    \A t \in Worker : pc[t] = "finish" =>
      /\ entry[t] \in accepted <=> record_url /\ Passes(data[t]) /\ url_record_size > 0
      /\ asked[entry[t]] =
           IF record_word /\ Passes(data[t]) THEN data[t].engines ELSE {}
      /\ \A k \in Engine :
           words[entry[t]][k] <= IF k \in asked[entry[t]] THEN 1 ELSE 0
===============================================================================
