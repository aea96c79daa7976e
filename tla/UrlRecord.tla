------------------------------ MODULE UrlRecord ------------------------------
(***************************************************************************)
(* The bounded list of URL records of src/record/urlrecord.c: an array of  *)
(* struct UrlRecordEntry with a fill count and a capacity.  The entry at C *)
(* index i is array[i + 1] here.  NoEntry stands for memory that malloc    *)
(* returned and nobody has written yet.                                    *)
(*                                                                         *)
(* Each operation is one step: the service calls them on the shared list   *)
(* under url_mutex or when every worker is gone, and on a local list from  *)
(* the one thread it belongs to.                                           *)
(***************************************************************************)
EXTENDS Naturals

CONSTANTS Entry,    \* the records (url, ip, time) that can be listed
          NoEntry   \* the contents of memory nobody has written yet

ASSUME NoEntryAssumption == NoEntry \notin Entry

\* A list of capacity n, empty or filled up to its count.  A list that was
\* cleaned keeps its dangling array, with count and size 0.
Lists(n) == [array : [1..n -> Entry \cup {NoEntry}], count : 0..n, size : 0..n]

\* url_record_list_init: a list of capacity n on fresh memory.
ListInit(n) == [array |-> [i \in 1..n |-> NoEntry], count |-> 0, size |-> n]

\* MUTANT: a list is full when it holds more than fits.
IsFullLate(list) == list.count > list.size

\* The test by which url_record_list_add refuses and recordUrl flushes.
IsFull(list) == list.count >= list.size

\* url_record_list_add: the entry goes behind the last one; a full list is
\* left as it is (the C function returns FALSE, which recordUrl ignores).
ListAdd(list, e) ==
  IF IsFull(list)
    THEN list
    ELSE [array |-> [list.array EXCEPT ![list.count + 1] = e],
          count |-> list.count + 1,
          size |-> list.size]

\* url_record_list_copy succeeds when the destination is large enough.
CanCopy(dest, src) == src.count <= dest.size

\* url_record_list_copy: the first src.count entries overwrite dest's.
ListCopy(dest, src) ==
  IF src.count = 0
    THEN dest
    ELSE [array |-> [i \in DOMAIN dest.array |->
                       IF i <= src.count THEN src.array[i] ELSE dest.array[i]],
          count |-> src.count,
          size |-> dest.size]

\* url_record_list_reset: only the count is cleared, the entries stay.
ListReset(list) == [array |-> list.array, count |-> 0, size |-> list.size]

\* url_record_list_clean: the memory is freed.
ListClean(list) == [array |-> list.array, count |-> 0, size |-> 0]

\* The entries of the list from position first on.
EntriesFrom(list, first) == {list.array[i] : i \in first..list.count}

\* Two positions in use never hold the same entry.
Injective(list) ==
  \A i, j \in 1..list.count : list.array[i] = list.array[j] => i = j
=============================================================================
