# Specifications of myprojects

The repository holds four programs that share a style, not a process:

| program | directory | what it does |
|---|---|---|
| record service | `src/record` | a c-icap service that records the URLs and search words of a proxy's users in MySQL |
| file transfer | `src/filetransfer` | a client and a forking server: verify a password, agree on a file name, send a file |
| echo service | `src/echo-zip-v2.7` | a c-icap service that reads a response body, decompresses it and puts a script behind its head tag |
| web graph | `src/webgraph-v2.1` | makes, compresses and queries web graphs: reference pages, blocks, intervals, Huffman codes |

This directory specifies them in TLA+, checks the specifications with TLC on small
instances, and proves with TLAPS, for every value of the constants, each of the safety properties
that hold there.

## Inventory

### Configuration reader (`record/record_conf.c`, `filetransfer/filetransfer_conf.c`)

The same code twice. *State*: the position in the file, a buffer of one line, a bounded list of
name and value pairs, their copies on the heap. *Operations*: open, `fgets`, cut off the newline, drop
blanks and comments, split at `=`, copy, add, look the options up, free. *Interaction*: its
values are the constants of the program that follows. *Hard*: a file without final newline,
a line longer than the buffer, a value longer than the array it is copied into, a full list, `malloc` failing
between two entries. *Correct when*: the options are what the file says, and no name or value is left on the heap.

### URL record list (`record/urlrecord.c`)

*State*: an array of entries, its fill count, its capacity. *Operations*: init, add,
copy, reset, clean, write_database (connect, one INSERT per entry, close).
*Correct when*: it never exceeds its capacity, and an entry in use was written by add.

### Record service (`record/srv_record.c`, `record/parse.c`)

*State*: per process, the shared `url_list` and its `url_mutex`, the search engine
patterns; per request, `struct SearchRecord` (URL, IP, flags). *Operations*: the c-icap
callbacks (init service, post-init, close service; init, preview and release of a request),
`parseUrl`, `recordUrl`, `recordWord`, `flush_url_records`. *Interaction*: `record.conf` gives the size of the
list and the two switches; c-icap runs several processes of several worker threads; every worker calls
the handlers for one request at a time and all share the list. A worker that fills the list copies it under
the lock, resets it, and writes the copy to MySQL **after** the unlock. At shutdown
c-icap joins its workers and calls `close_service`, which
destroys the mutex, flushes the rest of the list without the lock, and frees it.
*Hard*: interleaving of workers, batches written in parallel, partial database failures,
an allocation failure with the lock held, a size of 0, a crash.
*Correct when*: at most one worker is in the critical section; the ignored result of
`url_record_list_add` is never FALSE; every accepted record is in memory, or is one row,
or is lost to a failure, never two of these; batches are full and consecutive; the
configuration that was read decides what is recorded; locks are released and every record settles.

### File transfer (`filetransfer/transfileserver.c`, `client.c`, `transfile.c`, `utils.c`, `daemon_init.c`)

*State*: the server's parent (listening socket, pending SIGCHLD), one forked child per
connection (attempts used, name, file offset), the client (what it typed and sent), two
byte streams per connection; what the kernel keeps for each process: its working directory and its
descriptors. *Operations*: read the configuration, make and enter the work directory, become a daemon, connect,
verify a password within `NUM_VERIFY_PASSWD` attempts, enter the work directory again, negotiate a name
(`+++`/`---`), send and receive the file, reap children in `sig_chld`. *Hard*: the window between `access` and
`open`, and between `access`, `mkdir` and `chdir` of several children, each of which may also fail by itself;
death of either end at any point; merged signals; lines longer than a buffer; a client that succeeds while the server fails; descriptors that get the
numbers 0 to 2, and log messages for descriptor 2. *Correct when*: nothing is stored without the
password, both ends agree on the name, a stored file is a prefix of what was sent and lies in the configured
directory, old files are untouched, no message of the log ends in a connection or a file, children leave and are reaped,
and nobody waits for ever.

### Echo service (`echo-zip-v2.7/srv_echo.c`, `echodata.c`, `httpzip.c`)

*State*: per transaction, what encoding the body has, a buffer for the body as it arrives
(`in_data`), a buffer for its text (`out_uncompressed_data`), which of the two is sent
(`out_data`), the response's `Content-Length` and `Content-Encoding`, and c-icap's lock on
sending. *Operations*: init, preview, io, end-of-data and release handlers;
`echo_data_do_work`; `http_zip_decompress`, which inflates into a block of guessed size and
grows it. *Interaction*: c-icap calls the handlers from its own loop: preview, then reading
and writing in turns of any size, then the end, then the sending of the rest; the end-of-data handler
calls the decompression on what was stored. *Hard*: the
script moves to different places in the three ways a body can arrive; sending may begin
before the body is complete; the head may already be on its way when the length becomes
known; memory can run out at each step; the sizes of blocks are computed in unsigned int and wrap.
*Correct when*: the client gets exactly the body
its head announced, and the decompression stays in its block, frees it and ends.

### Web graph (`webgraph-v2.1`)

A pipeline of command line programs over one data structure:

* **Creation** (`creategraph.cpp`): reads a graph, or makes one up page by page. Later pages copy
  links of earlier ones and change some of them. *Correct when* no page links to itself,
  to the root or twice to the same page, since the codes rely on strictly ascending lists.
* **Codes** (`utils.cpp`): pick a reference page (`find_ref`), describe a page by
  the bits of its reference's links and the links of its own (`encode_bitvector`), then by
  blocks, intervals and the rest. *Correct when* the lists determine the links.
* **Bit vectors** (`bitvector.cpp`): the bits of the codes, in arrays that grow, are copied, cut and
  written. *Correct when* no bit lies outside its array and a vector reads as what was appended.
* **Compression** (`Compress.cpp`, `HuffmanTree.cpp`, `DecodeTree.cpp`): counts the values, builds a
  Huffman tree by selecting the two lightest nodes, writes everything. *Correct when* every value
  written has a code, is read again as itself, and the graph can be rebuilt.
* **Decompression** (`Decompress.cpp`): `getlinks` walks a chain of references to its end or to a
  cached page, restores the links backwards, and may put a page from the middle into a cache of
  limited size, replacing the most similar one. It reads the files of an older Compress, in which a page is
  its outdegree, its reference, a bit for each of the reference's links, and the other links. *Correct when* every
  answer is the page's links, whatever was asked before.

`PROJECT.json` lists every part as a component, those left out included.

## Modules

| module | models | composed with |
|---|---|---|
| `ConfFile` | the configuration reader, line by line | extended by `RecordService` and `Server` |
| `UrlRecord` | the list of `urlrecord.c`, one operator a function | used by `Record` |
| `Record` | workers, lock, list, batches, database, shutdown of one process | implements `RecordLog` |
| `RecordLog` | abstract: a record is accepted, then written once or lost | |
| `RecordService` | the service from `record.conf` on: reads it, sets `record_conf`, starts `Record` | extends `ConfFile`, `Record` |
| `FileTransfer` | clients, parent, children, streams, files: the sessions | |
| `Server` | the server around the sessions: configuration, directories, daemon, descriptors | `ConfFile` |
| `Echo` | one c-icap worker and the handlers of the echo service | |
| `HttpZip` | `http_zip_decompress`, in wrapping unsigned arithmetic | |
| `EchoZip` | the end-of-data handler calling the decompression, step by step | `Echo`, `HttpZip` |
| `SortedSet` | sets of numbers as the ascending vectors the programs keep | extended by `NodeCode`, `Huffman` |
| `NodeCode` | `find_ref` and the encodings, as operators on sets of links | used by `CreateGraph` |
| `CreateGraph` | reading or making up a graph | extended by `Compress` |
| `BitVector` | the arrays of class BitVector | implements `BitSequence` |
| `BitSequence` | abstract: sequences of bits, and a file that holds one | |
| `Huffman` | `select`, the tree, the codes | extended by `Compress` |
| `Compress` | the stages of the compressor, what is written, and a reader of it | extended by `Decompress` |
| `Decompress` | files of the older form, `decodenode`, chains, restoring, cache | implements `LinkStore` |
| `LinkStore` | abstract: a table of links that is asked | |

`MCRecord`, `MCRecordService`, `MCFileTransfer`, `MCServer`, `MCEcho`, `MCEchoZip`, `MCBitVector` and
`MCDecompress` define the small inputs TLC takes; the modules ending in `_proofs` hold the
theorems. Definitions whose comment begins with MUTANT are plausible bugs of the definition they stand
before; each property is known to fail with one of them.

### How the models correspond to the code

*ConfFile.* A file is a sequence of characters, of which an option's name is one. A step reads a line, allocates
a name and a value, adds them, or ends the reading; `strings` counts the copies on the heap, `fs` is the stream. What the buffer of
`fgets` holds and which character is cut off are computed as the code does it. `Room` is the size of the arrays the
values are copied into; when one is too long for its array, any option may afterwards hold something of `Damage`, or its own value.

*Record.* A worker's `pc` names the call it is about to make: one action per call that touches
shared state (`LockList`, `AddRecord`, `AllocBatch`, `CopyBatch`, `ResetList`, `UnlockList`), per database
call (connect, each insert, close) and per handler. A request is named by the row it would leave;
what `getMainUrl`, `is_html`, `is_except` and `parseWord` find in its text is a field of the request.
`array[i]` of C is `array[i + 1]`. `malloc`'d memory holds `NoEntry` until it is written, so that a
loop that reads too far is seen. The operations of the list are one step each, because whoever calls them holds the mutex, owns
the list, or is the only thread left: `CloseService` waits for every worker, as c-icap joins them. A list that could not be
copied is left with the mutex locked. `Crash` is the death of the process at any step. `adds`, `order` and `asked` are history.

*RecordService.* `record_conf`, the struct the service keeps its options in, is a variable of `Record` that no step of it
changes: where `Record` is checked alone it begins with any value, here `ReadConf` fills it. `Serve` is a step of `Record`; `atoi` and
the comparison with `on` are operators on the characters of a value.

*FileTransfer.* Each direction of a connection is a queue of lines and chunks, at most `Window`
chunks long; a read takes its head, a write appends. `fork`, `exit`, `SIGCHLD` and `waitpid` are actions,
and signals that arrive while one is pending are one. Typing is a choice among the right password,
a wrong one, a name, and more than `fgets` takes. A client may be killed at any step; accept, fork,
set_work_dir, open and write may fail when `ServerFails`.

*Server.* Directories have an identity each, so that a process can be inside one that was removed, and paths lead
to identities; `access`, `mkdir` and `chdir` are separate actions of `main` and of every child. Descriptors are numbers the
kernel gives out from the lowest, and `fork` copies them; syslog opens one when it is first used. `log_to_stderr` says
where a message goes, `logged` collects what stood there. `mkdir`, `chdir` and what `main` calls may fail for reasons of the system
(`SystemMayFail`), at each place of their own. A name with a `/` in it leads the file to any directory there is (`astray`). The
sessions themselves are `FileTransfer`'s, here one step each.

*Echo.* Bytes are units whose identity is kept, so an output is compared with the input it should be.
`Io` is one turn of c-icap's loop: it offers what arrived, the handler takes what fits, and gives back
as much as there is room for. The sizes of preview, reading turns and rooms are chosen freely. Where the preview finds no memory
the process ends (`PreviewUnallocated`: the code writes to what `malloc` returned without a look at it).

*HttpZip, EchoZip.* One action a call of `inflate`, which consumes and produces any amount that the room allows.
Numbers are taken modulo `Word`, and nothing keeps the sizes below it: where twice what was produced wraps, the copy into the new block
is an `overrun`, behind which C promises nothing and the process is taken to end. In `EchoZip` the handler of `Echo` waits for the return and sends the text only if it was 0.

*Web graph.* The links of a page are a set, as they are sorted and without duplicates once
`sort` has run; the order in which they were drawn is a sequence until then. The programs are a
`stage`; the loops that matter for the result (the tree's, the chain's, the copying of links) are steps of
their own, the others are one. `rand` is a choice. `result` is what is written for each page, in the
order of the stream, without the bits: a value is coded by `codes`, a size by gamma coding. `Found` is a reader of `result` that takes a
reference's links from what it found on the pages before. `Decompress` reads another stream: its files are those of versions 1.4 and 1.5
(`readme.txt`), whose compressor is gone but for its format, so `FormerCompress` stands for it as an external action, and `decodenode`
takes its pages apart. Behind `CreateResult`, the compressor of today, `init` finds no degree file and ends the program (`NoDegreeFile`).
`README.md:14` calls the decompressor unfinished.

*BitVector.* An array is a function from bit positions, eight a byte, so memory outside it and memory
nobody wrote can be told from bits. Every constructor and operation is one action, growth included; `filled` is history.

## What is checked

| run | question | result |
|---|---|---|
| `record` | two workers, four records, a list of two: is every record in one place, in order, once? Is `RecordLog` implemented? Is the lock released, a full list written, does every record settle? | holds |
| `record_service` | seven files and none, `malloc` failing anywhere, a value too long for its array: is the file read as it is written, is it obeyed to the end, is memory read that nobody wrote, is a request recorded exactly when it should be? | holds |
| `record_alloc_fails` | is a full list written when `malloc` fails? | **no** |
| `conf_lastline` | is the character that is cut off a line its newline? | **no** |
| `file` | two clients, anything typed, anything killed, any call failing: who stores what under which name? Do children leave and are clients answered? | holds |
| `file_race` | is a granted name nobody else's? | **no** |
| `server` | eight files, a directory that is removed under the processes, three children, system calls that fail: where do they store, who restores the directory, which descriptor is whose, where do log messages go? | holds |
| `echo` | every branch of the handlers, every split of the body, every way zlib can stop, sizes that wrap, memory that runs out: is the announced body sent, what must happen before the block overruns, is a returned text whole, is memory freed, does the work end? | holds |
| `echo_empty` | is the announced length right when the text is empty? | **no** |
| `bit_vector` | vectors made, grown, copied, cut, written, filled around the limits of their arrays: do they stay inside and read as what was put in? | holds |
| `web_graph` | made-up and read graphs: are links simple, is everything writable and are the codes readable, does a reader of the stream find the graph, does the cache lie, does the decompressor answer rightly over its own files? | holds |
| `web_rest` | are all the remaining links written? | **no** |

### Bounds, and why they are enough

* *Record*: two workers are one in the critical section and one that writes a batch or waits. A list
  of two is the smallest in which a batch has an order; four records are two batches that are written
  in parallel, or one and a rest that the flush finds. `Entry` also bounds the requests served. Of the search words `record` has
  one engine, found in no request; words that are recorded are in `record_service`. The theorems are about any number of each.
* *Configuration*: a buffer of seven characters and a list of three entries are passed by some files and not by
  others; the files have blanks, comments, empty lines, a line without `=`, an option twice, a line that is too long, a value that is too
  long for its array of two characters, and a last line without newline. `Damage` has one text, that of a switch that is on. Sizes read are 0, 1, 2 and 12: no room, every record a batch, a batch with an order, and a list nobody fills.
* *FileTransfer*: two clients are what a race needs; two attempts separate the last from the others; a
  file of two chunks with a window of one makes writing block and a file partial. One old file and one
  name of its own per client cover a refused name and a granted one; the name left of a line that
  is too long is the same for all. Each client runs once.
* *Server*: three children are one that makes the directory, one that loses the race and one that finds it; two removals are
  one that is repaired and one that comes between. Directories are absolute (one of them below a place that does not exist, one below the
  server's own), relative, `/`, empty, the default, and too long for an array of four characters.
* *Echo*: a head tag at the first, the last and no unit of a page of three, a body shorter
  than the least length (two units here, 12 bytes there), bodies with and without a length, all four
  encodings, intact or not. Buffers of two units have to grow for them. A word of 16, a guess of six times
  the body and texts of up to nine make every case of the block: a first block of 12 that is large enough, one that wraps to 2 and grows,
  doubling that stays below the word (texts of 7), and doubling that wraps (8 of 9 produced).
* *BitVector*: vectors of up to 12 bits that grow by 4 pass the end of a byte and of an array, and every other length ends a byte.
* *Web graph*: five pages with a window of two have chains of references of more than one step; a
  half of two makes numbers that are split and numbers that are not, in one page; chains of two references whose pages can all be read occur. The menu of link
  lists has runs, lone links, copies in blocks and nothing in common. A cache of two is filled and
  replaced. Made-up graphs have two pages that are drawn and three that copy.

### Fairness, and why the code justifies it

Safety needs none. `record` assumes that a worker with a request and the
closing thread are scheduled and database calls return (`WF` of each worker's work, of its
leaving when told to, and of `Close`). Waiting for the mutex needs no strong fairness here, as nobody takes it
for ever and requests are finite; nothing makes a request, a stop or a crash happen. `file`
assumes that clients, children and the parent are scheduled and signals delivered; users may never type.
`echo` assumes that a thread inside `echo_data_do_work` runs (`WF` of the decompression and of the
handler's return); nothing is assumed of c-icap and its client. In `web_graph` a call of `getlinks` that was made goes on
(`WF(GetLinksWork)`), and nothing makes anybody call.

## What is proved

All proofs hold for every value of the constants that the modules' assumptions admit. Every invariant of a passing run
is stated by a theorem, and so are the action properties and the safety parts of the three refinements.

* **Record** (`RecordService_proofs`), any number of workers and records and any list size above 0. `TypeInv` adds to the
  types that a worker beyond its request's start has an entry, and that the used part of every
  list was accepted: *no unwritten memory is read*, after a failed allocation has kept a full list under the lock too. `LockInv` says who holds the mutex at
  each place and that the list is full exactly where the copying worker is; from it *mutual exclusion* and that
  *add is never refused*. `LoopInv` and `RequestInv` tie the loop indices and the entries of different workers apart.
  `PlaceInv` and `SettledInv` locate each record: in the list, in the unwritten part of exactly one batch, in
  the table, or lost, and are needed since neither copy nor flush removes what it writes;
  from them *every record is in one place and has at most one row*. `OrderInv` adds that the list holds the last
  calls of add in order: *batches are full and consecutive*. `HandledInv` follows the words and the record of one
  request through its handlers: *a request is recorded exactly when nothing holds it back and the switches ask for it*, the unknown time
  included. `Refinement` shows every step to be a step of `RecordLog` or a stutter.
* **Configuration** (`ConfFile_proofs`), any file, buffer and list. `ReadingInv`: an entry of the list is two
  strings on the heap, and there is no entry once the reading has ended; from it *the reader leaves nothing*. `DeclaredInv`: between
  two lines the list is exactly the entries of the lines already read, so that at the end every option is what the
  first of its lines says. Like the property it speaks of files whose lines fit the buffer and whose values fit their arrays (`HasRoom`), and of
  a last line without newline as one that loses its last character. The stream is no string: the readings that are given up at an entry
  leave it open (`OnlyStreamLeft` says so), which the early returns at `record_conf.c:81` and `filetransfer_conf.c:70` do.
* **Record service** (`RecordService_proofs`), any configuration file, size 0 included. `ServiceInv` joins the two: nothing
  is served before the file was read, `record_conf` is what its texts mean from then on, and a served state satisfies the
  invariants of `Record`. Those that need room in the list are claimed for sizes above 0 only; `SizeInv` says what remains for 0,
  that a batch of nothing writes no row and no record is taken. From it *the service runs as it was configured to its end*, *records are kept* and
  *requests are recorded as the options ask*.
* **FileTransfer** (`FileTransfer_proofs`), any number of clients, names, attempts, chunks. `FreshInv` says that a
  connection that was not forked yet has nothing of the server's; `ChildInv` ties the child's place, its attempts
  and `verified`; `DiskInv` what is on disk to the child that wrote it; `ZombieInv` adds that zombies need a living
  parent. From these *what is stored came over a verified connection*, *attempts are limited*, *zombies are noticed*.
  `AgreeInv` is about the two ends of a connection whose client lives: until a name is granted, either the client's line or the
  answer to it is under way and nothing else (`Turn`); an answer `+++` that is under way means what the child did before it; behind the
  end of the server's end there is only end-of-file (`ConnInv` says when that end is open). It is needed because the client believes the answer
  long after the child has gone on; from it *both ends agree* on the password and on the name. `StreamInv` says what may be on the
  way at each place of the child (behind a typed line only the end, before a grant only lines, then chunks that follow
  those written), `FileInv` that the chunks of a file come from the one child that stores under its name. From them
  *a stored file is a prefix of what was sent*, where `NamesApart` holds: no two clients want a common name and
  none wants the one a truncated line leaves. Without it `file_race` shows what happens.
* **Server** (`Server_proofs`), any number of clients, removals and options, any file and buffer; the theorems about the reader are those of
  `ConfFile_proofs`. `TreeInv`: a directory has one
  path, and a process whose directory is still there entered it by that path. It is needed because a relative path
  is looked up in the directory a process is in, whatever that is called by then. With `EnteredInv` (main is where it was started until
  it enters the directory; every child begins in main's) *children store where an absolute directory is named*: a plain name that is
  opened is opened in the directory the path leads to at that moment. `TableInv`:
  the parent holds a connection only between accept and the end of fork, a child only its own; with `LowestIsFree` (the number that is given out
  was free, so nothing in the table is replaced) *descriptors are apart*. `PlaceInv` says that nobody connects before main accepts and that one
  connection at most is not yet forked. `LogInv`: descriptor 2 is used for messages by `main` before `daemon_init` alone, when it is the
  terminal still, so *log messages are apart* from clients and files although outside `/` descriptor 2 may become either. `RestoreInv` is about
  an absolute work directory: the place for it is never lost, and a child that is about to make
  it although it is there was overtaken by one that made it; from it *the directory is restored*: no child is left without a place for it, and after
  one removal a child is turned away for its being there only because another one made it. A child may still be turned away by a failing system.
* **Echo with its decompression** (`EchoZip_proofs`), any responses, buffer sizes and turns. `ZipInv`: the room left and what was produced fit the
  block, and before the copy into the next one less than half a word was produced or the copy overruns it; so *zlib stays in the block*, *nothing
  overruns below half of what the word counts*, *whole texts only* are returned, and *one block or none* is left, for any word size, guess and length. `HandlerInv` says at each step of c-icap's loop which
  buffers there are and which is sent: a body goes out as it comes, or is held back under lock. From it *a sent head is
  final* and *nothing is cut off*. `FlowInv`: what was given is what was read of the buffer that is sent; `ContentInv`: the buffer
  holds the first units that c-icap read, with the script behind the head tag or not; `EndedInv`: an end means that all was given. From these *the body
  goes out as it was sent*, as long as all that came of it could be stored (`~damaged`). They rest on lemmas about sequences: a marked beginning is the beginning of the marked whole
  (`MarkedBeginning`), and stays it when units are added (`MarkedLonger`). `LengthInv` follows the length from the request to the
  end; *the announced length is true* needs `SomeText`, that no compressed body inflates to nothing, and `echo_empty` shows what happens otherwise.
* **BitVector** (`BitVector_proofs`), any vectors, codes and lengths. `Good` says of each vector that its bits fit its array and were
  written, and that an array `fill` did not make has a bit to spare: append tests before it writes, so without the spare bit
  it would write outside. From it *bits stay inside* and *copies stay inside*; with `Holds` (the array begins with the
  bits of the abstract sequence) every operation, growth and the file included, is a step of `BitSequence`.
* **Web graph, queries** (`Decompress_proofs`), any graph, number
  of pages, window, cache size and limit. *Types*, the bound on the cache included. *Links that are made up are
  simple*: `DrawnOK` is needed to know that a page is copied from an earlier one and that a changed link is a page number.
  *Bits fit* and *the cache is right*: `ChainOK` says of each page of the chain that its reference is the next
  one, that it is as it was read or was found in the cache, that it has no foreign links, and that the pages
  behind the restored one are whole. The lemmas: `find_ref` chooses the root or a page before; a link has a
  unique place in its list; the marked links are exactly those shared with the reference; and `Decoded`: what `decodenode` takes from
  a page of the older form is its reference, a bit for each link of it, and the links that are left of the outdegree, which rests on
  there being as many marks as shared links (`MarksCounted`). From these,
  `AnswersAreLinks`: every step is a step of `LinkStore` or a stutter, so *every answer is the page's links*. It is a theorem about the decoder
  and files it can read.
* **Web graph, what is written** (`Decompress_proofs`, with the lemmas of `Compress_proofs`), any graph, window and half. `WrittenInv` says that
  the nodes are those of the pages, the leaves of the tree and the codes those of the values counted, and the result what the nodes give.
  *Everything is writable* rests on `PageIsWritable`: all that is written of a page was counted, and (`RestInBounds`) `index`
  stays inside the halves although it goes back after each run. *Nothing is lost* rests on
  `PageIsRead`, which puts three readers together: a position lies in a copied block exactly when its bit is set
  (`CopiedAreRead`), the intervals are the runs of the differences (`RunsAreRead`), and the gaps of one run add up to the links that stand
  alone (`AlonesAreRead`); and then on the order of the pages: a reference is a page before, so what the reader found there is what the page
  needs, as long as the whole chain consists of pages whose gaps come in one run (`Closed`). That the last block and a single block's flag are left out is made good by `SharedLink` and `OneBlockIsCopied`: a
  reference that `find_ref` takes shares a link, so a single block is a copied one.
* **Web graph, codes** (the same modules). `IsBuilt` says of the tree, turn by turn, that a node's parent comes behind it and has its
  two children's weight, that as many nodes are without parent as are still to be merged, that no node with a parent is heavier than
  one without, and that of two nodes the lighter one was not merged later. It holds because `select` finds two nodes that no third
  one without parent is lighter than (`SelectPicks`). From it *codes are read again*: ways to different nodes differ (`WaysApart`) and no way to a leaf
  begins another (`LeavesEnd`); and *what comes more often has no longer code* (`HeavierIsNearer`): going up from a heavier and a lighter node,
  their parents are one node or are heavier and lighter in the same way, whichever of equal weights `select` took.

The recursive functions of these modules (sums, ways, the loop of `select`) are reasoned about through two lemmas of
`Compress_proofs`: `RecursionExists`, that there is a function with given steps, and `Induction` over a set of numbers. They stand in for the
library's theorems about operators, which the provers cannot instantiate.

### What is only model-checked

Liveness: `LockReleased`, `RecordSettles`, `FullBatchWritten`, `ChildLeaves`, `ClientAnswered`, `WorkEnds` and the
fairness of `LinkStoreSpec` need `ENABLED`, which is out of the prover's reach. The violation runs' properties are false, so there is nothing to
prove. What restricts a theorem restricts the run too: `Lossless` speaks of pages whose gaps, and those of their references, come in one run,
`StoredIsPrefix` of names apart, `LengthIsTrue` of bodies with text; for each of these a violation run shows the rest. `StoresWhereNamed` and
`Restored` speak of absolute directories, `ConfiguredAsDeclared` of values that fit, `EchoedAsSent` of bodies that were stored.

## Disagreements found

Five runs end in a counterexample, each against a sentence of the repository (`findings` in `PROJECT.json`):

1. `recordUrl` returns with `url_mutex` locked when the copy cannot be allocated (`record/parse.c:70-78`).
2. The character cut off a configuration line is taken for its newline (`record/record_conf.c:74`, `filetransfer/filetransfer_conf.c:63`): a
   last line without one loses the end of its value.
3. Two children can grant the same name between `access` and `open` (`filetransfer/transfile.c:74-80`).
4. A compressed page without text keeps the length of its compressed form (`echo-zip-v2.7/srv_echo.c:422`).
5. `index` runs back over the remaining links (`webgraph-v2.1/Compress.cpp:395`): a page whose gaps
   lie on both sides of 65536 is written wrongly, and what refers to it cannot be read either. `Lossless` therefore speaks of chains of pages
   whose gaps come in one run.

Others were met while modelling, and have no run of their own:

* record: rows are not written in the order of time; with `url_record_size` 0 every record is refused and a batch of nothing is written
  (`ServedAsConfigured` says no row comes of it); both readers leave the file open when an entry cannot be added (`record_conf.c:81-86`,
  `filetransfer_conf.c:70-75`), and copy values into arrays without looking at their lengths (`record_conf.c:93-177`, `filetransfer_conf.c:81-119`).
* file transfer: a file of which only a part came is logged as completed (`transfile.c:88`); a name is granted before `open`
  fails, and the client reports success (`client.c:54`); a name with a `/` is opened wherever it leads (`transfile.c:80`).
* file transfer, directories: `filetransfer.conf:22` says that files are stored in `workdir`, but a relative one is followed twice, by `main` and again
  by every child (`transfileserver.c:88`), so files lie one level deeper than it says, and such a directory is not restored once it is removed.
* file transfer, descriptors: the comment at `daemon_init.c:46` says that 0, 1 and 2 are redirected to `/dev/null`, but the path is the relative
  `dev/null` and the process is inside the work directory by then: unless that is `/` all three stay closed, and the listening socket becomes
  descriptor 0. `LogsApart` says why no message ends in it.
* echo: the results of `malloc` and of storing the preview are ignored (`srv_echo.c:309`, `335`, `342`; `damaged` marks the transactions in which
  something was not stored); `http_zip_decompress` counts in unsigned int, and for a body that inflates to 2 GB copies past the block it has made
  (`httpzip.c:122-140`, `overrun`).
* web graph: the decompressor cannot read what the compressor writes: no degree file is written any more (`Compress.cpp:48`,
  `Decompress.cpp:36-41`), references are relative (`Compress.cpp:178`), and blocks have taken the place of bits.
* web graph: made-up links may lead to pages that do not exist, up to half a range behind the last page; a cache size of 0 has no page to
  replace; a cached page without links has similarity 0/0, is never below the limit, and stops all replacement; the copy
  constructor of `BitVector` copies a byte beyond the bits (`bitvector.cpp:83`), which an array made by `fill` need not have, and
  `Decompress.cpp:48` and `70` copy vectors that were filled.

## What is not modelled, and why

* A shutdown in which c-icap would not wait for its workers: `close_service` destroys the mutex and frees the list without taking it, and
  what a worker beside it would do to the list is undefined from `urlrecord.c:18-57` on. The models say nothing of it.
* What comes after an overrun of a block or a copy to NULL, of which C says nothing; copies of bit vectors that `fill` made, which read a byte too far.
* Someone who *moves* the work directory, or makes one in its place, while the server runs; removals are modelled.
* The text functions (`getMainUrl`, `parseWord`, `wordEscape`, `urldecode`, header parsing, addresses): sequential, on bytes;
  their outcomes are inputs of the models.
* The bytes of the web graph's other files: a stream is a sequence of values. Links a text graph names twice, which `load_convert_graph` keeps and the gaps of
  `rest_links_encoding` cannot hold: links are sets here. The converter itself reads and writes files and keeps nothing.
* `edmonds.cpp`, the third-party branching algorithm and `matrix.h`, `gap_encoding`, `encode_diffvector`, `find_reference`: nothing calls them.
* `srv_record_req.c`, `srv_searchrecord_resp.c`: earlier services that `record/README` leaves out and no Makefile builds.
* Logging, progress bar, terminal echo, tests that print.
* Real time and the order of rows in the table; MySQL beyond "a call may fail"; c-icap beyond the order of
  its calls, which is taken from how the handlers use it.
* `copy_links` and `new_link` go round until chance finds a link (`creategraph.cpp:263`): whether they end is a
  question of probability, and the models have them succeed.

## Plan

Done, in this order: 1. `UrlRecord`, `Record`, `RecordLog` (threads and a lock); 2. `FileTransfer` (processes and sockets);
3. `Echo`, `HttpZip` (callbacks); 4. the web graph from `NodeCode` to `Decompress` (algorithms and a cache); 5. what the programs start from
and rest on: `ConfFile`, `RecordService`, `Server`, `EchoZip`, `BitVector`. What is left:

1. The web graph: that the pages of a chain descend, and so a query ends, without fairness of the single steps (a measure of the chain).
2. The list of `find_ref` as the cheapest reference: nothing but its being an earlier page that shares a link is used so far.
3. The text functions of `parse.c` over short strings against a reference definition, if a property of the service
   turns out to depend on them.
