------------------------------ MODULE ConfFile --------------------------------
(***************************************************************************)
(* The reader of a configuration file, record_conf_read of src/record and  *)
(* filetransfer_conf_read of src/filetransfer: the lines of the file, the  *)
(* bounded list of entries they fill, and the options taken from the list. *)
(* A file is a sequence of characters.  The name of an option counts as    *)
(* one character here, for nothing in the code looks inside it.            *)
(***************************************************************************)
EXTENDS Integers, SequencesExt

CONSTANTS
  File,            \* the files that may lie at the path that is opened
  NoFile,          \* fopen finds none
  READ_BUF_SIZE,   \* the buffer of fgets, with its terminating null character
  CONF_ENTRY_SIZE, \* the entries the list has room for
  Default,         \* the text each option has when the file does not set it
  Room,            \* the characters the array of an option holds besides its
                   \* null; a number and a switch have none
  Damage,          \* what an option may hold that an overrun has written into
  MallocMayFail    \* malloc can return NULL

ASSUME ConfAssumption ==
  /\ READ_BUF_SIZE \in Nat /\ READ_BUF_SIZE > 1
  /\ CONF_ENTRY_SIZE \in Nat
  /\ NoFile \notin File
  /\ MallocMayFail \in BOOLEAN
  /\ \A file \in File : file \in Seq(STRING)
  /\ Default \in [DOMAIN Default -> Seq(STRING)]
  /\ DOMAIN Default \cap {"=", "#"} = {}
ASSUME RoomAssumption ==
  /\ DOMAIN Room \subseteq DOMAIN Default /\ Room \in [DOMAIN Room -> Nat]
  /\ Damage \subseteq Seq(STRING)

VARIABLES
  file,    \* what lies at the path
  fs,      \* the stream is open
  at,      \* its position: the next character fgets reads
  reading, \* where conf_read is
  name,    \* the name of the line in buf
  value,   \* its value
  list,    \* struct ConfEntryList: the entries in use
  strings, \* copies of names and values on the heap
  conf     \* the options, once conf_read has returned 1

confVars == <<file, fs, at, reading, name, value, list, strings, conf>>

ConfInit ==
  /\ file \in File \cup {NoFile} /\ fs = FALSE
  /\ at = 1 /\ reading = "open"
  /\ name = <<>> /\ value = <<>>
  /\ list = <<>> /\ strings = 0
  /\ conf = [option \in DOMAIN Default |-> <<>>]

-------------------------------------------------------------------------------
(* One line. *)

\* fgets: the rest of the line with its newline, or as much as fits the buffer.
LineAt(text, first) ==
  SubSeq(text, first,
         Min({i \in first..Len(text) :
                text[i] = "\n" \/ i = Len(text) \/ i = first + READ_BUF_SIZE - 2}))

\* The last character of the buffer, whatever it is, makes room for the null.
CutLine(buf) == Front(buf)

\* The elements of a sequence at some of its positions, in order.
Picked(seq, positions) ==
  [k \in 1..Cardinality(positions) |->
     seq[CHOOSE i \in positions : Cardinality({j \in positions : j < i}) = k - 1]]

\* remove_blank
RemoveBlank(buf) == Picked(buf, {i \in DOMAIN buf : buf[i] # " "})

\* A blank line and a comment are passed over, and a line without '='.
IsEntry(buf) == buf # <<>> /\ buf[1] # "#" /\ "=" \in Range(buf)

\* conf_parse_line: the first '=' ends the name.
ParseLine(buf) ==
  LET index == Min({i \in DOMAIN buf : buf[i] = "="}) IN
  [name |-> SubSeq(buf, 1, index - 1), value |-> SubSeq(buf, index + 1, Len(buf))]

\* MUTANT: the entry that was added last is found.
FindEntryLast(entries, option) ==
  LET found == {i \in DOMAIN entries : entries[i].name = <<option>>} IN
  IF found = {} THEN Default[option] ELSE entries[Max(found)].value

\* find_entry, and the default of an option without entry.
FindEntry(entries, option) ==
  LET found == {i \in DOMAIN entries : entries[i].name = <<option>>} IN
  IF found = {} THEN Default[option] ELSE entries[Min(found)].value

-------------------------------------------------------------------------------
(* conf_read. *)

OpenFile ==
  /\ reading = "open"
  /\ fs' = (file # NoFile)
  /\ reading' = IF fs' THEN "line" ELSE "failed"
  /\ UNCHANGED <<file, at, name, value, list, strings, conf>>

\* One turn of the loop, up to the call that adds the entry.
ReadLine ==
  LET line == LineAt(file, at)
      buf == RemoveBlank(CutLine(line))
  IN
  /\ reading = "line" /\ at <= Len(file)
  /\ at' = at + Len(line)
  /\ \/ /\ ~IsEntry(buf)
        /\ UNCHANGED <<reading, name, value>>
     \/ /\ IsEntry(buf)
        /\ reading' = "add"
        /\ name' = ParseLine(buf).name /\ value' = ParseLine(buf).value
  /\ UNCHANGED <<file, fs, list, strings, conf>>

\* conf_entry_list_add: room in the list, and memory for the name and the value.
AddEntry ==
  /\ reading = "add" /\ Len(list) < CONF_ENTRY_SIZE
  /\ list' = Append(list, [name |-> name, value |-> value])
  /\ strings' = strings + 2
  /\ reading' = "line"
  /\ UNCHANGED <<file, fs, at, name, value, conf>>

\* MUTANT: conf_read returns without cleaning the list.
AddFailsKeeps ==
  /\ reading = "add"
  /\ Len(list) >= CONF_ENTRY_SIZE \/ MallocMayFail
  /\ reading' = "failed"
  /\ UNCHANGED <<file, fs, at, name, value, list, strings, conf>>

\* The list is full or malloc fails (the name is freed when the value's fails):
\* the list is cleaned and conf_read returns 0 without touching the options and
\* without closing fs.
AddFails ==
  /\ reading = "add"
  /\ Len(list) >= CONF_ENTRY_SIZE \/ MallocMayFail
  /\ list' = <<>>
  /\ strings' = strings - 2 * Len(list)
  /\ reading' = "failed"
  /\ UNCHANGED <<file, fs, at, name, value, conf>>

\* Every text fits the array it is copied into.
HasRoom(texts) == \A option \in DOMAIN Room : Len(texts[option]) <= Room[option]

\* strcpy into struct conf.  A text without room runs over what lies behind its
\* array: an option, whichever, then holds its own text or what came over it.
Copied(texts) ==
  IF HasRoom(texts)
    THEN {texts}
    ELSE {held \in [DOMAIN texts -> Range(texts) \cup Damage] :
            \A option \in DOMAIN texts : held[option] \in {texts[option]} \cup Damage}

\* The end of the file: fs is closed, every option is set, the list is cleaned.
Configure ==
  /\ reading = "line" /\ at > Len(file)
  /\ fs' = FALSE
  /\ conf' \in Copied([option \in DOMAIN Default |-> FindEntry(list, option)])
  /\ list' = <<>>
  /\ strings' = strings - 2 * Len(list)
  /\ reading' = "read"
  /\ UNCHANGED <<file, at, name, value>>

ConfNext == OpenFile \/ ReadLine \/ AddEntry \/ AddFails \/ Configure

-------------------------------------------------------------------------------
(* What a file says, told without a buffer. *)

\* Where its lines begin.
LineStarts(text) == {i \in 1..Len(text) : i = 1 \/ text[i - 1] = "\n"}

\* The line that begins there, without its newline.
LineFrom(text, first) ==
  SubSeq(text, first,
         Min({i \in first..(Len(text) + 1) : i > Len(text) \/ text[i] = "\n"}) - 1)

\* A line sets an option when, blanks apart, it begins with the name and '='.
Sets(line, option) ==
  LET plain == RemoveBlank(line) IN Len(plain) > 1 /\ plain[1] = option /\ plain[2] = "="

\* The text the first such line gives the option.
Declared(text, option) ==
  LET setting == {i \in LineStarts(text) : Sets(LineFrom(text, i), option)}
      plain == RemoveBlank(LineFrom(text, Min(setting)))
  IN IF setting = {} THEN Default[option] ELSE SubSeq(plain, 3, Len(plain))

\* The longest line fits the buffer.
Fits(text) == \A i \in LineStarts(text) : Len(LineFrom(text, i)) < READ_BUF_SIZE - 1

\* Every line, the last one too, ends in a newline.
NewlineEnds(text) == text = <<>> \/ Last(text) = "\n"

-------------------------------------------------------------------------------
(* Properties. *)

\* The texts a file declares.
DeclaredTexts(text) == [option \in DOMAIN Default |-> Declared(text, option)]

\* Once read, every option has the value its first line in the file declares,
\* or its default, if they all fit their arrays; of a last line without newline
\* the last character is missing (record_conf.c:74), and of nothing else.
ConfiguredAsDeclared ==
  LET declared == DeclaredTexts(IF NewlineEnds(file) THEN file ELSE Front(file)) IN
  reading = "read" /\ Fits(file) /\ HasRoom(declared) => conf = declared

\* The comment at record_conf.c:74 says that the character that is cut off is
\* the newline at the end of the line: what a file declares is what is read.
OnlyNewlinesCut ==
  reading = "read" /\ Fits(file) /\ HasRoom(DeclaredTexts(file)) =>
    \A option \in DOMAIN Default : conf[option] = Declared(file, option)

\* A name and its value are on the heap for each entry of the list, and nothing
\* is left on it when conf_read returns, with either result; a failed reading
\* has set no option.  The stream is closed after a reading that succeeds, and
\* left open by one that is given up at an entry (record_conf.c:81-86).
OnlyStreamLeft ==
  /\ strings = 2 * Len(list) /\ Len(list) <= CONF_ENTRY_SIZE
  /\ reading \in {"read", "failed"} => strings = 0
  /\ reading = "failed" =>
       /\ \A option \in DOMAIN Default : conf[option] = <<>>
       /\ fs <=> file # NoFile
  /\ reading = "read" => ~fs
===============================================================================
