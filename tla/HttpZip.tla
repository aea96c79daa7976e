------------------------------- MODULE HttpZip -------------------------------
(***************************************************************************)
(* http_zip_decompress of src/echo-zip-v2.7/httpzip.c: it inflates a body  *)
(* into a block of guessed size and replaces the block by a larger one, in *)
(* unsigned int arithmetic, until zlib reaches the end of the stream.      *)
(***************************************************************************)
EXTENDS Integers

CONSTANTS
  Word,         \* unsigned int counts modulo Word (2^32)
  MinLength,    \* the shortest stream that is looked at (12)
  Guess,        \* the first block is so many times the body (6)
  MaxInput,     \* the longest body
  MaxText,      \* the longest text a body inflates to
  AllocMayFail  \* malloc can return NULL, inflateInit2 and inflateEnd can fail

ASSUME NumbersAssumption == {MinLength, Guess, MaxInput, MaxText} \subseteq Nat /\ Word \in Nat \ {0}
ASSUME GuessAssumption == Guess > 0 /\ MinLength > 0
ASSUME AllocAssumption == AllocMayFail \in BOOLEAN

VARIABLES
  pc,       \* where the function is
  input,    \* bytes of the body not yet consumed: avail_in
  text,     \* bytes the stream inflates to
  good,     \* the stream is one that zlib accepts
  block,    \* bytes that were allocated for block
  got,      \* total_out, at the end bytesgot
  room,     \* avail_out
  bufsize,  \* the local of that name
  blocks,   \* blocks allocated and not freed (history)
  return    \* the value returned, 1 before there is one

vars == <<pc, input, text, good, block, got, room, bufsize, blocks, return>>
streamVars == <<text, good>>
blockVars == <<block, room, bufsize>>

Init ==
  /\ pc = "start" /\ input \in 0..MaxInput /\ text \in 0..MaxText /\ good \in BOOLEAN
  /\ block = 0 /\ got = 0 /\ room = 0 /\ bufsize = 0 /\ blocks = 0
  /\ return = 1

Return(code) == pc' = "returned" /\ return' = code

\* Nothing, or less than a stream can be.
TooShort ==
  /\ pc = "start" /\ input < MinLength
  /\ Return(-2)
  /\ UNCHANGED <<input, streamVars, blockVars, got, blocks>>

\* The first block and inflateInit2; the block is freed when that fails.
Start ==
  /\ pc = "start" /\ input >= MinLength
  /\ \/ /\ pc' = "inflate"
        /\ bufsize' = (input * Guess) % Word
        /\ block' = bufsize' /\ room' = bufsize' /\ blocks' = blocks + 1
        /\ UNCHANGED return
     \/ /\ AllocMayFail
        /\ \E code \in {-3, -4} : Return(code)
        /\ UNCHANGED <<blockVars, blocks>>
  /\ UNCHANGED <<input, streamVars, got>>

\* zlib consumes and produces what it can: it stops when the text is complete,
\* the block full or the body used up, or at an error.
Inflate ==
  /\ pc = "inflate"
  /\ \E n \in 0..input, p \in 0..room :
       /\ got + p <= text
       /\ input' = input - n /\ got' = got + p /\ room' = room - p
  /\ \/ /\ good /\ got' = text
        /\ pc' = "end"
     \/ /\ input' < input \/ got' > got
        /\ room' = 0 \/ input' = 0
        /\ good => got' < text
        /\ pc' = "grow"
     \/ pc' = "fail" /\ (~good \/ (input' = input /\ got' = got /\ got < text))
  /\ UNCHANGED <<streamVars, block, bufsize, blocks, return>>

\* MUTANT: the block is not freed.
EndStreamLeaks ==
  /\ pc = "end"
  /\ \/ Return(0) /\ UNCHANGED blocks
     \/ AllocMayFail /\ Return(-5) /\ UNCHANGED blocks
  /\ UNCHANGED <<input, streamVars, blockVars, got>>

\* Z_STREAM_END, inflateEnd and, at the end, http_zip_set.
EndStream ==
  /\ pc = "end"
  /\ \/ Return(0) /\ UNCHANGED blocks
     \/ AllocMayFail /\ Return(-5) /\ blocks' = blocks - 1
  /\ UNCHANGED <<input, streamVars, blockVars, got>>

\* MUTANT: an error is answered with a larger block.
FailGrows ==
  /\ pc = "fail" /\ pc' = "grow"
  /\ UNCHANGED <<input, streamVars, blockVars, got, blocks, return>>

\* Any error of inflate: the block is freed.
Fail ==
  /\ pc = "fail"
  /\ Return(-6) /\ blocks' = blocks - 1
  /\ UNCHANGED <<input, streamVars, blockVars, got>>

\* MUTANT: the room is that of the whole block, or the block is returned as it
\* is.
GrowWhole ==
  /\ pc = "grow"
  /\ bufsize' = (got * 2) % Word
  /\ pc' = IF got > bufsize' THEN "overrun" ELSE "inflate"
  /\ block' = bufsize' /\ room' = bufsize'
  /\ UNCHANGED <<input, streamVars, got, blocks, return>>
GrowReturns ==
  /\ pc = "grow" /\ Return(0)
  /\ UNCHANGED <<input, streamVars, blockVars, got, blocks>>

\* Z_OK without the end: a block of twice what was produced takes over.  Where
\* twice that wraps it is too small for the copy, and the copy runs past it.
Grow ==
  /\ pc = "grow"
  /\ bufsize' = (got * 2) % Word
  /\ \/ /\ pc' = IF got > bufsize' THEN "overrun" ELSE "inflate"
        /\ block' = bufsize'
        /\ room' = (bufsize' - got) % Word
        /\ UNCHANGED <<blocks, return>>
     \/ /\ AllocMayFail
        /\ Return(-7) /\ blocks' = blocks - 1
        /\ UNCHANGED <<block, room>>
  /\ UNCHANGED <<input, streamVars, got>>

Next ==
  \/ TooShort \/ Start \/ Inflate \/ EndStream \/ Fail \/ Grow

Spec == Init /\ [][Next]_vars

-------------------------------------------------------------------------------
(* Properties. *)

TypeOK ==
  /\ pc \in {"start", "inflate", "grow", "overrun", "end", "fail", "returned"}
  /\ input \in 0..MaxInput /\ text \in 0..MaxText /\ good \in BOOLEAN
  /\ {block, got, room, bufsize} \subseteq 0..(Word - 1)
  /\ blocks \in Int /\ return \in {-7, -6, -5, -4, -3, -2, 0, 1}

\* zlib is never told of more room than the block has left, whatever the guess
\* comes to, and nothing is copied past a block unless a body has inflated to
\* half of what an unsigned int counts: below that neither the guess, which may
\* wrap, nor the doubling makes a block too small (httpzip.c:61, 122-140).
WithinBlock ==
  /\ pc = "inflate" => got + room <= block
  /\ pc = "overrun" => 2 * got >= Word

\* 0 is returned for the whole text of a stream and for nothing less: a stream
\* that was cut off is an error, however the block was sized meanwhile.
TextIsWhole == return = 0 => good /\ got = text

\* Every return leaves one block, the result, or none.
BlocksFreed == pc = "returned" => blocks = IF return = 0 THEN 1 ELSE 0
===============================================================================
