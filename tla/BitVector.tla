------------------------------ MODULE BitVector -------------------------------
(***************************************************************************)
(* class BitVector of src/webgraph-v2.1/bitvector.cpp: the bits of a code, *)
(* kept in an array of bytes that grows as bits are appended.  A vector is *)
(* made, appended to, copied, written to a file and filled from it.  The   *)
(* file is the one of write_result and the constructor of Decompress: the  *)
(* number of bits, then the bytes.                                         *)
(***************************************************************************)
EXTENDS Integers, Sequences

CONSTANTS
  Vector,    \* the vectors of the program
  Chunk,     \* the sequences of bits they are made from and grow by
  Position,  \* the positions a part of a vector is taken from
  MaxLength, \* bound: no vector grows beyond this many bits
  Unwritten  \* a bit of memory nobody has written yet

Bit == {0, 1}

ASSUME VectorAssumption ==
  /\ Chunk \subseteq Seq(Bit)
  /\ Position \subseteq Nat
  /\ MaxLength \in Nat
  /\ Unwritten \notin Bit

VARIABLES
  bit_length,  \* the bits of each vector
  char_length, \* the bytes of its array
  bit_vector,  \* the bits of its array, eight a byte, the first at 0
  filled,      \* fill allocated the array, and nothing was appended since (history)
  file         \* the file: the number of bits and the bits of its bytes

vars == <<bit_length, char_length, bit_vector, filled, file>>

Fresh(bytes) == [i \in 0..8 * bytes - 1 |-> Unwritten]

Init ==
  /\ bit_length = [v \in Vector |-> 0]
  /\ char_length = [v \in Vector |-> 1]
  /\ bit_vector = [v \in Vector |-> Fresh(1)]
  /\ filled = [v \in Vector |-> FALSE]
  /\ file = [length |-> 0, bytes |-> Fresh(0)]

\* The vector v is given an array and a length; made tells whether fill did it.
Put(v, length, bytes, array, made) ==
  /\ bit_length' = [bit_length EXCEPT ![v] = length]
  /\ char_length' = [char_length EXCEPT ![v] = bytes]
  /\ bit_vector' = [bit_vector EXCEPT ![v] = array]
  /\ filled' = [filled EXCEPT ![v] = made]
  /\ UNCHANGED file

\* The bytes that hold a number of bits, for an array that is never full.
Bytes(length) == length \div 8 + 1
\* MUTANT: the bytes of the last, partial one are forgotten.
RoomyFloor(length) == ((length \div 8) * 3) \div 2
\* The same with half as much again.
Roomy(length) == (Bytes(length) * 3) \div 2
\* ceil(length * 1.0 / 8)
Ceiling(length) == (length + 7) \div 8

\* set and clr, for the bits from first on.
Written(array, first, s) ==
  [i \in DOMAIN array |-> IF i \in first..first + Len(s) - 1 THEN s[i - first + 1] ELSE array[i]]

\* MUTANT: the last bit of the vector cannot be read.
TestShort(v, index) == IF index + 1 >= bit_length[v] THEN 0 ELSE bit_vector[v][index]

\* test: a position past the end reads as 0.
Test(v, index) == IF index >= bit_length[v] THEN 0 ELSE bit_vector[v][index]

\* The bits of a vector, as its reader gets them one after the other.
Read(v) == [i \in 1..bit_length[v] |-> Test(v, i - 1)]

\* BitVector(list): from a sequence of characters.
Construct(v, chunk) ==
  Put(v, Len(chunk), Roomy(Len(chunk)), Written(Fresh(Roomy(Len(chunk))), 0, chunk), FALSE)

\* BitVector(length), whose maker sets or clears every bit (gamma_encoding,
\* encode_bitvector, get_sub).
ConstructLength(v, s) ==
  Put(v, Len(s), Bytes(Len(s)), Written(Fresh(Bytes(Len(s))), 0, s), FALSE)

\* memcpy of the old array into a larger one.
Copied(array, bytes) ==
  [i \in 0..8 * bytes - 1 |-> IF i \in DOMAIN array THEN array[i] ELSE Unwritten]

\* MUTANT: the array may be filled to its last bit.
GrownLate(v, size) ==
  IF size <= 8 * char_length[v] THEN char_length[v] ELSE Roomy(size)

\* The test of append and adjust_size: the bytes the array has for size bits.
Grown(v, size) == IF size >= 8 * char_length[v] THEN Roomy(size) ELSE char_length[v]

\* append
AppendBits(v, s) ==
  LET size == bit_length[v] + Len(s)
      bytes == Grown(v, size)
  IN /\ size <= MaxLength
     /\ Put(v, size, bytes, Written(Copied(bit_vector[v], bytes), bit_length[v], s), FALSE)

\* append of another vector, whose bits are read with test.
AppendVector(v, w) == v # w /\ AppendBits(v, Read(w))

\* The copy constructor: bit_length / 8 + 1 bytes are copied.
CopyConstruct(v, w) ==
  LET bytes == Bytes(bit_length[w]) IN
  v # w /\ Put(v, bit_length[w], bytes, Copied(bit_vector[w], bytes), FALSE)

\* operator=: the array is copied as it is.
Assign(v, w) ==
  v # w /\ Put(v, bit_length[w], char_length[w], bit_vector[w], filled[w])

\* reset; an empty vector keeps its array.
Reset(v) ==
  /\ bit_length[v] > 0
  /\ Put(v, 0, Bytes(0), Fresh(Bytes(0)), FALSE)

\* get_sub
GetSub(v, w, position, length) ==
  v # w /\ ConstructLength(v, [i \in 1..length |-> Test(w, position + i - 1)])

\* operator<<, behind the number of bits.
Write(v) ==
  /\ file' = [length |-> bit_length[v],
              bytes |-> [i \in 0..8 * Ceiling(bit_length[v]) - 1 |->
                           IF i \in DOMAIN bit_vector[v] THEN bit_vector[v][i] ELSE Unwritten]]
  /\ UNCHANGED <<bit_length, char_length, bit_vector, filled>>

\* fill
Fill(v) == Put(v, file.length, Ceiling(file.length), file.bytes, TRUE)

Next ==
  \/ \E v \in Vector, chunk \in Chunk :
       Construct(v, chunk) \/ ConstructLength(v, chunk) \/ AppendBits(v, chunk)
  \/ \E v, w \in Vector : AppendVector(v, w) \/ CopyConstruct(v, w) \/ Assign(v, w)
  \/ \E v, w \in Vector, chunk \in Chunk, position \in Position :
       GetSub(v, w, position, Len(chunk))
  \/ \E v \in Vector : Reset(v) \/ Write(v) \/ Fill(v)

Spec == Init /\ [][Next]_vars

-------------------------------------------------------------------------------
(* Properties. *)

\* Every bit of a vector lies in its array and was written, and so does every
\* byte operator<< takes from it: append makes the array larger in time.
BitsInside ==
  \A v \in Vector :
    /\ DOMAIN bit_vector[v] = 0..8 * char_length[v] - 1
    /\ Ceiling(bit_length[v]) <= char_length[v]
    /\ \A i \in 0..bit_length[v] - 1 : bit_vector[v][i] \in Bit

\* The copy constructor reads one byte more than full bytes of bits: it stays
\* inside the array of every vector, but for one that fill has allocated and
\* nobody has appended to.
CopyInside ==
  \A v \in Vector : ~filled[v] => Bytes(bit_length[v]) <= char_length[v]

\* Whatever the array, a vector reads as the sequence of bits that were put into
\* it, through copies, growth and a file.
Sequence == INSTANCE BitSequence WITH
  bits <- [v \in Vector |-> Read(v)],
  written <- [i \in 1..file.length |-> file.bytes[i - 1]]

SequenceSpec == Sequence!Spec
===============================================================================
