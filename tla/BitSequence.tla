----------------------------- MODULE BitSequence -----------------------------
(***************************************************************************)
(* What the vectors of bits of src/webgraph-v2.1/bitvector.h promise: each *)
(* is a sequence of bits, and the file one of them was written to gives    *)
(* the same sequence back.                                                 *)
(***************************************************************************)
EXTENDS Integers, Sequences

CONSTANTS
  Vector, \* the vectors of the program
  Chunk,  \* the sequences of bits they are made from and grow by
  Position \* the positions a part of one is taken from

VARIABLES
  bits,   \* of each vector
  written \* the sequence in the file

\* The vector v becomes the sequence s.
Becomes(v, s) == bits' = [bits EXCEPT ![v] = s] /\ UNCHANGED written

\* A position past the end reads as 0.
Sub(s, position, length) ==
  [i \in 1..length |-> IF position + i <= Len(s) THEN s[position + i] ELSE 0]

Init == bits = [v \in Vector |-> <<>>] /\ written = <<>>

Next ==
  \/ \E v \in Vector, chunk \in Chunk : Becomes(v, chunk) \/ Becomes(v, bits[v] \o chunk)
  \/ \E v, w \in Vector : Becomes(v, bits[v] \o bits[w]) \/ Becomes(v, bits[w])
  \/ \E v, w \in Vector, chunk \in Chunk, position \in Position :
       Becomes(v, Sub(bits[w], position, Len(chunk)))
  \/ \E v \in Vector : Becomes(v, <<>>) \/ Becomes(v, written)
  \/ \E v \in Vector : written' = bits[v] /\ UNCHANGED bits

Spec == Init /\ [][Next]_<<bits, written>>
==============================================================================
