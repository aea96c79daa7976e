----------------------------- MODULE MCBitVector ------------------------------
(* BitVector with one code of half a byte: every other length ends a byte. *)
EXTENDS BitVector

MCChunk == {<<1, 0, 1, 1>>}
===============================================================================
