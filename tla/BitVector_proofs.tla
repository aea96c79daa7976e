--------------------------- MODULE BitVector_proofs ----------------------------
(***************************************************************************)
(* Theorems about BitVector, for any vectors, any codes and any lengths:   *)
(* the bits stay inside the arrays, and the arrays implement sequences.    *)
(***************************************************************************)
EXTENDS BitVector, TLAPS

USE VectorAssumption

Memory == Bit \cup {Unwritten}

\* An array of so many bytes that holds a vector of so many bits.  One that fill
\* did not make has a bit to spare, for append to find it not yet full.
Good(length, bytes, array, made) ==
  /\ length \in Nat /\ bytes \in Nat /\ made \in BOOLEAN
  /\ array \in [0..8 * bytes - 1 -> Memory]
  /\ length <= 8 * bytes
  /\ ~made => length < 8 * bytes
  /\ \A i \in 0..length - 1 : array[i] \in Bit

\* The array begins with the bits of the sequence.
Holds(array, s) == \A i \in 1..Len(s) : array[i - 1] = s[i]

FileInv ==
  /\ file.length \in Nat
  /\ file.bytes \in [0..8 * Ceiling(file.length) - 1 -> Memory]
  /\ \A i \in 0..file.length - 1 : file.bytes[i] \in Bit

Inv ==
  /\ DOMAIN bit_length = Vector /\ DOMAIN char_length = Vector
  /\ DOMAIN bit_vector = Vector /\ DOMAIN filled = Vector
  /\ \A v \in Vector : Good(bit_length[v], char_length[v], bit_vector[v], filled[v])
  /\ FileInv

-------------------------------------------------------------------------------
(* The sizes of the arrays. *)

LEMMA SizesFit ==
  ASSUME NEW n \in Nat
  PROVE  /\ Bytes(n) \in Nat /\ n < 8 * Bytes(n)
         /\ Roomy(n) \in Nat /\ n < 8 * Roomy(n)
         /\ Ceiling(n) \in Nat /\ n <= 8 * Ceiling(n)
<1>1. Bytes(n) \in Nat /\ n < 8 * Bytes(n)
  BY DEF Bytes
<1>2. Ceiling(n) \in Nat /\ n <= 8 * Ceiling(n)
  BY DEF Ceiling
<1>3. Roomy(n) \in Nat /\ Roomy(n) >= Bytes(n)
  BY <1>1 DEF Roomy
<1> QED
  BY <1>1, <1>2, <1>3

\* The least number of bytes with room for n bits.
LEMMA CeilingLeast ==
  ASSUME NEW n \in Nat, NEW bytes \in Nat, n <= 8 * bytes
  PROVE  Ceiling(n) <= bytes
BY DEF Ceiling

LEMMA BytesLeast ==
  ASSUME NEW n \in Nat, NEW bytes \in Nat, n < 8 * bytes
  PROVE  Bytes(n) <= bytes
BY DEF Bytes

-------------------------------------------------------------------------------
(* The arrays. *)

LEMMA FreshType ==
  ASSUME NEW bytes \in Nat
  PROVE  Fresh(bytes) \in [0..8 * bytes - 1 -> Memory]
BY DEF Fresh, Memory

\* What set and clr leave in an array, behind the bits it holds already.
LEMMA WrittenHolds ==
  ASSUME NEW bytes \in Nat, NEW array \in [0..8 * bytes - 1 -> Memory],
         NEW r \in Seq(Bit), Holds(array, r), NEW s \in Seq(Bit),
         Len(r) + Len(s) <= 8 * bytes
  PROVE  /\ Written(array, Len(r), s) \in [0..8 * bytes - 1 -> Memory]
         /\ \A i \in 0..Len(r) + Len(s) - 1 : Written(array, Len(r), s)[i] \in Bit
         /\ Holds(Written(array, Len(r), s), r \o s)
<1> DEFINE a == Written(array, Len(r), s)
<1>1. /\ Len(r) \in Nat /\ Len(s) \in Nat
      /\ \A i \in 1..Len(r) : r[i] \in Bit
      /\ \A i \in 1..Len(s) : s[i] \in Bit
  OBVIOUS
<1>2. a = [i \in 0..8 * bytes - 1 |->
             IF i \in Len(r)..Len(r) + Len(s) - 1 THEN s[i - Len(r) + 1] ELSE array[i]]
  BY DEF Written
<1>3. ASSUME NEW i \in 0..8 * bytes - 1
      PROVE  /\ i \in Len(r)..Len(r) + Len(s) - 1 => a[i] = s[i - Len(r) + 1] /\ a[i] \in Bit
             /\ i \notin Len(r)..Len(r) + Len(s) - 1 => a[i] = array[i]
  <2>1. i \in Len(r)..Len(r) + Len(s) - 1 => i - Len(r) + 1 \in 1..Len(s)
    BY <1>1
  <2> HIDE DEF a
  <2> QED
    BY <1>1, <1>2, <2>1
<1> HIDE DEF a
<1>4. a \in [0..8 * bytes - 1 -> Memory]
  <2>1. \A i \in 0..8 * bytes - 1 : a[i] \in Memory
    BY <1>3 DEF Memory
  <2> QED
    BY <1>2, <2>1
<1>5. ASSUME NEW i \in 1..Len(r)
      PROVE  a[i - 1] = r[i]
  <2>1. i - 1 \in 0..8 * bytes - 1 /\ i - 1 \notin Len(r)..Len(r) + Len(s) - 1
    BY <1>1
  <2>2. a[i - 1] = array[i - 1]
    BY <1>3, <2>1
  <2> QED
    BY <2>2 DEF Holds
<1>6. ASSUME NEW i \in 1..Len(s)
      PROVE  a[Len(r) + i - 1] = s[i]
  <2>1. PICK k \in Int : k = Len(r) + i - 1
    BY <1>1
  <2>2. /\ k \in 0..8 * bytes - 1 /\ k \in Len(r)..Len(r) + Len(s) - 1
        /\ k - Len(r) + 1 = i
    BY <1>1, <2>1
  <2>3. a[k] = s[i]
    BY <1>3, <2>2
  <2> QED
    BY <2>1, <2>3
<1>7. \A i \in 0..Len(r) + Len(s) - 1 : a[i] \in Bit
  <2> SUFFICES ASSUME NEW i \in 0..Len(r) + Len(s) - 1
               PROVE  a[i] \in Bit
    OBVIOUS
  <2>1. CASE i < Len(r)
    <3>1. i + 1 \in 1..Len(r) /\ i + 1 - 1 = i
      BY <1>1, <2>1
    <3> QED
      BY <1>1, <1>5, <3>1
  <2>2. CASE i >= Len(r)
    <3>1. i \in 0..8 * bytes - 1 /\ i \in Len(r)..Len(r) + Len(s) - 1
      BY <1>1, <2>2
    <3> QED
      BY <1>3, <3>1
  <2> QED
    BY <1>1, <2>1, <2>2
<1>8. Holds(a, r \o s)
  <2>1. Len(r \o s) = Len(r) + Len(s)
    OBVIOUS
  <2>2. SUFFICES ASSUME NEW i \in 1..Len(r) + Len(s)
                 PROVE  a[i - 1] = (r \o s)[i]
    BY <2>1 DEF Holds
  <2>3. CASE i <= Len(r)
    BY <1>1, <1>5, <2>3
  <2>4. CASE i > Len(r)
    <3>1. /\ i - Len(r) \in 1..Len(s)
          /\ Len(r) + (i - Len(r)) - 1 = i - 1
          /\ (r \o s)[i] = s[i - Len(r)]
      BY <1>1, <2>4
    <3> QED
      BY <1>6, <3>1
  <2> QED
    BY <1>1, <2>3, <2>4
<1> QED
  BY <1>4, <1>7, <1>8 DEF a

\* The beginning of an array in another one.
LEMMA CopiedHolds ==
  ASSUME NEW old \in Nat, NEW array \in [0..8 * old - 1 -> Memory],
         NEW r \in Seq(Bit), Holds(array, r), Len(r) <= 8 * old,
         NEW bytes \in Nat, Len(r) <= 8 * bytes
  PROVE  /\ Copied(array, bytes) \in [0..8 * bytes - 1 -> Memory]
         /\ Holds(Copied(array, bytes), r)
<1>1. Copied(array, bytes) \in [0..8 * bytes - 1 -> Memory]
  BY DEF Copied, Memory
<1>2. ASSUME NEW i \in 1..Len(r)
      PROVE  Copied(array, bytes)[i - 1] = r[i]
  <2>1. i - 1 \in 0..8 * bytes - 1 /\ i - 1 \in 0..8 * old - 1
    OBVIOUS
  <2> QED
    BY <2>1 DEF Copied, Holds
<1> QED
  BY <1>1, <1>2 DEF Holds

-------------------------------------------------------------------------------
(* What the actions give a vector. *)

\* The bits of a vector and of the file, as sequences.
LEMMA ReadType ==
  ASSUME Inv, NEW v \in Vector
  PROVE  /\ Read(v) \in Seq(Bit) /\ Len(Read(v)) = bit_length[v]
         /\ Holds(bit_vector[v], Read(v))
         /\ \A i \in Nat : Test(v, i) = IF i < Len(Read(v)) THEN Read(v)[i + 1] ELSE 0
<1>1. Good(bit_length[v], char_length[v], bit_vector[v], filled[v])
  BY DEF Inv
<1>2. bit_length[v] \in Nat
  BY <1>1 DEF Good
<1>3. \A i \in 0..bit_length[v] - 1 : Test(v, i) = bit_vector[v][i] /\ Test(v, i) \in Bit
  BY <1>1, <1>2 DEF Test, Good
<1>4. \A i \in 1..bit_length[v] : i - 1 \in 0..bit_length[v] - 1
  BY <1>2
<1>5. Read(v) = [i \in 1..bit_length[v] |-> Test(v, i - 1)]
  BY DEF Read
<1>6. \A i \in 1..bit_length[v] : Test(v, i - 1) \in Bit
  BY <1>3, <1>4
<1>7. Read(v) \in Seq(Bit) /\ Len(Read(v)) = bit_length[v]
  BY <1>2, <1>5, <1>6
<1>8. Holds(bit_vector[v], Read(v))
  BY <1>3, <1>4, <1>5, <1>7 DEF Holds
<1>9. ASSUME NEW i \in Nat
      PROVE  Test(v, i) = IF i < Len(Read(v)) THEN Read(v)[i + 1] ELSE 0
  <2>1. CASE i < bit_length[v]
    <3>1. i + 1 \in 1..bit_length[v] /\ i + 1 - 1 = i
      BY <1>2, <2>1
    <3>2. Read(v)[i + 1] = Test(v, i + 1 - 1)
      BY <1>5, <3>1
    <3> QED
      BY <1>7, <2>1, <3>1, <3>2
  <2>2. CASE i >= bit_length[v]
    BY <1>2, <1>7, <2>2 DEF Test
  <2> QED
    BY <1>2, <2>1, <2>2
<1> QED
  BY <1>7, <1>8, <1>9

LEMMA FileType ==
  ASSUME Inv
  PROVE  LET written == [i \in 1..file.length |-> file.bytes[i - 1]]
         IN /\ written \in Seq(Bit) /\ Len(written) = file.length
            /\ Holds(file.bytes, written)
<1>1. /\ file.length \in Nat
      /\ \A i \in 0..file.length - 1 : file.bytes[i] \in Bit
  BY DEF Inv, FileInv
<1>2. \A i \in 1..file.length : file.bytes[i - 1] \in Bit
  BY <1>1
<1> QED
  BY <1>1, <1>2 DEF Holds

\* A vector that is given a good array, which holds a sequence, becomes it.
LEMMA PutSafe ==
  ASSUME Inv, NEW v \in Vector, NEW length, NEW bytes, NEW array, NEW made,
         Put(v, length, bytes, array, made), Good(length, bytes, array, made),
         NEW s \in Seq(Bit), Len(s) = length, Holds(array, s)
  PROVE  Inv' /\ Sequence!Becomes(v, s)
<1>1. /\ bit_length' = [bit_length EXCEPT ![v] = length]
      /\ char_length' = [char_length EXCEPT ![v] = bytes]
      /\ bit_vector' = [bit_vector EXCEPT ![v] = array]
      /\ filled' = [filled EXCEPT ![v] = made]
      /\ file' = file
  BY DEF Put
<1>2. /\ DOMAIN bit_length' = Vector /\ DOMAIN char_length' = Vector
      /\ DOMAIN bit_vector' = Vector /\ DOMAIN filled' = Vector
  BY <1>1 DEF Inv
<1>3. /\ bit_length'[v] = length /\ char_length'[v] = bytes
      /\ bit_vector'[v] = array /\ filled'[v] = made
  BY <1>1 DEF Inv
<1>4. \A w \in Vector \ {v} :
        /\ bit_length'[w] = bit_length[w] /\ char_length'[w] = char_length[w]
        /\ bit_vector'[w] = bit_vector[w] /\ filled'[w] = filled[w]
  BY <1>1 DEF Inv
<1>5. Inv'
  <2>1. ASSUME NEW w \in Vector
        PROVE  Good(bit_length'[w], char_length'[w], bit_vector'[w], filled'[w])
    <3>1. CASE w = v
      BY <1>3, <3>1
    <3>2. CASE w # v
      <4>1. Good(bit_length[w], char_length[w], bit_vector[w], filled[w])
        BY DEF Inv
      <4> QED
        BY <1>4, <3>2, <4>1
    <3> QED
      BY <3>1, <3>2
  <2>2. FileInv'
    BY <1>1 DEF Inv, FileInv
  <2> QED
    BY <1>2, <2>1, <2>2 DEF Inv
<1>6. Read(v)' = s
  <2>1. Read(v)' = [i \in 1..length |-> IF i - 1 >= length THEN 0 ELSE array[i - 1]]
    BY <1>3 DEF Read, Test
  <2>2. s = [i \in 1..length |-> s[i]] /\ length \in Nat
    BY DEF Good
  <2>3. \A i \in 1..length : ~(i - 1 >= length) /\ array[i - 1] = s[i]
    BY <2>2 DEF Holds
  <2> QED
    BY <2>1, <2>2, <2>3
<1>7. ASSUME NEW w \in Vector, w # v
      PROVE  Read(w)' = Read(w)
  BY <1>4, <1>7 DEF Read, Test
<1>8. [w \in Vector |-> Read(w)]' = [[w \in Vector |-> Read(w)] EXCEPT ![v] = s]
  BY <1>6, <1>7
<1> QED
  BY <1>1, <1>5, <1>8 DEF Sequence!Becomes

-------------------------------------------------------------------------------
(* The actions. *)

LEMMA EmptyHolds ==
  ASSUME NEW bytes \in Nat
  PROVE  <<>> \in Seq(Bit) /\ Holds(Fresh(bytes), <<>>)
BY DEF Holds

\* An array of its own for a sequence: both constructors, and get_sub.
LEMMA MadeGood ==
  ASSUME NEW s \in Seq(Bit), NEW bytes \in Nat, Len(s) < 8 * bytes
  PROVE  /\ Good(Len(s), bytes, Written(Fresh(bytes), 0, s), FALSE)
         /\ Holds(Written(Fresh(bytes), 0, s), s)
<1>1. /\ Len(<<>>) = 0 /\ Len(s) \in Nat
      /\ <<>> \o s = s
  OBVIOUS
<1>2. /\ Written(Fresh(bytes), 0, s) \in [0..8 * bytes - 1 -> Memory]
      /\ \A i \in 0..Len(s) - 1 : Written(Fresh(bytes), 0, s)[i] \in Bit
      /\ Holds(Written(Fresh(bytes), 0, s), s)
  <2>1. Fresh(bytes) \in [0..8 * bytes - 1 -> Memory]
    BY FreshType
  <2>2. Len(<<>>) + Len(s) = Len(s) /\ Len(s) <= 8 * bytes
    BY <1>1
  <2> QED
    BY <1>1, <2>1, <2>2, WrittenHolds, EmptyHolds
<1> QED
  BY <1>1, <1>2 DEF Good

LEMMA ConstructLengthSafe ==
  ASSUME Inv, NEW v \in Vector, NEW s \in Seq(Bit), ConstructLength(v, s)
  PROVE  Inv' /\ Sequence!Becomes(v, s)
<1>1. Len(s) \in Nat
  OBVIOUS
<1>2. Bytes(Len(s)) \in Nat /\ Len(s) < 8 * Bytes(Len(s))
  BY <1>1, SizesFit
<1>3. /\ Good(Len(s), Bytes(Len(s)), Written(Fresh(Bytes(Len(s))), 0, s), FALSE)
      /\ Holds(Written(Fresh(Bytes(Len(s))), 0, s), s)
  BY <1>2, MadeGood
<1> QED
  BY <1>3, PutSafe DEF ConstructLength

LEMMA ConstructSafe ==
  ASSUME Inv, NEW v \in Vector, NEW chunk \in Seq(Bit), Construct(v, chunk)
  PROVE  Inv' /\ Sequence!Becomes(v, chunk)
<1>1. Len(chunk) \in Nat
  OBVIOUS
<1>2. Roomy(Len(chunk)) \in Nat /\ Len(chunk) < 8 * Roomy(Len(chunk))
  BY <1>1, SizesFit
<1>3. /\ Good(Len(chunk), Roomy(Len(chunk)), Written(Fresh(Roomy(Len(chunk))), 0, chunk), FALSE)
      /\ Holds(Written(Fresh(Roomy(Len(chunk))), 0, chunk), chunk)
  BY <1>2, MadeGood
<1> QED
  BY <1>3, PutSafe DEF Construct

LEMMA AppendSafe ==
  ASSUME Inv, NEW v \in Vector, NEW s \in Seq(Bit), AppendBits(v, s)
  PROVE  Inv' /\ Sequence!Becomes(v, Read(v) \o s)
<1> DEFINE r == Read(v)
           size == bit_length[v] + Len(s)
           bytes == Grown(v, size)
           array == Copied(bit_vector[v], bytes)
<1>1. Good(bit_length[v], char_length[v], bit_vector[v], filled[v])
  BY DEF Inv
<1>2. r \in Seq(Bit) /\ Len(r) = bit_length[v] /\ Holds(bit_vector[v], r)
  BY ReadType
<1>3. /\ size \in Nat /\ char_length[v] \in Nat /\ Len(s) \in Nat
      /\ Len(r) <= size /\ Len(r) <= 8 * char_length[v]
  BY <1>1, <1>2 DEF Good
<1>4. bytes \in Nat /\ size < 8 * bytes
  <2>1. Roomy(size) \in Nat /\ size < 8 * Roomy(size)
    BY <1>3, SizesFit
  <2> QED
    BY <1>3, <2>1 DEF Grown
<1>5. Put(v, size, bytes, Written(array, Len(r), s), FALSE)
  BY <1>2 DEF AppendBits
<1> HIDE DEF r, size, bytes
<1>6. bit_vector[v] \in [0..8 * char_length[v] - 1 -> Memory]
  BY <1>1 DEF Good
<1>7. array \in [0..8 * bytes - 1 -> Memory] /\ Holds(array, r)
  <2>1. Len(r) <= 8 * bytes
    BY <1>2, <1>3, <1>4
  <2> QED
    BY <1>2, <1>3, <1>4, <1>6, <2>1, CopiedHolds
<1> HIDE DEF array
<1>8. Len(r) + Len(s) = size
  BY <1>2 DEF size
<1>9. /\ Written(array, Len(r), s) \in [0..8 * bytes - 1 -> Memory]
      /\ \A i \in 0..size - 1 : Written(array, Len(r), s)[i] \in Bit
      /\ Holds(Written(array, Len(r), s), r \o s)
  <2>1. Len(r) + Len(s) <= 8 * bytes
    BY <1>3, <1>4, <1>8
  <2> QED
    BY <1>2, <1>4, <1>7, <1>8, <2>1, WrittenHolds
<1>10. Good(size, bytes, Written(array, Len(r), s), FALSE)
  BY <1>3, <1>4, <1>9 DEF Good
<1>11. r \o s \in Seq(Bit) /\ Len(r \o s) = size
  BY <1>2, <1>8
<1>12. Inv' /\ Sequence!Becomes(v, r \o s)
  BY <1>5, <1>9, <1>10, <1>11, PutSafe
<1> QED
  BY <1>12 DEF r

LEMMA CopySafe ==
  ASSUME Inv, NEW v \in Vector, NEW w \in Vector, CopyConstruct(v, w)
  PROVE  Inv' /\ Sequence!Becomes(v, Read(w))
<1> DEFINE bytes == Bytes(bit_length[w])
           array == Copied(bit_vector[w], bytes)
<1>1. Good(bit_length[w], char_length[w], bit_vector[w], filled[w])
  BY DEF Inv
<1>2. /\ Read(w) \in Seq(Bit) /\ Len(Read(w)) = bit_length[w]
      /\ Holds(bit_vector[w], Read(w))
  BY ReadType
<1>3. /\ bit_length[w] \in Nat /\ char_length[w] \in Nat
      /\ bit_length[w] <= 8 * char_length[w]
      /\ bit_vector[w] \in [0..8 * char_length[w] - 1 -> Memory]
  BY <1>1 DEF Good
<1>4. bytes \in Nat /\ bit_length[w] < 8 * bytes
  BY <1>3, SizesFit
<1>5. Put(v, bit_length[w], bytes, array, FALSE)
  BY DEF CopyConstruct
<1> HIDE DEF bytes
<1>6. array \in [0..8 * bytes - 1 -> Memory] /\ Holds(array, Read(w))
  <2>1. Len(Read(w)) <= 8 * bytes /\ Len(Read(w)) <= 8 * char_length[w]
    BY <1>2, <1>3, <1>4
  <2> QED
    BY <1>2, <1>3, <1>4, <2>1, CopiedHolds
<1> HIDE DEF array
<1>7. \A i \in 0..bit_length[w] - 1 : array[i] \in Bit
  <2> SUFFICES ASSUME NEW i \in 0..bit_length[w] - 1
               PROVE  array[i] \in Bit
    OBVIOUS
  <2>1. i + 1 \in 1..Len(Read(w)) /\ i + 1 - 1 = i
    BY <1>2, <1>3
  <2>2. Read(w)[i + 1] \in Bit
    BY <1>2, <2>1
  <2>3. array[i + 1 - 1] = Read(w)[i + 1]
    BY <1>6, <2>1 DEF Holds
  <2> QED
    BY <2>1, <2>2, <2>3
<1>8. Good(bit_length[w], bytes, array, FALSE)
  BY <1>3, <1>4, <1>6, <1>7 DEF Good
<1> QED
  BY <1>2, <1>5, <1>6, <1>8, PutSafe

LEMMA AssignSafe ==
  ASSUME Inv, NEW v \in Vector, NEW w \in Vector, Assign(v, w)
  PROVE  Inv' /\ Sequence!Becomes(v, Read(w))
<1>1. Good(bit_length[w], char_length[w], bit_vector[w], filled[w])
  BY DEF Inv
<1>2. /\ Read(w) \in Seq(Bit) /\ Len(Read(w)) = bit_length[w]
      /\ Holds(bit_vector[w], Read(w))
  BY ReadType
<1> QED
  BY <1>1, <1>2, PutSafe DEF Assign

LEMMA ResetSafe ==
  ASSUME Inv, NEW v \in Vector, Reset(v)
  PROVE  Inv' /\ Sequence!Becomes(v, <<>>)
<1>1. Bytes(0) \in Nat /\ 0 < 8 * Bytes(0) /\ 0 <= 8 * Bytes(0)
  BY SizesFit
<1>2. Fresh(Bytes(0)) \in [0..8 * Bytes(0) - 1 -> Memory]
  BY <1>1, FreshType
<1>3. Good(0, Bytes(0), Fresh(Bytes(0)), FALSE)
  BY <1>1, <1>2 DEF Good
<1>4. /\ <<>> \in Seq(Bit) /\ Len(<<>>) = 0
      /\ Holds(Fresh(Bytes(0)), <<>>)
  BY <1>1, EmptyHolds
<1> QED
  BY <1>3, <1>4, PutSafe DEF Reset

LEMMA FillSafe ==
  ASSUME Inv, NEW v \in Vector, Fill(v)
  PROVE  Inv' /\ Sequence!Becomes(v, [i \in 1..file.length |-> file.bytes[i - 1]])
<1>1. /\ file.length \in Nat
      /\ file.bytes \in [0..8 * Ceiling(file.length) - 1 -> Memory]
      /\ \A i \in 0..file.length - 1 : file.bytes[i] \in Bit
  BY DEF Inv, FileInv
<1>2. Ceiling(file.length) \in Nat /\ file.length <= 8 * Ceiling(file.length)
  BY <1>1, SizesFit
<1>3. Good(file.length, Ceiling(file.length), file.bytes, TRUE)
  BY <1>1, <1>2 DEF Good
<1> QED
  BY <1>3, FileType, PutSafe DEF Fill

\* operator<< leaves the vectors alone and replaces the file.
LEMMA WriteSafe ==
  ASSUME Inv, NEW v \in Vector, Write(v)
  PROVE  /\ Inv'
         /\ [i \in 1..file.length |-> file.bytes[i - 1]]' = Read(v)
         /\ [w \in Vector |-> Read(w)]' = [w \in Vector |-> Read(w)]
<1>1. Good(bit_length[v], char_length[v], bit_vector[v], filled[v])
  BY DEF Inv
<1>2. /\ bit_length[v] \in Nat /\ char_length[v] \in Nat
      /\ bit_vector[v] \in [0..8 * char_length[v] - 1 -> Memory]
      /\ bit_length[v] <= 8 * char_length[v]
      /\ \A i \in 0..bit_length[v] - 1 : bit_vector[v][i] \in Bit
  BY <1>1 DEF Good
<1>3. Ceiling(bit_length[v]) \in Nat /\ bit_length[v] <= 8 * Ceiling(bit_length[v])
  BY <1>2, SizesFit
<1>4. /\ file'.length = bit_length[v]
      /\ file'.bytes = [i \in 0..8 * Ceiling(bit_length[v]) - 1 |->
                          IF i \in DOMAIN bit_vector[v] THEN bit_vector[v][i] ELSE Unwritten]
  BY DEF Write
<1>5. UNCHANGED <<bit_length, char_length, bit_vector, filled>>
  BY DEF Write
<1>6. ASSUME NEW i \in 0..bit_length[v] - 1
      PROVE  file'.bytes[i] = bit_vector[v][i]
  <2>1. i \in 0..8 * Ceiling(bit_length[v]) - 1 /\ i \in 0..8 * char_length[v] - 1
    BY <1>2, <1>3
  <2> QED
    BY <1>2, <1>4, <2>1
<1>7. file'.bytes \in [0..8 * Ceiling(bit_length[v]) - 1 -> Memory]
  BY <1>2, <1>4 DEF Memory
<1>8. Inv'
  <2>1. FileInv'
    BY <1>2, <1>4, <1>6, <1>7 DEF FileInv
  <2>2. \A w \in Vector : Good(bit_length[w], char_length[w], bit_vector[w], filled[w])'
    BY <1>5 DEF Inv, Good
  <2> QED
    BY <1>5, <2>1, <2>2 DEF Inv
<1>9. [i \in 1..file.length |-> file.bytes[i - 1]]' = Read(v)
  <2>1. [i \in 1..file.length |-> file.bytes[i - 1]]' =
          [i \in 1..bit_length[v] |-> file'.bytes[i - 1]]
    BY <1>4
  <2>2. \A i \in 1..bit_length[v] :
          /\ i - 1 \in 0..bit_length[v] - 1 /\ ~(i - 1 >= bit_length[v])
    BY <1>2
  <2>3. \A i \in 1..bit_length[v] : file'.bytes[i - 1] = Test(v, i - 1)
    BY <1>6, <2>2 DEF Test
  <2> QED
    BY <2>1, <2>3 DEF Read
<1>10. [w \in Vector |-> Read(w)]' = [w \in Vector |-> Read(w)]
  BY <1>5 DEF Read, Test
<1> QED
  BY <1>8, <1>9, <1>10

LEMMA GetSubSafe ==
  ASSUME Inv, NEW v \in Vector, NEW w \in Vector, NEW position \in Nat, NEW length \in Nat,
         GetSub(v, w, position, length)
  PROVE  Inv' /\ Sequence!Becomes(v, Sequence!Sub(Read(w), position, length))
<1> DEFINE s == [i \in 1..length |-> Test(w, position + i - 1)]
<1>1. /\ Read(w) \in Seq(Bit)
      /\ \A i \in Nat : Test(w, i) = IF i < Len(Read(w)) THEN Read(w)[i + 1] ELSE 0
  BY ReadType
<1>2. ASSUME NEW i \in 1..length
      PROVE  /\ s[i] = IF position + i <= Len(Read(w)) THEN Read(w)[position + i] ELSE 0
             /\ s[i] \in Bit
  <2>1. PICK k \in Nat : k = position + i - 1
    OBVIOUS
  <2>2. /\ k + 1 = position + i
        /\ k < Len(Read(w)) <=> position + i <= Len(Read(w))
        /\ k < Len(Read(w)) => position + i \in 1..Len(Read(w))
    BY <1>1, <2>1
  <2>3. s[i] = Test(w, k)
    BY <2>1
  <2>4. k < Len(Read(w)) => Read(w)[position + i] \in Bit
    BY <1>1, <2>2
  <2> HIDE DEF s
  <2> QED
    BY <1>1, <2>2, <2>3, <2>4 DEF Bit
<1>3. s \in Seq(Bit) /\ s = [i \in 1..length |-> s[i]]
  <2>1. \A i \in 1..length : Test(w, position + i - 1) \in Bit
    BY <1>2
  <2>2. s \in [1..length -> Bit]
    BY <2>1
  <2> HIDE DEF s
  <2> QED
    BY <2>2
<1>4. s = Sequence!Sub(Read(w), position, length)
  <2> HIDE DEF s
  <2>1. \A i \in 1..length :
          s[i] = IF position + i <= Len(Read(w)) THEN Read(w)[position + i] ELSE 0
    BY <1>2
  <2> QED
    BY <1>3, <2>1 DEF Sequence!Sub
<1>5. ConstructLength(v, s)
  BY DEF GetSub
<1> HIDE DEF s
<1>6. Inv' /\ Sequence!Becomes(v, s)
  BY <1>3, <1>5, ConstructLengthSafe
<1> QED
  BY <1>4, <1>6

-------------------------------------------------------------------------------
(* The theorems. *)

LEMMA InitSafe == Init => Inv /\ Sequence!Init
<1> SUFFICES ASSUME Init PROVE Inv /\ Sequence!Init
  OBVIOUS
<1>1. /\ Fresh(1) \in [0..8 * 1 - 1 -> Memory] /\ Fresh(0) \in [0..8 * 0 - 1 -> Memory]
  BY FreshType
<1>2. Good(0, 1, Fresh(1), FALSE)
  BY <1>1 DEF Good
<1>3. FileInv
  <2>1. Ceiling(0) = 0
    BY DEF Ceiling
  <2> QED
    BY <1>1, <2>1 DEF Init, FileInv
<1>4. Inv
  BY <1>2, <1>3 DEF Init, Inv
<1>5. ASSUME NEW v \in Vector
      PROVE  Read(v) = <<>>
  <2>1. bit_length[v] = 0
    BY DEF Init
  <2>2. Read(v) = [i \in 1..0 |-> Test(v, i - 1)]
    BY <2>1 DEF Read
  <2> QED
    BY <2>2
<1>6. [i \in 1..file.length |-> file.bytes[i - 1]] = <<>>
  BY DEF Init
<1> QED
  BY <1>4, <1>5, <1>6 DEF Sequence!Init

\* Each action preserves the invariant and is a step of the sequences.
LEMMA StepSafe == Inv /\ [Next]_vars => Inv' /\ (Sequence!Next \/ UNCHANGED vars)
<1> SUFFICES ASSUME Inv, [Next]_vars
             PROVE  Inv' /\ (Sequence!Next \/ UNCHANGED vars)
  OBVIOUS
<1> DEFINE bits == [v \in Vector |-> Read(v)]
<1>1. ASSUME NEW v \in Vector, NEW chunk \in Chunk, Construct(v, chunk)
      PROVE  Inv' /\ Sequence!Next
  BY <1>1, ConstructSafe DEF Sequence!Next
<1>2. ASSUME NEW v \in Vector, NEW chunk \in Chunk, ConstructLength(v, chunk)
      PROVE  Inv' /\ Sequence!Next
  BY <1>2, ConstructLengthSafe DEF Sequence!Next
<1>3. ASSUME NEW v \in Vector, NEW chunk \in Chunk, AppendBits(v, chunk)
      PROVE  Inv' /\ Sequence!Next
  <2>1. Inv' /\ Sequence!Becomes(v, bits[v] \o chunk)
    BY <1>3, AppendSafe
  <2> QED
    BY <2>1 DEF Sequence!Next
<1>4. ASSUME NEW v \in Vector, NEW w \in Vector, AppendVector(v, w)
      PROVE  Inv' /\ Sequence!Next
  <2>1. Read(w) \in Seq(Bit)
    BY ReadType
  <2>2. Inv' /\ Sequence!Becomes(v, bits[v] \o bits[w])
    BY <1>4, <2>1, AppendSafe DEF AppendVector
  <2> QED
    BY <2>2 DEF Sequence!Next
<1>5. ASSUME NEW v \in Vector, NEW w \in Vector, CopyConstruct(v, w) \/ Assign(v, w)
      PROVE  Inv' /\ Sequence!Next
  <2>1. Inv' /\ Sequence!Becomes(v, bits[w])
    BY <1>5, CopySafe, AssignSafe
  <2> QED
    BY <2>1 DEF Sequence!Next
<1>6. ASSUME NEW v \in Vector, NEW w \in Vector, NEW chunk \in Chunk, NEW position \in Position,
             GetSub(v, w, position, Len(chunk))
      PROVE  Inv' /\ Sequence!Next
  <2>1. position \in Nat /\ Len(chunk) \in Nat
    OBVIOUS
  <2>2. Inv' /\ Sequence!Becomes(v, Sequence!Sub(bits[w], position, Len(chunk)))
    BY <1>6, <2>1, GetSubSafe
  <2> QED
    BY <2>2 DEF Sequence!Next
<1>7. ASSUME NEW v \in Vector, Reset(v)
      PROVE  Inv' /\ Sequence!Next
  BY <1>7, ResetSafe DEF Sequence!Next
<1>8. ASSUME NEW v \in Vector, Write(v)
      PROVE  Inv' /\ Sequence!Next
  <2>1. /\ Inv' /\ bits' = bits
        /\ [i \in 1..file.length |-> file.bytes[i - 1]]' = bits[v]
    BY <1>8, WriteSafe
  <2> QED
    BY <2>1 DEF Sequence!Next
<1>9. ASSUME NEW v \in Vector, Fill(v)
      PROVE  Inv' /\ Sequence!Next
  BY <1>9, FillSafe DEF Sequence!Next
<1>10. CASE UNCHANGED vars
  <2>1. \A v \in Vector : Good(bit_length[v], char_length[v], bit_vector[v], filled[v])'
    BY <1>10 DEF vars, Inv, Good
  <2>2. FileInv'
    BY <1>10 DEF vars, Inv, FileInv
  <2> QED
    BY <1>10, <2>1, <2>2 DEF vars, Inv
<1> QED
  BY <1>1, <1>2, <1>3, <1>4, <1>5, <1>6, <1>7, <1>8, <1>9, <1>10 DEF Next

LEMMA InvSafe == Inv => BitsInside /\ CopyInside
<1> SUFFICES ASSUME Inv, NEW v \in Vector
             PROVE  /\ DOMAIN bit_vector[v] = 0..8 * char_length[v] - 1
                    /\ Ceiling(bit_length[v]) <= char_length[v]
                    /\ \A i \in 0..bit_length[v] - 1 : bit_vector[v][i] \in Bit
                    /\ ~filled[v] => Bytes(bit_length[v]) <= char_length[v]
  BY DEF BitsInside, CopyInside
<1>1. Good(bit_length[v], char_length[v], bit_vector[v], filled[v])
  BY DEF Inv
<1> QED
  BY <1>1, CeilingLeast, BytesLeast DEF Good

LEMMA Invariance == Spec => []Inv
<1>1. Init => Inv
  BY InitSafe
<1>2. Inv /\ [Next]_vars => Inv'
  BY StepSafe
<1> QED
  BY <1>1, <1>2, PTL DEF Spec

\* Every bit of a vector lies in its array and was written: append enlarges the
\* array in time, whatever is appended (bitvector.cpp:116, 132).
THEOREM BitsStayInside == Spec => []BitsInside
<1>1. Inv => BitsInside
  BY InvSafe
<1> QED
  BY <1>1, Invariance, PTL

\* The copy constructor stays inside the array of every vector that fill did not
\* make (bitvector.cpp:83).
THEOREM CopyStaysInside == Spec => []CopyInside
<1>1. Inv => CopyInside
  BY InvSafe
<1> QED
  BY <1>1, Invariance, PTL

\* The arrays implement sequences of bits, through copies, growth and a file.
THEOREM Refinement == Spec => SequenceSpec
<1> DEFINE abstract == <<[v \in Vector |-> Read(v)], [i \in 1..file.length |-> file.bytes[i - 1]]>>
<1>1. Init => Sequence!Init
  BY InitSafe
<1>2. Inv /\ [Next]_vars => [Sequence!Next]_abstract
  <2>1. UNCHANGED vars => UNCHANGED abstract
    BY DEF vars, Read, Test
  <2> QED
    BY <2>1, StepSafe
<1> QED
  BY <1>1, <1>2, Invariance, PTL DEF Spec, SequenceSpec, Sequence!Spec
===============================================================================
