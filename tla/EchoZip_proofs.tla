----------------------------- MODULE EchoZip_proofs ----------------------------
(***************************************************************************)
(* Proofs about the echo service and the decompression it calls: whatever  *)
(* the responses, the memory and the client, the body goes out as it was   *)
(* sent, under a head that is true of it, and the block of the             *)
(* decompression is neither overrun nor lost.                              *)
(***************************************************************************)
EXTENDS EchoZip, SequenceTheorems, TLAPS

-------------------------------------------------------------------------------
(* Sequences of units. *)

\* What is added to a beginning of a sequence makes a longer one.
LEMMA Longer ==
  ASSUME NEW s \in Seq(Unit), NEW n \in 0..Len(s), NEW m \in n..Len(s)
  PROVE  /\ SubSeq(s, 1, n) \o SubSeq(s, n + 1, m) = SubSeq(s, 1, m)
         /\ Len(SubSeq(s, n + 1, m)) = m - n
         /\ SubSeq(s, n + 1, m) \in Seq(Unit)
<1>1. Len(s) \in Nat /\ n \in Nat /\ m \in Nat /\ \A i \in 1..Len(s) : s[i] \in Unit
  BY LenProperties, ElementOfSeq
<1>2. SubSeq(s, 1, n) \o SubSeq(s, n + 1, m) = SubSeq(s, 1, m)
  <2>1. 1 \in 1..Len(s) + 1 /\ n \in 1 - 1..Len(s) /\ m \in n..Len(s)
    BY <1>1
  <2>. QED
    BY <2>1, ConcatAdjacentSubSeq
<1>3. \A i \in n + 1..m : s[i] \in Unit
  BY <1>1
<1>4. /\ SubSeq(s, n + 1, m) \in Seq(Unit)
      /\ Len(SubSeq(s, n + 1, m)) = IF n + 1 <= m THEN m - (n + 1) + 1 ELSE 0
  BY <1>1, <1>3, SubSeqProperties
<1>. QED
  BY <1>1, <1>2, <1>4

\* The beginning of a sequence is not changed by what comes behind.
LEMMA Beginning ==
  ASSUME NEW s \in Seq(Unit), NEW t \in Seq(Unit), NEW n \in 0..Len(s)
  PROVE  SubSeq(s \o t, 1, n) = SubSeq(s, 1, n)
<1>1. Len(s) \in Nat
  BY LenProperties
<1>2. CASE n = 0
  BY <1>2, SubSeqEmpty
<1>3. CASE n > 0
  <2>1. 1 \in 1..Len(s) /\ n \in 1..Len(s)
    BY <1>1, <1>3
  <2>. QED
    BY <2>1, SubSeqOfConcat1
<1>. QED
  BY <1>1, <1>2, <1>3

\* The beginning of a sequence is one.
LEMMA Clipped ==
  ASSUME NEW s \in Seq(Unit), NEW n \in 0..Len(s)
  PROVE  SubSeq(s, 1, n) \in Seq(Unit) /\ Len(SubSeq(s, 1, n)) = n
<1>1. Len(s) \in Nat /\ n \in Nat /\ \A i \in 1..n : s[i] \in Unit
  BY LenProperties, ElementOfSeq
<1>2. SubSeq(s, 1, n) \in Seq(Unit) /\ Len(SubSeq(s, 1, n)) = IF 1 <= n THEN n - 1 + 1 ELSE 0
  BY <1>1, SubSeqProperties
<1>. QED
  BY <1>1, <1>2

\* The script is so many units.
LEMMA ScriptType == Echo!Script \in Seq(Unit) /\ Len(Echo!Script) = ScriptLength
<1>1. ScriptLength \in Nat
  BY BufferAssumption
<1>. QED
  BY <1>1 DEF Echo!Script, Unit

\* A body is its units, and a text as many as it was announced to be.
LEMMA BodyType ==
  ASSUME NEW r \in Response
  PROVE  /\ Echo!Body(r) \in Seq(Unit) /\ Len(Echo!Body(r)) = r.size
         /\ Echo!Text(r) \in Seq(Unit)
         /\ Len(Echo!Text(r)) = IF r.encoding = "none" THEN r.size ELSE r.plain
<1>1. r.size \in Nat /\ r.plain \in Nat
  BY ResponseAssumption
<1>2. ASSUME NEW n \in Nat, NEW kind \in {"body", "text"}
      PROVE  [i \in 1..n |-> <<kind, i>>] \in Seq(Unit) /\ Len([i \in 1..n |-> <<kind, i>>]) = n
  BY <1>2 DEF Unit
<1>3. Echo!Body(r) \in Seq(Unit) /\ Len(Echo!Body(r)) = r.size
  BY <1>1, <1>2 DEF Echo!Body
<1>4. CASE r.encoding = "none"
  BY <1>3, <1>4 DEF Echo!Text
<1>5. CASE r.encoding # "none"
  BY <1>1, <1>2, <1>3, <1>5 DEF Echo!Text
<1>. QED
  BY <1>4, <1>5

\* The script lies behind the first n units.
LEMMA MarkedType ==
  ASSUME NEW s \in Seq(Unit), NEW n \in 0..Len(s)
  PROVE  /\ Echo!Marked(s, n) \in Seq(Unit)
         /\ Len(Echo!Marked(s, n)) = Len(s) + ScriptLength
         /\ \A i \in 1..Len(s) + ScriptLength :
              Echo!Marked(s, n)[i] = IF i <= n THEN s[i]
                                     ELSE IF i <= n + ScriptLength THEN Echo!Script[i - n]
                                     ELSE s[i - ScriptLength]
<1>1. Len(s) \in Nat /\ n \in Nat /\ ScriptLength \in Nat /\ \A i \in 1..Len(s) : s[i] \in Unit
  BY LenProperties, ElementOfSeq, BufferAssumption
<1>. DEFINE a == SubSeq(s, 1, n)
            b == SubSeq(s, n + 1, Len(s))
<1>2. a \in Seq(Unit) /\ Len(a) = n /\ \A i \in 1..n : a[i] = s[i]
  BY <1>1, Clipped, SubSeqProperties
<1>3. b \in Seq(Unit) /\ Len(b) = Len(s) - n 
  BY <1>1, Longer
<1>4. \A i \in 1..Len(s) - n : b[i] = s[n + i]
  <2>1. \A i \in n + 1..Len(s) : s[i] \in Unit
    BY <1>1
  <2>2. \A i \in 1..Len(s) - (n + 1) + 1 : b[i] = s[n + 1 + i - 1]
    BY <1>1, <2>1, SubSeqProperties
  <2>. QED
    BY <1>1, <2>2
<1>. HIDE DEF a, b
<1>5. /\ a \o Echo!Script \in Seq(Unit) /\ Len(a \o Echo!Script) = n + ScriptLength
      /\ \A i \in 1..n + ScriptLength :
           (a \o Echo!Script)[i] = IF i <= n THEN a[i] ELSE Echo!Script[i - n]
  BY <1>2, ScriptType, ConcatProperties
<1>6. /\ (a \o Echo!Script) \o b \in Seq(Unit)
      /\ Len((a \o Echo!Script) \o b) = n + ScriptLength + (Len(s) - n)
      /\ \A i \in 1..n + ScriptLength + (Len(s) - n) :
           ((a \o Echo!Script) \o b)[i] =
             IF i <= n + ScriptLength THEN (a \o Echo!Script)[i] ELSE b[i - (n + ScriptLength)]
  <2>. DEFINE y == a \o Echo!Script
  <2>1. y \in Seq(Unit) /\ Len(y) = n + ScriptLength
    BY <1>5
  <2>. HIDE DEF y
  <2>2. /\ y \o b \in Seq(Unit) /\ Len(y \o b) = Len(y) + Len(b)
        /\ \A i \in 1..Len(y) + Len(b) : (y \o b)[i] = IF i <= Len(y) THEN y[i] ELSE b[i - Len(y)]
    BY <1>3, <2>1, ConcatProperties
  <2>. QED
    BY <1>3, <2>1, <2>2 DEF y
<1>7. Echo!Marked(s, n) = (a \o Echo!Script) \o b
  BY DEF Echo!Marked, a, b
<1>8. n + ScriptLength + (Len(s) - n) = Len(s) + ScriptLength
  BY <1>1
<1>9. ASSUME NEW i \in 1..Len(s) + ScriptLength
      PROVE  Echo!Marked(s, n)[i] = IF i <= n THEN s[i]
                                     ELSE IF i <= n + ScriptLength THEN Echo!Script[i - n]
                                     ELSE s[i - ScriptLength]
  <2>1. CASE i <= n + ScriptLength
    BY <1>1, <1>2, <1>5, <1>6, <1>7, <1>8, <2>1
  <2>2. CASE i > n + ScriptLength
    <3>1. i - (n + ScriptLength) \in 1..Len(s) - n /\ n + (i - (n + ScriptLength)) = i - ScriptLength
      BY <1>1, <2>2
    <3>2. b[i - (n + ScriptLength)] = s[i - ScriptLength]
      BY <1>4, <3>1
    <3>3. /\ i \in 1..n + ScriptLength + (Len(s) - n)
          /\ ~(i <= n + ScriptLength) /\ ~(i <= n)
      BY <1>1, <1>8, <2>2
    <3>4. Echo!Marked(s, n)[i] = b[i - (n + ScriptLength)]
      BY <1>6, <1>7, <3>3
    <3>. QED
      BY <3>2, <3>3, <3>4
  <2>. QED
    BY <1>1, <2>1, <2>2
<1>. QED
  BY <1>6, <1>7, <1>8, <1>9

\* What follows the head tag is the same with the script and without, so a marked
\* beginning is the beginning of the marked whole.
LEMMA MarkedBeginning ==
  ASSUME NEW s \in Seq(Unit), NEW m \in 0..Len(s), NEW n \in 0..m
  PROVE  Echo!Marked(SubSeq(s, 1, m), n) = SubSeq(Echo!Marked(s, n), 1, m + ScriptLength)
<1>. DEFINE a == SubSeq(s, 1, m)
            b == Echo!Marked(s, n)
            c == SubSeq(b, 1, m + ScriptLength)
<1>1. Len(s) \in Nat /\ n \in Nat /\ m \in Nat /\ ScriptLength \in Nat /\ n \in 0..Len(s)
  BY LenProperties, BufferAssumption
<1>2. a \in Seq(Unit) /\ Len(a) = m
  BY Clipped
<1>3. \A i \in 1..m : a[i] = s[i]
  BY <1>1, ElementOfSeq, SubSeqProperties
<1>4. /\ b \in Seq(Unit) /\ Len(b) = Len(s) + ScriptLength
      /\ \A i \in 1..Len(s) + ScriptLength :
              b[i] = IF i <= n THEN s[i]
                     ELSE IF i <= n + ScriptLength THEN Echo!Script[i - n] ELSE s[i - ScriptLength]
  BY <1>1, MarkedType
<1>. HIDE DEF a
<1>5. /\ Echo!Marked(a, n) \in Seq(Unit) /\ Len(Echo!Marked(a, n)) = m + ScriptLength
      /\ \A i \in 1..m + ScriptLength :
              Echo!Marked(a, n)[i] = IF i <= n THEN a[i]
                     ELSE IF i <= n + ScriptLength THEN Echo!Script[i - n] ELSE a[i - ScriptLength]
  BY <1>1, <1>2, MarkedType
<1>. HIDE DEF b
<1>6. m + ScriptLength \in 0..Len(b)
  BY <1>1, <1>4
<1>7. c \in Seq(Unit) /\ Len(c) = m + ScriptLength
  BY <1>4, <1>6, Clipped
<1>8. \A i \in 1..m + ScriptLength : c[i] = b[i]
  <2>1. \A i \in 1..m + ScriptLength : b[i] \in Unit
    BY <1>1, <1>4, ElementOfSeq
  <2>. QED
    BY <1>1, <2>1, SubSeqProperties
<1>. HIDE DEF c
<1>9. ASSUME NEW i \in 1..m + ScriptLength
      PROVE  Echo!Marked(a, n)[i] = c[i]
  <2>1. i <= Len(s) + ScriptLength /\ i \in 1..Len(s) + ScriptLength
    BY <1>1
  <2>2. CASE i <= n
    <3>1. i \in 1..m
      BY <1>1, <2>2
    <3>2. Echo!Marked(a, n)[i] = a[i] /\ a[i] = s[i]
      BY <1>3, <1>5, <2>2, <3>1
    <3>3. b[i] = s[i] /\ c[i] = b[i]
      BY <1>4, <1>8, <2>1, <2>2
    <3>. QED
      BY <3>2, <3>3
  <2>3. CASE i > n /\ i <= n + ScriptLength
    <3>1. ~ (i <= n)
      BY <1>1, <2>3
    <3>2. Echo!Marked(a, n)[i] = Echo!Script[i - n]
      BY <1>5, <2>3, <3>1
    <3>3. b[i] = Echo!Script[i - n] /\ c[i] = b[i]
      BY <1>4, <1>8, <2>1, <2>3, <3>1
    <3>. QED
      BY <3>2, <3>3
  <2>4. CASE i > n + ScriptLength
    <3>1. i - ScriptLength \in 1..m
      BY <1>1, <2>4
    <3>2. a[i - ScriptLength] = s[i - ScriptLength]
      BY <1>3, <3>1
    <3>. QED
      BY <1>1, <1>4, <1>5, <1>8, <2>1, <2>4, <3>2
  <2>. QED
    BY <1>1, <2>2, <2>3, <2>4
<1>10. Echo!Marked(a, n) = c
  BY <1>5, <1>7, <1>9, SeqEqual
<1>. QED
  BY <1>10 DEF a, b, c

\* Units that come behind a marked beginning.
LEMMA MarkedLonger ==
  ASSUME NEW s \in Seq(Unit), NEW m \in 0..Len(s), NEW n \in 0..m, NEW k \in m..Len(s)
  PROVE  SubSeq(Echo!Marked(s, n), 1, m + ScriptLength) \o SubSeq(s, m + 1, k)
           = SubSeq(Echo!Marked(s, n), 1, k + ScriptLength)
<1>. DEFINE b == Echo!Marked(s, n)
            c == SubSeq(b, m + ScriptLength + 1, k + ScriptLength)
            d == SubSeq(s, m + 1, k)
<1>1. Len(s) \in Nat /\ n \in Nat /\ m \in Nat /\ k \in Nat /\ ScriptLength \in Nat /\ n \in 0..Len(s)
  BY LenProperties, BufferAssumption
<1>2. /\ b \in Seq(Unit) /\ Len(b) = Len(s) + ScriptLength
      /\ \A i \in 1..Len(s) + ScriptLength :
              b[i] = IF i <= n THEN s[i]
                     ELSE IF i <= n + ScriptLength THEN Echo!Script[i - n] ELSE s[i - ScriptLength]
  BY <1>1, MarkedType
<1>. HIDE DEF b
<1>3. m + ScriptLength \in 0..Len(b) /\ k + ScriptLength \in (m + ScriptLength)..Len(b)
  BY <1>1, <1>2
<1>4. /\ SubSeq(b, 1, m + ScriptLength) \o c = SubSeq(b, 1, k + ScriptLength)
      /\ Len(c) = k + ScriptLength - (m + ScriptLength) /\ c \in Seq(Unit)
  <2>. DEFINE m2 == m + ScriptLength
              k2 == k + ScriptLength
  <2>1. m2 \in 0..Len(b) /\ k2 \in m2..Len(b)
    BY <1>3
  <2>3. m2 = m + ScriptLength /\ k2 = k + ScriptLength
    OBVIOUS
  <2>4. SubSeq(b, m + ScriptLength + 1, k + ScriptLength) = SubSeq(b, m2 + 1, k2)
    OBVIOUS
  <2>. HIDE DEF m2, k2
  <2>2. /\ SubSeq(b, 1, m2) \o SubSeq(b, m2 + 1, k2) = SubSeq(b, 1, k2)
        /\ Len(SubSeq(b, m2 + 1, k2)) = k2 - m2 /\ SubSeq(b, m2 + 1, k2) \in Seq(Unit)
    BY <1>2, <2>1, Longer
  <2>. QED
    BY <1>1, <2>2, <2>3, <2>4
<1>5. Len(d) = k - m /\ d \in Seq(Unit)
  BY <1>1, Longer
<1>6. \A i \in 1..k - m : c[i] = b[m + ScriptLength + i]
  <2>1. \A i \in m + ScriptLength + 1..k + ScriptLength : b[i] \in Unit
    BY <1>1, <1>2, ElementOfSeq
  <2>2. \A i \in 1..k + ScriptLength - (m + ScriptLength + 1) + 1 : c[i] = b[m + ScriptLength + 1 + i - 1]
    BY <1>1, <2>1, SubSeqProperties
  <2>. QED
    BY <1>1, <2>2
<1>7. \A i \in 1..k - m : d[i] = s[m + i]
  <2>1. \A i \in m + 1..k : s[i] \in Unit
    BY <1>1, ElementOfSeq
  <2>2. \A i \in 1..k - (m + 1) + 1 : d[i] = s[m + 1 + i - 1]
    BY <1>1, <2>1, SubSeqProperties
  <2>. QED
    BY <1>1, <2>2
<1>8. ASSUME NEW i \in 1..k - m
      PROVE  b[m + ScriptLength + i] = s[m + i]
  <2>1. /\ m + ScriptLength + i \in 1..Len(s) + ScriptLength
        /\ m + ScriptLength + i > n + ScriptLength /\ m + ScriptLength + i > n
        /\ m + ScriptLength + i - ScriptLength = m + i
    BY <1>1
  <2>. QED
    BY <1>1, <1>2, <2>1
<1>. HIDE DEF c, d
<1>9. c = d
  <2>1. Len(c) = Len(d) /\ Len(d) = k - m
    BY <1>1, <1>4, <1>5
  <2>2. \A i \in 1..k - m : c[i] = d[i]
    BY <1>6, <1>7, <1>8
  <2>. QED
    BY <1>4, <1>5, <2>1, <2>2, SeqEqual
<1>. QED
  BY <1>4, <1>9 DEF b, d

-------------------------------------------------------------------------------
(* Buffers. *)

\* What ci_membuf_write leaves.
LEMMA FilledBuffer ==
  \A b \in Buffer, s \in Seq(Unit), iseof \in BOOLEAN :
    LET new == Echo!Filled(b, s, iseof) IN
    /\ new \in Buffer /\ new.data = b.data \o s /\ Len(new.data) = Len(b.data) + Len(s)
    /\ new.read = b.read /\ (new.all <=> (b.all \/ iseof))
<1>. TAKE b \in Buffer, s \in Seq(Unit), iseof \in BOOLEAN
<1>1. /\ b.data \o s \in Seq(Unit) /\ Len(b.data \o s) = Len(b.data) + Len(s)
      /\ Len(b.data \o s) \in Nat
  BY ConcatProperties, LenProperties DEF Buffer
<1>. QED
  BY <1>1 DEF Echo!Filled, Buffer

\* A new buffer is empty.
LEMMA EmptyBuffer ==
  ASSUME NEW n \in Nat
  PROVE  LET new == Echo!NewBuffer(n) IN
         new \in Buffer /\ new.data = <<>> /\ new.read = 0 /\ new.all = FALSE
BY EmptySeq DEF Echo!NewBuffer, Buffer

\* What ci_membuf_read takes out continues what was read before.
LEMMA DrainedBuffer ==
  \A b \in Buffer, n \in Nat :
    b.read <= Len(b.data) =>
      LET new == Echo!Drained(b, n)
          out == Echo!Unread(b, n) IN
      /\ new \in Buffer /\ new.data = b.data /\ new.all = b.all
      /\ new.read <= Len(b.data)
      /\ SubSeq(b.data, 1, b.read) \o out = SubSeq(b.data, 1, new.read)
      /\ new.read = b.read + Len(out) /\ out \in Seq(Unit)
      /\ n > 0 /\ out = <<>> => b.read = Len(b.data)
      /\ n = 0 \/ b.read = Len(b.data) => out = <<>>
<1>. SUFFICES ASSUME NEW b \in Buffer, NEW n \in Nat, b.read <= Len(b.data)
     PROVE  LET new == Echo!Drained(b, n)
                out == Echo!Unread(b, n) IN
            /\ new \in Buffer /\ new.data = b.data /\ new.all = b.all
            /\ new.read <= Len(b.data)
            /\ SubSeq(b.data, 1, b.read) \o out = SubSeq(b.data, 1, new.read)
            /\ new.read = b.read + Len(out) /\ out \in Seq(Unit)
            /\ n > 0 /\ out = <<>> => b.read = Len(b.data)
            /\ n = 0 \/ b.read = Len(b.data) => out = <<>>
  OBVIOUS
<1>. DEFINE left == Len(b.data) - b.read
            k == Echo!Minimum(n, left)
            out == Echo!Unread(b, n)
<1>1. /\ b.data \in Seq(Unit) /\ b.read \in Nat /\ Len(b.data) \in Nat /\ left \in Nat
      /\ b = [data |-> b.data, size |-> b.size, read |-> b.read, all |-> b.all]
      /\ b.size \in Nat /\ b.all \in BOOLEAN
  BY LenProperties DEF Buffer
<1>2. k \in Nat /\ k <= left /\ (n > 0 /\ k = 0 => left = 0) /\ (n = 0 \/ left = 0 => k = 0)
  BY <1>1 DEF Echo!Minimum
<1>3. out = SubSeq(b.data, b.read + 1, b.read + k)
  BY DEF Echo!Unread
<1>. HIDE DEF k, out
<1>4. b.read \in 0..Len(b.data) /\ b.read + k \in b.read..Len(b.data)
  BY <1>1, <1>2
<1>5. /\ SubSeq(b.data, 1, b.read) \o out = SubSeq(b.data, 1, b.read + k)
      /\ Len(out) = b.read + k - b.read /\ out \in Seq(Unit)
  <2>. DEFINE m == b.read + k
  <2>1. m = b.read + k /\ m \in b.read..Len(b.data)
    BY <1>4
  <2>. HIDE DEF m
  <2>2. /\ SubSeq(b.data, 1, b.read) \o SubSeq(b.data, b.read + 1, m) = SubSeq(b.data, 1, m)
        /\ Len(SubSeq(b.data, b.read + 1, m)) = m - b.read
        /\ SubSeq(b.data, b.read + 1, m) \in Seq(Unit)
    BY <1>1, <1>4, <2>1, Longer
  <2>3. out = SubSeq(b.data, b.read + 1, m)
    BY <1>3, <2>1
  <2>4. SubSeq(b.data, 1, b.read) \o out = SubSeq(b.data, 1, m) /\ Len(out) = m - b.read /\ out \in Seq(Unit)
    BY <2>2, <2>3
  <2>5. b.read \in Nat /\ k \in Nat
    BY <1>1, <1>2
  <2>. QED
    BY <2>1, <2>4, <2>5
<1>6. Len(out) = k
  BY <1>1, <1>2, <1>5
<1>7. Echo!Drained(b, n) = [b EXCEPT !.read = b.read + k]
  BY <1>6 DEF Echo!Drained, out
<1>8. Echo!Drained(b, n) = [data |-> b.data, size |-> b.size, read |-> b.read + k, all |-> b.all]
  BY <1>1, <1>7
<1>9. out = <<>> <=> k = 0
  BY <1>5, <1>6, EmptySeq
<1>10. /\ n > 0 /\ out = <<>> => b.read = Len(b.data)
       /\ n = 0 \/ b.read = Len(b.data) => out = <<>>
  BY <1>1, <1>2, <1>9
<1>11. Echo!Drained(b, n) \in Buffer
  BY <1>1, <1>2, <1>8 DEF Buffer
<1>. DEFINE new == Echo!Drained(b, n)
<1>12. new.data = b.data /\ new.all = b.all /\ new.read = b.read + k
  BY <1>8
<1>. HIDE DEF new
<1>13. /\ new.data = b.data /\ new.all = b.all /\ new.read <= Len(b.data)
       /\ SubSeq(b.data, 1, b.read) \o out = SubSeq(b.data, 1, new.read)
       /\ new.read = b.read + Len(out)
  BY <1>4, <1>5, <1>6, <1>12
<1>. QED
  BY <1>5, <1>10, <1>11, <1>13, Zenon DEF out, new

-------------------------------------------------------------------------------
(* The handlers. *)

Phases == {"start", "open", "preview", "body", "end", "rest", "over"}

EchoTypes ==
  /\ phase \in Phases
  /\ phase # "start" => response \in Response /\ header \in [length : Nat, encoded : BOOLEAN]
  /\ arrived \in Nat /\ offered \in Nat /\ eof \in BOOLEAN
  /\ inData \in Buffer \cup {NoBuffer} /\ outText \in Buffer \cup {NoBuffer}
  /\ inData # NoBuffer => inData.read <= Len(inData.data)
  /\ outText # NoBuffer => outText.read <= Len(outText.data)

\* Until the preview was handled nothing is stored and nothing sent.
FreshInv ==
  /\ phase = "start" => inData = NoBuffer
  /\ phase \in {"start", "open"} => arrived = 0 /\ eof = FALSE
  /\ phase \in {"start", "open", "preview"} =>
       /\ sent = NotSent /\ delivered = <<>> /\ outData = "null" /\ outText = NoBuffer
       /\ encoding = "none" /\ damaged = FALSE /\ offered = 0 /\ service = "going"
       /\ result = "none" /\ locked = FALSE
       /\ inData # NoBuffer =>
            inData.data = <<>> /\ inData.read = 0 /\ inData.all = FALSE /\ response.hasbody
  /\ phase = "preview" =>
       arrived <= response.size /\ (eof => arrived = response.size \/ ~response.hasbody)

\* Where the handlers put the body, and what they will send: the body as it
\* arrives, or nothing until all of it is there, under lock.
ModeInv ==
  /\ phase \in {"body", "end"} /\ inData # NoBuffer =>
       /\ response.hasbody /\ offered <= arrived /\ arrived <= response.size
       /\ \/ encoding = "none" /\ outData = "in"
          \/ /\ encoding = response.encoding /\ encoding \in {"gzip", "deflate"}
             /\ locked /\ outData = "null" /\ Len(inData.data) <= offered
  /\ phase = "body" => inData # NoBuffer
  /\ phase \in {"end", "rest"} => (response.hasbody <=> inData # NoBuffer)
  /\ phase = "rest" /\ inData # NoBuffer => inData.all /\ outData \in {"in", "out"}
  /\ outData \in {"null", "in", "out"}
  /\ outData = "in" => inData # NoBuffer
  /\ outData = "out" =>
       /\ phase \in {"rest", "over"} /\ response.encoding # "none"
       /\ outText # NoBuffer /\ outText.all
       /\ outText.data \in {Echo!Text(response), Echo!Marked(Echo!Text(response), response.head)}
  /\ sent # NotSent => ~locked /\ sent = header
  /\ phase # "start" => (header.encoded <=> response.encoding # "none" /\ outData # "out")

HandlerInv == EchoTypes /\ FreshInv /\ ModeInv

\* A worker begins with nothing stored and nothing sent.
LEMMA HandlerInit == Echo!Init => HandlerInv
<1>. SUFFICES ASSUME Echo!Init PROVE HandlerInv
  OBVIOUS
<1>1. EchoTypes
  BY DEF Echo!Init, EchoTypes, Phases
<1>2. FreshInv
  BY DEF Echo!Init, FreshInv
<1>3. ModeInv
  BY DEF Echo!Init, ModeInv
<1>. QED
  BY <1>1, <1>2, <1>3 DEF HandlerInv

\* echo_init_request_data leaves an empty buffer or none.
LEMMA InitRequestDataOK ==
  ASSUME HandlerInv, Echo!InitRequestData
  PROVE  HandlerInv'
<1>. USE DEF HandlerInv, Echo!InitRequestData
<1>. PICK r \in Response :
       /\ response' = r
       /\ header' = [length |-> Echo!Announced(r), encoded |-> r.encoding # "none"]
       /\ \/ /\ Echo!Wanted(r)
             /\ inData' = Echo!NewBuffer(IF r.known /\ r.size > 0 THEN r.size ELSE InitialSize)
          \/ UNCHANGED inData
  OBVIOUS
<1>1. /\ phase = "start" /\ phase' = "open" /\ inData = NoBuffer
      /\ UNCHANGED <<arrived, offered, eof, locked, sent, delivered, service, encoding, outText,
                     outData, damaged, result>>
  BY DEF FreshInv, Echo!sendVars
<1>2. header' \in [length : Nat, encoded : BOOLEAN]
  BY ResponseAssumption DEF Echo!Announced
<1>3. inData' # NoBuffer =>
        /\ inData' \in Buffer /\ inData'.data = <<>> /\ inData'.read = 0 /\ inData'.all = FALSE
        /\ response'.hasbody
  <2>1. CASE UNCHANGED inData
    BY <1>1, <2>1
  <2>2. CASE Echo!Wanted(r) /\ inData' = Echo!NewBuffer(IF r.known /\ r.size > 0 THEN r.size ELSE InitialSize)
    <3>1. (IF r.known /\ r.size > 0 THEN r.size ELSE InitialSize) \in Nat
      BY ResponseAssumption, BufferAssumption
    <3>. QED
      BY <2>2, <3>1, EmptyBuffer DEF Echo!Wanted
  <2>. QED
    BY <2>1, <2>2
<1>4. EchoTypes'
  BY <1>1, <1>2, <1>3, EmptySeq DEF EchoTypes, Phases
<1>5. FreshInv'
  BY <1>1, <1>3 DEF FreshInv
<1>6. ModeInv'
  BY <1>1, <1>2 DEF ModeInv, FreshInv
<1>. QED
  BY <1>4, <1>5, <1>6

\* c-icap hands over no more of the body than there is.
LEMMA ReadPreviewOK ==
  ASSUME HandlerInv, Echo!ReadPreview
  PROVE  HandlerInv'
<1>. USE DEF HandlerInv
<1>1. /\ phase = "open" /\ phase' = "preview"
      /\ UNCHANGED <<response, offered, locked, header, sent, delivered, service, encoding,
                     inData, outText, outData, damaged, result>>
  BY DEF Echo!ReadPreview, Echo!sendVars, Echo!echoVars
<1>2. response \in Response /\ response.size \in Nat /\ PreviewSize \in Nat
  BY <1>1, ResponseAssumption, BufferAssumption DEF EchoTypes
<1>3. arrived' \in Nat /\ arrived' <= response.size
  BY <1>2 DEF Echo!ReadPreview, Echo!Minimum
<1>4. eof' => arrived' = response.size \/ ~response.hasbody
  BY DEF Echo!ReadPreview
<1>8. eof' \in BOOLEAN
  <2>1. eof' = (previewed' /\ arrived' = response.size) \/ eof' = ~response.hasbody
    BY DEF Echo!ReadPreview
  <2>. QED
    BY <2>1, Zenon
<1>5. EchoTypes'
  BY <1>1, <1>3, <1>8 DEF EchoTypes, Phases
<1>6. FreshInv'
  BY <1>1, <1>3, <1>4 DEF FreshInv
<1>7. ModeInv'
  BY <1>1 DEF ModeInv
<1>. QED
  BY <1>5, <1>6, <1>7

\* What is refused goes out as it came: nothing of it was stored.
LEMMA RefuseOK ==
  ASSUME HandlerInv, Echo!Refuse
  PROVE  HandlerInv'
<1>. USE DEF HandlerInv
<1>1. /\ phase = "preview"
      /\ phase' = "over" \/ (phase' = "end" /\ ~response.hasbody)
      /\ UNCHANGED <<response, arrived, offered, eof, locked, header, sent, delivered, service,
                     encoding, inData, outText, outData, damaged>>
  BY DEF Echo!Refuse, Echo!bodyVars, Echo!sendVars, Echo!echoVars
<1>2. EchoTypes'
  BY <1>1 DEF EchoTypes, Phases
<1>3. FreshInv'
  BY <1>1 DEF FreshInv
<1>4. ModeInv'
  BY <1>1 DEF ModeInv, FreshInv
<1>. QED
  BY <1>2, <1>3, <1>4

\* What the acceptance of a preview leaves in every case.
LEMMA AcceptedOK ==
  ASSUME HandlerInv, Echo!Accepted
  PROVE  /\ phase = "preview" /\ phase' \in {"body", "end"} /\ (phase' = "end" <=> eof)
         /\ inData \in Buffer /\ response \in Response /\ response.hasbody
         /\ inData # NoBuffer /\ inData.data = <<>>
         /\ arrived > 0 => response.encoding # "other"
         /\ arrived > 0 /\ response.encoding = "none" => response.head \in 1..arrived
BY DEF HandlerInv, Echo!Accepted, Echo!Refused, Echo!Found, EchoTypes, FreshInv

\* The preview is stored, all of it or as much as memory allows.
LEMMA StorePreviewOK ==
  ASSUME HandlerInv, phase = "preview", inData # NoBuffer, NEW s \in Seq(Unit), Echo!StorePreview(s)
  PROVE  /\ inData' \in Buffer /\ inData'.read = 0 /\ inData' # NoBuffer
         /\ Len(inData'.data) <= Len(s) /\ offered' = arrived
         /\ (inData'.all <=> eof)
         /\ damaged' \in BOOLEAN
         /\ ~damaged' => inData'.data = s
<1>1. /\ inData \in Buffer /\ inData.data = <<>> /\ inData.read = 0 /\ inData.all = FALSE
      /\ Len(s) \in Nat /\ eof \in BOOLEAN
  BY LenProperties DEF HandlerInv, EchoTypes, FreshInv
<1>2. PICK n \in Echo!Taken(inData, s) :
        inData' = Echo!Filled(inData, SubSeq(s, 1, n), eof) /\ damaged' = (n < Len(s))
  BY DEF Echo!StorePreview
<1>3. n \in 0..Len(s)
  BY <1>1 DEF Echo!Taken
<1>4. SubSeq(s, 1, n) \in Seq(Unit) /\ Len(SubSeq(s, 1, n)) = n
  BY <1>3, Clipped
<1>5. <<>> \o SubSeq(s, 1, n) = SubSeq(s, 1, n)
  BY <1>4, ConcatEmptySeq
<1>. DEFINE t == SubSeq(s, 1, n)
            new == Echo!Filled(inData, t, eof)
<1>. HIDE DEF t
<1>6. /\ new \in Buffer /\ new.data = inData.data \o t /\ new.read = inData.read
      /\ (new.all <=> (inData.all \/ eof))
  <2>1. t \in Seq(Unit)
    BY <1>4 DEF t
  <2>. QED
    <3>. HIDE DEF new
    <3>1. inData \in Buffer /\ t \in Seq(Unit) /\ eof \in BOOLEAN
      BY <1>1, <2>1
    <3>2. LET x == Echo!Filled(inData, t, eof) IN
          x \in Buffer /\ x.data = inData.data \o t /\ x.read = inData.read /\ (x.all <=> (inData.all \/ eof))
      BY <3>1, FilledBuffer, Zenon
    <3>. QED
      BY <3>2 DEF new
<1>. HIDE DEF new
<1>8. inData' = new
  BY <1>2 DEF new, t
<1>9. inData'.data = t
  BY <1>1, <1>5, <1>6, <1>8 DEF t
<1>7. n = Len(s) => SubSeq(s, 1, n) = s
  BY SubSeqFull
<1>10. offered' = arrived
  BY DEF Echo!StorePreview
<1>11. ~damaged' => inData'.data = s
  <2>1. damaged' <=> n < Len(s)
    BY <1>2, Zenon
  <2>2. ~damaged' => n = Len(s)
    BY <1>1, <1>3, <2>1
  <2>. QED
    BY <1>7, <1>9, <2>2 DEF t
<1>12. Len(inData'.data) <= Len(s)
  BY <1>1, <1>3, <1>4, <1>9 DEF t
<1>. QED
  BY <1>1, <1>2, <1>6, <1>8, <1>10, <1>11, <1>12, NoBufferAssumption

\* Without a preview the body will be passed on as it comes.
LEMMA PreviewEmptyOK ==
  ASSUME HandlerInv, Echo!PreviewEmpty
  PROVE  HandlerInv'
<1>. USE DEF HandlerInv
<1>1. Echo!Accepted /\ arrived = 0
  BY DEF Echo!PreviewEmpty
<1>2. /\ phase = "preview" /\ phase' \in {"body", "end"}
      /\ inData \in Buffer /\ inData # NoBuffer /\ response.hasbody
      /\ response \in Response /\ response.size \in Nat
  BY <1>1, AcceptedOK, ResponseAssumption
<1>3. /\ locked' = TRUE /\ encoding' = "none" /\ outData' = "in"
      /\ UNCHANGED <<response, arrived, offered, eof, header, sent, delivered, service, inData,
                     outText, damaged, result>>
  BY DEF Echo!PreviewEmpty, Echo!bodyVars, Echo!sendVars
<1>4. EchoTypes'
  BY <1>2, <1>3 DEF EchoTypes, Phases
<1>5. FreshInv'
  BY <1>2, <1>3 DEF FreshInv
<1>6. ModeInv'
  BY <1>1, <1>2, <1>3 DEF ModeInv, FreshInv
<1>. QED
  BY <1>4, <1>5, <1>6

\* The beginning of the body that was previewed, with the script.
LEMMA PreviewType ==
  ASSUME HandlerInv, Echo!Accepted, arrived > 0
  PROVE  LET s == SubSeq(Echo!Body(response), 1, arrived) IN
         /\ s \in Seq(Unit) /\ Len(s) = arrived /\ arrived \in 0..response.size
         /\ response.encoding = "none" =>
              Echo!Marked(s, response.head) \in Seq(Unit) /\ response.head \in 1..arrived
<1>. DEFINE s == SubSeq(Echo!Body(response), 1, arrived)
<1>1. /\ phase = "preview" /\ response \in Response
      /\ response.encoding = "none" => response.head \in 1..arrived
  BY AcceptedOK
<1>2. response.size \in Nat /\ arrived \in 0..response.size
  BY <1>1, ResponseAssumption DEF HandlerInv, EchoTypes, FreshInv
<1>3. Echo!Body(response) \in Seq(Unit) /\ Len(Echo!Body(response)) = response.size
  BY <1>1, BodyType
<1>4. s \in Seq(Unit) /\ Len(s) = arrived
  BY <1>2, <1>3, Clipped
<1>. HIDE DEF s
<1>5. response.encoding = "none" => Echo!Marked(s, response.head) \in Seq(Unit)
  <2>1. response.encoding = "none" => response.head \in 0..Len(s)
    BY <1>1, <1>2, <1>4
  <2>. QED
    BY <1>4, <2>1, MarkedType
<1>. QED
  BY <1>1, <1>2, <1>4, <1>5 DEF s

\* The beginning of a plain body is stored with the script.
LEMMA PreviewPlainOK ==
  ASSUME HandlerInv, Echo!PreviewPlain
  PROVE  HandlerInv'
<1>. DEFINE s == Echo!Marked(SubSeq(Echo!Body(response), 1, arrived), response.head)
<1>1. Echo!Accepted /\ arrived > 0 /\ response.encoding = "none" /\ Echo!StorePreview(s)
  BY DEF Echo!PreviewPlain
<1>2. s \in Seq(Unit) /\ arrived \in 0..response.size
  BY <1>1, PreviewType
<1>. HIDE DEF s
<1>3. /\ phase = "preview" /\ phase' \in {"body", "end"} /\ inData # NoBuffer
      /\ response.hasbody /\ response \in Response /\ response.size \in Nat
      /\ header \in [length : Nat, encoded : BOOLEAN] /\ ScriptLength \in Nat
  BY <1>1, AcceptedOK, ResponseAssumption, BufferAssumption DEF HandlerInv, EchoTypes
<1>4. /\ inData' \in Buffer /\ inData'.read = 0 /\ inData' # NoBuffer /\ offered' = arrived
      /\ inData'.data \in Seq(Unit) /\ Len(inData'.data) \in Nat
  BY <1>1, <1>2, <1>3, StorePreviewOK, LenProperties DEF Buffer
<1>5. /\ encoding' = "none" /\ outData' = "in"
      /\ UNCHANGED <<response, arrived, eof, sent, delivered, service, outText, result>>
  BY DEF Echo!PreviewPlain, Echo!sendVars
<1>6. header' \in [length : Nat, encoded : BOOLEAN] /\ header'.encoded = header.encoded
  <2>1. CASE header.length > 0
    <3>1. header' = [header EXCEPT !.length = @ + ScriptLength]
      BY <2>1 DEF Echo!PreviewPlain
    <3>. QED
      BY <1>3, <3>1
  <2>2. CASE ~(header.length > 0)
    BY <1>3, <2>2 DEF Echo!PreviewPlain
  <2>. QED
    BY <2>1, <2>2
<1>. USE DEF HandlerInv
<1>7. EchoTypes'
  BY <1>3, <1>4, <1>5, <1>6 DEF EchoTypes, Phases
<1>8. FreshInv'
  BY <1>3 DEF FreshInv
<1>9. ModeInv'
  BY <1>1, <1>2, <1>3, <1>4, <1>5, <1>6 DEF ModeInv, FreshInv
<1>. QED
  BY <1>7, <1>8, <1>9

\* The beginning of a compressed body is stored and held back.
LEMMA PreviewEncodedOK ==
  ASSUME HandlerInv, Echo!PreviewEncoded
  PROVE  HandlerInv'
<1>. DEFINE s == SubSeq(Echo!Body(response), 1, arrived)
<1>1. /\ Echo!Accepted /\ arrived > 0 /\ response.encoding \in {"gzip", "deflate"}
      /\ Echo!StorePreview(s)
  BY DEF Echo!PreviewEncoded
<1>2. s \in Seq(Unit) /\ Len(s) = arrived /\ arrived \in 0..response.size
  BY <1>1, PreviewType
<1>. HIDE DEF s
<1>3. /\ phase = "preview" /\ phase' \in {"body", "end"} /\ inData # NoBuffer
      /\ response.hasbody /\ response \in Response /\ response.size \in Nat
  BY <1>1, AcceptedOK, ResponseAssumption
<1>4. /\ inData' \in Buffer /\ inData'.read = 0 /\ inData' # NoBuffer /\ offered' = arrived
      /\ Len(inData'.data) <= arrived
      /\ inData'.data \in Seq(Unit) /\ Len(inData'.data) \in Nat
  BY <1>1, <1>2, <1>3, StorePreviewOK, LenProperties DEF Buffer
<1>5. /\ encoding' = response.encoding /\ locked' = TRUE
      /\ UNCHANGED <<response, arrived, eof, header, sent, delivered, service, outText, outData,
                     result>>
  BY DEF Echo!PreviewEncoded, Echo!sendVars
<1>. USE DEF HandlerInv
<1>7. EchoTypes'
  BY <1>3, <1>4, <1>5 DEF EchoTypes, Phases
<1>8. FreshInv'
  BY <1>3 DEF FreshInv
<1>9. ModeInv'
  BY <1>1, <1>2, <1>3, <1>4, <1>5 DEF ModeInv, FreshInv
<1>. QED
  BY <1>7, <1>8, <1>9

\* What one call of echo_io takes and gives.
Exchange(t, in, free) ==
  /\ in.data = inData.data \o t /\ Len(in.data) = Len(inData.data) + Len(t)
  /\ in.read = inData.read /\ (in.all => inData.all \/ eof')
  /\ Len(t) <= arrived' - offered /\ offered' = offered + Len(t)
  /\ sent = NotSent => free = 0
  /\ damaged \/ Len(t) < arrived' - offered => damaged'
  /\ damaged' => damaged \/ Len(t) < arrived' - offered
  /\ ~damaged' => t = SubSeq(Echo!Body(response), offered + 1, arrived')
  /\ outData = "in" =>
       /\ inData' = Echo!Drained(in, free)
       /\ delivered' = IF Echo!Unread(in, free) = <<>> THEN delivered
                       ELSE delivered \o Echo!Unread(in, free)
  /\ outData = "null" => inData' = in /\ delivered' = delivered
  /\ service' \in Echo!Served(in, free)

\* echo_io takes what comes next, and gives what follows what it gave before.
LEMMA IoStep ==
  ASSUME HandlerInv, Echo!Io
  PROVE  /\ phase = "body" /\ phase' = IF eof' /\ offered' = arrived' THEN "end" ELSE "body"
         /\ inData # NoBuffer /\ inData \in Buffer /\ outData \in {"null", "in"}
         /\ response \in Response /\ response.size \in Nat
         /\ offered \in 0..arrived /\ arrived' \in arrived..response.size
         /\ eof' \in BOOLEAN /\ (eof' => arrived' = response.size)
         /\ UNCHANGED <<response, locked, header, sent, encoding, outText, outData, result>>
         /\ \E t \in Seq(Unit), in \in Buffer, free \in Nat : Exchange(t, in, free)
<1>1. /\ phase = "body" /\ (phase' = IF eof' /\ offered' = arrived' THEN "end" ELSE "body")
      /\ arrived' \in arrived..response.size /\ eof' \in BOOLEAN /\ (eof' => arrived' = response.size)
      /\ UNCHANGED <<response, locked, header, sent, encoding, outText, outData, result>>
  BY DEF Echo!Io, Echo!Receive
<1>2. /\ inData # NoBuffer /\ inData \in Buffer /\ outData \in {"null", "in"}
      /\ response \in Response /\ arrived \in Nat /\ offered \in Nat
      /\ offered <= arrived /\ inData.read <= Len(inData.data)
  BY <1>1 DEF HandlerInv, EchoTypes, ModeInv
<1>3. response.size \in Nat /\ MaxRead \in Nat
  BY <1>2, ResponseAssumption, BufferAssumption
<1>. DEFINE s == SubSeq(Echo!Body(response), offered + 1, arrived')
<1>4. PICK n \in Echo!Taken(inData, s), free \in Echo!Rooms, marks \in BOOLEAN :
        LET in == Echo!Filled(inData, SubSeq(s, 1, n), eof' /\ (s # <<>> \/ marks)) IN
        /\ offered' = offered + n
        /\ delivered' = IF Echo!GivesNothing(in, free) THEN delivered
                        ELSE delivered \o Echo!Unread(Echo!Source(in), free)
        /\ inData' = IF outData = "in" THEN Echo!Drained(in, free) ELSE in
        /\ service' \in Echo!Served(in, free)
        /\ damaged' = (damaged \/ n < Len(s))
  BY DEF Echo!Io
<1>5. s \in Seq(Unit) /\ Len(s) = arrived' - offered
  <2>1. /\ Echo!Body(response) \in Seq(Unit) /\ Len(Echo!Body(response)) = response.size
    BY <1>2, BodyType
  <2>2. offered \in 0..response.size /\ arrived' \in offered..response.size
    BY <1>1, <1>2, <1>3
  <2>. QED
    BY <2>1, <2>2, Longer
<1>. HIDE DEF s
<1>6. n \in 0..Len(s) /\ Len(s) \in Nat
  BY <1>5, LenProperties DEF Echo!Taken
<1>. DEFINE t == SubSeq(s, 1, n)
<1>7. t \in Seq(Unit) /\ Len(t) = n /\ (n = Len(s) => t = s)
  BY <1>5, <1>6, Clipped, SubSeqFull
<1>8. free \in Nat /\ (sent = NotSent => free = 0)
  BY <1>3 DEF Echo!Rooms
<1>. DEFINE last == eof' /\ (s # <<>> \/ marks)
            in == Echo!Filled(inData, t, last)
<1>9. last \in BOOLEAN /\ (last => eof')
  OBVIOUS
<1>10. /\ offered' = offered + n
       /\ delivered' = IF Echo!GivesNothing(in, free) THEN delivered
                       ELSE delivered \o Echo!Unread(Echo!Source(in), free)
       /\ inData' = IF outData = "in" THEN Echo!Drained(in, free) ELSE in
       /\ service' \in Echo!Served(in, free)
  BY <1>4
<1>11. damaged' <=> (damaged \/ n < Len(s))
  BY <1>4, Zenon
<1>. HIDE DEF t, last
<1>12. /\ in \in Buffer /\ in.data = inData.data \o t
       /\ Len(in.data) = Len(inData.data) + Len(t)
       /\ in.read = inData.read /\ (in.all <=> (inData.all \/ last))
  BY <1>2, <1>7, <1>9, FilledBuffer, Zenon
<1>. HIDE DEF in
<1>13. outData = "in" =>
         delivered' = IF Echo!Unread(in, free) = <<>> THEN delivered
                      ELSE delivered \o Echo!Unread(in, free)
  <2>1. SUFFICES ASSUME outData = "in"
                 PROVE  delivered' = IF Echo!Unread(in, free) = <<>> THEN delivered
                                     ELSE delivered \o Echo!Unread(in, free)
    OBVIOUS
  <2>2. in.read <= Len(in.data)
    BY <1>2, <1>6, <1>7, <1>12, LenProperties DEF Buffer
  <2>3. in.read = Len(in.data) => Echo!Unread(in, free) = <<>>
    BY <1>8, <1>12, <2>2, DrainedBuffer, Zenon
  <2>4. Echo!Source(in) = in
    BY <2>1 DEF Echo!Source
  <2>5. Echo!GivesNothing(in, free) <=> Echo!Unread(in, free) = <<>>
    BY <2>1, <2>3, <2>4 DEF Echo!GivesNothing, Echo!Exhausted
  <2>. QED
    BY <1>10, <2>4, <2>5
<1>14. outData = "null" => inData' = in /\ delivered' = delivered
  BY <1>10 DEF Echo!GivesNothing
<1>15. Len(t) <= arrived' - offered /\ offered' = offered + Len(t)
  BY <1>5, <1>6, <1>7, <1>10
<1>16. damaged' <=> (damaged \/ Len(t) < arrived' - offered)
  BY <1>5, <1>7, <1>11
<1>17. ~damaged' => t = SubSeq(Echo!Body(response), offered + 1, arrived')
  <2>1. ~damaged' => n = Len(s)
    BY <1>6, <1>11
  <2>. QED
    BY <1>7, <2>1 DEF s
<1>18. Exchange(t, in, free)
  BY <1>8, <1>9, <1>10, <1>12, <1>13, <1>14, <1>15, <1>16, <1>17 DEF Exchange
<1>19. \E t1 \in Seq(Unit), in1 \in Buffer, room1 \in Nat : Exchange(t1, in1, room1)
  BY <1>7, <1>8, <1>12, <1>18
<1>20. offered \in 0..arrived
  BY <1>2
<1>. QED
  BY <1>1, <1>2, <1>3, <1>19, <1>20

\* echo_io stores no more than c-icap has read, and lets nothing out under lock.
LEMMA IoOK ==
  ASSUME HandlerInv, Echo!Io
  PROVE  HandlerInv'
<1>1. /\ phase = "body" /\ phase' = IF eof' /\ offered' = arrived' THEN "end" ELSE "body"
      /\ inData # NoBuffer /\ inData \in Buffer /\ outData \in {"null", "in"}
      /\ response \in Response /\ response.size \in Nat
      /\ offered \in 0..arrived /\ arrived' \in arrived..response.size
      /\ eof' \in BOOLEAN
      /\ UNCHANGED <<response, locked, header, sent, encoding, outText, outData, result>>
  BY IoStep
<1>2. PICK t \in Seq(Unit), in \in Buffer, free \in Nat : Exchange(t, in, free)
  BY IoStep
<1>3. arrived \in Nat /\ inData.read <= Len(inData.data) /\ inData.data \in Seq(Unit)
  BY <1>1 DEF HandlerInv, EchoTypes, Buffer
<1>4. in.read <= Len(in.data) /\ Len(in.data) \in Nat /\ Len(t) \in Nat
  <2>1. /\ Len(in.data) = Len(inData.data) + Len(t) /\ in.read = inData.read
        /\ inData.read \in Nat
    BY <1>1, <1>2 DEF Exchange, Buffer
  <2>2. Len(t) \in Nat /\ Len(inData.data) \in Nat
    BY <1>3, LenProperties
  <2>. QED
    BY <1>3, <2>1, <2>2
<1>5. /\ Echo!Drained(in, free) \in Buffer /\ Echo!Drained(in, free).data = in.data
      /\ Echo!Drained(in, free).read <= Len(in.data)
  BY <1>2, <1>4, DrainedBuffer, Zenon
<1>6. /\ inData' \in Buffer /\ inData'.data = in.data /\ inData'.read <= Len(inData'.data)
      /\ inData' # NoBuffer
  BY <1>1, <1>2, <1>4, <1>5, NoBufferAssumption DEF Exchange
<1>7. offered' \in Nat /\ offered' <= arrived' /\ arrived' \in Nat /\ arrived' <= response.size
  BY <1>1, <1>2, <1>3, <1>4 DEF Exchange
<1>8. Len(inData.data) <= offered => Len(inData'.data) <= offered'
  BY <1>1, <1>2, <1>3, <1>4, <1>6, LenProperties DEF Exchange
<1>. USE DEF HandlerInv
<1>9. EchoTypes'
  BY <1>1, <1>6, <1>7 DEF EchoTypes, Phases
<1>10. FreshInv'
  BY <1>1 DEF FreshInv
<1>11. ModeInv'
  BY <1>1, <1>6, <1>7, <1>8 DEF ModeInv
<1>. QED
  BY <1>9, <1>10, <1>11

\* What ends a transaction changes nothing of what was stored.
LEMMA SendHeadOK ==
  ASSUME HandlerInv, Echo!SendHead
  PROVE  HandlerInv'
<1>1. /\ phase \in {"body", "rest"} /\ ~locked /\ sent' = header
      /\ UNCHANGED <<phase, response, arrived, offered, eof, locked, header, delivered, service,
                     encoding, inData, outText, outData, damaged, result>>
  BY DEF Echo!SendHead, Echo!bodyVars, Echo!echoVars
<1>. USE DEF HandlerInv
<1>2. EchoTypes'
  BY <1>1 DEF EchoTypes
<1>3. FreshInv'
  BY <1>1 DEF FreshInv
<1>4. ModeInv'
  BY <1>1 DEF ModeInv
<1>. QED
  BY <1>2, <1>3, <1>4

\* What echo_data_do_work leaves: the body as it came, or the text of it.
LEMMA EndStep ==
  ASSUME HandlerInv, Echo!EndOfData
  PROVE  /\ phase = "end" /\ phase' = "rest" /\ inData # NoBuffer /\ inData \in Buffer
         /\ response \in Response /\ response.hasbody /\ header \in [length : Nat, encoded : BOOLEAN]
         /\ inData' \in Buffer /\ inData' # NoBuffer
         /\ inData'.data = inData.data /\ inData'.read = inData.read /\ inData'.all
         /\ locked' = FALSE /\ outText' \in Buffer \cup {NoBuffer}
         /\ UNCHANGED <<response, arrived, offered, eof, sent, delivered, service, damaged, result>>
         /\ header' = [length |-> IF locked /\ Echo!OutLength > 0 THEN Echo!OutLength
                                                               ELSE header.length,
                       encoded |-> header.encoded /\ outData' # "out"]
         /\ \/ outData' = "in" /\ UNCHANGED outText
            \/ /\ encoding = response.encoding /\ encoding # "none" /\ outData' = "out"
               /\ outText' \in Buffer /\ outText'.all /\ outText'.read = 0
               /\ outText'.data \in {Echo!Text(response),
                                     Echo!Marked(Echo!Text(response), response.head)}
               /\ Len(Echo!Text(response)) <= Len(outText'.data)
         /\ outData = "in" => outData' = "in"
<1>1. /\ phase = "end" /\ phase' = "rest" /\ inData # NoBuffer
      /\ inData' = [inData EXCEPT !.all = TRUE] /\ locked' = FALSE
      /\ UNCHANGED <<response, arrived, offered, eof, sent, delivered, service, damaged, result>>
      /\ header' = [length |-> IF locked /\ Echo!OutLength > 0 THEN Echo!OutLength
                                                            ELSE header.length,
                    encoded |-> header.encoded /\ outData' # "out"]
      /\ IF encoding # "none" THEN Echo!DoWork ELSE UNCHANGED <<encoding, outText, outData>>
  BY DEF Echo!EndOfData, Echo!bodyVars, Echo!sendVars
<1>2. /\ inData \in Buffer /\ response \in Response /\ response.hasbody
      /\ header \in [length : Nat, encoded : BOOLEAN]
      /\ outText \in Buffer \cup {NoBuffer}
      /\ \/ encoding = "none" /\ outData = "in"
         \/ encoding = response.encoding /\ encoding \in {"gzip", "deflate"} /\ outData = "null"
  BY <1>1 DEF HandlerInv, EchoTypes, ModeInv
<1>3. /\ inData' \in Buffer /\ inData' # NoBuffer
      /\ inData'.data = inData.data /\ inData'.read = inData.read /\ inData'.all
  BY <1>1, <1>2, NoBufferAssumption DEF Buffer
<1>4. CASE encoding = "none"
  BY <1>1, <1>2, <1>3, <1>4
<1>5. CASE encoding # "none"
  <2>1. /\ encoding = response.encoding /\ outData = "null"
        /\ \/ /\ outText' = Echo!Filled(Echo!NewBuffer(Len(Echo!Text(response)) + ScriptLength),
                                         Echo!Worked, TRUE)
              /\ outData' = "out"
           \/ outData' = "in" /\ UNCHANGED outText
    BY <1>1, <1>2, <1>5 DEF Echo!DoWork
  <2>2. CASE outData' = "in" /\ UNCHANGED outText
    BY <1>1, <1>2, <1>3, <2>1, <2>2
  <2>3. CASE /\ outText' = Echo!Filled(Echo!NewBuffer(Len(Echo!Text(response)) + ScriptLength),
                                       Echo!Worked, TRUE)
             /\ outData' = "out"
    <3>. DEFINE text1 == Echo!Text(response)
                b == Echo!NewBuffer(Len(Echo!Text(response)) + ScriptLength)
                w == Echo!Worked
    <3>1. text1 \in Seq(Unit) /\ Len(text1) \in Nat /\ ScriptLength \in Nat /\ PreviewSize \in Nat
      BY <1>2, BodyType, LenProperties, BufferAssumption
    <3>2. b \in Buffer /\ b.data = <<>> /\ b.read = 0
      <4>. DEFINE n == Len(Echo!Text(response)) + ScriptLength
      <4>1. n \in Nat
        BY <3>1
      <4>. HIDE DEF n
      <4>2. Echo!NewBuffer(n) \in Buffer /\ Echo!NewBuffer(n).data = <<>> /\ Echo!NewBuffer(n).read = 0
        BY <4>1, EmptyBuffer
      <4>. QED
        BY <4>2 DEF n
    <3>3. /\ w \in {text1, Echo!Marked(text1, response.head)} /\ w \in Seq(Unit)
          /\ Len(text1) <= Len(w)
      <4>1. CASE response.head \in 1..Echo!Minimum(PreviewSize, Len(text1))
        <5>1. response.head \in 0..Len(text1)
          BY <3>1, <4>1 DEF Echo!Minimum
        <5>2. /\ Echo!Marked(text1, response.head) \in Seq(Unit)
              /\ Len(text1) <= Len(Echo!Marked(text1, response.head))
          BY <3>1, <5>1, MarkedType
        <5>. QED
          BY <3>1, <5>2 DEF Echo!Worked
      <4>2. CASE response.head \notin 1..Echo!Minimum(PreviewSize, Len(text1))
        BY <3>1, <4>2 DEF Echo!Worked, Echo!Found
      <4>. QED
        BY <4>1, <4>2
    <3>4. outText' = Echo!Filled(b, w, TRUE)
      BY <2>3
    <3>. HIDE DEF b, w
    <3>. DEFINE new == Echo!Filled(b, w, TRUE)
    <3>5. /\ new \in Buffer /\ new.data = b.data \o w /\ new.read = b.read
          /\ (new.all <=> (b.all \/ TRUE))
      <4>1. b \in Buffer /\ w \in Seq(Unit) /\ TRUE \in BOOLEAN
        BY <3>2, <3>3
      <4>. QED
        BY <4>1, FilledBuffer, Zenon
    <3>. HIDE DEF new
    <3>6. outText' \in Buffer /\ outText'.all /\ outText'.read = 0 /\ outText'.data = <<>> \o w
      BY <3>2, <3>4, <3>5 DEF new
    <3>7. <<>> \o w = w
      BY <3>3, ConcatEmptySeq
    <3>. QED
      BY <1>1, <1>2, <1>3, <1>5, <2>1, <2>3, <3>3, <3>6, <3>7
  <2>. QED
    BY <2>1, <2>2, <2>3
<1>. QED
  BY <1>4, <1>5

\* The end-of-data handler leaves a head alone that was sent: it was sent
\* because it was not locked, and then the body goes out as it comes.
LEMMA EndKeepsHead ==
  ASSUME HandlerInv, Echo!EndOfData, sent # NotSent
  PROVE  header' = header
<1>1. /\ phase = "end" /\ inData # NoBuffer /\ header \in [length : Nat, encoded : BOOLEAN]
      /\ header' = [length |-> IF locked /\ Echo!OutLength > 0 THEN Echo!OutLength
                                                            ELSE header.length,
                    encoded |-> header.encoded /\ outData' # "out"]
      /\ outData = "in" => outData' = "in"
  BY EndStep
<1>2. outData = "in" /\ ~locked
  BY <1>1 DEF HandlerInv, ModeInv
<1>3. header' = [length |-> header.length, encoded |-> header.encoded /\ TRUE]
  BY <1>1, <1>2
<1>4. header.encoded \in BOOLEAN /\ header = [length |-> header.length, encoded |-> header.encoded]
  BY <1>1
<1>5. (header.encoded /\ TRUE) = header.encoded
  BY <1>4
<1>. QED
  BY <1>3, <1>4, <1>5

\* The end-of-data handler leaves a complete buffer that will be sent.
LEMMA EndOfDataOK ==
  ASSUME HandlerInv, Echo!EndOfData
  PROVE  HandlerInv'
<1>1. /\ phase = "end" /\ phase' = "rest" /\ inData # NoBuffer /\ inData \in Buffer
      /\ response \in Response /\ response.hasbody /\ header \in [length : Nat, encoded : BOOLEAN]
      /\ inData' \in Buffer /\ inData' # NoBuffer
      /\ inData'.data = inData.data /\ inData'.read = inData.read /\ inData'.all
      /\ locked' = FALSE /\ outText' \in Buffer \cup {NoBuffer}
      /\ UNCHANGED <<response, arrived, offered, eof, sent, delivered, service, damaged, result>>
      /\ header' = [length |-> IF locked /\ Echo!OutLength > 0 THEN Echo!OutLength
                                                            ELSE header.length,
                    encoded |-> header.encoded /\ outData' # "out"]
      /\ outData = "in" => outData' = "in"
  BY EndStep
<1>2. \/ outData' = "in" /\ UNCHANGED outText
      \/ /\ encoding = response.encoding /\ encoding # "none" /\ outData' = "out"
         /\ outText' \in Buffer /\ outText'.all /\ outText'.read = 0
         /\ outText'.data \in {Echo!Text(response), Echo!Marked(Echo!Text(response), response.head)}
  BY EndStep
<1>3. outText' # NoBuffer => outText' \in Buffer /\ outText'.data \in Seq(Unit) /\ Len(outText'.data) \in Nat
  BY <1>1, LenProperties DEF Buffer
<1>4. outText' # NoBuffer => outText'.read <= Len(outText'.data)
  <2>1. CASE UNCHANGED outText
    BY <2>1 DEF HandlerInv, EchoTypes
  <2>2. CASE outText'.read = 0
    BY <1>3, <2>2
  <2>. QED
    BY <1>2, <2>1, <2>2
<1>5. Echo!OutLength \in Nat
  <2>1. CASE outData' = "in"
    BY <1>1, <2>1, LenProperties DEF Buffer, Echo!OutLength
  <2>2. CASE outData' = "out"
    BY <1>2, <2>2, LenProperties DEF Buffer, Echo!OutLength
  <2>. QED
    BY <1>2, <2>1, <2>2
<1>6. /\ header'.length \in Nat /\ header' \in [length : Nat, encoded : BOOLEAN]
      /\ (header'.encoded <=> (header.encoded /\ outData' # "out"))
  <2>1. (header.encoded /\ outData' # "out") \in BOOLEAN
    OBVIOUS
  <2>. QED
    BY <1>1, <1>5, <2>1
<1>8. sent # NotSent => header' = header
  BY EndKeepsHead
<1>. USE DEF HandlerInv
<1>9. EchoTypes'
  BY <1>1, <1>3, <1>4, <1>6 DEF EchoTypes, Phases
<1>10. FreshInv'
  BY <1>1 DEF FreshInv
<1>11. ModeInv'
  <2>1. outData # "out"
    BY <1>1 DEF ModeInv
  <2>2. header.encoded <=> response.encoding # "none"
    BY <1>1, <2>1 DEF ModeInv
  <2>3. outData' \in {"in", "out"} /\ (outData' = "out" => response.encoding # "none")
    BY <1>2
  <2>4. outData' = "out" =>
         /\ outText' # NoBuffer /\ outText'.all
         /\ outText'.data \in {Echo!Text(response), Echo!Marked(Echo!Text(response), response.head)}
    BY <1>2, NoBufferAssumption
  <2>5. sent' # NotSent => ~locked' /\ sent' = header'
    BY <1>1, <1>8 DEF ModeInv
  <2>6. header'.encoded <=> (response.encoding # "none" /\ outData' # "out")
    BY <1>6, <2>2
  <2>7. Echo!Text(response)' = Echo!Text(response)
        /\ Echo!Marked(Echo!Text(response), response.head)' = Echo!Marked(Echo!Text(response), response.head)
    BY <1>1
  <2>8. /\ phase' = "rest" /\ inData' # NoBuffer /\ inData'.all /\ response'.hasbody
        /\ response' = response /\ outData' # "null"
    BY <1>1, <2>3
  <2>9. (outData = "out" =>
       /\ phase \in {"rest", "over"} /\ response.encoding # "none"
       /\ outText # NoBuffer /\ outText.all
       /\ outText.data \in {Echo!Text(response), Echo!Marked(Echo!Text(response), response.head)})'
    BY <2>3, <2>4, <2>7, <2>8
  <2>. QED
    BY <2>3, <2>5, <2>6, <2>8, <2>9 DEF ModeInv
<1>. QED
  BY <1>9, <1>10, <1>11

\* Without a body the end-of-data handler does nothing.
LEMMA EndOfNoDataOK ==
  ASSUME HandlerInv, Echo!EndOfNoData
  PROVE  HandlerInv'
<1>1. /\ phase = "end" /\ phase' = "rest" /\ inData = NoBuffer
      /\ UNCHANGED <<response, arrived, offered, eof, locked, header, sent, delivered, service,
                     encoding, inData, outText, outData, damaged, result>>
  BY DEF Echo!EndOfNoData, Echo!bodyVars, Echo!sendVars, Echo!echoVars
<1>. USE DEF HandlerInv
<1>2. EchoTypes'
  BY <1>1 DEF EchoTypes, Phases
<1>3. FreshInv'
  BY <1>1 DEF FreshInv
<1>4. ModeInv'
  BY <1>1 DEF ModeInv
<1>. QED
  BY <1>2, <1>3, <1>4

\* What c-icap is given while it asks for the rest.
LEMMA SendRestStep ==
  ASSUME HandlerInv, Echo!SendRest
  PROVE  /\ phase = "rest" /\ sent # NotSent /\ response.hasbody /\ service # "ended"
         /\ inData # NoBuffer /\ inData \in Buffer /\ outData \in {"in", "out"}
         /\ UNCHANGED <<phase, response, arrived, offered, eof, locked, header, sent, service,
                        encoding, outData, damaged, result>>
         /\ outData = "in" =>
              /\ inData' = Echo!Drained(inData, MaxRead) /\ UNCHANGED outText
              /\ delivered' = delivered \o Echo!Unread(inData, MaxRead)
         /\ outData = "out" =>
              /\ outText \in Buffer
              /\ outText' = Echo!Drained(outText, MaxRead) /\ UNCHANGED inData
              /\ delivered' = delivered \o Echo!Unread(outText, MaxRead)
<1>1. /\ phase = "rest" /\ sent # NotSent /\ response.hasbody /\ service # "ended"
      /\ UNCHANGED <<phase, response, arrived, offered, eof, locked, header, sent, service,
                     encoding, outData, damaged, result>>
      /\ delivered' = delivered \o Echo!Unread(Echo!Source(inData), MaxRead)
      /\ IF outData = "in"
           THEN inData' = Echo!Drained(inData, MaxRead) /\ UNCHANGED outText
           ELSE outText' = Echo!Drained(outText, MaxRead) /\ UNCHANGED inData
  BY DEF Echo!SendRest, Echo!bodyVars
<1>2. /\ inData # NoBuffer /\ inData \in Buffer /\ outData \in {"in", "out"}
      /\ outData = "out" => outText \in Buffer
  BY <1>1 DEF HandlerInv, EchoTypes, ModeInv
<1>. QED
  BY <1>1, <1>2 DEF Echo!Source

\* Sending the rest moves only the place up to which was read.
LEMMA SendRestOK ==
  ASSUME HandlerInv, Echo!SendRest
  PROVE  HandlerInv'
<1>1. /\ phase = "rest" /\ inData # NoBuffer /\ inData \in Buffer /\ outData \in {"in", "out"}
      /\ UNCHANGED <<phase, response, arrived, offered, eof, locked, header, sent, service,
                     encoding, outData, damaged, result>>
      /\ response.hasbody
  BY SendRestStep
<1>2. MaxRead \in Nat
  BY BufferAssumption
<1>3. /\ inData' \in Buffer /\ inData'.read <= Len(inData'.data) /\ inData'.all = inData.all
      /\ outText' \in Buffer \cup {NoBuffer}
      /\ outText' # NoBuffer => outText'.read <= Len(outText'.data)
      /\ outData = "out" =>
           outText' \in Buffer /\ outText'.all = outText.all /\ outText'.data = outText.data
  <2>1. CASE outData = "in"
    <3>1. inData.read <= Len(inData.data) /\ outText' = outText
      BY <1>1, <2>1, SendRestStep DEF HandlerInv, EchoTypes
    <3>2. LET b == Echo!Drained(inData, MaxRead) IN
          b \in Buffer /\ b.data = inData.data /\ b.all = inData.all /\ b.read <= Len(inData.data)
      BY <1>1, <1>2, <3>1, DrainedBuffer, Zenon
    <3>3. inData' = Echo!Drained(inData, MaxRead)
      BY <2>1, SendRestStep
    <3>. QED
      BY <2>1, <3>1, <3>2, <3>3 DEF HandlerInv, EchoTypes
  <2>2. CASE outData = "out"
    <3>1. outText \in Buffer /\ outText.read <= Len(outText.data) /\ inData' = inData
      BY <1>1, <2>2, SendRestStep, NoBufferAssumption DEF HandlerInv, EchoTypes
    <3>2. LET b == Echo!Drained(outText, MaxRead) IN
          b \in Buffer /\ b.data = outText.data /\ b.all = outText.all /\ b.read <= Len(outText.data)
      BY <1>2, <3>1, DrainedBuffer, Zenon
    <3>3. outText' = Echo!Drained(outText, MaxRead)
      BY <2>2, SendRestStep
    <3>. QED
      BY <1>1, <2>2, <3>1, <3>2, <3>3 DEF HandlerInv, EchoTypes
  <2>. QED
    BY <1>1, <2>1, <2>2
<1>4. inData' # NoBuffer /\ (outData = "out" => outText' # NoBuffer)
  BY <1>3, NoBufferAssumption
<1>. USE DEF HandlerInv
<1>5. EchoTypes'
  BY <1>1, <1>3 DEF EchoTypes, Phases
<1>6. FreshInv'
  BY <1>1 DEF FreshInv
<1>7. ModeInv'
  <2>1. inData'.all
    BY <1>1, <1>3 DEF ModeInv
  <2>2. /\ Echo!Text(response)' = Echo!Text(response)
        /\ Echo!Marked(Echo!Text(response), response.head)' = Echo!Marked(Echo!Text(response), response.head)
    BY <1>1
  <2>3. (outData = "out" =>
       /\ phase \in {"rest", "over"} /\ response.encoding # "none"
       /\ outText # NoBuffer /\ outText.all
       /\ outText.data \in {Echo!Text(response), Echo!Marked(Echo!Text(response), response.head)})'
    <3>1. SUFFICES ASSUME outData = "out"
                   PROVE  /\ outText' # NoBuffer /\ outText'.all /\ response.encoding # "none"
                          /\ outText'.data \in {Echo!Text(response), Echo!Marked(Echo!Text(response), response.head)}
      BY <1>1, <2>2
    <3>. QED
      BY <1>3, <1>4, <3>1 DEF ModeInv
  <2>. QED
    BY <1>1, <1>4, <2>1, <2>3 DEF ModeInv
<1>. QED
  BY <1>5, <1>6, <1>7

\* Nothing is left to give only when everything was given.
LEMMA AllGiven ==
  ASSUME HandlerInv, phase = "rest", response.hasbody, Echo!GivesNothing(inData, MaxRead)
  PROVE  /\ Echo!GivesEof(inData, MaxRead)
         /\ outData = "in" => inData.read = Len(inData.data)
         /\ outData = "out" => outText.read = Len(outText.data)
<1>1. /\ inData # NoBuffer /\ inData \in Buffer /\ inData.all /\ outData \in {"in", "out"}
      /\ inData.read <= Len(inData.data)
      /\ outData = "out" => outText \in Buffer /\ outText.read <= Len(outText.data)
  BY DEF HandlerInv, EchoTypes, ModeInv
<1>2. MaxRead \in Nat /\ MaxRead > 0
  BY BufferAssumption
<1>3. Echo!GivesEof(inData, MaxRead)
  BY <1>1 DEF Echo!GivesEof
<1>4. ASSUME NEW b \in Buffer, b.read <= Len(b.data), Echo!Exhausted(b) \/ Echo!Unread(b, MaxRead) = <<>>
      PROVE  b.read = Len(b.data)
  <2>1. Echo!Exhausted(b) => b.read = Len(b.data)
    BY DEF Echo!Exhausted
  <2>2. Echo!Unread(b, MaxRead) = <<>> => b.read = Len(b.data)
    BY <1>2, <1>4, DrainedBuffer, Zenon
  <2>. QED
    BY <1>4, <2>1, <2>2
<1>5. CASE outData = "in"
  <2>1. Echo!Exhausted(inData) \/ Echo!Unread(inData, MaxRead) = <<>>
    BY <1>5 DEF Echo!GivesNothing, Echo!Source
  <2>2. inData.read = Len(inData.data)
    BY <1>1, <1>4, <2>1
  <2>. QED
    BY <1>3, <1>5, <2>2
<1>6. CASE outData = "out"
  <2>1. Echo!Exhausted(outText) \/ Echo!Unread(outText, MaxRead) = <<>>
    BY <1>6 DEF Echo!GivesNothing, Echo!Source
  <2>2. outText.read = Len(outText.data)
    BY <1>1, <1>4, <1>6, <2>1
  <2>. QED
    BY <1>3, <1>6, <2>2
<1>. QED
  BY <1>1, <1>5, <1>6

\* The end of a transaction changes nothing that was stored.
LEMMA FinishOK ==
  ASSUME HandlerInv,
         Echo!FinishRest \/ Echo!Abort \/ Echo!PreviewUnallocated \/ Echo!EndOfDataOverruns
  PROVE  HandlerInv' /\ phase' = "over"
<1>1. /\ phase \in {"open", "preview", "body", "end", "rest"} /\ phase' = "over"
      /\ UNCHANGED <<response, arrived, offered, eof, locked, header, sent, delivered, service,
                     encoding, inData, outText, outData, damaged>>
  BY DEF Echo!FinishRest, Echo!Abort, Echo!PreviewUnallocated, Echo!EndOfDataOverruns, Echo!Killed,
     Echo!bodyVars, Echo!sendVars, Echo!echoVars
<1>. USE DEF HandlerInv
<1>2. EchoTypes'
  BY <1>1 DEF EchoTypes, Phases
<1>3. FreshInv'
  BY <1>1 DEF FreshInv
<1>4. ModeInv'
  BY <1>1 DEF ModeInv
<1>. QED
  BY <1>1, <1>2, <1>3, <1>4

\* echo_release_request_data leaves what a worker begins with.
LEMMA ReleaseOK ==
  ASSUME Echo!ReleaseRequestData
  PROVE  HandlerInv'
<1>. USE DEF Echo!ReleaseRequestData, HandlerInv
<1>1. EchoTypes'
  BY EmptySeq DEF EchoTypes, Phases
<1>2. FreshInv'
  BY DEF FreshInv
<1>3. ModeInv'
  BY DEF ModeInv
<1>. QED
  BY <1>1, <1>2, <1>3

\* No step of the handlers breaks the invariant.
LEMMA HandlerNext == HandlerInv /\ [Echo!Next]_(Echo!vars) => HandlerInv'
<1>. SUFFICES ASSUME HandlerInv, [Echo!Next]_(Echo!vars) PROVE HandlerInv'
  OBVIOUS
<1>1. CASE UNCHANGED Echo!vars
  <2>1. UNCHANGED <<phase, response, arrived, offered, eof, locked, header, sent, delivered,
                    service, encoding, inData, outText, outData, damaged, result>>
    BY <1>1 DEF Echo!vars, Echo!bodyVars, Echo!sendVars, Echo!echoVars
  <2>2. EchoTypes'
    BY <2>1 DEF HandlerInv, EchoTypes
  <2>3. FreshInv'
    BY <2>1 DEF HandlerInv, FreshInv
  <2>4. ModeInv'
    BY <2>1 DEF HandlerInv, ModeInv
  <2>. QED
    BY <2>2, <2>3, <2>4 DEF HandlerInv
<1>2. CASE Echo!Next
  BY <1>2, InitRequestDataOK, ReadPreviewOK, RefuseOK, PreviewEmptyOK, PreviewPlainOK,
     PreviewEncodedOK, SendHeadOK, IoOK, EndOfDataOK, EndOfNoDataOK, SendRestOK, FinishOK,
     ReleaseOK DEF Echo!Next
<1>. QED
  BY <1>1, <1>2

-------------------------------------------------------------------------------
(* http_zip_decompress. *)

\* The room that is left and what was produced fit in the block, which has the
\* size the local says.
BlockInv ==
  /\ pc = "start" => got = 0
  /\ pc \in {"inflate", "grow", "end", "fail"} => got + room <= block
  /\ pc = "overrun" => 2 * got >= Word

LeakInv ==
  /\ pc = "start" => blocks = 0
  /\ pc \in {"inflate", "grow", "overrun", "end", "fail"} => blocks = 1
  /\ pc = "returned" => blocks = IF return = 0 THEN 1 ELSE 0

WholeInv ==
  /\ got <= text
  /\ pc = "end" => good /\ got = text
  /\ pc # "returned" => return = 1
  /\ return = 0 => good /\ got = text

ZipInv == TypeOK /\ BlockInv /\ LeakInv /\ WholeInv

\* What does not reach Word is not changed by counting modulo Word, and nothing
\* counted so reaches it.
LEMMA NoWrap == \A n \in 0..(Word - 1) : n % Word = n
BY NumbersAssumption
LEMMA Counted == \A n \in Nat : n % Word \in 0..(Word - 1)
BY NumbersAssumption

\* A call begins with nothing allocated.
LEMMA ZipInit == Init => ZipInv
BY NumbersAssumption
   DEF Init, ZipInv, TypeOK, BlockInv, LeakInv, WholeInv

\* No step of http_zip_decompress breaks its invariant.
LEMMA ZipNext == ZipInv /\ [Next]_vars => ZipInv'
<1> SUFFICES ASSUME ZipInv, [Next]_vars PROVE ZipInv'
  OBVIOUS
<1> USE NumbersAssumption
<1> USE DEF ZipInv, TypeOK, BlockInv, LeakInv, WholeInv, streamVars, blockVars, Return
<1>1. CASE TooShort
  BY <1>1 DEF TooShort
<1>2. CASE Start
  <2>1. (input * Guess) % Word \in 0..(Word - 1)
    <3>1. input * Guess \in Nat
      BY GuessAssumption
    <3> QED
      BY <3>1, Counted
  <2>2. CASE pc' = "inflate"
    BY <1>2, <2>1, <2>2 DEF Start
  <2>3. CASE pc' # "inflate"
    BY <1>2, <2>3 DEF Start
  <2> QED
    BY <2>2, <2>3
<1>3. CASE Inflate
  BY <1>3 DEF Inflate
<1>4. CASE EndStream
  BY <1>4 DEF EndStream
<1>5. CASE Fail
  BY <1>5 DEF Fail
<1>6. CASE Grow
  <2>1. /\ pc = "grow" /\ bufsize' = (got * 2) % Word
        /\ got \in 0..(Word - 1) /\ got * 2 \in Nat /\ bufsize' \in 0..(Word - 1)
    <3>1. got \in 0..(Word - 1) /\ got * 2 \in Nat /\ bufsize' = (got * 2) % Word /\ pc = "grow"
      BY <1>6 DEF Grow
    <3> QED
      BY <3>1, Counted
  <2>2. CASE pc' = "inflate"
    <3>1. got <= bufsize' /\ block' = bufsize' /\ room' = (bufsize' - got) % Word
      BY <1>6, <2>1, <2>2 DEF Grow
    <3>2. room' = bufsize' - got
      <4> HIDE DEF ZipInv, TypeOK, BlockInv, LeakInv, WholeInv
      <4>1. bufsize' - got \in 0..(Word - 1)
        BY <2>1, <3>1
      <4> QED
        BY <3>1, <4>1, NoWrap
    <3> QED
      BY <1>6, <2>1, <2>2, <3>1, <3>2 DEF Grow
  <2>3. CASE pc' = "overrun"
    <3>1. got > bufsize' /\ block' = bufsize' /\ room' = (bufsize' - got) % Word
      BY <1>6, <2>1, <2>3 DEF Grow
    <3>2. 2 * got >= Word /\ room' \in 0..(Word - 1)
      <4> HIDE DEF ZipInv, TypeOK, BlockInv, LeakInv, WholeInv
      <4>1. got * 2 < Word => bufsize' = got * 2
        BY <2>1, NoWrap
      <4>2. (bufsize' - got) % Word \in 0..(Word - 1)
        BY <2>1
      <4> QED
        BY <2>1, <3>1, <4>1, <4>2
    <3> QED
      BY <1>6, <2>1, <2>3, <3>1, <3>2 DEF Grow
  <2>4. CASE pc' \notin {"inflate", "overrun"}
    BY <1>6, <2>1, <2>4 DEF Grow
  <2> QED
    BY <2>2, <2>3, <2>4
<1>7. CASE UNCHANGED vars
  BY <1>7 DEF vars
<1> QED
  BY <1>1, <1>2, <1>3, <1>4, <1>5, <1>6, <1>7 DEF Next

-------------------------------------------------------------------------------
(* The service with its decompression. *)

EchoInv == HandlerInv /\ ZipInv

\* Each step of the composition is a step of the handlers or leaves them alone.
LEMMA EchoStep == [EchoNext]_<<vars, echoVars>> => [Echo!Next]_(Echo!vars)
<1>1. UNCHANGED echoVars => UNCHANGED Echo!vars
  BY DEF echoVars, Echo!vars, Echo!bodyVars, Echo!sendVars, Echo!echoVars
<1>2. CallDecompress \/ Decompress => UNCHANGED echoVars
  BY DEF CallDecompress, Decompress
<1>3. EndOfDataWorked \/ EndOfDataOverran \/ EchoAlone => Echo!Next
  BY DEF EndOfDataWorked, EndOfDataOverran, EchoAlone, Echo!Next
<1>. QED
  BY <1>1, <1>2, <1>3 DEF EchoNext

\* A compressed body that is complete is no longer than was announced.
LEMMA CallBounds ==
  ASSUME HandlerInv, Ending
  PROVE  Len(inData.data) \in 0..MaxInput /\ response.plain \in 0..MaxText
<1>1. /\ response \in Response /\ inData \in Buffer /\ offered \in Nat /\ arrived \in Nat
      /\ Len(inData.data) <= offered /\ offered <= arrived /\ arrived <= response.size
  BY DEF HandlerInv, Ending, EchoTypes, ModeInv
<1>2. response.size \in Nat /\ response.plain \in Nat
  BY <1>1, ResponseAssumption
<1>3. response.size <= MaxInput /\ response.plain <= MaxText
  BY <1>1, LengthAssumption
<1>4. Len(inData.data) \in Nat
  BY <1>1, LenProperties DEF Buffer
<1>. QED
  BY <1>1, <1>2, <1>3, <1>4, NumbersAssumption

\* Nor does a call, the return from it, or a step of the handlers.
LEMMA ZipStep ==
  ASSUME EchoInv, [EchoNext]_<<vars, echoVars>>
  PROVE  ZipInv'
<1>. USE DEF EchoInv
<1>1. CASE CallDecompress
  <2>1. Len(inData.data) \in 0..MaxInput /\ response.plain \in 0..MaxText
    BY <1>1, CallBounds DEF CallDecompress
  <2>2. /\ pc = "returned" /\ return = 1 /\ blocks = 0
    BY <1>1 DEF CallDecompress, Uncalled, ZipInv, LeakInv
  <2>3. good' \in BOOLEAN
    <3>1. good' = (response.intact /\ inData.data = Echo!Body(response))
      BY <1>1 DEF CallDecompress
    <3>. QED
      BY <3>1, Zenon
  <2>4. /\ pc' = "start" /\ input' = Len(inData.data) /\ text' = response.plain
        /\ block' = 0 /\ got' = 0 /\ room' = 0 /\ bufsize' = 0
        /\ UNCHANGED <<blocks, return>>
    BY <1>1 DEF CallDecompress
  <2>5. TypeOK'
    BY <2>1, <2>2, <2>3, <2>4, NumbersAssumption DEF TypeOK
  <2>6. BlockInv' /\ LeakInv' /\ WholeInv'
    BY <2>1, <2>2, <2>4 DEF BlockInv, LeakInv, WholeInv
  <2>. QED
    BY <2>5, <2>6 DEF ZipInv
<1>2. CASE Decompress
  BY <1>2, ZipNext DEF Decompress
<1>3. CASE EndOfDataWorked \/ EndOfDataOverran
  BY <1>3 DEF EndOfDataWorked, EndOfDataOverran, ZipInv, TypeOK, BlockInv, LeakInv, WholeInv
<1>4. CASE EchoAlone
  BY <1>4, ZipNext DEF EchoAlone
<1>5. CASE UNCHANGED <<vars, echoVars>>
  BY <1>5, ZipNext
<1>. QED
  BY <1>1, <1>2, <1>3, <1>4, <1>5 DEF EchoNext

\* Both invariants hold before the first transaction.
LEMMA EchoInvInit == EchoInit => EchoInv
<1>. SUFFICES ASSUME EchoInit PROVE EchoInv
  OBVIOUS
<1>1. HandlerInv
  BY HandlerInit DEF EchoInit
<1>2. 0 \in 0..MaxInput /\ 0 \in 0..MaxText /\ 0 \in 0..(Word - 1)
  BY NumbersAssumption
<1>3. /\ pc = "returned" /\ input = 0 /\ text = 0 /\ good = FALSE
      /\ block = 0 /\ got = 0 /\ room = 0 /\ bufsize = 0 /\ blocks = 0 /\ return = 1
  BY DEF EchoInit
<1>4. TypeOK
  <2>1. pc \in {"start", "inflate", "grow", "overrun", "end", "fail", "returned"} /\ good \in BOOLEAN
    BY <1>3
  <2>2. input \in 0..MaxInput /\ text \in 0..MaxText /\ {block, got, room, bufsize} \subseteq 0..(Word - 1)
    BY <1>2, <1>3
  <2>3. blocks \in Int /\ return \in {-7, -6, -5, -4, -3, -2, 0, 1}
    BY <1>3
  <2>. QED
    BY <2>1, <2>2, <2>3 DEF TypeOK
<1>5. BlockInv /\ LeakInv /\ WholeInv
  BY <1>3 DEF BlockInv, LeakInv, WholeInv
<1>. QED
  BY <1>1, <1>4, <1>5 DEF EchoInv, ZipInv

\* No step of the composition breaks them.
LEMMA EchoInvNext == EchoInv /\ [EchoNext]_<<vars, echoVars>> => EchoInv'
BY HandlerNext, EchoStep, ZipStep DEF EchoInv

\* They hold always.
LEMMA EchoReachable == EchoSpec => []EchoInv
BY EchoInvInit, EchoInvNext, PTL DEF EchoSpec

\* Whatever the lengths, the guess and the width of unsigned int: zlib is never
\* given more room than the block has left, and nothing is copied past a block
\* before a body has inflated to half of what an unsigned int counts
\* (httpzip.c:61, 122-140).
THEOREM DecompressSafe == EchoSpec => [](TypeOK /\ WithinBlock)
<1>1. EchoInv => TypeOK /\ WithinBlock
  BY DEF EchoInv, ZipInv, BlockInv, WithinBlock
<1>. QED
  BY <1>1, EchoReachable, PTL

\* 0 is returned only when the result is the whole text (httpzip.c:98-108, 142).
THEOREM TextsAreWhole == EchoSpec => []TextIsWhole
<1>1. EchoInv => TextIsWhole
  BY DEF EchoInv, ZipInv, WholeInv, TextIsWhole
<1>. QED
  BY <1>1, EchoReachable, PTL

\* Every return leaves the result's block or none (httpzip.c:55-144).
THEOREM NoBlockLost == EchoSpec => []BlocksFreed
<1>1. EchoInv => BlocksFreed
  BY DEF EchoInv, ZipInv, LeakInv, BlocksFreed
<1>. QED
  BY <1>1, EchoReachable, PTL

\* Only the end-of-data handler could change a head that was sent, and it does not.
LEMMA HeadStep ==
  ASSUME HandlerInv, Echo!Next, sent # NotSent, phase # "over"
  PROVE  header' = header
<1>1. phase \notin {"start", "open", "preview"}
  BY DEF HandlerInv, FreshInv
<1>2. Echo!EndOfData => header' = header
  BY EndKeepsHead
<1>3. /\ ~Echo!InitRequestData /\ ~Echo!ReadPreview /\ ~Echo!Refuse /\ ~Echo!PreviewEmpty
      /\ ~Echo!PreviewPlain /\ ~Echo!PreviewEncoded /\ ~Echo!ReleaseRequestData
      /\ ~Echo!PreviewUnallocated
  BY <1>1 DEF Echo!InitRequestData, Echo!ReadPreview, Echo!Refuse, Echo!PreviewEmpty,
     Echo!PreviewPlain, Echo!PreviewEncoded, Echo!ReleaseRequestData, Echo!Accepted,
     Echo!PreviewUnallocated
<1>4. CASE \/ Echo!SendHead \/ Echo!Io \/ Echo!EndOfNoData \/ Echo!SendRest
           \/ Echo!FinishRest \/ Echo!Abort \/ Echo!EndOfDataOverruns
  BY <1>4 DEF Echo!SendHead, Echo!Io, Echo!EndOfNoData, Echo!SendRest, Echo!FinishRest, Echo!Abort,
     Echo!EndOfDataOverruns, Echo!Killed
<1>. QED
  BY <1>2, <1>3, <1>4 DEF Echo!Next

\* A head that is on its way is never changed, although the end-of-data handler
\* sets its length and removes its encoding (srv_echo.c:412-431).
THEOREM HeadsAreFinal == EchoSpec => HeadIsFinal
<1>1. EchoInv /\ [EchoNext]_<<vars, echoVars>>
        => [sent # NotSent /\ phase # "over" => header' = header]_<<vars, echoVars>>
  <2>. SUFFICES ASSUME EchoInv, [EchoNext]_<<vars, echoVars>>, sent # NotSent, phase # "over"
       PROVE  header' = header
    OBVIOUS
  <2>1. CASE Echo!Next
    BY <2>1, HeadStep DEF EchoInv
  <2>2. CASE UNCHANGED Echo!vars
    BY <2>2 DEF Echo!vars
  <2>. QED
    BY <2>1, <2>2, EchoStep
<1>. QED
  BY <1>1, EchoReachable, PTL DEF EchoSpec, HeadIsFinal

\* A transaction ends with nothing to give only when in_data is complete.
LEMMA CutStep ==
  ASSUME HandlerInv, [Echo!Next]_(Echo!vars), NotCutOff
  PROVE  NotCutOff'
<1>. USE DEF NotCutOff, Echo!NotCutOff
<1>1. CASE Echo!FinishRest
  <2>1. phase = "rest" /\ (response.hasbody /\ service # "ended" => Echo!GivesNothing(inData, MaxRead))
    BY <1>1 DEF Echo!FinishRest
  <2>2. result' = IF response.hasbody /\ service # "ended" /\ ~Echo!GivesEof(inData, MaxRead)
                    THEN "cut off" ELSE "sent"
    BY <1>1 DEF Echo!FinishRest
  <2>3. response.hasbody /\ service # "ended" => Echo!GivesEof(inData, MaxRead)
    BY <2>1, AllGiven
  <2>. QED
    BY <2>2, <2>3
<1>2. CASE \/ Echo!Refuse \/ Echo!Abort \/ Echo!ReleaseRequestData
           \/ Echo!PreviewUnallocated \/ Echo!EndOfDataOverruns
  BY <1>2 DEF Echo!Refuse, Echo!Abort, Echo!ReleaseRequestData, Echo!PreviewUnallocated,
     Echo!EndOfDataOverruns, Echo!Killed
<1>3. CASE \/ Echo!InitRequestData \/ Echo!ReadPreview \/ Echo!PreviewEmpty \/ Echo!PreviewPlain
           \/ Echo!PreviewEncoded \/ Echo!SendHead \/ Echo!Io \/ Echo!EndOfData
           \/ Echo!EndOfNoData \/ Echo!SendRest \/ UNCHANGED Echo!vars
  BY <1>3 DEF Echo!InitRequestData, Echo!ReadPreview, Echo!PreviewEmpty, Echo!PreviewPlain,
     Echo!PreviewEncoded, Echo!SendHead, Echo!Io, Echo!EndOfData, Echo!EndOfNoData, Echo!SendRest,
     Echo!vars
<1>. QED
  BY <1>1, <1>2, <1>3 DEF Echo!Next

\* c-icap is never told that there is nothing to send when it waits for the
\* rest of a body (srv_echo.c:434-467).
THEOREM NeverCutOff == EchoSpec => []NotCutOff
<1>1. EchoInit => NotCutOff
  BY DEF EchoInit, Echo!Init, NotCutOff, Echo!NotCutOff
<1>2. EchoInv /\ NotCutOff /\ [EchoNext]_<<vars, echoVars>> => NotCutOff'
  BY CutStep, EchoStep DEF EchoInv
<1>. QED
  BY <1>1, <1>2, EchoReachable, PTL DEF EchoSpec

-------------------------------------------------------------------------------
(* What is stored and what is given. *)

\* What is stored of the first n units of a body: the units as they came, or
\* the script behind the head tag that was among them.
AsItCame(r, d, n) == d = SubSeq(Echo!Body(r), 1, n)
WithScript(r, d, n) ==
  /\ r.encoding = "none" /\ r.head \in 1..n
  /\ d = SubSeq(Echo!Marked(Echo!Body(r), r.head), 1, n + ScriptLength)

\* What may go out of in_data.
Shown(r) ==
  {Echo!Body(r)} \cup
  (IF r.encoding = "none" /\ r.head \in 1..r.size THEN {Echo!Marked(Echo!Body(r), r.head)} ELSE {})

Begins(r, d) == \E s \in Shown(r) : Echo!Prefix(d, s)

\* The client was sent what was read from the buffer that is sent.
FlowInv ==
  /\ sent = NotSent => delivered = <<>>
  /\ outData = "null" => delivered = <<>>
  /\ outData = "in" => delivered = SubSeq(inData.data, 1, inData.read)
  /\ outData # "in" /\ inData # NoBuffer => inData.read = 0
  /\ outData = "out" => delivered = SubSeq(outText.data, 1, outText.read)

\* in_data holds what c-icap has read, and in the end all of it.
ContentInv ==
  /\ phase \in {"body", "end"} /\ inData # NoBuffer /\ ~damaged =>
       AsItCame(response, inData.data, offered) \/ WithScript(response, inData.data, offered)
  /\ phase = "body" /\ ~damaged => offered = arrived /\ ~inData.all /\ service = "going"
  /\ phase = "end" /\ inData # NoBuffer => offered = response.size
  /\ phase = "rest" /\ outData = "in" /\ ~damaged => inData.data \in Shown(response)
  /\ phase = "over" /\ outData = "in" /\ ~damaged => Begins(response, inData.data)

\* The body is ended when all of it was given.
EndedInv ==
  /\ service = "ended" => sent # NotSent
  /\ service = "ended" /\ phase \in {"end", "rest"} /\ ~damaged =>
       outData = "in" /\ inData.read = Len(inData.data)
  /\ phase # "over" => result = "none"
  /\ result = "sent" /\ response.hasbody /\ ~damaged =>
       /\ outData \in {"in", "out"}
       /\ outData = "in" => delivered = inData.data /\ inData.data \in Shown(response)
       /\ outData = "out" => delivered = outText.data

BodyInv == FlowInv /\ ContentInv /\ EndedInv

\* A buffer of which nothing was read.
LEMMA ReadNothing == \A s : SubSeq(s, 1, 0) = <<>>
BY SubSeqEmpty

\* Before anything is stored.
LEMMA FreshBody == HandlerInv /\ phase \in {"start", "open", "preview"} => BodyInv
<1>. SUFFICES ASSUME HandlerInv, phase \in {"start", "open", "preview"} PROVE BodyInv
  OBVIOUS
<1>. USE DEF HandlerInv
<1>1. FlowInv
  BY DEF FreshInv, FlowInv
<1>2. ContentInv
  BY DEF ContentInv
<1>3. EndedInv
  BY DEF FreshInv, EndedInv
<1>. QED
  BY <1>1, <1>2, <1>3 DEF BodyInv

\* A refused response is not sent by the service.
LEMMA RefuseBody ==
  ASSUME HandlerInv, Echo!Refuse
  PROVE  BodyInv'
<1>1. /\ phase = "preview"
      /\ \/ phase' = "over" /\ result' # "sent"
         \/ phase' = "end" /\ ~response.hasbody /\ result' = result
      /\ UNCHANGED <<response, arrived, offered, eof, locked, header, sent, delivered, service,
                     encoding, inData, outText, outData, damaged>>
  BY DEF Echo!Refuse, Echo!bodyVars, Echo!sendVars, Echo!echoVars
<1>2. /\ sent = NotSent /\ delivered = <<>> /\ outData = "null" /\ service = "going"
      /\ result = "none" /\ (inData # NoBuffer => inData.read = 0 /\ response.hasbody)
  BY <1>1 DEF HandlerInv, FreshInv
<1>3. FlowInv'
  BY <1>1, <1>2 DEF FlowInv
<1>4. ContentInv'
  BY <1>1, <1>2 DEF ContentInv
<1>5. EndedInv'
  BY <1>1, <1>2 DEF EndedInv
<1>. QED
  BY <1>3, <1>4, <1>5 DEF BodyInv

\* A preview that was accepted: it is enough to know what was stored.
LEMMA AcceptedBody ==
  ASSUME HandlerInv, HandlerInv', Echo!Accepted, inData' # NoBuffer, inData'.read = 0,
         UNCHANGED <<response, arrived, eof, sent, delivered, service, result>>,
         outData' # "out", offered' = arrived, inData'.all => eof,
         ~damaged' => \/ AsItCame(response, inData'.data, arrived)
                      \/ WithScript(response, inData'.data, arrived)
  PROVE  BodyInv'
<1>1. /\ phase = "preview" /\ phase' \in {"body", "end"} /\ (phase' = "end" <=> eof)
      /\ response.hasbody
  BY AcceptedOK
<1>2. /\ sent = NotSent /\ delivered = <<>> /\ service = "going" /\ result = "none"
      /\ eof => arrived = response.size
  BY <1>1 DEF HandlerInv, FreshInv
<1>3. outData' \in {"null", "in"}
  BY DEF HandlerInv, ModeInv
<1>4. FlowInv'
  BY <1>2, <1>3, ReadNothing DEF FlowInv
<1>5. ContentInv'
  BY <1>1, <1>2 DEF ContentInv
<1>6. EndedInv'
  BY <1>1, <1>2 DEF EndedInv
<1>. QED
  BY <1>4, <1>5, <1>6 DEF BodyInv

\* Nothing was stored of an empty preview.
LEMMA PreviewEmptyBody ==
  ASSUME HandlerInv, HandlerInv', Echo!PreviewEmpty
  PROVE  BodyInv'
<1>1. Echo!Accepted /\ arrived = 0
  BY DEF Echo!PreviewEmpty
<1>2. /\ outData' = "in"
      /\ UNCHANGED <<response, arrived, offered, eof, sent, delivered, service, inData, damaged,
                     result>>
  BY DEF Echo!PreviewEmpty, Echo!bodyVars, Echo!sendVars
<1>3. /\ inData # NoBuffer /\ inData.data = <<>> /\ inData.read = 0 /\ inData.all = FALSE
      /\ offered = 0
  BY <1>1, AcceptedOK DEF HandlerInv, FreshInv
<1>4. AsItCame(response, inData'.data, arrived)
  BY <1>1, <1>2, <1>3, ReadNothing DEF AsItCame
<1>. QED
  BY <1>1, <1>2, <1>3, <1>4, AcceptedBody

\* A plain preview is stored with the script behind its head tag.
LEMMA PreviewPlainBody ==
  ASSUME HandlerInv, HandlerInv', Echo!PreviewPlain
  PROVE  BodyInv' /\ (~damaged' => WithScript(response, inData'.data, arrived))
<1>. DEFINE b == Echo!Body(response)
            s == Echo!Marked(SubSeq(b, 1, arrived), response.head)
<1>1. Echo!Accepted /\ arrived > 0 /\ response.encoding = "none" /\ Echo!StorePreview(s)
  BY DEF Echo!PreviewPlain
<1>2. /\ s \in Seq(Unit) /\ arrived \in 0..response.size /\ response.head \in 1..arrived
  BY <1>1, PreviewType
<1>3. phase = "preview" /\ inData # NoBuffer /\ response \in Response
  BY <1>1, AcceptedOK
<1>4. b \in Seq(Unit) /\ Len(b) = response.size
  BY <1>3, BodyType
<1>. HIDE DEF b
<1>5. s = SubSeq(Echo!Marked(b, response.head), 1, arrived + ScriptLength)
  <2>1. arrived \in 0..Len(b) /\ response.head \in 0..arrived
    BY <1>2, <1>4
  <2>. QED
    BY <1>4, <2>1, MarkedBeginning
<1>. HIDE DEF s
<1>6. /\ inData'.read = 0 /\ inData' # NoBuffer /\ offered' = arrived
      /\ (inData'.all => eof) /\ (~damaged' => inData'.data = s)
  BY <1>1, <1>2, <1>3, StorePreviewOK
<1>7. /\ outData' = "in"
      /\ UNCHANGED <<response, arrived, eof, sent, delivered, service, result>>
  BY DEF Echo!PreviewPlain, Echo!sendVars
<1>8. ~damaged' => WithScript(response, inData'.data, arrived)
  BY <1>1, <1>2, <1>5, <1>6 DEF WithScript, b
<1>9. BodyInv'
  BY <1>1, <1>6, <1>7, <1>8, AcceptedBody
<1>. QED
  BY <1>8, <1>9

\* A compressed preview is stored as it came.
LEMMA PreviewEncodedBody ==
  ASSUME HandlerInv, HandlerInv', Echo!PreviewEncoded
  PROVE  BodyInv'
<1>. DEFINE s == SubSeq(Echo!Body(response), 1, arrived)
<1>1. Echo!Accepted /\ arrived > 0 /\ Echo!StorePreview(s)
  BY DEF Echo!PreviewEncoded
<1>2. s \in Seq(Unit)
  BY <1>1, PreviewType
<1>3. phase = "preview" /\ inData # NoBuffer
  BY <1>1, AcceptedOK
<1>. HIDE DEF s
<1>4. /\ inData'.read = 0 /\ inData' # NoBuffer /\ offered' = arrived
      /\ (inData'.all => eof) /\ (~damaged' => inData'.data = s)
  BY <1>1, <1>2, <1>3, StorePreviewOK
<1>5. /\ outData' # "out"
      /\ UNCHANGED <<response, arrived, eof, sent, delivered, service, result>>
  BY <1>3 DEF Echo!PreviewEncoded, Echo!sendVars, HandlerInv, FreshInv
<1>6. ~damaged' => AsItCame(response, inData'.data, arrived)
  BY <1>4 DEF AsItCame, s
<1>. QED
  BY <1>1, <1>4, <1>5, <1>6, AcceptedBody

\* Sending the head gives nothing of the body.
LEMMA SendHeadBody ==
  ASSUME HandlerInv, BodyInv, Echo!SendHead
  PROVE  BodyInv'
<1>1. /\ phase \in {"body", "rest"} /\ sent = NotSent /\ sent' = header
      /\ UNCHANGED <<phase, response, arrived, offered, eof, locked, header, delivered, service,
                     encoding, inData, outText, outData, damaged, result>>
  BY DEF Echo!SendHead, Echo!bodyVars, Echo!echoVars
<1>2. header # NotSent
  BY <1>1, NoBufferAssumption DEF HandlerInv, EchoTypes
<1>. USE DEF BodyInv
<1>3. FlowInv'
  BY <1>1, <1>2 DEF FlowInv
<1>4. ContentInv'
  BY <1>1 DEF ContentInv
<1>5. EndedInv'
  BY <1>1, <1>2 DEF EndedInv
<1>. QED
  BY <1>3, <1>4, <1>5

\* Without a body nothing is stored.
LEMMA EndOfNoDataBody ==
  ASSUME HandlerInv, BodyInv, Echo!EndOfNoData
  PROVE  BodyInv'
<1>1. /\ phase = "end" /\ phase' = "rest" /\ inData = NoBuffer
      /\ UNCHANGED <<response, arrived, offered, eof, locked, header, sent, delivered, service,
                     encoding, inData, outText, outData, damaged, result>>
  BY DEF Echo!EndOfNoData, Echo!bodyVars, Echo!sendVars, Echo!echoVars
<1>2. outData # "in"
  BY <1>1 DEF HandlerInv, ModeInv
<1>. USE DEF BodyInv
<1>3. FlowInv'
  BY <1>1 DEF FlowInv
<1>4. ContentInv'
  BY <1>1, <1>2 DEF ContentInv
<1>5. EndedInv'
  BY <1>1 DEF EndedInv
<1>. QED
  BY <1>3, <1>4, <1>5

\* What was stored is the beginning of something that may go out, and with the
\* whole body it is all of it.
LEMMA StoredBegins ==
  ASSUME NEW r \in Response, NEW d, NEW n \in 0..r.size, AsItCame(r, d, n) \/ WithScript(r, d, n)
  PROVE  Begins(r, d) /\ (n = r.size => d \in Shown(r))
<1>1. Echo!Body(r) \in Seq(Unit) /\ Len(Echo!Body(r)) = r.size /\ r.size \in Nat
  BY BodyType, ResponseAssumption
<1>2. ASSUME NEW s \in Seq(Unit), NEW k \in 0..Len(s), d = SubSeq(s, 1, k)
      PROVE  Echo!Prefix(d, s) /\ (k = Len(s) => d = s)
  <2>1. Len(d) = k /\ k <= Len(s)
    BY <1>2, Clipped, LenProperties
  <2>2. Echo!Prefix(d, s)
    BY <1>2, <2>1 DEF Echo!Prefix
  <2>3. SubSeq(s, 1, Len(s)) = s
    BY SubSeqFull
  <2>. QED
    BY <1>2, <2>2, <2>3
<1>3. CASE AsItCame(r, d, n)
  <2>1. Echo!Prefix(d, Echo!Body(r)) /\ (n = r.size => d = Echo!Body(r))
    BY <1>1, <1>2, <1>3 DEF AsItCame
  <2>. QED
    BY <2>1 DEF Begins, Shown
<1>4. CASE WithScript(r, d, n)
  <2>. DEFINE m == Echo!Marked(Echo!Body(r), r.head)
              k == n + ScriptLength
  <2>1. /\ r.encoding = "none" /\ r.head \in 1..r.size /\ r.head \in 0..Len(Echo!Body(r))
        /\ d = SubSeq(m, 1, k)
    BY <1>1, <1>4 DEF WithScript
  <2>2. m \in Seq(Unit) /\ Len(m) = r.size + ScriptLength
    BY <1>1, <2>1, MarkedType
  <2>3. ScriptLength \in Nat
    BY BufferAssumption
  <2>4. k \in 0..Len(m) /\ (n = r.size => k = Len(m))
    BY <1>1, <2>2, <2>3
  <2>. HIDE DEF k, m
  <2>5. Echo!Prefix(d, m) /\ (n = r.size => d = m)
    BY <1>2, <2>1, <2>2, <2>4
  <2>. QED
    BY <2>1, <2>5 DEF Begins, Shown, m
<1>. QED
  BY <1>3, <1>4

\* What comes next is put behind what was stored.
LEMMA StoredGrows ==
  ASSUME NEW r \in Response, NEW d, NEW n \in 0..r.size, NEW m \in n..r.size,
         AsItCame(r, d, n) \/ WithScript(r, d, n)
  PROVE  LET new == d \o SubSeq(Echo!Body(r), n + 1, m) IN
         /\ AsItCame(r, d, n) => AsItCame(r, new, m)
         /\ WithScript(r, d, n) => WithScript(r, new, m)
<1>1. Echo!Body(r) \in Seq(Unit) /\ Len(Echo!Body(r)) = r.size /\ r.size \in Nat
  BY BodyType, ResponseAssumption
<1>2. AsItCame(r, d, n) => AsItCame(r, d \o SubSeq(Echo!Body(r), n + 1, m), m)
  BY <1>1, Longer DEF AsItCame
<1>3. WithScript(r, d, n) => WithScript(r, d \o SubSeq(Echo!Body(r), n + 1, m), m)
  <2>1. SUFFICES ASSUME WithScript(r, d, n)
                 PROVE  WithScript(r, d \o SubSeq(Echo!Body(r), n + 1, m), m)
    OBVIOUS
  <2>2. r.head \in 0..n /\ r.head \in 1..m /\ n \in 0..Len(Echo!Body(r)) /\ m \in n..Len(Echo!Body(r))
    BY <1>1, <2>1 DEF WithScript
  <2>. DEFINE b == Echo!Body(r)
  <2>3. b \in Seq(Unit)
    BY <1>1
  <2>. HIDE DEF b
  <2>4. SubSeq(Echo!Marked(b, r.head), 1, n + ScriptLength) \o SubSeq(b, n + 1, m)
          = SubSeq(Echo!Marked(b, r.head), 1, m + ScriptLength)
    BY <2>2, <2>3, MarkedLonger DEF b
  <2>. QED
    BY <2>1, <2>2, <2>4 DEF WithScript, b
<1>. QED
  BY <1>2, <1>3

\* c-icap is given the rest of what was stored.
LEMMA Given ==
  ASSUME NEW b \in Buffer, b.read <= Len(b.data), NEW n \in Nat, NEW d,
         d = SubSeq(b.data, 1, b.read)
  PROVE  LET out == Echo!Unread(b, n)
             new == Echo!Drained(b, n) IN
         /\ d \o out = SubSeq(new.data, 1, new.read)
         /\ out = <<>> => d = SubSeq(new.data, 1, new.read)
         /\ (n > 0 \/ b.read = Len(b.data)) /\ out = <<>> => new.read = Len(new.data)
<1>. DEFINE out == Echo!Unread(b, n)
            new == Echo!Drained(b, n)
<1>1. /\ new.data = b.data /\ new.read = b.read + Len(out) /\ out \in Seq(Unit)
      /\ SubSeq(b.data, 1, b.read) \o out = SubSeq(b.data, 1, new.read)
      /\ n > 0 /\ out = <<>> => b.read = Len(b.data)
  BY DrainedBuffer, Zenon
<1>2. b.read \in Nat /\ b.data \in Seq(Unit)
  BY DEF Buffer
<1>. HIDE DEF out, new
<1>3. d \o out = SubSeq(new.data, 1, new.read)
  BY <1>1
<1>4. out = <<>> => new.read = b.read
  <2>1. out = <<>> => Len(out) = 0
    BY EmptySeq
  <2>. QED
    BY <1>1, <1>2, <2>1
<1>5. out = <<>> => d = SubSeq(new.data, 1, new.read)
  BY <1>1, <1>4
<1>. QED
  BY <1>1, <1>3, <1>4, <1>5 DEF out, new

\* What echo_io gives continues what it gave before.
LEMMA IoFlow ==
  ASSUME HandlerInv, FlowInv, Echo!Io
  PROVE  FlowInv'
<1>1. /\ phase = "body"
      /\ inData # NoBuffer /\ inData \in Buffer /\ outData \in {"null", "in"}
      /\ UNCHANGED <<sent, outText, outData>>
  BY IoStep
<1>2. PICK t \in Seq(Unit), in \in Buffer, free \in Nat : Exchange(t, in, free)
  BY IoStep
<1>3. /\ in.data = inData.data \o t /\ Len(in.data) = Len(inData.data) + Len(t)
      /\ in.read = inData.read /\ (sent = NotSent => free = 0)
  BY <1>2 DEF Exchange
<1>4. /\ inData.read \in Nat /\ inData.data \in Seq(Unit) /\ Len(inData.data) \in Nat
      /\ Len(t) \in Nat /\ inData.read <= Len(inData.data)
  BY <1>1, LenProperties DEF HandlerInv, EchoTypes, Buffer
<1>5. in.read <= Len(in.data) /\ in.read \in 0..Len(inData.data)
  BY <1>3, <1>4
<1>6. CASE outData = "in"
  <2>1. delivered = SubSeq(in.data, 1, in.read)
    <3>1. delivered = SubSeq(inData.data, 1, inData.read)
      BY <1>6 DEF FlowInv
    <3>2. SubSeq(inData.data \o t, 1, in.read) = SubSeq(inData.data, 1, in.read)
      BY <1>4, <1>5, Beginning
    <3>. QED
      BY <1>3, <3>1, <3>2
  <2>2. /\ inData' = Echo!Drained(in, free)
        /\ delivered' = IF Echo!Unread(in, free) = <<>> THEN delivered
                        ELSE delivered \o Echo!Unread(in, free)
    BY <1>2, <1>6 DEF Exchange
  <2>3. delivered' = SubSeq(inData'.data, 1, inData'.read)
    <3>. DEFINE out == Echo!Unread(in, free)
                new == Echo!Drained(in, free)
    <3>1. /\ delivered \o out = SubSeq(new.data, 1, new.read)
          /\ out = <<>> => delivered = SubSeq(new.data, 1, new.read)
      BY <1>5, <2>1, Given
    <3>. HIDE DEF out, new
    <3>2. inData' = new /\ delivered' = IF out = <<>> THEN delivered ELSE delivered \o out
      BY <2>2 DEF out, new
    <3>. QED
      BY <3>1, <3>2
  <2>4. sent = NotSent => delivered' = <<>>
    <3>1. SUFFICES ASSUME sent = NotSent PROVE Echo!Unread(in, free) = <<>>
      BY <2>2 DEF FlowInv
    <3>2. free = 0
      BY <1>3, <3>1
    <3>. QED
      BY <1>5, <3>2, DrainedBuffer, Zenon
  <2>. QED
    BY <1>1, <1>6, <2>3, <2>4 DEF FlowInv
<1>7. CASE outData = "null"
  <2>1. inData' = in /\ delivered' = delivered
    BY <1>2, <1>7 DEF Exchange
  <2>. QED
    BY <1>1, <1>3, <1>7, <2>1 DEF FlowInv
<1>. QED
  BY <1>1, <1>6, <1>7

\* What echo_io stores continues what was stored, up to the end of the body.
LEMMA IoContent ==
  ASSUME HandlerInv, ContentInv, Echo!Io
  PROVE  /\ ContentInv'
         /\ ~damaged' /\ WithScript(response, inData.data, offered) =>
              WithScript(response', inData'.data, offered')
<1>1. /\ phase = "body" /\ phase' = IF eof' /\ offered' = arrived' THEN "end" ELSE "body"
      /\ inData # NoBuffer /\ inData \in Buffer /\ outData \in {"null", "in"}
      /\ response \in Response /\ response.size \in Nat
      /\ offered \in 0..arrived /\ arrived' \in arrived..response.size
      /\ eof' => arrived' = response.size
      /\ UNCHANGED <<response, outData>>
  BY IoStep
<1>2. PICK t \in Seq(Unit), in \in Buffer, free \in Nat : Exchange(t, in, free)
  BY IoStep
<1>3. arrived \in Nat /\ inData.data \in Seq(Unit) /\ Len(t) \in Nat /\ inData.read \in Nat
      /\ Len(inData.data) \in Nat /\ inData.read <= Len(inData.data)
  BY <1>1, LenProperties DEF HandlerInv, EchoTypes, Buffer
<1>4. inData'.data = inData.data \o t /\ (inData'.all => inData.all \/ eof')
  <2>1. CASE outData = "in"
    <3>1. in.read <= Len(in.data)
      BY <1>2, <1>3 DEF Exchange
    <3>2. Echo!Drained(in, free).data = in.data /\ Echo!Drained(in, free).all = in.all
      BY <3>1, DrainedBuffer, Zenon
    <3>. QED
      BY <1>2, <2>1, <3>2 DEF Exchange
  <2>2. CASE outData = "null"
    BY <1>2, <2>2 DEF Exchange
  <2>. QED
    BY <1>1, <2>1, <2>2
<1>5. SUFFICES ASSUME ~damaged'
      PROVE  /\ AsItCame(response', inData'.data, offered') \/ WithScript(response', inData'.data, offered')
             /\ phase' = "body" => offered' = arrived' /\ ~inData'.all /\ service' = "going"
             /\ WithScript(response, inData.data, offered) =>
                  WithScript(response', inData'.data, offered')
  <2>1. phase' = "end" => offered' = response'.size
    BY <1>1
  <2>2. phase' \in {"body", "end"}
    BY <1>1
  <2>. QED
    BY <1>5, <2>1, <2>2 DEF ContentInv
<1>6. ~damaged /\ Len(t) = arrived' - offered /\ t = SubSeq(Echo!Body(response), offered + 1, arrived')
  <2>1. /\ Len(t) <= arrived' - offered /\ t = SubSeq(Echo!Body(response), offered + 1, arrived')
        /\ ~(damaged \/ Len(t) < arrived' - offered)
    BY <1>2, <1>5 DEF Exchange
  <2>2. Len(t) \in Nat /\ arrived' - offered \in Int
    BY <1>1, <1>3
  <2>. HIDE DEF Exchange
  <2>. QED
    BY <2>1, <2>2
<1>7. offered' = arrived' /\ offered = arrived /\ ~inData.all /\ service = "going"
  <2>1. offered' = offered + Len(t)
    BY <1>2 DEF Exchange
  <2>2. offered' = arrived'
    <3>1. offered \in Int /\ arrived' \in Int /\ Len(t) = arrived' - offered
      BY <1>1, <1>3, <1>6
    <3>2. \A a, b \in Int : a + (b - a) = b
      OBVIOUS
    <3>3. offered' = offered + (arrived' - offered)
      BY <2>1, <3>1
    <3>. QED
      BY <3>1, <3>2, <3>3
  <2>. QED
    BY <1>1, <1>6, <2>2 DEF ContentInv
<1>8. /\ AsItCame(response', inData'.data, offered') \/ WithScript(response', inData'.data, offered')
      /\ WithScript(response, inData.data, offered) =>
                  WithScript(response', inData'.data, offered')
  <2>1. AsItCame(response, inData.data, offered) \/ WithScript(response, inData.data, offered)
    BY <1>1, <1>6 DEF ContentInv
  <2>2. offered \in 0..response.size /\ arrived' \in offered..response.size
    BY <1>1, <1>3
  <2>. DEFINE new == inData.data \o SubSeq(Echo!Body(response), offered + 1, arrived')
  <2>3. /\ AsItCame(response, inData.data, offered) => AsItCame(response, new, arrived')
        /\ WithScript(response, inData.data, offered) => WithScript(response, new, arrived')
    BY <1>1, <2>1, <2>2, StoredGrows
  <2>4. inData'.data = new
    BY <1>4, <1>6
  <2>. QED
    BY <1>1, <1>7, <2>1, <2>3, <2>4
<1>9. ASSUME phase' = "body" PROVE ~inData'.all /\ service' = "going"
  <2>1. ~eof'
    BY <1>1, <1>7, <1>9
  <2>2. ~inData'.all /\ ~in.all
    BY <1>2, <1>4, <1>7, <2>1 DEF Exchange
  <2>3. ~Echo!GivesEof(in, free)
    <3>1. in # NoBuffer
      BY NoBufferAssumption
    <3>2. outData # "null" => Echo!Source(in) = in
      BY <1>1 DEF Echo!Source
    <3>. QED
      BY <2>2, <3>1, <3>2 DEF Echo!GivesEof, Echo!Exhausted
  <2>4. service' \in {"going"}
    BY <1>2, <1>7, <2>3 DEF Exchange, Echo!Served
  <2>. QED
    BY <2>2, <2>4
<1>. QED
  BY <1>7, <1>8, <1>9

\* CI_EOF is told while the body arrives only when all of it was given.
LEMMA IoEnded ==
  ASSUME HandlerInv, ContentInv, EndedInv, Echo!Io
  PROVE  EndedInv'
<1>1. /\ phase = "body" /\ phase' \in {"body", "end"}
      /\ inData # NoBuffer /\ inData \in Buffer /\ outData \in {"null", "in"}
      /\ UNCHANGED <<response, locked, sent, outData, result>>
  BY IoStep
<1>2. PICK t \in Seq(Unit), in \in Buffer, free \in Nat : Exchange(t, in, free)
  BY IoStep
<1>3. service' \in Echo!Served(in, free) /\ (sent = NotSent => free = 0) /\ (damaged => damaged')
  BY <1>2 DEF Exchange
<1>4. result' = "none"
  BY <1>1 DEF EndedInv
<1>5. service' = "ended" => sent' # NotSent
  BY <1>1, <1>3 DEF Echo!Served, EndedInv
<1>6. ASSUME service' = "ended", ~damaged'
      PROVE  outData' = "in" /\ inData'.read = Len(inData'.data)
  <2>1. service = "going" /\ ~damaged
    BY <1>1, <1>3, <1>6 DEF ContentInv
  <2>2. Echo!GivesEof(in, free) /\ free # 0 /\ sent # NotSent
    BY <1>3, <1>6, <2>1 DEF Echo!Served
  <2>3. outData = "in"
    BY <1>1, <2>2 DEF HandlerInv, ModeInv
  <2>4. inData' = Echo!Drained(in, free)
    BY <1>2, <2>3 DEF Exchange
  <2>5. in.read <= Len(in.data)
    <3>1. /\ inData.read \in Nat /\ Len(inData.data) \in Nat /\ inData.read <= Len(inData.data)
          /\ Len(t) \in Nat
      BY <1>1, LenProperties DEF HandlerInv, EchoTypes, Buffer
    <3>. QED
      BY <1>2, <3>1 DEF Exchange
  <2>6. in.read = Len(in.data) \/ Echo!Unread(in, free) = <<>>
    <3>1. Echo!Source(in) = in
      BY <2>3 DEF Echo!Source
    <3>. QED
      BY <2>2, <2>3, <3>1 DEF Echo!GivesEof, Echo!GivesNothing, Echo!Exhausted
  <2>7. Echo!Unread(in, free) = <<>>
    BY <2>5, <2>6, DrainedBuffer, Zenon
  <2>8. free > 0
    BY <2>2
  <2>. DEFINE d == SubSeq(in.data, 1, in.read)
  <2>9. Echo!Drained(in, free).read = Len(Echo!Drained(in, free).data)
    BY <2>5, <2>7, <2>8, Given
  <2>. QED
    BY <1>1, <2>3, <2>4, <2>9
<1>. QED
  BY <1>1, <1>4, <1>5, <1>6 DEF EndedInv

\* The whole body is stored when the end-of-data handler runs.
LEMMA EndOfDataBody ==
  ASSUME HandlerInv, BodyInv, Echo!EndOfData
  PROVE  BodyInv'
<1>1. /\ phase = "end" /\ phase' = "rest" /\ inData # NoBuffer
      /\ response \in Response
      /\ inData'.data = inData.data /\ inData'.read = inData.read /\ inData' # NoBuffer
      /\ UNCHANGED <<response, offered, sent, delivered, service, damaged, result>>
      /\ outData = "in" => outData' = "in"
      /\ \/ outData' = "in"
         \/ outData' = "out" /\ outText'.read = 0
  BY EndStep
<1>2. outData \in {"in", "null"}
  BY <1>1 DEF HandlerInv, ModeInv
<1>. USE DEF BodyInv
<1>3. FlowInv'
  <2>1. outData = "null" => delivered = <<>> /\ inData.read = 0
    BY <1>1 DEF FlowInv
  <2>2. outData = "in" => delivered = SubSeq(inData.data, 1, inData.read)
    BY DEF FlowInv
  <2>3. outData' = "out" => outData = "null"
    BY <1>1, <1>2
  <2>4. outData' = "in" => delivered' = SubSeq(inData'.data, 1, inData'.read)
    BY <1>1, <1>2, <2>1, <2>2, ReadNothing
  <2>5. outData' = "out" => inData'.read = 0 /\ delivered' = SubSeq(outText'.data, 1, outText'.read)
    BY <1>1, <2>1, <2>3, ReadNothing
  <2>. QED
    BY <1>1, <2>4, <2>5 DEF FlowInv
<1>4. ContentInv'
  <2>1. SUFFICES ASSUME ~damaged PROVE inData.data \in Shown(response)
    BY <1>1 DEF ContentInv
  <2>2. AsItCame(response, inData.data, offered) \/ WithScript(response, inData.data, offered)
    BY <1>1, <2>1 DEF ContentInv
  <2>3. offered = response.size /\ response.size \in Nat
    BY <1>1, ResponseAssumption DEF ContentInv
  <2>. QED
    BY <1>1, <2>2, <2>3, StoredBegins
<1>5. EndedInv'
  BY <1>1 DEF EndedInv
<1>. QED
  BY <1>3, <1>4, <1>5

\* The rest continues what was given.
LEMMA SendRestBody ==
  ASSUME HandlerInv, BodyInv, Echo!SendRest
  PROVE  BodyInv'
<1>1. /\ phase = "rest" /\ sent # NotSent /\ service # "ended"
      /\ inData # NoBuffer /\ inData \in Buffer /\ outData \in {"in", "out"}
      /\ UNCHANGED <<phase, response, sent, service, outData, damaged, result>>
  BY SendRestStep
<1>2. MaxRead \in Nat
  BY BufferAssumption
<1>. USE DEF BodyInv
<1>3. CASE outData = "in"
  <2>1. /\ inData' = Echo!Drained(inData, MaxRead)
        /\ delivered' = delivered \o Echo!Unread(inData, MaxRead)
    BY <1>3, SendRestStep
  <2>2. inData.read <= Len(inData.data) /\ delivered = SubSeq(inData.data, 1, inData.read)
    BY <1>1, <1>3 DEF HandlerInv, EchoTypes, FlowInv
  <2>3. delivered' = SubSeq(inData'.data, 1, inData'.read)
    BY <1>1, <1>2, <2>1, <2>2, Given
  <2>4. inData'.data = inData.data
    BY <1>1, <1>2, <2>1, <2>2, DrainedBuffer, Zenon
  <2>5. FlowInv'
    BY <1>1, <1>3, <2>3 DEF FlowInv
  <2>6. ContentInv'
    BY <1>1, <2>4 DEF ContentInv
  <2>7. EndedInv'
    BY <1>1 DEF EndedInv
  <2>. QED
    BY <2>5, <2>6, <2>7
<1>4. CASE outData = "out"
  <2>1. /\ outText \in Buffer /\ outText' = Echo!Drained(outText, MaxRead) /\ inData' = inData
        /\ delivered' = delivered \o Echo!Unread(outText, MaxRead)
    BY <1>4, SendRestStep
  <2>2. outText.read <= Len(outText.data) /\ delivered = SubSeq(outText.data, 1, outText.read)
    BY <1>1, <1>4, <2>1, NoBufferAssumption DEF HandlerInv, EchoTypes, FlowInv
  <2>3. delivered' = SubSeq(outText'.data, 1, outText'.read)
    BY <1>2, <2>1, <2>2, Given
  <2>5. FlowInv'
    BY <1>1, <1>4, <2>1, <2>3 DEF FlowInv
  <2>6. ContentInv'
    BY <1>1, <1>4 DEF ContentInv
  <2>7. EndedInv'
    BY <1>1 DEF EndedInv
  <2>. QED
    BY <2>5, <2>6, <2>7
<1>. QED
  BY <1>1, <1>3, <1>4

\* A transaction that is over keeps what was given, and was finished only when
\* all of it was.
LEMMA FinishBody ==
  ASSUME HandlerInv, BodyInv, Echo!FinishRest \/ Echo!Abort
  PROVE  BodyInv'
<1>1. /\ phase \in {"open", "body", "rest"} /\ phase' = "over"
      /\ result' = "sent" => Echo!FinishRest
      /\ UNCHANGED <<response, arrived, offered, eof, locked, header, sent, delivered, service,
                     encoding, inData, outText, outData, damaged>>
  BY DEF Echo!FinishRest, Echo!Abort, Echo!bodyVars, Echo!sendVars, Echo!echoVars
<1>. USE DEF BodyInv
<1>2. FlowInv'
  BY <1>1 DEF FlowInv
<1>3. ContentInv'
  <2>1. SUFFICES ASSUME outData = "in", ~damaged PROVE Begins(response, inData.data)
    BY <1>1 DEF ContentInv
  <2>2. inData # NoBuffer /\ response \in Response /\ phase # "open" /\ inData \in Buffer
    BY <1>1, <2>1 DEF HandlerInv, EchoTypes, FreshInv, ModeInv
  <2>3. CASE phase = "body"
    <3>1. AsItCame(response, inData.data, offered) \/ WithScript(response, inData.data, offered)
      BY <2>1, <2>2, <2>3 DEF ContentInv
    <3>2. response.size \in Nat /\ offered \in 0..response.size
      BY <2>2, <2>3, ResponseAssumption DEF HandlerInv, EchoTypes, ModeInv
    <3>. QED
      BY <2>2, <3>1, <3>2, StoredBegins
  <2>4. CASE phase = "rest"
    <3>1. inData.data \in Shown(response)
      BY <2>1, <2>4 DEF ContentInv
    <3>2. Echo!Prefix(inData.data, inData.data)
      BY <2>2, SubSeqFull, LenProperties DEF Echo!Prefix, Buffer
    <3>. QED
      BY <3>1, <3>2 DEF Begins
  <2>. QED
    BY <1>1, <2>2, <2>3, <2>4
<1>4. EndedInv'
  <2>1. SUFFICES ASSUME result' = "sent", response.hasbody, ~damaged
                 PROVE  /\ outData \in {"in", "out"}
                        /\ outData = "in" => delivered = inData.data /\ inData.data \in Shown(response)
                        /\ outData = "out" => delivered = outText.data
    BY <1>1 DEF EndedInv
  <2>2. /\ phase = "rest"
        /\ service # "ended" => Echo!GivesNothing(inData, MaxRead)
    BY <1>1, <2>1 DEF Echo!FinishRest
  <2>3. /\ outData \in {"in", "out"} /\ inData \in Buffer
        /\ outData = "out" => outText \in Buffer
    BY <2>1, <2>2 DEF HandlerInv, EchoTypes, ModeInv
  <2>4. /\ outData = "in" => inData.read = Len(inData.data)
        /\ outData = "out" => outText.read = Len(outText.data)
    <3>1. CASE service = "ended"
      BY <2>1, <2>2, <3>1 DEF EndedInv
    <3>2. CASE service # "ended"
      BY <2>1, <2>2, <3>2, AllGiven
    <3>. QED
      BY <3>1, <3>2
  <2>5. outData = "in" => delivered = inData.data /\ inData.data \in Shown(response)
    BY <2>1, <2>2, <2>3, <2>4, SubSeqFull DEF FlowInv, ContentInv, Buffer
  <2>6. outData = "out" => delivered = outText.data
    BY <2>3, <2>4, SubSeqFull DEF FlowInv, Buffer
  <2>. QED
    BY <2>3, <2>5, <2>6
<1>. QED
  BY <1>2, <1>3, <1>4

\* A process that is killed had nothing to give yet.
LEMMA KilledBody ==
  ASSUME HandlerInv, BodyInv, Echo!PreviewUnallocated \/ Echo!EndOfDataOverruns
  PROVE  BodyInv'
<1>1. /\ phase' = "over" /\ result' = "killed"
      /\ phase = "preview" \/ (phase = "end" /\ inData # NoBuffer /\ encoding # "none")
      /\ UNCHANGED <<response, arrived, offered, eof, locked, header, sent, delivered, service,
                     encoding, inData, outText, outData, damaged>>
  BY DEF Echo!PreviewUnallocated, Echo!EndOfDataOverruns, Echo!Killed,
     Echo!bodyVars, Echo!sendVars, Echo!echoVars
<1>2. outData = "null"
  BY <1>1 DEF HandlerInv, FreshInv, ModeInv
<1>. USE DEF BodyInv
<1>3. FlowInv'
  BY <1>1, <1>2 DEF FlowInv
<1>4. ContentInv'
  BY <1>1, <1>2 DEF ContentInv
<1>5. EndedInv'
  BY <1>1 DEF EndedInv
<1>. QED
  BY <1>3, <1>4, <1>5

\* The same after a step.
LEMMA FreshLater == (HandlerInv /\ phase \in {"start", "open", "preview"} => BodyInv)'
BY FreshBody, PTL

\* No step of the handlers breaks the invariant.
LEMMA BodyNext ==
  ASSUME HandlerInv, HandlerInv', BodyInv, [Echo!Next]_(Echo!vars)
  PROVE  BodyInv'
<1>1. CASE Echo!InitRequestData \/ Echo!ReadPreview \/ Echo!ReleaseRequestData
  <2>1. phase' \in {"start", "open", "preview"}
    BY <1>1 DEF Echo!InitRequestData, Echo!ReadPreview, Echo!ReleaseRequestData
  <2>. QED
    BY <2>1, FreshLater
<1>2. CASE Echo!Io
  BY <1>2, IoFlow, IoContent, IoEnded DEF BodyInv
<1>3. CASE \/ Echo!Refuse \/ Echo!PreviewEmpty \/ Echo!PreviewPlain \/ Echo!PreviewEncoded
           \/ Echo!SendHead \/ Echo!EndOfData \/ Echo!EndOfNoData \/ Echo!SendRest
           \/ Echo!FinishRest \/ Echo!Abort \/ Echo!PreviewUnallocated \/ Echo!EndOfDataOverruns
  BY <1>3, KilledBody, RefuseBody, PreviewEmptyBody, PreviewPlainBody, PreviewEncodedBody, SendHeadBody,
     EndOfDataBody, EndOfNoDataBody, SendRestBody, FinishBody
<1>4. CASE UNCHANGED Echo!vars
  <2>1. UNCHANGED <<phase, response, arrived, offered, eof, locked, header, sent, delivered,
                    service, encoding, inData, outText, outData, damaged, result>>
    BY <1>4 DEF Echo!vars, Echo!bodyVars, Echo!sendVars, Echo!echoVars
  <2>2. FlowInv'
    BY <2>1 DEF BodyInv, FlowInv
  <2>3. ContentInv'
    BY <2>1 DEF BodyInv, ContentInv
  <2>4. EndedInv'
    BY <2>1 DEF BodyInv, EndedInv
  <2>. QED
    BY <2>2, <2>3, <2>4 DEF BodyInv
<1>. QED
  BY <1>1, <1>2, <1>3, <1>4 DEF Echo!Next

\* All three invariants, always.
LEMMA BodyReachable == EchoSpec => [](EchoInv /\ BodyInv)
<1>1. EchoInit => BodyInv
  <2>1. EchoInit => phase = "start"
    BY DEF EchoInit, Echo!Init
  <2>. QED
    BY <2>1, EchoInvInit, FreshBody DEF EchoInv
<1>2. EchoInv /\ EchoInv' /\ BodyInv /\ [EchoNext]_<<vars, echoVars>> => BodyInv'
  BY BodyNext, EchoStep DEF EchoInv
<1>. QED
  BY <1>1, <1>2, EchoReachable, PTL DEF EchoSpec

\* A beginning of a beginning is one.
LEMMA PrefixOfPrefix ==
  ASSUME NEW s \in Seq(Unit), NEW d \in Seq(Unit), Echo!Prefix(d, s), NEW n \in 0..Len(d)
  PROVE  Echo!Prefix(SubSeq(d, 1, n), s)
<1>1. Len(s) \in Nat /\ Len(d) \in Nat /\ Len(d) <= Len(s) /\ d = SubSeq(s, 1, Len(d))
  BY LenProperties DEF Echo!Prefix
<1>2. n \in 0..Len(s) /\ n <= Len(s) /\ \A i \in 1..n : i \in 1..Len(d) /\ i \in 1..Len(s)
  BY <1>1
<1>3. SubSeq(d, 1, n) \in Seq(Unit) /\ Len(SubSeq(d, 1, n)) = n
  BY Clipped
<1>4. SubSeq(s, 1, n) \in Seq(Unit) /\ Len(SubSeq(s, 1, n)) = n
  BY <1>2, Clipped
<1>5. ASSUME NEW i \in 1..n PROVE SubSeq(d, 1, n)[i] = SubSeq(s, 1, n)[i]
  <2>1. ASSUME NEW q \in Seq(Unit), NEW k \in 0..Len(q), NEW j \in 1..k
        PROVE  SubSeq(q, 1, k)[j] = q[j]
    <3>1. Len(q) \in Nat /\ k \in Nat /\ j \in Nat /\ \A i2 \in 1..k : q[i2] \in Unit
      BY LenProperties, ElementOfSeq
    <3>2. \A i2 \in 1..k - 1 + 1 : SubSeq(q, 1, k)[i2] = q[1 + i2 - 1]
      BY <3>1, SubSeqProperties
    <3>3. j \in 1..k - 1 + 1 /\ 1 + j - 1 = j
      BY <3>1
    <3>. QED
      BY <3>2, <3>3
  <2>2. SubSeq(d, 1, n)[i] = d[i] /\ SubSeq(s, 1, n)[i] = s[i]
    BY <1>2, <2>1
  <2>3. SubSeq(s, 1, Len(d))[i] = s[i]
    <3>1. Len(d) \in 0..Len(s) /\ i \in 1..Len(d)
      BY <1>1, <1>2
    <3>. QED
      BY <2>1, <3>1
  <2>. QED
    BY <1>1, <2>2, <2>3
<1>6. SubSeq(d, 1, n) = SubSeq(s, 1, n)
  BY <1>3, <1>4, <1>5, SeqEqual
<1>. QED
  BY <1>2, <1>3, <1>6 DEF Echo!Prefix

\* The invariants say that the client gets what it may get.
LEMMA BodyImplies == EchoInv /\ BodyInv => EchoedAsSent
<1>. SUFFICES ASSUME HandlerInv, BodyInv, ~damaged, sent # NotSent, response.hasbody
     PROVE  /\ \E s \in Echo!Allowed : Echo!Prefix(delivered, s)
            /\ result = "sent" => delivered \in Echo!Allowed
  BY DEF EchoInv, EchoedAsSent, Echo!EchoedAsSent
<1>. USE DEF BodyInv
<1>1. /\ phase \in {"body", "end", "rest", "over"} /\ response \in Response /\ sent = header
      /\ outData \in {"null", "in", "out"}
      /\ (sent.encoded <=> (response.encoding # "none" /\ outData # "out"))
  <2>1. phase \in {"body", "end", "rest", "over"}
    BY DEF HandlerInv, EchoTypes, Phases, FreshInv
  <2>. QED
    BY <2>1 DEF HandlerInv, EchoTypes, ModeInv
<1>. DEFINE body == Echo!Body(response)
            text1 == Echo!Text(response)
<1>2. body \in Seq(Unit) /\ text1 \in Seq(Unit) /\ (response.encoding = "none" => text1 = body)
  BY <1>1, BodyType DEF Echo!Text
<1>3. Echo!Allowed = IF sent.encoded THEN {body} ELSE {text1, Echo!Marked(text1, response.head)}
  BY DEF Echo!Allowed
<1>4. CASE outData = "null"
  <2>1. delivered = <<>>
    BY <1>4 DEF FlowInv
  <2>2. \A s \in Seq(Unit) : Echo!Prefix(<<>>, s)
    <3>. TAKE s \in Seq(Unit)
    <3>1. Len(<<>>) = 0 /\ Len(s) \in Nat
      BY EmptySeq, LenProperties
    <3>. QED
      BY <3>1, ReadNothing DEF Echo!Prefix
  <2>3. result # "sent"
    BY <1>4 DEF EndedInv
  <2>4. body \in Echo!Allowed \/ text1 \in Echo!Allowed
    BY <1>3
  <2>. QED
    BY <1>2, <2>1, <2>2, <2>3, <2>4
<1>5. CASE outData = "in"
  <2>1. inData \in Buffer /\ inData # NoBuffer /\ inData.read <= Len(inData.data)
    BY <1>1, <1>5 DEF HandlerInv, EchoTypes, ModeInv
  <2>2. inData.data \in Seq(Unit) /\ inData.read \in 0..Len(inData.data)
    BY <2>1, LenProperties DEF Buffer
  <2>3. Shown(response) \subseteq Echo!Allowed
    BY <1>1, <1>2, <1>3, <1>5 DEF Shown
  <2>4. Begins(response, inData.data)
    <3>1. CASE phase \in {"body", "end"}
      <4>1. AsItCame(response, inData.data, offered) \/ WithScript(response, inData.data, offered)
        BY <2>1, <3>1 DEF ContentInv
      <4>2. response.size \in Nat /\ offered \in 0..response.size
        BY <1>1, <2>1, <3>1, ResponseAssumption DEF HandlerInv, EchoTypes, ModeInv
      <4>. QED
        BY <1>1, <4>1, <4>2, StoredBegins
    <3>2. CASE phase = "rest"
      <4>1. Echo!Prefix(inData.data, inData.data)
        BY <2>2, SubSeqFull, LenProperties DEF Echo!Prefix
      <4>. QED
        BY <1>5, <3>2, <4>1 DEF ContentInv, Begins
    <3>3. CASE phase = "over"
      BY <1>5, <3>3 DEF ContentInv
    <3>. QED
      BY <1>1, <3>1, <3>2, <3>3
  <2>5. PICK s \in Shown(response) : Echo!Prefix(inData.data, s)
    BY <2>4 DEF Begins
  <2>6. delivered = SubSeq(inData.data, 1, inData.read)
    BY <1>5 DEF FlowInv
  <2>7. Echo!Prefix(delivered, s)
    <3>1. CASE s = body
      BY <1>2, <2>2, <2>5, <2>6, <3>1, PrefixOfPrefix
    <3>2. CASE s # body
      <4>1. s = Echo!Marked(body, response.head) /\ response.head \in 1..response.size
        BY <2>5, <3>2 DEF Shown
      <4>2. Len(body) = response.size /\ response.head \in 0..response.size
        BY <1>1, <4>1, BodyType, ResponseAssumption
      <4>3. s \in Seq(Unit)
        BY <1>2, <4>1, <4>2, MarkedType
      <4>. QED
        BY <2>2, <2>5, <2>6, <4>3, PrefixOfPrefix
    <3>. QED
      BY <3>1, <3>2
  <2>8. result = "sent" => delivered \in Echo!Allowed
    BY <1>5, <2>3 DEF EndedInv
  <2>. QED
    BY <2>3, <2>5, <2>7, <2>8
<1>6. CASE outData = "out"
  <2>1. /\ outText \in Buffer /\ outText.read <= Len(outText.data)
        /\ outText.data \in {text1, Echo!Marked(text1, response.head)}
    BY <1>6 DEF HandlerInv, EchoTypes, ModeInv
  <2>2. outText.data \in Seq(Unit) /\ outText.read \in 0..Len(outText.data)
    BY <2>1, LenProperties DEF Buffer
  <2>3. outText.data \in Echo!Allowed
    BY <1>1, <1>3, <1>6, <2>1
  <2>4. Echo!Prefix(outText.data, outText.data)
    BY <2>2, SubSeqFull, LenProperties DEF Echo!Prefix
  <2>5. Echo!Prefix(delivered, outText.data)
    BY <1>6, <2>2, <2>4, PrefixOfPrefix DEF FlowInv
  <2>6. result = "sent" => delivered = outText.data
    BY <1>6 DEF EndedInv
  <2>. QED
    BY <2>3, <2>5, <2>6
<1>. QED
  BY <1>1, <1>4, <1>5, <1>6

\* As long as memory sufficed to store what came of a body, nothing of it is lost,
\* repeated or moved on its way through the service, and a decompressed body never
\* goes out under a head that says it is compressed, or the other way round
\* (srv_echo.c:412-431).
THEOREM AllEchoedAsSent == EchoSpec => []EchoedAsSent
BY BodyReachable, BodyImplies, PTL

-------------------------------------------------------------------------------
(* The length in the head. *)

\* The Content-Length is the one that came, until the length of what goes out is
\* known; only the script may be added before, and then it is there.
LengthInv ==
  /\ phase \in {"open", "preview"} => header.length \in {0, response.size}
  /\ phase \in {"body", "end"} /\ inData # NoBuffer /\ ~damaged /\ locked =>
       header.length \in {0, response.size}
  /\ phase \in {"body", "end"} /\ inData # NoBuffer /\ ~damaged /\ ~locked =>
       /\ header.length = response.size + ScriptLength
       /\ WithScript(response, inData.data, offered)
  /\ phase = "rest" /\ response.hasbody /\ ~damaged =>
       /\ outData = "in" => header.length \in {0, Len(inData.data)}
       /\ outData = "out" => header.length \in {0, Len(outText.data)}
  /\ result = "sent" /\ response.hasbody /\ ~damaged => sent.length \in {0, Len(delivered)}

\* No compressed body inflates to nothing.
SomeText == \A r \in Response : r.encoding # "none" => r.plain > 0

\* The script is counted in the Content-Length when it is stored and only then.
LEMMA PreviewLength ==
  ASSUME HandlerInv, HandlerInv', LengthInv, Echo!PreviewEmpty \/ Echo!PreviewPlain \/ Echo!PreviewEncoded
  PROVE  LengthInv'
<1>1. /\ Echo!Accepted
      /\ UNCHANGED <<response, result>>
  BY DEF Echo!PreviewEmpty, Echo!PreviewPlain, Echo!PreviewEncoded, Echo!bodyVars
<1>2. phase = "preview" /\ phase' \in {"body", "end"} /\ response \in Response
  BY <1>1, AcceptedOK
<1>3. result = "none" /\ header.length \in {0, response.size}
  BY <1>2 DEF HandlerInv, FreshInv, LengthInv
<1>4. CASE locked' = TRUE /\ UNCHANGED header
  BY <1>1, <1>2, <1>3, <1>4 DEF LengthInv
<1>5. CASE ~(locked' = TRUE /\ UNCHANGED header)
  <2>1. Echo!PreviewPlain
    BY <1>5 DEF Echo!PreviewEmpty, Echo!PreviewEncoded
  <2>2. /\ header.length > 0 /\ locked' = FALSE
        /\ header' = [header EXCEPT !.length = @ + ScriptLength]
    BY <1>5, <2>1 DEF Echo!PreviewPlain
  <2>3. header \in [length : Nat, encoded : BOOLEAN]
    BY <1>2 DEF HandlerInv, EchoTypes
  <2>4. header'.length = response.size + ScriptLength
    BY <1>3, <2>2, <2>3
  <2>5. offered' = arrived
    BY <2>1 DEF Echo!PreviewPlain, Echo!StorePreview
  <2>6. ~damaged' => WithScript(response', inData'.data, offered')
    BY <1>1, <2>1, <2>5, PreviewPlainBody
  <2>. QED
    BY <1>1, <1>2, <1>3, <2>2, <2>4, <2>6 DEF LengthInv
<1>. QED
  BY <1>4, <1>5

\* What arrives does not change the length.
LEMMA IoLength ==
  ASSUME HandlerInv, BodyInv, LengthInv, Echo!Io
  PROVE  LengthInv'
<1>1. /\ phase = "body" /\ phase' \in {"body", "end"} /\ inData # NoBuffer
      /\ UNCHANGED <<response, locked, header, result>>
  BY IoStep
<1>2. damaged => damaged'
  BY DEF Echo!Io
<1>3. ~damaged' /\ WithScript(response, inData.data, offered) => WithScript(response', inData'.data, offered')
  BY IoContent DEF BodyInv
<1>4. result = "none"
  BY <1>1 DEF BodyInv, EndedInv
<1>. QED
  BY <1>1, <1>2, <1>3, <1>4 DEF LengthInv

\* Under lock the length becomes that of what will be sent; without lock it was
\* that already.
LEMMA EndOfDataLength ==
  ASSUME SomeText, HandlerInv, HandlerInv', BodyInv, LengthInv, Echo!EndOfData
  PROVE  LengthInv'
<1>1. /\ phase = "end" /\ phase' = "rest" /\ inData # NoBuffer /\ inData \in Buffer
      /\ response \in Response
      /\ inData' \in Buffer /\ inData'.data = inData.data
      /\ UNCHANGED <<response, offered, damaged, result>>
      /\ header'.length = IF locked /\ Echo!OutLength > 0 THEN Echo!OutLength ELSE header.length
  BY EndStep
<1>2. \/ outData' = "in"
      \/ /\ response.encoding # "none" /\ outData' = "out" /\ outText' \in Buffer
         /\ outText'.data \in {Echo!Text(response), Echo!Marked(Echo!Text(response), response.head)}
  BY EndStep
<1>3. result = "none"
  BY <1>1 DEF BodyInv, EndedInv
<1>4. SUFFICES ASSUME ~damaged
      PROVE  /\ outData' = "in" => header'.length \in {0, Len(inData'.data)}
             /\ outData' = "out" => header'.length \in {0, Len(outText'.data)}
  BY <1>1, <1>3 DEF LengthInv
<1>5. /\ offered = response.size /\ response.size \in Nat /\ ScriptLength \in Nat
      /\ Echo!Body(response) \in Seq(Unit) /\ Len(Echo!Body(response)) = response.size
  BY <1>1, ResponseAssumption, BufferAssumption, BodyType DEF BodyInv, ContentInv
<1>6. WithScript(response, inData.data, offered) => Len(inData.data) = response.size + ScriptLength
  <2>1. SUFFICES ASSUME WithScript(response, inData.data, offered)
                 PROVE  Len(inData.data) = response.size + ScriptLength
    OBVIOUS
  <2>. DEFINE m == Echo!Marked(Echo!Body(response), response.head)
              k == response.size + ScriptLength
  <2>2. inData.data = SubSeq(m, 1, k) /\ response.head \in 0..response.size
    BY <1>5, <2>1 DEF WithScript
  <2>3. m \in Seq(Unit) /\ Len(m) = k
    BY <1>5, <2>2, MarkedType
  <2>4. k \in 0..k
    BY <1>5
  <2>. HIDE DEF m, k
  <2>5. Len(inData.data) = k
    BY <2>2, <2>3, <2>4, Clipped
  <2>. QED
    BY <2>5 DEF k
<1>7. AsItCame(response, inData.data, offered) => Len(inData.data) = response.size
  <2>1. response.size \in 0..Len(Echo!Body(response))
    BY <1>5
  <2>. QED
    BY <1>5, <2>1, Clipped DEF AsItCame
<1>8. CASE ~locked
  <2>1. outData = "in"
    BY <1>1, <1>8 DEF HandlerInv, ModeInv
  <2>2. outData' = "in"
    BY <2>1, EndStep
  <2>3. header.length = response.size + ScriptLength /\ WithScript(response, inData.data, offered)
    BY <1>1, <1>4, <1>8 DEF LengthInv
  <2>. QED
    BY <1>1, <1>6, <1>8, <2>2, <2>3
<1>9. CASE locked
  <2>1. header.length \in {0, response.size}
    BY <1>1, <1>4, <1>9 DEF LengthInv
  <2>2. CASE outData' = "in"
    <3>1. Echo!OutLength = Len(inData.data) /\ Len(inData.data) \in Nat
      BY <1>1, <2>2, LenProperties DEF Echo!OutLength, Buffer
    <3>2. CASE Echo!OutLength > 0
      BY <1>1, <1>9, <2>2, <3>1, <3>2
    <3>3. CASE Echo!OutLength = 0
      <4>1. AsItCame(response, inData.data, offered) \/ WithScript(response, inData.data, offered)
        BY <1>1, <1>4 DEF BodyInv, ContentInv
      <4>2. response.size = 0
        BY <1>5, <1>6, <1>7, <3>1, <3>3, <4>1
      <4>. QED
        BY <1>1, <2>1, <2>2, <3>3, <4>2
    <3>. QED
      BY <3>1, <3>2, <3>3
  <2>3. CASE outData' = "out"
    <3>1. /\ response.encoding # "none"
          /\ outText'.data \in {Echo!Text(response), Echo!Marked(Echo!Text(response), response.head)}
          /\ outText'.data \in Seq(Unit) /\ Echo!OutLength = Len(outText'.data)
      BY <1>2, <2>3 DEF Echo!OutLength, Buffer
    <3>2. /\ Echo!Text(response) \in Seq(Unit) /\ Len(Echo!Text(response)) = response.plain
          /\ response.plain \in Nat /\ response.plain > 0
      BY <1>1, <3>1, BodyType, ResponseAssumption DEF SomeText
    <3>3. Len(Echo!Text(response)) <= Len(outText'.data)
      BY <2>3, EndStep
    <3>4. Len(outText'.data) > 0
      BY <3>1, <3>2, <3>3, LenProperties
    <3>. QED
      BY <1>1, <1>9, <2>3, <3>1, <3>4
  <2>. QED
    BY <1>2, <2>2, <2>3
<1>. QED
  BY <1>8, <1>9

\* Sending does not change the length.
LEMMA SendRestLength ==
  ASSUME HandlerInv, BodyInv, LengthInv, Echo!SendRest
  PROVE  LengthInv'
<1>1. /\ phase = "rest" /\ inData \in Buffer /\ outData \in {"in", "out"}
      /\ inData # NoBuffer
      /\ UNCHANGED <<phase, response, header, outData, damaged, result>>
  BY SendRestStep
<1>2. MaxRead \in Nat /\ result = "none"
  BY <1>1, BufferAssumption DEF BodyInv, EndedInv
<1>3. outData = "in" => inData'.data = inData.data
  <2>1. outData = "in" => inData' = Echo!Drained(inData, MaxRead)
    BY SendRestStep
  <2>2. inData.read <= Len(inData.data)
    BY <1>1 DEF HandlerInv, EchoTypes
  <2>3. Echo!Drained(inData, MaxRead).data = inData.data
    BY <1>1, <1>2, <2>2, DrainedBuffer, Zenon
  <2>. QED
    BY <2>1, <2>3
<1>4. outData = "out" => outText'.data = outText.data
  <2>1. outData = "out" => outText \in Buffer /\ outText' = Echo!Drained(outText, MaxRead)
    BY SendRestStep
  <2>2. outData = "out" => outText.read <= Len(outText.data)
    BY <2>1, NoBufferAssumption DEF HandlerInv, EchoTypes
  <2>3. outData = "out" => Echo!Drained(outText, MaxRead).data = outText.data
    BY <1>2, <2>1, <2>2, DrainedBuffer, Zenon
  <2>. QED
    BY <2>1, <2>3
<1>. QED
  BY <1>1, <1>2, <1>3, <1>4 DEF LengthInv

\* What was sent to the end has the length in the head.
LEMMA FinishLength ==
  ASSUME HandlerInv, BodyInv', LengthInv, Echo!FinishRest
  PROVE  LengthInv'
<1>1. /\ phase = "rest" /\ phase' = "over" /\ sent # NotSent
      /\ UNCHANGED <<response, header, sent, delivered, inData, outText, outData, damaged>>
  BY DEF Echo!FinishRest, Echo!bodyVars, Echo!sendVars, Echo!echoVars
<1>2. sent = header
  BY <1>1 DEF HandlerInv, ModeInv
<1>3. result' = "sent" /\ response'.hasbody /\ ~damaged' => sent'.length \in {0, Len(delivered')}
  BY <1>1, <1>2 DEF LengthInv, BodyInv, EndedInv
<1>. QED
  BY <1>1, <1>3 DEF LengthInv

\* No step of the handlers breaks the invariant.
LEMMA LengthNext ==
  ASSUME SomeText, HandlerInv, HandlerInv', BodyInv, BodyInv', LengthInv, [Echo!Next]_(Echo!vars)
  PROVE  LengthInv'
<1>1. CASE Echo!InitRequestData
  <2>1. PICK r \in Response :
          response' = r /\ header' = [length |-> Echo!Announced(r), encoded |-> r.encoding # "none"]
    BY <1>1 DEF Echo!InitRequestData
  <2>2. phase = "start" /\ phase' = "open" /\ result' = result
    BY <1>1 DEF Echo!InitRequestData
  <2>3. result' # "sent"
    BY <2>2 DEF HandlerInv, FreshInv
  <2>. QED
    BY <2>1, <2>2, <2>3 DEF LengthInv, Echo!Announced
<1>2. CASE Echo!ReadPreview
  <2>1. phase = "open" /\ phase' = "preview" /\ UNCHANGED <<response, header, result>>
    BY <1>2 DEF Echo!ReadPreview
  <2>2. result' # "sent"
    BY <2>1 DEF HandlerInv, FreshInv
  <2>. QED
    BY <2>1, <2>2 DEF LengthInv
<1>3. CASE Echo!Refuse
  <2>1. /\ phase = "preview" /\ UNCHANGED <<response, inData>>
        /\ \/ phase' = "over" /\ result' # "sent"
           \/ phase' = "end" /\ ~response.hasbody /\ result' = result
    BY <1>3 DEF Echo!Refuse, Echo!bodyVars, Echo!echoVars
  <2>2. result # "sent" /\ (inData # NoBuffer => response.hasbody)
    BY <2>1 DEF HandlerInv, FreshInv
  <2>. QED
    BY <2>1, <2>2 DEF LengthInv
<1>4. CASE Echo!PreviewEmpty \/ Echo!PreviewPlain \/ Echo!PreviewEncoded
  BY <1>4, PreviewLength
<1>5. CASE Echo!SendHead
  <2>1. /\ phase \in {"body", "rest"}
        /\ UNCHANGED <<phase, response, offered, locked, header, delivered, inData, outText,
                       outData, damaged, result>>
    BY <1>5 DEF Echo!SendHead, Echo!bodyVars, Echo!echoVars
  <2>2. result # "sent"
    BY <2>1 DEF BodyInv, EndedInv
  <2>. QED
    BY <2>1, <2>2 DEF LengthInv
<1>6. CASE Echo!EndOfNoData
  <2>1. /\ phase = "end" /\ phase' = "rest" /\ inData = NoBuffer /\ UNCHANGED <<response, result>>
    BY <1>6 DEF Echo!EndOfNoData, Echo!bodyVars
  <2>2. result # "sent" /\ ~response.hasbody
    BY <2>1 DEF BodyInv, EndedInv, HandlerInv, ModeInv
  <2>. QED
    BY <2>1, <2>2 DEF LengthInv
<1>7. CASE \/ Echo!Abort \/ Echo!ReleaseRequestData
           \/ Echo!PreviewUnallocated \/ Echo!EndOfDataOverruns
  BY <1>7 DEF Echo!Abort, Echo!ReleaseRequestData, Echo!PreviewUnallocated,
     Echo!EndOfDataOverruns, Echo!Killed, LengthInv
<1>8. CASE UNCHANGED Echo!vars
  BY <1>8 DEF LengthInv, Echo!vars, Echo!bodyVars, Echo!sendVars, Echo!echoVars
<1>9. CASE Echo!Io \/ Echo!EndOfData \/ Echo!SendRest \/ Echo!FinishRest
  BY <1>9, IoLength, EndOfDataLength, SendRestLength, FinishLength
<1>. QED
  BY <1>1, <1>2, <1>3, <1>4, <1>5, <1>6, <1>7, <1>8, <1>9 DEF Echo!Next

\* If no compressed body inflates to nothing, the Content-Length that was sent is
\* the length of the body that was sent (readme, V2.2).
THEOREM LengthsAreTrue == SomeText => (EchoSpec => []LengthIsTrue)
<1>. SUFFICES ASSUME SomeText PROVE EchoSpec => []LengthIsTrue
  OBVIOUS
<1>1. EchoInit => LengthInv
  BY DEF EchoInit, Echo!Init, LengthInv
<1>2. EchoInv /\ EchoInv' /\ BodyInv /\ BodyInv' /\ LengthInv /\ [EchoNext]_<<vars, echoVars>> => LengthInv'
  BY LengthNext, EchoStep DEF EchoInv
<1>3. LengthInv => LengthIsTrue
  BY DEF LengthInv, LengthIsTrue, Echo!LengthIsTrue
<1>. QED
  BY <1>1, <1>2, <1>3, BodyReachable, PTL DEF EchoSpec
===============================================================================
