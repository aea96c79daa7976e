---------------------------- MODULE ConfFile_proofs ----------------------------
(***************************************************************************)
(* Facts about ConfFile that every program with a configuration file needs:*)
(* its reader leaves no memory behind, and finds what the file declares.   *)
(* They hold for any file, buffer and list.                                *)
(***************************************************************************)
EXTENDS ConfFile, TLAPS, FiniteSetTheorems, SequenceTheorems, WellFoundedInduction

-------------------------------------------------------------------------------
\* A set of natural numbers that has members has a least one.
LEMMA LeastOf ==
  ASSUME NEW S, S \subseteq Nat, S # {}
  PROVE  Min(S) \in S /\ \A i \in S : Min(S) <= i
<1>1. PICK least \in S : \A i \in S : ~ (<<i, least>> \in OpToRel(<, Nat))
  BY NatLessThanWellFounded, WFMin
<1>2. \A i \in S : ~ (i < least)
  BY <1>1 DEF OpToRel
<1>3. \A i \in S : least =< i
  BY <1>2, SMT
<1>. QED
  BY <1>1, <1>3, Zenon DEF Min

-------------------------------------------------------------------------------
(* What the reading leaves behind. *)

IsSequence(s) == \E S : s \in Seq(S)

\* An entry of the list has two strings on the heap; the options are empty until
\* the file was read to its end, and the list is empty from then on.  The stream
\* is open exactly while lines are read, and when that was given up.
ReadingInv ==
  /\ IsSequence(list) /\ Len(list) <= CONF_ENTRY_SIZE
  /\ strings = 2 * Len(list)
  /\ reading \in {"open", "read", "failed"} => list = <<>>
  /\ reading \in {"open", "line", "add", "failed"} => conf = [option \in DOMAIN Default |-> <<>>]
  /\ fs \in BOOLEAN
  /\ reading \in {"line", "add"} => fs /\ file # NoFile
  /\ reading = "failed" => (fs <=> file # NoFile)
  /\ reading = "read" => ~fs

\* Nothing was allocated before the file is opened.
LEMMA ReadingInit == ConfInit => ReadingInv
<1>. SUFFICES ASSUME ConfInit PROVE ReadingInv
  OBVIOUS
<1>1. /\ list = <<>> /\ strings = 0 /\ conf = [option \in DOMAIN Default |-> <<>>]
      /\ reading = "open" /\ fs = FALSE
  BY DEF ConfInit
<1>2. IsSequence(<<>>) /\ Len(<<>>) = 0
  BY DEF IsSequence
<1>3. fs \in BOOLEAN
  BY <1>1
<1>. QED
  BY <1>1, <1>2, <1>3, ConfAssumption DEF ReadingInv

\* An entry more keeps a list a list.
LEMMA AppendedSequence ==
  ASSUME NEW s, IsSequence(s), NEW e
  PROVE  IsSequence(Append(s, e)) /\ Len(Append(s, e)) = Len(s) + 1 /\ Len(s) \in Nat
<1>1. PICK S : s \in Seq(S)
  BY DEF IsSequence
<1>2. s \in Seq(S \cup {e})
  BY <1>1
<1>3. Append(s, e) \in Seq(S \cup {e}) /\ Len(Append(s, e)) = Len(s) + 1 /\ Len(s) \in Nat
  BY <1>2
<1>. QED
  BY <1>3 DEF IsSequence

\* The strings follow the list in every step of the reader.
LEMMA ReadingStep ==
  ASSUME ReadingInv, ConfNext \/ UNCHANGED confVars
  PROVE  ReadingInv'
<1>0. IsSequence(<<>>) /\ Len(<<>>) = 0 /\ Len(list) \in Nat /\ 0 <= CONF_ENTRY_SIZE
  BY AppendedSequence, ConfAssumption DEF ReadingInv, IsSequence
<1>1. CASE OpenFile
  BY <1>1 DEF OpenFile, ReadingInv
<1>2. CASE ReadLine
  BY <1>2 DEF ReadLine, ReadingInv
<1>3. CASE AddEntry
  <2>1. PICK e : list' = Append(list, e)
    BY <1>3 DEF AddEntry
  <2>2. IsSequence(list') /\ Len(list') = Len(list) + 1
    BY <2>1, AppendedSequence DEF ReadingInv
  <2>3. /\ strings' = strings + 2 /\ Len(list) < CONF_ENTRY_SIZE
        /\ reading = "add" /\ reading' = "line" /\ UNCHANGED <<file, fs, conf>>
    BY <1>3 DEF AddEntry
  <2>. QED
    BY <1>0, <2>2, <2>3, ConfAssumption DEF ReadingInv
<1>4. CASE AddFails
  <2>1. /\ list' = <<>> /\ strings' = strings - 2 * Len(list)
        /\ reading = "add" /\ reading' = "failed" /\ UNCHANGED <<file, fs, conf>>
    BY <1>4 DEF AddFails
  <2>. QED
    BY <1>0, <2>1 DEF ReadingInv
<1>5. CASE Configure
  <2>1. /\ list' = <<>> /\ strings' = strings - 2 * Len(list)
        /\ reading' = "read" /\ fs' = FALSE
    BY <1>5 DEF Configure
  <2>2. fs' \in BOOLEAN /\ ~fs'
    BY <2>1
  <2>. QED
    BY <1>0, <2>1, <2>2 DEF ReadingInv
<1>6. CASE UNCHANGED confVars
  BY <1>6 DEF confVars, ReadingInv
<1>. QED
  BY <1>1, <1>2, <1>3, <1>4, <1>5, <1>6 DEF ConfNext

\* At either end of conf_read the list is empty, and so is the heap.
LEMMA ReadingMeans == ReadingInv => OnlyStreamLeft
BY DEF ReadingInv, OnlyStreamLeft

-------------------------------------------------------------------------------
(* What one line says. *)

\* The file as fgets and the cut take it: its last line, unless a newline ends it,
\* is one character short.
Taken(text) == IF NewlineEnds(text) THEN text ELSE Front(text)

\* A larger number leaves the least one as it is.
LEMMA MinAdded ==
  ASSUME NEW S \in SUBSET Nat, NEW n \in Nat, \A i \in S : i < n
  PROVE  Min(S \cup {n}) = IF S = {} THEN n ELSE Min(S)
<1>. DEFINE all == S \cup {n}
            least == Min(all)
            first == Min(S)
<1>1. all \in SUBSET Nat /\ all # {}
  OBVIOUS
<1>2. least \in all /\ \A i \in all : least <= i
  BY <1>1, LeastOf
<1>3. S # {} => first \in S /\ \A i \in S : first <= i
  BY LeastOf
<1>. HIDE DEF least, first
<1>4. S = {} => least = n
  BY <1>2
<1>5. ASSUME S # {} PROVE least = first
  <2>1. first \in S /\ first \in Nat /\ first < n /\ first \in all
    BY <1>3, <1>5
  <2>2. least <= first /\ least \in Nat
    BY <1>1, <1>2, <2>1
  <2>3. least \in S
    BY <1>2, <2>1, <2>2
  <2>4. first <= least
    BY <1>3, <1>5, <2>3
  <2>. QED
    BY <2>1, <2>2, <2>4
<1>. QED
  BY <1>4, <1>5 DEF least, first

\* remove_blank and PathOf give sequences, as long as the positions they keep.
LEMMA PickedSequence ==
  ASSUME NEW seq, NEW positions, IsFiniteSet(positions)
  PROVE  IsSequence(Picked(seq, positions)) /\ Len(Picked(seq, positions)) = Cardinality(positions)
<1>1. Cardinality(positions) \in Nat
  BY FS_CardinalityType
<1>. DEFINE n == Cardinality(positions)
            p(k) == seq[CHOOSE i \in positions : Cardinality({j \in positions : j < i}) = k - 1]
<1>. HIDE DEF p
<1>2. [k \in 1..n |-> p(k)] \in Seq({p(k) : k \in 1..n})
  BY <1>1
<1>3. Len([k \in 1..n |-> p(k)]) = n
  BY <1>1
<1>4. Picked(seq, positions) = [k \in 1..n |-> p(k)]
  BY DEF Picked, p
<1>. QED
  BY <1>2, <1>3, <1>4 DEF IsSequence

\* A line without its blanks is a line.
LEMMA BlanksSequence ==
  ASSUME NEW buf, IsSequence(buf)
  PROVE  IsSequence(RemoveBlank(buf))
<1>1. DOMAIN buf = 1..Len(buf) /\ Len(buf) \in Nat
  BY DEF IsSequence
<1>2. IsFiniteSet(DOMAIN buf)
  BY <1>1, FS_Interval
<1>3. IsFiniteSet({i \in DOMAIN buf : buf[i] # " "})
  BY <1>2, FS_Subset
<1>. QED
  BY <1>3, PickedSequence DEF RemoveBlank

\* Of an entry's line the name is an option's just when the line sets the option.
LEMMA EntrySets ==
  ASSUME NEW line, IsSequence(line), NEW option \in DOMAIN Default, option # "=", option # "#"
  PROVE  LET buf == RemoveBlank(line) IN
         /\ Sets(line, option) <=> IsEntry(buf) /\ ParseLine(buf).name = <<option>>
         /\ Sets(line, option) => ParseLine(buf).value = SubSeq(buf, 3, Len(buf))
<1>. DEFINE buf == RemoveBlank(line)
            equals == {i \in DOMAIN buf : buf[i] = "="}
            index == Min(equals)
<1>1. PICK S : buf \in Seq(S)
  BY BlanksSequence DEF IsSequence
<1>2. Sets(line, option) <=> Len(buf) > 1 /\ buf[1] = option /\ buf[2] = "="
  BY DEF Sets
<1>3. ParseLine(buf).name = SubSeq(buf, 1, index - 1)
  BY DEF ParseLine
<1>4. ParseLine(buf).value = SubSeq(buf, index + 1, Len(buf))
  BY DEF ParseLine
<1>5. IsEntry(buf) <=> buf # <<>> /\ buf[1] # "#" /\ equals # {}
  BY DEF IsEntry, Range
<1>. HIDE DEF buf
<1>6. equals # {} => index \in equals /\ \A i \in equals : index <= i
  BY <1>1, LeastOf
<1>. HIDE DEF index
<1>7. ASSUME Sets(line, option)
      PROVE  IsEntry(buf) /\ index = 2
  <2>1. 2 \in equals /\ 1 \notin equals
    BY <1>1, <1>2, <1>7
  <2>2. index = 2
    BY <1>1, <1>6, <2>1
  <2>. QED
    BY <1>1, <1>2, <1>5, <1>7, <2>1, <2>2
<1>8. ASSUME Sets(line, option) PROVE ParseLine(buf).name = <<option>>
  <2>1. SubSeq(buf, 1, 1) = <<buf[1]>>
    <3>1. 1 \in 1..Len(buf)
      BY <1>1, <1>2, <1>8
    <3>2. \A i \in 1..1 : buf[i] \in S
      BY <1>1, <3>1
    <3>3. /\ SubSeq(buf, 1, 1) \in Seq(S) /\ Len(SubSeq(buf, 1, 1)) = 1
          /\ SubSeq(buf, 1, 1)[1] = buf[1]
      BY <3>2, SubSeqProperties
    <3>4. <<buf[1]>> \in Seq(S) /\ Len(<<buf[1]>>) = 1 /\ <<buf[1]>>[1] = buf[1]
      BY <3>2
    <3>. DEFINE a == SubSeq(buf, 1, 1)
                b == <<buf[1]>>
    <3>5. a \in Seq(S) /\ b \in Seq(S) /\ Len(a) = Len(b) /\ \A i \in 1..Len(a) : a[i] = b[i]
      BY <3>3, <3>4
    <3>. HIDE DEF a, b
    <3>6. a = b
      BY <3>5, SeqEqual
    <3>. QED
      BY <3>6 DEF a, b
  <2>. QED
    BY <1>2, <1>3, <1>7, <1>8, <2>1
<1>9. ASSUME IsEntry(buf), ParseLine(buf).name = <<option>>
      PROVE  Sets(line, option)
  <2>1. index \in 1..Len(buf) /\ buf[index] = "=" /\ Len(buf) \in Nat
    BY <1>1, <1>5, <1>6, <1>9
  <2>2. Len(SubSeq(buf, 1, index - 1)) = index - 1
    BY <1>1, <2>1
  <2>3. Len(<<option>>) = 1
    OBVIOUS
  <2>5. index = 2
    <3>1. Len(ParseLine(buf).name) = 1
      BY <1>9, <2>3
    <3>2. index - 1 = 1
      BY <1>3, <2>2, <3>1
    <3>. QED
      BY <2>1, <3>2
  <2>4. SubSeq(buf, 1, 1)[1] = buf[1]
    BY <1>1, <2>1, <2>5
  <2>. QED
    BY <1>2, <1>3, <1>9, <2>1, <2>4, <2>5
<1>. QED
  BY <1>4, <1>7, <1>8, <1>9 DEF buf

\* What Front takes away is the last character.
LEMMA FrontElements ==
  ASSUME NEW S, NEW text \in Seq(S), Len(text) # 0
  PROVE  /\ Front(text) \in Seq(S) /\ Len(Front(text)) = Len(text) - 1
         /\ \A i \in 1..(Len(text) - 1) : Front(text)[i] = text[i]
<1>. DEFINE n == Len(text)
            front == SubSeq(text, 1, n - 1)
<1>1. n \in Nat /\ n # 0 /\ \A i \in 1..n : text[i] \in S
  OBVIOUS
<1>. HIDE DEF n
<1>2. 1 \in Int /\ n - 1 \in Int /\ \A i \in 1..(n - 1) : text[i] \in S
  BY <1>1
<1>3. /\ front \in Seq(S)
      /\ Len(front) = IF 1 <= n - 1 THEN (n - 1) - 1 + 1 ELSE 0
      /\ \A i \in 1..((n - 1) - 1 + 1) : front[i] = text[1 + i - 1]
  BY <1>2, SubSeqProperties
<1>. HIDE DEF front
<1>4. Len(front) = n - 1
  BY <1>1, <1>3
<1>5. \A i \in 1..(n - 1) : i \in 1..((n - 1) - 1 + 1) /\ 1 + i - 1 = i
  BY <1>1
<1>6. Front(text) = front
  BY DEF Front, front, n
<1>. QED
  BY <1>3, <1>4, <1>5, <1>6 DEF n

\* fgets gives the next line whole, and behind it begins the one that follows.
LEMMA ReadsLine ==
  ASSUME NEW text \in Seq(STRING), Fits(text), NEW s \in LineStarts(text)
  PROVE  LET line == LineAt(text, s) IN
         /\ Len(line) \in Nat \ {0}
         /\ s + Len(line) \in LineStarts(text) \cup {Len(text) + 1}
         /\ \A i \in LineStarts(text) : i < s + Len(line) <=> i <= s
         /\ CutLine(line) = LineFrom(Taken(text), s)
         /\ IsSequence(CutLine(line))
<1>. DEFINE n == Len(text)
            stops == {i \in s..(n + 1) : i > n \/ text[i] = "\n"}
            stop == Min(stops)
            ends == {i \in s..n : text[i] = "\n" \/ i = n \/ i = s + READ_BUF_SIZE - 2}
            end == Min(ends)
            line == SubSeq(text, s, end)
<1>1. s \in 1..n /\ n \in Nat /\ READ_BUF_SIZE \in Nat /\ READ_BUF_SIZE > 1
  BY ConfAssumption DEF LineStarts
<1>2. stop \in stops /\ \A i \in stops : stop <= i
  <2>1. n + 1 \in stops /\ stops \subseteq Nat
    BY <1>1
  <2>. HIDE DEF stops
  <2>. QED
    BY <2>1, LeastOf
<1>3. end \in ends /\ \A i \in ends : end <= i
  <2>1. n \in ends /\ ends \subseteq Nat
    BY <1>1
  <2>. HIDE DEF ends
  <2>. QED
    BY <2>1, LeastOf
<1>. HIDE DEF stop, end
<1>4. LineAt(text, s) = line /\ LineFrom(text, s) = SubSeq(text, s, stop - 1)
  BY DEF LineAt, LineFrom, stop, end
<1>5. stop <= s + READ_BUF_SIZE - 2
  <2>1. Len(LineFrom(text, s)) < READ_BUF_SIZE - 1
    BY DEF Fits
  <2>2. Len(SubSeq(text, s, stop - 1)) = stop - s
    BY <1>1, <1>2
  <2>. QED
    BY <1>1, <1>2, <1>4, <2>1, <2>2
<1>6. \A i \in s..(stop - 1) : text[i] # "\n"
  BY <1>1, <1>2
<1>7. Len(line) = end - s + 1 /\ line \in Seq(STRING)
  BY <1>1, <1>3
<1>8. Front(line) = SubSeq(text, s, end - 1)
  BY <1>1, <1>3, <1>7 DEF Front
<1>9. CutLine(LineAt(text, s)) = SubSeq(text, s, end - 1)
  BY <1>4, <1>8 DEF CutLine
<1>12. IsSequence(CutLine(LineAt(text, s)))
  <2>1. SubSeq(text, s, end - 1) \in Seq(STRING)
    BY <1>1, <1>3
  <2>. QED
    BY <1>9, <2>1 DEF IsSequence
<1>10. CASE stop <= n
  <2>1. end = stop
    BY <1>1, <1>2, <1>3, <1>5, <1>6, <1>10
  <2>2. text[stop] = "\n"
    BY <1>1, <1>2, <1>10
  <2>3. stop + 1 \in LineStarts(text) \cup {n + 1}
    BY <1>1, <1>2, <1>10, <2>2 DEF LineStarts
  <2>4. ASSUME NEW i \in LineStarts(text) PROVE i < stop + 1 <=> i <= s
    BY <1>1, <1>2, <1>6 DEF LineStarts
  <2>5. LineFrom(Taken(text), s) = SubSeq(text, s, stop - 1)
    <3>1. CASE NewlineEnds(text)
      BY <3>1, <1>4 DEF Taken
    <3>2. CASE ~NewlineEnds(text)
      <4>. DEFINE T == Front(text)
                  others == {i \in s..(Len(T) + 1) : i > Len(T) \/ T[i] = "\n"}
      <4>1. stop < n
        BY <1>1, <1>2, <1>10, <2>2, <3>2 DEF NewlineEnds, Last
      <4>2. T \in Seq(STRING) /\ Len(T) = n - 1 /\ \A i \in 1..(n - 1) : T[i] = text[i]
        BY <1>1, FrontElements
      <4>3. stop \in others /\ \A i \in others : stop <= i
        BY <1>1, <1>2, <1>6, <2>2, <4>1, <4>2
      <4>4. others \subseteq Nat
        BY <1>1
      <4>. HIDE DEF T
      <4>5. Min(others) \in others /\ \A i \in others : Min(others) <= i
        BY <4>3, <4>4, LeastOf
      <4>6. Min(others) = stop
        BY <4>3, <4>4, <4>5
      <4>7. LineFrom(T, s) = SubSeq(T, s, stop - 1)
        BY <4>6 DEF LineFrom
      <4>8. SubSeq(T, s, stop - 1) = SubSeq(text, s, stop - 1)
        BY <1>1, <1>2, <4>1, <4>2
      <4>. QED
        BY <3>2, <4>7, <4>8 DEF Taken, T
    <3>. QED
      BY <3>1, <3>2
  <2>. QED
    BY <1>1, <1>2, <1>4, <1>7, <1>9, <1>12, <2>1, <2>3, <2>4, <2>5
<1>11. CASE stop = n + 1
  <2>1. end = n /\ text[n] # "\n"
    BY <1>1, <1>2, <1>3, <1>5, <1>6, <1>11
  <2>2. ~NewlineEnds(text)
    BY <1>1, <2>1 DEF NewlineEnds, Last
  <2>. DEFINE T == Front(text)
              others == {i \in s..(Len(T) + 1) : i > Len(T) \/ T[i] = "\n"}
  <2>3. T \in Seq(STRING) /\ Len(T) = n - 1 /\ \A i \in 1..(n - 1) : T[i] = text[i]
    BY <1>1, FrontElements
  <2>4. others = {n}
    BY <1>1, <1>6, <1>11, <2>3
  <2>. HIDE DEF T
  <2>5. Min(others) = n
    BY <1>1, <2>4, LeastOf
  <2>6. LineFrom(T, s) = SubSeq(T, s, n - 1)
    BY <2>5 DEF LineFrom
  <2>7. SubSeq(T, s, n - 1) = SubSeq(text, s, n - 1)
    BY <1>1, <2>3
  <2>8. LineFrom(Taken(text), s) = SubSeq(text, s, n - 1)
    BY <2>2, <2>6, <2>7 DEF Taken, T
  <2>9. ASSUME NEW i \in LineStarts(text) PROVE i < n + 1 <=> i <= s
    BY <1>1, <1>6, <1>11 DEF LineStarts
  <2>. QED
    BY <1>1, <1>4, <1>7, <1>9, <1>12, <2>1, <2>8, <2>9
<1>. QED
  BY <1>1, <1>2, <1>10, <1>11

-------------------------------------------------------------------------------
(* What kind of thing a text is. *)

\* Whatever the reader holds is a sequence: the value of a line, of an entry and
\* of an option.
TextInv ==
  /\ file \in File \cup {NoFile} /\ at \in Nat \ {0}
  /\ reading \in {"line", "add"} => file \in File
  /\ IsSequence(value) /\ IsSequence(list)
  /\ \A i \in DOMAIN list : IsSequence(list[i].value)
  /\ \A option \in DOMAIN Default : IsSequence(conf[option])

\* What is cut out of a line is a text again.
LEMMA ReadSequence ==
  ASSUME NEW text \in Seq(STRING), NEW first \in 1..Len(text)
  PROVE  LET line == LineAt(text, first)
             buf == RemoveBlank(CutLine(line))
         IN Len(line) \in Nat /\ (IsEntry(buf) => IsSequence(ParseLine(buf).value))
<1>. DEFINE ends == {i \in first..Len(text) :
                        text[i] = "\n" \/ i = Len(text) \/ i = first + READ_BUF_SIZE - 2}
            end == Min(ends)
            line == LineAt(text, first)
            buf == RemoveBlank(CutLine(line))
            equals == {i \in DOMAIN buf : buf[i] = "="}
            index == Min(equals)
<1>1. end \in first..Len(text)
  <2>1. ends # {} /\ ends \subseteq Nat
    BY ConfAssumption
  <2>2. end \in ends
    BY <2>1, LeastOf
  <2>. QED
    BY <2>2
<1>. HIDE DEF end
<1>2. line = SubSeq(text, first, end)
  BY DEF LineAt, end
<1>3. line \in Seq(STRING) /\ Len(line) \in Nat \ {0}
  BY <1>1, <1>2
<1>. HIDE DEF line
<1>4. CutLine(line) \in Seq(STRING)
  BY <1>3, FrontElements DEF CutLine
<1>5. IsSequence(buf)
  BY <1>4, BlanksSequence DEF IsSequence
<1>. HIDE DEF buf
<1>6. ASSUME IsEntry(buf) PROVE IsSequence(ParseLine(buf).value)
  <2>1. PICK S : buf \in Seq(S)
    BY <1>5 DEF IsSequence
  <2>2. equals # {} /\ equals \subseteq Nat
    BY <1>6, <2>1 DEF IsEntry, Range
  <2>3. index \in equals
    BY <2>2, LeastOf
  <2>4. index \in 1..Len(buf)
    BY <2>1, <2>3
  <2>. HIDE DEF index
  <2>5. SubSeq(buf, index + 1, Len(buf)) \in Seq(S)
    BY <2>1, <2>4
  <2>. QED
    BY <2>5 DEF ParseLine, IsSequence, index
<1>. QED
  BY <1>3, <1>6 DEF line, buf

\* Nothing was read yet.
LEMMA TextInit == ConfInit => TextInv
<1>1. IsSequence(<<>>)
  BY DEF IsSequence
<1>. QED
  BY <1>1 DEF ConfInit, TextInv

\* An option holds one of the texts, or what an overrun has written over it.
LEMMA CopiedTexts ==
  ASSUME NEW texts, DOMAIN texts = DOMAIN Default, NEW held \in Copied(texts),
         texts = [option \in DOMAIN Default |-> texts[option]],
         \A option \in DOMAIN Default : IsSequence(texts[option])
  PROVE  /\ held = [option \in DOMAIN Default |-> held[option]]
         /\ \A option \in DOMAIN Default : IsSequence(held[option])
<1>1. CASE HasRoom(texts)
  BY <1>1 DEF Copied
<1>2. CASE ~HasRoom(texts)
  <2>1. /\ held \in [DOMAIN texts -> Range(texts) \cup Damage]
        /\ \A option \in DOMAIN texts : held[option] \in {texts[option]} \cup Damage
    BY <1>2 DEF Copied
  <2>2. \A text \in Damage : IsSequence(text)
    BY RoomAssumption DEF IsSequence
  <2>. QED
    BY <2>1, <2>2
<1>. QED
  BY <1>1, <1>2

\* Every step takes texts from texts.
LEMMA TextStep ==
  ASSUME TextInv, ConfNext \/ UNCHANGED confVars
  PROVE  TextInv'
<1>1. CASE OpenFile
  BY <1>1 DEF OpenFile, TextInv
<1>2. CASE ReadLine
  <2>. DEFINE line == LineAt(file, at)
              buf == RemoveBlank(CutLine(line))
  <2>1. /\ reading = "line" /\ at <= Len(file) /\ at' = at + Len(line)
        /\ UNCHANGED <<file, fs, list, strings, conf>>
    BY <1>2 DEF ReadLine
  <2>2. \/ UNCHANGED <<reading, name, value>>
        \/ /\ IsEntry(buf) /\ reading' = "add" /\ value' = ParseLine(buf).value
    BY <1>2 DEF ReadLine
  <2>3. file \in File /\ file \in Seq(STRING) /\ at \in 1..Len(file)
    BY <2>1, ConfAssumption DEF TextInv
  <2>4. Len(line) \in Nat /\ (IsEntry(buf) => IsSequence(ParseLine(buf).value))
    BY <2>3, ReadSequence
  <2>. HIDE DEF line, buf
  <2>. QED
    BY <2>1, <2>2, <2>3, <2>4 DEF TextInv
<1>3. CASE AddEntry
  <2>. DEFINE new == [name |-> name, value |-> value]
  <2>1. /\ list' = Append(list, new) /\ reading = "add" /\ reading' = "line"
        /\ UNCHANGED <<file, at, name, value, conf>>
    BY <1>3 DEF AddEntry
  <2>2. IsSequence(list') /\ IsSequence(list) /\ IsSequence(new.value)
    BY <2>1, AppendedSequence DEF TextInv
  <2>3. \A i \in DOMAIN list' : list'[i] = new \/ (i \in DOMAIN list /\ list'[i] = list[i])
    <3>1. PICK S : list \in Seq(S)
      BY <2>2 DEF IsSequence
    <3>. HIDE DEF new
    <3>2. list \in Seq(S \cup {new}) /\ Len(list) \in Nat
      BY <3>1
    <3>3. Len(Append(list, new)) = Len(list) + 1 /\ DOMAIN Append(list, new) = 1..(Len(list) + 1)
      BY <3>2
    <3>4. \A i \in 1..(Len(list) + 1) : Append(list, new)[i] = IF i = Len(list) + 1 THEN new ELSE list[i]
      BY <3>2
    <3>5. DOMAIN list = 1..Len(list) /\ list' = Append(list, new)
      BY <2>1, <3>1 DEF new
    <3>. QED
      BY <3>2, <3>3, <3>4, <3>5
  <2>4. \A i \in DOMAIN list' : IsSequence(list'[i].value)
    BY <2>2, <2>3 DEF TextInv
  <2>. QED
    BY <2>1, <2>2, <2>4 DEF TextInv
<1>4. CASE AddFails
  <2>1. IsSequence(<<>>)
    BY DEF IsSequence
  <2>. QED
    BY <1>4, <2>1 DEF AddFails, TextInv
<1>5. CASE Configure
  <2>1. IsSequence(<<>>)
    BY DEF IsSequence
  <2>. DEFINE texts == [option \in DOMAIN Default |-> FindEntry(list, option)]
  <2>2. /\ list' = <<>> /\ reading' = "read" /\ UNCHANGED <<file, at, name, value>>
        /\ conf' \in Copied(texts)
    BY <1>5 DEF Configure
  <2>3. ASSUME NEW option \in DOMAIN Default PROVE IsSequence(FindEntry(list, option))
    <3>. DEFINE found == {i \in DOMAIN list : list[i].name = <<option>>}
    <3>1. CASE found = {}
      <4>1. Default[option] \in Seq(STRING)
        BY ConfAssumption
      <4>. QED
        BY <3>1, <4>1 DEF FindEntry, IsSequence
    <3>2. CASE found # {}
      <4>1. found \subseteq Nat /\ found \subseteq DOMAIN list
        BY DEF TextInv, IsSequence
      <4>2. Min(found) \in DOMAIN list
        BY <3>2, <4>1, LeastOf
      <4>3. FindEntry(list, option) = list[Min(found)].value
        BY <3>2 DEF FindEntry
      <4>. QED
        BY <4>2, <4>3 DEF TextInv
    <3>. QED
      BY <3>1, <3>2
  <2>4. /\ conf' = [option \in DOMAIN Default |-> conf'[option]]
        /\ \A option \in DOMAIN Default : IsSequence(conf'[option])
    <3>1. /\ DOMAIN texts = DOMAIN Default
          /\ texts = [option \in DOMAIN Default |-> texts[option]]
          /\ \A option \in DOMAIN Default : IsSequence(texts[option])
      BY <2>3
    <3>. HIDE DEF texts
    <3>. QED
      BY <2>2, <3>1, CopiedTexts
  <2>. QED
    BY <2>1, <2>2, <2>4 DEF TextInv
<1>6. CASE UNCHANGED confVars
  BY <1>6 DEF confVars, TextInv
<1>. QED
  BY <1>1, <1>2, <1>3, <1>4, <1>5, <1>6 DEF ConfNext

-------------------------------------------------------------------------------
(* What is read. *)

\* The lines before position n that set an option.
Setting(text, option, n) ==
  {i \in LineStarts(text) : i < n /\ Sets(LineFrom(Taken(text), i), option)}

\* The value a line gives the option it sets.
ValueOf(text, i) ==
  LET buf == RemoveBlank(LineFrom(Taken(text), i)) IN SubSeq(buf, 3, Len(buf))

Found(option) == {i \in DOMAIN list : list[i].name = <<option>>}

\* The list is as the lines before position n are.
ListsLines(n) ==
  \A option \in DOMAIN Default :
    /\ Found(option) = {} <=> Setting(file, option, n) = {}
    /\ Found(option) # {} =>
         list[Min(Found(option))].value = ValueOf(file, Min(Setting(file, option, n)))

\* The line whose entry is about to be added.
LineToAdd(i) ==
  LET buf == RemoveBlank(LineFrom(Taken(file), i)) IN
  /\ IsEntry(buf) /\ name = ParseLine(buf).name /\ value = ParseLine(buf).value

\* The list is as the lines that were read, but for the one that is to be added;
\* after the last one it has become the options.
DeclaredInv ==
  /\ file \in File \cup {NoFile}
  /\ IsSequence(list)
  /\ reading = "open" => at = 1 /\ list = <<>>
  /\ reading \in {"line", "add"} => file \in File
  /\ reading \in {"line", "add"} /\ Fits(file) => at \in LineStarts(file) \cup {Len(file) + 1}
  /\ reading = "line" /\ Fits(file) => ListsLines(at)
  /\ reading = "add" /\ Fits(file) =>
       \E i \in LineStarts(file) :
         /\ LineToAdd(i) /\ ListsLines(i)
         /\ \A j \in LineStarts(file) : j < at <=> j <= i
  /\ ConfiguredAsDeclared

\* Before the file is opened nothing is claimed about the options.
LEMMA DeclaredInit == ConfInit => DeclaredInv
<1>. SUFFICES ASSUME ConfInit PROVE DeclaredInv
  OBVIOUS
<1>1. /\ file \in File \cup {NoFile} /\ list = <<>> /\ at = 1 /\ reading = "open"
  BY DEF ConfInit
<1>2. IsSequence(<<>>)
  BY DEF IsSequence
<1>. QED
  BY <1>1, <1>2 DEF DeclaredInv, ConfiguredAsDeclared

\* The file begins with a line, unless it is empty.
LEMMA DeclaredOpen ==
  ASSUME DeclaredInv, OpenFile
  PROVE  DeclaredInv'
<1>1. /\ reading = "open" /\ UNCHANGED <<file, at, name, value, list, strings, conf>>
      /\ reading' = IF file # NoFile THEN "line" ELSE "failed"
  BY DEF OpenFile
<1>2. at = 1 /\ list = <<>> /\ file \in File \cup {NoFile}
  BY <1>1 DEF DeclaredInv
<1>3. CASE file = NoFile
  BY <1>1, <1>3 DEF DeclaredInv, ConfiguredAsDeclared
<1>4. CASE file # NoFile
  <2>1. file \in File /\ file \in Seq(STRING)
    BY <1>2, <1>4, ConfAssumption
  <2>2. 1 \in LineStarts(file) \cup {Len(file) + 1}
    <3>1. Len(file) = 0 \/ 1 \in 1..Len(file)
      BY <2>1
    <3>. QED
      BY <2>1, <3>1 DEF LineStarts
  <2>3. \A option \in DOMAIN Default : Found(option)' = {} /\ Setting(file, option, 1) = {}
    BY <1>1, <1>2, <2>1 DEF Found, Setting, LineStarts
  <2>4. ListsLines(at)'
    BY <1>1, <1>2, <2>3 DEF ListsLines
  <2>. QED
    BY <1>1, <1>2, <1>4, <2>1, <2>2, <2>4 DEF DeclaredInv, ConfiguredAsDeclared
<1>. QED
  BY <1>3, <1>4

\* One line more is read.
LEMMA DeclaredLine ==
  ASSUME DeclaredInv, ReadLine
  PROVE  DeclaredInv'
<1>. DEFINE line == LineAt(file, at)
            buf == RemoveBlank(CutLine(line))
<1>1. /\ reading = "line" /\ at <= Len(file) /\ at' = at + Len(line)
      /\ UNCHANGED <<file, fs, list, strings, conf>>
  BY DEF ReadLine
<1>2. \/ ~IsEntry(buf) /\ UNCHANGED <<reading, name, value>>
      \/ /\ IsEntry(buf) /\ reading' = "add"
         /\ name' = ParseLine(buf).name /\ value' = ParseLine(buf).value
  BY DEF ReadLine
<1>3. file \in File /\ file \in Seq(STRING)
  BY <1>1, ConfAssumption DEF DeclaredInv
<1>4. CASE ~Fits(file)
  <2>1. ~Fits(file)'
    BY <1>1, <1>4 DEF Fits, LineStarts, LineFrom
  <2>. QED
    BY <1>1, <1>2, <1>3, <2>1 DEF DeclaredInv, ConfiguredAsDeclared
<1>5. CASE Fits(file)
  <2>1. PICK s \in LineStarts(file) : s = at
    BY <1>1, <1>3, <1>5 DEF DeclaredInv
  <2>2. /\ Len(line) \in Nat \ {0}
        /\ at' \in LineStarts(file) \cup {Len(file) + 1}
        /\ \A i \in LineStarts(file) : i < at' <=> i <= s
        /\ CutLine(line) = LineFrom(Taken(file), s)
        /\ IsSequence(LineFrom(Taken(file), s))
    BY <1>1, <1>3, <1>5, <2>1, ReadsLine
  <2>3. buf = RemoveBlank(LineFrom(Taken(file), s))
    BY <2>2
  <2>. HIDE DEF line, buf
  <2>4. ListsLines(s) /\ \A option \in DOMAIN Default : Found(option)' = Found(option)
    BY <1>1, <1>5, <2>1 DEF DeclaredInv, Found
  <2>5. ListsLines(s)'
    BY <1>1, <2>4 DEF ListsLines
  <2>6. CASE IsEntry(buf)
    <3>1. reading' = "add" /\ name' = ParseLine(buf).name /\ value' = ParseLine(buf).value
      BY <1>2, <2>6
    <3>2. LineToAdd(s)'
      BY <1>1, <2>3, <2>6, <3>1 DEF LineToAdd
    <3>. QED
      BY <1>1, <1>3, <2>2, <2>5, <3>1, <3>2 DEF DeclaredInv, ConfiguredAsDeclared
  <2>7. CASE ~IsEntry(buf)
    <3>1. reading' = "line"
      BY <1>1, <1>2, <2>7
    <3>2. ASSUME NEW option \in DOMAIN Default
          PROVE  Setting(file, option, s) = Setting(file, option, at')
      <4>1. ~Sets(LineFrom(Taken(file), s), option)
        BY <2>2, <2>3, <2>7, EntrySets, ConfAssumption
      <4>2. \A i \in LineStarts(file) : i <= s <=> i < s \/ i = s
        BY <2>1, <1>3 DEF LineStarts
      <4>. QED
        BY <2>2, <4>1, <4>2 DEF Setting
    <3>3. ListsLines(at)'
      BY <1>1, <2>4, <3>2 DEF ListsLines
    <3>. QED
      BY <1>1, <1>3, <2>2, <3>1, <3>3 DEF DeclaredInv, ConfiguredAsDeclared
  <2>. QED
    BY <2>6, <2>7
<1>. QED
  BY <1>4, <1>5

\* The entry of a line is added.
LEMMA DeclaredAdd ==
  ASSUME DeclaredInv, AddEntry
  PROVE  DeclaredInv'
<1>. DEFINE new == [name |-> name, value |-> value]
            n == Len(list) + 1
<1>1. /\ reading = "add" /\ reading' = "line" /\ list' = Append(list, new)
      /\ UNCHANGED <<file, at, name, value, conf>>
  BY DEF AddEntry
<1>2. file \in File /\ file \in Seq(STRING)
  BY <1>1, ConfAssumption DEF DeclaredInv
<1>3. IsSequence(list') /\ IsSequence(list)
  BY <1>1, AppendedSequence DEF DeclaredInv
<1>4. CASE ~Fits(file)
  <2>1. ~Fits(file)'
    BY <1>1, <1>4 DEF Fits, LineStarts, LineFrom
  <2>. QED
    BY <1>1, <1>2, <1>3, <2>1 DEF DeclaredInv, ConfiguredAsDeclared
<1>5. CASE Fits(file)
  <2>1. PICK s \in LineStarts(file) :
          /\ LineToAdd(s) /\ ListsLines(s)
          /\ \A j \in LineStarts(file) : j < at <=> j <= s
    BY <1>1, <1>5 DEF DeclaredInv
  <2>2. /\ DOMAIN list = 1..Len(list) /\ Len(list) \in Nat
        /\ DOMAIN list' = 1..n /\ list'[n] = new
        /\ \A i \in DOMAIN list : list'[i] = list[i]
    BY <1>1, <1>3 DEF IsSequence
  <2>5. /\ s \in Nat /\ \A j \in LineStarts(file) : j \in Nat /\ (j <= s <=> j < s \/ j = s)
    BY <1>2 DEF LineStarts
  <2>6. IsSequence(LineFrom(Taken(file), s))
    BY <1>2, <1>5, ReadsLine
  <2>3. ASSUME NEW option \in DOMAIN Default
        PROVE  /\ Found(option)' = {} <=> Setting(file, option, at) = {}
               /\ Found(option)' # {} =>
                    list'[Min(Found(option)')].value = ValueOf(file, Min(Setting(file, option, at)))
    <3>. DEFINE before == Setting(file, option, s)
                after == Setting(file, option, at)
                line == LineFrom(Taken(file), s)
    <3>1. Sets(line, option) <=> name = <<option>>
      BY <2>1, <2>6, EntrySets, ConfAssumption DEF LineToAdd
    <3>2. Sets(line, option) => value = ValueOf(file, s)
      BY <2>1, <2>6, EntrySets, ConfAssumption DEF LineToAdd, ValueOf
    <3>3. after = before \cup (IF Sets(line, option) THEN {s} ELSE {})
      BY <2>1, <2>5 DEF Setting
    <3>4. Found(option)' = Found(option) \cup (IF name = <<option>> THEN {n} ELSE {})
      <4>1. list'[n].name = name /\ n \notin DOMAIN list /\ DOMAIN list' = DOMAIN list \cup {n}
        BY <2>2
      <4>. QED
        BY <2>2, <4>1 DEF Found
    <3>5. Found(option) \subseteq 1..Len(list) /\ Found(option) \in SUBSET Nat
      BY <2>2 DEF Found
    <3>6. before \in SUBSET Nat /\ \A i \in before : i < s
      BY <2>5 DEF Setting
    <3>7. /\ Found(option) = {} <=> before = {}
          /\ Found(option) # {} =>
               /\ Min(Found(option)) \in 1..Len(list)
               /\ list[Min(Found(option))].value = ValueOf(file, Min(before))
      BY <2>1, <3>5, LeastOf DEF ListsLines
    <3>10. after = Setting(file, option, at)
      OBVIOUS
    <3>. HIDE DEF before, after, line, n
    <3>8. CASE name # <<option>>
      <4>1. Found(option)' = Found(option) /\ after = before
        BY <3>1, <3>3, <3>4, <3>8
      <4>2. Found(option) # {} => list'[Min(Found(option))] = list[Min(Found(option))]
        BY <2>2, <3>7
      <4>3. Min(Found(option)') = Min(Found(option))
        BY <4>1
      <4>. QED
        BY <3>7, <3>10, <4>1, <4>2, <4>3
    <3>9. CASE name = <<option>>
      <4>1. Found(option)' = Found(option) \cup {n} /\ after = before \cup {s}
        BY <3>1, <3>3, <3>4, <3>9
      <4>2. n \in Nat /\ \A i \in Found(option) : i < n
        BY <2>2, <3>5 DEF n
      <4>3. /\ Min(Found(option)') = IF Found(option) = {} THEN n ELSE Min(Found(option))
            /\ Min(after) = IF before = {} THEN s ELSE Min(before)
        BY <2>5, <3>5, <3>6, <4>1, <4>2, MinAdded
      <4>4. list'[n].value = ValueOf(file, s)
        BY <2>2, <3>1, <3>2, <3>9
      <4>5. Found(option) # {} => list'[Min(Found(option))] = list[Min(Found(option))]
        BY <2>2, <3>7
      <4>. QED
        BY <3>7, <3>10, <4>1, <4>3, <4>4, <4>5
    <3>. QED
      BY <3>8, <3>9, <3>10
  <2>4. ListsLines(at)'
    BY <1>1, <2>3 DEF ListsLines
  <2>. QED
    BY <1>1, <1>2, <1>3, <1>5, <2>4 DEF DeclaredInv, ConfiguredAsDeclared
<1>. QED
  BY <1>4, <1>5

\* At the end of the file the list decides about the options.
LEMMA DeclaredConfigure ==
  ASSUME DeclaredInv, Configure
  PROVE  DeclaredInv'
<1>1. /\ reading = "line" /\ at > Len(file) /\ reading' = "read" /\ list' = <<>>
      /\ conf' \in Copied([option \in DOMAIN Default |-> FindEntry(list, option)])
      /\ UNCHANGED <<file, at, name, value>>
  BY DEF Configure
<1>2. file \in File /\ file \in Seq(STRING)
  BY <1>1, ConfAssumption DEF DeclaredInv
<1>3. IsSequence(list')
  BY <1>1 DEF IsSequence
<1>4. ASSUME Fits(file), NEW option \in DOMAIN Default
      PROVE  FindEntry(list, option) = Declared(Taken(file), option)
  <2>. DEFINE T == Taken(file)
              setting == {i \in LineStarts(T) : Sets(LineFrom(T, i), option)}
  <2>1. Setting(file, option, at) = setting
    <3>1. CASE NewlineEnds(file)
      <4>1. T = file
        BY <3>1 DEF Taken
      <4>2. \A i \in LineStarts(file) : i < at
        BY <1>1, <1>2, <1>4 DEF DeclaredInv, LineStarts
      <4>. QED
        BY <4>1, <4>2 DEF Setting
    <3>2. CASE ~NewlineEnds(file)
      <4>1. /\ T = Front(file) /\ Len(file) \in Nat \ {0}
        BY <1>2, <3>2 DEF NewlineEnds, Taken
      <4>2. T \in Seq(STRING) /\ Len(T) = Len(file) - 1 /\ \A i \in 1..(Len(file) - 1) : T[i] = file[i]
        BY <1>2, <4>1, FrontElements
      <4>. HIDE DEF T
      <4>3. LineStarts(T) = LineStarts(file) \ {Len(file)}
        BY <1>2, <4>1, <4>2 DEF LineStarts
      <4>4. ~Sets(LineFrom(T, Len(file)), option)
        <5>. DEFINE stop == Min({i \in Len(file)..(Len(T) + 1) : i > Len(T) \/ T[i] = "\n"})
        <5>1. {i \in Len(file)..(Len(T) + 1) : i > Len(T) \/ T[i] = "\n"} = {Len(file)}
          BY <4>1, <4>2
        <5>2. stop = Len(file)
          BY <4>1, <5>1, LeastOf
        <5>3. LineFrom(T, Len(file)) = SubSeq(T, Len(file), Len(file) - 1)
          BY <5>2 DEF LineFrom
        <5>4. SubSeq(T, Len(file), Len(file) - 1) = <<>>
          BY <4>1, SubSeqEmpty
        <5>5. {i \in DOMAIN <<>> : <<>>[i] # " "} = {}
          OBVIOUS
        <5>6. Len(RemoveBlank(<<>>)) = 0
          BY <5>5, PickedSequence, FS_EmptySet DEF RemoveBlank
        <5>7. RemoveBlank(LineFrom(T, Len(file))) = RemoveBlank(<<>>)
          BY <5>3, <5>4
        <5>8. Sets(LineFrom(T, Len(file)), option) => Len(RemoveBlank(<<>>)) > 1
          BY <5>7 DEF Sets
        <5>. QED
          BY <5>6, <5>8
      <4>5. \A i \in LineStarts(file) : i < at
        BY <1>1, <1>2, <1>4 DEF DeclaredInv, LineStarts
      <4>. QED
        BY <4>3, <4>4, <4>5 DEF Setting, T
    <3>. QED
      BY <3>1, <3>2
  <2>2. /\ Found(option) = {} <=> setting = {}
        /\ Found(option) # {} => list[Min(Found(option))].value = ValueOf(file, Min(setting))
    BY <1>1, <1>4, <2>1 DEF DeclaredInv, ListsLines
  <2>. HIDE DEF setting
  <2>3. FindEntry(list, option) =
          IF Found(option) = {} THEN Default[option] ELSE list[Min(Found(option))].value
    BY DEF FindEntry, Found
  <2>4. Declared(T, option) = IF setting = {} THEN Default[option] ELSE ValueOf(file, Min(setting))
    BY DEF Declared, ValueOf, setting
  <2>. QED
    BY <2>2, <2>3, <2>4
<1>5. ConfiguredAsDeclared'
  <2>. DEFINE declared == DeclaredTexts(Taken(file))
  <2>1. ASSUME Fits(file), HasRoom(declared) PROVE conf' = declared
    <3>1. declared = [option \in DOMAIN Default |-> FindEntry(list, option)]
      BY <1>4, <2>1 DEF DeclaredTexts
    <3>2. conf' \in Copied(declared)
      BY <1>1, <3>1
    <3>. HIDE DEF declared
    <3>. QED
      BY <2>1, <3>2 DEF Copied
  <2>. HIDE DEF declared
  <2>2. Fits(file)' = Fits(file) /\ DeclaredTexts(Taken(file))' = declared
    BY <1>1 DEF Fits, LineStarts, LineFrom, DeclaredTexts, Declared, Sets, Taken, declared
  <2>3. HasRoom(declared)' = HasRoom(declared')
    OBVIOUS
  <2>. QED
    BY <1>1, <2>1, <2>2 DEF ConfiguredAsDeclared, Taken
<1>. QED
  BY <1>1, <1>2, <1>3, <1>5 DEF DeclaredInv

\* No step of the reader loses what the lines so far have declared.
LEMMA DeclaredStep ==
  ASSUME DeclaredInv, ConfNext \/ UNCHANGED confVars
  PROVE  DeclaredInv'
<1>1. CASE AddFails
  <2>1. IsSequence(<<>>)
    BY DEF IsSequence
  <2>. QED
    BY <1>1, <2>1 DEF AddFails, DeclaredInv, ConfiguredAsDeclared
<1>2. CASE UNCHANGED confVars
  BY <1>2 DEF confVars, DeclaredInv, ConfiguredAsDeclared, ListsLines, Found, LineToAdd
<1>. QED
  BY <1>1, <1>2, DeclaredOpen, DeclaredLine, DeclaredAdd, DeclaredConfigure DEF ConfNext
===============================================================================
