--------------------------- MODULE ChunkingProofs ---------------------------
(***************************************************************************)
(* What chunk_document computes, for every document and every MaxChars.    *)
(*                                                                         *)
(* The blocks cut the document into stretches that are each a whole table  *)
(* or free of tables (Cut).  What is put together of them is followed item *)
(* by item, a block or a row: the texts so far hold what the items so far  *)
(* say, in its order (Assembled), their tables whole (Whole).              *)
(***************************************************************************)
EXTENDS Chunking, Recursion, TLAPS

Texts == Seq(Lines)

-----------------------------------------------------------------------------
(* Size *)

\* Size adds up the sizes of the lines, one after the other.
LEMMA SizeSteps ==
  ASSUME NEW text \in Texts, Len(text) # 0
  PROVE  \E f : /\ \A i \in 1..Len(text) : f[i] \in Nat
                /\ \A i \in 1..Len(text) : f[i] = Previous(f, 0, i) + text[i].size
                /\ Size(text) = f[Len(text)]
<1> DEFINE Step(sum, i) == sum + text[i].size
           upTo[i \in 1..Len(text)] == Step(IF i = 1 THEN 0 ELSE upTo[i - 1], i)
           Steps == {t \in (1..Len(text)) \X Nat \X Nat : t[3] = Step(t[2], t[1])}
<1>1. Len(text) \in Nat /\ text # <<>>
  BY DEF Texts
<1>2. ASSUME NEW i \in 1..Len(text), NEW sum \in Nat PROVE Step(sum, i) \in Nat
  <2> HIDE DEF upTo, Steps
  <2>1. text[i] \in Lines
    BY DEF Texts
  <2> QED
    BY <2>1 DEF Lines
<1> HIDE DEF Step
<1>3. PICK f \in [1..Len(text) -> Nat] :
        \A i \in 1..Len(text) : <<i, Previous(f, 0, i), f[i]>> \in Steps
  <2> HIDE DEF upTo
  <2>1. \A i \in 1..Len(text) : \A x \in Nat : \E y \in Nat : <<i, x, y>> \in Steps
    BY <1>2
  <2>2. 0 \in Nat
    OBVIOUS
  <2> HIDE DEF Steps
  <2> QED
    BY <1>1, <2>1, <2>2, RecursionExists, Zenon
<1>4. \A i \in 1..Len(text) : f[i] = Step(IF i = 1 THEN 0 ELSE f[i - 1], i)
  <2> HIDE DEF upTo
  <2> QED
    BY <1>3 DEF Previous
<1>5. f = [i \in 1..Len(text) |-> Step(IF i = 1 THEN 0 ELSE f[i - 1], i)]
  <2> HIDE DEF upTo
  <2> QED
    BY <1>3, <1>4
<1>6. upTo = [i \in 1..Len(text) |-> Step(IF i = 1 THEN 0 ELSE upTo[i - 1], i)]
  BY <1>5
<1>7. Size(text) = upTo[Len(text)]
  BY <1>1 DEF Size, Step
<1> HIDE DEF upTo
<1>8. \A i \in 1..Len(text) : upTo[i] = Step(Previous(upTo, 0, i), i)
  BY <1>6 DEF Previous
<1>9. \A i \in 1..Len(text) : upTo[i] \in Nat
  <2>1. \A i \in 1..Len(text) : Previous(upTo, 0, i) \in Nat => upTo[i] \in Nat
    BY <1>2, <1>8
  <2>2. 0 \in Nat
    OBVIOUS
  <2> QED
    BY <1>1, <2>1, <2>2, RecursionType
<1> QED
  BY <1>7, <1>8, <1>9 DEF Step

\* the size of a text is a number
LEMMA SizeType ==
  ASSUME NEW text \in Texts
  PROVE  Size(text) \in Nat
<1>1. Len(text) \in Nat /\ (Len(text) = 0 => text = <<>>)
  BY DEF Texts
<1>2. CASE Len(text) = 0
  BY <1>1, <1>2 DEF Size
<1>3. CASE Len(text) # 0
  <2>1. Len(text) \in 1..Len(text)
    BY <1>1, <1>3
  <2> QED
    BY <1>3, <2>1, SizeSteps
<1> QED
  BY <1>2, <1>3

\* and 0 of no text
LEMMA SizeOfNothing == Size(<<>>) = 0
  BY DEF Size

\* The size of two texts together is the sum of their sizes.
LEMMA SizeOfBoth ==
  ASSUME NEW text \in Texts, NEW more \in Texts, Len(text) # 0, Len(more) # 0
  PROVE  Size(text \o more) = Size(text) + Size(more)
<1> DEFINE both == text \o more
           n == Len(text)
<1>1. /\ both \in Texts /\ n \in Nat /\ Len(more) \in Nat /\ Len(both) = n + Len(more)
      /\ \A i \in 1..n : both[i] = text[i]
      /\ \A i \in 1..Len(more) : both[n + i] = more[i]
  BY DEF Texts
<1>2. n # 0 /\ \A i \in 1..Len(more) : more[i].size \in Nat
  <2>1. \A i \in 1..Len(more) : more[i] \in Lines
    BY DEF Texts
  <2> QED
    BY <2>1 DEF Lines
<1> HIDE DEF both
<1>3. PICK f : /\ \A i \in 1..Len(both) : f[i] \in Nat
               /\ \A i \in 1..Len(both) : f[i] = Previous(f, 0, i) + both[i].size
               /\ Size(both) = f[Len(both)]
  <2>1. Len(both) # 0
    BY <1>1
  <2> QED
    BY <1>1, <2>1, SizeSteps
<1>4. PICK g : /\ \A i \in 1..n : g[i] \in Nat
               /\ \A i \in 1..n : g[i] = Previous(g, 0, i) + text[i].size
               /\ Size(text) = g[n]
  BY SizeSteps
<1>5. PICK h : /\ \A i \in 1..Len(more) : h[i] \in Nat
               /\ \A i \in 1..Len(more) : h[i] = Previous(h, 0, i) + more[i].size
               /\ Size(more) = h[Len(more)]
  BY SizeSteps
<1> HIDE DEF n
<1>6. f[n] = g[n]
  <2> DEFINE S == {k \in 0..n : k # 0 => f[k] = g[k]}
  <2>1. 0 \in S
    BY <1>1
  <2>2. ASSUME NEW k \in 0..n, k \in S, k < n PROVE k + 1 \in S
    <3>1. k + 1 \in 1..n /\ k + 1 \in 1..Len(both) /\ (k + 1) - 1 = k /\ k + 1 \in 0..n
      BY <1>1, <2>2
    <3>2. Previous(f, 0, k + 1) = Previous(g, 0, k + 1)
      BY <1>1, <2>2, <3>1 DEF Previous
    <3> QED
      BY <1>1, <1>3, <1>4, <3>1, <3>2
  <2>3. \A k \in 0..n : k \in S
    <3> HIDE DEF S
    <3> QED
      BY <1>1, <2>1, <2>2, BoundedInduction
  <2>4. n \in S
    <3> HIDE DEF S
    <3> QED
      BY <1>1, <2>3
  <2> QED
    BY <1>2, <2>4
<1>7. f[n + Len(more)] = g[n] + h[Len(more)]
  <2> DEFINE S == {k \in 0..Len(more) : k # 0 => f[n + k] = g[n] + h[k]}
  <2>1. 0 \in S
    BY <1>1
  <2>2. ASSUME NEW k \in 0..Len(more), k \in S, k < Len(more) PROVE k + 1 \in S
    <3>1. /\ k + 1 \in 1..Len(more) /\ n + (k + 1) \in 1..Len(both) /\ n + (k + 1) # 1
          /\ (k + 1) - 1 = k /\ (n + (k + 1)) - 1 = n + k /\ k + 1 \in 0..Len(more)
      BY <1>1, <1>2, <2>2
    <3>2. f[n + (k + 1)] = f[n + k] + more[k + 1].size
      BY <1>1, <1>3, <3>1 DEF Previous
    <3>3. h[k + 1] = Previous(h, 0, k + 1) + more[k + 1].size
      BY <1>5, <3>1
    <3>4. g[n] \in Nat /\ more[k + 1].size \in Nat
      BY <1>1, <1>2, <1>4, <3>1, SMTT(40)
    <3>5. f[n + k] = g[n] + Previous(h, 0, k + 1) /\ Previous(h, 0, k + 1) \in Nat
      <4>1. CASE k = 0
        BY <1>1, <1>6, <3>4, <4>1 DEF Previous
      <4>2. CASE k # 0
        <5>1. h[k] \in Nat /\ Previous(h, 0, k + 1) = h[k]
          BY <1>1, <1>5, <3>1, <4>2 DEF Previous
        <5> QED
          BY <2>2, <4>2, <5>1
      <4> QED
        BY <4>1, <4>2
    <3>6. f[n + (k + 1)] = g[n] + h[k + 1]
      BY <3>2, <3>3, <3>4, <3>5
    <3> QED
      BY <3>1, <3>6
  <2>3. \A k \in 0..Len(more) : k \in S
    <3> HIDE DEF S
    <3> QED
      BY <1>1, <2>1, <2>2, BoundedInduction
  <2>4. Len(more) \in S
    <3> HIDE DEF S
    <3> QED
      BY <1>1, <2>3
  <2> QED
    BY <2>4
<1> QED
  BY <1>1, <1>3, <1>4, <1>5, <1>6, <1>7 DEF both

-----------------------------------------------------------------------------
(* Texts that are put together of a document *)

Numbers(text) == {text[i].number : i \in 1..Len(text)}

Precede(earlier, later) == \A m \in earlier, n \in later : m < n

\* unless it is a single row, a text with rows is not too large
RowsFit(text) == TableBlock(text) /\ Len(text) > 1 => Size(text) <= MaxChars

\* texts that hold what the lines with the given numbers say
Assembled(document, texts, seen) ==
  /\ texts \in Seq(Texts) /\ seen \subseteq 1..Len(document)
  /\ \A c \in 1..Len(texts) :
       Excerpt(texts[c], document) /\ Numbers(texts[c]) \subseteq seen /\ RowsFit(texts[c])
  /\ \A c, d \in 1..Len(texts) : c < d => Before(texts[c], texts[d])
  /\ \A n \in seen : ~IsBlank(document[n]) => \E c \in 1..Len(texts) : n \in Numbers(texts[c])

\* a table that says something and fits in a chunk
Fitting(document, first, last) ==
  /\ first <= last /\ IsTable(document, first, last)
  /\ Size(SubSeq(document, first, last)) <= MaxChars
  /\ Says(SubSeq(document, first, last))

\* the tables that fit and begin in the lines seen are in one of the texts each
Whole(document, texts, seen) ==
  \A first, last \in 1..Len(document) :
    Fitting(document, first, last) /\ first \in seen =>
      \E c \in 1..Len(texts) : first..last \subseteq Numbers(texts[c])

\* A text whose numbers are lower comes before.
LEMMA TextsApart ==
  ASSUME NEW text, NEW later, Precede(Numbers(text), Numbers(later))
  PROVE  Before(text, later)
BY DEF Precede, Numbers, Before

\* Blank text comes before anything, and after it.
LEMMA BlankApart ==
  ASSUME NEW text, NEW other, ~Says(text)
  PROVE  Before(text, other) /\ Before(other, text)
BY DEF Says, Before

\* what two texts put together hold
LEMMA NumbersOfBoth ==
  ASSUME NEW text \in Texts, NEW more \in Texts
  PROVE  Numbers(text \o more) = Numbers(text) \cup Numbers(more)
<1> DEFINE both == text \o more
<1>1. /\ Len(text) \in Nat /\ Len(more) \in Nat /\ Len(both) = Len(text) + Len(more)
      /\ \A i \in 1..Len(text) : both[i] = text[i]
      /\ \A i \in 1..Len(more) : both[Len(text) + i] = more[i]
  BY DEF Texts
<1> HIDE DEF both
<1>2. ASSUME NEW i \in 1..Len(both) PROVE both[i].number \in Numbers(text) \cup Numbers(more)
  <2>1. CASE i \in 1..Len(text)
    BY <1>1, <2>1 DEF Numbers
  <2>2. CASE i \notin 1..Len(text)
    <3>1. PICK k \in 1..Len(more) : i = Len(text) + k
      <4>1. i - Len(text) \in 1..Len(more) /\ i = Len(text) + (i - Len(text))
        BY <1>1, <2>2
      <4> QED
        BY <4>1
    <3> QED
      BY <1>1, <3>1 DEF Numbers
  <2> QED
    BY <2>1, <2>2
<1>3. \A i \in 1..Len(text) : i \in 1..Len(both)
  BY <1>1
<1>4. \A i \in 1..Len(more) : Len(text) + i \in 1..Len(both)
  BY <1>1
<1>5. Numbers(both) \subseteq Numbers(text) \cup Numbers(more)
  BY <1>2 DEF Numbers
<1>6. Numbers(text) \subseteq Numbers(both)
  BY <1>1, <1>3 DEF Numbers
<1>7. Numbers(more) \subseteq Numbers(both)
  BY <1>1, <1>4 DEF Numbers
<1> QED
  BY <1>5, <1>6, <1>7 DEF both

\* Excerpts with the numbers of the one before those of the other are one excerpt.
LEMMA ExcerptOfBoth ==
  ASSUME NEW document, NEW text \in Texts, NEW more \in Texts,
         Excerpt(text, document), Excerpt(more, document),
         Precede(Numbers(text), Numbers(more))
  PROVE  Excerpt(text \o more, document)
<1> DEFINE both == text \o more
           n == Len(text)
<1>1. /\ n \in Nat /\ Len(more) \in Nat /\ Len(both) = n + Len(more)
      /\ \A i \in 1..n : both[i] = text[i]
      /\ \A i \in 1..Len(more) : both[n + i] = more[i]
  BY DEF Texts
<1> HIDE DEF both
<1>2. \A i \in 1..Len(both) : i \in 1..n \/ (i - n \in 1..Len(more) /\ i = n + (i - n))
  BY <1>1
<1>3. \A i \in 1..Len(both) : i \notin 1..n => both[i] = more[i - n]
  BY <1>1, <1>2
<1>4. ASSUME NEW i \in 1..Len(both)
      PROVE  both[i].number \in 1..Len(document) /\ both[i] = document[both[i].number]
  <2> HIDE DEF n
  <2>1. CASE i \in 1..n
    BY <1>1, <2>1 DEF Excerpt, n
  <2>2. CASE i \notin 1..n
    BY <1>2, <1>3, <2>2 DEF Excerpt
  <2> QED
    BY <2>1, <2>2
<1>5. ASSUME NEW i \in 1..Len(both), NEW k \in 1..Len(both), i < k
      PROVE  both[i].number < both[k].number
  <2> HIDE DEF n
  <2>1. CASE k \in 1..n
    <3>1. i \in 1..n
      BY <1>1, <1>5, <2>1
    <3> QED
      BY <1>1, <1>5, <2>1, <3>1 DEF Excerpt, n
  <2>2. CASE i \notin 1..n
    <3>1. k \notin 1..n /\ i - n < k - n
      BY <1>1, <1>5, <2>2
    <3> QED
      BY <1>2, <1>3, <2>2, <3>1 DEF Excerpt
  <2>3. CASE i \in 1..n /\ k \notin 1..n
    <3>1. text[i].number \in Numbers(text)
      BY <2>3 DEF Numbers, n
    <3>2. k - n \in 1..Len(more) /\ both[k] = more[k - n]
      BY <1>2, <1>3, <2>3
    <3>3. more[k - n].number \in Numbers(more)
      BY <3>2 DEF Numbers
    <3> QED
      BY <1>1, <2>3, <3>1, <3>2, <3>3 DEF Precede
  <2> QED
    BY <2>1, <2>2, <2>3
<1> QED
  BY <1>4, <1>5 DEF Excerpt, both

\* What is put together of the first lines, and then what is put together of later ones.
LEMMA Join ==
  ASSUME NEW document, NEW texts, NEW more, NEW seen, NEW new,
         Assembled(document, texts, seen), Assembled(document, more, new), Precede(seen, new)
  PROVE  Assembled(document, texts \o more, seen \cup new)
<1> DEFINE all == texts \o more
           n == Len(texts)
<1>1. texts \in Seq(Texts) /\ more \in Seq(Texts)
  BY DEF Assembled
<1>2. /\ all \in Seq(Texts) /\ n \in Nat /\ Len(more) \in Nat /\ Len(all) = n + Len(more)
      /\ \A i \in 1..n : all[i] = texts[i]
      /\ \A i \in 1..Len(more) : all[n + i] = more[i]
  BY <1>1
<1> HIDE DEF all
<1>3. \A i \in 1..Len(all) : i \in 1..n \/ (i - n \in 1..Len(more) /\ all[i] = more[i - n])
  <2>1. \A i \in 1..Len(all) : i \in 1..n \/ (i - n \in 1..Len(more) /\ i = n + (i - n))
    BY <1>2
  <2> QED
    BY <1>2, <2>1
<1>4. ASSUME NEW c \in 1..Len(all)
      PROVE  /\ Excerpt(all[c], document) /\ RowsFit(all[c])
             /\ Numbers(all[c]) \subseteq seen \cup new
  <2>1. CASE c \in 1..n
    BY <1>2, <2>1 DEF Assembled
  <2>2. CASE c \notin 1..n
    BY <1>3, <2>2 DEF Assembled
  <2> QED
    BY <2>1, <2>2
<1>5. ASSUME NEW c \in 1..Len(all), NEW d \in 1..Len(all), c < d PROVE Before(all[c], all[d])
  <2>1. CASE d \in 1..n
    <3>1. c \in 1..n
      BY <1>2, <1>5, <2>1
    <3> QED
      BY <1>2, <1>5, <2>1, <3>1 DEF Assembled
  <2>2. CASE c \notin 1..n
    <3>1. d \notin 1..n /\ c - n < d - n
      BY <1>2, <1>5, <2>2
    <3> QED
      BY <1>3, <2>2, <3>1 DEF Assembled
  <2>3. CASE c \in 1..n /\ d \notin 1..n
    <3>1. Numbers(all[c]) \subseteq seen
      BY <1>2, <2>3 DEF Assembled
    <3>2. Numbers(all[d]) \subseteq new
      BY <1>3, <2>3 DEF Assembled
    <3>3. Precede(Numbers(all[c]), Numbers(all[d]))
      BY <3>1, <3>2 DEF Precede
    <3> QED
      BY <3>3, TextsApart
  <2> QED
    BY <2>1, <2>2, <2>3
<1>6. ASSUME NEW i \in seen \cup new, ~IsBlank(document[i])
      PROVE  \E c \in 1..Len(all) : i \in Numbers(all[c])
  <2>1. CASE i \in seen
    <3>1. PICK c \in 1..n : i \in Numbers(texts[c])
      BY <1>6, <2>1 DEF Assembled
    <3>2. c \in 1..Len(all) /\ all[c] = texts[c]
      BY <1>2
    <3> QED
      BY <3>1, <3>2
  <2>2. CASE i \in new
    <3>1. PICK c \in 1..Len(more) : i \in Numbers(more[c])
      BY <1>6, <2>2 DEF Assembled
    <3>2. n + c \in 1..Len(all) /\ all[n + c] = more[c]
      BY <1>2
    <3> QED
      BY <3>1, <3>2
  <2> QED
    BY <1>6, <2>1, <2>2
<1>7. seen \cup new \subseteq 1..Len(document)
  BY DEF Assembled
<1> QED
  BY <1>2, <1>4, <1>5, <1>6, <1>7 DEF Assembled, all

\* A table that is whole on either side is whole on both.
LEMMA WholeJoin ==
  ASSUME NEW document, NEW texts \in Seq(Texts), NEW more \in Seq(Texts), NEW seen, NEW new,
         Whole(document, texts, seen), Whole(document, more, new)
  PROVE  Whole(document, texts \o more, seen \cup new)
<1> DEFINE all == texts \o more
<1>1. /\ \A c \in 1..Len(texts) : c \in 1..Len(all) /\ all[c] = texts[c]
      /\ \A c \in 1..Len(more) : Len(texts) + c \in 1..Len(all) /\ all[Len(texts) + c] = more[c]
  OBVIOUS
<1> HIDE DEF all
<1> SUFFICES ASSUME NEW first \in 1..Len(document), NEW last \in 1..Len(document),
                    Fitting(document, first, last), first \in seen \cup new
             PROVE  \E c \in 1..Len(all) : first..last \subseteq Numbers(all[c])
  BY DEF Whole, all
<1>2. CASE first \in seen
  <2>1. PICK c \in 1..Len(texts) : first..last \subseteq Numbers(texts[c])
    BY <1>2 DEF Whole
  <2> QED
    BY <1>1, <2>1
<1>3. CASE first \in new
  <2>1. PICK c \in 1..Len(more) : first..last \subseteq Numbers(more[c])
    BY <1>3 DEF Whole
  <2> QED
    BY <1>1, <2>1
<1> QED
  BY <1>2, <1>3

\* a single text
LEMMA OneText ==
  ASSUME NEW document, NEW text \in Texts, Excerpt(text, document), RowsFit(text)
  PROVE  Assembled(document, <<text>>, Numbers(text))
<1>1. <<text>> \in Seq(Texts) /\ Len(<<text>>) = 1 /\ <<text>>[1] = text
  OBVIOUS
<1>2. Numbers(text) \subseteq 1..Len(document)
  BY DEF Excerpt, Numbers
<1>3. \A c \in 1..1 : c = 1
  OBVIOUS
<1>4. 1 \in 1..1
  OBVIOUS
<1> QED
  BY <1>1, <1>2, <1>3, <1>4 DEF Assembled

\* Blank text holds blank lines.
LEMMA BlankNumbers ==
  ASSUME NEW document, NEW text, Excerpt(text, document), ~Says(text), NEW i \in Numbers(text)
  PROVE  IsBlank(document[i])
<1>1. PICK k \in 1..Len(text) : i = text[k].number
  BY DEF Numbers
<1>2. text[k] = document[i]
  BY <1>1 DEF Excerpt
<1> QED
  BY <1>2 DEF Says

\* A stretch that says something has a line that does.
LEMMA SaysWhat ==
  ASSUME NEW document \in Texts, NEW first \in 1..Len(document), NEW last \in 1..Len(document),
         first <= last, Says(SubSeq(document, first, last))
  PROVE  \E i \in first..last : ~IsBlank(document[i])
<1> DEFINE text == SubSeq(document, first, last)
<1>1. /\ Len(document) \in Nat /\ Len(text) = last - first + 1
      /\ \A k \in 1..Len(text) : text[k] = document[first + k - 1]
  BY DEF Texts
<1> HIDE DEF text
<1>2. PICK k \in 1..Len(text) : ~IsBlank(text[k])
  BY DEF Says, text
<1>3. first + k - 1 \in first..last /\ text[k] = document[first + k - 1]
  BY <1>1
<1> QED
  BY <1>2, <1>3

\* Blank text may be left out.
LEMMA LeaveOut ==
  ASSUME NEW document \in Texts, NEW texts \in Seq(Texts), NEW text \in Texts, NEW seen, ~Says(text)
  PROVE  /\ Assembled(document, Append(texts, text), seen) => Assembled(document, texts, seen)
         /\ Assembled(document, Append(texts, text), seen)
              /\ Whole(document, Append(texts, text), seen) => Whole(document, texts, seen)
<1> DEFINE all == Append(texts, text)
           n == Len(texts)
<1>1. /\ n \in Nat /\ Len(all) = n + 1 /\ all[n + 1] = text
      /\ \A c \in 1..n : c \in 1..Len(all) /\ all[c] = texts[c]
      /\ \A c \in 1..Len(all) : c \in 1..n \/ c = n + 1
  OBVIOUS
<1> HIDE DEF all
<1>2. ASSUME Assembled(document, all, seen) PROVE Assembled(document, texts, seen)
  <2>1. \A c \in 1..n :
          Excerpt(texts[c], document) /\ Numbers(texts[c]) \subseteq seen /\ RowsFit(texts[c])
    BY <1>1, <1>2 DEF Assembled
  <2>2. \A c, d \in 1..n : c < d => Before(texts[c], texts[d])
    BY <1>1, <1>2 DEF Assembled
  <2>3. ASSUME NEW i \in seen, ~IsBlank(document[i]) PROVE \E c \in 1..n : i \in Numbers(texts[c])
    <3>1. PICK c \in 1..Len(all) : i \in Numbers(all[c])
      BY <1>2, <2>3 DEF Assembled
    <3>2. c # n + 1
      BY <1>1, <1>2, <2>3, <3>1, BlankNumbers DEF Assembled
    <3> QED
      BY <1>1, <3>1, <3>2
  <2>4. seen \subseteq 1..Len(document)
    BY <1>2 DEF Assembled
  <2> QED
    BY <2>1, <2>2, <2>3, <2>4 DEF Assembled
<1>3. ASSUME Assembled(document, all, seen), Whole(document, all, seen)
      PROVE  Whole(document, texts, seen)
  <2>1. Excerpt(text, document)
    <3>1. n + 1 \in 1..Len(all)
      BY <1>1
    <3> QED
      BY <1>1, <1>3, <3>1 DEF Assembled
  <2> SUFFICES ASSUME NEW first \in 1..Len(document), NEW last \in 1..Len(document),
                      Fitting(document, first, last), first \in seen
               PROVE  \E c \in 1..n : first..last \subseteq Numbers(texts[c])
    BY DEF Whole
  <2>2. PICK c \in 1..Len(all) : first..last \subseteq Numbers(all[c])
    BY <1>3 DEF Whole
  <2>3. PICK i \in first..last : ~IsBlank(document[i])
    BY SaysWhat DEF Fitting
  <2>4. c # n + 1
    BY <1>1, <2>1, <2>2, <2>3, BlankNumbers
  <2> QED
    BY <1>1, <2>2, <2>4
<1> QED
  BY <1>2, <1>3 DEF all

\* Blank text may be put after what has been read later.
LEMMA PutBlank ==
  ASSUME NEW document, NEW texts \in Seq(Texts), NEW text \in Texts, NEW seen, ~Says(text),
         Excerpt(text, document), Numbers(text) \subseteq seen, RowsFit(text),
         Assembled(document, texts, seen), Whole(document, texts, seen)
  PROVE  /\ Assembled(document, Append(texts, text), seen)
         /\ Whole(document, Append(texts, text), seen)
<1> DEFINE all == Append(texts, text)
           n == Len(texts)
<1>1. /\ all \in Seq(Texts) /\ n \in Nat /\ Len(all) = n + 1 /\ all[n + 1] = text
      /\ \A c \in 1..n : c \in 1..Len(all) /\ all[c] = texts[c]
      /\ \A c \in 1..Len(all) : c \in 1..n \/ c = n + 1
  OBVIOUS
<1> HIDE DEF all
<1>2. \A c \in 1..Len(all) :
        Excerpt(all[c], document) /\ Numbers(all[c]) \subseteq seen /\ RowsFit(all[c])
  BY <1>1 DEF Assembled
<1>3. ASSUME NEW c \in 1..Len(all), NEW d \in 1..Len(all), c < d PROVE Before(all[c], all[d])
  <2>1. CASE c = n + 1 \/ d = n + 1
    BY <1>1, <2>1, BlankApart
  <2>2. CASE c # n + 1 /\ d # n + 1
    BY <1>1, <1>3, <2>2 DEF Assembled
  <2> QED
    BY <2>1, <2>2
<1>4. \A i \in seen : ~IsBlank(document[i]) => \E c \in 1..Len(all) : i \in Numbers(all[c])
  BY <1>1 DEF Assembled
<1>5. Assembled(document, all, seen)
  BY <1>1, <1>2, <1>3, <1>4 DEF Assembled
<1>6. Whole(document, all, seen)
  BY <1>1 DEF Whole
<1> QED
  BY <1>5, <1>6 DEF all

\* What comes before two texts comes before both together.
LEMMA BeforeBoth ==
  ASSUME NEW earlier, NEW text \in Texts, NEW more \in Texts,
         Before(earlier, text), Before(earlier, more)
  PROVE  Before(earlier, text \o more)
<1> DEFINE both == text \o more
           n == Len(text)
<1>1. /\ n \in Nat /\ Len(more) \in Nat /\ Len(both) = n + Len(more)
      /\ \A i \in 1..n : both[i] = text[i]
      /\ \A i \in 1..Len(more) : both[n + i] = more[i]
  BY DEF Texts
<1> HIDE DEF both
<1>2. \A i \in 1..Len(both) : i \in 1..n \/ (i - n \in 1..Len(more) /\ i = n + (i - n))
  BY <1>1
<1>3. \A i \in 1..Len(both) : i \notin 1..n => both[i] = more[i - n]
  BY <1>1, <1>2
<1>4. \A k \in 1..Len(both) : \/ \E i \in 1..n : both[k] = text[i]
                              \/ \E i \in 1..Len(more) : both[k] = more[i]
  BY <1>1, <1>2, <1>3
<1> QED
  BY <1>4 DEF Before, both

\* The next lines may be added to the last text.
LEMMA Extend ==
  ASSUME NEW document, NEW texts \in Seq(Texts), NEW text \in Texts, NEW more \in Texts, NEW seen,
         Assembled(document, Append(texts, text), seen), Excerpt(more, document),
         Precede(seen, Numbers(more)), RowsFit(text \o more)
  PROVE  Assembled(document, Append(texts, text \o more), seen \cup Numbers(more))
<1> DEFINE old == Append(texts, text)
           all == Append(texts, text \o more)
           n == Len(texts)
<1>1. /\ n \in Nat /\ Len(old) = n + 1 /\ old[n + 1] = text
      /\ \A c \in 1..n : c \in 1..Len(old) /\ old[c] = texts[c]
      /\ n + 1 \in 1..Len(old)
  OBVIOUS
<1>2. text \o more \in Texts
  BY DEF Texts
<1>3. /\ all \in Seq(Texts) /\ Len(all) = n + 1 /\ all[n + 1] = text \o more
      /\ \A c \in 1..n : c \in 1..Len(all) /\ all[c] = texts[c]
      /\ \A c \in 1..Len(all) : c \in 1..n \/ c = n + 1
      /\ n + 1 \in 1..Len(all)
  BY <1>2
<1> HIDE DEF old, all
<1>4. Excerpt(text, document) /\ Numbers(text) \subseteq seen
  BY <1>1 DEF Assembled, old
<1>5. Numbers(text \o more) = Numbers(text) \cup Numbers(more)
  BY NumbersOfBoth
<1>6. Excerpt(text \o more, document)
  <2>1. Precede(Numbers(text), Numbers(more))
    BY <1>4 DEF Precede
  <2> QED
    BY <1>4, <2>1, ExcerptOfBoth
<1>7. \A c \in 1..Len(all) : /\ Excerpt(all[c], document) /\ RowsFit(all[c])
                             /\ Numbers(all[c]) \subseteq seen \cup Numbers(more)
  <2>1. \A c \in 1..n :
          Excerpt(texts[c], document) /\ RowsFit(texts[c]) /\ Numbers(texts[c]) \subseteq seen
    BY <1>1 DEF Assembled, old
  <2> QED
    BY <1>3, <1>4, <1>5, <1>6, <2>1
<1>8. ASSUME NEW c \in 1..Len(all), NEW d \in 1..Len(all), c < d PROVE Before(all[c], all[d])
  <2>1. c \in 1..n
    BY <1>3, <1>8
  <2>2. CASE d \in 1..n
    BY <1>1, <1>3, <1>8, <2>1, <2>2 DEF Assembled, old
  <2>3. CASE d = n + 1
    <3>1. Before(texts[c], text)
      BY <1>1, <2>1 DEF Assembled, old
    <3>2. Before(texts[c], more)
      <4>1. Numbers(texts[c]) \subseteq seen
        BY <1>1, <2>1 DEF Assembled, old
      <4>2. Precede(Numbers(texts[c]), Numbers(more))
        BY <4>1 DEF Precede
      <4> QED
        BY <4>2, TextsApart
    <3>3. Before(texts[c], text \o more)
      BY <3>1, <3>2, BeforeBoth
    <3> QED
      BY <1>3, <2>1, <2>3, <3>3
  <2> QED
    BY <1>3, <2>2, <2>3
<1>9. ASSUME NEW i \in seen \cup Numbers(more), ~IsBlank(document[i])
      PROVE  \E c \in 1..Len(all) : i \in Numbers(all[c])
  <2>1. CASE i \in seen
    <3>1. PICK c \in 1..Len(old) : i \in Numbers(old[c])
      BY <1>9, <2>1 DEF Assembled, old
    <3> QED
      BY <1>1, <1>3, <1>5, <3>1
  <2>2. CASE i \in Numbers(more)
    BY <1>3, <1>5, <2>2
  <2> QED
    BY <1>9, <2>1, <2>2
<1>10. seen \cup Numbers(more) \subseteq 1..Len(document)
  BY DEF Assembled, Excerpt, Numbers
<1> QED
  BY <1>3, <1>7, <1>8, <1>9, <1>10 DEF Assembled, all

\* A table that is whole in a text is whole in the longer one.
LEMMA WholeExtend ==
  ASSUME NEW document, NEW texts \in Seq(Texts), NEW text \in Texts, NEW more \in Texts, NEW seen,
         Whole(document, Append(texts, text), seen),
         Whole(document, <<more>>, Numbers(more))
  PROVE  Whole(document, Append(texts, text \o more), seen \cup Numbers(more))
<1> DEFINE old == Append(texts, text)
           all == Append(texts, text \o more)
           n == Len(texts)
<1>1. /\ n \in Nat /\ Len(old) = n + 1 /\ old[n + 1] = text
      /\ \A c \in 1..n : old[c] = texts[c]
      /\ \A c \in 1..Len(old) : c \in 1..n \/ c = n + 1
  OBVIOUS
<1>2. text \o more \in Texts
  BY DEF Texts
<1>3. /\ all[n + 1] = text \o more
      /\ \A c \in 1..n : c \in 1..Len(all) /\ all[c] = texts[c]
      /\ n + 1 \in 1..Len(all)
  BY <1>2
<1>4. Numbers(text \o more) = Numbers(text) \cup Numbers(more)
  BY NumbersOfBoth
<1> HIDE DEF old, all
<1> SUFFICES ASSUME NEW first \in 1..Len(document), NEW last \in 1..Len(document),
                    Fitting(document, first, last), first \in seen \cup Numbers(more)
             PROVE  \E c \in 1..Len(all) : first..last \subseteq Numbers(all[c])
  BY DEF Whole, all
<1>5. CASE first \in seen
  <2>1. PICK c \in 1..Len(old) : first..last \subseteq Numbers(old[c])
    BY <1>5 DEF Whole, old
  <2> QED
    BY <1>1, <1>3, <1>4, <2>1
<1>6. CASE first \in Numbers(more)
  <2>1. PICK c \in 1..Len(<<more>>) : first..last \subseteq Numbers(<<more>>[c])
    BY <1>6 DEF Whole
  <2>2. <<more>>[c] = more
    OBVIOUS
  <2> QED
    BY <1>3, <1>4, <2>1, <2>2
<1> QED
  BY <1>5, <1>6

\* What fits is not too large.
LEMMA FitsTogether ==
  ASSUME NEW text \in Texts, NEW more \in Texts, Len(more) # 0, Fits(text, more), RowsFit(more)
  PROVE  RowsFit(text \o more)
<1>1. CASE text = <<>>
  <2>1. text \o more = more
    BY <1>1 DEF Texts
  <2> QED
    BY <2>1
<1>2. CASE text # <<>>
  <2>1. Len(text) # 0
    BY <1>2 DEF Texts
  <2>2. Size(text \o more) <= MaxChars
    BY <1>2, <2>1, SizeOfBoth DEF Fits
  <2> QED
    BY <2>2 DEF RowsFit
<1> QED
  BY <1>1, <1>2

\* an element is a sequence of one
LEMMA AppendOne ==
  ASSUME NEW X, NEW s \in Seq(X), NEW x \in X
  PROVE  Append(s, x) = s \o <<x>>
OBVIOUS

\* an item begins a new text
LEMMA Begin ==
  ASSUME NEW document, NEW texts, NEW seen, NEW more \in Texts,
         Assembled(document, texts, seen), Excerpt(more, document), RowsFit(more),
         Precede(seen, Numbers(more))
  PROVE  Assembled(document, Append(texts, more), seen \cup Numbers(more))
<1>1. texts \in Seq(Texts) /\ Append(texts, more) = texts \o <<more>>
  BY DEF Assembled
<1>2. Assembled(document, <<more>>, Numbers(more))
  BY OneText
<1> QED
  BY <1>1, <1>2, Join

\* no text, and nothing seen
LEMMA Empty ==
  ASSUME NEW document
  PROVE  /\ <<>> \in Texts /\ ~Says(<<>>) /\ Excerpt(<<>>, document) /\ RowsFit(<<>>)
         /\ Numbers(<<>>) = {}
         /\ Assembled(document, << <<>> >>, {}) /\ Append(<<>>, <<>>) = << <<>> >>
<1>1. <<>> \in Texts /\ Len(<<>>) = 0
  BY DEF Texts
<1>2. ~Says(<<>>) /\ Excerpt(<<>>, document) /\ RowsFit(<<>>) /\ Numbers(<<>>) = {}
  BY <1>1 DEF Says, Excerpt, RowsFit, Numbers
<1>3. Assembled(document, << <<>> >>, {})
  BY <1>1, <1>2, OneText
<1> QED
  BY <1>1, <1>2, <1>3

-----------------------------------------------------------------------------
(* SplitTableOnRows *)

Splitting == [pieces : Seq(Texts), current : Texts]

\* a turn of the loop over the rows keeps the types
LEMMA TakeRowType ==
  ASSUME NEW s \in Splitting, NEW row \in Lines
  PROVE  TakeRow(s, row) \in Splitting
<1>1. s.pieces \in Seq(Texts) /\ s.current \in Texts
  BY DEF Splitting
<1>2. /\ Append(s.current, row) \in Texts /\ <<row>> \in Texts
      /\ Append(s.pieces, s.current) \in Seq(Texts)
  BY <1>1 DEF Texts
<1> QED
  BY <1>1, <1>2 DEF TakeRow, Splitting

\* The rows are taken one after the other.
LEMMA SplitSteps ==
  ASSUME NEW block \in Texts, Len(block) # 0
  PROVE  \E f :
           /\ \A i \in 1..Len(block) : f[i] \in Splitting
           /\ \A i \in 1..Len(block) : f[i] = TakeRow(Previous(f, NoRows, i), block[i])
           /\ SplitTableOnRows(block)
                = IF Says(f[Len(block)].current)
                    THEN Append(f[Len(block)].pieces, f[Len(block)].current)
                    ELSE f[Len(block)].pieces
<1> DEFINE Step(s, i) == TakeRow(s, block[i])
           after[i \in 1..Len(block)] == Step(IF i = 1 THEN NoRows ELSE after[i - 1], i)
           Steps == {t \in (1..Len(block)) \X Splitting \X Splitting : t[3] = Step(t[2], t[1])}
<1>1. Len(block) \in Nat /\ block # <<>>
  BY DEF Texts
<1>2. ASSUME NEW i \in 1..Len(block), NEW s \in Splitting PROVE Step(s, i) \in Splitting
  <2> HIDE DEF after, Steps
  <2>1. block[i] \in Lines
    BY DEF Texts
  <2> QED
    BY <2>1, TakeRowType
<1> HIDE DEF Step
<1>3. NoRows \in Splitting
  BY Empty DEF NoRows, Splitting
<1>4. PICK f \in [1..Len(block) -> Splitting] :
        \A i \in 1..Len(block) : <<i, Previous(f, NoRows, i), f[i]>> \in Steps
  <2> HIDE DEF after
  <2>1. \A i \in 1..Len(block) : \A x \in Splitting : \E y \in Splitting : <<i, x, y>> \in Steps
    BY <1>2
  <2> HIDE DEF Steps
  <2> QED
    BY <1>1, <1>3, <2>1, RecursionExists, Zenon
<1>5. \A i \in 1..Len(block) : f[i] = Step(IF i = 1 THEN NoRows ELSE f[i - 1], i)
  <2> HIDE DEF after
  <2> QED
    BY <1>4 DEF Previous
<1>6. f = [i \in 1..Len(block) |-> Step(IF i = 1 THEN NoRows ELSE f[i - 1], i)]
  <2> HIDE DEF after
  <2> QED
    BY <1>4, <1>5
<1>7. after = [i \in 1..Len(block) |-> Step(IF i = 1 THEN NoRows ELSE after[i - 1], i)]
  BY <1>6
<1>8. SplitTableOnRows(block)
        = IF Says(after[Len(block)].current)
            THEN Append(after[Len(block)].pieces, after[Len(block)].current)
            ELSE after[Len(block)].pieces
  BY <1>1 DEF SplitTableOnRows, LastPiece, WithCurrent, AllRows, Step
<1> HIDE DEF after
<1>9. \A i \in 1..Len(block) : after[i] = Step(Previous(after, NoRows, i), i)
  BY <1>7 DEF Previous
<1>10. \A i \in 1..Len(block) : after[i] \in Splitting
  <2>1. \A i \in 1..Len(block) : Previous(after, NoRows, i) \in Splitting => after[i] \in Splitting
    BY <1>2, <1>9
  <2> QED
    BY <1>1, <1>3, <2>1, RecursionType
<1> QED
  BY <1>8, <1>9, <1>10 DEF Step

\* one more row
LEMMA RowAssembled ==
  ASSUME NEW document, NEW s \in Splitting, NEW row \in Lines, NEW seen,
         Assembled(document, Append(s.pieces, s.current), seen),
         Excerpt(<<row>>, document), Precede(seen, {row.number})
  PROVE  Assembled(document, Append(TakeRow(s, row).pieces, TakeRow(s, row).current),
                   seen \cup {row.number})
<1>1. s.pieces \in Seq(Texts) /\ s.current \in Texts
  BY DEF Splitting
<1>2. <<row>> \in Texts /\ Len(<<row>>) = 1 /\ Numbers(<<row>>) = {row.number}
  BY DEF Texts, Numbers
<1>3. RowsFit(<<row>>)
  BY <1>2 DEF RowsFit
<1>4. CASE Fits(s.current, <<row>>)
  <2>1. TakeRow(s, row) = [s EXCEPT !.current = Append(@, row)]
    BY <1>4 DEF TakeRow
  <2>2. TakeRow(s, row).pieces = s.pieces /\ TakeRow(s, row).current = Append(s.current, row)
    BY <2>1 DEF Splitting
  <2>3. Append(s.current, row) = s.current \o <<row>>
    BY <1>1, AppendOne DEF Texts
  <2>4. RowsFit(s.current \o <<row>>)
    <3>1. Len(<<row>>) # 0
      BY <1>2
    <3> QED
      BY <1>1, <1>2, <1>3, <1>4, <3>1, FitsTogether, Zenon
  <2>5. Assembled(document, Append(s.pieces, s.current \o <<row>>), seen \cup Numbers(<<row>>))
    BY <1>1, <1>2, <2>4, Extend
  <2> QED
    BY <1>2, <2>2, <2>3, <2>5
<1>5. CASE ~Fits(s.current, <<row>>)
  <2>1. TakeRow(s, row) = [s EXCEPT !.current = <<row>>, !.pieces = Append(@, s.current)]
    BY <1>5 DEF TakeRow
  <2>2. /\ TakeRow(s, row).pieces = Append(s.pieces, s.current)
        /\ TakeRow(s, row).current = <<row>>
    BY <2>1 DEF Splitting
  <2>3. Assembled(document, Append(Append(s.pieces, s.current), <<row>>),
                  seen \cup Numbers(<<row>>))
    BY <1>2, <1>3, Begin
  <2> QED
    BY <1>2, <2>2, <2>3
<1> QED
  BY <1>4, <1>5

\* The pieces of a table hold its rows.
LEMMA SplitAssembled ==
  ASSUME NEW document \in Texts, NEW block \in Texts, Len(block) # 0, Excerpt(block, document)
  PROVE  /\ Assembled(document, SplitTableOnRows(block), Numbers(block))
         /\ SplitTableOnRows(block) \in Seq(Texts)
<1> DEFINE n == Len(block)
           Seen(i) == {block[k].number : k \in 1..i}
<1>1. n \in Nat /\ \A i \in 1..n : block[i] \in Lines
  BY DEF Texts
<1>2. PICK f :
        /\ \A i \in 1..n : f[i] \in Splitting
        /\ \A i \in 1..n : f[i] = TakeRow(Previous(f, NoRows, i), block[i])
        /\ SplitTableOnRows(block) = IF Says(f[n].current) THEN Append(f[n].pieces, f[n].current)
                                     ELSE f[n].pieces
  BY SplitSteps
<1> DEFINE State(i) == Previous(f, NoRows, i + 1)
           S == {i \in 0..n :
                   Assembled(document, Append(State(i).pieces, State(i).current), Seen(i))}
<1> HIDE DEF n
<1>3. 0 \in S
  <2>1. State(0) = NoRows /\ Seen(0) = {}
    BY DEF Previous
  <2>2. NoRows.pieces = <<>> /\ NoRows.current = <<>>
    BY DEF NoRows
  <2>3. Assembled(document, Append(State(0).pieces, State(0).current), Seen(0))
    <3> HIDE DEF State, Seen
    <3> QED
      BY <2>1, <2>2, Empty, Zenon
  <2> QED
    BY <1>1, <2>3
<1>4. ASSUME NEW i \in 0..n, i \in S, i < n PROVE i + 1 \in S
  <2>1. i + 1 \in 1..n /\ (i + 1) + 1 # 1 /\ ((i + 1) + 1) - 1 = i + 1 /\ i + 1 \in 0..n
    BY <1>1, <1>4
  <2>2. State(i + 1) = TakeRow(State(i), block[i + 1])
    BY <1>2, <2>1 DEF Previous
  <2>3. State(i) \in Splitting
    <3>1. NoRows \in Splitting
      BY Empty DEF NoRows, Splitting
    <3>2. i # 0 => i \in 1..n /\ (i + 1) - 1 = i
      BY <1>1
    <3> QED
      BY <1>1, <1>2, <3>1, <3>2 DEF Previous
  <2>4. PICK row \in Lines : row = block[i + 1]
    BY <1>1, <2>1
  <2>5. Excerpt(<<row>>, document)
    BY <2>1, <2>4 DEF Excerpt, n
  <2>6. Precede(Seen(i), {row.number})
    <3>1. \A k \in 1..i : k \in 1..n /\ k < i + 1
      BY <1>1, <2>1
    <3>2. \A k \in 1..i : block[k].number < row.number
      BY <2>1, <2>4, <3>1 DEF Excerpt, n
    <3> QED
      BY <3>2 DEF Precede
  <2>7. Seen(i + 1) = Seen(i) \cup {row.number}
    <3>1. \A k : k \in 1..(i + 1) <=> k \in 1..i \/ k = i + 1
      BY <1>1
    <3> QED
      BY <2>4, <3>1
  <2>8. Assembled(document, Append(State(i).pieces, State(i).current), Seen(i))
    BY <1>4
  <2> HIDE DEF State, Seen
  <2>9. Assembled(document, Append(TakeRow(State(i), row).pieces, TakeRow(State(i), row).current),
                  Seen(i) \cup {row.number})
    BY <2>3, <2>5, <2>6, <2>8, RowAssembled
  <2> QED
    BY <2>1, <2>2, <2>4, <2>7, <2>9
<1>5. n \in S
  <2>1. \A i \in 0..n : i \in S
    <3> HIDE DEF S
    <3> QED
      BY <1>1, <1>3, <1>4, BoundedInduction
  <2> HIDE DEF S
  <2> QED
    BY <1>1, <2>1
<1>6. State(n) = f[n] /\ f[n] \in Splitting /\ Seen(n) = Numbers(block)
  BY <1>1, <1>2 DEF Previous, Numbers, n
<1>7. Assembled(document, Append(f[n].pieces, f[n].current), Numbers(block))
  BY <1>5, <1>6
<1>8. f[n].pieces \in Seq(Texts) /\ f[n].current \in Texts
  BY <1>6 DEF Splitting
<1>9. Assembled(document, SplitTableOnRows(block), Numbers(block))
  BY <1>2, <1>7, <1>8, LeaveOut
<1> QED
  BY <1>9 DEF Assembled

-----------------------------------------------------------------------------
(* Blocks *)

\* a block with a line of a table is a table of the document, whole
OneKind(document, block) ==
  TableBlock(block) =>
    \E first, last \in 1..Len(document) :
      first <= last /\ block = SubSeq(document, first, last) /\ IsTable(document, first, last)

\* blocks that the first m lines of the document are cut into
Cut(document, blocks, m) ==
  /\ blocks \in Seq(Texts)
  /\ \A i \in 1..Len(blocks) :
       /\ Len(blocks[i]) # 0 /\ Excerpt(blocks[i], document) /\ OneKind(document, blocks[i])
       /\ Numbers(blocks[i]) \subseteq 1..m
  /\ \A i, k \in 1..Len(blocks) : i < k => Precede(Numbers(blocks[i]), Numbers(blocks[k]))
  /\ \A n \in 1..m : \E i \in 1..Len(blocks) : n \in Numbers(blocks[i])

\* what a stretch of the document is
LEMMA Stretch ==
  ASSUME NEW document \in Documents, NEW first \in Nat \ {0}, NEW last \in 1..Len(document),
         first <= last
  PROVE  /\ SubSeq(document, first, last) \in Texts
         /\ Len(SubSeq(document, first, last)) # 0
         /\ Excerpt(SubSeq(document, first, last), document)
         /\ Numbers(SubSeq(document, first, last)) = first..last
         /\ TableBlock(SubSeq(document, first, last))
              <=> \E n \in first..last : IsTableLine(document[n])
<1> DEFINE text == SubSeq(document, first, last)
<1>1. /\ document \in Seq(Lines) /\ Len(document) \in Nat
      /\ \A n \in 1..Len(document) : document[n].number = n
  BY DEF Documents
<1>2. /\ text \in Seq(Lines) /\ Len(text) = last - first + 1
      /\ \A i \in 1..Len(text) : text[i] = document[first + i - 1]
  BY <1>1
<1> HIDE DEF text
<1>3. \A i \in 1..Len(text) : first + i - 1 \in first..last /\ first + i - 1 \in 1..Len(document)
  BY <1>1, <1>2
<1>4. \A n \in first..last : n - first + 1 \in 1..Len(text) /\ first + (n - first + 1) - 1 = n
  BY <1>1, <1>2
<1>5. \A i \in 1..Len(text) : text[i].number = first + i - 1
  BY <1>1, <1>2, <1>3
<1>6. Numbers(text) = first..last
  <2>1. Numbers(text) \subseteq first..last
    BY <1>3, <1>5 DEF Numbers
  <2>2. ASSUME NEW n \in first..last PROVE n \in Numbers(text)
    <3>1. n - first + 1 \in 1..Len(text) /\ text[n - first + 1].number = n
      BY <1>4, <1>5
    <3> QED
      BY <3>1 DEF Numbers
  <2> QED
    BY <2>1, <2>2
<1>7. Excerpt(text, document)
  <2>1. \A i \in 1..Len(text) :
          text[i].number \in 1..Len(document) /\ text[i] = document[text[i].number]
    BY <1>2, <1>3, <1>5
  <2>2. \A i, k \in 1..Len(text) : i < k => text[i].number < text[k].number
    BY <1>2, <1>5
  <2> QED
    BY <2>1, <2>2 DEF Excerpt
<1>8. TableBlock(text) <=> \E n \in first..last : IsTableLine(document[n])
  <2>1. ASSUME TableBlock(text) PROVE \E n \in first..last : IsTableLine(document[n])
    <3>1. PICK i \in 1..Len(text) : IsTableLine(text[i])
      BY <2>1 DEF TableBlock
    <3>2. first + i - 1 \in first..last /\ IsTableLine(document[first + i - 1])
      BY <1>2, <1>3, <3>1
    <3> QED
      BY <3>2
  <2>2. ASSUME NEW n \in first..last, IsTableLine(document[n]) PROVE TableBlock(text)
    <3>1. n - first + 1 \in 1..Len(text) /\ text[n - first + 1] = document[n]
      BY <1>2, <1>4
    <3> QED
      BY <2>2, <3>1 DEF TableBlock
  <2> QED
    BY <2>1, <2>2
<1>9. Len(text) # 0
  BY <1>1, <1>2
<1> QED
  BY <1>2, <1>6, <1>7, <1>8, <1>9 DEF text, Texts

\* The next lines are a block: a table, or text without one.
LEMMA CutMore ==
  ASSUME NEW document \in Documents, NEW blocks, NEW m \in Nat, NEW n \in 1..Len(document), m < n,
         Cut(document, blocks, m),
         (\E k \in (m + 1)..n : IsTableLine(document[k])) => IsTable(document, m + 1, n)
  PROVE  Cut(document, Append(blocks, SubSeq(document, m + 1, n)), n)
<1> DEFINE block == SubSeq(document, m + 1, n)
           all == Append(blocks, block)
           l == Len(blocks)
<1>1. n \in Nat /\ Len(document) \in Nat /\ m + 1 \in Nat \ {0} /\ m + 1 \in 1..Len(document)
      /\ m + 1 <= n
  BY DEF Documents
<1>2. /\ block \in Texts /\ Len(block) # 0 /\ Excerpt(block, document)
      /\ Numbers(block) = (m + 1)..n
      /\ TableBlock(block) <=> \E k \in (m + 1)..n : IsTableLine(document[k])
  BY <1>1, Stretch
<1>3. OneKind(document, block)
  BY <1>1, <1>2 DEF OneKind
<1> HIDE DEF block
<1>4. blocks \in Seq(Texts)
  BY DEF Cut
<1>5. /\ all \in Seq(Texts) /\ l \in Nat /\ Len(all) = l + 1 /\ all[l + 1] = block
      /\ \A i \in 1..l : i \in 1..Len(all) /\ all[i] = blocks[i]
      /\ \A i \in 1..Len(all) : i \in 1..l \/ i = l + 1
      /\ l + 1 \in 1..Len(all)
  BY <1>2, <1>4
<1> HIDE DEF all
<1>6. ASSUME NEW i \in 1..Len(all)
      PROVE  /\ Len(all[i]) # 0 /\ Excerpt(all[i], document) /\ OneKind(document, all[i])
             /\ Numbers(all[i]) \subseteq 1..n
  <2>1. CASE i \in 1..l
    <3>1. Numbers(blocks[i]) \subseteq 1..m
      BY <2>1 DEF Cut
    <3>2. 1..m \subseteq 1..n
      BY <1>1
    <3> QED
      BY <1>5, <2>1, <3>1, <3>2 DEF Cut
  <2>2. CASE i = l + 1
    <3>1. (m + 1)..n \subseteq 1..n
      BY <1>1
    <3> QED
      BY <1>2, <1>3, <1>5, <2>2, <3>1
  <2> QED
    BY <1>5, <2>1, <2>2
<1>7. ASSUME NEW i \in 1..Len(all), NEW k \in 1..Len(all), i < k
      PROVE  Precede(Numbers(all[i]), Numbers(all[k]))
  <2>1. i \in 1..l
    BY <1>5, <1>7
  <2>2. CASE k \in 1..l
    BY <1>5, <1>7, <2>1, <2>2 DEF Cut
  <2>3. CASE k = l + 1
    <3>1. Numbers(all[i]) \subseteq 1..m
      BY <1>5, <2>1 DEF Cut
    <3> QED
      BY <1>1, <1>2, <1>5, <2>3, <3>1 DEF Precede
  <2> QED
    BY <1>5, <2>2, <2>3
<1>8. ASSUME NEW k \in 1..n PROVE \E i \in 1..Len(all) : k \in Numbers(all[i])
  <2>1. CASE k \in 1..m
    BY <1>5, <2>1 DEF Cut
  <2>2. CASE k \notin 1..m
    <3>1. k \in (m + 1)..n
      BY <1>1, <2>2
    <3> QED
      BY <1>2, <1>5, <3>1
  <2> QED
    BY <2>1, <2>2
<1> QED
  BY <1>5, <1>6, <1>7, <1>8 DEF Cut, all, block

Cutting == [blocks : Seq(Texts), buffer : Texts, in_table : BOOLEAN]

\* After n lines: the buffer holds those from the m-th on that are not in a block yet, all
\* of one kind.
Taken(document, s, n, m) ==
  /\ Cut(document, s.blocks, m) /\ s.buffer = SubSeq(document, m + 1, n)
  /\ \A k \in (m + 1)..n : IsTableLine(document[k]) <=> s.in_table
  /\ s.in_table => m < n /\ (m # 0 => ~IsTableLine(document[m]))
  /\ ~s.in_table => (n # 0 => ~IsTableLine(document[n]))

\* what a turn of the loop does with the line
LEMMA TakeLineCases ==
  ASSUME NEW s \in Cutting, NEW line \in Lines
  PROVE  LET next == TakeLine(s, line)
         IN  /\ next.in_table <=> IsTableLine(line)
             /\ next.in_table \in BOOLEAN
             /\ (IsTableLine(line) <=> s.in_table) =>
                  \/ next.blocks = s.blocks /\ next.buffer = Append(s.buffer, line)
                  \/ /\ next.blocks = Append(s.blocks, Append(s.buffer, line))
                     /\ next.buffer = <<>> /\ ~s.in_table
             /\ ~(IsTableLine(line) <=> s.in_table) =>
                  /\ next.buffer = <<line>>
                  /\ next.blocks = IF s.buffer = <<>> THEN s.blocks ELSE Append(s.blocks, s.buffer)
<1> DEFINE edge == IsTableLine(line) # s.in_table
           here == IF edge /\ s.buffer # <<>> THEN Flushed(s) ELSE s
           taken == [blocks |-> here.blocks, buffer |-> Append(here.buffer, line),
                     in_table |-> IsTableLine(line)]
           full == ~edge /\ ~IsTableLine(line) /\ IsBlank(line) /\ Size(taken.buffer) >= MaxChars
<1>1. TakeLine(s, line) = IF full THEN Flushed(taken) ELSE taken
  BY DEF TakeLine
<1>2. IsTableLine(line) \in BOOLEAN /\ s.in_table \in BOOLEAN
  BY DEF IsTableLine, Cutting
<1>3. edge <=> ~(IsTableLine(line) <=> s.in_table)
  BY <1>2, Zenon
<1>4. Flushed(s).blocks = Append(s.blocks, s.buffer) /\ Flushed(s).buffer = <<>>
  BY Zenon DEF Flushed
<1> HIDE DEF edge
<1>5. /\ edge => here.buffer = <<>>
      /\ edge => here.blocks = IF s.buffer = <<>> THEN s.blocks ELSE Append(s.blocks, s.buffer)
      /\ ~edge => here = s
  BY <1>4, Zenon
<1> HIDE DEF here
<1>6. /\ taken.blocks = here.blocks /\ taken.buffer = Append(here.buffer, line)
      /\ taken.in_table = IsTableLine(line)
  BY Zenon
<1> HIDE DEF taken
<1>7. /\ Flushed(taken).blocks = Append(taken.blocks, taken.buffer) /\ Flushed(taken).buffer = <<>>
      /\ Flushed(taken).in_table = taken.in_table
  BY Zenon DEF Flushed
<1>8. CASE full
  <2>1. ~edge /\ ~IsTableLine(line)
    BY <1>8
  <2> HIDE DEF full
  <2>2. /\ TakeLine(s, line).blocks = Append(s.blocks, Append(s.buffer, line))
        /\ TakeLine(s, line).buffer = <<>>
        /\ TakeLine(s, line).in_table = IsTableLine(line)
    BY <1>1, <1>5, <1>6, <1>7, <1>8, <2>1, Zenon
  <2> QED
    BY <1>2, <1>3, <2>1, <2>2, Zenon
<1>9. CASE ~full
  <2> HIDE DEF full
  <2>1. /\ TakeLine(s, line).blocks = here.blocks
        /\ TakeLine(s, line).buffer = Append(here.buffer, line)
        /\ TakeLine(s, line).in_table = IsTableLine(line)
    BY <1>1, <1>6, <1>9, Zenon
  <2>2. CASE edge
    <3>1. Append(<<>>, line) = <<line>>
      OBVIOUS
    <3> QED
      BY <1>2, <1>3, <1>5, <2>1, <2>2, <3>1, Zenon
  <2>3. CASE ~edge
    BY <1>2, <1>3, <1>5, <2>1, <2>3, Zenon
  <2> QED
    BY <2>2, <2>3
<1> QED
  BY <1>8, <1>9

\* a turn of the loop over the lines keeps the types
LEMMA TakeLineType ==
  ASSUME NEW s \in Cutting, NEW line \in Lines
  PROVE  TakeLine(s, line) \in Cutting
<1>1. <<>> \in Texts /\ IsTableLine(line) \in BOOLEAN
  BY Empty DEF IsTableLine
<1>2. ASSUME NEW t \in Cutting
      PROVE  t.blocks \in Seq(Texts) /\ t.buffer \in Texts /\ t.in_table \in BOOLEAN
  BY Zenon DEF Cutting
<1>3. ASSUME NEW t \in Cutting PROVE Flushed(t) \in Cutting
  <2>1. Append(t.blocks, t.buffer) \in Seq(Texts)
    BY <1>2
  <2> QED
    BY <1>1, <1>2, <2>1, Zenon DEF Flushed, Cutting
<1>4. ASSUME NEW t \in Cutting
      PROVE  [blocks |-> t.blocks, buffer |-> Append(t.buffer, line),
              in_table |-> IsTableLine(line)] \in Cutting
  <2>1. t.buffer \in Texts
    BY <1>2
  <2>2. Append(t.buffer, line) \in Texts
    BY <2>1 DEF Texts
  <2> QED
    BY <1>1, <1>2, <2>2, Zenon DEF Cutting
<1> QED
  BY <1>3, <1>4, Zenon DEF TakeLine

\* The lines are taken one after the other.
LEMMA BlockSteps ==
  ASSUME NEW document \in Documents, Len(document) # 0
  PROVE  \E f :
           /\ \A i \in 1..Len(document) : f[i] \in Cutting
           /\ \A i \in 1..Len(document) : f[i] = TakeLine(Previous(f, NoLines, i), document[i])
           /\ Blocks(document)
                = IF f[Len(document)].buffer = <<>> THEN f[Len(document)].blocks
                  ELSE Append(f[Len(document)].blocks, f[Len(document)].buffer)
<1> DEFINE Step(s, i) == TakeLine(s, document[i])
           after[i \in 1..Len(document)] == Step(IF i = 1 THEN NoLines ELSE after[i - 1], i)
           Steps == {t \in (1..Len(document)) \X Cutting \X Cutting : t[3] = Step(t[2], t[1])}
<1>1. Len(document) \in Nat /\ document # <<>> /\ document \in Seq(Lines)
  BY DEF Documents
<1>2. ASSUME NEW i \in 1..Len(document), NEW s \in Cutting PROVE Step(s, i) \in Cutting
  <2> HIDE DEF after, Steps
  <2>1. document[i] \in Lines
    BY <1>1
  <2> QED
    BY <2>1, TakeLineType
<1> HIDE DEF Step
<1>3. NoLines \in Cutting
  BY Empty DEF NoLines, Cutting
<1>4. PICK f \in [1..Len(document) -> Cutting] :
        \A i \in 1..Len(document) : <<i, Previous(f, NoLines, i), f[i]>> \in Steps
  <2> HIDE DEF after
  <2>1. \A i \in 1..Len(document) : \A x \in Cutting : \E y \in Cutting : <<i, x, y>> \in Steps
    BY <1>2
  <2> HIDE DEF Steps
  <2> QED
    BY <1>1, <1>3, <2>1, RecursionExists, Zenon
<1>5. \A i \in 1..Len(document) : f[i] = Step(IF i = 1 THEN NoLines ELSE f[i - 1], i)
  <2> HIDE DEF after
  <2> QED
    BY <1>4 DEF Previous
<1>6. f = [i \in 1..Len(document) |-> Step(IF i = 1 THEN NoLines ELSE f[i - 1], i)]
  <2> HIDE DEF after
  <2> QED
    BY <1>4, <1>5
<1>7. after = [i \in 1..Len(document) |-> Step(IF i = 1 THEN NoLines ELSE after[i - 1], i)]
  BY <1>6
<1>8. Blocks(document)
        = IF after[Len(document)].buffer = <<>> THEN after[Len(document)].blocks
          ELSE Append(after[Len(document)].blocks, after[Len(document)].buffer)
  BY <1>1 DEF Blocks, WithBuffer, AllLines, Step
<1> HIDE DEF after
<1>9. \A i \in 1..Len(document) : after[i] = Step(Previous(after, NoLines, i), i)
  BY <1>7 DEF Previous
<1>10. \A i \in 1..Len(document) : after[i] \in Cutting
  <2>1. \A i \in 1..Len(document) : Previous(after, NoLines, i) \in Cutting => after[i] \in Cutting
    BY <1>2, <1>9
  <2> QED
    BY <1>1, <1>3, <2>1, RecursionType
<1> QED
  BY <1>8, <1>9, <1>10 DEF Step

\* a text of no lines
LEMMA NoText ==
  ASSUME NEW X, NEW text \in Seq(X)
  PROVE  text = <<>> <=> Len(text) = 0
OBVIOUS

\* A stretch grows by the line that follows it.
LEMMA NextOfStretch ==
  ASSUME NEW document \in Documents, NEW n \in Nat, n < Len(document), NEW m \in 0..n
  PROVE  /\ Append(SubSeq(document, m + 1, n), document[n + 1]) = SubSeq(document, m + 1, n + 1)
         /\ << document[n + 1] >> = SubSeq(document, n + 1, n + 1)
         /\ SubSeq(document, (n + 1) + 1, n + 1) = <<>>
         /\ SubSeq(document, m + 1, n) = <<>> <=> m = n
<1>1. document \in Seq(Lines) /\ Len(document) \in Nat
  BY DEF Documents
<1>2. Append(SubSeq(document, m + 1, n), document[n + 1]) = SubSeq(document, m + 1, n + 1)
  BY <1>1
<1>3. << document[n + 1] >> = SubSeq(document, n + 1, n + 1)
  BY <1>1
<1>4. SubSeq(document, (n + 1) + 1, n + 1) = <<>>
  BY <1>1
<1>5. Len(SubSeq(document, m + 1, n)) = n - m /\ SubSeq(document, m + 1, n) \in Seq(Lines)
  BY <1>1
<1>6. SubSeq(document, m + 1, n) = <<>> <=> m = n
  BY <1>5, NoText
<1> QED
  BY <1>2, <1>3, <1>4, <1>6

\* one more line
LEMMA LineTaken ==
  ASSUME NEW document \in Documents, NEW n \in Nat, n < Len(document), NEW s \in Cutting,
         NEW m \in 0..n, Taken(document, s, n, m)
  PROVE  \E k \in 0..(n + 1) : Taken(document, TakeLine(s, document[n + 1]), n + 1, k)
<1> DEFINE line == document[n + 1]
           next == TakeLine(s, line)
<1>1. Len(document) \in Nat /\ m \in Nat /\ m <= n /\ n + 1 \in 1..Len(document) /\ line \in Lines
  BY DEF Documents
<1>2. /\ next.in_table <=> IsTableLine(line)
      /\ (IsTableLine(line) <=> s.in_table) =>
           \/ next.blocks = s.blocks /\ next.buffer = Append(s.buffer, line)
           \/ /\ next.blocks = Append(s.blocks, Append(s.buffer, line))
              /\ next.buffer = <<>> /\ ~s.in_table
      /\ ~(IsTableLine(line) <=> s.in_table) =>
           /\ next.buffer = <<line>>
           /\ next.blocks = IF s.buffer = <<>> THEN s.blocks ELSE Append(s.blocks, s.buffer)
  BY <1>1, TakeLineCases
<1> HIDE DEF next
<1>3. /\ Append(s.buffer, line) = SubSeq(document, m + 1, n + 1)
      /\ <<line>> = SubSeq(document, n + 1, n + 1)
      /\ SubSeq(document, (n + 1) + 1, n + 1) = <<>>
      /\ s.buffer = <<>> <=> m = n
  <2>1. s.buffer = SubSeq(document, m + 1, n)
    BY DEF Taken
  <2> HIDE DEF line
  <2> QED
    BY <2>1, NextOfStretch, ZenonT(40) DEF line
<1>4. /\ Cut(document, s.blocks, m) /\ s.buffer = SubSeq(document, m + 1, n)
      /\ \A k \in (m + 1)..n : IsTableLine(document[k]) <=> s.in_table
      /\ s.in_table => m < n /\ (m # 0 => ~IsTableLine(document[m]))
      /\ ~s.in_table => (n # 0 => ~IsTableLine(document[n]))
  BY Zenon DEF Taken
<1>5. \A k \in (m + 1)..(n + 1) : k \in (m + 1)..n \/ k = n + 1
  BY <1>1
<1>6. CASE (IsTableLine(line) <=> s.in_table) /\ next.blocks = s.blocks
             /\ next.buffer = Append(s.buffer, line)
  <2>1. \A k \in (m + 1)..(n + 1) : IsTableLine(document[k]) <=> next.in_table
    BY <1>2, <1>4, <1>5, <1>6, Zenon
  <2>2. s.in_table => m < n + 1
    BY <1>1, <1>4
  <2>3. Taken(document, next, n + 1, m)
    BY <1>2, <1>3, <1>4, <1>6, <2>1, <2>2, Zenon DEF Taken
  <2>4. m \in 0..(n + 1)
    BY <1>1
  <2> QED
    BY <2>3, <2>4 DEF next
<1>7. CASE (IsTableLine(line) <=> s.in_table) /\ next.buffer = <<>> /\ ~s.in_table
             /\ next.blocks = Append(s.blocks, Append(s.buffer, line))
  <2>1. \A k \in (m + 1)..(n + 1) : ~IsTableLine(document[k])
    BY <1>4, <1>5, <1>7, Zenon
  <2>2. Cut(document, Append(s.blocks, SubSeq(document, m + 1, n + 1)), n + 1)
    <3>1. m < n + 1
      BY <1>1
    <3> QED
      BY <1>1, <1>4, <2>1, <3>1, CutMore
  <2>3. \A k \in ((n + 1) + 1)..(n + 1) : IsTableLine(document[k]) <=> next.in_table
    BY <1>1
  <2>4. Taken(document, next, n + 1, n + 1)
    BY <1>2, <1>3, <1>7, <2>2, <2>3, Zenon DEF Taken
  <2>5. n + 1 \in 0..(n + 1)
    OBVIOUS
  <2> QED
    BY <2>4, <2>5 DEF next
<1>8. CASE ~(IsTableLine(line) <=> s.in_table)
  <2>1. next.buffer = SubSeq(document, n + 1, n + 1)
    BY <1>2, <1>3, <1>8
  <2>2. Cut(document, next.blocks, n)
    <3>1. CASE m = n
      BY <1>2, <1>3, <1>4, <1>8, <3>1
    <3>2. CASE m # n
      <4>1. next.blocks = Append(s.blocks, SubSeq(document, m + 1, n))
        BY <1>2, <1>3, <1>4, <1>8, <3>2
      <4>2. n \in 1..Len(document) /\ m < n
        BY <1>1, <3>2
      <4>3. ASSUME NEW k \in (m + 1)..n, IsTableLine(document[k])
            PROVE  IsTable(document, m + 1, n)
        <5>1. s.in_table /\ ~IsTableLine(line)
          BY <1>4, <1>8, <4>3, Zenon
        <5>2. \A i \in (m + 1)..n : IsTableLine(document[i])
          BY <1>4, <5>1, Zenon
        <5>3. m # 0 => ~IsTableLine(document[m])
          BY <1>4, <5>1, Zenon
        <5>4. \A i \in {(m + 1) - 1, n + 1} \cap (1..Len(document)) : i = n + 1 \/ (i = m /\ m # 0)
          BY <1>1
        <5> QED
          BY <5>1, <5>2, <5>3, <5>4 DEF IsTable
      <4> QED
        BY <1>1, <1>4, <4>1, <4>2, <4>3, CutMore
    <3> QED
      BY <3>1, <3>2
  <2>3. \A k \in (n + 1)..(n + 1) : IsTableLine(document[k]) <=> next.in_table
    <3>1. \A k \in (n + 1)..(n + 1) : k = n + 1
      OBVIOUS
    <3> QED
      BY <1>2, <3>1, Zenon
  <2>4. n < n + 1 /\ n \in 0..(n + 1)
    OBVIOUS
  <2>5. next.in_table => (n # 0 => ~IsTableLine(document[n]))
    BY <1>2, <1>4, <1>8, Zenon
  <2>6. Taken(document, next, n + 1, n)
    BY <1>2, <2>1, <2>2, <2>3, <2>4, <2>5, Zenon DEF Taken
  <2> QED
    BY <2>4, <2>6 DEF next
<1> QED
  BY <1>2, <1>6, <1>7, <1>8

\* before the first line
LEMMA NothingCut ==
  ASSUME NEW document
  PROVE  Cut(document, <<>>, 0)
<1>1. <<>> \in Seq(Texts) /\ Len(<<>>) = 0
  OBVIOUS
<1> QED
  BY <1>1 DEF Cut

\* The blocks are the document, cut at blank lines and at the edges of its tables.
LEMMA BlocksCut ==
  ASSUME NEW document \in Documents
  PROVE  Cut(document, Blocks(document), Len(document))
<1> DEFINE n == Len(document)
<1>1. n \in Nat /\ document \in Seq(Lines)
  BY DEF Documents
<1>2. CASE n = 0
  <2>1. document = <<>>
    BY <1>1, <1>2
  <2>2. Blocks(document) = <<>>
    BY <2>1 DEF Blocks, AllLines, WithBuffer, NoLines
  <2> QED
    BY <1>2, <2>2, NothingCut
<1>3. CASE n # 0
  <2>1. PICK f :
          /\ \A i \in 1..n : f[i] \in Cutting
          /\ \A i \in 1..n : f[i] = TakeLine(Previous(f, NoLines, i), document[i])
          /\ Blocks(document) = IF f[n].buffer = <<>> THEN f[n].blocks
                                ELSE Append(f[n].blocks, f[n].buffer)
    BY <1>3, BlockSteps
  <2> DEFINE State(i) == Previous(f, NoLines, i + 1)
             S == {i \in 0..n : \E m \in 0..i : Taken(document, State(i), i, m)}
  <2>2. NoLines \in Cutting /\ NoLines.blocks = <<>> /\ NoLines.buffer = <<>> /\ ~NoLines.in_table
    <3>1. <<>> \in Texts /\ <<>> \in Seq(Texts)
      BY Empty
    <3> QED
      BY <3>1, Zenon DEF NoLines, Cutting
  <2>3. 0 \in S
    <3>1. State(0) = NoLines
      BY DEF Previous
    <3>2. SubSeq(document, 0 + 1, 0) = <<>>
      BY <1>1
    <3>3. \A k : k \notin (0 + 1)..0
      OBVIOUS
    <3>4. Taken(document, NoLines, 0, 0)
      BY <2>2, <3>2, <3>3, NothingCut, Zenon DEF Taken
    <3>5. 0 \in 0..0 /\ 0 \in 0..n
      BY <1>1
    <3> HIDE DEF State
    <3> QED
      BY <3>1, <3>4, <3>5
  <2>4. ASSUME NEW i \in 0..n, i \in S, i < n PROVE i + 1 \in S
    <3>1. /\ i \in Nat /\ i + 1 \in 1..n /\ i + 1 \in 0..n
          /\ (i + 1) + 1 # 1 /\ ((i + 1) + 1) - 1 = i + 1
      BY <1>1, <2>4
    <3>2. State(i + 1) = TakeLine(State(i), document[i + 1])
      BY <2>1, <3>1 DEF Previous
    <3>3. State(i) \in Cutting
      <4>1. i # 0 => i \in 1..n /\ (i + 1) - 1 = i
        BY <1>1
      <4> QED
        BY <1>1, <2>1, <2>2, <4>1 DEF Previous
    <3>4. PICK m \in 0..i : Taken(document, State(i), i, m)
      BY <2>4
    <3> HIDE DEF State
    <3>5. \E k \in 0..(i + 1) : Taken(document, TakeLine(State(i), document[i + 1]), i + 1, k)
      BY <2>4, <3>1, <3>3, <3>4, LineTaken
    <3> QED
      BY <3>1, <3>2, <3>5
  <2>5. n \in S
    <3> HIDE DEF S
    <3>1. \A i \in 0..n : i \in S
      BY <1>1, <2>3, <2>4, BoundedInduction
    <3> QED
      BY <1>1, <3>1
  <2>6. State(n) = f[n]
    BY <1>1, <1>3 DEF Previous
  <2>7. PICK m \in 0..n : Taken(document, f[n], n, m)
    BY <2>5, <2>6
  <2> HIDE DEF State, S
  <2>8. m \in Nat /\ m <= n /\ n \in 1..n
    BY <1>1, <1>3
  <2>9. SubSeq(document, m + 1, n) = <<>> <=> m = n
    <3>1. Len(SubSeq(document, m + 1, n)) = n - m /\ SubSeq(document, m + 1, n) \in Seq(Lines)
      BY <1>1, <2>8
    <3>2. SubSeq(document, m + 1, n) = <<>> <=> Len(SubSeq(document, m + 1, n)) = 0
      BY <3>1, NoText, Zenon
    <3>3. n - m = 0 <=> m = n
      BY <1>1, <2>8
    <3> QED
      BY <3>1, <3>2, <3>3, Zenon
  <2>10. CASE m = n
    BY <2>1, <2>7, <2>9, <2>10 DEF Taken
  <2>11. CASE m # n
    <3>1. /\ Blocks(document) = Append(f[n].blocks, SubSeq(document, m + 1, n))
          /\ Cut(document, f[n].blocks, m)
      BY <2>1, <2>7, <2>9, <2>11 DEF Taken
    <3>2. m < n
      BY <1>1, <2>8, <2>11
    <3>3. ASSUME NEW k \in (m + 1)..n, IsTableLine(document[k])
          PROVE  IsTable(document, m + 1, n)
      <4>1. f[n].in_table
        BY <2>7, <3>3, Zenon DEF Taken
      <4>2. \A i \in (m + 1)..n : IsTableLine(document[i])
        BY <2>7, <4>1, Zenon DEF Taken
      <4>3. m # 0 => ~IsTableLine(document[m])
        BY <2>7, <4>1, Zenon DEF Taken
      <4>4. \A i \in {(m + 1) - 1, n + 1} \cap (1..Len(document)) : i = m /\ m # 0
        BY <1>1, <2>8
      <4> QED
        BY <4>2, <4>3, <4>4 DEF IsTable
    <3> QED
      BY <2>8, <3>1, <3>2, <3>3, CutMore
  <2> QED
    BY <2>10, <2>11
<1> QED
  BY <1>2, <1>3

-----------------------------------------------------------------------------
(* Segments *)

Putting == [segments : Seq(Texts), current : Texts]

\* the segments and the text that may become one hold the lines seen
Kept(document, s, seen) ==
  /\ Assembled(document, Append(s.segments, s.current), seen)
  /\ Whole(document, Append(s.segments, s.current), seen)

\* A table that fits and begins in a block is the block.
LEMMA FittingBlock ==
  ASSUME NEW document \in Documents, NEW block \in Texts, Excerpt(block, document),
         OneKind(document, block),
         NEW first \in 1..Len(document), NEW last \in 1..Len(document),
         Fitting(document, first, last), first \in Numbers(block)
  PROVE  block = SubSeq(document, first, last)
<1>1. Len(document) \in Nat
  BY DEF Documents
<1>2. /\ first <= last /\ \A n \in first..last : IsTableLine(document[n])
      /\ \A n \in {first - 1, last + 1} \cap (1..Len(document)) : ~IsTableLine(document[n])
  BY DEF Fitting, IsTable
<1>3. TableBlock(block)
  <2>1. PICK i \in 1..Len(block) : block[i].number = first
    BY DEF Numbers
  <2>2. block[i] = document[first]
    BY <2>1 DEF Excerpt
  <2>3. IsTableLine(document[first])
    BY <1>2
  <2> QED
    BY <2>2, <2>3 DEF TableBlock
<1>4. PICK f \in 1..Len(document), l \in 1..Len(document) :
        f <= l /\ block = SubSeq(document, f, l) /\ IsTable(document, f, l)
  BY <1>3 DEF OneKind
<1>5. Numbers(block) = f..l
  <2>1. f \in Nat \ {0}
    OBVIOUS
  <2> QED
    BY <1>4, <2>1, Stretch
<1>6. /\ \A n \in f..l : IsTableLine(document[n])
      /\ \A n \in {f - 1, l + 1} \cap (1..Len(document)) : ~IsTableLine(document[n])
  BY <1>4 DEF IsTable
<1>7. f <= first /\ first <= l
  BY <1>5
<1>8. ASSUME f < first PROVE FALSE
  <2>1. first - 1 \in f..l /\ first - 1 \in {first - 1, last + 1} \cap (1..Len(document))
    BY <1>1, <1>7, <1>8
  <2> QED
    BY <1>2, <1>6, <2>1
<1>9. ASSUME last < l PROVE FALSE
  <2>1. last + 1 \in f..l /\ last + 1 \in {first - 1, last + 1} \cap (1..Len(document))
    BY <1>1, <1>2, <1>7, <1>9
  <2> QED
    BY <1>2, <1>6, <2>1
<1>10. ASSUME l < last PROVE FALSE
  <2>1. l + 1 \in first..last /\ l + 1 \in {f - 1, l + 1} \cap (1..Len(document))
    BY <1>1, <1>2, <1>7, <1>10
  <2> QED
    BY <1>2, <1>6, <2>1
<1>11. f = first /\ l = last
  BY <1>7, <1>8, <1>9, <1>10
<1> QED
  BY <1>4, <1>11

\* A block that is put into one text has its table whole.
LEMMA WholeBlock ==
  ASSUME NEW document \in Documents, NEW block \in Texts, Excerpt(block, document),
         OneKind(document, block)
  PROVE  /\ Whole(document, <<block>>, Numbers(block))
         /\ ~(Size(block) <= MaxChars) => \A texts : Whole(document, texts, Numbers(block))
<1>1. ASSUME NEW first \in 1..Len(document), NEW last \in 1..Len(document),
             Fitting(document, first, last), first \in Numbers(block)
      PROVE  Size(block) <= MaxChars /\ first..last = Numbers(block)
  <2>1. block = SubSeq(document, first, last)
    BY <1>1, FittingBlock
  <2>2. first <= last /\ Size(SubSeq(document, first, last)) <= MaxChars /\ first \in Nat \ {0}
    BY <1>1 DEF Fitting
  <2>3. Numbers(SubSeq(document, first, last)) = first..last
    BY <2>2, Stretch
  <2> QED
    BY <2>1, <2>2, <2>3
<1>2. 1 \in 1..Len(<<block>>) /\ <<block>>[1] = block
  OBVIOUS
<1>3. Whole(document, <<block>>, Numbers(block))
  BY <1>1, <1>2, Zenon DEF Whole
<1>4. ASSUME ~(Size(block) <= MaxChars), NEW texts PROVE Whole(document, texts, Numbers(block))
  BY <1>1, <1>4, Zenon DEF Whole
<1> QED
  BY <1>3, <1>4

\* a turn of the loop over the blocks keeps the types
LEMMA TakeBlockType ==
  ASSUME NEW s \in Putting, NEW block \in Texts, SplitTableOnRows(block) \in Seq(Texts)
  PROVE  TakeBlock(s, block) \in Putting
<1> DEFINE pieces == SplitTableOnRows(block)
<1>1. s.segments \in Seq(Texts) /\ s.current \in Texts /\ <<>> \in Texts
  BY Empty DEF Putting
<1>2. /\ Append(s.segments, s.current) \o pieces \in Seq(Texts)
      /\ s.segments \o pieces \in Seq(Texts)
      /\ Append(s.segments, s.current) \in Seq(Texts)
  BY <1>1
<1>3. s.current \o block \in Texts
  BY <1>1 DEF Texts
<1> HIDE DEF pieces
<1>4. [s EXCEPT !.segments = @ \o pieces] \in Putting
  BY <1>2 DEF Putting
<1>5. [s EXCEPT !.current = @ \o block] \in Putting
  BY <1>3 DEF Putting
<1>6. [segments |-> Append(s.segments, s.current) \o pieces, current |-> <<>>] \in Putting
  BY <1>1, <1>2 DEF Putting
<1>7. [segments |-> Append(s.segments, s.current), current |-> block] \in Putting
  BY <1>2 DEF Putting
<1> QED
  BY <1>4, <1>5, <1>6, <1>7, Zenon DEF TakeBlock, pieces

\* one more block
LEMMA BlockKept ==
  ASSUME NEW document \in Documents, NEW s \in Putting, NEW seen, Kept(document, s, seen),
         NEW block \in Texts, Len(block) # 0, Excerpt(block, document), OneKind(document, block),
         Precede(seen, Numbers(block))
  PROVE  Kept(document, TakeBlock(s, block), seen \cup Numbers(block))
<1> DEFINE texts == Append(s.segments, s.current)
           pieces == SplitTableOnRows(block)
           next == TakeBlock(s, block)
<1>1. s.segments \in Seq(Texts) /\ s.current \in Texts /\ document \in Texts
  BY DEF Putting, Documents, Texts
<1>2. texts \in Seq(Texts) /\ Assembled(document, texts, seen) /\ Whole(document, texts, seen)
  BY <1>1 DEF Kept
<1>3. Size(block) \in Nat /\ MaxChars \in Nat
  BY SizeType, MaxCharsAssumption
<1>4. /\ <<>> \in Texts /\ ~Says(<<>>) /\ Excerpt(<<>>, document) /\ RowsFit(<<>>)
      /\ Numbers(<<>>) \subseteq seen \cup Numbers(block)
  BY Empty
<1> HIDE DEF texts, pieces
<1>5. CASE TableBlock(block) /\ Size(block) > MaxChars
  <2>1. ~(Size(block) <= MaxChars)
    BY <1>3, <1>5
  <2>2. /\ Assembled(document, pieces, Numbers(block)) /\ pieces \in Seq(Texts)
        /\ Whole(document, pieces, Numbers(block))
    BY <1>1, <2>1, SplitAssembled, WholeBlock DEF pieces
  <2>3. CASE Says(s.current)
    <3>1. next = [segments |-> texts \o pieces, current |-> <<>>]
      BY <1>5, <2>3, Zenon DEF TakeBlock, texts, pieces
    <3>2. next.segments = texts \o pieces /\ next.current = <<>>
      <4> HIDE DEF next
      <4> QED
        BY <3>1
    <3>3. texts \o pieces \in Seq(Texts)
      BY <1>2, <2>2
    <3>4. /\ Assembled(document, texts \o pieces, seen \cup Numbers(block))
          /\ Whole(document, texts \o pieces, seen \cup Numbers(block))
      BY <1>2, <2>2, Join, WholeJoin
    <3>5. /\ Assembled(document, Append(texts \o pieces, <<>>), seen \cup Numbers(block))
          /\ Whole(document, Append(texts \o pieces, <<>>), seen \cup Numbers(block))
      BY <1>4, <3>3, <3>4, PutBlank
    <3>6. Kept(document, next, seen \cup Numbers(block))
      BY <3>2, <3>5, Zenon DEF Kept
    <3> QED
      BY <3>6
  <2>4. CASE ~Says(s.current)
    <3>1. next = [s EXCEPT !.segments = @ \o pieces]
      BY <1>5, <2>4, Zenon DEF TakeBlock, pieces
    <3>2. next.segments = s.segments \o pieces /\ next.current = s.current
      BY <3>1 DEF Putting
    <3>3. s.segments \o pieces \in Seq(Texts)
      BY <1>1, <2>2
    <3>4. Assembled(document, s.segments, seen) /\ Whole(document, s.segments, seen)
      BY <1>1, <1>2, <2>4, LeaveOut DEF texts
    <3>5. /\ Assembled(document, s.segments \o pieces, seen \cup Numbers(block))
          /\ Whole(document, s.segments \o pieces, seen \cup Numbers(block))
      BY <1>1, <2>2, <3>4, Join, WholeJoin
    <3>6. /\ Excerpt(s.current, document) /\ RowsFit(s.current)
          /\ Numbers(s.current) \subseteq seen \cup Numbers(block)
      <4>1. PICK l : l = Len(s.segments) + 1 /\ l \in 1..Len(texts) /\ texts[l] = s.current
        BY <1>1 DEF texts
      <4>2. /\ Excerpt(texts[l], document) /\ RowsFit(texts[l])
            /\ Numbers(texts[l]) \subseteq seen
        BY <1>2, <4>1, ZenonT(40) DEF Assembled
      <4> QED
        BY <4>1, <4>2
    <3>7. /\ Assembled(document, Append(s.segments \o pieces, s.current), seen \cup Numbers(block))
          /\ Whole(document, Append(s.segments \o pieces, s.current), seen \cup Numbers(block))
      BY <1>1, <2>4, <3>3, <3>5, <3>6, PutBlank
    <3>8. Kept(document, next, seen \cup Numbers(block))
      BY <3>2, <3>7, Zenon DEF Kept
    <3> QED
      BY <3>8
  <2> QED
    BY <2>3, <2>4
<1>6. CASE ~(TableBlock(block) /\ Size(block) > MaxChars)
  <2>1. RowsFit(block)
    BY <1>3, <1>6 DEF RowsFit
  <2>2. Whole(document, <<block>>, Numbers(block)) /\ <<block>> \in Seq(Texts)
    BY WholeBlock
  <2>3. CASE Fits(s.current, block)
    <3>1. next = [s EXCEPT !.current = @ \o block]
      BY <1>6, <2>3, Zenon DEF TakeBlock
    <3>2. next.segments = s.segments /\ next.current = s.current \o block
      BY <3>1 DEF Putting
    <3>3. RowsFit(s.current \o block)
      BY <1>1, <2>1, <2>3, FitsTogether
    <3>4. Assembled(document, Append(s.segments, s.current \o block), seen \cup Numbers(block))
      BY <1>1, <1>2, <3>3, Extend DEF texts
    <3>5. Whole(document, Append(s.segments, s.current \o block), seen \cup Numbers(block))
      BY <1>1, <1>2, <2>2, WholeExtend DEF texts
    <3>6. Kept(document, next, seen \cup Numbers(block))
      BY <3>2, <3>4, <3>5, Zenon DEF Kept
    <3> QED
      BY <3>6
  <2>4. CASE ~Fits(s.current, block)
    <3>1. next = [segments |-> texts, current |-> block]
      BY <1>6, <2>4, Zenon DEF TakeBlock, texts
    <3>2. next.segments = texts /\ next.current = block
      <4> HIDE DEF next
      <4> QED
        BY <3>1
    <3>3. Assembled(document, Append(texts, block), seen \cup Numbers(block))
      BY <1>2, <2>1, Begin
    <3>4. Whole(document, Append(texts, block), seen \cup Numbers(block))
      <4>1. Append(texts, block) = texts \o <<block>>
        BY <1>2, AppendOne
      <4>2. Whole(document, texts \o <<block>>, seen \cup Numbers(block))
        BY <1>2, <2>2, WholeJoin
      <4> HIDE DEF next
      <4> QED
        BY <4>1, <4>2, Zenon
    <3>5. Kept(document, next, seen \cup Numbers(block))
      BY <3>2, <3>3, <3>4, Zenon DEF Kept
    <3> QED
      BY <3>5
  <2> QED
    BY <2>3, <2>4
<1> QED
  BY <1>5, <1>6

\* The lines of the first j blocks.
Seen(blocks, j) == UNION {Numbers(blocks[i]) : i \in 1..j}

\* one more block is seen
LEMMA SeenMore ==
  ASSUME NEW document, NEW blocks, NEW m, Cut(document, blocks, m),
         NEW j \in Nat, j < Len(blocks)
  PROVE  /\ Seen(blocks, j + 1) = Seen(blocks, j) \cup Numbers(blocks[j + 1])
         /\ Precede(Seen(blocks, j), Numbers(blocks[j + 1]))
<1>1. Len(blocks) \in Nat
  BY DEF Cut
<1>2. \A i : i \in 1..(j + 1) <=> i \in 1..j \/ i = j + 1
  OBVIOUS
<1>3. Seen(blocks, j + 1) = Seen(blocks, j) \cup Numbers(blocks[j + 1])
  BY <1>2 DEF Seen
<1>4. \A i \in 1..j : Precede(Numbers(blocks[i]), Numbers(blocks[j + 1]))
  <2>1. \A i \in 1..j : i \in 1..Len(blocks) /\ j + 1 \in 1..Len(blocks) /\ i < j + 1
    BY <1>1
  <2> QED
    BY <2>1 DEF Cut
<1>5. Precede(Seen(blocks, j), Numbers(blocks[j + 1]))
  BY <1>4 DEF Precede, Seen
<1> QED
  BY <1>3, <1>5

\* The blocks are taken one after the other.
LEMMA SegmentSteps ==
  ASSUME NEW document \in Documents, NEW blocks, blocks = Blocks(document), Len(blocks) # 0
  PROVE  \E f :
           /\ \A j \in 1..Len(blocks) : f[j] \in Putting
           /\ \A j \in 1..Len(blocks) : f[j] = TakeBlock(Previous(f, NoBlocks, j), blocks[j])
           /\ Segments(document)
                = IF Says(f[Len(blocks)].current)
                    THEN Append(f[Len(blocks)].segments, f[Len(blocks)].current)
                    ELSE f[Len(blocks)].segments
<1> DEFINE Step(s, j) == TakeBlock(s, blocks[j])
           after[j \in 1..Len(blocks)] == Step(IF j = 1 THEN NoBlocks ELSE after[j - 1], j)
           Steps == {t \in (1..Len(blocks)) \X Putting \X Putting : t[3] = Step(t[2], t[1])}
<1>1. Len(blocks) \in Nat /\ blocks # <<>> /\ Cut(document, blocks, Len(document))
  BY BlocksCut DEF Cut
<1>2. ASSUME NEW j \in 1..Len(blocks), NEW s \in Putting PROVE Step(s, j) \in Putting
  <2> HIDE DEF after, Steps
  <2>1. blocks[j] \in Texts /\ Len(blocks[j]) # 0 /\ Excerpt(blocks[j], document)
    BY <1>1 DEF Cut
  <2>2. document \in Texts
    BY DEF Documents, Texts
  <2>3. SplitTableOnRows(blocks[j]) \in Seq(Texts)
    BY <2>1, <2>2, SplitAssembled
  <2> QED
    BY <2>1, <2>3, TakeBlockType
<1> HIDE DEF Step
<1>3. NoBlocks \in Putting
  BY Empty DEF NoBlocks, Putting
<1>4. PICK f \in [1..Len(blocks) -> Putting] :
        \A j \in 1..Len(blocks) : <<j, Previous(f, NoBlocks, j), f[j]>> \in Steps
  <2> HIDE DEF after
  <2>1. \A j \in 1..Len(blocks) : \A x \in Putting : \E y \in Putting : <<j, x, y>> \in Steps
    BY <1>2
  <2>2. Len(blocks) \in Nat
    BY <1>1
  <2> HIDE DEF Steps
  <2> QED
    BY <1>3, <2>1, <2>2, RecursionExists, ZenonT(40)
<1>5. \A j \in 1..Len(blocks) : f[j] = Step(IF j = 1 THEN NoBlocks ELSE f[j - 1], j)
  <2> HIDE DEF after
  <2> QED
    BY <1>4 DEF Previous
<1>6. f = [j \in 1..Len(blocks) |-> Step(IF j = 1 THEN NoBlocks ELSE f[j - 1], j)]
  <2> HIDE DEF after
  <2> QED
    BY <1>4, <1>5
<1>7. after = [j \in 1..Len(blocks) |-> Step(IF j = 1 THEN NoBlocks ELSE after[j - 1], j)]
  BY <1>6
<1>8. Segments(document)
        = IF Says(after[Len(blocks)].current)
            THEN Append(after[Len(blocks)].segments, after[Len(blocks)].current)
            ELSE after[Len(blocks)].segments
  BY <1>1 DEF Segments, LastSegment, WithCurrent, AllBlocks, Step
<1> HIDE DEF after
<1>9. \A j \in 1..Len(blocks) : after[j] = Step(Previous(after, NoBlocks, j), j)
  BY <1>7 DEF Previous
<1>10. \A j \in 1..Len(blocks) : after[j] \in Putting
  <2>1. \A j \in 1..Len(blocks) : Previous(after, NoBlocks, j) \in Putting => after[j] \in Putting
    BY <1>2, <1>9
  <2> QED
    BY <1>1, <1>3, <2>1, RecursionType
<1> QED
  BY <1>8, <1>9, <1>10 DEF Step

\* The segments hold what the document says, its tables that fit whole.
LEMMA SegmentsKept ==
  ASSUME NEW document \in Documents
  PROVE  /\ Assembled(document, Segments(document), 1..Len(document))
         /\ Whole(document, Segments(document), 1..Len(document))
<1>1. PICK blocks : blocks = Blocks(document)
  OBVIOUS
<1> DEFINE n == Len(blocks)
<1>2. n \in Nat /\ blocks \in Seq(Texts) /\ Cut(document, blocks, Len(document))
  BY <1>1, BlocksCut DEF Cut
<1>3. Seen(blocks, n) = 1..Len(document)
  <2>1. \A j \in 1..n : Numbers(blocks[j]) \subseteq 1..Len(document)
    BY <1>2 DEF Cut
  <2>2. \A i \in 1..Len(document) : \E j \in 1..n : i \in Numbers(blocks[j])
    BY <1>2 DEF Cut
  <2> QED
    BY <2>1, <2>2 DEF Seen
<1>4. document \in Texts
  BY DEF Documents, Texts
<1>5. CASE n = 0
  <2>1. blocks = <<>>
    BY <1>2, <1>5
  <2>2. Segments(document) = <<>>
    <3>1. ~Says(<<>>)
      BY Empty
    <3> QED
      BY <1>1, <2>1, <3>1 DEF Segments, AllBlocks, LastSegment, WithCurrent, NoBlocks
  <2>3. Seen(blocks, n) = {}
    BY <1>5 DEF Seen
  <2>4. Assembled(document, <<>>, {}) /\ Whole(document, <<>>, {})
    BY DEF Assembled, Whole
  <2> QED
    BY <1>3, <2>2, <2>3, <2>4
<1>6. CASE n # 0
  <2>1. PICK f :
          /\ \A j \in 1..n : f[j] \in Putting
          /\ \A j \in 1..n : f[j] = TakeBlock(Previous(f, NoBlocks, j), blocks[j])
          /\ Segments(document) = IF Says(f[n].current) THEN Append(f[n].segments, f[n].current)
                                  ELSE f[n].segments
    BY <1>1, <1>6, SegmentSteps
  <2> DEFINE State(j) == Previous(f, NoBlocks, j + 1)
             S == {j \in 0..n : Kept(document, State(j), Seen(blocks, j))}
  <2>2. NoBlocks.segments = <<>> /\ NoBlocks.current = <<>> /\ NoBlocks \in Putting
    BY Empty DEF NoBlocks, Putting
  <2>3. 0 \in S
    <3>1. State(0) = NoBlocks
      BY DEF Previous
    <3>2. Seen(blocks, 0) = {}
      BY DEF Seen
    <3>3. Whole(document, << <<>> >>, {})
      BY DEF Whole
    <3>4. Kept(document, NoBlocks, {})
      BY <2>2, <3>3, Empty, Zenon DEF Kept
    <3> HIDE DEF State
    <3>5. Kept(document, State(0), Seen(blocks, 0))
      BY <3>1, <3>2, <3>4, Zenon
    <3>6. 0 \in 0..n
      BY <1>2
    <3> QED
      BY <3>5, <3>6, Zenon
  <2>4. ASSUME NEW j \in 0..n, j \in S, j < n PROVE j + 1 \in S
    <3>1. /\ j \in Nat /\ j + 1 \in 1..n /\ j + 1 \in 0..n
          /\ (j + 1) + 1 # 1 /\ ((j + 1) + 1) - 1 = j + 1
      BY <1>2, <2>4
    <3>2. State(j + 1) = TakeBlock(State(j), blocks[j + 1])
      BY <2>1, <3>1 DEF Previous
    <3>3. State(j) \in Putting
      <4>1. j # 0 => j \in 1..n /\ (j + 1) - 1 = j
        BY <1>2
      <4> QED
        BY <1>2, <2>1, <2>2, <4>1 DEF Previous
    <3>4. Kept(document, State(j), Seen(blocks, j))
      BY <2>4
    <3> HIDE DEF State
    <3>5. PICK block : block = blocks[j + 1]
      OBVIOUS
    <3>6. /\ block \in Texts /\ Len(block) # 0 /\ Excerpt(block, document)
          /\ OneKind(document, block)
      BY <1>2, <3>1, <3>5 DEF Cut
    <3>7. /\ Seen(blocks, j + 1) = Seen(blocks, j) \cup Numbers(block)
          /\ Precede(Seen(blocks, j), Numbers(block))
      BY <1>2, <2>4, <3>1, <3>5, SeenMore
    <3>8. Kept(document, TakeBlock(State(j), block), Seen(blocks, j) \cup Numbers(block))
      BY <3>3, <3>4, <3>6, <3>7, BlockKept
    <3> QED
      BY <3>1, <3>2, <3>5, <3>7, <3>8
  <2>5. n \in S
    <3> HIDE DEF S
    <3>1. \A j \in 0..n : j \in S
      BY <1>2, <2>3, <2>4, BoundedInduction
    <3> QED
      BY <1>2, <3>1
  <2>6. State(n) = f[n] /\ n \in 1..n
    BY <1>2, <1>6 DEF Previous
  <2>7. Kept(document, f[n], 1..Len(document))
    BY <1>3, <2>5, <2>6
  <2> HIDE DEF State, S
  <2>8. f[n].segments \in Seq(Texts) /\ f[n].current \in Texts
    BY <2>1, <2>6 DEF Putting
  <2>9. /\ Assembled(document, Append(f[n].segments, f[n].current), 1..Len(document))
        /\ Whole(document, Append(f[n].segments, f[n].current), 1..Len(document))
    BY <2>7 DEF Kept
  <2> QED
    BY <1>4, <2>1, <2>8, <2>9, LeaveOut
<1> QED
  BY <1>5, <1>6

-----------------------------------------------------------------------------
(* Chunks *)

\* The segments are taken one after the other.
LEMMA ChunkSteps ==
  ASSUME NEW document, NEW segments \in Seq(Texts), segments = Segments(document),
         Len(segments) # 0
  PROVE  \E f :
           /\ \A j \in 1..Len(segments) : f[j] \in Seq(Texts)
           /\ \A j \in 1..Len(segments) :
                f[j] = IF Says(segments[j]) THEN Append(Previous(f, <<>>, j), segments[j])
                       ELSE Previous(f, <<>>, j)
           /\ Chunks(document) = f[Len(segments)]
<1> DEFINE Step(chunks, j) == IF Says(segments[j]) THEN Append(chunks, segments[j]) ELSE chunks
           among[j \in 1..Len(segments)] == Step(IF j = 1 THEN <<>> ELSE among[j - 1], j)
           X == Seq(Texts)
           Steps == {t \in (1..Len(segments)) \X X \X X : t[3] = Step(t[2], t[1])}
<1>1. Len(segments) \in Nat /\ segments # <<>>
  OBVIOUS
<1>2. ASSUME NEW j \in 1..Len(segments), NEW chunks \in X PROVE Step(chunks, j) \in X
  <2> HIDE DEF among, Steps
  <2> QED
    OBVIOUS
<1> HIDE DEF Step
<1>3. <<>> \in X
  OBVIOUS
<1> HIDE DEF X
<1>4. PICK f \in [1..Len(segments) -> X] :
        \A j \in 1..Len(segments) : <<j, Previous(f, <<>>, j), f[j]>> \in Steps
  <2> HIDE DEF among
  <2>1. \A j \in 1..Len(segments) : \A x \in X : \E y \in X : <<j, x, y>> \in Steps
    BY <1>2
  <2> HIDE DEF Steps
  <2> QED
    BY <1>1, <1>3, <2>1, RecursionExists, Zenon
<1>5. \A j \in 1..Len(segments) : f[j] = Step(IF j = 1 THEN <<>> ELSE f[j - 1], j)
  <2> HIDE DEF among
  <2> QED
    BY <1>4 DEF Previous
<1>6. f = [j \in 1..Len(segments) |-> Step(IF j = 1 THEN <<>> ELSE f[j - 1], j)]
  <2> HIDE DEF among
  <2> QED
    BY <1>4, <1>5
<1>7. among = [j \in 1..Len(segments) |-> Step(IF j = 1 THEN <<>> ELSE among[j - 1], j)]
  BY <1>6
<1>8. Chunks(document) = among[Len(segments)]
  BY <1>1 DEF Chunks, NotBlank, WithCurrent, Step
<1> HIDE DEF among
<1>9. \A j \in 1..Len(segments) : among[j] = Step(Previous(among, <<>>, j), j)
  BY <1>7 DEF Previous
<1>10. \A j \in 1..Len(segments) : among[j] \in X
  <2>1. \A j \in 1..Len(segments) : Previous(among, <<>>, j) \in X => among[j] \in X
    BY <1>2, <1>9
  <2> QED
    BY <1>1, <1>3, <2>1, RecursionType
<1> QED
  BY <1>8, <1>9, <1>10 DEF Step, X

\* the segments, of the first j, that say something
Among(chunks, segments, j) ==
  /\ chunks \in Seq(Texts)
  /\ \A c \in 1..Len(chunks) : \E k \in 1..j : chunks[c] = segments[k]
  /\ \A c, d \in 1..Len(chunks) : c < d => Before(chunks[c], chunks[d])
  /\ \A k \in 1..j : Says(segments[k]) => \E c \in 1..Len(chunks) : chunks[c] = segments[k]

\* one more segment, a chunk if it says anything
LEMMA AmongMore ==
  ASSUME NEW segments \in Seq(Texts),
         \A c, d \in 1..Len(segments) : c < d => Before(segments[c], segments[d]),
         NEW j \in Nat, j < Len(segments), NEW chunks, Among(chunks, segments, j)
  PROVE  Among(IF Says(segments[j + 1]) THEN Append(chunks, segments[j + 1]) ELSE chunks,
               segments, j + 1)
<1>1. /\ j + 1 \in 1..Len(segments) /\ j + 1 \in 1..(j + 1) /\ segments[j + 1] \in Texts
      /\ \A k \in 1..j : k \in 1..(j + 1) /\ k \in 1..Len(segments) /\ k < j + 1
      /\ \A k \in 1..(j + 1) : k \in 1..j \/ k = j + 1
  OBVIOUS
<1>2. /\ chunks \in Seq(Texts)
      /\ \A c \in 1..Len(chunks) : \E k \in 1..j : chunks[c] = segments[k]
      /\ \A c, d \in 1..Len(chunks) : c < d => Before(chunks[c], chunks[d])
      /\ \A k \in 1..j : Says(segments[k]) => \E c \in 1..Len(chunks) : chunks[c] = segments[k]
  BY DEF Among
<1>3. CASE ~Says(segments[j + 1])
  <2>1. Among(chunks, segments, j + 1)
    BY <1>1, <1>2, <1>3, Zenon DEF Among
  <2> QED
    BY <1>3, <2>1
<1>4. CASE Says(segments[j + 1])
  <2> DEFINE all == Append(chunks, segments[j + 1])
             l == Len(chunks)
  <2>1. /\ all \in Seq(Texts) /\ l \in Nat /\ Len(all) = l + 1 /\ all[l + 1] = segments[j + 1]
        /\ \A c \in 1..l : c \in 1..Len(all) /\ all[c] = chunks[c]
        /\ \A c \in 1..Len(all) : c \in 1..l \/ c = l + 1
        /\ l + 1 \in 1..Len(all)
    BY <1>1, <1>2
  <2> HIDE DEF all
  <2>2. \A c \in 1..Len(all) : \E k \in 1..(j + 1) : all[c] = segments[k]
    BY <1>1, <1>2, <2>1
  <2>3. ASSUME NEW c \in 1..Len(all), NEW d \in 1..Len(all), c < d PROVE Before(all[c], all[d])
    <3>1. c \in 1..l
      BY <2>1, <2>3
    <3>2. CASE d \in 1..l
      BY <1>2, <2>1, <2>3, <3>1, <3>2
    <3>3. CASE d = l + 1
      <4>1. PICK k \in 1..j : chunks[c] = segments[k]
        BY <1>2, <3>1
      <4>2. Before(segments[k], segments[j + 1])
        BY <1>1
      <4> QED
        BY <2>1, <3>1, <3>3, <4>1, <4>2
    <3> QED
      BY <2>1, <3>2, <3>3
  <2>4. \A k \in 1..(j + 1) : Says(segments[k]) => \E c \in 1..Len(all) : all[c] = segments[k]
    BY <1>1, <1>2, <2>1
  <2>5. Among(all, segments, j + 1)
    BY <2>1, <2>2, <2>3, <2>4 DEF Among
  <2> QED
    BY <1>4, <2>5 DEF all
<1> QED
  BY <1>3, <1>4

\* The chunks are the segments that say something, in their order.
LEMMA ChunksAmong ==
  ASSUME NEW document \in Documents
  PROVE  Among(Chunks(document), Segments(document), Len(Segments(document)))
<1>1. PICK segments : segments = Segments(document)
  OBVIOUS
<1> DEFINE n == Len(segments)
<1>2. /\ n \in Nat /\ segments \in Seq(Texts)
      /\ \A c, d \in 1..n : c < d => Before(segments[c], segments[d])
  BY <1>1, SegmentsKept DEF Assembled
<1>3. Among(<<>>, segments, 0)
  BY DEF Among
<1>4. CASE n = 0
  <2>1. segments = <<>>
    BY <1>2, <1>4
  <2>2. Chunks(document) = <<>>
    BY <1>1, <2>1 DEF Chunks, NotBlank
  <2> QED
    BY <1>1, <1>3, <1>4, <2>2
<1>5. CASE n # 0
  <2>1. PICK f :
          /\ \A j \in 1..n : f[j] \in Seq(Texts)
          /\ \A j \in 1..n :
               f[j] = IF Says(segments[j]) THEN Append(Previous(f, <<>>, j), segments[j])
                      ELSE Previous(f, <<>>, j)
          /\ Chunks(document) = f[n]
    BY <1>1, <1>2, <1>5, ChunkSteps
  <2> DEFINE State(j) == Previous(f, <<>>, j + 1)
             S == {j \in 0..n : Among(State(j), segments, j)}
  <2>2. 0 \in S
    <3>1. State(0) = <<>> /\ 0 \in 0..n
      BY <1>2 DEF Previous
    <3> HIDE DEF State
    <3> QED
      BY <1>3, <3>1
  <2>3. ASSUME NEW j \in 0..n, j \in S, j < n PROVE j + 1 \in S
    <3>1. /\ j \in Nat /\ j + 1 \in 1..n /\ j + 1 \in 0..n
          /\ (j + 1) + 1 # 1 /\ ((j + 1) + 1) - 1 = j + 1
      BY <1>2, <2>3
    <3>2. State(j + 1) = f[j + 1]
      BY <3>1 DEF Previous
    <3>3. f[j + 1] = IF Says(segments[j + 1]) THEN Append(State(j), segments[j + 1]) ELSE State(j)
      BY <2>1, <3>1
    <3> HIDE DEF State
    <3>4. Among(State(j), segments, j)
      BY <2>3
    <3>5. Among(IF Says(segments[j + 1]) THEN Append(State(j), segments[j + 1]) ELSE State(j),
                segments, j + 1)
      BY <1>2, <2>3, <3>1, <3>4, AmongMore
    <3> QED
      BY <3>1, <3>2, <3>3, <3>5
  <2>4. n \in S
    <3> HIDE DEF S
    <3>1. \A j \in 0..n : j \in S
      BY <1>2, <2>2, <2>3, BoundedInduction
    <3> QED
      BY <1>2, <3>1
  <2>5. State(n) = f[n]
    BY <1>2, <1>5 DEF Previous
  <2> QED
    BY <1>1, <2>1, <2>4, <2>5
<1> QED
  BY <1>4, <1>5

-----------------------------------------------------------------------------

\* The chunks of any document, cut for any MaxChars, hold what it says in its order, its
\* tables that fit whole, and only a single row makes a chunk of rows too large.
THEOREM ChunksFaithful ==
  ASSUME NEW document \in Documents
  PROVE  EveryLineKept(document) /\ TablesWhole(document) /\ RowsWithinSize(document)
<1>1. PICK chunks, segments : chunks = Chunks(document) /\ segments = Segments(document)
  OBVIOUS
<1>2. /\ chunks \in Seq(Texts)
      /\ \A c \in 1..Len(chunks) : \E k \in 1..Len(segments) : chunks[c] = segments[k]
      /\ \A c, d \in 1..Len(chunks) : c < d => Before(chunks[c], chunks[d])
      /\ \A k \in 1..Len(segments) :
           Says(segments[k]) => \E c \in 1..Len(chunks) : chunks[c] = segments[k]
  BY <1>1, ChunksAmong DEF Among
<1>3. /\ \A k \in 1..Len(segments) : Excerpt(segments[k], document) /\ RowsFit(segments[k])
      /\ \A n \in 1..Len(document) :
           ~IsBlank(document[n]) => \E k \in 1..Len(segments) : n \in Numbers(segments[k])
      /\ Whole(document, segments, 1..Len(document))
  BY <1>1, SegmentsKept DEF Assembled
<1>4. document \in Texts
  BY DEF Documents, Texts
\* a segment with a line that is not blank is a chunk
<1>5. ASSUME NEW k \in 1..Len(segments), NEW n \in Numbers(segments[k]), ~IsBlank(document[n])
      PROVE  \E c \in 1..Len(chunks) : chunks[c] = segments[k]
  BY <1>2, <1>3, <1>5, BlankNumbers
<1>6. \A text : \A n : Holds(text, n) <=> n \in Numbers(text)
  BY DEF Holds, Numbers
<1>7. EveryLineKept(document)
  <2>1. \A c \in 1..Len(chunks) : Excerpt(chunks[c], document)
    BY <1>2, <1>3
  <2>2. ASSUME NEW n \in 1..Len(document), ~IsBlank(document[n])
        PROVE  \E c \in 1..Len(chunks) : Holds(chunks[c], n)
    <3>1. PICK k \in 1..Len(segments) : n \in Numbers(segments[k])
      BY <1>3, <2>2
    <3>2. PICK c \in 1..Len(chunks) : chunks[c] = segments[k]
      BY <1>5, <2>2, <3>1
    <3> QED
      BY <1>6, <3>1, <3>2
  <2> QED
    BY <1>1, <1>2, <2>1, <2>2 DEF EveryLineKept
<1>8. TablesWhole(document)
  <2> SUFFICES ASSUME NEW first \in 1..Len(document), NEW last \in 1..Len(document),
                      Fitting(document, first, last)
               PROVE  \E c \in 1..Len(Chunks(document)) :
                        \A n \in first..last : Holds(Chunks(document)[c], n)
    BY DEF TablesWhole, Fitting
  <2>1. PICK k \in 1..Len(segments) : first..last \subseteq Numbers(segments[k])
    BY <1>3 DEF Whole
  <2>2. PICK n \in first..last : ~IsBlank(document[n])
    BY <1>4, SaysWhat DEF Fitting
  <2>3. PICK c \in 1..Len(chunks) : chunks[c] = segments[k]
    BY <1>5, <2>1, <2>2
  <2> QED
    BY <1>1, <1>6, <2>1, <2>3
<1>9. RowsWithinSize(document)
  BY <1>1, <1>2, <1>3 DEF RowsWithinSize, RowsFit
<1> QED
  BY <1>7, <1>8, <1>9

=============================================================================
