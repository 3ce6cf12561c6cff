-------------------------- MODULE WordBoundaryProofs --------------------------
(***************************************************************************)
(* The two loops of fix_word_boundary agree, for every blob, cut and value *)
(* of EXTRA_LEN.  Stop(b) is the byte where both loops stop that start at  *)
(* cut b, the head of the piece after it and the tail of the piece before  *)
(* it; piece [b, e) keeps the bytes from Stop(b) to Stop(e), and so the    *)
(* pieces mapped so far have kept the bytes before Stop(begin), once each. *)
(* If a delimiter follows within EXTRA_LEN bytes of any byte, no word goes *)
(* across Stop(b): the words of a piece are the words of the text that it  *)
(* keeps, and the pieces together count every word once.                   *)
(***************************************************************************)
EXTENDS WordBoundary, WellFoundedInduction, TLAPS

\* Min of a non-empty set of naturals is its least element.
LEMMA MinOfNats ==
    ASSUME NEW S, S \subseteq Nat, S # {}
    PROVE  /\ Min(S) \in S
           /\ \A y \in S : Min(S) <= y
<1> DEFINE R == OpToRel(<, Nat)
<1>1. \E x \in S : \A y \in S : ~(<<y, x>> \in R)
  <2> HIDE DEF R
  <2>1. IsWellFoundedOn(R, Nat)
    BY NatLessThanWellFounded, Zenon DEF R
  <2> QED BY <2>1, WFMin, Zenon
<1>2. \A x, y \in S : ~(<<y, x>> \in R) => x <= y
  BY DEF OpToRel
<1>3. \E x \in S : \A y \in S : x <= y
  <2> HIDE DEF R
  <2> QED BY <1>1, <1>2
<1> QED BY <1>3 DEF Min

\* The offsets at which a loop that starts at byte b may stop.
Gap(b) == {i \in 0..EXTRA_LEN :
              i = EXTRA_LEN \/ b + i >= Len(text) \/ text[b + i + 1] = Delimiter}

Stop(b) == IF b = 0 THEN 0 ELSE b + Min(Gap(b))

\* A loop stops, inside the blob, and at the first delimiter.
LEMMA GapMin ==
    ASSUME EXTRA_LEN \in Nat, text \in Seq(Byte), NEW b \in 0..Len(text)
    PROVE  /\ Min(Gap(b)) \in 0..EXTRA_LEN
           /\ b + Min(Gap(b)) <= Len(text)
           /\ \/ Min(Gap(b)) = EXTRA_LEN
              \/ b + Min(Gap(b)) = Len(text)
              \/ b + Min(Gap(b)) < Len(text) /\ text[b + Min(Gap(b)) + 1] = Delimiter
           /\ \A i \in 0..Min(Gap(b)) - 1 :
                  /\ i < EXTRA_LEN
                  /\ b + i < Len(text)
                  /\ text[b + i + 1] # Delimiter
<1> DEFINE m == Min(Gap(b))
<1>1. Gap(b) \subseteq Nat /\ EXTRA_LEN \in Gap(b)
  BY DEF Gap
<1>2. m \in Gap(b) /\ \A y \in Gap(b) : m <= y
  BY <1>1, MinOfNats
<1>3. Len(text) \in Nat /\ Len(text) - b \in Nat
  OBVIOUS
<1>4. b + m <= Len(text)
  <2>1. CASE Len(text) - b <= EXTRA_LEN
    <3>1. Len(text) - b \in Gap(b)
      BY <2>1, <1>3 DEF Gap
    <3> QED BY <3>1, <1>1, <1>2, <1>3
  <2>2. CASE Len(text) - b > EXTRA_LEN
    BY <2>2, <1>2, <1>3 DEF Gap
  <2> QED BY <2>1, <2>2, <1>3
<1>5. m \in 0..EXTRA_LEN /\ (m = EXTRA_LEN \/ b + m >= Len(text) \/ text[b + m + 1] = Delimiter)
  BY <1>2 DEF Gap
<1>6. ASSUME NEW i \in 0..m - 1
      PROVE  i < EXTRA_LEN /\ b + i < Len(text) /\ text[b + i + 1] # Delimiter
  <2>1. i \in 0..EXTRA_LEN /\ i \notin Gap(b) /\ i < EXTRA_LEN
    BY <1>2, <1>5, <1>1
  <2> QED BY <2>1, <1>3 DEF Gap
<1> HIDE DEF m
<1>7. m \in 0..EXTRA_LEN /\ b + m <= Len(text) /\ (m = EXTRA_LEN \/ b + m = Len(text) \/ (b + m < Len(text) /\ text[b + m + 1] = Delimiter))
  BY <1>3, <1>4, <1>5
<1> QED BY <1>6, <1>7 DEF m

\* A stretch of the blob that is downloaded.
LEMMA DownloadIs ==
    ASSUME EXTRA_LEN \in Nat, text \in Seq(Byte),
           NEW b \in Nat, NEW e \in Nat, b <= e, e <= Len(text)
    PROVE  /\ Download(b, e) \in Seq(Byte)
           /\ Len(Download(b, e)) \in Nat
           /\ \/ Len(Download(b, e)) = e + EXTRA_LEN - b /\ e + EXTRA_LEN <= Len(text)
              \/ Len(Download(b, e)) = Len(text) - b /\ Len(text) < e + EXTRA_LEN
           /\ \A i \in 1..Len(Download(b, e)) : Download(b, e)[i] = text[b + i]
<1> DEFINE m == IF e + EXTRA_LEN <= Len(text) THEN e + EXTRA_LEN ELSE Len(text)
<1>1. m \in Nat /\ b <= m /\ m <= Len(text)
  OBVIOUS
<1> HIDE DEF m
<1>2. Len(SubSeq(text, b + 1, m)) = m - b
  BY <1>1
<1>3. \A i \in 1..m - b : SubSeq(text, b + 1, m)[i] = text[b + i]
  BY <1>1
<1>4. SubSeq(text, b + 1, m) \in Seq(Byte)
  BY <1>1
<1>5. Download(b, e) = SubSeq(text, b + 1, m)
  BY DEF Download, m
<1>6. m - b \in Nat
  BY <1>1
<1>7. \/ m - b = e + EXTRA_LEN - b /\ e + EXTRA_LEN <= Len(text)
      \/ m - b = Len(text) - b /\ Len(text) < e + EXTRA_LEN
  BY DEF m
<1> QED BY <1>2, <1>3, <1>4, <1>5, <1>6, <1>7

\* The loop over the head of a piece stops at Stop(b), if the download does not end
\* before.
LEMMA HeadStopIs ==
    ASSUME EXTRA_LEN \in Nat, text \in Seq(Byte),
           NEW b \in Nat, NEW e \in Nat, b <= e, e <= Len(text)
    PROVE  HeadStop(Download(b, e)) = Min(Gap(b))
<1> DEFINE coll == Download(b, e)
<1>1. {i \in 0..EXTRA_LEN : i = EXTRA_LEN \/ i >= Len(coll) \/ IsDelimiter(At(coll, i))} = Gap(b)
  <2>1. ASSUME NEW i \in 0..EXTRA_LEN
        PROVE  (i = EXTRA_LEN \/ i >= Len(coll) \/ IsDelimiter(At(coll, i)))
               <=> (i = EXTRA_LEN \/ b + i >= Len(text) \/ text[b + i + 1] = Delimiter)
    <3>1. CASE i < EXTRA_LEN /\ i < Len(coll)
      <4>1. i + 1 \in 1..Len(coll) /\ b + i < Len(text)
        BY <3>1, DownloadIs
      <4>2. coll[i + 1] = text[b + i + 1]
        BY <4>1, DownloadIs
      <4> QED BY <3>1, <4>1, <4>2 DEF IsDelimiter, At
    <3>2. CASE i < EXTRA_LEN /\ i >= Len(coll)
      <4>1. /\ Len(text) \in Nat /\ Len(coll) \in Nat
            /\ Len(coll) = e + EXTRA_LEN - b \/ Len(coll) = Len(text) - b
        BY DownloadIs
      <4> HIDE DEF coll
      <4>2. b + i >= Len(text)
        BY <3>2, <4>1
      <4> QED BY <3>2, <4>2
    <3>3. CASE i = EXTRA_LEN
      BY <3>3
    <3> QED BY <3>1, <3>2, <3>3, DownloadIs
  <2> QED BY <2>1 DEF Gap
<1> QED BY <1>1 DEF HeadStop

\* What the head of a piece becomes.
Headless(b, e) == IF b # 0 THEN BlankHead(Download(b, e)) ELSE Download(b, e)

\* The loop over the tail of a piece stops at Stop(e), if the loop over its head has
\* not gone past the end of the piece.
LEMMA TailStopIs ==
    ASSUME EXTRA_LEN \in Nat, text \in Seq(Byte),
           NEW b \in Nat, NEW e \in Nat, b < e, e <= Len(text),
           b # 0 => Min(Gap(b)) <= e - b,
           Len(Download(b, e)) > e - b
    PROVE  LET coll == Headless(b, e)
           IN  Min({i \in e - b..Len(coll) : i = Len(coll) \/ IsDelimiter(At(coll, i))})
                   = e - b + Min(Gap(e))
<1> DEFINE d == Download(b, e)
           coll == Headless(b, e)
           S == {i \in e - b..Len(coll) : i = Len(coll) \/ IsDelimiter(At(coll, i))}
           m == Min(Gap(e))
<1>1. /\ d \in Seq(Byte) /\ Len(d) \in Nat
      /\ \/ Len(d) = e + EXTRA_LEN - b /\ e + EXTRA_LEN <= Len(text)
         \/ Len(d) = Len(text) - b /\ Len(text) < e + EXTRA_LEN
      /\ \A i \in 1..Len(d) : d[i] = text[b + i]
  BY DownloadIs
<1>2. e < Len(text) /\ EXTRA_LEN > 0
  BY <1>1
<1>3. b # 0 => HeadStop(d) \in Nat /\ HeadStop(d) <= e - b
  <2>1. HeadStop(d) = Min(Gap(b))
    BY HeadStopIs
  <2>2. Min(Gap(b)) \in 0..EXTRA_LEN
    <3>1. b \in 0..Len(text)
      OBVIOUS
    <3> QED BY <3>1, GapMin
  <2> QED BY <2>1, <2>2, <1>2
<1>4. /\ coll \in Seq(Byte) /\ Len(coll) = Len(d)
      /\ \A i \in 1..Len(d) : i > e - b => coll[i] = text[b + i]
  <2>1. CASE b = 0
    BY <2>1, <1>1 DEF Headless
  <2>2. CASE b # 0
    <3>1. coll = [i \in 1..Len(d) |-> IF i <= HeadStop(d) THEN Delimiter ELSE d[i]]
      BY <2>2, <1>1 DEF Headless, BlankHead
    <3>2. \A i \in 1..Len(d) : (IF i <= HeadStop(d) THEN Delimiter ELSE d[i]) \in Byte
      BY <1>1 DEF Byte
    <3>3. coll \in Seq(Byte) /\ Len(coll) = Len(d)
      BY <3>1, <3>2, <1>1
    <3> QED BY <3>1, <3>3, <1>1, <1>3, <2>2
  <2> QED BY <2>1, <2>2
<1>5. /\ m \in 0..EXTRA_LEN
      /\ e + m <= Len(text)
      /\ m = EXTRA_LEN \/ e + m = Len(text) \/ (e + m < Len(text) /\ text[e + m + 1] = Delimiter)
      /\ \A i \in 0..m - 1 : i < EXTRA_LEN /\ e + i < Len(text) /\ text[e + i + 1] # Delimiter
  BY <1>2, GapMin
<1> HIDE DEF coll, d, m
<1>sizes. /\ Len(text) \in Nat /\ Len(coll) \in Nat /\ m \in Nat
       /\ e - b \in Nat /\ e - b + m <= Len(coll)
  BY <1>1, <1>4, <1>5
<1>6. e - b + m \in S
  <2>1. e - b + m \in e - b..Len(coll)
    BY <1>sizes
  <2>2. CASE e - b + m = Len(coll)
    BY <2>1, <2>2
  <2>3. CASE e - b + m < Len(coll)
    <3>1. text[e + m + 1] = Delimiter
      <4>1. e + m < Len(text) /\ m # EXTRA_LEN
        <5>1. e - b + m < Len(d) /\ Len(d) \in Nat /\ m \in Nat /\ EXTRA_LEN \in Nat /\ e \in Nat /\ b \in Nat
          BY <2>3, <1>1, <1>4, <1>5
        <5>2. Len(d) <= e + EXTRA_LEN - b /\ Len(d) <= Len(text) - b
          BY <1>1, <1>sizes
        <5> QED BY <5>1, <5>2, <1>sizes
      <4> QED BY <4>1, <1>5
    <3>2. e - b + m + 1 \in 1..Len(d) /\ e - b + m + 1 > e - b /\ b + (e - b + m + 1) = e + m + 1
      BY <2>3, <1>1, <1>4, <1>5
    <3>3. coll[e - b + m + 1] = Delimiter
      BY <3>1, <3>2, <1>4
    <3> QED BY <2>1, <3>3 DEF IsDelimiter, At
  <2> QED BY <2>2, <2>3, <1>sizes
<1>7. ASSUME NEW i \in S PROVE e - b + m <= i
  <2>1. SUFFICES ASSUME i < e - b + m PROVE FALSE
    BY <1>1, <1>4, <1>5
  <2>2. i \in Nat /\ i >= e - b /\ i < Len(d)
    BY <2>1, <1>1, <1>4, <1>5
  <2>3. coll[i + 1] = Delimiter
    BY <2>2, <1>4 DEF IsDelimiter, At
  <2>4. i + 1 \in 1..Len(d) /\ i + 1 > e - b /\ b + (i + 1) = e + (i - (e - b)) + 1
    <3>1. Len(d) \in Nat /\ e - b \in Nat
      BY <1>1, <1>sizes
    <3>2. b + (i + 1) = e + (i - (e - b)) + 1
      BY <2>2
    <3> QED BY <2>2, <3>1, <3>2
  <2>5. text[e + (i - (e - b)) + 1] = Delimiter
    <3>1. coll[i + 1] = text[b + (i + 1)]
      BY <2>4, <1>4
    <3>2. QED
      BY <2>3, <2>4, <3>1, Zenon
  <2>6. i - (e - b) \in 0..m - 1
    BY <2>1, <2>2, <1>5
  <2> QED BY <2>5, <2>6, <1>5
<1>8. S \subseteq Nat /\ S # {}
  BY <1>6, <1>4, <1>1
<1>9. Min(S) \in S /\ \A y \in S : Min(S) <= y
  BY <1>8, MinOfNats
<1>10. Min(S) = e - b + m
  BY <1>6, <1>7, <1>8, <1>9
<1> QED BY <1>10 DEF coll, m

\* Where the loops stop: inside the blob, after bytes that are no delimiters, and at
\* a delimiter or the end of the blob if no run is too long.
LEMMA StopIs ==
    ASSUME EXTRA_LEN \in Nat, text \in Seq(Byte), NEW b \in 0..Len(text)
    PROVE  /\ Stop(b) \in b..Len(text)
           /\ \A q \in b..Stop(b) - 1 : text[q + 1] # Delimiter
           /\ ShortRuns /\ b # 0 => Stop(b) = Len(text) \/ text[Stop(b) + 1] = Delimiter
           /\ b # 0 => Stop(b) = b + Min(Gap(b))
<1>0. Len(text) \in Nat
  OBVIOUS
<1>1. CASE b = 0
  BY <1>0, <1>1 DEF Stop
<1>2. CASE b # 0
  <2> DEFINE m == Min(Gap(b))
  <2>1. /\ m \in 0..EXTRA_LEN
        /\ b + m <= Len(text)
        /\ m = EXTRA_LEN \/ b + m = Len(text) \/ (b + m < Len(text) /\ text[b + m + 1] = Delimiter)
        /\ \A i \in 0..m - 1 : i < EXTRA_LEN /\ b + i < Len(text) /\ text[b + i + 1] # Delimiter
    BY GapMin
  <2>2. Stop(b) = b + m
    BY <1>2 DEF Stop
  <2> HIDE DEF m
  <2>3. ASSUME NEW q \in b..Stop(b) - 1 PROVE text[q + 1] # Delimiter
    <3>1. q - b \in 0..m - 1 /\ b + (q - b) + 1 = q + 1
      BY <2>1, <2>2
    <3> QED BY <2>1, <3>1
  <2>4. ASSUME ShortRuns, Stop(b) # Len(text) PROVE text[Stop(b) + 1] = Delimiter
    <3>1. CASE m = EXTRA_LEN
      <4>1. b + 1 \in 1..Len(text) - EXTRA_LEN
        BY <1>0, <2>1, <2>2, <2>4, <3>1
      <4>2. PICK i \in b + 1..(b + 1) + EXTRA_LEN : text[i] = Delimiter
        BY <2>4, <4>1 DEF ShortRuns, IsDelimiter
      <4>3. CASE i = b + 1 + EXTRA_LEN
        BY <2>1, <2>2, <3>1, <4>2, <4>3
      <4>4. CASE i # b + 1 + EXTRA_LEN
        <5>1. i - 1 \in b..Stop(b) - 1 /\ (i - 1) + 1 = i
          BY <2>1, <2>2, <3>1, <4>2, <4>4
        <5>2. text[(i - 1) + 1] # Delimiter
          BY <2>3, <5>1
        <5> QED BY <4>2, <5>1, <5>2
      <4> QED BY <4>3, <4>4
    <3>2. CASE m # EXTRA_LEN
      BY <1>0, <2>1, <2>2, <2>4, <3>2
    <3> QED BY <3>1, <3>2
  <2> QED BY <1>0, <1>2, <2>1, <2>2, <2>3, <2>4 DEF m
<1> QED BY <1>1, <1>2

\* The copy of piece [b, e) is the blob from b to Stop(e), blank before Stop(b).
Copies(c, b, e) ==
    /\ Stop(b) <= Stop(e)
    /\ Len(c) = Stop(e) - b /\ DOMAIN c = 1..Stop(e) - b
    /\ \A i \in 1..Stop(e) - b : c[i] = IF b + i <= Stop(b) THEN Delimiter ELSE text[b + i]

\* A local copy is that, or there is none because nothing follows Stop(b).
LEMMA CopyShape ==
    ASSUME EXTRA_LEN \in Nat, text \in Seq(Byte),
           NEW b \in Nat, NEW e \in Nat, b < e, e <= Len(text),
           b # 0 /\ Len(Download(b, e)) > e - b => Min(Gap(b)) <= e - b
    PROVE  \/ LocalCopy(b, e) = <<>> /\ Stop(b) = Len(text)
           \/ Copies(LocalCopy(b, e), b, e)
<1> DEFINE d == Download(b, e)
           h == IF b = 0 THEN 0 ELSE Min(Gap(b))
           m == Min(Gap(e))
<1>1. /\ d \in Seq(Byte) /\ Len(d) \in Nat /\ Len(text) \in Nat
      /\ \/ Len(d) = e + EXTRA_LEN - b /\ e + EXTRA_LEN <= Len(text)
         \/ Len(d) = Len(text) - b /\ Len(text) < e + EXTRA_LEN
      /\ \A i \in 1..Len(d) : d[i] = text[b + i]
  <2>1. b <= e /\ Len(text) \in Nat
    OBVIOUS
  <2> QED BY <2>1, DownloadIs
<1>2. b \in 0..Len(text) /\ e \in 0..Len(text) /\ e # 0
  OBVIOUS
<1>3. /\ m \in 0..EXTRA_LEN
      /\ e + m <= Len(text)
      /\ m = EXTRA_LEN \/ e + m = Len(text) \/ (e + m < Len(text) /\ text[e + m + 1] = Delimiter)
      /\ \A i \in 0..m - 1 : i < EXTRA_LEN /\ e + i < Len(text) /\ text[e + i + 1] # Delimiter
  BY <1>2, GapMin
<1>4. /\ h \in 0..EXTRA_LEN
      /\ b + h <= Len(text)
      /\ b # 0 => HeadStop(d) = h
      /\ \A i \in 0..h - 1 : i < EXTRA_LEN /\ b + i < Len(text) /\ text[b + i + 1] # Delimiter
  <2>1. CASE b = 0
    BY <2>1, <1>1
  <2>2. CASE b # 0
    BY <2>2, <1>2, GapMin, HeadStopIs
  <2> QED BY <2>1, <2>2
<1>5. Stop(b) = b + h /\ Stop(e) = e + m
  BY <1>2 DEF Stop
<1> HIDE DEF d, h, m
<1>6. ASSUME NEW c, NEW n \in Nat, n <= Len(d), b + n = e + m, h <= n,
             Len(c) = n, DOMAIN c = 1..n,
             \A i \in 1..n : c[i] = IF i <= h THEN Delimiter ELSE d[i]
      PROVE  Copies(c, b, e)
  <2>1. n = Stop(e) - b /\ Stop(b) <= Stop(e)
    BY <1>3, <1>4, <1>5, <1>6
  <2>2. ASSUME NEW i \in 1..n PROVE c[i] = IF b + i <= Stop(b) THEN Delimiter ELSE text[b + i]
    <3>1. i \in 1..Len(d) /\ (i <= h <=> b + i <= Stop(b))
      BY <1>1, <1>4, <1>5, <1>6
    <3> QED BY <1>1, <1>6, <3>1
  <2> QED BY <1>6, <2>1, <2>2 DEF Copies
<1>7. CASE b # 0 /\ Throws(d)
  <2>1. h < EXTRA_LEN /\ h >= Len(d)
    BY <1>7, <1>4 DEF Throws
  <2>2. Len(d) = Len(text) - b /\ b + h = Len(text)
    BY <2>1, <1>1, <1>4
  <2>3. LocalCopy(b, e) = <<>>
    BY <1>7 DEF LocalCopy, d
  <2> QED BY <2>2, <2>3, <1>5
<1>8. CASE ~(b # 0 /\ Throws(d))
  <2> DEFINE coll == Headless(b, e)
  <2>1. LocalCopy(b, e) = CutTail(coll, e - b)
    BY <1>8, Zenon DEF LocalCopy, Headless, d
  <2>2. /\ coll \in Seq(Byte) /\ Len(coll) = Len(d) /\ DOMAIN coll = 1..Len(d)
        /\ \A i \in 1..Len(d) : coll[i] = IF i <= h THEN Delimiter ELSE d[i]
    <3>1. CASE b = 0
      <4>1. h = 0 /\ coll = d
        BY <3>1 DEF Headless, h, d
      <4> QED BY <4>1, <1>1
    <3>2. CASE b # 0
      <4>1. coll = [i \in 1..Len(d) |-> IF i <= h THEN Delimiter ELSE d[i]]
        BY <3>2, <1>1, <1>4 DEF Headless, BlankHead, d
      <4>2. \A i \in 1..Len(d) : (IF i <= h THEN Delimiter ELSE d[i]) \in Byte
        BY <1>1 DEF Byte
      <4> QED BY <4>1, <4>2, <1>1
    <3> QED BY <3>1, <3>2
  <2>3. h <= Len(d)
    BY <1>1, <1>4, <1>8 DEF Throws
  <2>4. CASE Len(d) <= e - b
    <3>1. LocalCopy(b, e) = coll
      BY <2>1, <2>2, <2>4 DEF CutTail
    <3>2. e + m = b + Len(d)
      <4>1. m \in Nat /\ m <= EXTRA_LEN /\ e + m <= Len(text)
        BY <1>3
      <4>2. CASE Len(d) = e + EXTRA_LEN - b
        BY <2>4, <4>1, <4>2
      <4>3. CASE Len(d) = Len(text) - b
        <5>1. Len(text) \in Nat
          BY <1>1
        <5>2. Len(text) = e
          BY <2>4, <4>3, <5>1
        <5>3. m = 0
          BY <4>1, <5>2
        <5> QED BY <4>3, <5>2, <5>3
      <4>4. Len(d) = e + EXTRA_LEN - b \/ Len(d) = Len(text) - b
        BY <1>1, Zenon
      <4> QED BY <4>2, <4>3, <4>4, Zenon
    <3>4. Len(d) <= Len(d) /\ b + Len(d) = e + m
      BY <3>2, <1>1, <1>3
    <3> HIDE DEF coll
    <3>3. Copies(coll, b, e)
      <4> DEFINE n == Len(d)
      <4>1. /\ n \in Nat /\ n <= Len(d) /\ b + n = e + m /\ h <= n
            /\ Len(coll) = n /\ DOMAIN coll = 1..n
            /\ \A i \in 1..n : coll[i] = IF i <= h THEN Delimiter ELSE d[i]
        BY <3>4, <2>2, <2>3, <1>1
      <4> HIDE DEF n
      <4> QED BY <4>1, <1>6
    <3> QED BY <3>1, <3>3
  <2>5. CASE Len(d) > e - b
    <3> DEFINE n == e - b + m
               c == SubSeq(coll, 1, n)
    <3>1. Min({i \in e - b..Len(coll) : i = Len(coll) \/ IsDelimiter(At(coll, i))}) = n
      BY <2>5, TailStopIs DEF d, m
    <3>2. LocalCopy(b, e) = c
      <4>1. ~(Len(coll) <= e - b)
        BY <2>2, <2>5, <1>1
      <4> HIDE DEF coll, n
      <4> QED BY <2>1, <3>1, <4>1 DEF CutTail
    <3>3. n \in Nat /\ n <= Len(d) /\ b + n = e + m /\ h <= n
      <4>0. m \in Nat /\ m <= EXTRA_LEN /\ e + m <= Len(text)
        BY <1>3
      <4>a. e - b \in Nat /\ b + (e - b) = e
        OBVIOUS
      <4>b. e - b + m <= Len(d)
        BY <4>0, <1>1
      <4>1. n \in Nat /\ n <= Len(d) /\ b + n = e + m
        BY <4>0, <4>a, <4>b, <1>1
      <4>2. h <= e - b
        BY <2>5 DEF h, d
      <4> QED BY <4>1, <4>2, <1>3, <1>4
    <3> HIDE DEF n, coll
    <3>4. Len(c) = n /\ DOMAIN c = 1..n /\ \A i \in 1..n : c[i] = coll[i]
      BY <2>2, <3>3
    <3>5. \A i \in 1..n : c[i] = IF i <= h THEN Delimiter ELSE d[i]
      BY <2>2, <3>3, <3>4
    <3> HIDE DEF c
    <3>6. Copies(c, b, e)
      BY <3>3, <3>4, <3>5, <1>6
    <3> QED BY <3>2, <3>6
  <2> QED BY <2>4, <2>5, <1>1
<1> QED BY <1>7, <1>8

\* A piece keeps the bytes from Stop(b) to Stop(e).
LEMMA KeptRange ==
    ASSUME EXTRA_LEN \in Nat, text \in Seq(Byte),
           NEW b \in Nat, NEW e \in Nat, b < e, e <= Len(text),
           b = 0 \/ e - b >= EXTRA_LEN \/ e = Len(text)
    PROVE  KeptBytes(LocalCopy(b, e), b)
               = {p \in 0..Len(text) - 1 : Stop(b) <= p /\ p < Stop(e)}
<1> DEFINE c == LocalCopy(b, e)
<1>0. b \in 0..Len(text) /\ e \in 0..Len(text) /\ Len(text) \in Nat
  OBVIOUS
<1>1. /\ Stop(b) \in b..Len(text) /\ Stop(e) \in e..Len(text)
      /\ \A q \in b..Stop(b) - 1 : text[q + 1] # Delimiter
  BY <1>0, StopIs
<1>2. (c = <<>> /\ Stop(b) = Len(text)) \/ Copies(c, b, e)
  <2>1. b # 0 /\ Len(Download(b, e)) > e - b => Min(Gap(b)) <= e - b
    <3>1. Min(Gap(b)) \in 0..EXTRA_LEN
      BY <1>0, GapMin
    <3>2. \/ Len(Download(b, e)) = e + EXTRA_LEN - b /\ e + EXTRA_LEN <= Len(text)
          \/ Len(Download(b, e)) = Len(text) - b /\ Len(text) < e + EXTRA_LEN
      BY DownloadIs
    <3> QED BY <1>0, <3>1, <3>2
  <2> QED BY <2>1, CopyShape
<1>3. CASE c = <<>> /\ Stop(b) = Len(text)
  <2>1. KeptBytes(c, b) = {}
    <3>1. DOMAIN c = {}
      BY <1>3
    <3> HIDE DEF c
    <3> QED BY <3>1 DEF KeptBytes
  <2> QED BY <1>0, <1>1, <1>3, <2>1
<1>4. CASE Copies(c, b, e)
  <2> HIDE DEF c
  <2> DEFINE n == Stop(e) - b
  <2>1. n \in Nat /\ DOMAIN c = 1..n /\ Stop(b) <= Stop(e)
        /\ \A i \in 1..n : c[i] = IF b + i <= Stop(b) THEN Delimiter ELSE text[b + i]
    BY <1>0, <1>1, <1>4 DEF Copies
  <2>2. ASSUME NEW i \in 1..n PROVE c[i] = text[b + i] <=> b + i > Stop(b)
    <3>1. CASE b + i <= Stop(b)
      <4>1. b + i - 1 \in b..Stop(b) - 1 /\ (b + i - 1) + 1 = b + i
        BY <1>1, <2>1, <3>1
      <4>2. text[(b + i - 1) + 1] # Delimiter
        BY <1>1, <4>1
      <4>3. text[b + i] # Delimiter /\ ~(b + i > Stop(b))
        BY <1>1, <3>1, <4>1, <4>2
      <4> QED BY <2>1, <3>1, <4>3
    <3>2. CASE ~(b + i <= Stop(b))
      BY <1>1, <2>1, <3>2
    <3> QED BY <3>1, <3>2
  <2>3. KeptBytes(c, b) = {b + i - 1 : i \in {i \in 1..n : b + i > Stop(b)}}
    BY <2>1, <2>2 DEF KeptBytes
  <2>4. ASSUME NEW p \in 0..Len(text) - 1, Stop(b) <= p, p < Stop(e)
        PROVE  p \in KeptBytes(c, b)
    <3>1. p - b + 1 \in 1..n /\ b + (p - b + 1) > Stop(b) /\ b + (p - b + 1) - 1 = p
      BY <1>0, <1>1, <2>1, <2>4
    <3> QED BY <2>3, <3>1
  <2>5. ASSUME NEW i \in 1..n, b + i > Stop(b)
        PROVE  b + i - 1 \in 0..Len(text) - 1 /\ Stop(b) <= b + i - 1 /\ b + i - 1 < Stop(e)
    BY <1>0, <1>1, <2>1, <2>5
  <2> QED BY <2>3, <2>4, <2>5 DEF c
<1> QED BY <1>2, <1>3, <1>4

-------------------------------------------------------------------------------
\* The pieces mapped so far have kept the bytes before Stop(begin), once each.  A
\* piece that is not the first or the last has shard_sz bytes.
KeptInv ==
    shard_sz >= EXTRA_LEN =>
        \A p \in 0..Len(text) - 1 : kept[p] = IF p < Stop(begin) THEN 1 ELSE 0

IInv ==
    /\ text \in Seq(Byte) /\ EXTRA_LEN \in Nat
    /\ shard_sz \in Nat \ {0}
    /\ begin \in Nat /\ end \in Nat
    /\ begin <= end /\ end <= Len(text)
    /\ begin < Len(text) => begin < end
    /\ begin = 0 \/ end - begin = shard_sz \/ end = Len(text)
    /\ kept \in [0..Len(text) - 1 -> Nat]
    /\ KeptInv

LEMMA InitIInv == Init => IInv
BY WordBoundaryAssumption DEF Init, IInv, KeptInv, Least, Stop

LEMMA NextIInv == IInv /\ [Next]_vars => IInv'
<1> SUFFICES ASSUME IInv, [Next]_vars PROVE IInv'
  OBVIOUS
<1>1. CASE MapPiece
  <2> DEFINE K == KeptBytes(LocalCopy(begin, end), begin)
  <2>1. /\ begin < Len(text) /\ begin' = end /\ end' = Least(end + shard_sz, Len(text))
        /\ text' = text /\ shard_sz' = shard_sz
        /\ kept' = [p \in DOMAIN kept |-> kept[p] + IF p \in K THEN 1 ELSE 0]
    BY <1>1 DEF MapPiece
  <2> HIDE DEF K
  <2>2. /\ DOMAIN kept = 0..Len(text) - 1 /\ Len(text) \in Nat
        /\ \A p \in 0..Len(text) - 1 : kept[p] \in Nat
    BY DEF IInv
  <2>3. /\ begin' \in Nat /\ end' \in Nat /\ begin' <= end' /\ end' <= Len(text)
        /\ begin' < Len(text) => begin' < end'
        /\ end' - begin' = shard_sz \/ end' = Len(text)
    BY <2>1, <2>2 DEF IInv, Least
  <2>4. kept' \in [0..Len(text) - 1 -> Nat]
    BY <2>1, <2>2
  <2>5. ASSUME shard_sz >= EXTRA_LEN, NEW p \in 0..Len(text) - 1
        PROVE  kept'[p] = IF p < Stop(end) THEN 1 ELSE 0
    <3>1. begin = 0 \/ end - begin >= EXTRA_LEN \/ end = Len(text)
      BY <2>5 DEF IInv
    <3>2. K = {q \in 0..Len(text) - 1 : Stop(begin) <= q /\ q < Stop(end)}
      BY <3>1, <2>1, KeptRange DEF IInv, K
    <3>3. Stop(begin) \in Nat /\ Stop(end) \in Nat /\ Stop(begin) <= Stop(end)
      <4>1. begin \in 0..Len(text) /\ end \in 0..Len(text) /\ end # 0
        BY <2>1, <2>2 DEF IInv
      <4>2. Min(Gap(end)) \in Nat /\ Min(Gap(begin)) \in 0..EXTRA_LEN
            /\ begin + Min(Gap(begin)) <= Len(text)
        BY <4>1, GapMin DEF IInv
      <4>3. Stop(end) = end + Min(Gap(end))
        BY <4>1 DEF Stop
      <4>4. CASE begin = 0
        BY <4>1, <4>2, <4>3, <4>4 DEF Stop, IInv
      <4>5. CASE begin # 0
        <5>1. Stop(begin) = begin + Min(Gap(begin))
          BY <4>5 DEF Stop
        <5> QED BY <5>1, <4>1, <4>2, <4>3, <3>1, <4>5, <2>2 DEF IInv
      <4> QED BY <4>4, <4>5
    <3>4. kept[p] = IF p < Stop(begin) THEN 1 ELSE 0
      BY <2>5 DEF IInv, KeptInv
    <3>5. kept'[p] = kept[p] + IF p \in K THEN 1 ELSE 0
      BY <2>1, <2>2
    <3> QED BY <3>2, <3>3, <3>4, <3>5
  <2>6. Stop(begin)' = Stop(end)
    BY <2>1 DEF Stop, Gap
  <2>7. KeptInv'
    BY <2>1, <2>5, <2>6 DEF KeptInv
  <2>8. /\ (text \in Seq(Byte) /\ EXTRA_LEN \in Nat)'
        /\ (shard_sz \in Nat \ {0})'
        /\ (kept \in [0..Len(text) - 1 -> Nat])'
    BY <2>1, <2>4, Zenon DEF IInv
  <2>9. /\ (begin <= end /\ end <= Len(text))'
        /\ (begin < Len(text) => begin < end)'
        /\ (begin = 0 \/ end - begin = shard_sz \/ end = Len(text))'
    BY <2>1, <2>3, Zenon
  <2> QED BY <2>3, <2>7, <2>8, <2>9, Zenon DEF IInv
<1>2. CASE Done \/ UNCHANGED vars
  <2>1. /\ text' = text /\ shard_sz' = shard_sz /\ begin' = begin
        /\ end' = end /\ kept' = kept
    BY <1>2 DEF Done, vars
  <2>2. Stop(begin)' = Stop(begin)
    BY <2>1 DEF Stop, Gap
  <2>3. KeptInv'
    BY <2>1, <2>2 DEF IInv, KeptInv
  <2> QED BY <2>1, <2>3, Zenon DEF IInv
<1> QED BY <1>1, <1>2 DEF Next

\* fix_word_boundary gives every byte of a blob to exactly one piece, for every blob,
\* every cut with shards of at least EXTRA_LEN bytes, and every value of EXTRA_LEN.
THEOREM BytesKeptOnce == Spec => []EveryByteOnce
<1>1. IInv => EveryByteOnce
  <2> SUFFICES ASSUME IInv, shard_sz >= EXTRA_LEN, NEW p \in DOMAIN kept
               PROVE  kept[p] <= 1 /\ (begin = Len(text) => kept[p] = 1)
    BY DEF EveryByteOnce
  <2>1. p \in 0..Len(text) - 1 /\ kept[p] = IF p < Stop(begin) THEN 1 ELSE 0
    BY DEF IInv, KeptInv
  <2>2. ASSUME begin = Len(text) PROVE p < Stop(begin)
    <3>1. begin \in 0..Len(text) /\ begin # 0
      BY <2>1, <2>2 DEF IInv
    <3>2. Min(Gap(begin)) \in Nat
      BY <3>1, GapMin DEF IInv
    <3> QED BY <2>1, <2>2, <3>1, <3>2 DEF Stop, IInv
  <2> QED BY <2>1, <2>2
<1> QED BY <1>1, InitIInv, NextIInv, PTL DEF Spec

-------------------------------------------------------------------------------
(* Words.  If no run is too long, the loops stop only at delimiters, so that  *)
(* no word lies on both sides of such a place.                                *)

\* What a copy has of the blob, whatever the size of its piece: a piece whose first
\* word ends after the piece itself does is all blank.
LEMMA CopyOfShortRuns ==
    ASSUME EXTRA_LEN \in Nat, text \in Seq(Byte), ShortRuns,
           NEW b \in Nat, NEW e \in Nat, b < e, e <= Len(text)
    PROVE  LET c == LocalCopy(b, e) IN
           /\ Len(c) \in Nat /\ DOMAIN c = 1..Len(c)
           /\ \A i \in 1..Len(c) :
                 c[i] = IF Stop(b) < b + i /\ b + i <= Stop(e) THEN text[b + i] ELSE Delimiter
           /\ \A i \in Nat : Stop(b) < b + i /\ b + i <= Stop(e) => i \in 1..Len(c)
           /\ Stop(b) <= Stop(e)
<1> DEFINE c == LocalCopy(b, e)
<1>0. b \in 0..Len(text) /\ e \in 0..Len(text) /\ e # 0 /\ Len(text) \in Nat
  OBVIOUS
<1>1. /\ Stop(b) \in b..Len(text) /\ Stop(e) \in e..Len(text)
      /\ b # 0 => Stop(b) = Len(text) \/ text[Stop(b) + 1] = Delimiter
      /\ b # 0 => Stop(b) = b + Min(Gap(b))
      /\ Stop(e) = e + Min(Gap(e))
  BY <1>0, StopIs
<1>2. Stop(b) <= Stop(e)
  <2>1. CASE Stop(b) <= e
    BY <1>0, <1>1, <2>1
  <2>2. CASE ~(Stop(b) <= e)
    <3>1. b # 0
      BY <1>0, <2>2 DEF Stop
    <3>2. Stop(e) \in Nat /\ \A q \in e..Stop(e) - 1 : text[q + 1] # Delimiter
      BY <1>0, <1>1, StopIs
    <3>3. Stop(b) - e \in Nat
      BY <1>0, <1>1, <2>2
    <3>4. CASE Stop(b) = Len(text)
      <4>1. Min(Gap(b)) \in 0..EXTRA_LEN
        BY <1>0, GapMin
      <4>2. \A q \in b..Stop(b) - 1 : text[q + 1] # Delimiter
        BY <1>0, StopIs
      <4>3. CASE Stop(e) = Len(text)
        BY <1>0, <3>4, <4>3
      <4>4. CASE Stop(e) # Len(text)
        <5>1. text[Stop(e) + 1] = Delimiter
          BY <1>0, <4>4, StopIs
        <5>2. Stop(e) \in b..Stop(b) - 1
          BY <1>0, <1>1, <3>4, <4>4
        <5> QED BY <4>2, <5>1, <5>2
      <4> QED BY <4>3, <4>4
    <3>5. CASE Stop(b) # Len(text)
      <4>1. text[Stop(b) + 1] = Delimiter
        BY <1>1, <3>1, <3>5
      <4>2. \A q \in b..Stop(b) - 1 : text[q + 1] # Delimiter
        BY <1>0, StopIs
      <4>3. SUFFICES ASSUME Stop(e) < Stop(b) PROVE FALSE
        BY <1>0, <1>1
      <4>4. Stop(e) \in b..Stop(b) - 1 /\ Stop(e) # Len(text)
        BY <1>0, <1>1, <4>3
      <4>5. text[Stop(e) + 1] = Delimiter
        BY <1>0, <4>4, StopIs
      <4> QED BY <4>2, <4>4, <4>5
    <3> QED BY <3>4, <3>5
  <2> QED BY <2>1, <2>2
<1>3. CASE b # 0 /\ Len(Download(b, e)) > e - b /\ ~(Min(Gap(b)) <= e - b)
  <2> DEFINE d == Download(b, e)
             h == Min(Gap(b))
             coll == BlankHead(d)
             S == {i \in e - b..Len(coll) : i = Len(coll) \/ IsDelimiter(At(coll, i))}
  <2>1. /\ d \in Seq(Byte) /\ Len(d) \in Nat
        /\ \/ Len(d) = e + EXTRA_LEN - b /\ e + EXTRA_LEN <= Len(text)
           \/ Len(d) = Len(text) - b /\ Len(text) < e + EXTRA_LEN
        /\ \A i \in 1..Len(d) : d[i] = text[b + i]
    BY DownloadIs
  <2>2. h \in Nat /\ h = HeadStop(d) /\ h > e - b /\ b + h <= Len(text)
    <3>1. h \in 0..EXTRA_LEN /\ b + h <= Len(text)
      BY <1>0, GapMin
    <3>2. h = HeadStop(d)
      BY HeadStopIs
    <3>3. h > e - b
      BY <1>3, <3>1
    <3> QED BY <3>1, <3>2, <3>3
  <2> HIDE DEF d, h
  <2>3. /\ coll \in Seq(Byte) /\ Len(coll) = Len(d)
        /\ \A i \in 1..Len(d) : i <= h => coll[i] = Delimiter
    <3>1. coll = [i \in 1..Len(d) |-> IF i <= h THEN Delimiter ELSE d[i]]
      BY <2>1, <2>2 DEF BlankHead
    <3>2. \A i \in 1..Len(d) : (IF i <= h THEN Delimiter ELSE d[i]) \in Byte
      BY <2>1 DEF Byte
    <3>3. coll \in Seq(Byte) /\ Len(coll) = Len(d)
      BY <2>1, <3>1, <3>2
    <3> QED BY <3>1, <3>3
  <2>4. CASE Throws(d)
    <3>1. c = <<>>
      BY <1>3, <2>4 DEF LocalCopy, d
    <3>2. h >= Len(d)
      BY <2>2, <2>4 DEF Throws
    <3>3. Stop(b) = b + h
      BY <1>1, <1>3 DEF h
    <3>4. Stop(b) = Len(text)
      <4>1. h < EXTRA_LEN
        BY <2>2, <2>4 DEF Throws
      <4> QED BY <1>0, <2>1, <2>2, <3>2, <3>3, <4>1
    <3>5. Len(c) = 0 /\ DOMAIN c = 1..Len(c)
      BY <3>1
    <3>6. \A i \in Nat : ~(Stop(b) < b + i /\ b + i <= Stop(e))
      BY <1>0, <1>1, <3>4
    <3> QED BY <1>2, <3>5, <3>6
  <2>5. CASE ~Throws(d)
    <3> HIDE DEF coll
    <3>1. e - b \in S /\ e - b \in Nat /\ e - b < Len(d)
      <4>1. e - b \in Nat /\ e - b < Len(d)
        BY <1>3, <2>1 DEF d
      <4>2. (e - b) + 1 \in 1..Len(d) /\ (e - b) + 1 <= h
        BY <2>1, <2>2, <4>1
      <4>3. coll[(e - b) + 1] = Delimiter
        BY <2>3, <4>2
      <4> QED BY <2>1, <2>3, <4>1, <4>3 DEF IsDelimiter, At
    <3>2. Min(S) = e - b
      <4>1. S \subseteq Nat /\ S # {}
        BY <2>1, <2>3, <3>1
      <4>2. Min(S) \in S /\ \A y \in S : Min(S) <= y
        BY <4>1, MinOfNats
      <4>3. Min(S) <= e - b /\ Min(S) >= e - b /\ Min(S) \in Nat
        BY <2>1, <2>3, <3>1, <4>2
      <4> QED BY <3>1, <4>3
    <3>3. c = SubSeq(coll, 1, e - b)
      <4>1. c = CutTail(coll, e - b)
        BY <1>3, <2>5, Zenon DEF LocalCopy, d, coll
      <4>2. ~(Len(coll) <= e - b)
        BY <2>1, <2>3, <3>1
      <4> HIDE DEF c
      <4> QED BY <3>2, <4>1, <4>2 DEF CutTail
    <3> HIDE DEF c
    <3>4. Len(c) = e - b /\ DOMAIN c = 1..Len(c) /\ \A i \in 1..Len(c) : c[i] = coll[i]
      BY <2>1, <2>3, <3>1, <3>3
    <3>5. Stop(b) = b + h
      BY <1>1, <1>3 DEF h
    <3>6. ASSUME NEW i \in 1..Len(c) PROVE c[i] = Delimiter /\ ~(Stop(b) < b + i)
      <4>1. i \in 1..Len(d) /\ i <= h
        BY <2>1, <2>2, <3>1, <3>4
      <4> QED BY <2>2, <2>3, <3>4, <3>5, <4>1
    <3>7. Stop(e) <= Stop(b)
      <4>1. h \in 0..EXTRA_LEN /\ h - (e - b) \in 0..EXTRA_LEN /\ e + (h - (e - b)) = b + h
        <5>1. h \in 0..EXTRA_LEN
          BY <1>0, GapMin DEF h
        <5> QED BY <2>2, <5>1
      <4>2. h - (e - b) \in Gap(e)
        <5>1. CASE Stop(b) = Len(text)
          BY <1>0, <3>5, <4>1, <5>1 DEF Gap
        <5>2. CASE Stop(b) # Len(text)
          BY <1>1, <1>3, <3>5, <4>1, <5>2 DEF Gap
        <5> QED BY <5>1, <5>2
      <4>3. Gap(e) \subseteq Nat
        BY DEF Gap
      <4>4. Min(Gap(e)) <= h - (e - b) /\ Min(Gap(e)) \in Nat
        BY <4>2, <4>3, MinOfNats
      <4> QED BY <1>1, <2>2, <3>5, <4>1, <4>4
    <3>8. \A i \in Nat : ~(Stop(b) < b + i /\ b + i <= Stop(e))
      BY <1>0, <1>1, <3>7
    <3> QED BY <1>2, <3>1, <3>4, <3>6, <3>8 DEF c
  <2> QED BY <2>4, <2>5
<1>4. CASE ~(b # 0 /\ Len(Download(b, e)) > e - b /\ ~(Min(Gap(b)) <= e - b))
  <2>1. (c = <<>> /\ Stop(b) = Len(text)) \/ Copies(c, b, e)
    BY <1>4, CopyShape
  <2>2. CASE c = <<>> /\ Stop(b) = Len(text)
    <3>1. Len(c) = 0 /\ DOMAIN c = 1..Len(c)
      BY <2>2
    <3>2. \A i \in Nat : ~(Stop(b) < b + i /\ b + i <= Stop(e))
      BY <1>0, <1>1, <2>2
    <3> QED BY <1>2, <3>1, <3>2
  <2>3. CASE Copies(c, b, e)
    <3> HIDE DEF c
    <3>1. /\ Len(c) = Stop(e) - b /\ DOMAIN c = 1..Stop(e) - b /\ Stop(e) - b \in Nat
          /\ \A i \in 1..Stop(e) - b : c[i] = IF b + i <= Stop(b) THEN Delimiter ELSE text[b + i]
      BY <1>0, <1>1, <2>3 DEF Copies
    <3>2. ASSUME NEW i \in 1..Len(c)
          PROVE  c[i] = IF Stop(b) < b + i /\ b + i <= Stop(e) THEN text[b + i] ELSE Delimiter
      <4>1. b + i <= Stop(e) /\ (Stop(b) < b + i <=> ~(b + i <= Stop(b)))
        BY <1>0, <1>1, <3>1
      <4> QED BY <3>1, <4>1
    <3>3. \A i \in Nat : Stop(b) < b + i /\ b + i <= Stop(e) => i \in 1..Len(c)
      BY <1>0, <1>1, <3>1
    <3> QED BY <1>2, <3>1, <3>2, <3>3 DEF c
  <2> QED BY <2>1, <2>2, <2>3
<1> QED BY <1>3, <1>4

\* A maximal run of letters of coll, which holds the blob's bytes from o on: the
\* bytes from s to t.
Run(coll, o, s, t) ==
    /\ s >= o /\ s < t /\ t <= o + Len(coll)
    /\ \A q \in s + 1..t : coll[q - o] = Letter
    /\ s = o \/ coll[s - o] # Letter
    /\ t = o + Len(coll) \/ coll[t - o + 1] # Letter

\* The words map.py finds.
LEMMA WordsAre ==
    ASSUME NEW coll, Len(coll) \in Nat, DOMAIN coll = 1..Len(coll), NEW o \in Nat
    PROVE  Words(coll, o) = {w \in Nat \X Nat : Run(coll, o, w[1], w[2])}
<1> DEFINE n == Len(coll)
           runs == {r \in (1..n) \X (1..n) :
                       /\ r[1] <= r[2]
                       /\ \A x \in r[1]..r[2] : coll[x] = Letter
                       /\ r[1] = 1 \/ coll[r[1] - 1] # Letter
                       /\ r[2] = n \/ coll[r[2] + 1] # Letter}
<1>1. Words(coll, o) = {<<o + r[1] - 1, o + r[2]>> : r \in runs}
  BY Zenon DEF Words
<1>2. ASSUME NEW r \in runs
      PROVE  <<o + r[1] - 1, o + r[2]>> \in {w \in Nat \X Nat : Run(coll, o, w[1], w[2])}
  <2> DEFINE s == o + r[1] - 1
             t == o + r[2]
  <2>1. /\ r[1] \in 1..n /\ r[2] \in 1..n /\ r[1] <= r[2]
        /\ \A x \in r[1]..r[2] : coll[x] = Letter
        /\ r[1] = 1 \/ coll[r[1] - 1] # Letter
        /\ r[2] = n \/ coll[r[2] + 1] # Letter
    OBVIOUS
  <2>2. s - o = r[1] - 1 /\ t - o + 1 = r[2] + 1
    BY <2>1
  <2>3. ASSUME NEW q \in s + 1..t PROVE coll[q - o] = Letter
    <3>1. q - o \in r[1]..r[2]
      BY <2>1
    <3> QED BY <2>1, <3>1
  <2>4. s \in Nat /\ t \in Nat /\ s >= o /\ s < t /\ t <= o + n
    BY <2>1
  <2>5. s = o \/ coll[s - o] # Letter
    BY <2>1, <2>2
  <2>6. t = o + n \/ coll[t - o + 1] # Letter
    BY <2>1, <2>2
  <2> HIDE DEF s, t
  <2>7. Run(coll, o, s, t)
    BY <2>3, <2>4, <2>5, <2>6 DEF Run
  <2>8. <<s, t>> \in {w \in Nat \X Nat : Run(coll, o, w[1], w[2])}
    <3> HIDE DEF n, runs
    <3> QED BY <2>4, <2>7
  <2> QED BY <2>8 DEF s, t
<1>3. ASSUME NEW w \in Nat \X Nat, Run(coll, o, w[1], w[2])
      PROVE  w \in {<<o + r[1] - 1, o + r[2]>> : r \in runs}
  <2> DEFINE a == w[1] - o + 1
             z == w[2] - o
  <2>1. /\ w[1] \in Nat /\ w[2] \in Nat /\ w = <<w[1], w[2]>>
        /\ w[1] >= o /\ w[1] < w[2] /\ w[2] <= o + n
        /\ \A q \in w[1] + 1..w[2] : coll[q - o] = Letter
        /\ w[1] = o \/ coll[w[1] - o] # Letter
        /\ w[2] = o + n \/ coll[w[2] - o + 1] # Letter
    BY <1>3 DEF Run
  <2>2. a \in 1..n /\ z \in 1..n /\ a <= z /\ a - 1 = w[1] - o
    BY <2>1
  <2>3. ASSUME NEW x \in a..z PROVE coll[x] = Letter
    <3>1. x + o \in w[1] + 1..w[2] /\ (x + o) - o = x
      BY <2>1
    <3> QED BY <2>1, <3>1
  <2>4. a = 1 \/ coll[a - 1] # Letter
    BY <2>1, <2>2
  <2>5. z = n \/ coll[z + 1] # Letter
    BY <2>1, <2>2
  <2>6. o + a - 1 = w[1] /\ o + z = w[2]
    BY <2>1
  <2> HIDE DEF a, z
  <2>7. <<a, z>> \in runs
    BY <2>2, <2>3, <2>4, <2>5
  <2> HIDE DEF runs
  <2>8. <<o + <<a, z>>[1] - 1, o + <<a, z>>[2]>> = w
    BY <2>1, <2>6
  <2> QED BY <2>7, <2>8
<1> HIDE DEF runs
<1> QED BY <1>1, <1>2, <1>3

\* The words of a copy are those of the blob that begin between the two stops.
LEMMA RunsOfCopy ==
    ASSUME EXTRA_LEN \in Nat, text \in Seq(Byte), ShortRuns,
           NEW b \in Nat, NEW e \in Nat, b < e, e <= Len(text),
           NEW s \in Nat, NEW t \in Nat
    PROVE  Run(LocalCopy(b, e), b, s, t)
               <=> Run(text, 0, s, t) /\ Stop(b) <= s /\ s < Stop(e)
<1> DEFINE c == LocalCopy(b, e)
<1>0. b \in 0..Len(text) /\ e \in 0..Len(text) /\ e # 0 /\ Len(text) \in Nat
  OBVIOUS
<1>1. /\ Len(c) \in Nat
      /\ \A i \in 1..Len(c) :
            c[i] = IF Stop(b) < b + i /\ b + i <= Stop(e) THEN text[b + i] ELSE Delimiter
      /\ \A i \in Nat : Stop(b) < b + i /\ b + i <= Stop(e) => i \in 1..Len(c)
      /\ Stop(b) <= Stop(e)
  BY CopyOfShortRuns
<1>2. /\ Stop(b) \in Nat /\ b <= Stop(b) /\ Stop(b) <= Len(text)
      /\ Stop(e) \in Nat /\ e <= Stop(e) /\ Stop(e) <= Len(text)
  BY <1>0, StopIs
<1>3. (Stop(b) = b /\ b = 0) \/ Stop(b) = Len(text) \/ text[Stop(b) + 1] # Letter
  BY <1>0, StopIs DEF Stop, Delimiter, Letter
<1>4. Stop(e) = Len(text) \/ text[Stop(e) + 1] # Letter
  BY <1>0, StopIs DEF Delimiter, Letter
<1> HIDE DEF c
<1> DEFINE B == Stop(b)
           E == Stop(e)
           N == Len(text)
<1>5. ASSUME NEW q \in Nat, q > b, q <= b + Len(c)
      PROVE  /\ c[q - b] = Letter => B < q /\ q <= E /\ text[q] = Letter
             /\ B < q /\ q <= E => c[q - b] = text[q]
             /\ ~(B < q /\ q <= E) => c[q - b] # Letter
  <2>1. q - b \in 1..Len(c) /\ b + (q - b) = q
    BY <1>1, <1>5
  <2>2. c[q - b] = IF B < q /\ q <= E THEN text[q] ELSE Delimiter
    BY <1>1, <2>1
  <2> HIDE DEF B, E
  <2> QED BY <2>2 DEF Delimiter, Letter
<1>6. ASSUME NEW q \in Nat, B < q, q <= E PROVE q > b /\ q <= b + Len(c)
  <2>1. q - b \in Nat /\ b + (q - b) = q
    BY <1>2, <1>6
  <2>2. q - b \in 1..Len(c)
    BY <1>1, <1>6, <2>1
  <2> QED BY <1>1, <2>2
<1>7. B \in Nat /\ E \in Nat /\ N \in Nat /\ b <= B /\ B <= E /\ E <= N
  BY <1>0, <1>1, <1>2
<1>8. /\ (B = b /\ b = 0) \/ B = N \/ text[B + 1] # Letter
      /\ E = N \/ text[E + 1] # Letter
  BY <1>3, <1>4
<1>9. Len(c) \in Nat
  BY <1>1
<1> HIDE DEF B, E, N
<1>10. ASSUME Run(c, b, s, t)
       PROVE  Run(text, 0, s, t) /\ B <= s /\ s < E
  <2>1. /\ s >= b /\ s < t /\ t <= b + Len(c)
        /\ \A q \in s + 1..t : c[q - b] = Letter
        /\ s = b \/ c[s - b] # Letter
        /\ t = b + Len(c) \/ c[t - b + 1] # Letter
    BY <1>10 DEF Run
  <2>2. ASSUME NEW q \in s + 1..t PROVE B < q /\ q <= E /\ text[q] = Letter
    <3>1. q \in Nat /\ q > b /\ q <= b + Len(c)
      BY <1>9, <2>1
    <3>2. c[q - b] = Letter
      BY <2>1
    <3> QED BY <1>5, <3>1, <3>2
  <2>3. s + 1 \in s + 1..t /\ t \in s + 1..t
    BY <2>1
  <2>4. B <= s /\ t <= E /\ s < E /\ t <= N /\ s < N
    BY <1>7, <2>2, <2>3
  <2>5. text[s + 1] = Letter
    BY <2>2, <2>3
  <2>6. s = 0 \/ text[s] # Letter
    <3>1. CASE s = B
      BY <1>7, <1>8, <2>4, <2>5, <3>1
    <3>2. CASE s # B
      <4>1. s > B /\ s <= E /\ s > b /\ s <= b + Len(c)
        BY <1>7, <1>9, <2>1, <2>4, <3>2
      <4>2. c[s - b] = text[s]
        BY <1>5, <4>1
      <4> QED BY <2>1, <4>1, <4>2, <1>7
    <3> QED BY <3>1, <3>2
  <2>7. t = N \/ text[t + 1] # Letter
    <3>1. CASE t = E
      BY <1>8, <3>1
    <3>2. CASE t # E
      <4>1. t + 1 \in Nat /\ t + 1 > B /\ t + 1 <= E
        BY <1>7, <2>1, <2>4, <3>2
      <4>2. t + 1 > b /\ t + 1 <= b + Len(c)
        BY <1>6, <4>1
      <4>3. c[(t + 1) - b] = text[t + 1]
        BY <1>5, <4>1, <4>2
      <4>4. (t + 1) - b = t - b + 1 /\ t # b + Len(c)
        BY <1>9, <4>2
      <4> QED BY <2>1, <4>3, <4>4
    <3> QED BY <3>1, <3>2
  <2>8. \A q \in s + 1..t : text[q - 0] = Letter
    BY <2>2
  <2>9. s - 0 = s /\ t - 0 + 1 = t + 1
    OBVIOUS
  <2> QED BY <2>1, <2>4, <2>6, <2>7, <2>8, <2>9, <1>7 DEF Run, N
<1>11. ASSUME Run(text, 0, s, t), B <= s, s < E
       PROVE  Run(c, b, s, t)
  <2>1. /\ s < t /\ t <= N
        /\ \A q \in s + 1..t : text[q] = Letter
        /\ s = 0 \/ text[s] # Letter
        /\ t = N \/ text[t + 1] # Letter
    <3>1. \A q \in s + 1..t : q - 0 = q
      OBVIOUS
    <3>2. s - 0 = s /\ t - 0 + 1 = t + 1 /\ 0 + N = N
      BY <1>7
    <3> QED BY <1>11, <3>1, <3>2 DEF Run, N
  <2>2. t <= E
    <3>1. SUFFICES ASSUME E < t PROVE FALSE
      BY <1>7
    <3>2. E + 1 \in s + 1..t /\ E # N
      BY <1>7, <1>11, <2>1, <3>1
    <3> QED BY <1>8, <2>1, <3>2
  <2>3. ASSUME NEW q \in s + 1..t
        PROVE  q > b /\ q <= b + Len(c) /\ c[q - b] = Letter
    <3>1. q \in Nat /\ B < q /\ q <= E
      BY <1>7, <1>11, <2>2
    <3>2. q > b /\ q <= b + Len(c)
      BY <1>6, <3>1
    <3> QED BY <1>5, <2>1, <3>1, <3>2
  <2>4. s >= b /\ t <= b + Len(c) /\ t \in s + 1..t
    <3>1. t \in s + 1..t
      BY <2>1
    <3> QED BY <1>7, <1>11, <2>3, <3>1
  <2>5. s = b \/ c[s - b] # Letter
    <3>1. CASE s = b
      BY <3>1
    <3>2. CASE s # b
      <4>1. s > b /\ s <= b + Len(c)
        BY <1>9, <2>1, <2>4, <3>2
      <4>2. CASE s = B
        BY <1>5, <1>7, <4>1, <4>2
      <4>3. CASE s # B
        <5>1. B < s /\ s <= E /\ s # 0
          BY <1>7, <1>11, <4>3
        <5> QED BY <1>5, <2>1, <4>1, <5>1
      <4> QED BY <4>2, <4>3
    <3> QED BY <3>1, <3>2
  <2>6. t = b + Len(c) \/ c[t - b + 1] # Letter
    <3>1. SUFFICES ASSUME t # b + Len(c) PROVE c[t - b + 1] # Letter
      OBVIOUS
    <3>2. t + 1 \in Nat /\ t + 1 > b /\ t + 1 <= b + Len(c) /\ (t + 1) - b = t - b + 1
      BY <1>9, <2>1, <2>4, <3>1
    <3>3. CASE t = E
      <4>1. ~(t + 1 <= E)
        BY <1>7, <3>3
      <4> QED BY <1>5, <3>2, <4>1
    <3>4. CASE t # E
      <4>1. B < t + 1 /\ t + 1 <= E /\ t # N
        BY <1>7, <1>11, <2>1, <2>2, <3>4
      <4> QED BY <1>5, <2>1, <3>2, <4>1
    <3> QED BY <3>3, <3>4
  <2>7. \A q \in s + 1..t : c[q - b] = Letter
    BY <2>3
  <2> QED BY <2>1, <2>4, <2>5, <2>6, <2>7 DEF Run
<1> QED BY <1>10, <1>11 DEF B, E, c

LEMMA WordsOfCopy ==
    ASSUME EXTRA_LEN \in Nat, text \in Seq(Byte), ShortRuns,
           NEW b \in Nat, NEW e \in Nat, b < e, e <= Len(text)
    PROVE  Words(LocalCopy(b, e), b)
               = {w \in Words(text, 0) : Stop(b) <= w[1] /\ w[1] < Stop(e)}
<1> DEFINE c == LocalCopy(b, e)
<1>1. Len(c) \in Nat /\ DOMAIN c = 1..Len(c)
  BY CopyOfShortRuns
<1>2. Words(c, b) = {w \in Nat \X Nat : Run(c, b, w[1], w[2])}
  <2> HIDE DEF c
  <2> QED BY <1>1, WordsAre
<1>3. Words(text, 0) = {w \in Nat \X Nat : Run(text, 0, w[1], w[2])}
  BY WordsAre
<1>4. ASSUME NEW w \in Nat \X Nat
      PROVE  Run(c, b, w[1], w[2])
                 <=> Run(text, 0, w[1], w[2]) /\ Stop(b) <= w[1] /\ w[1] < Stop(e)
  <2>1. w[1] \in Nat /\ w[2] \in Nat
    OBVIOUS
  <2> QED BY <2>1, RunsOfCopy
<1> HIDE DEF c
<1>5. Words(c, b) = {w \in Words(text, 0) : Stop(b) <= w[1] /\ w[1] < Stop(e)}
  BY <1>2, <1>3, <1>4
<1> QED BY <1>5 DEF c

\* The words counted so far are those that begin before Stop(begin), once each.
WordsInv ==
    ShortRuns =>
        /\ DOMAIN counted = {w \in Words(text, 0) : w[1] < Stop(begin)}
        /\ \A w \in DOMAIN counted : counted[w] = 1

LEMMA WordsInit == Init => WordsInv
<1> SUFFICES ASSUME Init PROVE WordsInv
  OBVIOUS
<1>1. text \in Seq(Byte) /\ Stop(begin) = 0 /\ DOMAIN counted = {}
  BY WordBoundaryAssumption DEF Init, Stop
<1>2. \A w \in Words(text, 0) : w[1] \in Nat
  <2>1. Words(text, 0) = {w \in Nat \X Nat : Run(text, 0, w[1], w[2])}
    BY <1>1, WordsAre
  <2> QED BY <2>1
<1> QED BY <1>1, <1>2 DEF WordsInv

LEMMA WordsNext == IInv /\ WordsInv /\ [Next]_vars => WordsInv'
<1> SUFFICES ASSUME IInv, WordsInv, [Next]_vars PROVE WordsInv'
  OBVIOUS
<1>1. CASE MapPiece
  <2> DEFINE new == Words(LocalCopy(begin, end), begin)
             all == Words(text, 0)
  <2>1. /\ begin < Len(text) /\ begin' = end /\ text' = text
        /\ counted' = Count(new)
    BY <1>1 DEF MapPiece
  <2>2. Stop(begin)' = Stop(end) /\ Words(text, 0)' = all /\ (ShortRuns' <=> ShortRuns)
    BY <2>1 DEF Stop, Gap, ShortRuns
  <2>3. SUFFICES ASSUME ShortRuns
                 PROVE  /\ DOMAIN counted' = {w \in all : w[1] < Stop(end)}
                        /\ \A w \in DOMAIN counted' : counted'[w] = 1
    <3> HIDE DEF new, all
    <3> QED BY <2>2 DEF WordsInv
  <2>4. new = {w \in all : Stop(begin) <= w[1] /\ w[1] < Stop(end)}
    BY <2>1, <2>3, WordsOfCopy DEF IInv
  <2>5. \A w \in all : w[1] \in Nat
    <3>1. all = {w \in Nat \X Nat : Run(text, 0, w[1], w[2])}
      BY WordsAre DEF IInv
    <3> QED BY <3>1
  <2>6. Stop(begin) \in Nat /\ Stop(end) \in Nat /\ Stop(begin) <= Stop(end)
    <3>1. begin \in 0..Len(text) /\ end \in 0..Len(text)
      BY DEF IInv
    <3>2. Stop(begin) \in Nat /\ Stop(end) \in Nat
      BY <3>1, StopIs DEF IInv
    <3>3. Stop(begin) <= Stop(end)
      BY <2>1, <2>3, CopyOfShortRuns DEF IInv
    <3> QED BY <3>2, <3>3
  <2>7. /\ DOMAIN counted = {w \in all : w[1] < Stop(begin)}
        /\ \A w \in DOMAIN counted : counted[w] = 1
    BY <2>3 DEF WordsInv
  <2> HIDE DEF new, all
  <2>8. counted' = [w \in DOMAIN counted \cup new |->
            (IF w \in DOMAIN counted THEN counted[w] ELSE 0) + (IF w \in new THEN 1 ELSE 0)]
    BY <2>1 DEF Count
  <2>9. DOMAIN counted \cup new = {w \in all : w[1] < Stop(end)}
    BY <2>4, <2>5, <2>6, <2>7
  <2>10. DOMAIN counted \cap new = {}
    BY <2>4, <2>5, <2>6, <2>7
  <2>11. ASSUME NEW w \in DOMAIN counted \cup new PROVE counted'[w] = 1
    BY <2>7, <2>8, <2>10
  <2> QED BY <2>8, <2>9, <2>11
<1>2. CASE Done \/ UNCHANGED vars
  <2>1. text' = text /\ begin' = begin /\ counted' = counted
    BY <1>2 DEF Done, vars
  <2>2. Stop(begin)' = Stop(begin) /\ Words(text, 0)' = Words(text, 0) /\ (ShortRuns' <=> ShortRuns)
    BY <2>1 DEF Stop, Gap, ShortRuns
  <2> QED BY <2>1, <2>2 DEF WordsInv
<1> QED BY <1>1, <1>2 DEF Next

\* However small the pieces are, each word of a blob is counted once and whole, for
\* every blob that has a delimiter among any EXTRA_LEN + 1 bytes in a row.
THEOREM WordsCountedOnce == Spec => []WordsOnce
<1>1. IInv /\ WordsInv => WordsOnce
  <2> SUFFICES ASSUME IInv, WordsInv, ShortRuns, begin = Len(text)
               PROVE  DOMAIN counted = Words(text, 0) /\ \A w \in DOMAIN counted : counted[w] = 1
    BY DEF WordsOnce
  <2>1. Stop(begin) = Len(text)
    <3>1. begin \in 0..Len(text) /\ Len(text) \in Nat
      BY DEF IInv
    <3>2. Stop(begin) \in begin..Len(text)
      BY <3>1, StopIs DEF IInv
    <3> QED BY <3>1, <3>2
  <2>2. \A w \in Words(text, 0) : w[1] < Len(text)
    <3>1. Words(text, 0) = {w \in Nat \X Nat : Run(text, 0, w[1], w[2])}
      BY WordsAre DEF IInv
    <3>2. Len(text) \in Nat
      BY DEF IInv
    <3> QED BY <3>1, <3>2 DEF Run
  <2> QED BY <2>1, <2>2 DEF WordsInv
<1> QED BY <1>1, InitIInv, NextIInv, WordsInit, WordsNext, PTL DEF Spec
===============================================================================
