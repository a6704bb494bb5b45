--------------------------- MODULE LineEditorProofs ---------------------------
(* Theorems about LineEditor, for every dictionary, page, listing of whole   *)
(* names, sizes of the buffers and the history, and every number of keys: no *)
(* key tears a character, the candidates are those of the letters, no letter *)
(* is lost, a completion changes its word only unless the line outgrows its  *)
(* buffer, and a saved history is recalled.                                  *)
(* A line is looked at in two parts, before the caret and after it: a key    *)
(* keeps both whole or joins whole characters to the first. Bytes of a       *)
(* character still to come are counted as if they were there (Due), so that  *)
(* the line is whole in between as well.                                     *)
EXTENDS LineEditor, SequenceTheorems, WellFoundedInduction, TLAPS

-----------------------------------------------------------------------------
(* Sequences: what the library's theorems say of lines *)

\* A line cut in two
LEMMA CutParts ==
  ASSUME NEW s \in Line, NEW c \in 0..Len(s)
  PROVE  LET a == SubSeq(s, 1, c)
             b == SubSeq(s, c + 1, Len(s))
         IN /\ a \in Line /\ Len(a) = c /\ \A i \in 1..c : a[i] = s[i]
            /\ b \in Line /\ Len(b) = Len(s) - c /\ \A i \in 1..Len(b) : b[i] = s[c + i]
            /\ s = a \o b
<1> DEFINE a == SubSeq(s, 1, c)
           b == SubSeq(s, c + 1, Len(s))
<1>1. c \in Nat /\ Len(s) \in Nat /\ s \in Seq(Bytes)
  BY DEF Line
<1>2. a \in Line /\ Len(a) = c /\ \A i \in 1..c : a[i] = s[i]
  BY <1>1, SubSeqProperties DEF Line
<1>3. b \in Line /\ Len(b) = Len(s) - c /\ \A i \in 1..Len(b) : b[i] = s[c + i]
  BY <1>1, SubSeqProperties DEF Line
<1>4. s = a \o b
  <2> HIDE DEF a, b
  <2>1. a \in Seq(Bytes) /\ b \in Seq(Bytes)
    BY <1>2, <1>3 DEF Line
  <2>2. a \o b \in Seq(Bytes) /\ Len(a \o b) = Len(s)
    <3>1. a \o b \in Seq(Bytes) /\ Len(a \o b) = Len(a) + Len(b)
      BY <2>1, ConcatProperties
    <3>2. Len(a) + Len(b) = Len(s)
      BY <1>1, <1>2, <1>3
    <3>3. QED BY <3>1, <3>2
  <2>3. \A i \in 1..Len(s) : (a \o b)[i] = s[i]
    <3>1. TAKE i \in 1..Len(s)
    <3>2. CASE i <= c
      BY <1>1, <1>2, <1>3, <2>1, <3>2, ConcatProperties
    <3>3. CASE i > c
      <4>1. i - c \in 1..Len(b) /\ c + (i - c) = i
        BY <1>1, <1>3, <3>3
      <4>2. (a \o b)[i] = b[i - c]
        BY <1>1, <1>2, <1>3, <2>1, <3>3, ConcatProperties
      <4>3. QED BY <1>3, <4>1, <4>2
    <3>4. i <= c \/ i > c
      BY <1>1
    <3>5. QED BY <3>2, <3>3, <3>4
  <2>4. QED BY <1>1, <2>2, <2>3, SeqEqual
<1>5. QED BY <1>2, <1>3, <1>4

\* Two lines joined
LEMMA JoinParts ==
  ASSUME NEW a \in Line, NEW b \in Line
  PROVE  /\ a \o b \in Line /\ Len(a \o b) = Len(a) + Len(b)
         /\ \A i \in 1..Len(a) : (a \o b)[i] = a[i]
         /\ \A i \in 1..Len(b) : (a \o b)[Len(a) + i] = b[i]
<1>1. a \in Seq(Bytes) /\ b \in Seq(Bytes) /\ Len(a) \in Nat /\ Len(b) \in Nat
  BY DEF Line
<1>2. /\ a \o b \in Seq(Bytes) /\ Len(a \o b) = Len(a) + Len(b)
      /\ \A i \in 1..(Len(a) + Len(b)) : (a \o b)[i] = IF i <= Len(a) THEN a[i] ELSE b[i - Len(a)]
  BY <1>1, ConcatProperties
<1>3. ASSUME NEW i \in 1..Len(b) PROVE (a \o b)[Len(a) + i] = b[i]
  <2>1. Len(a) + i \in 1..(Len(a) + Len(b)) /\ ~(Len(a) + i <= Len(a)) /\ (Len(a) + i) - Len(a) = i
    BY <1>1
  <2>2. QED BY <1>2, <2>1
<1>4. QED BY <1>1, <1>2, <1>3 DEF Line

\* What was joined comes apart again.
LEMMA JoinCut ==
  ASSUME NEW a \in Line, NEW b \in Line
  PROVE  SubSeq(a \o b, 1, Len(a)) = a /\ SubSeq(a \o b, Len(a) + 1, Len(a \o b)) = b
<1> DEFINE s == a \o b
           c == Len(a)
<1>1. /\ s \in Line /\ Len(s) = Len(a) + Len(b) /\ a \in Seq(Bytes) /\ b \in Seq(Bytes)
      /\ \A i \in 1..Len(a) : s[i] = a[i]
      /\ \A i \in 1..Len(b) : s[Len(a) + i] = b[i]
  BY JoinParts DEF Line
<1>2. c \in 0..Len(s) /\ c = Len(a) /\ Len(b) \in Nat
  BY <1>1
<1> HIDE DEF s
<1>3. /\ SubSeq(s, 1, c) \in Seq(Bytes) /\ Len(SubSeq(s, 1, c)) = c
      /\ \A i \in 1..c : SubSeq(s, 1, c)[i] = s[i]
      /\ SubSeq(s, c + 1, Len(s)) \in Seq(Bytes) /\ Len(SubSeq(s, c + 1, Len(s))) = Len(s) - c
      /\ \A i \in 1..Len(SubSeq(s, c + 1, Len(s))) : SubSeq(s, c + 1, Len(s))[i] = s[c + i]
  BY <1>1, <1>2, CutParts DEF Line
<1>4. SubSeq(s, 1, c) = a
  BY <1>1, <1>2, <1>3, SeqEqual
<1>5. Len(SubSeq(s, c + 1, Len(s))) = Len(b)
  BY <1>1, <1>2, <1>3
<1>6. \A i \in 1..Len(b) : SubSeq(s, c + 1, Len(s))[i] = b[i]
  BY <1>1, <1>2, <1>3, <1>5
<1>7. SubSeq(s, c + 1, Len(s)) = b
  BY <1>1, <1>3, <1>5, <1>6, SeqEqual
<1>8. QED BY <1>4, <1>7 DEF s

\* Three lines are joined in either order.
LEMMA JoinOrder ==
  ASSUME NEW a \in Line, NEW b \in Line, NEW d \in Line
  PROVE  (a \o b) \o d = a \o (b \o d)
  BY ConcatAssociative DEF Line

\* An empty line joins to nothing.
LEMMA JoinEmpty == ASSUME NEW a \in Line PROVE a \o <<>> = a /\ <<>> \o a = a
  BY ConcatEmptySeq DEF Line

\* No bytes and one byte are lines.
LEMMA ShortLines ==
  /\ <<>> \in Line /\ Len(<<>>) = 0
  /\ \A b \in Bytes : <<b>> \in Line /\ Len(<<b>>) = 1 /\ <<b>>[1] = b
  BY DEF Line

-----------------------------------------------------------------------------
(* Whole characters *)

\* A line of whole characters, and a place between two of a line's characters
Sound(s) == s \in Line /\ WellFormed(s)
Boundary(s, c) == c = Len(s) \/ ~IsCont(s[c + 1])

\* Lines of whole characters are joined at such a place.
LEMMA JoinIsSound ==
  ASSUME NEW a, NEW b, Sound(a), Sound(b)
  PROVE  Sound(a \o b) /\ Boundary(a \o b, Len(a))
<1> DEFINE s == a \o b
           n == Len(a)
           m == Len(b)
<1>1. /\ s \in Line /\ Len(s) = n + m /\ n \in Nat /\ m \in Nat
      /\ \A i \in 1..n : s[i] = a[i]
      /\ \A i \in 1..m : s[n + i] = b[i]
      /\ DOMAIN s = 1..(n + m) /\ DOMAIN a = 1..n /\ DOMAIN b = 1..m
  BY JoinParts DEF Sound, Line
<1>2. /\ \A i \in 1..n :
           /\ a[i] = "L" => i + 2 <= n /\ a[i + 1] = "C" /\ a[i + 2] = "C"
           /\ a[i] = "C" => (i > 1 /\ a[i - 1] = "L") \/ (i > 2 /\ a[i - 2] = "L")
      /\ \A i \in 1..m :
           /\ b[i] = "L" => i + 2 <= m /\ b[i + 1] = "C" /\ b[i + 2] = "C"
           /\ b[i] = "C" => (i > 1 /\ b[i - 1] = "L") \/ (i > 2 /\ b[i - 2] = "L")
  BY <1>1 DEF Sound, WellFormed, IsCont
<1> HIDE DEF s, n, m
<1>3. ASSUME NEW i \in 1..(n + m)
      PROVE  /\ s[i] = "L" => i + 2 <= n + m /\ s[i + 1] = "C" /\ s[i + 2] = "C"
             /\ s[i] = "C" => (i > 1 /\ s[i - 1] = "L") \/ (i > 2 /\ s[i - 2] = "L")
  <2>1. CASE i <= n
    <3>1. i \in 1..n /\ s[i] = a[i]
      BY <1>1, <2>1
    <3>2. ASSUME s[i] = "L" PROVE i + 2 <= n + m /\ s[i + 1] = "C" /\ s[i + 2] = "C"
      <4>1. i + 2 <= n /\ a[i + 1] = "C" /\ a[i + 2] = "C"
        BY <1>2, <3>1, <3>2
      <4>2. i + 1 \in 1..n /\ i + 2 \in 1..n
        BY <1>1, <3>1, <4>1
      <4>3. QED BY <1>1, <4>1, <4>2
    <3>3. ASSUME s[i] = "C" PROVE (i > 1 /\ s[i - 1] = "L") \/ (i > 2 /\ s[i - 2] = "L")
      <4>1. (i > 1 /\ a[i - 1] = "L") \/ (i > 2 /\ a[i - 2] = "L")
        BY <1>2, <3>1, <3>3
      <4>2. (i > 1 => i - 1 \in 1..n) /\ (i > 2 => i - 2 \in 1..n)
        BY <1>1, <3>1
      <4>3. QED BY <1>1, <4>1, <4>2
    <3>4. QED BY <3>2, <3>3
  <2>2. CASE i > n
    <3> DEFINE j == i - n
    <3>1. j \in 1..m /\ n + j = i
      BY <1>1, <2>2
    <3> HIDE DEF j
    <3>2. s[i] = b[j]
      BY <1>1, <3>1
    <3>3. ASSUME s[i] = "L" PROVE i + 2 <= n + m /\ s[i + 1] = "C" /\ s[i + 2] = "C"
      <4>1. j + 2 <= m /\ b[j + 1] = "C" /\ b[j + 2] = "C"
        BY <1>2, <3>1, <3>2, <3>3
      <4>2. j + 1 \in 1..m /\ j + 2 \in 1..m /\ n + (j + 1) = i + 1 /\ n + (j + 2) = i + 2
        BY <1>1, <3>1, <4>1
      <4>3. s[n + (j + 1)] = b[j + 1] /\ s[n + (j + 2)] = b[j + 2]
        BY <1>1, <4>2
      <4>4. QED BY <1>1, <3>1, <4>1, <4>2, <4>3
    <3>4. ASSUME s[i] = "C" PROVE (i > 1 /\ s[i - 1] = "L") \/ (i > 2 /\ s[i - 2] = "L")
      <4>1. (j > 1 /\ b[j - 1] = "L") \/ (j > 2 /\ b[j - 2] = "L")
        BY <1>2, <3>1, <3>2, <3>4
      <4>2. /\ j > 1 => j - 1 \in 1..m /\ n + (j - 1) = i - 1 /\ i > 1
            /\ j > 2 => j - 2 \in 1..m /\ n + (j - 2) = i - 2 /\ i > 2
        BY <1>1, <3>1
      <4>3. /\ j > 1 => s[n + (j - 1)] = b[j - 1]
            /\ j > 2 => s[n + (j - 2)] = b[j - 2]
        BY <1>1, <4>2
      <4>4. QED BY <4>1, <4>2, <4>3
    <3>5. QED BY <3>3, <3>4
  <2>3. QED BY <1>1, <2>1, <2>2
<1>4. Sound(s)
  BY <1>1, <1>3 DEF Sound, WellFormed, IsCont
<1>5. Boundary(s, n)
  <2>1. CASE m = 0
    BY <1>1, <2>1 DEF Boundary
  <2>2. CASE m > 0
    <3>1. 1 \in 1..m /\ ~(1 > 1) /\ ~(1 > 2)
      BY <1>1, <2>2
    <3>2. b[1] # "C"
      BY <1>2, <3>1
    <3>3. s[n + 1] = b[1]
      BY <1>1, <3>1
    <3>4. QED BY <3>2, <3>3 DEF Boundary, IsCont
  <2>3. QED BY <1>1, <2>1, <2>2
<1>6. QED BY <1>4, <1>5 DEF s, n

\* A line cut between two characters gives two lines of whole characters.
LEMMA CutIsSound ==
  ASSUME NEW s, Sound(s), NEW c \in 0..Len(s), Boundary(s, c)
  PROVE  Sound(SubSeq(s, 1, c)) /\ Sound(SubSeq(s, c + 1, Len(s)))
<1> DEFINE a == SubSeq(s, 1, c)
           b == SubSeq(s, c + 1, Len(s))
           k == Len(s)
           m == Len(b)
<1>1. /\ s \in Line /\ k \in Nat /\ c \in Nat /\ c <= k /\ m = k - c /\ m \in Nat /\ Len(b) = m
      /\ a \in Line /\ Len(a) = c /\ \A i \in 1..c : a[i] = s[i]
      /\ b \in Line /\ \A i \in 1..m : b[i] = s[c + i]
      /\ DOMAIN s = 1..k /\ DOMAIN a = 1..c /\ DOMAIN b = 1..m
  BY CutParts DEF Sound, Line
<1>2. \A i \in 1..k :
           /\ s[i] = "L" => i + 2 <= k /\ s[i + 1] = "C" /\ s[i + 2] = "C"
           /\ s[i] = "C" => (i > 1 /\ s[i - 1] = "L") \/ (i > 2 /\ s[i - 2] = "L")
  BY <1>1 DEF Sound, WellFormed, IsCont
<1>3. c = k \/ s[c + 1] # "C"
  BY DEF Boundary, IsCont
<1> HIDE DEF a, b, k, m
<1>4. ASSUME NEW i \in 1..c
      PROVE  /\ a[i] = "L" => i + 2 <= c /\ a[i + 1] = "C" /\ a[i + 2] = "C"
             /\ a[i] = "C" => (i > 1 /\ a[i - 1] = "L") \/ (i > 2 /\ a[i - 2] = "L")
  <2>1. i \in 1..k /\ a[i] = s[i]
    BY <1>1
  <2>2. ASSUME a[i] = "L" PROVE i + 2 <= c /\ a[i + 1] = "C" /\ a[i + 2] = "C"
    <3>1. i + 2 <= k /\ s[i + 1] = "C" /\ s[i + 2] = "C"
      BY <1>2, <2>1, <2>2
    <3>2. i # c
      BY <1>1, <1>3, <3>1
    <3>3. i + 1 # c
      <4>1. i + 1 = c => c + 1 = i + 2
        BY <1>1
      <4>2. QED BY <1>1, <1>3, <3>1, <4>1
    <3>4. i + 2 <= c /\ i + 1 \in 1..c /\ i + 2 \in 1..c
      BY <1>1, <3>2, <3>3
    <3>5. QED BY <1>1, <3>1, <3>4
  <2>3. ASSUME a[i] = "C" PROVE (i > 1 /\ a[i - 1] = "L") \/ (i > 2 /\ a[i - 2] = "L")
    <3>1. (i > 1 /\ s[i - 1] = "L") \/ (i > 2 /\ s[i - 2] = "L")
      BY <1>2, <2>1, <2>3
    <3>2. (i > 1 => i - 1 \in 1..c) /\ (i > 2 => i - 2 \in 1..c)
      BY <1>1
    <3>3. QED BY <1>1, <3>1, <3>2
  <2>4. QED BY <2>2, <2>3
<1>5. ASSUME NEW i \in 1..m
      PROVE  /\ b[i] = "L" => i + 2 <= m /\ b[i + 1] = "C" /\ b[i + 2] = "C"
             /\ b[i] = "C" => (i > 1 /\ b[i - 1] = "L") \/ (i > 2 /\ b[i - 2] = "L")
  <2>1. c + i \in 1..k /\ b[i] = s[c + i] /\ c < k
    BY <1>1
  <2>2. ASSUME b[i] = "L" PROVE i + 2 <= m /\ b[i + 1] = "C" /\ b[i + 2] = "C"
    <3>1. (c + i) + 2 <= k /\ s[(c + i) + 1] = "C" /\ s[(c + i) + 2] = "C"
      BY <1>2, <2>1, <2>2
    <3>2. i + 2 <= m /\ i + 1 \in 1..m /\ i + 2 \in 1..m /\ (c + i) + 1 = c + (i + 1)
               /\ (c + i) + 2 = c + (i + 2)
      BY <1>1, <3>1
    <3>3. b[i + 1] = s[c + (i + 1)] /\ b[i + 2] = s[c + (i + 2)]
      BY <1>1, <3>2
    <3>4. QED BY <3>1, <3>2, <3>3
  <2>3. ASSUME b[i] = "C" PROVE (i > 1 /\ b[i - 1] = "L") \/ (i > 2 /\ b[i - 2] = "L")
    <3>1. \/ c + i > 1 /\ s[(c + i) - 1] = "L"
          \/ c + i > 2 /\ s[(c + i) - 2] = "L"
      BY <1>2, <2>1, <2>3
    <3>2. s[c + 1] # "C"
      BY <1>1, <1>3, <2>1
    <3>3. i # 1
      BY <2>1, <2>3, <3>2
    <3>4. i > 1 /\ i - 1 \in 1..m /\ c + (i - 1) = (c + i) - 1
      BY <1>1, <3>3
    <3>5. CASE s[(c + i) - 1] = "L"
      <4>1. b[i - 1] = s[c + (i - 1)]
        BY <1>1, <3>4
      <4>2. QED BY <3>4, <3>5, <4>1
    <3>6. CASE c + i > 2 /\ s[(c + i) - 2] = "L"
      <4>1. CASE i = 2
        <5>1. (c + i) - 2 = c /\ c \in 1..k
          BY <1>1, <3>6, <4>1
        <5>2. s[c + 1] = "C"
          BY <1>2, <3>6, <5>1
        <5>3. QED BY <3>2, <5>2
      <4>2. CASE i > 2
        <5>1. i - 2 \in 1..m /\ c + (i - 2) = (c + i) - 2
          BY <1>1, <4>2
        <5>2. b[i - 2] = s[c + (i - 2)]
          BY <1>1, <5>1
        <5>3. QED BY <3>6, <4>2, <5>1, <5>2
      <4>3. QED BY <3>4, <4>1, <4>2
    <3>7. QED BY <3>1, <3>5, <3>6
  <2>4. QED BY <2>2, <2>3
<1>6. Sound(a)
  BY <1>1, <1>4 DEF Sound, WellFormed, IsCont
<1>7. Sound(b)
  BY <1>1, <1>5 DEF Sound, WellFormed, IsCont
<1>8. QED BY <1>6, <1>7 DEF a, b

\* Places that are always between two characters: both ends, and behind a blank
LEMMA Boundaries ==
  ASSUME NEW s, Sound(s)
  PROVE  /\ Boundary(s, 0) /\ Boundary(s, Len(s))
         /\ \A i \in 1..Len(s) : s[i] = " " => Boundary(s, i)
<1>1. s \in Line /\ Len(s) \in Nat /\ DOMAIN s = 1..Len(s)
  BY DEF Sound, Line
<1>2. \A i \in 1..Len(s) :
           /\ s[i] = "L" => i + 2 <= Len(s) /\ s[i + 1] = "C" /\ s[i + 2] = "C"
           /\ s[i] = "C" => (i > 1 /\ s[i - 1] = "L") \/ (i > 2 /\ s[i - 2] = "L")
  BY <1>1 DEF Sound, WellFormed, IsCont
<1>3. Boundary(s, 0)
  <2>1. CASE Len(s) = 0
    BY <2>1 DEF Boundary
  <2>2. CASE Len(s) > 0
    <3>1. 1 \in 1..Len(s) /\ ~(1 > 1) /\ ~(1 > 2) /\ 0 + 1 = 1
      BY <1>1, <2>2
    <3>2. s[1] # "C"
      BY <1>2, <3>1
    <3>3. QED BY <3>1, <3>2 DEF Boundary, IsCont
  <2>3. QED BY <1>1, <2>1, <2>2
<1>4. ASSUME NEW i \in 1..Len(s), s[i] = " ", ~Boundary(s, i) PROVE FALSE
  <2>1. i # Len(s) /\ s[i + 1] = "C"
    BY <1>4 DEF Boundary, IsCont
  <2>2. i + 1 \in 1..Len(s) /\ (i + 1) - 1 = i /\ (i + 1) - 2 = i - 1
    <3>1. i # Len(s) /\ Len(s) \in Nat
      BY <1>1, <2>1
    <3>2. QED BY <3>1
  <2>3. (i + 1 > 2 /\ s[i - 1] = "L")
    BY <1>2, <1>4, <2>1, <2>2
  <2>4. i - 1 \in 1..Len(s) /\ (i - 1) + 1 = i
    BY <1>1, <2>3
  <2>5. s[i] = "C"
    BY <1>2, <2>3, <2>4
  <2>6. QED BY <1>4, <2>5
<1>5. QED BY <1>3, <1>4 DEF Boundary

\* A whole character, and bytes that are characters themselves
LEMMA SoundBytes ==
  /\ Sound(<<>>) /\ Sound(Wide) /\ Len(Wide) = 3
  /\ \A b \in Bytes \ {"L", "C"} : Sound(<<b>>)
<1>1. Wide \in Line /\ Len(Wide) = 3 /\ DOMAIN Wide = 1..3
  BY DEF Wide, Line, Bytes
<1>2. Wide[1] = "L" /\ Wide[2] = "C" /\ Wide[3] = "C"
  BY DEF Wide
<1>3. WellFormed(Wide)
  <2>1. SUFFICES ASSUME NEW i \in 1..3
        PROVE /\ Wide[i] = "L" => i + 2 <= 3 /\ Wide[i + 1] = "C" /\ Wide[i + 2] = "C"
              /\ Wide[i] = "C" => \/ i > 1 /\ Wide[i - 1] = "L"
                                  \/ i > 2 /\ Wide[i - 2] = "L"
    BY <1>1 DEF WellFormed, IsCont
  <2>2. CASE i = 1
    BY <1>2, <2>2
  <2>3. CASE i = 2
    BY <1>2, <2>3
  <2>4. CASE i = 3
    BY <1>2, <2>4
  <2>5. QED BY <2>2, <2>3, <2>4
<1>4. Sound(<<>>)
  BY ShortLines DEF Sound, WellFormed
<1>5. ASSUME NEW b \in Bytes \ {"L", "C"} PROVE Sound(<<b>>)
  <2>1. <<b>> \in Line /\ Len(<<b>>) = 1 /\ <<b>>[1] = b /\ DOMAIN <<b>> = 1..1
    BY ShortLines DEF Line
  <2>2. QED BY <2>1 DEF Sound, WellFormed, IsCont
<1>6. QED BY <1>1, <1>3, <1>4, <1>5 DEF Sound

-----------------------------------------------------------------------------
(* Least and greatest numbers *)

\* Every set of naturals with an element has a least one.
LEMMA LeastOf ==
  ASSUME NEW S \in SUBSET Nat, S # {}
  PROVE  \E m \in S : \A k \in S : m <= k
<1> DEFINE R == OpToRel(<, Nat)
<1>1. IsWellFoundedOn(R, Nat)
  BY NatLessThanWellFounded
<1>2. \A k, m \in Nat : k < m => <<k, m>> \in R
  BY DEF OpToRel
<1> HIDE DEF R
<1>3. PICK m \in S : \A k \in S : ~ (<<k, m>> \in R)
  BY <1>1, WFMin
<1>4. \A k \in S : ~(k < m)
  BY <1>2, <1>3
<1>5. QED BY <1>3, <1>4

\* Induction: a set of naturals that has 0 and the successor of each of its
\* elements has them all.
LEMMA Induct ==
  ASSUME NEW S \in SUBSET Nat, 0 \in S, \A k \in S : k + 1 \in S
  PROVE  \A k \in Nat : k \in S
<1> SUFFICES ASSUME NEW n \in Nat, n \notin S PROVE FALSE
  OBVIOUS
<1> DEFINE T == Nat \ S
<1>1. T \in SUBSET Nat /\ T # {}
  OBVIOUS
<1>2. PICK m \in T : \A k \in T : m <= k
  BY <1>1, LeastOf
<1>3. m \in Nat /\ m # 0
  BY <1>2
<1>4. m - 1 \in Nat /\ ~(m <= m - 1) /\ (m - 1) + 1 = m
  BY <1>3
<1>5. m - 1 \in S
  BY <1>2, <1>4
<1>6. QED BY <1>2, <1>4, <1>5

\* Min finds the least number of a set, Max the greatest of a bounded one.
LEMMA MinOf ==
  ASSUME NEW S \in SUBSET Nat, S # {}
  PROVE  Min(S) \in S /\ \A k \in S : Min(S) <= k
  BY LeastOf DEF Min

\* The greatest number of a bounded set
LEMMA MaxOf ==
  ASSUME NEW S \in SUBSET Nat, S # {}, NEW n \in Nat, \A k \in S : k <= n
  PROVE  Max(S) \in S /\ \A k \in S : k <= Max(S)
<1> DEFINE T == {n - k : k \in S}
<1>1. T \in SUBSET Nat /\ T # {}
  <2>1. \A k \in S : n - k \in Nat
    OBVIOUS
  <2>2. PICK k \in S : TRUE
    OBVIOUS
  <2>3. n - k \in T
    OBVIOUS
  <2>4. QED BY <2>1, <2>3
<1>2. PICK m \in T : \A k \in T : m <= k
  BY <1>1, LeastOf
<1>3. PICK x \in S : m = n - x
  BY <1>2
<1>4. \A k \in S : n - x <= n - k
  BY <1>2, <1>3
<1>5. \A k \in S : x >= k
  BY <1>4
<1>6. \E y \in S : \A k \in S : y >= k
  BY <1>5
<1>7. Max(S) \in S /\ \A k \in S : Max(S) >= k
  BY <1>6 DEF Max
<1>8. QED BY <1>7

\* Of two numbers
LEMMA MinOfTwo ==
  ASSUME NEW a \in Nat, NEW b \in Nat
  PROVE  Min({a, b}) = IF a <= b THEN a ELSE b
<1>1. {a, b} \in SUBSET Nat /\ {a, b} # {}
  OBVIOUS
<1>2. Min({a, b}) \in {a, b} /\ \A k \in {a, b} : Min({a, b}) <= k
  BY <1>1, MinOf
<1>3. QED BY <1>2

-----------------------------------------------------------------------------
(* The line and its caret *)

\* The caret is within the line; and it is between two whole characters.
TextType(t) == t \in [s : Line, c : Nat] /\ t.c <= Len(t.s)
Kept(t) == TextType(t) /\ Sound(Before(t)) /\ Sound(After(t))

\* What stands before the caret and after it
LEMMA Parts ==
  ASSUME NEW t, TextType(t)
  PROVE  /\ t.s \in Line /\ Len(t.s) \in Nat /\ t.c \in Nat /\ t.c <= Len(t.s)
              /\ t = [s |-> t.s, c |-> t.c]
         /\ Before(t) \in Line /\ Len(Before(t)) = t.c
         /\ After(t) \in Line /\ Len(After(t)) = Len(t.s) - t.c
         /\ t.s = Before(t) \o After(t)
<1>1. t.s \in Line /\ t.c \in Nat /\ t.c <= Len(t.s) /\ t = [s |-> t.s, c |-> t.c]
  BY DEF TextType
<1>2. Len(t.s) \in Nat /\ t.c \in 0..Len(t.s)
  BY <1>1 DEF Line
<1>3. QED BY <1>1, <1>2, CutParts DEF Before, After

\* A line made of two parts with the caret between them
LEMMA FromParts ==
  ASSUME NEW a \in Line, NEW b \in Line, NEW t, t = [s |-> a \o b, c |-> Len(a)]
  PROVE  TextType(t) /\ Before(t) = a /\ After(t) = b
<1>1. a \o b \in Line /\ Len(a \o b) = Len(a) + Len(b) /\ Len(a) \in Nat /\ Len(b) \in Nat
  BY JoinParts DEF Line
<1>2. t.s = a \o b /\ t.c = Len(a)
  OBVIOUS
<1>3. TextType(t)
  BY <1>1, <1>2 DEF TextType
<1>4. QED BY <1>2, <1>3, JoinCut DEF Before, After

\* tui_input_append adds to what stands before the caret.
LEMMA PutParts ==
  ASSUME NEW t, TextType(t), NEW x \in Line
  PROVE  /\ TextType(Put(t, x)) /\ Before(Put(t, x)) = Before(t) \o x /\ After(Put(t, x)) = After(t)
         /\ Put(t, x).s = (Before(t) \o x) \o After(t)
<1>1. /\ Before(t) \in Line /\ After(t) \in Line /\ Len(Before(t)) = t.c
  BY Parts
<1>2. Before(t) \o x \in Line /\ Len(Before(t) \o x) = Len(Before(t)) + Len(x)
  BY <1>1, JoinParts
<1>3. Put(t, x) = [s |-> (Before(t) \o x) \o After(t), c |-> Len(Before(t) \o x)]
  <2>1. Len(Before(t) \o x) = t.c + Len(x)
    BY <1>1, <1>2
  <2>2. QED BY <2>1 DEF Put
<1> DEFINE a == Before(t) \o x
<1>4. a \in Line /\ Put(t, x) = [s |-> a \o After(t), c |-> Len(a)]
  BY <1>2, <1>3
<1>5. Put(t, x).s = a \o After(t)
  BY <1>3
<1> HIDE DEF a
<1>6. TextType(Put(t, x)) /\ Before(Put(t, x)) = a /\ After(Put(t, x)) = After(t)
  BY <1>1, <1>4, FromParts
<1>7. QED BY <1>5, <1>6 DEF a

\* The line grows by what is added.
LEMMA PutLength ==
  ASSUME NEW t, TextType(t), NEW x \in Line
  PROVE  /\ Put(t, x).s \in Line /\ Len(Put(t, x).s) = Len(t.s) + Len(x)
         /\ Len(Put(t, x).s) \in Nat /\ Len(x) \in Nat
<1> DEFINE a == Before(t)
           d == After(t)
<1>1. /\ a \in Line /\ Len(a) = t.c /\ d \in Line /\ Len(d) = Len(t.s) - t.c
      /\ t.c \in Nat /\ Len(t.s) \in Nat /\ Len(x) \in Nat
  BY Parts DEF Line
<1>2. Put(t, x).s = (a \o x) \o d
  BY PutParts
<1> HIDE DEF a, d
<1>3. a \o x \in Line /\ Len(a \o x) = t.c + Len(x)
  <2>1. a \o x \in Line /\ Len(a \o x) = Len(a) + Len(x)
    BY <1>1, JoinParts
  <2>2. QED BY <1>1, <2>1
<1>4. (a \o x) \o d \in Line /\ Len((a \o x) \o d) = Len(a \o x) + Len(d)
  BY <1>1, <1>3, JoinParts
<1>5. Put(t, x).s \in Line /\ Len(Put(t, x).s) = (t.c + Len(x)) + (Len(t.s) - t.c)
  BY <1>1, <1>2, <1>3, <1>4
<1>6. QED BY <1>1, <1>5

\* Two lines with the same parts are the same.
LEMMA SameParts ==
  ASSUME NEW t, TextType(t), NEW u, TextType(u), Before(t) = Before(u), After(t) = After(u)
  PROVE  t = u
<1>1. t.s = Before(t) \o After(t) /\ t.c = Len(Before(t)) /\ t = [s |-> t.s, c |-> t.c]
  BY Parts
<1>2. u.s = Before(u) \o After(u) /\ u.c = Len(Before(u)) /\ u = [s |-> u.s, c |-> u.c]
  BY Parts
<1>3. QED BY <1>1, <1>2

\* Bytes appended one after the other are appended together; none change nothing.
LEMMA PutTwice ==
  ASSUME NEW t, TextType(t), NEW x \in Line, NEW y \in Line
  PROVE  Put(Put(t, x), y) = Put(t, x \o y)
<1>1. Before(t) \in Line /\ x \o y \in Line
  BY Parts, JoinParts
<1>2. TextType(Put(t, x)) /\ Before(Put(t, x)) = Before(t) \o x /\ After(Put(t, x)) = After(t)
  BY PutParts
<1>3. /\ TextType(Put(Put(t, x), y)) /\ Before(Put(Put(t, x), y)) = (Before(t) \o x) \o y
      /\ After(Put(Put(t, x), y)) = After(t)
  BY <1>2, PutParts
<1>4. TextType(Put(t, x \o y)) /\ Before(Put(t, x \o y)) = Before(t) \o (x \o y)
           /\ After(Put(t, x \o y)) = After(t)
  BY <1>1, PutParts
<1>5. (Before(t) \o x) \o y = Before(t) \o (x \o y)
  BY <1>1, JoinOrder
<1>6. QED BY <1>3, <1>4, <1>5, SameParts

\* Nothing appended changes nothing.
LEMMA PutNothing ==
  ASSUME NEW t, TextType(t), NEW e, e = <<>>
  PROVE  Put(t, e) = t
<1>1. e \in Line /\ Before(t) \in Line
  BY Parts, ShortLines
<1>2. TextType(Put(t, e)) /\ Before(Put(t, e)) = Before(t) \o e /\ After(Put(t, e)) = After(t)
  BY <1>1, PutParts
<1>3. Before(t) \o e = Before(t)
  BY <1>1, JoinEmpty
<1>4. QED BY <1>2, <1>3, SameParts

\* Whole characters are appended between whole characters.
LEMMA PutIsKept ==
  ASSUME NEW t, Kept(t), NEW x, Sound(x)
  PROVE  Kept(Put(t, x))
<1>1. TextType(t) /\ x \in Line
  BY DEF Kept, Sound
<1>2. TextType(Put(t, x)) /\ Before(Put(t, x)) = Before(t) \o x /\ After(Put(t, x)) = After(t)
  BY <1>1, PutParts
<1>3. Sound(Before(t) \o x)
  BY JoinIsSound DEF Kept
<1>4. QED BY <1>2, <1>3 DEF Kept

\* What the property says of line and caret
LEMMA KeptIsWhole ==
  ASSUME NEW t, TextType(t)
  PROVE  Kept(t) <=> Sound(t.s) /\ Boundary(t.s, t.c)
<1>1. /\ t.s \in Line /\ Len(t.s) \in Nat /\ t.c \in Nat /\ t.c <= Len(t.s)
      /\ Len(Before(t)) = t.c /\ t.s = Before(t) \o After(t)
  BY Parts
<1>2. ASSUME Kept(t) PROVE Sound(t.s) /\ Boundary(t.s, t.c)
  BY <1>1, <1>2, JoinIsSound DEF Kept
<1>3. ASSUME Sound(t.s), Boundary(t.s, t.c) PROVE Kept(t)
  <2>1. t.c \in 0..Len(t.s)
    BY <1>1
  <2>2. QED BY <1>3, <2>1, CutIsSound DEF Kept, Before, After
<1>4. QED BY <1>2, <1>3

\* A line of two parts of whole characters, with the caret between them
LEMMA KeptFrom ==
  ASSUME NEW a, Sound(a), NEW b, Sound(b), NEW t, t = [s |-> a \o b, c |-> Len(a)]
  PROVE  Kept(t)
<1>1. TextType(t) /\ Before(t) = a /\ After(t) = b
  BY FromParts DEF Sound
<1>2. QED BY <1>1 DEF Kept

\* The caret at the end, and at the beginning
LEMMA KeptAtEnds ==
  ASSUME NEW s, Sound(s)
  PROVE  Kept(AtEnd(s)) /\ Kept([s |-> s, c |-> 0])
<1> DEFINE e == <<>>
<1>1. Sound(e) /\ s \in Line /\ Len(e) = 0
  BY SoundBytes, ShortLines DEF Sound
<1>2. s \o e = s /\ e \o s = s
  BY <1>1, JoinEmpty
<1> HIDE DEF e
<1>3. AtEnd(s) = [s |-> s \o e, c |-> Len(s)]
  BY <1>2 DEF AtEnd
<1>4. [s |-> s, c |-> 0] = [s |-> e \o s, c |-> Len(e)]
  BY <1>1, <1>2
<1>5. QED BY <1>1, <1>3, <1>4, KeptFrom

\* The caret may go wherever a character ends.
LEMMA CaretIsKept ==
  ASSUME NEW t, Kept(t), NEW n \in 0..Len(t.s), Boundary(t.s, n)
  PROVE  Kept([t EXCEPT !.c = n])
<1> DEFINE u == [t EXCEPT !.c = n]
<1>1. TextType(t) /\ t.s \in Line /\ Len(t.s) \in Nat /\ Sound(t.s)
  BY Parts, KeptIsWhole DEF Kept
<1>2. u.s = t.s /\ u.c = n /\ TextType(u)
  BY <1>1 DEF TextType
<1> HIDE DEF u
<1>3. Kept(u)
  BY <1>1, <1>2, KeptIsWhole
<1>4. QED BY <1>3 DEF u

-----------------------------------------------------------------------------
(* Moving and deleting by characters *)

\* Numbers up to one that is no greater than another
LEMMA Within ==
  ASSUME NEW c \in Nat, NEW n \in Nat, c <= n
  PROVE  /\ n \in c..n /\ \A k \in 0..c : k \in Nat /\ k <= c /\ k \in 0..n
         /\ \A k \in 1..c : k \in Nat /\ k <= c /\ k \in 0..c /\ k \in 1..n
  OBVIOUS

\* Wherever they stop, the caret stays within the line.
LEMMA LeftWithin == ASSUME NEW t, TextType(t) PROVE LeftOf(t) \in 0..t.c
<1>1. t.s \in Line /\ Len(t.s) \in Nat /\ t.c \in Nat /\ t.c <= Len(t.s)
  BY Parts
<1>2. CASE t.c = 0
  BY <1>1, <1>2 DEF LeftOf
<1>3. CASE t.c # 0
  <2> DEFINE S == {n \in 0..t.c - 1 : n = 0 \/ ~IsCont(t.s[n + 1])}
  <2>1. S \in SUBSET Nat /\ 0 \in S /\ \A k \in S : k <= t.c
    BY <1>1, <1>3
  <2>2. LeftOf(t) = Max(S)
    BY <1>3 DEF LeftOf
  <2> HIDE DEF S
  <2>3. Max(S) \in S
    BY <1>1, <2>1, MaxOf
  <2>4. Max(S) \in Nat /\ Max(S) <= t.c
    BY <2>1, <2>3
  <2> DEFINE m == Max(S)
  <2> HIDE DEF m
  <2>5. m \in Nat /\ m <= t.c
    BY <2>4 DEF m
  <2>6. m \in 0..t.c
    BY <1>1, <2>5
  <2>7. QED BY <2>2, <2>6 DEF m
<1>4. QED BY <1>2, <1>3

\* The same to the right
LEMMA RightWithin ==
  ASSUME NEW t, TextType(t) PROVE RightOf(t) \in 0..Len(t.s) /\ t.c <= RightOf(t)
<1>1. t.s \in Line /\ Len(t.s) \in Nat /\ t.c \in Nat /\ t.c <= Len(t.s)
  BY Parts
<1>2. CASE t.c = Len(t.s)
  BY <1>1, <1>2 DEF RightOf
<1>3. CASE t.c # Len(t.s)
  <2> DEFINE S == {n \in t.c + 1..Len(t.s) : n = Len(t.s) \/ ~IsCont(t.s[n + 1])}
  <2>1. S \in SUBSET Nat /\ Len(t.s) \in S /\ \A k \in S : k \in 0..Len(t.s) /\ t.c <= k
    BY <1>1, <1>3
  <2>2. RightOf(t) = Min(S)
    BY <1>3 DEF RightOf
  <2> HIDE DEF S
  <2>3. Min(S) \in S
    BY <2>1, MinOf
  <2>4. QED BY <2>1, <2>2, <2>3
<1>4. QED BY <1>2, <1>3

\* The loops over continuation bytes stop where a character begins.
LEMMA LeftIs ==
  ASSUME NEW t, Kept(t)
  PROVE  LeftOf(t) \in 0..t.c /\ Boundary(t.s, LeftOf(t))
<1>1. TextType(t) /\ Sound(t.s) /\ t.s \in Line /\ Len(t.s) \in Nat /\ t.c \in Nat
           /\ t.c <= Len(t.s)
  BY Parts, KeptIsWhole DEF Kept
<1>2. CASE t.c = 0
  <2>1. LeftOf(t) = 0 /\ 0 \in 0..t.c
    BY <1>1, <1>2 DEF LeftOf
  <2>2. QED BY <1>1, <2>1, Boundaries
<1>3. CASE t.c # 0
  <2> DEFINE S == {n \in 0..t.c - 1 : n = 0 \/ ~IsCont(t.s[n + 1])}
  <2>1. S \in SUBSET Nat /\ 0 \in S /\ \A k \in S : k <= t.c
    BY <1>1, <1>3
  <2>2. LeftOf(t) = Max(S)
    BY <1>3 DEF LeftOf
  <2>3. Max(S) \in S
    <3> HIDE DEF S
    <3>1. QED BY <1>1, <2>1, MaxOf
  <2>4. Max(S) \in 0..t.c /\ (Max(S) = 0 \/ Boundary(t.s, Max(S)))
    BY <1>1, <1>3, <2>3 DEF Boundary
  <2>5. QED BY <1>1, <2>2, <2>4, Boundaries
<1>4. QED BY <1>2, <1>3

\* The same to the right
LEMMA RightIs ==
  ASSUME NEW t, Kept(t)
  PROVE  RightOf(t) \in t.c..Len(t.s) /\ Boundary(t.s, RightOf(t))
<1>1. TextType(t) /\ Sound(t.s) /\ t.s \in Line /\ Len(t.s) \in Nat /\ t.c \in Nat
           /\ t.c <= Len(t.s)
  BY Parts, KeptIsWhole DEF Kept
<1>2. CASE t.c = Len(t.s)
  <2>1. RightOf(t) = Len(t.s)
    BY <1>2 DEF RightOf
  <2>2. Boundary(t.s, Len(t.s))
    BY <1>1, Boundaries
  <2>3. Len(t.s) \in t.c..Len(t.s)
    BY <1>1, Within
  <2>4. QED BY <2>1, <2>2, <2>3
<1>3. CASE t.c # Len(t.s)
  <2> DEFINE S == {n \in t.c + 1..Len(t.s) : n = Len(t.s) \/ ~IsCont(t.s[n + 1])}
  <2>1. S \in SUBSET Nat /\ Len(t.s) \in S
    BY <1>1, <1>3
  <2>2. RightOf(t) = Min(S)
    BY <1>3 DEF RightOf
  <2>3. Min(S) \in S
    <3> HIDE DEF S
    <3>1. QED BY <2>1, MinOf
  <2>4. Min(S) \in t.c..Len(t.s) /\ Boundary(t.s, Min(S))
    <3>1. Min(S) \in t.c + 1..Len(t.s) /\ (Min(S) = Len(t.s) \/ ~IsCont(t.s[Min(S) + 1]))
      BY <2>3
    <3> HIDE DEF S
    <3>2. Min(S) \in t.c..Len(t.s)
      BY <1>1, <3>1
    <3>3. QED BY <3>1, <3>2 DEF Boundary
  <2>5. QED BY <2>2, <2>4
<1>4. QED BY <1>2, <1>3

\* The backspace and Ctrl+D delete whole characters.
LEMMA BackIsKept == ASSUME NEW t, Kept(t) PROVE Kept(DeleteBack(t))
<1> DEFINE a == SubSeq(t.s, 1, LeftOf(t))
<1>1. Sound(t.s) /\ t.s \in Line /\ Len(t.s) \in Nat /\ t.c \in Nat /\ t.c <= Len(t.s)
           /\ Sound(After(t))
  BY Parts, KeptIsWhole DEF Kept
<1>2. LeftOf(t) \in 0..Len(t.s) /\ Boundary(t.s, LeftOf(t))
  BY <1>1, LeftIs
<1>3. Sound(a) /\ Len(a) = LeftOf(t)
  BY <1>1, <1>2, CutIsSound, CutParts
<1>4. DeleteBack(t) = [s |-> a \o After(t), c |-> Len(a)]
  BY <1>3 DEF DeleteBack
<1> HIDE DEF a
<1>5. QED BY <1>1, <1>3, <1>4, KeptFrom

\* Ctrl+D deletes a whole character.
LEMMA ForwardIsKept == ASSUME NEW t, Kept(t) PROVE Kept(DeleteFwd(t))
<1> DEFINE b == SubSeq(t.s, RightOf(t) + 1, Len(t.s))
<1>1. /\ Sound(t.s) /\ t.s \in Line /\ Len(t.s) \in Nat /\ t.c \in Nat /\ t.c <= Len(t.s)
      /\ Sound(Before(t)) /\ Len(Before(t)) = t.c /\ t = [s |-> t.s, c |-> t.c]
  BY Parts, KeptIsWhole DEF Kept
<1>2. RightOf(t) \in 0..Len(t.s) /\ Boundary(t.s, RightOf(t))
  BY <1>1, RightIs
<1>3. Sound(b)
  BY <1>1, <1>2, CutIsSound
<1>4. DeleteFwd(t) = [s |-> Before(t) \o b, c |-> Len(Before(t))]
  <2>1. t \in [s : Line, c : Nat]
    BY DEF Kept, TextType
  <2> DEFINE l == Before(t) \o b
  <2> HIDE DEF l
  <2>2. [t EXCEPT !.s = l] = [s |-> l, c |-> t.c]
    BY <2>1
  <2>3. QED BY <1>1, <2>2 DEF DeleteFwd, l
<1> HIDE DEF b
<1>5. QED BY <1>1, <1>3, <1>4, KeptFrom

\* So do Ctrl+U and Ctrl+K.
LEMMA KillIsKept ==
  ASSUME NEW t, Kept(t)
  PROVE  Kept([s |-> After(t), c |-> 0]) /\ Kept([t EXCEPT !.s = Before(t)])
<1>1. /\ Sound(Before(t)) /\ Len(Before(t)) = t.c /\ t = [s |-> t.s, c |-> t.c] /\ Sound(After(t))
  BY Parts DEF Kept
<1>2. [t EXCEPT !.s = Before(t)] = AtEnd(Before(t))
  BY <1>1 DEF AtEnd
<1>3. QED BY <1>1, <1>2, KeptAtEnds

-----------------------------------------------------------------------------
(* Completion *)

\* The word begins behind a blank or at the beginning.
LEMMA TokenStartIs ==
  ASSUME NEW t, TextType(t)
  PROVE  /\ TokenStart(t) \in 0..t.c
         /\ TokenStart(t) = 0 \/ (TokenStart(t) \in 1..Len(t.s) /\ t.s[TokenStart(t)] = " ")
<1>1. t.s \in Line /\ Len(t.s) \in Nat /\ t.c \in Nat /\ t.c <= Len(t.s)
  BY Parts
<1> DEFINE S == {0} \cup {i \in 1..t.c : t.s[i] = " "}
<1>2. S \in SUBSET Nat /\ S # {} /\ \A k \in S : k <= t.c
  <2>1. ASSUME NEW k \in S PROVE k \in Nat /\ k <= t.c
    <3>1. CASE k = 0
      BY <1>1, <3>1
    <3>2. CASE k \in 1..t.c
      BY <1>1, <3>2, Within
    <3>3. QED BY <3>1, <3>2
  <2>2. 0 \in S
    OBVIOUS
  <2> HIDE DEF S
  <2>3. QED BY <2>1, <2>2
<1>3. TokenStart(t) = Max(S)
  BY DEF TokenStart
<1>4. Max(S) \in S
  <2> HIDE DEF S
  <2>1. QED BY <1>1, <1>2, MaxOf
<1>5. Max(S) \in 0..t.c /\ (Max(S) = 0 \/ (Max(S) \in 1..Len(t.s) /\ t.s[Max(S)] = " "))
  <2>1. Max(S) = 0 \/ (Max(S) \in 1..t.c /\ t.s[Max(S)] = " ")
    BY <1>4
  <2> HIDE DEF S
  <2>2. CASE Max(S) = 0
    BY <1>1, <2>2
  <2>3. CASE Max(S) \in 1..t.c /\ t.s[Max(S)] = " "
    BY <1>1, <2>3, Within
  <2>4. QED BY <2>1, <2>2, <2>3
<1> HIDE DEF S
<1>6. QED BY <1>3, <1>5

\* tui_tab_replace puts whole words in the place of one.
LEMMA PickedIsKept ==
  ASSUME NEW t, Kept(t), NEW x, Sound(x)
  PROVE  Kept(Picked(t, x))
<1> DEFINE n == TokenStart(t)
           a == SubSeq(t.s, 1, n)
<1>1. /\ TextType(t) /\ Sound(t.s) /\ t.s \in Line /\ Len(t.s) \in Nat /\ t.c \in Nat
      /\ t.c <= Len(t.s) /\ Sound(After(t))
  BY Parts, KeptIsWhole DEF Kept
<1>2. n \in 0..Len(t.s) /\ Boundary(t.s, n)
  <2>1. n \in 0..t.c /\ (n = 0 \/ (n \in 1..Len(t.s) /\ t.s[n] = " "))
    BY <1>1, TokenStartIs
  <2> HIDE DEF n
  <2>2. n \in 0..Len(t.s)
    BY <1>1, <2>1, Within
  <2>3. Boundary(t.s, n)
    BY <1>1, <2>1, Boundaries
  <2>4. QED BY <2>2, <2>3
<1> HIDE DEF n
<1>3. Sound(a) /\ a \in Line /\ Len(a) = n
  BY <1>1, <1>2, CutIsSound, CutParts
<1> HIDE DEF a
<1>4. Sound(a \o x) /\ Len(a \o x) = n + Len(x)
  BY <1>3, JoinIsSound, JoinParts DEF Sound
<1>5. Picked(t, x) = [s |-> (a \o x) \o After(t), c |-> Len(a \o x)]
  BY <1>4 DEF Picked, a, n
<1>6. QED BY <1>1, <1>4, <1>5, KeptFrom

-----------------------------------------------------------------------------
(* Recursive functions over a sequence *)

\* A value that is carried along the numbers 1..n, by a step F[k][value] that
\* stays within a set
StaysIn(X, n, F) == \A k \in 1..n : \A x \in X : F[k][x] \in X
Carries(f, X, n, h, F) ==
  /\ DOMAIN f = 0..n /\ f = [k \in 0..n |-> f[k]]
  /\ f[0] = h /\ \A k \in 0..n : f[k] \in X
  /\ \A k \in 1..n : f[k] = F[k][f[k - 1]]

\* There is a function that carries a value along, and all its values are in the set.
LEMMA Iterates ==
  ASSUME NEW X, NEW h, h \in X, NEW n, n \in Nat, NEW F, StaysIn(X, n, F)
  PROVE  \E f : Carries(f, X, n, h, F)
<1> USE DEF StaysIn, Carries
<1> DEFINE Runs(f, m) == Carries(f, X, m, h, F)
           S == {m \in Nat : m <= n => \E f : Runs(f, m)}
<1>1. 0 \in S
  <2> DEFINE g == [k \in 0..0 |-> h]
  <2>1. DOMAIN g = 0..0 /\ g[0] = h /\ (\A k \in 0..0 : g[k] \in X)
             /\ \A k \in 1..0 : g[k] = F[k][g[k - 1]]
    OBVIOUS
  <2>2. g = [k \in 0..0 |-> g[k]]
    OBVIOUS
  <2> HIDE DEF g
  <2>3. Runs(g, 0)
    BY <2>1, <2>2
  <2>4. QED BY <2>3
<1>2. ASSUME NEW m \in S PROVE m + 1 \in S
  <2>1. SUFFICES ASSUME m + 1 <= n PROVE \E f : Runs(f, m + 1)
    OBVIOUS
  <2>2. m \in Nat /\ m <= n /\ m + 1 \in 1..n /\ (m + 1) - 1 = m
    BY <2>1
  <2>3. PICK f : Runs(f, m)
    BY <2>2
  <2> DEFINE g == [k \in 0..(m + 1) |-> IF k = m + 1 THEN F[m + 1][f[m]] ELSE f[k]]
  <2>4. DOMAIN g = 0..(m + 1) /\ g = [k \in 0..(m + 1) |-> g[k]]
    OBVIOUS
  <2>5. g[m + 1] = F[m + 1][f[m]] /\ \A k \in 0..m : g[k] = f[k]
    BY <2>2
  <2> HIDE DEF g
  <2>6. g[0] = h
    <3>1. 0 \in 0..m /\ f[0] = h
      BY <2>2, <2>3
    <3>2. QED BY <2>5, <3>1
  <2>7. F[m + 1][f[m]] \in X
    <3>1. f[m] \in X
      BY <2>2, <2>3
    <3>2. QED BY <2>2, <3>1
  <2>8. \A k \in 0..(m + 1) : g[k] \in X
    <3>1. TAKE k \in 0..(m + 1)
    <3>2. CASE k = m + 1
      BY <2>5, <2>7, <3>2
    <3>3. CASE k \in 0..m
      BY <2>3, <2>5, <3>3
    <3>4. QED BY <2>2, <3>2, <3>3
  <2>9. \A k \in 1..(m + 1) : g[k] = F[k][g[k - 1]]
    <3>1. TAKE k \in 1..(m + 1)
    <3>2. CASE k = m + 1
      <4>1. k - 1 = m /\ m \in 0..m
        BY <2>2, <3>2
      <4>2. QED BY <2>5, <3>2, <4>1
    <3>3. CASE k \in 1..m
      <4>1. k - 1 \in 0..m /\ k \in 0..m
        BY <2>2, <3>3
      <4>2. QED BY <2>3, <2>5, <3>3, <4>1
    <3>4. QED BY <2>2, <3>2, <3>3
  <2>10. Runs(g, m + 1)
    BY <2>4, <2>6, <2>8, <2>9
  <2>11. QED BY <2>10
<1>3. S \in SUBSET Nat
  OBVIOUS
<1> HIDE DEF S
<1>4. n \in S
  BY <1>1, <1>2, <1>3, Induct
<1>5. \E f : Runs(f, n)
  BY <1>4 DEF S
<1>6. QED BY <1>5

-----------------------------------------------------------------------------
(* The submitted lines *)

\* The lines that are recalled: not empty, no two alike in a row, HistMax at most
Lines(h) ==
  /\ h \in Seq(Line \ {<<>>}) /\ Len(h) <= HistMax
  /\ \A i \in 1..Len(h) - 1 : h[i] # h[i + 1]

\* The limits are numbers.
LEMMA LimitsType ==
  /\ HistMax \in Nat /\ HistMax >= 1 /\ LoadMax \in Nat /\ LoadMax >= 1
  /\ BufMax \in Nat /\ BufMax >= 1 /\ PageSize \in Nat /\ PageSize >= 1
  BY LineEditorAssumption

\* A sequence with one more element
LEMMA AppendParts ==
  ASSUME NEW X, NEW h \in Seq(X), NEW l \in X
  PROVE  /\ Append(h, l) \in Seq(X) /\ Len(Append(h, l)) = Len(h) + 1
         /\ \A i \in 1..Len(h) : Append(h, l)[i] = h[i]
         /\ Append(h, l)[Len(h) + 1] = l
  BY AppendProperties

\* tui_cmd_hist_push leaves lines, of which only the last is new.
LEMMA PushIs ==
  ASSUME NEW h, Lines(h), NEW l \in Line
  PROVE  /\ Lines(Push(h, l)) /\ Len(h) <= Len(Push(h, l))
         /\ \A i \in DOMAIN Push(h, l) : Push(h, l)[i] = l \/ \E j \in DOMAIN h : Push(h, l)[i] = h[j]
         /\ l # <<>> => Push(h, l) # <<>> /\ Push(h, l)[Len(Push(h, l))] = l
<1> DEFINE X == Line \ {<<>>}
<1>1. h \in Seq(X) /\ Len(h) \in Nat /\ Len(h) <= HistMax
           /\ \A i \in 1..Len(h) - 1 : h[i] # h[i + 1]
  BY DEF Lines
<1>2. CASE l = <<>>
  BY <1>1, <1>2 DEF Push
<1>3. CASE l # <<>> /\ h # <<>> /\ Last(h) = l
  BY <1>1, <1>3 DEF Push, Last
<1>4. CASE l # <<>> /\ ~(h # <<>> /\ Last(h) = l)
  <2> DEFINE t == IF Len(h) >= HistMax THEN Tail(h) ELSE h
             d == IF Len(h) >= HistMax THEN 1 ELSE 0
  <2>1. /\ d \in {0, 1} /\ t \in Seq(X) /\ Len(t) = Len(h) - d /\ Len(t) \in Nat
             /\ Len(t) + 1 <= HistMax
        /\ \A i \in 1..Len(t) : t[i] = h[i + d] /\ i + d \in 1..Len(h)
    <3>1. CASE Len(h) >= HistMax
      <4>1. h # <<>> /\ Len(h) = HistMax
        BY <1>1, <3>1, LimitsType
      <4>2. /\ Tail(h) \in Seq(X) /\ Len(Tail(h)) = Len(h) - 1
            /\ \A i \in 1..Len(Tail(h)) : Tail(h)[i] = h[i + 1]
        BY <1>1, <4>1, HeadTailProperties
      <4>3. QED BY <1>1, <3>1, <4>1, <4>2, LimitsType
    <3>2. CASE ~(Len(h) >= HistMax)
      <4>1. t = h /\ d = 0 /\ Len(h) + 1 <= HistMax
        BY <1>1, <3>2, LimitsType
      <4>2. \A i \in 1..Len(h) : h[i] = h[i + 0] /\ i + 0 \in 1..Len(h)
        BY <1>1
      <4>3. QED BY <1>1, <4>1, <4>2
    <3>3. QED BY <3>1, <3>2
  <2>2. Push(h, l) = Append(t, l) /\ l \in X
    BY <1>4 DEF Push
  <2> HIDE DEF t, d
  <2> DEFINE g == Append(t, l)
  <2>3. /\ g \in Seq(X) /\ Len(g) = Len(t) + 1
        /\ \A i \in 1..Len(t) : g[i] = t[i]
        /\ g[Len(t) + 1] = l
    BY <2>1, <2>2, AppendParts
  <2> HIDE DEF g
  <2>4. Len(h) <= Len(g) /\ Len(g) <= HistMax /\ Len(g) >= 1
    BY <1>1, <2>1, <2>3
  <2>5. ASSUME NEW i \in 1..Len(g) - 1 PROVE g[i] # g[i + 1]
    <3>1. i \in 1..Len(t)
      BY <2>1, <2>3
    <3>2. g[i] = h[i + d] /\ i + d \in 1..Len(h)
      BY <2>1, <2>3, <3>1
    <3>3. CASE i + 1 \in 1..Len(t)
      <4>1. g[i + 1] = h[(i + 1) + d] /\ (i + 1) + d \in 1..Len(h)
        BY <2>1, <2>3, <3>3
      <4>2. i + d \in 1..Len(h) - 1 /\ (i + d) + 1 = (i + 1) + d
        BY <1>1, <2>1, <3>1, <4>1
      <4>3. QED BY <1>1, <3>2, <4>1, <4>2
    <3>4. CASE i = Len(t)
      <4>1. g[i + 1] = l
        BY <2>3, <3>4
      <4>2. i + d = Len(h) /\ h # <<>>
        BY <1>1, <2>1, <3>2, <3>4
      <4>3. h[Len(h)] # l
        BY <1>4, <4>2 DEF Last
      <4>4. QED BY <3>2, <4>1, <4>2, <4>3
    <3>5. QED BY <2>1, <3>1, <3>3, <3>4
  <2>6. ASSUME NEW i \in DOMAIN g PROVE g[i] = l \/ \E j \in DOMAIN h : g[i] = h[j]
    <3>1. i \in 1..Len(t) \/ i = Len(t) + 1
      BY <2>1, <2>3
    <3>2. CASE i \in 1..Len(t)
      <4>1. g[i] = h[i + d] /\ i + d \in DOMAIN h
        BY <1>1, <2>1, <2>3, <3>2
      <4>2. QED BY <4>1
    <3>3. QED BY <2>3, <3>1, <3>2
  <2>7. Lines(g)
    BY <2>3, <2>4, <2>5 DEF Lines
  <2>8. g # <<>> /\ g[Len(g)] = l
    BY <2>3, <2>4
  <2>9. QED BY <2>2, <2>4, <2>6, <2>7, <2>8 DEF g
<1>5. QED BY <1>2, <1>3, <1>4

\* The recursive functions of Pushed, Loaded and Matching
PushedBy(f, h, ls) == f = [n \in 0..Len(ls) |-> IF n = 0 THEN h ELSE Push(f[n - 1], ls[n])]
LoadedBy(f, fl) == f = [n \in 0..Len(fl) |-> IF n = 0 THEN <<>> ELSE Pushed(f[n - 1], Pieces(fl[n]))]
MatchedBy(f, names, w) ==
  f = [n \in 0..Len(names) |-> IF n = 0 THEN <<>>
                               ELSE IF IsPrefix(w, names[n]) THEN Append(f[n - 1], names[n])
                               ELSE f[n - 1]]

\* No lines at all
LEMMA NoLines == Lines(<<>>)
  BY LimitsType DEF Lines

\* Lines are pushed one after the other.
LEMMA PushedIs ==
  ASSUME NEW h, Lines(h), NEW ls \in Seq(Line)
  PROVE  \E f : /\ Pushed(h, ls) = f[Len(ls)] /\ f[0] = h
                /\ \A k \in 0..Len(ls) : Lines(f[k])
                /\ \A k \in 1..Len(ls) : f[k] = Push(f[k - 1], ls[k])
<1> DEFINE X == {x \in Seq(Line \ {<<>>}) : Lines(x)}
           n == Len(ls)
           F == [k \in 1..n |-> [x \in X |-> Push(x, ls[k])]]
<1>1. h \in X /\ n \in Nat
  BY DEF Lines
<1>2. \A k \in 1..n : \A x \in X : F[k][x] = Push(x, ls[k]) /\ F[k][x] \in X
  <2>1. TAKE k \in 1..n
  <2>2. TAKE x \in X
  <2>3. F[k][x] = Push(x, ls[k])
    OBVIOUS
  <2>4. ls[k] \in Line
    OBVIOUS
  <2>5. Lines(Push(x, ls[k]))
    BY <2>4, PushIs
  <2>6. Push(x, ls[k]) \in X
    BY <2>5 DEF Lines
  <2>7. QED BY <2>3, <2>6
<1> HIDE DEF F
<1>3. \E f : Carries(f, X, n, h, F)
  <2> HIDE DEF X, n
  <2>1. StaysIn(X, n, F)
    BY <1>2 DEF StaysIn
  <2>2. QED BY <1>1, <2>1, Iterates
<1>4. PICK f : /\ DOMAIN f = 0..n /\ f = [k \in 0..n |-> f[k]]
               /\ f[0] = h /\ \A k \in 0..n : f[k] \in X
               /\ \A k \in 1..n : f[k] = F[k][f[k - 1]]
  BY <1>3 DEF Carries
<1>5. \A k \in 1..n : f[k] = Push(f[k - 1], ls[k])
  <2>1. TAKE k \in 1..n
  <2>2. k - 1 \in 0..n
    BY <1>1
  <2>3. QED BY <1>2, <1>4, <2>2
<1>6. \A k \in 0..n : f[k] = IF k = 0 THEN h ELSE Push(f[k - 1], ls[k])
  <2>1. TAKE k \in 0..n
  <2>2. k = 0 \/ k \in 1..n
    BY <1>1
  <2>3. QED BY <1>4, <1>5, <2>2
<1>7. PushedBy(f, h, ls)
  BY <1>4, <1>6 DEF PushedBy
<1> DEFINE c == CHOOSE g : PushedBy(g, h, ls)
<1>8. PushedBy(c, h, ls)
  BY <1>7
<1>9. Pushed(h, ls) = c[Len(ls)]
  BY DEF Pushed, PushedBy
<1> HIDE DEF c
<1>10. c = [k \in 0..n |-> IF k = 0 THEN h ELSE Push(c[k - 1], ls[k])]
  BY <1>8 DEF PushedBy
<1>11. c[0] = h /\ \A k \in 1..n : c[k] = Push(c[k - 1], ls[k])
  BY <1>1, <1>10
<1> DEFINE S == {k \in Nat : k <= n => Lines(c[k])}
<1>12. 0 \in S
  BY <1>11
<1>13. ASSUME NEW k \in S PROVE k + 1 \in S
  <2>1. SUFFICES ASSUME k + 1 <= n PROVE Lines(c[k + 1])
    OBVIOUS
  <2>2. k + 1 \in 1..n /\ (k + 1) - 1 = k /\ Lines(c[k])
    BY <1>1, <2>1
  <2>3. ls[k + 1] \in Line /\ c[k + 1] = Push(c[k], ls[k + 1])
    BY <1>11, <2>2
  <2>4. QED BY <2>2, <2>3, PushIs
<1>14. S \in SUBSET Nat
  OBVIOUS
<1>15. \A k \in Nat : k \in S
  <2> HIDE DEF S
  <2>1. QED BY <1>12, <1>13, <1>14, Induct
<1>16. \A k \in 0..n : Lines(c[k])
  BY <1>1, <1>15
<1>17. QED BY <1>9, <1>11, <1>16

\* How many pieces of m bytes there are of a: the last begins within them.
LEMMA Division ==
  ASSUME NEW a \in Nat, NEW m \in Nat, m >= 1
  PROVE  LET n == (a + m - 1) \div m IN n \in Nat /\ n * m <= a + m - 1
  OBVIOUS

\* More pieces are longer.
LEMMA TimesGrows ==
  ASSUME NEW i \in Nat, NEW j \in Nat, NEW m \in Nat, i <= j
  PROVE  i * m \in Nat /\ i * m <= j * m
  OBVIOUS

\* The length of the pieces before the last
LEMMA OneLess ==
  ASSUME NEW n \in Nat, n >= 1, NEW m \in Nat
  PROVE  (n - 1) * m \in Nat /\ n * m = (n - 1) * m + m /\ n * m \in Nat
  OBVIOUS

\* What a piece holds takes one.
LEMMA OneIsEnough ==
  ASSUME NEW a \in Nat, NEW m \in Nat, a >= 1, a <= m
  PROVE  (a + m - 1) \div m = 1
  OBVIOUS

\* The pieces that a long line is read in are lines.
LEMMA PiecesType ==
  ASSUME NEW l \in Line
  PROVE  Pieces(l) \in Seq(Line)
<1> DEFINE n == (Len(l) + LoadMax - 1) \div LoadMax
<1>1. Len(l) \in Nat /\ l \in Seq(Bytes)
  BY DEF Line
<1>2. n \in Nat /\ n * LoadMax <= Len(l) + LoadMax - 1
  BY <1>1, LimitsType, Division
<1>3. ASSUME NEW i \in 1..n
      PROVE  SubSeq(l, (i - 1) * LoadMax + 1, Min({i * LoadMax, Len(l)})) \in Line
  <2> DEFINE b == (i - 1) * LoadMax
             e == i * LoadMax
             w == n * LoadMax
  <2>1. i \in Nat /\ i >= 1 /\ i <= n /\ i - 1 \in Nat /\ i - 1 <= n - 1 /\ n >= 1 /\ n - 1 \in Nat
    BY <1>2
  <2>2. b \in Nat /\ e \in Nat
    <3> HIDE DEF n
    <3>1. QED BY <2>1, LimitsType, OneLess
  <2>3. b <= Len(l)
    <3> DEFINE v == (n - 1) * LoadMax
    <3>1. b <= v /\ v \in Nat
      <4> HIDE DEF n
      <4>1. QED BY <2>1, LimitsType, TimesGrows
    <3>2. w = v + LoadMax
      <4> HIDE DEF n
      <4>1. QED BY <2>1, <1>2, LimitsType, OneLess
    <3>3. w <= Len(l) + LoadMax - 1
      BY <1>2
    <3> HIDE DEF v, w, b
    <3>4. QED BY <1>1, <2>2, <3>1, <3>2, <3>3, LimitsType
  <2> HIDE DEF b, e
  <2>4. Min({e, Len(l)}) \in {e, Len(l)} /\ Min({e, Len(l)}) <= Len(l)
    BY <1>1, <2>2, MinOfTwo
  <2>5. b + 1 \in 1..(Len(l) + 1) /\ Min({e, Len(l)}) \in 0..Len(l)
    BY <1>1, <2>2, <2>3, <2>4
  <2>6. SubSeq(l, b + 1, Min({e, Len(l)})) \in Seq(Bytes)
    <3> DEFINE from == b + 1
               upto == Min({e, Len(l)})
    <3>1. from \in 1..(Len(l) + 1) /\ upto \in 0..Len(l)
      BY <2>5
    <3> HIDE DEF from, upto
    <3>2. SubSeq(l, from, upto) \in Seq(Bytes)
      BY <1>1, <3>1, SubSeqProperties
    <3>3. QED BY <3>2 DEF from, upto
  <2>7. QED BY <2>6 DEF Line, b, e
<1>4. Pieces(l) = [i \in 1..n |-> SubSeq(l, (i - 1) * LoadMax + 1, Min({i * LoadMax, Len(l)}))]
  BY DEF Pieces
<1> HIDE DEF n
<1>5. QED BY <1>2, <1>3, <1>4

\* A line that is read at once is read as it is.
LEMMA WholePiece ==
  ASSUME NEW l \in Line, l # <<>>, Len(l) <= LoadMax
  PROVE  Len(Pieces(l)) = 1 /\ Pieces(l)[1] = l
<1>1. Len(l) \in Nat /\ l \in Seq(Bytes) /\ Len(l) >= 1
  BY DEF Line
<1>2. (Len(l) + LoadMax - 1) \div LoadMax = 1
  BY <1>1, LimitsType, OneIsEnough
<1>3. Pieces(l) = [i \in 1..1 |-> SubSeq(l, (i - 1) * LoadMax + 1, Min({i * LoadMax, Len(l)}))]
  BY <1>2 DEF Pieces
<1>4. (1 - 1) * LoadMax + 1 = 1 /\ 1 * LoadMax = LoadMax
  BY LimitsType
<1>5. Pieces(l)[1] = SubSeq(l, 1, Min({LoadMax, Len(l)}))
  <2> DEFINE P == Pieces(l)
             G(i) == SubSeq(l, (i - 1) * LoadMax + 1, Min({i * LoadMax, Len(l)}))
  <2>1. P = [i \in 1..1 |-> G(i)]
    BY <1>3
  <2> HIDE DEF P, G
  <2>2. P[1] = G(1)
    BY <2>1
  <2>3. QED BY <1>4, <2>2 DEF P, G
<1>6. Min({LoadMax, Len(l)}) = Len(l)
  BY <1>1, LimitsType, MinOfTwo
<1>7. SubSeq(l, 1, Len(l)) = l
  BY <1>1, SubSeqProperties, SeqEqual
<1>8. Len(Pieces(l)) = 1
  BY <1>3, PiecesType
<1>9. QED BY <1>5, <1>6, <1>7, <1>8

\* The lines that are loaded are those of the file, pushed piece by piece.
LEMMA LoadedIs ==
  ASSUME NEW fl \in Seq(Line)
  PROVE  \E f : /\ Loaded(fl) = f[Len(fl)] /\ f[0] = <<>>
                /\ \A k \in 0..Len(fl) : Lines(f[k])
                /\ \A k \in 1..Len(fl) : f[k] = Pushed(f[k - 1], Pieces(fl[k]))
<1> DEFINE X == {x \in Seq(Line \ {<<>>}) : Lines(x)}
           n == Len(fl)
           e == <<>>
           F == [k \in 1..n |-> [x \in X |-> Pushed(x, Pieces(fl[k]))]]
<1>1. e \in X /\ n \in Nat
  BY NoLines DEF Lines
<1>2. \A k \in 1..n : \A x \in X : F[k][x] = Pushed(x, Pieces(fl[k])) /\ F[k][x] \in X
  <2>1. TAKE k \in 1..n
  <2>2. TAKE x \in X
  <2>3. F[k][x] = Pushed(x, Pieces(fl[k]))
    OBVIOUS
  <2>4. Pieces(fl[k]) \in Seq(Line)
    <3>1. fl[k] \in Line
      OBVIOUS
    <3>2. QED BY <3>1, PiecesType
  <2>5. Lines(Pushed(x, Pieces(fl[k])))
    <3> DEFINE ls == Pieces(fl[k])
    <3> HIDE DEF ls
    <3>1. ls \in Seq(Line) /\ Lines(x)
      BY <2>4 DEF ls
    <3>2. PICK f : /\ Pushed(x, ls) = f[Len(ls)] /\ f[0] = x
                   /\ \A j \in 0..Len(ls) : Lines(f[j])
                   /\ \A j \in 1..Len(ls) : f[j] = Push(f[j - 1], ls[j])
      BY <3>1, PushedIs
    <3>3. Len(ls) \in 0..Len(ls)
      BY <3>1
    <3>4. Lines(Pushed(x, ls))
      BY <3>2, <3>3
    <3>5. QED BY <3>4 DEF ls
  <2>6. Pushed(x, Pieces(fl[k])) \in X
    BY <2>5 DEF Lines
  <2>7. QED BY <2>3, <2>6
<1> HIDE DEF F, e
<1>3. \E f : Carries(f, X, n, e, F)
  <2> HIDE DEF X, n
  <2>1. StaysIn(X, n, F)
    BY <1>2 DEF StaysIn
  <2>2. QED BY <1>1, <2>1, Iterates
<1>4. PICK f : /\ DOMAIN f = 0..n /\ f = [k \in 0..n |-> f[k]]
               /\ f[0] = e /\ \A k \in 0..n : f[k] \in X
               /\ \A k \in 1..n : f[k] = F[k][f[k - 1]]
  BY <1>3 DEF Carries
<1>5. \A k \in 1..n : f[k] = Pushed(f[k - 1], Pieces(fl[k]))
  <2>1. TAKE k \in 1..n
  <2>2. k - 1 \in 0..n
    BY <1>1
  <2>3. QED BY <1>2, <1>4, <2>2
<1>6. \A k \in 0..n : f[k] = IF k = 0 THEN e ELSE Pushed(f[k - 1], Pieces(fl[k]))
  <2>1. TAKE k \in 0..n
  <2>2. k = 0 \/ k \in 1..n
    BY <1>1
  <2>3. QED BY <1>4, <1>5, <2>2
<1>7. LoadedBy(f, fl)
  BY <1>4, <1>6 DEF LoadedBy, e
<1> DEFINE c == CHOOSE g : LoadedBy(g, fl)
<1>8. LoadedBy(c, fl)
  BY <1>7
<1>9. Loaded(fl) = c[Len(fl)]
  BY DEF Loaded, LoadedBy
<1> HIDE DEF c
<1>10. c = [k \in 0..n |-> IF k = 0 THEN e ELSE Pushed(c[k - 1], Pieces(fl[k]))]
  BY <1>8 DEF LoadedBy, e
<1>11. c[0] = e /\ \A k \in 1..n : c[k] = Pushed(c[k - 1], Pieces(fl[k]))
  BY <1>1, <1>10
<1> DEFINE S == {k \in Nat : k <= n => c[k] \in X}
<1>12. 0 \in S
  BY <1>1, <1>11
<1>13. ASSUME NEW k \in S PROVE k + 1 \in S
  <2>1. SUFFICES ASSUME k + 1 <= n PROVE c[k + 1] \in X
    OBVIOUS
  <2>2. k + 1 \in 1..n /\ (k + 1) - 1 = k /\ c[k] \in X
    BY <1>1, <2>1
  <2>3. c[k + 1] = Pushed(c[k], Pieces(fl[k + 1]))
    BY <1>11, <2>2
  <2>4. QED BY <1>2, <2>2, <2>3
<1>14. S \in SUBSET Nat
  OBVIOUS
<1>15. \A k \in Nat : k \in S
  <2> HIDE DEF S
  <2>1. QED BY <1>12, <1>13, <1>14, Induct
<1>16. \A k \in 0..n : Lines(c[k])
  BY <1>1, <1>15
<1>17. QED BY <1>9, <1>11, <1>16 DEF e

\* What is loaded are lines, whatever the file holds.
LEMMA LoadedLines ==
  ASSUME NEW fl \in Seq(Line)
  PROVE  Lines(Loaded(fl))
<1>1. PICK f : /\ Loaded(fl) = f[Len(fl)] /\ f[0] = <<>>
               /\ \A k \in 0..Len(fl) : Lines(f[k])
               /\ \A k \in 1..Len(fl) : f[k] = Pushed(f[k - 1], Pieces(fl[k]))
  BY LoadedIs
<1>2. Len(fl) \in 0..Len(fl)
  OBVIOUS
<1>3. QED BY <1>1, <1>2

\* One line that is read at once is pushed as it is.
LEMMA PushedOne ==
  ASSUME NEW h, Lines(h), NEW l \in Line, l # <<>>, Len(l) <= LoadMax
  PROVE  Pushed(h, Pieces(l)) = Push(h, l)
<1> DEFINE ls == Pieces(l)
<1>1. ls \in Seq(Line) /\ Len(ls) = 1 /\ ls[1] = l
  BY PiecesType, WholePiece
<1> HIDE DEF ls
<1>2. PICK f : /\ Pushed(h, ls) = f[Len(ls)] /\ f[0] = h
               /\ \A k \in 0..Len(ls) : Lines(f[k])
               /\ \A k \in 1..Len(ls) : f[k] = Push(f[k - 1], ls[k])
  BY <1>1, PushedIs
<1>3. f[1] = Push(f[1 - 1], ls[1]) /\ 1 - 1 = 0
  BY <1>1, <1>2
<1>4. Pushed(h, ls) = Push(h, l)
  BY <1>1, <1>2, <1>3
<1>5. QED BY <1>4 DEF ls

\* The lines that are recalled are lines.
LEMMA LinesAreSome == ASSUME NEW h, Lines(h) PROVE h \in Seq(Line)
<1> DEFINE X == Line \ {<<>>}
           n == Len(h)
<1>1. h \in Seq(X) /\ n \in Nat /\ DOMAIN h = 1..n
  BY DEF Lines
<1>2. \A i \in 1..n : h[i] \in Line
  BY <1>1
<1>3. h = [i \in 1..n |-> h[i]]
  BY <1>1
<1>4. QED BY <1>1, <1>2, <1>3

\* Of lines that were saved, and are read at once, the same lines are loaded.
LEMMA LoadedWhole ==
  ASSUME NEW fl, Lines(fl), \A i \in DOMAIN fl : Len(fl[i]) <= LoadMax
  PROVE  Loaded(fl) = fl
<1> DEFINE X == Line \ {<<>>}
           n == Len(fl)
<1>1. fl \in Seq(X) /\ fl \in Seq(Line) /\ n \in Nat /\ n <= HistMax /\ DOMAIN fl = 1..n
  BY LinesAreSome DEF Lines
<1>2. PICK f : /\ Loaded(fl) = f[n] /\ f[0] = <<>>
               /\ \A k \in 0..n : Lines(f[k])
               /\ \A k \in 1..n : f[k] = Pushed(f[k - 1], Pieces(fl[k]))
  BY <1>1, LoadedIs
<1> DEFINE Same(k) == Len(f[k]) = k /\ \A i \in 1..k : f[k][i] = fl[i]
           S == {k \in Nat : k <= n => Same(k)}
<1>3. 0 \in S
  <2>1. Len(f[0]) = 0 /\ \A i \in 1..0 : f[0][i] = fl[i]
    BY <1>2
  <2>2. QED BY <2>1
<1>4. ASSUME NEW k \in S PROVE k + 1 \in S
  <2>1. SUFFICES ASSUME k + 1 <= n PROVE Same(k + 1)
    OBVIOUS
  <2> DEFINE h == f[k]
             l == fl[k + 1]
  <2>2. k \in Nat /\ k + 1 \in 1..n /\ (k + 1) - 1 = k /\ k \in 0..n /\ Len(h) = k
             /\ \A i \in 1..k : h[i] = fl[i]
    BY <1>1, <2>1
  <2>3. Lines(h) /\ l \in X /\ Len(l) <= LoadMax
    BY <1>1, <1>2, <2>2
  <2>4. f[k + 1] = Pushed(h, Pieces(l))
    BY <1>2, <2>2
  <2>5. Pushed(h, Pieces(l)) = Push(h, l)
    BY <2>3, PushedOne
  <2>6. ~(h # <<>> /\ Last(h) = l)
    <3>1. SUFFICES ASSUME h # <<>>, h[Len(h)] = l PROVE FALSE
      BY DEF Last
    <3>2. h \in Seq(X)
      BY <2>3 DEF Lines
    <3>3. k >= 1
      BY <2>2, <3>1, <3>2
    <3>4. k \in 1..(n - 1) /\ h[k] = fl[k]
      BY <1>1, <2>2, <3>3
    <3>5. fl[k] # fl[k + 1]
      BY <3>4 DEF Lines
    <3>6. QED BY <2>2, <3>1, <3>4, <3>5
  <2>7. ~(Len(h) >= HistMax)
    BY <1>1, <2>2, LimitsType
  <2>8. f[k + 1] = Append(h, l)
    BY <2>3, <2>4, <2>5, <2>6, <2>7 DEF Push
  <2>9. h \in Seq(X)
    BY <2>3 DEF Lines
  <2> HIDE DEF X
  <2>10. /\ Len(Append(h, l)) = Len(h) + 1 /\ Append(h, l)[Len(h) + 1] = l
         /\ \A i \in 1..Len(h) : Append(h, l)[i] = h[i]
    <3> HIDE DEF h, l
    <3>1. QED BY <2>3, <2>9, AppendParts
  <2>11. Len(f[k + 1]) = k + 1
    BY <2>2, <2>8, <2>10
  <2>12. \A i \in 1..(k + 1) : f[k + 1][i] = fl[i]
    <3>1. TAKE i \in 1..(k + 1)
    <3>2. i \in 1..k \/ i = k + 1
      BY <2>2
    <3>3. QED BY <2>2, <2>8, <2>10, <3>2
  <2>13. QED BY <2>11, <2>12
<1>5. S \in SUBSET Nat
  OBVIOUS
<1>6. n \in S
  <2> HIDE DEF S
  <2>1. QED BY <1>1, <1>3, <1>4, <1>5, Induct
<1>7. Len(f[n]) = n /\ \A i \in 1..n : f[n][i] = fl[i]
  BY <1>1, <1>6
<1>8. f[n] \in Seq(X)
  <2>1. n \in 0..n
    BY <1>1
  <2>2. QED BY <1>2, <2>1 DEF Lines
<1>9. f[n] = fl
  BY <1>1, <1>7, <1>8, SeqEqual
<1>10. QED BY <1>2, <1>9

\* The names that are matched are some of the names.
LEMMA MatchingIs ==
  ASSUME NEW names \in Seq(Line), NEW w
  PROVE  LET m == Matching(names, w)
         IN m \in Seq(Line) /\ \A i \in DOMAIN m : \E j \in DOMAIN names : m[i] = names[j]
<1> DEFINE T == {names[j] : j \in DOMAIN names}
           X == Seq(T)
           n == Len(names)
           e == <<>>
           Step(x, k) == IF IsPrefix(w, names[k]) THEN Append(x, names[k]) ELSE x
           F == [k \in 1..n |-> [x \in X |-> Step(x, k)]]
<1>1. e \in X /\ n \in Nat /\ DOMAIN names = 1..n
  OBVIOUS
<1>2. \A k \in 1..n : \A x \in X : F[k][x] = Step(x, k) /\ F[k][x] \in X
  <2>1. TAKE k \in 1..n
  <2>2. TAKE x \in X
  <2>3. F[k][x] = Step(x, k)
    OBVIOUS
  <2>4. names[k] \in T
    OBVIOUS
  <2>5. Append(x, names[k]) \in X
    <3> HIDE DEF T
    <3>1. QED BY <2>4, AppendProperties
  <2>6. QED BY <2>3, <2>5
<1> HIDE DEF F, e, T, Step
<1>3. \E f : Carries(f, X, n, e, F)
  <2> HIDE DEF X, n
  <2>1. StaysIn(X, n, F)
    BY <1>2 DEF StaysIn
  <2>2. QED BY <1>1, <2>1, Iterates
<1>4. PICK f : /\ DOMAIN f = 0..n /\ f = [k \in 0..n |-> f[k]]
               /\ f[0] = e /\ \A k \in 0..n : f[k] \in X
               /\ \A k \in 1..n : f[k] = F[k][f[k - 1]]
  BY <1>3 DEF Carries
<1>5. \A k \in 1..n : f[k] = Step(f[k - 1], k)
  <2>1. TAKE k \in 1..n
  <2>2. k - 1 \in 0..n
    BY <1>1
  <2>3. QED BY <1>2, <1>4, <2>2
<1>6. \A k \in 0..n : f[k] = IF k = 0 THEN e ELSE Step(f[k - 1], k)
  <2>1. TAKE k \in 0..n
  <2>2. k = 0 \/ k \in 1..n
    BY <1>1
  <2>3. QED BY <1>4, <1>5, <2>2
<1>7. MatchedBy(f, names, w)
  <2>1. f = [k \in 0..n |-> IF k = 0 THEN e ELSE Step(f[k - 1], k)]
    BY <1>4, <1>6
  <2>2. QED BY <2>1 DEF MatchedBy, e, Step
<1> DEFINE c == CHOOSE g : MatchedBy(g, names, w)
<1>8. MatchedBy(c, names, w)
  BY <1>7
<1>9. Matching(names, w) = c[Len(names)]
  BY DEF Matching, MatchedBy
<1> HIDE DEF c
<1>10. c = [k \in 0..n |-> IF k = 0 THEN e ELSE Step(c[k - 1], k)]
  BY <1>8 DEF MatchedBy, e, Step
<1>11. c[0] = e /\ \A k \in 1..n : c[k] = Step(c[k - 1], k)
  BY <1>1, <1>10
<1> DEFINE S == {k \in Nat : k <= n => c[k] \in X}
<1>12. 0 \in S
  BY <1>1, <1>11
<1>13. ASSUME NEW k \in S PROVE k + 1 \in S
  <2>1. SUFFICES ASSUME k + 1 <= n PROVE c[k + 1] \in X
    OBVIOUS
  <2>2. k + 1 \in 1..n /\ (k + 1) - 1 = k /\ c[k] \in X
    BY <1>1, <2>1
  <2>3. c[k + 1] = Step(c[k], k + 1)
    BY <1>11, <2>2
  <2>4. QED BY <1>2, <2>2, <2>3
<1>14. S \in SUBSET Nat
  OBVIOUS
<1>15. n \in S
  <2> HIDE DEF S
  <2>1. QED BY <1>1, <1>12, <1>13, <1>14, Induct
<1> DEFINE m == Matching(names, w)
<1>16. m \in Seq(T)
  BY <1>1, <1>9, <1>15
<1> HIDE DEF m
<1>17. \A i \in DOMAIN m : m[i] \in T
  BY <1>16
<1>18. \A i \in DOMAIN m : \E j \in DOMAIN names : m[i] = names[j]
  BY <1>17 DEF T
<1>19. \A i \in 1..Len(m) : m[i] \in Line
  <2>1. \A j \in DOMAIN names : names[j] \in Line
    BY <1>1
  <2>2. QED BY <1>16, <1>18, <2>1
<1>20. m \in Seq(Line)
  BY <1>16, <1>19
<1>21. QED BY <1>18, <1>20 DEF m

-----------------------------------------------------------------------------
(* The pinyin *)

ImeIn(P, S) == [on : BOOLEAN, py : P, cand : Nat, page : Nat, pages : Nat, sel : S]
ImeType == ImeIn(0..MaxPinyin, 0..PageSize - 1)
\* What CandidatesFit says of a state of the pinyin
Fits(py, cand, page, pages) ==
  cand = Found(py) /\ (py > 0 => pages = Pages(cand) /\ page < pages)
ImeGood(i) == i \in ImeType /\ Fits(i.py, i.cand, i.page, i.pages) /\ (~i.on => i.py = 0)

\* The dictionary answers numbers, and there is always a page.
LEMMA FoundType == MaxPinyin \in Nat /\ Found(0) = 0 /\ \A n \in 0..MaxPinyin : Found(n) \in Nat
<1>1. Dict \in Seq(Nat) /\ MaxPinyin \in Nat
  BY LineEditorAssumption DEF MaxPinyin
<1>2. ASSUME NEW n \in 0..MaxPinyin PROVE Found(n) \in Nat
  <2>1. CASE n = 0
    BY <2>1 DEF Found
  <2>2. CASE n # 0
    <3>1. n \in 1..Len(Dict)
      BY <1>1, <2>2 DEF MaxPinyin
    <3>2. Dict[n] \in Nat
      BY <1>1, <3>1, ElementOfSeq
    <3>3. QED BY <2>2, <3>2 DEF Found
  <2>3. QED BY <2>1, <2>2
<1>3. QED BY <1>1, <1>2 DEF Found

\* There is always a page.
LEMMA PagesType == ASSUME NEW n \in Nat PROVE Pages(n) \in Nat /\ Pages(n) >= 1
<1> DEFINE k == (n + PageSize - 1) \div PageSize
<1>1. k \in Nat
  BY LimitsType, Division
<1> HIDE DEF k
<1> DEFINE S == {1, k}
           m == k + 1
<1>2. S \in SUBSET Nat /\ S # {} /\ m \in Nat /\ \A j \in S : j <= m
  BY <1>1
<1>3. Max(S) \in S /\ \A j \in S : j <= Max(S)
  <2> HIDE DEF S, m
  <2>1. QED BY <1>2, MaxOf
<1>4. Max(S) \in Nat /\ Max(S) >= 1
  BY <1>1, <1>3
<1>5. QED BY <1>4 DEF Pages, k

\* The fields of a state of the pinyin
LEMMA ImeParts ==
  ASSUME NEW i, ImeGood(i)
  PROVE  /\ i = [on |-> i.on, py |-> i.py, cand |-> i.cand, page |-> i.page, pages |-> i.pages, sel |-> i.sel]
         /\ i.on \in BOOLEAN /\ i.py \in 0..MaxPinyin /\ i.py \in Nat /\ i.cand \in Nat
              /\ i.page \in Nat
         /\ i.pages \in Nat /\ i.sel \in 0..PageSize - 1 /\ i.sel \in Nat
         /\ Fits(i.py, i.cand, i.page, i.pages) /\ (~i.on => i.py = 0)
<1>1. i \in ImeType /\ Fits(i.py, i.cand, i.page, i.pages) /\ (~i.on => i.py = 0)
  BY DEF ImeGood
<1>2. /\ i = [on |-> i.on, py |-> i.py, cand |-> i.cand, page |-> i.page, pages |-> i.pages, sel |-> i.sel]
      /\ i.on \in BOOLEAN /\ i.py \in 0..MaxPinyin /\ i.cand \in Nat /\ i.page \in Nat
      /\ i.pages \in Nat /\ i.sel \in 0..PageSize - 1
  BY <1>1 DEF ImeType, ImeIn
<1>3. i.py \in Nat /\ i.sel \in Nat
  BY <1>2
<1>4. QED BY <1>1, <1>2, <1>3

\* A state of the pinyin from its fields
LEMMA ImeFrom ==
  ASSUME NEW on \in BOOLEAN, NEW py \in 0..MaxPinyin, NEW cand \in Nat, NEW page \in Nat,
         NEW pages \in Nat, NEW sel \in 0..PageSize - 1,
         Fits(py, cand, page, pages), ~on => py = 0,
         NEW i, i = [on |-> on, py |-> py, cand |-> cand, page |-> page, pages |-> pages, sel |-> sel]
  PROVE  ImeGood(i)
<1>1. i \in ImeType
  BY DEF ImeType, ImeIn
<1>2. i.on = on /\ i.py = py /\ i.cand = cand /\ i.page = page /\ i.pages = pages
  OBVIOUS
<1>3. Fits(i.py, i.cand, i.page, i.pages)
  BY <1>2
<1>4. ~i.on => i.py = 0
  BY <1>2
<1>5. QED BY <1>1, <1>3, <1>4 DEF ImeGood

\* No letters have no candidates.
LEMMA NothingFits ==
  ASSUME NEW page, NEW pages
  PROVE  Fits(0, 0, page, pages) /\ 0 \in 0..MaxPinyin /\ 0 \in Nat /\ 0 \in 0..PageSize - 1
  BY FoundType, LimitsType DEF Fits

\* Each of the steps of the pinyin leaves its state fitting.
LEMMA SpentIs ==
  ASSUME NEW P, NEW S, NEW i \in ImeIn(P, S), 0 \in P, 0 \in S
  PROVE  LET j == Spent(i)
         IN j \in ImeIn(P, S) /\ j.on = i.on /\ j.py = 0 /\ j.cand = 0 /\ j.page = 0
                 /\ j.pages = i.pages
  BY DEF ImeIn, Spent

\* Switching off changes no other field.
LEMMA OffIs ==
  ASSUME NEW P, NEW S, NEW i \in ImeIn(P, S)
  PROVE  LET j == Off(i)
         IN j \in ImeIn(P, S) /\ j.py = i.py /\ j.cand = i.cand /\ j.page = i.page
                 /\ j.pages = i.pages
  BY DEF ImeIn, Off

\* A commit ends with no letters, on or off.
LEMMA SpentIsGood ==
  ASSUME NEW i, ImeGood(i)
  PROVE  ImeGood(Spent(i)) /\ ImeGood(Off(Spent(i))) /\ Spent(i).py = 0 /\ Off(Spent(i)).py = 0
<1> DEFINE j == Spent(i)
           k == Off(j)
<1>1. j \in ImeType /\ j.py = 0 /\ j.cand = 0
  BY NothingFits, SpentIs DEF ImeGood, ImeType
<1> HIDE DEF j
<1>2. k \in ImeType /\ k.py = 0 /\ k.cand = 0
  BY <1>1, OffIs DEF ImeType
<1> HIDE DEF k
<1>3. ImeGood(j) /\ ImeGood(k)
  BY <1>1, <1>2, NothingFits DEF ImeGood
<1>4. QED BY <1>1, <1>2, <1>3 DEF j, k

\* A refresh shows the candidates of the letters (tui_ime_refresh).
LEMMA RefreshedIsGood ==
  ASSUME NEW i, ImeGood(i), i.on, NEW n \in 0..MaxPinyin
  PROVE  ImeGood(Refreshed(i, n)) /\ Refreshed(i, n).py = n
<1> DEFINE c == Found(n)
           g == Pages(Found(n))
           p == Min({i.page, g - 1})
           s == Min({i.sel, PageSize - 1})
           j == [i EXCEPT !.py = n, !.cand = c, !.pages = g, !.page = p, !.sel = s]
<1>1. c \in Nat /\ g \in Nat /\ g >= 1 /\ g - 1 \in Nat /\ PageSize - 1 \in Nat
  BY FoundType, PagesType, LimitsType
<1>2. i.page \in Nat /\ i.sel \in Nat /\ i.sel \in 0..PageSize - 1 /\ i \in ImeType
  BY ImeParts DEF ImeGood
<1>3. p \in Nat /\ p < g
  <2> HIDE DEF g
  <2>1. QED BY <1>1, <1>2, MinOfTwo
<1>4. s \in 0..PageSize - 1
  BY <1>1, <1>2, MinOfTwo
<1>5. Refreshed(i, n) = j
  BY DEF Refreshed
<1>6. Fits(n, c, p, g)
  BY <1>3 DEF Fits
<1> HIDE DEF c, g, p, s
<1>7. /\ j \in ImeType /\ j.on = i.on /\ j.py = n /\ j.cand = c /\ j.page = p /\ j.pages = g
  <2> DEFINE P == 0..MaxPinyin
             S == 0..PageSize - 1
  <2>1. i \in ImeIn(P, S) /\ n \in P /\ s \in S
    BY <1>2, <1>4 DEF ImeType
  <2> HIDE DEF P, S
  <2>2. j \in ImeIn(P, S) /\ j.on = i.on /\ j.py = n /\ j.cand = c /\ j.page = p /\ j.pages = g
    BY <1>1, <1>3, <2>1 DEF ImeIn
  <2>3. QED BY <2>2 DEF ImeType, P, S
<1> HIDE DEF j
<1>8. ImeGood(j)
  BY <1>6, <1>7 DEF ImeGood
<1>9. QED BY <1>5, <1>7, <1>8

\* A flip stays on the pages there are (tui_ime_page_flip).
LEMMA FlippedIsGood ==
  ASSUME NEW i, ImeGood(i), NEW up \in BOOLEAN
  PROVE  ImeGood(Flipped(i, up)) /\ Flipped(i, up).py = i.py
<1>1. CASE i.pages <= 1
  BY <1>1 DEF Flipped
<1>2. CASE ~(i.pages <= 1)
  <2> DEFINE p == IF up THEN (i.page + 1) % i.pages ELSE IF i.page = 0 THEN i.pages - 1 ELSE i.page - 1
  <2>1. i.page \in Nat /\ i.pages \in Nat /\ i.pages > 1
    BY <1>2, ImeParts
  <2>2. (i.page + 1) % i.pages \in Nat /\ (i.page + 1) % i.pages < i.pages
    BY <2>1
  <2>3. p \in Nat /\ (i.page < i.pages => p < i.pages)
    <3>1. CASE up
      BY <2>2, <3>1
    <3>2. CASE ~up
      BY <2>1, <3>2
    <3>3. QED BY <3>1, <3>2
  <2>4. Flipped(i, up) = [on |-> i.on, py |-> i.py, cand |-> i.cand, page |-> p, pages |-> i.pages, sel |-> i.sel]
    BY <1>2, ImeParts DEF Flipped
  <2>5. Flipped(i, up).py = i.py
    BY <2>4
  <2> HIDE DEF p
  <2>6. Fits(i.py, i.cand, p, i.pages)
    BY <2>3, ImeParts DEF Fits
  <2>7. ImeGood(Flipped(i, up))
    BY <2>3, <2>4, <2>6, ImeParts, ImeFrom
  <2>8. QED BY <2>5, <2>7
<1>3. QED BY <1>1, <1>2

\* Esc drops the letters with their candidates.
LEMMA EscIsGood ==
  ASSUME NEW i, ImeGood(i)
  PROVE  ImeGood(Off([i EXCEPT !.py = 0, !.cand = 0]))
<1> DEFINE j == [i EXCEPT !.py = 0, !.cand = 0]
           k == Off(j)
<1>1. j \in ImeType /\ j.py = 0 /\ j.cand = 0
  <2> DEFINE P == 0..MaxPinyin
             S == 0..PageSize - 1
  <2>1. i \in ImeIn(P, S) /\ 0 \in P
    BY NothingFits DEF ImeGood, ImeType
  <2> HIDE DEF P, S
  <2>2. j \in ImeIn(P, S) /\ j.py = 0 /\ j.cand = 0
    BY <2>1 DEF ImeIn
  <2>3. QED BY <2>2 DEF ImeType, P, S
<1> HIDE DEF j
<1>2. k \in ImeType /\ k.py = 0 /\ k.cand = 0
  BY <1>1, OffIs DEF ImeType
<1> HIDE DEF k
<1>3. ImeGood(k)
  BY <1>2, NothingFits DEF ImeGood
<1>4. QED BY <1>3 DEF j, k

\* Without letters the method is switched off and on.
LEMMA SwitchIsGood ==
  ASSUME NEW i, ImeGood(i), i.py = 0
  PROVE  /\ ImeGood(Off(i)) /\ Off(i).py = 0
         /\ ImeGood([i EXCEPT !.on = TRUE]) /\ [i EXCEPT !.on = TRUE].py = 0
<1> DEFINE j == [i EXCEPT !.on = TRUE]
           k == Off(i)
<1>1. i \in ImeType /\ Fits(i.py, i.cand, i.page, i.pages)
  BY DEF ImeGood
<1>2. j \in ImeType /\ j.py = i.py /\ j.cand = i.cand /\ j.page = i.page /\ j.pages = i.pages
  <2> DEFINE P == 0..MaxPinyin
             S == 0..PageSize - 1
  <2>1. i \in ImeIn(P, S)
    BY <1>1 DEF ImeType
  <2> HIDE DEF P, S
  <2>2. j \in ImeIn(P, S) /\ j.py = i.py /\ j.cand = i.cand /\ j.page = i.page /\ j.pages = i.pages
    BY <2>1 DEF ImeIn
  <2>3. QED BY <2>2 DEF ImeType, P, S
<1>3. k \in ImeType /\ k.py = i.py /\ k.cand = i.cand /\ k.page = i.page /\ k.pages = i.pages
  BY <1>1, OffIs DEF ImeType
<1> HIDE DEF j, k
<1>4. ImeGood(j) /\ ImeGood(k)
  BY <1>1, <1>2, <1>3 DEF ImeGood
<1>5. QED BY <1>2, <1>3, <1>4 DEF j, k

\* The highlight moves within a page.
LEMMA HighlightIsGood ==
  ASSUME NEW i, ImeGood(i), NEW s \in 0..PageSize - 1
  PROVE  ImeGood([i EXCEPT !.sel = s]) /\ [i EXCEPT !.sel = s].py = i.py
<1>1. [i EXCEPT !.sel = s]
        = [on |-> i.on, py |-> i.py, cand |-> i.cand, page |-> i.page, pages |-> i.pages, sel |-> s]
  BY ImeParts
<1>2. ImeGood([i EXCEPT !.sel = s])
  BY <1>1, ImeParts, ImeFrom
<1>3. QED BY <1>1, <1>2

\* A page has no more than PageSize candidates.
LEMMA OnPageIs == ASSUME ImeGood(ime) PROVE OnPage \in Nat /\ OnPage <= PageSize
<1> DEFINE n == ime.page * PageSize
           m == Min({ime.cand, n})
           d == ime.cand - m
<1>1. ime.cand \in Nat /\ ime.page \in Nat
  BY ImeParts
<1>2. n \in Nat
  BY <1>1, LimitsType, TimesGrows
<1> HIDE DEF n
<1>3. m \in Nat /\ m <= ime.cand
  BY <1>1, <1>2, MinOfTwo
<1> HIDE DEF m
<1>4. d \in Nat
  BY <1>1, <1>3
<1> HIDE DEF d
<1>5. Min({PageSize, d}) \in Nat /\ Min({PageSize, d}) <= PageSize
  BY <1>4, LimitsType, MinOfTwo
<1>6. QED BY <1>5 DEF OnPage, d, m, n

\* The letters as typed are whole characters, and so is a candidate.
LEMMA RawIsSound ==
  ASSUME ImeGood(ime)
  PROVE  Sound(Raw) /\ Len(Raw) = ime.py /\ Raw = [n \in 1..ime.py |-> Letter]
<1>1. ime.py \in Nat
  BY ImeParts
<1>2. Raw \in Line /\ Len(Raw) = ime.py /\ DOMAIN Raw = 1..ime.py
           /\ \A n \in 1..ime.py : Raw[n] = "a"
  <2> DEFINE m == ime.py
             r == [n \in 1..m |-> "a"]
  <2>1. "a" \in Bytes
    BY DEF Bytes
  <2>2. m \in Nat
    BY <1>1
  <2> HIDE DEF m
  <2>3. r \in Seq(Bytes) /\ Len(r) = m /\ DOMAIN r = 1..m /\ \A n \in 1..m : r[n] = "a"
    BY <2>1, <2>2
  <2>4. QED BY <2>3 DEF Raw, Letter, Line, m
<1>3. WellFormed(Raw)
  BY <1>2 DEF WellFormed, IsCont
<1>4. QED BY <1>2, <1>3 DEF Sound, Raw

\* A byte that is a character joins to them.
LEMMA AppendIsSound ==
  ASSUME NEW s, Sound(s), NEW b \in Bytes \ {"L", "C"}
  PROVE  Sound(Append(s, b)) /\ Append(s, b) = s \o <<b>>
<1>1. s \in Seq(Bytes) /\ Sound(<<b>>)
  BY SoundBytes DEF Sound, Line
<1>2. Append(s, b) = s \o <<b>>
  BY <1>1, AppendIsConcat
<1>3. Sound(s \o <<b>>)
  <2> DEFINE x == <<b>>
  <2> HIDE DEF x
  <2>1. Sound(x)
    BY <1>1 DEF x
  <2>2. Sound(s \o x)
    BY <2>1, JoinIsSound
  <2>3. QED BY <2>2 DEF x
<1>4. QED BY <1>2, <1>3

-----------------------------------------------------------------------------
(* What a key makes of line and caret *)

\* It stays a line with a caret within, and whole if it was.
Stays(t, u) == TextType(u) /\ (Kept(t) => Kept(u))

\* The backspace
LEMMA BackStays == ASSUME NEW t, TextType(t) PROVE Stays(t, DeleteBack(t))
<1>1. t.s \in Line /\ Len(t.s) \in Nat /\ t.c \in Nat /\ t.c <= Len(t.s) /\ After(t) \in Line
  BY Parts
<1>2. LeftOf(t) \in 0..t.c
  BY LeftWithin
<1> DEFINE k == LeftOf(t)
           a == SubSeq(t.s, 1, k)
<1>3. k \in 0..Len(t.s)
  <2> HIDE DEF k
  <2>1. k \in 0..t.c
    BY <1>2 DEF k
  <2>2. QED BY <1>1, <2>1, Within
<1> HIDE DEF k
<1>4. a \in Line /\ Len(a) = k
  BY <1>1, <1>3, CutParts
<1>5. DeleteBack(t) = [s |-> a \o After(t), c |-> Len(a)]
  BY <1>4 DEF DeleteBack, k
<1> HIDE DEF a
<1>6. TextType(DeleteBack(t))
  BY <1>1, <1>4, <1>5, FromParts
<1>7. QED BY <1>6, BackIsKept DEF Stays

\* Ctrl+D
LEMMA ForwardStays == ASSUME NEW t, TextType(t) PROVE Stays(t, DeleteFwd(t))
<1>1. /\ t.s \in Line /\ Len(t.s) \in Nat /\ t.c \in Nat /\ t.c <= Len(t.s)
      /\ Before(t) \in Line /\ Len(Before(t)) = t.c /\ t = [s |-> t.s, c |-> t.c]
  BY Parts
<1> DEFINE k == RightOf(t)
           b == SubSeq(t.s, k + 1, Len(t.s))
<1>2. k \in 0..Len(t.s)
  BY <1>1, RightWithin
<1> HIDE DEF k
<1>3. b \in Line
  BY <1>1, <1>2, CutParts
<1> HIDE DEF b
<1>4. DeleteFwd(t) = [s |-> Before(t) \o b, c |-> Len(Before(t))]
  <2> DEFINE l == Before(t) \o b
  <2>1. DeleteFwd(t) = [t EXCEPT !.s = l]
    BY DEF DeleteFwd, b, k
  <2> HIDE DEF l
  <2>2. [t EXCEPT !.s = l] = [s |-> l, c |-> t.c]
    BY <1>1
  <2>3. QED BY <1>1, <2>1, <2>2 DEF l
<1>5. TextType(DeleteFwd(t))
  BY <1>1, <1>3, <1>4, FromParts
<1>6. QED BY <1>5, ForwardIsKept DEF Stays

\* Ctrl+U and Ctrl+K
LEMMA KillStays ==
  ASSUME NEW t, TextType(t)
  PROVE  Stays(t, [s |-> After(t), c |-> 0]) /\ Stays(t, [t EXCEPT !.s = Before(t)])
<1>1. /\ Before(t) \in Line /\ Len(Before(t)) = t.c /\ t.c \in Nat /\ t = [s |-> t.s, c |-> t.c]
      /\ After(t) \in Line /\ Len(After(t)) \in Nat
  BY Parts DEF Line
<1>2. TextType([s |-> After(t), c |-> 0])
  BY <1>1 DEF TextType
<1>3. [t EXCEPT !.s = Before(t)] = [s |-> Before(t), c |-> t.c]
  BY <1>1
<1>4. TextType([t EXCEPT !.s = Before(t)])
  BY <1>1, <1>3 DEF TextType
<1>5. QED BY <1>2, <1>4, KillIsKept DEF Stays

\* A move of the caret to where a character ends
LEMMA CaretStays ==
  ASSUME NEW t, TextType(t), NEW n \in 0..Len(t.s), Kept(t) => Boundary(t.s, n)
  PROVE  Stays(t, [t EXCEPT !.c = n])
<1>1. TextType([t EXCEPT !.c = n])
  BY Parts DEF TextType
<1>2. QED BY <1>1, CaretIsKept DEF Stays

\* Whole characters appended
LEMMA PutStays ==
  ASSUME NEW t, TextType(t), NEW x, Sound(x)
  PROVE  Stays(t, Put(t, x))
  BY PutParts, PutIsKept DEF Stays, Sound

\* A line with the caret at its end
LEMMA AtEndType == ASSUME NEW s \in Line PROVE TextType(AtEnd(s))
  BY DEF AtEnd, TextType, Line

\* A whole line in the place of another
LEMMA AtEndStays ==
  ASSUME NEW t, NEW s \in Line, Kept(t) => Sound(s)
  PROVE  Stays(t, AtEnd(s))
  BY AtEndType, KeptAtEnds DEF Stays

\* The empty line
LEMMA EmptyIsKept == Kept(Empty)
<1> DEFINE e == <<>>
<1>1. Sound(e)
  BY SoundBytes
<1>2. Empty = [s |-> e, c |-> 0]
  BY DEF Empty
<1> HIDE DEF e
<1>3. QED BY <1>1, <1>2, KeptAtEnds

\* The line with a candidate in the place of the word before the caret
LEMMA PickedParts ==
  ASSUME NEW t, TextType(t), NEW x \in Line
  PROVE  LET a == SubSeq(t.s, 1, TokenStart(t))
         IN /\ a \in Line /\ Len(a) = TokenStart(t) /\ TextType(Picked(t, x))
            /\ Picked(t, x).s = (a \o x) \o After(t)
<1> DEFINE n == TokenStart(t)
           a == SubSeq(t.s, 1, n)
<1>1. t.s \in Line /\ Len(t.s) \in Nat /\ t.c \in Nat /\ t.c <= Len(t.s) /\ After(t) \in Line
  BY Parts
<1>2. n \in 0..Len(t.s)
  <2>1. n \in 0..t.c
    BY TokenStartIs
  <2> HIDE DEF n
  <2>2. QED BY <1>1, <2>1, Within
<1> HIDE DEF n
<1>3. a \in Line /\ Len(a) = n
  BY <1>1, <1>2, CutParts
<1> HIDE DEF a
<1>4. a \o x \in Line /\ Len(a \o x) = n + Len(x)
  BY <1>3, JoinParts
<1> DEFINE l == a \o x
<1>5. Picked(t, x) = [s |-> l \o After(t), c |-> Len(l)]
  BY <1>4 DEF Picked, a, n
<1>6. l \in Line
  BY <1>4
<1>7. Picked(t, x).s = l \o After(t)
  BY <1>5
<1> HIDE DEF l
<1>8. TextType(Picked(t, x))
  BY <1>1, <1>5, <1>6, FromParts
<1>9. QED BY <1>3, <1>7, <1>8 DEF l, a, n

\* After the candidate stands what stood after the caret.
LEMMA PickedLength ==
  ASSUME NEW t, TextType(t), NEW x \in Line
  PROVE  TextType(Picked(t, x)) /\ Len(Picked(t, x).s) = Picked(t, x).c + Len(After(t))
<1> DEFINE a == SubSeq(t.s, 1, TokenStart(t))
           d == After(t)
           u == Picked(t, x)
<1>1. /\ a \in Line /\ Len(a) = TokenStart(t) /\ TextType(u) /\ u.s = (a \o x) \o d
  BY PickedParts
<1>2. u.c = TokenStart(t) + Len(x)
  BY DEF Picked
<1>3. d \in Line
  BY Parts
<1> HIDE DEF a, d, u
<1>4. a \o x \in Line /\ Len(a \o x) = Len(a) + Len(x)
  BY <1>1, JoinParts
<1>5. Len((a \o x) \o d) = Len(a \o x) + Len(d)
  BY <1>3, <1>4, JoinParts
<1>6. Len(u.s) = u.c + Len(d)
  BY <1>1, <1>2, <1>4, <1>5
<1>7. QED BY <1>1, <1>6 DEF u, d

\* A completion, with a blank after it or not
LEMMA PickedStays ==
  ASSUME NEW t, TextType(t), NEW x, Sound(x)
  PROVE  Stays(t, Picked(t, x)) /\ Stays(t, AtEnd(Append(Picked(t, x).s, " ")))
<1> DEFINE u == Picked(t, x)
           s == Append(u.s, " ")
<1>1. TextType(u) /\ (Kept(t) => Kept(u))
  BY PickedParts, PickedIsKept DEF Sound
<1> HIDE DEF u
<1>2. u.s \in Line
  BY <1>1, Parts
<1>3. " " \in Bytes \ {"L", "C"}
  BY DEF Bytes
<1>4. s \in Line
  <2>1. u.s \in Seq(Bytes) /\ " " \in Bytes
    BY <1>2, <1>3 DEF Line
  <2>2. QED BY <2>1, AppendProperties DEF Line
<1>5. Kept(t) => Sound(s)
  BY <1>1, <1>3, KeptIsWhole, AppendIsSound
<1> HIDE DEF s
<1>6. Stays(t, AtEnd(s))
  BY <1>4, <1>5, AtEndStays
<1>7. QED BY <1>1, <1>6 DEF Stays, s, u

\* The candidates are whole characters.
LEMMA CandidatesAre ==
  ASSUME NEW t
  PROVE  Candidates(t) \in Seq(Line) /\ \A i \in DOMAIN Candidates(t) : Sound(Candidates(t)[i])
<1>1. ASSUME NEW names \in Seq(Line), \A j \in DOMAIN names : Sound(names[j]), NEW w
      PROVE  LET m == Matching(names, w)
             IN m \in Seq(Line) /\ \A i \in DOMAIN m : Sound(m[i])
  BY <1>1, MatchingIs
<1>2. Commands \in Seq(Line) /\ \A j \in DOMAIN Commands : Sound(Commands[j])
  <2>1. Commands \in Seq(Line)
    BY LineEditorAssumption DEF Line
  <2>2. \A j \in DOMAIN Commands : Commands[j] \in Line
    BY <2>1
  <2>3. QED BY <2>1, <2>2, NamesAreWhole DEF Sound
<1>3. ASSUME NEW d PROVE Names(d) \in Seq(Line) /\ \A j \in DOMAIN Names(d) : Sound(Names(d)[j])
  <2>1. CASE d \in DOMAIN Listing
    <3>1. Names(d) = Listing[d] /\ Listing[d] \in Seq(Line)
      BY <2>1, LineEditorAssumption DEF Names, Line
    <3>2. \A j \in DOMAIN Listing[d] : Listing[d][j] \in Line
      BY <3>1
    <3>3. QED BY <2>1, <3>1, <3>2, NamesAreWhole DEF Sound
  <2>2. CASE d \notin DOMAIN Listing
    BY <2>2 DEF Names
  <2>3. QED BY <2>1, <2>2
<1>4. CASE IsCommand(t)
  <2>1. Candidates(t) = Matching(Commands, Token(t))
    BY <1>4 DEF Candidates
  <2>2. QED BY <1>1, <1>2, <2>1
<1>5. CASE ~IsCommand(t)
  <2> DEFINE d == SubSeq(t.s, TokenStart(t) + 1, DirEnd(t))
             w == SubSeq(t.s, DirEnd(t) + 1, Len(t.s))
  <2>1. Candidates(t) = Matching(Names(d), w)
    BY <1>5 DEF Candidates
  <2> HIDE DEF d, w
  <2>2. QED BY <1>1, <1>3, <2>1
<1>6. QED BY <1>4, <1>5

-----------------------------------------------------------------------------
(* The inductive invariant *)

\* The bytes of a character that are still to come
Due(n) == [k \in 1..n |-> "C"]
SoundLines(h) == \A i \in DOMAIN h : Sound(h[i])

\* The line and the draft: with the bytes that are due, whole characters
EditInv ==
  /\ TextType(text) /\ owed \in 0..2 /\ (owed > 0 => reading) /\ draft \in Line /\ written \in Line
  /\ ~cut => Sound(draft) /\ (reading => Kept(Put(text, Due(owed))))

\* The lines and the file: what was saved is what is recalled
HistInv ==
  /\ Lines(hist) /\ file \in Seq(Line) /\ idx \in 0..Len(hist)
  /\ ~cut => SoundLines(hist) /\ SoundLines(file) /\ Lines(file)
  /\ ~cut /\ ~unsaved => file = hist

TabType == [active : BOOLEAN, sel : Nat]
RestType == /\ keys \in 0..MaxKeys /\ tab \in TabType /\ reading \in BOOLEAN
            /\ cut \in BOOLEAN /\ unsaved \in BOOLEAN

IInv == EditInv /\ HistInv /\ ImeGood(ime) /\ RestType

\* When nothing is due the line itself is whole.
LEMMA Settled == ASSUME NEW t, TextType(t) PROVE Put(t, Due(0)) = t
<1> DEFINE e == Due(0)
<1>1. e = <<>>
  BY DEF Due
<1> HIDE DEF e
<1>2. Put(t, e) = t
  BY <1>1, PutNothing
<1>3. QED BY <1>2 DEF e

\* The first state
LEMMA InvInit == Init => IInv
<1>1. SUFFICES ASSUME Init PROVE IInv
  OBVIOUS
<1> DEFINE e == <<>>
<1>2. Sound(e) /\ e \in Line /\ Kept(Empty) /\ TextType(Empty) /\ Lines(e) /\ Len(e) = 0
           /\ DOMAIN e = {}
  BY SoundBytes, EmptyIsKept, NoLines DEF Kept, Sound
<1>3. text = Empty /\ hist = e /\ file = e /\ draft = e /\ written = e /\ owed = 0 /\ idx = 0
  BY <1>1 DEF Init
<1> HIDE DEF e
<1>4. EditInv
  BY <1>2, <1>3, Settled DEF EditInv
<1>5. HistInv
  BY <1>2, <1>3, LinesAreSome DEF HistInv, SoundLines
<1>6. ImeGood(ime)
  <2>1. ime = [on |-> FALSE, py |-> 0, cand |-> 0, page |-> 0, pages |-> 0, sel |-> 0]
    BY <1>1 DEF Init
  <2>2. QED BY <2>1, NothingFits, ImeFrom
<1>7. RestType
  <2>1. tab = [active |-> FALSE, sel |-> 0] /\ keys = 0 /\ reading = FALSE /\ cut = FALSE
             /\ unsaved = FALSE
    BY <1>1 DEF Init
  <2>2. tab \in TabType
    BY <2>1 DEF TabType
  <2>3. 0 \in 0..MaxKeys
    BY LineEditorAssumption
  <2>4. QED BY <2>1, <2>2, <2>3 DEF RestType
<1>8. QED BY <1>4, <1>5, <1>6, <1>7 DEF IInv

\* The lines are untouched.
LEMMA HistStays ==
  ASSUME HistInv, hist' = hist, file' = file, cut' = cut, unsaved' = unsaved, idx' \in 0..Len(hist)
  PROVE  HistInv'
  BY DEF HistInv

\* A key is pressed, and a completion left or not.
LEMMA KeyType ==
  ASSUME RestType, (keys < MaxKeys /\ keys' = keys + 1) \/ keys' = keys
  PROVE  keys' \in 0..MaxKeys
  BY LineEditorAssumption DEF RestType

\* The completion is a completion whether it is left or not.
LEMMA LeftTab ==
  ASSUME RestType PROVE tab \in TabType /\ [tab EXCEPT !.active = FALSE] \in TabType
  BY DEF RestType, TabType

\* A key that changes the line, the place in the history or the pinyin
LEMMA EditingStep ==
  ASSUME IInv, Editing, Stays(text, text'), idx' \in 0..Len(hist), draft' = draft,
         ImeGood(ime'), tab' \in TabType
  PROVE  IInv'
<1>1. /\ owed = 0 /\ owed' = owed /\ hist' = hist /\ file' = file /\ reading' = reading
      /\ cut' = cut /\ unsaved' = unsaved /\ written' = written /\ reading
      /\ keys < MaxKeys /\ keys' = keys + 1
  BY DEF Editing, Key, Reading, Whole, Stay, ghost
<1>2. TextType(text) /\ TextType(text') /\ (Kept(text) => Kept(text'))
  BY DEF IInv, EditInv, Stays
<1>3. Put(text, Due(0)) = text /\ Put(text', Due(0)) = text'
  BY <1>2, Settled
<1>4. EditInv'
  <2>1. EditInv
    BY DEF IInv
  <2>2. TextType(text') /\ owed' \in 0..2 /\ draft' \in Line /\ written' \in Line
    BY <1>1, <1>2, <2>1 DEF EditInv
  <2>3. owed' > 0 => reading'
    BY <1>1
  <2>4. ASSUME ~cut' PROVE Sound(draft') /\ Kept(Put(text', Due(owed')))
    <3>1. ~cut
      BY <1>1, <2>4
    <3>2. Sound(draft) /\ Kept(Put(text, Due(0)))
      BY <1>1, <2>1, <3>1 DEF EditInv
    <3>3. QED BY <1>1, <1>2, <1>3, <3>2
  <2>5. QED BY <2>2, <2>3, <2>4 DEF EditInv
<1>5. HistInv'
  BY <1>1, HistStays DEF IInv
<1>6. RestType'
  <2>1. keys' \in 0..MaxKeys
    BY <1>1, KeyType DEF IInv
  <2>2. QED BY <1>1, <2>1 DEF IInv, RestType
<1>7. QED BY <1>4, <1>5, <1>6 DEF IInv

\* What the invariant says of the variables that keys change
LEMMA EditFacts ==
  ASSUME IInv
  PROVE  /\ TextType(text) /\ idx \in 0..Len(hist) /\ Len(hist) \in Nat /\ idx \in Nat
              /\ Lines(hist)
         /\ ImeGood(ime) /\ tab \in TabType /\ [tab EXCEPT !.active = FALSE] \in TabType
         /\ Stays(text, text)
<1>1. TextType(text) /\ idx \in 0..Len(hist) /\ Lines(hist) /\ ImeGood(ime) /\ RestType
  BY DEF IInv, EditInv, HistInv
<1>2. Len(hist) \in Nat
  BY <1>1 DEF Lines
<1>3. idx \in Nat
  BY <1>1, <1>2
<1>4. QED BY <1>1, <1>2, <1>3, LeftTab DEF Stays

\* The caret and the deletions
LEMMA BackspaceStep == IInv /\ Backspace => IInv'
<1>1. SUFFICES ASSUME IInv, Backspace PROVE IInv'
  OBVIOUS
<1>2. /\ Editing /\ text' = DeleteBack(text) /\ tab' = [tab EXCEPT !.active = FALSE]
      /\ idx' = idx /\ draft' = draft /\ ime' = ime
  BY <1>1 DEF Backspace, LeavesTab
<1>3. Stays(text, text')
  BY <1>1, <1>2, EditFacts, BackStays
<1>4. QED BY <1>1, <1>2, <1>3, EditFacts, EditingStep

\* A key that moves the caret
LEMMA CaretStep ==
  ASSUME IInv, NEW n, Caret(n), n \in 0..Len(text.s), Kept(text) => Boundary(text.s, n)
  PROVE  IInv'
<1>1. Editing /\ text' = [text EXCEPT !.c = n] /\ idx' = idx /\ draft' = draft /\ tab' = tab
           /\ ime' = ime
  BY DEF Caret
<1>2. Stays(text, text')
  BY <1>1, EditFacts, CaretStays
<1>3. QED BY <1>1, <1>2, EditFacts, EditingStep

\* The four of them
LEMMA MoveStep == IInv /\ (Left \/ Right \/ CtrlA \/ CtrlE) => IInv'
<1>1. SUFFICES ASSUME IInv, Left \/ Right \/ CtrlA \/ CtrlE PROVE IInv'
  OBVIOUS
<1>2. /\ TextType(text) /\ text.s \in Line /\ Len(text.s) \in Nat /\ text.c \in Nat
           /\ text.c <= Len(text.s)
      /\ (Kept(text) => Sound(text.s))
  BY <1>1, EditFacts, Parts, KeptIsWhole
<1>3. CASE Left
  <2>1. LeftOf(text) \in 0..text.c
    BY <1>2, LeftWithin
  <2>2. LeftOf(text) \in 0..Len(text.s)
    <3> DEFINE n == LeftOf(text)
    <3> HIDE DEF n
    <3>1. n \in 0..text.c
      BY <2>1 DEF n
    <3>2. n \in 0..Len(text.s)
      BY <1>2, <3>1, Within
    <3>3. QED BY <3>2 DEF n
  <2>3. Kept(text) => Boundary(text.s, LeftOf(text))
    BY LeftIs
  <2>4. QED BY <1>1, <1>3, <2>2, <2>3, CaretStep DEF Left
<1>4. CASE Right
  <2>1. RightOf(text) \in 0..Len(text.s)
    BY <1>2, RightWithin
  <2>2. Kept(text) => Boundary(text.s, RightOf(text))
    BY RightIs
  <2>3. QED BY <1>1, <1>4, <2>1, <2>2, CaretStep DEF Right
<1>5. CASE CtrlA
  <2>1. 0 \in 0..Len(text.s)
    BY <1>2
  <2>2. Kept(text) => Boundary(text.s, 0)
    BY <1>2, Boundaries
  <2>3. QED BY <1>1, <1>5, <2>1, <2>2, CaretStep DEF CtrlA
<1>6. CASE CtrlE
  <2>1. Len(text.s) \in 0..Len(text.s)
    BY <1>2
  <2>2. Kept(text) => Boundary(text.s, Len(text.s))
    BY <1>2, Boundaries
  <2>3. QED BY <1>1, <1>6, <2>1, <2>2, CaretStep DEF CtrlE
<1>7. QED BY <1>1, <1>3, <1>4, <1>5, <1>6

\* A key that changes the line only
LEMMA EditedStep ==
  ASSUME IInv, NEW t, Edited(t), Stays(text, t)
  PROVE  IInv'
<1>1. Editing /\ text' = t /\ idx' = idx /\ draft' = draft /\ tab' = tab /\ ime' = ime
  BY DEF Edited
<1>2. QED BY <1>1, EditFacts, EditingStep

\* Ctrl with U, K, C and D
LEMMA CutStep == IInv /\ (CtrlU \/ CtrlK \/ CtrlC \/ CtrlD) => IInv'
<1>1. SUFFICES ASSUME IInv, CtrlU \/ CtrlK \/ CtrlC \/ CtrlD PROVE IInv'
  OBVIOUS
<1>2. TextType(text)
  BY <1>1, EditFacts
<1>3. /\ Stays(text, [s |-> After(text), c |-> 0]) /\ Stays(text, [text EXCEPT !.s = Before(text)])
      /\ Stays(text, DeleteFwd(text))
  BY <1>2, KillStays, ForwardStays
<1>4. Stays(text, Empty)
  BY EmptyIsKept DEF Stays, Kept
<1>5. CASE CtrlU
  BY <1>1, <1>3, <1>5, EditedStep DEF CtrlU
<1>6. CASE CtrlK
  BY <1>1, <1>3, <1>6, EditedStep DEF CtrlK
<1>7. CASE CtrlC
  BY <1>1, <1>4, <1>7, EditedStep DEF CtrlC
<1>8. CASE CtrlD
  BY <1>1, <1>3, <1>8, EditedStep DEF CtrlD
<1>9. QED BY <1>1, <1>5, <1>6, <1>7, <1>8

\* The lines that are recalled
LEMMA RecalledIs ==
  ASSUME IInv, NEW n \in 1..Len(hist)
  PROVE  hist[n] \in Line /\ (~cut => Sound(hist[n]))
<1>1. hist \in Seq(Line \ {<<>>}) /\ n \in DOMAIN hist
  BY DEF IInv, HistInv, Lines
<1>2. hist[n] \in Line
  BY <1>1
<1>3. QED BY <1>1, <1>2 DEF IInv, HistInv, SoundLines

\* Up recalls an earlier line, and keeps the one that is written.
LEMMA UpStep == IInv /\ Up => IInv'
<1>1. SUFFICES ASSUME IInv, Up PROVE IInv'
  OBVIOUS
<1>2. /\ owed = 0 /\ owed' = owed /\ hist' = hist /\ file' = file /\ reading' = reading
      /\ cut' = cut /\ unsaved' = unsaved /\ reading /\ keys < MaxKeys /\ keys' = keys + 1
      /\ tab' = tab /\ ime' = ime
  BY <1>1 DEF Up, Key, Reading, Whole
<1>3. EditInv /\ TextType(text) /\ text.s \in Line
  BY <1>1, EditFacts, Parts DEF IInv
<1>4. Put(text, Due(0)) = text
  BY <1>3, Settled
<1>5. written' \in Line
  <2>1. written' = IF idx = Len(hist) THEN text.s ELSE written
    BY <1>1 DEF Up
  <2>2. QED BY <1>3, <2>1 DEF EditInv
<1>6. /\ TextType(text') /\ draft' \in Line /\ idx' \in 0..Len(hist)
      /\ ~cut => Kept(text') /\ Sound(draft')
  <2>1. ~cut => Kept(text) /\ Sound(text.s) /\ Sound(draft)
    <3>1. ~cut => Kept(Put(text, Due(0))) /\ Sound(draft)
      BY <1>2, <1>3 DEF EditInv
    <3>2. QED BY <1>3, <1>4, <3>1, KeptIsWhole
  <2>2. CASE idx > 0 /\ idx' = idx - 1 /\ draft' = text.s /\ text' = AtEnd(hist[idx])
    <3>1. idx \in 1..Len(hist) /\ idx - 1 \in 0..Len(hist)
      BY <1>1, <2>2, EditFacts
    <3>2. hist[idx] \in Line /\ (~cut => Sound(hist[idx]))
      BY <1>1, <3>1, RecalledIs
    <3> DEFINE l == hist[idx]
    <3> HIDE DEF l
    <3>3. l \in Line /\ (~cut => Sound(l)) /\ text' = AtEnd(l)
      BY <2>2, <3>2 DEF l
    <3>4. TextType(AtEnd(l)) /\ (~cut => Kept(AtEnd(l)))
      BY <3>3, AtEndType, KeptAtEnds
    <3>5. QED BY <1>3, <2>1, <2>2, <3>1, <3>3, <3>4
  <2>3. CASE text' = text /\ idx' = idx /\ draft' = draft
    <3>1. TextType(text) /\ draft \in Line /\ idx \in 0..Len(hist)
      BY <1>1, <1>3, EditFacts DEF EditInv
    <3>2. QED BY <2>1, <2>3, <3>1
  <2>4. (idx > 0 /\ idx' = idx - 1 /\ draft' = text.s /\ text' = AtEnd(hist[idx]))
          \/ (text' = text /\ idx' = idx /\ draft' = draft)
    BY <1>1 DEF Up
  <2>5. QED BY <2>2, <2>3, <2>4
<1>7. EditInv'
  <2>1. Put(text', Due(0)) = text'
    BY <1>6, Settled
  <2>2. owed' \in 0..2 /\ (owed' > 0 => reading') /\ Put(text', Due(owed')) = text'
    BY <1>2, <2>1
  <2>3. ~cut' => Sound(draft') /\ (reading' => Kept(Put(text', Due(owed'))))
    BY <1>2, <1>6, <2>2
  <2>4. QED BY <1>5, <1>6, <2>2, <2>3 DEF EditInv
<1>8. HistInv'
  BY <1>1, <1>2, <1>6, HistStays DEF IInv
<1>9. RestType'
  <2>1. keys' \in 0..MaxKeys
    BY <1>1, <1>2, KeyType DEF IInv
  <2>2. QED BY <1>1, <1>2, <2>1 DEF IInv, RestType
<1>10. QED BY <1>1, <1>2, <1>7, <1>8, <1>9 DEF IInv

\* Down recalls a later one, or the one that was kept.
LEMMA DownStep == IInv /\ Down => IInv'
<1>1. SUFFICES ASSUME IInv, Down PROVE IInv'
  OBVIOUS
<1>2. /\ Editing /\ idx < Len(hist) /\ idx' = idx + 1 /\ draft' = draft /\ tab' = tab /\ ime' = ime
      /\ \/ idx' = Len(hist) /\ text' = AtEnd(draft)
         \/ idx' < Len(hist) /\ text' = AtEnd(hist[idx' + 1])
  BY <1>1 DEF Down
<1>3. idx' \in 0..Len(hist)
  BY <1>1, <1>2, EditFacts
<1> DEFINE l == IF idx' = Len(hist) THEN draft ELSE hist[idx' + 1]
<1>4. l \in Line /\ (~cut => Sound(l))
  <2>1. CASE idx' = Len(hist)
    BY <1>1, <2>1 DEF IInv, EditInv
  <2>2. CASE idx' # Len(hist)
    <3>1. idx' + 1 \in 1..Len(hist)
      BY <1>1, <1>2, <2>2, EditFacts
    <3>2. QED BY <1>1, <2>2, <3>1, RecalledIs
  <2>3. QED BY <2>1, <2>2
<1> HIDE DEF l
<1>5. text' = AtEnd(l)
  <2>1. CASE idx' = Len(hist) /\ text' = AtEnd(draft)
    BY <2>1 DEF l
  <2>2. CASE idx' < Len(hist) /\ text' = AtEnd(hist[idx' + 1])
    <3>1. idx' # Len(hist)
      BY <1>1, <1>3, <2>2, EditFacts
    <3>2. QED BY <2>2, <3>1 DEF l
  <2>3. QED BY <1>2, <2>1, <2>2
<1>6. /\ owed = 0 /\ owed' = owed /\ hist' = hist /\ file' = file /\ reading' = reading
      /\ cut' = cut /\ unsaved' = unsaved /\ written' = written /\ reading
      /\ keys < MaxKeys /\ keys' = keys + 1
  BY <1>2 DEF Editing, Key, Reading, Whole, Stay, ghost
<1>7. TextType(text') /\ (~cut => Kept(text'))
  BY <1>4, <1>5, AtEndType, KeptAtEnds
<1>8. EditInv'
  <2>1. Put(text', Due(0)) = text'
    BY <1>7, Settled
  <2>2. owed' \in 0..2 /\ (owed' > 0 => reading') /\ Put(text', Due(owed')) = text'
    BY <1>6, <2>1
  <2>3. EditInv
    BY <1>1 DEF IInv
  <2>4. ~cut' => Sound(draft') /\ (reading' => Kept(Put(text', Due(owed'))))
    BY <1>2, <1>6, <1>7, <2>2, <2>3 DEF EditInv
  <2>5. QED BY <1>2, <1>6, <1>7, <2>2, <2>3, <2>4 DEF EditInv
<1>9. HistInv'
  BY <1>1, <1>3, <1>6, HistStays DEF IInv
<1>10. RestType'
  <2>1. keys' \in 0..MaxKeys
    BY <1>1, <1>6, KeyType DEF IInv
  <2>2. QED BY <1>1, <1>2, <1>6, <2>1 DEF IInv, RestType
<1>11. QED BY <1>1, <1>2, <1>8, <1>9, <1>10 DEF IInv

\* A candidate takes the word's place, with a blank after it or not.
Completes(x) == \/ text' = Picked(text, x)
                \/ /\ text' = AtEnd(Append(Picked(text, x).s, " "))
                   /\ Len(Picked(text, x).s) + 1 < cap'

\* Tab takes one of the candidates for the word.
LEMMA TabIs ==
  ASSUME IInv, Tab
  PROVE  /\ Editing /\ idx' = idx /\ draft' = draft /\ ime' = ime /\ tab' \in TabType
         /\ \/ text' = text /\ cap' = cap
            \/ \E x : Sound(x) /\ Sized(Picked(text, x).c + 2) /\ Completes(x)
<1> DEFINE all == Candidates(text)
           sel == IF ~tab.active \/ tab.sel >= Len(all) THEN 0 ELSE tab.sel
           to  == Picked(text, all[sel + 1])
<1>1. Editing /\ idx' = idx /\ draft' = draft /\ ime' = ime
  BY DEF Tab
<1>2. all \in Seq(Line) /\ Len(all) \in Nat /\ \A i \in 1..Len(all) : Sound(all[i])
  BY CandidatesAre
<1>3. \/ all = <<>> /\ tab' = [tab EXCEPT !.active = FALSE] /\ text' = text /\ cap' = cap
      \/ /\ Len(all) > 1 /\ tab' = [active |-> TRUE, sel |-> (sel + 1) % Len(all)]
         /\ text' = to /\ Sized(to.c + 2)
      \/ /\ Len(all) = 1 /\ tab' = [active |-> TRUE, sel |-> 0] /\ Sized(to.c + 2)
         /\ text' = to \/ (text' = AtEnd(Append(to.s, " ")) /\ Len(to.s) + 1 < cap')
  BY DEF Tab, LeavesTab
<1>4. tab \in TabType /\ [tab EXCEPT !.active = FALSE] \in TabType /\ tab.sel \in Nat
  BY EditFacts DEF TabType
<1>5. sel \in Nat /\ (Len(all) >= 1 => sel + 1 \in 1..Len(all))
  <2> HIDE DEF all
  <2>1. CASE ~tab.active \/ tab.sel >= Len(all)
    BY <1>2, <2>1
  <2>2. CASE ~(~tab.active \/ tab.sel >= Len(all))
    <3>1. sel = tab.sel /\ tab.sel < Len(all)
      BY <1>2, <1>4, <2>2
    <3> HIDE DEF sel
    <3>2. QED BY <1>2, <1>4, <3>1
  <2>3. QED BY <2>1, <2>2
<1> HIDE DEF sel, all
<1>6. CASE all = <<>> /\ tab' = [tab EXCEPT !.active = FALSE] /\ text' = text /\ cap' = cap
  BY <1>1, <1>4, <1>6
<1>7. CASE /\ Len(all) > 1 /\ tab' = [active |-> TRUE, sel |-> (sel + 1) % Len(all)]
           /\ text' = to /\ Sized(to.c + 2)
  <2>1. (sel + 1) % Len(all) \in Nat
    BY <1>2, <1>5, <1>7
  <2>2. tab' \in TabType
    BY <1>7, <2>1 DEF TabType
  <2>3. Sound(all[sel + 1])
    BY <1>2, <1>5, <1>7
  <2>4. QED BY <1>1, <1>7, <2>2, <2>3 DEF Completes
<1>8. CASE /\ Len(all) = 1 /\ tab' = [active |-> TRUE, sel |-> 0] /\ Sized(to.c + 2)
           /\ text' = to \/ (text' = AtEnd(Append(to.s, " ")) /\ Len(to.s) + 1 < cap')
  <2>1. tab' \in TabType
    BY <1>8 DEF TabType
  <2>2. Sound(all[sel + 1])
    <3>1. Len(all) = 1
      BY <1>8, Zenon
    <3>2. Len(all) >= 1
      BY <3>1
    <3>3. sel + 1 \in 1..Len(all)
      BY <1>5, <3>2
    <3>4. QED BY <1>2, <3>3
  <2>3. Completes(all[sel + 1]) /\ Sized(to.c + 2)
    BY <1>8 DEF Completes
  <2>4. QED BY <1>1, <2>1, <2>2, <2>3
<1>9. QED BY <1>3, <1>6, <1>7, <1>8

\* Tab
LEMMA TabStep == IInv /\ Tab => IInv'
<1>1. SUFFICES ASSUME IInv, Tab PROVE IInv'
  OBVIOUS
<1>2. /\ Editing /\ idx' = idx /\ draft' = draft /\ ime' = ime /\ tab' \in TabType
      /\ text' = text \/ \E x : Sound(x) /\ Completes(x)
  BY <1>1, TabIs
<1>3. Stays(text, text')
  <2>1. CASE text' = text
    BY <1>1, <2>1, EditFacts
  <2>2. CASE \E x : Sound(x) /\ Completes(x)
    BY <1>1, <2>2, EditFacts, PickedStays DEF Completes
  <2>3. QED BY <1>2, <2>1, <2>2
<1>4. QED BY <1>1, <1>2, <1>3, EditFacts, EditingStep

-----------------------------------------------------------------------------
(* The keys of the pinyin *)

\* What the pinyin gives to the line are its letters or a candidate.
LEMMA CommitStep ==
  ASSUME IInv, NEW bs, Sound(bs), NEW i, ImeGood(i), Commit(bs, i)
  PROVE  IInv'
<1>1. /\ Editing /\ idx' = idx /\ draft' = draft /\ ime' = i /\ text' = Put(text, bs)
      /\ tab' = tab \/ tab' = [tab EXCEPT !.active = FALSE]
  BY DEF Commit, Pinyin, Insert, LeavesTab
<1>2. Stays(text, text')
  BY <1>1, EditFacts, PutStays
<1>3. QED BY <1>1, <1>2, EditFacts, EditingStep

\* A key that changes the pinyin only
LEMMA ImeOnlyStep ==
  ASSUME IInv, NEW i, ImeOnly(i), ime.on => ImeGood(i)
  PROVE  IInv'
<1>1. Editing /\ idx' = idx /\ draft' = draft /\ ime' = i /\ text' = text /\ tab' = tab /\ ime.on
  BY DEF ImeOnly, Pinyin
<1>2. QED BY <1>1, EditFacts, EditingStep

\* F9 and F10
LEMMA ToggleStep == IInv /\ Toggle => IInv'
<1>1. SUFFICES ASSUME IInv, Toggle PROVE IInv'
  OBVIOUS
<1>2. Editing /\ idx' = idx /\ draft' = draft
  BY <1>1 DEF Toggle, Pinyin
<1>3. CASE ~ime.on /\ ime' = [ime EXCEPT !.on = TRUE] /\ text' = text /\ tab' = tab
  <2>1. ime.py = 0 /\ ImeGood(ime)
    BY <1>1, <1>3, EditFacts, ImeParts
  <2>2. ImeGood([ime EXCEPT !.on = TRUE])
    BY <2>1, SwitchIsGood
  <2>3. ImeGood(ime')
    BY <1>3, <2>2
  <2>4. QED BY <1>1, <1>2, <1>3, <2>3, EditFacts, EditingStep
<1>4. CASE ime.on /\ ime' = SwitchedOff(ime) /\ Insert(Raw)
  <2>1. ImeGood(ime')
    BY <1>1, <1>4, EditFacts, SpentIsGood DEF SwitchedOff
  <2>2. Stays(text, text')
    BY <1>1, <1>4, EditFacts, RawIsSound, PutStays DEF Insert
  <2>3. tab' = tab \/ tab' = [tab EXCEPT !.active = FALSE]
    BY <1>4 DEF Insert, LeavesTab
  <2>4. QED BY <1>1, <1>2, <2>1, <2>2, <2>3, EditFacts, EditingStep
<1>5. QED BY <1>1, <1>3, <1>4 DEF Toggle

\* What the pinyin may give
LEMMA GivenIsSound ==
  ASSUME ImeGood(ime)
  PROVE  /\ Sound(Raw) /\ Sound(Wide) /\ Sound(Append(Raw, ","))
         /\ Append(Raw, ",") = Raw \o <<",">> /\ Sound(<<",">>)
<1>1. "," \in Bytes \ {"L", "C"}
  BY DEF Bytes
<1>2. QED BY <1>1, RawIsSound, SoundBytes, AppendIsSound

\* The keys while the method is on
LEMMA ImeKeyStep == IInv /\ ImeKey => IInv'
<1>1. SUFFICES ASSUME IInv, ImeKey PROVE IInv'
  OBVIOUS
<1>2. ImeGood(ime) /\ ime.py \in 0..MaxPinyin /\ ime.py \in Nat /\ ime.sel \in 0..PageSize - 1
           /\ MaxPinyin \in Nat
  BY <1>1, EditFacts, ImeParts, FoundType
<1>3. ImeGood(Spent(ime)) /\ ImeGood(Off(Spent(ime)))
  BY <1>2, SpentIsGood
<1>4. CASE ImeLetter
  <2> DEFINE i == IF ime.py < MaxPinyin THEN Refreshed(ime, ime.py + 1) ELSE ime
  <2>1. ASSUME ime.on PROVE ImeGood(i)
    <3>1. CASE ime.py < MaxPinyin
      <4>1. ime.py + 1 \in 0..MaxPinyin
        BY <1>2, <3>1
      <4>2. QED BY <1>2, <2>1, <3>1, <4>1, RefreshedIsGood
    <3>2. CASE ~(ime.py < MaxPinyin)
      BY <1>2, <3>2
    <3>3. QED BY <3>1, <3>2
  <2>2. ImeOnly(i)
    BY <1>4 DEF ImeLetter
  <2> HIDE DEF i
  <2>3. QED BY <1>1, <2>1, <2>2, ImeOnlyStep
<1>5. CASE ImeSpace
  <2> DEFINE bs == IF Shown(ime) < ime.cand THEN Wide ELSE Raw
  <2>1. Sound(bs)
    BY <1>2, GivenIsSound
  <2>2. Commit(bs, Spent(ime))
    BY <1>5 DEF ImeSpace
  <2> HIDE DEF bs
  <2>3. QED BY <1>1, <1>3, <2>1, <2>2, CommitStep
<1>6. CASE ImeEsc
  BY <1>1, <1>2, <1>6, EscIsGood, ImeOnlyStep DEF ImeEsc
<1>7. CASE ImeBack
  <2> DEFINE i == IF ime.py > 0 THEN Refreshed(ime, ime.py - 1) ELSE Off(ime)
  <2>1. ASSUME ime.on PROVE ImeGood(i)
    <3>1. CASE ime.py > 0
      <4>1. ime.py - 1 \in 0..MaxPinyin
        BY <1>2, <3>1
      <4>2. QED BY <1>2, <2>1, <3>1, <4>1, RefreshedIsGood
    <3>2. CASE ~(ime.py > 0)
      <4>1. ime.py = 0
        BY <1>2, <3>2
      <4>2. QED BY <1>2, <3>2, <4>1, SwitchIsGood
    <3>3. QED BY <3>1, <3>2
  <2>2. ImeOnly(i)
    BY <1>7 DEF ImeBack
  <2> HIDE DEF i
  <2>3. QED BY <1>1, <2>1, <2>2, ImeOnlyStep
<1>8. CASE ImeLeft
  <2> DEFINE s == IF OnPage > 0 /\ ime.sel > 0 THEN ime.sel - 1 ELSE ime.sel
  <2>1. s \in 0..PageSize - 1
    BY <1>2, LimitsType
  <2>2. ImeOnly([ime EXCEPT !.sel = s])
    BY <1>8 DEF ImeLeft
  <2> HIDE DEF s
  <2>3. ImeGood([ime EXCEPT !.sel = s])
    BY <1>2, <2>1, HighlightIsGood
  <2>4. QED BY <1>1, <2>2, <2>3, ImeOnlyStep
<1>9. CASE ImeRight
  <2> DEFINE s == IF ime.sel + 1 < OnPage THEN ime.sel + 1 ELSE ime.sel
  <2>1. s \in 0..PageSize - 1
    <3>1. OnPage \in Nat /\ OnPage <= PageSize
      BY <1>2, OnPageIs
    <3>2. QED BY <1>2, <3>1, LimitsType
  <2>2. ImeOnly([ime EXCEPT !.sel = s])
    BY <1>9 DEF ImeRight
  <2> HIDE DEF s
  <2>3. ImeGood([ime EXCEPT !.sel = s])
    BY <1>2, <2>1, HighlightIsGood
  <2>4. QED BY <1>1, <2>2, <2>3, ImeOnlyStep
<1>10. CASE \E k \in 1..PageSize : ImeDigit(k)
  <2>1. Commit(Wide, Spent(ime)) \/ ImeOnly(ime)
    BY <1>10 DEF ImeDigit
  <2>2. QED BY <1>1, <1>2, <1>3, <2>1, GivenIsSound, CommitStep, ImeOnlyStep
<1>11. ASSUME NEW up \in BOOLEAN, ImeFlip(up) PROVE IInv'
  <2>1. ImeGood(Flipped(ime, up)) /\ ImeOnly(Flipped(ime, up))
    BY <1>2, <1>11, FlippedIsGood DEF ImeFlip
  <2>2. QED BY <1>1, <2>1, ImeOnlyStep
<1>12. ASSUME NEW up \in BOOLEAN, ImeSign(up) PROVE IInv'
  <2>1. ImeFlip(up) \/ Commit(Append(Raw, ","), Off(Spent(ime)))
    BY <1>12 DEF ImeSign
  <2>2. CASE ImeFlip(up)
    BY <1>11, <2>2
  <2>3. CASE Commit(Append(Raw, ","), Off(Spent(ime)))
    BY <1>1, <1>2, <1>3, <2>3, GivenIsSound, CommitStep
  <2>4. QED BY <2>1, <2>2, <2>3
<1>13. QED BY <1>1, <1>4, <1>5, <1>6, <1>7, <1>8, <1>9, <1>10, <1>11, <1>12 DEF ImeKey

-----------------------------------------------------------------------------
(* Characters, byte by byte *)

\* What a byte adds to the line, and that the rest of its character is then due
LEMMA DueIs ==
  /\ Due(0) = <<>>
  /\ \A x \in Line : Append(x, "L") \in Line /\ Append(x, "L") \o Due(2) = x \o Wide
  /\ <<"L">> \o Due(2) = Wide /\ <<"L">> \in Line
  /\ <<"C">> \in Line /\ \A n \in {1, 2} : <<"C">> \o Due(n - 1) = Due(n)
  /\ \A n \in 0..2 : Due(n) \in Line
<1> DEFINE e == <<>>
           c1 == <<"C">>
           c2 == <<"C", "C">>
           l == <<"L">>
<1>1. Due(0) = e /\ Due(1) = c1 /\ Due(2) = c2
  BY DEF Due
<1>2. e \in Line /\ c1 \in Line /\ c2 \in Line /\ l \in Line /\ "L" \in Bytes
  BY DEF Line, Bytes
<1>3. c1 \o e = c1 /\ c1 \o c1 = c2 /\ l \o c2 = Wide
  <2> DEFINE w == Wide
  <2>1. /\ Len(c1) = 1 /\ c1[1] = "C" /\ Len(c2) = 2 /\ c2[1] = "C" /\ c2[2] = "C"
        /\ Len(l) = 1 /\ l[1] = "L"
    OBVIOUS
  <2>2. w \in Line /\ Len(w) = 3 /\ w[1] = "L" /\ w[2] = "C" /\ w[3] = "C"
    BY DEF Wide, Line, Bytes
  <2>3. c1 \o e = c1
    BY <1>2, JoinEmpty
  <2> HIDE DEF e, c1, c2, l, w
  <2>4. c1 \o c1 = c2
    <3> DEFINE s == c1 \o c1
    <3>1. s \in Line /\ Len(s) = 2 /\ (\A i \in 1..1 : s[i] = c1[i])
               /\ \A i \in 1..1 : s[1 + i] = c1[i]
      <4>1. /\ c1 \o c1 \in Line /\ Len(c1 \o c1) = Len(c1) + Len(c1)
            /\ \A i \in 1..Len(c1) : (c1 \o c1)[i] = c1[i]
            /\ \A i \in 1..Len(c1) : (c1 \o c1)[Len(c1) + i] = c1[i]
        BY <1>2, JoinParts
      <4>2. Len(c1) = 1 /\ 1 + 1 = 2
        BY <2>1
      <4>3. QED BY <4>1, <4>2
    <3> HIDE DEF s
    <3>2. s[1] = "C" /\ s[2] = "C"
      <4>1. 1 \in 1..1 /\ 1 + 1 = 2
        OBVIOUS
      <4>2. QED BY <2>1, <3>1, <4>1
    <3>3. \A i \in 1..2 : s[i] = c2[i]
      BY <2>1, <3>2
    <3>4. s = c2
      BY <1>2, <2>1, <3>1, <3>3, SeqEqual DEF Line
    <3>5. QED BY <3>4 DEF s
  <2>5. l \o c2 = w
    <3> DEFINE s == l \o c2
    <3>1. s \in Line /\ Len(s) = 3 /\ (\A i \in 1..1 : s[i] = l[i])
               /\ \A i \in 1..2 : s[1 + i] = c2[i]
      <4>1. /\ l \o c2 \in Line /\ Len(l \o c2) = Len(l) + Len(c2)
            /\ \A i \in 1..Len(l) : (l \o c2)[i] = l[i]
            /\ \A i \in 1..Len(c2) : (l \o c2)[Len(l) + i] = c2[i]
        BY <1>2, JoinParts
      <4>2. Len(l) = 1 /\ Len(c2) = 2 /\ 1 + 2 = 3
        BY <2>1
      <4>3. QED BY <4>1, <4>2
    <3> HIDE DEF s
    <3>2. s[1] = "L" /\ s[2] = "C" /\ s[3] = "C"
      <4>1. 1 \in 1..1 /\ 1 \in 1..2 /\ 2 \in 1..2 /\ 1 + 1 = 2 /\ 1 + 2 = 3
        OBVIOUS
      <4>2. QED BY <2>1, <3>1, <4>1
    <3>3. \A i \in 1..3 : s[i] = w[i]
      BY <2>2, <3>2
    <3>4. s = w
      BY <2>2, <3>1, <3>3, SeqEqual DEF Line
    <3>5. QED BY <3>4 DEF s
  <2>6. QED BY <2>3, <2>4, <2>5 DEF w
<1>4. \A x \in Line : Append(x, "L") = x \o l
  BY <1>2, AppendIsConcat DEF Line
<1> HIDE DEF e, c1, c2, l
<1>5. ASSUME NEW x \in Line PROVE x \o l \in Line /\ (x \o l) \o c2 = x \o (l \o c2)
  BY <1>2, JoinParts, JoinOrder
<1>6. \A n \in 0..2 : Due(n) \in Line
  <2>1. TAKE n \in 0..2
  <2>2. n = 0 \/ n = 1 \/ n = 2
    OBVIOUS
  <2>3. QED BY <1>1, <1>2, <2>2
<1>7. \A x \in Line : Append(x, "L") \in Line /\ Append(x, "L") \o Due(2) = x \o Wide
  BY <1>1, <1>3, <1>4, <1>5
<1>8. \A n \in {1, 2} : c1 \o Due(n - 1) = Due(n)
  <2>1. c1 \o Due(1 - 1) = Due(1)
    <3>1. 1 - 1 = 0
      OBVIOUS
    <3>2. QED BY <1>1, <1>3, <3>1
  <2>2. c1 \o Due(2 - 1) = Due(2)
    <3>1. 2 - 1 = 1
      OBVIOUS
    <3>2. QED BY <1>1, <1>3, <3>1
  <2>3. QED BY <2>1, <2>2
<1>9. QED BY <1>1, <1>2, <1>3, <1>6, <1>7, <1>8 DEF e, c1, l

\* A byte of a character leaves the rest of it due, and no other byte comes meanwhile.
LEMMA ByteIs ==
  ASSUME IInv, NEW b \in Bytes, Byte(b)
  PROVE  \E x \in Line : /\ text' = Put(text, x) /\ owed' \in 0..2
                         /\ Kept(Put(text, Due(owed))) => Kept(Put(text', Due(owed')))
                         /\ ime.on => x = Append(Raw, b)
<1> DEFINE x == IF ime.on THEN Append(Raw, b) ELSE <<b>>
<1>1. /\ text' = Put(text, x) /\ (b = "C" <=> owed > 0) /\ (ime.on => b \in {"/", "L"})
      /\ owed' = IF b = "L" THEN 2 ELSE IF b = "C" THEN owed - 1 ELSE 0
  BY DEF Byte, Insert
<1>2. TextType(text) /\ owed \in 0..2 /\ ImeGood(ime)
  BY DEF IInv, EditInv
<1>3. Sound(Raw) /\ Raw \in Line
  BY <1>2, RawIsSound DEF Sound
<1>4. x \in Line
  <2>1. Append(Raw, b) \in Seq(Bytes)
    BY <1>3, AppendProperties DEF Line
  <2>2. QED BY <2>1, ShortLines DEF Line
<1>5. owed' \in 0..2
  BY <1>1, <1>2
<1>6. ASSUME Kept(Put(text, Due(owed))) PROVE Kept(Put(text', Due(owed')))
  <2>1. CASE b = "C"
    <3>1. ~ime.on
      BY <1>1, <2>1
    <3>2. owed \in {1, 2} /\ owed' = owed - 1
      BY <1>1, <1>2, <2>1
    <3> DEFINE c == <<"C">>
               y == Due(owed - 1)
    <3>3. x = c
      BY <2>1, <3>1
    <3>4. c \in Line /\ c \o y = Due(owed) /\ y \in Line
      <4>1. owed - 1 \in 0..2
        BY <3>2
      <4>2. QED BY <3>2, <4>1, DueIs
    <3> HIDE DEF c, y
    <3>5. Put(Put(text, c), y) = Put(text, Due(owed))
      <4>1. Put(Put(text, c), y) = Put(text, c \o y)
        BY <1>2, <3>4, PutTwice
      <4>2. QED BY <3>4, <4>1
    <3> HIDE DEF x
    <3>6. text' = Put(text, c)
      BY <1>1, <3>3
    <3>7. QED BY <1>6, <3>2, <3>5, <3>6 DEF y
  <2>2. CASE b # "C"
    <3>1. owed = 0
      BY <1>1, <1>2, <2>2
    <3>2. Kept(text)
      BY <1>2, <1>6, <3>1, Settled
    <3>3. CASE b = "L"
      <4>1. owed' = 2 /\ Due(2) \in Line
        BY <1>1, <3>3, DueIs
      <4>2. Sound(x \o Due(2))
        <5>1. CASE ime.on
          <6>1. x \o Due(2) = Raw \o Wide
            BY <1>3, <3>3, <5>1, DueIs
          <6>2. QED BY <1>3, <6>1, SoundBytes, JoinIsSound
        <5>2. CASE ~ime.on
          <6>1. x \o Due(2) = Wide
            BY <3>3, <5>2, DueIs
          <6>2. QED BY <6>1, SoundBytes
        <5>3. QED BY <5>1, <5>2
      <4> HIDE DEF x
      <4>3. Put(Put(text, x), Due(2)) = Put(text, x \o Due(2))
        BY <1>2, <1>4, <4>1, PutTwice
      <4>4. QED BY <1>1, <3>2, <4>1, <4>2, <4>3, PutIsKept
    <3>4. CASE b # "L"
      <4>1. b \in Bytes \ {"L", "C"} /\ owed' = 0
        BY <1>1, <2>2, <3>4
      <4>2. Sound(x)
        BY <1>3, <4>1, AppendIsSound, SoundBytes
      <4> HIDE DEF x
      <4>3. Kept(Put(text, x)) /\ TextType(Put(text, x))
        BY <1>2, <3>2, <4>2, PutIsKept DEF Kept
      <4>4. QED BY <1>1, <4>1, <4>3, Settled
    <3>5. QED BY <3>3, <3>4
  <2>3. QED BY <2>1, <2>2
<1>7. QED BY <1>1, <1>4, <1>5, <1>6

\* A byte that is typed
LEMMA ByteStep == ASSUME IInv, NEW b \in Bytes, Byte(b) PROVE IInv'
<1>1. PICK x \in Line : /\ text' = Put(text, x) /\ owed' \in 0..2
                        /\ Kept(Put(text, Due(owed))) => Kept(Put(text', Due(owed')))
                        /\ ime.on => x = Append(Raw, b)
  BY ByteIs
<1>2. /\ hist' = hist /\ file' = file /\ reading' = reading /\ cut' = cut /\ unsaved' = unsaved
      /\ written' = written /\ idx' = idx /\ draft' = draft /\ reading
      /\ (keys < MaxKeys /\ keys' = keys + 1) \/ keys' = keys
      /\ tab' = tab \/ tab' = [tab EXCEPT !.active = FALSE]
      /\ ime' = IF ime.on THEN Off(Spent(ime)) ELSE ime
  <2>1. IF b = "C" THEN Reading /\ UNCHANGED keys ELSE Key
    BY DEF Byte
  <2>2. reading /\ ((keys < MaxKeys /\ keys' = keys + 1) \/ keys' = keys)
    BY <2>1 DEF Key, Reading
  <2>3. /\ Stay /\ UNCHANGED <<idx, draft>> /\ ime' = IF ime.on THEN Off(Spent(ime)) ELSE ime
        /\ tab' = tab \/ tab' = [tab EXCEPT !.active = FALSE]
    BY DEF Byte, Insert, LeavesTab
  <2>4. QED BY <2>2, <2>3 DEF Stay, ghost
<1>3. EditInv'
  <2>1. EditInv
    BY DEF IInv
  <2>2. TextType(text')
    BY <1>1, <2>1, PutParts DEF EditInv
  <2>3. draft' \in Line /\ written' \in Line /\ reading'
    BY <1>2, <2>1 DEF EditInv
  <2>4. ASSUME ~cut' PROVE Sound(draft') /\ Kept(Put(text', Due(owed')))
    <3>1. ~cut
      BY <1>2, <2>4
    <3>2. QED BY <1>1, <1>2, <2>1, <3>1 DEF EditInv
  <2>5. QED BY <1>1, <2>2, <2>3, <2>4 DEF EditInv
<1>4. HistInv'
  BY <1>2, EditFacts, HistStays DEF IInv
<1>5. ImeGood(ime')
  BY <1>2, EditFacts, SpentIsGood
<1>6. RestType'
  <2>1. keys' \in 0..MaxKeys
    BY <1>2, KeyType DEF IInv
  <2>2. tab' \in TabType
    BY <1>2, EditFacts
  <2>3. QED BY <1>2, <2>1, <2>2 DEF IInv, RestType
<1>7. QED BY <1>3, <1>4, <1>5, <1>6 DEF IInv

-----------------------------------------------------------------------------
(* The ends of a call *)

\* A call begins, or ends without a line.
LEMMA NotReading ==
  ASSUME EditInv, TextType(text'), owed' = 0, draft' = draft, written' = written, cut' = cut,
         ~reading'
  PROVE  EditInv'
<1>1. ~cut' => Sound(draft') /\ (reading' => Kept(Put(text', Due(owed'))))
  BY DEF EditInv
<1>2. draft' \in Line /\ written' \in Line
  BY DEF EditInv
<1>3. owed' \in 0..2 /\ (owed' > 0 => reading')
  OBVIOUS
<1>4. QED BY <1>1, <1>2, <1>3 DEF EditInv

\* A call that ends without a line
LEMMA AbortStep == IInv /\ (Abort \/ Eof) => IInv'
<1>1. SUFFICES ASSUME IInv, Abort \/ Eof PROVE IInv'
  OBVIOUS
<1>2. /\ text' = text /\ idx' = idx /\ draft' = draft /\ tab' = tab /\ ime' = ime /\ hist' = hist
      /\ file' = file /\ cut' = cut /\ unsaved' = unsaved /\ written' = written
      /\ reading' = FALSE /\ owed' = 0 /\ ((keys < MaxKeys /\ keys' = keys + 1) \/ keys' = keys)
  BY <1>1 DEF Abort, Eof, Key, Reading, Whole, edit, ghost
<1>3. EditInv'
  <2>1. TextType(text') /\ ~reading'
    BY <1>1, <1>2, EditFacts
  <2>2. QED BY <1>1, <1>2, <2>1, NotReading DEF IInv
<1>4. HistInv'
  BY <1>1, <1>2, EditFacts, HistStays DEF IInv
<1>5. RestType'
  <2>1. keys' \in 0..MaxKeys
    BY <1>1, <1>2, KeyType DEF IInv
  <2>2. QED BY <1>1, <1>2, <2>1 DEF IInv, RestType
<1>6. QED BY <1>1, <1>2, <1>3, <1>4, <1>5 DEF IInv

\* A call begins with an empty line.
LEMMA BeginStep == IInv /\ Begin => IInv'
<1>1. SUFFICES ASSUME IInv, Begin PROVE IInv'
  OBVIOUS
<1>2. /\ ~reading /\ reading' = TRUE /\ text' = Empty /\ tab' = [active |-> FALSE, sel |-> 0]
      /\ idx' = Len(hist) /\ owed' = owed /\ hist' = hist /\ draft' = draft /\ ime' = ime
      /\ file' = file /\ keys' = keys /\ cut' = cut /\ unsaved' = unsaved /\ written' = written
  BY <1>1 DEF Begin, ghost
<1>3. EditInv'
  <2>1. EditInv /\ owed = 0
    BY <1>1, <1>2 DEF IInv, EditInv
  <2>2. TextType(text') /\ Kept(text') /\ Put(text', Due(0)) = text'
    BY <1>2, EmptyIsKept, Settled DEF Kept
  <2>3. owed' \in 0..2 /\ (owed' > 0 => reading')
    BY <1>2, <2>1
  <2>4. Kept(Put(text', Due(owed')))
    BY <1>2, <2>1, <2>2
  <2>5. draft' \in Line /\ written' \in Line /\ (~cut' => Sound(draft'))
    BY <1>2, <2>1 DEF EditInv
  <2>6. QED BY <2>2, <2>3, <2>4, <2>5 DEF EditInv
<1>4. HistInv'
  <2>1. idx' \in 0..Len(hist)
    BY <1>1, <1>2, EditFacts
  <2>2. QED BY <1>1, <1>2, <2>1, HistStays DEF IInv
<1>5. RestType'
  <2>1. tab' \in TabType
    BY <1>2 DEF TabType
  <2>2. QED BY <1>1, <1>2, <2>1 DEF IInv, RestType
<1>6. QED BY <1>1, <1>2, <1>3, <1>4, <1>5, EditFacts DEF IInv

\* The first lines of those that are recalled
LEMMA PrefixLines ==
  ASSUME NEW h, Lines(h), NEW n \in 0..Len(h)
  PROVE  /\ Lines(SubSeq(h, 1, n)) /\ (SoundLines(h) => SoundLines(SubSeq(h, 1, n)))
         /\ n = Len(h) => SubSeq(h, 1, n) = h
<1> DEFINE X == Line \ {<<>>}
           p == SubSeq(h, 1, n)
<1>1. h \in Seq(X) /\ Len(h) \in Nat /\ Len(h) <= HistMax /\ n \in Nat /\ n <= Len(h)
  BY DEF Lines
<1>2. p \in Seq(X) /\ Len(p) = n /\ \A i \in 1..n : p[i] = h[i]
  <2> HIDE DEF X
  <2>1. QED BY <1>1, SubSeqProperties
<1> HIDE DEF p
<1>3. ASSUME NEW i \in 1..Len(p) - 1 PROVE p[i] # p[i + 1]
  <2>1. i \in 1..n /\ i + 1 \in 1..n /\ i \in 1..Len(h) - 1
    BY <1>1, <1>2
  <2>2. h[i] # h[i + 1]
    BY <2>1 DEF Lines
  <2>3. QED BY <1>2, <2>1, <2>2
<1>4. Lines(p)
  <2>1. Len(p) <= HistMax
    BY <1>1, <1>2, LimitsType
  <2>2. p \in Seq(Line \ {<<>>})
    BY <1>2
  <2> HIDE DEF X
  <2>3. QED BY <1>3, <2>1, <2>2 DEF Lines
<1>5. ASSUME SoundLines(h) PROVE SoundLines(p)
  <2>1. ASSUME NEW i \in DOMAIN p PROVE Sound(p[i])
    <3>1. i \in 1..n /\ i \in DOMAIN h
      BY <1>1, <1>2
    <3>2. QED BY <1>2, <1>5, <3>1 DEF SoundLines
  <2>2. QED BY <2>1 DEF SoundLines
<1>6. ASSUME n = Len(h) PROVE p = h
  <2> HIDE DEF X
  <2>1. Len(p) = Len(h) /\ \A i \in 1..Len(p) : p[i] = h[i]
    BY <1>2, <1>6
  <2>2. QED BY <1>1, <1>2, <2>1, SeqEqual
<1>7. QED BY <1>4, <1>5, <1>6 DEF p

\* A history of which the last line was not written to its end
LEMMA TornFile ==
  ASSUME NEW h, Lines(h), NEW n \in 1..Len(h), NEW k \in 1..Len(h[n]) - 1
  PROVE  Append(SubSeq(h, 1, n - 1), SubSeq(h[n], 1, k)) \in Seq(Line)
<1> DEFINE p == SubSeq(h, 1, n - 1)
           l == h[n]
           b == SubSeq(l, 1, k)
<1>1. h \in Seq(Line) /\ Len(h) \in Nat /\ l \in Line
  BY LinesAreSome DEF Lines
<1>2. p \in Seq(Line)
  <2>1. n - 1 \in 0..Len(h)
    BY <1>1
  <2>2. Lines(p)
    BY <2>1, PrefixLines
  <2>3. QED BY <2>2, LinesAreSome
<1> HIDE DEF l
<1>3. b \in Line
  <2>1. Len(l) \in Nat
    BY <1>1 DEF Line
  <2>2. k \in 1..Len(l) - 1
    BY DEF l
  <2>3. k \in 0..Len(l)
    BY <2>1, <2>2
  <2>4. QED BY <1>1, <2>3, CutParts
<1> HIDE DEF p, b
<1>4. Append(p, b) \in Seq(Line)
  BY <1>2, <1>3, AppendProperties
<1>5. QED BY <1>4 DEF p, b, l

\* Enter submits the line with what the pinyin gives to it, as far as the
\* caller's buffer takes it.
LEMMA EnterIs ==
  ASSUME IInv, Enter
  PROVE  \E bs, got : /\ bs \in Line /\ got \in Line /\ (ime.on => bs \in {Raw, Wide})
                      /\ hist' = Push(hist, got) /\ Len(text.s) \in Nat /\ Len(bs) \in Nat
                      /\ Len(got) = Min({BufMax, Len(text.s) + Len(bs)})
                      /\ (~cut' => ~cut /\ Sound(got)) /\ cut' \in BOOLEAN
                      /\ tab' \in TabType
<1> DEFINE bs   == Chosen
           full == Put(text, bs).s
           got  == SubSeq(full, 1, Min({BufMax, Len(full)}))
           long == Len(full) > BufMax
<1>1. /\ hist' = Push(hist, got) /\ (cut' = (cut \/ long) \/ cut' = TRUE)
      /\ tab' = tab \/ tab' = [tab EXCEPT !.active = FALSE]
      /\ reading /\ owed = 0
  <2>1. hist' = Push(hist, got) /\ Saved(long)
    BY DEF Enter
  <2>2. cut' = (cut \/ long) \/ cut' = TRUE
    <3> HIDE DEF long
    <3>1. QED BY <2>1 DEF Saved
  <2>3. tab' = tab \/ tab' = [tab EXCEPT !.active = FALSE]
    BY DEF Enter, LeavesTab
  <2>4. reading /\ owed = 0
    BY DEF Enter, Key, Reading, Whole
  <2>5. QED BY <2>1, <2>2, <2>3, <2>4
<1>2. TextType(text) /\ text.s \in Line /\ Len(text.s) \in Nat /\ tab' \in TabType
  BY <1>1, EditFacts, Parts
<1>3. Sound(bs) /\ bs \in Line /\ Len(bs) \in Nat /\ (ime.on => bs \in {Raw, Wide})
  <2>1. Sound(bs)
    BY EditFacts, GivenIsSound, SoundBytes DEF Chosen
  <2>2. ime.on => bs \in {Raw, Wide}
    BY DEF Chosen
  <2> HIDE DEF bs
  <2>3. QED BY <2>1, <2>2 DEF Sound, Line
<1> HIDE DEF bs
<1>4. full \in Line /\ Len(full) = Len(text.s) + Len(bs) /\ Len(full) \in Nat
  BY <1>2, <1>3, PutLength
<1>5. ~cut => Sound(full)
  <2>1. ~cut => Kept(Put(text, Due(0)))
    BY <1>1 DEF IInv, EditInv
  <2>2. ~cut => Kept(Put(text, bs))
    BY <1>2, <1>3, <2>1, Settled, PutIsKept
  <2>3. TextType(Put(text, bs))
    BY <1>2, <1>3, PutParts
  <2>4. QED BY <2>2, <2>3, KeptIsWhole
<1> HIDE DEF full
<1> DEFINE m == Min({BufMax, Len(full)})
<1>6. m \in 0..Len(full) /\ (~long => m = Len(full))
  BY <1>4, LimitsType, MinOfTwo
<1> HIDE DEF m
<1>7. got \in Line /\ Len(got) = m
  BY <1>4, <1>6, CutParts DEF m
<1>8. ~long => got = full
  <2>1. SUFFICES ASSUME ~long PROVE SubSeq(full, 1, m) = full
    BY DEF m
  <2>2. m = Len(full)
    BY <1>6, <2>1
  <2>3. full \in Seq(Bytes) /\ SubSeq(full, 1, m) \in Seq(Bytes) /\ Len(SubSeq(full, 1, m)) = m
    BY <1>4, <1>7 DEF Line, m
  <2>4. \A i \in 1..m : SubSeq(full, 1, m)[i] = full[i]
    BY <1>4, <1>6, CutParts
  <2>5. QED BY <2>2, <2>3, <2>4, SeqEqual
<1> HIDE DEF got, long
<1>9. cut \in BOOLEAN
  BY DEF IInv, RestType
<1>10. (~cut' => ~cut /\ ~long) /\ cut' \in BOOLEAN
  BY <1>1, <1>9, Zenon
<1>11. ~cut' => ~cut /\ Sound(got)
  BY <1>5, <1>8, <1>10
<1>12. Len(got) = Min({BufMax, Len(text.s) + Len(bs)})
  BY <1>4, <1>7 DEF m
<1>13. hist' = Push(hist, got)
  BY <1>1
<1>14. QED BY <1>2, <1>3, <1>7, <1>10, <1>11, <1>12, <1>13

\* Enter, with a save that succeeds, is short or fails
LEMMA EnterStep == IInv /\ Enter => IInv'
<1>1. SUFFICES ASSUME IInv, Enter PROVE IInv'
  OBVIOUS
<1>2. PICK bs, got : /\ got \in Line /\ hist' = Push(hist, got)
                     /\ (~cut' => ~cut /\ Sound(got)) /\ cut' \in BOOLEAN /\ tab' \in TabType
  BY <1>1, EnterIs
<1>3. /\ owed = 0 /\ owed' = owed /\ text' = Empty /\ reading' = FALSE /\ idx' = idx
           /\ draft' = draft
      /\ written' = written /\ ime' = IF ime.on THEN Off(Spent(ime)) ELSE ime
      /\ keys < MaxKeys /\ keys' = keys + 1
  BY <1>1 DEF Enter, Key, Reading, Whole
<1>4. HistInv /\ Lines(hist)
  BY <1>1 DEF IInv, HistInv
<1>5. /\ Lines(hist') /\ Len(hist) <= Len(hist')
      /\ \A i \in DOMAIN hist' : hist'[i] = got \/ \E j \in DOMAIN hist : hist'[i] = hist[j]
  BY <1>2, <1>4, PushIs
<1>6. ~cut' => SoundLines(hist')
  BY <1>2, <1>4, <1>5 DEF HistInv, SoundLines
<1>7. /\ file' \in Seq(Line) /\ (~cut' => SoundLines(file') /\ Lines(file'))
      /\ (~unsaved' => file' = hist') /\ unsaved' \in BOOLEAN
  <2>1. CASE \E n \in 0..Len(hist') : file' = SubSeq(hist', 1, n) /\ unsaved' = (n < Len(hist'))
    <3>1. PICK n \in 0..Len(hist') : file' = SubSeq(hist', 1, n) /\ unsaved' = (n < Len(hist'))
      BY <2>1
    <3>2. Lines(file') /\ (SoundLines(hist') => SoundLines(file'))
               /\ (n = Len(hist') => file' = hist')
      BY <1>5, <3>1, PrefixLines
    <3>3. ~unsaved' => n = Len(hist')
      <4> DEFINE less == n < Len(hist')
      <4>1. ~less => n = Len(hist')
        BY <1>5 DEF Lines
      <4>2. unsaved' = less
        BY <3>1
      <4> HIDE DEF less
      <4>3. QED BY <4>1, <4>2, Zenon
    <3>4. unsaved' \in BOOLEAN
      <4> DEFINE less == n < Len(hist')
      <4>1. unsaved' = less
        BY <3>1
      <4>2. less \in BOOLEAN
        OBVIOUS
      <4> HIDE DEF less
      <4>3. QED BY <4>1, <4>2
    <3>5. QED BY <1>6, <3>2, <3>3, <3>4, LinesAreSome
  <2>2. CASE file' = file /\ unsaved' = TRUE
    <3>1. file \in Seq(Line) /\ (~cut => SoundLines(file) /\ Lines(file))
      BY <1>4 DEF HistInv
    <3>2. QED BY <1>2, <2>2, <3>1
  <2>3. CASE \E n \in 1..Len(hist') : \E k \in 1..Len(hist'[n]) - 1 :
               /\ file' = Append(SubSeq(hist', 1, n - 1), SubSeq(hist'[n], 1, k))
               /\ unsaved' = TRUE /\ cut' = TRUE
    <3>1. PICK n \in 1..Len(hist') : \E k \in 1..Len(hist'[n]) - 1 :
               /\ file' = Append(SubSeq(hist', 1, n - 1), SubSeq(hist'[n], 1, k))
               /\ unsaved' = TRUE /\ cut' = TRUE
      BY <2>3
    <3>2. PICK k \in 1..Len(hist'[n]) - 1 :
               /\ file' = Append(SubSeq(hist', 1, n - 1), SubSeq(hist'[n], 1, k))
               /\ unsaved' = TRUE /\ cut' = TRUE
      BY <3>1
    <3>3. file' \in Seq(Line)
      BY <1>5, <3>2, TornFile
    <3>4. QED BY <3>2, <3>3
  <2>4. QED BY <1>1, <2>1, <2>2, <2>3 DEF Enter, Saved
<1>8. HistInv'
  <2>1. idx' \in 0..Len(hist')
    <3>1. idx \in Nat /\ idx <= Len(hist) /\ Len(hist) \in Nat /\ Len(hist') \in Nat
      BY <1>1, <1>5, EditFacts DEF Lines
    <3>2. QED BY <1>3, <1>5, <3>1
  <2>2. QED BY <1>5, <1>6, <1>7, <2>1 DEF HistInv
<1>9. EditInv'
  <2>1. EditInv
    BY <1>1 DEF IInv
  <2>2. TextType(text') /\ ~reading' /\ owed' = 0
    BY <1>3, EmptyIsKept DEF Kept
  <2>3. draft' \in Line /\ written' \in Line /\ (~cut' => Sound(draft'))
    BY <1>2, <1>3, <2>1 DEF EditInv
  <2>4. owed' \in 0..2 /\ (owed' > 0 => reading')
    BY <2>2
  <2>5. QED BY <2>2, <2>3, <2>4 DEF EditInv
<1>10. ImeGood(ime')
  BY <1>1, <1>3, EditFacts, SpentIsGood
<1>11. RestType'
  <2>1. keys' \in 0..MaxKeys
    BY <1>1, <1>3, KeyType DEF IInv
  <2>2. QED BY <1>2, <1>3, <1>7, <2>1 DEF RestType
<1>12. QED BY <1>8, <1>9, <1>10, <1>11 DEF IInv

\* What the next process finds
LEMMA RestartIs ==
  ASSUME IInv, Restart
  PROVE  /\ hist' = Loaded(file) /\ Lines(hist') /\ cut' \in BOOLEAN
         /\ ~cut' => ~cut /\ hist' = file
<1> DEFINE long == \E i \in DOMAIN file : Len(file[i]) > LoadMax
<1>1. hist' = Loaded(file) /\ cut' = (cut \/ long)
  BY DEF Restart
<1>2. (~cut => Lines(file)) /\ file \in Seq(Line) /\ cut \in BOOLEAN
  BY DEF IInv, HistInv, RestType
<1>3. Lines(hist')
  BY <1>1, <1>2, LoadedLines
<1>4. ~long /\ ~cut => hist' = file
  <2>1. SUFFICES ASSUME ~long, ~cut PROVE hist' = file
    OBVIOUS
  <2>2. \A i \in DOMAIN file : Len(file[i]) <= LoadMax
    <3>1. TAKE i \in DOMAIN file
    <3>2. file[i] \in Seq(Bytes)
      BY <1>2 DEF Line
    <3>3. Len(file[i]) \in Nat /\ ~(Len(file[i]) > LoadMax)
      BY <2>1, <3>2
    <3>4. QED BY <3>3, LimitsType
  <2>3. QED BY <1>1, <1>2, <2>1, <2>2, LoadedWhole
<1> HIDE DEF long
<1>5. (~cut' => ~cut /\ ~long) /\ cut' \in BOOLEAN
  BY <1>1, <1>2, Zenon
<1>6. QED BY <1>1, <1>3, <1>4, <1>5

\* The process is started anew.
LEMMA RestartStep == IInv /\ Restart => IInv'
<1>1. SUFFICES ASSUME IInv, Restart PROVE IInv'
  OBVIOUS
<1>2. Lines(hist') /\ cut' \in BOOLEAN /\ (~cut' => ~cut /\ hist' = file)
  BY <1>1, RestartIs
<1> DEFINE e == <<>>
<1>3. /\ ~reading /\ keys < MaxKeys /\ keys' = keys + 1 /\ idx' = Len(hist') /\ text' = Empty
      /\ draft' = e /\ tab' = [active |-> FALSE, sel |-> 0]
      /\ ime' = [on |-> FALSE, py |-> 0, cand |-> 0, page |-> 0, pages |-> 0, sel |-> 0]
      /\ owed' = owed /\ file' = file /\ reading' = reading /\ unsaved' = unsaved
           /\ written' = written
  BY <1>1 DEF Restart
<1>4. Sound(e) /\ e \in Line
  BY SoundBytes, ShortLines
<1> HIDE DEF e
<1>5. EditInv'
  <2>1. EditInv
    BY <1>1 DEF IInv
  <2>2. TextType(text') /\ ~reading' /\ owed' = 0
    <3>1. owed = 0
      BY <1>3, <2>1 DEF EditInv
    <3>2. QED BY <1>3, <3>1, EmptyIsKept DEF Kept
  <2>3. draft' \in Line /\ written' \in Line /\ Sound(draft')
    BY <1>3, <1>4, <2>1 DEF EditInv
  <2>4. owed' \in 0..2 /\ (owed' > 0 => reading')
    BY <2>2
  <2>5. QED BY <2>2, <2>3, <2>4 DEF EditInv
<1>6. HistInv'
  <2>1. HistInv
    BY <1>1 DEF IInv
  <2>2. file' \in Seq(Line) /\ idx' \in 0..Len(hist')
    <3>1. Len(hist') \in Nat
      BY <1>2 DEF Lines
    <3>2. QED BY <1>3, <2>1, <3>1 DEF HistInv
  <2>3. ~cut' => SoundLines(hist') /\ SoundLines(file') /\ file' = hist'
    BY <1>2, <1>3, <2>1 DEF HistInv
  <2>4. QED BY <1>2, <2>2, <2>3 DEF HistInv
<1>7. ImeGood(ime')
  BY <1>3, NothingFits, ImeFrom
<1>8. RestType'
  <2>1. keys' \in 0..MaxKeys /\ tab' \in TabType
    BY <1>1, <1>3, KeyType DEF IInv, TabType
  <2>2. QED BY <1>1, <1>2, <1>3, <2>1 DEF IInv, RestType
<1>9. QED BY <1>5, <1>6, <1>7, <1>8 DEF IInv

-----------------------------------------------------------------------------
(* The memory of the line *)

\* The draft has its place in the buffer, which never becomes smaller.
DraftFits == cap \in Caps /\ Len(draft) < cap

\* The buffer takes what it was doubled for.
LEMMA SizedIs ==
  ASSUME cap \in Caps, NEW n \in Nat, Sized(n)
  PROVE  cap \in Nat /\ cap' \in Caps /\ cap' \in Nat /\ cap <= cap' /\ n <= cap'
<1>1. cap \in Nat /\ Caps \subseteq Nat
  BY LineEditorAssumption
<1>2. CASE n <= cap
  BY <1>1, <1>2 DEF Sized
<1>3. CASE ~(n <= cap)
  <2>1. cap' \in Caps /\ n <= cap'
    BY <1>3 DEF Sized, Least
  <2>2. QED BY <1>1, <1>3, <2>1
<1>4. QED BY <1>2, <1>3

\* The line and the draft are no longer than the buffer was made for.
LEMMA Grown ==
  ASSUME IInv, DraftFits, NEW n \in Nat, Sized(n), Len(text'.s) \in Nat, Len(text'.s) < n,
         draft' = draft
  PROVE  DraftFits' /\ ~Overrun'
<1>1. cap \in Nat /\ cap' \in Caps /\ cap' \in Nat /\ cap <= cap' /\ n <= cap'
  BY SizedIs DEF DraftFits
<1>2. Len(draft) \in Nat
  BY DEF IInv, EditInv, Line
<1>3. Len(draft) < cap'
  BY <1>1, <1>2 DEF DraftFits
<1>4. ~Overrun'
  BY <1>1 DEF Overrun
<1>5. QED BY <1>1, <1>3, <1>4 DEF DraftFits

\* The line does not grow.
LEMMA NotGrown ==
  ASSUME IInv, DraftFits, Reading, cap' = cap, draft' = draft, TextType(text'),
         Len(text'.s) <= Len(text.s)
  PROVE  DraftFits' /\ ~Overrun'
<1>1. Len(text.s) \in Nat /\ Len(text'.s) \in Nat
  BY EditFacts, Parts
<1>2. cap \in Nat
  BY LineEditorAssumption DEF DraftFits
<1>3. ~(Len(text.s) >= cap)
  BY DEF Reading, Overrun
<1>4. ~Overrun'
  BY <1>1, <1>2, <1>3 DEF Overrun
<1>5. QED BY <1>4 DEF DraftFits

\* What is inserted is allowed for.
LEMMA InsertFits ==
  ASSUME IInv, DraftFits, NEW bs \in Line, Insert(bs), draft' = draft
  PROVE  DraftFits' /\ ~Overrun'
<1>1. text' = Put(text, bs) /\ Sized(Len(text.s) + Len(bs) + 1)
  BY DEF Insert
<1>2. /\ Len(Put(text, bs).s) = Len(text.s) + Len(bs) /\ Len(text.s) \in Nat
      /\ Len(bs) \in Nat
  BY EditFacts, Parts, PutLength
<1>3. Len(text.s) + Len(bs) + 1 \in Nat /\ Len(text'.s) \in Nat
        /\ Len(text'.s) < Len(text.s) + Len(bs) + 1
  BY <1>1, <1>2
<1>4. QED BY <1>1, <1>3, Grown

\* The deletions shorten the line.
LEMMA Shorter ==
  ASSUME NEW t, TextType(t)
  PROVE  /\ Len(DeleteBack(t).s) <= Len(t.s) /\ Len(DeleteFwd(t).s) <= Len(t.s)
         /\ Len(Before(t)) <= Len(t.s) /\ Len(After(t)) <= Len(t.s)
<1>1. /\ t.s \in Line /\ Len(t.s) \in Nat /\ t.c \in Nat /\ t.c <= Len(t.s)
      /\ Before(t) \in Line /\ Len(Before(t)) = t.c
      /\ After(t) \in Line /\ Len(After(t)) = Len(t.s) - t.c
  BY Parts
<1>2. Len(DeleteBack(t).s) <= Len(t.s)
  <2> DEFINE k == LeftOf(t)
             a == SubSeq(t.s, 1, k)
             d == After(t)
  <2>1. DeleteBack(t).s = a \o d
    BY DEF DeleteBack
  <2>2. k \in 0..t.c
    BY LeftWithin
  <2> HIDE DEF k
  <2>3. k \in 0..Len(t.s) /\ k <= t.c /\ k \in Nat
    BY <1>1, <2>2
  <2>4. a \in Line /\ Len(a) = k
    BY <1>1, <2>3, CutParts
  <2> HIDE DEF a
  <2>5. d \in Line /\ Len(d) = Len(t.s) - t.c
    BY <1>1
  <2> HIDE DEF d
  <2>6. Len(a \o d) = Len(a) + Len(d)
    BY <2>4, <2>5, JoinParts
  <2>7. Len(a \o d) = k + (Len(t.s) - t.c)
    BY <2>4, <2>5, <2>6
  <2>8. QED BY <1>1, <2>1, <2>3, <2>7
<1>3. Len(DeleteFwd(t).s) <= Len(t.s)
  <2> DEFINE k == RightOf(t)
             b == Before(t)
             d == SubSeq(t.s, k + 1, Len(t.s))
  <2>1. DeleteFwd(t).s = b \o d
    <3> DEFINE l == b \o d
    <3>1. DeleteFwd(t) = [t EXCEPT !.s = l]
      BY DEF DeleteFwd
    <3>2. t = [s |-> t.s, c |-> t.c]
      BY Parts
    <3> HIDE DEF l
    <3>3. [t EXCEPT !.s = l].s = l
      BY <3>2
    <3>4. QED BY <3>1, <3>3 DEF l
  <2>2. k \in 0..Len(t.s) /\ t.c <= k
    BY RightWithin
  <2> HIDE DEF k
  <2>3. d \in Line /\ Len(d) = Len(t.s) - k
    BY <1>1, <2>2, CutParts
  <2> HIDE DEF d
  <2>4. b \in Line /\ Len(b) = t.c
    BY <1>1
  <2> HIDE DEF b
  <2>5. Len(b \o d) = Len(b) + Len(d)
    BY <2>3, <2>4, JoinParts
  <2>6. Len(b \o d) = t.c + (Len(t.s) - k)
    BY <2>3, <2>4, <2>5
  <2>7. QED BY <1>1, <2>1, <2>2, <2>6
<1>4. QED BY <1>1, <1>2, <1>3

\* The keys that move the caret, delete, or change the pinyin only
LEMMA ShortensFits ==
  ASSUME IInv, DraftFits,
         Backspace \/ Left \/ Right \/ CtrlA \/ CtrlE \/ CtrlU \/ CtrlK \/ CtrlC \/ CtrlD
  PROVE  DraftFits' /\ ~Overrun'
<1>1. TextType(text) /\ Len(text.s) \in Nat /\ text = [s |-> text.s, c |-> text.c]
  BY EditFacts, Parts
<1>2. ASSUME NEW n, Caret(n) PROVE Len(text'.s) <= Len(text.s) /\ cap' = cap /\ draft' = draft /\ Reading
  <2>1. text' = [text EXCEPT !.c = n]
    BY <1>2 DEF Caret
  <2>2. text'.s = text.s
    BY <1>1, <2>1
  <2>3. QED BY <1>1, <1>2, <2>2 DEF Caret, Editing, Key
<1>3. ASSUME NEW t, Edited(t), Len(t.s) <= Len(text.s)
      PROVE  Len(text'.s) <= Len(text.s) /\ cap' = cap /\ draft' = draft /\ Reading
  BY <1>3 DEF Edited, Editing, Key
<1>4. /\ Len(DeleteBack(text).s) <= Len(text.s) /\ Len(DeleteFwd(text).s) <= Len(text.s)
      /\ Len(Before(text)) <= Len(text.s) /\ Len(After(text)) <= Len(text.s)
  BY <1>1, Shorter
<1>5. Len(text'.s) <= Len(text.s) /\ cap' = cap /\ draft' = draft /\ Reading
  <2>1. CASE Backspace
    BY <1>4, <2>1 DEF Backspace, Editing, Key
  <2>2. CASE Left \/ Right \/ CtrlA \/ CtrlE
    BY <1>2, <2>2 DEF Left, Right, CtrlA, CtrlE
  <2>3. CASE CtrlU
    <3> DEFINE t == [s |-> After(text), c |-> 0]
    <3>1. Edited(t) /\ Len(t.s) <= Len(text.s)
      BY <1>4, <2>3 DEF CtrlU
    <3> HIDE DEF t
    <3>2. QED BY <1>3, <3>1
  <2>4. CASE CtrlK
    <3> DEFINE b == Before(text)
               t == [text EXCEPT !.s = b]
    <3> HIDE DEF b
    <3>1. t.s = b
      BY <1>1
    <3>2. Edited(t) /\ Len(t.s) <= Len(text.s)
      BY <1>4, <2>4, <3>1 DEF CtrlK, b
    <3> HIDE DEF t
    <3>3. QED BY <1>3, <3>2
  <2>5. CASE CtrlC
    <3> DEFINE e == <<>>
    <3>1. Len(e) = 0
      OBVIOUS
    <3>2. Edited(Empty) /\ Empty.s = e
      BY <2>5 DEF CtrlC, Empty
    <3> HIDE DEF e
    <3>3. Len(Empty.s) <= Len(text.s)
      BY <1>1, <3>1, <3>2
    <3>4. QED BY <1>3, <3>2, <3>3
  <2>6. CASE CtrlD
    BY <1>3, <1>4, <2>6 DEF CtrlD
  <2>7. QED BY <2>1, <2>2, <2>3, <2>4, <2>5, <2>6
<1>6. TextType(text')
  <2>1. IInv'
    BY BackspaceStep, MoveStep, CutStep
  <2>2. QED BY <2>1 DEF IInv, EditInv
<1>7. QED BY <1>5, <1>6, NotGrown

\* An empty line fits any buffer.
LEMMA EmptyFits ==
  ASSUME text' = Empty, cap' \in Caps
  PROVE  ~Overrun'
<1> DEFINE e == <<>>
<1>1. Len(e) = 0
  OBVIOUS
<1>2. text'.s = e
  BY DEF Empty
<1> HIDE DEF e
<1>3. cap' \in Nat \ {0}
  BY LineEditorAssumption
<1>4. ~(Len(text'.s) >= cap')
  BY <1>1, <1>2, <1>3
<1>5. QED BY <1>4 DEF Overrun

\* The history's lines are allowed for, and the draft stays with the buffer
\* that held it.
LEMMA RecallFits ==
  ASSUME IInv, DraftFits, Up \/ Down
  PROVE  DraftFits' /\ ~Overrun'
<1>1. /\ TextType(text) /\ text.s \in Line /\ Len(text.s) \in Nat /\ idx \in 0..Len(hist)
      /\ Len(hist) \in Nat /\ draft \in Line /\ Len(draft) \in Nat
  BY EditFacts, Parts DEF IInv, EditInv, Line
<1>2. Reading
  BY DEF Up, Down, Editing, Key
<1>3. cap \in Nat /\ Len(text.s) < cap
  <2>1. cap \in Nat
    BY LineEditorAssumption DEF DraftFits
  <2>2. ~(Len(text.s) >= cap)
    BY <1>2 DEF Reading, Overrun
  <2>3. QED BY <1>1, <2>1, <2>2
<1>4. ASSUME NEW n \in 1..Len(hist), text' = AtEnd(hist[n]), Sized(Len(hist[n]) + 1)
      PROVE  /\ cap' \in Caps /\ cap' \in Nat /\ cap <= cap' /\ ~Overrun'
  <2> DEFINE l == hist[n]
  <2>1. l \in Line
    BY RecalledIs
  <2> HIDE DEF l
  <2>2. Len(l) \in Nat /\ text'.s = l
    BY <1>4, <2>1 DEF l, AtEnd, Line
  <2>3. cap' \in Caps /\ cap' \in Nat /\ cap <= cap' /\ Len(l) + 1 <= cap'
    BY <1>4, <2>2, SizedIs DEF l, DraftFits
  <2>4. ~(Len(text'.s) >= cap')
    BY <2>2, <2>3
  <2>5. QED BY <2>3, <2>4 DEF Overrun
<1>5. CASE Up
  <2>1. CASE idx > 0 /\ draft' = text.s /\ text' = AtEnd(hist[idx]) /\ Sized(Len(hist[idx]) + 1)
    <3>1. idx \in 1..Len(hist)
      BY <1>1, <2>1
    <3>2. cap' \in Caps /\ cap' \in Nat /\ cap <= cap' /\ ~Overrun'
      BY <1>4, <2>1, <3>1
    <3>3. Len(draft') < cap'
      BY <1>1, <1>3, <2>1, <3>2
    <3>4. QED BY <3>2, <3>3 DEF DraftFits
  <2>2. CASE text' = text /\ cap' = cap /\ draft' = draft
    BY <1>1, <1>2, <2>2, NotGrown
  <2>3. QED BY <1>5, <2>1, <2>2 DEF Up
<1>6. CASE Down
  <2>1. draft' = draft /\ idx' = idx + 1 /\ idx < Len(hist)
    BY <1>6 DEF Down
  <2>2. CASE text' = AtEnd(draft) /\ cap' = cap
    <3>1. text'.s = draft
      BY <2>2 DEF AtEnd
    <3>2. ~(Len(text'.s) >= cap')
      BY <1>1, <1>3, <2>2, <3>1 DEF DraftFits
    <3>3. QED BY <2>1, <2>2, <3>2 DEF DraftFits, Overrun
  <2>3. CASE idx' < Len(hist) /\ text' = AtEnd(hist[idx' + 1]) /\ Sized(Len(hist[idx' + 1]) + 1)
    <3>1. idx' + 1 \in 1..Len(hist)
      BY <1>1, <2>1, <2>3
    <3>2. cap' \in Caps /\ cap' \in Nat /\ cap <= cap' /\ ~Overrun'
      BY <1>4, <2>3, <3>1
    <3>3. Len(draft') < cap'
      BY <1>1, <1>3, <2>1, <3>2 DEF DraftFits
    <3>4. QED BY <3>2, <3>3 DEF DraftFits
  <2>4. QED BY <1>6, <2>2, <2>3 DEF Down
<1>7. QED BY <1>5, <1>6

\* A completion at the end of the line is allowed for.
LEMMA TabFits ==
  ASSUME IInv, DraftFits, Tab
  PROVE  DraftFits' /\ (Overrun' => text.c < Len(text.s))
<1>1. /\ TextType(text) /\ Len(text.s) \in Nat /\ text.c \in Nat /\ text.c <= Len(text.s)
      /\ After(text) \in Line /\ Len(After(text)) = Len(text.s) - text.c
  BY EditFacts, Parts
<1>2. Reading /\ draft' = draft /\ Len(draft) \in Nat
  BY TabIs DEF Editing, Key, IInv, EditInv, Line
<1>3. CASE text' = text /\ cap' = cap
  BY <1>1, <1>2, <1>3, NotGrown
<1>4. ASSUME NEW x, Sound(x), Sized(Picked(text, x).c + 2), Completes(x)
      PROVE  DraftFits' /\ (Overrun' => text.c < Len(text.s))
  <2> DEFINE u == Picked(text, x)
  <2>1. TextType(u) /\ Len(u.s) = u.c + Len(After(text))
    BY <1>1, <1>4, PickedLength DEF Sound
  <2> HIDE DEF u
  <2>2. u.s \in Line /\ Len(u.s) \in Nat /\ u.c \in Nat
    BY <2>1, Parts
  <2>3. cap \in Nat /\ cap' \in Caps /\ cap' \in Nat /\ cap <= cap' /\ u.c + 2 <= cap'
    BY <1>4, <2>2, SizedIs DEF u, DraftFits
  <2>4. DraftFits'
    BY <1>2, <2>3 DEF DraftFits
  <2>5. ASSUME ~(text.c < Len(text.s)) PROVE ~Overrun'
    <3>1. Len(u.s) = u.c
      BY <1>1, <2>1, <2>2, <2>5
    <3>2. CASE text' = u
      <4>1. ~(Len(text'.s) >= cap')
        BY <2>2, <2>3, <3>1, <3>2
      <4>2. QED BY <4>1 DEF Overrun
    <3>3. CASE text' = AtEnd(Append(u.s, " "))
      <4> DEFINE v == Append(u.s, " ")
      <4>1. u.s \in Seq(Bytes) /\ " " \in Bytes
        BY <2>2 DEF Line, Bytes
      <4>2. Len(v) = Len(u.s) + 1
        BY <4>1, AppendProperties
      <4>3. text'.s = v
        BY <3>3 DEF AtEnd
      <4> HIDE DEF v
      <4>4. ~(Len(text'.s) >= cap')
        BY <2>2, <2>3, <3>1, <4>2, <4>3
      <4>5. QED BY <4>4 DEF Overrun
    <3>4. QED BY <1>4, <3>2, <3>3 DEF Completes, u
  <2>6. QED BY <2>4, <2>5
<1>5. QED BY <1>3, <1>4, TabIs

\* The keys that insert: a byte, what the pinyin gives, and Enter, which
\* leaves the line empty
LEMMA KeyFits ==
  ASSUME IInv, DraftFits, (\E b \in Bytes \ {"b"} : Byte(b)) \/ Toggle \/ ImeKey
  PROVE  DraftFits' /\ ~Overrun'
<1>1. ImeGood(ime) /\ Raw \in Line /\ Wide \in Line /\ Append(Raw, ",") \in Line
  BY EditFacts, GivenIsSound DEF Sound
<1>2. ASSUME NEW i, ImeOnly(i) PROVE DraftFits' /\ ~Overrun'
  <2>1. Reading /\ cap' = cap /\ draft' = draft /\ text' = text
    BY <1>2 DEF ImeOnly, Pinyin, Editing, Key
  <2>2. TextType(text') /\ Len(text'.s) <= Len(text.s)
    BY <2>1, EditFacts, Parts
  <2>3. QED BY <2>1, <2>2, NotGrown
<1>3. ASSUME NEW bs \in Line, NEW i, Commit(bs, i) PROVE DraftFits' /\ ~Overrun'
  <2>1. Insert(bs) /\ draft' = draft
    BY <1>3 DEF Commit, Pinyin
  <2>2. QED BY <2>1, InsertFits
<1>4. ASSUME NEW b \in Bytes, Byte(b) PROVE DraftFits' /\ ~Overrun'
  <2> DEFINE bs == IF ime.on THEN Append(Raw, b) ELSE <<b>>
  <2>1. Insert(bs) /\ draft' = draft
    BY <1>4 DEF Byte
  <2>2. bs \in Line
    <3>1. Append(Raw, b) \in Seq(Bytes)
      BY <1>1, AppendProperties DEF Line
    <3>2. QED BY <3>1, ShortLines DEF Line
  <2> HIDE DEF bs
  <2>3. QED BY <2>1, <2>2, InsertFits
<1>5. CASE Toggle
  <2>1. CASE ~ime.on
    <3>1. Reading /\ cap' = cap /\ draft' = draft /\ text' = text
      BY <1>5, <2>1 DEF Toggle, Pinyin, Editing, Key
    <3>2. TextType(text') /\ Len(text'.s) <= Len(text.s)
      BY <3>1, EditFacts, Parts
    <3>3. QED BY <3>1, <3>2, NotGrown
  <2>2. CASE ime.on
    <3>1. Insert(Raw) /\ draft' = draft
      BY <1>5, <2>2 DEF Toggle, Pinyin
    <3>2. QED BY <1>1, <3>1, InsertFits
  <2>3. QED BY <2>1, <2>2
<1>6. CASE ImeKey
  <2>1. CASE ImeSpace
    <3> DEFINE bs == IF Shown(ime) < ime.cand THEN Wide ELSE Raw
    <3>1. Commit(bs, Spent(ime)) /\ bs \in Line
      BY <1>1, <2>1 DEF ImeSpace
    <3> HIDE DEF bs
    <3>2. QED BY <1>3, <3>1
  <2>2. CASE \E k \in 1..PageSize : ImeDigit(k)
    BY <1>1, <1>2, <1>3, <2>2 DEF ImeDigit
  <2>3. CASE \E up \in BOOLEAN : ImeFlip(up) \/ ImeSign(up)
    BY <1>1, <1>2, <1>3, <2>3 DEF ImeFlip, ImeSign
  <2>4. CASE ImeLetter \/ ImeEsc \/ ImeBack \/ ImeLeft \/ ImeRight
    BY <1>2, <2>4 DEF ImeLetter, ImeEsc, ImeBack, ImeLeft, ImeRight
  <2>5. QED BY <1>6, <2>1, <2>2, <2>3, <2>4 DEF ImeKey
<1>7. QED BY <1>4, <1>5, <1>6

\* A call begins or ends, and another process starts, with an empty line or
\* with the one there is.
LEMMA EndsFit ==
  ASSUME IInv, DraftFits, Begin \/ Enter \/ Abort \/ Eof \/ Restart
  PROVE  DraftFits' /\ ~Overrun'
<1>1. CASE Begin
  <2>1. text' = Empty /\ cap' = cap /\ draft' = draft
    BY <1>1 DEF Begin
  <2>2. QED BY <2>1, EmptyFits DEF DraftFits
<1>2. CASE Enter
  <2> DEFINE n == Len(text.s) + Len(Chosen) + 1
             e == <<>>
  <2>1. text' = Empty /\ Sized(n) /\ draft' = draft
    BY <1>2 DEF Enter
  <2>2. Chosen \in Line
    BY EditFacts, GivenIsSound, ShortLines DEF Chosen, Sound
  <2>3. n \in Nat /\ 0 < n
    <3> DEFINE c == Chosen
    <3>1. Len(c) \in Nat /\ Len(text.s) \in Nat
      BY <2>2, EditFacts, Parts DEF Line
    <3> HIDE DEF c
    <3>2. Len(text.s) + Len(c) + 1 \in Nat /\ 0 < Len(text.s) + Len(c) + 1
      BY <3>1
    <3>3. QED BY <3>2 DEF c
  <2>4. text'.s = e /\ Len(e) = 0
    BY <2>1 DEF Empty
  <2> HIDE DEF n, e
  <2>5. Len(text'.s) \in Nat /\ Len(text'.s) < n
    BY <2>3, <2>4
  <2>6. QED BY <2>1, <2>3, <2>5, Grown
<1>3. CASE Abort \/ Eof
  <2>1. Reading /\ text' = text /\ cap' = cap /\ draft' = draft
    BY <1>3 DEF Abort, Eof, Key, edit
  <2>2. TextType(text') /\ Len(text'.s) <= Len(text.s)
    BY <2>1, EditFacts, Parts
  <2>3. QED BY <2>1, <2>2, NotGrown
<1>4. CASE Restart
  <2> DEFINE e == <<>>
  <2>1. text' = Empty /\ cap' \in Caps /\ draft' = e /\ Len(e) = 0
    BY <1>4 DEF Restart, Least
  <2> HIDE DEF e
  <2>2. Len(draft') < cap'
    BY <2>1, LineEditorAssumption
  <2>3. QED BY <2>1, <2>2, EmptyFits DEF DraftFits
<1>5. QED BY <1>1, <1>2, <1>3, <1>4

\* Only a completion within the line writes past the buffer.
LEMMA BufferStep ==
  IInv /\ DraftFits /\ Next => DraftFits' /\ (Overrun' => Tab /\ text.c < Len(text.s))
<1>1. SUFFICES ASSUME IInv, DraftFits, Next
               PROVE  DraftFits' /\ (Overrun' => Tab /\ text.c < Len(text.s))
  OBVIOUS
<1>2. CASE Begin \/ Enter \/ Abort \/ Eof \/ Restart
  BY <1>1, <1>2, EndsFit
<1>3. CASE (\E b \in Bytes \ {"b"} : Byte(b)) \/ Toggle \/ ImeKey
  BY <1>1, <1>3, KeyFits
<1>4. CASE Backspace \/ Left \/ Right \/ CtrlA \/ CtrlE \/ CtrlU \/ CtrlK \/ CtrlC \/ CtrlD
  BY <1>1, <1>4, ShortensFits
<1>5. CASE Up \/ Down
  BY <1>1, <1>5, RecallFits
<1>6. CASE Tab
  BY <1>1, <1>6, TabFits
<1>7. QED BY <1>1, <1>2, <1>3, <1>4, <1>5, <1>6 DEF Next

-----------------------------------------------------------------------------
(* The theorems *)

\* Every step keeps the invariant.
LEMMA InvStep == IInv /\ [Next]_vars => IInv'
<1>1. SUFFICES ASSUME IInv, [Next]_vars PROVE IInv'
  OBVIOUS
<1>2. CASE UNCHANGED vars
  <2>1. /\ text' = text /\ owed' = owed /\ hist' = hist /\ idx' = idx /\ draft' = draft
             /\ tab' = tab
        /\ ime' = ime /\ file' = file /\ reading' = reading /\ keys' = keys /\ cut' = cut
        /\ unsaved' = unsaved /\ written' = written
    BY <1>2 DEF vars
  <2>2. EditInv'
    BY <1>1, <2>1 DEF IInv, EditInv
  <2>3. HistInv'
    BY <1>1, <2>1, EditFacts, HistStays DEF IInv
  <2>4. RestType'
    BY <1>1, <2>1 DEF IInv, RestType
  <2>5. QED BY <1>1, <2>1, <2>2, <2>3, <2>4 DEF IInv
<1>3. CASE Begin \/ Enter \/ Abort \/ Eof \/ Restart
  BY <1>1, <1>3, BeginStep, EnterStep, AbortStep, RestartStep
<1>4. CASE \E b \in Bytes \ {"b"} : Byte(b)
  BY <1>1, <1>4, ByteStep
<1>5. CASE Backspace \/ Left \/ Right \/ Up \/ Down \/ Tab
  BY <1>1, <1>5, BackspaceStep, MoveStep, UpStep, DownStep, TabStep
<1>6. CASE CtrlA \/ CtrlE \/ CtrlU \/ CtrlK \/ CtrlC \/ CtrlD
  BY <1>1, <1>6, MoveStep, CutStep
<1>7. CASE Toggle \/ ImeKey
  BY <1>1, <1>7, ToggleStep, ImeKeyStep
<1>8. QED BY <1>1, <1>2, <1>3, <1>4, <1>5, <1>6, <1>7 DEF Next

\* The invariant holds throughout: what is on the line is, with the bytes that
\* are due, made of whole characters; what is in the file can be recalled; the
\* pinyin's candidates are those of its letters.
THEOREM Inductive == Spec => []IInv
<1>1. QED BY InvInit, InvStep, PTL DEF Spec

\* The draft always has its place in the buffer (rd_draft copies it there
\* without a look).
LEMMA DraftKept == Spec => [](IInv /\ DraftFits)
<1>1. Init => DraftFits
  <2>1. SUFFICES ASSUME Init PROVE DraftFits
    OBVIOUS
  <2> DEFINE e == <<>>
  <2>2. draft = e /\ Len(e) = 0 /\ cap \in Caps
    BY <2>1 DEF Init, Least
  <2> HIDE DEF e
  <2>3. Len(draft) < cap
    BY <2>2, LineEditorAssumption
  <2>4. QED BY <2>2, <2>3 DEF DraftFits
<1>2. IInv /\ DraftFits /\ [Next]_vars => DraftFits'
  <2>1. IInv /\ DraftFits /\ UNCHANGED vars => DraftFits'
    BY DEF vars, DraftFits
  <2>2. QED BY <2>1, BufferStep
<1>3. QED BY <1>1, <1>2, InvInit, InvStep, PTL DEF Spec

\* Line, caret, history, place in it, draft and pinyin stay what they are
\* declared as: the caret within the line, no empty line and no line twice in a
\* row in the history, and never more than TUI_CMD_HIST_MAX (tui_cmd_hist_push).
THEOREM TypeCorrect == Spec => []TypeOK
<1>1. IInv /\ DraftFits => TypeOK
  <2>1. SUFFICES ASSUME IInv, DraftFits PROVE TypeOK
    OBVIOUS
  <2>2. text \in [s : Line, c : Nat] /\ text.c <= Len(text.s) /\ owed \in 0..2 /\ draft \in Line
             /\ written \in Line
    BY <2>1 DEF IInv, EditInv, TextType
  <2>3. /\ hist \in Seq(Line \ {<<>>}) /\ Len(hist) <= HistMax /\ idx \in 0..Len(hist)
        /\ \A i \in 1..Len(hist) - 1 : hist[i] # hist[i + 1]
    BY <2>1 DEF IInv, HistInv, Lines
  <2>4. file \in Seq(Line)
    BY <2>1 DEF IInv, HistInv
  <2>5. ime \in [on : BOOLEAN, py : 0..MaxPinyin, cand : Nat, page : Nat, pages : Nat, sel : 0..PageSize - 1]
    BY <2>1 DEF IInv, ImeGood, ImeType, ImeIn
  <2>6. /\ tab \in [active : BOOLEAN, sel : Nat] /\ reading \in BOOLEAN /\ keys \in 0..MaxKeys
        /\ cut \in BOOLEAN /\ unsaved \in BOOLEAN /\ cap \in Caps
    BY <2>1 DEF IInv, RestType, TabType, DraftFits
  <2>7. QED BY <2>2, <2>3, <2>4, <2>5, <2>6 DEF TypeOK
<1>2. QED BY <1>1, DraftKept, PTL

\* No key tears a character apart (tui_input.c and its loops over continuation
\* bytes, tui_tab_replace, the history's lines), unless it cuts the line to a
\* buffer's size or outgrows its own.
THEOREM NoneIsTorn == Spec => []WholeCharacters
<1>1. IInv => WholeCharacters
  <2>1. SUFFICES ASSUME IInv, ~cut
                 PROVE  /\ reading => LET t == Put(text, Due(owed))
                                      IN WellFormed(t.s)
                                              /\ (t.c = Len(t.s) \/ ~IsCont(t.s[t.c + 1]))
                        /\ WellFormed(draft) /\ \A i \in DOMAIN hist : WellFormed(hist[i])
    BY DEF WholeCharacters, Due
  <2>2. WellFormed(draft) /\ \A i \in DOMAIN hist : WellFormed(hist[i])
    BY <2>1 DEF IInv, EditInv, HistInv, SoundLines, Sound
  <2>3. ASSUME reading
        PROVE  LET t == Put(text, Due(owed))
               IN WellFormed(t.s) /\ (t.c = Len(t.s) \/ ~IsCont(t.s[t.c + 1]))
    <3> DEFINE t == Put(text, Due(owed))
    <3>1. Kept(t)
      BY <2>1, <2>3 DEF IInv, EditInv
    <3> HIDE DEF t
    <3>2. Sound(t.s) /\ Boundary(t.s, t.c)
      BY <3>1, KeptIsWhole DEF Kept
    <3>3. QED BY <3>2 DEF Sound, Boundary, t
  <2>4. QED BY <2>2, <2>3
<1>2. QED BY <1>1, Inductive, PTL

\* The candidates shown are those of the letters shown, and the page is one
\* that they have (tui_ime_refresh and the commits).
THEOREM CandidatesAreShown == Spec => []CandidatesFit
<1>1. IInv => CandidatesFit
  BY DEF IInv, ImeGood, Fits, CandidatesFit
<1>2. QED BY <1>1, Inductive, PTL

\* What was saved is what the next process recalls (tui_cmd_hist_save,
\* tui_cmd_hist_load).
THEOREM SavedIsRecalled == Spec => HistorySurvives
<1>1. IInv /\ [Next]_vars => [Restart => unsaved \/ cut' \/ hist' = hist]_vars
  <2>1. SUFFICES ASSUME IInv, Restart, ~unsaved, ~cut' PROVE hist' = hist
    OBVIOUS
  <2>2. ~cut /\ hist' = file
    BY <2>1, RestartIs
  <2>3. file = hist
    BY <2>1, <2>2 DEF IInv, HistInv
  <2>4. QED BY <2>2, <2>3
<1>2. QED BY <1>1, Inductive, PTL DEF Spec, HistorySurvives

-----------------------------------------------------------------------------
(* What a key leaves of the line *)

\* A line begins with what was joined to its front, and ends with what was
\* joined to its end.
LEMMA BeginsWith ==
  ASSUME NEW a \in Line, NEW b \in Line
  PROVE  IsPrefix(a, a \o b)
<1>1. a \in Seq(Bytes) /\ Len(a) \in Nat /\ Len(b) \in Nat
  BY DEF Line
<1>2. Len(a) <= Len(a \o b) /\ SubSeq(a \o b, 1, Len(a)) = a
  BY <1>1, JoinParts, JoinCut
<1>3. SubSeq(a, 1, Len(a)) = a
  BY <1>1, SubSeqProperties, SeqEqual
<1>4. QED BY <1>2, <1>3 DEF IsPrefix

\* The same of the end, which IsSuffix says of the reversed lines
LEMMA EndsWith ==
  ASSUME NEW a \in Line, NEW b \in Line
  PROVE  IsSuffix(b, a \o b)
<1> DEFINE s == a \o b
           r == Reverse(s)
           q == Reverse(b)
           n == Len(a)
           m == Len(b)
<1>1. /\ n \in Nat /\ m \in Nat /\ s \in Seq(Bytes) /\ b \in Seq(Bytes) /\ Len(s) = n + m
      /\ \A i \in 1..m : s[n + i] = b[i]
  BY JoinParts DEF Line
<1> HIDE DEF s, n, m
<1>2. r = [i \in 1..Len(s) |-> s[(Len(s) - i) + 1]]
           /\ q = [i \in 1..Len(b) |-> b[(Len(b) - i) + 1]] /\ Len(b) = m
  BY DEF Reverse, m
<1> HIDE DEF r, q
<1>3. r \in Seq(Bytes) /\ Len(r) = n + m /\ q \in Seq(Bytes) /\ Len(q) = m
  <2>1. \A i \in 1..Len(s) : s[(Len(s) - i) + 1] \in Bytes
    <3>1. TAKE i \in 1..Len(s)
    <3>2. (Len(s) - i) + 1 \in 1..Len(s)
      BY <1>1
    <3>3. QED BY <1>1, <3>2, ElementOfSeq
  <2>2. \A i \in 1..Len(b) : b[(Len(b) - i) + 1] \in Bytes
    <3>1. TAKE i \in 1..Len(b)
    <3>2. (Len(b) - i) + 1 \in 1..Len(b)
      BY <1>1
    <3>3. QED BY <1>1, <3>2, ElementOfSeq
  <2>3. QED BY <1>1, <1>2, <2>1, <2>2
<1>4. ASSUME NEW i \in 1..m PROVE r[i] = q[i]
  <2>1. i \in 1..Len(s) /\ i \in 1..Len(b) /\ (Len(s) - i) + 1 = n + ((m - i) + 1)
             /\ (m - i) + 1 \in 1..m
    BY <1>1, <1>2
  <2>2. r[i] = s[n + ((m - i) + 1)] /\ q[i] = b[(m - i) + 1]
    BY <1>2, <2>1
  <2>3. QED BY <1>1, <2>1, <2>2
<1>5. SubSeq(q, 1, m) = SubSeq(r, 1, m)
  <2>1. /\ SubSeq(q, 1, m) \in Seq(Bytes) /\ Len(SubSeq(q, 1, m)) = m
        /\ \A i \in 1..m : SubSeq(q, 1, m)[i] = q[i]
    <3>1. 1 \in 1..(Len(q) + 1) /\ m \in 0..Len(q)
      BY <1>1, <1>3
    <3>2. QED BY <1>1, <1>3, <3>1, SubSeqProperties
  <2>2. /\ SubSeq(r, 1, m) \in Seq(Bytes) /\ Len(SubSeq(r, 1, m)) = m
        /\ \A i \in 1..m : SubSeq(r, 1, m)[i] = r[i]
    <3>1. 1 \in 1..(Len(r) + 1) /\ m \in 0..Len(r)
      BY <1>1, <1>3
    <3>2. QED BY <1>1, <1>3, <3>1, SubSeqProperties
  <2>3. \A i \in 1..m : SubSeq(q, 1, m)[i] = SubSeq(r, 1, m)[i]
    BY <1>4, <2>1, <2>2
  <2>4. QED BY <2>1, <2>2, <2>3, SeqEqual
<1>6. IsPrefix(q, r)
  <2>1. Len(q) = m /\ Len(q) <= Len(r)
    BY <1>1, <1>3
  <2>2. QED BY <1>5, <2>1 DEF IsPrefix
<1>7. QED BY <1>6 DEF IsSuffix, r, q, s

\* What is appended stands between what was before the caret and after it.
LEMMA PutEnds ==
  ASSUME NEW t, TextType(t), NEW x \in Line, NEW y \in Line
  PROVE  /\ IsPrefix(Before(t) \o x, Put(t, x \o y).s) /\ IsSuffix(After(t), Put(t, x \o y).s)
         /\ IsPrefix(Before(t) \o x, Put(t, x).s) /\ IsSuffix(After(t), Put(t, x).s)
<1> DEFINE a == Before(t)
           d == After(t)
<1>1. a \in Line /\ d \in Line /\ x \o y \in Line
  BY Parts, JoinParts
<1>2. Put(t, x \o y).s = (a \o (x \o y)) \o d /\ Put(t, x).s = (a \o x) \o d
  BY <1>1, PutParts
<1> HIDE DEF a, d
<1>3. a \o x \in Line /\ y \o d \in Line /\ a \o (x \o y) \in Line
  BY <1>1, JoinParts
<1>4. (a \o (x \o y)) \o d = (a \o x) \o (y \o d)
  <2>1. a \o (x \o y) = (a \o x) \o y
    BY <1>1, JoinOrder
  <2>2. ((a \o x) \o y) \o d = (a \o x) \o (y \o d)
    <3> DEFINE l == a \o x
    <3>1. l \in Line
      BY <1>3
    <3> HIDE DEF l
    <3>2. (l \o y) \o d = l \o (y \o d)
      BY <1>1, <3>1, JoinOrder
    <3>3. QED BY <3>2 DEF l
  <2>3. QED BY <2>1, <2>2
<1>5. /\ IsPrefix(a \o x, (a \o x) \o (y \o d)) /\ IsPrefix(a \o x, (a \o x) \o d)
      /\ IsSuffix(d, (a \o (x \o y)) \o d) /\ IsSuffix(d, (a \o x) \o d)
  BY <1>1, <1>3, BeginsWith, EndsWith
<1>6. QED BY <1>2, <1>4, <1>5 DEF a, d

\* What a completion leaves
TabLeaves(t, u) == /\ IsPrefix(SubSeq(t.s, 1, TokenStart(t)), u.s)
                   /\ \E end \in {<<>>, <<" ">>} : IsSuffix(After(t) \o end, u.s)

\* A candidate in the place of the word leaves the rest.
LEMMA PickedLeaves ==
  ASSUME NEW t, TextType(t), NEW x \in Line
  PROVE  TabLeaves(t, Picked(t, x)) /\ TabLeaves(t, AtEnd(Append(Picked(t, x).s, " ")))
<1> DEFINE a == SubSeq(t.s, 1, TokenStart(t))
           d == After(t)
           e == <<>>
           bl == <<" ">>
           u == Picked(t, x)
           v == AtEnd(Append(u.s, " "))
<1>1. a \in Line /\ d \in Line /\ e \in Line /\ bl \in Line /\ " " \in Bytes
  BY PickedParts, Parts, ShortLines DEF Bytes
<1>2. u.s = (a \o x) \o d
  BY PickedParts
<1>3. v.s = Append(u.s, " ")
  BY DEF AtEnd
<1> HIDE DEF a, d, e, bl, u, v
<1> DEFINE ax == a \o x
           xd == x \o d
           db == d \o bl
<1>4. ax \in Line /\ xd \in Line /\ db \in Line
  BY <1>1, JoinParts
<1>5. ax \o d = a \o xd
  BY <1>1, JoinOrder
<1>6. u.s = ax \o d
  BY <1>2
<1> HIDE DEF ax, xd
<1>7. (ax \o d) \o bl = ax \o db
  <2>1. ax \in Line /\ d \in Line /\ bl \in Line
    BY <1>1, <1>4
  <2>2. QED BY <2>1, JoinOrder
<1>8. (a \o xd) \o bl = a \o (xd \o bl)
  <2>1. a \in Line /\ xd \in Line /\ bl \in Line
    BY <1>1, <1>4
  <2>2. QED BY <2>1, JoinOrder
<1>9. u.s \in Line /\ xd \o bl \in Line
  <2>1. ax \o d \in Line /\ xd \o bl \in Line
    BY <1>1, <1>4, JoinParts
  <2>2. QED BY <1>6, <2>1
<1>10. v.s = u.s \o bl
  <2>1. u.s \in Seq(Bytes)
    BY <1>9 DEF Line
  <2>2. QED BY <1>1, <1>3, <2>1, AppendIsConcat DEF bl
<1>11. d \o e = d
  BY <1>1, JoinEmpty DEF e
<1>12. TabLeaves(t, u)
  <2>1. IsPrefix(a, u.s)
    BY <1>1, <1>4, <1>5, <1>6, BeginsWith
  <2>2. IsSuffix(d \o e, u.s)
    BY <1>1, <1>4, <1>6, <1>11, EndsWith
  <2>3. QED BY <2>1, <2>2 DEF TabLeaves, a, d, e
<1>13. TabLeaves(t, v)
  <2>1. v.s = ax \o db /\ v.s = a \o (xd \o bl)
    BY <1>5, <1>6, <1>7, <1>8, <1>10
  <2>2. IsPrefix(a, v.s)
    BY <1>1, <1>9, <2>1, BeginsWith
  <2>3. IsSuffix(db, v.s)
    BY <1>4, <2>1, EndsWith
  <2>4. QED BY <2>2, <2>3 DEF TabLeaves, a, d, bl
<1>14. QED BY <1>12, <1>13 DEF u, v

\* Without a candidate all is left.
LEMMA SameLeaves == ASSUME NEW t, TextType(t) PROVE TabLeaves(t, t)
<1> DEFINE e == <<>>
           a == SubSeq(t.s, 1, TokenStart(t))
           b == SubSeq(t.s, TokenStart(t) + 1, Len(t.s))
           d == After(t)
           n == TokenStart(t)
<1>1. /\ t.s \in Line /\ Len(t.s) \in Nat /\ t.c \in Nat /\ t.c <= Len(t.s) /\ d \in Line
      /\ Before(t) \in Line /\ t.s = Before(t) \o d
  BY Parts
<1>2. TokenStart(t) \in 0..Len(t.s)
  <2>1. n \in 0..t.c
    BY TokenStartIs
  <2> HIDE DEF n
  <2>2. n \in 0..Len(t.s)
    BY <1>1, <2>1, Within
  <2>3. QED BY <2>2 DEF n
<1>3. a \in Line /\ b \in Line /\ t.s = a \o b
  BY <1>1, <1>2, CutParts
<1>4. d \o e = d
  BY <1>1, JoinEmpty
<1> HIDE DEF a, b, d, e
<1>5. IsPrefix(a, t.s)
  BY <1>3, BeginsWith
<1>6. IsSuffix(d, t.s)
  BY <1>1, EndsWith
<1>7. QED BY <1>4, <1>5, <1>6 DEF TabLeaves, a, d, e

\* A completion changes the word before the caret and nothing else, unless the
\* line outgrows its buffer; and only a completion within the line, not at its
\* end, lets it (tui_tab_replace, tui_tab_space, tui_input_append,
\* tui_cmd_hist_apply, rd_draft).
THEOREM OnlyTheWordChanges == Spec => TabKeepsTheRest
<1> DEFINE P == /\ Overrun' => Tab /\ text.c < Len(text.s)
                /\ Tab => Overrun' \/ TabLeaves(text, text')
<1>1. IInv /\ DraftFits /\ Next => P
  <2>1. SUFFICES ASSUME IInv, DraftFits, Next PROVE P
    OBVIOUS
  <2>2. Overrun' => Tab /\ text.c < Len(text.s)
    BY <2>1, BufferStep
  <2>3. ASSUME Tab PROVE TabLeaves(text, text')
    <3>1. TextType(text)
      BY <2>1, EditFacts
    <3>2. text' = text \/ \E x : Sound(x) /\ Completes(x)
      BY <2>1, <2>3, TabIs
    <3>3. CASE text' = text
      BY <3>1, <3>3, SameLeaves
    <3>4. CASE \E x : Sound(x) /\ Completes(x)
      BY <3>1, <3>4, PickedLeaves DEF Sound, Completes
    <3>5. QED BY <3>2, <3>3, <3>4
  <2>4. QED BY <2>2, <2>3
<1>2. IInv /\ DraftFits /\ [Next]_vars =>
        [/\ Overrun' => Tab /\ text.c < Len(text.s)
         /\ Tab => \/ Overrun'
                   \/ /\ IsPrefix(SubSeq(text.s, 1, TokenStart(text)), text'.s)
                      /\ \E end \in {<<>>, <<" ">>} : IsSuffix(After(text) \o end, text'.s)]_vars
  BY <1>1 DEF TabLeaves
<1>3. QED BY <1>2, DraftKept, PTL DEF Spec, TabKeepsTheRest

-----------------------------------------------------------------------------
(* Where the letters of the pinyin go *)

\* They are given to the line, or submitted with it.
Given == /\ reading'
         /\ \E bs \in {[n \in 1..ime.py |-> Letter], Wide} :
               IsPrefix(Before(text) \o bs, text'.s) /\ IsSuffix(After(text), text'.s)
Submitted == /\ ~reading' /\ hist' # <<>>
             /\ \E n \in {ime.py, Len(Wide)} : Len(Last(hist')) = Min({BufMax, Len(text.s) + n})

\* A commit gives the letters or a candidate to the line.
LEMMA CommitGives ==
  ASSUME IInv, NEW bs, NEW i, Commit(bs, i), bs \in {Raw, Wide, Append(Raw, ",")}
  PROVE  Given
<1>1. reading' /\ text' = Put(text, bs)
  BY DEF Commit, Pinyin, Editing, Key, Reading, Stay, Insert
<1>2. TextType(text) /\ ImeGood(ime)
  BY EditFacts
<1> DEFINE y == <<",">>
           r == Raw
           w == Wide
<1>3. r \in Line /\ w \in Line /\ y \in Line /\ Append(Raw, ",") = r \o y
  BY <1>2, GivenIsSound DEF Sound
<1>4. r = [n \in 1..ime.py |-> Letter]
  BY DEF Raw
<1> HIDE DEF y, r, w
<1>5. /\ IsPrefix(Before(text) \o r, Put(text, r).s) /\ IsSuffix(After(text), Put(text, r).s)
      /\ IsPrefix(Before(text) \o w, Put(text, w).s) /\ IsSuffix(After(text), Put(text, w).s)
      /\ IsPrefix(Before(text) \o r, Put(text, r \o y).s)
           /\ IsSuffix(After(text), Put(text, r \o y).s)
  BY <1>2, <1>3, PutEnds
<1>6. CASE bs = r
  BY <1>1, <1>4, <1>5, <1>6 DEF Given
<1>7. CASE bs = w
  BY <1>1, <1>5, <1>7 DEF Given, w
<1>8. CASE bs = r \o y
  BY <1>1, <1>3, <1>4, <1>5, <1>8 DEF Given
<1>9. QED BY <1>3, <1>6, <1>7, <1>8 DEF r, w

\* A byte that is not the pinyin's gives the letters to the line before it.
LEMMA ByteGives ==
  ASSUME IInv, NEW b \in Bytes, Byte(b), ime.on
  PROVE  Given
<1>1. reading' /\ text' = Put(text, Append(Raw, b))
  <2>1. IF b = "C" THEN Reading /\ UNCHANGED keys ELSE Key
    BY DEF Byte
  <2>2. reading
    BY <2>1 DEF Key, Reading
  <2>3. Stay /\ text' = Put(text, Append(Raw, b))
    BY DEF Byte, Insert
  <2>4. QED BY <2>2, <2>3 DEF Stay
<1>2. TextType(text) /\ ImeGood(ime)
  BY EditFacts
<1> DEFINE y == <<b>>
           r == Raw
<1>3. r \in Line /\ y \in Line
  BY <1>2, RawIsSound, ShortLines DEF Sound
<1>4. Append(r, b) = r \o y
  BY <1>3, AppendIsConcat DEF Line
<1>5. r = [n \in 1..ime.py |-> Letter]
  BY DEF Raw
<1>6. text' = Put(text, r \o y)
  BY <1>1, <1>4
<1> HIDE DEF y, r
<1>7. IsPrefix(Before(text) \o r, Put(text, r \o y).s) /\ IsSuffix(After(text), Put(text, r \o y).s)
  BY <1>2, <1>3, PutEnds
<1>8. QED BY <1>1, <1>5, <1>6, <1>7 DEF Given

\* Enter submits the letters or a candidate with the line.
LEMMA EnterSubmits ==
  ASSUME IInv, Enter, ime.py > 0
  PROVE  Submitted
<1>1. ImeGood(ime) /\ ime.on /\ ime.py \in Nat
  BY EditFacts, ImeParts
<1>2. PICK bs, got : /\ bs \in Line /\ got \in Line /\ (ime.on => bs \in {Raw, Wide})
                     /\ hist' = Push(hist, got) /\ Len(text.s) \in Nat /\ Len(bs) \in Nat
                     /\ Len(got) = Min({BufMax, Len(text.s) + Len(bs)})
  BY EnterIs
<1>3. Len(Raw) = ime.py /\ Len(Wide) = 3 /\ Len(bs) \in {ime.py, Len(Wide)} /\ Len(bs) >= 1
  <2>1. Len(Raw) = ime.py /\ Len(Wide) = 3
    BY <1>1, RawIsSound, SoundBytes
  <2>2. bs = Raw \/ bs = Wide
    BY <1>1, <1>2
  <2>3. CASE bs = Raw
    BY <1>1, <2>1, <2>3
  <2>4. CASE bs = Wide
    <3>1. Len(bs) = Len(Wide) /\ Len(Wide) = 3
      BY <2>1, <2>4
    <3>2. QED BY <2>1, <3>1
  <2>5. QED BY <2>1, <2>2, <2>3, <2>4
<1>4. got # <<>>
  <2> DEFINE m == Len(text.s) + Len(bs)
  <2>1. m \in Nat /\ m >= 1
    BY <1>2, <1>3
  <2> HIDE DEF m
  <2>2. Min({BufMax, m}) >= 1
    BY <2>1, LimitsType, MinOfTwo
  <2>3. Len(got) >= 1
    BY <1>2, <2>2 DEF m
  <2> DEFINE e == <<>>
  <2>4. Len(e) = 0
    OBVIOUS
  <2> HIDE DEF e
  <2>5. got # e
    BY <2>3, <2>4
  <2>6. QED BY <2>5 DEF e
<1>5. Lines(hist)
  BY EditFacts
<1>6. hist' # <<>> /\ Last(hist') = got
  BY <1>2, <1>4, <1>5, PushIs DEF Last
<1>7. ~reading'
  BY DEF Enter
<1>8. QED BY <1>2, <1>3, <1>6, <1>7 DEF Submitted

\* The keys of the pinyin that take no letter from it, and those that give them
LEMMA ImeKeyGives ==
  ASSUME IInv, ImeKey, ime.py > 0, ime'.py < ime.py
  PROVE  ImeEsc \/ ImeBack \/ Given
<1>1. ImeGood(ime) /\ ime.py \in 0..MaxPinyin /\ ime.py \in Nat /\ MaxPinyin \in Nat
           /\ ime.sel \in 0..PageSize - 1
  BY EditFacts, ImeParts, FoundType
<1>2. CASE ImeLetter
  <2>1. ime.on
    BY <1>2 DEF ImeLetter, ImeOnly
  <2>2. CASE ime.py < MaxPinyin
    <3>1. ime.py + 1 \in 0..MaxPinyin
      BY <1>1, <2>2
    <3>2. ime'.py = ime.py + 1
      BY <1>1, <1>2, <2>1, <2>2, <3>1, RefreshedIsGood DEF ImeLetter, ImeOnly
    <3>3. QED BY <1>1, <3>2
  <2>3. CASE ~(ime.py < MaxPinyin)
    <3>1. ime' = ime
      BY <1>2, <2>3 DEF ImeLetter, ImeOnly
    <3>2. QED BY <1>1, <3>1
  <2>4. QED BY <2>2, <2>3
<1>3. CASE ImeSpace
  <2> DEFINE bs == IF Shown(ime) < ime.cand THEN Wide ELSE Raw
  <2>1. bs \in {Raw, Wide, Append(Raw, ",")}
    OBVIOUS
  <2>2. Commit(bs, Spent(ime))
    BY <1>3 DEF ImeSpace
  <2> HIDE DEF bs
  <2>3. QED BY <2>1, <2>2, CommitGives
<1>4. ASSUME NEW s \in 0..PageSize - 1, ime' = [ime EXCEPT !.sel = s] PROVE FALSE
  <2>1. ime'.py = ime.py
    BY <1>1, <1>4, HighlightIsGood
  <2>2. QED BY <1>1, <2>1
<1>5. CASE ImeLeft
  <2> DEFINE s == IF OnPage > 0 /\ ime.sel > 0 THEN ime.sel - 1 ELSE ime.sel
  <2>1. s \in 0..PageSize - 1
    BY <1>1, LimitsType
  <2>2. ime' = [ime EXCEPT !.sel = s]
    BY <1>5 DEF ImeLeft, ImeOnly
  <2> HIDE DEF s
  <2>3. QED BY <1>4, <2>1, <2>2
<1>6. CASE ImeRight
  <2> DEFINE s == IF ime.sel + 1 < OnPage THEN ime.sel + 1 ELSE ime.sel
  <2>1. s \in 0..PageSize - 1
    <3>1. OnPage \in Nat /\ OnPage <= PageSize
      BY <1>1, OnPageIs
    <3>2. QED BY <1>1, <3>1, LimitsType
  <2>2. ime' = [ime EXCEPT !.sel = s]
    BY <1>6 DEF ImeRight, ImeOnly
  <2> HIDE DEF s
  <2>3. QED BY <1>4, <2>1, <2>2
<1>7. CASE \E k \in 1..PageSize : ImeDigit(k)
  <2>1. Commit(Wide, Spent(ime)) \/ ImeOnly(ime)
    BY <1>7 DEF ImeDigit
  <2>2. CASE Commit(Wide, Spent(ime))
    BY <2>2, CommitGives
  <2>3. CASE ImeOnly(ime)
    <3>1. ime' = ime
      BY <2>3 DEF ImeOnly
    <3>2. QED BY <1>1, <3>1
  <2>4. QED BY <2>1, <2>2, <2>3
<1>8. ASSUME NEW up \in BOOLEAN, ImeFlip(up) PROVE FALSE
  <2>1. ime' = Flipped(ime, up) /\ Flipped(ime, up).py = ime.py
    BY <1>1, <1>8, FlippedIsGood DEF ImeFlip, ImeOnly
  <2>2. QED BY <1>1, <2>1
<1>9. ASSUME NEW up \in BOOLEAN, ImeSign(up) PROVE Given
  <2>1. ImeFlip(up) \/ Commit(Append(Raw, ","), Off(Spent(ime)))
    BY <1>9 DEF ImeSign
  <2>2. QED BY <1>8, <2>1, CommitGives
<1>10. QED BY <1>2, <1>3, <1>5, <1>6, <1>7, <1>8, <1>9 DEF ImeKey

\* Letters leave the pinyin for the line or the submitted text, but for Esc and
\* the backspace (tui_ime_commit_raw, tui_ime_commit_cand).
THEOREM LettersAreKept == Spec => PinyinIsKept
<1> DEFINE P == ime.py > 0 /\ ime'.py < ime.py => ImeEsc \/ ImeBack \/ Restart \/ Given \/ Submitted
<1>1. IInv /\ Next => P
  <2>1. SUFFICES ASSUME IInv, Next, ime.py > 0, ime'.py < ime.py
                 PROVE  ImeEsc \/ ImeBack \/ Restart \/ Given \/ Submitted
    OBVIOUS
  <2>2. ImeGood(ime) /\ ime.on /\ ime.py \in Nat /\ ime' # ime
    BY <2>1, EditFacts, ImeParts
  <2>3. CASE Begin \/ Abort \/ Eof \/ Backspace \/ Left \/ Right \/ Up \/ Down \/ Tab
    BY <2>2, <2>3 DEF Begin, Abort, Eof, Backspace, Left, Right, Caret, Up, Down, Tab, edit
  <2>4. CASE CtrlA \/ CtrlE \/ CtrlU \/ CtrlK \/ CtrlC \/ CtrlD
    BY <2>2, <2>4 DEF CtrlA, CtrlE, CtrlU, CtrlK, CtrlC, CtrlD, Caret, Edited
  <2>5. CASE Enter
    BY <2>1, <2>5, EnterSubmits
  <2>6. CASE \E b \in Bytes \ {"b"} : Byte(b)
    BY <2>1, <2>2, <2>6, ByteGives
  <2>7. CASE Toggle
    <3>1. Commit(Raw, SwitchedOff(ime))
      <4>1. Pinyin /\ Room(ime.py) /\ ime' = SwitchedOff(ime) /\ Insert(Raw)
        BY <2>2, <2>7 DEF Toggle
      <4>2. Room(Len(Raw))
        BY <2>2, <4>1, RawIsSound
      <4>3. QED BY <2>2, <4>1, <4>2 DEF Commit
    <3>2. QED BY <2>1, <3>1, CommitGives
  <2>8. CASE ImeKey
    BY <2>1, <2>8, ImeKeyGives
  <2>9. CASE Restart
    BY <2>9
  <2>10. QED BY <2>1, <2>3, <2>4, <2>5, <2>6, <2>7, <2>8, <2>9 DEF Next
<1>2. IInv /\ [Next]_vars =>
        [ime.py > 0 /\ ime'.py < ime.py =>
           \/ ImeEsc \/ ImeBack \/ Restart
           \/ reading'
                /\ \E bs \in {[n \in 1..ime.py |-> Letter], Wide} :
                        IsPrefix(Before(text) \o bs, text'.s) /\ IsSuffix(After(text), text'.s)
           \/ /\ ~reading' /\ hist' # <<>>
              /\ \E n \in {ime.py, Len(Wide)} : Len(Last(hist')) = Min({BufMax, Len(text.s) + n})]_vars
  BY <1>1 DEF Given, Submitted
<1>3. QED BY <1>2, Inductive, PTL DEF Spec, PinyinIsKept
=============================================================================
