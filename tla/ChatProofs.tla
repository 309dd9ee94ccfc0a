----------------------------- MODULE ChatProofs -----------------------------
(* Theorems about Chat, for any texts, rounds, shelves and ways to cut a reply *)
(* into chunks.                                                                *)
EXTENDS Chat, Sums, SequenceTheorems

Char == {"<", "/", "|", "D", "M", "x"}

----------------------------------------------------------------------------
(* What markers and their beginnings look like, place by place *)

Word(w) == IF w = 0 THEN <<>> ELSE IF w = 1 THEN <<"D">> ELSE <<"D", "M">>

\* "<", sl slashes, n bars, and w tokens of the word.
TagShape(s, sl, n, w) ==
    /\ Len(s) = 1 + sl + n + w
    /\ s[1] = "<"
    /\ sl = 1 => s[2] = "/"
    /\ \A k \in 2 + sl .. 1 + sl + n : s[k] = "|"
    /\ w >= 1 => s[2 + sl + n] = "D"
    /\ w = 2 => s[3 + sl + n] = "M"

\* Tags, for one word, are the sequences of that shape.
LEMMA TagIff ==
    ASSUME NEW s \in Seq(Char), NEW n \in Nat, NEW w \in 0 .. 2
    PROVE  s \in Tags(n, {Word(w)}) <=> \E sl \in {0, 1} : TagShape(s, sl, n, w)
<1>1. /\ Bars(n) \in Seq(Char) /\ Len(Bars(n)) = n /\ \A k \in 1 .. n : Bars(n)[k] = "|"
      /\ Word(w) \in Seq(Char) /\ Len(Word(w)) = w
      /\ (w >= 1 => Word(w)[1] = "D") /\ (w = 2 => Word(w)[2] = "M")
  <2>1. Bars(n) \in Seq(Char) /\ Len(Bars(n)) = n /\ \A k \in 1 .. n : Bars(n)[k] = "|"
    BY DEF Bars, Char
  <2>2. CASE w = 0
    BY <2>1, <2>2 DEF Word, Char
  <2>3. CASE w = 1
    BY <2>1, <2>3 DEF Word, Char
  <2>4. CASE w = 2
    BY <2>1, <2>4 DEF Word, Char
  <2> QED BY <2>2, <2>3, <2>4
<1>2. PICK B, W : B = Bars(n) /\ W = Word(w)
  OBVIOUS
<1>3. ASSUME NEW slash \in Seq(Char), NEW sl \in {0, 1}, Len(slash) = sl, sl = 1 => slash[1] = "/"
      PROVE  /\ Tag(slash, n, Word(w)) \in Seq(Char) /\ TagShape(Tag(slash, n, Word(w)), sl, n, w)
             /\ TagShape(s, sl, n, w) => s = Tag(slash, n, Word(w))
  <2>1. PICK A : A = <<"<">> \o slash
    OBVIOUS
  <2>2. A \in Seq(Char) /\ Len(A) = 1 + sl /\ A[1] = "<" /\ (sl = 1 => A[2] = "/")
    BY <1>3, <2>1 DEF Char
  <2>3. PICK C : C = A \o B
    OBVIOUS
  <2>4. /\ B \in Seq(Char) /\ Len(B) = n /\ \A k \in 1 .. n : B[k] = "|"
        /\ W \in Seq(Char) /\ Len(W) = w /\ (w >= 1 => W[1] = "D") /\ (w = 2 => W[2] = "M")
    BY <1>1, <1>2
  <2>5. /\ C \in Seq(Char) /\ Len(C) = 1 + sl + n
        /\ \A k \in 1 .. 1 + sl : C[k] = A[k]
        /\ \A k \in 2 + sl .. 1 + sl + n : C[k] = "|"
    BY <2>2, <2>3, <2>4
  <2>6. PICK T : T = C \o W
    OBVIOUS
  <2>7. /\ T \in Seq(Char) /\ Len(T) = 1 + sl + n + w
        /\ \A k \in 1 .. 1 + sl + n : T[k] = C[k]
        /\ \A k \in 1 .. w : T[1 + sl + n + k] = W[k]
    BY <2>4, <2>5, <2>6
  <2>8. T[1] = "<" /\ (sl = 1 => T[2] = "/") /\ \A k \in 2 + sl .. 1 + sl + n : T[k] = "|"
    BY <2>2, <2>5, <2>7
  <2>9. (w >= 1 => T[2 + sl + n] = "D") /\ (w = 2 => T[3 + sl + n] = "M")
    BY <2>4, <2>7
  <2>10. TagShape(T, sl, n, w)
    BY <2>7, <2>8, <2>9 DEF TagShape
  <2>11. ASSUME TagShape(s, sl, n, w) PROVE s = T
    <3>1. Len(s) = Len(T)
      BY <2>7, <2>11 DEF TagShape
    <3>2. ASSUME NEW k \in 1 .. Len(s) PROVE s[k] = T[k]
      <4>1. CASE k \in 2 + sl .. 1 + sl + n
        BY <2>8, <2>11, <4>1 DEF TagShape
      <4>2. CASE k \in 1 .. 1 + sl
        BY <2>8, <2>11, <4>2 DEF TagShape
      <4>3. CASE k > 1 + sl + n
        BY <2>7, <2>9, <2>11, <3>1, <4>3 DEF TagShape
      <4> QED BY <4>1, <4>2, <4>3
    <3> QED BY <2>7, <3>1, <3>2, SeqEqual
  <2>12. T = Tag(slash, n, Word(w))
    BY <1>2, <2>1, <2>3, <2>6 DEF Tag
  <2> QED BY <2>7, <2>10, <2>11, <2>12
<1>4. <<>> \in Seq(Char) /\ Len(<<>>) = 0 /\ <<"/">> \in Seq(Char) /\ Len(<<"/">>) = 1 /\ <<"/">>[1] = "/"
  BY DEF Char
<1>5. s \in Tags(n, {Word(w)}) <=> s = Tag(<<>>, n, Word(w)) \/ s = Tag(<<"/">>, n, Word(w))
  BY DEF Tags
<1>6. /\ TagShape(Tag(<<>>, n, Word(w)), 0, n, w) /\ (TagShape(s, 0, n, w) => s = Tag(<<>>, n, Word(w)))
      /\ TagShape(Tag(<<"/">>, n, Word(w)), 1, n, w) /\ (TagShape(s, 1, n, w) => s = Tag(<<"/">>, n, Word(w)))
  <2> HIDE DEF Tag
  <2>1. PICK e, b : e = <<>> /\ b = <<"/">>
    OBVIOUS
  <2>2. e \in Seq(Char) /\ Len(e) = 0 /\ b \in Seq(Char) /\ Len(b) = 1 /\ b[1] = "/"
    BY <1>4, <2>1
  <2>3. TagShape(Tag(e, n, Word(w)), 0, n, w) /\ (TagShape(s, 0, n, w) => s = Tag(e, n, Word(w)))
    <3>1. 0 \in {0, 1} /\ (0 = 1 => e[1] = "/")
      OBVIOUS
    <3> QED BY <1>3, <2>2, <3>1
  <2>4. TagShape(Tag(b, n, Word(w)), 1, n, w) /\ (TagShape(s, 1, n, w) => s = Tag(b, n, Word(w)))
    BY <1>3, <2>2
  <2> QED BY <2>1, <2>3, <2>4
<1> QED BY <1>5, <1>6

\* Markers and their beginnings, by shape.
LEMMA MarkerIff ==
    ASSUME NEW s \in Seq(Char)
    PROVE  /\ IsMarker(s) <=> \E n \in 1 .. Len(s), sl \in {0, 1} : TagShape(s, sl, n, 2)
           /\ IsPartial(s) <=> \E sl \in {0, 1} :
                  \/ TagShape(s, sl, 0, 0)
                  \/ \E n \in 1 .. Len(s), w \in {0, 1} : TagShape(s, sl, n, w)
<1>1. Word(0) = <<>> /\ Word(1) = <<"D">> /\ Word(2) = <<"D", "M">>
  BY DEF Word
<1>2. \A n : Tags(n, {<<>>, <<"D">>}) = Tags(n, {<<>>}) \cup Tags(n, {<<"D">>})
  BY DEF Tags
<1>3. 0 \in 0 .. 2 /\ 1 \in 0 .. 2 /\ 2 \in 0 .. 2 /\ 0 \in Nat /\ \A n \in 1 .. Len(s) : n \in Nat
  OBVIOUS
<1>4. \A n \in 1 .. Len(s) :
         /\ s \in Tags(n, {<<>>}) <=> \E sl \in {0, 1} : TagShape(s, sl, n, 0)
         /\ s \in Tags(n, {<<"D">>}) <=> \E sl \in {0, 1} : TagShape(s, sl, n, 1)
         /\ s \in Tags(n, {<<"D", "M">>}) <=> \E sl \in {0, 1} : TagShape(s, sl, n, 2)
  BY <1>1, <1>3, TagIff
<1>5. s \in Tags(0, {<<>>}) <=> \E sl \in {0, 1} : TagShape(s, sl, 0, 0)
  BY <1>1, <1>3, TagIff
<1>6. IsMarker(s) <=> \E n \in 1 .. Len(s), sl \in {0, 1} : TagShape(s, sl, n, 2)
  BY <1>4 DEF IsMarker
<1>7. IsPartial(s) <=> \E sl \in {0, 1} :
                  \/ TagShape(s, sl, 0, 0)
                  \/ \E n \in 1 .. Len(s), w \in {0, 1} : TagShape(s, sl, n, w)
  <2>1. IsPartial(s) <=> \/ s \in Tags(0, {<<>>})
                         \/ \E n \in 1 .. Len(s) : s \in Tags(n, {<<>>}) \/ s \in Tags(n, {<<"D">>})
    BY <1>2 DEF IsPartial
  <2> QED BY <1>4, <1>5, <2>1
<1> QED BY <1>6, <1>7
\* A marker and a beginning of one have a single "<", in front.
LEMMA OneBracket ==
    ASSUME NEW s \in Seq(Char), IsMarker(s) \/ IsPartial(s)
    PROVE  Len(s) >= 1 /\ s[1] = "<" /\ \A k \in 2 .. Len(s) : s[k] # "<"
<1>1. PICK sl \in {0, 1}, n \in Nat, w \in 0 .. 2 : TagShape(s, sl, n, w)
  <2>1. 0 \in Nat /\ 0 \in 0 .. 2 /\ 1 \in 0 .. 2 /\ 2 \in 0 .. 2 /\ \A n \in 1 .. Len(s) : n \in Nat
    OBVIOUS
  <2> QED BY <2>1, MarkerIff
<1>2. ASSUME NEW k \in 2 .. Len(s) PROVE s[k] # "<"
  <2>1. Len(s) = 1 + sl + n + w
    BY <1>1 DEF TagShape
  <2>2. CASE k \in 2 + sl .. 1 + sl + n
    BY <1>1, <2>2 DEF TagShape
  <2>3. CASE sl = 1 /\ k = 2
    BY <1>1, <2>3 DEF TagShape
  <2>4. CASE w >= 1 /\ k = 2 + sl + n
    BY <1>1, <2>4 DEF TagShape
  <2>5. CASE w = 2 /\ k = 3 + sl + n
    BY <1>1, <2>5 DEF TagShape
  <2> QED BY <2>1, <2>2, <2>3, <2>4, <2>5
<1>3. Len(s) >= 1 /\ s[1] = "<"
  BY <1>1 DEF TagShape
<1> QED BY <1>2, <1>3

\* What a marker or its beginning begins with may still grow into a marker.
LEMMA PrefixIsPartial ==
    ASSUME NEW s \in Seq(Char), NEW k \in 1 .. Len(s), (IsMarker(s) /\ k < Len(s)) \/ IsPartial(s)
    PROVE  IsPartial(SubSeq(s, 1, k))
<1> PICK p : p = SubSeq(s, 1, k)
  OBVIOUS
<1>1. p \in Seq(Char) /\ Len(p) = k /\ \A i \in 1 .. k : p[i] = s[i]
  OBVIOUS
<1>2. PICK sl \in {0, 1}, n \in Nat, w \in 0 .. 2 :
         TagShape(s, sl, n, w) /\ (w >= 1 => n >= 1) /\ (w = 2 => k < Len(s))
  <2>1. CASE IsMarker(s) /\ k < Len(s)
    <3>1. PICK n \in 1 .. Len(s), sl \in {0, 1} : TagShape(s, sl, n, 2)
      BY <2>1, MarkerIff
    <3> QED BY <2>1, <3>1
  <2>2. CASE IsPartial(s)
    <3>1. PICK sl \in {0, 1} : \/ TagShape(s, sl, 0, 0)
                               \/ \E n \in 1 .. Len(s), w \in {0, 1} : TagShape(s, sl, n, w)
      BY <2>2, MarkerIff
    <3>2. CASE TagShape(s, sl, 0, 0)
      BY <3>2
    <3>3. CASE \E n \in 1 .. Len(s), w \in {0, 1} : TagShape(s, sl, n, w)
      <4>1. PICK n \in 1 .. Len(s), w \in {0, 1} : TagShape(s, sl, n, w)
        BY <3>3
      <4>2. n \in Nat /\ w \in 0 .. 2 /\ n >= 1 /\ w # 2
        OBVIOUS
      <4> QED BY <4>1, <4>2
    <3> QED BY <3>1, <3>2, <3>3
  <2> QED BY <2>1, <2>2
<1>3. Len(s) = 1 + sl + n + w
  BY <1>2 DEF TagShape
<1>4. CASE k = 1
  <2>1. TagShape(p, 0, 0, 0)
    BY <1>1, <1>2, <1>4 DEF TagShape
  <2> QED BY <1>1, <2>1, MarkerIff
<1>5. CASE sl = 1 /\ k = 2
  <2>1. TagShape(p, 1, 0, 0)
    BY <1>1, <1>2, <1>5 DEF TagShape
  <2> QED BY <1>1, <2>1, MarkerIff
<1>6. CASE k \in 2 + sl .. 1 + sl + n
  <2>1. k - 1 - sl \in 1 .. Len(p) /\ k - 1 - sl \in 0 .. n
    BY <1>1, <1>6
  <2>2. TagShape(p, sl, k - 1 - sl, 0)
    BY <1>1, <1>2, <1>6, <2>1 DEF TagShape
  <2> QED BY <1>1, <2>1, <2>2, MarkerIff
<1>7. CASE w >= 1 /\ k = 2 + sl + n
  <2>1. n \in 1 .. Len(p)
    BY <1>1, <1>2, <1>7
  <2>2. TagShape(p, sl, n, 1)
    BY <1>1, <1>2, <1>7, <2>1 DEF TagShape
  <2> QED BY <1>1, <2>1, <2>2, MarkerIff
<1> QED BY <1>2, <1>3, <1>4, <1>5, <1>6, <1>7

----------------------------------------------------------------------------
(* Where markers start, in a text and in one that goes on *)

\* Where a marker may be growing.
Growing(s) == {i \in DOMAIN s : s[i] = "<" /\ IsPartial(SubSeq(s, i, Len(s)))}

\* A cut-out of a sequence, place by place.
LEMMA CutIs ==
    ASSUME NEW S, NEW s \in Seq(S), NEW i \in 1 .. Len(s), NEW j \in Nat, i <= j, j <= Len(s)
    PROVE  /\ SubSeq(s, i, j) \in Seq(S) /\ Len(SubSeq(s, i, j)) = j - i + 1
           /\ \A k \in 1 .. j - i + 1 : SubSeq(s, i, j)[k] = s[i + k - 1]
  OBVIOUS

\* The beginning of a sequence.
LEMMA PrefixIs ==
    ASSUME NEW S, NEW s \in Seq(S), NEW n \in 0 .. Len(s)
    PROVE  /\ SubSeq(s, 1, n) \in Seq(S) /\ Len(SubSeq(s, 1, n)) = n
           /\ \A k \in 1 .. n : SubSeq(s, 1, n)[k] = s[k]
  OBVIOUS

\* Of several starts one is the first.
LEMMA FirstStart ==
    ASSUME NEW s \in Seq(Char), ContainsMarker(s)
    PROVE  \E m \in Starts(s) : /\ m \in 1 .. Len(s)
                                /\ \A j \in Starts(s) : m <= j
                                /\ Strip(s) = SubSeq(s, 1, m - 1)
<1>1. Starts(s) \subseteq 1 .. Len(s) /\ Starts(s) \subseteq Nat /\ Starts(s) # {}
  BY DEF Starts, ContainsMarker
<1>2. \E m \in Starts(s) : \A j \in Starts(s) : ~(<<j, m>> \in OpToRel(<, Nat))
  BY <1>1, NatLessThanWellFounded, WFMin
<1>3. \A m, j \in Nat : <<j, m>> \in OpToRel(<, Nat) <=> j < m
  BY DEF OpToRel
<1>4. \E m \in Starts(s) : \A j \in Starts(s) : m <= j
  <2>1. PICK m \in Starts(s) : \A j \in Starts(s) : ~(<<j, m>> \in OpToRel(<, Nat))
    BY <1>2
  <2>2. \A j \in Starts(s) : ~(j < m) /\ j \in Nat /\ m \in Nat
    BY <1>1, <1>3, <2>1
  <2> QED BY <2>2
<1> DEFINE m == CHOOSE i \in Starts(s) : \A j \in Starts(s) : i <= j
<1>5. m \in Starts(s) /\ \A j \in Starts(s) : m <= j
  BY <1>4
<1>6. Strip(s) = SubSeq(s, 1, m - 1)
  BY DEF Strip
<1> HIDE DEF m
<1> QED BY <1>1, <1>5, <1>6

\* No two markers can be growing at the end of a text, and the guard holds back one.
LEMMA HeldIs ==
    ASSUME NEW s \in Seq(Char)
    PROVE  /\ \A i, k \in Growing(s) : i = k
           /\ Growing(s) = {} => Held(s) = <<>>
           /\ \A i \in Growing(s) : Held(s) = SubSeq(s, i, Len(s))
<1>1. ASSUME NEW i \in Growing(s), NEW k \in Growing(s), i < k PROVE FALSE
  <2>1. i \in 1 .. Len(s) /\ k \in 1 .. Len(s) /\ s[k] = "<"
    BY DEF Growing
  <2>2. PICK t : t = SubSeq(s, i, Len(s))
    OBVIOUS
  <2>3. t \in Seq(Char) /\ Len(t) = Len(s) - i + 1 /\ t[k - i + 1] = s[k] /\ IsPartial(t)
    BY <1>1, <2>1, <2>2 DEF Growing
  <2>4. k - i + 1 \in 2 .. Len(t)
    BY <1>1, <2>1, <2>3
  <2> QED BY <2>1, <2>3, <2>4, OneBracket
<1>2. \A i, k \in Growing(s) : i = k
  <2>1. \A i \in Growing(s) : i \in Nat
    BY DEF Growing
  <2> QED BY <1>1, <2>1
<1>3. Growing(s) = {} => Held(s) = <<>>
  BY DEF Held, Growing
<1>4. ASSUME NEW i \in Growing(s) PROVE Held(s) = SubSeq(s, i, Len(s))
  <2>1. (CHOOSE k \in Growing(s) : TRUE) = i
    BY <1>2
  <2>2. Growing(s) # {}
    OBVIOUS
  <2>3. Held(s) = IF Growing(s) = {} THEN <<>> ELSE SubSeq(s, CHOOSE k \in Growing(s) : TRUE, Len(s))
    BY DEF Held, Growing
  <2> QED BY <2>1, <2>2, <2>3
<1> QED BY <1>2, <1>3, <1>4

\* A text goes on: no marker that starts in what has been shown, where none has been
\* found and none was growing.
LEMMA StartsLater ==
    ASSUME NEW a \in Seq(Char), NEW b \in Seq(Char), NEW c \in Seq(Char),
           ~ContainsMarker(a \o b), \A i \in 1 .. Len(a) : i \notin Growing(a \o b)
    PROVE  /\ \A i \in Starts(a \o (b \o c)) : i > Len(a)
           /\ \A i \in Growing(a \o (b \o c)) : i > Len(a)
<1>1. PICK s, z : s = a \o b /\ z = a \o (b \o c)
  OBVIOUS
<1>2. z = s \o c
  BY <1>1, ConcatAssociative
<1>3. /\ s \in Seq(Char) /\ z \in Seq(Char) /\ Len(s) = Len(a) + Len(b) /\ Len(z) = Len(s) + Len(c)
      /\ Len(a) \in Nat /\ Len(b) \in Nat /\ Len(c) \in Nat /\ Len(s) \in Nat /\ Len(z) \in Nat
      /\ DOMAIN z = 1 .. Len(z) /\ DOMAIN s = 1 .. Len(s)
  BY <1>1, <1>2
<1>4. \A k \in 1 .. Len(s) : z[k] = s[k]
  BY <1>2, <1>3
<1>5. \A i, k \in 1 .. Len(s) : SubSeq(z, i, k) = SubSeq(s, i, k)
  BY <1>2, <1>3, SubSeqOfConcat1
<1>6. ASSUME NEW i \in 1 .. Len(a), NEW j \in i .. Len(z), z[i] = "<",
             IsMarker(SubSeq(z, i, j)) \/ (j = Len(z) /\ IsPartial(SubSeq(z, i, j)))
      PROVE  FALSE
  <2>1. i \in 1 .. Len(s) /\ s[i] = "<"
    BY <1>3, <1>4, <1>6
  <2>2. CASE j <= Len(s) /\ IsMarker(SubSeq(z, i, j))
    <3>1. j \in 1 .. Len(s) /\ j \in i .. Len(s)
      BY <1>3, <2>2
    <3>2. IsMarker(SubSeq(s, i, j))
      BY <1>5, <2>1, <2>2, <3>1
    <3> QED BY <1>1, <1>3, <2>1, <3>1, <3>2 DEF ContainsMarker, Starts
  <2>3. CASE j > Len(s) \/ IsPartial(SubSeq(z, i, j))
    <3>1. j >= Len(s)
      BY <1>3, <1>6, <2>2, <2>3
    <3>2. PICK m : m = SubSeq(z, i, j)
      OBVIOUS
    <3>3. m \in Seq(Char) /\ Len(m) = j - i + 1
      BY <1>3, <3>2
    <3>4. Len(s) - i + 1 \in 1 .. Len(m) /\ (j > Len(s) => Len(s) - i + 1 < Len(m))
      BY <1>3, <2>1, <3>1, <3>3
    <3>5. IsPartial(SubSeq(m, 1, Len(s) - i + 1))
      BY <1>6, <2>3, <3>2, <3>3, <3>4, PrefixIsPartial
    <3>6. SubSeq(m, 1, Len(s) - i + 1) = SubSeq(z, i, Len(s))
      <4>1. PICK p, q : p = SubSeq(m, 1, Len(s) - i + 1) /\ q = SubSeq(z, i, Len(s))
        OBVIOUS
      <4>2. /\ p \in Seq(Char) /\ Len(p) = Len(s) - i + 1
            /\ \A k \in 1 .. Len(s) - i + 1 : p[k] = m[k]
        BY <3>3, <3>4, <4>1
      <4>3. /\ q \in Seq(Char) /\ Len(q) = Len(s) - i + 1
            /\ \A k \in 1 .. Len(s) - i + 1 : q[k] = z[i + k - 1]
        BY <1>3, <2>1, <3>1, <4>1, CutIs
      <4>4. \A k \in 1 .. Len(m) : m[k] = z[i + k - 1]
        BY <1>3, <3>2, <3>3
      <4> QED BY <3>4, <4>1, <4>2, <4>3, <4>4, SeqEqual
    <3>7. IsPartial(SubSeq(s, i, Len(s)))
      <4>1. Len(s) \in 1 .. Len(s)
        BY <1>3, <2>1
      <4> QED BY <1>5, <2>1, <3>5, <3>6, <4>1
    <3> QED BY <1>1, <1>3, <2>1, <3>7 DEF Growing
  <2> QED BY <1>3, <1>6, <2>2, <2>3
<1>7. \A i \in Starts(z) : i > Len(a)
  BY <1>3, <1>6 DEF Starts
<1>8. \A i \in Growing(z) : i > Len(a)
  <2> SUFFICES ASSUME NEW i \in Growing(z), i <= Len(a) PROVE FALSE
    BY <1>3 DEF Growing
  <2>1. i \in 1 .. Len(a) /\ Len(z) \in i .. Len(z) /\ z[i] = "<" /\ IsPartial(SubSeq(z, i, Len(z)))
    BY <1>3 DEF Growing
  <2> QED BY <1>6, <2>1
<1> QED BY <1>1, <1>7, <1>8

\* Markers, whole or growing, start in what follows a text where they start in it alone.
LEMMA ShiftedStarts ==
    ASSUME NEW a \in Seq(Char), NEW t \in Seq(Char), NEW i \in 1 .. Len(t)
    PROVE  /\ Len(a) + i \in Starts(a \o t) <=> i \in Starts(t)
           /\ Len(a) + i \in Growing(a \o t) <=> i \in Growing(t)
<1>1. PICK z : z = a \o t
  OBVIOUS
<1>2. /\ z \in Seq(Char) /\ Len(z) = Len(a) + Len(t) /\ Len(a) \in Nat /\ Len(t) \in Nat
      /\ DOMAIN z = 1 .. Len(a) + Len(t) /\ DOMAIN t = 1 .. Len(t)
  BY <1>1
<1>3. Len(a) + i \in DOMAIN z /\ z[Len(a) + i] = t[i]
  BY <1>1, <1>2
<1>4. \A j \in i .. Len(t) : SubSeq(z, Len(a) + i, Len(a) + j) = SubSeq(t, i, j)
  <2> SUFFICES ASSUME NEW j \in i .. Len(t) PROVE SubSeq(z, Len(a) + i, Len(a) + j) = SubSeq(t, i, j)
    OBVIOUS
  <2>1. PICK m, n : m = Len(a) + i /\ n = Len(a) + j
    OBVIOUS
  <2>2. m \in Len(a) + 1 .. Len(a) + Len(t) /\ n \in Len(a) + 1 .. Len(a) + Len(t)
    BY <1>2, <2>1
  <2>3. SubSeq(a \o t, m, n) = SubSeq(t, m - Len(a), n - Len(a))
    BY <2>2, SubSeqOfConcat2
  <2>4. m - Len(a) = i /\ n - Len(a) = j
    BY <1>2, <2>1
  <2> QED BY <1>1, <2>1, <2>3, <2>4
<1>5. \A j \in i .. Len(t) : Len(a) + j \in Len(a) + i .. Len(z)
  BY <1>2
<1>6. ASSUME NEW k \in Len(a) + i .. Len(z) PROVE k - Len(a) \in i .. Len(t) /\ Len(a) + (k - Len(a)) = k
  BY <1>2
<1>7. (\E j \in i .. Len(t) : IsMarker(SubSeq(t, i, j)))
         <=> \E k \in Len(a) + i .. Len(z) : IsMarker(SubSeq(z, Len(a) + i, k))
  <2>1. ASSUME NEW j \in i .. Len(t), IsMarker(SubSeq(t, i, j))
        PROVE  \E k \in Len(a) + i .. Len(z) : IsMarker(SubSeq(z, Len(a) + i, k))
    BY <1>4, <1>5, <2>1
  <2>2. ASSUME NEW k \in Len(a) + i .. Len(z), IsMarker(SubSeq(z, Len(a) + i, k))
        PROVE  \E j \in i .. Len(t) : IsMarker(SubSeq(t, i, j))
    <3>1. PICK j : j = k - Len(a)
      OBVIOUS
    <3>2. j \in i .. Len(t) /\ Len(a) + j = k
      BY <1>6, <3>1
    <3>3. SubSeq(z, Len(a) + i, k) = SubSeq(t, i, j)
      BY <1>4, <3>2
    <3> QED BY <2>2, <3>2, <3>3
  <2> QED BY <2>1, <2>2
<1>8. SubSeq(z, Len(a) + i, Len(z)) = SubSeq(t, i, Len(t))
  <2>1. Len(t) \in i .. Len(t)
    BY <1>2
  <2> QED BY <1>2, <1>4, <2>1
<1> QED BY <1>1, <1>2, <1>3, <1>7, <1>8 DEF Starts, Growing

\* What the guard lets through of a text that goes on: of the whole, what comes before
\* the first marker, or all but what may be one.
LEMMA GuardStep ==
    ASSUME NEW a \in Seq(Char), NEW b \in Seq(Char), NEW c \in Seq(Char),
           ~ContainsMarker(a \o b), \A i \in 1 .. Len(a) : i \notin Growing(a \o b)
    PROVE  LET t == b \o c
               safe == IF ContainsMarker(t) THEN Strip(t) ELSE SubSeq(t, 1, Len(t) - Len(Held(t)))
               rest == SubSeq(t, Len(safe) + 1, Len(t))
           IN /\ safe \in Seq(Char) /\ rest \in Seq(Char) /\ safe \o rest = t
              /\ ContainsMarker(a \o t) <=> ContainsMarker(t)
              /\ ContainsMarker(t) => Strip(a \o t) = a \o safe /\ rest # <<>>
              /\ ~ContainsMarker(t) => \A i \in 1 .. Len(a \o safe) : i \notin Growing(a \o t)
<1>1. PICK t : t = b \o c
  OBVIOUS
<1>2. PICK z : z = a \o t
  OBVIOUS
<1>3. /\ t \in Seq(Char) /\ z \in Seq(Char) /\ Len(z) = Len(a) + Len(t) /\ Len(a) \in Nat /\ Len(t) \in Nat
      /\ \A i \in Starts(t) : i \in 1 .. Len(t)
      /\ \A i \in Growing(t) : i \in 1 .. Len(t)
      /\ \A i \in Starts(z) \cup Growing(z) : i \in 1 .. Len(a) + Len(t)
  BY <1>1, <1>2 DEF Starts, Growing
<1>17. Len(a) \in Nat /\ Len(t) \in Nat /\ Len(z) = Len(a) + Len(t)
  BY <1>3
<1>4. \A i \in Starts(z) \cup Growing(z) : i > Len(a)
  BY <1>1, <1>2, StartsLater
<1>5. \A i \in 1 .. Len(t) : /\ Len(a) + i \in Starts(z) <=> i \in Starts(t)
                             /\ Len(a) + i \in Growing(z) <=> i \in Growing(t)
  BY <1>2, <1>3, ShiftedStarts
<1>6. \A i \in Starts(z) \cup Growing(z) : i - Len(a) \in 1 .. Len(t) /\ Len(a) + (i - Len(a)) = i
  <2> SUFFICES ASSUME NEW i \in 1 .. Len(a) + Len(t), i > Len(a)
               PROVE  i - Len(a) \in 1 .. Len(t) /\ Len(a) + (i - Len(a)) = i
    BY <1>3, <1>4
  <2> QED BY <1>3
<1>7. ContainsMarker(z) <=> ContainsMarker(t)
  <2>1. ASSUME NEW i \in Starts(z) PROVE i - Len(a) \in Starts(t)
    BY <1>5, <1>6
  <2>2. ASSUME NEW i \in Starts(t) PROVE Len(a) + i \in Starts(z)
    BY <1>3, <1>5
  <2> QED BY <2>1, <2>2 DEF ContainsMarker
<1> DEFINE safe == IF ContainsMarker(t) THEN Strip(t) ELSE SubSeq(t, 1, Len(t) - Len(Held(t)))
           rest == SubSeq(t, Len(safe) + 1, Len(t))
<1>8. ASSUME ContainsMarker(t)
      PROVE  \E n \in 0 .. Len(t) - 1 : safe = SubSeq(t, 1, n) /\ Strip(z) = SubSeq(z, 1, Len(a) + n)
  <2>1. PICK m \in Starts(t) : m \in 1 .. Len(t) /\ (\A j \in Starts(t) : m <= j) /\ Strip(t) = SubSeq(t, 1, m - 1)
    BY <1>3, <1>8, FirstStart
  <2>2. PICK k \in Starts(z) : k \in 1 .. Len(z) /\ (\A j \in Starts(z) : k <= j) /\ Strip(z) = SubSeq(z, 1, k - 1)
    BY <1>3, <1>7, <1>8, FirstStart
  <2>3. Len(a) + m \in Starts(z) /\ k - Len(a) \in Starts(t) /\ Len(a) + (k - Len(a)) = k
    BY <1>5, <1>6, <2>1, <2>2
  <2>4. k <= Len(a) + m /\ m <= k - Len(a)
    BY <2>1, <2>2, <2>3
  <2>5. k - 1 = Len(a) + (m - 1) /\ m - 1 \in 0 .. Len(t) - 1
    <3>1. m \in 1 .. Len(t) /\ k \in Int
      BY <1>17, <2>1, <2>2
    <3> QED BY <1>17, <2>4, <3>1
  <2> QED BY <1>8, <2>1, <2>2, <2>5
<1>9. ASSUME ~ContainsMarker(t)
      PROVE  \E n \in 0 .. Len(t) : /\ safe = SubSeq(t, 1, n)
                                    /\ \A i \in 1 .. Len(a) + n : i \notin Growing(z)
  <2>1. CASE Growing(t) = {}
    <3>1. safe = SubSeq(t, 1, Len(t))
      BY <1>3, <1>9, <2>1, HeldIs
    <3>2. \A i \in 1 .. Len(a) + Len(t) : i \notin Growing(z)
      BY <1>5, <1>6, <2>1
    <3>3. Len(t) \in 0 .. Len(t)
      BY <1>17
    <3> QED BY <3>1, <3>2, <3>3
  <2>2. ASSUME NEW g \in Growing(t)
        PROVE  \E n \in 0 .. Len(t) : /\ safe = SubSeq(t, 1, n)
                                      /\ \A i \in 1 .. Len(a) + n : i \notin Growing(z)
    <3>1. g \in 1 .. Len(t) /\ Held(t) = SubSeq(t, g, Len(t)) /\ \A i \in Growing(t) : i = g
      BY <1>3, HeldIs
    <3>2. Len(Held(t)) = Len(t) - g + 1
      BY <1>3, <3>1, CutIs
    <3>3. Len(t) - Len(Held(t)) = g - 1 /\ g - 1 \in 0 .. Len(t)
      BY <1>3, <3>1, <3>2
    <3>4. ASSUME NEW i \in 1 .. Len(a) + (g - 1) PROVE i \notin Growing(z)
      <4>1. SUFFICES ASSUME i \in Growing(z) PROVE FALSE
        OBVIOUS
      <4>2. i - Len(a) \in Growing(t)
        BY <1>5, <1>6, <4>1
      <4>3. i - Len(a) = g
        BY <3>1, <4>2
      <4> QED BY <1>3, <3>1, <4>3
    <3> QED BY <1>9, <3>3, <3>4
  <2> QED BY <2>1, <2>2
<1>10. PICK n \in 0 .. Len(t) : /\ safe = SubSeq(t, 1, n)
                                /\ ContainsMarker(t) => n < Len(t) /\ Strip(z) = SubSeq(z, 1, Len(a) + n)
                                /\ ~ContainsMarker(t) => \A i \in 1 .. Len(a) + n : i \notin Growing(z)
  <2>1. CASE ContainsMarker(t)
    <3>1. PICK n \in 0 .. Len(t) - 1 : safe = SubSeq(t, 1, n) /\ Strip(z) = SubSeq(z, 1, Len(a) + n)
      BY <1>8, <2>1
    <3>2. n \in 0 .. Len(t) /\ n < Len(t)
      BY <1>3
    <3> QED BY <2>1, <3>1, <3>2
  <2>2. CASE ~ContainsMarker(t)
    BY <1>9, <2>2
  <2> QED BY <2>1, <2>2
<1> HIDE DEF safe
<1>11. safe \in Seq(Char) /\ Len(safe) = n /\ rest = SubSeq(t, n + 1, Len(t))
  BY <1>3, <1>10, PrefixIs
<1>12. rest \in Seq(Char) /\ Len(rest) = Len(t) - n /\ safe \o rest = t
  <2>1. rest \in Seq(Char) /\ Len(rest) = Len(t) - n
    BY <1>3, <1>11
  <2>2. SubSeq(t, 1, n) \o SubSeq(t, n + 1, Len(t)) = SubSeq(t, 1, Len(t))
    <3>1. 1 \in 1 .. Len(t) + 1 /\ n \in 1 - 1 .. Len(t) /\ Len(t) \in n .. Len(t)
      BY <1>17
    <3> QED BY <1>3, <3>1, ConcatAdjacentSubSeq
  <2>3. SubSeq(t, 1, Len(t)) = t
    BY <1>3, SubSeqFull
  <2> QED BY <1>10, <1>11, <2>1, <2>2, <2>3
<1>13. SubSeq(z, 1, Len(a) + n) = a \o safe
  <2>1. PICK p, q : p = SubSeq(z, 1, Len(a) + n) /\ q = a \o safe
    OBVIOUS
  <2>2. q \in Seq(Char) /\ Len(q) = Len(a) + n
    BY <1>11, <2>1
  <2>3. p \in Seq(Char) /\ Len(p) = Len(a) + n
    BY <1>3, <2>1
  <2>4. ASSUME NEW k \in 1 .. Len(a) + n PROVE p[k] = q[k]
    <3>1. p[k] = z[k]
      BY <1>3, <2>1
    <3>2. CASE k <= Len(a)
      BY <1>2, <1>3, <1>11, <2>1, <3>1, <3>2
    <3>3. CASE k > Len(a)
      <4>1. z[k] = t[k - Len(a)] /\ k - Len(a) \in 1 .. n
        BY <1>2, <1>3, <3>3
      <4>2. q[k] = safe[k - Len(a)]
        BY <1>11, <2>1, <3>3
      <4>3. \A j \in 1 .. n : safe[j] = t[j]
        BY <1>3, <1>10
      <4> QED BY <3>1, <4>1, <4>2, <4>3
    <3> QED BY <1>3, <3>2, <3>3
  <2> QED BY <2>1, <2>2, <2>3, <2>4, SeqEqual
<1>14. Len(a \o safe) = Len(a) + n
  <2>1. Len(a \o safe) = Len(a) + Len(safe)
    BY <1>3, <1>11, ConcatProperties
  <2> QED BY <1>11, <2>1
<1>15. ContainsMarker(t) => rest # <<>>
  <2>1. Len(<<>>) = 0
    OBVIOUS
  <2>2. ASSUME ContainsMarker(t) PROVE Len(rest) # 0
    <3>1. n \in Nat /\ n < Len(t) /\ Len(rest) = Len(t) - n
      BY <1>10, <1>12, <2>2
    <3> QED BY <1>17, <3>1
  <2> QED BY <2>1, <2>2
<1> HIDE DEF rest
<1>16. /\ safe \in Seq(Char) /\ rest \in Seq(Char) /\ safe \o rest = t
       /\ ContainsMarker(a \o t) <=> ContainsMarker(t)
       /\ ContainsMarker(t) => Strip(a \o t) = a \o safe /\ rest # <<>>
       /\ ~ContainsMarker(t) => \A i \in 1 .. Len(a \o safe) : i \notin Growing(a \o t)
  BY <1>2, <1>7, <1>10, <1>11, <1>12, <1>13, <1>14, <1>15
<1> QED BY <1>1, <1>16 DEF safe, rest

\* Once a marker is found, what comes before it stays the same: whatever the model
\* says next, no marker can start earlier.
LEMMA StripStays ==
    ASSUME NEW s \in Seq(Char), NEW c \in Seq(Char), ContainsMarker(s)
    PROVE  ContainsMarker(s \o c) /\ Strip(s \o c) = Strip(s)
<1>1. PICK z : z = s \o c
  OBVIOUS
<1>2. /\ z \in Seq(Char) /\ Len(z) = Len(s) + Len(c) /\ Len(s) \in Nat /\ Len(c) \in Nat
      /\ DOMAIN z = 1 .. Len(z) /\ DOMAIN s = 1 .. Len(s)
  BY <1>1
<1>3. \A k \in 1 .. Len(s) : z[k] = s[k]
  BY <1>1, <1>2
<1>4. \A i \in 1 .. Len(s), k \in 0 .. Len(s) : SubSeq(z, i, k) = SubSeq(s, i, k)
  BY <1>1, <1>2, SubSeqOfConcat1
<1>5. PICK m \in Starts(s) : m \in 1 .. Len(s) /\ (\A j \in Starts(s) : m <= j) /\ Strip(s) = SubSeq(s, 1, m - 1)
  BY FirstStart
<1>6. s[m] = "<" /\ \E j \in m .. Len(s) : IsMarker(SubSeq(s, m, j))
  BY DEF Starts
<1>7. m \in Starts(z)
  <2>1. PICK j \in m .. Len(s) : IsMarker(SubSeq(s, m, j))
    BY <1>6
  <2>2. j \in 0 .. Len(s) /\ j \in m .. Len(z) /\ m \in 1 .. Len(z)
    BY <1>2, <1>5
  <2> QED BY <1>2, <1>3, <1>4, <1>5, <1>6, <2>1, <2>2 DEF Starts
<1>8. ContainsMarker(z)
  BY <1>7 DEF ContainsMarker
<1>9. PICK k \in Starts(z) : k \in 1 .. Len(z) /\ (\A j \in Starts(z) : k <= j) /\ Strip(z) = SubSeq(z, 1, k - 1)
  BY <1>2, <1>8, FirstStart
<1>10. k <= m
  BY <1>7, <1>9
<1>11. ASSUME k < m PROVE FALSE
  <2>1. k \in 1 .. Len(s)
    BY <1>2, <1>5, <1>9, <1>11
  <2>2. PICK j \in k .. Len(z) : IsMarker(SubSeq(z, k, j)) /\ z[k] = "<"
    BY DEF Starts
  <2>3. CASE j <= Len(s)
    <3>1. j \in 0 .. Len(s) /\ j \in k .. Len(s)
      BY <2>1, <2>2, <2>3
    <3>2. k \in Starts(s)
      BY <1>2, <1>3, <1>4, <2>1, <2>2, <3>1 DEF Starts
    <3> QED BY <1>2, <1>5, <1>11, <2>1, <3>2
  <2>4. CASE j > Len(s)
    <3>1. PICK t : t = SubSeq(z, k, j)
      OBVIOUS
    <3>2. t \in Seq(Char) /\ Len(t) = j - k + 1 /\ t[m - k + 1] = z[m]
      BY <1>2, <1>5, <1>9, <1>11, <2>1, <2>2, <2>4, <3>1
    <3>3. m - k + 1 \in 2 .. Len(t)
      BY <1>2, <1>5, <1>11, <2>1, <2>4, <3>2
    <3>4. t[m - k + 1] = "<"
      BY <1>3, <1>5, <1>6, <3>2
    <3> QED BY <2>2, <3>1, <3>2, <3>3, <3>4, OneBracket
  <2> QED BY <1>2, <2>2, <2>3, <2>4
<1>12. k = m /\ m - 1 \in 0 .. Len(s)
  BY <1>2, <1>5, <1>9, <1>10, <1>11
<1>13. SubSeq(z, 1, m - 1) = SubSeq(s, 1, m - 1)
  BY <1>2, <1>4, <1>5, <1>12
<1> QED BY <1>1, <1>5, <1>8, <1>9, <1>12, <1>13

----------------------------------------------------------------------------
(* The guard along a stream *)

Safe(t) == IF ContainsMarker(t) THEN Strip(t) ELSE SubSeq(t, 1, Len(t) - Len(Held(t)))
Rest(t) == SubSeq(t, Len(Safe(t)) + 1, Len(t))

\* Of what the model has said, a has been shown, b is held back and c swallowed: before
\* a marker is found everything is shown or held back, and after it only c grows.
Guarded(said, a, b, c) ==
    IF c = <<>> THEN ~ContainsMarker(said) /\ a \o b = said
    ELSE ContainsMarker(said) /\ b = <<>> /\ a = Strip(said) /\ a \o c = said

\* No marker is growing in what has been shown.
NoneGrows(said, a, c) == c = <<>> => \A i \in 1 .. Len(a) : i \notin Growing(said)

\* Texts are put together in any order.
LEMMA Together ==
    ASSUME NEW a \in Seq(Char), NEW b \in Seq(Char), NEW c \in Seq(Char)
    PROVE  (a \o b) \o c = a \o (b \o c)
  BY ConcatAssociative

\* One chunk, before a marker is found.
LEMMA GuardedChunk ==
    ASSUME NEW said, NEW a \in Seq(Char), NEW b \in Seq(Char), NEW chunk \in Seq(Char),
           Guarded(said, a, b, <<>>), NoneGrows(said, a, <<>>)
    PROVE  LET t == b \o chunk
               b2 == IF ContainsMarker(t) THEN <<>> ELSE Rest(t)
               c2 == IF ContainsMarker(t) THEN Rest(t) ELSE <<>>
           IN /\ a \o Safe(t) \in Seq(Char) /\ b2 \in Seq(Char) /\ c2 \in Seq(Char)
              /\ Guarded(said \o chunk, a \o Safe(t), b2, c2)
              /\ NoneGrows(said \o chunk, a \o Safe(t), c2)
<1>1. PICK t : t = b \o chunk
  OBVIOUS
<1>2. ~ContainsMarker(a \o b) /\ said = a \o b /\ \A i \in 1 .. Len(a) : i \notin Growing(a \o b)
  BY DEF Guarded, NoneGrows
<1>3. /\ Safe(t) \in Seq(Char) /\ Rest(t) \in Seq(Char) /\ Safe(t) \o Rest(t) = t
      /\ ContainsMarker(a \o t) <=> ContainsMarker(t)
      /\ ContainsMarker(t) => Strip(a \o t) = a \o Safe(t) /\ Rest(t) # <<>>
      /\ ~ContainsMarker(t) => \A i \in 1 .. Len(a \o Safe(t)) : i \notin Growing(a \o t)
  <2> DEFINE x == b \o chunk
             safe == IF ContainsMarker(x) THEN Strip(x) ELSE SubSeq(x, 1, Len(x) - Len(Held(x)))
             rest == SubSeq(x, Len(safe) + 1, Len(x))
  <2>1. /\ safe \in Seq(Char) /\ rest \in Seq(Char) /\ safe \o rest = x
        /\ ContainsMarker(a \o x) <=> ContainsMarker(x)
        /\ ContainsMarker(x) => Strip(a \o x) = a \o safe /\ rest # <<>>
        /\ ~ContainsMarker(x) => \A i \in 1 .. Len(a \o safe) : i \notin Growing(a \o x)
    BY <1>2, GuardStep
  <2>2. x = t /\ safe = Safe(t) /\ rest = Rest(t)
    BY <1>1 DEF Safe, Rest
  <2> HIDE DEF x, safe, rest
  <2> QED BY <2>1, <2>2
<1>4. said \o chunk = a \o t
  BY <1>1, <1>2, ConcatAssociative
<1>5. PICK u, r : u = Safe(t) /\ r = Rest(t)
  OBVIOUS
<1>6. u \in Seq(Char) /\ r \in Seq(Char) /\ a \o u \in Seq(Char) /\ <<>> \in Seq(Char) /\ (a \o u) \o r = a \o t
  <2>1. u \in Seq(Char) /\ r \in Seq(Char) /\ u \o r = t
    BY <1>3, <1>5
  <2>2. (a \o u) \o r = a \o (u \o r)
    BY <2>1, Together
  <2> QED BY <2>1, <2>2
<1>7. CASE ContainsMarker(t)
  BY <1>1, <1>3, <1>4, <1>5, <1>6, <1>7 DEF Guarded, NoneGrows
<1>8. CASE ~ContainsMarker(t)
  BY <1>1, <1>3, <1>4, <1>5, <1>6, <1>8 DEF Guarded, NoneGrows
<1> QED BY <1>7, <1>8

\* One chunk, after a marker is found.
LEMMA SwallowedChunk ==
    ASSUME NEW said \in Seq(Char), NEW a \in Seq(Char), NEW b, NEW c \in Seq(Char),
           NEW chunk \in Seq(Char), c # <<>>, Guarded(said, a, b, c)
    PROVE  c \o chunk \in Seq(Char) /\ c \o chunk # <<>> /\ Guarded(said \o chunk, a, b, c \o chunk)
<1>1. c \o chunk \in Seq(Char) /\ c \o chunk # <<>>
  <2>1. Len(c) # 0 /\ Len(c) \in Nat /\ Len(chunk) \in Nat /\ Len(c \o chunk) = Len(c) + Len(chunk)
    OBVIOUS
  <2> QED BY <2>1
<1>2. ContainsMarker(said) /\ b = <<>> /\ a = Strip(said) /\ a \o c = said
  BY DEF Guarded
<1>3. ContainsMarker(said \o chunk) /\ Strip(said \o chunk) = Strip(said)
  BY <1>2, StripStays
<1>4. a \o (c \o chunk) = said \o chunk
  <2>1. (a \o c) \o chunk = a \o (c \o chunk)
    BY Together
  <2>2. a \o c = said
    BY <1>2
  <2> QED BY <2>1, <2>2
<1> QED BY <1>1, <1>2, <1>3, <1>4 DEF Guarded

\* No text at all is guarded, and what is held back may be let out at the end.
LEMMA GuardedEnds ==
    /\ Guarded(<<>>, <<>>, <<>>, <<>>) /\ NoneGrows(<<>>, <<>>, <<>>)
    /\ \A said, c, b : \A a \in Seq(Char) : b \in Seq(Char) /\ Guarded(said, a, b, c) =>
          a \o b \in Seq(Char) /\ Guarded(said, a \o b, <<>>, c)
<1>1. ~ContainsMarker(<<>>) /\ <<>> \o <<>> = <<>> /\ 1 .. Len(<<>>) = {}
  BY DEF ContainsMarker, Starts
<1>2. Guarded(<<>>, <<>>, <<>>, <<>>) /\ NoneGrows(<<>>, <<>>, <<>>)
  BY <1>1 DEF Guarded, NoneGrows
<1>3. ASSUME NEW said, NEW a \in Seq(Char), NEW b \in Seq(Char), NEW c, Guarded(said, a, b, c)
      PROVE  a \o b \in Seq(Char) /\ Guarded(said, a \o b, <<>>, c)
  <2>1. a \o b \in Seq(Char) /\ (a \o b) \o <<>> = a \o b
    OBVIOUS
  <2>2. b = <<>> => a \o b = a
    OBVIOUS
  <2> QED BY <1>3, <2>1, <2>2 DEF Guarded
<1> QED BY <1>2, <1>3

\* What is guarded is what GuardExact says of it.
LEMMA GuardedIsExact ==
    ASSUME NEW said, NEW a \in Seq(Char), NEW b \in Seq(Char), NEW c \in Seq(Char), Guarded(said, a, b, c)
    PROVE  a \o b = Strip(said) /\ a \o b \o c = said
<1>1. a \o b \in Seq(Char) /\ (a \o b) \o <<>> = a \o b /\ (b = <<>> => a \o b = a)
  OBVIOUS
<1> QED BY <1>1 DEF Guarded, Strip

Said == SubSeq(reply, 1, got)

\* The texts are texts, and as much as has arrived has been read.
Spoken ==
    /\ reply \in Seq(Char) /\ got \in 0 .. Len(reply)
    /\ shown \in Seq(Char) /\ pending \in Seq(Char) /\ captured \in Seq(Char)

\* Outside a reply nothing is left of the last one.
Idle ==
    stage \in {"ask", "run"} =>
      reply = <<>> /\ got = 0 /\ shown = <<>> /\ pending = <<>> /\ captured = <<>>

\* Where the stream is in its rounds.
Rounds ==
    /\ phase \in {"routing", "streaming"} /\ stage \in {"ask", "read", "run", "end"}
    /\ round \in Nat
    /\ phase = "routing" => round < MAX_TOOL_ROUNDS /\ stage # "read"
    /\ phase = "streaming" => round <= MAX_STREAM_TOOL_ROUNDS
    /\ phase = "streaming" /\ stage = "run" => round < MAX_STREAM_TOOL_ROUNDS
    /\ todo \in 0 .. MaxCalls
    /\ stage = "run" => todo > 0
    /\ outcome # None <=> stage = "end"

\* What has been shown has been noted.
Heard == /\ emitted \in BOOLEAN /\ fallback \in BOOLEAN
         /\ shown # <<>> => emitted

\* GuardExact and NeverSilent are kept by every step only together with what tells a
\* growing marker from one that has been shown.
ChatInv ==
    /\ Spoken /\ Idle /\ Rounds /\ Heard
    /\ Guarded(Said, shown, pending, captured)
    /\ stage = "read" => NoneGrows(Said, shown, captured)
    /\ NeverSilent

\* A stream starts so.
LEMMA InitInvariant == ChatAssumption /\ ChatInit => ChatInv
<1> SUFFICES ASSUME ChatAssumption, ChatInit PROVE ChatInv
  OBVIOUS
<1>1. Said = <<>>
  BY DEF ChatInit, Said
<1>2. Spoken /\ Idle
  BY DEF ChatInit, Spoken, Idle
<1>3. Rounds
  BY DEF ChatInit, Rounds, ChatAssumption
<1>4. Heard /\ NeverSilent
  BY DEF ChatInit, Heard, NeverSilent, ChatAssumption
<1>5. Guarded(Said, shown, pending, captured)
  BY <1>1, GuardedEnds DEF ChatInit
<1>6. stage # "read"
  BY DEF ChatInit
<1> QED BY <1>2, <1>3, <1>4, <1>5, <1>6 DEF ChatInv

\* The steps that leave the reply alone.
Quiet == UNCHANGED <<reply, got, shown, pending, captured>>

\* Such a step keeps what is guarded.
LEMMA QuietStep ==
    ASSUME ChatInv, Quiet, stage' = "read" => stage = "read"
    PROVE  /\ Spoken' /\ Guarded(Said, shown, pending, captured)'
           /\ (stage = "read" => NoneGrows(Said, shown, captured))'
<1>1. UNCHANGED Said
  BY DEF Quiet, Said
<1> QED BY <1>1 DEF ChatInv, Quiet, Spoken

\* What the next piece of a reply does to the texts.
LEMMA FeedStep ==
    ASSUME ChatInv, NEW n \in 1 .. Len(reply), Feed(n)
    PROVE  /\ Spoken' /\ Heard'
           /\ Guarded(Said, shown, pending, captured)' /\ NoneGrows(Said, shown, captured)'
<1>1. PICK chunk, text : chunk = SubSeq(reply, got + 1, got + n) /\ text = pending \o chunk
  OBVIOUS
<1>2. /\ stage = "read" /\ n <= Len(reply) - got /\ got' = got + n /\ reply' = reply /\ fallback' = fallback
      /\ captured # <<>> => captured' = captured \o chunk /\ UNCHANGED <<shown, pending, emitted>>
      /\ captured = <<>> => /\ shown' = shown \o Safe(text)
                            /\ emitted' = (emitted \/ Safe(text) # <<>>)
                            /\ captured' = IF ContainsMarker(text) THEN Rest(text) ELSE <<>>
                            /\ pending' = IF ContainsMarker(text) THEN <<>> ELSE Rest(text)
  BY <1>1 DEF Feed, Safe, Rest
<1>3. Spoken /\ Heard /\ Guarded(Said, shown, pending, captured) /\ NoneGrows(Said, shown, captured)
  BY <1>2 DEF ChatInv
<1>4. /\ reply \in Seq(Char) /\ got \in 0 .. Len(reply) /\ got + n \in 0 .. Len(reply)
      /\ shown \in Seq(Char) /\ pending \in Seq(Char) /\ captured \in Seq(Char)
  <2>1. reply \in Seq(Char) /\ got \in 0 .. Len(reply) /\ Len(reply) \in Nat
    BY <1>3 DEF Spoken
  <2>2. got + n \in 0 .. Len(reply)
    BY <1>2, <2>1
  <2> QED BY <1>3, <2>1, <2>2 DEF Spoken
<1>5. chunk \in Seq(Char) /\ Said \in Seq(Char)
  BY <1>1, <1>4 DEF Said
<1>6. Said' = Said \o chunk
  <2>1. SubSeq(reply, 1, got) \o SubSeq(reply, got + 1, got + n) = SubSeq(reply, 1, got + n)
    <3>1. 1 \in 1 .. Len(reply) + 1 /\ got \in 1 - 1 .. Len(reply) /\ got + n \in got .. Len(reply)
      BY <1>4
    <3> QED BY <1>4, <3>1, ConcatAdjacentSubSeq
  <2> QED BY <1>1, <1>2, <2>1 DEF Said
<1>7. CASE captured # <<>>
  <2>1. /\ captured \o chunk \in Seq(Char) /\ captured \o chunk # <<>>
        /\ Guarded(Said \o chunk, shown, pending, captured \o chunk)
    BY <1>3, <1>4, <1>5, <1>7, SwallowedChunk
  <2>2. captured' = captured \o chunk /\ shown' = shown /\ pending' = pending /\ emitted' = emitted
    BY <1>2, <1>7
  <2>3. Guarded(Said', shown', pending', captured') /\ captured' # <<>>
    BY <1>6, <2>1, <2>2
  <2>4. NoneGrows(Said', shown', captured')
    BY <2>3 DEF NoneGrows
  <2>5. Spoken' /\ Heard'
    BY <1>2, <1>3, <1>4, <2>1, <2>2 DEF Spoken, Heard
  <2> QED BY <2>3, <2>4, <2>5
<1>8. CASE captured = <<>>
  <2>1. /\ shown' = shown \o Safe(text) /\ emitted' = (emitted \/ Safe(text) # <<>>)
        /\ captured' = IF ContainsMarker(text) THEN Rest(text) ELSE <<>>
        /\ pending' = IF ContainsMarker(text) THEN <<>> ELSE Rest(text)
    BY <1>2, <1>8
  <2> DEFINE b2 == IF ContainsMarker(text) THEN <<>> ELSE Rest(text)
             c2 == IF ContainsMarker(text) THEN Rest(text) ELSE <<>>
  <2>2. /\ shown \o Safe(text) \in Seq(Char) /\ b2 \in Seq(Char) /\ c2 \in Seq(Char)
        /\ Guarded(Said \o chunk, shown \o Safe(text), b2, c2)
        /\ NoneGrows(Said \o chunk, shown \o Safe(text), c2)
    <3>1. Guarded(Said, shown, pending, <<>>) /\ NoneGrows(Said, shown, <<>>)
      BY <1>3, <1>8
    <3>2. LET t == pending \o chunk
              b == IF ContainsMarker(t) THEN <<>> ELSE Rest(t)
              c == IF ContainsMarker(t) THEN Rest(t) ELSE <<>>
          IN /\ shown \o Safe(t) \in Seq(Char) /\ b \in Seq(Char) /\ c \in Seq(Char)
             /\ Guarded(Said \o chunk, shown \o Safe(t), b, c)
             /\ NoneGrows(Said \o chunk, shown \o Safe(t), c)
      BY <1>4, <1>5, <3>1, GuardedChunk
    <3> QED BY <1>1, <3>2
  <2>3. captured' = c2 /\ pending' = b2
    BY <2>1
  <2> HIDE DEF b2, c2
  <2>4. Guarded(Said', shown', pending', captured') /\ NoneGrows(Said', shown', captured')
    BY <1>6, <2>1, <2>2, <2>3
  <2>5. Spoken'
    BY <1>2, <1>4, <2>1, <2>2, <2>3 DEF Spoken
  <2>6. shown' # <<>> => emitted'
    <3>1. ASSUME shown = <<>>, Safe(text) = <<>> PROVE shown' = <<>>
      BY <2>1, <3>1
    <3> QED BY <1>3, <2>1, <3>1 DEF Heard
  <2>7. Heard'
    BY <1>2, <1>3, <2>1, <2>6 DEF Heard
  <2> QED BY <2>4, <2>5, <2>7
<1> QED BY <1>7, <1>8

\* What the end of a reply does to them.
LEMMA EndStep ==
    ASSUME ChatAssumption, ChatInv, NEW native \in 0 .. MaxCalls, NEW parsed \in 0 .. MaxCalls,
           EndOfReply(native, parsed)
    PROVE  ChatInv'
<1>1. PICK n : n = ToolCalls(native, parsed)
  OBVIOUS
<1>2. n \in 0 .. MaxCalls
  BY <1>1 DEF ToolCalls
<1>3. /\ stage = "read" /\ got = Len(reply) /\ emitted' = (emitted \/ pending # <<>>) /\ todo' = n
      /\ phase' = phase /\ round' = round
  BY <1>1 DEF EndOfReply
<1>4. Spoken /\ Rounds /\ Heard /\ NeverSilent /\ Guarded(Said, shown, pending, captured)
  BY DEF ChatInv
<1>5. phase = "streaming" /\ outcome = None
  BY <1>3, <1>4 DEF Rounds
<1>6. CASE n > 0 /\ round < MAX_STREAM_TOOL_ROUNDS
  <2>1. stage' = "run" /\ NoReply /\ UNCHANGED <<fallback, db, outcome>>
    BY <1>1, <1>6 DEF EndOfReply
  <2>2. Said' = <<>>
    BY <2>1 DEF NoReply, Said
  <2>3. Guarded(Said', shown', pending', captured')
    BY <2>1, <2>2, GuardedEnds DEF NoReply
  <2>4. Spoken' /\ Idle'
    BY <2>1 DEF NoReply, Spoken, Idle
  <2>5. Rounds'
    BY <1>2, <1>3, <1>4, <1>5, <1>6, <2>1 DEF Rounds
  <2>6. Heard'
    BY <1>3, <1>4, <2>1 DEF Heard, NoReply
  <2>7. NeverSilent'
    BY <1>5, <2>1, ChatAssumption DEF NeverSilent, ChatAssumption
  <2> QED BY <2>1, <2>3, <2>4, <2>5, <2>6, <2>7 DEF ChatInv
<1>7. CASE ~(n > 0 /\ round < MAX_STREAM_TOOL_ROUNDS)
  <2>1. /\ shown' = shown \o pending /\ pending' = <<>> /\ fallback' = (Suppressed(n) /\ ~emitted')
        /\ stage' = "end" /\ outcome' = "done" /\ UNCHANGED <<reply, got, captured>>
    BY <1>1, <1>7 DEF EndOfReply, Close
  <2>2. Said' = Said
    BY <2>1 DEF Said
  <2>3. shown \o pending \in Seq(Char) /\ Guarded(Said, shown \o pending, <<>>, captured)
    BY <1>4, GuardedEnds DEF Spoken
  <2>4. Guarded(Said', shown', pending', captured')
    BY <2>1, <2>2, <2>3
  <2>5. Spoken' /\ Idle'
    BY <1>4, <2>1, <2>3 DEF Spoken, Idle
  <2>6. Rounds'
    BY <1>2, <1>3, <1>4, <1>5, <2>1, ChatAssumption DEF Rounds, ChatAssumption
  <2>7. Heard'
    <3>1. ASSUME shown = <<>>, pending = <<>> PROVE shown' = <<>>
      BY <2>1, <3>1
    <3>2. emitted' \in BOOLEAN /\ (shown' # <<>> => emitted')
      BY <1>3, <1>4, <3>1 DEF Heard
    <3>3. fallback' \in BOOLEAN
      BY <2>1
    <3> QED BY <3>2, <3>3 DEF Heard
  <2>8. NeverSilent'
    <3> SUFFICES ASSUME ~emitted', ~fallback' PROVE reply' = <<>> /\ todo' = 0
      BY DEF NeverSilent
    <3>1. ~emitted /\ pending = <<>> /\ ~Suppressed(n)
      BY <1>3, <2>1
    <3>2. n = 0 /\ captured = <<>> /\ shown = <<>>
      BY <1>2, <1>4, <3>1 DEF Suppressed, Heard
    <3>3. shown \o pending = Said
      BY <1>4, <3>2 DEF Guarded
    <3>4. Said = <<>>
      BY <3>1, <3>2, <3>3
    <3>5. Said = reply
      BY <1>3, <1>4, SubSeqFull DEF Said, Spoken
    <3> QED BY <1>3, <2>1, <3>2, <3>4, <3>5
  <2> QED BY <2>1, <2>4, <2>5, <2>6, <2>7, <2>8 DEF ChatInv
<1> QED BY <1>6, <1>7

\* Every step keeps the invariant.
LEMMA StepInvariant == ChatAssumption /\ ChatInv /\ [ChatNext]_chatVars => ChatInv'
<1> SUFFICES ASSUME ChatAssumption, ChatInv, [ChatNext]_chatVars PROVE ChatInv'
  OBVIOUS
<1>1. /\ Spoken /\ Idle /\ Rounds /\ Heard /\ NeverSilent
      /\ Guarded(Said, shown, pending, captured)
      /\ {MAX_TOOL_ROUNDS, MAX_STREAM_TOOL_ROUNDS, MaxCalls} \subseteq Nat
      /\ None \notin {"done", "gone", "timeout", "error"}
  BY DEF ChatInv, ChatAssumption
<1>2. ASSUME Quiet, UNCHANGED <<emitted, fallback>>, stage' # "read", Rounds', stage' \in {"ask", "run"} => stage \in {"ask", "run"},
             outcome' # "done"
      PROVE  ChatInv'
  <2>1. /\ Spoken' /\ Guarded(Said, shown, pending, captured)'
    BY <1>2, QuietStep
  <2>2. Idle'
    BY <1>1, <1>2 DEF Idle, Quiet
  <2>3. Heard'
    BY <1>1, <1>2 DEF Heard, Quiet
  <2>4. NeverSilent'
    BY <1>2 DEF NeverSilent
  <2> QED BY <1>2, <2>1, <2>2, <2>3, <2>4 DEF ChatInv
<1>3. stage # "end" => outcome = None
  BY <1>1 DEF Rounds
<1>4. ASSUME NEW n \in 0 .. MaxCalls, Route(n) PROVE ChatInv'
  <2>1. /\ Quiet /\ UNCHANGED <<emitted, fallback, outcome>> /\ stage = "ask" /\ phase = "routing"
        /\ stage' \in {"ask", "run"}
    BY <1>4 DEF Route, Quiet, guardVars
  <2>2. Rounds'
    <3>1. CASE n = 0
      BY <1>1, <1>4, <3>1 DEF Route, Rounds
    <3>2. CASE n # 0
      BY <1>1, <1>4, <3>2 DEF Route, Rounds
    <3> QED BY <3>1, <3>2
  <2> QED BY <1>1, <1>2, <1>3, <2>1, <2>2
<1>5. ASSUME stage = "run", ToolDone PROVE ChatInv'
  <2>1. /\ Quiet /\ UNCHANGED <<emitted, fallback, outcome>> /\ stage' \in {"ask", "run"} /\ todo' = todo - 1
    BY <1>5 DEF ToolDone, Quiet, guardVars
  <2>2. Rounds'
    <3>1. CASE todo # 1
      BY <1>1, <1>5, <2>1, <3>1 DEF ToolDone, Rounds
    <3>2. CASE todo = 1
      <4>1. stage' = "ask" /\ AfterTools
        BY <1>5, <3>2 DEF ToolDone
      <4>2. CASE phase = "routing" /\ round + 1 = MAX_TOOL_ROUNDS
        BY <1>1, <1>5, <2>1, <3>2, <4>1, <4>2 DEF AfterTools, Rounds
      <4>3. CASE ~(phase = "routing" /\ round + 1 = MAX_TOOL_ROUNDS)
        BY <1>1, <1>5, <2>1, <3>2, <4>1, <4>3 DEF AfterTools, Rounds
      <4> QED BY <4>2, <4>3
    <3> QED BY <3>1, <3>2
  <2> QED BY <1>1, <1>2, <1>3, <1>5, <2>1, <2>2
<1>6. ASSUME NEW live, NEW q, CatalogueTool(live, q) PROVE ChatInv'
  BY <1>5, <1>6 DEF CatalogueTool
<1>7. CASE OtherTool
  BY <1>5, <1>7 DEF OtherTool
<1>8. ASSUME NEW text \in Texts, Ask(text) PROVE ChatInv'
  <2>1. /\ phase = "streaming" /\ stage = "ask" /\ stage' = "read" /\ reply' = text
        /\ UNCHANGED <<phase, round, got, shown, pending, captured, emitted, fallback, todo, outcome>>
    BY <1>8 DEF Ask
  <2>2. got = 0 /\ shown = <<>> /\ pending = <<>> /\ captured = <<>>
    BY <1>1, <2>1 DEF Idle
  <2>3. text \in Seq(Char) /\ Len(text) \in Nat
    BY DEF ChatAssumption, Char
  <2>4. Spoken' /\ Idle' /\ Heard'
    BY <1>1, <2>1, <2>2, <2>3 DEF Spoken, Idle, Heard
  <2>5. Said' = <<>>
    BY <2>1, <2>2, <2>3 DEF Said
  <2>6. Guarded(Said', shown', pending', captured') /\ NoneGrows(Said', shown', captured')
    BY <2>1, <2>2, <2>5, GuardedEnds
  <2>7. Rounds'
    BY <1>1, <2>1 DEF Rounds
  <2>8. NeverSilent'
    BY <1>1, <1>3, <2>1 DEF NeverSilent
  <2> QED BY <2>4, <2>6, <2>7, <2>8 DEF ChatInv
<1>9. ASSUME NEW n \in 1 .. Len(reply), Feed(n) PROVE ChatInv'
  <2>1. stage = "read" /\ UNCHANGED <<phase, stage, round, fallback, todo, outcome>>
    BY <1>9 DEF Feed
  <2>2. Rounds' /\ Idle'
    BY <1>1, <2>1 DEF Rounds, Idle
  <2>3. NeverSilent'
    BY <1>1, <1>3, <2>1 DEF NeverSilent
  <2>4. /\ Spoken' /\ Heard'
        /\ Guarded(Said, shown, pending, captured)' /\ NoneGrows(Said, shown, captured)'
    BY <1>9, FeedStep
  <2> QED BY <2>2, <2>3, <2>4 DEF ChatInv
<1>10. ASSUME NEW native \in 0 .. MaxCalls, NEW parsed \in 0 .. MaxCalls, EndOfReply(native, parsed)
       PROVE  ChatInv'
  BY <1>10, EndStep
<1>11. ASSUME NEW how \in {"timeout", "error", "gone"}, stage # "end", Close(how),
              UNCHANGED <<phase, round, guardVars, emitted, fallback, todo>>
       PROVE  ChatInv'
  <2>1. /\ Quiet /\ UNCHANGED <<emitted, fallback>> /\ stage' = "end" /\ outcome' = how
        /\ UNCHANGED <<phase, round, todo>>
    BY <1>11 DEF Close, Quiet, guardVars
  <2>2. Rounds'
    BY <1>1, <2>1 DEF Rounds
  <2> QED BY <1>2, <2>1, <2>2
<1>12. ASSUME NEW how \in {"timeout", "error"}, BreakOff(how) PROVE ChatInv'
  BY <1>11, <1>12 DEF BreakOff
<1>13. CASE Disconnect
  BY <1>11, <1>13 DEF Disconnect
<1>14. CASE UNCHANGED chatVars
  <2>1. Quiet /\ UNCHANGED <<phase, stage, round, emitted, fallback, todo, outcome>>
    BY <1>14 DEF chatVars, guardVars, Quiet
  <2>2. /\ Spoken' /\ Guarded(Said, shown, pending, captured)'
        /\ (stage = "read" => NoneGrows(Said, shown, captured))'
    BY <2>1, QuietStep
  <2>3. Idle' /\ Rounds' /\ Heard' /\ NeverSilent'
    BY <1>1, <2>1 DEF Quiet, Idle, Rounds, Heard, NeverSilent
  <2> QED BY <2>2, <2>3 DEF ChatInv
<1> QED BY <1>4, <1>6, <1>7, <1>8, <1>9, <1>10, <1>12, <1>13, <1>14 DEF ChatNext

\* It holds along every stream.
LEMMA ChatInductive == ASSUME ChatAssumption PROVE ChatSpec => []ChatInv
  BY InitInvariant, StepInvariant, PTL DEF ChatSpec

\* A stream has the shapes the code gives it, and runs no tool that was not asked for
\* (chat/service.py, chat/deepseek.py).
THEOREM ChatTypesHold == ASSUME ChatAssumption PROVE ChatSpec => []ChatTypeOK
<1>1. ChatInv => ChatTypeOK
  <2> SUFFICES ASSUME ChatInv PROVE ChatTypeOK
    OBVIOUS
  <2>1. Rounds /\ Spoken
    BY DEF ChatInv
  <2>2. got <= Len(reply)
    <3>1. Len(reply) \in Nat /\ got \in 0 .. Len(reply)
      BY <2>1 DEF Spoken
    <3> QED BY <3>1
  <2>3. round \in 0 .. MAX_TOOL_ROUNDS + MAX_STREAM_TOOL_ROUNDS
    BY <2>1 DEF Rounds, ChatAssumption
  <2> QED BY <2>1, <2>2, <2>3 DEF Rounds, ChatTypeOK
<1> QED BY <1>1, ChatInductive, PTL

\* However a reply is cut into chunks, no markup of a tool call reaches the shopper and
\* no other text is lost (DsmlStreamGuard.feed and finish).
THEOREM GuardIsExact == ASSUME ChatAssumption PROVE ChatSpec => []GuardExact
<1>1. ChatInv => GuardExact
  <2> SUFFICES ASSUME ChatInv PROVE GuardExact
    OBVIOUS
  <2>1. /\ shown \in Seq(Char) /\ pending \in Seq(Char) /\ captured \in Seq(Char)
        /\ Guarded(Said, shown, pending, captured)
    BY DEF ChatInv, Spoken
  <2>2. shown \o pending = Strip(Said) /\ shown \o pending \o captured = Said
    BY <2>1, GuardedIsExact
  <2> QED BY <2>2 DEF GuardExact, Said
<1> QED BY <1>1, ChatInductive, PTL

\* A stream that ends by itself has told the shopper something, unless the model said
\* nothing and asked for nothing (stream_chat, FALLBACK_REPLY).
THEOREM NeverIsSilent == ASSUME ChatAssumption PROVE ChatSpec => []NeverSilent
<1>1. ChatInv => NeverSilent
  BY DEF ChatInv
<1> QED BY <1>1, ChatInductive, PTL

----------------------------------------------------------------------------
(* The plant that is answered *)

\* The least of a set of naturals.
LEMMA MinIsLeast == ASSUME NEW T, T \subseteq Nat, T # {} PROVE Min(T) \in T
  BY LeastNatural DEF Min

\* What is answered was found on the shelf as it was.
AnswerKept ==
    answer # None =>
        /\ answer.live \subseteq DOMAIN Shelf
        /\ answer.plant = FindActivePlant(answer.live, answer.query)

\* Every step keeps it.
LEMMA AnswerStep == AnswerKept /\ [ChatNext]_chatVars => AnswerKept'
<1> SUFFICES ASSUME AnswerKept, [ChatNext]_chatVars PROVE AnswerKept'
  OBVIOUS
<1>1. ASSUME UNCHANGED answer \/ answer' = None PROVE AnswerKept'
  BY <1>1 DEF AnswerKept
<1>2. ASSUME NEW live \in SUBSET (DOMAIN Shelf), NEW q \in Queries, CatalogueTool(live, q) PROVE AnswerKept'
  <2>1. CASE answer' = None
    BY <1>1, <2>1
  <2>2. CASE answer' = [live |-> live, query |-> q, plant |-> FindActivePlant(live, q)]
    BY <2>2 DEF AnswerKept
  <2> QED
    BY <1>2, <2>1, <2>2 DEF CatalogueTool
<1>3. ASSUME NEW n \in 0 .. MaxCalls, Route(n) PROVE AnswerKept'
  BY <1>1, <1>3 DEF Route
<1>4. CASE OtherTool
  BY <1>1, <1>4 DEF OtherTool
<1>5. ASSUME NEW text \in Texts, Ask(text) PROVE AnswerKept'
  BY <1>1, <1>5 DEF Ask
<1>6. ASSUME NEW n \in 1 .. Len(reply), Feed(n) PROVE AnswerKept'
  BY <1>1, <1>6 DEF Feed
<1>7. ASSUME NEW native \in 0 .. MaxCalls, NEW parsed \in 0 .. MaxCalls, EndOfReply(native, parsed)
      PROVE  AnswerKept'
  BY <1>1, <1>7 DEF EndOfReply
<1>8. ASSUME NEW how \in {"timeout", "error"}, BreakOff(how) PROVE AnswerKept'
  BY <1>1, <1>8 DEF BreakOff
<1>9. CASE Disconnect
  BY <1>1, <1>9 DEF Disconnect
<1>10. CASE UNCHANGED chatVars
  BY <1>1, <1>10 DEF chatVars
<1> QED
  BY <1>2, <1>3, <1>4, <1>5, <1>6, <1>7, <1>8, <1>9, <1>10 DEF ChatNext

\* A plant that bears the name that is asked for is hit.
LEMMA ExactIsHit ==
    ASSUME ChatAssumption, NEW live \in SUBSET (DOMAIN Shelf), NEW q, NEW i \in live, Exact(i, q)
    PROVE  i \in Hits(live, q)
<1>1. Shelf[i] \in [name : Seq(STRING), name_vi : Seq(STRING), slug : Seq(STRING)]
  <2>1. i \in DOMAIN Shelf
    OBVIOUS
  <2>2. PICK Plant : Plant = [name : Seq(STRING), name_vi : Seq(STRING), slug : Seq(STRING)]
    OBVIOUS
  <2>3. Shelf \in Seq(Plant)
    BY <2>2 DEF ChatAssumption
  <2>4. Shelf[i] \in Plant
    BY <2>1, <2>3
  <2> QED
    BY <2>2, <2>4
<1>2. PICK s \in {Shelf[i].name, Shelf[i].name_vi} : s = q.text
  BY DEF Exact
<1>3. s \in Seq(STRING)
  BY <1>1, <1>2
<1>4. Occurs(s, s)
  <2>1. SubSeq(s, 0 + 1, 0 + Len(s)) = s /\ 0 \in 0 .. Len(s) - Len(s)
    BY <1>3, SubSeqFull
  <2> QED
    BY <2>1 DEF Occurs
<1> QED
  BY <1>2, <1>4 DEF Hits

\* All that is found is listed, when it is no more than the search returns.
LEMMA AllAreListed ==
    ASSUME ChatAssumption, NEW live \in SUBSET (DOMAIN Shelf), NEW q,
           Cardinality(Hits(live, q)) <= ListLimit
    PROVE  Listed(live, q) = Hits(live, q)
<1>1. IsFiniteSet(Hits(live, q))
  <2>1. Len(Shelf) \in Nat /\ DOMAIN Shelf = 1 .. Len(Shelf)
    BY DEF ChatAssumption
  <2>2. IsFiniteSet(DOMAIN Shelf) /\ Hits(live, q) \subseteq DOMAIN Shelf
    BY <2>1, FS_Interval DEF Hits
  <2> QED
    BY <2>2, FS_Subset
<1>2. ASSUME NEW i \in Hits(live, q) PROVE Cardinality({j \in Hits(live, q) : j <= i}) <= ListLimit
  <2>1. {j \in Hits(live, q) : j <= i} \subseteq Hits(live, q)
    OBVIOUS
  <2>2. /\ Cardinality({j \in Hits(live, q) : j <= i}) <= Cardinality(Hits(live, q))
        /\ Cardinality({j \in Hits(live, q) : j <= i}) \in Nat /\ Cardinality(Hits(live, q)) \in Nat
    BY <1>1, <2>1, FS_Subset, FS_CardinalityType
  <2> QED
    BY <2>2 DEF ChatAssumption
<1> QED
  BY <1>2 DEF Listed

\* Among plants whose names hold what was asked for, one that bears exactly that name is
\* answered, as long as no more are found than the search returns (_find_active_plant).
THEOREM ExactNameIsFirst == ASSUME ChatAssumption PROVE ChatSpec => []ExactNameFirst
<1>1. ChatInit => AnswerKept
  BY DEF ChatInit, AnswerKept
<1>2. ASSUME AnswerKept PROVE ExactNameFirst
  <2> DEFINE live == answer.live
             q == answer.query
             exact == {i \in Listed(live, q) : Exact(i, q)}
  <2> SUFFICES ASSUME answer # None, Cardinality(Hits(live, q)) <= ListLimit, q.text # <<>>,
                      BySlug(live, q) = {}
               PROVE  \/ answer.plant \in live /\ Exact(answer.plant, q)
                      \/ /\ ~\E i \in live : Exact(i, q)
                         /\ answer.plant = 0 <=> Hits(live, q) = {}
    BY DEF ExactNameFirst
  <2>1. live \in SUBSET (DOMAIN Shelf) /\ answer.plant = FindActivePlant(live, q)
    BY <1>2 DEF AnswerKept
  <2>2. Listed(live, q) = Hits(live, q)
    BY <2>1, AllAreListed
  <2>3. /\ Hits(live, q) \subseteq live /\ live \subseteq Nat /\ 0 \notin live
    <3>1. Len(Shelf) \in Nat /\ DOMAIN Shelf = 1 .. Len(Shelf)
      BY DEF ChatAssumption
    <3> QED
      BY <2>1, <3>1 DEF Hits
  <2>4. answer.plant = IF Hits(live, q) = {} THEN 0
                       ELSE Min(IF exact = {} THEN Hits(live, q) ELSE exact)
    BY <2>1, <2>2 DEF FindActivePlant
  <2>5. CASE exact # {}
    <3>1. Min(exact) \in exact
      BY <2>2, <2>3, <2>5, MinIsLeast
    <3>2. answer.plant = Min(exact)
      BY <2>2, <2>4, <2>5
    <3> QED
      BY <2>2, <2>3, <3>1, <3>2
  <2>6. CASE exact = {}
    <3>1. \A i \in live : ~Exact(i, q)
      BY <2>1, <2>2, <2>6, ExactIsHit
    <3>2. Hits(live, q) # {} => answer.plant \in Hits(live, q)
      <4>1. Hits(live, q) # {} => Min(Hits(live, q)) \in Hits(live, q)
        BY <2>3, MinIsLeast
      <4> QED
        BY <2>4, <2>6, <4>1
    <3>3. answer.plant = 0 <=> Hits(live, q) = {}
      BY <2>3, <2>4, <3>2
    <3> QED
      BY <3>1, <3>3
  <2> QED
    BY <2>5, <2>6
<1> QED
  BY <1>1, <1>2, AnswerStep, PTL DEF ChatSpec

=============================================================================
