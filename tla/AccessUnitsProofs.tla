-------------------------- MODULE AccessUnitsProofs --------------------------
(***************************************************************************)
(* Theorems about the data path of a picture, for the units of any camera  *)
(* and access units and streams of any length.  The recursive functions of *)
(* AccessUnits are unfolded one element at a time; what holds of every     *)
(* sequence then follows by induction on a set of sequences.               *)
(***************************************************************************)
EXTENDS AccessUnits, TLAPS, WellFoundedInduction, SequenceTheorems

-----------------------------------------------------------------------------
(* Induction over the natural numbers and over sequences: the library      *)
(* states both for an operator; here they are stated for a set of numbers  *)
(* and a set of sequences, from the well-foundedness of <.                 *)

(* A set with 0, and with n + 1 where it has n, has every natural number.  *)
LEMMA SetInduction ==
    ASSUME NEW S, 0 \in S, \A n \in Nat : n \in S => n + 1 \in S
    PROVE  Nat \subseteq S
<1> SUFFICES ASSUME Nat \ S # {} PROVE FALSE
    OBVIOUS
<1> DEFINE R == OpToRel(<, Nat)
<1>1. \A x, y \in Nat : x < y => <<x, y>> \in R
    BY DEF OpToRel
<1> HIDE DEF R
<1>2. IsWellFoundedOn(R, Nat)
    BY NatLessThanWellFounded DEF R
<1>3. PICK x \in Nat \ S : \A y \in Nat \ S : ~(<<y, x>> \in R)
    BY <1>2, WFMin
<1>4. x # 0 /\ x - 1 \in Nat /\ x - 1 < x
    OBVIOUS
<1>5. x - 1 \in S
    BY <1>1, <1>3, <1>4
<1> QED
    BY <1>4, <1>5

(* A set with the empty sequence, and with every longer one where it has   *)
(* the shorter, has every sequence.                                        *)
LEMMA SeqInduction ==
    ASSUME NEW T, NEW S, <<>> \in S,
           \A s \in Seq(T) : \A e \in T : s \in S => Append(s, e) \in S
    PROVE  Seq(T) \subseteq S
<1> DEFINE L == {n \in Nat : \A s \in Seq(T) : Len(s) = n => s \in S}
<1>1. 0 \in L
    OBVIOUS
<1>2. ASSUME NEW n \in Nat, n \in L PROVE n + 1 \in L
  <2> SUFFICES ASSUME NEW s \in Seq(T), Len(s) = n + 1 PROVE s \in S
      OBVIOUS
  <2> DEFINE f == SubSeq(s, 1, n)
  <2>1. f \in Seq(T) /\ Len(f) = n /\ s[n + 1] \in T
      OBVIOUS
  <2>2. s = Append(f, s[n + 1])
      OBVIOUS
  <2>3. f \in S
      BY <1>2, <2>1
  <2> QED
      BY <2>1, <2>2, <2>3
<1>3. Nat \subseteq L
  <2> HIDE DEF L
  <2> QED
      BY <1>1, <1>2, SetInduction
<1> QED
    BY <1>3

-----------------------------------------------------------------------------
(* What Select, the loop that keeps some elements of a sequence, does.     *)

(* The values of the loop, one for each length.                            *)
Kept(f, s, keep) ==
    f = [i \in 0 .. Len(s) |->
            IF i = 0 THEN <<>>
            ELSE IF s[i] \in keep THEN Append(f[i - 1], s[i]) ELSE f[i - 1]]

(* Such a function, element by element.                                    *)
LEMMA KeptAt ==
    ASSUME NEW s, Len(s) \in Nat, NEW keep, NEW f, Kept(f, s, keep)
    PROVE  /\ f[0] = <<>>
           /\ \A n \in Nat : n + 1 <= Len(s) =>
                f[n + 1] = IF s[n + 1] \in keep THEN Append(f[n], s[n + 1]) ELSE f[n]
<1> DEFINE Row(i) == IF i = 0 THEN <<>>
                    ELSE IF s[i] \in keep THEN Append(f[i - 1], s[i]) ELSE f[i - 1]
<1>1. \A i \in 0 .. Len(s) : f[i] = Row(i)
  <2>1. f = [i \in 0 .. Len(s) |-> Row(i)]
      BY DEF Kept
  <2> HIDE DEF Row
  <2> QED
      BY <2>1
<1>2. f[0] = <<>>
    BY <1>1
<1>3. ASSUME NEW n \in Nat, n + 1 <= Len(s)
      PROVE  f[n + 1] = IF s[n + 1] \in keep THEN Append(f[n], s[n + 1]) ELSE f[n]
  <2>1. n + 1 \in 0 .. Len(s) /\ n + 1 # 0 /\ (n + 1) - 1 = n
      BY <1>3
  <2>2. f[n + 1] = Row(n + 1)
      BY <1>1, <2>1
  <2> QED
      BY <2>1, <2>2
<1> QED
    BY <1>2, <1>3

(* There is one for every sequence.                                        *)
LEMMA KeptExists ==
    ASSUME NEW T, NEW s \in Seq(T), NEW keep PROVE \E f : Kept(f, s, keep)
<1> DEFINE Upto(f, n) ==
      f = [i \in 0 .. n |->
            IF i = 0 THEN <<>>
            ELSE IF s[i] \in keep THEN Append(f[i - 1], s[i]) ELSE f[i - 1]]
<1> DEFINE L == {n \in Nat : \E f : Upto(f, n)}
<1>1. 0 \in L
  <2> DEFINE f == [i \in 0 .. 0 |-> <<>>]
  <2>1. Upto(f, 0)
      OBVIOUS
  <2> QED
      BY <2>1
<1>2. ASSUME NEW n \in Nat, n \in L PROVE n + 1 \in L
  <2>1. PICK f : Upto(f, n)
      BY <1>2
  <2> DEFINE Row(i) == IF i = 0 THEN <<>>
                      ELSE IF s[i] \in keep THEN Append(f[i - 1], s[i]) ELSE f[i - 1]
  <2>0. \A i \in 0 .. n : f[i] = Row(i)
    <3>1. f = [i \in 0 .. n |-> Row(i)]
        BY <2>1
    <3> HIDE DEF Row, Upto
    <3> QED
        BY <3>1
  <2> DEFINE g == [i \in 0 .. n + 1 |->
                      IF i <= n THEN f[i]
                      ELSE IF s[i] \in keep THEN Append(f[i - 1], s[i]) ELSE f[i - 1]]
  <2> DEFINE h == [i \in 0 .. n + 1 |->
            IF i = 0 THEN <<>>
            ELSE IF s[i] \in keep THEN Append(g[i - 1], s[i]) ELSE g[i - 1]]
  <2>2. \A i \in 0 .. n : g[i] = f[i]
      OBVIOUS
  <2>3. \A i \in 0 .. n + 1 : g[i] = h[i]
    <3> TAKE i \in 0 .. n + 1
    <3>1. CASE i <= n
      <4>1. i \in 0 .. n /\ (i # 0 => i - 1 \in 0 .. n)
          BY <3>1
      <4>2. f[i] = IF i = 0 THEN <<>>
                   ELSE IF s[i] \in keep THEN Append(f[i - 1], s[i]) ELSE f[i - 1]
          BY <4>1, <2>0
      <4>3. i # 0 => g[i - 1] = f[i - 1]
          BY <4>1, <2>2
      <4> QED
          BY <2>2, <4>1, <4>2, <4>3
    <3>3. CASE i = n + 1
        BY <2>2, <3>3
    <3> QED
        BY <3>1, <3>3
  <2>4. g = h
    <3> HIDE DEF Upto
    <3> QED
        BY <2>3
  <2>5. Upto(g, n + 1)
    <3> HIDE DEF g
    <3> QED
        BY <2>4, Zenon
  <2> HIDE DEF Upto, g
  <2> QED
      BY <2>5
<1>3. Len(s) \in L
  <2> HIDE DEF L
  <2>1. Nat \subseteq L
      BY <1>1, <1>2, SetInduction
  <2> QED
      BY <2>1
<1> QED
    BY <1>3 DEF Kept

(* Select is its last value.                                               *)
LEMMA SelectKept ==
    ASSUME NEW T, NEW s \in Seq(T), NEW keep
    PROVE  \E f : Kept(f, s, keep) /\ Select(s, keep) = f[Len(s)]
<1> DEFINE f == CHOOSE g : Kept(g, s, keep)
<1>1. Kept(f, s, keep)
    BY KeptExists
<1>2. Select(s, keep) = f[Len(s)]
    BY DEF Select, Kept
<1> QED
    BY <1>1, <1>2

(* Two such functions agree as far as their sequences do.                  *)
LEMMA KeptAgree ==
    ASSUME NEW s, Len(s) \in Nat, NEW t, Len(t) \in Nat, NEW keep,
           Len(s) <= Len(t), \A n \in 1 .. Len(s) : s[n] = t[n],
           NEW f, Kept(f, s, keep), NEW g, Kept(g, t, keep)
    PROVE  f[Len(s)] = g[Len(s)]
<1> DEFINE L == {n \in Nat : n <= Len(s) => f[n] = g[n]}
<1>1. 0 \in L
  <2>1. f[0] = <<>> /\ g[0] = <<>>
      BY KeptAt
  <2> QED
      BY <2>1
<1>2. ASSUME NEW n \in Nat, n \in L PROVE n + 1 \in L
  <2> SUFFICES ASSUME n + 1 <= Len(s) PROVE f[n + 1] = g[n + 1]
      OBVIOUS
  <2>1. f[n] = g[n] /\ s[n + 1] = t[n + 1] /\ n + 1 <= Len(t)
      BY <1>2
  <2>2. f[n + 1] = IF s[n + 1] \in keep THEN Append(f[n], s[n + 1]) ELSE f[n]
      BY KeptAt
  <2>3. g[n + 1] = IF t[n + 1] \in keep THEN Append(g[n], t[n + 1]) ELSE g[n]
      BY KeptAt, <2>1
  <2> QED
      BY <2>1, <2>2, <2>3
<1>3. Nat \subseteq L
  <2> HIDE DEF L
  <2> QED
      BY <1>1, <1>2, SetInduction
<1> QED
    BY <1>3

(* Of nothing, nothing is kept.                                            *)
LEMMA SelectEmpty ==
    ASSUME NEW keep PROVE Select(<<>>, keep) = <<>>
<1>1. <<>> \in Seq({})
    OBVIOUS
<1>2. PICK f : Kept(f, <<>>, keep) /\ Select(<<>>, keep) = f[Len(<<>>)]
    BY <1>1, SelectKept
<1> QED
    BY <1>2, KeptAt

(* One element more is kept at the end or left out.                        *)
LEMMA SelectAppend ==
    ASSUME NEW T, NEW s \in Seq(T), NEW e \in T, NEW keep
    PROVE  Select(Append(s, e), keep) =
              IF e \in keep THEN Append(Select(s, keep), e) ELSE Select(s, keep)
<1> DEFINE t == Append(s, e)
<1>1. /\ t \in Seq(T) /\ Len(s) \in Nat /\ Len(t) = Len(s) + 1 /\ t[Len(s) + 1] = e
      /\ \A n \in 1 .. Len(s) : s[n] = t[n]
    OBVIOUS
<1> HIDE DEF t
<1>2. PICK f : Kept(f, s, keep) /\ Select(s, keep) = f[Len(s)]
    BY SelectKept
<1>3. PICK g : Kept(g, t, keep) /\ Select(t, keep) = g[Len(s) + 1]
    BY <1>1, SelectKept
<1>4. f[Len(s)] = g[Len(s)]
    BY <1>1, <1>2, <1>3, KeptAgree
<1>5. g[Len(s) + 1] = IF e \in keep THEN Append(g[Len(s)], e) ELSE g[Len(s)]
  <2>1. Len(t) \in Nat /\ Len(s) + 1 <= Len(t)
      BY <1>1
  <2> QED
      BY <1>1, <1>3, <2>1, KeptAt
<1>6. Select(t, keep) = IF e \in keep THEN Append(Select(s, keep), e) ELSE Select(s, keep)
    BY <1>2, <1>3, <1>4, <1>5
<1> QED
    BY <1>6 DEF t

(* Concatenation, one element more at a time.                              *)
LEMMA ConcatAppend ==
    ASSUME NEW T, NEW s \in Seq(T), NEW q \in Seq(T), NEW e \in T
    PROVE  s \o Append(q, e) = Append(s \o q, e) /\ s \o q \in Seq(T) /\ Append(q, e) \in Seq(T)
<1>1. Append(q, e) = q \o <<e>> /\ Append(q, e) \in Seq(T)
    BY AppendIsConcat, AppendProperties
<1>2. s \o q \in Seq(T)
    BY ConcatProperties
<1>3. Append(s \o q, e) = (s \o q) \o <<e>>
    BY <1>2, AppendIsConcat
<1>4. <<e>> \in Seq(T)
    OBVIOUS
<1>5. s \o (q \o <<e>>) = (s \o q) \o <<e>>
    BY <1>4, ConcatAssociative
<1> QED
    BY <1>1, <1>2, <1>3, <1>5

(* What is kept are elements to keep.                                      *)
LEMMA SelectSeqs ==
    ASSUME NEW T, NEW s \in Seq(T), NEW keep
    PROVE  Select(s, keep) \in Seq(T \cap keep)
<1> DEFINE S == {q \in Seq(T) : Select(q, keep) \in Seq(T \cap keep)}
<1>1. <<>> \in S
  <2>1. <<>> \in Seq(T) /\ <<>> \in Seq(T \cap keep)
      BY EmptySeq
  <2> QED
      BY <2>1, SelectEmpty
<1>2. ASSUME NEW q \in Seq(T), NEW e \in T, q \in S PROVE Append(q, e) \in S
  <2>1. Select(Append(q, e), keep) = IF e \in keep THEN Append(Select(q, keep), e) ELSE Select(q, keep)
      BY SelectAppend
  <2>2. Select(q, keep) \in Seq(T \cap keep)
      BY <1>2
  <2>3. e \in keep => Append(Select(q, keep), e) \in Seq(T \cap keep)
      BY <2>2, AppendProperties
  <2>4. Append(q, e) \in Seq(T)
      BY AppendProperties
  <2> QED
      BY <2>1, <2>2, <2>3, <2>4
<1>3. Seq(T) \subseteq S
  <2> HIDE DEF S
  <2> QED
      BY <1>1, <1>2, SeqInduction
<1> QED
    BY <1>3

(* Of two parts, what is kept of the one and of the other.                 *)
LEMMA SelectConcat ==
    ASSUME NEW T, NEW s \in Seq(T), NEW t \in Seq(T), NEW keep
    PROVE  Select(s \o t, keep) = Select(s, keep) \o Select(t, keep)
<1> DEFINE S == {q \in Seq(T) : Select(s \o q, keep) = Select(s, keep) \o Select(q, keep)}
<1>0. Select(s, keep) \in Seq(T)
  <2>1. Select(s, keep) \in Seq(T \cap keep)
      BY SelectSeqs
  <2> QED
      BY <2>1
<1>1. <<>> \in S
  <2>1. s \o <<>> = s /\ Select(s, keep) \o <<>> = Select(s, keep) /\ <<>> \in Seq(T)
      BY <1>0, ConcatEmptySeq, EmptySeq
  <2>2. Select(<<>>, keep) = <<>>
      BY SelectEmpty
  <2>3. Select(s \o <<>>, keep) = Select(s, keep) \o Select(<<>>, keep)
      BY <2>1, <2>2, Zenon
  <2> QED
      BY <2>1, <2>3, Zenon
<1>2. ASSUME NEW q \in Seq(T), NEW e \in T, q \in S PROVE Append(q, e) \in S
  <2>1. s \o Append(q, e) = Append(s \o q, e) /\ s \o q \in Seq(T) /\ Append(q, e) \in Seq(T)
      BY ConcatAppend
  <2>2. Select(Append(s \o q, e), keep) =
          IF e \in keep THEN Append(Select(s \o q, keep), e) ELSE Select(s \o q, keep)
      BY <2>1, SelectAppend
  <2>3. Select(Append(q, e), keep) = IF e \in keep THEN Append(Select(q, keep), e) ELSE Select(q, keep)
      BY SelectAppend
  <2>4. Select(s \o q, keep) = Select(s, keep) \o Select(q, keep)
      BY <1>2
  <2>5. Select(q, keep) \in Seq(T)
    <3>1. Select(q, keep) \in Seq(T \cap keep)
        BY SelectSeqs
    <3> QED
        BY <3>1
  <2>6. Append(Select(s, keep) \o Select(q, keep), e) = Select(s, keep) \o Append(Select(q, keep), e)
      BY <1>0, <2>5, ConcatAppend
  <2>7. Select(s \o Append(q, e), keep) = Select(s, keep) \o Select(Append(q, e), keep)
      BY <2>1, <2>2, <2>3, <2>4, <2>6
  <2> QED
      BY <2>1, <2>7
<1>3. Seq(T) \subseteq S
  <2> HIDE DEF S
  <2> QED
      BY <1>1, <1>2, SeqInduction
<1> QED
    BY <1>3

(* Kept twice is kept by both.                                             *)
LEMMA SelectSelect ==
    ASSUME NEW T, NEW s \in Seq(T), NEW A, NEW B
    PROVE  Select(Select(s, A), B) = Select(s, A \cap B)
<1> DEFINE S == {q \in Seq(T) : Select(Select(q, A), B) = Select(q, A \cap B)}
<1>1. <<>> \in S
    BY SelectEmpty
<1>2. ASSUME NEW q \in Seq(T), NEW e \in T, q \in S PROVE Append(q, e) \in S
  <2>1. Select(Append(q, e), A) = IF e \in A THEN Append(Select(q, A), e) ELSE Select(q, A)
      BY SelectAppend
  <2>2. Select(Append(q, e), A \cap B) =
          IF e \in A \cap B THEN Append(Select(q, A \cap B), e) ELSE Select(q, A \cap B)
      BY SelectAppend
  <2>3. Select(q, A) \in Seq(T)
    <3>1. Select(q, A) \in Seq(T \cap A)
        BY SelectSeqs
    <3> QED
        BY <3>1
  <2>4. Select(Append(Select(q, A), e), B) =
          IF e \in B THEN Append(Select(Select(q, A), B), e) ELSE Select(Select(q, A), B)
      BY <2>3, SelectAppend
  <2>5. Select(Select(q, A), B) = Select(q, A \cap B)
      BY <1>2
  <2>6. Select(Select(Append(q, e), A), B) = Select(Append(q, e), A \cap B)
    <3>1. CASE e \in A /\ e \in B
      <4>1. Select(Append(q, e), A) = Append(Select(q, A), e)
          BY <3>1, <2>1
      <4>2. Select(Append(q, e), A \cap B) = Append(Select(q, A \cap B), e)
          BY <3>1, <2>2
      <4>3. Select(Append(Select(q, A), e), B) = Append(Select(Select(q, A), B), e)
          BY <3>1, <2>4
      <4> QED
          BY <2>5, <4>1, <4>2, <4>3, Zenon
    <3>3. CASE e \in A /\ e \notin B
      <4>1. Select(Append(q, e), A) = Append(Select(q, A), e)
          BY <3>3, <2>1
      <4>2. Select(Append(q, e), A \cap B) = Select(q, A \cap B)
          BY <3>3, <2>2
      <4>3. Select(Append(Select(q, A), e), B) = Select(Select(q, A), B)
          BY <3>3, <2>4
      <4> QED
          BY <2>5, <4>1, <4>2, <4>3, Zenon
    <3>2. CASE e \notin A
        BY <3>2, <2>1, <2>2, <2>5
    <3> QED
        BY <3>1, <3>2, <3>3
  <2>7. Append(q, e) \in Seq(T)
      BY AppendProperties
  <2> QED
      BY <2>6, <2>7
<1>3. Seq(T) \subseteq S
  <2> HIDE DEF S
  <2> QED
      BY <1>1, <1>2, SeqInduction
<1> QED
    BY <1>3

(* Only the elements of the sequence matter to the set to keep.            *)
LEMMA SelectAlike ==
    ASSUME NEW T, NEW s \in Seq(T), NEW A, NEW B, T \cap A = T \cap B
    PROVE  Select(s, A) = Select(s, B)
<1> DEFINE S == {q \in Seq(T) : Select(q, A) = Select(q, B)}
<1>1. <<>> \in S
    BY SelectEmpty
<1>2. ASSUME NEW q \in Seq(T), NEW e \in T, q \in S PROVE Append(q, e) \in S
  <2>1. Select(Append(q, e), A) = IF e \in A THEN Append(Select(q, A), e) ELSE Select(q, A)
      BY SelectAppend
  <2>2. Select(Append(q, e), B) = IF e \in B THEN Append(Select(q, B), e) ELSE Select(q, B)
      BY SelectAppend
  <2>3. Select(q, A) = Select(q, B) /\ (e \in A <=> e \in B)
      BY <1>2
  <2>4. Select(Append(q, e), A) = Select(Append(q, e), B)
      BY <2>1, <2>2, <2>3
  <2> QED
      BY <2>4
<1>3. Seq(T) \subseteq S
  <2> HIDE DEF S
  <2> QED
      BY <1>1, <1>2, SeqInduction
<1> QED
    BY <1>3

(* Nothing is kept where no element is one to keep.                        *)
LEMMA SelectNone ==
    ASSUME NEW T, NEW s \in Seq(T), NEW keep
    PROVE  Select(s, keep) = <<>> <=> \A i \in DOMAIN s : s[i] \notin keep
<1> DEFINE S == {q \in Seq(T) : Select(q, keep) = <<>> <=> \A i \in DOMAIN q : q[i] \notin keep}
<1>1. <<>> \in S
    BY SelectEmpty
<1>2. ASSUME NEW q \in Seq(T), NEW e \in T, q \in S PROVE Append(q, e) \in S
  <2>1. Select(Append(q, e), keep) = IF e \in keep THEN Append(Select(q, keep), e) ELSE Select(q, keep)
      BY SelectAppend
  <2>2. Select(q, keep) \in Seq(T)
    <3>1. Select(q, keep) \in Seq(T \cap keep)
        BY SelectSeqs
    <3> QED
        BY <3>1
  <2>3. Append(Select(q, keep), e) # <<>> /\ Append(q, e) \in Seq(T)
      BY <2>2, AppendProperties
  <2>4. (\A i \in DOMAIN Append(q, e) : Append(q, e)[i] \notin keep)
            <=> (e \notin keep /\ \A i \in DOMAIN q : q[i] \notin keep)
    <3>1. Append(q, e) \in Seq(T) /\ Len(Append(q, e)) = Len(q) + 1 /\ Append(q, e)[Len(q) + 1] = e
          /\ \A i \in 1 .. Len(q) : Append(q, e)[i] = q[i]
        OBVIOUS
    <3>2. DOMAIN Append(q, e) = 1 .. Len(q) + 1 /\ DOMAIN q = 1 .. Len(q) /\ Len(q) \in Nat
        BY <3>1
    <3> QED
        BY <3>1, <3>2
  <2>5. Select(Append(q, e), keep) = <<>> <=> \A i \in DOMAIN Append(q, e) : Append(q, e)[i] \notin keep
      BY <1>2, <2>1, <2>3, <2>4
  <2> QED
      BY <2>3, <2>5
<1>3. Seq(T) \subseteq S
  <2> HIDE DEF S
  <2> QED
      BY <1>1, <1>2, SeqInduction
<1> QED
    BY <1>3

-----------------------------------------------------------------------------
(* NAL units, their types, and the parameter sets among them.              *)

Nals == Seq(0 .. 255)
VpsType == 32
SpsType(c) == IF c = "h264" THEN 7 ELSE 33
PpsType(c) == IF c = "h264" THEN 8 ELSE 34
CodecNames == {"h264", "h265"}
KnownSets(c) == [vps : NALs(c, {VpsType}) \cup {None},
                 sps : NALs(c, {SpsType(c)}) \cup {None},
                 pps : NALs(c, {PpsType(c)}) \cup {None}]

(* Units of a type in both sets are those of a type in either.             *)
LEMMA TypesMeet ==
    ASSUME NEW c, NEW A, NEW B
    PROVE  NALs(c, A) \cap NALs(c, B) = NALs(c, A \cap B)
    BY DEF NALs, Is

(* How the type sets of a codec lie to each other.                         *)
LEMMA SetsAreOthers ==
    ASSUME NEW c \in CodecNames
    PROVE  /\ SafeTypes(c) \cap ((0 .. 63) \ SetTypes(c)) = SafeTypes(c) \ SetTypes(c)
           /\ \A t \in SetTypes(c) : SafeTypes(c) \cap {t} = {t}
           /\ \A t \in SetTypes(c) : ((0 .. 63) \ SetTypes(c)) \cap {t} = {}
           /\ ((0 .. 63) \ SetTypes(c)) \cap ((0 .. 63) \ SetTypes(c)) = (0 .. 63) \ SetTypes(c)
           /\ ((0 .. 63) \ SetTypes(c)) \cap SetTypes(c) = {}
           /\ SpsType(c) \in SetTypes(c) /\ PpsType(c) \in SetTypes(c)
           /\ c = "h265" => VpsType \in SetTypes(c)
           /\ SpsType(c) # PpsType(c) /\ SpsType(c) # VpsType /\ PpsType(c) # VpsType
    BY DEF CodecNames, SafeTypes, SafeTypes264, SafeTypes265, PictureTypes, SetTypes,
       SpsType, PpsType, VpsType

(* An access unit has a unit of some types where one is kept.              *)
LEMMA HasSome ==
    ASSUME NEW c, NEW au \in Seq(Nals), NEW types
    PROVE  Has(c, au, types) <=> Select(au, NALs(c, types)) # <<>>
<1>1. Select(au, NALs(c, types)) = <<>> <=> \A i \in DOMAIN au : au[i] \notin NALs(c, types)
    BY SelectNone
<1>2. \A i \in DOMAIN au : au[i] \in NALs(c, types) <=> Is(c, au[i], types)
    BY DEF NALs, Nals
<1> QED
    BY <1>1, <1>2 DEF Has

(* Of one element, that one or nothing.                                    *)
LEMMA SelectSingle ==
    ASSUME NEW T, NEW e \in T, NEW keep
    PROVE  Select(<<e>>, keep) = IF e \in keep THEN <<e>> ELSE <<>>
<1>1. <<e>> = Append(<<>>, e) /\ <<>> \in Seq(T)
    OBVIOUS
<1>2. Select(Append(<<>>, e), keep) = IF e \in keep THEN Append(Select(<<>>, keep), e) ELSE Select(<<>>, keep)
    BY <1>1, SelectAppend
<1>3. Select(<<>>, keep) = <<>>
    BY SelectEmpty
<1> QED
    BY <1>1, <1>2, <1>3

(* The latest unit of a type is of that type, or the one known before.     *)
LEMMA LatestOfType ==
    ASSUME NEW c, NEW au \in Seq(Nals), NEW t, NEW before
    PROVE  Latest(c, au, t, before) \in NALs(c, {t}) \cup {before}
<1> DEFINE of == Select(au, NALs(c, {t}))
<1>1. of \in Seq(Nals \cap NALs(c, {t}))
    BY SelectSeqs
<1> HIDE DEF of
<1>2. of # <<>> => of[Len(of)] \in Nals \cap NALs(c, {t})
  <2>1. of # <<>> => Len(of) \in 1 .. Len(of)
      BY <1>1, EmptySeq, LenProperties
  <2> QED
      BY <1>1, <2>1, ElementOfSeq
<1> QED
    BY <1>2 DEF Latest, of

(* Tracking knows parameter sets of the right types.                       *)
LEMMA TrackKnown ==
    ASSUME NEW c \in CodecNames, NEW au \in Seq(Nals), NEW before \in KnownSets(c)
    PROVE  track(c, au, before) \in KnownSets(c)
<1>1. /\ before.vps \in NALs(c, {VpsType}) \cup {None}
      /\ before.sps \in NALs(c, {SpsType(c)}) \cup {None}
      /\ before.pps \in NALs(c, {PpsType(c)}) \cup {None}
    BY DEF KnownSets
<1>2. Latest(c, au, SpsType(c), before.sps) \in NALs(c, {SpsType(c)}) \cup {None}
    BY <1>1, LatestOfType
<1>3. Latest(c, au, PpsType(c), before.pps) \in NALs(c, {PpsType(c)}) \cup {None}
    BY <1>1, LatestOfType
<1>4. Latest(c, au, 32, before.vps) \in NALs(c, {VpsType}) \cup {None}
    BY <1>1, LatestOfType DEF VpsType
<1> QED
    BY <1>1, <1>2, <1>3, <1>4 DEF track, KnownSets, SpsType, PpsType

(* The filter takes no parameter set away from tracking.                   *)
LEMMA KeptTracks ==
    ASSUME NEW c \in CodecNames, NEW au \in Seq(Nals), NEW before
    PROVE  track(c, Select(au, NALs(c, SafeTypes(c))), before) = track(c, au, before)
<1> DEFINE kept == Select(au, NALs(c, SafeTypes(c)))
<1>1. \A t \in SetTypes(c) : Select(kept, NALs(c, {t})) = Select(au, NALs(c, {t}))
  <2> TAKE t \in SetTypes(c)
  <2>1. Select(kept, NALs(c, {t})) = Select(au, NALs(c, SafeTypes(c)) \cap NALs(c, {t}))
    <3> DEFINE A == NALs(c, SafeTypes(c))
    <3> DEFINE B == NALs(c, {t})
    <3> HIDE DEF A, B
    <3>1. Select(Select(au, A), B) = Select(au, A \cap B)
        BY SelectSelect
    <3> QED
        BY <3>1 DEF A, B
  <2>2. NALs(c, SafeTypes(c)) \cap NALs(c, {t}) = NALs(c, {t})
      BY TypesMeet, SetsAreOthers
  <2> QED
      BY <2>1, <2>2
<1> HIDE DEF kept
<1>2. \A t \in SetTypes(c) : \A b : Latest(c, kept, t, b) = Latest(c, au, t, b)
    BY <1>1 DEF Latest
<1>3. CASE c = "h264"
  <2>1. 7 \in SetTypes(c) /\ 8 \in SetTypes(c)
      BY <1>3 DEF SetTypes
  <2> QED
      BY <1>2, <1>3, <2>1 DEF track, kept
<1>4. CASE c = "h265"
  <2>1. 32 \in SetTypes(c) /\ 33 \in SetTypes(c) /\ 34 \in SetTypes(c)
      BY <1>4 DEF SetTypes
  <2> QED
      BY <1>2, <1>4, <2>1 DEF track, kept
<1> QED
    BY <1>3, <1>4 DEF CodecNames

(* Tracking the same access unit again changes nothing.                    *)
LEMMA TrackTwice ==
    ASSUME NEW c, NEW au, NEW before
    PROVE  track(c, au, track(c, au, before)) = track(c, au, before)
<1>1. \A t, b : Latest(c, au, t, Latest(c, au, t, b)) = Latest(c, au, t, b)
    BY DEF Latest
<1> QED
    BY <1>1 DEF track

(* A single unit of a type is kept where its type is.                      *)
LEMMA SelectOwn ==
    ASSUME NEW c, NEW t, NEW a \in NALs(c, {t}), NEW types
    PROVE  Select(<<a>>, NALs(c, types)) = IF t \in types THEN <<a>> ELSE <<>>
<1>1. a \in NALs(c, types) <=> t \in types
    BY DEF NALs, Is
<1>2. Select(<<a>>, NALs(c, types)) = IF a \in NALs(c, types) THEN <<a>> ELSE <<>>
    BY SelectSingle
<1> QED
    BY <1>1, <1>2

(* Complete parameter sets are units of their own types.                   *)
LEMMA FrontIsKnown ==
    ASSUME NEW c \in CodecNames, NEW s \in KnownSets(c), Complete(c, s)
    PROVE  /\ s.sps \in NALs(c, {SpsType(c)})
           /\ s.pps \in NALs(c, {PpsType(c)})
           /\ c = "h265" => s.vps \in NALs(c, {VpsType})
           /\ InFront(c, s) \in Seq(Nals)
<1>1. /\ s.sps \in NALs(c, {SpsType(c)})
      /\ s.pps \in NALs(c, {PpsType(c)})
      /\ c = "h265" => s.vps \in NALs(c, {VpsType})
    BY DEF KnownSets, Complete
<1>2. s.sps \in Nals /\ s.pps \in Nals /\ (c = "h265" => s.vps \in Nals)
    BY <1>1 DEF NALs, Nals
<1> HIDE DEF Nals
<1>3. InFront(c, s) \in Seq(Nals)
    BY <1>2 DEF InFront, CodecNames
<1> QED
    BY <1>1, <1>3

(* One element more, as a concatenation.                                   *)
LEMMA SelectPair ==
    ASSUME NEW T, NEW s \in Seq(T), NEW e \in T, NEW keep
    PROVE  Select(s \o <<e>>, keep) = Select(s, keep) \o Select(<<e>>, keep)
<1> DEFINE q == <<e>>
<1>1. q \in Seq(T)
    OBVIOUS
<1> HIDE DEF q
<1>2. Select(s \o q, keep) = Select(s, keep) \o Select(q, keep)
    BY <1>1, SelectConcat
<1> QED
    BY <1>2 DEF q

(* What is kept of the parameter sets in front, set by set.                *)
LEMMA FrontSelect ==
    ASSUME NEW c \in CodecNames, NEW s \in KnownSets(c), Complete(c, s), NEW types
    PROVE  Select(InFront(c, s), NALs(c, types)) =
              (IF c = "h265" /\ VpsType \in types THEN <<s.vps>> ELSE <<>>)
                 \o (IF SpsType(c) \in types THEN <<s.sps>> ELSE <<>>)
                 \o (IF PpsType(c) \in types THEN <<s.pps>> ELSE <<>>)
<1>1. /\ s.sps \in NALs(c, {SpsType(c)})
      /\ s.pps \in NALs(c, {PpsType(c)})
      /\ c = "h265" => s.vps \in NALs(c, {VpsType})
    BY FrontIsKnown
<1>2. s.sps \in Nals /\ s.pps \in Nals /\ (c = "h265" => s.vps \in Nals)
    BY <1>1 DEF NALs, Nals
<1> DEFINE K == NALs(c, types)
<1>3. Select(<<s.sps>>, K) = IF SpsType(c) \in types THEN <<s.sps>> ELSE <<>>
    BY <1>1, SelectOwn
<1>4. Select(<<s.pps>>, K) = IF PpsType(c) \in types THEN <<s.pps>> ELSE <<>>
    BY <1>1, SelectOwn
<1>5. c = "h265" => Select(<<s.vps>>, K) = IF VpsType \in types THEN <<s.vps>> ELSE <<>>
    BY <1>1, SelectOwn
<1> HIDE DEF K, Nals
<1>6. <<s.sps>> \in Seq(Nals) /\ <<s.pps>> \in Seq(Nals)
    BY <1>2
<1>7. CASE c = "h264"
  <2>1. InFront(c, s) = <<s.sps>> \o <<s.pps>>
      BY <1>7 DEF InFront
  <2>2. Select(<<s.sps>> \o <<s.pps>>, K) = Select(<<s.sps>>, K) \o Select(<<s.pps>>, K)
      BY <1>2, <1>6, SelectPair, Zenon
  <2>3. <<>> \o Select(<<s.sps>>, K) = Select(<<s.sps>>, K)
      BY <1>3
  <2> QED
      BY <1>3, <1>4, <1>7, <2>1, <2>2, <2>3 DEF K
<1>8. CASE c = "h265"
  <2>1. InFront(c, s) = (<<s.vps>> \o <<s.sps>>) \o <<s.pps>>
      BY <1>8 DEF InFront
  <2>2. <<s.vps>> \in Seq(Nals) /\ s.vps \in Nals /\ <<s.vps>> \o <<s.sps>> \in Seq(Nals)
      BY <1>2, <1>8
  <2>3. Select((<<s.vps>> \o <<s.sps>>) \o <<s.pps>>, K) = Select(<<s.vps>> \o <<s.sps>>, K) \o Select(<<s.pps>>, K)
      BY <1>2, <1>6, <1>8, <2>2, SelectPair, Zenon
  <2>4. Select(<<s.vps>> \o <<s.sps>>, K) = Select(<<s.vps>>, K) \o Select(<<s.sps>>, K)
      BY <1>2, <1>6, <1>8, <2>2, SelectPair, Zenon
  <2> QED
      BY <1>3, <1>4, <1>5, <1>8, <2>1, <2>3, <2>4 DEF K
<1> QED
    BY <1>7, <1>8 DEF CodecNames

(* A keyframe with parameter sets in front is read back with those sets.   *)
LEMMA FrontLatest ==
    ASSUME NEW c \in CodecNames, NEW s \in KnownSets(c), Complete(c, s),
           NEW passed \in Seq(Nals), isKeyframeAU(c, passed), NEW b
    PROVE  /\ Latest(c, ensureSets(c, passed, s), SpsType(c), b) = s.sps
           /\ Latest(c, ensureSets(c, passed, s), PpsType(c), b) = s.pps
           /\ c = "h265" => Latest(c, ensureSets(c, passed, s), VpsType, b) = s.vps
<1> DEFINE au == ensureSets(c, passed, s)
<1>0. au = InFront(c, s) \o Rest(c, passed)
    BY DEF ensureSets
<1> HIDE DEF au
<1>1. InFront(c, s) \in Seq(Nals)
    BY FrontIsKnown
<1>2. Rest(c, passed) \in Seq(Nals)
  <2>1. Rest(c, passed) \in Seq(Nals \cap NALs(c, (0 .. 63) \ SetTypes(c)))
      BY SelectSeqs DEF Rest
  <2> QED
      BY <2>1, SeqMonotonic
<1>3. \A t \in SetTypes(c) : Select(Rest(c, passed), NALs(c, {t})) = <<>>
  <2> TAKE t \in SetTypes(c)
  <2> DEFINE A == NALs(c, (0 .. 63) \ SetTypes(c))
  <2> DEFINE B == NALs(c, {t})
  <2>1. A \cap B = {}
    <3>1. A \cap B = NALs(c, {})
        BY TypesMeet, SetsAreOthers
    <3> QED
        BY <3>1 DEF NALs, Is
  <2>2. Rest(c, passed) = Select(passed, A)
      BY DEF Rest
  <2> HIDE DEF A, B
  <2>3. Select(Select(passed, A), B) = Select(passed, {})
      BY <2>1, SelectSelect
  <2>4. Select(passed, {}) = <<>>
      BY SelectNone
  <2> QED
      BY <2>2, <2>3, <2>4 DEF B
<1>4. \A t \in SetTypes(c) : Select(au, NALs(c, {t})) = Select(InFront(c, s), NALs(c, {t})) \o <<>>
  <2> TAKE t \in SetTypes(c)
  <2> DEFINE B == NALs(c, {t})
  <2>1. Select(Rest(c, passed), B) = <<>>
      BY <1>3
  <2> HIDE DEF B
  <2>2. Select(InFront(c, s) \o Rest(c, passed), B) = Select(InFront(c, s), B) \o Select(Rest(c, passed), B)
      BY <1>1, <1>2, SelectConcat
  <2> QED
      BY <1>0, <2>1, <2>2 DEF B
<1>5. /\ SpsType(c) \in SetTypes(c) /\ PpsType(c) \in SetTypes(c)
      /\ c = "h265" => VpsType \in SetTypes(c)
      /\ SpsType(c) # PpsType(c) /\ SpsType(c) # VpsType /\ PpsType(c) # VpsType
    BY SetsAreOthers
<1>6. Select(au, NALs(c, {SpsType(c)})) = <<s.sps>>
  <2>1. Select(InFront(c, s), NALs(c, {SpsType(c)})) = <<>> \o <<s.sps>> \o <<>>
      BY <1>5, FrontSelect
  <2> QED
      BY <1>4, <1>5, <2>1
<1>7. Select(au, NALs(c, {PpsType(c)})) = <<s.pps>>
  <2>1. Select(InFront(c, s), NALs(c, {PpsType(c)})) = <<>> \o <<>> \o <<s.pps>>
      BY <1>5, FrontSelect
  <2> QED
      BY <1>4, <1>5, <2>1
<1>8. c = "h265" => Select(au, NALs(c, {VpsType})) = <<s.vps>>
  <2> SUFFICES ASSUME c = "h265" PROVE Select(au, NALs(c, {VpsType})) = <<s.vps>>
      OBVIOUS
  <2>1. Select(InFront(c, s), NALs(c, {VpsType})) = <<s.vps>> \o <<>> \o <<>>
      BY <1>5, FrontSelect
  <2> QED
      BY <1>4, <1>5, <2>1
<1>9. ASSUME NEW t, NEW x, Select(au, NALs(c, {t})) = <<x>> PROVE Latest(c, au, t, b) = x
  <2> DEFINE of == <<x>>
  <2>1. of # <<>> /\ of[Len(of)] = x
      OBVIOUS
  <2> HIDE DEF of
  <2>2. Select(au, NALs(c, {t})) = of
      BY <1>9 DEF of
  <2> QED
      BY <2>1, <2>2 DEF Latest
<1> QED
    BY <1>6, <1>7, <1>8, <1>9 DEF au

(* What is left without parameter sets has none in it.                     *)
LEMMA RestIsSequence ==
    ASSUME NEW c, NEW au \in Seq(Nals)
    PROVE  /\ Rest(c, au) \in Seq(Nals)
           /\ \A i \in DOMAIN Rest(c, au) : Rest(c, au)[i] \in NALs(c, (0 .. 63) \ SetTypes(c))
<1> DEFINE A == NALs(c, (0 .. 63) \ SetTypes(c))
<1>1. Select(au, A) \in Seq(Nals \cap A)
    BY SelectSeqs
<1>2. Rest(c, au) = Select(au, A)
    BY DEF Rest
<1> HIDE DEF A
<1>3. DOMAIN Rest(c, au) = 1 .. Len(Rest(c, au))
    BY <1>1, <1>2
<1>4. Rest(c, au) \in Seq(Nals)
    BY <1>1, <1>2, SeqMonotonic
<1>5. \A i \in DOMAIN Rest(c, au) : Rest(c, au)[i] \in A
    BY <1>1, <1>2, <1>3, ElementOfSeq
<1> QED
    BY <1>4, <1>5 DEF A

(* Without the parameter sets in front the rest is what it was.            *)
LEMMA RestOfFront ==
    ASSUME NEW c \in CodecNames, NEW s \in KnownSets(c), Complete(c, s), NEW passed \in Seq(Nals)
    PROVE  Rest(c, InFront(c, s) \o Rest(c, passed)) = Rest(c, passed)
<1> DEFINE A == NALs(c, (0 .. 63) \ SetTypes(c))
<1>1. InFront(c, s) \in Seq(Nals) /\ Rest(c, passed) \in Seq(Nals)
    BY FrontIsKnown, RestIsSequence
<1>2. Select(InFront(c, s), A) = <<>>
  <2>1. /\ SpsType(c) \notin (0 .. 63) \ SetTypes(c) /\ PpsType(c) \notin (0 .. 63) \ SetTypes(c)
        /\ c = "h265" => VpsType \notin (0 .. 63) \ SetTypes(c)
      BY SetsAreOthers
  <2>2. Select(InFront(c, s), A) = <<>> \o <<>> \o <<>>
      BY <2>1, FrontSelect
  <2> QED
      BY <2>2
<1>3. \A au : Rest(c, au) = Select(au, A)
    BY DEF Rest
<1> HIDE DEF A
<1>4. Select(Select(passed, A), A) = Select(passed, A \cap A)
    BY SelectSelect
<1>5. A \cap A = A
    OBVIOUS
<1>6. Select(InFront(c, s) \o Rest(c, passed), A) = Select(InFront(c, s), A) \o Select(Rest(c, passed), A)
    BY <1>1, SelectConcat
<1>7. Select(Rest(c, passed), A) = Rest(c, passed)
    BY <1>3, <1>4, <1>5
<1>8. <<>> \o Rest(c, passed) = Rest(c, passed)
    BY <1>1
<1> QED
    BY <1>2, <1>3, <1>6, <1>7, <1>8

-----------------------------------------------------------------------------
(* The invariant of the relay.                                             *)

(* Each parameter set is a unit of its own type.                           *)
Learned == sets \in KnownSets(codec)
(* What is relayed is what the filter has let through, with the parameter  *)
(* sets as they were learned from it.                                      *)
Relayed ==
    pc = "relayed" =>
        LET kept == filterNALUs(codec, in)
        IN  /\ hasVCL(codec, kept)
            /\ track(codec, kept, sets) = sets
            /\ out = ensureSets(codec, kept, sets)
RelayInv == codec \in Codecs /\ in \in Seq(Nals) /\ Learned /\ Relayed

(* The units of a camera are bytes.                                        *)
LEMMA UnitsAreNals ==
    ASSUME NEW c \in Codecs, NEW n \in UnitsOf(c) PROVE n \in Nals
    BY UnitsAssumption DEF Units, Nals

(* A bounded sequence is a sequence.                                       *)
LEMMA BoundedIsSeq ==
    ASSUME NEW T, NEW S, S \subseteq T, NEW n \in Nat, NEW s \in BoundedSeq(S, n)
    PROVE  s \in Seq(T)
<1>1. PICK m \in 0 .. n : s \in [1 .. m -> S]
    BY DEF BoundedSeq, SeqOf
<1>2. s \in [1 .. m -> T]
    BY <1>1
<1> QED
    BY <1>2

(* What the filter lets through is an access unit.                         *)
LEMMA FilterIsSequence ==
    ASSUME NEW c, NEW au \in Seq(Nals) PROVE filterNALUs(c, au) \in Seq(Nals)
<1> DEFINE A == NALs(c, SafeTypes(c))
<1>1. Select(au, A) \in Seq(Nals \cap A)
    BY SelectSeqs
<1>2. Select(au, A) \in Seq(Nals) /\ <<>> \in Seq(Nals)
    BY <1>1, SeqMonotonic, EmptySeq
<1> QED
    BY <1>2 DEF filterNALUs

(* The invariant holds at the start.                                       *)
LEMMA RelayStarts == Init => RelayInv
<1> SUFFICES ASSUME Init PROVE RelayInv
    OBVIOUS
<1>1. in \in Seq(Nals) /\ codec \in Codecs
    BY EmptySeq DEF Init, Blank
<1>2. Learned /\ Relayed
    BY DEF Init, Learned, Relayed, KnownSets, NoSets
<1> QED
    BY <1>1, <1>2 DEF RelayInv

(* Every step keeps it.                                                    *)
LEMMA RelayStep == RelayInv /\ [Next]_vars => RelayInv'
<1> SUFFICES ASSUME RelayInv, [Next]_vars PROVE RelayInv'
    OBVIOUS
<1>0. codec \in Codecs /\ codec \in CodecNames /\ MaxUnits \in Nat /\ MaxEncoded \in Nat
    BY UnitsAssumption DEF RelayInv, CodecNames
<1>1. ASSUME Encode PROVE RelayInv'
  <2>1. in' \in Seq(Nals)
    <3> DEFINE S == {n \in UnitsOf(codec) : ~Short(codec, n)}
    <3>1. S \subseteq Nals
        BY <1>0, UnitsAreNals
    <3>2. in' \in BoundedSeq(S, MaxEncoded)
        BY <1>1 DEF Encode
    <3> HIDE DEF S
    <3> QED
        BY <1>0, <3>1, <3>2, BoundedIsSeq
  <2> QED
      BY <1>1, <2>1 DEF Encode, RelayInv, Learned, Relayed
<1>2. ASSUME ReadForeign PROVE RelayInv'
    BY <1>2 DEF ReadForeign, RelayInv, Learned, Relayed
<1>3. ASSUME Connect PROVE RelayInv'
  <2>1. PICK announced \in BoundedSeq({n \in UnitsOf(codec) : Is(codec, n, SetTypes(codec))}, 3) :
           sets' = paramSets(codec, announced)
      BY <1>3 DEF Connect
  <2>2. announced \in Seq(Nals)
    <3> DEFINE S == {n \in UnitsOf(codec) : Is(codec, n, SetTypes(codec))}
    <3>1. S \subseteq Nals
        BY <1>0, UnitsAreNals
    <3> HIDE DEF S
    <3>2. announced \in BoundedSeq(S, 3)
        BY DEF S
    <3> QED
        BY <3>1, <3>2, BoundedIsSeq
  <2>3. NoSets \in KnownSets(codec)
      BY DEF NoSets, KnownSets
  <2>4. sets' \in KnownSets(codec)
      BY <1>0, <2>1, <2>2, <2>3, TrackKnown DEF paramSets
  <2> QED
      BY <1>3, <2>4 DEF Connect, RelayInv, Learned, Relayed
<1>4. ASSUME Receive PROVE RelayInv'
  <2>1. in' \in Seq(Nals)
    <3>1. UnitsOf(codec) \subseteq Nals
        BY <1>0, UnitsAreNals
    <3>2. in' \in BoundedSeq(UnitsOf(codec), MaxUnits)
        BY <1>4 DEF Receive, AUs
    <3> QED
        BY <1>0, <3>1, <3>2, BoundedIsSeq
  <2> DEFINE kept == filterNALUs(codec, in')
  <2>2. kept \in Seq(Nals)
      BY <2>1, FilterIsSequence
  <2>3. CASE hasVCL(codec, kept) /\ (seen \/ isKeyframeAU(codec, kept))
    <3>1. /\ pc' = "relayed" /\ codec' = codec
          /\ sets' = track(codec, kept, sets)
          /\ out' = ensureSets(codec, kept, sets')
        BY <1>4, <2>3 DEF Receive
    <3>2. sets' \in KnownSets(codec)
        BY <1>0, <2>2, <3>1, TrackKnown DEF RelayInv, Learned
    <3>3. track(codec, kept, sets') = sets'
        BY <3>1, TrackTwice
    <3> QED
        BY <2>1, <2>3, <3>1, <3>2, <3>3 DEF RelayInv, Learned, Relayed
  <2>4. CASE ~(hasVCL(codec, kept) /\ (seen \/ isKeyframeAU(codec, kept)))
    <3>1. pc' = "dropped" /\ codec' = codec /\ sets' = sets
        BY <1>4, <2>4 DEF Receive
    <3> QED
        BY <2>1, <3>1 DEF RelayInv, Learned, Relayed
  <2> QED
      BY <2>3, <2>4
<1>5. ASSUME Return PROVE RelayInv'
  <2>1. in' \in Seq(Nals)
      BY <1>5, EmptySeq DEF Return
  <2> QED
      BY <1>5, <2>1 DEF Return, RelayInv, Learned, Relayed
<1>6. ASSUME Stall PROVE RelayInv'
    BY <1>6 DEF Stall, RelayInv, Learned, Relayed
<1>7. ASSUME UNCHANGED vars PROVE RelayInv'
    BY <1>7 DEF vars, RelayInv, Learned, Relayed
<1> QED
    BY <1>1, <1>2, <1>3, <1>4, <1>5, <1>6, <1>7 DEF Next

(* So it always holds.                                                     *)
LEMMA RelayAlways == Spec => []RelayInv
    BY RelayStarts, RelayStep, PTL DEF Spec

(* What is relayed has come through the whole filter.                      *)
LEMMA RelayedFromFilter ==
    ASSUME RelayInv, pc = "relayed"
    PROVE  /\ ~(codec = "h264" /\ Has(codec, in, 2 .. 4))
           /\ filterNALUs(codec, in) = Select(in, NALs(codec, SafeTypes(codec)))
<1>1. hasVCL(codec, filterNALUs(codec, in))
    BY DEF RelayInv, Relayed
<1>2. ~Has(codec, <<>>, PictureTypes(codec))
    BY DEF Has
<1>3. filterNALUs(codec, in) # <<>>
    BY <1>1, <1>2 DEF hasVCL
<1> QED
    BY <1>3 DEF filterNALUs

(* PictureKept: the filter and the normalisation of the packet callback    *)
(* lose and move nothing of a picture, and a partitioned one is not        *)
(* relayed, for any units of a camera and access units of any length.      *)
THEOREM PictureAlwaysKept == Spec => []PictureKept
<1>1. ASSUME RelayInv PROVE PictureKept
  <2> SUFFICES ASSUME pc = "relayed"
               PROVE  /\ ~(codec = "h264" /\ Has(codec, in, 2 .. 4))
                      /\ Rest(codec, out) = Select(in, NALs(codec, SafeTypes(codec) \ SetTypes(codec)))
      BY DEF PictureKept
  <2> DEFINE kept == filterNALUs(codec, in)
  <2> DEFINE A == NALs(codec, SafeTypes(codec))
  <2> DEFINE B == NALs(codec, (0 .. 63) \ SetTypes(codec))
  <2>1. codec \in CodecNames /\ in \in Seq(Nals) /\ kept \in Seq(Nals)
      BY <1>1, UnitsAssumption, FilterIsSequence DEF RelayInv, CodecNames
  <2>2. ~(codec = "h264" /\ Has(codec, in, 2 .. 4)) /\ kept = Select(in, A)
      BY <1>1, RelayedFromFilter
  <2>3. out = ensureSets(codec, kept, sets) /\ sets \in KnownSets(codec)
      BY <1>1 DEF RelayInv, Relayed, Learned
  <2>4. Rest(codec, out) = Rest(codec, kept)
      BY <2>1, <2>3, RestOfFront DEF ensureSets
  <2>5. Rest(codec, kept) = Select(kept, B)
      BY DEF Rest
  <2>6. A \cap B = NALs(codec, SafeTypes(codec) \ SetTypes(codec))
      BY <2>1, TypesMeet, SetsAreOthers
  <2> HIDE DEF A, B, kept
  <2>7. Select(Select(in, A), B) = Select(in, A \cap B)
      BY <2>1, SelectSelect
  <2> QED
      BY <2>2, <2>4, <2>5, <2>6, <2>7
<1> QED
    BY <1>1, RelayAlways, PTL

(* OwnSetsWin: a relayed keyframe carries the parameter sets that came     *)
(* with it, not those of an earlier one, and once all are known they are   *)
(* at its head, each once.  The callback tracks before it prepends.        *)
THEOREM OwnSetsAlwaysWin == Spec => []OwnSetsWin
<1>1. ASSUME RelayInv PROVE OwnSetsWin
  <2> SUFFICES ASSUME Key PROVE OwnSetsWin
      BY DEF OwnSetsWin
  <2>0. codec \in CodecNames /\ in \in Seq(Nals) /\ sets \in KnownSets(codec)
      BY <1>1, UnitsAssumption DEF RelayInv, CodecNames, Learned
  <2>1. PICK kept \in Seq(Nals) : kept = filterNALUs(codec, in)
      BY <2>0, FilterIsSequence
  <2>2. kept = Select(in, NALs(codec, SafeTypes(codec)))
      BY <1>1, <2>1, RelayedFromFilter DEF Key
  <2>3. track(codec, kept, sets) = sets /\ out = ensureSets(codec, kept, sets)
      BY <1>1, <2>1 DEF RelayInv, Relayed, Key
  <2> DEFINE front == InFront(codec, sets)
  <2> DEFINE rest == Rest(codec, kept)
  <2>4. \A b : track(codec, kept, b) = track(codec, in, b)
      BY <2>0, <2>2, KeptTracks
  <2>5. track(codec, in, sets) = sets
      BY <2>3, <2>4
  <2>6. CASE Complete(codec, sets) /\ isKeyframeAU(codec, kept)
    <3>1. out = front \o rest
        BY <2>3, <2>6 DEF ensureSets
    <3>2. front \in Seq(Nals) /\ rest \in Seq(Nals)
        BY <2>0, <2>6, FrontIsKnown, RestIsSequence
    <3>3. paramSets(codec, out) = track(codec, in, paramSets(codec, out))
      <4> DEFINE p == paramSets(codec, out)
      <4>1. \A b : /\ Latest(codec, out, SpsType(codec), b) = sets.sps
                   /\ Latest(codec, out, PpsType(codec), b) = sets.pps
                   /\ codec = "h265" => Latest(codec, out, VpsType, b) = sets.vps
        <5> HIDE DEF p
        <5> QED
            BY <2>0, <2>3, <2>6, FrontLatest
      <4>2. p = [vps |-> IF codec = "h265" THEN sets.vps ELSE None, sps |-> sets.sps, pps |-> sets.pps]
          BY <4>1 DEF paramSets, track, NoSets, SpsType, PpsType, VpsType
      <4>3. /\ track(codec, in, sets).sps = sets.sps
            /\ track(codec, in, sets).pps = sets.pps
            /\ track(codec, in, sets).vps = sets.vps
          BY <2>5
      <4> HIDE DEF p
      <4>4. track(codec, in, p) = p
          BY <4>2, <4>3 DEF track
      <4> QED
          BY <4>4 DEF p
    <3>4. SubSeq(out, 1, Len(front)) = front /\ SubSeq(out, Len(front) + 1, Len(out)) = rest
      <4> HIDE DEF front, rest
      <4> QED
          BY <3>1, <3>2
    <3>5. ~Has(codec, rest, SetTypes(codec))
      <4>1. \A i \in DOMAIN rest : rest[i] \in NALs(codec, (0 .. 63) \ SetTypes(codec))
          BY RestIsSequence
      <4> QED
          BY <4>1 DEF Has, NALs, Is
    <3> QED
        BY <2>5, <3>3, <3>4, <3>5 DEF OwnSetsWin
  <2>7. CASE ~(Complete(codec, sets) /\ isKeyframeAU(codec, kept))
    <3>1. out = kept
        BY <2>3, <2>7 DEF ensureSets
    <3>2. ~Complete(codec, sets)
        BY <2>7, <3>1 DEF Key
    <3>3. paramSets(codec, out) = track(codec, in, NoSets)
        BY <2>4, <3>1 DEF paramSets
    <3>4. track(codec, in, paramSets(codec, out)) = paramSets(codec, out)
        BY <3>3, TrackTwice
    <3> QED
        BY <2>5, <3>2, <3>4 DEF OwnSetsWin
  <2> QED
      BY <2>6, <2>7
<1> QED
    BY <1>1, RelayAlways, PTL

-----------------------------------------------------------------------------
(* A function built step by step, and FlattenSeq, which is one.            *)

(* f is a run of the steps from the first value.                           *)
Steps(f, size, vals, base, steps) ==
    /\ f \in [0 .. size -> vals] /\ f[0] = base
    /\ \A i \in 1 .. size : f[i] = steps[i][f[i - 1]]

(* A function given by what it is at 0 and how each value follows from the *)
(* one before it.                                                          *)
LEMMA Recursion ==
    ASSUME NEW size \in Nat, NEW vals, NEW base \in vals, NEW steps \in [1 .. size -> [vals -> vals]]
    PROVE  \E f : Steps(f, size, vals, base, steps)
<1> DEFINE Upto(m, f) == Steps(f, m, vals, base, steps)
<1> DEFINE L == {m \in Nat : m <= size => \E f : Upto(m, f)}
<1>1. 0 \in L
  <2>1. Upto(0, [i \in 0 .. 0 |-> base])
      BY DEF Steps
  <2> QED
      BY <2>1
<1>2. ASSUME NEW m \in Nat, m \in L PROVE m + 1 \in L
  <2> SUFFICES ASSUME m + 1 <= size PROVE \E f : Upto(m + 1, f)
      OBVIOUS
  <2>1. PICK f : Upto(m, f)
      BY <1>2
  <2> DEFINE e == steps[m + 1][f[m]]
  <2>2. e \in vals
      BY <2>1 DEF Steps
  <2> DEFINE g == [i \in 0 .. m + 1 |-> IF i <= m THEN f[i] ELSE e]
  <2>3. g \in [0 .. m + 1 -> vals] /\ g[0] = base
      BY <2>1, <2>2 DEF Steps
  <2>4. \A i \in 1 .. m + 1 : g[i] = steps[i][g[i - 1]]
    <3> TAKE i \in 1 .. m + 1
    <3>1. CASE i <= m
      <4>1. i \in 1 .. m /\ i - 1 \in 0 .. m /\ i \in 0 .. m
          BY <3>1
      <4>2. g[i] = f[i] /\ g[i - 1] = f[i - 1]
          BY <4>1
      <4>3. f[i] = steps[i][f[i - 1]]
          BY <2>1, <4>1 DEF Steps
      <4> QED
          BY <4>2, <4>3
    <3>2. CASE i = m + 1
      <4>1. g[i] = e /\ i - 1 = m /\ g[m] = f[m]
          BY <3>2
      <4> QED
          BY <3>2, <4>1
    <3> QED
        BY <3>1, <3>2
  <2> HIDE DEF g
  <2> QED
      BY <2>3, <2>4 DEF Steps
<1>3. Nat \subseteq L
  <2> HIDE DEF L
  <2> QED
      BY <1>1, <1>2, SetInduction
<1> QED
    BY <1>3

(* The sums of the first sequences of a sequence.                          *)
Flat(f, s) == f = [i \in 1 .. Len(s) |-> IF i = 1 THEN s[i] ELSE f[i - 1] \o s[i]]

(* The sums of the first so many sequences of a sequence exist,            *)
LEMMA FlatExists ==
    ASSUME NEW T, NEW s \in Seq(Seq(T)) PROVE \E f : Flat(f, s)
<1> DEFINE n == Len(s)
<1> DEFINE V == Seq(T)
<1>0. n \in Nat /\ (\A i \in 1 .. n : s[i] \in V) /\ <<>> \in V
    OBVIOUS
<1> HIDE DEF n
<1> DEFINE F == [i \in 1 .. n |-> [v \in V |-> v \o s[i]]]
<1>1. \A v \in V, w \in V : v \o w \in V
    BY ConcatProperties
<1>2. \A v \in V : <<>> \o v = v
    BY ConcatEmptySeq
<1> HIDE DEF V
<1>3. F \in [1 .. n -> [V -> V]]
    BY <1>0, <1>1
<1> HIDE DEF F
<1>4. PICK f : Steps(f, n, V, <<>>, F)
    BY <1>0, <1>3, Recursion
<1>5. \A i \in 1 .. n : f[i] = f[i - 1] \o s[i]
  <2> TAKE i \in 1 .. n
  <2>1. i - 1 \in 0 .. n
      BY <1>0
  <2>2. f[i - 1] \in V
      BY <1>4, <2>1 DEF Steps
  <2>3. F[i] = [v \in V |-> v \o s[i]]
      BY DEF F
  <2>4. F[i][f[i - 1]] = f[i - 1] \o s[i]
      BY <2>2, <2>3
  <2> QED
      BY <1>4, <2>4 DEF Steps
<1> DEFINE g == [i \in 1 .. n |-> f[i]]
<1> DEFINE h == [i \in 1 .. n |-> IF i = 1 THEN s[i] ELSE g[i - 1] \o s[i]]
<1>6. \A i \in 1 .. n : g[i] = h[i]
  <2> TAKE i \in 1 .. n
  <2>1. CASE i = 1
    <3>1. f[1] = f[0] \o s[1] /\ s[1] \in V
      <4>1. 1 \in 1 .. n /\ 1 - 1 = 0
          BY <2>1
      <4> QED
          BY <1>0, <1>5, <4>1
    <3> QED
        BY <1>0, <1>2, <1>4, <2>1, <3>1 DEF Steps
  <2>2. CASE i # 1
    <3>1. i - 1 \in 1 .. n
        BY <1>0, <2>2
    <3>2. g[i - 1] = f[i - 1]
        BY <3>1
    <3> QED
        BY <1>5, <2>2, <3>2
  <2> QED
      BY <2>1, <2>2
<1>7. g = h
    BY <1>6
<1> HIDE DEF g
<1>8. Flat(g, s)
    BY <1>7, Zenon DEF Flat, n
<1> QED
    BY <1>8

(* follow from each other,                                                 *)
LEMMA FlatAt ==
    ASSUME NEW s, Len(s) \in Nat, NEW f, Flat(f, s)
    PROVE  /\ Len(s) > 0 => f[1] = s[1]
           /\ \A n \in Nat : n >= 1 /\ n + 1 <= Len(s) => f[n + 1] = f[n] \o s[n + 1]
<1> DEFINE Row(i) == IF i = 1 THEN s[i] ELSE f[i - 1] \o s[i]
<1>1. \A i \in 1 .. Len(s) : f[i] = Row(i)
  <2>1. f = [i \in 1 .. Len(s) |-> Row(i)]
      BY DEF Flat
  <2> HIDE DEF Row
  <2> QED
      BY <2>1
<1>2. Len(s) > 0 => f[1] = s[1]
    BY <1>1
<1>3. ASSUME NEW n \in Nat, n >= 1, n + 1 <= Len(s)
      PROVE  f[n + 1] = f[n] \o s[n + 1]
  <2>1. n + 1 \in 1 .. Len(s) /\ n + 1 # 1 /\ (n + 1) - 1 = n
      BY <1>3
  <2>2. f[n + 1] = Row(n + 1)
      BY <1>1, <2>1
  <2> QED
      BY <2>1, <2>2
<1> QED
    BY <1>2, <1>3

(* and depend on the sequences summed alone.                               *)
LEMMA FlatAgree ==
    ASSUME NEW s, Len(s) \in Nat, NEW t, Len(t) \in Nat,
           Len(s) <= Len(t), \A n \in 1 .. Len(s) : s[n] = t[n],
           NEW f, Flat(f, s), NEW g, Flat(g, t), Len(s) > 0
    PROVE  f[Len(s)] = g[Len(s)]
<1> DEFINE L == {n \in Nat : n >= 1 /\ n <= Len(s) => f[n] = g[n]}
<1>1. 0 \in L
    OBVIOUS
<1>2. ASSUME NEW n \in Nat, n \in L PROVE n + 1 \in L
  <2> SUFFICES ASSUME n + 1 <= Len(s) PROVE f[n + 1] = g[n + 1]
      OBVIOUS
  <2>1. s[n + 1] = t[n + 1] /\ n + 1 <= Len(t)
      OBVIOUS
  <2>2. CASE n = 0
    <3>0. Len(s) > 0 /\ Len(t) > 0
        OBVIOUS
    <3>1. f[1] = s[1] /\ g[1] = t[1]
        BY <3>0, FlatAt
    <3> QED
        BY <2>1, <2>2, <3>1
  <2>3. CASE n >= 1
    <3>1. f[n] = g[n]
        BY <1>2, <2>3
    <3>2. f[n + 1] = f[n] \o s[n + 1]
        BY <2>3, FlatAt
    <3>3. g[n + 1] = g[n] \o t[n + 1]
        BY <2>1, <2>3, FlatAt
    <3> QED
        BY <2>1, <3>1, <3>2, <3>3
  <2> QED
      BY <2>2, <2>3
<1>3. Nat \subseteq L
  <2> HIDE DEF L
  <2> QED
      BY <1>1, <1>2, SetInduction
<1> QED
    BY <1>3

(* FlattenSeq is the last of them.                                         *)
LEMMA FlattenFlat ==
    ASSUME NEW T, NEW s \in Seq(Seq(T)), Len(s) > 0
    PROVE  \E f : Flat(f, s) /\ FlattenSeq(s) = f[Len(s)]
<1> DEFINE f == CHOOSE g : Flat(g, s)
<1>1. Flat(f, s)
    BY FlatExists
<1>2. FlattenSeq(s) = f[Len(s)]
    BY DEF FlattenSeq, Flat
<1> QED
    BY <1>1, <1>2

(* Nothing flattened is nothing.                                           *)
LEMMA FlattenEmpty == FlattenSeq(<<>>) = <<>>
    BY DEF FlattenSeq

(* One sequence more is put behind.                                        *)
LEMMA FlattenAppend ==
    ASSUME NEW T, NEW s \in Seq(Seq(T)), NEW e \in Seq(T)
    PROVE  FlattenSeq(Append(s, e)) = FlattenSeq(s) \o e
<1> DEFINE t == Append(s, e)
<1>1. /\ t \in Seq(Seq(T)) /\ Len(s) \in Nat /\ Len(t) = Len(s) + 1 /\ t[Len(s) + 1] = e
      /\ \A n \in 1 .. Len(s) : s[n] = t[n]
    BY AppendProperties, LenProperties
<1> HIDE DEF t
<1>0. Len(t) \in Nat /\ Len(t) > 0
    BY <1>1
<1>2. PICK g : Flat(g, t) /\ FlattenSeq(t) = g[Len(s) + 1]
    BY <1>0, <1>1, FlattenFlat
<1>3. CASE Len(s) = 0
  <2>1. s = <<>> /\ FlattenSeq(s) = <<>>
      BY <1>3, FlattenEmpty, EmptySeq
  <2>2. g[1] = t[1]
      BY <1>0, <1>1, <1>2, FlatAt
  <2>3. <<>> \o e = e
      BY ConcatEmptySeq
  <2> QED
      BY <1>1, <1>2, <1>3, <2>1, <2>2, <2>3 DEF t
<1>4. CASE Len(s) > 0
  <2>0. Len(s) <= Len(t)
      BY <1>1
  <2>1. PICK f : Flat(f, s) /\ FlattenSeq(s) = f[Len(s)]
      BY <1>4, FlattenFlat
  <2>2. f[Len(s)] = g[Len(s)]
      BY <1>0, <1>1, <1>2, <1>4, <2>1, <2>0, FlatAgree
  <2>3. g[Len(s) + 1] = g[Len(s)] \o t[Len(s) + 1]
    <3>1. Len(s) >= 1 /\ Len(s) + 1 <= Len(t)
        BY <1>1, <1>4
    <3> QED
        BY <1>0, <1>1, <1>2, <3>1, FlatAt
  <2> QED
      BY <1>1, <1>2, <2>1, <2>2, <2>3 DEF t
<1> QED
    BY <1>1, <1>3, <1>4

-----------------------------------------------------------------------------
(* Byte streams of NAL units, one unit more at a time.                     *)

(* Where all elements are to be kept, all are.                             *)
LEMMA SelectAll ==
    ASSUME NEW T, NEW s \in Seq(T), NEW keep, T \subseteq keep
    PROVE  Select(s, keep) = s
<1> DEFINE S == {q \in Seq(T) : Select(q, keep) = q}
<1>1. <<>> \in S
    BY SelectEmpty
<1>2. ASSUME NEW q \in Seq(T), NEW e \in T, q \in S PROVE Append(q, e) \in S
  <2>1. Select(Append(q, e), keep) = IF e \in keep THEN Append(Select(q, keep), e) ELSE Select(q, keep)
      BY SelectAppend
  <2>2. Append(q, e) \in Seq(T)
      BY AppendProperties
  <2> QED
      BY <1>2, <2>1, <2>2
<1>3. Seq(T) \subseteq S
  <2> HIDE DEF S
  <2> QED
      BY <1>1, <1>2, SeqInduction
<1> QED
    BY <1>3

Byte == 0 .. 255
Codes == {3, 4}

(* The start codes.                                                        *)
LEMMA CodesAreBytes ==
    ASSUME NEW k \in Codes
    PROVE  /\ StartCode(k) \in Seq(Byte) /\ Len(StartCode(k)) = k
           /\ k = 3 => StartCode(k) = <<0, 0, 1>>
           /\ k = 4 => StartCode(k) = <<0, 0, 0, 1>>
<1>1. CASE k = 3
  <2>1. StartCode(k) = <<0, 0, 1>>
      BY <1>1 DEF StartCode
  <2>2. <<0, 0, 1>> \in Seq(Byte) /\ Len(<<0, 0, 1>>) = 3
      BY DEF Byte
  <2> QED
      BY <1>1, <2>1, <2>2
<1>2. CASE k = 4
  <2>1. StartCode(k) = <<0, 0, 0, 1>>
      BY <1>2 DEF StartCode
  <2>2. <<0, 0, 0, 1>> \in Seq(Byte) /\ Len(<<0, 0, 0, 1>>) = 4
      BY DEF Byte
  <2>3. k # 3
      BY <1>2
  <2> QED
      BY <1>2, <2>1, <2>2, <2>3, Zenon
<1> QED
    BY <1>1, <1>2 DEF Codes

(* The stream of no units is empty.                                        *)
LEMMA StreamEmpty == ASSUME NEW l PROVE Stream(<<>>, l) = <<>>
<1>1. [i \in DOMAIN <<>> |-> StartCode(l[i]) \o <<>>[i]] = <<>>
    OBVIOUS
<1> QED
    BY <1>1, FlattenEmpty DEF Stream

(* One unit more puts a start code and its bytes behind.                   *)
LEMMA StreamAppend ==
    ASSUME NEW q \in Seq(Nals), NEW u \in Nals, NEW l \in [1 .. Len(q) + 1 -> Codes]
    PROVE  \E m \in [1 .. Len(q) -> Codes] :
              /\ m = [i \in 1 .. Len(q) |-> l[i]]
              /\ Stream(Append(q, u), l) = Stream(q, m) \o (StartCode(l[Len(q) + 1]) \o u)
              /\ l[Len(q) + 1] \in Codes
<1> DEFINE n == Len(q)
<1> DEFINE m == [i \in 1 .. n |-> l[i]]
<1> DEFINE s == [i \in DOMAIN q |-> StartCode(m[i]) \o q[i]]
<1> DEFINE e == StartCode(l[n + 1]) \o u
<1> DEFINE w == Append(q, u)
<1> DEFINE t == [i \in DOMAIN w |-> StartCode(l[i]) \o w[i]]
<1>1. n \in Nat /\ DOMAIN q = 1 .. n /\ DOMAIN w = 1 .. n + 1
      /\ w[n + 1] = u /\ \A i \in 1 .. n : w[i] = q[i] /\ q[i] \in Nals
  <2>1. Append(q, u) \in Seq(Nals)
      BY AppendProperties
  <2>2. DOMAIN Append(q, u) = 1 .. Len(Append(q, u)) /\ Len(Append(q, u)) = n + 1
      BY <2>1, LenProperties, AppendProperties
  <2> QED
      BY <2>2, LenProperties, AppendProperties, ElementOfSeq
<1>2. l[n + 1] \in Codes /\ m \in [1 .. n -> Codes]
    BY <1>1
<1> HIDE DEF n, m, w
<1>3. \A v \in Nals, k \in Codes : StartCode(k) \o v \in Nals
    BY CodesAreBytes, ConcatProperties DEF Nals, Byte
<1>4. e \in Nals
    BY <1>2, <1>3
<1>5. \A i \in 1 .. n : StartCode(m[i]) \o q[i] \in Nals
    BY <1>1, <1>2, <1>3
<1>6. s \in Seq(Nals)
  <2>1. s \in [1 .. n -> Nals]
      BY <1>1, <1>5
  <2> HIDE DEF s
  <2> QED
      BY <1>1, <2>1
<1>7. Len(s) = n
  <2>1. DOMAIN s = 1 .. n
      BY <1>1
  <2> HIDE DEF s
  <2> QED
      BY <1>1, <1>6, <2>1, LenProperties
<1>8. \A i \in 1 .. n : t[i] = s[i]
  <2> TAKE i \in 1 .. n
  <2>1. i \in DOMAIN w /\ i \in DOMAIN q /\ m[i] = l[i] /\ w[i] = q[i]
      BY <1>1 DEF m
  <2> QED
      BY <2>1
<1>9. t[n + 1] = e
  <2>1. n + 1 \in DOMAIN w /\ w[n + 1] = u
      BY <1>1
  <2> QED
      BY <2>1
<1>10. t = Append(s, e)
  <2>1. DOMAIN t = 1 .. n + 1
      BY <1>1
  <2>2. t = [i \in 1 .. n + 1 |-> IF i <= n THEN s[i] ELSE e]
    <3>1. \A i \in 1 .. n + 1 : i \in 1 .. n \/ i = n + 1
        BY <1>1
    <3>2. t = [i \in 1 .. n + 1 |-> t[i]]
        BY <2>1
    <3> HIDE DEF t, s, e
    <3>3. \A i \in 1 .. n + 1 : t[i] = IF i <= n THEN s[i] ELSE e
        BY <1>1, <1>8, <1>9, <3>1
    <3> QED
        BY <3>2, <3>3
  <2> HIDE DEF t, s, e
  <2>3. Append(s, e) \in Seq(Nals) /\ DOMAIN Append(s, e) = 1 .. n + 1
        /\ Append(s, e)[n + 1] = e /\ \A i \in 1 .. n : Append(s, e)[i] = s[i]
    <3>1. Append(s, e) \in Seq(Nals) /\ Len(Append(s, e)) = n + 1
          /\ Append(s, e)[n + 1] = e /\ \A i \in 1 .. n : Append(s, e)[i] = s[i]
        BY <1>4, <1>6, <1>7, AppendProperties
    <3>2. DOMAIN Append(s, e) = 1 .. n + 1
        BY <3>1, LenProperties
    <3> QED
        BY <3>1, <3>2
  <2>4. t \in Seq(Nals) /\ Len(t) = n + 1
    <3>1. \A i \in 1 .. n + 1 : (IF i <= n THEN s[i] ELSE e) \in Nals
        BY <1>1, <1>4, <1>6, <1>7, ElementOfSeq
    <3>2. t \in [1 .. n + 1 -> Nals]
        BY <2>2, <3>1
    <3>3. n + 1 \in Nat
        BY <1>1
    <3>4. t \in Seq(Nals)
        BY <3>2, <3>3
    <3> QED
        BY <2>1, <3>3, <3>4, LenProperties
  <2>5. Len(Append(s, e)) = n + 1
      BY <1>4, <1>6, <1>7, AppendProperties
  <2>6. \A i \in 1 .. n + 1 : t[i] = Append(s, e)[i]
    <3> TAKE i \in 1 .. n + 1
    <3>1. i \in 1 .. n \/ i = n + 1
        BY <1>1
    <3> QED
        BY <1>8, <1>9, <2>3, <3>1
  <2> QED
      BY <2>3, <2>4, <2>5, <2>6, SeqEqual
<1>11. FlattenSeq(Append(s, e)) = FlattenSeq(s) \o e
  <2> HIDE DEF s, e
  <2> QED
      BY <1>4, <1>6, FlattenAppend DEF Nals
<1>12. Stream(Append(q, u), l) = FlattenSeq(t) /\ Stream(q, m) = FlattenSeq(s)
    BY DEF Stream, w
<1>13. Stream(Append(q, u), l) = Stream(q, m) \o e
  <2> HIDE DEF t, s, e
  <2> QED
      BY <1>10, <1>11, <1>12
<1> QED
    BY <1>2, <1>13 DEF n, m

(* A stream is bytes.                                                      *)
LEMMA StreamIsBytes ==
    ASSUME NEW q \in Seq(Nals), NEW l \in [1 .. Len(q) -> Codes]
    PROVE  Stream(q, l) \in Nals
<1> DEFINE S == {p \in Seq(Nals) : \A m \in [1 .. Len(p) -> Codes] : Stream(p, m) \in Nals}
<1>1. <<>> \in S
    BY StreamEmpty, EmptySeq DEF Nals
<1>2. ASSUME NEW p \in Seq(Nals), NEW u \in Nals, p \in S PROVE Append(p, u) \in S
  <2>1. Append(p, u) \in Seq(Nals) /\ Len(Append(p, u)) = Len(p) + 1
      BY AppendProperties
  <2>2. ASSUME NEW m \in [1 .. Len(p) + 1 -> Codes] PROVE Stream(Append(p, u), m) \in Nals
    <3>1. PICK k \in [1 .. Len(p) -> Codes] :
             /\ Stream(Append(p, u), m) = Stream(p, k) \o (StartCode(m[Len(p) + 1]) \o u)
             /\ m[Len(p) + 1] \in Codes
        BY StreamAppend
    <3>2. Stream(p, k) \in Nals
        BY <1>2
    <3>3. StartCode(m[Len(p) + 1]) \o u \in Nals
        BY <3>1, CodesAreBytes, ConcatProperties DEF Nals, Byte
    <3> QED
        BY <3>1, <3>2, <3>3, ConcatProperties DEF Nals
  <2> QED
      BY <2>1, <2>2
<1>3. Seq(Nals) \subseteq S
  <2> HIDE DEF S
  <2> QED
      BY <1>1, <1>2, SeqInduction
<1> QED
    BY <1>3

-----------------------------------------------------------------------------
(* StreamNALUs, one byte more at a time, and then one start code and one   *)
(* unit more at a time.                                                    *)

ReaderStates == [unit : Nals, zeros : Nat, sent : Seq(Nals)]
(* The states of the reader, one for each number of bytes read.            *)
Reads(f, data) ==
    f = [i \in 0 .. Len(data) |-> IF i = 0 THEN Reading ELSE ReadByte(f[i - 1], data[i])]

(* Zeros are bytes.                                                        *)
LEMMA ZerosAreBytes ==
    ASSUME NEW n \in Nat
    PROVE  Zeros(n) \in Nals /\ Len(Zeros(n)) = n /\ \A i \in 1 .. n : Zeros(n)[i] = 0
<1>1. Zeros(n) \in [1 .. n -> 0 .. 255]
    BY DEF Zeros
<1>2. Zeros(n) \in Seq(0 .. 255) /\ DOMAIN Zeros(n) = 1 .. n
    BY <1>1
<1>3. Len(Zeros(n)) = n
    BY <1>2, LenProperties
<1> QED
    BY <1>2, <1>3 DEF Zeros, Nals

(* The reader sends units,                                                 *)
LEMMA SentTyped == ASSUME NEW s \in ReaderStates PROVE Sent(s) \in Seq(Nals)
    BY AppendProperties DEF Sent, ReaderStates

(* is in a proper state after each byte,                                   *)
LEMMA ReadTyped ==
    ASSUME NEW s \in ReaderStates, NEW b \in Byte PROVE ReadByte(s, b) \in ReaderStates
<1>1. <<>> \in Nals /\ <<b>> \in Nals
    BY DEF Nals, Byte
<1>2. s.unit \in Nals /\ s.zeros \in Nat /\ s.sent \in Seq(Nals)
    BY DEF ReaderStates
<1>3. s.unit \o Zeros(s.zeros) \o <<b>> \in Nals
    BY <1>1, <1>2, ZerosAreBytes, ConcatProperties DEF Nals
<1>4. CASE b = 0
  <2>1. ReadByte(s, b) = [s EXCEPT !.zeros = @ + 1]
      BY <1>4 DEF ReadByte
  <2> QED
      BY <2>1 DEF ReaderStates
<1>5. CASE b # 0 /\ b = 1 /\ s.zeros >= 2
  <2>1. ReadByte(s, b) = [Reading EXCEPT !.sent = Sent(s)]
      BY <1>5 DEF ReadByte
  <2>2. Sent(s) \in Seq(Nals)
      BY SentTyped
  <2> QED
      BY <1>1, <2>1, <2>2 DEF ReaderStates, Reading
<1>6. CASE b # 0 /\ ~(b = 1 /\ s.zeros >= 2)
  <2>1. ReadByte(s, b) = [s EXCEPT !.unit = @ \o Zeros(s.zeros) \o <<b>>, !.zeros = 0]
      BY <1>6 DEF ReadByte
  <2> DEFINE unit == s.unit \o Zeros(s.zeros) \o <<b>>
  <2>2. ReadByte(s, b) = [unit |-> unit, zeros |-> 0, sent |-> s.sent] /\ unit \in Nals
      BY <1>3, <2>1 DEF ReaderStates
  <2> HIDE DEF unit
  <2> QED
      BY <1>2, <2>2 DEF ReaderStates
<1> QED
    BY <1>4, <1>5, <1>6

(* and in one before the first.                                            *)
LEMMA ReadingTyped == Reading \in ReaderStates
    BY EmptySeq DEF Reading, ReaderStates, Nals

(* The states of the reader after so many bytes exist,                     *)
LEMMA ReadsExists ==
    ASSUME NEW data \in Nals PROVE \E f : Reads(f, data) /\ f \in [0 .. Len(data) -> ReaderStates]
<1> DEFINE n == Len(data)
<1>0. n \in Nat /\ \A i \in 1 .. n : data[i] \in Byte
    BY LenProperties, ElementOfSeq DEF Nals, Byte
<1> HIDE DEF n
<1> DEFINE F == [i \in 1 .. n |-> [v \in ReaderStates |-> ReadByte(v, data[i])]]
<1>3. F \in [1 .. n -> [ReaderStates -> ReaderStates]]
    BY <1>0, ReadTyped
<1> HIDE DEF F
<1>4. PICK f : Steps(f, n, ReaderStates, Reading, F)
    BY <1>0, <1>3, ReadingTyped, Recursion
<1>5. \A i \in 1 .. n : f[i] = ReadByte(f[i - 1], data[i])
  <2> TAKE i \in 1 .. n
  <2>1. i - 1 \in 0 .. n
      BY <1>0
  <2>2. f[i - 1] \in ReaderStates
      BY <1>4, <2>1 DEF Steps
  <2>3. F[i] = [v \in ReaderStates |-> ReadByte(v, data[i])]
      BY DEF F
  <2>4. F[i][f[i - 1]] = ReadByte(f[i - 1], data[i])
      BY <2>2, <2>3
  <2> QED
      BY <1>4, <2>4 DEF Steps
<1>6. f \in [0 .. n -> ReaderStates] /\ f[0] = Reading
    BY <1>4 DEF Steps
<1> DEFINE h == [i \in 0 .. n |-> IF i = 0 THEN Reading ELSE ReadByte(f[i - 1], data[i])]
<1>7. \A i \in 0 .. n : f[i] = h[i]
    BY <1>0, <1>5, <1>6
<1>8. f = h
  <2>1. DOMAIN h = 0 .. n /\ DOMAIN f = 0 .. n
      BY <1>6
  <2>2. h = [i \in 0 .. n |-> h[i]] /\ f = [i \in 0 .. n |-> f[i]]
      BY <1>6
  <2> HIDE DEF h
  <2> QED
      BY <1>7, <2>2
<1>9. Reads(f, data)
    BY <1>8, Zenon DEF Reads, n
<1> QED
    BY <1>6, <1>9 DEF n

(* follow from each other,                                                 *)
LEMMA ReadsAt ==
    ASSUME NEW data, Len(data) \in Nat, NEW f, Reads(f, data)
    PROVE  /\ f[0] = Reading
           /\ \A n \in Nat : n + 1 <= Len(data) => f[n + 1] = ReadByte(f[n], data[n + 1])
<1> DEFINE Row(i) == IF i = 0 THEN Reading ELSE ReadByte(f[i - 1], data[i])
<1>1. \A i \in 0 .. Len(data) : f[i] = Row(i)
  <2>1. f = [i \in 0 .. Len(data) |-> Row(i)]
      BY DEF Reads
  <2> HIDE DEF Row
  <2> QED
      BY <2>1
<1>2. f[0] = Reading
    BY <1>1
<1>3. ASSUME NEW n \in Nat, n + 1 <= Len(data) PROVE f[n + 1] = ReadByte(f[n], data[n + 1])
  <2>1. n + 1 \in 0 .. Len(data) /\ n + 1 # 0 /\ (n + 1) - 1 = n
      BY <1>3
  <2>2. f[n + 1] = Row(n + 1)
      BY <1>1, <2>1
  <2> QED
      BY <2>1, <2>2
<1> QED
    BY <1>2, <1>3

(* and depend on those bytes alone.                                        *)
LEMMA ReadsAgree ==
    ASSUME NEW s, Len(s) \in Nat, NEW t, Len(t) \in Nat,
           Len(s) <= Len(t), \A n \in 1 .. Len(s) : s[n] = t[n],
           NEW f, Reads(f, s), NEW g, Reads(g, t)
    PROVE  f[Len(s)] = g[Len(s)]
<1> DEFINE L == {n \in Nat : n <= Len(s) => f[n] = g[n]}
<1>1. 0 \in L
  <2>1. f[0] = Reading /\ g[0] = Reading
      BY ReadsAt
  <2> QED
      BY <2>1
<1>2. ASSUME NEW n \in Nat, n \in L PROVE n + 1 \in L
  <2> SUFFICES ASSUME n + 1 <= Len(s) PROVE f[n + 1] = g[n + 1]
      OBVIOUS
  <2>1. f[n] = g[n] /\ s[n + 1] = t[n + 1] /\ n + 1 <= Len(t)
      BY <1>2
  <2>2. f[n + 1] = ReadByte(f[n], s[n + 1])
      BY ReadsAt
  <2>3. g[n + 1] = ReadByte(g[n], t[n + 1])
      BY ReadsAt, <2>1
  <2> QED
      BY <2>1, <2>2, <2>3
<1>3. Nat \subseteq L
  <2> HIDE DEF L
  <2> QED
      BY <1>1, <1>2, SetInduction
<1> QED
    BY <1>3

(* ReadAll is the last of them.                                            *)
LEMMA ReadAllReads ==
    ASSUME NEW data \in Nals
    PROVE  \E f : Reads(f, data) /\ ReadAll(data) = f[Len(data)]
<1> DEFINE f == CHOOSE g : Reads(g, data)
<1>1. Reads(f, data)
    BY ReadsExists
<1>2. ReadAll(data) = f[Len(data)]
    BY DEF ReadAll, Reads
<1> QED
    BY <1>1, <1>2

(* Of no bytes, it is as it began.                                         *)
LEMMA ReadAllEmpty == ReadAll(<<>>) = Reading
<1>1. <<>> \in Nals /\ Len(<<>>) = 0
    BY EmptySeq DEF Nals
<1> DEFINE t == <<>>
<1> HIDE DEF t
<1>2. t \in Nals /\ Len(t) = 0
    BY <1>1 DEF t
<1>3. PICK f : Reads(f, t) /\ ReadAll(t) = f[Len(t)]
    BY <1>2, ReadAllReads
<1>4. Len(t) \in Nat
    BY <1>2
<1>5. f[0] = Reading
    BY <1>3, <1>4, ReadsAt
<1> QED
    BY <1>2, <1>3, <1>5 DEF t

(* One byte more is one step more.                                         *)
LEMMA ReadAllAppend ==
    ASSUME NEW d \in Nals, NEW b \in Byte
    PROVE  ReadAll(Append(d, b)) = ReadByte(ReadAll(d), b)
<1> DEFINE t == Append(d, b)
<1>1. /\ t \in Nals /\ Len(d) \in Nat /\ Len(t) = Len(d) + 1 /\ t[Len(d) + 1] = b
      /\ \A n \in 1 .. Len(d) : d[n] = t[n]
    BY AppendProperties, LenProperties DEF Nals, Byte
<1> HIDE DEF t
<1>2. PICK f : Reads(f, d) /\ ReadAll(d) = f[Len(d)]
    BY ReadAllReads
<1>3. PICK g : Reads(g, t) /\ ReadAll(t) = g[Len(t)]
    BY <1>1, ReadAllReads
<1>0. Len(t) \in Nat /\ Len(d) <= Len(t) /\ Len(d) + 1 <= Len(t)
    BY <1>1
<1>4. f[Len(d)] = g[Len(d)]
    BY <1>0, <1>1, <1>2, <1>3, ReadsAgree
<1>5. g[Len(d) + 1] = ReadByte(g[Len(d)], t[Len(d) + 1])
    BY <1>0, <1>1, <1>3, ReadsAt
<1> QED
    BY <1>1, <1>2, <1>3, <1>4, <1>5 DEF t

(* It is in a proper state after any bytes.                                *)
LEMMA ReadAllTyped == ASSUME NEW d \in Nals PROVE ReadAll(d) \in ReaderStates
<1> DEFINE S == {q \in Nals : ReadAll(q) \in ReaderStates}
<1>1. <<>> \in S
    BY ReadAllEmpty, ReadingTyped, EmptySeq DEF Nals
<1>2. ASSUME NEW q \in Seq(Byte), NEW e \in Byte, q \in S PROVE Append(q, e) \in S
  <2>1. Append(q, e) \in Nals
      BY AppendProperties DEF Nals, Byte
  <2>2. ReadAll(Append(q, e)) = ReadByte(ReadAll(q), e)
      BY <1>2, ReadAllAppend DEF Nals, Byte
  <2> QED
      BY <1>2, <2>1, <2>2, ReadTyped
<1>3. Seq(Byte) \subseteq S
  <2> HIDE DEF S
  <2> QED
      BY <1>1, <1>2, SeqInduction
<1> QED
    BY <1>3 DEF Nals, Byte

(* Units as the standards have them, of at least one byte.                 *)
Good == {u \in Nals : u # <<>> /\ WellFormed(u)}
ReadSoFar(u, sent) == [unit |-> u, zeros |-> 0, sent |-> sent]

(* Concatenation of bytes is associative.                                  *)
LEMMA BytesAssociate ==
    ASSUME NEW x \in Nals, NEW y \in Nals, NEW z \in Nals
    PROVE  x \o (y \o z) = (x \o y) \o z /\ y \o z \in Nals /\ x \o y \in Nals
    BY ConcatAssociative, ConcatProperties DEF Nals

(* A start code behind a stream, byte by byte.                             *)
LEMMA AppendCode ==
    ASSUME NEW d \in Nals
    PROVE  /\ d \o StartCode(3) = Append(Append(Append(d, 0), 0), 1)
           /\ d \o StartCode(4) = Append(Append(Append(Append(d, 0), 0), 0), 1)
<1> USE DEF Nals
<1>1. /\ <<>> \in Seq(0 .. 255) /\ <<0>> \in Seq(0 .. 255) /\ <<0, 0>> \in Seq(0 .. 255) /\ <<0, 0, 0>> \in Seq(0 .. 255)
      /\ 0 \in 0 .. 255 /\ 1 \in 0 .. 255
    OBVIOUS
<1>2. d \o <<>> = d
    BY ConcatEmptySeq
<1>3. <<0>> = Append(<<>>, 0) /\ <<0, 0>> = Append(<<0>>, 0) /\ <<0, 0, 0>> = Append(<<0, 0>>, 0)
      /\ <<0, 0, 1>> = Append(<<0, 0>>, 1) /\ <<0, 0, 0, 1>> = Append(<<0, 0, 0>>, 1)
    OBVIOUS
<1>4. \A q \in Seq(0 .. 255), e \in 0 .. 255 : d \o Append(q, e) = Append(d \o q, e)
    BY ConcatAppend
<1>5. d \o Append(<<>>, 0) = Append(d, 0)
    BY <1>1, <1>2, <1>4, Zenon
<1>6. d \o Append(<<0>>, 0) = Append(Append(d, 0), 0)
    BY <1>1, <1>3, <1>4, <1>5, Zenon
<1>7. d \o Append(<<0, 0>>, 0) = Append(Append(Append(d, 0), 0), 0)
    BY <1>1, <1>3, <1>4, <1>6, Zenon
<1>8. d \o Append(<<0, 0>>, 1) = Append(Append(Append(d, 0), 0), 1)
    BY <1>1, <1>3, <1>4, <1>6, Zenon
<1>9. d \o Append(<<0, 0, 0>>, 1) = Append(Append(Append(Append(d, 0), 0), 0), 1)
    BY <1>1, <1>3, <1>4, <1>7, Zenon
<1>10. StartCode(3) = <<0, 0, 1>> /\ StartCode(4) = <<0, 0, 0, 1>>
    BY DEF StartCode
<1> QED
    BY <1>3, <1>8, <1>9, <1>10, Zenon

(* The reader with so many zeros behind the unit.                          *)
Waiting(r, z) == [unit |-> r.unit, zeros |-> z, sent |-> r.sent]

(* A zero byte makes the reader wait,                                      *)
LEMMA ReadZero ==
    ASSUME NEW d \in Nals, NEW r, NEW z \in Nat, ReadAll(d) = Waiting(r, z)
    PROVE  /\ Append(d, 0) \in Nals
           /\ ReadAll(Append(d, 0)) = Waiting(r, z + 1)
<1>1. 0 \in Byte
    BY DEF Byte
<1>2. ReadAll(Append(d, 0)) = ReadByte(Waiting(r, z), 0)
    BY <1>1, ReadAllAppend
<1>3. Append(d, 0) \in Nals
    BY <1>1, AppendProperties DEF Nals, Byte
<1>4. ReadByte(Waiting(r, z), 0) = Waiting(r, z + 1)
    BY DEF ReadByte, Waiting
<1> QED
    BY <1>2, <1>3, <1>4

(* a one behind two zeros makes it send,                                   *)
LEMMA ReadOne ==
    ASSUME NEW d \in Nals, NEW r, NEW z \in Nat, z >= 2, ReadAll(d) = Waiting(r, z)
    PROVE  ReadAll(Append(d, 1)) = ReadSoFar(<<>>, Sent(r))
<1>1. 1 \in Byte
    BY DEF Byte
<1>2. ReadAll(Append(d, 1)) = ReadByte(Waiting(r, z), 1)
    BY <1>1, ReadAllAppend
<1>3. Waiting(r, z).zeros = z /\ Sent(Waiting(r, z)) = Sent(r)
    BY DEF Waiting, Sent
<1>4. ReadByte(Waiting(r, z), 1) = [Reading EXCEPT !.sent = Sent(Waiting(r, z))]
    BY <1>3 DEF ReadByte
<1> QED
    BY <1>2, <1>3, <1>4 DEF Reading, ReadSoFar

(* and so a start code of either length sends the unit before it.          *)
LEMMA ReadCode ==
    ASSUME NEW d \in Nals, NEW k \in Codes, ReadAll(d).zeros = 0
    PROVE  ReadAll(d \o StartCode(k)) = ReadSoFar(<<>>, Sent(ReadAll(d)))
<1>0. PICK r : r = ReadAll(d)
    OBVIOUS
<1>1. r \in ReaderStates /\ r.zeros = 0
    BY <1>0, ReadAllTyped
<1>2. ReadAll(d) = Waiting(r, 0)
    BY <1>0, <1>1 DEF ReaderStates, Waiting
<1>3. PICK d1 \in Nals : d1 = Append(d, 0) /\ ReadAll(d1) = Waiting(r, 1)
  <2>1. Append(d, 0) \in Nals /\ ReadAll(Append(d, 0)) = Waiting(r, 0 + 1)
      BY <1>2, ReadZero
  <2>2. 0 + 1 = 1
      OBVIOUS
  <2> QED
      BY <2>1, <2>2, Zenon
<1>4. PICK d2 \in Nals : d2 = Append(d1, 0) /\ ReadAll(d2) = Waiting(r, 2)
  <2>1. Append(d1, 0) \in Nals /\ ReadAll(Append(d1, 0)) = Waiting(r, 1 + 1)
      BY <1>3, ReadZero
  <2>2. 1 + 1 = 2
      OBVIOUS
  <2> QED
      BY <2>1, <2>2, Zenon
<1>5. PICK d3 \in Nals : d3 = Append(d2, 0) /\ ReadAll(d3) = Waiting(r, 3)
  <2>1. Append(d2, 0) \in Nals /\ ReadAll(Append(d2, 0)) = Waiting(r, 2 + 1)
      BY <1>4, ReadZero
  <2>2. 2 + 1 = 3
      OBVIOUS
  <2> QED
      BY <2>1, <2>2, Zenon
<1>6. ReadAll(Append(d2, 1)) = ReadSoFar(<<>>, Sent(r))
    BY <1>4, ReadOne
<1>7. ReadAll(Append(d3, 1)) = ReadSoFar(<<>>, Sent(r))
    BY <1>5, ReadOne
<1>8. d \o StartCode(3) = Append(d2, 1) /\ d \o StartCode(4) = Append(d3, 1)
    BY <1>3, <1>4, <1>5, AppendCode
<1> QED
    BY <1>0, <1>6, <1>7, <1>8 DEF Codes

(* One zero more.                                                          *)
LEMMA MoreZeros ==
    ASSUME NEW n \in Nat PROVE Zeros(n + 1) = Append(Zeros(n), 0)
<1>1. Zeros(n) \in Seq(0 .. 255) /\ Zeros(n + 1) \in Seq(0 .. 255) /\ Len(Zeros(n)) = n /\ Len(Zeros(n + 1)) = n + 1
    BY ZerosAreBytes DEF Nals
<1>2. (\A i \in 1 .. n : Zeros(n)[i] = 0) /\ \A i \in 1 .. n + 1 : Zeros(n + 1)[i] = 0
    BY ZerosAreBytes
<1> DEFINE a == Append(Zeros(n), 0)
<1>3. a \in Seq(0 .. 255) /\ Len(a) = n + 1 /\ a[n + 1] = 0 /\ \A i \in 1 .. n : a[i] = Zeros(n)[i]
  <2>1. 0 \in 0 .. 255
      OBVIOUS
  <2> QED
      BY <1>1, <2>1, AppendProperties
<1> HIDE DEF a
<1>4. \A i \in 1 .. n + 1 : Zeros(n + 1)[i] = a[i]
  <2> TAKE i \in 1 .. n + 1
  <2>1. i \in 1 .. n \/ i = n + 1
      OBVIOUS
  <2> QED
      BY <1>2, <1>3, <2>1
<1>5. Zeros(n + 1) = a
    BY <1>1, <1>3, <1>4, SeqEqual
<1> QED
    BY <1>5 DEF a

ZerosBehind(n, z, u) == Len(u) = n + z /\ n \in Nat /\ \A i \in 1 .. z : u[n + i] = 0

(* Where the zeros at the end of a sequence are.                           *)
LEMMA ZeroTail ==
    ASSUME NEW x \in Nals, NEW z \in Nat, NEW u, x \o Zeros(z) = u
    PROVE  ZerosBehind(Len(x), z, u)
<1> DEFINE y == Zeros(z)
<1>1. y \in Nals /\ Len(y) = z /\ \A i \in 1 .. z : y[i] = 0
    BY ZerosAreBytes
<1> HIDE DEF y
<1>2. Len(x) \in Nat
    BY LenProperties DEF Nals
<1>3. Len(x \o y) = Len(x) + z /\ \A i \in 1 .. Len(x) + z : (x \o y)[i] = IF i <= Len(x) THEN x[i] ELSE y[i - Len(x)]
    BY <1>1, ConcatProperties DEF Nals
<1>4. ASSUME NEW i \in 1 .. z PROVE (x \o y)[Len(x) + i] = 0
  <2>1. Len(x) + i \in 1 .. Len(x) + z /\ ~(Len(x) + i <= Len(x)) /\ (Len(x) + i) - Len(x) = i
      BY <1>2
  <2>2. (x \o y)[Len(x) + i] = y[(Len(x) + i) - Len(x)]
      BY <1>3, <2>1
  <2> QED
      BY <1>1, <2>1, <2>2
<1> QED
    BY <1>2, <1>3, <1>4 DEF y, ZerosBehind

(* A unit without a start code inside is read as it is.                    *)
LEMMA ReadUnit ==
    ASSUME NEW d \in Nals, NEW sent, ReadAll(d) = ReadSoFar(<<>>, sent),
           NEW u \in Nals, \A i \in 1 .. Len(u) - 2 : ~(u[i] = 0 /\ u[i+1] = 0 /\ u[i+2] \in Bytes)
    PROVE  ReadAll(d \o u).unit \o Zeros(ReadAll(d \o u).zeros) = u /\ ReadAll(d \o u).sent = sent
<1> DEFINE Clean(q) == \A i \in 1 .. Len(q) - 2 : ~(q[i] = 0 /\ q[i+1] = 0 /\ q[i+2] \in Bytes)
<1> DEFINE Read(q) == LET r == ReadAll(d \o q) IN r.unit \o Zeros(r.zeros) = q /\ r.sent = sent
<1> DEFINE S == {q \in Nals : Clean(q) => Read(q)}
<1>1. <<>> \in S
  <2>1. d \o <<>> = d /\ <<>> \in Nals
      BY ConcatEmptySeq, EmptySeq DEF Nals
  <2>2. ReadAll(d \o <<>>) = ReadSoFar(<<>>, sent)
      BY <2>1
  <2>3. Zeros(0) = <<>>
      BY DEF Zeros
  <2>4. <<>> \o Zeros(0) = <<>>
      BY <2>3
  <2>5. Read(<<>>)
      BY <2>2, <2>4 DEF ReadSoFar
  <2> QED
      BY <2>1, <2>5
<1>2. ASSUME NEW q \in Seq(Byte), NEW b \in Byte, q \in S PROVE Append(q, b) \in S
  <2> DEFINE w == Append(q, b)
  <2>1. w \in Nals /\ Len(q) \in Nat /\ Len(w) = Len(q) + 1 /\ w[Len(q) + 1] = b
        /\ (\A i \in 1 .. Len(q) : w[i] = q[i]) /\ q \in Nals /\ d \o q \in Nals
      BY AppendProperties, LenProperties, ConcatProperties DEF Nals, Byte
  <2>2. d \o w = Append(d \o q, b)
      BY ConcatAppend DEF Nals, Byte
  <2> DEFINE r == ReadAll(d \o q)
  <2>3. ReadAll(d \o w) = ReadByte(r, b)
      BY <2>1, <2>2, ReadAllAppend
  <2>4. r \in ReaderStates
      BY <2>1, ReadAllTyped
  <2> HIDE DEF w
  <2> SUFFICES ASSUME Clean(w) PROVE Read(w)
      BY <2>1 DEF w
  <2>5. Clean(q)
      BY <2>1
  <2>6. r.unit \o Zeros(r.zeros) = q /\ r.sent = sent
      BY <1>2, <2>5
  <2> HIDE DEF r, Read, S, Clean
  <2>7. r.unit \in Seq(0 .. 255) /\ r.zeros \in Nat /\ Zeros(r.zeros) \in Seq(0 .. 255)
        /\ Len(Zeros(r.zeros)) = r.zeros /\ \A i \in 1 .. r.zeros : Zeros(r.zeros)[i] = 0
      BY <2>4, ZerosAreBytes DEF ReaderStates, Nals
  <2>8. CASE b = 0
    <3>1. ReadByte(r, b) = [r EXCEPT !.zeros = @ + 1]
        BY <2>8 DEF ReadByte
    <3>2. ReadByte(r, b).unit = r.unit /\ ReadByte(r, b).zeros = r.zeros + 1 /\ ReadByte(r, b).sent = sent
        BY <2>4, <2>6, <3>1 DEF ReaderStates
    <3>3. Zeros(r.zeros + 1) = Append(Zeros(r.zeros), 0)
        BY <2>7, MoreZeros
    <3>4. r.unit \o Append(Zeros(r.zeros), 0) = Append(r.unit \o Zeros(r.zeros), 0)
      <4>1. PICK x \in Seq(0 .. 255), y \in Seq(0 .. 255) : x = r.unit /\ y = Zeros(r.zeros)
          BY <2>7
      <4>2. x \o Append(y, 0) = Append(x \o y, 0)
        <5>1. 0 \in 0 .. 255
            OBVIOUS
        <5> QED
            BY <5>1, ConcatAppend
      <4> QED
          BY <4>1, <4>2
    <3>5. Append(r.unit \o Zeros(r.zeros), 0) = w
        BY <2>6, <2>8 DEF w
    <3> QED
        BY <2>3, <3>2, <3>3, <3>4, <3>5 DEF Read
  <2>9. CASE b = 1 /\ r.zeros >= 2
    <3>1. Len(q) = Len(r.unit) + r.zeros /\ Len(r.unit) \in Nat /\ \A i \in 1 .. r.zeros : q[Len(r.unit) + i] = 0
      <4>1. PICK x \in Nals, z \in Nat : x = r.unit /\ z = r.zeros
          BY <2>7 DEF Nals
      <4>2. x \o Zeros(z) = q
          BY <2>6, <4>1
      <4>3. ZerosBehind(Len(x), z, q)
          BY <4>1, <4>2, ZeroTail
      <4> QED
          BY <4>1, <4>3 DEF ZerosBehind
    <3>2. q[Len(q)] = 0 /\ q[Len(q) - 1] = 0 /\ Len(q) >= 2
      <4>1. r.zeros \in 1 .. r.zeros /\ r.zeros - 1 \in 1 .. r.zeros
            /\ Len(r.unit) + r.zeros = Len(q) /\ Len(r.unit) + (r.zeros - 1) = Len(q) - 1
          BY <2>7, <2>9, <3>1
      <4>2. q[Len(r.unit) + r.zeros] = 0 /\ q[Len(r.unit) + (r.zeros - 1)] = 0
          BY <3>1, <4>1
      <4> QED
          BY <2>7, <2>9, <3>1, <4>1, <4>2
    <3>3. Len(q) - 1 \in 1 .. Len(w) - 2 /\ w[Len(q) - 1] = 0 /\ w[(Len(q) - 1) + 1] = 0 /\ w[(Len(q) - 1) + 2] = 1
        BY <2>1, <2>9, <3>2
    <3>4. FALSE
        BY <3>3 DEF Clean, Bytes
    <3> QED
        BY <3>4
  <2>10. CASE b # 0 /\ ~(b = 1 /\ r.zeros >= 2)
    <3>1. ReadByte(r, b) = [r EXCEPT !.unit = @ \o Zeros(r.zeros) \o <<b>>, !.zeros = 0]
        BY <2>10 DEF ReadByte
    <3>2. r.unit \o Zeros(r.zeros) \o <<b>> = w
        BY <2>6, AppendIsConcat DEF w
    <3>3. ReadByte(r, b).unit = w /\ ReadByte(r, b).zeros = 0 /\ ReadByte(r, b).sent = sent
        BY <2>4, <2>6, <3>1, <3>2 DEF ReaderStates
    <3>4. Zeros(0) = <<>>
        BY DEF Zeros
    <3>5. w \o <<>> = w
        BY <2>1, ConcatEmptySeq DEF Nals
    <3> QED
        BY <2>3, <3>3, <3>4, <3>5 DEF Read
  <2> QED
      BY <2>8, <2>9, <2>10
<1>3. Seq(Byte) \subseteq S
  <2> HIDE DEF S
  <2> QED
      BY <1>1, <1>2, SeqInduction
<1>4. u \in S
    BY <1>3 DEF Nals, Byte
<1> QED
    BY <1>4

(* StreamNALUs takes apart what Stream has put together.                   *)
LEMMA StreamRead ==
    ASSUME NEW q \in Seq(Good), NEW l \in [1 .. Len(q) -> Codes]
    PROVE  StreamNALUs(Stream(q, l)) = q
<1> DEFINE Read(p, m) == LET r == ReadAll(Stream(p, m)) IN r.zeros = 0 /\ Sent(r) = p
<1> DEFINE S == {p \in Seq(Good) : \A m \in [1 .. Len(p) -> Codes] : Read(p, m)}
<1>0. Good \subseteq Nals
    BY DEF Good
<1>1. <<>> \in S
  <2>1. \A m : Read(<<>>, m)
      BY StreamEmpty, ReadAllEmpty DEF Reading, Sent
  <2> QED
      BY <2>1, EmptySeq
<1>2. ASSUME NEW p \in Seq(Good), NEW u \in Good, p \in S PROVE Append(p, u) \in S
  <2>1. Append(p, u) \in Seq(Good) /\ Len(Append(p, u)) = Len(p) + 1 /\ p \in Seq(Nals) /\ u \in Nals
      BY <1>0, AppendProperties, SeqMonotonic
  <2>2. ASSUME NEW m \in [1 .. Len(p) + 1 -> Codes] PROVE Read(Append(p, u), m)
    <3> DEFINE k == m[Len(p) + 1]
    <3>1. PICK n \in [1 .. Len(p) -> Codes] :
             /\ Stream(Append(p, u), m) = Stream(p, n) \o (StartCode(k) \o u)
             /\ k \in Codes
        BY <2>1, StreamAppend
    <3> HIDE DEF k
    <3> DEFINE d == Stream(p, n)
    <3>2. d \in Nals /\ ReadAll(d).zeros = 0 /\ Sent(ReadAll(d)) = p
        BY <1>2, <2>1, StreamIsBytes
    <3> HIDE DEF d
    <3>3. StartCode(k) \in Nals /\ d \o StartCode(k) \in Nals
        BY <3>1, <3>2, CodesAreBytes, ConcatProperties DEF Nals, Byte
    <3>4. d \o (StartCode(k) \o u) = (d \o StartCode(k)) \o u
      <4>1. PICK x \in Nals, y \in Nals : x = d /\ y = StartCode(k)
          BY <3>2, <3>3
      <4>2. x \o (y \o u) = (x \o y) \o u
        <5>1. x \in Nals /\ y \in Nals
            BY <4>1
        <5>2. u \in Nals
            BY <2>1
        <5> QED
            BY <5>1, <5>2, BytesAssociate
      <4> QED
          BY <4>1, <4>2
    <3> DEFINE e == d \o StartCode(k)
    <3>5. ReadAll(e) = ReadSoFar(<<>>, p)
        BY <3>1, <3>2, ReadCode
    <3> HIDE DEF e
    <3> DEFINE r == ReadAll(e \o u)
    <3>6. r.unit \o Zeros(r.zeros) = u /\ r.sent = p
      <4>1. \A i \in 1 .. Len(u) - 2 : ~(u[i] = 0 /\ u[i+1] = 0 /\ u[i+2] \in Bytes)
          BY DEF Good, WellFormed
      <4>2. e \in Nals
          BY <3>3 DEF e
      <4> QED
          BY <2>1, <3>5, <4>1, <4>2, ReadUnit
    <3>7. r \in ReaderStates
      <4>1. e \o u \in Nals
          BY <2>1, <3>3, ConcatProperties DEF e, Nals
      <4> QED
          BY <4>1, ReadAllTyped
    <3> HIDE DEF r
    <3>8. r.zeros = 0 /\ r.unit = u
      <4>1. r.unit \in Seq(0 .. 255) /\ r.zeros \in Nat /\ Zeros(r.zeros) \in Seq(0 .. 255)
            /\ Len(Zeros(r.zeros)) = r.zeros /\ \A i \in 1 .. r.zeros : Zeros(r.zeros)[i] = 0
          BY <3>7, ZerosAreBytes DEF ReaderStates, Nals
      <4>2. r.zeros = 0
        <5> SUFFICES ASSUME r.zeros > 0 PROVE FALSE
            BY <4>1
        <5>1. Len(u) = Len(r.unit) + r.zeros /\ \A i \in 1 .. r.zeros : u[Len(r.unit) + i] = 0
          <6>1. PICK x \in Nals, z \in Nat : x = r.unit /\ z = r.zeros
              BY <4>1 DEF Nals
          <6>2. x \o Zeros(z) = u
              BY <3>6, <6>1
          <6>3. ZerosBehind(Len(x), z, u)
              BY <6>1, <6>2, ZeroTail
          <6> QED
              BY <6>1, <6>3 DEF ZerosBehind
        <5>2. r.zeros \in 1 .. r.zeros
            BY <4>1
        <5>3. u[Len(u)] = 0
            BY <5>1, <5>2
        <5> QED
            BY <5>3 DEF Good, WellFormed
      <4>3. Zeros(0) = <<>>
          BY DEF Zeros
      <4>4. r.unit \o <<>> = r.unit
          BY <4>1, ConcatEmptySeq
      <4> QED
          BY <3>6, <4>2, <4>3, <4>4
    <3>9. Sent(r) = Append(p, u)
        BY <3>6, <3>8 DEF Sent, Good
    <3> QED
        BY <3>1, <3>4, <3>8, <3>9 DEF d, e, r
  <2> QED
      BY <2>1, <2>2
<1>3. Seq(Good) \subseteq S
  <2> HIDE DEF S
  <2> QED
      BY <1>1, <1>2, SeqInduction
<1>4. Read(q, l)
    BY <1>3
<1> DEFINE r == ReadAll(Stream(q, l))
<1>5. r \in ReaderStates /\ r.zeros = 0 /\ Sent(r) = q
    BY <1>0, <1>4, SeqMonotonic, StreamIsBytes, ReadAllTyped
<1>6. StreamNALUs(Stream(q, l)) = Sent([r EXCEPT !.unit = @ \o Zeros(r.zeros)])
    BY DEF StreamNALUs
<1> HIDE DEF r
<1>7. r.unit \o Zeros(0) = r.unit
    BY <1>5, ConcatEmptySeq DEF Zeros, ReaderStates, Nals
<1>8. [r EXCEPT !.unit = @ \o Zeros(r.zeros)] = r
    BY <1>5, <1>7 DEF ReaderStates
<1> QED
    BY <1>5, <1>6, <1>8

-----------------------------------------------------------------------------
(* ParseAnnexB: what a start code and a unit put behind a stream do to the *)
(* start codes that are found in it.                                       *)

(* The start codes, byte by byte.                                          *)
ShortCode(d, i) == i + 2 <= Len(d) /\ d[i] = 0 /\ d[i + 1] = 0 /\ d[i + 2] = 1
LongCode(d, i) == i + 3 <= Len(d) /\ d[i] = 0 /\ d[i + 1] = 0 /\ d[i + 2] = 0 /\ d[i + 3] = 1

(* A part of a stream.                                                     *)
LEMMA PartOf ==
    ASSUME NEW d \in Nals, NEW i \in Nat, i >= 1, NEW j \in Nat, j <= Len(d), i <= j + 1
    PROVE  /\ SubSeq(d, i, j) \in Nals
           /\ Len(SubSeq(d, i, j)) = j - i + 1
           /\ \A m \in 1 .. j - i + 1 : SubSeq(d, i, j)[m] = d[i + m - 1]
<1>1. Len(d) \in Nat /\ d \in Seq(0 .. 255)
    BY LenProperties DEF Nals
<1>2. \A m \in i .. j : d[m] \in 0 .. 255
  <2> TAKE m \in i .. j
  <2>1. m \in 1 .. Len(d)
      BY <1>1
  <2> QED
      BY <1>1, <2>1, ElementOfSeq
<1>3. i \in Int /\ j \in Int
    OBVIOUS
<1>4. /\ SubSeq(d, i, j) \in Seq(0 .. 255)
      /\ Len(SubSeq(d, i, j)) = IF i <= j THEN j - i + 1 ELSE 0
      /\ \A m \in 1 .. j - i + 1 : SubSeq(d, i, j)[m] = d[i + m - 1]
    BY <1>2, <1>3, SubSeqProperties
<1> QED
    BY <1>4 DEF Nals

(* At, for the two start codes, byte by byte.                              *)
LEMMA CodeAt ==
    ASSUME NEW d \in Nals, NEW i \in Nat, i >= 1
    PROVE  /\ At(d, i, StartCode(3)) <=> ShortCode(d, i)
           /\ At(d, i, StartCode(4)) <=> LongCode(d, i)
<1>1. Len(d) \in Nat /\ d \in Seq(0 .. 255)
    BY LenProperties DEF Nals
<1>2. At(d, i, StartCode(3)) <=> i + 2 <= Len(d) /\ SubSeq(d, i, i + 2) = <<0, 0, 1>>
    BY DEF At, StartCode
<1>3. At(d, i, StartCode(4)) <=> i + 3 <= Len(d) /\ SubSeq(d, i, i + 3) = <<0, 0, 0, 1>>
    BY DEF At, StartCode
<1>4. ASSUME i + 2 <= Len(d) PROVE SubSeq(d, i, i + 2) = <<0, 0, 1>> <=> d[i] = 0 /\ d[i + 1] = 0 /\ d[i + 2] = 1
  <2> DEFINE s == SubSeq(d, i, i + 2)
  <2>1. s \in Seq(0 .. 255) /\ Len(s) = 3 /\ s[1] = d[i] /\ s[2] = d[i + 1] /\ s[3] = d[i + 2]
    <3>1. PICK j \in Nat : j = i + 2
        OBVIOUS
    <3>2. j <= Len(d) /\ i <= j + 1 /\ j - i + 1 = 3 /\ i + 1 - 1 = i /\ i + 2 - 1 = i + 1 /\ i + 3 - 1 = i + 2
        BY <1>1, <1>4, <3>1
    <3>3. /\ SubSeq(d, i, j) \in Nals /\ Len(SubSeq(d, i, j)) = j - i + 1
          /\ \A m \in 1 .. j - i + 1 : SubSeq(d, i, j)[m] = d[i + m - 1]
        BY <3>1, <3>2, PartOf
    <3>4. s \in Nals /\ Len(s) = 3 /\ \A m \in 1 .. 3 : s[m] = d[i + m - 1]
        BY <3>1, <3>2, <3>3
    <3> HIDE DEF s
    <3> QED
        BY <3>2, <3>4 DEF Nals
  <2> HIDE DEF s
  <2>2. s = <<0, 0, 1>> <=> s[1] = 0 /\ s[2] = 0 /\ s[3] = 1
      BY <2>1
  <2> QED
      BY <2>1, <2>2 DEF s
<1>5. ASSUME i + 3 <= Len(d)
      PROVE SubSeq(d, i, i + 3) = <<0, 0, 0, 1>> <=> d[i] = 0 /\ d[i + 1] = 0 /\ d[i + 2] = 0 /\ d[i + 3] = 1
  <2> DEFINE s == SubSeq(d, i, i + 3)
  <2>1. s \in Seq(0 .. 255) /\ Len(s) = 4 /\ s[1] = d[i] /\ s[2] = d[i + 1] /\ s[3] = d[i + 2] /\ s[4] = d[i + 3]
    <3>1. PICK j \in Nat : j = i + 3
        OBVIOUS
    <3>2. j <= Len(d) /\ i <= j + 1 /\ j - i + 1 = 4 /\ i + 1 - 1 = i /\ i + 2 - 1 = i + 1 /\ i + 3 - 1 = i + 2 /\ i + 4 - 1 = i + 3
        BY <1>1, <1>5, <3>1
    <3>3. /\ SubSeq(d, i, j) \in Nals /\ Len(SubSeq(d, i, j)) = j - i + 1
          /\ \A m \in 1 .. j - i + 1 : SubSeq(d, i, j)[m] = d[i + m - 1]
        BY <3>1, <3>2, PartOf
    <3>4. s \in Nals /\ Len(s) = 4 /\ \A m \in 1 .. 4 : s[m] = d[i + m - 1]
        BY <3>1, <3>2, <3>3
    <3> HIDE DEF s
    <3> QED
        BY <3>2, <3>4 DEF Nals
  <2> HIDE DEF s
  <2>2. s = <<0, 0, 0, 1>> <=> s[1] = 0 /\ s[2] = 0 /\ s[3] = 0 /\ s[4] = 1
      BY <2>1
  <2> QED
      BY <2>1, <2>2 DEF s
<1> QED
    BY <1>2, <1>3, <1>4, <1>5 DEF ShortCode, LongCode

(* Starts, byte by byte.                                                   *)
LEMMA StartsAt ==
    ASSUME NEW d \in Nals, NEW i
    PROVE  i \in Starts(d) <=> /\ i \in 1 .. Len(d) - 3
                               /\ LongCode(d, i) \/ (ShortCode(d, i) /\ (i = 1 \/ ~LongCode(d, i - 1)))
<1>0. Len(d) \in Nat
    BY LenProperties DEF Nals
<1>1. i \in Starts(d) <=> /\ i \in 1 .. Len(d) - 3
                          /\ At(d, i, StartCode(4)) \/ (At(d, i, StartCode(3)) /\ (i = 1 \/ ~At(d, i - 1, StartCode(4))))
    BY DEF Starts
<1>2. ASSUME i \in 1 .. Len(d) - 3
      PROVE  /\ At(d, i, StartCode(4)) <=> LongCode(d, i)
             /\ At(d, i, StartCode(3)) <=> ShortCode(d, i)
             /\ i # 1 => (At(d, i - 1, StartCode(4)) <=> LongCode(d, i - 1))
  <2>1. i \in Nat /\ i >= 1 /\ (i # 1 => i - 1 \in Nat /\ i - 1 >= 1)
      BY <1>0, <1>2
  <2> QED
      BY <2>1, CodeAt
<1> QED
    BY <1>1, <1>2

(* Bytes that nothing put behind them can make a start code of.            *)
Closed(d) ==
    /\ Len(d) > 0 => d[Len(d)] # 0
    /\ Len(d) > 2 => ~ShortCode(d, Len(d) - 2)
(* e is d with a start code of length k and the unit u behind it.          *)
Extended(e, d, k, u) ==
    /\ e \in Nals /\ Len(e) = Len(d) + k + Len(u)
    /\ \A i \in 1 .. Len(d) : e[i] = d[i]
    /\ e[Len(d) + 1] = 0 /\ e[Len(d) + 2] = 0
    /\ k = 3 => e[Len(d) + 3] = 1
    /\ k = 4 => e[Len(d) + 3] = 0 /\ e[Len(d) + 4] = 1
    /\ \A i \in 1 .. Len(u) : e[Len(d) + k + i] = u[i]

(* A start code and a unit behind a stream extend it.                      *)
LEMMA ExtendedIs ==
    ASSUME NEW d \in Nals, NEW k \in Codes, NEW u \in Nals
    PROVE  Extended(d \o (StartCode(k) \o u), d, k, u)
<1> DEFINE s == StartCode(k)
<1>1. s \in Nals /\ Len(s) = k /\ s[1] = 0 /\ s[2] = 0 /\ (k = 3 => s[3] = 1) /\ (k = 4 => s[3] = 0 /\ s[4] = 1)
  <2>1. s \in Nals /\ Len(s) = k /\ (k = 3 => s = <<0, 0, 1>>) /\ (k = 4 => s = <<0, 0, 0, 1>>)
      BY CodesAreBytes DEF Byte, Nals
  <2> HIDE DEF s
  <2> QED
      BY <2>1 DEF Codes
<1> HIDE DEF s
<1>2. k \in Nat /\ (k = 3 \/ k = 4) /\ Len(d) \in Nat /\ Len(u) \in Nat
    BY LenProperties DEF Codes, Nals
<1> DEFINE t == s \o u
<1>3. /\ t \in Nals /\ Len(t) = k + Len(u)
      /\ \A i \in 1 .. k + Len(u) : t[i] = IF i <= k THEN s[i] ELSE u[i - k]
  <2>1. s \in Seq(0 .. 255) /\ u \in Seq(0 .. 255)
      BY <1>1 DEF Nals
  <2>2. /\ s \o u \in Seq(0 .. 255) /\ Len(s \o u) = Len(s) + Len(u)
        /\ \A i \in 1 .. Len(s) + Len(u) : (s \o u)[i] = IF i <= Len(s) THEN s[i] ELSE u[i - Len(s)]
      BY <2>1, ConcatProperties
  <2>3. Len(s) = k
      BY <1>1
  <2> QED
      BY <2>2, <2>3 DEF Nals
<1> HIDE DEF t
<1> DEFINE e == d \o t
<1>4. /\ e \in Nals /\ Len(e) = Len(d) + Len(t)
      /\ \A i \in 1 .. Len(d) + Len(t) : e[i] = IF i <= Len(d) THEN d[i] ELSE t[i - Len(d)]
    BY <1>3, ConcatProperties DEF Nals
<1> HIDE DEF e
<1>5. \A i \in 1 .. Len(d) : e[i] = d[i]
    BY <1>2, <1>3, <1>4
<1>6. \A j \in 1 .. k + Len(u) : e[Len(d) + j] = t[j]
  <2> TAKE j \in 1 .. k + Len(u)
  <2>1. Len(d) + j \in 1 .. Len(d) + Len(t) /\ ~(Len(d) + j <= Len(d)) /\ (Len(d) + j) - Len(d) = j
      BY <1>2, <1>3
  <2> QED
      BY <1>4, <2>1
<1>7. \A j \in 1 .. k : e[Len(d) + j] = s[j]
    BY <1>2, <1>3, <1>6
<1>8. \A i \in 1 .. Len(u) : e[Len(d) + k + i] = u[i]
  <2> TAKE i \in 1 .. Len(u)
  <2>1. k + i \in 1 .. k + Len(u) /\ ~(k + i <= k) /\ (k + i) - k = i /\ Len(d) + (k + i) = Len(d) + k + i
      BY <1>2
  <2>2. e[Len(d) + (k + i)] = t[k + i]
      BY <1>6, <2>1
  <2>3. t[k + i] = u[(k + i) - k]
      BY <1>3, <2>1
  <2> QED
      BY <2>1, <2>2, <2>3
<1>9. 1 \in 1 .. k /\ 2 \in 1 .. k /\ 3 \in 1 .. k /\ (k = 4 => 4 \in 1 .. k)
    BY <1>2
<1>10. Len(e) = Len(d) + k + Len(u)
    BY <1>2, <1>3, <1>4
<1>11. e[Len(d) + 1] = 0 /\ e[Len(d) + 2] = 0 /\ (k = 3 => e[Len(d) + 3] = 1) /\ (k = 4 => e[Len(d) + 3] = 0 /\ e[Len(d) + 4] = 1)
    BY <1>1, <1>7, <1>9
<1>12. Extended(e, d, k, u)
    BY <1>4, <1>5, <1>8, <1>10, <1>11 DEF Extended
<1> QED
    BY <1>12 DEF e, t, s

(* What a well-formed unit is.                                             *)
LEMMA GoodUnit ==
    ASSUME NEW u \in Good
    PROVE  /\ u \in Nals /\ Len(u) \in Nat /\ Len(u) >= 1 /\ u[Len(u)] # 0
           /\ \A i \in 1 .. Len(u) - 2 : ~(u[i] = 0 /\ u[i + 1] = 0 /\ u[i + 2] \in {0, 1})
<1>1. u \in Seq(0 .. 255) /\ u # <<>>
    BY DEF Good, Nals
<1>2. Len(u) \in Nat /\ Len(u) >= 1
    BY <1>1, LenProperties, EmptySeq
<1> QED
    BY <1>1, <1>2 DEF Good, WellFormed, Bytes

(* A stream with a well-formed unit at its end is closed.                  *)
LEMMA StaysClosed ==
    ASSUME NEW d \in Nals, NEW k \in Codes, NEW u \in Good, NEW e, Extended(e, d, k, u)
    PROVE  Closed(e)
<1>1. Len(d) \in Nat /\ k \in Nat /\ (k = 3 \/ k = 4) /\ Len(u) \in Nat /\ Len(u) >= 1
    BY GoodUnit, LenProperties DEF Nals, Codes
<1>2. Len(e) = Len(d) + k + Len(u)
    BY DEF Extended
<1>3. e[Len(e)] # 0
  <2>1. Len(u) \in 1 .. Len(u) /\ Len(e) = Len(d) + k + Len(u)
      BY <1>1, <1>2
  <2> QED
      BY <2>1, GoodUnit DEF Extended
<1>4. ~ShortCode(e, Len(e) - 2)
  <2>0. SUFFICES ASSUME e[Len(e) - 2] = 0, e[Len(e) - 1] = 0, e[Len(e)] = 1 PROVE FALSE
    <3>1. (Len(e) - 2) + 1 = Len(e) - 1 /\ (Len(e) - 2) + 2 = Len(e)
        BY <1>1, <1>2
    <3> QED
        BY <3>1 DEF ShortCode
  <2>4. e[Len(d) + k] = 1
      BY <1>1 DEF Extended
  <2>1. CASE Len(u) = 1
    <3>1. Len(e) - 1 = Len(d) + k
        BY <1>1, <1>2, <2>1
    <3> QED
        BY <2>0, <2>4, <3>1
  <2>2. CASE Len(u) = 2
    <3>1. Len(e) - 2 = Len(d) + k
        BY <1>1, <1>2, <2>2
    <3> QED
        BY <2>0, <2>4, <3>1
  <2>3. CASE Len(u) >= 3
    <3>1. PICK i \in 1 .. Len(u) - 2 : i = Len(u) - 2
        BY <1>1, <2>3
    <3>2. i \in 1 .. Len(u) /\ i + 1 \in 1 .. Len(u) /\ i + 2 \in 1 .. Len(u)
          /\ Len(d) + k + i = Len(e) - 2 /\ Len(d) + k + (i + 1) = Len(e) - 1 /\ Len(d) + k + (i + 2) = Len(e)
        BY <1>1, <1>2, <3>1
    <3>3. u[i] = 0 /\ u[i + 1] = 0 /\ u[i + 2] = 1
      <4>1. /\ e[Len(d) + k + i] = u[i] /\ e[Len(d) + k + (i + 1)] = u[i + 1]
            /\ e[Len(d) + k + (i + 2)] = u[i + 2]
          BY <3>2 DEF Extended
      <4> QED
          BY <2>0, <3>2, <4>1
    <3> QED
      <4>1. ~(u[i] = 0 /\ u[i + 1] = 0 /\ u[i + 2] \in {0, 1})
          BY <3>1, GoodUnit
      <4> QED
          BY <3>3, <4>1
  <2>5. Len(u) = 1 \/ Len(u) = 2 \/ Len(u) >= 3
    <3>1. PICK n \in Nat : n = Len(u)
        BY <1>1
    <3>2. n >= 1
        BY <1>1, <3>1
    <3>3. n = 1 \/ n = 2 \/ n >= 3
        BY <3>2
    <3> QED
        BY <3>1, <3>3
  <2> QED
      BY <2>1, <2>2, <2>3, <2>5, Zenon
<1> QED
    BY <1>3, <1>4 DEF Closed

(* Behind a closed stream one start code more is found, and those before   *)
(* stay.                                                                   *)
LEMMA StartsExtended ==
    ASSUME NEW d \in Nals, Closed(d), NEW k \in Codes, NEW u \in Good, NEW e, Extended(e, d, k, u)
    PROVE  /\ \A i \in 1 .. Len(e) : i \in Starts(e) <=> i \in Starts(d) \/ i = Len(d) + 1
           /\ CodeLength(e, Len(d) + 1) = k
           /\ \A i \in Starts(d) : CodeLength(e, i) = CodeLength(d, i)
<1> DEFINE n == Len(d)
<1> DEFINE m == Len(u)
<1>1. n \in Nat /\ k \in Nat /\ (k = 3 \/ k = 4) /\ m \in Nat /\ m >= 1
    BY GoodUnit, LenProperties DEF Nals, Codes
<1>2. /\ e \in Nals /\ Len(e) = n + k + m
      /\ \A i \in 1 .. n : e[i] = d[i]
      /\ e[n + 1] = 0 /\ e[n + 2] = 0
      /\ k = 3 => e[n + 3] = 1
      /\ k = 4 => e[n + 3] = 0 /\ e[n + 4] = 1
      /\ \A i \in 1 .. m : e[n + k + i] = u[i]
    BY DEF Extended
<1>3. \A i \in 1 .. m - 2 : ~(u[i] = 0 /\ u[i + 1] = 0 /\ u[i + 2] \in {0, 1})
    BY GoodUnit
<1>4. n > 0 => d[n] # 0
    BY DEF Closed
<1>5. n > 2 => ~ShortCode(d, n - 2)
    BY DEF Closed
<1> HIDE DEF n, m
<1>6. ASSUME NEW i \in Nat, i >= 1, i <= n - 3
      PROVE  (LongCode(e, i) <=> LongCode(d, i)) /\ (ShortCode(e, i) <=> ShortCode(d, i))
  <2>1. i \in 1 .. n /\ i + 1 \in 1 .. n /\ i + 2 \in 1 .. n /\ i + 3 \in 1 .. n
        /\ i + 3 <= n /\ i + 2 <= n /\ i + 3 <= Len(e) /\ i + 2 <= Len(e)
      BY <1>1, <1>2, <1>6
  <2>2. e[i] = d[i] /\ e[i + 1] = d[i + 1] /\ e[i + 2] = d[i + 2] /\ e[i + 3] = d[i + 3]
      BY <1>2, <2>1
  <2> QED
      BY <2>1, <2>2 DEF LongCode, ShortCode, n
(* Neither kind of start code begins in the last three bytes of d.         *)
<1>7. ASSUME NEW i \in Nat, i >= 1, i > n - 3, i <= n
      PROVE  ~LongCode(e, i) /\ ~ShortCode(e, i)
  <2>1. e[n] # 0
      BY <1>1, <1>2, <1>4, <1>7
  <2>2. CASE i = n
      BY <2>1, <2>2 DEF LongCode, ShortCode
  <2>3. CASE i + 1 = n
      BY <2>1, <2>3 DEF LongCode, ShortCode
  <2>4. CASE i + 2 = n
    <3>1. ~LongCode(e, i)
        BY <2>1, <2>4 DEF LongCode
    <3>2. e[i] = d[i] /\ e[i + 1] = d[i + 1] /\ e[i + 2] = d[i + 2] /\ i = n - 2 /\ n > 2
      <4>1. i \in 1 .. n /\ i + 1 \in 1 .. n /\ i + 2 \in 1 .. n /\ i = n - 2 /\ n > 2
          BY <1>1, <1>7, <2>4
      <4> QED
          BY <1>2, <4>1
    <3>3. ~ShortCode(d, i)
        BY <1>5, <3>2
    <3>4. i + 2 <= n
        BY <1>1, <2>4
    <3> QED
        BY <3>1, <3>2, <3>3, <3>4 DEF ShortCode, n
  <2>5. i = n \/ i + 1 = n \/ i + 2 = n
      BY <1>1, <1>7
  <2> QED
      BY <2>2, <2>3, <2>4, <2>5
<1>8. LongCode(e, n + 1) <=> k = 4
  <2>1. (n + 1) + 1 = n + 2 /\ (n + 1) + 2 = n + 3 /\ (n + 1) + 3 = n + 4
      BY <1>1
  <2>2. n + 4 <= n + k + m
      BY <1>1
  <2> QED
      BY <1>1, <1>2, <2>1, <2>2 DEF LongCode
<1>9. k = 3 => ShortCode(e, n + 1)
  <2>1. (n + 1) + 1 = n + 2 /\ (n + 1) + 2 = n + 3
      BY <1>1
  <2>2. n + 3 <= n + k + m
      BY <1>1
  <2> QED
      BY <1>2, <2>1, <2>2 DEF ShortCode
(* None begins in the start code behind its first byte, but a short one in *)
(* a long one.                                                             *)
<1>10. ASSUME NEW i \in Nat, i > n + 1, i <= n + k
       PROVE  ~LongCode(e, i) /\ (ShortCode(e, i) => k = 4 /\ i = n + 2)
  <2>1. CASE i = n + 2
    <3>1. i + 1 = n + 3 /\ i + 2 = n + 4
        BY <1>1, <2>1
    <3> QED
        BY <1>1, <1>2, <2>1, <3>1 DEF LongCode, ShortCode
  <2>2. CASE i = n + 3
    <3>1. i + 1 = n + 4
        BY <1>1, <2>2
    <3> QED
        BY <1>1, <1>2, <2>2, <3>1 DEF LongCode, ShortCode
  <2>3. CASE i = n + 4 /\ k = 4
      BY <1>2, <2>3 DEF LongCode, ShortCode
  <2>4. i = n + 2 \/ i = n + 3 \/ (i = n + 4 /\ k = 4)
      BY <1>1, <1>10
  <2> QED
      BY <2>1, <2>2, <2>3, <2>4
(* None begins in the unit.                                                *)
<1>11. ASSUME NEW i \in Nat, i > n + k
       PROVE  ~LongCode(e, i) /\ ~ShortCode(e, i)
  <2> SUFFICES ASSUME i + 2 <= Len(e), e[i] = 0, e[i + 1] = 0, e[i + 2] \in {0, 1} PROVE FALSE
    <3>1. i + 3 <= Len(e) => i + 2 <= Len(e)
        BY <1>1, <1>2
    <3> QED
        BY <3>1 DEF LongCode, ShortCode
  <2>1. PICK j \in Nat : j = i - (n + k)
      BY <1>1, <1>11
  <2>2. j \in 1 .. m - 2 /\ j \in 1 .. m /\ j + 1 \in 1 .. m /\ j + 2 \in 1 .. m
        /\ n + k + j = i /\ n + k + (j + 1) = i + 1 /\ n + k + (j + 2) = i + 2
      BY <1>1, <1>2, <1>11, <2>1
  <2>3. e[n + k + j] = u[j] /\ e[n + k + (j + 1)] = u[j + 1] /\ e[n + k + (j + 2)] = u[j + 2]
      BY <1>2, <2>2
  <2>4. u[j] = 0 /\ u[j + 1] = 0 /\ u[j + 2] \in {0, 1}
      BY <2>2, <2>3
  <2>5. ~(u[j] = 0 /\ u[j + 1] = 0 /\ u[j + 2] \in {0, 1})
      BY <1>3, <2>2
  <2> QED
      BY <2>4, <2>5, Zenon
<1> DEFINE InStarts(f, i) == LongCode(f, i) \/ (ShortCode(f, i) /\ (i = 1 \/ ~LongCode(f, i - 1)))
<1>12. \A i : i \in Starts(e) <=> i \in 1 .. Len(e) - 3 /\ InStarts(e, i)
    BY <1>2, StartsAt
<1>13. \A i : i \in Starts(d) <=> i \in 1 .. n - 3 /\ InStarts(d, i)
    BY StartsAt DEF n
<1>14. ASSUME NEW i \in 1 .. Len(e) PROVE i \in Starts(e) <=> i \in Starts(d) \/ i = n + 1
  <2>0. i \in Nat /\ i >= 1 /\ Len(e) \in Nat
      BY <1>1, <1>2, <1>14
  <2>1. CASE i <= n - 3
    <3>1. /\ i \in 1 .. n - 3 /\ i \in 1 .. Len(e) - 3 /\ i # n + 1
          /\ i # 1 => i - 1 \in Nat /\ i - 1 >= 1 /\ i - 1 <= n - 3
        BY <1>1, <1>2, <2>0, <2>1
    <3>2. (LongCode(e, i) <=> LongCode(d, i)) /\ (ShortCode(e, i) <=> ShortCode(d, i))
        BY <1>6, <2>0, <2>1
    <3>3. i # 1 => (LongCode(e, i - 1) <=> LongCode(d, i - 1))
        BY <1>6, <3>1
    <3>4. InStarts(e, i) <=> InStarts(d, i)
        BY <3>2, <3>3
    <3> QED
        BY <1>12, <1>13, <3>1, <3>4
  <2>2. CASE i > n - 3 /\ i <= n
    <3>1. i \notin 1 .. n - 3 /\ i # n + 1
        BY <1>1, <2>0, <2>2
    <3>2. ~InStarts(e, i)
        BY <1>7, <2>0, <2>2
    <3> QED
        BY <1>12, <1>13, <3>1, <3>2
  <2>3. CASE i = n + 1
    <3>1. i \in 1 .. Len(e) - 3
        BY <1>1, <1>2, <2>3
    <3>2. InStarts(e, i)
      <4>1. CASE k = 4
          BY <1>8, <2>3, <4>1
      <4>2. CASE k = 3
        <5>1. i = 1 \/ ~LongCode(e, i - 1)
          <6>1. i # 1 => n \in Nat /\ n >= 1 /\ n > n - 3 /\ n <= n /\ i - 1 = n
              BY <1>1, <2>3
          <6> QED
              BY <1>7, <6>1
        <5> QED
            BY <1>9, <2>3, <4>2, <5>1
      <4> QED
          BY <1>1, <4>1, <4>2
    <3> QED
        BY <1>12, <2>3, <3>1, <3>2
  <2>4. CASE i > n + 1
    <3>1. i \notin 1 .. n - 3 /\ i # n + 1
        BY <1>1, <2>0, <2>4
    <3>2. ~InStarts(e, i)
      <4>1. CASE i <= n + k
        <5>1. ~LongCode(e, i) /\ (ShortCode(e, i) => k = 4 /\ i = n + 2)
            BY <1>10, <2>0, <2>4, <4>1
        <5>2. i = n + 2 => i - 1 = n + 1 /\ i # 1
            BY <1>1
        <5> QED
            BY <1>8, <5>1, <5>2
      <4>2. CASE i > n + k
          BY <1>11, <2>0, <4>2
      <4> QED
          BY <1>1, <2>0, <4>1, <4>2
    <3> QED
        BY <1>12, <1>13, <3>1, <3>2
  <2> QED
      BY <1>1, <2>0, <2>1, <2>2, <2>3, <2>4
<1>15. CodeLength(e, n + 1) = k
  <2>1. At(e, n + 1, StartCode(4)) <=> LongCode(e, n + 1)
    <3>1. n + 1 \in Nat /\ n + 1 >= 1
        BY <1>1
    <3> QED
        BY <1>2, <3>1, CodeAt
  <2> QED
      BY <1>1, <1>8, <2>1 DEF CodeLength
<1>16. ASSUME NEW i \in Starts(d) PROVE CodeLength(e, i) = CodeLength(d, i)
  <2>1. i \in 1 .. n - 3
      BY <1>13, <1>16
  <2>2. i \in Nat /\ i >= 1 /\ i <= n - 3
      BY <1>1, <2>1
  <2>3. LongCode(e, i) <=> LongCode(d, i)
      BY <1>6, <2>2
  <2>4. (At(e, i, StartCode(4)) <=> LongCode(e, i)) /\ (At(d, i, StartCode(4)) <=> LongCode(d, i))
      BY <1>2, <2>2, CodeAt
  <2> QED
      BY <2>3, <2>4 DEF CodeLength
<1> QED
    BY <1>14, <1>15, <1>16 DEF n

-----------------------------------------------------------------------------
(* The positions in order, and the pieces between them.                    *)

Upto(n) == [i \in 1 .. n |-> i]

(* The numbers up to n.                                                    *)
LEMMA UptoIs ==
    ASSUME NEW n \in Nat
    PROVE  Upto(n) \in Seq(1 .. n) /\ Len(Upto(n)) = n /\ \A i \in 1 .. n : Upto(n)[i] = i
<1>1. Upto(n) \in [1 .. n -> 1 .. n] /\ DOMAIN Upto(n) = 1 .. n /\ \A i \in 1 .. n : Upto(n)[i] = i
    BY DEF Upto
<1>2. Upto(n) \in Seq(1 .. n)
    BY <1>1
<1>3. Len(Upto(n)) = n
    BY <1>1, <1>2, LenProperties
<1> QED
    BY <1>1, <1>2, <1>3

(* The positions are those of start codes.                                 *)
LEMMA PositionsTyped ==
    ASSUME NEW d \in Nals
    PROVE  /\ Positions(d) \in Seq((1 .. Len(d)) \cap Starts(d))
           /\ Len(Positions(d)) \in Nat
<1>1. Len(d) \in Nat
    BY LenProperties DEF Nals
<1>2. Upto(Len(d)) \in Seq(1 .. Len(d))
    BY <1>1, UptoIs
<1>3. Positions(d) = Select(Upto(Len(d)), Starts(d))
    BY DEF Positions, Upto
<1>4. Positions(d) \in Seq((1 .. Len(d)) \cap Starts(d))
    BY <1>2, <1>3, SelectSeqs
<1> QED
    BY <1>4, LenProperties

(* One start code more is one position more, the last.                     *)
LEMMA PositionsExtended ==
    ASSUME NEW d \in Nals, NEW e \in Nals, Len(e) > Len(d),
           \A i \in 1 .. Len(e) : i \in Starts(e) <=> i \in Starts(d) \/ i = Len(d) + 1
    PROVE  Positions(e) = Append(Positions(d), Len(d) + 1)
<1> DEFINE n == Len(d)
<1> DEFINE l == Len(e)
<1>1. n \in Nat /\ l \in Nat /\ l > n
    BY LenProperties DEF Nals
<1>2. \A i \in 1 .. l : i \in Starts(e) <=> i \in Starts(d) \/ i = n + 1
    OBVIOUS
<1>3. \A i \in Starts(d) : i \in 1 .. n
    BY <1>1 DEF Starts
<1> HIDE DEF n, l
<1> DEFINE one == <<n + 1>>
<1> DEFINE more == [i \in 1 .. l - (n + 1) |-> n + 1 + i]
<1>4. one \in Seq(Nat) /\ Len(one) = 1 /\ one[1] = n + 1
    BY <1>1
<1>5. more \in Seq(Nat) /\ Len(more) = l - (n + 1) /\ \A i \in 1 .. l - (n + 1) : more[i] = n + 1 + i
  <2>0. l - (n + 1) \in Nat
      BY <1>1
  <2>1. more \in [1 .. l - (n + 1) -> Nat] /\ DOMAIN more = 1 .. l - (n + 1)
        /\ \A i \in 1 .. l - (n + 1) : more[i] = n + 1 + i
      BY <1>1
  <2> HIDE DEF more
  <2>2. more \in Seq(Nat)
      BY <2>0, <2>1
  <2>3. Len(more) = l - (n + 1)
      BY <2>0, <2>1, <2>2, LenProperties
  <2> QED
      BY <2>1, <2>2, <2>3
<1> HIDE DEF one, more
<1>6. /\ Upto(n) \in Seq(1 .. n) /\ Upto(n) \in Seq(Nat) /\ Len(Upto(n)) = n /\ (\A i \in 1 .. n : Upto(n)[i] = i)
      /\ Upto(l) \in Seq(Nat) /\ Len(Upto(l)) = l /\ \A i \in 1 .. l : Upto(l)[i] = i
  <2>1. 1 .. n \subseteq Nat /\ 1 .. l \subseteq Nat
      BY <1>1
  <2> QED
      BY <1>1, <2>1, UptoIs, SeqMonotonic
<1> DEFINE tail == one \o more
<1>7. tail \in Seq(Nat) /\ Len(tail) = l - n /\ \A j \in 1 .. l - n : tail[j] = n + j
  <2>1. /\ tail \in Seq(Nat) /\ Len(tail) = Len(one) + Len(more)
        /\ \A j \in 1 .. Len(one) + Len(more) : tail[j] = IF j <= Len(one) THEN one[j] ELSE more[j - Len(one)]
    <3>1. one \in Seq(Nat) /\ more \in Seq(Nat)
        BY <1>4, <1>5
    <3> QED
        BY <3>1, ConcatProperties
  <2> HIDE DEF tail
  <2>2. Len(one) + Len(more) = l - n
      BY <1>1, <1>4, <1>5
  <2>3. ASSUME NEW j \in 1 .. l - n PROVE tail[j] = n + j
    <3>1. tail[j] = IF j <= 1 THEN one[j] ELSE more[j - 1]
        BY <1>4, <2>1, <2>2
    <3>2. CASE j = 1
        BY <1>4, <3>1, <3>2
    <3>3. CASE j # 1
      <4>1. ~(j <= 1) /\ j - 1 \in 1 .. l - (n + 1) /\ n + 1 + (j - 1) = n + j
          BY <1>1, <3>3
      <4>2. more[j - 1] = n + 1 + (j - 1)
          BY <1>5, <4>1
      <4> QED
          BY <3>1, <4>1, <4>2
    <3> QED
        BY <3>2, <3>3
  <2> QED
      BY <2>1, <2>2, <2>3
<1> HIDE DEF tail
<1>8. Upto(l) = Upto(n) \o tail
  <2> DEFINE s == Upto(n) \o tail
  <2>1. /\ s \in Seq(Nat) /\ Len(s) = n + (l - n)
        /\ \A j \in 1 .. n + (l - n) : s[j] = IF j <= n THEN Upto(n)[j] ELSE tail[j - n]
    <3>1. /\ s \in Seq(Nat) /\ Len(s) = Len(Upto(n)) + Len(tail)
          /\ \A j \in 1 .. Len(Upto(n)) + Len(tail) :
                s[j] = IF j <= Len(Upto(n)) THEN Upto(n)[j] ELSE tail[j - Len(Upto(n))]
        BY <1>6, <1>7, ConcatProperties, Zenon
    <3>2. Len(Upto(n)) = n /\ Len(tail) = l - n
        BY <1>6, <1>7
    <3> QED
        BY <3>1, <3>2, Zenon
  <2> HIDE DEF s
  <2>2. n + (l - n) = l
      BY <1>1
  <2>3. ASSUME NEW j \in 1 .. l PROVE s[j] = j
    <3>1. s[j] = IF j <= n THEN Upto(n)[j] ELSE tail[j - n]
        BY <2>1, <2>2
    <3>2. CASE j <= n
      <4>1. j \in 1 .. n
          BY <1>1, <3>2
      <4> QED
          BY <1>6, <3>1, <3>2, <4>1
    <3>3. CASE ~(j <= n)
      <4>1. j - n \in 1 .. l - n /\ n + (j - n) = j
          BY <1>1, <3>3
      <4> QED
          BY <1>7, <3>1, <3>3, <4>1
    <3> QED
        BY <3>2, <3>3
  <2>4. \A j \in 1 .. Len(s) : s[j] = Upto(l)[j]
      BY <1>6, <2>1, <2>2, <2>3
  <2>5. s = Upto(l)
      BY <1>6, <2>1, <2>2, <2>4, SeqEqual
  <2> QED
      BY <2>5 DEF s
<1>9. Select(Upto(n), Starts(e)) = Select(Upto(n), Starts(d))
  <2>1. (1 .. n) \cap Starts(e) = (1 .. n) \cap Starts(d)
    <3>1. \A i \in 1 .. n : i \in 1 .. l /\ i # n + 1
        BY <1>1
    <3>2. \A i \in 1 .. n : i \in Starts(e) <=> i \in Starts(d)
        BY <1>2, <3>1
    <3> QED
        BY <3>2, Zenon
  <2> QED
    <3>1. PICK A, B, T : A = Starts(e) /\ B = Starts(d) /\ T = 1 .. n
        OBVIOUS
    <3>2. PICK s \in Seq(T) : s = Upto(n)
        BY <1>6, <3>1
    <3>3. T \cap A = T \cap B
        BY <2>1, <3>1
    <3>4. Select(s, A) = Select(s, B)
        BY <3>2, <3>3, SelectAlike
    <3> QED
        BY <3>1, <3>2, <3>4
<1>10. Select(more, Starts(e)) = <<>>
  <2>1. \A i \in DOMAIN more : more[i] \notin Starts(e)
    <3> TAKE i \in DOMAIN more
    <3>1. i \in 1 .. l - (n + 1)
        BY <1>5, LenProperties
    <3>2. more[i] \in 1 .. l /\ more[i] # n + 1 /\ more[i] \notin 1 .. n
        BY <1>1, <1>5, <3>1
    <3> QED
        BY <1>2, <1>3, <3>2
  <2> QED
      BY <1>5, <2>1, SelectNone
<1>11. Select(one, Starts(e)) = one
  <2>1. n + 1 \in 1 .. l /\ n + 1 \in Nat
      BY <1>1
  <2>2. n + 1 \in Starts(e)
      BY <1>2, <2>1
  <2> QED
      BY <2>1, <2>2, SelectSingle DEF one
<1>12. Select(tail, Starts(e)) = one
  <2>1. Select(one \o more, Starts(e)) = Select(one, Starts(e)) \o Select(more, Starts(e))
      BY <1>4, <1>5, SelectConcat
  <2>2. one \o <<>> = one
      BY <1>4, ConcatEmptySeq
  <2> QED
      BY <1>10, <1>11, <2>1, <2>2 DEF tail
<1>13. Select(Upto(l), Starts(e)) = Select(Upto(n), Starts(e)) \o Select(tail, Starts(e))
    BY <1>6, <1>7, <1>8, SelectConcat
<1>14. Positions(e) = Select(Upto(l), Starts(e)) /\ Positions(d) = Select(Upto(n), Starts(d))
    BY DEF Positions, Upto, l, n
<1>15. Positions(e) = Positions(d) \o one
    BY <1>9, <1>12, <1>13, <1>14
<1>16. Append(Positions(d), n + 1) = Positions(d) \o <<n + 1>>
  <2>1. PICK p \in Seq(Nat) : p = Positions(d)
    <3>1. (1 .. Len(d)) \cap Starts(d) \subseteq Nat
        OBVIOUS
    <3> QED
        BY <3>1, PositionsTyped, SeqMonotonic
  <2>2. n + 1 \in Nat
      BY <1>1
  <2>3. Append(p, n + 1) = p \o <<n + 1>>
      BY <2>1, <2>2, AppendIsConcat
  <2> QED
      BY <2>1, <2>3
<1> QED
    BY <1>15, <1>16 DEF one, n

(* The piece behind a position.                                            *)
Piece(d, p, j) ==
    SubSeq(d, p[j] + CodeLength(d, p[j]), IF j < Len(p) THEN p[j + 1] - 1 ELSE Len(d))

(* The pieces, one by one.                                                 *)
LEMMA PiecesAt ==
    ASSUME NEW d \in Nals
    PROVE  Pieces(d) = [j \in 1 .. Len(Positions(d)) |-> Piece(d, Positions(d), j)]
<1>1. DOMAIN Positions(d) = 1 .. Len(Positions(d))
    BY PositionsTyped, LenProperties
<1> QED
    BY <1>1 DEF Pieces, Piece

(* A position is that of a start code.                                     *)
LEMMA PositionAt ==
    ASSUME NEW d \in Nals, NEW j \in 1 .. Len(Positions(d))
    PROVE  Positions(d)[j] \in Starts(d) /\ Positions(d)[j] \in 1 .. Len(d) - 3
<1>1. Positions(d)[j] \in (1 .. Len(d)) \cap Starts(d)
    BY PositionsTyped, ElementOfSeq
<1> QED
    BY <1>1 DEF Starts

(* A start code is three or four bytes long.                               *)
LEMMA CodeLengthIn == ASSUME NEW d, NEW i PROVE CodeLength(d, i) \in {3, 4}
    BY DEF CodeLength

(* The pieces are bytes, one for each position.                            *)
LEMMA PiecesTyped ==
    ASSUME NEW d \in Nals PROVE Pieces(d) \in Seq(Nals) /\ Len(Pieces(d)) = Len(Positions(d))
<1> DEFINE p == Positions(d)
<1>1. Len(p) \in Nat /\ Len(d) \in Nat /\ d \in Seq(0 .. 255)
    BY PositionsTyped, LenProperties DEF Nals
<1>2. \A j \in 1 .. Len(p) : p[j] \in 1 .. Len(d) - 3
    BY PositionAt
<1> HIDE DEF p
<1>3. ASSUME NEW j \in 1 .. Len(p) PROVE Piece(d, p, j) \in Nals
  <2>1. PICK a \in Nat : a = p[j] + CodeLength(d, p[j]) /\ a >= 1
    <3>1. CodeLength(d, p[j]) \in {3, 4}
        BY CodeLengthIn
    <3>2. p[j] \in 1 .. Len(d) - 3
        BY <1>2
    <3> QED
        BY <1>1, <3>1, <3>2
  <2>2. PICK b \in Int : b = (IF j < Len(p) THEN p[j + 1] - 1 ELSE Len(d)) /\ b <= Len(d)
    <3>1. CASE j < Len(p)
      <4>1. p[j + 1] \in 1 .. Len(d) - 3
          BY <1>1, <1>2, <3>1
      <4> QED
          BY <1>1, <3>1, <4>1
    <3> QED
        BY <1>1, <3>1
  <2>3. \A i \in a .. b : d[i] \in 0 .. 255
    <3> TAKE i \in a .. b
    <3>1. i \in 1 .. Len(d)
        BY <1>1, <2>1, <2>2
    <3> QED
        BY <1>1, <3>1, ElementOfSeq
  <2>4. a \in Int /\ SubSeq(d, a, b) \in Seq(0 .. 255)
    <3>1. a \in Int
        BY <2>1
    <3> QED
        BY <2>2, <2>3, <3>1, SubSeqProperties
  <2> QED
      BY <2>1, <2>2, <2>4 DEF Piece, Nals
<1> DEFINE q == [j \in 1 .. Len(p) |-> Piece(d, p, j)]
<1>4. q \in [1 .. Len(p) -> Nals] /\ DOMAIN q = 1 .. Len(p)
    BY <1>3
<1> HIDE DEF q
<1>5. q \in Seq(Nals)
    BY <1>1, <1>4
<1>6. Len(q) = Len(p)
    BY <1>1, <1>4, <1>5, LenProperties
<1> QED
    BY <1>5, <1>6, PiecesAt DEF q, p

(* One unit more is one piece more, the last.                              *)
LEMMA PiecesExtended ==
    ASSUME NEW d \in Nals, Closed(d), NEW k \in Codes, NEW u \in Good, NEW e, Extended(e, d, k, u)
    PROVE  Pieces(e) = Append(Pieces(d), u)
<1> DEFINE n == Len(d)
<1> DEFINE p == Positions(d)
<1> DEFINE r == Positions(e)
<1>1. /\ e \in Nals /\ Len(e) = n + k + Len(u)
      /\ \A i \in 1 .. n : e[i] = d[i]
      /\ \A i \in 1 .. Len(u) : e[n + k + i] = u[i]
    BY DEF Extended
<1>2. n \in Nat /\ k \in Nat /\ (k = 3 \/ k = 4) /\ Len(u) \in Nat /\ Len(u) >= 1 /\ u \in Nals
    BY GoodUnit, LenProperties DEF Nals, Codes
<1>3. /\ \A i \in 1 .. Len(e) : i \in Starts(e) <=> i \in Starts(d) \/ i = n + 1
      /\ CodeLength(e, n + 1) = k
      /\ \A i \in Starts(d) : CodeLength(e, i) = CodeLength(d, i)
    BY StartsExtended
<1>4. r = Append(p, n + 1)
  <2>1. Len(e) > n
      BY <1>1, <1>2
  <2> QED
      BY <1>1, <1>3, <2>1, PositionsExtended
<1>5. Len(p) \in Nat /\ \A j \in 1 .. Len(p) : p[j] \in Starts(d) /\ p[j] \in 1 .. n - 3
    BY PositionsTyped, PositionAt
<1>6. Len(r) = Len(p) + 1 /\ r[Len(p) + 1] = n + 1 /\ \A j \in 1 .. Len(p) : r[j] = p[j]
  <2>1. PICK s \in Seq(Nat) : s = p
    <3>1. (1 .. Len(d)) \cap Starts(d) \subseteq Nat
        OBVIOUS
    <3> QED
        BY <3>1, PositionsTyped, SeqMonotonic
  <2>2. n + 1 \in Nat
      BY <1>2
  <2>3. Len(Append(s, n + 1)) = Len(s) + 1 /\ Append(s, n + 1)[Len(s) + 1] = n + 1
        /\ \A j \in 1 .. Len(s) : Append(s, n + 1)[j] = s[j]
      BY <2>1, <2>2, AppendProperties
  <2> QED
      BY <1>4, <2>1, <2>3
<1> DEFINE v == Pieces(d)
<1> DEFINE w == Pieces(e)
<1>7. /\ v \in Seq(Nals) /\ Len(v) = Len(p) /\ w \in Seq(Nals) /\ Len(w) = Len(r)
      /\ \A j \in 1 .. Len(p) : v[j] = Piece(d, p, j)
      /\ \A j \in 1 .. Len(r) : w[j] = Piece(e, r, j)
    BY <1>1, PiecesTyped, PiecesAt
<1> HIDE DEF n, p, r, v, w
<1>8. ASSUME NEW j \in 1 .. Len(p) PROVE w[j] = v[j]
  <2>1. r[j] = p[j] /\ CodeLength(e, r[j]) = CodeLength(d, p[j])
      BY <1>3, <1>5, <1>6
  <2>2. PICK a \in Nat : a = p[j] + CodeLength(d, p[j]) /\ a >= 1
    <3>1. CodeLength(d, p[j]) \in {3, 4}
        BY CodeLengthIn
    <3> QED
        BY <1>2, <1>5, <3>1
  <2>3. PICK b \in Int : b = (IF j < Len(p) THEN p[j + 1] - 1 ELSE n) /\ b <= n
    <3>1. CASE j < Len(p)
      <4>1. j + 1 \in 1 .. Len(p)
          BY <1>5, <3>1
      <4>2. p[j + 1] \in 1 .. n - 3
          BY <1>5, <4>1
      <4> QED
          BY <1>2, <3>1, <4>2
    <3> QED
        BY <1>2, <3>1
  <2>4. b = (IF j < Len(r) THEN r[j + 1] - 1 ELSE Len(e))
    <3>0. j < Len(r)
        BY <1>5, <1>6
    <3>1. CASE j < Len(p)
      <4>1. j + 1 \in 1 .. Len(p)
          BY <1>5, <3>1
      <4> QED
          BY <1>6, <2>3, <3>0, <3>1, <4>1
    <3>2. CASE j = Len(p)
      <4>1. r[j + 1] = n + 1 /\ (n + 1) - 1 = n
          BY <1>2, <1>6, <3>2
      <4> QED
          BY <2>3, <3>0, <3>2, <4>1
    <3> QED
        BY <1>5, <3>1, <3>2
  <2>5. w[j] = SubSeq(e, a, b)
    <3>1. j \in 1 .. Len(r)
        BY <1>5, <1>6
    <3> QED
        BY <1>7, <2>1, <2>2, <2>4, <3>1 DEF Piece
  <2>6. v[j] = SubSeq(d, a, b)
      BY <1>7, <2>2, <2>3 DEF Piece, n
  <2>7. SubSeq(e, a, b) = SubSeq(d, a, b)
    <3>1. \A i \in a .. b : e[i] = d[i] /\ d[i] \in 0 .. 255
      <4> TAKE i \in a .. b
      <4>1. i \in 1 .. n
          BY <1>2, <2>2, <2>3
      <4>2. d[i] \in 0 .. 255
          BY <4>1, ElementOfSeq DEF Nals, n
      <4> QED
          BY <1>1, <4>1, <4>2
    <3>2. a \in Int
        BY <2>2
    <3> DEFINE x == SubSeq(e, a, b)
    <3> DEFINE y == SubSeq(d, a, b)
    <3>3. /\ x \in Seq(0 .. 255) /\ Len(x) = (IF a <= b THEN b - a + 1 ELSE 0)
          /\ \A i \in 1 .. b - a + 1 : x[i] = e[a + i - 1]
      <4>1. \A i \in a .. b : e[i] \in 0 .. 255
          BY <3>1
      <4> QED
          BY <2>3, <3>2, <4>1, SubSeqProperties
    <3>4. /\ y \in Seq(0 .. 255) /\ Len(y) = (IF a <= b THEN b - a + 1 ELSE 0)
          /\ \A i \in 1 .. b - a + 1 : y[i] = d[a + i - 1]
        BY <2>3, <3>1, <3>2, SubSeqProperties
    <3> HIDE DEF x, y
    <3>5. \A i \in 1 .. Len(x) : x[i] = y[i]
      <4> TAKE i \in 1 .. Len(x)
      <4>1. i \in 1 .. b - a + 1 /\ a + i - 1 \in a .. b
          BY <2>2, <2>3, <3>3
      <4> QED
          BY <3>1, <3>3, <3>4, <4>1
    <3>6. x = y
        BY <3>3, <3>4, <3>5, SeqEqual
    <3> QED
        BY <3>6 DEF x, y
  <2> QED
      BY <2>5, <2>6, <2>7
<1>9. w[Len(p) + 1] = u
  <2>1. w[Len(p) + 1] = SubSeq(e, n + 1 + k, Len(e))
    <3>1. Len(p) + 1 \in 1 .. Len(r) /\ ~(Len(p) + 1 < Len(r))
        BY <1>5, <1>6
    <3>2. r[Len(p) + 1] + CodeLength(e, r[Len(p) + 1]) = n + 1 + k
        BY <1>3, <1>6 DEF n
    <3> QED
        BY <1>7, <3>1, <3>2 DEF Piece
  <2>2. PICK a \in Nat, b \in Nat : a = n + 1 + k /\ b = Len(e)
    <3>1. n + 1 + k \in Nat
        BY <1>2
    <3>2. Len(e) \in Nat
        BY <1>1, LenProperties DEF Nals
    <3> QED
        BY <3>1, <3>2
  <2>3. a >= 1 /\ b <= Len(e) /\ a <= b + 1 /\ b - a + 1 = Len(u)
      BY <1>1, <1>2, <2>2
  <2> DEFINE x == SubSeq(e, a, b)
  <2>4. x \in Nals /\ Len(x) = b - a + 1 /\ \A i \in 1 .. b - a + 1 : x[i] = e[a + i - 1]
      BY <1>1, <2>2, <2>3, PartOf
  <2> HIDE DEF x
  <2>5. \A i \in 1 .. Len(x) : x[i] = u[i]
    <3> TAKE i \in 1 .. Len(x)
    <3>1. i \in 1 .. b - a + 1 /\ i \in 1 .. Len(u) /\ a + i - 1 = n + k + i
        BY <1>2, <2>2, <2>3, <2>4
    <3> QED
        BY <1>1, <2>4, <3>1
  <2>6. x = u
    <3>1. x \in Seq(0 .. 255) /\ u \in Seq(0 .. 255) /\ Len(x) = Len(u)
        BY <1>2, <2>3, <2>4 DEF Nals
    <3> QED
        BY <2>5, <3>1, SeqEqual
  <2> QED
      BY <2>1, <2>2, <2>6 DEF x
<1>10. w = Append(v, u)
  <2>1. Append(v, u) \in Seq(Nals) /\ Len(Append(v, u)) = Len(p) + 1 /\ Append(v, u)[Len(p) + 1] = u
        /\ \A j \in 1 .. Len(p) : Append(v, u)[j] = v[j]
      BY <1>2, <1>7, AppendProperties
  <2>2. \A j \in 1 .. Len(w) : w[j] = Append(v, u)[j]
    <3> TAKE j \in 1 .. Len(w)
    <3>1. j \in 1 .. Len(p) \/ j = Len(p) + 1
        BY <1>5, <1>6, <1>7
    <3> QED
        BY <1>8, <1>9, <2>1, <3>1
  <2>3. Len(w) = Len(Append(v, u))
      BY <1>6, <1>7, <2>1
  <2> QED
      BY <1>7, <2>1, <2>2, <2>3, SeqEqual
<1> QED
    BY <1>10 DEF v, w

(* No bytes have no pieces.                                                *)
LEMMA NothingToParse == Closed(<<>>) /\ Pieces(<<>>) = <<>>
<1>1. <<>> \in Nals /\ Len(<<>>) = 0
    BY EmptySeq DEF Nals
<1>2. Closed(<<>>)
    BY <1>1 DEF Closed
<1>3. \A i \in 1 .. 0 : FALSE
    OBVIOUS
<1>4. Positions(<<>>) = <<>>
  <2>1. [i \in 1 .. Len(<<>>) |-> i] = <<>>
      BY <1>1
  <2> QED
      BY <2>1, SelectEmpty DEF Positions
<1>5. Len(Pieces(<<>>)) = 0 /\ Pieces(<<>>) \in Seq(Nals)
    BY <1>1, <1>4, PiecesTyped
<1> QED
    BY <1>2, <1>5, EmptySeq

(* The pieces of a stream of units are the units,                          *)
LEMMA StreamPieces ==
    ASSUME NEW q \in Seq(Good), NEW l \in [1 .. Len(q) -> Codes]
    PROVE  Pieces(Stream(q, l)) = q
<1> DEFINE Cut(p, m) == Closed(Stream(p, m)) /\ Pieces(Stream(p, m)) = p
<1> DEFINE S == {p \in Seq(Good) : \A m \in [1 .. Len(p) -> Codes] : Cut(p, m)}
<1>0. Good \subseteq Nals
    BY DEF Good
<1>1. <<>> \in S
  <2>1. \A m : Cut(<<>>, m)
      BY StreamEmpty, NothingToParse
  <2> QED
      BY <2>1, EmptySeq
<1>2. ASSUME NEW p \in Seq(Good), NEW u \in Good, p \in S PROVE Append(p, u) \in S
  <2>1. Append(p, u) \in Seq(Good) /\ Len(Append(p, u)) = Len(p) + 1 /\ p \in Seq(Nals) /\ u \in Nals
      BY <1>0, AppendProperties, SeqMonotonic
  <2>2. ASSUME NEW m \in [1 .. Len(p) + 1 -> Codes] PROVE Cut(Append(p, u), m)
    <3>1. PICK n \in [1 .. Len(p) -> Codes] :
             /\ Stream(Append(p, u), m) = Stream(p, n) \o (StartCode(m[Len(p) + 1]) \o u)
             /\ m[Len(p) + 1] \in Codes
        BY <2>1, StreamAppend
    <3>2. PICK k \in Codes : k = m[Len(p) + 1]
        BY <3>1
    <3>3. PICK d \in Nals : d = Stream(p, n) /\ Closed(d) /\ Pieces(d) = p
        BY <1>2, <2>1, <3>1, StreamIsBytes
    <3>4. PICK e : e = Stream(Append(p, u), m) /\ e = d \o (StartCode(k) \o u)
        BY <3>1, <3>2, <3>3
    <3>5. Extended(e, d, k, u)
        BY <2>1, <3>2, <3>3, <3>4, ExtendedIs
    <3>6. Closed(e) /\ Pieces(e) = Append(Pieces(d), u)
        BY <3>2, <3>3, <3>5, StaysClosed, PiecesExtended
    <3> QED
        BY <3>3, <3>4, <3>6
  <2> QED
      BY <2>1, <2>2
<1>3. Seq(Good) \subseteq S
  <2> HIDE DEF S
  <2> QED
      BY <1>1, <1>2, SeqInduction
<1> QED
    BY <1>3

(* so ParseAnnexB takes apart what Stream has put together,                *)
LEMMA StreamParsed ==
    ASSUME NEW q \in Seq(Good), NEW l \in [1 .. Len(q) -> Codes]
    PROVE  ParseAnnexB(Stream(q, l)) = q
<1>1. Good \subseteq Seq(0 .. 255) \ {<<>>}
    BY DEF Good, Nals
<1>2. Select(q, Seq(0 .. 255) \ {<<>>}) = q
    BY <1>1, SelectAll
<1> QED
    BY <1>2, StreamPieces DEF ParseAnnexB

(* and what saveKeyframe has written.                                      *)
LEMMA SavedParsed ==
    ASSUME NEW q \in Seq(Good) PROVE ParseAnnexB(Saved(q)) = q
<1>1. [i \in DOMAIN q |-> 4] \in [1 .. Len(q) -> Codes]
    BY LenProperties DEF Codes
<1> QED
    BY <1>1, StreamParsed DEF Saved

-----------------------------------------------------------------------------
(* Everything relayed is made of units of the camera's.                    *)

(* The latest unit of a type is one of the access unit, or the one before. *)
LEMMA LatestFrom ==
    ASSUME NEW T, NEW c, NEW au \in Seq(T), NEW t, NEW before
    PROVE  Latest(c, au, t, before) \in T \cup {before}
<1> DEFINE of == Select(au, NALs(c, {t}))
<1>1. of \in Seq(T \cap NALs(c, {t}))
    BY SelectSeqs
<1> HIDE DEF of
<1>2. of # <<>> => of[Len(of)] \in T
  <2>1. of # <<>> => Len(of) \in 1 .. Len(of)
      BY <1>1, EmptySeq, LenProperties
  <2> QED
      BY <1>1, <2>1, ElementOfSeq
<1> QED
    BY <1>2 DEF Latest, of

(* The parameter sets are units of the camera, and H.264 has no VPS.       *)
LEMMA TrackFrom ==
    ASSUME NEW c \in CodecNames, NEW au \in Seq(UnitsOf(c)), NEW before \in SetsOf(c)
    PROVE  /\ track(c, au, before) \in SetsOf(c)
           /\ c = "h264" => track(c, au, before).vps = before.vps
<1>1. /\ before.vps \in UnitsOf(c) \cup {None}
      /\ before.sps \in UnitsOf(c) \cup {None}
      /\ before.pps \in UnitsOf(c) \cup {None}
    BY DEF SetsOf
<1>2. /\ Latest(c, au, 32, before.vps) \in UnitsOf(c) \cup {None}
      /\ \A t : /\ Latest(c, au, t, before.sps) \in UnitsOf(c) \cup {None}
                /\ Latest(c, au, t, before.pps) \in UnitsOf(c) \cup {None}
    BY <1>1, LatestFrom
<1>3. /\ track(c, au, before) =
            [vps |-> IF c = "h265" THEN Latest(c, au, 32, before.vps) ELSE before.vps,
             sps |-> Latest(c, au, IF c = "h264" THEN 7 ELSE 33, before.sps),
             pps |-> Latest(c, au, IF c = "h264" THEN 8 ELSE 34, before.pps)]
    BY DEF track
<1>4. track(c, au, before) \in SetsOf(c)
    BY <1>1, <1>2, <1>3 DEF SetsOf
<1> QED
    BY <1>3, <1>4

(* Bounded sequences of fewer and of a smaller set.                        *)
LEMMA BoundedWithin ==
    ASSUME NEW S, NEW T, S \subseteq T, NEW m \in Nat, NEW n \in Nat, m <= n
    PROVE  BoundedSeq(S, m) \subseteq BoundedSeq(T, n)
<1> SUFFICES ASSUME NEW s \in BoundedSeq(S, m) PROVE s \in BoundedSeq(T, n)
    OBVIOUS
<1>1. PICK i \in 0 .. m : s \in [1 .. i -> S]
    BY DEF BoundedSeq, SeqOf
<1>2. s \in [1 .. i -> T] /\ i \in 0 .. n
    BY <1>1
<1> QED
    BY <1>2 DEF BoundedSeq, SeqOf

(* The empty sequence is within every bound.                               *)
LEMMA BoundedEmpty == ASSUME NEW S, NEW n \in Nat PROVE <<>> \in BoundedSeq(S, n)
<1>1. <<>> \in [1 .. 0 -> S] /\ 0 \in 0 .. n
    OBVIOUS
<1> QED
    BY <1>1 DEF BoundedSeq, SeqOf

(* What is put in front and what is left have the picture still in them.   *)
LEMMA PictureStays ==
    ASSUME NEW c \in CodecNames, NEW s \in KnownSets(c), NEW kept \in Seq(Nals), hasVCL(c, kept)
    PROVE  Has(c, ensureSets(c, kept, s), PictureTypes(c))
<1>1. CASE ~(Complete(c, s) /\ isKeyframeAU(c, kept))
    BY <1>1 DEF ensureSets, hasVCL
<1>2. CASE Complete(c, s) /\ isKeyframeAU(c, kept)
  <2> DEFINE A == NALs(c, (0 .. 63) \ SetTypes(c))
  <2> DEFINE P == NALs(c, PictureTypes(c))
  <2>1. ensureSets(c, kept, s) = InFront(c, s) \o Rest(c, kept)
      BY <1>2 DEF ensureSets
  <2>2. PICK front \in Seq(Nals) : front = InFront(c, s)
      BY <1>2, FrontIsKnown
  <2>3. PICK rest \in Seq(Nals) : rest = Rest(c, kept) /\ rest = Select(kept, A)
      BY RestIsSequence DEF Rest
  <2>4. A \cap P = P
    <3>1. ((0 .. 63) \ SetTypes(c)) \cap PictureTypes(c) = PictureTypes(c)
      <4>1. \A t \in PictureTypes(c) : t \in 0 .. 63 /\ t \notin SetTypes(c)
        <5>1. CASE c = "h264"
            BY <5>1 DEF SetTypes, PictureTypes
        <5>2. CASE c = "h265"
            BY <5>2 DEF SetTypes, PictureTypes
        <5> QED
            BY <5>1, <5>2 DEF CodecNames
      <4> QED
          BY <4>1, Zenon
    <3> QED
        BY <3>1, TypesMeet
  <2>5. Select(kept, P) # <<>>
      BY HasSome DEF hasVCL
  <2> HIDE DEF A, P
  <2>6. Select(rest, P) = Select(kept, P)
    <3>1. Select(Select(kept, A), P) = Select(kept, A \cap P)
        BY SelectSelect
    <3> QED
        BY <2>3, <2>4, <3>1
  <2>7. Select(front \o rest, P) = Select(front, P) \o Select(rest, P)
      BY SelectConcat
  <2>8. Select(front, P) \o Select(rest, P) # <<>>
    <3>1. \A x, y \in Seq(Nals) : y # <<>> => x \o y # <<>>
      <4> HIDE DEF Nals
      <4> QED
        BY ConcatEqualIffEmpty
    <3>2. Select(front, P) \in Seq(Nals) /\ Select(rest, P) \in Seq(Nals)
      <4>1. Select(front, P) \in Seq(Nals \cap P) /\ Select(rest, P) \in Seq(Nals \cap P)
          BY SelectSeqs
      <4> QED
          BY <4>1, SeqMonotonic
    <3> QED
        BY <2>5, <2>6, <3>1, <3>2
  <2>9. front \o rest \in Seq(Nals)
      BY ConcatProperties
  <2>10. Has(c, front \o rest, PictureTypes(c))
      BY <2>7, <2>8, <2>9, HasSome DEF P
  <2> QED
      BY <2>1, <2>2, <2>3, <2>10
<1> QED
    BY <1>1, <1>2

(* Parameter sets in front add nothing but themselves.                     *)
LEMMA EnsuredFrom ==
    ASSUME NEW T, NEW c \in CodecNames, NEW kept \in Seq(T),
           NEW s, s.sps \in T \cup {None}, s.pps \in T \cup {None}, s.vps \in T \cup {None}
    PROVE  ensureSets(c, kept, s) \in Seq(T)
<1>1. CASE ~(Complete(c, s) /\ isKeyframeAU(c, kept))
    BY <1>1 DEF ensureSets
<1>2. CASE Complete(c, s) /\ isKeyframeAU(c, kept)
  <2>1. InFront(c, s) \in Seq(T)
      BY <1>2 DEF InFront, Complete, CodecNames
  <2>2. Rest(c, kept) \in Seq(T)
    <3>1. Rest(c, kept) \in Seq(T \cap NALs(c, (0 .. 63) \ SetTypes(c)))
        BY SelectSeqs DEF Rest
    <3> QED
        BY <3>1, SeqMonotonic
  <2>3. InFront(c, s) \o Rest(c, kept) \in Seq(T)
      BY <2>1, <2>2, ConcatProperties
  <2> QED
      BY <1>2, <2>3 DEF ensureSets
<1> QED
    BY <1>1, <1>2

(* The filter adds nothing.                                                *)
LEMMA FilteredFrom ==
    ASSUME NEW T, NEW c, NEW au \in Seq(T)
    PROVE  filterNALUs(c, au) \in Seq(T \cap NALs(c, SafeTypes(c)))
<1>1. Select(au, NALs(c, SafeTypes(c))) \in Seq(T \cap NALs(c, SafeTypes(c)))
    BY SelectSeqs
<1>2. <<>> \in Seq(T \cap NALs(c, SafeTypes(c)))
    BY EmptySeq
<1> QED
    BY <1>1, <1>2 DEF filterNALUs

(* A unit with a whole header is a well-formed one.                        *)
LEMMA LongUnitsGood ==
    ASSUME NEW c \in Codecs, NEW n \in UnitsOf(c), ~Short(c, n) PROVE n \in Good
<1>1. n \in Nals /\ WellFormed(n)
    BY UnitsAssumption DEF Units, Nals
<1>2. n # <<>>
  <2>1. Len(<<>>) = 0
      BY EmptySeq
  <2>2. n = <<>> => Short(c, n)
      BY <2>1 DEF Short
  <2> QED
      BY <2>2
<1> QED
    BY <1>1, <1>2 DEF Good

-----------------------------------------------------------------------------
(* The invariant of the whole path.                                        *)

(* No VPS is learned of H.264.                                             *)
NoVps == codec = "h264" => sets.vps = None
(* FFmpeg's stream is that of well-formed units.                           *)
FromEncoder ==
    pc = "encoded" =>
        /\ in \in Seq(Good)
        /\ \E lengths \in [1 .. Len(in) -> Codes] : stream = Stream(in, lengths)
        /\ out = Encoded(codec, stream)
PathInv == RelayInv /\ TypeOK /\ NoVps /\ FromEncoder

(* The invariant holds at the start.                                       *)
LEMMA PathStarts == Init => PathInv
<1> SUFFICES ASSUME Init PROVE PathInv
    OBVIOUS
<1>1. codec \in Codecs /\ MaxUnits \in Nat
    BY UnitsAssumption DEF Init
<1>2. in \in AUs(codec)
    BY <1>1, BoundedEmpty DEF Init, Blank, AUs
<1>3. stream \in Seq(0 .. 255) /\ out \in Seq(UnitsOf(codec))
    BY EmptySeq DEF Init, Blank
<1>4. sets \in SetsOf(codec) /\ NoVps /\ FromEncoder
    BY DEF Init, NoSets, SetsOf, NoVps, FromEncoder
<1> QED
    BY <1>1, <1>2, <1>3, <1>4, RelayStarts DEF PathInv, TypeOK, Init, Kinds

(* Every step keeps it.                                                    *)
LEMMA PathStep == PathInv /\ [Next]_vars => PathInv'
<1> SUFFICES ASSUME PathInv, [Next]_vars PROVE PathInv'
    OBVIOUS
<1>0. /\ codec \in Codecs /\ codec \in CodecNames /\ MaxUnits \in Nat /\ MaxEncoded \in Nat /\ MaxEncoded <= MaxUnits
      /\ MaxBytes \in Nat
    BY UnitsAssumption DEF PathInv, TypeOK, CodecNames
<1>r. RelayInv'
    BY RelayStep DEF PathInv
<1>t. /\ sets \in SetsOf(codec) /\ seen \in BOOLEAN /\ pc \in Kinds /\ NoVps
      /\ in \in AUs(codec) /\ stream \in Seq(0 .. 255) /\ out \in Seq(UnitsOf(codec))
      /\ pc = "relayed" => Has(codec, out, PictureTypes(codec))
    BY DEF PathInv, TypeOK
<1>1. ASSUME Encode PROVE PathInv'
  <2> DEFINE S == {n \in UnitsOf(codec) : ~Short(codec, n)}
  <2>u. PICK units \in BoundedSeq(S, MaxEncoded) :
           in' = units /\ \E l \in [DOMAIN units -> {3, 4}] : stream' = Stream(units, l)
      BY <1>1 DEF Encode
  <2>1. PICK lengths \in [DOMAIN units -> {3, 4}] : in' = units /\ stream' = Stream(units, lengths)
      BY <2>u
  <2>2. S \subseteq Good /\ S \subseteq UnitsOf(codec) /\ Good \subseteq Nals
      BY <1>0, LongUnitsGood DEF Good
  <2> HIDE DEF S
  <2>3. units \in Seq(Good) /\ units \in Seq(UnitsOf(codec)) /\ units \in Seq(Nals)
      BY <1>0, <2>u, <2>2, BoundedIsSeq, SeqMonotonic
  <2>4. lengths \in [1 .. Len(units) -> Codes]
      BY <2>1, <2>3, LenProperties DEF Codes
  <2>5. units \in AUs(codec)
      BY <1>0, <2>u, <2>2, BoundedWithin DEF AUs
  <2>6. stream' \in Seq(0 .. 255)
      BY <2>1, <2>3, <2>4, StreamIsBytes DEF Nals
  <2>7. pc' = "encoded" /\ out' = Encoded(codec, stream') /\ UNCHANGED <<codec, sets, seen>>
      BY <1>1 DEF Encode
  <2>8. ParseAnnexB(stream') = units
      BY <2>1, <2>3, <2>4, StreamParsed
  <2>9. out' \in Seq(UnitsOf(codec))
    <3>1. Select(units, NALs(codec, SafeTypes(codec))) \in Seq(UnitsOf(codec) \cap NALs(codec, SafeTypes(codec)))
        BY <2>3, SelectSeqs
    <3>2. Select(units, NALs(codec, SafeTypes(codec))) \in Seq(UnitsOf(codec))
        BY <3>1, SeqMonotonic
    <3> QED
        BY <2>3, <2>7, <2>8, <3>2 DEF Encoded
  <2>10. TypeOK'
      BY <1>0, <1>t, <2>1, <2>5, <2>6, <2>7, <2>9 DEF TypeOK, Kinds
  <2>11. FromEncoder'
    <3>1. in' \in Seq(Good) /\ lengths \in [1 .. Len(in') -> Codes] /\ stream' = Stream(in', lengths)
        BY <2>1, <2>3, <2>4
    <3> QED
        BY <2>7, <3>1 DEF FromEncoder
  <2> QED
      BY <1>r, <1>t, <2>7, <2>10, <2>11 DEF PathInv, NoVps
<1>2. ASSUME ReadForeign PROVE PathInv'
  <2>1. /\ stream' \in BoundedSeq(Bytes, MaxBytes) /\ pc' = "foreign"
        /\ UNCHANGED <<codec, sets, seen, in, out>>
      BY <1>2 DEF ReadForeign
  <2>2. Bytes \subseteq 0 .. 255
      BY DEF Bytes
  <2>3. stream' \in Seq(0 .. 255)
      BY <1>0, <2>1, <2>2, BoundedIsSeq
  <2>4. TypeOK'
      BY <1>0, <1>t, <2>1, <2>3 DEF TypeOK, Kinds
  <2> QED
      BY <1>r, <1>t, <2>1, <2>4 DEF PathInv, NoVps, FromEncoder
<1>3. ASSUME Connect PROVE PathInv'
  <2> DEFINE S == {n \in UnitsOf(codec) : Is(codec, n, SetTypes(codec))}
  <2>1. PICK announced \in BoundedSeq(S, 3) : sets' = paramSets(codec, announced)
      BY <1>3 DEF Connect
  <2>2. S \subseteq UnitsOf(codec)
      OBVIOUS
  <2> HIDE DEF S
  <2>3. announced \in Seq(UnitsOf(codec))
      BY <2>1, <2>2, BoundedIsSeq
  <2>4. NoSets \in SetsOf(codec) /\ NoSets.vps = None
      BY DEF NoSets, SetsOf
  <2>5. sets' \in SetsOf(codec) /\ (codec = "h264" => sets'.vps = None)
      BY <1>0, <2>1, <2>3, <2>4, TrackFrom DEF paramSets
  <2>6. pc' = "between" /\ seen' = FALSE /\ UNCHANGED <<codec, in, stream, out>>
      BY <1>3 DEF Connect
  <2>7. TypeOK'
      BY <1>0, <1>t, <2>5, <2>6 DEF TypeOK, Kinds
  <2> QED
      BY <1>r, <2>5, <2>6, <2>7 DEF PathInv, NoVps, FromEncoder
<1>4. ASSUME Receive PROVE PathInv'
  <2>1. /\ in' \in AUs(codec) /\ UNCHANGED <<codec, stream>>
        /\ LET kept == filterNALUs(codec, in')
           IN  \/ /\ hasVCL(codec, kept) /\ pc' = "relayed" /\ seen' = TRUE
                  /\ sets' = track(codec, kept, sets)
                  /\ out' = ensureSets(codec, kept, sets')
               \/ pc' = "dropped" /\ UNCHANGED <<sets, seen, out>>
      BY <1>4 DEF Receive
  <2>2. in' \in Seq(UnitsOf(codec)) /\ in' \in Seq(Nals)
    <3>1. UnitsOf(codec) \subseteq Nals
        BY <1>0, UnitsAreNals
    <3>2. in' \in Seq(UnitsOf(codec))
        BY <1>0, <2>1, BoundedIsSeq DEF AUs
    <3> QED
        BY <3>1, <3>2, SeqMonotonic
  <2>3. PICK kept \in Seq(UnitsOf(codec)) : kept = filterNALUs(codec, in') /\ kept \in Seq(Nals)
    <3>1. filterNALUs(codec, in') \in Seq(UnitsOf(codec) \cap NALs(codec, SafeTypes(codec)))
        BY <2>2, FilteredFrom
    <3>2. filterNALUs(codec, in') \in Seq(UnitsOf(codec))
        BY <3>1, SeqMonotonic
    <3>3. filterNALUs(codec, in') \in Seq(Nals)
        BY <2>2, FilterIsSequence
    <3> QED
        BY <3>2, <3>3
  <2>4. CASE /\ hasVCL(codec, kept) /\ pc' = "relayed" /\ seen' = TRUE
             /\ sets' = track(codec, kept, sets)
             /\ out' = ensureSets(codec, kept, sets')
    <3>1. sets' \in SetsOf(codec) /\ (codec = "h264" => sets'.vps = sets.vps)
        BY <1>0, <1>t, <2>3, <2>4, TrackFrom
    <3>2. PICK s : s = sets'
        OBVIOUS
    <3>3. out' \in Seq(UnitsOf(codec))
      <4>1. s.sps \in UnitsOf(codec) \cup {None} /\ s.pps \in UnitsOf(codec) \cup {None} /\ s.vps \in UnitsOf(codec) \cup {None}
          BY <3>1, <3>2 DEF SetsOf
      <4>2. ensureSets(codec, kept, s) \in Seq(UnitsOf(codec))
          BY <1>0, <2>3, <4>1, EnsuredFrom
      <4> QED
          BY <2>4, <3>2, <4>2
    <3>4. Has(codec, out', PictureTypes(codec))
      <4>1. s \in KnownSets(codec)
          BY <1>r, <2>1, <3>2 DEF RelayInv, Learned
      <4>2. Has(codec, ensureSets(codec, kept, s), PictureTypes(codec))
          BY <1>0, <2>3, <2>4, <4>1, PictureStays
      <4> QED
          BY <2>4, <3>2, <4>2
    <3>5. TypeOK'
        BY <1>0, <1>t, <2>1, <2>4, <3>1, <3>3, <3>4 DEF TypeOK, Kinds
    <3> QED
        BY <1>r, <1>t, <2>1, <2>4, <3>1, <3>5 DEF PathInv, NoVps, FromEncoder
  <2>5. CASE pc' = "dropped" /\ UNCHANGED <<sets, seen, out>>
    <3>1. TypeOK'
        BY <1>0, <1>t, <2>1, <2>5 DEF TypeOK, Kinds
    <3> QED
        BY <1>r, <1>t, <2>1, <2>5, <3>1 DEF PathInv, NoVps, FromEncoder
  <2> QED
      BY <2>1, <2>3, <2>4, <2>5
<1>5. ASSUME Return PROVE PathInv'
  <2>1. pc' = "between" /\ in' = <<>> /\ stream' = <<>> /\ out' = <<>> /\ UNCHANGED <<codec, sets, seen>>
      BY <1>5 DEF Return
  <2>2. in' \in AUs(codec)
      BY <1>0, <2>1, BoundedEmpty DEF AUs
  <2>3. stream' \in Seq(0 .. 255) /\ out' \in Seq(UnitsOf(codec))
      BY <2>1, EmptySeq
  <2>4. TypeOK'
      BY <1>0, <1>t, <2>1, <2>2, <2>3 DEF TypeOK, Kinds
  <2> QED
      BY <1>r, <1>t, <2>1, <2>4 DEF PathInv, NoVps, FromEncoder
<1>6. ASSUME Stall PROVE PathInv'
  <2>1. pc = "between" /\ seen' = FALSE /\ UNCHANGED <<codec, sets, pc, in, stream, out>>
      BY <1>6 DEF Stall
  <2>2. TypeOK'
      BY <1>0, <1>t, <2>1 DEF TypeOK
  <2> QED
      BY <1>r, <1>t, <2>1, <2>2 DEF PathInv, NoVps, FromEncoder
<1>7. ASSUME UNCHANGED vars PROVE PathInv'
  <2>1. TypeOK' /\ NoVps' /\ FromEncoder'
      BY <1>7 DEF PathInv, vars, TypeOK, NoVps, FromEncoder
  <2> QED
      BY <1>r, <2>1 DEF PathInv
<1> QED
    BY <1>1, <1>2, <1>3, <1>4, <1>5, <1>6, <1>7 DEF Next

(* So it always holds.                                                     *)
LEMMA PathAlways == Spec => []PathInv
    BY PathStarts, PathStep, PTL DEF Spec

(* TypeOK: whatever is learned, prepended, relayed or encoded is made of   *)
(* units of the camera or encoder, and what is relayed has a picture.      *)
THEOREM UnitsTypeCorrect == Spec => []TypeOK
<1>1. PathInv => TypeOK
    BY DEF PathInv
<1> QED
    BY <1>1, PathAlways, PTL

(* RestoredExactly: what saveKeyframe writes of a relayed keyframe is      *)
(* restored by restoreKeyframe as that keyframe and with the parameter     *)
(* sets the callback knew, and without all of them it is not restored.     *)
THEOREM KeyframesRestoredExactly == Spec => []RestoredExactly
<1>1. ASSUME PathInv PROVE RestoredExactly
  <2> SUFFICES ASSUME Key
               PROVE  LET r == Restored(codec, Saved(out))
                      IN  IF Complete(codec, sets) THEN r = out /\ paramSets(codec, r) = sets
                          ELSE r = None
      BY DEF RestoredExactly
  <2>0. /\ codec \in Codecs /\ codec \in CodecNames /\ in \in Seq(UnitsOf(codec)) /\ sets \in KnownSets(codec)
        /\ sets \in SetsOf(codec) /\ RelayInv
    <3>1. MaxUnits \in Nat
        BY UnitsAssumption
    <3>2. in \in Seq(UnitsOf(codec))
        BY <1>1, <3>1, BoundedIsSeq DEF PathInv, TypeOK, AUs
    <3> QED
        BY <1>1, <3>2, UnitsAssumption DEF PathInv, RelayInv, Learned, TypeOK, CodecNames
  <2>1. PICK kept : kept = filterNALUs(codec, in)
      OBVIOUS
  <2>2. track(codec, kept, sets) = sets /\ out = ensureSets(codec, kept, sets)
      BY <2>0, <2>1 DEF RelayInv, Relayed, Key
  <2>3. kept \in Seq(Good) /\ Good \subseteq Nals /\ kept \in Seq(Nals)
    <3> DEFINE K == UnitsOf(codec) \cap NALs(codec, SafeTypes(codec))
    <3>1. kept \in Seq(K)
        BY <2>0, <2>1, FilteredFrom
    <3>2. K \subseteq Good
        BY <2>0, LongUnitsGood DEF NALs, Is
    <3>3. Good \subseteq Nals
        BY DEF Good
    <3> HIDE DEF K
    <3> QED
        BY <3>1, <3>2, <3>3, SeqMonotonic
  <2>4. isKeyframeAU(codec, out)
      BY DEF Key
  <2>5. CASE Complete(codec, sets)
    <3>1. isKeyframeAU(codec, kept)
        BY <2>2, <2>4 DEF ensureSets
    <3>2. sets.sps \in Good /\ sets.pps \in Good /\ (codec = "h265" => sets.vps \in Good)
      <4>1. \A t, n : n \in NALs(codec, {t}) /\ n \in UnitsOf(codec) => n \in Good
          BY <2>0, LongUnitsGood DEF NALs, Is
      <4>2. /\ sets.sps \in NALs(codec, {SpsType(codec)})
            /\ sets.pps \in NALs(codec, {PpsType(codec)})
            /\ codec = "h265" => sets.vps \in NALs(codec, {VpsType})
          BY <2>0, <2>5, FrontIsKnown
      <4>3. /\ sets.sps \in UnitsOf(codec) /\ sets.pps \in UnitsOf(codec)
            /\ codec = "h265" => sets.vps \in UnitsOf(codec)
          BY <2>0, <2>5 DEF SetsOf, Complete
      <4> QED
          BY <4>1, <4>2, <4>3
    <3>3. out \in Seq(Good)
      <4>1. InFront(codec, sets) \in Seq(Good)
          BY <2>0, <3>2 DEF InFront, CodecNames
      <4>2. Rest(codec, kept) \in Seq(Good)
        <5>1. Rest(codec, kept) \in Seq(Good \cap NALs(codec, (0 .. 63) \ SetTypes(codec)))
            BY <2>3, SelectSeqs DEF Rest
        <5> QED
            BY <5>1, SeqMonotonic
      <4>3. InFront(codec, sets) \o Rest(codec, kept) \in Seq(Good)
          BY <4>1, <4>2, ConcatProperties
      <4> QED
          BY <2>2, <2>5, <3>1, <4>3 DEF ensureSets
    <3>4. ParseAnnexB(Saved(out)) = out
        BY <3>3, SavedParsed
    <3>5. paramSets(codec, out) = sets
      <4>1. \A b : /\ Latest(codec, out, SpsType(codec), b) = sets.sps
                   /\ Latest(codec, out, PpsType(codec), b) = sets.pps
                   /\ codec = "h265" => Latest(codec, out, VpsType, b) = sets.vps
          BY <2>0, <2>2, <2>3, <2>5, <3>1, FrontLatest
      <4>2. paramSets(codec, out) =
              [vps |-> IF codec = "h265" THEN sets.vps ELSE None, sps |-> sets.sps, pps |-> sets.pps]
          BY <4>1 DEF paramSets, track, NoSets, SpsType, PpsType, VpsType
      <4>3. codec # "h265" => sets.vps = None
          BY <1>1, <2>0 DEF PathInv, NoVps, CodecNames
      <4> QED
          BY <2>0, <4>2, <4>3 DEF SetsOf
    <3> QED
        BY <2>4, <2>5, <3>4, <3>5 DEF Restored
  <2>6. CASE ~Complete(codec, sets)
    <3>1. out = kept
        BY <2>2, <2>6 DEF ensureSets
    <3>2. ParseAnnexB(Saved(out)) = out
        BY <2>3, <3>1, SavedParsed
    <3>3. ~Complete(codec, paramSets(codec, out))
      <4> SUFFICES ASSUME Complete(codec, paramSets(codec, kept)) PROVE FALSE
          BY <3>1
      <4>1. \A t, b : Latest(codec, kept, t, None) # None => Latest(codec, kept, t, b) = Latest(codec, kept, t, None)
          BY DEF Latest
      <4>2. PICK a : a = track(codec, kept, NoSets) /\ a.sps # None /\ a.pps # None /\ (codec = "h265" => a.vps # None)
          BY DEF Complete, paramSets
      <4>3. sets.sps # None /\ sets.pps # None /\ (codec = "h265" => sets.vps # None)
          BY <2>2, <4>1, <4>2 DEF track, NoSets
      <4> QED
          BY <2>6, <4>3 DEF Complete
    <3> QED
        BY <2>6, <3>2, <3>3 DEF Restored
  <2> QED
      BY <2>5, <2>6
<1> QED
    BY <1>1, PathAlways, PTL

-----------------------------------------------------------------------------
(* Bytes that are not of this program's making.                            *)

(* The numbers of a set up to n, in order and none left out.               *)
InOrder(p, S, n) ==
    /\ p \in Seq(1 .. n) /\ \A j \in 1 .. Len(p) : p[j] \in S
    /\ \A j \in 1 .. Len(p) - 1 :
         p[j] < p[j + 1] /\ \A x \in S : ~(p[j] < x /\ x < p[j + 1])
    /\ \A x \in S : x \in 1 .. n => Len(p) > 0 /\ x <= p[Len(p)]

(* The numbers kept of those up to n are in order.                         *)
LEMMA SelectInOrder ==
    ASSUME NEW n \in Nat, NEW S
    PROVE  InOrder(Select(Upto(n), S), S \cap Nat, n)
<1> DEFINE T == S \cap Nat
<1> DEFINE L == {m \in Nat : InOrder(Select(Upto(m), S), T, m)}
<1>1. 0 \in L
  <2>1. Upto(0) = <<>>
      BY DEF Upto
  <2>2. Select(Upto(0), S) = <<>> /\ <<>> \in Seq(1 .. 0) /\ Len(<<>>) = 0
      BY <2>1, SelectEmpty, EmptySeq
  <2> HIDE DEF T
  <2>3. InOrder(<<>>, T, 0)
      BY <2>2 DEF InOrder
  <2> QED
      BY <2>2, <2>3 DEF T
<1>2. ASSUME NEW m \in Nat, m \in L PROVE m + 1 \in L
  <2>1. Upto(m) \in Seq(1 .. m) /\ Len(Upto(m)) = m /\ (\A i \in 1 .. m : Upto(m)[i] = i)
        /\ Upto(m + 1) \in Seq(1 .. m + 1) /\ Len(Upto(m + 1)) = m + 1 /\ \A i \in 1 .. m + 1 : Upto(m + 1)[i] = i
      BY UptoIs
  <2>2. Upto(m) \in Seq(1 .. m + 1) /\ m + 1 \in 1 .. m + 1
    <3>1. 1 .. m \subseteq 1 .. m + 1
        OBVIOUS
    <3> QED
        BY <2>1, <3>1, SeqMonotonic
  <2>3. Upto(m + 1) = Append(Upto(m), m + 1)
    <3> DEFINE a == Append(Upto(m), m + 1)
    <3>1. a \in Seq(1 .. m + 1) /\ Len(a) = m + 1 /\ a[m + 1] = m + 1 /\ \A i \in 1 .. m : a[i] = Upto(m)[i]
        BY <2>1, <2>2, AppendProperties
    <3> HIDE DEF a
    <3>2. \A i \in 1 .. Len(a) : a[i] = Upto(m + 1)[i]
      <4> TAKE i \in 1 .. Len(a)
      <4>1. i \in 1 .. m \/ i = m + 1
          BY <3>1
      <4> QED
          BY <2>1, <2>2, <3>1, <4>1
    <3>3. a = Upto(m + 1)
        BY <2>1, <3>1, <3>2, SeqEqual
    <3> QED
        BY <3>3 DEF a
  <2>4. PICK p : p = Select(Upto(m), S)
      OBVIOUS
  <2>5. InOrder(p, T, m)
      BY <1>2, <2>4
  <2>6. Select(Upto(m + 1), S) = IF m + 1 \in S THEN Append(p, m + 1) ELSE p
    <3>0. PICK N : N = 1 .. m + 1
        OBVIOUS
    <3>1. PICK s \in Seq(N) : s = Upto(m)
        BY <2>2, <3>0
    <3>2. PICK b \in N : b = m + 1
        BY <2>2, <3>0
    <3>3. Select(Append(s, b), S) = IF b \in S THEN Append(Select(s, S), b) ELSE Select(s, S)
      <4>1. s \in Seq(N)
          BY <3>1
      <4>2. b \in N
          BY <3>2
      <4> QED
          BY <4>1, <4>2, SelectAppend
    <3> QED
        BY <2>3, <2>4, <3>1, <3>2, <3>3
  <2>p. p \in Seq(1 .. m) /\ Len(p) \in Nat /\ (\A j \in 1 .. Len(p) : p[j] \in T /\ p[j] \in 1 .. m)
        /\ (\A j \in 1 .. Len(p) - 1 : p[j] < p[j + 1] /\ \A x \in T : ~(p[j] < x /\ x < p[j + 1]))
        /\ (\A x \in T : x \in 1 .. m => Len(p) > 0 /\ x <= p[Len(p)])
    <3>1. p \in Seq(1 .. m)
        BY <2>5 DEF InOrder
    <3> QED
        BY <2>5, <3>1, LenProperties, ElementOfSeq DEF InOrder
  <2>q. p \in Seq(1 .. m + 1)
    <3>1. 1 .. m \subseteq 1 .. m + 1
        OBVIOUS
    <3> QED
        BY <2>p, <3>1, SeqMonotonic
  <2>t. \A x \in T : x \in Nat /\ (x \in S)
      OBVIOUS
  <2> HIDE DEF T
  <2>7. CASE m + 1 \notin S
    <3>1. \A x \in T : x \in 1 .. m + 1 => x \in 1 .. m
        BY <2>7, <2>t
    <3>2. InOrder(p, T, m + 1)
        BY <2>p, <2>q, <3>1 DEF InOrder
    <3> QED
        BY <2>6, <2>7, <3>2 DEF T
  <2>8. CASE m + 1 \in S
    <3> DEFINE r == Append(p, m + 1)
    <3>1. r \in Seq(1 .. m + 1) /\ Len(r) = Len(p) + 1 /\ r[Len(p) + 1] = m + 1 /\ \A j \in 1 .. Len(p) : r[j] = p[j]
        BY <2>2, <2>q, AppendProperties
    <3> HIDE DEF r
    <3>2. ASSUME NEW j \in 1 .. Len(r) PROVE r[j] \in T
      <4>1. j \in 1 .. Len(p) \/ j = Len(p) + 1
          BY <2>p, <3>1
      <4>2. m + 1 \in T
          BY <2>8 DEF T
      <4> QED
          BY <2>p, <3>1, <4>1, <4>2
    <3>3. ASSUME NEW j \in 1 .. Len(r) - 1
          PROVE r[j] < r[j + 1] /\ \A x \in T : ~(r[j] < x /\ x < r[j + 1])
      <4>1. j \in 1 .. Len(p)
          BY <2>p, <3>1
      <4>2. CASE j \in 1 .. Len(p) - 1
        <5>1. j + 1 \in 1 .. Len(p)
            BY <2>p, <4>2
        <5> QED
            BY <2>p, <3>1, <4>1, <4>2, <5>1
      <4>3. CASE j = Len(p)
        <5>1. r[j] = p[j] /\ p[j] \in 1 .. m /\ r[j + 1] = m + 1
            BY <2>p, <3>1, <4>1, <4>3
        <5>2. ASSUME NEW x \in T, p[j] < x, x < m + 1 PROVE FALSE
          <6>1. x \in 1 .. m
              BY <2>t, <5>1, <5>2
          <6>2. x <= p[j]
              BY <2>p, <4>3, <6>1
          <6> QED
              BY <5>1, <5>2, <6>1, <6>2
        <5> QED
            BY <5>1, <5>2
      <4> QED
          BY <2>p, <4>1, <4>2, <4>3
    <3>4. \A x \in T : x \in 1 .. m + 1 => Len(r) > 0 /\ x <= r[Len(r)]
        BY <2>p, <3>1
    <3>5. InOrder(r, T, m + 1)
        BY <3>1, <3>2, <3>3, <3>4 DEF InOrder
    <3> QED
      <4>1. Select(Upto(m + 1), S) = r
          BY <2>6, <2>8 DEF r
      <4> QED
          BY <3>5, <4>1 DEF T
  <2> QED
      BY <2>7, <2>8
<1>3. Nat \subseteq L
  <2> HIDE DEF L
  <2> QED
      BY <1>1, <1>2, SetInduction
<1> QED
    BY <1>3

(* The positions are in order, with no start code between two.             *)
LEMMA PositionsInOrder ==
    ASSUME NEW d \in Nals PROVE InOrder(Positions(d), Starts(d), Len(d))
<1>1. Len(d) \in Nat
    BY LenProperties DEF Nals
<1>2. Positions(d) = Select(Upto(Len(d)), Starts(d))
    BY DEF Positions, Upto
<1>3. Starts(d) \cap Nat = Starts(d)
    BY <1>1 DEF Starts
<1>4. InOrder(Select(Upto(Len(d)), Starts(d)), Starts(d) \cap Nat, Len(d))
    BY <1>1, SelectInOrder
<1> QED
    BY <1>2, <1>3, <1>4

(* Where the bytes of a piece end.                                         *)
End(d, p, j) == IF j < Len(p) THEN p[j + 1] - 1 ELSE Len(d)

(* Between a start code and the next there is the whole of the first.      *)
LEMMA Spaced ==
    ASSUME NEW d \in Nals, NEW x \in Starts(d), NEW y \in Starts(d), x < y
    PROVE  x + CodeLength(d, x) <= y
<1>1. Len(d) \in Nat /\ x \in 1 .. Len(d) - 3 /\ y \in 1 .. Len(d) - 3
    BY LenProperties, StartsAt DEF Nals
<1>2. /\ LongCode(d, x) \/ ShortCode(d, x)
      /\ LongCode(d, y) \/ (ShortCode(d, y) /\ (y = 1 \/ ~LongCode(d, y - 1)))
    BY StartsAt
<1>3. CodeLength(d, x) = IF LongCode(d, x) THEN 4 ELSE 3
  <2>1. x \in Nat /\ x >= 1
      BY <1>1
  <2> QED
      BY <2>1, CodeAt DEF CodeLength
<1>4. d[y] = 0 /\ d[y + 1] = 0
    BY <1>2 DEF LongCode, ShortCode
<1>5. CASE LongCode(d, x)
  <2>1. d[x + 2] = 0 /\ d[x + 3] = 1
      BY <1>5 DEF LongCode
  <2>2. y # x + 3 /\ y # x + 2
    <3>1. (x + 2) + 1 = x + 3
        BY <1>1
    <3> QED
        BY <1>4, <2>1, <3>1
  <2>3. y # x + 1
    <3> SUFFICES ASSUME y = x + 1 PROVE FALSE
        OBVIOUS
    <3>1. y - 1 = x /\ y # 1 /\ y + 2 = x + 3
        BY <1>1
    <3>2. ~LongCode(d, y)
        BY <2>1, <3>1 DEF LongCode
    <3> QED
        BY <1>2, <1>5, <3>1, <3>2
  <2> QED
      BY <1>1, <1>3, <1>5, <2>2, <2>3
<1>6. CASE ~LongCode(d, x)
  <2>1. d[x + 2] = 1
      BY <1>2, <1>6 DEF ShortCode
  <2>2. y # x + 2 /\ y # x + 1
    <3>1. (x + 1) + 1 = x + 2
        BY <1>1
    <3> QED
        BY <1>4, <2>1, <3>1
  <2> QED
      BY <1>1, <1>3, <1>6, <2>2
<1> QED
    BY <1>5, <1>6

(* A piece begins behind its start code and ends before the next.          *)
LEMMA PieceBounds ==
    ASSUME NEW d \in Nals, NEW j \in 1 .. Len(Positions(d))
    PROVE  LET p == Positions(d)
           IN  /\ Len(p) \in Nat /\ Len(d) \in Nat
               /\ p[j] \in 1 .. Len(d) - 3 /\ p[j] \in Starts(d) /\ CodeLength(d, p[j]) \in {3, 4}
               /\ End(d, p, j) \in Nat /\ End(d, p, j) <= Len(d)
               /\ p[j] + CodeLength(d, p[j]) - 1 <= End(d, p, j)
               /\ \A x \in Starts(d) : ~(p[j] < x /\ x <= End(d, p, j))
<1> DEFINE p == Positions(d)
<1>1. Len(p) \in Nat /\ Len(d) \in Nat
    BY PositionsTyped, LenProperties DEF Nals
<1>2. \A i \in 1 .. Len(p) : p[i] \in Starts(d) /\ p[i] \in 1 .. Len(d) - 3
    BY PositionAt
<1>3. InOrder(p, Starts(d), Len(d))
    BY PositionsInOrder
<1>4. CodeLength(d, p[j]) \in {3, 4}
    BY CodeLengthIn
<1>5. \A x \in Starts(d) : x \in 1 .. Len(d) - 3 /\ x \in 1 .. Len(d)
    BY <1>1, StartsAt
<1> HIDE DEF p
<1>6. CASE j < Len(p)
  <2>1. j \in 1 .. Len(p) - 1 /\ j + 1 \in 1 .. Len(p)
      BY <1>1, <1>6 DEF p
  <2>2. p[j] < p[j + 1] /\ \A x \in Starts(d) : ~(p[j] < x /\ x < p[j + 1])
      BY <1>3, <2>1 DEF InOrder
  <2>3. p[j] + CodeLength(d, p[j]) <= p[j + 1]
      BY <1>2, <2>1, <2>2, Spaced DEF p
  <2>4. End(d, p, j) = p[j + 1] - 1
      BY <1>6 DEF End
  <2>5. p[j] \in 1 .. Len(d) - 3 /\ p[j + 1] \in 1 .. Len(d) - 3
      BY <1>2, <2>1 DEF p
  <2>6. \A x \in Starts(d) : ~(p[j] < x /\ x <= End(d, p, j))
      BY <1>5, <2>2, <2>4, <2>5
  <2> QED
      BY <1>1, <1>2, <1>4, <2>3, <2>4, <2>5, <2>6 DEF p
<1>7. CASE j = Len(p)
  <2>1. End(d, p, j) = Len(d)
      BY <1>1, <1>7 DEF End
  <2>2. \A x \in Starts(d) : x <= p[j]
      BY <1>3, <1>5, <1>7 DEF InOrder
  <2>3. p[j] \in Starts(d) /\ p[j] \in 1 .. Len(d) - 3
      BY <1>2 DEF p
  <2>4. p[j] + CodeLength(d, p[j]) - 1 <= Len(d)
      BY <1>1, <1>4, <2>3
  <2>5. \A x \in Starts(d) : ~(p[j] < x /\ x <= End(d, p, j))
      BY <1>5, <2>2, <2>3
  <2> QED
      BY <1>1, <1>4, <2>1, <2>3, <2>4, <2>5 DEF p
<1>8. j < Len(p) \/ j = Len(p)
    BY <1>1 DEF p
<1> QED
    BY <1>6, <1>7, <1>8 DEF p

(* A piece with its start code is a part of the bytes.                     *)
LEMMA PieceIs ==
    ASSUME NEW d \in Nals, NEW j \in 1 .. Len(Positions(d))
    PROVE  LET p == Positions(d)
               a == p[j] + CodeLength(d, p[j])
               b == End(d, p, j)
           IN  /\ Pieces(d)[j] = SubSeq(d, a, b)
               /\ SubSeq(d, p[j], b) = StartCode(CodeLength(d, p[j])) \o Pieces(d)[j]
<1> DEFINE p == Positions(d)
<1>1. /\ Len(p) \in Nat /\ Len(d) \in Nat
      /\ p[j] \in 1 .. Len(d) - 3 /\ p[j] \in Starts(d) /\ CodeLength(d, p[j]) \in {3, 4}
      /\ End(d, p, j) \in Nat /\ End(d, p, j) <= Len(d)
      /\ p[j] + CodeLength(d, p[j]) - 1 <= End(d, p, j)
    BY PieceBounds
<1>2. Pieces(d)[j] = Piece(d, p, j)
    BY PiecesAt
<1>3. Piece(d, p, j) = SubSeq(d, p[j] + CodeLength(d, p[j]), End(d, p, j))
    BY DEF Piece, End
<1>4. At(d, p[j], StartCode(CodeLength(d, p[j])))
    BY <1>1 DEF Starts, CodeLength
<1> HIDE DEF p
<1>5. PICK x \in Nat : x = p[j] /\ x \in 1 .. Len(d) - 3
    BY <1>1
<1>6. PICK k \in Codes : k = CodeLength(d, p[j])
    BY <1>1 DEF Codes
<1>7. PICK b \in Nat : b = End(d, p, j)
    BY <1>1
<1>8. Len(StartCode(k)) = k /\ k \in Nat /\ (k = 3 \/ k = 4)
  <2>1. k \in Codes
      BY <1>6
  <2>2. Len(StartCode(k)) = k
      BY <2>1, CodesAreBytes
  <2> QED
      BY <2>1, <2>2 DEF Codes
<1>9. SubSeq(d, x, x + k - 1) = StartCode(k)
  <2>1. At(d, x, StartCode(k))
      BY <1>4, <1>5, <1>6
  <2> QED
      BY <1>8, <2>1 DEF At
<1>10. SubSeq(d, x, x + k - 1) \o SubSeq(d, x + k, b) = SubSeq(d, x, b)
  <2>0. x \in Nat /\ x >= 1 /\ x <= Len(d) - 3 /\ Len(d) \in Nat
    <3>1. x \in Nat /\ x \in 1 .. Len(d) - 3
        BY <1>5
    <3>2. Len(d) \in Nat
        BY <1>1
    <3> QED
        BY <3>1, <3>2
  <2>1. PICK c \in Nat : c = x + k - 1
      BY <2>0, <1>8
  <2>a. b \in Nat /\ b <= Len(d) /\ c <= b
    <3>1. b \in Nat /\ b <= Len(d)
        BY <1>1, <1>7
    <3>2. x + k - 1 <= b
        BY <1>1, <1>5, <1>6, <1>7, Zenon
    <3> QED
        BY <2>1, <3>1, <3>2
  <2>b. c \in Nat /\ c + 1 = x + k
      BY <1>8, <2>0, <2>1
  <2>2. x \in 1 .. Len(d) + 1 /\ c \in x - 1 .. Len(d) /\ b \in c .. Len(d) /\ c + 1 = x + k
      BY <1>8, <2>0, <2>a, <2>b
  <2>3. d \in Seq(0 .. 255)
      BY DEF Nals
  <2>4. SubSeq(d, x, c) \o SubSeq(d, c + 1, b) = SubSeq(d, x, b)
      BY <2>2, <2>3, ConcatAdjacentSubSeq
  <2> QED
      BY <2>1, <2>2, <2>4
<1> QED
    BY <1>2, <1>3, <1>5, <1>6, <1>7, <1>9, <1>10 DEF p

(* No piece holds a start code, but at the very end of the bytes.          *)
LEMMA NoCodeInside ==
    ASSUME NEW d \in Nals, NEW j \in 1 .. Len(Positions(d)),
           NEW i \in 1 .. Len(Pieces(d)[j]) - 3
    PROVE  ~At(Pieces(d)[j], i, StartCode(3))
<1> DEFINE p == Positions(d)
<1>1. /\ Len(p) \in Nat /\ Len(d) \in Nat
      /\ p[j] \in 1 .. Len(d) - 3 /\ p[j] \in Starts(d) /\ CodeLength(d, p[j]) \in {3, 4}
      /\ End(d, p, j) \in Nat /\ End(d, p, j) <= Len(d)
      /\ p[j] + CodeLength(d, p[j]) - 1 <= End(d, p, j)
      /\ \A x \in Starts(d) : ~(p[j] < x /\ x <= End(d, p, j))
    BY PieceBounds
<1>2. PICK a \in Nat : a = p[j] + CodeLength(d, p[j]) /\ a >= 1 /\ a >= p[j] + 3
    BY <1>1
<1>3. PICK b \in Nat : b = End(d, p, j)
    BY <1>1
<1>4. PICK u \in Nals : u = Pieces(d)[j] /\ u = SubSeq(d, a, b)
      /\ Len(u) = b - a + 1 /\ \A m \in 1 .. b - a + 1 : u[m] = d[a + m - 1]
  <2>1. Pieces(d)[j] = SubSeq(d, a, b)
      BY <1>2, <1>3, PieceIs
  <2>2. b <= Len(d) /\ a <= b + 1
      BY <1>1, <1>2, <1>3
  <2>3. /\ SubSeq(d, a, b) \in Nals /\ Len(SubSeq(d, a, b)) = b - a + 1
        /\ \A m \in 1 .. b - a + 1 : SubSeq(d, a, b)[m] = d[a + m - 1]
    <3>1. a \in Nat /\ a >= 1
        BY <1>2
    <3>2. b \in Nat
        BY <1>3
    <3> QED
        BY <2>2, <3>1, <3>2, PartOf
  <2> QED
      BY <2>1, <2>3
<1> HIDE DEF p
<1>5. i \in Nat /\ i >= 1 /\ i + 3 <= b - a + 1
    BY <1>2, <1>3, <1>4
<1> SUFFICES ASSUME ShortCode(u, i) PROVE FALSE
  <2>1. At(u, i, StartCode(3)) <=> ShortCode(u, i)
      BY <1>4, <1>5, CodeAt
  <2> QED
      BY <1>4, <2>1
<1>6. u[i] = 0 /\ u[i + 1] = 0 /\ u[i + 2] = 1
    BY DEF ShortCode
<1>7. PICK x \in Nat : x = a + i - 1
    BY <1>2, <1>5
<1>y. PICK y \in Nat : y = p[j] /\ y >= 1
    BY <1>1
<1>z. a \in Nat /\ a >= y + 3 /\ b \in Nat /\ b <= Len(d) /\ Len(d) \in Nat /\ x \in Nat
  <2>1. a \in Nat /\ a >= y + 3
      BY <1>2, <1>y
  <2>2. b \in Nat /\ b <= Len(d) /\ Len(d) \in Nat
      BY <1>1, <1>3
  <2> QED
      BY <1>7, <2>1, <2>2
<1>w. x = a + i - 1 /\ i \in Nat /\ i >= 1 /\ i + 3 <= b - a + 1
    BY <1>5, <1>7
<1>8. x >= a /\ x + 3 <= b /\ x + 3 <= Len(d) /\ x \in 1 .. Len(d) - 3
    BY <1>y, <1>z, <1>w
<1>v. y < x /\ y < x - 1 /\ x <= b /\ x - 1 <= b
    BY <1>y, <1>z, <1>8
<1>9. ShortCode(d, x)
  <2>1. /\ i \in 1 .. b - a + 1 /\ i + 1 \in 1 .. b - a + 1 /\ i + 2 \in 1 .. b - a + 1
        /\ a + i - 1 = x /\ a + (i + 1) - 1 = x + 1 /\ a + (i + 2) - 1 = x + 2
      BY <1>z, <1>w
  <2>2. u[i] = d[x] /\ u[i + 1] = d[x + 1] /\ u[i + 2] = d[x + 2]
      BY <1>4, <2>1
  <2>3. x + 2 <= Len(d)
      BY <1>1, <1>8
  <2> QED
      BY <1>6, <2>2, <2>3 DEF ShortCode
<1>10. CASE x \in Starts(d)
  <2>1. p[j] < x /\ x <= b
      BY <1>y, <1>v
  <2> QED
      BY <1>1, <1>3, <1>10, <2>1
<1>11. CASE x \notin Starts(d)
  <2>1. x # 1 /\ LongCode(d, x - 1)
      BY <1>8, <1>9, <1>11, StartsAt
  <2>2. x - 1 \in 1 .. Len(d) - 3
      BY <1>1, <1>8, <2>1
  <2>3. x - 1 \in Starts(d)
      BY <2>1, <2>2, StartsAt
  <2>4. p[j] < x - 1 /\ x - 1 <= b
      BY <1>y, <1>v
  <2> QED
      BY <1>1, <1>3, <2>3, <2>4
<1> QED
    BY <1>10, <1>11

(* The pieces with their start codes are all the bytes from the first      *)
(* start code on.                                                          *)
LEMMA PiecesCover ==
    ASSUME NEW d \in Nals, Starts(d) # {}
    PROVE  LET p == Positions(d)
           IN  SubSeq(d, p[1], Len(d)) = Stream(Pieces(d), [k \in DOMAIN p |-> CodeLength(d, p[k])])
<1> DEFINE p == Positions(d)
<1> DEFINE v == Pieces(d)
<1>1. /\ Len(p) \in Nat /\ Len(d) \in Nat /\ DOMAIN p = 1 .. Len(p)
      /\ v \in Seq(Nals) /\ Len(v) = Len(p) /\ DOMAIN v = 1 .. Len(p)
    BY PositionsTyped, PiecesTyped, LenProperties DEF Nals
<1>2. Len(p) > 0
  <2>1. PICK x \in Starts(d) : x \in 1 .. Len(d)
      BY <1>1 DEF Starts
  <2>2. InOrder(p, Starts(d), Len(d))
      BY PositionsInOrder
  <2> QED
      BY <2>1, <2>2 DEF InOrder
<1> DEFINE Code(k) == CodeLength(d, p[k])
<1> DEFINE First(m) == [k \in 1 .. m |-> v[k]]
<1> DEFINE Codes1(m) == [k \in 1 .. m |-> Code(k)]
<1>3. \A j \in 1 .. Len(p) :
        /\ p[j] \in 1 .. Len(d) - 3 /\ Code(j) \in Codes
        /\ End(d, p, j) \in Nat /\ End(d, p, j) <= Len(d) /\ p[j] + Code(j) - 1 <= End(d, p, j)
        /\ SubSeq(d, p[j], End(d, p, j)) = StartCode(Code(j)) \o v[j]
        /\ v[j] \in Nals
  <2> TAKE j \in 1 .. Len(p)
  <2>1. v[j] \in Nals
      BY <1>1, ElementOfSeq
  <2> QED
      BY <2>1, PieceBounds, PieceIs DEF Codes
<1>4. \A m \in 1 .. Len(p) : m + 1 \in 1 .. Len(p) => p[m + 1] = End(d, p, m) + 1 /\ p[m] <= p[m + 1]
  <2> TAKE m \in 1 .. Len(p)
  <2> SUFFICES ASSUME m + 1 \in 1 .. Len(p) PROVE p[m + 1] = End(d, p, m) + 1 /\ p[m] <= p[m + 1]
      OBVIOUS
  <2>1. End(d, p, m) = p[m + 1] - 1
      BY <1>1 DEF End
  <2>2. p[m + 1] \in 1 .. Len(d) - 3 /\ p[m] \in 1 .. Len(d) - 3 /\ Code(m) \in Codes
        /\ p[m] + Code(m) - 1 <= End(d, p, m)
      BY <1>3
  <2> HIDE DEF p
  <2> QED
      BY <1>1, <2>1, <2>2 DEF Codes
<1> HIDE DEF p, v
<1>5. \A m \in Nat : m <= Len(p) => First(m) \in Seq(Nals) /\ Len(First(m)) = m /\ Codes1(m) \in [1 .. m -> Codes]
  <2> TAKE m \in Nat
  <2> SUFFICES ASSUME m <= Len(p)
               PROVE  First(m) \in Seq(Nals) /\ Len(First(m)) = m /\ Codes1(m) \in [1 .. m -> Codes]
      OBVIOUS
  <2>1. \A k \in 1 .. m : k \in 1 .. Len(p)
      BY <1>1
  <2>2. First(m) \in [1 .. m -> Nals] /\ DOMAIN First(m) = 1 .. m /\ Codes1(m) \in [1 .. m -> Codes]
      BY <1>3, <2>1
  <2>3. First(m) \in Seq(Nals)
    <3> HIDE DEF First
    <3> QED
      BY <2>2
  <2>4. Len(First(m)) = m
    <3> HIDE DEF First
    <3> QED
      BY <2>2, <2>3, LenProperties
  <2> QED
      BY <2>2, <2>3, <2>4
<1>6. ASSUME NEW m \in Nat, m + 1 <= Len(p)
      PROVE  Stream(First(m + 1), Codes1(m + 1)) =
                Stream(First(m), Codes1(m)) \o (StartCode(Code(m + 1)) \o v[m + 1])
  <2>0. m + 1 \in Nat /\ m <= Len(p) /\ m + 1 \in 1 .. Len(p) /\ m + 1 \in 1 .. m + 1
      BY <1>1, <1>6
  <2>1. PICK q \in Seq(Nals) : q = First(m) /\ Len(q) = m
      BY <1>5, <2>0
  <2>2. PICK u \in Nals : u = v[m + 1]
      BY <1>3, <2>0
  <2>3. First(m + 1) = Append(q, u)
    <3>1. First(m + 1) \in Seq(Nals) /\ Len(First(m + 1)) = m + 1
        BY <1>5, <1>6, <2>0
    <3>2. Append(q, u) \in Seq(Nals) /\ Len(Append(q, u)) = m + 1 /\ Append(q, u)[m + 1] = u
          /\ \A k \in 1 .. m : Append(q, u)[k] = q[k]
        BY <2>1, <2>2, AppendProperties
    <3>3. \A k \in 1 .. m + 1 : First(m + 1)[k] = v[k]
        OBVIOUS
    <3>4. \A k \in 1 .. m : q[k] = v[k]
        BY <2>1
    <3> HIDE DEF First
    <3>5. \A k \in 1 .. m + 1 : First(m + 1)[k] = Append(q, u)[k]
      <4> TAKE k \in 1 .. m + 1
      <4>1. k \in 1 .. m \/ k = m + 1
          OBVIOUS
      <4> QED
          BY <2>2, <3>2, <3>3, <3>4, <4>1
    <3> QED
        BY <3>1, <3>2, <3>5, SeqEqual
  <2>4. PICK l \in [1 .. m + 1 -> Codes] : l = Codes1(m + 1)
      BY <1>5, <1>6, <2>0
  <2>5. l \in [1 .. Len(q) + 1 -> Codes] /\ Len(q) = m
      BY <2>1, <2>4
  <2>6. PICK n \in [1 .. Len(q) -> Codes] :
          /\ n = [i \in 1 .. Len(q) |-> l[i]]
          /\ Stream(Append(q, u), l) = Stream(q, n) \o (StartCode(l[Len(q) + 1]) \o u)
      BY <2>2, <2>5, StreamAppend
  <2>7. n = Codes1(m)
    <3>1. \A i \in 1 .. m : i \in 1 .. m + 1
        OBVIOUS
    <3> QED
        BY <2>4, <2>5, <2>6, <3>1
  <2>8. l[Len(q) + 1] = Code(m + 1)
      BY <2>0, <2>4, <2>5
  <2> HIDE DEF First, Codes1, Code
  <2> QED
      BY <2>1, <2>2, <2>3, <2>4, <2>6, <2>7, <2>8
<1> DEFINE Covered(m) == p[1] <= End(d, p, m) /\ SubSeq(d, p[1], End(d, p, m)) = Stream(First(m), Codes1(m))
<1> DEFINE L == {m \in Nat : m >= 1 /\ m <= Len(p) => Covered(m)}
<1>7. 0 \in L
    OBVIOUS
<1>8. ASSUME NEW m \in Nat, m \in L PROVE m + 1 \in L
  <2> SUFFICES ASSUME m + 1 <= Len(p) PROVE Covered(m + 1)
      OBVIOUS
  <2>0. m + 1 \in 1 .. Len(p)
      BY <1>1
  <2>1. SubSeq(d, p[m + 1], End(d, p, m + 1)) = StartCode(Code(m + 1)) \o v[m + 1]
      BY <1>3, <2>0
  <2>2. CASE m = 0
    <3>1. Stream(First(0), Codes1(0)) = <<>>
      <4>1. First(0) = <<>>
          OBVIOUS
      <4> HIDE DEF First
      <4> QED
          BY <4>1, StreamEmpty
    <3>2. PICK y \in Nals : y = StartCode(Code(m + 1)) \o v[m + 1]
      <4>1. StartCode(Code(m + 1)) \in Seq(0 .. 255) /\ v[m + 1] \in Seq(0 .. 255)
        <5>1. Code(m + 1) \in Codes /\ v[m + 1] \in Nals
            BY <1>3, <2>0
        <5> HIDE DEF Code
        <5> QED
            BY <5>1, CodesAreBytes DEF Nals, Byte
      <4> HIDE DEF Code
      <4> QED
          BY <4>1, ConcatProperties DEF Nals
    <3>3. <<>> \o y = y
        BY <3>2, ConcatEmptySeq DEF Nals
    <3>4. Stream(First(m + 1), Codes1(m + 1)) = Stream(First(m), Codes1(m)) \o y
        BY <1>6, <3>2
    <3>5. m + 1 = 1 /\ Stream(First(m), Codes1(m)) = <<>>
        BY <2>2, <3>1
    <3>6. p[m + 1] <= End(d, p, m + 1)
      <4>1. PICK x \in Nat : x = p[m + 1]
          BY <1>1, <1>3, <2>0
      <4>2. PICK k \in Codes : k = Code(m + 1)
          BY <1>3, <2>0
      <4>3. End(d, p, m + 1) \in Nat /\ x + k - 1 <= End(d, p, m + 1)
          BY <1>3, <2>0, <4>1, <4>2
      <4>4. k = 3 \/ k = 4
          BY <4>2 DEF Codes
      <4>5. x \in Nat
          BY <4>1
      <4>6. x <= End(d, p, m + 1)
          BY <4>3, <4>4, <4>5
      <4> QED
          BY <4>1, <4>6
    <3> HIDE DEF First, Codes1, Code
    <3>7. SubSeq(d, p[m + 1], End(d, p, m + 1)) = Stream(First(m + 1), Codes1(m + 1))
        BY <2>1, <3>2, <3>3, <3>4, <3>5, Zenon
    <3> QED
        BY <3>5, <3>6, <3>7, Zenon
  <2>3. CASE m >= 1
    <3>0. m \in 1 .. Len(p) /\ 1 \in 1 .. Len(p)
        BY <1>1, <2>3
    <3>1. Covered(m)
        BY <1>8, <2>3, <3>0
    <3>2. p[m + 1] = End(d, p, m) + 1
        BY <1>4, <2>0, <3>0
    <3>3. PICK a \in Nat : a = p[1] /\ a \in 1 .. Len(d) - 3
      <4>1. p[1] \in 1 .. Len(d) - 3
          BY <1>3, <3>0
      <4>2. p[1] \in Nat
          BY <1>1, <4>1
      <4> QED
          BY <4>1, <4>2
    <3>4. PICK b \in Nat : b = End(d, p, m) /\ b <= Len(d)
        BY <1>3, <3>0
    <3>5. PICK c \in Nat : c = End(d, p, m + 1) /\ c <= Len(d)
        BY <1>3, <2>0
    <3>6. a <= b /\ b + 1 = p[m + 1]
        BY <3>1, <3>2, <3>3, <3>4
    <3>7. b + 1 <= c
      <4>1. Code(m + 1) \in Codes /\ p[m + 1] + Code(m + 1) - 1 <= c
          BY <1>3, <2>0, <3>5
      <4> HIDE DEF Code
      <4> QED
          BY <3>4, <3>5, <3>6, <4>1 DEF Codes
    <3>8. SubSeq(d, a, b) \o SubSeq(d, b + 1, c) = SubSeq(d, a, c)
      <4>1. a \in 1 .. Len(d) + 1 /\ b \in a - 1 .. Len(d) /\ c \in b .. Len(d)
          BY <1>1, <3>3, <3>4, <3>5, <3>6, <3>7
      <4>2. d \in Seq(0 .. 255)
          BY DEF Nals
      <4> QED
          BY <4>1, <4>2, ConcatAdjacentSubSeq
    <3>9. Stream(First(m + 1), Codes1(m + 1)) =
             Stream(First(m), Codes1(m)) \o (StartCode(Code(m + 1)) \o v[m + 1])
        BY <1>6
    <3>10. SubSeq(d, a, b) = Stream(First(m), Codes1(m))
        BY <3>1, <3>3, <3>4
    <3>11. SubSeq(d, b + 1, c) = StartCode(Code(m + 1)) \o v[m + 1]
        BY <2>1, <3>5, <3>6
    <3>12. a <= c
        BY <3>3, <3>4, <3>5, <3>6, <3>7
    <3> HIDE DEF First, Codes1, Code
    <3> QED
        BY <3>3, <3>5, <3>8, <3>9, <3>10, <3>11, <3>12
  <2>4. m = 0 \/ m >= 1
      OBVIOUS
  <2> QED
      BY <2>2, <2>3, <2>4
<1>9. Nat \subseteq L
  <2> HIDE DEF L
  <2> QED
      BY <1>7, <1>8, SetInduction
<1>10. Covered(Len(p))
  <2>1. Len(p) >= 1 /\ Len(p) <= Len(p)
      BY <1>1, <1>2
  <2>2. Len(p) \in L
    <3> HIDE DEF L
    <3> QED
        BY <1>1, <1>9
  <2> HIDE DEF Covered
  <2> QED
      BY <2>1, <2>2
<1>11. End(d, p, Len(p)) = Len(d)
    BY <1>1 DEF End
<1>12. First(Len(p)) = v /\ Codes1(Len(p)) = [k \in DOMAIN p |-> CodeLength(d, p[k])]
    BY <1>1
<1> HIDE DEF First, Codes1
<1> QED
    BY <1>10, <1>11, <1>12 DEF p, v

(* ParsedExactly: ParseAnnexB and StreamNALUs take FFmpeg's stream apart   *)
(* into the units it was made of, for start codes of either length; and of *)
(* any other bytes ParseAnnexB loses those before the first start code     *)
(* alone, and leaves no start code inside a unit but at the end.           *)
THEOREM BytesParsedExactly == Spec => []ParsedExactly
<1>1. ASSUME PathInv PROVE ParsedExactly
  <2>1. ASSUME pc = "encoded"
        PROVE  /\ ParseAnnexB(stream) = in /\ StreamNALUs(stream) = in
               /\ codec = "h264" => out = Select(in, NALs(codec, SafeTypes(codec)))
    <3>1. PICK lengths \in [1 .. Len(in) -> Codes] : stream = Stream(in, lengths)
        BY <1>1, <2>1 DEF PathInv, FromEncoder
    <3>2. in \in Seq(Good) /\ out = Encoded(codec, stream)
        BY <1>1, <2>1 DEF PathInv, FromEncoder
    <3>3. ParseAnnexB(stream) = in /\ StreamNALUs(stream) = in
        BY <3>1, <3>2, StreamParsed, StreamRead
    <3> QED
        BY <3>2, <3>3 DEF Encoded
  <2>2. stream \in Nals
      BY <1>1 DEF PathInv, TypeOK, Nals
  <2>3. ASSUME Starts(stream) # {}
        PROVE  /\ SubSeq(stream, Positions(stream)[1], Len(stream)) =
                     Stream(Pieces(stream), [k \in DOMAIN Positions(stream) |-> CodeLength(stream, Positions(stream)[k])])
               /\ \A k \in DOMAIN Pieces(stream) :
                    \A i \in 1 .. Len(Pieces(stream)[k]) - 3 : ~At(Pieces(stream)[k], i, StartCode(3))
    <3>1. DOMAIN Pieces(stream) = 1 .. Len(Positions(stream))
        BY <2>2, PiecesTyped, LenProperties
    <3> QED
        BY <2>2, <2>3, <3>1, PiecesCover, NoCodeInside
  <2> QED
      BY <2>1, <2>3 DEF ParsedExactly
<1> QED
    BY <1>1, PathAlways, PTL

=============================================================================
