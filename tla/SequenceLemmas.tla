--------------------------- MODULE SequenceLemmas ---------------------------
(***************************************************************************)
(* Induction over the naturals in terms of sets, the least and the         *)
(* greatest of a set of positions, parts of sequences, and the sequence    *)
(* that FlattenSeq makes.                                                  *)
(***************************************************************************)
EXTENDS SequencesExt, SequenceTheorems, WellFoundedInduction, TLAPS

(* A set of naturals with 0 and every successor is all of them.             *)
LEMMA SetInduction ==
  ASSUME NEW S, 0 \in S, \A n \in Nat : n \in S => n + 1 \in S
  PROVE  Nat \subseteq S
<1> DEFINE R == OpToRel(<, Nat)
           T == Nat \ S
<1>1. SUFFICES ASSUME T # {} PROVE FALSE
  OBVIOUS
<1>2. PICK m \in T : \A n \in T : <<n, m>> \notin R
  <2>1. IsWellFoundedOn(R, Nat) /\ T \subseteq Nat
    BY NatLessThanWellFounded
  <2> HIDE DEF T, R
  <2> QED BY <1>1, <2>1, WFMin
<1>3. m # 0 /\ m \in Nat /\ m - 1 \in Nat /\ m - 1 < m
  OBVIOUS
<1>4. m - 1 \notin T
  BY <1>2, <1>3 DEF OpToRel
<1> QED BY <1>3, <1>4

(* The same for sequences: the empty one, and what can be appended.         *)
LEMMA SeqInduction ==
  ASSUME NEW S, NEW T, <<>> \in T, \A s \in Seq(S), e \in S : s \in T => Append(s, e) \in T
  PROVE  Seq(S) \subseteq T
<1> DEFINE N == {n \in Nat : \A s \in Seq(S) : Len(s) = n => s \in T}
<1>1. 0 \in N
  OBVIOUS
<1>2. ASSUME NEW n \in Nat, n \in N PROVE n + 1 \in N
  <2> SUFFICES ASSUME NEW s \in Seq(S), Len(s) = n + 1 PROVE s \in T
    OBVIOUS
  <2>1. PICK t \in Seq(S), e \in S : s = Append(t, e)
    BY SequenceEmptyOrAppend
  <2>2. Len(t) = n
    BY <2>1
  <2> QED BY <1>2, <2>1, <2>2
<1> HIDE DEF N
<1>3. Nat \subseteq N
  BY <1>1, <1>2, SetInduction
<1> QED BY <1>3 DEF N

LEMMA MinOfPositions ==
  ASSUME NEW T, T \subseteq Nat, T # {}
  PROVE  Min(T) \in T /\ \A y \in T : Min(T) <= y
<1> DEFINE R == OpToRel(<, Nat)
<1>1. PICK x \in T : \A y \in T : <<y, x>> \notin R
  <2>1. IsWellFoundedOn(R, Nat)
    BY NatLessThanWellFounded
  <2> HIDE DEF R
  <2> QED BY <2>1, WFMin
<1>2. \A y \in T : x <= y
  <2> TAKE y \in T
  <2>1. ~ (y < x)
    BY <1>1 DEF OpToRel
  <2> QED BY <2>1
<1> QED BY <1>2, Zenon DEF Min

LEMMA MaxOfPositions ==
  ASSUME NEW n \in Nat, NEW T \in SUBSET (0 .. n), T # {}
  PROVE  Max(T) \in T /\ \A y \in T : Max(T) >= y
<1> DEFINE D == {n - y : y \in T}
           R == OpToRel(<, Nat)
<1>1. PICK d \in D : \A e \in D : <<e, d>> \notin R
  <2>1. IsWellFoundedOn(R, Nat)
    BY NatLessThanWellFounded
  <2>2. D \subseteq Nat /\ D # {}
    <3>1. \A y \in T : y \in 0 .. n /\ n - y \in Nat
      OBVIOUS
    <3>2. \A e \in D : \E y \in T : e = n - y
      OBVIOUS
    <3>3. PICK y \in T : TRUE
      OBVIOUS
    <3>4. n - y \in D
      OBVIOUS
    <3> QED BY <3>1, <3>2, <3>4
  <2> HIDE DEF D, R
  <2> QED BY <2>1, <2>2, WFMin
<1>2. \A e \in D : ~ (e < d)
  <2>1. D \subseteq Nat
    OBVIOUS
  <2> QED BY <1>1, <2>1 DEF OpToRel
<1>3. PICK x \in T : d = n - x
  BY <1>1
<1>4. \A y \in T : x >= y
  <2> TAKE y \in T
  <2>1. n - y \in D
    OBVIOUS
  <2>2. ~ (n - y < n - x)
    BY <1>2, <1>3, <2>1
  <2>3. x \in 0 .. n /\ y \in 0 .. n
    OBVIOUS
  <2> QED BY <2>2, <2>3
<1> QED BY <1>4, Zenon DEF Max

LEMMA CatIndex ==
  ASSUME NEW S, NEW s \in Seq(S), NEW t \in Seq(S)
  PROVE  /\ s \o t \in Seq(S)
         /\ Len(s \o t) = Len(s) + Len(t)
         /\ \A k \in 1 .. Len(s) : (s \o t)[k] = s[k]
         /\ \A k \in 1 .. Len(t) : (s \o t)[Len(s) + k] = t[k]
OBVIOUS

(* A part of a sequence: the beginning, the rest, and where it is t.        *)
LEMMA HeadIs ==
  ASSUME NEW S, NEW s \in Seq(S), NEW m \in 0 .. Len(s)
  PROVE  /\ SubSeq(s, 1, m) \in Seq(S) /\ Len(SubSeq(s, 1, m)) = m
         /\ \A j \in 1 .. m : SubSeq(s, 1, m)[j] = s[j]
OBVIOUS

LEMMA DropIs ==
  ASSUME NEW S, NEW s \in Seq(S), NEW k \in 0 .. Len(s)
  PROVE  /\ SubSeq(s, k + 1, Len(s)) \in Seq(S) /\ Len(SubSeq(s, k + 1, Len(s))) = Len(s) - k
         /\ \A i \in 1 .. Len(s) - k : SubSeq(s, k + 1, Len(s))[i] = s[k + i]
OBVIOUS

LEMMA CutIs ==
  ASSUME NEW S, NEW s \in Seq(S), NEW t \in Seq(S), NEW k \in Nat,
         k + Len(t) <= Len(s), \A i \in 1 .. Len(t) : s[k + i] = t[i]
  PROVE  SubSeq(s, k + 1, k + Len(t)) = t
<1>1. PICK r : r = SubSeq(s, k + 1, k + Len(t))
  OBVIOUS
<1>2. r \in Seq(S) /\ Len(r) = Len(t) /\ \A i \in 1 .. Len(t) : r[i] = s[k + i]
  BY <1>1
<1> QED BY <1>1, <1>2

(* What FlattenSeq makes of seqs: the pieces one after the other.           *)
Flattened(f, seqs) ==
  f = [i \in 1 .. Len(seqs) |-> IF i = 1 THEN seqs[i] ELSE f[i - 1] \o seqs[i]]

LEMMA FlattenedExists ==
  ASSUME NEW seqs, Len(seqs) \in Nat
  PROVE  \E f : Flattened(f, seqs)
<1> DEFINE F(n, f) == f = [i \in 1 .. n |-> IF i = 1 THEN seqs[i] ELSE f[i - 1] \o seqs[i]]
           S == {n \in Nat : \E f : F(n, f)}
<1>1. 0 \in S
  <2>1. F(0, [i \in 1 .. 0 |-> <<>>])
    OBVIOUS
  <2> QED BY <2>1, Zenon
<1>2. ASSUME NEW n \in Nat, n \in S PROVE n + 1 \in S
  <2>1. PICK f : F(n, f)
    BY <1>2
  <2>2. \A i \in 1 .. n : f[i] = IF i = 1 THEN seqs[i] ELSE f[i - 1] \o seqs[i]
    <3> TAKE i \in 1 .. n
    <3>1. f[i] = [k \in 1 .. n |-> IF k = 1 THEN seqs[k] ELSE f[k - 1] \o seqs[k]][i]
      BY <2>1, Zenon
    <3> QED BY <3>1
  <2> DEFINE g == [i \in 1 .. n + 1 |-> IF i = 1 THEN seqs[i] ELSE f[i - 1] \o seqs[i]]
  <2>3. \A i \in 1 .. n : f[i] = g[i]
    BY <2>2
  <2>4. \A i \in 1 .. n + 1 : g[i] = IF i = 1 THEN seqs[i] ELSE g[i - 1] \o seqs[i]
    <3> TAKE i \in 1 .. n + 1
    <3>1. g[i] = IF i = 1 THEN seqs[i] ELSE f[i - 1] \o seqs[i]
      OBVIOUS
    <3>2. i # 1 => i - 1 \in 1 .. n
      OBVIOUS
    <3> HIDE DEF g
    <3> QED BY <2>3, <3>1, <3>2
  <2>5. F(n + 1, g)
    BY <2>4, Zenon
  <2>6. n + 1 \in Nat
    OBVIOUS
  <2> QED BY <2>5, <2>6, Zenon
<1>3. Nat \subseteq S
  BY <1>1, <1>2, SetInduction
<1> QED BY <1>3 DEF Flattened

(* FlattenSeq is the last of the partial concatenations.                    *)
LEMMA FlattenIsLast ==
  ASSUME NEW seqs, Len(seqs) \in Nat, Len(seqs) # 0
  PROVE  \E f : Flattened(f, seqs) /\ FlattenSeq(seqs) = f[Len(seqs)]
<1> DEFINE c == CHOOSE f : Flattened(f, seqs)
<1>1. Flattened(c, seqs)
  <2>1. PICK f : Flattened(f, seqs)
    BY FlattenedExists
  <2> QED BY <2>1, Zenon
<1>2. FlattenSeq(seqs) = c[Len(seqs)]
  BY Zenon DEF FlattenSeq, Flattened
<1> QED BY <1>1, <1>2, Zenon

LEMMA FlattenedStep ==
  ASSUME NEW seqs, NEW f, Flattened(f, seqs), NEW i \in 1 .. Len(seqs)
  PROVE  f[i] = IF i = 1 THEN seqs[i] ELSE f[i - 1] \o seqs[i]
<1>1. f[i] = [k \in 1 .. Len(seqs) |-> IF k = 1 THEN seqs[k] ELSE f[k - 1] \o seqs[k]][i]
  BY Zenon DEF Flattened
<1> QED BY <1>1

LEMMA FlattenedTypes ==
  ASSUME NEW S, NEW seqs \in Seq(Seq(S)), NEW f, Flattened(f, seqs)
  PROVE  \A i \in 1 .. Len(seqs) : f[i] \in Seq(S)
<1> DEFINE T == {n \in Nat : n \in 1 .. Len(seqs) => f[n] \in Seq(S)}
<1>1. 0 \in T
  OBVIOUS
<1>2. ASSUME NEW n \in Nat, n \in T PROVE n + 1 \in T
  <2> SUFFICES ASSUME n + 1 \in 1 .. Len(seqs) PROVE f[n + 1] \in Seq(S)
    OBVIOUS
  <2>1. f[n + 1] = IF n + 1 = 1 THEN seqs[n + 1] ELSE f[n] \o seqs[n + 1]
    BY FlattenedStep
  <2>2. seqs[n + 1] \in Seq(S)
    OBVIOUS
  <2>3. n # 0 => f[n] \in Seq(S)
    BY <1>2
  <2> QED BY <2>1, <2>2, <2>3
<1> HIDE DEF T
<1>3. Nat \subseteq T
  BY <1>1, <1>2, SetInduction
<1> QED BY <1>3 DEF T

LEMMA FlattenType ==
  ASSUME NEW S, NEW seqs \in Seq(Seq(S))
  PROVE  FlattenSeq(seqs) \in Seq(S)
<1>1. CASE Len(seqs) = 0
  <2>1. FlattenSeq(seqs) = seqs /\ seqs = <<>>
    BY <1>1 DEF FlattenSeq
  <2> QED BY <2>1
<1>2. CASE Len(seqs) # 0
  <2>1. PICK f : Flattened(f, seqs) /\ FlattenSeq(seqs) = f[Len(seqs)]
    BY <1>2, FlattenIsLast
  <2> QED BY <1>2, <2>1, FlattenedTypes
<1> QED BY <1>1, <1>2

LEMMA FlattenEmpty == FlattenSeq(<<>>) = <<>>
BY DEF FlattenSeq

LEMMA FlattenAppend ==
  ASSUME NEW S, NEW seqs \in Seq(Seq(S)), NEW s \in Seq(S)
  PROVE  FlattenSeq(Append(seqs, s)) = FlattenSeq(seqs) \o s
<1> DEFINE next == Append(seqs, s)
<1>1. next \in Seq(Seq(S)) /\ Len(next) = Len(seqs) + 1 /\ next[Len(seqs) + 1] = s
      /\ \A i \in 1 .. Len(seqs) : next[i] = seqs[i]
  OBVIOUS
<1> HIDE DEF next
<1>2. PICK g : Flattened(g, next) /\ FlattenSeq(next) = g[Len(next)]
  BY <1>1, FlattenIsLast
<1>3. CASE seqs = <<>>
  <2>1. g[1] = next[1] /\ Len(next) = 1
    BY <1>1, <1>2, <1>3, FlattenedStep
  <2>2. FlattenSeq(seqs) \o s = s
    BY <1>3, FlattenEmpty
  <2> QED BY <1>1, <1>2, <1>3, <2>1, <2>2 DEF next
<1>4. CASE seqs # <<>>
  <2>1. PICK f : Flattened(f, seqs) /\ FlattenSeq(seqs) = f[Len(seqs)]
    BY <1>4, FlattenIsLast
  <2> DEFINE T == {n \in Nat : n \in 1 .. Len(seqs) => f[n] = g[n]}
  <2>2. 0 \in T
    OBVIOUS
  <2>3. ASSUME NEW n \in Nat, n \in T PROVE n + 1 \in T
    <3> SUFFICES ASSUME n + 1 \in 1 .. Len(seqs) PROVE f[n + 1] = g[n + 1]
      OBVIOUS
    <3>1. f[n + 1] = IF n + 1 = 1 THEN seqs[n + 1] ELSE f[n + 1 - 1] \o seqs[n + 1]
      BY <2>1, FlattenedStep
    <3>2. g[n + 1] = IF n + 1 = 1 THEN next[n + 1] ELSE g[n + 1 - 1] \o next[n + 1]
      BY <1>1, <1>2, FlattenedStep
    <3>3. next[n + 1] = seqs[n + 1] /\ n + 1 - 1 = n
      BY <1>1
    <3>4. n # 0 => f[n] = g[n]
      BY <2>3
    <3> QED BY <3>1, <3>2, <3>3, <3>4
  <2> HIDE DEF T
  <2>4. Nat \subseteq T
    BY <2>2, <2>3, SetInduction
  <2>5. Len(seqs) \in Nat /\ Len(seqs) \in 1 .. Len(seqs)
    BY <1>4
  <2>6. f[Len(seqs)] = g[Len(seqs)]
    BY <2>4, <2>5 DEF T
  <2>7. g[Len(seqs) + 1] = g[Len(seqs)] \o next[Len(seqs) + 1]
    <3>1. Len(next) \in Nat /\ Len(seqs) + 1 \in 1 .. Len(next) /\ Len(seqs) + 1 # 1
      BY <1>1, <2>5
    <3>2. ASSUME NEW i \in 1 .. Len(next), i # 1, NEW n \in Nat, n = i - 1
          PROVE  g[i] = g[n] \o next[i]
      BY <1>2, <3>2, FlattenedStep
    <3>3. PICK k \in 1 .. Len(next) : k = Len(seqs) + 1 /\ k # 1 /\ Len(seqs) = k - 1
      BY <2>5, <3>1
    <3>4. g[k] = g[Len(seqs)] \o next[k]
      BY <2>5, <3>2, <3>3
    <3> QED BY <3>3, <3>4
  <2> QED BY <1>1, <1>2, <2>1, <2>6, <2>7 DEF next
<1> QED BY <1>3, <1>4

(* Flattening two sequences is flattening one after the other.              *)
LEMMA FlattenCat ==
  ASSUME NEW S, NEW a \in Seq(Seq(S)), NEW b \in Seq(Seq(S))
  PROVE  FlattenSeq(a \o b) = FlattenSeq(a) \o FlattenSeq(b)
<1> DEFINE T == {s \in Seq(Seq(S)) : FlattenSeq(a \o s) = FlattenSeq(a) \o FlattenSeq(s)}
<1>1. <<>> \in T
  <2>1. a \o <<>> = a
    OBVIOUS
  <2>2. FlattenSeq(a) \in Seq(S)
    BY FlattenType
  <2>3. FlattenSeq(a) \o <<>> = FlattenSeq(a)
    BY <2>2
  <2>4. FlattenSeq(a \o <<>>) = FlattenSeq(a) \o FlattenSeq(<<>>)
    BY <2>1, <2>3, FlattenEmpty, Zenon
  <2>5. <<>> \in Seq(Seq(S))
    OBVIOUS
  <2> QED BY <2>4, <2>5, Zenon
<1>2. ASSUME NEW s \in Seq(Seq(S)), NEW e \in Seq(S), s \in T PROVE Append(s, e) \in T
  <2>1. a \o Append(s, e) = Append(a \o s, e) /\ a \o s \in Seq(Seq(S)) /\ Append(s, e) \in Seq(Seq(S))
    OBVIOUS
  <2>2. FlattenSeq(Append(a \o s, e)) = FlattenSeq(a \o s) \o e
    BY <2>1, FlattenAppend
  <2>3. FlattenSeq(Append(s, e)) = FlattenSeq(s) \o e
    BY FlattenAppend
  <2>4. FlattenSeq(a \o s) = FlattenSeq(a) \o FlattenSeq(s)
    BY <1>2
  <2>5. PICK x \in Seq(S) : x = FlattenSeq(a)
    BY FlattenType, Zenon
  <2>6. PICK y \in Seq(S) : y = FlattenSeq(s)
    BY FlattenType, Zenon
  <2>7. (x \o y) \o e = x \o (y \o e)
    OBVIOUS
  <2>8. FlattenSeq(a \o Append(s, e)) = FlattenSeq(a) \o FlattenSeq(Append(s, e))
    BY <2>1, <2>2, <2>3, <2>4, <2>5, <2>6, <2>7, Zenon
  <2> QED BY <2>1, <2>8
<1> HIDE DEF T
<1>3. Seq(Seq(S)) \subseteq T
  BY <1>1, <1>2, SeqInduction
<1> QED BY <1>3 DEF T

(* The characters of a text, one after the other, are the text.             *)
LEMMA FlattenCharacters ==
  ASSUME NEW S, NEW text \in Seq(S)
  PROVE  FlattenSeq([i \in 1 .. Len(text) |-> <<text[i]>>]) = text
<1> DEFINE C(s) == [i \in 1 .. Len(s) |-> <<s[i]>>]
           T == {s \in Seq(S) : FlattenSeq(C(s)) = s}
<1>1. <<>> \in T
  <2>1. C(<<>>) = <<>>
    OBVIOUS
  <2> QED BY <2>1, FlattenEmpty
<1>2. ASSUME NEW s \in Seq(S), NEW e \in S, s \in T PROVE Append(s, e) \in T
  <2>1. C(s) \in Seq(Seq(S)) /\ <<e>> \in Seq(S) /\ Append(s, e) \in Seq(S)
    OBVIOUS
  <2>2. C(Append(s, e)) = Append(C(s), <<e>>)
    OBVIOUS
  <2>3. FlattenSeq(Append(C(s), <<e>>)) = FlattenSeq(C(s)) \o <<e>>
    BY <2>1, FlattenAppend
  <2>4. s \o <<e>> = Append(s, e)
    OBVIOUS
  <2> HIDE DEF C
  <2>5. FlattenSeq(C(s)) = s
    BY <1>2
  <2> QED BY <2>1, <2>2, <2>3, <2>4, <2>5
<1> HIDE DEF T
<1>3. Seq(S) \subseteq T
  BY <1>1, <1>2, SeqInduction
<1> QED BY <1>3 DEF T

(* A sequence is its first elements and the rest.                           *)
LEMMA SplitSeq ==
  ASSUME NEW S, NEW s \in Seq(S), NEW n \in 0 .. Len(s)
  PROVE  /\ SubSeq(s, 1, n) \in Seq(S)
         /\ SubSeq(s, n + 1, Len(s)) \in Seq(S)
         /\ SubSeq(s, 1, n) \o SubSeq(s, n + 1, Len(s)) = s
<1> DEFINE a == SubSeq(s, 1, n)
           b == SubSeq(s, n + 1, Len(s))
<1>1. a \in Seq(S) /\ Len(a) = n /\ \A k \in 1 .. n : a[k] = s[k]
  OBVIOUS
<1>2. b \in Seq(S) /\ Len(b) = Len(s) - n /\ \A k \in 1 .. Len(s) - n : b[k] = s[n + k]
  <2>1. n + 1 \in Int /\ Len(s) \in Int /\ \A k \in n + 1 .. Len(s) : s[k] \in S
    OBVIOUS
  <2>2. /\ b \in Seq(S)
        /\ Len(b) = IF n + 1 <= Len(s) THEN Len(s) - (n + 1) + 1 ELSE 0
        /\ \A k \in 1 .. Len(s) - (n + 1) + 1 : b[k] = s[n + 1 + k - 1]
    BY <2>1, SubSeqProperties
  <2> HIDE DEF b
  <2>3. Len(s) - (n + 1) + 1 = Len(s) - n /\ \A k \in 1 .. Len(s) - n : n + 1 + k - 1 = n + k
    OBVIOUS
  <2>4. Len(b) = Len(s) - n
    <3>1. Len(s) \in Nat /\ n \in Nat /\ n <= Len(s)
      OBVIOUS
    <3> QED BY <2>2, <3>1
  <2>5. \A k \in 1 .. Len(s) - n : b[k] = s[n + k]
    <3> TAKE k \in 1 .. Len(s) - n
    <3>1. k \in 1 .. Len(s) - (n + 1) + 1
      BY <2>3
    <3>2. b[k] = s[n + 1 + k - 1]
      BY <2>2, <3>1, Zenon
    <3>3. n + 1 + k - 1 = n + k
      BY <2>3, Zenon
    <3> QED BY <3>2, <3>3, Zenon
  <2> QED BY <2>2, <2>4, <2>5
<1> HIDE DEF a, b
<1>3. PICK c \in Seq(S) : c = a \o b
  <2>1. a \o b \in Seq(S)
    BY <1>1, <1>2, CatIndex
  <2> QED BY <2>1, Zenon
<1>4. /\ Len(c) = Len(a) + Len(b)
      /\ \A k \in 1 .. Len(a) : c[k] = a[k]
      /\ \A k \in 1 .. Len(b) : c[Len(a) + k] = b[k]
  BY <1>1, <1>2, <1>3, CatIndex
<1>5. Len(c) = Len(s)
  BY <1>1, <1>2, <1>4
<1>6. \A k \in 1 .. Len(c) : c[k] = s[k]
  <2> TAKE k \in 1 .. Len(c)
  <2>1. CASE k <= n
    BY <1>1, <1>4, <2>1
  <2>2. CASE ~ (k <= n)
    <3>1. k - n \in 1 .. Len(s) - n /\ n + (k - n) = k
      BY <1>5, <2>2
    <3>2. PICK i \in 1 .. Len(s) - n : i = k - n
      BY <3>1, Zenon
    <3>3. n + i = k /\ i \in 1 .. Len(b)
      BY <1>2, <3>1, <3>2
    <3>4. c[Len(a) + i] = b[i]
      BY <1>4, <3>3, Zenon
    <3>5. c[n + i] = b[i]
      BY <1>1, <3>4, Zenon
    <3>6. b[i] = s[n + i]
      BY <1>2, Zenon
    <3> QED BY <3>3, <3>5, <3>6, Zenon
  <2> QED BY <2>1, <2>2
<1>7. c = s
  BY <1>5, <1>6, SeqEqual
<1> QED BY <1>1, <1>2, <1>3, <1>7 DEF a, b

(* A sequence is a prefix of what begins with it.                           *)
LEMMA PrefixOfCat ==
  ASSUME NEW S, NEW s \in Seq(S), NEW t \in Seq(S)
  PROVE  IsPrefix(s, s \o t)
<1>1. PICK u \in Seq(S) : u = s \o t
  <2>1. s \o t \in Seq(S)
    OBVIOUS
  <2> QED BY <2>1, Zenon
<1>2. Len(s) <= Len(u) /\ \A k \in 1 .. Len(s) : u[k] = s[k]
  BY <1>1, CatIndex
<1>3. SubSeq(s, 1, Len(s)) = SubSeq(u, 1, Len(s))
  BY <1>2
<1> QED BY <1>1, <1>2, <1>3 DEF IsPrefix

(* A prefix of a prefix is one.                                             *)
LEMMA PrefixTransitive ==
  ASSUME NEW S, NEW s \in Seq(S), NEW t \in Seq(S), NEW u \in Seq(S),
         IsPrefix(s, t), IsPrefix(t, u)
  PROVE  IsPrefix(s, u)
<1>1. Len(s) <= Len(t) /\ Len(t) <= Len(u) /\ Len(s) \in Nat /\ Len(t) \in Nat /\ Len(u) \in Nat
  BY DEF IsPrefix
<1>2. \A k \in 1 .. Len(s) : s[k] = t[k]
  <2>1. SubSeq(s, 1, Len(s)) = SubSeq(t, 1, Len(s))
    BY DEF IsPrefix
  <2>2. \A k \in 1 .. Len(s) : SubSeq(s, 1, Len(s))[k] = s[k] /\ SubSeq(t, 1, Len(s))[k] = t[k]
    BY <1>1
  <2> QED BY <2>1, <2>2
<1>3. \A k \in 1 .. Len(t) : t[k] = u[k]
  <2>1. SubSeq(t, 1, Len(t)) = SubSeq(u, 1, Len(t))
    BY DEF IsPrefix
  <2>2. \A k \in 1 .. Len(t) : SubSeq(t, 1, Len(t))[k] = t[k] /\ SubSeq(u, 1, Len(t))[k] = u[k]
    BY <1>1
  <2> QED BY <2>1, <2>2
<1>4. SubSeq(s, 1, Len(s)) = SubSeq(u, 1, Len(s))
  BY <1>1, <1>2, <1>3
<1> QED BY <1>1, <1>4 DEF IsPrefix

(* A sequence is its own prefix.                                            *)
LEMMA SelfPrefix == ASSUME NEW S, NEW s \in Seq(S) PROVE IsPrefix(s, s)
BY DEF IsPrefix
=============================================================================
