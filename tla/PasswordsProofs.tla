-------------------------- MODULE PasswordsProofs --------------------------
(***************************************************************************)
(* For any number of accounts, passwords and concurrent calls, and every   *)
(* configuration: what is stored decodes to what it was made from, and cut *)
(* data is refused. With the default configuration, the only one           *)
(* CheckPassword computes keys with: what Verify accepts and Change        *)
(* replaces.                                                               *)
(*                                                                         *)
(* First, that the text of a password is read back: the numbers of the     *)
(* header byte by byte, then the header, the bytes, and base-64.           *)
(***************************************************************************)
EXTENDS Passwords, SequenceLemmas

Bytes == 0 .. 255

(* Shifting makes a number smaller, and nothing follows the last byte.      *)
LEMMA ShiftedType ==
  /\ \A x \in Nat : Shifted(x) \in Nat /\ Shifted(x) <= x
  /\ \A x \in Nat : Shifted(x + 1) \in 0 .. x
  /\ Shifted(0) = 0 /\ \A more : PutByte(0, more) = <<0>>
BY DEF Shifted, PutByte

(* The numbers up to n and the bytes that Uvarint makes of them.            *)
Written(n, f) == f = [x \in 0 .. n |-> PutByte(x, f[Shifted(x)])]

(* Where f is defined it is what Uvarint should be.                         *)
LEMMA WrittenAt ==
  ASSUME NEW n, NEW f, Written(n, f)
  PROVE  \A x \in 0 .. n : f[x] = PutByte(x, f[Shifted(x)])
<1> TAKE x \in 0 .. n
<1>1. f[x] = [y \in 0 .. n |-> PutByte(y, f[Shifted(y)])][x]
  BY Zenon DEF Written
<1> QED BY <1>1, Zenon

(* Such bytes exist, by induction over the numbers.                         *)
LEMMA WrittenExists == \A n \in Nat : \E f : Written(n, f)
<1> DEFINE S == {m \in Nat : \E f : Written(m, f)}
<1>1. 0 \in S
  <2> DEFINE g == [x \in 0 .. 0 |-> <<0>>]
  <2>1. \A x \in 0 .. 0 : PutByte(x, g[Shifted(x)]) = <<0>>
    BY ShiftedType
  <2>2. Written(0, g)
    BY <2>1, Zenon DEF Written
  <2> QED BY <2>2, Zenon
<1>2. ASSUME NEW m \in Nat, m \in S PROVE m + 1 \in S
  <2>1. PICK f : Written(m, f)
    BY <1>2
  <2> DEFINE g == [x \in 0 .. m + 1 |-> PutByte(x, f[Shifted(x)])]
  <2>2. \A x \in 0 .. m : f[x] = g[x]
    <3> TAKE x \in 0 .. m
    <3>1. x \in 0 .. m + 1
      OBVIOUS
    <3>2. f[x] = PutByte(x, f[Shifted(x)])
      BY <2>1, WrittenAt, Zenon
    <3> QED BY <3>1, <3>2, Zenon
  <2>3. \A x \in 0 .. m + 1 : g[x] = PutByte(x, g[Shifted(x)])
    <3> TAKE x \in 0 .. m + 1
    <3>1. g[x] = PutByte(x, f[Shifted(x)])
      BY Zenon
    <3>2. Shifted(x) \in 0 .. m
      BY ShiftedType DEF Shifted
    <3>3. f[Shifted(x)] = g[Shifted(x)]
      BY <2>2, <3>2
    <3> HIDE DEF g
    <3> QED BY <3>1, <3>3, Zenon
  <2>4. Written(m + 1, g)
    BY <2>3, Zenon DEF Written
  <2>5. m + 1 \in Nat
    OBVIOUS
  <2> QED BY <2>4, <2>5, Zenon
<1>3. Nat \subseteq S
  BY <1>1, <1>2, SetInduction
<1> QED BY <1>3

(* However many numbers are looked at, the bytes of one are the same.       *)
LEMMA WrittenAgree ==
  ASSUME NEW n \in Nat, NEW m \in Nat, NEW f, NEW g, Written(n, f), Written(m, g)
  PROVE  \A x \in 0 .. n : x \in 0 .. m => f[x] = g[x]
<1> DEFINE S == {k \in Nat : \A x \in 0 .. k : x \in 0 .. n /\ x \in 0 .. m => f[x] = g[x]}
<1>0. /\ \A x \in 0 .. n : f[x] = PutByte(x, f[Shifted(x)])
      /\ \A x \in 0 .. m : g[x] = PutByte(x, g[Shifted(x)])
  BY WrittenAt, Zenon
<1>1. 0 \in S
  <2>1. 0 \in 0 .. n => f[0] = <<0>>
    BY <1>0, ShiftedType, Zenon
  <2>2. 0 \in 0 .. m => g[0] = <<0>>
    BY <1>0, ShiftedType, Zenon
  <2> QED BY <2>1, <2>2
<1>2. ASSUME NEW k \in Nat, k \in S PROVE k + 1 \in S
  <2>1. PICK y \in Nat : y = k + 1
    OBVIOUS
  <2>2. ASSUME y \in 0 .. n, y \in 0 .. m PROVE f[y] = g[y]
    <3>1. /\ f[y] = PutByte(y, f[Shifted(y)])
          /\ g[y] = PutByte(y, g[Shifted(y)])
      BY <1>0, <2>2, Zenon
    <3>2. PICK d : d = Shifted(y)
      OBVIOUS
    <3>3. d \in 0 .. k /\ d \in 0 .. n /\ d \in 0 .. m
      <4>1. d \in 0 .. k
        BY <2>1, <3>2, ShiftedType
      <4> QED BY <2>1, <2>2, <4>1
    <3>4. f[d] = g[d]
      BY <1>2, <3>3, Zenon
    <3> QED BY <3>1, <3>2, <3>4, Zenon
  <2>3. \A x \in 0 .. k + 1 : x \in 0 .. k \/ x = y
    BY <2>1
  <2>4. \A x \in 0 .. k + 1 : x \in 0 .. n /\ x \in 0 .. m => f[x] = g[x]
    BY <1>2, <2>2, <2>3, Zenon
  <2>5. k + 1 \in Nat
    OBVIOUS
  <2> QED BY <2>4, <2>5, Zenon
<1>3. Nat \subseteq S
  BY <1>1, <1>2, SetInduction
<1>4. n \in S /\ \A x \in 0 .. n : x \in 0 .. n
  BY <1>3
<1> QED BY <1>4, Zenon

(* So Uvarint has the values its definition asks for.                       *)
LEMMA UvarintDef == \A x \in Nat : Uvarint[x] = PutByte(x, Uvarint[Shifted(x)])
<1> DEFINE W(x) == CHOOSE f : Written(x, f)
           Sol(u) == u = [x \in Nat |-> PutByte(x, u[Shifted(x)])]
           w == [x \in Nat |-> W(x)[x]]
<1>1. \A x \in Nat : Written(x, W(x))
  BY WrittenExists, Zenon
<1> HIDE DEF W
<1>2. \A x \in Nat : w[x] = PutByte(x, w[Shifted(x)])
  <2> TAKE x \in Nat
  <2>1. w[x] = W(x)[x]
    OBVIOUS
  <2>2. PICK d : d = Shifted(x)
    OBVIOUS
  <2>3. d \in Nat /\ d \in 0 .. x /\ d \in 0 .. d /\ x \in 0 .. x
    BY <2>2, ShiftedType
  <2>4. W(x)[x] = PutByte(x, W(x)[d])
    BY <1>1, <2>2, <2>3, WrittenAt, Zenon
  <2>5. W(x)[d] = W(d)[d]
    <3>1. Written(x, W(x)) /\ Written(d, W(d))
      BY <1>1, <2>3, Zenon
    <3>2. PICK f, g : f = W(x) /\ g = W(d) /\ Written(x, f) /\ Written(d, g)
      BY <3>1, Zenon
    <3>3. \A y \in 0 .. x : y \in 0 .. d => f[y] = g[y]
      BY <2>3, <3>2, WrittenAgree
    <3> QED BY <2>3, <3>2, <3>3, Zenon
  <2>6. w[d] = W(d)[d]
    BY <2>3, Zenon
  <2> HIDE DEF w
  <2> QED BY <2>1, <2>2, <2>4, <2>5, <2>6, Zenon
<1>3. Sol(w)
  BY <1>2, Zenon
<1> HIDE DEF w
<1>4. Uvarint = CHOOSE u : Sol(u)
  BY Zenon DEF Uvarint
<1> HIDE DEF Sol
<1>5. Sol(Uvarint)
  BY <1>3, <1>4, Zenon
<1> TAKE x \in Nat
<1>6. Uvarint[x] = [y \in Nat |-> PutByte(y, Uvarint[Shifted(y)])][x]
  BY <1>5, Zenon DEF Sol
<1> QED BY <1>6, Zenon

(* A byte with the high bit set is followed by another one.                 *)
IsUvarint(u) ==
  /\ u \in Seq(Bytes) /\ Len(u) > 0
  /\ u[Len(u)] < 128
  /\ \A i \in 1 .. Len(u) - 1 : u[i] >= 128

(* A number below 128 is its own byte, another has one more to come.        *)
LEMMA PutByteIs ==
  /\ \A x \in Nat : x < 128 => x \in Bytes /\ \A more : PutByte(x, more) = <<x>>
  /\ \A x \in Nat : ~(x < 128) =>
       /\ 128 + (x % 128) \in Bytes
       /\ \A more : PutByte(x, more) = <<128 + (x % 128)>> \o more
BY DEF PutByte, Bytes

(* What PutUvarint writes is a number, to its last byte.                    *)
LEMMA UvarintBytes == \A x \in Nat : IsUvarint(Uvarint[x])
<1> DEFINE T == {n \in Nat : \A x \in 0 .. n : IsUvarint(Uvarint[x])}
<1>1. ASSUME NEW x \in Nat, x < 128 PROVE IsUvarint(Uvarint[x])
  <2>1. Uvarint[x] = <<x>> /\ x \in Bytes
    BY <1>1, UvarintDef, PutByteIs
  <2> QED BY <1>1, <2>1 DEF IsUvarint
<1>2. 0 \in T
  BY <1>1
<1>3. ASSUME NEW n \in Nat, n \in T PROVE n + 1 \in T
  <2>1. PICK x \in Nat : x = n + 1
    OBVIOUS
  <2>2. ASSUME ~(x < 128) PROVE IsUvarint(Uvarint[x])
    <3>1. PICK u : u = Uvarint[Shifted(x)]
      OBVIOUS
    <3>2. PICK c \in Bytes : c = 128 + (x % 128)
      BY <2>2, PutByteIs
    <3>3. Uvarint[x] = <<c>> \o u
      BY <2>2, <3>1, <3>2, UvarintDef, PutByteIs
    <3>4. IsUvarint(u)
      BY <1>3, <2>1, <3>1, ShiftedType
    <3>5. c >= 128
      BY <3>2
    <3>6. PICK w : w = <<c>> \o u
      OBVIOUS
    <3>7. /\ w \in Seq(Bytes) /\ Len(w) = Len(u) + 1 /\ w[1] = c
          /\ \A i \in 1 .. Len(u) : w[i + 1] = u[i]
      BY <3>4, <3>6 DEF IsUvarint
    <3>8. w[Len(w)] < 128
      BY <3>4, <3>7 DEF IsUvarint
    <3>9. \A i \in 1 .. Len(w) - 1 : w[i] >= 128
      <4> TAKE i \in 1 .. Len(w) - 1
      <4>1. CASE i = 1
        BY <3>5, <3>7, <4>1
      <4>2. CASE i # 1
        <5>1. PICK j \in 1 .. Len(u) - 1 : i = j + 1
          BY <3>4, <3>7, <4>2 DEF IsUvarint
        <5> QED BY <3>4, <3>7, <5>1 DEF IsUvarint
      <4> QED BY <4>1, <4>2
    <3>10. Len(w) > 0
      BY <3>4, <3>7 DEF IsUvarint
    <3> QED BY <3>3, <3>6, <3>7, <3>8, <3>9, <3>10, Zenon DEF IsUvarint
  <2>3. IsUvarint(Uvarint[x])
    BY <1>1, <2>2
  <2>4. \A y \in 0 .. n + 1 : y \in 0 .. n \/ y = x
    BY <2>1
  <2> QED BY <1>3, <2>3, <2>4
<1>4. Nat \subseteq T
  BY <1>2, <1>3, SetInduction
<1> TAKE x \in Nat
<1>5. x \in T /\ x \in 0 .. x
  BY <1>4
<1> QED BY <1>5, Zenon

(* The steps of reading the bytes b.                                        *)
NothingRead == [v |-> 0, s |-> 1]

Reads(c, b, n) == c = [i \in 0 .. n |-> IF i = 0 THEN NothingRead ELSE AddByte(c[i - 1], b[i])]

(* A step of reading takes one byte.                                        *)
LEMMA ReadsAt ==
  ASSUME NEW c, NEW b, NEW n, Reads(c, b, n)
  PROVE  \A i \in 0 .. n : c[i] = IF i = 0 THEN NothingRead ELSE AddByte(c[i - 1], b[i])
<1> TAKE i \in 0 .. n
<1>1. c[i] = [k \in 0 .. n |-> IF k = 0 THEN NothingRead ELSE AddByte(c[k - 1], b[k])][i]
  BY Zenon DEF Reads
<1> QED BY <1>1, Zenon

(* The steps of reading exist, by induction over the bytes.                 *)
LEMMA ReadsExist == ASSUME NEW b PROVE \A n \in Nat : \E c : Reads(c, b, n)
<1> DEFINE S == {n \in Nat : \E c : Reads(c, b, n)}
<1>1. 0 \in S
  <2> DEFINE g == [i \in 0 .. 0 |-> NothingRead]
  <2>1. \A i \in 0 .. 0 : i = 0
    OBVIOUS
  <2>2. Reads(g, b, 0)
    BY <2>1, Zenon DEF Reads
  <2> QED BY <2>2, Zenon
<1>2. ASSUME NEW n \in Nat, n \in S PROVE n + 1 \in S
  <2>1. PICK c : Reads(c, b, n)
    BY <1>2
  <2>a. \A i \in 0 .. n : c[i] = IF i = 0 THEN NothingRead ELSE AddByte(c[i - 1], b[i])
    BY <2>1, ReadsAt
  <2> DEFINE g == [i \in 0 .. n + 1 |-> IF i = 0 THEN NothingRead ELSE AddByte(c[i - 1], b[i])]
  <2>2. \A i \in 0 .. n : c[i] = g[i]
    <3> TAKE i \in 0 .. n
    <3>1. i \in 0 .. n + 1
      OBVIOUS
    <3>2. c[i] = IF i = 0 THEN NothingRead ELSE AddByte(c[i - 1], b[i])
      BY <2>a, Zenon
    <3> QED BY <3>1, <3>2, Zenon
  <2>3. \A i \in 0 .. n + 1 : g[i] = IF i = 0 THEN NothingRead ELSE AddByte(g[i - 1], b[i])
    <3> TAKE i \in 0 .. n + 1
    <3>1. g[i] = IF i = 0 THEN NothingRead ELSE AddByte(c[i - 1], b[i])
      BY Zenon
    <3>2. i # 0 => i - 1 \in 0 .. n
      OBVIOUS
    <3>3. i # 0 => c[i - 1] = g[i - 1]
      BY <2>2, <3>2
    <3> HIDE DEF g
    <3> QED BY <3>1, <3>3, Zenon
  <2>4. Reads(g, b, n + 1)
    BY <2>3, Zenon DEF Reads
  <2>5. n + 1 \in Nat
    OBVIOUS
  <2> QED BY <2>4, <2>5, Zenon
<1>3. Nat \subseteq S
  BY <1>1, <1>2, SetInduction
<1> QED BY <1>3

Low(x) == x % 128

(* A number is seven bits and what is left when they are shifted out.       *)
LEMMA SevenBits ==
  \A x \in Nat : /\ Low(x) \in Nat /\ Low(128 + Low(x)) = Low(x)
                 /\ x = Low(x) + 128 * Shifted(x)
                 /\ x < 128 => Low(x) = x
<1> TAKE x \in Nat
<1>1. PICK q \in Nat, r \in 0 .. 127 : x = 128 * q + r
  <2>1. x \div 128 \in Nat /\ x % 128 \in 0 .. 127 /\ x = 128 * (x \div 128) + (x % 128)
    OBVIOUS
  <2> QED BY <2>1
<1>2. x % 128 = r /\ x \div 128 = q
  BY <1>1
<1>3. (128 + r) % 128 = r
  OBVIOUS
<1> QED BY <1>1, <1>2, <1>3 DEF Shifted, Low

(* What was read of a number and the scale of the next byte.                *)
At(c, k, a, s) == c[k].v = a /\ c[k].s = s

Scaled(a, s, x) == a + s * x
Taken(a, s, x) == a + Low(x) * s
Widened(s) == 128 * s

(* Taking seven bits and widening the scale keeps the sum.                  *)
LEMMA ScaledStep ==
  ASSUME NEW a \in Nat, NEW s \in Nat, NEW x \in Nat
  PROVE  /\ Taken(a, s, x) \in Nat /\ Widened(s) \in Nat
         /\ Scaled(Taken(a, s, x), Widened(s), Shifted(x)) = Scaled(a, s, x)
         /\ x < 128 => Taken(a, s, x) = Scaled(a, s, x)
<1>1. PICK q \in Nat, r \in Nat : q = Shifted(x) /\ r = Low(x)
  BY SevenBits, ShiftedType, Zenon
<1>0. x = r + 128 * q /\ (x < 128 => r = x)
  BY <1>1, SevenBits
<1>2. (a + r * s) + (128 * s) * q = a + s * (r + 128 * q)
  OBVIOUS
<1>3. a + r * s \in Nat /\ 128 * s \in Nat
  OBVIOUS
<1>5. a + r * s = a + s * r
  OBVIOUS
<1>6. Taken(a, s, x) = a + r * s /\ Widened(s) = 128 * s
  BY <1>1 DEF Taken, Widened
<1>7. Scaled(a + r * s, 128 * s, q) = Scaled(a, s, r + 128 * q) /\ Scaled(a, s, r) = a + r * s
  BY <1>2, <1>5 DEF Scaled
<1> QED BY <1>0, <1>1, <1>3, <1>6, <1>7

(* The bytes u are those of b after position k.                             *)
HasAt(b, k, u) == \A i \in 1 .. Len(u) : b[k + i] = u[i]

(* Reading goes on with the number at a position.                           *)
LEMMA ReadsNumber ==
  ASSUME NEW b, NEW n \in Nat, NEW c, Reads(c, b, n)
  PROVE  \A x, k, a, s \in Nat :
           At(c, k, a, s) /\ k + Len(Uvarint[x]) <= n /\ HasAt(b, k, Uvarint[x])
             => c[k + Len(Uvarint[x])].v = Scaled(a, s, x)
<1> DEFINE P(x, k, a, s) ==
             At(c, k, a, s) /\ k + Len(Uvarint[x]) <= n /\ HasAt(b, k, Uvarint[x])
               => c[k + Len(Uvarint[x])].v = Scaled(a, s, x)
           T == {m \in Nat : \A x \in 0 .. m : \A k, a, s \in Nat : P(x, k, a, s)}
<1>a. \A i \in 0 .. n : c[i] = IF i = 0 THEN NothingRead ELSE AddByte(c[i - 1], b[i])
  BY ReadsAt
<1>0. ASSUME NEW k \in Nat, NEW a \in Nat, NEW s \in Nat, k + 1 <= n, At(c, k, a, s)
      PROVE  At(c, k + 1, Taken(a, s, b[k + 1]), Widened(s))
  <2>1. PICK j : j = k + 1
    OBVIOUS
  <2>2. j \in 0 .. n /\ j # 0 /\ j - 1 = k
    BY <1>0, <2>1
  <2>3. c[j] = AddByte(c[j - 1], b[j])
    BY <1>a, <2>2, Zenon
  <2>4. c[j].v = c[k].v + (b[j] % 128) * c[k].s /\ c[j].s = 128 * c[k].s
    BY <2>2, <2>3 DEF AddByte
  <2> QED BY <1>0, <2>1, <2>4 DEF At, Taken, Widened, Low
<1>1. ASSUME NEW x \in Nat, x < 128, NEW k \in Nat, NEW a \in Nat, NEW s \in Nat PROVE P(x, k, a, s)
  <2>1. Uvarint[x] = <<x>>
    BY <1>1, UvarintDef, PutByteIs
  <2> SUFFICES ASSUME At(c, k, a, s), k + 1 <= n, b[k + 1] = x
               PROVE  c[k + 1].v = Scaled(a, s, x)
    BY <2>1 DEF HasAt
  <2>2. At(c, k + 1, Taken(a, s, x), Widened(s))
    BY <1>0
  <2>3. Taken(a, s, x) = Scaled(a, s, x)
    BY <1>1, ScaledStep
  <2> QED BY <2>2, <2>3, Zenon DEF At
<1>2. 0 \in T
  <2> HIDE DEF P
  <2> QED BY <1>1
<1>3. ASSUME NEW m \in Nat, m \in T PROVE m + 1 \in T
  <2>1. PICK x \in Nat : x = m + 1
    OBVIOUS
  <2>2. ASSUME ~(x < 128), NEW k \in Nat, NEW a \in Nat, NEW s \in Nat PROVE P(x, k, a, s)
    <3>1. PICK y \in Nat : y = Shifted(x)
      BY ShiftedType
    <3>2. PICK u : u = Uvarint[y]
      OBVIOUS
    <3>3. PICK d \in Bytes : d = 128 + (x % 128)
      BY <2>2, PutByteIs
    <3>4. Uvarint[x] = <<d>> \o u
      <4>1. Uvarint[x] = PutByte(x, u)
        BY <3>1, <3>2, UvarintDef, Zenon
      <4>2. PutByte(x, u) = <<128 + (x % 128)>> \o u
        BY <2>2, PutByteIs
      <4> QED BY <3>3, <4>1, <4>2
    <3>5. u \in Seq(Bytes) /\ Len(u) \in Nat
      BY <3>2, UvarintBytes DEF IsUvarint
    <3>6. /\ Len(Uvarint[x]) = Len(u) + 1 /\ Uvarint[x][1] = d
          /\ \A i \in 1 .. Len(u) : Uvarint[x][i + 1] = u[i]
      BY <3>4, <3>5
    <3> SUFFICES ASSUME At(c, k, a, s), k + (Len(u) + 1) <= n, HasAt(b, k, Uvarint[x])
                 PROVE  c[k + (Len(u) + 1)].v = Scaled(a, s, x)
      BY <3>6
    <3>7. b[k + 1] = d /\ HasAt(b, k + 1, u)
      <4>2. 1 \in 1 .. Len(Uvarint[x])
        BY <3>5, <3>6
      <4>3. ASSUME NEW i \in 1 .. Len(u) PROVE b[(k + 1) + i] = u[i]
        <5>1. PICK j : j = i + 1
          OBVIOUS
        <5>2. j \in 1 .. Len(Uvarint[x]) /\ k + j = (k + 1) + i
          BY <3>5, <3>6, <5>1
        <5>3. b[k + j] = Uvarint[x][j] /\ Uvarint[x][j] = u[i]
          BY <3>6, <5>1, <5>2 DEF HasAt
        <5> QED BY <5>2, <5>3
      <4> QED BY <3>6, <4>2, <4>3 DEF HasAt
    <3>8. Low(d) = Low(x)
      BY <3>3, SevenBits DEF Low
    <3>9. PICK a1 \in Nat, s1 \in Nat : a1 = Taken(a, s, x) /\ s1 = Widened(s)
      BY ScaledStep, Zenon
    <3>10. PICK k1 \in Nat : k1 = k + 1
      OBVIOUS
    <3>11. At(c, k1, a1, s1)
      <4>1. k + 1 <= n
        BY <3>5
      <4>2. At(c, k + 1, Taken(a, s, b[k + 1]), Widened(s))
        BY <1>0, <4>1
      <4>3. Taken(a, s, d) = Taken(a, s, x)
        BY <3>8, Zenon DEF Taken
      <4> QED BY <3>7, <3>9, <3>10, <4>2, <4>3, Zenon
    <3>12. y \in 0 .. m
      BY <2>1, <3>1, ShiftedType
    <3>13. k1 + Len(u) <= n /\ k1 + Len(u) = k + (Len(u) + 1)
      BY <3>5, <3>10
    <3> HIDE DEF P
    <3>14. P(y, k1, a1, s1)
      BY <1>3, <3>12
    <3>15. c[k1 + Len(u)].v = Scaled(a1, s1, y)
      BY <3>2, <3>7, <3>10, <3>11, <3>13, <3>14, Zenon DEF P
    <3>16. Scaled(a1, s1, y) = Scaled(a, s, x)
      <4>1. Scaled(Taken(a, s, x), Widened(s), Shifted(x)) = Scaled(a, s, x)
        BY ScaledStep
      <4> QED BY <3>1, <3>9, <4>1, Zenon
    <3> QED BY <3>13, <3>15, <3>16
  <2> HIDE DEF P
  <2>3. \A k, a, s \in Nat : P(x, k, a, s)
    BY <1>1, <2>2
  <2>4. \A z \in 0 .. m + 1 : z \in 0 .. m \/ z = x
    BY <2>1
  <2> QED BY <1>3, <2>3, <2>4
<1>4. Nat \subseteq T
  <2> HIDE DEF P
  <2> QED BY <1>2, <1>3, SetInduction
<1> HIDE DEF P
<1>5. \A x \in Nat : x \in T /\ x \in 0 .. x
  BY <1>4
<1>6. \A x \in Nat : \A k, a, s \in Nat : P(x, k, a, s)
  BY <1>5, Zenon
<1> QED BY <1>6, Zenon DEF P

(* A number at the start of bytes is read back.                             *)
LEMMA ReadFirst ==
  ASSUME NEW r \in Seq(Bytes), NEW x \in Nat,
         Len(Uvarint[x]) <= Len(r), HasAt(r, 0, Uvarint[x])
  PROVE  ReadUvarint(r) = [v |-> x, n |-> Len(Uvarint[x])]
<1>1. PICK u : u = Uvarint[x] /\ IsUvarint(u)
  BY UvarintBytes
<1>2. PICK m \in Nat : m = Len(u) /\ m > 0 /\ m <= Len(r)
  BY <1>1 DEF IsUvarint
<1>3. /\ m \in Ends(r)
      /\ Ends(r) \subseteq Nat
      /\ \A i \in Ends(r) : m <= i
  <2>1. \A i \in 1 .. m : r[i] = u[i]
    BY <1>1, <1>2 DEF HasAt
  <2>2. m \in Ends(r)
    BY <1>1, <1>2, <2>1 DEF Ends, IsUvarint
  <2>3. ASSUME NEW i \in Ends(r), i < m PROVE FALSE
    <3>1. i \in 1 .. m - 1 /\ r[i] < 128
      BY <1>2, <2>3 DEF Ends
    <3>2. u[i] >= 128 /\ r[i] = u[i] /\ u[i] \in Bytes
      BY <1>1, <1>2, <2>1, <3>1 DEF IsUvarint
    <3>3. PICK y \in Bytes : y = u[i]
      BY <3>2
    <3>4. y < 128 /\ y >= 128
      BY <3>1, <3>2, <3>3
    <3> QED BY <3>4 DEF Bytes
  <2> QED BY <1>2, <2>2, <2>3 DEF Ends
<1>4. Min(Ends(r)) = m
  <2>1. Min(Ends(r)) \in Ends(r) /\ \A y \in Ends(r) : Min(Ends(r)) <= y
    BY <1>3, MinOfPositions
  <2> QED BY <1>2, <1>3, <2>1
<1>5. PICK c : c = CHOOSE f : Reads(f, r, Len(r))
  OBVIOUS
<1>6. Reads(c, r, Len(r))
  <2>1. Len(r) \in Nat
    OBVIOUS
  <2> QED BY <1>5, <2>1, ReadsExist, Zenon
<1>7. ReadUvarint(r) = [v |-> c[m].v, n |-> m]
  <2>1. Ends(r) # {}
    BY <1>3
  <2> QED BY <1>4, <1>5, <2>1, Zenon DEF ReadUvarint, Reads, NothingRead
<1>8. c[m].v = Scaled(0, 1, x)
  <2>1. At(c, 0, 0, 1)
    <3>1. \A i \in 0 .. Len(r) : c[i] = IF i = 0 THEN NothingRead ELSE AddByte(c[i - 1], r[i])
      BY <1>6, ReadsAt
    <3> QED BY <3>1 DEF At, NothingRead
  <2>2. \A y, k, a, s \in Nat :
           At(c, k, a, s) /\ k + Len(Uvarint[y]) <= Len(r) /\ HasAt(r, k, Uvarint[y])
             => c[k + Len(Uvarint[y])].v = Scaled(a, s, y)
    BY <1>6, ReadsNumber
  <2>3. 0 + Len(Uvarint[x]) = m
    BY <1>1, <1>2
  <2>4. 0 \in Nat /\ 1 \in Nat
    OBVIOUS
  <2>5. c[0 + Len(Uvarint[x])].v = Scaled(0, 1, x)
    BY <1>2, <2>1, <2>2, <2>3, <2>4
  <2> QED BY <2>3, <2>5
<1> QED BY <1>1, <1>2, <1>7, <1>8 DEF Scaled

(* Without the last byte of a number nothing is read.                       *)
LEMMA ReadNothing == ASSUME NEW r, Ends(r) = {} PROVE ReadUvarint(r) = [v |-> 0, n |-> 0]
BY Zenon DEF ReadUvarint

(* Reading, at position i of the first m bytes of b, the number x that b    *)
(* has there: it is read, or its end is missing.                            *)
IsCut(b, m, p) == b \in Seq(Bytes) /\ m \in 0 .. Len(b) /\ p = SubSeq(b, 1, m)

ReadsOrEnds(p, m, i, x) ==
  /\ i + Len(Uvarint[x]) <= m =>
       ReadUvarint(Rest(p, i)) = [v |-> x, n |-> Len(Uvarint[x])]
  /\ ~(i + Len(Uvarint[x]) <= m) => Ends(Rest(p, i)) = {}

LEMMA ReadAt ==
  ASSUME NEW b, NEW m, NEW p, IsCut(b, m, p),
         NEW x \in Nat, NEW i \in 0 .. Len(b), HasAt(b, i, Uvarint[x])
  PROVE  ReadsOrEnds(p, m, i, x)
<1>1. PICK u : u = Uvarint[x] /\ IsUvarint(u)
  BY UvarintBytes
<1>0. b \in Seq(Bytes) /\ m \in 0 .. Len(b)
  BY DEF IsCut
<1>2. p \in Seq(Bytes) /\ Len(p) = m /\ \A j \in 1 .. m : p[j] = b[j]
  BY DEF IsCut
<1>3. PICK r : r = Rest(p, i)
  OBVIOUS
<1>4. /\ r \in Seq(Bytes)
      /\ \A j \in 1 .. Len(r) : i + j \in 1 .. m /\ r[j] = b[i + j]
      /\ i <= m => Len(r) = m - i
  BY <1>0, <1>2, <1>3 DEF Rest
<1>5. ASSUME i + Len(u) <= m PROVE ReadUvarint(r) = [v |-> x, n |-> Len(u)]
  <2>1. Len(u) \in Nat /\ i <= m /\ Len(u) <= Len(r)
    BY <1>0, <1>1, <1>4, <1>5 DEF IsUvarint
  <2>2. HasAt(r, 0, u)
    BY <1>1, <1>4, <2>1 DEF HasAt
  <2> QED BY <1>1, <1>4, <2>1, <2>2, ReadFirst
<1>6. ASSUME ~(i + Len(u) <= m) PROVE Ends(r) = {}
  <2> SUFFICES ASSUME NEW j \in Ends(r) PROVE FALSE
    OBVIOUS
  <2>1. j \in 1 .. Len(r) /\ r[j] < 128
    BY DEF Ends
  <2>2. j \in 1 .. Len(u) - 1
    BY <1>0, <1>1, <1>4, <1>6, <2>1 DEF IsUvarint
  <2>3. u[j] >= 128 /\ u[j] \in Bytes
    BY <1>1, <2>2 DEF IsUvarint
  <2>4. PICK y \in Bytes : y = u[j]
    BY <2>3
  <2>5. r[j] = y
    <3>1. j \in 1 .. Len(Uvarint[x])
      BY <1>1, <2>2 DEF IsUvarint
    <3>2. b[i + j] = Uvarint[x][j]
      BY <3>1 DEF HasAt
    <3>3. r[j] = b[i + j]
      BY <1>4, <2>1
    <3> QED BY <1>1, <2>4, <3>2, <3>3, Zenon
  <2>6. y < 128 /\ y >= 128
    BY <2>1, <2>3, <2>4, <2>5
  <2> QED BY <2>6 DEF Bytes
<1> QED BY <1>1, <1>3, <1>5, <1>6 DEF ReadsOrEnds

(* Where the numbers of the header end.                                     *)
Past(b, i) == i + ReadUvarint(Rest(b, i)).n

LEMMA HeaderEndIs ==
  ASSUME NEW b
  PROVE  /\ HeaderEnd(b)[0] = 0
         /\ \A k \in 1 .. 5 : HeaderEnd(b)[k] = Past(b, HeaderEnd(b)[k - 1])
<1> DEFINE E(e) == e = [k \in 0 .. 5 |-> IF k = 0 THEN 0 ELSE Past(b, e[k - 1])]
<1>1. \E e : E(e)
  <2>1. PICK e1, e2, e3, e4, e5 :
          /\ e1 = Past(b, 0) /\ e2 = Past(b, e1) /\ e3 = Past(b, e2)
          /\ e4 = Past(b, e3) /\ e5 = Past(b, e4)
    OBVIOUS
  <2> DEFINE g == [k \in 0 .. 5 |-> IF k = 0 THEN 0 ELSE IF k = 1 THEN e1 ELSE IF k = 2 THEN e2
                                    ELSE IF k = 3 THEN e3 ELSE IF k = 4 THEN e4 ELSE e5]
  <2>2. g[0] = 0 /\ g[1] = e1 /\ g[2] = e2 /\ g[3] = e3 /\ g[4] = e4 /\ g[5] = e5
    OBVIOUS
  <2>3. \A k \in 0 .. 5 : g[k] = IF k = 0 THEN 0 ELSE Past(b, g[k - 1])
    <3> HIDE DEF g
    <3> TAKE k \in 0 .. 5
    <3>1. k = 0 \/ k = 1 \/ k = 2 \/ k = 3 \/ k = 4 \/ k = 5
      OBVIOUS
    <3>2. 1 - 1 = 0 /\ 2 - 1 = 1 /\ 3 - 1 = 2 /\ 4 - 1 = 3 /\ 5 - 1 = 4
      OBVIOUS
    <3> QED BY <2>1, <2>2, <3>1, <3>2
  <2>4. E(g)
    BY <2>3, Zenon
  <2> QED BY <2>4, Zenon
<1>2. PICK e : e = HeaderEnd(b)
  OBVIOUS
<1>3. e = CHOOSE f : E(f)
  BY <1>2, Zenon DEF HeaderEnd, Past
<1> HIDE DEF E
<1>4. E(e)
  BY <1>1, <1>3, Zenon
<1>5. \A k \in 0 .. 5 : e[k] = IF k = 0 THEN 0 ELSE Past(b, e[k - 1])
  <2> TAKE k \in 0 .. 5
  <2>1. e[k] = [j \in 0 .. 5 |-> IF j = 0 THEN 0 ELSE Past(b, e[j - 1])][k]
    BY <1>4, Zenon DEF E
  <2> QED BY <2>1, Zenon
<1>6. e[0] = 0 /\ \A k \in 1 .. 5 : e[k] = Past(b, e[k - 1])
  BY <1>5
<1> QED BY <1>2, <1>6, Zenon

(* The numbers xs stand in b one after the other and end at e.              *)
Header(b, xs, e) ==
  /\ xs \in [1 .. 5 -> Nat] /\ e \in [0 .. 5 -> 0 .. Len(b)]
  /\ e[0] = 0
  /\ \A k \in 1 .. 5 : e[k] = e[k - 1] + Len(Uvarint[xs[k]]) /\ HasAt(b, e[k - 1], Uvarint[xs[k]])

(* In the first m bytes of b, the number after e is found, or it is cut.    *)
FieldOrEnds(p, m, xs, e, k) ==
  /\ e[k] <= m => /\ ReadUvarint(Rest(p, e[k - 1])) = [v |-> xs[k], n |-> e[k] - e[k - 1]]
                  /\ Past(p, e[k - 1]) = e[k]
  /\ ~(e[k] <= m) => Ends(Rest(p, e[k - 1])) = {}

LEMMA HeaderNumber ==
  ASSUME NEW b, NEW m, NEW p, IsCut(b, m, p),
         NEW xs, NEW e, Header(b, xs, e), NEW k \in 1 .. 5
  PROVE  FieldOrEnds(p, m, xs, e, k)
<1>1. PICK x \in Nat : x = xs[k]
  BY DEF Header
<1>2. PICK i \in 0 .. Len(b) : i = e[k - 1]
  BY DEF Header
<1>3. PICK l \in Nat : l = Len(Uvarint[x])
  BY UvarintBytes DEF IsUvarint
<1>4. e[k] = i + l /\ HasAt(b, i, Uvarint[x])
  BY <1>1, <1>2, <1>3, Zenon DEF Header
<1>5. /\ i + l <= m => ReadUvarint(Rest(p, i)) = [v |-> x, n |-> l]
      /\ ~(i + l <= m) => Ends(Rest(p, i)) = {}
  <2>1. HasAt(b, i, Uvarint[x])
    BY <1>4
  <2>2. ReadsOrEnds(p, m, i, x)
    BY <2>1, ReadAt, Zenon
  <2> QED BY <1>3, <2>2, Zenon DEF ReadsOrEnds
<1>6. (i + l) - i = l
  OBVIOUS
<1>7. i + l <= m => Past(p, i) = i + l
  BY <1>5 DEF Past
<1> QED BY <1>1, <1>2, <1>4, <1>5, <1>6, <1>7, Zenon DEF FieldOrEnds

(* With the whole header, the five numbers are those of b.                  *)
LEMMA HeaderWhole ==
  ASSUME NEW b, NEW m, NEW p, IsCut(b, m, p),
         NEW xs, NEW e, Header(b, xs, e), e[5] <= m
  PROVE  /\ HeaderEnd(p)[5] = e[5]
         /\ \A k \in 1 .. 5 : HeaderField(p, k) = [v |-> xs[k], n |-> e[k] - e[k - 1]]
<1>0. m \in Nat
  BY DEF IsCut
<1>1. \A k \in 1 .. 5 : e[k] \in Nat /\ e[k - 1] \in Nat /\ e[k - 1] <= e[k]
  <2> TAKE k \in 1 .. 5
  <2>1. k \in 0 .. 5 /\ k - 1 \in 0 .. 5
    OBVIOUS
  <2>2. xs[k] \in Nat /\ e[k] = e[k - 1] + Len(Uvarint[xs[k]])
    BY <2>1, Zenon DEF Header
  <2>4. e[k] \in Nat /\ e[k - 1] \in Nat
    <3>1. e[k] \in 0 .. Len(b) /\ e[k - 1] \in 0 .. Len(b)
      BY <2>1, Zenon DEF Header
    <3> QED BY <3>1
  <2>3. Len(Uvarint[xs[k]]) \in Nat
    BY <2>2, UvarintBytes DEF IsUvarint
  <2> QED BY <2>2, <2>3, <2>4
<1>2. \A k \in 1 .. 5 : e[k] <= m
  <2>1. e[4] <= e[5] /\ e[3] <= e[4] /\ e[2] <= e[3] /\ e[1] <= e[2]
    BY <1>1
  <2>2. e[1] \in Nat /\ e[2] \in Nat /\ e[3] \in Nat /\ e[4] \in Nat /\ e[5] \in Nat /\ e[5] <= m
    BY <1>1
  <2>3. e[4] <= m /\ e[3] <= m /\ e[2] <= m /\ e[1] <= m
    BY <1>0, <2>1, <2>2
  <2> TAKE k \in 1 .. 5
  <2>4. k = 1 \/ k = 2 \/ k = 3 \/ k = 4 \/ k = 5
    OBVIOUS
  <2> QED BY <2>2, <2>3, <2>4
<1>3. PICK h : h = HeaderEnd(p)
  OBVIOUS
<1>4. h[0] = 0 /\ \A k \in 1 .. 5 : h[k] = Past(p, h[k - 1])
  BY <1>3, HeaderEndIs
<1>5. \A k \in 1 .. 5 : h[k - 1] = e[k - 1] => h[k] = e[k]
  <2> TAKE k \in 1 .. 5
  <2>1. FieldOrEnds(p, m, xs, e, k)
    BY HeaderNumber, Zenon
  <2> QED BY <1>2, <1>4, <2>1, Zenon DEF FieldOrEnds
<1>6. \A k \in 0 .. 5 : h[k] = e[k]
  <2>1. h[0] = e[0]
    BY <1>4 DEF Header
  <2>2. h[1] = e[1]
    BY <1>5, <2>1
  <2>3. h[2] = e[2]
    BY <1>5, <2>2
  <2>4. h[3] = e[3]
    BY <1>5, <2>3
  <2>5. h[4] = e[4]
    BY <1>5, <2>4
  <2>6. h[5] = e[5]
    BY <1>5, <2>5
  <2> TAKE k \in 0 .. 5
  <2>7. k = 0 \/ k = 1 \/ k = 2 \/ k = 3 \/ k = 4 \/ k = 5
    OBVIOUS
  <2> QED BY <2>1, <2>2, <2>3, <2>4, <2>5, <2>6, <2>7
<1>7. ASSUME NEW k \in 1 .. 5
      PROVE  HeaderField(p, k) = [v |-> xs[k], n |-> e[k] - e[k - 1]]
  <2>1. h[k - 1] = e[k - 1]
    BY <1>6
  <2>2. ReadUvarint(Rest(p, e[k - 1])) = [v |-> xs[k], n |-> e[k] - e[k - 1]]
    <3>1. FieldOrEnds(p, m, xs, e, k)
      BY HeaderNumber, Zenon
    <3> QED BY <1>2, <3>1, Zenon DEF FieldOrEnds
  <2> QED BY <1>3, <2>1, <2>2, Zenon DEF HeaderField
<1> QED BY <1>3, <1>6, <1>7

(* When the header is cut, its last number is not read.                     *)
LEMMA HeaderCut ==
  ASSUME NEW b, NEW m, NEW p, IsCut(b, m, p),
         NEW xs, NEW e, Header(b, xs, e), m < e[5]
  PROVE  HeaderField(p, 5).n = 0
<1>0. m \in Nat
  BY DEF IsCut
<1>1. PICK h : h = HeaderEnd(p)
  OBVIOUS
<1>2. h[0] = 0 /\ \A k \in 1 .. 5 : h[k] = Past(p, h[k - 1])
  BY <1>1, HeaderEndIs
<1> DEFINE Lost(i) == Ends(Rest(p, i)) = {}
<1>3. \A i \in 0 .. Len(b) : Lost(i) => Past(p, i) = i /\ ReadUvarint(Rest(p, i)).n = 0
  BY ReadNothing DEF Past
<1>4. \A k \in 0 .. 5 : e[k] \in 0 .. Len(b)
  BY DEF Header
<1> DEFINE Found(k) == h[k] = e[k] /\ e[k] <= m
           Gone(k) == Lost(h[k]) /\ h[k] \in 0 .. Len(b)
<1>5. Found(0)
  <2>1. e[0] = 0
    BY DEF Header
  <2> QED BY <1>0, <1>2, <2>1
<1>6. ASSUME NEW k \in 1 .. 5, Found(k - 1) PROVE Found(k) \/ (Gone(k - 1) /\ ~(e[k] <= m))
  <2>1. e[k - 1] \in 0 .. Len(b)
    BY <1>4
  <2>0. FieldOrEnds(p, m, xs, e, k)
    BY HeaderNumber, Zenon
  <2>2. e[k] <= m => Past(p, e[k - 1]) = e[k]
    BY <2>0, Zenon DEF FieldOrEnds
  <2>3. ~(e[k] <= m) => Lost(e[k - 1])
    BY <2>0, Zenon DEF FieldOrEnds
  <2>4. h[k - 1] = e[k - 1]
    BY <1>6
  <2>5. h[k] = Past(p, h[k - 1])
    BY <1>2
  <2> QED BY <2>1, <2>2, <2>3, <2>4, <2>5, Zenon
<1>7. ASSUME NEW k \in 1 .. 5, Gone(k - 1) PROVE Gone(k)
  <2>1. h[k] = Past(p, h[k - 1])
    BY <1>2
  <2>2. PICK i \in 0 .. Len(b) : i = h[k - 1] /\ Lost(i)
    BY <1>7
  <2> HIDE DEF Lost
  <2> QED BY <1>3, <2>1, <2>2
<1>8. Found(4) \/ Gone(4)
  <2> HIDE DEF Found, Gone
  <2>1. Found(1) \/ Gone(1)
    BY <1>5, <1>6, <1>7
  <2>2. Found(2) \/ Gone(2)
    BY <2>1, <1>6, <1>7
  <2>3. Found(3) \/ Gone(3)
    BY <2>2, <1>6, <1>7
  <2> QED BY <2>3, <1>6, <1>7
<1>9. Gone(4)
  <2> SUFFICES ASSUME Found(4) PROVE Gone(4)
    BY <1>8
  <2>1. ~Found(5)
    <3>1. e[5] \in Nat /\ m < e[5]
      BY <1>4
    <3> QED BY <1>0, <3>1
  <2> HIDE DEF Found, Gone
  <2> QED BY <2>1, <1>6
<1>10. HeaderField(p, 5) = ReadUvarint(Rest(p, h[4]))
  <2>1. 5 - 1 = 4
    OBVIOUS
  <2> QED BY <1>1, <2>1, Zenon DEF HeaderField
<1> QED BY <1>3, <1>9, <1>10

(* u stands in b after its first k bytes.                                   *)
Holds(b, k, u) == k \in Nat /\ k + Len(u) <= Len(b) /\ HasAt(b, k, u)

(* Appending bytes leaves those before where they are.                      *)
LEMMA HoldsCat ==
  ASSUME NEW S, NEW s \in Seq(S), NEW t \in Seq(S)
  PROVE  /\ s \o t \in Seq(S) /\ Len(s \o t) = Len(s) + Len(t)
         /\ Holds(s \o t, Len(s), t)
         /\ \A k : \A u \in Seq(S) : Holds(s, k, u) => Holds(s \o t, k, u)
<1>1. PICK w : w = s \o t
  OBVIOUS
<1>2. /\ w \in Seq(S) /\ Len(w) = Len(s) + Len(t) /\ Len(s) \in Nat /\ Len(t) \in Nat
      /\ \A k \in 1 .. Len(s) : w[k] = s[k]
      /\ \A k \in 1 .. Len(t) : w[Len(s) + k] = t[k]
  BY <1>1, CatIndex
<1>3. Holds(w, Len(s), t)
  BY <1>2 DEF Holds, HasAt
<1>4. ASSUME NEW k, NEW u \in Seq(S), Holds(s, k, u) PROVE Holds(w, k, u)
  <2>1. k \in Nat /\ Len(u) \in Nat /\ k + Len(u) <= Len(s)
    BY <1>4 DEF Holds
  <2>2. \A i \in 1 .. Len(u) : k + i \in 1 .. Len(s) /\ s[k + i] = u[i]
    BY <1>4, <2>1 DEF Holds, HasAt
  <2> QED BY <1>2, <2>1, <2>2 DEF Holds, HasAt
<1> QED BY <1>1, <1>2, <1>3, <1>4

(* The bytes that EncodeRaw makes: the header ends at e[5], salt and hash   *)
(* follow.                                                                  *)
Numbers(c, l, n) == [k \in 1 .. 5 |-> IF k = 1 THEN c.N ELSE IF k = 2 THEN c.R
                                      ELSE IF k = 3 THEN c.P ELSE IF k = 4 THEN l ELSE n]

RawLaid(b, c, salt, hash, e) ==
  /\ b \in Seq(Bytes)
  /\ Header(b, Numbers(c, Len(salt), Len(hash)), e)
  /\ Len(b) = e[5] + Len(salt) + Len(hash)
  /\ HasAt(b, e[5], salt) /\ HasAt(b, e[5] + Len(salt), hash)

LEMMA RawIsLaid ==
  ASSUME NEW c \in Configs, NEW salt \in Seq(Bytes), NEW hash \in Seq(Bytes)
  PROVE  \E e : RawLaid(EncodeRaw(c, salt, hash), c, salt, hash, e)
<1>1. PICK xs : xs = Numbers(c, Len(salt), Len(hash))
  OBVIOUS
<1>2. /\ xs \in [1 .. 5 -> Nat]
      /\ xs[1] = c.N /\ xs[2] = c.R /\ xs[3] = c.P /\ xs[4] = Len(salt) /\ xs[5] = Len(hash)
  BY <1>1 DEF Numbers, Configs, Number
<1>3. PICK u1, u2, u3, u4, u5 :
        /\ u1 = Uvarint[c.N] /\ u2 = Uvarint[c.R] /\ u3 = Uvarint[c.P]
        /\ u4 = Uvarint[Len(salt)] /\ u5 = Uvarint[Len(hash)]
  OBVIOUS
<1>4. u1 \in Seq(Bytes) /\ u2 \in Seq(Bytes) /\ u3 \in Seq(Bytes) /\ u4 \in Seq(Bytes) /\ u5 \in Seq(Bytes)
  <2>1. c.N \in Nat /\ c.R \in Nat /\ c.P \in Nat /\ Len(salt) \in Nat /\ Len(hash) \in Nat
    BY DEF Configs, Number
  <2> QED BY <1>3, <2>1, UvarintBytes DEF IsUvarint
<1>5. PICK b2 : b2 = u1 \o u2
  OBVIOUS
<1>6. PICK b3 : b3 = b2 \o u3
  OBVIOUS
<1>7. PICK b4 : b4 = b3 \o u4
  OBVIOUS
<1>8. PICK b5 : b5 = b4 \o u5
  OBVIOUS
<1>9. PICK b6 : b6 = b5 \o salt
  OBVIOUS
<1>10. PICK b : b = b6 \o hash
  OBVIOUS
<1>11. b = EncodeRaw(c, salt, hash)
  BY <1>3, <1>5, <1>6, <1>7, <1>8, <1>9, <1>10, Zenon DEF EncodeRaw
<1> DEFINE Grown(s, t, w) == /\ w \in Seq(Bytes) /\ Len(w) = Len(s) + Len(t) /\ Holds(w, Len(s), t)
                             /\ \A k : \A u \in Seq(Bytes) : Holds(s, k, u) => Holds(w, k, u)
<1>12. \A s, t \in Seq(Bytes) : Grown(s, t, s \o t)
  BY HoldsCat
<1>13. Holds(u1, 0, u1)
  <2>1. \A i \in 1 .. Len(u1) : 0 + i = i
    BY <1>4
  <2>2. 0 + Len(u1) <= Len(u1)
    BY <1>4
  <2> QED BY <2>1, <2>2 DEF Holds, HasAt
<1> HIDE DEF Grown
<1>14. Grown(u1, u2, b2)
  BY <1>4, <1>5, <1>12
<1>15. Grown(b2, u3, b3)
  <2>1. b2 \in Seq(Bytes)
    BY <1>14 DEF Grown
  <2> QED BY <1>4, <1>6, <1>12, <2>1
<1>16. Grown(b3, u4, b4)
  <2>1. b3 \in Seq(Bytes)
    BY <1>15 DEF Grown
  <2> QED BY <1>4, <1>7, <1>12, <2>1
<1>17. Grown(b4, u5, b5)
  <2>1. b4 \in Seq(Bytes)
    BY <1>16 DEF Grown
  <2> QED BY <1>4, <1>8, <1>12, <2>1
<1>18. Grown(b5, salt, b6)
  <2>1. b5 \in Seq(Bytes)
    BY <1>17 DEF Grown
  <2> QED BY <1>9, <1>12, <2>1
<1>19. Grown(b6, hash, b)
  <2>1. b6 \in Seq(Bytes)
    BY <1>18 DEF Grown
  <2> QED BY <1>10, <1>12, <2>1
<1>20. /\ Holds(b, 0, u1) /\ Holds(b, Len(u1), u2) /\ Holds(b, Len(b2), u3) /\ Holds(b, Len(b3), u4)
       /\ Holds(b, Len(b4), u5) /\ Holds(b, Len(b5), salt) /\ Holds(b, Len(b6), hash)
  BY <1>4, <1>13, <1>14, <1>15, <1>16, <1>17, <1>18, <1>19, Zenon DEF Grown
<1>21. /\ Len(b2) = Len(u1) + Len(u2) /\ Len(b3) = Len(b2) + Len(u3) /\ Len(b4) = Len(b3) + Len(u4)
       /\ Len(b5) = Len(b4) + Len(u5) /\ Len(b6) = Len(b5) + Len(salt) /\ Len(b) = Len(b6) + Len(hash)
       /\ b \in Seq(Bytes)
  BY <1>14, <1>15, <1>16, <1>17, <1>18, <1>19, Zenon DEF Grown
<1>22. PICK n1 \in Nat, n2 \in Nat, n3 \in Nat, n4 \in Nat, n5 \in Nat :
         n1 = Len(u1) /\ n2 = Len(b2) /\ n3 = Len(b3) /\ n4 = Len(b4) /\ n5 = Len(b5)
  <2>1. Len(u1) \in Nat /\ Len(b2) \in Nat /\ Len(b3) \in Nat /\ Len(b4) \in Nat /\ Len(b5) \in Nat
    BY <1>20, Zenon DEF Holds
  <2> QED BY <2>1, Zenon
<1> DEFINE e == [k \in 0 .. 5 |-> IF k = 0 THEN 0 ELSE IF k = 1 THEN n1 ELSE IF k = 2 THEN n2
                                  ELSE IF k = 3 THEN n3 ELSE IF k = 4 THEN n4 ELSE n5]
<1>23. e[0] = 0 /\ e[1] = n1 /\ e[2] = n2 /\ e[3] = n3 /\ e[4] = n4 /\ e[5] = n5
  OBVIOUS
<1>24. e \in [0 .. 5 -> 0 .. Len(b)]
  <2>1. Len(u2) \in Nat /\ Len(u3) \in Nat /\ Len(u4) \in Nat /\ Len(u5) \in Nat /\ Len(salt) \in Nat /\ Len(hash) \in Nat
    BY <1>4
  <2>2. n1 <= n2 /\ n2 <= n3 /\ n3 <= n4 /\ n4 <= n5 /\ n5 <= Len(b) /\ Len(b) \in Nat
    <3>1. \A k, l, n \in Nat : n = k + l => k <= n
      OBVIOUS
    <3>2. n1 <= n2
      BY <1>21, <1>22, <2>1, <3>1, Zenon
    <3>3. n2 <= n3
      BY <1>21, <1>22, <2>1, <3>1, Zenon
    <3>4. n3 <= n4
      BY <1>21, <1>22, <2>1, <3>1, Zenon
    <3>5. n4 <= n5
      BY <1>21, <1>22, <2>1, <3>1, Zenon
    <3>6. PICK l, n \in Nat : l = Len(salt) /\ n = Len(hash)
      BY <2>1, Zenon
    <3>7. Len(b) = (n5 + l) + n
      BY <1>21, <1>22, <3>6, Zenon
    <3> QED BY <3>2, <3>3, <3>4, <3>5, <3>7
  <2>3. n1 \in 0 .. Len(b) /\ n2 \in 0 .. Len(b) /\ n3 \in 0 .. Len(b) /\ n4 \in 0 .. Len(b)
        /\ n5 \in 0 .. Len(b) /\ 0 \in 0 .. Len(b)
    BY <2>2
  <2> QED BY <2>3
<1> HIDE DEF e
<1>25. \A k \in 1 .. 5 : e[k] = e[k - 1] + Len(Uvarint[xs[k]]) /\ HasAt(b, e[k - 1], Uvarint[xs[k]])
  <2> DEFINE Next5(i, j, x) == j = i + Len(Uvarint[x]) /\ HasAt(b, i, Uvarint[x])
  <2>1. 0 + Len(u1) = n1
    BY <1>22
  <2>2. Next5(0, n1, xs[1]) /\ Next5(n1, n2, xs[2]) /\ Next5(n2, n3, xs[3])
        /\ Next5(n3, n4, xs[4]) /\ Next5(n4, n5, xs[5])
    BY <1>2, <1>3, <1>20, <1>21, <1>22, <2>1, Zenon DEF Holds
  <2> HIDE DEF Next5
  <2>3. \A k \in 1 .. 5 : Next5(e[k - 1], e[k], xs[k])
    <3> TAKE k \in 1 .. 5
    <3>1. k = 1 \/ k = 2 \/ k = 3 \/ k = 4 \/ k = 5
      OBVIOUS
    <3>2. 1 - 1 = 0 /\ 2 - 1 = 1 /\ 3 - 1 = 2 /\ 4 - 1 = 3 /\ 5 - 1 = 4
      OBVIOUS
    <3> QED BY <1>23, <2>2, <3>1, <3>2
  <2> QED BY <2>3, Zenon DEF Next5
<1>26. Header(b, xs, e)
  BY <1>2, <1>23, <1>24, <1>25, Zenon DEF Header
<1>27. RawLaid(b, c, salt, hash, e)
  BY <1>1, <1>20, <1>21, <1>22, <1>23, <1>26, Zenon DEF RawLaid, Holds
<1> QED BY <1>11, <1>27, Zenon

(* The numbers of the header by their place.                                *)
LEMMA NumbersAre ==
  \A c, l, n : /\ Numbers(c, l, n)[1] = c.N /\ Numbers(c, l, n)[2] = c.R /\ Numbers(c, l, n)[3] = c.P
               /\ Numbers(c, l, n)[4] = l /\ Numbers(c, l, n)[5] = n
BY DEF Numbers

(* The same, in numbers.                                                    *)
LEMMA RawLaidTypes ==
  ASSUME NEW c, NEW salt \in Seq(Bytes), NEW hash \in Seq(Bytes), NEW b, NEW e,
         RawLaid(b, c, salt, hash, e)
  PROVE  \E k, l, n \in Nat :
           /\ k = e[5] /\ l = Len(salt) /\ n = Len(hash)
           /\ b \in Seq(Bytes) /\ Len(b) = (k + l) + n
           /\ HasAt(b, k, salt) /\ HasAt(b, k + l, hash)
<1>1. PICK xs : Header(b, xs, e)
  BY DEF RawLaid
<1>2. e[5] \in 0 .. Len(b)
  BY <1>1 DEF Header
<1>3. PICK k \in Nat : k = e[5]
  BY <1>2
<1>4. PICK l \in Nat, n \in Nat : l = Len(salt) /\ n = Len(hash)
  OBVIOUS
<1>5. b \in Seq(Bytes) /\ Len(b) = (k + l) + n /\ HasAt(b, k, salt) /\ HasAt(b, k + l, hash)
  BY <1>3, <1>4, Zenon DEF RawLaid
<1> QED BY <1>3, <1>4, <1>5, Zenon

(* With the whole header, DecodeRaw knows the lengths of salt and hash.     *)
LEMMA DecodedHeader ==
  ASSUME NEW c, NEW salt \in Seq(Bytes), NEW hash \in Seq(Bytes), NEW b, NEW e,
         RawLaid(b, c, salt, hash, e), NEW m, NEW p, IsCut(b, m, p), e[5] <= m
  PROVE  /\ HeaderEnd(p)[5] = e[5] /\ HeaderField(p, 5).n > 0 /\ e[5] > 0
         /\ HeaderConfig(p) = [N |-> c.N, R |-> c.R, P |-> c.P,
                               SaltLen |-> Len(salt), HashLen |-> Len(hash)]
<1>1. PICK xs : xs = Numbers(c, Len(salt), Len(hash)) /\ Header(b, xs, e)
  BY DEF RawLaid
<1>2. xs[1] = c.N /\ xs[2] = c.R /\ xs[3] = c.P /\ xs[4] = Len(salt) /\ xs[5] = Len(hash)
  <2>1. PICK l, n : l = Len(salt) /\ n = Len(hash)
    OBVIOUS
  <2>2. xs = Numbers(c, l, n)
    BY <1>1, <2>1, Zenon
  <2> QED BY <2>1, <2>2, NumbersAre
<1>3. /\ HeaderEnd(p)[5] = e[5]
      /\ \A k \in 1 .. 5 : HeaderField(p, k) = [v |-> xs[k], n |-> e[k] - e[k - 1]]
  <2>1. Header(b, xs, e)
    BY <1>1
  <2> QED BY <2>1, HeaderWhole
<1>4. \A k \in 1 .. 5 : HeaderField(p, k).v = xs[k] /\ HeaderField(p, k).n = e[k] - e[k - 1]
  BY <1>3
<1>5. 1 \in 1 .. 5 /\ 2 \in 1 .. 5 /\ 3 \in 1 .. 5 /\ 4 \in 1 .. 5 /\ 5 \in 1 .. 5
  OBVIOUS
<1>6. HeaderConfig(p) = [N |-> c.N, R |-> c.R, P |-> c.P,
                         SaltLen |-> Len(salt), HashLen |-> Len(hash)]
  BY <1>2, <1>4, <1>5, Zenon DEF HeaderConfig
<1>7. HeaderField(p, 5).n > 0 /\ e[5] > 0
  <2>1. PICK x \in Nat : x = xs[5]
    BY <1>1, <1>5, Zenon DEF Header
  <2>2. Len(Uvarint[x]) \in Nat /\ Len(Uvarint[x]) > 0
    BY UvarintBytes DEF IsUvarint
  <2>3. PICK i \in Nat : i = e[4]
    BY <1>1 DEF Header
  <2>4. 5 - 1 = 4
    OBVIOUS
  <2>5. e[5] = i + Len(Uvarint[x])
    BY <1>1, <1>5, <2>1, <2>3, <2>4, Zenon DEF Header
  <2>6. HeaderField(p, 5).n = e[5] - i
    BY <1>4, <1>5, <2>3, <2>4
  <2>7. e[5] > 0
    BY <2>2, <2>5
  <2> QED BY <2>2, <2>5, <2>6, <2>7
<1> QED BY <1>3, <1>6, <1>7

(* DecodeRaw undoes EncodeRaw.                                              *)
LEMMA RawDecodes ==
  ASSUME NEW c \in Configs, NEW salt \in Seq(Bytes), NEW hash \in Seq(Bytes),
         Len(salt) = c.SaltLen, Len(hash) = c.HashLen
  PROVE  /\ EncodeRaw(c, salt, hash) \in Seq(Bytes) /\ Len(EncodeRaw(c, salt, hash)) > 0
         /\ DecodeRaw(EncodeRaw(c, salt, hash)) = Decoded("nil", c, salt, hash)
<1>1. PICK b : b = EncodeRaw(c, salt, hash)
  OBVIOUS
<1>2. PICK e : RawLaid(b, c, salt, hash, e)
  BY <1>1, RawIsLaid
<1>3. PICK k, l, n \in Nat :
        /\ k = e[5] /\ l = Len(salt) /\ n = Len(hash)
        /\ b \in Seq(Bytes) /\ Len(b) = (k + l) + n
        /\ HasAt(b, k, salt) /\ HasAt(b, k + l, hash)
  BY <1>2, RawLaidTypes
<1>4. IsCut(b, Len(b), b) /\ k <= Len(b)
  BY <1>3 DEF IsCut
<1>5. /\ HeaderEnd(b)[5] = k /\ HeaderField(b, 5).n > 0 /\ k > 0
      /\ HeaderConfig(b) = [N |-> c.N, R |-> c.R, P |-> c.P, SaltLen |-> l, HashLen |-> n]
  <2>1. IsCut(b, Len(b), b) /\ e[5] <= Len(b) /\ RawLaid(b, c, salt, hash, e)
    BY <1>2, <1>3, <1>4
  <2> QED BY <1>3, <2>1, DecodedHeader
<1>6. HeaderConfig(b) = c /\ c.SaltLen = l /\ c.HashLen = n
  BY <1>3, <1>5 DEF Configs
<1>7. PICK w : w = Rest(b, k)
  OBVIOUS
<1>8. /\ w \in Seq(Bytes) /\ Len(w) = l + n
      /\ \A i \in 1 .. l + n : w[i] = b[k + i]
  <2>1. k \in 0 .. Len(b) /\ Len(b) - k = l + n
    BY <1>3
  <2>2. b \in Seq(Bytes)
    BY <1>3
  <2>3. /\ SubSeq(b, k + 1, Len(b)) \in Seq(Bytes) /\ Len(SubSeq(b, k + 1, Len(b))) = Len(b) - k
        /\ \A i \in 1 .. Len(b) - k : SubSeq(b, k + 1, Len(b))[i] = b[k + i]
    BY <2>1, <2>2, DropIs, Zenon
  <2> QED BY <1>7, <2>1, <2>3, Zenon DEF Rest
<1>9. SubSeq(w, 1, l) = salt
  <2>1. \A i \in 1 .. l : w[0 + i] = salt[i]
    <3> TAKE i \in 1 .. l
    <3>1. i \in 1 .. l + n /\ 0 + i = i
      OBVIOUS
    <3>2. b[k + i] = salt[i]
      BY <1>3, Zenon DEF HasAt
    <3> QED BY <1>8, <3>1, <3>2
  <2>2. 0 + l <= l + n /\ 0 + 1 = 1 /\ 0 + l = l /\ 0 \in Nat
    OBVIOUS
  <2>3. SubSeq(w, 0 + 1, 0 + Len(salt)) = salt
    BY <1>3, <1>8, <2>1, <2>2, CutIs
  <2> QED BY <1>3, <2>2, <2>3, Zenon
<1>10. SubSeq(w, l + 1, l + n) = hash
  <2>1. \A i \in 1 .. n : w[l + i] = hash[i]
    <3> TAKE i \in 1 .. n
    <3>1. l + i \in 1 .. l + n /\ k + (l + i) = (k + l) + i
      OBVIOUS
    <3>2. b[(k + l) + i] = hash[i]
      BY <1>3, Zenon DEF HasAt
    <3> QED BY <1>8, <3>1, <3>2
  <2>2. l + n <= Len(w) /\ n = Len(hash) /\ w \in Seq(Bytes)
    BY <1>3, <1>8
  <2> QED BY <2>1, <2>2, CutIs, Zenon
<1>11. ~(l + n > Len(w)) /\ ~(HeaderField(b, 5).n = 0)
  BY <1>5, <1>8
<1>12. DecodeRaw(b) = Decoded("nil", c, SubSeq(w, 1, l), SubSeq(w, l + 1, l + n))
  BY <1>5, <1>6, <1>7, <1>11, Zenon DEF DecodeRaw
<1>13. Len(b) > 0
  BY <1>3, <1>5
<1> QED BY <1>1, <1>3, <1>9, <1>10, <1>12, <1>13, Zenon

(* Fewer bytes than EncodeRaw made are not decoded.                         *)
LEMMA CutRawFails ==
  ASSUME NEW c \in Configs, NEW salt \in Seq(Bytes), NEW hash \in Seq(Bytes),
         NEW m \in Nat, m < Len(EncodeRaw(c, salt, hash))
  PROVE  DecodeRaw(SubSeq(EncodeRaw(c, salt, hash), 1, m)).err # "nil"
<1>1. PICK b : b = EncodeRaw(c, salt, hash)
  OBVIOUS
<1>2. PICK e : RawLaid(b, c, salt, hash, e)
  BY <1>1, RawIsLaid
<1>3. PICK k, l, n \in Nat :
        k = e[5] /\ l = Len(salt) /\ n = Len(hash) /\ b \in Seq(Bytes) /\ Len(b) = (k + l) + n
  BY <1>2, RawLaidTypes
<1>4. PICK p : p = SubSeq(b, 1, m)
  OBVIOUS
<1>5. IsCut(b, m, p) /\ p \in Seq(Bytes) /\ Len(p) = m
  BY <1>1, <1>3, <1>4 DEF IsCut
<1>6. CASE m < e[5]
  <2>1. HeaderField(p, 5).n = 0
    <3>1. IsCut(b, m, p) /\ Header(b, Numbers(c, Len(salt), Len(hash)), e)
      BY <1>2, <1>5 DEF RawLaid
    <3> QED BY <1>6, <3>1, HeaderCut
  <2>2. DecodeRaw(p) = Failed("panic") \/ \E x, y, z : DecodeRaw(p) = Decoded("invalid", x, y, z)
    BY <2>1, Zenon DEF DecodeRaw
  <2>3. DecodeRaw(p).err \in {"panic", "invalid"}
    BY <2>2 DEF Failed, Decoded
  <2> QED BY <1>1, <1>4, <2>3
<1>7. CASE ~(m < e[5])
  <2>1. /\ HeaderEnd(p)[5] = e[5]
        /\ HeaderConfig(p) = [N |-> c.N, R |-> c.R, P |-> c.P,
                              SaltLen |-> Len(salt), HashLen |-> Len(hash)]
    <3>1. IsCut(b, m, p) /\ e[5] <= m /\ RawLaid(b, c, salt, hash, e)
      BY <1>2, <1>3, <1>5, <1>7
    <3> QED BY <3>1, DecodedHeader
  <2>2. Len(Rest(p, e[5])) = m - e[5]
    <3>1. k \in 0 .. Len(p) /\ p \in Seq(Bytes)
      BY <1>3, <1>5, <1>7
    <3>2. Len(SubSeq(p, k + 1, Len(p))) = Len(p) - k
      BY <3>1, DropIs, Zenon
    <3> QED BY <1>3, <1>5, <3>2, Zenon DEF Rest
  <2>3. HeaderConfig(p).SaltLen + HeaderConfig(p).HashLen > Len(Rest(p, e[5]))
    BY <1>1, <1>3, <1>7, <2>1, <2>2
  <2>4. DecodeRaw(p) = Failed("panic")
    BY <2>1, <2>3, Zenon DEF DecodeRaw
  <2>5. DecodeRaw(p).err = "panic"
    BY <2>4 DEF Failed, Decoded
  <2> QED BY <1>1, <1>4, <2>5
<1> QED BY <1>6, <1>7

-----------------------------------------------------------------------------
(* Base-64, character by character.                                         *)
LEMMA Powers == 2 ^ 10 = 1024 /\ 2 ^ 8 = 256 /\ 2 ^ 6 = 64 /\ 2 ^ 4 = 16 /\ 2 ^ 2 = 4 /\ 2 ^ 0 = 1
OBVIOUS

(* The four characters made of three bytes, the byte next to each other.    *)
First6(a)     == a \div 4
Second6(a, x) == 16 * (a % 4) + x \div 16
Third6(a, x)  == 4 * (a % 16) + x \div 64
Fourth6(a)    == a % 64

(* The six bits that a character takes of two bytes.                        *)
LEMMA TwoBytes ==
  ASSUME NEW a \in Bytes, NEW x \in Bytes
  PROVE  /\ ((a * 256 + x) \div 1024) % 64 = First6(a)
         /\ ((a * 256 + x) \div 16) % 64 = Second6(a, x)
         /\ ((a * 256 + x) \div 64) % 64 = Third6(a, x)
         /\ ((a * 256 + x) \div 256) % 64 = Fourth6(a)
<1>1. ((a * 256 + x) \div 1024) % 64 = First6(a)
  BY DEF Bytes, First6
<1>2. ((a * 256 + x) \div 16) % 64 = Second6(a, x)
  BY DEF Bytes, Second6
<1>3. ((a * 256 + x) \div 64) % 64 = Third6(a, x)
  BY DEF Bytes, Third6
<1>4. ((a * 256 + x) \div 256) % 64 = Fourth6(a)
  BY DEF Bytes, Fourth6
<1> QED BY <1>1, <1>2, <1>3, <1>4

(* They are below 64.                                                       *)
LEMMA SixBits ==
  ASSUME NEW a \in Bytes, NEW x \in Bytes
  PROVE  /\ First6(a) \in 0 .. 63 /\ Second6(a, x) \in 0 .. 63
         /\ Third6(a, x) \in 0 .. 63 /\ Fourth6(a) \in 0 .. 63
BY DEF Bytes, First6, Second6, Third6, Fourth6

(* Two characters next to each other have the byte they were made from.     *)
LEMMA EightBits ==
  ASSUME NEW a \in Bytes, NEW c \in Bytes, NEW x \in Bytes
  PROVE  /\ ((First6(c) * 64 + Second6(c, x)) \div 16) % 256 = c
         /\ ((Second6(a, c) * 64 + Third6(c, x)) \div 4) % 256 = c
         /\ ((Third6(a, c) * 64 + Fourth6(c)) \div 1) % 256 = c
<1>1. ((First6(c) * 64 + Second6(c, x)) \div 16) % 256 = c
  BY DEF Bytes, First6, Second6
<1>2. ((Second6(a, c) * 64 + Third6(c, x)) \div 4) % 256 = c
  BY DEF Bytes, Second6, Third6
<1>3. ((Third6(a, c) * 64 + Fourth6(c)) \div 1) % 256 = c
  BY DEF Bytes, Third6, Fourth6
<1> QED BY <1>1, <1>2, <1>3

(* The byte after the k-th, 0 after the last.                               *)
Follow(b, k) == IF k < Len(b) THEN b[k + 1] ELSE 0

(* The next byte is one.                                                    *)
LEMMA FollowByte ==
  ASSUME NEW b \in Seq(Bytes), NEW k \in 1 .. Len(b)
  PROVE  Follow(b, k) \in Bytes /\ b[k] \in Bytes /\ (k + 1 \in 1 .. Len(b) => Follow(b, k) = b[k + 1])
<1>1. b[k] \in Bytes
  OBVIOUS
<1>2. k < Len(b) => k + 1 \in 1 .. Len(b) /\ b[k + 1] \in Bytes /\ Follow(b, k) = b[k + 1]
  BY DEF Follow
<1>3. ~(k < Len(b)) => Follow(b, k) = 0 /\ k + 1 \notin 1 .. Len(b) /\ 0 \in Bytes
  BY DEF Follow, Bytes
<1> QED BY <1>1, <1>2, <1>3

(* Which bits of which byte a character has.                                *)
LEMMA SextetIs ==
  ASSUME NEW b, NEW q \in Nat
  PROVE  /\ Sextet(b, 4 * q + 1) = ((b[3 * q + 1] * 256 + Follow(b, 3 * q + 1)) \div 1024) % 64
         /\ Sextet(b, 4 * q + 2) = ((b[3 * q + 1] * 256 + Follow(b, 3 * q + 1)) \div 16) % 64
         /\ Sextet(b, 4 * q + 3) = ((b[3 * q + 2] * 256 + Follow(b, 3 * q + 2)) \div 64) % 64
         /\ Sextet(b, 4 * q + 4) = ((b[3 * q + 3] * 256 + Follow(b, 3 * q + 3)) \div 256) % 64
<1> DEFINE Six(k, d) == ((b[k] * 256 + Follow(b, k)) \div (2 ^ d)) % 64
<1>1. ASSUME NEW j \in Nat, NEW k \in Nat, NEW d \in Nat, NEW bit \in Nat,
             bit = 6 * (j - 1), k = bit \div 8 + 1, d = 10 - (bit % 8)
      PROVE  Sextet(b, j) = Six(k, d)
  BY <1>1 DEF Sextet, Follow
<1> HIDE DEF Six
<1>2. Sextet(b, 4 * q + 1) = Six(3 * q + 1, 10)
  <2>1. PICK j \in Nat, k \in Nat, d \in Nat, bit \in Nat :
          j = 4 * q + 1 /\ k = 3 * q + 1 /\ d = 10 /\ bit = 24 * q
    OBVIOUS
  <2>2. bit = 6 * (j - 1) /\ k = bit \div 8 + 1 /\ d = 10 - (bit % 8)
    BY <2>1
  <2>3. Sextet(b, j) = Six(k, d)
    BY <1>1, <2>2
  <2> QED BY <2>1, <2>3
<1>3. Sextet(b, 4 * q + 2) = Six(3 * q + 1, 4)
  <2>1. PICK j \in Nat, k \in Nat, d \in Nat, bit \in Nat :
          j = 4 * q + 2 /\ k = 3 * q + 1 /\ d = 4 /\ bit = 24 * q + 6
    OBVIOUS
  <2>2. bit = 6 * (j - 1) /\ k = bit \div 8 + 1 /\ d = 10 - (bit % 8)
    BY <2>1
  <2>3. Sextet(b, j) = Six(k, d)
    BY <1>1, <2>2
  <2> QED BY <2>1, <2>3
<1>4. Sextet(b, 4 * q + 3) = Six(3 * q + 2, 6)
  <2>1. PICK j \in Nat, k \in Nat, d \in Nat, bit \in Nat :
          j = 4 * q + 3 /\ k = 3 * q + 2 /\ d = 6 /\ bit = 24 * q + 12
    OBVIOUS
  <2>2. bit = 6 * (j - 1) /\ k = bit \div 8 + 1 /\ d = 10 - (bit % 8)
    BY <2>1
  <2>3. Sextet(b, j) = Six(k, d)
    BY <1>1, <2>2
  <2> QED BY <2>1, <2>3
<1>5. Sextet(b, 4 * q + 4) = Six(3 * q + 3, 8)
  <2>1. PICK j \in Nat, k \in Nat, d \in Nat, bit \in Nat :
          j = 4 * q + 4 /\ k = 3 * q + 3 /\ d = 8 /\ bit = 24 * q + 18
    OBVIOUS
  <2>2. bit = 6 * (j - 1) /\ k = bit \div 8 + 1 /\ d = 10 - (bit % 8)
    BY <2>1
  <2>3. Sextet(b, j) = Six(k, d)
    BY <1>1, <2>2
  <2> QED BY <2>1, <2>3
<1>6. \A k : /\ Six(k, 10) = ((b[k] * 256 + Follow(b, k)) \div 1024) % 64
             /\ Six(k, 4) = ((b[k] * 256 + Follow(b, k)) \div 16) % 64
             /\ Six(k, 6) = ((b[k] * 256 + Follow(b, k)) \div 64) % 64
             /\ Six(k, 8) = ((b[k] * 256 + Follow(b, k)) \div 256) % 64
  BY Powers DEF Six
<1> QED BY <1>2, <1>3, <1>4, <1>5, <1>6

(* The characters 4q + 1 to 4q + 4 come from the bytes 3q + 1 to 3q + 3.    *)
LEMMA Sextets ==
  ASSUME NEW b \in Seq(Bytes), NEW q \in Nat
  PROVE  /\ 3 * q + 1 \in 1 .. Len(b) =>
              /\ Sextet(b, 4 * q + 1) = First6(b[3 * q + 1])
              /\ Sextet(b, 4 * q + 2) = Second6(b[3 * q + 1], Follow(b, 3 * q + 1))
         /\ 3 * q + 2 \in 1 .. Len(b) => Sextet(b, 4 * q + 3) = Third6(b[3 * q + 2], Follow(b, 3 * q + 2))
         /\ 3 * q + 3 \in 1 .. Len(b) => Sextet(b, 4 * q + 4) = Fourth6(b[3 * q + 3])
<1>1. ASSUME NEW k \in 1 .. Len(b) PROVE b[k] \in Bytes /\ Follow(b, k) \in Bytes
  BY FollowByte
<1> QED BY <1>1, SextetIs, TwoBytes

(* A character is a number below 64.                                        *)
LEMMA Base64Type ==
  ASSUME NEW b \in Seq(Bytes)
  PROVE  /\ ToBase64(b) \in Seq(0 .. 63)
         /\ Len(ToBase64(b)) = (4 * Len(b) + 2) \div 3
         /\ Len(ToBase64(b)) % 4 # 1
<1>1. PICK n \in Nat : n = Len(b)
  OBVIOUS
<1>2. PICK l \in Nat : l = (4 * n + 2) \div 3
  OBVIOUS
<1>3. ASSUME NEW j \in 1 .. l PROVE Sextet(b, j) \in 0 .. 63
  <2>1. PICK q \in Nat : j = 4 * q + 1 \/ j = 4 * q + 2 \/ j = 4 * q + 3 \/ j = 4 * q + 4
    <3>1. (j - 1) \div 4 \in Nat /\ LET q == (j - 1) \div 4 IN
            j = 4 * q + 1 \/ j = 4 * q + 2 \/ j = 4 * q + 3 \/ j = 4 * q + 4
      OBVIOUS
    <3> QED BY <3>1
  <2>2. /\ j = 4 * q + 1 => 3 * q + 1 \in 1 .. n
        /\ j = 4 * q + 2 => 3 * q + 1 \in 1 .. n
        /\ j = 4 * q + 3 => 3 * q + 2 \in 1 .. n
        /\ j = 4 * q + 4 => 3 * q + 3 \in 1 .. n
    BY <1>2
  <2>3. \A k \in 1 .. Len(b) : b[k] \in Bytes /\ Follow(b, k) \in Bytes
    BY FollowByte
  <2>4. CASE j = 4 * q + 1
    <3>1. 3 * q + 1 \in 1 .. Len(b)
      BY <1>1, <2>2, <2>4
    <3>2. PICK a \in Bytes, x \in Bytes : a = b[3 * q + 1] /\ x = Follow(b, 3 * q + 1)
      BY <2>3, <3>1
    <3>3. Sextet(b, 4 * q + 1) = First6(a)
      BY <3>1, <3>2, Sextets
    <3> QED BY <2>4, <3>3, SixBits
  <2>5. CASE j = 4 * q + 2
    <3>1. 3 * q + 1 \in 1 .. Len(b)
      BY <1>1, <2>2, <2>5
    <3>2. PICK a \in Bytes, x \in Bytes : a = b[3 * q + 1] /\ x = Follow(b, 3 * q + 1)
      BY <2>3, <3>1
    <3>3. Sextet(b, 4 * q + 2) = Second6(a, x)
      BY <3>1, <3>2, Sextets
    <3> QED BY <2>5, <3>3, SixBits
  <2>6. CASE j = 4 * q + 3
    <3>1. 3 * q + 2 \in 1 .. Len(b)
      BY <1>1, <2>2, <2>6
    <3>2. PICK a \in Bytes, x \in Bytes : a = b[3 * q + 2] /\ x = Follow(b, 3 * q + 2)
      BY <2>3, <3>1
    <3>3. Sextet(b, 4 * q + 3) = Third6(a, x)
      BY <3>1, <3>2, Sextets
    <3> QED BY <2>6, <3>3, SixBits
  <2>7. CASE j = 4 * q + 4
    <3>1. 3 * q + 3 \in 1 .. Len(b)
      BY <1>1, <2>2, <2>7
    <3>2. PICK a \in Bytes, x \in Bytes : a = b[3 * q + 3] /\ x = Follow(b, 3 * q + 3)
      BY <2>3, <3>1
    <3>3. Sextet(b, 4 * q + 4) = Fourth6(a)
      BY <3>1, <3>2, Sextets
    <3> QED BY <2>7, <3>3, SixBits
  <2> QED BY <2>1, <2>4, <2>5, <2>6, <2>7
<1>4. ToBase64(b) = [j \in 1 .. l |-> Sextet(b, j)]
  BY <1>1, <1>2 DEF ToBase64
<1>5. ToBase64(b) \in [1 .. l -> 0 .. 63]
  BY <1>3, <1>4
<1>6. ToBase64(b) \in Seq(0 .. 63) /\ Len(ToBase64(b)) = l
  BY <1>5
<1>7. l % 4 # 1
  <2>1. PICK q \in Nat, r \in 0 .. 2 : n = 3 * q + r
    <3>1. n \div 3 \in Nat /\ n % 3 \in 0 .. 2 /\ n = 3 * (n \div 3) + (n % 3)
      OBVIOUS
    <3> QED BY <3>1
  <2>2. l = 4 * q + (4 * r + 2) \div 3
    BY <1>2, <2>1
  <2> QED BY <2>2
<1> QED BY <1>1, <1>2, <1>6, <1>7

(* Which bits of which characters a byte has.                               *)
LEMMA OctetIs ==
  ASSUME NEW t, NEW q \in Nat
  PROVE  /\ Octet(t, 3 * q + 1) = ((t[4 * q + 1] * 64 + t[4 * q + 2]) \div 16) % 256
         /\ Octet(t, 3 * q + 2) = ((t[4 * q + 2] * 64 + t[4 * q + 3]) \div 4) % 256
         /\ Octet(t, 3 * q + 3) = ((t[4 * q + 3] * 64 + t[4 * q + 4]) \div 1) % 256
<1> DEFINE Eight(j, d) == ((t[j] * 64 + t[j + 1]) \div (2 ^ d)) % 256
<1>1. ASSUME NEW k \in Nat, NEW j \in Nat, NEW d \in Nat, NEW bit \in Nat,
             bit = 8 * (k - 1), j = bit \div 6 + 1, d = 4 - (bit % 6)
      PROVE  Octet(t, k) = Eight(j, d)
  BY <1>1 DEF Octet
<1> HIDE DEF Eight
<1>2. Octet(t, 3 * q + 1) = Eight(4 * q + 1, 4)
  <2>1. PICK k \in Nat, j \in Nat, d \in Nat, bit \in Nat :
          k = 3 * q + 1 /\ j = 4 * q + 1 /\ d = 4 /\ bit = 24 * q
    OBVIOUS
  <2>2. bit = 8 * (k - 1) /\ j = bit \div 6 + 1 /\ d = 4 - (bit % 6)
    BY <2>1
  <2>3. Octet(t, k) = Eight(j, d)
    BY <1>1, <2>2
  <2> QED BY <2>1, <2>3
<1>3. Octet(t, 3 * q + 2) = Eight(4 * q + 2, 2)
  <2>1. PICK k \in Nat, j \in Nat, d \in Nat, bit \in Nat :
          k = 3 * q + 2 /\ j = 4 * q + 2 /\ d = 2 /\ bit = 24 * q + 8
    OBVIOUS
  <2>2. bit = 8 * (k - 1) /\ j = bit \div 6 + 1 /\ d = 4 - (bit % 6)
    BY <2>1
  <2>3. Octet(t, k) = Eight(j, d)
    BY <1>1, <2>2
  <2> QED BY <2>1, <2>3
<1>4. Octet(t, 3 * q + 3) = Eight(4 * q + 3, 0)
  <2>1. PICK k \in Nat, j \in Nat, d \in Nat, bit \in Nat :
          k = 3 * q + 3 /\ j = 4 * q + 3 /\ d = 0 /\ bit = 24 * q + 16
    OBVIOUS
  <2>2. bit = 8 * (k - 1) /\ j = bit \div 6 + 1 /\ d = 4 - (bit % 6)
    BY <2>1
  <2>3. Octet(t, k) = Eight(j, d)
    BY <1>1, <2>2
  <2> QED BY <2>1, <2>3
<1>5. \A j : /\ Eight(j, 4) = ((t[j] * 64 + t[j + 1]) \div 16) % 256
             /\ Eight(j, 2) = ((t[j] * 64 + t[j + 1]) \div 4) % 256
             /\ Eight(j, 0) = ((t[j] * 64 + t[j + 1]) \div 1) % 256
  BY Powers DEF Eight
<1>6. (4 * q + 1) + 1 = 4 * q + 2 /\ (4 * q + 2) + 1 = 4 * q + 3 /\ (4 * q + 3) + 1 = 4 * q + 4
  OBVIOUS
<1> QED BY <1>2, <1>3, <1>4, <1>5, <1>6

(* The first m characters hold the bytes that they hold completely.         *)
LEMMA CutLength ==
  ASSUME NEW n \in Nat, NEW m \in 0 .. (4 * n + 2) \div 3
  PROVE  /\ (3 * m) \div 4 \in 0 .. n
         /\ m = (4 * n + 2) \div 3 => (3 * m) \div 4 = n
         /\ m # (4 * n + 2) \div 3 => (3 * m) \div 4 < n
OBVIOUS

(* What is decoded of the first m characters is the start of the bytes.     *)
LEMMA CutBase64 ==
  ASSUME NEW b \in Seq(Bytes), NEW m \in 0 .. Len(ToBase64(b))
  PROVE  FromBase64(SubSeq(ToBase64(b), 1, m)) = SubSeq(b, 1, (3 * m) \div 4)
<1>1. PICK n \in Nat : n = Len(b)
  OBVIOUS
<1>2. PICK l \in Nat : l = (4 * n + 2) \div 3 /\ m \in 0 .. l
  BY <1>1, Base64Type
<1>3. PICK h \in 0 .. n : h = (3 * m) \div 4
  BY <1>2, CutLength
<1>4. PICK t : t = SubSeq(ToBase64(b), 1, m)
  OBVIOUS
<1>5. t \in Seq(0 .. 63) /\ Len(t) = m /\ \A j \in 1 .. m : t[j] = Sextet(b, j)
  <2>1. ToBase64(b) \in Seq(0 .. 63) /\ Len(ToBase64(b)) = l
    BY <1>1, <1>2, Base64Type
  <2>2. ToBase64(b) = [j \in 1 .. l |-> Sextet(b, j)]
    BY <1>1, <1>2 DEF ToBase64
  <2>3. \A j \in 1 .. m : ToBase64(b)[j] = Sextet(b, j)
    BY <1>2, <2>2
  <2>4. PICK w \in Seq(0 .. 63) : w = ToBase64(b) /\ Len(w) = l /\ \A j \in 1 .. m : w[j] = Sextet(b, j)
    BY <2>1, <2>3, Zenon
  <2>5. /\ SubSeq(w, 1, m) \in Seq(0 .. 63) /\ Len(SubSeq(w, 1, m)) = m
        /\ \A j \in 1 .. m : SubSeq(w, 1, m)[j] = w[j]
    <3>1. m \in 0 .. Len(w)
      BY <1>2, <2>4
    <3> QED BY <3>1, HeadIs, Zenon
  <2>6. t = SubSeq(w, 1, m)
    BY <1>4, <2>4, Zenon
  <2> QED BY <2>4, <2>5, <2>6, Zenon
<1>6. ASSUME NEW k \in 1 .. h PROVE Octet(t, k) = b[k]
  <2>1. PICK q \in Nat : k = 3 * q + 1 \/ k = 3 * q + 2 \/ k = 3 * q + 3
    <3>1. (k - 1) \div 3 \in Nat /\ LET q == (k - 1) \div 3 IN
            k = 3 * q + 1 \/ k = 3 * q + 2 \/ k = 3 * q + 3
      OBVIOUS
    <3> QED BY <3>1
  <2>2. k \in 1 .. Len(b)
    BY <1>1
  <2>3. PICK c \in Bytes, x \in Bytes : c = b[k] /\ x = Follow(b, k)
    BY <2>2, FollowByte
  <2>4. CASE k = 3 * q + 1
    <3>1. 4 * q + 1 \in 1 .. m /\ 4 * q + 2 \in 1 .. m
      BY <1>2, <1>3, <2>4
    <3>2. Sextet(b, 4 * q + 1) = First6(c) /\ Sextet(b, 4 * q + 2) = Second6(c, x)
      BY <2>2, <2>3, <2>4, Sextets
    <3>3. Octet(t, k) = ((First6(c) * 64 + Second6(c, x)) \div 16) % 256
      BY <1>5, <2>4, <3>1, <3>2, OctetIs
    <3> QED BY <2>3, <3>3, EightBits
  <2>5. CASE k = 3 * q + 2
    <3>1. 4 * q + 2 \in 1 .. m /\ 4 * q + 3 \in 1 .. m
      BY <1>2, <1>3, <2>5
    <3>2. PICK a \in Bytes : a = b[3 * q + 1] /\ Follow(b, 3 * q + 1) = c /\ 3 * q + 1 \in 1 .. Len(b)
      <4>1. 3 * q + 1 \in 1 .. Len(b) /\ (3 * q + 1) + 1 = k
        BY <2>2, <2>5
      <4> QED BY <2>2, <2>3, <4>1, FollowByte
    <3>3. Sextet(b, 4 * q + 2) = Second6(a, c) /\ Sextet(b, 4 * q + 3) = Third6(c, x)
      BY <2>2, <2>3, <2>5, <3>2, Sextets
    <3>4. Octet(t, k) = ((Second6(a, c) * 64 + Third6(c, x)) \div 4) % 256
      BY <1>5, <2>5, <3>1, <3>3, OctetIs
    <3> QED BY <2>3, <3>4, EightBits
  <2>6. CASE k = 3 * q + 3
    <3>1. 4 * q + 3 \in 1 .. m /\ 4 * q + 4 \in 1 .. m
      BY <1>2, <1>3, <2>6
    <3>2. PICK a \in Bytes : a = b[3 * q + 2] /\ Follow(b, 3 * q + 2) = c /\ 3 * q + 2 \in 1 .. Len(b)
      <4>1. 3 * q + 2 \in 1 .. Len(b) /\ (3 * q + 2) + 1 = k
        BY <2>2, <2>6
      <4> QED BY <2>2, <2>3, <4>1, FollowByte
    <3>3. Sextet(b, 4 * q + 3) = Third6(a, c) /\ Sextet(b, 4 * q + 4) = Fourth6(c)
      BY <2>2, <2>3, <2>6, <3>2, Sextets
    <3>4. Octet(t, k) = ((Third6(a, c) * 64 + Fourth6(c)) \div 1) % 256
      BY <1>5, <2>6, <3>1, <3>3, OctetIs
    <3> QED BY <2>3, <3>4, EightBits
  <2> QED BY <2>1, <2>4, <2>5, <2>6
<1>7. FromBase64(t) = [k \in 1 .. h |-> Octet(t, k)]
  BY <1>3, <1>5 DEF FromBase64
<1>8. FromBase64(t) = [k \in 1 .. h |-> b[k]]
  BY <1>6, <1>7
<1>9. SubSeq(b, 1, h) = [k \in 1 .. h |-> b[k]]
  BY <1>1
<1> QED BY <1>3, <1>4, <1>8, <1>9, Zenon

-----------------------------------------------------------------------------
(* For every configuration, salt and hash: Encode makes base-64 text, from  *)
(* which Decode gets the same three, and no shorter part of it decodes.     *)
THEOREM DecodeUndoesEncode ==
  ASSUME NEW c \in Configs, NEW salt \in Seq(Bytes), NEW hash \in Seq(Bytes),
         Len(salt) = c.SaltLen, Len(hash) = c.HashLen
  PROVE  LET t == Encode(c, salt, hash) IN
         /\ t # <<>> /\ t \in Seq(0 .. 63)
         /\ Decode(t) = Decoded("nil", c, salt, hash)
         /\ \A n \in 1 .. Len(t) - 1 : Decode(SubSeq(t, 1, n)).err # "nil"
<1>1. PICK b : b = EncodeRaw(c, salt, hash)
  OBVIOUS
<1>2. b \in Seq(Bytes) /\ Len(b) > 0 /\ DecodeRaw(b) = Decoded("nil", c, salt, hash)
  BY <1>1, RawDecodes
<1>3. PICK n \in Nat : n = Len(b) /\ n > 0
  BY <1>2
<1>4. PICK t : t = ToBase64(b)
  OBVIOUS
<1>5. t \in Seq(0 .. 63) /\ Len(t) = (4 * n + 2) \div 3 /\ Len(t) % 4 # 1
  BY <1>2, <1>3, <1>4, Base64Type
<1>6. PICK l \in Nat : l = (4 * n + 2) \div 3 /\ l > 0
  BY <1>3
<1>7. Len(t) = l
  BY <1>5, <1>6, Zenon
<1>8. Encode(c, salt, hash) = t
  BY <1>1, <1>4, Zenon DEF Encode
<1>9. t # <<>>
  BY <1>6, <1>7
<1>10. ASSUME NEW m \in 0 .. Len(t)
       PROVE  FromBase64(SubSeq(t, 1, m)) = SubSeq(b, 1, (3 * m) \div 4)
  <2>1. b \in Seq(Bytes) /\ m \in 0 .. Len(ToBase64(b))
    BY <1>2, <1>4
  <2> QED BY <1>4, <2>1, CutBase64
<1>11. Decode(t) = Decoded("nil", c, salt, hash)
  <2>1. Len(t) \in 0 .. Len(t) /\ (3 * Len(t)) \div 4 = n
    <3>1. l \in 0 .. l /\ (3 * l) \div 4 = n
      BY <1>6, CutLength
    <3> QED BY <1>7, <3>1, Zenon
  <2>2. SubSeq(t, 1, Len(t)) = t
    BY <1>5
  <2>3. SubSeq(b, 1, n) = b
    BY <1>2, <1>3
  <2>4. FromBase64(t) = b
    BY <1>10, <2>1, <2>2, <2>3
  <2>5. Decode(t) = DecodeRaw(FromBase64(t))
    BY <1>5 DEF Decode
  <2> QED BY <1>2, <2>4, <2>5
<1>12. ASSUME NEW m \in 1 .. Len(t) - 1 PROVE Decode(SubSeq(t, 1, m)).err # "nil"
  <2>1. PICK h \in Nat : h = (3 * m) \div 4 /\ h < n
    <3>1. m \in 0 .. l /\ m # l
      BY <1>6, <1>7
    <3>2. (3 * m) \div 4 \in 0 .. n /\ (3 * m) \div 4 < n
      BY <1>6, <3>1, CutLength
    <3> QED BY <3>2
  <2>2. FromBase64(SubSeq(t, 1, m)) = SubSeq(b, 1, h)
    <3>1. m \in 0 .. Len(t)
      BY <1>5
    <3> QED BY <1>10, <2>1, <3>1
  <2>3. DecodeRaw(SubSeq(b, 1, h)).err # "nil"
    <3>1. h < Len(EncodeRaw(c, salt, hash))
      BY <1>1, <1>3, <2>1
    <3> QED BY <1>1, <3>1, CutRawFails
  <2>4. Decode(SubSeq(t, 1, m)) = Failed("invalid") \/ Decode(SubSeq(t, 1, m)) = DecodeRaw(SubSeq(b, 1, h))
    BY <2>2, Zenon DEF Decode
  <2>5. Failed("invalid").err = "invalid"
    BY DEF Failed, Decoded
  <2> QED BY <2>3, <2>4, <2>5
<1> QED BY <1>5, <1>8, <1>9, <1>11, <1>12

(* The same for what Set stores.                                            *)
LEMMA RoundTrip ==
  ASSUME NEW pw \in Password, NEW salt \in Salts(Config.SaltLen)
  PROVE  LET t == Encode(Config, salt, Key(Config, pw, salt)) IN
         /\ t # <<>> /\ t \in Seq(0 .. 63)
         /\ Decode(t) = Decoded("nil", Config, salt, Key(Config, pw, salt))
         /\ \A n \in 1 .. Len(t) - 1 : Decode(SubSeq(t, 1, n)).err # "nil"
<1>1. PICK hash : hash = Key(Config, pw, salt)
  OBVIOUS
<1>2. hash \in Seq(0 .. 255) /\ Len(hash) = Config.HashLen
  BY <1>1, KeyAssumption
<1>3. hash \in Seq(Bytes) /\ salt \in Seq(Bytes)
  BY <1>2, SaltAssumption, Zenon DEF Bytes
<1>4. Len(salt) = Config.SaltLen /\ Config \in Configs
  BY SaltAssumption, ConfigAssumption
<1> QED BY <1>1, <1>2, <1>3, <1>4, DecodeUndoesEncode

-----------------------------------------------------------------------------
OpsOK ==
  /\ op \in [Process -> Calls \cup {NoCall}]
  /\ result \in [Process -> Results]
  /\ current \in [Account -> Password]
  /\ since \in [Process -> SUBSET Password]
  /\ DOMAIN data = Account

(* What is stored was made from the account's current password.            *)
StoredFromCurrent ==
  \A a \in Account : data[a] # <<>> =>
    \E salt \in Salts(Config.SaltLen) :
      data[a] = Encode(Config, salt, Key(Config, current[a], salt))

(* A call has seen the current password, and one that is about to store a  *)
(* change has seen the one it was given.                                   *)
SeenIsSince ==
  \A p \in Process : op[p] # NoCall =>
    /\ data[op[p].a] # <<>> => current[op[p].a] \in since[p]
    /\ op[p].at = "store" /\ op[p].kind = "change" => op[p].old \in since[p]

DataInv == OpsOK /\ StoredFromCurrent

PasswordInv == DataInv /\ SeenIsSince

-----------------------------------------------------------------------------
(* What every step keeps, whatever the configuration.                       *)
LEMMA AnswersAreResults == \A t, pw : VerifyData(t, pw) \in Results
BY DEF VerifyData, CheckPassword, Results

(* Nothing is stored and no call runs at first.                             *)
LEMMA DataInit == Init => DataInv
BY DEF Init, DataInv, OpsOK, StoredFromCurrent, Results, Calls, NoCall

(* A call begins: nothing but the call and what it has seen changes.        *)
LEMMA BeginIs ==
  ASSUME NEW p \in Process, NEW a \in Account, NEW old \in Password, NEW new \in Password,
         Set(p, a, new) \/ Verify(p, a, old) \/ Change(p, a, old, new)
  PROVE  \E c \in Calls :
           /\ c.a = a /\ ~(c.at = "store" /\ c.kind = "change")
           /\ op' = [op EXCEPT ![p] = c]
           /\ since' = [since EXCEPT ![p] = IF data[a] = <<>> THEN {} ELSE {current[a]}]
           /\ UNCHANGED <<data, result, current>>
BY DEF Set, Verify, Change, Begin, Calls, Kinds

LEMMA DataBegin ==
  ASSUME DataInv, NEW p \in Process, NEW a \in Account, NEW old \in Password,
         NEW new \in Password, Set(p, a, new) \/ Verify(p, a, old) \/ Change(p, a, old, new)
  PROVE  DataInv'
<1>1. PICK c \in Calls :
        /\ op' = [op EXCEPT ![p] = c]
        /\ since' = [since EXCEPT ![p] = IF data[a] = <<>> THEN {} ELSE {current[a]}]
        /\ UNCHANGED <<data, result, current>>
      BY BeginIs
<1>2. OpsOK'
      BY <1>1 DEF DataInv, OpsOK
<1>3. StoredFromCurrent'
      BY <1>1 DEF DataInv, StoredFromCurrent
<1> QED
    BY <1>2, <1>3 DEF DataInv

(* Verify, also within Change, ends with one of the results.                *)
LEMMA DataGet ==
  ASSUME DataInv, NEW p \in Process, Get(p)
  PROVE  DataInv'
<1>1. op[p] \in Calls
      BY DEF Get, DataInv, OpsOK, NoCall
<1>2. UNCHANGED <<data, current>>
      BY DEF Get
<1>3. PICK r \in Results :
        \/ op' = [op EXCEPT ![p].at = "store"] /\ UNCHANGED <<result, since>>
        \/ Return(p, r) /\ since' = [since EXCEPT ![p] = {}]
  <2>1. "error" \in Results
        BY DEF Results
  <2> QED
      BY <2>1, AnswersAreResults DEF Get
<1>4. [op[p] EXCEPT !.at = "store"] \in Calls
      BY <1>1 DEF Calls
<1>5. OpsOK'
      BY <1>2, <1>3, <1>4 DEF DataInv, OpsOK, Return
<1>6. StoredFromCurrent'
      BY <1>2 DEF DataInv, StoredFromCurrent
<1> QED
    BY <1>5, <1>6 DEF DataInv

(* A call ends after it has stored or without.                              *)
LEMMA StoreIs ==
  ASSUME DataInv, NEW p \in Process, Store(p)
  PROVE  /\ op[p] # NoCall /\ op[p] \in Calls /\ op[p].a \in Account /\ op[p].new \in Password
         /\ \E r \in Results : Return(p, r)
         /\ \/ Stored(p, op[p].a, op[p].new)
            \/ since' = [since EXCEPT ![p] = {}] /\ UNCHANGED <<data, current>>
<1>1. op[p] # NoCall /\ op[p] \in Calls
      BY DEF Store, DataInv, OpsOK, NoCall
<1>2. op[p].a \in Account /\ op[p].new \in Password
      BY <1>1 DEF Calls
<1>3. "nil" \in Results /\ "error" \in Results
      BY DEF Results
<1>4. \E r \in Results : Return(p, r)
      BY <1>3 DEF Store
<1>5. \/ Stored(p, op[p].a, op[p].new)
      \/ since' = [since EXCEPT ![p] = {}] /\ UNCHANGED <<data, current>>
      BY DEF Store
<1> QED
    BY <1>1, <1>2, <1>4, <1>5

(* Set stores a text made from the password it makes current.               *)
LEMMA DataStore ==
  ASSUME DataInv, NEW p \in Process, Store(p)
  PROVE  DataInv'
<1>1. op[p] # NoCall /\ op[p] \in Calls /\ op[p].a \in Account /\ op[p].new \in Password
      BY StoreIs
<1>2. PICK r \in Results : op' = [op EXCEPT ![p] = NoCall] /\ result' = [result EXCEPT ![p] = r]
      BY StoreIs DEF Return
<1>3. CASE Stored(p, op[p].a, op[p].new)
  <2>1. PICK salt \in Salts(Config.SaltLen) :
          data' = [data EXCEPT ![op[p].a] = Encode(Config, salt, Key(Config, op[p].new, salt))]
        BY <1>3 DEF Stored
  <2>2. /\ current' = [current EXCEPT ![op[p].a] = op[p].new]
        /\ since' = [q \in Process |->
                       IF q = p THEN {}
                       ELSE IF op[q] # NoCall /\ op[q].a = op[p].a
                            THEN since[q] \cup {op[p].new} ELSE since[q]]
        BY <1>3 DEF Stored
  <2>3. OpsOK'
        BY <1>1, <1>2, <2>1, <2>2 DEF DataInv, OpsOK
  <2>4. StoredFromCurrent'
    <3>1. ASSUME NEW a \in Account, data'[a] # <<>>
          PROVE  \E s \in Salts(Config.SaltLen) :
                   data'[a] = Encode(Config, s, Key(Config, current'[a], s))
      <4>1. CASE a = op[p].a
            BY <1>1, <2>1, <2>2, <4>1 DEF DataInv, OpsOK
      <4>2. CASE a # op[p].a
            BY <2>1, <2>2, <3>1, <4>2 DEF DataInv, OpsOK, StoredFromCurrent
      <4> QED
          BY <4>1, <4>2
    <3> QED
        BY <3>1 DEF StoredFromCurrent
  <2> QED
      BY <2>3, <2>4 DEF DataInv
<1>4. CASE since' = [since EXCEPT ![p] = {}] /\ UNCHANGED <<data, current>>
  <2>1. OpsOK'
        BY <1>2, <1>4 DEF DataInv, OpsOK
  <2>2. StoredFromCurrent'
        BY <1>4 DEF DataInv, StoredFromCurrent
  <2> QED
      BY <2>1, <2>2 DEF DataInv
<1> QED
    BY <1>3, <1>4, StoreIs

(* No step breaks what holds of the data.                                   *)
LEMMA DataStep == DataInv /\ [Next]_vars => DataInv'
<1> SUFFICES ASSUME DataInv, [Next]_vars PROVE DataInv'
    OBVIOUS
<1>1. CASE UNCHANGED vars
      BY <1>1 DEF vars, DataInv, OpsOK, StoredFromCurrent
<1>2. CASE Next
      BY <1>2, DataBegin, DataGet, DataStore DEF Next
<1> QED
    BY <1>1, <1>2

LEMMA DataIsInv == Spec => []DataInv
BY DataInit, DataStep, PTL DEF Spec

(* What an account has stored is such a text.                               *)
LEMMA StoredText ==
  ASSUME DataInv, NEW a \in Account, data[a] # <<>>
  PROVE  \E salt \in Salts(Config.SaltLen) :
           /\ current[a] \in Password
           /\ data[a] = Encode(Config, salt, Key(Config, current[a], salt))
           /\ data[a] \in Seq(0 .. 63)
           /\ Decode(data[a]) = Decoded("nil", Config, salt, Key(Config, current[a], salt))
           /\ \A n \in 1 .. Len(data[a]) - 1 : Decode(SubSeq(data[a], 1, n)).err # "nil"
<1>1. PICK salt \in Salts(Config.SaltLen) :
        data[a] = Encode(Config, salt, Key(Config, current[a], salt))
      BY DEF DataInv, StoredFromCurrent
<1>2. current[a] \in Password
      BY DEF DataInv, OpsOK
<1>3. PICK pw \in Password : pw = current[a]
      BY <1>2
<1>4. PICK t : t = Encode(Config, salt, Key(Config, pw, salt))
      OBVIOUS
<1>5. /\ t \in Seq(0 .. 63) /\ Decode(t) = Decoded("nil", Config, salt, Key(Config, pw, salt))
      /\ \A n \in 1 .. Len(t) - 1 : Decode(SubSeq(t, 1, n)).err # "nil"
      BY <1>4, RoundTrip
<1>6. data[a] = t
      BY <1>1, <1>3, <1>4, Zenon
<1> QED
    BY <1>2, <1>3, <1>4, <1>5, <1>6

(* Whatever the configuration, however the calls interleave, and when the   *)
(* application fails: what is stored is base-64 text, calls and results are *)
(* the declared ones (TypeOK).                                              *)
THEOREM PasswordsTypes == Spec => []TypeOK
<1>1. DataInv => TypeOK
  <2> SUFFICES ASSUME DataInv PROVE TypeOK
      OBVIOUS
  <2>1. \A a \in Account : data[a] \in Seq(0 .. 63)
    <3> TAKE a \in Account
    <3>1. <<>> \in Seq(0 .. 63)
          OBVIOUS
    <3>2. data[a] # <<>> => data[a] \in Seq(0 .. 63)
          BY StoredText
    <3> QED
        BY <3>1, <3>2
  <2> QED
      BY <2>1, Zenon DEF DataInv, OpsOK, TypeOK
<1> QED
    BY <1>1, DataIsInv, PTL

(* What is stored always decodes to the configuration and to a salt and     *)
(* hash of the password last set (Encode, EncodeRaw, Decode, DecodeRaw).    *)
THEOREM StoredAlwaysDecodes == Spec => []StoredDecodes
<1>1. DataInv => StoredDecodes
  <2> SUFFICES ASSUME DataInv, NEW a \in Account, data[a] # <<>>
               PROVE  /\ Decode(data[a]).err = "nil" /\ Decode(data[a]).c = Config
                      /\ Decode(data[a]).hash = Key(Config, current[a], Decode(data[a]).salt)
      BY Zenon DEF StoredDecodes
  <2>1. PICK salt : Decode(data[a]) = Decoded("nil", Config, salt, Key(Config, current[a], salt))
        BY StoredText
  <2>2. PICK d : d = Decode(data[a])
        OBVIOUS
  <2>3. d.err = "nil" /\ d.c = Config /\ d.salt = salt /\ d.hash = Key(Config, current[a], salt)
        BY <2>1, <2>2 DEF Decoded
  <2> QED
      BY <2>2, <2>3
<1> QED
    BY <1>1, DataIsInv, PTL

(* Stored data that is cut short, at any character, does not decode: the    *)
(* header misses its last number, or salt and hash are longer than what is  *)
(* left (Decode, DecodeRaw).                                                *)
THEOREM CutDataIsAlwaysRefused == Spec => []CutDataIsRefused
<1>1. DataInv => CutDataIsRefused
  <2> SUFFICES ASSUME DataInv, NEW a \in Account, NEW n \in 1 .. Len(data[a]) - 1
               PROVE  Decode(SubSeq(data[a], 1, n)).err # "nil"
      BY Zenon DEF CutDataIsRefused
  <2>1. data[a] # <<>>
        OBVIOUS
  <2>2. \A k \in 1 .. Len(data[a]) - 1 : Decode(SubSeq(data[a], 1, k)).err # "nil"
        BY <2>1, StoredText
  <2> QED
      BY <2>2
<1> QED
    BY <1>1, DataIsInv, PTL

-----------------------------------------------------------------------------
(* Of stored data Verify accepts exactly the password it was made from.    *)
LEMMA VerifiesCurrent ==
  ASSUME Config = DefaultConfig, DataInv,
         NEW a \in Account, data[a] # <<>>, NEW pw \in Password
  PROVE  VerifyData(data[a], pw) = IF pw = current[a] THEN "nil" ELSE "invalid password"
<1>1. PICK salt \in Salts(Config.SaltLen) :
        /\ current[a] \in Password
        /\ Decode(data[a]) = Decoded("nil", Config, salt, Key(Config, current[a], salt))
      BY StoredText
<1>2. VerifyData(data[a], pw) = CheckPassword(Decode(data[a]), pw)
      BY <1>1 DEF VerifyData, Decoded
<1>3. Key(Config, pw, salt) = Key(Config, current[a], salt) <=> pw = current[a]
      BY <1>1, KeyAssumption
<1>4. CheckPassword(Decoded("nil", Config, salt, Key(Config, current[a], salt)), pw) =
        IF Key(Config, pw, salt) = Key(Config, current[a], salt)
        THEN "nil" ELSE "invalid password"
  <2>1. ASSUME NEW hash
        PROVE  /\ Decoded("nil", Config, salt, hash).salt = salt
               /\ Decoded("nil", Config, salt, hash).hash = hash
        BY DEF Decoded
  <2> QED
      BY <2>1 DEF CheckPassword
<1> QED
    BY <1>1, <1>2, <1>3, <1>4

(* With the default configuration what Set has stored verifies ("can [...]   *)
(* be used to verify a password using CheckPassword", auth.go:38).          *)
THEOREM DefaultVerifies == Config = DefaultConfig => (Spec => []StoredVerifies)
<1> SUFFICES ASSUME Config = DefaultConfig PROVE Spec => []StoredVerifies
    OBVIOUS
<1>1. DataInv => StoredVerifies
  <2> SUFFICES ASSUME DataInv, NEW a \in Account, data[a] # <<>>
               PROVE  VerifyData(data[a], current[a]) = "nil"
      BY DEF StoredVerifies
  <2>1. current[a] \in Password
        BY DEF DataInv, OpsOK
  <2> QED
      BY <2>1, VerifiesCurrent
<1> QED
    BY <1>1, DataIsInv, PTL

(* An account without data has no password.                                 *)
LEMMA NothingVerifies == \A pw : VerifyData(<<>>, pw) = "invalid account"
BY DEF VerifyData

(* Get goes on, or returns "nil", with the current password only.           *)
LEMMA GetChecks ==
  ASSUME Config = DefaultConfig, DataInv, NEW p \in Process, op[p] # NoCall
  PROVE  LET r == VerifyData(data[op[p].a], op[p].old)
             right == data[op[p].a] # <<>> /\ op[p].old = current[op[p].a]
         IN  /\ r = "nil" <=> right
             /\ r = "invalid password" => ~right
<1>1. op[p] \in Calls
      BY DEF DataInv, OpsOK
<1>2. op[p].a \in Account /\ op[p].old \in Password
      BY <1>1 DEF Calls
<1>3. CASE data[op[p].a] = <<>>
      BY <1>3, NothingVerifies
<1>4. CASE data[op[p].a] # <<>>
      BY <1>2, <1>4, VerifiesCurrent
<1> QED
    BY <1>3, <1>4

-----------------------------------------------------------------------------
LEMMA PasswordsInit == Init => PasswordInv
<1>1. Init => SeenIsSince
      BY DEF Init, SeenIsSince
<1> QED
    BY <1>1, DataInit DEF PasswordInv

(* A call that begins has seen the current password.                        *)
LEMMA SeenBegin ==
  ASSUME PasswordInv, NEW p \in Process, NEW a \in Account, NEW old \in Password,
         NEW new \in Password, Set(p, a, new) \/ Verify(p, a, old) \/ Change(p, a, old, new)
  PROVE  SeenIsSince'
<1>1. PICK c \in Calls :
        /\ c.a = a /\ ~(c.at = "store" /\ c.kind = "change")
        /\ op' = [op EXCEPT ![p] = c]
        /\ since' = [since EXCEPT ![p] = IF data[a] = <<>> THEN {} ELSE {current[a]}]
        /\ UNCHANGED <<data, result, current>>
      BY BeginIs
<1> QED
    BY <1>1 DEF PasswordInv, DataInv, OpsOK, SeenIsSince

(* Only with the current password does Change go on.                        *)
LEMMA SeenGet ==
  ASSUME Config = DefaultConfig, PasswordInv, NEW p \in Process, Get(p)
  PROVE  SeenIsSince'
<1>1. op[p] # NoCall /\ op[p] \in Calls /\ op[p].at = "get"
      BY DEF Get, PasswordInv, DataInv, OpsOK, NoCall
<1>2. UNCHANGED <<data, current>>
      BY DEF Get
<1>3. PICK r \in {VerifyData(data[op[p].a], op[p].old), "error"} :
        \/ GoesOn(p, r) /\ op' = [op EXCEPT ![p].at = "store"] /\ UNCHANGED <<result, since>>
        \/ ~GoesOn(p, r) /\ Return(p, r) /\ since' = [since EXCEPT ![p] = {}]
      BY DEF Get
<1>4. CASE GoesOn(p, r) /\ op' = [op EXCEPT ![p].at = "store"] /\ UNCHANGED <<result, since>>
  <2>1. data[op[p].a] # <<>> /\ op[p].old = current[op[p].a]
        BY <1>1, <1>3, <1>4, GetChecks DEF GoesOn, PasswordInv
  <2>2. op[p].old \in since[p]
        BY <1>1, <2>1 DEF PasswordInv, SeenIsSince
  <2>3. [op[p] EXCEPT !.at = "store"] \in Calls
        BY <1>1 DEF Calls
  <2>4. /\ op'[p].a = op[p].a /\ op'[p].old = op[p].old /\ op'[p] # NoCall
        /\ \A q \in Process : q # p => op'[q] = op[q]
        BY <1>1, <1>4, <2>3 DEF PasswordInv, DataInv, OpsOK, Calls, NoCall
  <2> QED
      BY <1>2, <1>1, <1>4, <2>2, <2>4 DEF PasswordInv, SeenIsSince
<1>5. CASE ~GoesOn(p, r) /\ Return(p, r) /\ since' = [since EXCEPT ![p] = {}]
      BY <1>2, <1>5 DEF PasswordInv, DataInv, OpsOK, SeenIsSince, Return
<1> QED
    BY <1>3, <1>4, <1>5

(* Who stores a password shows it to the calls of that account.             *)
LEMMA SeenStore ==
  ASSUME PasswordInv, NEW p \in Process, Store(p)
  PROVE  SeenIsSince'
<1>0. DataInv
      BY DEF PasswordInv
<1>1. op[p] # NoCall /\ op[p] \in Calls /\ op[p].a \in Account /\ op[p].new \in Password
      BY <1>0, StoreIs
<1>2. op' = [op EXCEPT ![p] = NoCall]
      BY <1>0, StoreIs DEF Return
<1>3. CASE Stored(p, op[p].a, op[p].new)
  <2>1. PICK t : data' = [data EXCEPT ![op[p].a] = t]
        BY <1>3 DEF Stored
  <2>2. /\ current' = [current EXCEPT ![op[p].a] = op[p].new]
        /\ since' = [q \in Process |->
                       IF q = p THEN {}
                       ELSE IF op[q] # NoCall /\ op[q].a = op[p].a
                            THEN since[q] \cup {op[p].new} ELSE since[q]]
        BY <1>3 DEF Stored
  <2>3. SUFFICES ASSUME NEW q \in Process, op'[q] # NoCall
                 PROVE  /\ data'[op'[q].a] # <<>> => current'[op'[q].a] \in since'[q]
                        /\ op'[q].at = "store" /\ op'[q].kind = "change" =>
                             op'[q].old \in since'[q]
        BY DEF SeenIsSince
  <2>4. q # p /\ op'[q] = op[q] /\ op[q].a \in Account
        BY <1>2, <2>3 DEF PasswordInv, DataInv, OpsOK, Calls
  <2>5. since[q] \subseteq since'[q] /\ (op[q].a = op[p].a => op[p].new \in since'[q])
        BY <2>2, <2>3, <2>4
  <2>6. CASE op[q].a = op[p].a
        BY <1>1, <2>2, <2>3, <2>4, <2>5, <2>6 DEF PasswordInv, DataInv, OpsOK, SeenIsSince
  <2>7. CASE op[q].a # op[p].a
        BY <2>1, <2>2, <2>3, <2>4, <2>5, <2>7 DEF PasswordInv, DataInv, OpsOK, SeenIsSince
  <2> QED
      BY <2>6, <2>7
<1>4. CASE since' = [since EXCEPT ![p] = {}] /\ UNCHANGED <<data, current>>
      BY <1>2, <1>4 DEF PasswordInv, DataInv, OpsOK, SeenIsSince
<1> QED
    BY <1>0, <1>3, <1>4, StoreIs

LEMMA PasswordStep ==
  ASSUME Config = DefaultConfig, PasswordInv, [Next]_vars
  PROVE  PasswordInv'
<1>1. DataInv'
      BY DataStep DEF PasswordInv
<1>2. CASE UNCHANGED vars
  <2>1. SeenIsSince'
        BY <1>2 DEF vars, PasswordInv, SeenIsSince
  <2> QED
      BY <1>1, <2>1 DEF PasswordInv
<1>3. CASE Next
      BY <1>1, <1>3, SeenBegin, SeenGet, SeenStore DEF Next, PasswordInv
<1> QED
    BY <1>2, <1>3

-----------------------------------------------------------------------------
(* Whatever calls run at once, a password is only changed by a call that    *)
(* gave one the account had during the call (Change, Verify).               *)
THEOREM ChangeGaveAPassword ==
  ASSUME Config = DefaultConfig
  PROVE  Spec => ChangeNeedsPassword
<1>1. ASSUME PasswordInv, [Next]_vars, NEW p \in Process,
             op[p].at = "store", op[p].kind = "change"
      PROVE  op[p].old \in since[p]
      BY <1>1 DEF PasswordInv, SeenIsSince, NoCall
<1>2. PasswordInv /\ [Next]_vars =>
        [\A p \in Process :
           op[p].at = "store" /\ op[p].kind = "change" /\ data'[op[p].a] # data[op[p].a]
             /\ op'[p].at = "idle"
           => op[p].old \in since[p]]_vars
      BY <1>1
<1>3. PasswordInv /\ [Next]_vars => PasswordInv'
      BY PasswordStep
<1> QED
    BY <1>2, <1>3, PasswordsInit, PTL DEF Spec, ChangeNeedsPassword

(* Verify and Change accept the account's password and no other, at the     *)
(* moment they get its data.                                                *)
THEOREM AcceptsCurrent ==
  ASSUME Config = DefaultConfig
  PROVE  Spec => AcceptsCurrentOnly
<1> DEFINE Accepts ==
      \A p \in Process :
        op[p].at = "get" /\ op'[p].at # "get" =>
          LET right == data[op[p].a] # <<>> /\ op[p].old = current[op[p].a] IN
          /\ op'[p].at = "store" => right
          /\ op'[p].at = "idle" /\ result'[p] = "nil" => right
          /\ op'[p].at = "idle" /\ result'[p] = "invalid password" => ~right
<1>1. ASSUME PasswordInv, NEW q \in Process, Get(q) PROVE Accepts
  <2>1. op[q] # NoCall /\ op \in [Process -> Calls \cup {NoCall}]
        /\ result \in [Process -> Results]
        BY <1>1 DEF Get, NoCall, PasswordInv, DataInv, OpsOK
  <2>2. PICK r \in {VerifyData(data[op[q].a], op[q].old), "error"} :
          \/ GoesOn(q, r) /\ op' = [op EXCEPT ![q].at = "store"]
          \/ ~GoesOn(q, r) /\ Return(q, r)
        BY <1>1 DEF Get
  <2>3. \A p \in Process : p # q => op'[p] = op[p]
        BY <2>1, <2>2 DEF Return
  <2>4. \/ op'[q].at = "store" /\ r = "nil"
        \/ op'[q] = NoCall /\ result'[q] = r
        BY <2>1, <2>2 DEF GoesOn, Return, Calls
  <2>5. /\ r = "nil" => data[op[q].a] # <<>> /\ op[q].old = current[op[q].a]
        /\ r = "invalid password" => ~(data[op[q].a] # <<>> /\ op[q].old = current[op[q].a])
        BY <1>1, <2>1, <2>2, GetChecks DEF PasswordInv
  <2>6. NoCall.at = "idle"
        BY DEF NoCall
  <2>7. ASSUME NEW p \in Process, op[p].at = "get", op'[p].at # "get" PROVE p = q
        BY <2>3, <2>7
  <2> QED
      BY <2>4, <2>5, <2>6, <2>7
<1>2. ASSUME PasswordInv, NEW q \in Process, Store(q) PROVE Accepts
  <2>1. op[q].at = "store" /\ op' = [op EXCEPT ![q] = NoCall]
        /\ op \in [Process -> Calls \cup {NoCall}]
        BY <1>2 DEF Store, Return, PasswordInv, DataInv, OpsOK
  <2> QED
      BY <2>1
<1>3. ASSUME PasswordInv, NEW q \in Process, NEW a \in Account, NEW old \in Password,
             NEW new \in Password, Set(q, a, new) \/ Verify(q, a, old) \/ Change(q, a, old, new)
      PROVE  Accepts
  <2>1. op[q] = NoCall /\ op \in [Process -> Calls \cup {NoCall}]
        /\ \A p \in Process : p # q => op'[p] = op[p]
        BY <1>3 DEF Set, Verify, Change, Begin, PasswordInv, DataInv, OpsOK
  <2>2. op[q].at = "idle"
        BY <2>1 DEF NoCall
  <2>3. ASSUME NEW p \in Process, op[p].at = "get", op'[p].at # "get" PROVE FALSE
        BY <2>1, <2>2, <2>3
  <2> QED
      BY <2>3
<1>4. PasswordInv /\ [Next]_vars => [Accepts]_vars
      BY <1>1, <1>2, <1>3 DEF Next
<1>5. PasswordInv /\ [Next]_vars => PasswordInv'
      BY PasswordStep
<1> QED
    BY <1>4, <1>5, PasswordsInit, PTL DEF Spec, AcceptsCurrentOnly
=============================================================================
