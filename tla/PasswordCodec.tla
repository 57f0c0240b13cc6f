--------------------------- MODULE PasswordCodec ---------------------------
(***************************************************************************)
(* The text that keeps a password: Config.Encode and Decode, with the      *)
(* variable-length integers of encoding/binary and the unpadded base-64 of *)
(* encoding/base64 they use. Bytes are numbers below 256, the characters   *)
(* of base-64 numbers below 64.                                            *)
(***************************************************************************)
EXTENDS Naturals, Sequences, FiniteSetsExt

(* Numbers that fit the bytes EncodeRaw makes room for. *)
Number == {n \in Nat : n <= 2147483647}

Configs == [N : Number, R : Number, P : Number, SaltLen : Number, HashLen : Number]

(* binary.PutUvarint: seven bits to a byte, the last one below 128. *)
PutByte(x, more) == IF x < 128 THEN <<x>> ELSE <<128 + (x % 128)>> \o more

Shifted(x) == x \div 128

Uvarint[x \in Nat] == PutByte(x, Uvarint[Shifted(x)])

(* The bytes that end a number. *)
Ends(b) == {i \in 1 .. Len(b) : b[i] < 128}

(* binary.Uvarint: the value and the bytes read, none when b ends before   *)
(* the number does. What Encode wrote never has too many bytes.            *)
AddByte(acc, c) == [v |-> acc.v + (c % 128) * acc.s, s |-> 128 * acc.s]

ReadUvarint(b) ==
  LET read[i \in 0 .. Len(b)] ==
        IF i = 0 THEN [v |-> 0, s |-> 1] ELSE AddByte(read[i - 1], b[i])
  IN  IF Ends(b) = {} THEN [v |-> 0, n |-> 0]
      ELSE [v |-> read[Min(Ends(b))].v, n |-> Min(Ends(b))]

(* The mutant writes the lengths of hash and salt in the wrong order. *)
EncodeConfigured(c, salt, hash) ==
  Uvarint[c.N] \o Uvarint[c.R] \o Uvarint[c.P] \o Uvarint[c.HashLen] \o Uvarint[c.SaltLen]
    \o salt \o hash

EncodeRaw(c, salt, hash) ==
  Uvarint[c.N] \o Uvarint[c.R] \o Uvarint[c.P] \o Uvarint[Len(salt)] \o Uvarint[Len(hash)]
    \o salt \o hash

Decoded(err, c, salt, hash) == [err |-> err, c |-> c, salt |-> salt, hash |-> hash]

NoConfig == [N |-> 0, R |-> 0, P |-> 0, SaltLen |-> 0, HashLen |-> 0]
Failed(err) == Decoded(err, NoConfig, <<>>, <<>>)

Rest(b, i) == SubSeq(b, i + 1, Len(b))

(* The five numbers at the head of b, and where each of them ends. *)
HeaderEnd(b) ==
  LET end[k \in 0 .. 5] == IF k = 0 THEN 0 ELSE end[k - 1] + ReadUvarint(Rest(b, end[k - 1])).n
  IN  end

HeaderField(b, k) == ReadUvarint(Rest(b, HeaderEnd(b)[k - 1]))

HeaderConfig(b) ==
  [N |-> HeaderField(b, 1).v, R |-> HeaderField(b, 2).v, P |-> HeaderField(b, 3).v,
   SaltLen |-> HeaderField(b, 4).v, HashLen |-> HeaderField(b, 5).v]

(* The mutant takes as much of salt and hash as there is. *)
DecodeClipping(b) ==
  LET c == HeaderConfig(b)
      body == Rest(b, HeaderEnd(b)[5])
  IN  Decoded("nil", c, SubSeq(body, 1, Min({c.SaltLen, Len(body)})), Rest(body, c.SaltLen))

(* Only the last number is looked at for an error, and that does not end   *)
(* the decoding: salt and hash are sliced all the same, which panics when  *)
(* they reach past the end.                                                *)
DecodeRaw(b) ==
  LET c == HeaderConfig(b)
      body == Rest(b, HeaderEnd(b)[5])
  IN  IF c.SaltLen + c.HashLen > Len(body) THEN Failed("panic")
      ELSE Decoded(IF HeaderField(b, 5).n = 0 THEN "invalid" ELSE "nil", c,
                   SubSeq(body, 1, c.SaltLen), SubSeq(body, c.SaltLen + 1, c.SaltLen + c.HashLen))

-----------------------------------------------------------------------------
(* Unpadded base-64: six bits to a character. *)
Sextet(b, j) ==
  LET bit == 6 * (j - 1)
      k   == bit \div 8 + 1
      two == b[k] * 256 + (IF k < Len(b) THEN b[k + 1] ELSE 0)
  IN  (two \div (2 ^ (10 - (bit % 8)))) % 64

ToBase64(b) == [j \in 1 .. (4 * Len(b) + 2) \div 3 |-> Sextet(b, j)]

Octet(t, k) ==
  LET bit == 8 * (k - 1)
      j   == bit \div 6 + 1
  IN  ((t[j] * 64 + t[j + 1]) \div (2 ^ (4 - (bit % 6)))) % 256

FromBase64(t) == [k \in 1 .. (3 * Len(t)) \div 4 |-> Octet(t, k)]

Encode(c, salt, hash) == ToBase64(EncodeRaw(c, salt, hash))

(* A single character in the last group is no base-64. *)
Decode(t) == IF Len(t) % 4 = 1 THEN Failed("invalid") ELSE DecodeRaw(FromBase64(t))
=============================================================================
