-------------------------------- MODULE Topics --------------------------------
(***************************************************************************)
(* The partitions record keys hash to (cdc/topics.py).                     *)
(*                                                                         *)
(* A 32-bit word is four bytes, the lowest first: TLC's integers are too   *)
(* narrow for the products.                                                *)
(***************************************************************************)
EXTENDS RecordKeys, Bitwise

CONSTANTS
  Partitions   \* partitions of a topic

-----------------------------------------------------------------------------
(* Arithmetic modulo 2^32.                                                  *)

Word(b0, b1, b2, b3) == <<b0, b1, b2, b3>>

XorWord(a, b) == Word(a[1] ^^ b[1], a[2] ^^ b[2], a[3] ^^ b[3], a[4] ^^ b[4])

\* The products of bytes, column by column, the carry with them.
Times(a, b) ==
  LET c1 == a[1] * b[1]
      c2 == a[1] * b[2] + a[2] * b[1] + c1 \div 256
      c3 == a[1] * b[3] + a[2] * b[2] + a[3] * b[1] + c2 \div 256
      c4 == a[1] * b[4] + a[2] * b[3] + a[3] * b[2] + a[4] * b[1] + c3 \div 256
  IN  Word(c1 % 256, c2 % 256, c3 % 256, c4 % 256)

\* Mutant: the sign of the word is carried in.
SignedShift(a, n) ==
  LET At(i) == IF i > 4 THEN (IF a[4] < 128 THEN 0 ELSE 255) ELSE a[i]
      Byte(i) == (At(i) \div 2 ^ (n % 8) + At(i + 1) * 2 ^ (8 - (n % 8))) % 256
      q == n \div 8
  IN  Word(Byte(1 + q), Byte(2 + q), Byte(3 + q), Byte(4 + q))

\* a >> n
ShiftRight(a, n) ==
  LET At(i) == IF i > 4 THEN 0 ELSE a[i]
      Byte(i) == (At(i) \div 2 ^ (n % 8) + At(i + 1) * 2 ^ (8 - (n % 8))) % 256
      q == n \div 8
  IN  Word(Byte(1 + q), Byte(2 + q), Byte(3 + q), Byte(4 + q))

Seed == Word(140, 178, 71, 151)         \* 0x9747b28c
Multiplier == Word(149, 233, 209, 91)   \* 0x5bd1e995

-----------------------------------------------------------------------------
\* The steps of murmur2: a whole word mixed in, the last bytes, the avalanche.
MixIn(h, k) ==
  LET spread == Times(k, Multiplier)
  IN  XorWord(Times(h, Multiplier), Times(XorWord(spread, ShiftRight(spread, 24)), Multiplier))

MixTail(h, bytes) ==
  LET At(i) == IF i \in DOMAIN bytes THEN bytes[i] ELSE 0
  IN  IF bytes = <<>> THEN h
      ELSE Times(XorWord(h, Word(At(1), At(2), At(3), 0)), Multiplier)

Avalanche(h) ==
  LET mixed == Times(XorWord(h, ShiftRight(h, 13)), Multiplier)
  IN  XorWord(mixed, ShiftRight(mixed, 15))

\* Keys are shorter than 256 bytes, so their length touches the seed's low byte.
murmur2(data) ==
  LET words == Len(data) \div 4
      mixed[n \in 0..words] ==
        IF n = 0 THEN XorWord(Seed, Word(Len(data), 0, 0, 0))
        ELSE MixIn(mixed[n - 1], SubSeq(data, 4 * n - 3, 4 * n))
  IN  Avalanche(MixTail(mixed[words], SubSeq(data, 4 * words + 1, Len(data))))

\* partition_for: the sign bit masked off, modulo the partitions.
partition_for(key) ==
  LET h == [murmur2(key) EXCEPT ![4] = @ % 128]
      mod[i \in 1..5] == IF i = 5 THEN 0 ELSE (mod[i + 1] * 256 + h[i]) % Partitions
  IN  mod[1]

\* fanout: over how many partitions each group of rows is spread.
fanout(rows, columns, group, text) ==
  [g \in {row[group] : row \in rows} |->
     Cardinality({partition_for(key_json(row, columns, text)) :
                    row \in {row \in rows : row[group] = g}})]

\* split_rate: the groups of several rows, and those of them on several partitions.
split_rate(rows, columns, group, text) ==
  LET spread == fanout(rows, columns, group, text)
      splittable == {g \in DOMAIN spread :
                       Cardinality({row \in rows : row[group] = g}) > 1}
  IN  [groups |-> Cardinality(DOMAIN spread),
       splittable |-> Cardinality(splittable),
       split |-> Cardinality({g \in splittable : spread[g] > 1})]

=============================================================================
