---------------------- MODULE NetworkInformationProofs ----------------------
(* That the checksum of a section divides it, for every polynomial, every    *)
(* size of byte and every section that is constructed or accepted, and that  *)
(* a parser of any message makes no more than it reads: first what dvb_crc32 *)
(* computes, then what the calls of a section do to a message that is        *)
(* constructed, what they cost a parser, and what it has when it is through. *)
EXTENDS NetworkInformation, SequenceTheorems, WellFoundedInduction, TLAPS

\* induction up to n, for the proofs below
LEMMA UpTo ==
  ASSUME NEW n \in Nat, NEW P, 0 \in P, \A i \in 1..n : i - 1 \in P => i \in P
  PROVE  \A k \in 0..n : k \in P
<1> DEFINE Less == OpToRel(<, Nat)
           Lacking == {k \in 0..n : k \notin P}
<1>1. IsWellFoundedOn(Less, Nat)
  BY NatLessThanWellFounded
<1>2. \A m, k \in Nat : m < k => <<m, k>> \in Less
  BY DEF OpToRel
<1>3. Lacking \in SUBSET Nat
  OBVIOUS
<1>4. SUFFICES ASSUME Lacking # {} PROVE FALSE
  OBVIOUS
<1> HIDE DEF Less, Lacking
<1>5. PICK k \in Lacking : \A m \in Lacking : ~(<<m, k>> \in Less)
  BY <1>1, <1>3, <1>4, WFMin
<1>6. k \in 0..n /\ k \notin P
  BY <1>5 DEF Lacking
<1> DEFINE m == k - 1
<1>7. k \in 1..n /\ m \in 0..n /\ m \in Nat /\ k \in Nat /\ m < k
  BY <1>6
<1>8. m \notin P
  BY <1>6, <1>7
<1>9. m \in Lacking
  BY <1>7, <1>8 DEF Lacking
<1> HIDE DEF m
<1>10. QED BY <1>2, <1>5, <1>7, <1>9

\* f begins at base and takes a step for each of 1..n
Takes(f, S, base, n, Step) == /\ f \in [0..n -> S]
                              /\ f[0] = base
                              /\ \A i \in 1..n : f[i] = Step[<<i, f[i - 1]>>]

\* there is such a function
LEMMA Iterated ==
  ASSUME NEW S, NEW base \in S, NEW n \in Nat, NEW Step \in [(1..n) \X S -> S]
  PROVE  \E f : Takes(f, S, base, n, Step)
<1> DEFINE Upto(k, f) == /\ f \in [0..k -> S]
                         /\ f[0] = base
                         /\ \A i \in 1..k : f[i] = Step[<<i, f[i - 1]>>]
           P == {k \in 0..n : \E f : Upto(k, f)}
<1>1. 0 \in P
  <2>1. Upto(0, [i \in 0..0 |-> base])
    OBVIOUS
  <2> HIDE DEF Upto
  <2>2. QED BY <2>1
<1>2. ASSUME NEW k \in 1..n, k - 1 \in P PROVE k \in P
  <2> DEFINE m == k - 1
  <2>1. k \in Nat /\ m \in Nat /\ m < k /\ k # 0 /\ \A i \in 0..k : i = k \/ i \in 0..m
    OBVIOUS
  <2>2. PICK f : Upto(m, f)
    BY <1>2
  <2> DEFINE x == Step[<<k, f[m]>>]
             g == [i \in 0..k |-> IF i = k THEN x ELSE f[i]]
  <2>3. f[m] \in S
    BY <2>1, <2>2
  <2>4. x \in S
    BY <2>3
  <2>5. g \in [0..k -> S] /\ g[0] = base
    <3>1. \A i \in 0..m : f[i] \in S
      BY <2>2
    <3>2. 0 \in 0..k /\ f[0] = base
      BY <2>1, <2>2
    <3> HIDE DEF x, m, Upto
    <3>3. QED BY <2>1, <2>4, <3>1, <3>2
  <2>6. ASSUME NEW i \in 1..k PROVE g[i] = Step[<<i, g[i - 1]>>]
    <3> DEFINE j == i - 1
    <3>1. j \in 0..k /\ j # k /\ i \in 0..k /\ (i = k => j = m) /\ (i # k => i \in 1..m)
      BY <2>1
    <3>2. g[j] = f[j]
      BY <3>1
    <3>3. CASE i = k
      BY <3>1, <3>2, <3>3
    <3>4. CASE i # k
      <4>1. f[i] = Step[<<i, f[j]>>] /\ g[i] = f[i]
        BY <2>2, <3>1, <3>4
      <4>2. QED BY <3>2, <4>1
    <3>5. QED BY <3>3, <3>4
  <2>7. Upto(k, g)
    BY <2>5, <2>6
  <2> HIDE DEF Upto, g
  <2>8. QED BY <2>7
<1>3. \A k \in 0..n : k \in P
  <2> HIDE DEF P
  <2>1. QED BY <1>1, <1>2, UpTo
<1>4. n \in 0..n
  OBVIOUS
<1>5. PICK f : Upto(n, f)
  BY <1>3, <1>4
<1>6. QED BY <1>5 DEF Takes

\* and whatever follows the steps stays among what they lead to
Follows(v, S, base, n, Step) ==
  v[0] = base /\ \A i \in 1..n : v[i - 1] \in S => v[i] = Step[<<i, v[i - 1]>>]

LEMMA IteratedOnce ==
  ASSUME NEW S, NEW base \in S, NEW n \in Nat, NEW Step \in [(1..n) \X S -> S],
         NEW v, Follows(v, S, base, n, Step)
  PROVE  \A k \in 0..n : v[k] \in S
<1> USE DEF Follows
<1> DEFINE P == {k \in 0..n : v[k] \in S}
<1>1. 0 \in P
  OBVIOUS
<1>2. ASSUME NEW k \in 1..n, k - 1 \in P PROVE k \in P
  <2>1. v[k - 1] \in S
    BY <1>2
  <2>2. v[k] = Step[<<k, v[k - 1]>>]
    BY <2>1
  <2>3. QED BY <2>1, <2>2
<1> HIDE DEF P
<1>3. \A k \in 0..n : k \in P
  BY <1>1, <1>2, UpTo
<1>4. QED BY <1>3 DEF P

----------------------------------------------------------------------------
(* bits and the numbers they spell *)

LEMMA Widths == /\ ByteBits \in Nat /\ ByteBits >= 1
                /\ RegisterBits \in Nat /\ RegisterBits = 4 * ByteBits
                /\ 1 \in 1..RegisterBits /\ ByteBits \in 0..RegisterBits
BY ByteAssumption DEF RegisterBits

LEMMA WeightsRise ==
  \A n \in 0..RegisterBits : 2^n \in Nat /\ 2^n >= 1 /\ 2^(n + 1) = 2 * 2^n
<1> DEFINE p[n \in Nat] == 2^n
           P == {n \in 0..RegisterBits : p[n] >= 1}
<1>1. RegisterBits \in Nat
  BY Widths
<1>2. p[0] = 1 /\ \A n \in 0..RegisterBits : p[n] \in Nat /\ p[n + 1] = 2 * p[n]
  BY <1>1, WeightsAssumption
<1> HIDE DEF p
<1>3. 0 \in P
  BY <1>1, <1>2
<1>4. ASSUME NEW i \in 1..RegisterBits, i - 1 \in P PROVE i \in P
  <2> DEFINE j == i - 1
  <2>1. j \in 0..RegisterBits /\ j + 1 = i /\ i \in 0..RegisterBits /\ p[j] >= 1
    BY <1>1, <1>4
  <2> HIDE DEF j
  <2>2. p[j] \in Nat /\ p[i] = 2 * p[j]
    BY <1>2, <2>1
  <2>3. QED BY <2>1, <2>2
<1>5. \A n \in 0..RegisterBits : n \in P
  <2> HIDE DEF P
  <2>1. QED BY <1>1, <1>3, <1>4, UpTo
<1>6. \A n \in 0..RegisterBits : 2^n = p[n] /\ 2^(n + 1) = p[n + 1]
  BY <1>1 DEF p
<1>7. QED BY <1>2, <1>5, <1>6

\* there is one quotient
LEMMA Quotients ==
  ASSUME NEW d \in Nat, NEW q \in Nat, NEW r \in Nat, r < d
  PROVE  (d * q + r) \div d = q
<1> DEFINE a == d * q + r
           x == a \div d
<1>1. d * q \in Nat /\ a \in Nat
  OBVIOUS
<1>2. x \in Nat /\ d * x <= a /\ a < d * (x + 1)
  <2> HIDE DEF a
  <2>1. QED BY <1>1
<1> HIDE DEF x
<1>3. ASSUME x < q PROVE FALSE
  <2>1. d * (x + 1) <= d * q
    BY <1>2, <1>3
  <2>2. QED BY <1>1, <1>2, <2>1
<1>4. ASSUME q < x PROVE FALSE
  <2>1. d * (q + 1) <= d * x /\ d * (q + 1) = d * q + d
    BY <1>2, <1>4
  <2>2. d * x \in Nat /\ d * q + d <= d * x /\ d * x <= a
    BY <1>2, <2>1
  <2>3. QED BY <1>1, <2>2
<1>5. QED BY <1>2, <1>3, <1>4 DEF x

\* one more bit moves the others up
LEMMA OneBitMore ==
  ASSUME NEW h \in Nat, NEW s \in {0, 1}, NEW p \in Nat, p >= 1
  PROVE  (2 * h + s) \div (2 * p) = h \div p
<1> DEFINE q == h \div p
           r == h % p
           t == 2 * r + s
<1>1. q \in Nat /\ r \in 0..(p - 1) /\ h = p * q + r
  OBVIOUS
<1> HIDE DEF q, r
<1>2. p * q \in Nat /\ (2 * p) * q = 2 * (p * q)
  BY <1>1
<1>3. 2 * h + s = (2 * p) * q + t /\ t \in Nat /\ t < 2 * p
  BY <1>1, <1>2
<1>4. 2 * p \in Nat
  OBVIOUS
<1> HIDE DEF t
<1>5. (2 * h + s) \div (2 * p) = q
  BY <1>1, <1>3, <1>4, Quotients
<1>6. QED BY <1>5 DEF q

\* a bit is one
LEMMA BitIs ==
  ASSUME NEW val \in Nat, NEW i \in 0..RegisterBits
  PROVE  Bit(val, i) \in {0, 1}
<1>1. PICK d : d = 2^i
  OBVIOUS
<1>2. d \in Nat /\ d >= 1
  BY <1>1, WeightsRise
<1>3. val \div d \in Nat
  BY <1>2
<1>4. (val \div d) % 2 \in {0, 1}
  BY <1>3
<1>5. QED BY <1>1, <1>4 DEF Bit

\* the number that the first bits spell, for each number of them
LEMMA NumberRead ==
  ASSUME NEW n \in Nat, NEW bits \in [1..n -> {0, 1}]
  PROVE  \E read \in [0..n -> Nat] :
           /\ read[0] = 0
           /\ \A i \in 1..n : read[i] = 2 * read[i - 1] + bits[i]
           /\ NumberOf(bits) = read[n]
<1> DEFINE Step == [x \in (1..n) \X Nat |-> 2 * x[2] + bits[x[1]]]
           Reads(f) == f = [k \in 0..n |-> IF k = 0 THEN 0 ELSE 2 * f[k - 1] + bits[k]]
           read == CHOOSE f : Reads(f)
<1>1. Step \in [(1..n) \X Nat -> Nat] /\ 0 \in Nat
  OBVIOUS
<1>2. \A i \in 1..n, x \in Nat : Step[<<i, x>>] = 2 * x + bits[i]
  OBVIOUS
<1> HIDE DEF Step
<1>3. PICK f : Takes(f, Nat, 0, n, Step)
  BY <1>1, Iterated
<1>4. \A i \in 1..n : f[i] = 2 * f[i - 1] + bits[i]
  <2>1. ASSUME NEW i \in 1..n PROVE f[i - 1] \in Nat
    <3>1. i - 1 \in 0..n
      OBVIOUS
    <3>2. QED BY <1>3, <3>1 DEF Takes
  <2>2. QED BY <1>2, <1>3, <2>1 DEF Takes
<1>5. Reads(f)
  <2>1. \A k \in 0..n : k = 0 \/ k \in 1..n
    OBVIOUS
  <2>2. QED BY <1>3, <1>4, <2>1 DEF Takes
<1>6. Reads(read)
  BY <1>5
<1>7. Len(bits) = n
  BY LenProperties
<1>8. NumberOf(bits) = read[n]
  BY <1>7 DEF NumberOf
<1> HIDE DEF read
<1>9. read[0] = 0 /\ \A i \in 1..n : read[i] = 2 * read[i - 1] + bits[i]
  BY <1>6
<1>10. \A i \in 0..n : read[i] \in Nat
  <2>1. \A i \in 1..n : read[i - 1] \in Nat => read[i] = Step[<<i, read[i - 1]>>]
    BY <1>2, <1>9
  <2>2. Follows(read, Nat, 0, n, Step)
    BY <1>9, <2>1 DEF Follows
  <2>3. QED BY <1>1, <2>2, IteratedOnce
<1>11. read \in [0..n -> Nat]
  BY <1>6, <1>10
<1>12. QED BY <1>8, <1>9, <1>11

LEMMA BitsMoveUp ==
  ASSUME NEW v \in Nat, NEW b \in {0, 1}
  PROVE  /\ Bit(2 * v + b, 0) = b
         /\ \A j \in 0..(RegisterBits - 1) : Bit(2 * v + b, j + 1) = Bit(v, j)
<1>1. Bit(2 * v + b, 0) = b
  <2>1. 2^0 = 1
    BY WeightsAssumption
  <2>2. (2 * v + b) \div 1 = 2 * v + b /\ (2 * v + b) % 2 = b
    OBVIOUS
  <2>3. QED BY <2>1, <2>2 DEF Bit
<1>2. ASSUME NEW j \in 0..(RegisterBits - 1) PROVE Bit(2 * v + b, j + 1) = Bit(v, j)
  <2>1. PICK p : p = 2^j
    OBVIOUS
  <2>2. j \in 0..RegisterBits
    BY Widths
  <2>3. p \in Nat /\ p >= 1 /\ 2^(j + 1) = 2 * p
    BY <2>1, <2>2, WeightsRise
  <2>4. (2 * v + b) \div (2 * p) = v \div p
    BY <2>3, OneBitMore
  <2>5. QED BY <2>1, <2>3, <2>4 DEF Bit
<1>3. QED BY <1>1, <1>2

\* a number has the bits that spell it
LEMMA NumberSpells ==
  ASSUME NEW n \in 0..RegisterBits, NEW bits \in [1..n -> {0, 1}]
  PROVE  /\ NumberOf(bits) \in 0..(2^n - 1)
         /\ \A i \in 1..n : Bit(NumberOf(bits), n - i) = bits[i]
<1>1. n \in Nat /\ RegisterBits \in Nat /\ n <= RegisterBits
  BY Widths
<1>2. PICK read \in [0..n -> Nat] :
        /\ read[0] = 0
        /\ \A i \in 1..n : read[i] = 2 * read[i - 1] + bits[i]
        /\ NumberOf(bits) = read[n]
  BY <1>1, NumberRead
<1> DEFINE IsRead(k) == /\ read[k] < 2^k
                         /\ \A i \in 1..k : Bit(read[k], k - i) = bits[i]
           P == {k \in 0..n : IsRead(k)}
<1>3. 0 \in P
  BY <1>1, <1>2, WeightsAssumption
<1>4. ASSUME NEW k \in 1..n, k - 1 \in P PROVE k \in P
  <2> DEFINE m == k - 1
  <2>1. m \in 0..n /\ IsRead(m) /\ k = m + 1 /\ m \in 0..RegisterBits /\ k \in 0..n
    BY <1>1, <1>4
  <2>2. PICK v \in Nat : v = read[m]
    BY <1>2, <2>1
  <2>3. bits[k] \in {0, 1} /\ read[k] = 2 * v + bits[k]
    BY <1>2, <1>4, <2>2
  <2>4. read[k] < 2^k
    <3>1. PICK p : p = 2^m
      OBVIOUS
    <3> HIDE DEF m
    <3>2. p \in Nat /\ 2^k = 2 * p
      BY <2>1, <3>1, WeightsRise
    <3>3. v < p
      BY <2>1, <2>2, <3>1
    <3>4. 2 * v + bits[k] < 2 * p
      BY <2>3, <3>2, <3>3
    <3>5. QED BY <2>3, <3>2, <3>4
  <2>5. ASSUME NEW i \in 1..k PROVE Bit(read[k], k - i) = bits[i]
    <3>1. CASE i = k
      <4>1. Bit(2 * v + bits[k], 0) = bits[k]
        BY <2>2, <2>3, BitsMoveUp
      <4>2. PICK place : place = k - i
        OBVIOUS
      <4>3. place = 0
        BY <2>1, <3>1, <4>2
      <4>4. QED BY <2>3, <3>1, <4>1, <4>2, <4>3
    <3>2. CASE i # k
      <4> DEFINE j == m - i
      <4>1. i \in 1..m /\ j \in 0..(RegisterBits - 1) /\ k - i = j + 1
        BY <1>1, <2>1, <3>2
      <4>2. Bit(read[m], j) = bits[i]
        BY <2>1, <4>1
      <4> HIDE DEF j, m
      <4>3. Bit(2 * v + bits[k], j + 1) = Bit(v, j)
        BY <2>2, <2>3, <4>1, BitsMoveUp
      <4>4. QED BY <2>2, <2>3, <4>1, <4>2, <4>3
    <3>3. QED BY <3>1, <3>2
  <2>6. QED BY <2>1, <2>4, <2>5
<1>5. n \in P
  <2> HIDE DEF P
  <2>1. n \in 0..n
    BY <1>1
  <2>2. QED BY <1>1, <1>3, <1>4, <2>1, UpTo
<1>6. IsRead(n)
  BY <1>5
<1>7. NumberOf(bits) \in Nat
  BY <1>1, <1>2
<1>8. NumberOf(bits) \in 0..(2^n - 1)
  <2>1. PICK p : p = 2^n
    OBVIOUS
  <2>2. p \in Nat
    BY <2>1, WeightsRise
  <2>3. NumberOf(bits) < p
    BY <1>2, <1>6, <2>1
  <2>4. QED BY <1>7, <2>1, <2>2, <2>3
<1>9. QED BY <1>2, <1>6, <1>8

\* and the bits of a number spell it: those of one that is spelled by bits are
\* these bits
LEMMA SpelledBits ==
  ASSUME NEW n \in 0..RegisterBits, NEW bits \in [1..n -> {0, 1}]
  PROVE  BitsOf(NumberOf(bits), n) = bits
<1>1. \A i \in 1..n : Bit(NumberOf(bits), n - i) = bits[i]
  BY NumberSpells
<1>2. QED BY <1>1 DEF BitsOf

----------------------------------------------------------------------------
(* registers *)

LEMMA Shifted ==
  ASSUME NEW r \in Registers, NEW n \in 0..RegisterBits
  PROVE  /\ ShiftLeft(r, n) \in Registers
         /\ \A i \in 1..RegisterBits :
              ShiftLeft(r, n)[i] = IF i + n <= RegisterBits THEN r[i + n] ELSE 0
<1> DEFINE W == RegisterBits
           low == SubSeq(r, n + 1, W)
           none == [i \in 1..n |-> 0]
           s == low \o none
<1>1. W \in Nat /\ n \in Nat /\ n <= W
  BY Widths
<1>2. r \in Seq({0, 1}) /\ Len(r) = W /\ none \in Seq({0, 1}) /\ Len(none) = n
  <2> HIDE DEF W
  <2>1. r \in [1..W -> {0, 1}] /\ none \in [1..n -> {0, 1}]
    BY DEF W, Registers
  <2>2. QED BY <1>1, <2>1, LenProperties, IsASeq
<1>3. ShiftLeft(r, n) = s
  BY <1>2 DEF ShiftLeft
<1>4. low \in Seq({0, 1}) /\ Len(low) = W - n /\ \A i \in 1..(W - n) : low[i] = r[i + n]
  <2> DEFINE m == n + 1
  <2> HIDE DEF W
  <2>1. \A i \in m..W : r[i] \in {0, 1}
    BY <1>1 DEF Registers, W
  <2>2. m \in Int /\ W \in Int /\ m >= 1
    BY <1>1
  <2> HIDE DEF m
  <2>3. /\ low \in Seq({0, 1})
        /\ Len(low) = IF m <= W THEN W - m + 1 ELSE 0
        /\ \A i \in 1..(W - m + 1) : low[i] = r[m + i - 1]
    BY <2>1, <2>2, SubSeqProperties DEF m
  <2>4. W - m + 1 = W - n /\ \A i \in 1..(W - n) : m + i - 1 = i + n
    BY <1>1 DEF m
  <2>5. QED BY <1>1, <2>3, <2>4 DEF m
<1> HIDE DEF low, none, W
<1>5. /\ s \in Seq({0, 1}) /\ Len(s) = W
      /\ \A i \in 1..W : s[i] = IF i <= W - n THEN low[i] ELSE none[i - (W - n)]
  <2>1. /\ s \in Seq({0, 1}) /\ Len(s) = Len(low) + Len(none)
        /\ \A i \in 1..(Len(low) + Len(none)) :
             s[i] = IF i <= Len(low) THEN low[i] ELSE none[i - Len(low)]
    BY <1>2, <1>4, ConcatProperties
  <2>2. Len(low) + Len(none) = W
    BY <1>1, <1>2, <1>4
  <2>3. QED BY <1>4, <2>1, <2>2
<1>6. s \in [1..W -> {0, 1}]
  BY <1>5, LenProperties, ElementOfSeq
<1>7. ASSUME NEW i \in 1..W PROVE s[i] = IF i + n <= W THEN r[i + n] ELSE 0
  <2>1. CASE i <= W - n
    <3>1. i \in 1..(W - n) /\ i + n <= W
      BY <1>1, <2>1
    <3>2. QED BY <1>4, <1>5, <2>1, <3>1
  <2>2. CASE ~(i <= W - n)
    <3>1. i - (W - n) \in 1..n /\ ~(i + n <= W)
      BY <1>1, <2>2
    <3>2. none[i - (W - n)] = 0
      BY <3>1 DEF none
    <3>3. QED BY <1>5, <2>2, <3>1, <3>2
  <2>3. QED BY <2>1, <2>2
<1>8. QED BY <1>3, <1>6, <1>7 DEF W, Registers

LEMMA Xored ==
  ASSUME NEW n \in Nat, NEW r \in [1..n -> {0, 1}], NEW s \in [1..n -> {0, 1}]
  PROVE  /\ Xor(r, s) \in [1..n -> {0, 1}]
         /\ \A i \in 1..n : Xor(r, s)[i] = (r[i] + s[i]) % 2
BY DEF Xor

LEMMA Divided ==
  ASSUME NEW r \in Registers, NEW bit
  PROVE  /\ Divide(r, bit) \in Registers
         /\ \A i \in 1..RegisterBits :
              Divide(r, bit)[i] =
                IF r[1] # bit THEN (ShiftLeft(r, 1)[i] + Polynomial[i]) % 2
                ELSE ShiftLeft(r, 1)[i]
<1>1. 1 \in 0..RegisterBits /\ RegisterBits \in Nat
  BY Widths
<1>2. ShiftLeft(r, 1) \in Registers
  BY <1>1, Shifted
<1>3. Polynomial \in Registers
  BY PolynomialAssumption
<1>4. /\ Xor(ShiftLeft(r, 1), Polynomial) \in Registers
      /\ \A i \in 1..RegisterBits :
           Xor(ShiftLeft(r, 1), Polynomial)[i] = (ShiftLeft(r, 1)[i] + Polynomial[i]) % 2
  BY <1>1, <1>2, <1>3, Xored DEF Registers
<1>5. QED BY <1>2, <1>4 DEF Divide

\* the division of a byte, bit by bit
DividesByte(after, r, byte) ==
  /\ after \in [0..ByteBits -> Registers]
  /\ after[0] = r
  /\ \A i \in 1..ByteBits : after[i] = Divide(after[i - 1], Bit(byte, ByteBits - i))
  /\ DivideByte(r, byte) = after[ByteBits]

LEMMA ByteDivided ==
  ASSUME NEW r \in Registers, NEW byte
  PROVE  \E after : DividesByte(after, r, byte)
<1> DEFINE n == ByteBits
           Step == [x \in (1..n) \X Registers |-> Divide(x[2], Bit(byte, n - x[1]))]
           Runs(f) == f = [k \in 0..n |-> IF k = 0 THEN r
                                          ELSE Divide(f[k - 1], Bit(byte, n - k))]
           after == CHOOSE f : Runs(f)
<1>1. n \in Nat
  BY Widths
<1>2. Step \in [(1..n) \X Registers -> Registers]
  BY Divided
<1>3. \A i \in 1..n, x \in Registers : Step[<<i, x>>] = Divide(x, Bit(byte, n - i))
  OBVIOUS
<1> HIDE DEF Step
<1>4. PICK f : Takes(f, Registers, r, n, Step)
  <2> HIDE DEF n
  <2>1. QED BY <1>1, <1>2, Iterated
<1>5. \A i \in 1..n : f[i] = Divide(f[i - 1], Bit(byte, n - i))
  <2>1. ASSUME NEW i \in 1..n PROVE f[i - 1] \in Registers
    <3>1. i - 1 \in 0..n
      BY <1>1
    <3>2. QED BY <1>4, <3>1 DEF Takes
  <2>2. QED BY <1>3, <1>4, <2>1 DEF Takes
<1>6. Runs(f)
  <2>1. \A k \in 0..n : k = 0 \/ k \in 1..n
    BY <1>1
  <2>2. QED BY <1>4, <1>5, <2>1 DEF Takes
<1>7. Runs(after)
  BY <1>6
<1>8. DivideByte(r, byte) = after[n]
  BY DEF DivideByte
<1> HIDE DEF after
<1>9. after[0] = r /\ \A i \in 1..n : after[i] = Divide(after[i - 1], Bit(byte, n - i))
  <2>1. 0 \in 0..n /\ \A i \in 1..n : i \in 0..n /\ i # 0
    BY <1>1
  <2>2. QED BY <1>7, <2>1
<1>10. \A i \in 0..n : after[i] \in Registers
  <2>1. \A i \in 1..n : after[i - 1] \in Registers => after[i] = Step[<<i, after[i - 1]>>]
    BY <1>3, <1>9
  <2> HIDE DEF n
  <2>2. Follows(after, Registers, r, n, Step)
    BY <1>9, <2>1 DEF Follows
  <2>3. QED BY <1>1, <1>2, <2>2, IteratedOnce
<1>11. after \in [0..n -> Registers]
  BY <1>7, <1>10
<1>12. QED BY <1>8, <1>9, <1>11 DEF DividesByte

LEMMA SameRegister ==
  ASSUME NEW r \in Registers, NEW s \in Registers, \A i \in 1..RegisterBits : r[i] = s[i]
  PROVE  r = s
<1>1. r = [i \in 1..RegisterBits |-> r[i]] /\ s = [i \in 1..RegisterBits |-> s[i]]
  BY DEF Registers
<1>2. [i \in 1..RegisterBits |-> r[i]] = [i \in 1..RegisterBits |-> s[i]]
  OBVIOUS
<1>3. QED BY <1>1, <1>2

LEMMA ShiftedTwice ==
  ASSUME NEW r \in Registers, NEW m \in Nat, NEW n \in Nat, m + n <= RegisterBits
  PROVE  ShiftLeft(ShiftLeft(r, m), n) = ShiftLeft(r, m + n)
<1> DEFINE s == ShiftLeft(r, m)
           k == m + n
<1>1. RegisterBits \in Nat
  BY Widths
<1>2. m \in 0..RegisterBits /\ n \in 0..RegisterBits /\ k \in 0..RegisterBits
  BY <1>1
<1>3. s \in Registers /\ ShiftLeft(r, k) \in Registers /\ ShiftLeft(s, n) \in Registers
  <2> HIDE DEF s, k
  <2>1. s \in Registers
    BY <1>2, Shifted DEF s
  <2>2. QED BY <1>2, <2>1, Shifted
<1>4. ASSUME NEW i \in 1..RegisterBits PROVE ShiftLeft(s, n)[i] = ShiftLeft(r, k)[i]
  <2> HIDE DEF s, k
  <2>1. ShiftLeft(s, n)[i] = IF i + n <= RegisterBits THEN s[i + n] ELSE 0
    BY <1>2, <1>3, Shifted
  <2>2. \A j \in 1..RegisterBits : s[j] = IF j + m <= RegisterBits THEN r[j + m] ELSE 0
    BY <1>2, Shifted DEF s
  <2>3. ShiftLeft(r, k)[i] = IF i + k <= RegisterBits THEN r[i + k] ELSE 0
    BY <1>2, Shifted
  <2>4. i + k = (i + n) + m
    BY <1>1 DEF k
  <2> DEFINE j == i + n
  <2>5. j \in Nat /\ j >= 1 /\ i + k = j + m
    BY <2>4
  <2>6. CASE j <= RegisterBits
    <3>1. j \in 1..RegisterBits
      BY <1>1, <2>5, <2>6
    <3> HIDE DEF j
    <3>2. s[j] = IF j + m <= RegisterBits THEN r[j + m] ELSE 0
      BY <2>2, <3>1
    <3>3. ShiftLeft(s, n)[i] = s[j]
      BY <2>1, <2>6 DEF j
    <3>4. QED BY <2>3, <2>5, <3>2, <3>3
  <2>7. CASE ~(j <= RegisterBits)
    <3>1. ~(i + k <= RegisterBits)
      BY <1>1, <2>5, <2>7
    <3>2. QED BY <2>1, <2>3, <2>7, <3>1
  <2>8. QED BY <2>6, <2>7
<1> HIDE DEF s, k
<1>5. ShiftLeft(s, n) = ShiftLeft(r, k)
  BY <1>3, <1>4, SameRegister
<1>6. QED BY <1>5 DEF s, k

LEMMA ShiftedNot ==
  ASSUME NEW r \in Registers
  PROVE  ShiftLeft(r, 0) = r
<1>1. RegisterBits \in Nat /\ 0 \in 0..RegisterBits
  BY Widths
<1>2. /\ ShiftLeft(r, 0) \in Registers
      /\ \A i \in 1..RegisterBits :
           ShiftLeft(r, 0)[i] = IF i + 0 <= RegisterBits THEN r[i + 0] ELSE 0
  BY <1>1, Shifted
<1>3. \A i \in 1..RegisterBits : ShiftLeft(r, 0)[i] = r[i]
  <2>1. \A i \in 1..RegisterBits : i + 0 = i /\ i <= RegisterBits
    BY <1>1
  <2>2. QED BY <1>2, <2>1
<1>4. QED BY <1>2, <1>3, SameRegister

Sums(h, c, e) == \A i \in 1..RegisterBits : h[i] = (c[i] + e[i]) % 2

\* division is linear: a sum takes in a bit as one of its parts does, when the
\* other part is only shifted and its own leading bit is taken in as well
LEMMA DividedTogether ==
  ASSUME NEW c \in Registers, NEW e \in Registers, NEW h \in Registers, Sums(h, c, e),
         NEW b \in {0, 1}, NEW y, y = (c[1] + b) % 2
  PROVE  Sums(Divide(h, b), ShiftLeft(c, 1), Divide(e, y))
<1>0. \A i \in 1..RegisterBits : h[i] = (c[i] + e[i]) % 2
  BY DEF Sums
<1> SUFFICES ASSUME NEW i \in 1..RegisterBits
             PROVE  Divide(h, b)[i] = (ShiftLeft(c, 1)[i] + Divide(e, y)[i]) % 2
  BY DEF Sums
<1> DEFINE sc == ShiftLeft(c, 1)[i]
           se == ShiftLeft(e, 1)[i]
           sh == ShiftLeft(h, 1)[i]
<1>1. 1 \in 0..RegisterBits /\ RegisterBits \in Nat /\ 1 \in 1..RegisterBits
  BY Widths
<1>2. /\ ShiftLeft(c, 1) \in Registers /\ ShiftLeft(e, 1) \in Registers
      /\ sc = IF i + 1 <= RegisterBits THEN c[i + 1] ELSE 0
      /\ se = IF i + 1 <= RegisterBits THEN e[i + 1] ELSE 0
      /\ sh = IF i + 1 <= RegisterBits THEN h[i + 1] ELSE 0
  BY <1>1, Shifted
<1>3. sc \in {0, 1} /\ se \in {0, 1} /\ Polynomial[i] \in {0, 1}
  BY <1>2, PolynomialAssumption DEF Registers
<1>4. Divide(h, b)[i] = IF h[1] # b THEN (sh + Polynomial[i]) % 2 ELSE sh
  BY Divided
<1>5. Divide(e, y)[i] = IF e[1] # y THEN (se + Polynomial[i]) % 2 ELSE se
  BY Divided
<1> HIDE DEF sc, se, sh
<1>6. sh = (sc + se) % 2
  <2>1. CASE i + 1 <= RegisterBits
    <3> DEFINE j == i + 1
    <3>1. j \in 1..RegisterBits
      BY <1>1, <2>1
    <3>2. sc = c[j] /\ se = e[j] /\ sh = h[j]
      BY <1>2, <2>1
    <3> HIDE DEF j
    <3>3. QED BY <1>0, <3>1, <3>2
  <2>2. CASE ~(i + 1 <= RegisterBits)
    <3>1. sc = 0 /\ se = 0 /\ sh = 0
      BY <1>2, <2>2
    <3>2. QED BY <3>1
  <2>3. QED BY <2>1, <2>2
<1>7. (h[1] # b) <=> (e[1] # y)
  <2>1. PICK c1, e1, h1 : c1 = c[1] /\ e1 = e[1] /\ h1 = h[1]
    OBVIOUS
  <2>2. c1 \in {0, 1} /\ e1 \in {0, 1} /\ h1 = (c1 + e1) % 2 /\ y = (c1 + b) % 2
    BY <1>0, <1>1, <2>1 DEF Registers
  <2>3. (h1 # b) <=> (e1 # y)
    BY <2>2
  <2>4. QED BY <2>1, <2>3
<1>8. PICK p : p = Polynomial[i]
  OBVIOUS
<1>9. (sh + p) % 2 = (sc + ((se + p) % 2)) % 2
  BY <1>3, <1>6, <1>8
<1>10. Divide(h, b)[i] = (sc + Divide(e, y)[i]) % 2
  <2>1. CASE h[1] # b
    BY <1>4, <1>5, <1>7, <1>8, <1>9, <2>1
  <2>2. CASE h[1] = b
    BY <1>4, <1>5, <1>6, <1>7, <2>2
  <2>3. QED BY <2>1, <2>2
<1>11. QED BY <1>10 DEF sc

LEMMA Bytes ==
  /\ 2^ByteBits \in Nat
  /\ \A byte \in 0..(2^ByteBits - 1) :
       /\ byte \in Nat
       /\ BitsOf(byte, ByteBits) \in [1..ByteBits -> {0, 1}]
       /\ \A i \in 1..ByteBits : BitsOf(byte, ByteBits)[i] = Bit(byte, ByteBits - i)
<1>1. ByteBits \in Nat /\ ByteBits \in 0..RegisterBits /\ RegisterBits \in Nat
  BY Widths
<1>2. 2^ByteBits \in Nat
  BY <1>1, WeightsRise
<1>3. ASSUME NEW byte \in 0..(2^ByteBits - 1), NEW i \in 1..ByteBits
      PROVE  Bit(byte, ByteBits - i) \in {0, 1}
  <2>1. byte \in Nat
    BY <1>2
  <2>2. ByteBits - i \in 0..RegisterBits
    BY <1>1
  <2>3. QED BY <2>1, <2>2, BitIs
<1>4. QED BY <1>2, <1>3 DEF BitsOf

LEMMA StartingRegisters == Zeros \in Registers /\ Ones \in Registers
BY DEF Zeros, Ones, Registers

\* A round of the loop divides by a byte: the register, shifted, and what the
\* table says add up to the register after the byte, bit by bit
LEMMA RoundDivides ==
  ASSUME NEW r \in Registers, NEW byte \in 0..(2^ByteBits - 1)
  PROVE  Take(r, byte) = DivideByte(r, byte) /\ DivideByte(r, byte) \in Registers
<1> DEFINE lead == LeadingByte(r)
           bits == BitsOf(byte, ByteBits)
           x == Xor(lead, bits)
           v == NumberOf(x)
<1>1. /\ ByteBits \in Nat /\ ByteBits >= 1 /\ RegisterBits \in Nat
      /\ ByteBits \in 0..RegisterBits /\ ByteBits <= RegisterBits
  BY Widths
<1>2. bits \in [1..ByteBits -> {0, 1}] /\ \A i \in 1..ByteBits : bits[i] = Bit(byte, ByteBits - i)
  BY Bytes
<1>3. lead \in [1..ByteBits -> {0, 1}] /\ \A i \in 1..ByteBits : lead[i] = r[i]
  <2>1. \A i \in 1..ByteBits : i \in 1..RegisterBits
    BY <1>1
  <2>2. QED BY <2>1 DEF LeadingByte, Registers
<1> HIDE DEF lead, bits
<1>4. x \in [1..ByteBits -> {0, 1}] /\ \A i \in 1..ByteBits : x[i] = (lead[i] + bits[i]) % 2
  BY <1>1, <1>2, <1>3, Xored
<1> HIDE DEF x
<1>5. v \in 0..(2^ByteBits - 1) /\ \A i \in 1..ByteBits : Bit(v, ByteBits - i) = x[i]
  BY <1>1, <1>4, NumberSpells
<1> HIDE DEF v
<1>6. crc_table[v] = DivideByte(Zeros, v)
  BY <1>5 DEF crc_table
<1>7. Take(r, byte) = Xor(ShiftLeft(r, ByteBits), DivideByte(Zeros, v))
  BY <1>6 DEF Take, v, x, lead, bits
<1>8. PICK f : DividesByte(f, r, byte)
  BY ByteDivided
<1>9. PICK g : DividesByte(g, Zeros, v)
  BY StartingRegisters, ByteDivided
<1>10. /\ f[0] = r /\ g[0] = Zeros
       /\ \A i \in 0..ByteBits : f[i] \in Registers /\ g[i] \in Registers
       /\ \A i \in 1..ByteBits : /\ f[i] = Divide(f[i - 1], Bit(byte, ByteBits - i))
                                /\ g[i] = Divide(g[i - 1], Bit(v, ByteBits - i))
       /\ DivideByte(r, byte) = f[ByteBits] /\ DivideByte(Zeros, v) = g[ByteBits]
  BY <1>8, <1>9 DEF DividesByte
<1> DEFINE Adds(k) == Sums(f[k], ShiftLeft(r, k), g[k])
           P == {k \in 0..ByteBits : Adds(k)}
<1>11. 0 \in P
  <2>1. ShiftLeft(r, 0) = r
    BY ShiftedNot
  <2>2. \A i \in 1..RegisterBits : r[i] \in {0, 1} /\ Zeros[i] = 0
    BY DEF Registers, Zeros
  <2>3. ASSUME NEW i \in 1..RegisterBits PROVE r[i] = (r[i] + Zeros[i]) % 2
    BY <2>2
  <2>4. 0 \in 0..ByteBits
    BY <1>1
  <2>5. QED BY <1>10, <2>1, <2>3, <2>4 DEF Sums
<1>12. ASSUME NEW k \in 1..ByteBits, k - 1 \in P PROVE k \in P
  <2> DEFINE m == k - 1
             c == ShiftLeft(r, m)
             h == f[m]
             e == g[m]
             b == Bit(byte, ByteBits - k)
             y == Bit(v, ByteBits - k)
  <2>1. /\ m \in 0..ByteBits /\ m \in Nat /\ m + 1 = k /\ m \in 0..RegisterBits
        /\ m + 1 <= RegisterBits /\ Adds(m) /\ k \in 0..ByteBits
    BY <1>1, <1>12
  <2>2. h \in Registers /\ e \in Registers
    BY <1>10, <2>1
  <2>3. f[k] = Divide(h, b) /\ g[k] = Divide(e, y)
    BY <1>10
  <2>4. Sums(h, c, e)
    BY <2>1
  <2> HIDE DEF m
  <2>5. c \in Registers /\ ShiftLeft(c, 1) = ShiftLeft(r, k)
    <3>1. ShiftLeft(ShiftLeft(r, m), 1) = ShiftLeft(r, m + 1)
      BY <2>1, ShiftedTwice
    <3>2. QED BY <2>1, <3>1, Shifted
  <2>6. b \in {0, 1} /\ y = (c[1] + b) % 2
    <3>1. c[1] = r[k]
      <4>1. c[1] = IF 1 + m <= RegisterBits THEN r[1 + m] ELSE 0
        BY <2>1, Widths, Shifted
      <4>2. 1 + m = k
        BY <2>1
      <4>3. QED BY <2>1, <4>1, <4>2
    <3>2. b = bits[k] /\ bits[k] \in {0, 1} /\ y = x[k] /\ x[k] = (lead[k] + bits[k]) % 2
          /\ lead[k] = r[k]
      BY <1>2, <1>3, <1>4, <1>5
    <3>3. QED BY <3>1, <3>2
  <2> HIDE DEF c, h, e, b, y
  <2>7. Sums(Divide(h, b), ShiftLeft(c, 1), Divide(e, y))
    BY <2>2, <2>4, <2>5, <2>6, DividedTogether
  <2>8. Adds(k)
    BY <2>3, <2>5, <2>7
  <2>9. QED BY <2>1, <2>8
<1>13. Adds(ByteBits)
  <2> HIDE DEF P
  <2>1. ByteBits \in 0..ByteBits
    BY <1>1
  <2>2. ByteBits \in P
    BY <1>1, <1>11, <1>12, <2>1, UpTo
  <2>3. QED BY <2>2 DEF P
<1>14. f[ByteBits] \in Registers /\ g[ByteBits] \in Registers
       /\ ShiftLeft(r, ByteBits) \in Registers
  <2>1. ByteBits \in 0..ByteBits
    BY <1>1
  <2>2. QED BY <1>1, <1>10, <2>1, Shifted
<1> DEFINE s == ShiftLeft(r, ByteBits)
           t == g[ByteBits]
           u == f[ByteBits]
<1>15. \A i \in 1..RegisterBits : u[i] = (s[i] + t[i]) % 2
  BY <1>13 DEF Sums
<1> HIDE DEF s, t, u
<1>16. s \in Registers /\ t \in Registers /\ u \in Registers
  BY <1>14 DEF s, t, u
<1>17. Xor(s, t) \in Registers /\ \A i \in 1..RegisterBits : Xor(s, t)[i] = (s[i] + t[i]) % 2
  BY <1>1, <1>16, Xored DEF Registers
<1>18. Xor(s, t) = u
  BY <1>15, <1>16, <1>17, SameRegister
<1>19. QED BY <1>7, <1>10, <1>16, <1>18 DEF s, t, u

\* a register is divided by its own leading byte: nothing but zeros come in
LEMMA OwnByteShifts ==
  ASSUME NEW r \in Registers, NEW byte, \A i \in 1..ByteBits : Bit(byte, ByteBits - i) = r[i]
  PROVE  DivideByte(r, byte) = ShiftLeft(r, ByteBits)
<1>1. ByteBits \in Nat /\ ByteBits >= 1 /\ RegisterBits \in Nat /\ ByteBits <= RegisterBits
  BY Widths
<1>2. PICK f : /\ f[0] = r
               /\ \A i \in 1..ByteBits : f[i] = Divide(f[i - 1], Bit(byte, ByteBits - i))
               /\ DivideByte(r, byte) = f[ByteBits]
  BY ByteDivided DEF DividesByte
<1> DEFINE P == {k \in 0..ByteBits : f[k] = ShiftLeft(r, k)}
<1>3. 0 \in P
  BY <1>1, <1>2, ShiftedNot
<1>4. ASSUME NEW k \in 1..ByteBits, k - 1 \in P PROVE k \in P
  <2> DEFINE m == k - 1
             c == ShiftLeft(r, m)
  <2>1. /\ m \in Nat /\ m + 1 = k /\ m \in 0..RegisterBits /\ m + 1 <= RegisterBits
        /\ k \in 0..ByteBits /\ f[m] = c
    BY <1>1, <1>4
  <2>2. f[k] = Divide(c, r[k])
    BY <1>2, <1>4, <2>1
  <2> HIDE DEF m
  <2>3. c[1] = r[k]
    <3>1. c[1] = IF 1 + m <= RegisterBits THEN r[1 + m] ELSE 0
      BY <2>1, Widths, Shifted
    <3>2. 1 + m = k
      BY <2>1
    <3>3. QED BY <2>1, <3>1, <3>2
  <2>4. Divide(c, r[k]) = ShiftLeft(c, 1)
    BY <2>3 DEF Divide
  <2>5. ShiftLeft(ShiftLeft(r, m), 1) = ShiftLeft(r, m + 1)
    BY <2>1, ShiftedTwice
  <2>6. QED BY <2>1, <2>2, <2>4, <2>5
<1>5. ByteBits \in P
  <2> HIDE DEF P
  <2>1. ByteBits \in 0..ByteBits
    BY <1>1
  <2>2. QED BY <1>1, <1>3, <1>4, <2>1, UpTo
<1>6. QED BY <1>2, <1>5

----------------------------------------------------------------------------
(* the checksum *)

ByteRange == 0..(2^ByteBits - 1)

\* the division of bytes, one by one
DividesBytes(after, bytes, n) ==
  /\ after \in [0..n -> Registers]
  /\ after[0] = Ones
  /\ \A i \in 1..n : after[i] = DivideByte(after[i - 1], bytes[i])
  /\ Remainder(bytes) = after[n]

LEMMA BytesDivided ==
  ASSUME NEW n \in Nat, NEW bytes \in [1..n -> ByteRange]
  PROVE  \E after : DividesBytes(after, bytes, n)
<1> DEFINE Step == [x \in (1..n) \X Registers |-> DivideByte(x[2], bytes[x[1]])]
           Runs(f) == f = [k \in 0..n |-> IF k = 0 THEN Ones ELSE DivideByte(f[k - 1], bytes[k])]
           after == CHOOSE f : Runs(f)
<1>1. \A i \in 1..n, x \in Registers : DivideByte(x, bytes[i]) \in Registers
  <2>1. \A i \in 1..n : bytes[i] \in 0..(2^ByteBits - 1)
    BY DEF ByteRange
  <2>2. QED BY <2>1, RoundDivides
<1>2. Step \in [(1..n) \X Registers -> Registers]
  BY <1>1
<1>3. \A i \in 1..n, x \in Registers : Step[<<i, x>>] = DivideByte(x, bytes[i])
  OBVIOUS
<1> HIDE DEF Step
<1>4. PICK f : Takes(f, Registers, Ones, n, Step)
  BY <1>2, StartingRegisters, Iterated
<1>5. \A i \in 1..n : f[i] = DivideByte(f[i - 1], bytes[i])
  <2>1. ASSUME NEW i \in 1..n PROVE f[i - 1] \in Registers
    <3>1. i - 1 \in 0..n
      OBVIOUS
    <3>2. QED BY <1>4, <3>1 DEF Takes
  <2>2. QED BY <1>3, <1>4, <2>1 DEF Takes
<1>6. Runs(f)
  <2>1. \A k \in 0..n : k = 0 \/ k \in 1..n
    OBVIOUS
  <2>2. QED BY <1>4, <1>5, <2>1 DEF Takes
<1>7. Runs(after)
  BY <1>6
<1>8. Remainder(bytes) = after[n]
  <2>1. Len(bytes) = n
    BY LenProperties
  <2>2. QED BY <2>1 DEF Remainder
<1> HIDE DEF after
<1>9. after[0] = Ones /\ \A i \in 1..n : after[i] = DivideByte(after[i - 1], bytes[i])
  <2>1. 0 \in 0..n /\ \A i \in 1..n : i \in 0..n /\ i # 0
    OBVIOUS
  <2>2. QED BY <1>7, <2>1
<1>10. \A i \in 0..n : after[i] \in Registers
  <2>1. \A i \in 1..n : after[i - 1] \in Registers => after[i] = Step[<<i, after[i - 1]>>]
    BY <1>3, <1>9
  <2>2. Follows(after, Registers, Ones, n, Step)
    BY <1>9, <2>1 DEF Follows
  <2>3. QED BY <1>2, <2>2, StartingRegisters, IteratedOnce
<1>11. after \in [0..n -> Registers]
  BY <1>7, <1>10
<1>12. QED BY <1>8, <1>9, <1>11 DEF DividesBytes

LEMMA TableDividesEach ==
  ASSUME NEW n \in Nat, NEW bytes \in [1..n -> ByteRange]
  PROVE  dvb_crc32(bytes) = Remainder(bytes)
<1> DEFINE Runs(f) == f = [k \in 0..n |-> IF k = 0 THEN Ones ELSE Take(f[k - 1], bytes[k])]
           crc == CHOOSE f : Runs(f)
<1>1. PICK after : DividesBytes(after, bytes, n)
  BY BytesDivided
<1>2. \A i \in 1..n, x \in Registers : Take(x, bytes[i]) = DivideByte(x, bytes[i])
  <2>1. \A i \in 1..n : bytes[i] \in 0..(2^ByteBits - 1)
    BY DEF ByteRange
  <2>2. QED BY <2>1, RoundDivides
<1>3. \A i \in 1..n : after[i - 1] \in Registers
  <2>1. \A i \in 1..n : i - 1 \in 0..n
    OBVIOUS
  <2>2. QED BY <1>1, <2>1 DEF DividesBytes
<1>4. Runs(after)
  <2>1. \A i \in 1..n : after[i] = Take(after[i - 1], bytes[i])
    BY <1>1, <1>2, <1>3 DEF DividesBytes
  <2>2. \A k \in 0..n : k = 0 \/ k \in 1..n
    OBVIOUS
  <2>3. QED BY <1>1, <2>1, <2>2 DEF DividesBytes
<1>5. Runs(crc)
  BY <1>4
<1>6. dvb_crc32(bytes) = crc[n]
  <2>1. Len(bytes) = n
    BY LenProperties
  <2>2. QED BY <2>1 DEF dvb_crc32
<1> HIDE DEF crc
<1>7. crc[0] = Ones /\ \A i \in 1..n : crc[i] = Take(crc[i - 1], bytes[i])
  <2>1. 0 \in 0..n /\ \A i \in 1..n : i \in 0..n /\ i # 0
    OBVIOUS
  <2>2. QED BY <1>5, <2>1
<1> DEFINE P == {k \in 0..n : crc[k] = after[k]}
<1>8. 0 \in P
  BY <1>1, <1>7 DEF DividesBytes
<1>9. ASSUME NEW i \in 1..n, i - 1 \in P PROVE i \in P
  <2>1. crc[i - 1] = after[i - 1] /\ i \in 0..n
    BY <1>9
  <2>2. QED BY <1>1, <1>2, <1>3, <1>7, <2>1 DEF DividesBytes
<1>10. n \in P
  <2> HIDE DEF P
  <2>1. n \in 0..n
    OBVIOUS
  <2>2. QED BY <1>8, <1>9, <2>1, UpTo
<1>11. QED BY <1>1, <1>6, <1>10 DEF DividesBytes

\* dvb_crc32 of src/src/crc.cpp, which looks bytes up in a table and shifts the
\* register by eight bits at a time, is the division of polynomials bit by bit:
\* for every polynomial and whatever bytes it is given
THEOREM TableDivides ==
  \A bytes \in Seq(0..(2^ByteBits - 1)) : dvb_crc32(bytes) = Remainder(bytes)
<1>1. SUFFICES ASSUME NEW bytes \in Seq(0..(2^ByteBits - 1))
               PROVE  dvb_crc32(bytes) = Remainder(bytes)
  OBVIOUS
<1>2. Len(bytes) \in Nat /\ bytes \in [1..Len(bytes) -> ByteRange]
  BY LenProperties, ElementOfSeq DEF ByteRange
<1>3. QED BY <1>2, TableDividesEach

\* the i-th byte of a register, the weightiest first
ByteOf(r, i) == NumberOf([j \in 1..ByteBits |-> r[(i - 1) * ByteBits + j]])

LEMMA RegisterBytes ==
  ASSUME NEW r \in Registers, NEW i \in 1..4
  PROVE  /\ \A j \in 1..ByteBits : (i - 1) * ByteBits + j \in 1..RegisterBits
         /\ [j \in 1..ByteBits |-> r[(i - 1) * ByteBits + j]] \in [1..ByteBits -> {0, 1}]
         /\ ByteOf(r, i) \in ByteRange
<1>1. /\ ByteBits \in Nat /\ RegisterBits = 4 * ByteBits /\ ByteBits \in 0..RegisterBits
  BY Widths
<1>2. PICK p : p = (i - 1) * ByteBits
  OBVIOUS
<1>3. p \in Nat /\ p + ByteBits <= RegisterBits
  <2>1. i \in {1, 2, 3, 4}
    OBVIOUS
  <2>2. QED BY <1>1, <1>2, <2>1
<1>4. \A j \in 1..ByteBits : p + j \in 1..RegisterBits
  BY <1>1, <1>3
<1>5. [j \in 1..ByteBits |-> r[p + j]] \in [1..ByteBits -> {0, 1}]
  BY <1>4 DEF Registers
<1>6. NumberOf([j \in 1..ByteBits |-> r[p + j]]) \in 0..(2^ByteBits - 1)
  BY <1>1, <1>5, NumberSpells
<1>7. QED BY <1>2, <1>4, <1>5, <1>6 DEF ByteOf, ByteRange

\* A checksum that is sent after the bytes it is of leaves nothing: its bytes
\* are those of the register, so each of them shifts the register
LEMMA ChecksumDividesEach ==
  ASSUME NEW n \in Nat, NEW bytes \in [1..n -> ByteRange],
         NEW sent \in [1..(n + 4) -> ByteRange],
         \A i \in 1..n : sent[i] = bytes[i],
         \A i \in 1..4 : sent[n + i] = ByteOf(dvb_crc32(bytes), i)
  PROVE  Remainder(sent) = Zeros
<1> DEFINE c == dvb_crc32(bytes)
<1>1. PICK before : DividesBytes(before, bytes, n)
  BY BytesDivided
<1>2. n + 4 \in Nat /\ n \in 0..(n + 4) /\ n \in 0..n /\ n + 4 = n + 4
  OBVIOUS
<1>3. PICK after : DividesBytes(after, sent, n + 4)
  BY <1>2, BytesDivided
<1>4. c = before[n] /\ c \in Registers
  BY <1>1, <1>2, TableDividesEach DEF DividesBytes
<1> HIDE DEF c
<1>5. /\ ByteBits \in Nat /\ ByteBits >= 1 /\ RegisterBits = 4 * ByteBits
      /\ RegisterBits \in Nat /\ ByteBits \in 0..RegisterBits
  BY Widths
<1>6. after[n] = c
  <2> DEFINE P == {k \in 0..n : after[k] = before[k]}
  <2>1. 0 \in P
    BY <1>1, <1>3 DEF DividesBytes
  <2>2. ASSUME NEW i \in 1..n, i - 1 \in P PROVE i \in P
    <3>1. after[i - 1] = before[i - 1] /\ i \in 0..n /\ i \in 1..(n + 4)
      BY <2>2
    <3>2. QED BY <1>1, <1>3, <3>1 DEF DividesBytes
  <2>3. n \in P
    <3> HIDE DEF P
    <3>1. QED BY <1>2, <2>1, <2>2, UpTo
  <2>4. QED BY <1>4, <2>3
<1> DEFINE Q == {k \in 0..4 : after[n + k] = ShiftLeft(c, k * ByteBits)}
<1>7. 0 \in Q
  BY <1>4, <1>5, <1>6, ShiftedNot
<1>8. ASSUME NEW k \in 1..4, k - 1 \in Q PROVE k \in Q
  <2>1. PICK m, p, i : m = k - 1 /\ p = m * ByteBits /\ i = n + k
    OBVIOUS
  <2>2. /\ m \in 0..4 /\ p \in Nat /\ p + ByteBits <= RegisterBits
        /\ k * ByteBits = p + ByteBits
    <3>1. k \in {1, 2, 3, 4}
      OBVIOUS
    <3>2. QED BY <1>5, <2>1, <3>1
  <2>3. i \in 1..(n + 4) /\ i - 1 = n + m
    BY <2>1
  <2>4. after[i - 1] = ShiftLeft(c, p)
    BY <1>8, <2>1, <2>3
  <2>5. after[i] = DivideByte(ShiftLeft(c, p), sent[i])
    BY <1>3, <2>3, <2>4 DEF DividesBytes
  <2>6. \A j \in 1..ByteBits : Bit(sent[i], ByteBits - j) = ShiftLeft(c, p)[j]
    <3> DEFINE bits == [j \in 1..ByteBits |-> c[p + j]]
    <3>1. \A j \in 1..ByteBits : p + j \in 1..RegisterBits
      BY <1>5, <2>2
    <3>2. bits \in [1..ByteBits -> {0, 1}]
      BY <1>4, <3>1 DEF Registers
    <3>3. sent[i] = NumberOf(bits)
      BY <2>1 DEF ByteOf, c
    <3>4. \A j \in 1..ByteBits : bits[j] = c[p + j]
      OBVIOUS
    <3> HIDE DEF bits
    <3>5. \A j \in 1..ByteBits : Bit(sent[i], ByteBits - j) = bits[j]
      BY <1>5, <3>2, <3>3, NumberSpells
    <3>6. ASSUME NEW j \in 1..ByteBits PROVE ShiftLeft(c, p)[j] = c[p + j]
      <4>1. j \in 1..RegisterBits /\ p \in 0..RegisterBits /\ j + p = p + j
            /\ j + p <= RegisterBits
        BY <1>5, <2>2, <3>1
      <4>2. ShiftLeft(c, p)[j] = IF j + p <= RegisterBits THEN c[j + p] ELSE 0
        BY <1>4, <4>1, Shifted
      <4>3. QED BY <4>1, <4>2
    <3>7. QED BY <3>4, <3>5, <3>6
  <2>7. ShiftLeft(c, p) \in Registers
    <3>1. p \in 0..RegisterBits
      BY <1>5, <2>2
    <3>2. QED BY <1>4, <3>1, Shifted
  <2>8. after[i] = ShiftLeft(ShiftLeft(c, p), ByteBits)
    BY <2>5, <2>6, <2>7, OwnByteShifts
  <2>9. ShiftLeft(ShiftLeft(c, p), ByteBits) = ShiftLeft(c, p + ByteBits)
    BY <1>4, <1>5, <2>2, ShiftedTwice
  <2>10. after[n + k] = ShiftLeft(c, k * ByteBits)
    BY <2>1, <2>2, <2>8, <2>9
  <2>11. QED BY <2>10
<1>9. 4 \in Q
  <2> HIDE DEF Q
  <2>1. \A k \in 0..4 : k \in Q
    BY <1>7, <1>8, UpTo
  <2>2. QED BY <2>1
<1>10. after[n + 4] = ShiftLeft(c, RegisterBits)
  BY <1>5, <1>9
<1>11. ShiftLeft(c, RegisterBits) = Zeros
  <2>1. RegisterBits \in 0..RegisterBits
    BY <1>5
  <2>2. /\ ShiftLeft(c, RegisterBits) \in Registers
        /\ \A i \in 1..RegisterBits :
             ShiftLeft(c, RegisterBits)[i]
               = IF i + RegisterBits <= RegisterBits THEN c[i + RegisterBits] ELSE 0
    BY <1>4, <2>1, Shifted
  <2>3. \A i \in 1..RegisterBits : ~(i + RegisterBits <= RegisterBits) /\ Zeros[i] = 0
    BY <1>5 DEF Zeros
  <2>4. \A i \in 1..RegisterBits : ShiftLeft(c, RegisterBits)[i] = Zeros[i]
    BY <2>2, <2>3
  <2>5. QED BY <2>2, <2>4, StartingRegisters, SameRegister
<1>12. QED BY <1>3, <1>10, <1>11 DEF DividesBytes

\* The checksum that dvb_crc32 gives, sent after the bytes it is of, leaves
\* nothing when all of them are divided: what receivers test, and what
\* test_nit_table_parsing_1 (tests/test.cpp) has one example of
THEOREM ChecksumDivides ==
  \A bytes \in Seq(0..(2^ByteBits - 1)) :
    Remainder(bytes \o [i \in 1..4 |-> ByteOf(dvb_crc32(bytes), i)]) = Zeros
<1>1. SUFFICES ASSUME NEW bytes \in Seq(ByteRange)
               PROVE  Remainder(bytes \o [i \in 1..4 |-> ByteOf(dvb_crc32(bytes), i)]) = Zeros
  BY DEF ByteRange
<1> DEFINE n == Len(bytes)
           c == dvb_crc32(bytes)
           tail == [i \in 1..4 |-> ByteOf(c, i)]
           sent == bytes \o tail
<1>2. n \in Nat /\ bytes \in [1..n -> ByteRange]
  BY LenProperties
<1>3. c \in Registers
  <2>1. PICK after : DividesBytes(after, bytes, n)
    BY <1>2, BytesDivided
  <2>2. n \in 0..n
    BY <1>2
  <2>3. QED BY <1>2, <2>1, <2>2, TableDividesEach DEF DividesBytes
<1> HIDE DEF c
<1>4. ASSUME NEW i \in 1..4 PROVE ByteOf(c, i) \in ByteRange
  BY <1>3, RegisterBytes
<1>5. tail \in Seq(ByteRange) /\ Len(tail) = 4 /\ \A i \in 1..4 : tail[i] = ByteOf(c, i)
  <2>1. tail \in [1..4 -> ByteRange]
    BY <1>4
  <2>2. QED BY <2>1, IsASeq, LenProperties
<1> HIDE DEF tail
<1>6. /\ sent \in Seq(ByteRange) /\ Len(sent) = n + 4
      /\ \A i \in 1..(n + 4) : sent[i] = IF i <= n THEN bytes[i] ELSE tail[i - n]
  <2>1. /\ sent \in Seq(ByteRange) /\ Len(sent) = n + Len(tail)
        /\ \A i \in 1..(n + Len(tail)) : sent[i] = IF i <= n THEN bytes[i] ELSE tail[i - n]
    BY <1>5, ConcatProperties
  <2> HIDE DEF sent, n
  <2>2. QED BY <1>5, <2>1
<1> HIDE DEF sent, n
<1>7. sent \in [1..(n + 4) -> ByteRange]
  BY <1>6, LenProperties
<1>8. \A i \in 1..n : sent[i] = bytes[i]
  BY <1>2, <1>6
<1>9. \A i \in 1..4 : sent[n + i] = ByteOf(c, i)
  <2>1. SUFFICES ASSUME NEW i \in 1..4 PROVE sent[n + i] = ByteOf(c, i)
    OBVIOUS
  <2>2. PICK k : k = n + i
    OBVIOUS
  <2>3. k \in 1..(n + 4) /\ ~(k <= n) /\ k - n = i
    BY <1>2, <2>2
  <2>4. QED BY <1>5, <1>6, <2>2, <2>3
<1>10. Remainder(sent) = Zeros
  BY <1>2, <1>7, <1>8, <1>9, ChecksumDividesEach DEF c
<1>11. QED BY <1>10 DEF sent, tail, c

----------------------------------------------------------------------------
(* the calls of a section *)

PlainOps == {"uint", "uint_req", "named_block_begin", "named_block_end", "short_string_io",
             "fixed_string_io", "tag", "descriptor_factory", "data", "section_length_test"}

\* calls that have nothing to do with the checksum, and loops of them, one in
\* the other: transport streams with descriptors with services
IsPlain(c) == /\ c.op \in PlainOps
              /\ c.op \in {"uint", "uint_req", "named_block_begin"} => c.size \in 1..RegisterBits
Calls0(s) == \E P : s \in Seq(P) /\ \A c \in P : IsPlain(c)
IsCall1(c) == IsPlain(c) \/ (c.op = "vector_io" /\ Calls0(c.item))
Calls1(s) == \E P : s \in Seq(P) /\ \A c \in P : IsCall1(c)
IsCall2(c) == IsPlain(c) \/ (c.op = "vector_io" /\ Calls1(c.item))
Calls2(s) == \E P : s \in Seq(P) /\ \A c \in P : IsCall2(c)

IsSeq(s) == \E P : s \in Seq(P)

\* s is such calls, and then t
Led(s, t) == \E pre : Calls2(pre) /\ s = pre \o t

LEMMA CallsWithin ==
  /\ \A s : Calls0(s) => Calls1(s)
  /\ \A s : Calls1(s) => Calls2(s)
  /\ \A c : IsPlain(c) => IsCall2(c)
  /\ \A c : IsCall1(c) => IsCall2(c)
<1>1. \A s : Calls0(s) => Calls1(s)
  BY DEF Calls0, Calls1, IsCall1
<1>2. \A c : IsCall1(c) => IsCall2(c)
  BY <1>1 DEF IsCall1, IsCall2
<1>3. \A s : Calls1(s) => Calls2(s)
  BY <1>2 DEF Calls1, Calls2
<1>4. QED BY <1>1, <1>2, <1>3 DEF IsCall2

LEMMA NoCalls == Calls2(<<>>) /\ Calls0(<<>>)
<1> DEFINE none == {}
<1>1. <<>> \in Seq(none)
  OBVIOUS
<1>2. \A c \in none : IsCall2(c) /\ IsPlain(c)
  OBVIOUS
<1> HIDE DEF none
<1>3. QED BY <1>1, <1>2 DEF Calls2, Calls0

LEMMA CallsJoined ==
  ASSUME NEW s, NEW t, Calls2(s), Calls2(t)
  PROVE  Calls2(s \o t)
<1>1. PICK P : s \in Seq(P) /\ \A c \in P : IsCall2(c)
  BY DEF Calls2
<1>2. PICK Q : t \in Seq(Q) /\ \A c \in Q : IsCall2(c)
  BY DEF Calls2
<1> DEFINE All == P \cup Q
<1>3. s \in Seq(All) /\ t \in Seq(All)
  BY <1>1, <1>2, SeqMonotonic
<1>4. \A c \in All : IsCall2(c)
  BY <1>1, <1>2
<1> HIDE DEF All
<1>5. s \o t \in Seq(All)
  BY <1>3, ConcatProperties
<1>6. QED BY <1>4, <1>5 DEF Calls2

LEMMA OneCall ==
  ASSUME NEW c, IsCall2(c)
  PROVE  Calls2(<<c>>)
<1>1. <<c>> \in Seq({c})
  OBVIOUS
<1>2. \A x \in {c} : IsCall2(x)
  OBVIOUS
<1> DEFINE one == {c}
<1> HIDE DEF one
<1>3. <<c>> \in Seq(one) /\ \A x \in one : IsCall2(x)
  BY <1>1, <1>2 DEF one
<1>4. QED BY <1>3 DEF Calls2

\* the next call is one of those that lead
OneOf(s, t) == \E rest : /\ IsCall2(Head(s)) /\ Calls2(rest) /\ Tail(s) = rest \o t
                         /\ s = <<Head(s)>> \o (rest \o t)

LEMMA LedOrNot ==
  ASSUME NEW s, NEW t, IsSeq(t), Led(s, t)
  PROVE  s = t \/ OneOf(s, t)
<1>1. PICK pre : Calls2(pre) /\ s = pre \o t
  BY DEF Led
<1>2. PICK P : pre \in Seq(P) /\ \A c \in P : IsCall2(c)
  BY <1>1 DEF Calls2
<1>3. PICK Q : t \in Seq(Q)
  BY DEF IsSeq
<1>4. CASE pre = <<>>
  BY <1>1, <1>3, <1>4, ConcatEmptySeq
<1>5. CASE pre # <<>>
  <2> DEFINE h == Head(pre)
             rest == Tail(pre)
             All == P \cup Q
  <2>1. h \in P /\ rest \in Seq(P) /\ pre = <<h>> \o rest
    <3>1. h \in P /\ rest \in Seq(P)
      BY <1>2, <1>5, HeadTailProperties
    <3>2. pre = <<h>> \o rest
      BY <1>2, <1>5
    <3>3. QED BY <3>1, <3>2
  <2>2. <<h>> \in Seq(All) /\ rest \in Seq(All) /\ t \in Seq(All)
    <3>1. <<h>> \in Seq(All)
      BY <2>1
    <3>2. rest \in Seq(All) /\ t \in Seq(All)
      BY <1>3, <2>1, SeqMonotonic
    <3>3. QED BY <3>1, <3>2
  <2> HIDE DEF h, rest, All
  <2>3. s = <<h>> \o (rest \o t) /\ rest \o t \in Seq(All)
    BY <1>1, <2>1, <2>2, ConcatAssociative, ConcatProperties
  <2>4. PICK all : all = rest \o t
    OBVIOUS
  <2>5. Head(s) = h /\ Tail(s) = all /\ s # <<>>
    <3>1. s = <<h>> \o all /\ all \in Seq(All) /\ h \in All
      BY <2>2, <2>3, <2>4
    <3>2. QED BY <3>1
  <2>6. Calls2(rest) /\ IsCall2(h)
    BY <1>2, <2>1 DEF Calls2
  <2>7. QED BY <2>3, <2>4, <2>5, <2>6 DEF OneOf
<1>6. QED BY <1>4, <1>5

\* other calls take the place of the first one
LEMMA LedOn ==
  ASSUME NEW calls, NEW rest, NEW t, Calls2(calls), Calls2(rest), IsSeq(t)
  PROVE  Led(calls \o (rest \o t), t)
<1>1. PICK P : calls \in Seq(P)
  BY DEF Calls2
<1>2. PICK Q : rest \in Seq(Q)
  BY DEF Calls2
<1>3. PICK V : t \in Seq(V)
  BY DEF IsSeq
<1> DEFINE All == P \cup Q \cup V
<1>4. calls \in Seq(All) /\ rest \in Seq(All) /\ t \in Seq(All)
  BY <1>1, <1>2, <1>3, SeqMonotonic
<1> HIDE DEF All
<1>5. calls \o (rest \o t) = (calls \o rest) \o t
  BY <1>4, ConcatAssociative
<1>6. QED BY <1>5, CallsJoined DEF Led

LEMMA LedNotEmpty ==
  ASSUME NEW s, NEW t, IsSeq(t), t # <<>>, Led(s, t)
  PROVE  s # <<>>
<1>1. PICK pre : Calls2(pre) /\ s = pre \o t
  BY DEF Led
<1>2. PICK P : pre \in Seq(P)
  BY <1>1 DEF Calls2
<1>3. PICK Q : t \in Seq(Q)
  BY DEF IsSeq
<1> DEFINE All == P \cup Q
<1>4. pre \in Seq(All) /\ t \in Seq(All)
  BY <1>2, <1>3, SeqMonotonic
<1> HIDE DEF All
<1>5. Len(s) = Len(pre) + Len(t) /\ Len(pre) \in Nat /\ Len(t) \in Nat /\ Len(t) # 0
  BY <1>1, <1>4, ConcatProperties, LenProperties, EmptySeq
<1>6. QED BY <1>5

\* the widths the structures use, and the calls made with them
UsedWidths == {1, 2, 4, 5, 8, 12, 16, 28, 32}

LEMMA PlainCalls ==
  /\ \A n \in UsedWidths : /\ IsPlain(D!BlockBegin(n))
                           /\ \A name : /\ IsPlain(D!Uint(n, name))
                                        /\ IsPlain(D!UintReq(n, name))
                                        /\ IsPlain(D!UintHex(n, name))
  /\ \A m : IsPlain(D!BlockEnd(m)) /\ IsPlain(D!ShortStringIo(m)) /\ IsPlain(LengthTest(m))
  /\ \A n, m : IsPlain(D!FixedStringIo(n, m))
  /\ IsPlain([op |-> "tag"]) /\ IsPlain([op |-> "descriptor_factory"])
  /\ IsPlain([op |-> "data"])
<1>1. ASSUME NEW n \in UsedWidths PROVE Bits[n] \in 1..RegisterBits
  BY StructureAssumption DEF UsedWidths, RegisterBits
<1>2. ASSUME NEW n \in UsedWidths, NEW name
      PROVE  /\ IsPlain(D!BlockBegin(n))
             /\ IsPlain(D!Uint(n, name))
             /\ IsPlain(D!UintReq(n, name))
             /\ IsPlain(D!UintHex(n, name))
  BY <1>1 DEF IsPlain, PlainOps, D!BlockBegin, D!Uint, D!UintReq, D!UintHex
<1>3. ASSUME NEW m
      PROVE  IsPlain(D!BlockEnd(m)) /\ IsPlain(D!ShortStringIo(m)) /\ IsPlain(LengthTest(m))
  BY DEF IsPlain, PlainOps, D!BlockEnd, D!ShortStringIo, LengthTest
<1>4. ASSUME NEW n, NEW m PROVE IsPlain(D!FixedStringIo(n, m))
  BY DEF IsPlain, PlainOps, D!FixedStringIo
<1>5. /\ IsPlain([op |-> "tag"]) /\ IsPlain([op |-> "descriptor_factory"])
      /\ IsPlain([op |-> "data"])
  BY DEF IsPlain, PlainOps
<1>6. QED BY <1>2, <1>3, <1>4, <1>5

\* the lists of the structures: of services, of descriptors, of transport streams
LEMMA Loops == /\ IsCall1(D!VectorIo(D!Service))
               /\ IsCall1(D!DescriptorVectorIo)
               /\ IsCall2(D!VectorIo(TsSpecification)) /\ Calls1(TsSpecification)
               /\ IsCall1(D!VectorIo(D!Item)) /\ Calls0(D!Item)
<1>1. \A s : D!VectorIo(s).op = "vector_io" /\ D!VectorIo(s).item = s
  BY DEF D!VectorIo
<1>2. Calls0(D!Service)
  <2> DEFINE P == {D!Uint(16, "service_id"), D!Uint(8, "service_type")}
  <2>1. D!Service \in Seq(P)
    BY DEF D!Service
  <2>2. \A c \in P : IsPlain(c)
    BY PlainCalls DEF UsedWidths
  <2> HIDE DEF P
  <2>3. QED BY <2>1, <2>2 DEF Calls0
<1>3. IsCall1(D!DescriptorVectorIo)
  <2> DEFINE item == <<[op |-> "tag"], [op |-> "descriptor_factory"]>>
             P == {[op |-> "tag"], [op |-> "descriptor_factory"]}
  <2>1. item \in Seq(P)
    OBVIOUS
  <2>2. \A c \in P : IsPlain(c)
    BY PlainCalls
  <2>3. D!DescriptorVectorIo = D!VectorIo(item)
    BY DEF D!DescriptorVectorIo
  <2> HIDE DEF P, item
  <2>4. Calls0(item)
    BY <2>1, <2>2 DEF Calls0
  <2>5. QED BY <1>1, <2>3, <2>4 DEF IsCall1
<1>4. Calls1(TsSpecification)
  <2> DEFINE P == {D!Uint(16, "transport_stream_id"), D!Uint(16, "original_network_id"),
                   D!UintReq(4, "reserved_future_use"), D!BlockBegin(12),
                   D!DescriptorVectorIo, D!BlockEnd("transport_descriptors_length")}
  <2>1. TsSpecification \in Seq(P)
    BY DEF TsSpecification
  <2>2. \A c \in P : IsCall1(c)
    BY <1>3, PlainCalls DEF UsedWidths, IsCall1
  <2> HIDE DEF P
  <2>3. QED BY <2>1, <2>2 DEF Calls1
<1>5. Calls0(D!Item)
  <2> DEFINE P == {D!ShortStringIo("item_description"), D!ShortStringIo("item")}
  <2>1. D!Item \in Seq(P)
    BY DEF D!Item
  <2>2. \A c \in P : IsPlain(c)
    BY PlainCalls
  <2> HIDE DEF P
  <2>3. QED BY <2>1, <2>2 DEF Calls0
<1>6. QED BY <1>1, <1>2, <1>3, <1>4, <1>5 DEF IsCall1, IsCall2

\* what stands before the checksum has nothing to do with it
LEMMA BodyCalls == Calls2(SectionBody)
<1> DEFINE P == {D!Uint(8, "table_id"), D!Uint(1, "section_syntax_indicator"),
                 D!UintReq(1, "reserved_future_use"), D!UintReq(2, "reserved"),
                 D!BlockBegin(12), LengthTest(TRUE), D!Uint(16, "network_id"),
                 D!Uint(5, "version_number"), D!Uint(1, "current_next_indicator"),
                 D!Uint(8, "section_number"), D!Uint(8, "last_section_number"),
                 D!UintReq(4, "reserved_future_use"), D!DescriptorVectorIo,
                 D!BlockEnd("network_descriptors_length"), D!VectorIo(TsSpecification),
                 D!BlockEnd("transport_stream_loop_length")}
<1>1. SectionBody \in Seq(P)
  BY DEF SectionBody
<1>2. \A c \in P : IsCall2(c)
  BY Loops, PlainCalls, CallsWithin DEF UsedWidths
<1> HIDE DEF P
<1>3. QED BY <1>1, <1>2 DEF Calls2

\* nor does what a descriptor holds, of whichever tag
LEMMA ContentCalls == \A tag : Calls2(D!Content(tag))
<1> SUFFICES ASSUME NEW tag PROVE Calls2(D!Content(tag))
  OBVIOUS
<1> DEFINE P == {D!BlockBegin(8), D!VectorIo(D!Service), D!BlockEnd("length"),
                 D!UintHex(32, "frequency"), D!UintReq(12, "reserved_future_use"),
                 D!Uint(4, "FEC_outer"), D!Uint(8, "modulation"), D!Uint(28, "symbol_rate"),
                 D!Uint(4, "FEC_inner"), D!Uint(8, "adaptation_field_data_identifier"),
                 D!Uint(8, "length"), [op |-> "data"]}
           services == <<D!BlockBegin(8), D!VectorIo(D!Service), D!BlockEnd("length")>>
           cable == <<D!BlockBegin(8), D!UintHex(32, "frequency"),
                      D!UintReq(12, "reserved_future_use"), D!Uint(4, "FEC_outer"),
                      D!Uint(8, "modulation"), D!Uint(28, "symbol_rate"),
                      D!Uint(4, "FEC_inner"), D!BlockEnd("length")>>
           adaptation == <<D!BlockBegin(8), D!Uint(8, "adaptation_field_data_identifier"),
                           D!BlockEnd("length")>>
           unknown == <<D!Uint(8, "length"), [op |-> "data"]>>
<1>1. /\ services \in Seq(P) /\ cable \in Seq(P)
      /\ adaptation \in Seq(P) /\ unknown \in Seq(P)
  OBVIOUS
<1>2. \A c \in P : IsCall2(c)
  BY Loops, PlainCalls, CallsWithin DEF UsedWidths
<1>3. \/ D!Content(tag) = services \/ D!Content(tag) = cable
      \/ D!Content(tag) = adaptation \/ D!Content(tag) = unknown
  BY DEF D!Content
<1> HIDE DEF P, services, cable, adaptation, unknown
<1>4. D!Content(tag) \in Seq(P)
  BY <1>1, <1>3
<1>5. QED BY <1>2, <1>4 DEF Calls2

----------------------------------------------------------------------------
(* what is left to do of a section, and where its checksum stands *)

AfterSum == <<D!BlockEnd("section_length"), [op |-> "crc_late_fix"], LengthTest(FALSE)>>
AfterEnd == <<[op |-> "crc_late_fix"], LengthTest(FALSE)>>
AfterFix == <<LengthTest(FALSE)>>

LEMMA OnTop ==
  ASSUME NEW P, NEW h \in P, NEW rest \in Seq(P)
  PROVE  <<h>> \o rest # <<>> /\ Head(<<h>> \o rest) = h /\ Tail(<<h>> \o rest) = rest
OBVIOUS

OneByOne(a, b, c, d) ==
  /\ <<a, b, c, d>> = <<a>> \o <<b, c, d>> /\ <<b, c, d>> = <<b>> \o <<c, d>>
  /\ <<c, d>> = <<c>> \o <<d>> /\ <<d>> = <<d>> \o <<>>

LEMMA OneFirst ==
  ASSUME NEW P, NEW a \in P, NEW b \in P, NEW c \in P, NEW d \in P
  PROVE  OneByOne(a, b, c, d)
<1>1. <<a, b, c, d>> = <<a>> \o <<b, c, d>>
  OBVIOUS
<1>2. <<b, c, d>> = <<b>> \o <<c, d>>
  OBVIOUS
<1>3. <<c, d>> = <<c>> \o <<d>>
  <2> DEFINE s == <<c, d>>
             h == <<c>>
             t == <<d>>
  <2>1. s \in Seq(P) /\ Len(s) = 2 /\ s[1] = c /\ s[2] = d
    OBVIOUS
  <2>2. h \in Seq(P) /\ Len(h) = 1 /\ h[1] = c
    OBVIOUS
  <2>3. t \in Seq(P) /\ Len(t) = 1 /\ t[1] = d
    OBVIOUS
  <2> HIDE DEF s, h, t
  <2>4. /\ h \o t \in Seq(P) /\ Len(h \o t) = 2
        /\ (h \o t)[1] = c /\ (h \o t)[2] = d
    <3>1. /\ h \o t \in Seq(P) /\ Len(h \o t) = Len(h) + Len(t)
          /\ \A i \in 1..(Len(h) + Len(t)) :
               (h \o t)[i] = IF i <= Len(h) THEN h[i] ELSE t[i - Len(h)]
      BY <2>2, <2>3, ConcatProperties
    <3>2. Len(h) + Len(t) = 2 /\ 1 \in 1..2 /\ 2 \in 1..2 /\ 1 <= 1 /\ ~(2 <= 1) /\ 2 - 1 = 1
      BY <2>2, <2>3
    <3>3. QED BY <2>2, <2>3, <3>1, <3>2
  <2>5. \A i \in 1..2 : s[i] = (h \o t)[i]
    BY <2>1, <2>4
  <2>6. s = h \o t
    BY <2>1, <2>4, <2>5, SeqEqual
  <2>7. QED BY <2>6 DEF s, h, t
<1>4. <<d>> = <<d>> \o <<>>
  OBVIOUS
<1>5. QED BY <1>1, <1>2, <1>3, <1>4 DEF OneByOne

LEMMA InTurn ==
  /\ IsSeq(NetworkInformationSection) /\ NetworkInformationSection # <<>>
  /\ Head(NetworkInformationSection).op = "nit_begin"
  /\ Led(Tail(NetworkInformationSection), SectionClose)
  /\ IsSeq(Tail(NetworkInformationSection))
  /\ IsSeq(SectionClose) /\ SectionClose # <<>>
  /\ Head(SectionClose).op = "crc_io" /\ Tail(SectionClose) = AfterSum
  /\ AfterSum # <<>> /\ Head(AfterSum).op = "named_block_end" /\ Tail(AfterSum) = AfterEnd
  /\ AfterEnd # <<>> /\ Head(AfterEnd).op = "crc_late_fix" /\ Tail(AfterEnd) = AfterFix
  /\ AfterFix # <<>> /\ Head(AfterFix).op = "section_length_test" /\ Tail(AfterFix) = <<>>
  /\ IsSeq(AfterSum) /\ IsSeq(AfterEnd) /\ IsSeq(AfterFix) /\ IsSeq(<<>>)
<1> DEFINE sum == [op |-> "crc_io"]
           end == D!BlockEnd("section_length")
           fix == [op |-> "crc_late_fix"]
           test == LengthTest(FALSE)
           P == {sum, end, fix, test}
<1>1. /\ sum \in P /\ end \in P /\ fix \in P /\ test \in P
      /\ AfterSum \in Seq(P) /\ AfterEnd \in Seq(P) /\ AfterFix \in Seq(P) /\ <<>> \in Seq(P)
  BY DEF AfterSum, AfterEnd, AfterFix
<1>2. /\ SectionClose = <<sum>> \o AfterSum /\ AfterSum = <<end>> \o AfterEnd
      /\ AfterEnd = <<fix>> \o AfterFix /\ AfterFix = <<test>> \o <<>>
  <2>1. /\ SectionClose = <<sum, end, fix, test>> /\ AfterSum = <<end, fix, test>>
        /\ AfterEnd = <<fix, test>> /\ AfterFix = <<test>>
    BY DEF SectionClose, AfterSum, AfterEnd, AfterFix
  <2> HIDE DEF sum, end, fix, test, P
  <2>2. sum \in P /\ end \in P /\ fix \in P /\ test \in P
    BY <1>1
  <2>3. OneByOne(sum, end, fix, test)
    BY <2>2, OneFirst
  <2>4. QED BY <2>1, <2>3, Zenon DEF OneByOne
<1>3. /\ sum.op = "crc_io" /\ end.op = "named_block_end"
      /\ fix.op = "crc_late_fix" /\ test.op = "section_length_test"
  BY DEF D!BlockEnd, LengthTest
<1> HIDE DEF sum, end, fix, test, P
<1>4. /\ SectionClose # <<>> /\ Head(SectionClose) = sum /\ Tail(SectionClose) = AfterSum
      /\ AfterSum # <<>> /\ Head(AfterSum) = end /\ Tail(AfterSum) = AfterEnd
      /\ AfterEnd # <<>> /\ Head(AfterEnd) = fix /\ Tail(AfterEnd) = AfterFix
      /\ AfterFix # <<>> /\ Head(AfterFix) = test /\ Tail(AfterFix) = <<>>
  BY <1>1, <1>2, OnTop
<1> DEFINE first == [op |-> "nit_begin"]
<1>5. SectionClose \in Seq(P)
  BY <1>1, <1>2, ConcatProperties
<1>6. PICK Q : SectionBody \in Seq(Q) /\ \A c \in Q : IsCall2(c)
  BY BodyCalls DEF Calls2
<1> DEFINE All == P \cup Q \cup {first}
           rest == SectionBody \o SectionClose
<1>7. first \in All /\ SectionBody \in Seq(All) /\ SectionClose \in Seq(All)
  BY <1>5, <1>6, SeqMonotonic
<1>8. first.op = "nit_begin"
  OBVIOUS
<1>9. NetworkInformationSection = <<first>> \o rest
  BY DEF NetworkInformationSection
<1> HIDE DEF first, All
<1>10. rest \in Seq(All)
  BY <1>7, ConcatProperties
<1>11. Led(rest, SectionClose)
  BY BodyCalls DEF Led
<1> HIDE DEF rest
<1>12. /\ <<first>> \o rest \in Seq(All) /\ <<first>> \o rest # <<>>
       /\ Head(<<first>> \o rest) = first /\ Tail(<<first>> \o rest) = rest
  BY <1>7, <1>10, OnTop, ConcatProperties
<1>13. IsSeq(NetworkInformationSection)
  BY <1>9, <1>12 DEF IsSeq
<1>14. /\ IsSeq(SectionClose) /\ IsSeq(AfterSum) /\ IsSeq(AfterEnd)
       /\ IsSeq(AfterFix) /\ IsSeq(<<>>) /\ IsSeq(rest)
  BY <1>1, <1>7, <1>10 DEF IsSeq
<1>15. QED BY <1>3, <1>4, <1>8, <1>9, <1>11, <1>12, <1>13, <1>14

\* the layouts with a section in them
WithSection == Sections \cup {"bit_and_section"}

\* what a section is written with begins with calls of another kind at most,
\* and nothing else has others
LEMMA LayoutsLead ==
  ASSUME NEW layout \in DOMAIN Layout
  PROVE  Led(Layout[layout], IF layout \in WithSection THEN NetworkInformationSection ELSE <<>>)
<1>1. PICK P : NetworkInformationSection \in Seq(P)
  BY InTurn DEF IsSeq
<1>2. CASE layout = "network_information_section"
  <2>1. Layout[layout] = NetworkInformationSection
    BY <1>2 DEF Layout
  <2>2. NetworkInformationSection = <<>> \o NetworkInformationSection
    BY <1>1, ConcatEmptySeq
  <2>3. QED BY <1>2, <2>1, <2>2, NoCalls DEF Led, WithSection, Sections
<1>3. CASE layout = "byte_and_section"
  <2>1. Layout[layout] = <<D!Uint(8, "byte")>> \o NetworkInformationSection
    BY <1>3 DEF Layout
  <2>2. Calls2(<<D!Uint(8, "byte")>>)
    BY PlainCalls, CallsWithin, OneCall DEF UsedWidths
  <2>3. QED BY <1>3, <2>1, <2>2 DEF Led, WithSection, Sections
<1>4. CASE layout = "bit_and_section"
  <2>1. Layout[layout] = <<D!Uint(1, "bit")>> \o NetworkInformationSection
    BY <1>4 DEF Layout
  <2>2. Calls2(<<D!Uint(1, "bit")>>)
    BY PlainCalls, CallsWithin, OneCall DEF UsedWidths
  <2>3. QED BY <1>4, <2>1, <2>2 DEF Led, WithSection
<1>5. ASSUME layout \notin WithSection, Calls2(Layout[layout])
      PROVE  Led(Layout[layout], <<>>)
  <2>1. PICK Q : Layout[layout] \in Seq(Q)
    BY <1>5 DEF Calls2
  <2>2. Layout[layout] = Layout[layout] \o <<>>
    BY <2>1, ConcatEmptySeq
  <2>3. QED BY <1>5, <2>2 DEF Led
<1>6. CASE layout \notin WithSection
  <2>1. Calls2(D!Item) /\ Calls2(TsSpecification)
    BY Loops, CallsWithin
  <2>2. Calls2(D!ExtendedEvent)
    <3> DEFINE Q == {D!Uint(8, "descriptor_tag"), D!Uint(8, "descriptor_length"),
                     D!Uint(4, "descriptor_number"), D!Uint(4, "last_descriptor_number"),
                     D!FixedStringIo(3, "ISO_639_language_code"), D!BlockBegin(8),
                     D!VectorIo(D!Item), D!BlockEnd("length_of_items"), D!ShortStringIo("text")}
    <3>1. D!ExtendedEvent \in Seq(Q)
      BY DEF D!ExtendedEvent
    <3>2. \A c \in Q : IsCall2(c)
      BY Loops, PlainCalls, CallsWithin DEF UsedWidths
    <3> HIDE DEF Q
    <3>3. QED BY <3>1, <3>2 DEF Calls2
  <2>3. Calls2(<<D!Uint(1, "bit")>> \o D!Item)
    BY <2>1, PlainCalls, CallsWithin, OneCall, CallsJoined DEF UsedWidths
  <2>4. \/ Layout[layout] = D!Item \/ Layout[layout] = TsSpecification
        \/ Layout[layout] = D!ExtendedEvent \/ Layout[layout] = <<D!Uint(1, "bit")>> \o D!Item
    BY <1>6 DEF Layout, WithSection, Sections
  <2>5. QED BY <1>5, <1>6, <2>1, <2>2, <2>3, <2>4
<1>7. QED BY <1>2, <1>3, <1>4, <1>6 DEF WithSection, Sections

----------------------------------------------------------------------------
(* a message that is being constructed *)

BufferEnd == BufferBytes * ByteBits

\* a block that was open when bitpos was at p, with a field for its length
Opened(p) ==
  {e \in [bitpos_at_enter : Nat, bitlimit_at_enter : 0..BufferEnd, position_for_write : Nat] :
     /\ e.bitpos_at_enter <= p
     /\ e.bitpos_at_enter - e.position_for_write \in 1..RegisterBits}

Built == /\ data \in [0..(BufferEnd - 1) -> {0, 1}]
         /\ bitpos \in Nat /\ bitlimit \in 0..BufferEnd
         /\ scope_stack \in Seq(Opened(bitpos))

\* a call that returns leaves such a message, and goes on from there
KeepsBuilding == /\ mode' = mode
                 /\ ~thrown' => Built' /\ bitpos <= bitpos'

LEMMA BufferSize == BufferEnd \in Nat
BY SizeAssumption, Widths DEF BufferEnd

LEMMA SameOpened ==
  ASSUME NEW p \in Nat, NEW q \in Nat, p <= q, NEW s \in Seq(Opened(p))
  PROVE  s \in Seq(Opened(q))
<1>1. Opened(p) \subseteq Opened(q)
  BY DEF Opened
<1>2. QED BY <1>1, SeqMonotonic

\* what a number leaves of the bits: its own stand from pos on, and where it
\* begins with a byte those before it are what they were
IsPut(put, bits, pos, size, val) ==
  /\ put \in [0..(BufferEnd - 1) -> {0, 1}]
  /\ \A i \in 0..(BufferEnd - 1) :
       /\ i \in pos..(pos + size - 1) => put[i] = Bit(val, pos + size - 1 - i)
       /\ i < pos /\ Aligned(pos) => put[i] = bits[i]

LEMMA PutBits ==
  ASSUME NEW bits \in [0..(BufferEnd - 1) -> {0, 1}], NEW pos \in Nat,
         NEW size \in 1..RegisterBits, NEW val \in Nat
  PROVE  IsPut(Put(bits, pos, size, val), bits, pos, size, val)
<1>1. BufferEnd \in Nat /\ RegisterBits \in Nat /\ ByteBits \in Nat
  BY BufferSize, Widths
<1> DEFINE put == Put(bits, pos, size, val)
           before == (pos - (pos % ByteBits))..(pos - 1)
<1>2. /\ DOMAIN put = 0..(BufferEnd - 1)
      /\ \A i \in 0..(BufferEnd - 1) :
           /\ i \in pos..(pos + size - 1) => put[i] = Bit(val, pos + size - 1 - i)
           /\ i \notin pos..(pos + size - 1) =>
                put[i] = IF i \in before /\ Bit(val, pos + size - 1 - i) = 1 THEN 1 ELSE bits[i]
      /\ put = [i \in 0..(BufferEnd - 1) |-> put[i]]
  BY DEF Put
<1> HIDE DEF put
<1>3. ASSUME NEW i \in 0..(BufferEnd - 1) PROVE put[i] \in {0, 1}
  <2>1. CASE i \in pos..(pos + size - 1)
    <3>1. PICK place : place = pos + size - 1 - i
      OBVIOUS
    <3>2. place \in 0..RegisterBits
      BY <1>1, <2>1, <3>1
    <3>3. Bit(val, place) \in {0, 1}
      BY <3>2, BitIs
    <3>4. put[i] = Bit(val, place)
      BY <1>2, <2>1, <3>1
    <3>5. QED BY <3>3, <3>4
  <2>2. CASE i \notin pos..(pos + size - 1)
    <3>1. put[i] = 1 \/ put[i] = bits[i]
      BY <1>2, <2>2
    <3>2. QED BY <3>1
  <2>3. QED BY <2>1, <2>2
<1>4. put \in [0..(BufferEnd - 1) -> {0, 1}]
  BY <1>2, <1>3
<1>5. ASSUME NEW i \in 0..(BufferEnd - 1), i < pos, Aligned(pos) PROVE put[i] = bits[i]
  <2>1. i \notin pos..(pos + size - 1)
    BY <1>5
  <2>2. i \notin before
    BY <1>1, <1>5 DEF Aligned
  <2> HIDE DEF before
  <2>3. QED BY <1>2, <2>1, <2>2
<1>6. \A i \in 0..(BufferEnd - 1) :
        /\ i \in pos..(pos + size - 1) => put[i] = Bit(val, pos + size - 1 - i)
        /\ i < pos /\ Aligned(pos) => put[i] = bits[i]
  BY <1>2, <1>5
<1>7. QED BY <1>4, <1>6 DEF put, IsPut

\* the instance writes what IoBits says
LEMMA PutOut == \A bits, pos, size, val : O!Put(bits, pos, size, val) = Put(bits, pos, size, val)
BY DEF O!Put, Put, O!Bit, Bit

\* numbers, required or not
LEMMA NumberBuilds ==
  ASSUME mode = "construct_binary", Built, NEW f, f.size \in 1..RegisterBits, f.val \in Nat,
         Uint(f) \/ UintReq(f)
  PROVE  KeepsBuilding
<1>1. mode' = mode /\ O!Uint(f)
  BY DEF Uint, UintReq, Dispatch
<1>2. CASE O!RefuseWrite(f.w, f.size)
  BY <1>1, <1>2 DEF O!RefuseWrite, KeepsBuilding
<1>3. CASE O!Write(f.w, f.size, f.val)
  <2>1. /\ bitpos' = bitpos + f.size
        /\ bitlimit' = bitlimit /\ scope_stack' = scope_stack
        /\ data' = Put(data, bitpos, f.size, f.val)
    BY <1>3, PutOut DEF O!Write
  <2>2. bitpos \in Nat /\ bitpos' \in Nat /\ bitpos <= bitpos'
    BY <2>1, Widths DEF Built
  <2>3. data' \in [0..(BufferEnd - 1) -> {0, 1}]
    BY <2>1, PutBits DEF IsPut, Built
  <2>4. scope_stack' \in Seq(Opened(bitpos'))
    BY <2>1, <2>2, SameOpened DEF Built
  <2>5. QED BY <1>1, <2>1, <2>2, <2>3, <2>4 DEF KeepsBuilding, Built
<1>4. QED BY <1>1, <1>2, <1>3 DEF O!Uint

LEMMA BlockBeginBuilds ==
  ASSUME mode = "construct_binary", Built, NEW size \in 1..RegisterBits, NamedBlockBegin(size)
  PROVE  KeepsBuilding
<1>1. mode' = mode /\ O!NamedBlockBegin(size)
  BY DEF NamedBlockBegin, Dispatch
<1>2. CASE O!RefuseBegin(size)
  BY <1>1, <1>2 DEF O!RefuseBegin, KeepsBuilding
<1>3. CASE O!BeginBlock(size)
  <2> DEFINE start == bitpos + size
             e == [bitpos_at_enter |-> start, bitlimit_at_enter |-> bitlimit,
                   position_for_write |-> bitpos]
  <2>1. /\ bitpos' = start /\ bitlimit' = O!BlockLimit(start, size) /\ data' = data
        /\ scope_stack' = Append(scope_stack, e)
    BY <1>3 DEF O!BeginBlock
  <2>2. /\ bitpos \in Nat /\ size \in Nat /\ start \in Nat /\ bitpos <= start
        /\ start - bitpos = size /\ bitlimit \in 0..BufferEnd /\ BufferEnd \in Nat
    BY Widths, BufferSize DEF Built
  <2>3. bitlimit' \in 0..BufferEnd
    <3>1. PICK end : end = start + O!MostBytes(size) * ByteBits
      OBVIOUS
    <3>2. end \in Nat
      <4>1. O!MostBytes(size) \in Nat
        <5>1. size \in 0..RegisterBits
          BY Widths
        <5>2. 2^size \in Nat /\ 2^size >= 1
          BY <5>1, WeightsRise
        <5>3. QED BY <5>2 DEF O!MostBytes
      <4>2. QED BY <2>2, <3>1, <4>1, Widths
    <3>3. bitlimit' = IF end > bitlimit THEN bitlimit ELSE end
      BY <2>1, <3>1 DEF O!BlockLimit
    <3>4. QED BY <2>2, <3>2, <3>3
  <2>4. scope_stack' \in Seq(Opened(bitpos'))
    <3>1. e \in Opened(start)
      BY <2>2 DEF Opened
    <3>2. scope_stack \in Seq(Opened(start))
      BY <2>2, SameOpened DEF Built
    <3> HIDE DEF e, start
    <3>3. Append(scope_stack, e) \in Seq(Opened(start))
      BY <3>1, <3>2, AppendProperties
    <3>4. QED BY <2>1, <3>3
  <2>5. Built' /\ bitpos <= bitpos'
    BY <2>1, <2>2, <2>3, <2>4 DEF Built
  <2>6. QED BY <1>1, <2>5 DEF KeepsBuilding
<1>4. QED BY <1>1, <1>2, <1>3 DEF O!NamedBlockBegin

\* the innermost block when one ends, and those around it
LEMMA Innermost ==
  ASSUME NEW p \in Nat, NEW s \in Seq(Opened(p)), s # <<>>
  PROVE  /\ s[Len(s)] \in Opened(p)
         /\ SubSeq(s, 1, Len(s) - 1) \in Seq(Opened(p))
<1> DEFINE K == Opened(p)
<1> HIDE DEF K
<1>1. s \in Seq(K) /\ Len(s) \in Nat /\ Len(s) >= 1
  BY LenProperties, EmptySeq DEF K
<1>2. \A i \in 1..Len(s) : s[i] \in K
  BY <1>1, ElementOfSeq
<1> DEFINE n == Len(s)
           m == n - 1
<1>3. m \in Int /\ n \in 1..n /\ \A i \in 1..m : i \in 1..n
  BY <1>1
<1>4. s[n] \in K /\ \A i \in 1..m : s[i] \in K
  BY <1>2, <1>3
<1>5. SubSeq(s, 1, m) \in Seq(K)
  <2> HIDE DEF m
  <2>1. QED BY <1>1, <1>3, <1>4, SubSeqProperties
<1>6. QED BY <1>4, <1>5 DEF K

\* a block that ends: its length goes in front of it
LEMMA BlockEndBuilds ==
  ASSUME mode = "construct_binary", Built, NamedBlockEnd
  PROVE  KeepsBuilding /\ (~thrown' => bitpos' = bitpos)
<1>1. mode' = mode /\ O!NamedBlockEnd
  BY DEF NamedBlockEnd, Dispatch
<1>2. CASE thrown'
  BY <1>1, <1>2 DEF KeepsBuilding
<1>3. CASE ~thrown'
  <2> DEFINE e == scope_stack[Len(scope_stack)]
             size == e.bitpos_at_enter - e.position_for_write
             len == (bitpos - e.bitpos_at_enter) \div ByteBits
  <2>1. /\ scope_stack # <<>> /\ bitpos' = bitpos
        /\ data' = Put(data, e.position_for_write, size, len)
        /\ bitlimit' = e.bitlimit_at_enter
        /\ scope_stack' = SubSeq(scope_stack, 1, Len(scope_stack) - 1)
    BY <1>1, <1>3, PutOut
    DEF O!NamedBlockEnd, O!EndBlock, O!RefuseLength, O!RefuseEnd, O!Top, O!Outer,
        O!LengthField, O!BlockBits
  <2>2. /\ bitpos \in Nat /\ e \in Opened(bitpos)
        /\ scope_stack' \in Seq(Opened(bitpos'))
    BY <2>1, Innermost DEF Built
  <2>3. /\ e.bitpos_at_enter \in Nat /\ e.position_for_write \in Nat
        /\ e.bitlimit_at_enter \in 0..BufferEnd
        /\ e.bitpos_at_enter <= bitpos /\ size \in 1..RegisterBits
    BY <2>2 DEF Opened
  <2>4. len \in Nat
    <3>1. PICK bits : bits = bitpos - e.bitpos_at_enter
      OBVIOUS
    <3>2. bits \in Nat
      BY <2>2, <2>3, <3>1
    <3>3. bits \div ByteBits \in Nat
      BY <3>2, Widths
    <3>4. QED BY <3>1, <3>3
  <2> HIDE DEF size, len
  <2>5. data' \in [0..(BufferEnd - 1) -> {0, 1}]
    BY <2>1, <2>3, <2>4, PutBits DEF IsPut, Built
  <2>6. QED BY <1>1, <2>1, <2>2, <2>3, <2>5 DEF KeepsBuilding, Built
<1>4. QED BY <1>2, <1>3

\* strings: as many bytes as they have, and the byte with the length
LEMMA StringBuilds ==
  ASSUME mode = "construct_binary", Built, NEW name, NEW s, NEW legal, NEW bytes \in Seq(Nat),
         ConstructString(name, s, legal, bytes)
  PROVE  KeepsBuilding
<1>1. CASE thrown'
  BY <1>1 DEF ConstructString, Throw, KeepsBuilding
<1>2. CASE ~thrown'
  <2>1. /\ bitpos' = bitpos + Len(bytes) * ByteBits /\ data' = Copied(bitpos, bytes)
        /\ mode' = mode /\ bitlimit' = bitlimit /\ scope_stack' = scope_stack
    BY <1>2 DEF ConstructString, Throw, IsBinary
  <2>2. /\ bitpos \in Nat /\ ByteBits \in Nat /\ ByteBits >= 1
        /\ Len(bytes) \in Nat /\ Len(bytes) * ByteBits \in Nat
    BY Widths, LenProperties DEF Built
  <2>3. bitpos' \in Nat /\ bitpos <= bitpos'
    BY <2>1, <2>2
  <2>4. scope_stack' \in Seq(Opened(bitpos'))
    BY <2>1, <2>2, <2>3, SameOpened DEF Built
  <2>5. ASSUME NEW i \in 0..(BufferEnd - 1) PROVE Copied(bitpos, bytes)[i] \in {0, 1}
    <3>1. PICK far, byte, place : /\ far = i - bitpos /\ byte = far \div ByteBits
                                  /\ place = ByteBits - 1 - (far % ByteBits)
      OBVIOUS
    <3>2. Copied(bitpos, bytes)[i]
            = IF i >= bitpos /\ byte < Len(bytes) THEN Bit(bytes[byte + 1], place) ELSE data[i]
      <4>1. DOMAIN data = 0..(BufferEnd - 1)
        BY DEF Built
      <4>2. QED BY <3>1, <4>1 DEF Copied
    <3>3. data[i] \in {0, 1}
      BY DEF Built
    <3>4. CASE i >= bitpos /\ byte < Len(bytes)
      <4>1. far \in Nat
        BY <2>2, <3>1, <3>4, BufferSize
      <4>2. byte \in Nat /\ far % ByteBits \in 0..(ByteBits - 1)
        BY <2>2, <3>1, <4>1
      <4>3. place \in 0..RegisterBits
        BY <2>2, <3>1, <4>2, Widths
      <4>4. byte + 1 \in 1..Len(bytes)
        BY <2>2, <3>4, <4>2
      <4>5. bytes[byte + 1] \in Nat
        BY <4>4, ElementOfSeq
      <4>6. Bit(bytes[byte + 1], place) \in {0, 1}
        BY <4>3, <4>5, BitIs
      <4>7. QED BY <3>2, <3>4, <4>6
    <3>5. CASE ~(i >= bitpos /\ byte < Len(bytes))
      BY <3>2, <3>3, <3>5
    <3>6. QED BY <3>4, <3>5
  <2>6. data' \in [0..(BufferEnd - 1) -> {0, 1}]
    <3>1. DOMAIN data = 0..(BufferEnd - 1)
      BY DEF Built
    <3>2. DOMAIN data' = 0..(BufferEnd - 1) /\ data' = [i \in DOMAIN data' |-> data'[i]]
      BY <2>1, <3>1 DEF Copied
    <3>3. \A i \in 0..(BufferEnd - 1) : data'[i] \in {0, 1}
      BY <2>1, <2>5
    <3>4. QED BY <3>2, <3>3
  <2>7. QED BY <2>1, <2>3, <2>4, <2>6 DEF KeepsBuilding, Built
<1>3. QED BY <1>1, <1>2

LEMMA StringsBuild ==
  ASSUME mode = "construct_binary", Built, NEW name, NEW num_chars, NEW s \in Seq(Chars),
         ShortString(name, s) \/ FixedString(name, num_chars, s)
  PROVE  KeepsBuilding
<1>1. Chars \subseteq Nat
  <2>1. 2^ByteBits \in Nat
    BY Widths, WeightsRise
  <2>2. QED BY <2>1 DEF Chars
<1>2. s \in Seq(Nat) /\ Len(s) \in Nat
  BY <1>1, SeqMonotonic, LenProperties
<1>3. <<Len(s)>> \o s \in Seq(Nat)
  <2>1. PICK n \in Nat : n = Len(s)
    BY <1>2
  <2>2. <<n>> \in Seq(Nat)
    OBVIOUS
  <2>3. QED BY <1>2, <2>1, <2>2, ConcatProperties
<1>4. \/ ConstructString(name, s, Len(s) < 2^ByteBits, <<Len(s)>> \o s)
      \/ ConstructString(name, s, Len(s) = num_chars, s)
  BY DEF ShortString, FixedString
<1>5. QED BY <1>2, <1>3, <1>4, StringBuilds

LEMMA NothingBuilds ==
  ASSUME mode = "construct_binary", Built, UNCHANGED common
  PROVE  KeepsBuilding
<1>1. /\ mode' = mode /\ data' = data /\ bitpos' = bitpos /\ bitlimit' = bitlimit
      /\ scope_stack' = scope_stack
  BY DEF common, iox
<1>2. bitpos <= bitpos
  BY DEF Built
<1>3. QED BY <1>1, <1>2 DEF KeepsBuilding, Built

\* a call made, and calls that take its place
Replaced == nit_begin' = nit_begin /\ \E calls : Calls2(calls) /\ todo' = calls \o Tail(todo)

LEMMA CallReplaced ==
  ASSUME Io, IsCall2(Call), todo = <<Call>> \o Tail(todo), IsSeq(Tail(todo))
  PROVE  Replaced
<1>1. Call.op \in PlainOps \cup {"vector_io"} /\ (Call.op = "vector_io" => Calls1(Call.item))
  BY DEF IsCall2, IsPlain, PlainOps
<1>2. Then(<<>>) => \E calls : Calls2(calls) /\ todo' = calls \o Tail(todo)
  BY NoCalls DEF Then
<1>3. CASE UintCall \/ UintReqCall \/ BlockBeginCall \/ BlockEndCall \/ TagCall \/ StringCall
           \/ SectionLengthTest
  BY <1>2, <1>3 DEF UintCall, UintReqCall, BlockBeginCall, BlockEndCall, TagCall, StringCall,
                    SectionLengthTest, Locals, Replaced
<1>4. CASE VectorIo
  <2>1. nit_begin' = nit_begin
    BY <1>4 DEF VectorIo, Locals
  <2>2. CASE More
    <3>1. Calls1(Call.item) /\ todo' = Call.item \o (<<Call>> \o Tail(todo))
      BY <1>1, <1>4, <2>2 DEF VectorIo
    <3>2. Calls2(Call.item) /\ Calls2(<<Call>>)
      BY <3>1, CallsWithin, OneCall
    <3>3. todo' = (Call.item \o <<Call>>) \o Tail(todo)
      <4>1. PICK P : Call.item \in Seq(P)
        BY <3>2 DEF Calls2
      <4>2. PICK Q : Tail(todo) \in Seq(Q)
        BY DEF IsSeq
      <4> DEFINE All == P \cup Q \cup {Call}
      <4>3. Call.item \in Seq(All) /\ Tail(todo) \in Seq(All) /\ <<Call>> \in Seq(All)
        <5>1. Call.item \in Seq(All) /\ Tail(todo) \in Seq(All)
          BY <4>1, <4>2, SeqMonotonic
        <5>2. Call \in All
          OBVIOUS
        <5> HIDE DEF All
        <5>3. QED BY <5>1, <5>2
      <4> HIDE DEF All
      <4>4. (Call.item \o <<Call>>) \o Tail(todo) = Call.item \o (<<Call>> \o Tail(todo))
        BY <4>3, ConcatAssociative
      <4>5. QED BY <3>1, <4>4
    <3>4. Calls2(Call.item \o <<Call>>)
      BY <3>2, CallsJoined
    <3>5. QED BY <2>1, <3>3, <3>4 DEF Replaced
  <2>3. CASE ~More
    BY <1>2, <1>4, <2>1, <2>3 DEF VectorIo, Replaced
  <2>4. QED BY <2>2, <2>3
<1>5. CASE DescriptorFactory
  BY <1>5, ContentCalls DEF DescriptorFactory, Then, Locals, Replaced
<1>6. CASE DataCall
  <2>1. \A n : Calls2(<<D!FixedStringIo(n, "data")>>)
    BY PlainCalls, CallsWithin, OneCall
  <2>2. \E calls : Calls2(calls) /\ todo' = calls \o Tail(todo)
    BY <1>6, <2>1, NoCalls DEF DataCall, Then
  <2>3. QED BY <1>6, <2>2 DEF DataCall, Locals, Replaced
<1>7. ~NitBegin /\ ~CrcCall /\ ~CrcLateFix
  BY <1>1 DEF NitBegin, CrcCall, CrcLateFix, PlainOps
<1>8. QED BY <1>3, <1>4, <1>5, <1>6, <1>7 DEF Io

LEMMA CallBuilds ==
  ASSUME mode = "construct_binary", Built, Io, IsCall2(Call)
  PROVE  KeepsBuilding
<1>1. /\ Call.op \in PlainOps \cup {"vector_io"} /\ ~IsParsing
      /\ Call.op \in {"uint", "uint_req", "named_block_begin"} => Call.size \in 1..RegisterBits
  BY DEF IsCall2, IsPlain, PlainOps, IsParsing
<1>2. Word \in Nat /\ \A n \in 1..RegisterBits : 2^n - 1 \in Nat
  <2>1. \A n \in 1..RegisterBits : n \in 0..RegisterBits
    BY Widths
  <2>2. RegisterBits \in 0..RegisterBits
    BY Widths
  <2>3. 2^RegisterBits \in Nat /\ \A n \in 1..RegisterBits : 2^n \in Nat /\ 2^n >= 1
    BY <2>1, <2>2, WeightsRise
  <2>4. QED BY <2>3 DEF Word, RegisterBits
<1>3. ASSUME HoldsNumber PROVE Member[1] \in Nat
  <2>1. Member[1] \in 0..(Word - 1)
    BY <1>1, <1>3 DEF HoldsNumber
  <2>2. QED BY <1>2, <2>1
<1>4. CASE UintCall
  <2> DEFINE f == FieldOf(Call, IF IsParsing THEN 0 ELSE Member[1])
  <2>1. f.size \in 1..RegisterBits /\ f.val \in Nat
    BY <1>1, <1>3, <1>4 DEF UintCall, FieldOf
  <2>2. Uint(f)
    BY <1>4 DEF UintCall
  <2> HIDE DEF f
  <2>3. QED BY <2>1, <2>2, NumberBuilds
<1>5. CASE UintReqCall
  <2> DEFINE f == FieldOf(Call, 2^Call.size - 1)
  <2>1. f.size \in 1..RegisterBits /\ f.val \in Nat
    BY <1>1, <1>2, <1>5 DEF UintReqCall, FieldOf
  <2>2. UintReq(f)
    BY <1>5 DEF UintReqCall
  <2> HIDE DEF f
  <2>3. QED BY <2>1, <2>2, NumberBuilds
<1>6. CASE BlockBeginCall
  BY <1>1, <1>6, BlockBeginBuilds DEF BlockBeginCall
<1>7. CASE BlockEndCall
  BY <1>7, BlockEndBuilds DEF BlockEndCall
<1>8. CASE TagCall
  <2>1. CASE WritesTag
    <3> DEFINE f == FieldOf(D!Uint(8, "tag"), IF IsParsing THEN 0 ELSE Member[1])
    <3>1. f.size \in 1..RegisterBits
      BY StructureAssumption DEF FieldOf, D!Uint, RegisterBits
    <3>2. f.val \in Nat
      BY <1>1, <1>3, <1>8 DEF TagCall, FieldOf
    <3>3. Uint(f)
      BY <1>8, <2>1 DEF TagCall
    <3> HIDE DEF f
    <3>4. QED BY <3>1, <3>2, <3>3, NumberBuilds
  <2>2. CASE ~WritesTag
    BY <1>8, <2>2, NothingBuilds DEF TagCall
  <2>3. QED BY <2>1, <2>2
<1>9. CASE VectorIo \/ DescriptorFactory \/ DataCall
  BY <1>9, NothingBuilds DEF VectorIo, DescriptorFactory, DataCall
<1>10. CASE StringCall
  <2>1. Member \in Seq(Chars)
    BY <1>1, <1>10 DEF StringCall, HoldsString
  <2>2. PICK name, num_chars : ShortString(name, Member) \/ FixedString(name, num_chars, Member)
    BY <1>1, <1>10 DEF StringCall
  <2>3. QED BY <2>1, <2>2, StringsBuild
<1>11. CASE SectionLengthTest
  <2>1. CASE thrown'
    BY <1>11, <2>1 DEF SectionLengthTest, Throw, KeepsBuilding, common, iox
  <2>2. CASE ~thrown'
    <3>1. UNCHANGED common
      BY <1>11, <2>2 DEF SectionLengthTest, Throw
    <3>2. QED BY <3>1, NothingBuilds
  <2>3. QED BY <2>1, <2>2
<1>12. ~NitBegin /\ ~CrcCall /\ ~CrcLateFix
  BY <1>1 DEF NitBegin, CrcCall, CrcLateFix, PlainOps
<1>13. QED BY <1>4, <1>5, <1>6, <1>7, <1>8, <1>9, <1>10, <1>11, <1>12 DEF Io

----------------------------------------------------------------------------
(* the checksum that is put again *)

BytesOf(bits, pos, n) ==
  [i \in 1..n |-> NumberOf([j \in 1..ByteBits |-> bits[pos + (i - 1) * ByteBits + j - 1]])]

LEMMA ChecksumIsRegister ==
  ASSUME NEW n \in Nat, NEW bytes \in [1..n -> ByteRange]
  PROVE  dvb_crc32(bytes) \in Registers
<1>1. PICK after : DividesBytes(after, bytes, n)
  BY BytesDivided
<1>2. n \in 0..n
  OBVIOUS
<1>3. QED BY <1>1, <1>2, TableDividesEach DEF DividesBytes

\* from one byte border to another there are whole bytes, and after the
\* checksum four more
LEMMA WholeBytes ==
  ASSUME NEW begin \in Nat, NEW pos \in Nat, begin <= pos, Aligned(begin), Aligned(pos)
  PROVE  \E n \in Nat : /\ pos = begin + n * ByteBits
                        /\ (pos - begin) \div ByteBits = n
                        /\ ((pos + RegisterBits) - begin) \div ByteBits = n + 4
<1>1. ByteBits \in Nat /\ ByteBits >= 1 /\ RegisterBits = 4 * ByteBits
  BY Widths
<1>2. PICK a, b : a = begin \div ByteBits /\ b = pos \div ByteBits
  OBVIOUS
<1>3. a \in Nat /\ b \in Nat /\ begin = a * ByteBits /\ pos = b * ByteBits
  BY <1>1, <1>2 DEF Aligned
<1>4. a <= b
  <2>1. ASSUME b < a PROVE FALSE
    <3>1. b + 1 <= a
      BY <1>3, <2>1
    <3>2. (b + 1) * ByteBits <= a * ByteBits
      BY <1>1, <1>3, <3>1
    <3>3. (b + 1) * ByteBits = b * ByteBits + ByteBits
      BY <1>1, <1>3
    <3>4. QED BY <1>1, <1>3, <3>2, <3>3
  <2>2. QED BY <1>3, <2>1
<1>5. PICK n \in Nat : b = a + n
  <2>1. b - a \in Nat /\ b = a + (b - a)
    BY <1>3, <1>4
  <2>2. QED BY <2>1
<1>6. pos = begin + n * ByteBits
  BY <1>1, <1>3, <1>5
<1>7. (pos - begin) \div ByteBits = n
  <2>1. pos - begin = n * ByteBits
    BY <1>1, <1>6
  <2>2. (n * ByteBits) \div ByteBits = n
    BY <1>1
  <2>3. QED BY <2>1, <2>2
<1>8. ((pos + RegisterBits) - begin) \div ByteBits = n + 4
  <2>1. PICK m \in Nat : m = n + 4
    OBVIOUS
  <2>2. (pos + RegisterBits) - begin = m * ByteBits
    BY <1>1, <1>6, <2>1
  <2>3. (m * ByteBits) \div ByteBits = m
    BY <1>1
  <2>4. QED BY <2>1, <2>2, <2>3
<1>9. QED BY <1>6, <1>7, <1>8

\* where the bits of a byte stand
LEMMA BitsStand ==
  ASSUME NEW begin \in Nat, NEW m \in Nat, NEW i \in 1..m, NEW j \in 1..ByteBits
  PROVE  /\ begin + (i - 1) * ByteBits + j - 1 \in Nat
         /\ begin + (i - 1) * ByteBits + j - 1 < begin + m * ByteBits
<1>1. ByteBits \in Nat /\ ByteBits >= 1
  BY Widths
<1>2. PICK k \in Nat : k = i - 1
  OBVIOUS
<1>3. k + 1 <= m
  BY <1>2
<1>4. (k + 1) * ByteBits <= m * ByteBits
  BY <1>1, <1>3
<1>5. (k + 1) * ByteBits = k * ByteBits + ByteBits /\ k * ByteBits \in Nat /\ m * ByteBits \in Nat
  BY <1>1
<1>6. QED BY <1>1, <1>2, <1>4, <1>5

\* the bits of a message up to a limit
AreBits(bits, l) == /\ l \in Nat
                    /\ \A i \in 0..(l - 1) : i \in DOMAIN bits /\ bits[i] \in {0, 1}

LEMMA WholeBuffer ==
  ASSUME NEW bits \in [0..(BufferEnd - 1) -> {0, 1}]
  PROVE  AreBits(bits, BufferEnd)
BY BufferSize DEF AreBits

LEMMA BytesIn ==
  ASSUME NEW bits, NEW l, AreBits(bits, l), NEW begin \in Nat, NEW m \in Nat,
         begin + m * ByteBits <= l
  PROVE  BytesOf(bits, begin, m) \in [1..m -> ByteRange]
<1>1. ByteBits \in Nat /\ ByteBits \in 0..RegisterBits /\ l \in Nat /\ m * ByteBits \in Nat
  BY Widths DEF AreBits
<1>2. ASSUME NEW i \in 1..m
      PROVE  NumberOf([j \in 1..ByteBits |-> bits[begin + (i - 1) * ByteBits + j - 1]])
               \in ByteRange
  <2>1. ASSUME NEW j \in 1..ByteBits
        PROVE  bits[begin + (i - 1) * ByteBits + j - 1] \in {0, 1}
    <3>1. PICK k : k = begin + (i - 1) * ByteBits + j - 1
      OBVIOUS
    <3>2. k \in Nat /\ k < begin + m * ByteBits
      BY <3>1, BitsStand
    <3>3. k \in 0..(l - 1)
      BY <1>1, <3>2
    <3>4. QED BY <3>1, <3>3 DEF AreBits
  <2> DEFINE f == [j \in 1..ByteBits |-> bits[begin + (i - 1) * ByteBits + j - 1]]
  <2>2. f \in [1..ByteBits -> {0, 1}]
    BY <2>1
  <2> HIDE DEF f
  <2>3. NumberOf(f) \in ByteRange
    BY <1>1, <2>2, NumberSpells DEF ByteRange
  <2>4. QED BY <2>3 DEF f
<1>3. QED BY <1>2 DEF BytesOf

\* the checksum of the bytes from one byte border to another
SumOf(bits, begin, pos) == dvb_crc32(BytesOf(bits, begin, (pos - begin) \div ByteBits))

LEMMA SumIsRegister ==
  ASSUME NEW bits, NEW l, AreBits(bits, l), NEW begin \in Nat, NEW pos \in Nat,
         begin <= pos, Aligned(begin), Aligned(pos), pos <= l
  PROVE  /\ SumOf(bits, begin, pos) \in Registers
         /\ NumberOf(SumOf(bits, begin, pos)) \in 0..(2^RegisterBits - 1)
         /\ NumberOf(SumOf(bits, begin, pos)) \in Nat
<1>1. PICK n \in Nat : pos = begin + n * ByteBits /\ (pos - begin) \div ByteBits = n
  BY WholeBytes
<1> DEFINE b == BytesOf(bits, begin, n)
           c == SumOf(bits, begin, pos)
<1>2. b \in [1..n -> ByteRange]
  BY <1>1, BytesIn
<1>3. c = dvb_crc32(b)
  BY <1>1 DEF SumOf
<1> HIDE DEF b, c
<1>4. c \in Registers
  BY <1>2, <1>3, ChecksumIsRegister
<1>5. c \in [1..RegisterBits -> {0, 1}] /\ RegisterBits \in 0..RegisterBits
  BY <1>4, Widths DEF Registers
<1>6. NumberOf(c) \in 0..(2^RegisterBits - 1) /\ 2^RegisterBits \in Nat
  BY <1>5, NumberSpells, WeightsRise
<1>7. NumberOf(c) \in Nat
  BY <1>6
<1>8. QED BY <1>4, <1>6, <1>7 DEF c

\* a checksum that stands where the bytes end that it is the checksum of
\* divides these bytes and itself
LEMMA SumDivides ==
  ASSUME NEW bits, NEW l, AreBits(bits, l), NEW begin \in Nat, NEW pos \in Nat,
         begin <= pos, Aligned(begin), Aligned(pos), pos + RegisterBits <= l,
         NEW c, c = SumOf(bits, begin, pos),
         \A i \in 1..RegisterBits : bits[pos + i - 1] = c[i]
  PROVE  Remainder(BytesOf(bits, begin, ((pos + RegisterBits) - begin) \div ByteBits)) = Zeros
<1>1. /\ ByteBits \in Nat /\ ByteBits >= 1 /\ RegisterBits \in Nat /\ RegisterBits = 4 * ByteBits
      /\ l \in Nat
  BY Widths DEF AreBits
<1>2. PICK n \in Nat : /\ pos = begin + n * ByteBits
                       /\ (pos - begin) \div ByteBits = n
                       /\ ((pos + RegisterBits) - begin) \div ByteBits = n + 4
  BY WholeBytes
<1>3. PICK last \in Nat : last = n + 4
  OBVIOUS
<1> DEFINE bytes == BytesOf(bits, begin, n)
           sent == BytesOf(bits, begin, last)
<1>4. bytes \in [1..n -> ByteRange]
  <2>1. begin + n * ByteBits <= l
    BY <1>1, <1>2
  <2>2. QED BY <2>1, BytesIn
<1>5. c \in Registers
  <2>1. pos <= l
    BY <1>1
  <2>2. QED BY <2>1, SumIsRegister
<1>6. sent \in [1..last -> ByteRange]
  <2>1. begin + last * ByteBits <= l
    BY <1>1, <1>2, <1>3
  <2>2. QED BY <2>1, BytesIn
<1>7. ASSUME NEW i \in 1..n PROVE sent[i] = bytes[i]
  <2>1. i \in 1..last
    BY <1>3
  <2>2. QED BY <2>1 DEF BytesOf
<1>8. ASSUME NEW i \in 1..4 PROVE sent[n + i] = ByteOf(c, i)
  <2>1. PICK m \in 1..last : m = n + i
    BY <1>3
  <2>2. PICK p \in Nat : p = (i - 1) * ByteBits
    BY <1>1
  <2>3. (m - 1) * ByteBits = n * ByteBits + p
    BY <1>1, <2>1, <2>2
  <2>4. ASSUME NEW j \in 1..ByteBits
        PROVE  bits[begin + (m - 1) * ByteBits + j - 1] = c[(i - 1) * ByteBits + j]
    <3>1. p + j \in 1..RegisterBits
      BY <1>5, <2>2, RegisterBytes
    <3>2. PICK k, place : k = begin + (m - 1) * ByteBits + j - 1 /\ place = p + j
      OBVIOUS
    <3>3. k = pos + place - 1
      BY <1>1, <1>2, <2>3, <3>2
    <3>4. bits[k] = c[place]
      BY <3>1, <3>2, <3>3
    <3>5. QED BY <2>2, <3>2, <3>4
  <2>5. [j \in 1..ByteBits |-> bits[begin + (m - 1) * ByteBits + j - 1]]
          = [j \in 1..ByteBits |-> c[(i - 1) * ByteBits + j]]
    BY <2>4
  <2>6. sent[m] = NumberOf([j \in 1..ByteBits |-> bits[begin + (m - 1) * ByteBits + j - 1]])
    BY DEF BytesOf
  <2>7. QED BY <2>1, <2>5, <2>6 DEF ByteOf
<1>9. c = dvb_crc32(bytes)
  BY <1>2 DEF SumOf
<1>10. Remainder(sent) = Zeros
  <2> HIDE DEF sent, bytes
  <2>1. sent \in [1..(n + 4) -> ByteRange]
    BY <1>3, <1>6
  <2>2. \A i \in 1..4 : sent[n + i] = ByteOf(dvb_crc32(bytes), i)
    BY <1>8, <1>9
  <2>3. QED BY <1>4, <1>7, <2>1, <2>2, ChecksumDividesEach
<1>11. QED BY <1>2, <1>3, <1>10

\* a number put there does
LEMMA FixDivides ==
  ASSUME NEW bits \in [0..(BufferEnd - 1) -> {0, 1}], NEW begin \in Nat, NEW pos \in Nat,
         begin <= pos, Aligned(begin), Aligned(pos), pos + RegisterBits <= BufferEnd
  PROVE  LET sum == SumOf(bits, begin, pos)
             fixed == Put(bits, pos, RegisterBits, NumberOf(sum))
         IN  Remainder(BytesOf(fixed, begin, ((pos + RegisterBits) - begin) \div ByteBits)) = Zeros
<1>1. /\ ByteBits \in Nat /\ RegisterBits \in Nat /\ BufferEnd \in Nat
      /\ RegisterBits \in 1..RegisterBits /\ RegisterBits \in 0..RegisterBits
  BY Widths, BufferSize
<1> DEFINE c == SumOf(bits, begin, pos)
           fixed == Put(bits, pos, RegisterBits, NumberOf(c))
<1>2. c \in Registers /\ NumberOf(c) \in Nat
  <2>1. AreBits(bits, BufferEnd) /\ pos <= BufferEnd
    BY <1>1, WholeBuffer
  <2>2. QED BY <2>1, SumIsRegister
<1>3. PICK n \in Nat : pos = begin + n * ByteBits /\ (pos - begin) \div ByteBits = n
  BY WholeBytes
<1>4. c = dvb_crc32(BytesOf(bits, begin, n))
  BY <1>3 DEF SumOf
<1> HIDE DEF c
<1>5. \A i \in 1..RegisterBits : Bit(NumberOf(c), RegisterBits - i) = c[i]
  <2>1. c \in [1..RegisterBits -> {0, 1}]
    BY <1>2 DEF Registers
  <2>2. QED BY <1>1, <2>1, NumberSpells
<1>6. /\ fixed \in [0..(BufferEnd - 1) -> {0, 1}]
      /\ \A i \in 0..(BufferEnd - 1) :
           /\ i \in pos..(pos + RegisterBits - 1) =>
                fixed[i] = Bit(NumberOf(c), pos + RegisterBits - 1 - i)
           /\ i < pos => fixed[i] = bits[i]
  <2>1. IsPut(fixed, bits, pos, RegisterBits, NumberOf(c))
    BY <1>1, <1>2, PutBits
  <2> HIDE DEF fixed
  <2>2. QED BY <2>1 DEF IsPut
<1> HIDE DEF fixed
<1>7. \A i \in 1..RegisterBits : fixed[pos + i - 1] = c[i]
  <2>1. SUFFICES ASSUME NEW i \in 1..RegisterBits PROVE fixed[pos + i - 1] = c[i]
    OBVIOUS
  <2>2. PICK k : k = pos + i - 1
    OBVIOUS
  <2>3. /\ k \in pos..(pos + RegisterBits - 1) /\ k \in 0..(BufferEnd - 1)
        /\ pos + RegisterBits - 1 - k = RegisterBits - i
    BY <1>1, <2>2
  <2>4. fixed[k] = Bit(NumberOf(c), RegisterBits - i)
    BY <1>6, <2>3
  <2>5. QED BY <1>5, <2>2, <2>4
<1>8. BytesOf(fixed, begin, n) = BytesOf(bits, begin, n)
  <2>1. ASSUME NEW i \in 1..n, NEW j \in 1..ByteBits
        PROVE  fixed[begin + (i - 1) * ByteBits + j - 1] = bits[begin + (i - 1) * ByteBits + j - 1]
    <3>1. PICK k : k = begin + (i - 1) * ByteBits + j - 1
      OBVIOUS
    <3>2. k \in Nat /\ k < begin + n * ByteBits
      BY <3>1, BitsStand
    <3>3. k \in 0..(BufferEnd - 1) /\ k < pos
      BY <1>1, <1>3, <3>2
    <3>4. QED BY <1>6, <3>1, <3>3
  <2>2. ASSUME NEW i \in 1..n
        PROVE  [j \in 1..ByteBits |-> fixed[begin + (i - 1) * ByteBits + j - 1]]
                 = [j \in 1..ByteBits |-> bits[begin + (i - 1) * ByteBits + j - 1]]
    BY <2>1
  <2>3. QED BY <2>2 DEF BytesOf
<1>9. c = SumOf(fixed, begin, pos)
  BY <1>3, <1>4, <1>8 DEF SumOf
<1>10. AreBits(fixed, BufferEnd)
  BY <1>6, WholeBuffer
<1>11. Remainder(BytesOf(fixed, begin, ((pos + RegisterBits) - begin) \div ByteBits)) = Zeros
  BY <1>7, <1>9, <1>10, SumDivides
<1>12. QED BY <1>11 DEF fixed, c

----------------------------------------------------------------------------
(* the section, call by call *)

LEMMA SameMode ==
  ASSUME Io
  PROVE  mode' = mode
<1>1. \A f : Uint(f) \/ UintReq(f) => mode' = mode
  BY DEF Uint, UintReq, Dispatch
<1>2. UNCHANGED common \/ Throw => mode' = mode
  BY DEF common, iox, Throw
<1>3. \A name, s, legal, bytes : ConstructString(name, s, legal, bytes) => mode' = mode
  BY <1>2 DEF ConstructString
<1>4. \A name, n : ParseTextString(name, n) => mode' = mode
  BY <1>2 DEF ParseTextString
<1>5. \A skipped, len : ParseBinaryString(skipped, len) => mode' = mode
  BY DEF ParseBinaryString
<1>6. CASE UintCall \/ UintReqCall \/ TagCall
  BY <1>1, <1>2, <1>6 DEF UintCall, UintReqCall, TagCall
<1>7. CASE BlockBeginCall \/ BlockEndCall
  BY <1>7 DEF BlockBeginCall, BlockEndCall, NamedBlockBegin, NamedBlockEnd, Dispatch
<1>8. CASE VectorIo \/ DescriptorFactory \/ DataCall \/ NitBegin \/ SectionLengthTest
  BY <1>2, <1>8 DEF VectorIo, DescriptorFactory, DataCall, NitBegin, SectionLengthTest
<1>9. CASE StringCall
  <2>1. \A name, s : ShortString(name, s) => mode' = mode
    BY <1>2, <1>3, <1>4, <1>5 DEF ShortString
  <2>2. \A name, n, s : FixedString(name, n, s) => mode' = mode
    BY <1>2, <1>3, <1>4, <1>5 DEF FixedString
  <2>3. QED BY <1>9, <2>1, <2>2 DEF StringCall
<1>10. CASE CrcCall
  BY <1>1, <1>2, <1>10 DEF CrcCall, crc_io, ConstructCrc, CheckCrc
<1>11. CASE CrcLateFix
  BY <1>2, <1>11 DEF CrcLateFix, crc_late_fix, FixCrc
<1>12. QED BY <1>6, <1>7, <1>8, <1>9, <1>10, <1>11 DEF Io

LEMMA NothingThen ==
  ASSUME IsSeq(Tail(todo)), Then(<<>>)
  PROVE  todo' = Tail(todo)
<1>1. PICK P : Tail(todo) \in Seq(P)
  BY DEF IsSeq
<1>2. QED BY <1>1, ConcatEmptySeq DEF Then

\* what a section is checked by, once all of it is there
Divides == Remainder(BytesAt(nit_begin, (bitpos - nit_begin) \div ByteBits)) = Zeros

\* the checksum stands at the end
SumPut == /\ nit_begin \in Nat /\ crc_pos \in Nat /\ nit_begin <= crc_pos
          /\ Aligned(nit_begin) /\ Aligned(crc_pos)
          /\ bitpos = crc_pos + RegisterBits

\* which call it is the turn of: one before the section, one of its body, one of
\* those that close it
AtCall == \/ Led(todo, NetworkInformationSection)
          \/ Led(todo, SectionClose) /\ nit_begin \in Nat /\ nit_begin <= bitpos
          \/ todo \in {AfterSum, AfterEnd} /\ SumPut
          \/ todo \in {AfterFix, <<>>} /\ Divides
          \/ given.layout \notin WithSection /\ Led(todo, <<>>)

ChecksumInv == /\ given \in Objects
               /\ mode = "construct_binary" =>
                    /\ given.layout \in WithSection /\ todo = <<>> => Divides /\ Built
                    /\ ~thrown => Built /\ AtCall

\* a call before the last of those that t begins with
LEMMA LedGoesOn ==
  ASSUME NEW t, IsSeq(t), Io, Led(todo, t), todo # t
  PROVE  /\ Led(todo', t) /\ nit_begin' = nit_begin /\ IsCall2(Call)
         /\ t # <<>> => todo' # <<>>
<1>1. PICK rest : /\ IsCall2(Call) /\ Calls2(rest) /\ Tail(todo) = rest \o t
                  /\ todo = <<Call>> \o (rest \o t)
  <2>1. OneOf(todo, t)
    BY LedOrNot
  <2>2. QED BY <2>1 DEF OneOf, Call
<1>2. IsSeq(rest \o t)
  <2>1. PICK P : rest \in Seq(P)
    BY <1>1 DEF Calls2
  <2>2. PICK Q : t \in Seq(Q)
    BY DEF IsSeq
  <2> DEFINE All == P \cup Q
  <2>3. rest \in Seq(All) /\ t \in Seq(All)
    BY <2>1, <2>2, SeqMonotonic
  <2> HIDE DEF All
  <2>4. QED BY <2>3, ConcatProperties DEF IsSeq
<1>3. todo = <<Call>> \o Tail(todo) /\ IsSeq(Tail(todo))
  BY <1>1, <1>2
<1>4. Replaced
  BY <1>1, <1>3, CallReplaced
<1>5. PICK calls : Calls2(calls) /\ todo' = calls \o (rest \o t)
  BY <1>1, <1>4 DEF Replaced
<1>6. Led(todo', t)
  BY <1>1, <1>5, LedOn
<1>7. t # <<>> => todo' # <<>>
  BY <1>6, LedNotEmpty
<1>8. QED BY <1>1, <1>4, <1>6, <1>7 DEF Replaced

LEMMA LedStep ==
  ASSUME NEW t, IsSeq(t), mode = "construct_binary", Built, Io,
         Led(todo, t), todo # t
  PROVE  /\ Led(todo', t) /\ KeepsBuilding /\ nit_begin' = nit_begin
         /\ t # <<>> => todo' # <<>>
BY LedGoesOn, CallBuilds

\* the position at which the section begins is kept
LEMMA BeginStep ==
  ASSUME bitpos \in Nat, Io, todo = NetworkInformationSection
  PROVE  /\ Led(todo', SectionClose) /\ todo' # <<>>
         /\ nit_begin' \in Nat /\ nit_begin' <= bitpos'
         /\ Built => Built'
<1>1. Call.op = "nit_begin"
  BY InTurn DEF Call
<1>2. NitBegin
  BY <1>1 DEF Io, UintCall, UintReqCall, BlockBeginCall, BlockEndCall, VectorIo, TagCall,
              DescriptorFactory, StringCall, DataCall, CrcCall, CrcLateFix, SectionLengthTest
<1>3. todo' = Tail(NetworkInformationSection)
  BY <1>2, InTurn, NothingThen DEF NitBegin
<1>4. /\ nit_begin' = bitpos /\ data' = data /\ bitpos' = bitpos /\ bitlimit' = bitlimit
      /\ scope_stack' = scope_stack
  BY <1>2 DEF NitBegin, common, iox
<1>5. bitpos <= bitpos
  OBVIOUS
<1>6. todo' # <<>>
  BY <1>3, InTurn, LedNotEmpty
<1>7. QED BY <1>3, <1>4, <1>5, <1>6, InTurn DEF Built

\* the checksum is put a first time, for its room
LEMMA SumStep ==
  ASSUME mode = "construct_binary", Built, Io, todo = SectionClose,
         nit_begin \in Nat, nit_begin <= bitpos
  PROVE  todo' = AfterSum /\ (~thrown' => Built' /\ SumPut')
<1>1. Call.op = "crc_io"
  BY InTurn DEF Call
<1>2. CrcCall
  BY <1>1 DEF Io, UintCall, UintReqCall, BlockBeginCall, BlockEndCall, VectorIo, TagCall,
              DescriptorFactory, StringCall, DataCall, NitBegin, CrcLateFix, SectionLengthTest
<1>3. todo' = AfterSum
  BY <1>2, InTurn, NothingThen DEF CrcCall
<1>4. ASSUME ~thrown' PROVE Built' /\ SumPut'
  <2> DEFINE f == CrcField(NumberOf(Sum(nit_begin, bitpos)))
  <2>1. /\ Aligned(nit_begin) /\ Aligned(bitpos) /\ Uint(f)
        /\ crc_pos' = bitpos /\ nit_begin' = nit_begin
    BY <1>2, <1>4 DEF CrcCall, crc_io, Throw, ConstructCrc
  <2>2. /\ bitpos' = bitpos + RegisterBits /\ bitpos + RegisterBits <= bitlimit
    BY <1>4, <2>1 DEF Uint, Dispatch, O!Uint, O!Write, O!RefuseWrite, O!Writable, CrcField
  <2>3. bitpos \in Nat /\ bitlimit \in Nat /\ bitlimit <= BufferEnd
    BY BufferSize DEF Built
  <2>4. f.size \in 1..RegisterBits
    BY Widths DEF CrcField
  <2>5. f.val \in Nat
    <3>1. AreBits(data, BufferEnd) /\ bitpos <= BufferEnd
      BY <2>2, <2>3, WholeBuffer, Widths, BufferSize DEF Built
    <3>2. NumberOf(SumOf(data, nit_begin, bitpos)) \in Nat
      BY <2>1, <2>3, <3>1, SumIsRegister
    <3>3. Sum(nit_begin, bitpos) = SumOf(data, nit_begin, bitpos)
      BY DEF Sum, SumOf, BytesAt, BytesOf
    <3>4. QED BY <3>2, <3>3 DEF CrcField
  <2>6. KeepsBuilding
    <3> HIDE DEF f
    <3>1. QED BY <2>1, <2>4, <2>5, NumberBuilds
  <2>7. Built'
    BY <1>4, <2>6 DEF KeepsBuilding
  <2>8. SumPut'
    BY <2>1, <2>2, <2>3 DEF SumPut, Aligned
  <2>9. QED BY <2>7, <2>8
<1>5. QED BY <1>3, <1>4

\* the length of the section is put
LEMMA EndStep ==
  ASSUME mode = "construct_binary", Built, Io, todo = AfterSum, SumPut
  PROVE  todo' = AfterEnd /\ (~thrown' => Built' /\ SumPut')
<1>1. Call.op = "named_block_end"
  BY InTurn DEF Call
<1>2. BlockEndCall
  BY <1>1 DEF Io, UintCall, UintReqCall, BlockBeginCall, NitBegin, VectorIo, TagCall,
              DescriptorFactory, StringCall, DataCall, CrcCall, CrcLateFix, SectionLengthTest
<1>3. todo' = AfterEnd
  BY <1>2, InTurn, NothingThen DEF BlockEndCall
<1>4. KeepsBuilding /\ (~thrown' => bitpos' = bitpos)
  BY <1>2, BlockEndBuilds DEF BlockEndCall
<1>5. nit_begin' = nit_begin /\ crc_pos' = crc_pos
  BY <1>2 DEF BlockEndCall
<1>6. QED BY <1>3, <1>4, <1>5 DEF KeepsBuilding, SumPut, Aligned

\* the checksum is put again
LEMMA FixStep ==
  ASSUME mode = "construct_binary", Built, Io, todo = AfterEnd, SumPut
  PROVE  todo' = AfterFix /\ (~thrown' => Built' /\ Divides')
<1>1. Call.op = "crc_late_fix"
  BY InTurn DEF Call
<1>2. CrcLateFix
  BY <1>1 DEF Io, UintCall, UintReqCall, BlockBeginCall, BlockEndCall, NitBegin, VectorIo,
              TagCall, DescriptorFactory, StringCall, DataCall, CrcCall, SectionLengthTest
<1>3. todo' = AfterFix
  BY <1>2, InTurn, NothingThen DEF CrcLateFix
<1>4. ASSUME ~thrown' PROVE Built' /\ Divides'
  <2>1. /\ data' = Put(data, crc_pos, RegisterBits, NumberOf(Sum(nit_begin, crc_pos)))
        /\ crc_pos + RegisterBits <= bitlimit
        /\ bitpos' = bitpos /\ bitlimit' = bitlimit /\ scope_stack' = scope_stack
        /\ nit_begin' = nit_begin
    BY <1>2, <1>4 DEF CrcLateFix, crc_late_fix, Throw, FixCrc, O!Writable, Locals
  <2>2. /\ nit_begin \in Nat /\ crc_pos \in Nat /\ nit_begin <= crc_pos
        /\ Aligned(nit_begin) /\ Aligned(crc_pos) /\ bitpos = crc_pos + RegisterBits
    BY DEF SumPut
  <2>3. crc_pos + RegisterBits <= BufferEnd /\ data \in [0..(BufferEnd - 1) -> {0, 1}]
    BY <2>1, <2>2, BufferSize, Widths DEF Built
  <2> DEFINE all == ((crc_pos + RegisterBits) - nit_begin) \div ByteBits
             c == SumOf(data, nit_begin, crc_pos)
             fixed == Put(data, crc_pos, RegisterBits, NumberOf(c))
  <2>4. Sum(nit_begin, crc_pos) = c
    BY DEF Sum, SumOf, BytesAt, BytesOf
  <2>5. data' = fixed
    BY <2>1, <2>4
  <2>6. Remainder(BytesOf(fixed, nit_begin, all)) = Zeros
    BY <2>2, <2>3, FixDivides
  <2>7. Divides'
    <3>1. BytesAt(nit_begin, (bitpos - nit_begin) \div ByteBits)'
            = BytesOf(data', nit_begin', (bitpos' - nit_begin') \div ByteBits)
      BY DEF BytesAt, BytesOf
    <3>2. (bitpos' - nit_begin') \div ByteBits = all
      <4>1. bitpos' = crc_pos + RegisterBits /\ nit_begin' = nit_begin
        BY <2>1, <2>2
      <4> DEFINE Whole(from, to) == (to - from) \div ByteBits
      <4> HIDE DEF Whole
      <4>2. Whole(nit_begin', bitpos') = Whole(nit_begin, crc_pos + RegisterBits)
        BY <4>1
      <4>3. QED BY <4>2 DEF Whole
    <3> HIDE DEF fixed, all
    <3>3. Remainder(BytesOf(data', nit_begin', (bitpos' - nit_begin') \div ByteBits)) = Zeros
      BY <2>1, <2>5, <2>6, <3>2
    <3>4. QED BY <3>1, <3>3 DEF Divides
  <2>8. data' \in [0..(BufferEnd - 1) -> {0, 1}]
    <3>1. NumberOf(c) \in Nat
      <4>1. AreBits(data, BufferEnd) /\ crc_pos <= BufferEnd
        BY <2>2, <2>3, WholeBuffer, Widths, BufferSize
      <4>2. QED BY <2>2, <4>1, SumIsRegister
    <3> HIDE DEF c
    <3>2. RegisterBits \in 1..RegisterBits
      BY Widths
    <3>3. QED BY <2>2, <2>3, <2>5, <3>1, <3>2, PutBits DEF IsPut
  <2>9. QED BY <2>1, <2>7, <2>8 DEF Built
<1>5. QED BY <1>3, <1>4

\* the test that comes last changes nothing of the message
LEMMA TestStep ==
  ASSUME Io, todo = AfterFix, Divides
  PROVE  todo' = <<>> /\ Divides' /\ (Built => Built')
<1>1. Call.op = "section_length_test"
  BY InTurn DEF Call
<1>2. SectionLengthTest
  BY <1>1 DEF Io, UintCall, UintReqCall, BlockBeginCall, BlockEndCall, NitBegin, VectorIo,
              TagCall, DescriptorFactory, StringCall, DataCall, CrcCall, CrcLateFix
<1>3. todo' = <<>>
  BY <1>2, InTurn, NothingThen DEF SectionLengthTest
<1>4. /\ data' = data /\ bitpos' = bitpos /\ bitlimit' = bitlimit
      /\ scope_stack' = scope_stack /\ nit_begin' = nit_begin
  BY <1>2 DEF SectionLengthTest, Throw, common, iox, Locals
<1>5. QED BY <1>3, <1>4 DEF Divides, BytesAt, Built

\* a message begins with an empty buffer, no block open and all calls to make
LEMMA BeginsWell ==
  ASSUME NEW layout \in DOMAIN Layout, NEW bits, bits \in [0..(BufferEnd - 1) -> {0, 1}]
  PROVE  /\ layout \in WithSection => /\ Layout[layout] # <<>>
                                     /\ Led(Layout[layout], NetworkInformationSection)
         /\ layout \notin WithSection => Led(Layout[layout], <<>>)
         /\ 0 \in Nat /\ BufferEnd \in 0..BufferEnd /\ <<>> \in Seq(Opened(0))
<1>1. /\ layout \in WithSection => Led(Layout[layout], NetworkInformationSection)
      /\ layout \notin WithSection => Led(Layout[layout], <<>>)
  BY LayoutsLead
<1>2. layout \in WithSection => Layout[layout] # <<>>
  BY <1>1, InTurn, LedNotEmpty
<1>3. BufferEnd \in 0..BufferEnd
  BY BufferSize
<1>4. <<>> \in Seq(Opened(0))
  OBVIOUS
<1>5. QED BY <1>1, <1>2, <1>3, <1>4

LEMMA ChecksumInit == Init => ChecksumInv
<1> SUFFICES ASSUME Init
             PROVE  /\ given.layout \in WithSection => todo # <<>>
                    /\ Built /\ AtCall
  BY DEF ChecksumInv, Init
<1>1. /\ bitpos = 0 /\ bitlimit = BufferEnd /\ scope_stack = <<>>
      /\ todo = Layout[given.layout] /\ given.layout \in DOMAIN Layout
      /\ data \in {[i \in 0..(BufferEnd - 1) |-> b] : b \in {0, 1}}
  BY LayoutAssumption DEF Init, O!Init, O!BufferBits, BufferEnd
<1>2. data \in [0..(BufferEnd - 1) -> {0, 1}]
  BY <1>1
<1>3. /\ given.layout \in WithSection => todo # <<>> /\ Led(todo, NetworkInformationSection)
      /\ given.layout \notin WithSection => Led(todo, <<>>)
      /\ bitpos \in Nat /\ bitlimit \in 0..BufferEnd /\ scope_stack \in Seq(Opened(bitpos))
  BY <1>1, <1>2, BeginsWell
<1>4. QED BY <1>2, <1>3 DEF Built, AtCall

LEMMA ChecksumIo ==
  ASSUME ChecksumInv, Io
  PROVE  ChecksumInv'
<1>1. SUFFICES ASSUME mode' = "construct_binary"
               PROVE  /\ given.layout \in WithSection /\ todo' = <<>> => Divides' /\ Built'
                      /\ ~thrown' => Built' /\ AtCall'
  BY DEF ChecksumInv, Io
<1>2. mode = "construct_binary" /\ ~thrown /\ todo # <<>> /\ given' = given
  BY <1>1, SameMode DEF Io
<1>3. Built /\ AtCall
  BY <1>2 DEF ChecksumInv
<1>4. bitpos \in Nat
  BY <1>3 DEF Built
<1>5. CASE Led(todo, NetworkInformationSection)
  <2>1. CASE todo = NetworkInformationSection
    BY <1>3, <1>4, <2>1, BeginStep DEF AtCall
  <2>2. CASE todo # NetworkInformationSection
    <3>1. /\ Led(todo', NetworkInformationSection) /\ todo' # <<>> /\ KeepsBuilding
      BY <1>2, <1>3, <1>5, <2>2, InTurn, LedStep
    <3>2. QED BY <3>1 DEF AtCall, KeepsBuilding
  <2>3. QED BY <2>1, <2>2
<1>6. CASE Led(todo, SectionClose) /\ nit_begin \in Nat /\ nit_begin <= bitpos
  <2>1. CASE todo = SectionClose
    <3>1. todo' = AfterSum /\ (~thrown' => Built' /\ SumPut')
      BY <1>2, <1>3, <1>6, <2>1, SumStep
    <3>2. QED BY <3>1, InTurn DEF AtCall
  <2>2. CASE todo # SectionClose
    <3>1. /\ Led(todo', SectionClose) /\ todo' # <<>> /\ KeepsBuilding
          /\ nit_begin' = nit_begin
      BY <1>2, <1>3, <1>6, <2>2, InTurn, LedStep
    <3>2. ~thrown' => Built' /\ nit_begin' \in Nat /\ nit_begin' <= bitpos'
      <4>1. ASSUME ~thrown' PROVE Built' /\ bitpos <= bitpos' /\ bitpos' \in Nat
        BY <3>1, <4>1 DEF KeepsBuilding, Built
      <4>2. QED BY <1>4, <1>6, <3>1, <4>1
    <3>3. QED BY <3>1, <3>2 DEF AtCall
  <2>3. QED BY <2>1, <2>2
<1>7. CASE todo = AfterSum /\ SumPut
  <2>1. todo' = AfterEnd /\ (~thrown' => Built' /\ SumPut')
    BY <1>2, <1>3, <1>7, EndStep
  <2>2. QED BY <2>1, InTurn DEF AtCall
<1>8. CASE todo = AfterEnd /\ SumPut
  <2>1. todo' = AfterFix /\ (~thrown' => Built' /\ Divides')
    BY <1>2, <1>3, <1>8, FixStep
  <2>2. QED BY <2>1, InTurn DEF AtCall
<1>9. CASE todo = AfterFix /\ Divides
  <2>1. todo' = <<>> /\ Divides' /\ Built'
    BY <1>3, <1>9, TestStep
  <2>2. QED BY <2>1 DEF AtCall
<1>10. CASE given.layout \notin WithSection /\ Led(todo, <<>>)
  <2>1. Led(todo', <<>>) /\ KeepsBuilding
    BY <1>2, <1>3, <1>10, InTurn, LedStep
  <2>2. QED BY <1>2, <1>10, <2>1 DEF AtCall, KeepsBuilding
<1>11. QED BY <1>2, <1>3, <1>5, <1>6, <1>7, <1>8, <1>9, <1>10 DEF AtCall

LEMMA ChecksumStep ==
  ASSUME ChecksumInv, [Next]_vars
  PROVE  ChecksumInv'
<1>1. CASE Io
  BY <1>1, ChecksumIo
<1>2. CASE Deliver \/ WriteText \/ ReadText
  <2>1. mode' # "construct_binary" /\ given' = given
    BY <1>2 DEF Deliver, WriteText, ReadText, ParseBinary, ConstructText, ParseText, Again
  <2>2. QED BY <2>1 DEF ChecksumInv
<1>3. CASE Rebuild
  <2>1. /\ bitpos' = 0 /\ bitlimit' = BufferEnd /\ scope_stack' = <<>>
        /\ todo' = Layout[given.layout] /\ given' = given
        /\ data' = [i \in 0..(BufferEnd - 1) |-> 1]
    BY <1>3 DEF Rebuild, ConstructBinary, Again, BufferEnd
  <2>2. data' \in [0..(BufferEnd - 1) -> {0, 1}] /\ given.layout \in DOMAIN Layout
    BY <2>1, LayoutAssumption DEF ChecksumInv
  <2>3. /\ given'.layout \in WithSection =>
             todo' # <<>> /\ Led(todo', NetworkInformationSection)
        /\ given'.layout \notin WithSection => Led(todo', <<>>)
        /\ bitpos' \in Nat /\ bitlimit' \in 0..BufferEnd
        /\ scope_stack' \in Seq(Opened(bitpos'))
    BY <2>1, <2>2, BeginsWell
  <2>4. QED BY <2>1, <2>2, <2>3 DEF Built, AtCall, ChecksumInv
<1>4. CASE UNCHANGED vars
  BY <1>4 DEF vars, common, iox, structure, ChecksumInv, AtCall, Divides, SumPut, Built,
              BytesAt
<1>5. QED BY <1>1, <1>2, <1>3, <1>4 DEF Next

----------------------------------------------------------------------------
(* what a parser makes, and the bits it has read for that *)

\* no number of so many bits is ever spread over more than four bytes
Narrow == 3 * ByteBits + 1

\* the items of the loops
LoopItems == {D!Service, <<[op |-> "tag"], [op |-> "descriptor_factory"]>>,
              TsSpecification, D!Item}

\* a call that returns has read so many bits at least, for a wider number may
\* be found to span five bytes, and appends so many members
Reads(c) == CASE c.op \in {"uint", "named_block_begin"} -> IF c.size <= Narrow THEN c.size ELSE 0
              [] c.op \in {"tag", "short_string_io", "fixed_string_io"} -> ByteBits
              [] OTHER -> 0
Makes(c) == IF c.op \in {"uint", "tag", "short_string_io", "fixed_string_io"} THEN 1 ELSE 0

ParsedOps == PlainOps \cup {"nit_begin", "crc_io", "crc_late_fix"}
IsParsed(c) == /\ c.op \in ParsedOps
               /\ c.op \in {"uint", "uint_req", "named_block_begin"} => c.size \in 1..RegisterBits
               /\ c.op = "fixed_string_io" => c.num_chars \in 1..(2^ByteBits - 1)

\* What a parser is left with between two calls: bits read for which it has
\* made nothing yet, and whether the last it has made is a number of one byte.
\* A loop may test whether there is more for bits that have been read before
Purse == [funds : Nat, number : BOOLEAN]
Pays(c, a, b) ==
  \/ /\ IsParsed(c)
     /\ b.funds + Makes(c) <= a.funds + Reads(c)
     /\ b.number => c.op = "uint" /\ c.size = ByteBits
     /\ c.op = "data" => a.number
  \/ c.op = "vector_io" /\ c.item \in LoopItems /\ b.funds + 1 <= a.funds /\ ~b.number

\* calls made one after the other, with the purse there is between them
IsWay(v, s, a, b) == /\ v \in [0..Len(s) -> Purse]
                     /\ v[0] = a /\ v[Len(s)] = b
                     /\ \A i \in 1..Len(s) : Pays(s[i], v[i - 1], v[i])
Affords(s, a, b) == IsSeq(s) /\ \E v : IsWay(v, s, a, b)

Left(n) == [funds |-> n, number |-> FALSE]

LEMMA AffordsNone ==
  ASSUME NEW a \in Purse
  PROVE  Affords(<<>>, a, a)
<1>1. IsSeq(<<>>)
  BY InTurn
<1>2. IsWay([i \in 0..0 |-> a], <<>>, a, a)
  <2>1. Len(<<>>) = 0
    OBVIOUS
  <2>2. QED BY <2>1 DEF IsWay
<1>3. QED BY <1>1, <1>2 DEF Affords

LEMMA AffordsOne ==
  ASSUME NEW c, NEW a \in Purse, NEW b \in Purse, Pays(c, a, b)
  PROVE  Affords(<<c>>, a, b)
<1>1. IsSeq(<<c>>)
  <2>1. <<c>> \in Seq({c})
    OBVIOUS
  <2> DEFINE P == {c}
  <2> HIDE DEF P
  <2>2. <<c>> \in Seq(P)
    BY <2>1 DEF P
  <2>3. QED BY <2>2 DEF IsSeq
<1>2. IsWay([i \in 0..1 |-> IF i = 0 THEN a ELSE b], <<c>>, a, b)
  <2> DEFINE v == [i \in 0..1 |-> IF i = 0 THEN a ELSE b]
  <2>1. Len(<<c>>) = 1 /\ <<c>>[1] = c
    OBVIOUS
  <2>2. v \in [0..1 -> Purse] /\ v[0] = a /\ v[1] = b
    OBVIOUS
  <2>3. \A i \in 1..1 : i = 1 /\ i - 1 = 0
    OBVIOUS
  <2> HIDE DEF v
  <2>4. QED BY <2>1, <2>2, <2>3 DEF IsWay
<1>3. QED BY <1>1, <1>2 DEF Affords

LEMMA AffordsBoth ==
  ASSUME NEW s, NEW t, NEW a, NEW m, NEW b, Affords(s, a, m), Affords(t, m, b)
  PROVE  Affords(s \o t, a, b)
<1>1. PICK P : s \in Seq(P)
  BY DEF Affords, IsSeq
<1>2. PICK Q : t \in Seq(Q)
  BY DEF Affords, IsSeq
<1>3. PICK v : IsWay(v, s, a, m)
  BY DEF Affords
<1>4. PICK w : IsWay(w, t, m, b)
  BY DEF Affords
<1> DEFINE All == P \cup Q
           st == s \o t
<1>5. s \in Seq(All) /\ t \in Seq(All)
  BY <1>1, <1>2, SeqMonotonic
<1> HIDE DEF All
<1>6. PICK k \in Nat, n \in Nat : k = Len(s) /\ n = Len(t)
  BY <1>5, LenProperties
<1>7. /\ st \in Seq(All) /\ Len(st) = k + n
      /\ \A i \in 1..(k + n) : st[i] = IF i <= k THEN s[i] ELSE t[i - k]
  BY <1>5, <1>6, ConcatProperties
<1> HIDE DEF st
<1> DEFINE x == [i \in 0..(k + n) |-> IF i <= k THEN v[i] ELSE w[i - k]]
<1>8. /\ \A i \in 0..k : x[i] = v[i]
      /\ \A i \in 0..n : x[k + i] = w[i]
  <2>1. \A i \in 0..k : x[i] = v[i]
    OBVIOUS
  <2>2. ASSUME NEW i \in 0..n PROVE x[k + i] = w[i]
    <3>1. PICK j : j = k + i
      OBVIOUS
    <3>2. j \in 0..(k + n) /\ j - k = i /\ (j <= k <=> i = 0) /\ (i = 0 => j = k)
      BY <3>1
    <3>3. x[j] = IF j <= k THEN v[j] ELSE w[i]
      BY <3>2
    <3>4. v[k] = w[0]
      BY <1>3, <1>4, <1>6 DEF IsWay
    <3>5. QED BY <3>1, <3>2, <3>3, <3>4
  <2>3. QED BY <2>1, <2>2
<1>9. x \in [0..(k + n) -> Purse]
  <2>1. ASSUME NEW i \in 0..(k + n) PROVE x[i] \in Purse
    <3>1. CASE i <= k
      BY <1>3, <1>6, <3>1 DEF IsWay
    <3>2. CASE ~(i <= k)
      <4>1. PICK j \in 0..n : j = i - k
        BY <3>2
      <4>2. w[j] \in Purse /\ x[i] = w[j]
        BY <1>4, <1>6, <3>2, <4>1 DEF IsWay
      <4>3. QED BY <4>2
    <3>3. QED BY <3>1, <3>2
  <2>2. QED BY <2>1
<1> HIDE DEF x
<1>10. ASSUME NEW i \in 1..(k + n) PROVE Pays(st[i], x[i - 1], x[i])
  <2>1. CASE i <= k
    <3>1. i \in 1..k /\ i \in 0..k /\ i - 1 \in 0..k
      BY <2>1
    <3>2. Pays(s[i], v[i - 1], v[i])
      BY <1>3, <1>6, <3>1 DEF IsWay
    <3>3. x[i - 1] = v[i - 1] /\ x[i] = v[i] /\ st[i] = s[i]
      BY <1>7, <1>8, <2>1, <3>1
    <3>4. QED BY <3>2, <3>3
  <2>2. CASE ~(i <= k)
    <3>1. PICK j \in 1..n : i = k + j /\ j = i - k
      BY <2>2
    <3>2. j \in 0..n /\ j - 1 \in 0..n /\ i - 1 = k + (j - 1)
      BY <3>1
    <3>3. Pays(t[j], w[j - 1], w[j])
      BY <1>4, <1>6 DEF IsWay
    <3>4. x[k + j] = w[j] /\ x[k + (j - 1)] = w[j - 1]
      BY <1>8, <3>2
    <3>5. st[i] = t[j]
      BY <1>7, <2>2, <3>1
    <3>6. QED BY <3>1, <3>2, <3>3, <3>4, <3>5
  <2>3. QED BY <2>1, <2>2
<1>11. x[0] = a /\ x[k + n] = b
  <2>1. 0 \in 0..k /\ n \in 0..n
    OBVIOUS
  <2>2. QED BY <1>3, <1>4, <1>6, <1>8, <2>1 DEF IsWay
<1>12. IsWay(x, st, a, b)
  BY <1>7, <1>9, <1>10, <1>11 DEF IsWay
<1>13. QED BY <1>7, <1>12 DEF st, Affords, IsSeq

\* the first of the calls, and those after it
AffordsNext(s, a, b) == \E m \in Purse : /\ Pays(Head(s), a, m)
                                         /\ Affords(Tail(s), m, b)
                                         /\ s = <<Head(s)>> \o Tail(s)

LEMMA AffordsFirst ==
  ASSUME NEW s, NEW a, NEW b, s # <<>>, Affords(s, a, b)
  PROVE  AffordsNext(s, a, b) /\ IsSeq(Tail(s))
<1>1. PICK P : s \in Seq(P)
  BY DEF Affords, IsSeq
<1>2. PICK v : IsWay(v, s, a, b)
  BY DEF Affords
<1>3. PICK n \in Nat : Len(s) = n /\ n >= 1
  BY <1>1, LenProperties, EmptySeq
<1>4. /\ Head(s) = s[1] /\ Tail(s) \in Seq(P) /\ Len(Tail(s)) = n - 1
      /\ \A i \in 1..(n - 1) : Tail(s)[i] = s[i + 1]
  BY <1>1, <1>3, HeadTailProperties
<1>5. s = <<Head(s)>> \o Tail(s)
  BY <1>1
<1> DEFINE w == [i \in 0..(n - 1) |-> v[i + 1]]
           h == Head(s)
           t == Tail(s)
           m == v[1]
<1>6. m \in Purse /\ Pays(h, a, m)
  <2>1. 1 \in 1..n /\ 1 - 1 = 0 /\ 1 \in 0..n
    BY <1>3
  <2>2. QED BY <1>2, <1>3, <1>4, <2>1 DEF IsWay
<1>7. IsWay(w, t, m, b)
  <2>1. w \in [0..(n - 1) -> Purse]
    <3>1. \A i \in 0..(n - 1) : i + 1 \in 0..n
      BY <1>3
    <3>2. QED BY <1>2, <1>3, <3>1 DEF IsWay
  <2>2. w[0] = m /\ w[n - 1] = b
    <3>1. 0 \in 0..(n - 1) /\ n - 1 \in 0..(n - 1) /\ 0 + 1 = 1 /\ (n - 1) + 1 = n
      BY <1>3
    <3>2. QED BY <1>2, <1>3, <3>1 DEF IsWay
  <2>3. ASSUME NEW i \in 1..(n - 1) PROVE Pays(t[i], w[i - 1], w[i])
    <3>1. PICK j \in 1..n : j = i + 1 /\ j - 1 = i
      BY <1>3
    <3>2. w[i] = v[j] /\ w[i - 1] = v[i] /\ t[i] = s[j]
      BY <1>4, <3>1
    <3>3. Pays(s[j], v[j - 1], v[j])
      BY <1>2, <1>3 DEF IsWay
    <3>4. QED BY <3>1, <3>2, <3>3
  <2> HIDE DEF w, t, m
  <2>4. Len(t) = n - 1
    BY <1>4 DEF t
  <2>5. QED BY <2>1, <2>2, <2>3, <2>4 DEF IsWay
<1> HIDE DEF w, m
<1>8. Affords(t, m, b)
  BY <1>4, <1>7 DEF Affords, IsSeq
<1>9. QED BY <1>4, <1>5, <1>6, <1>8 DEF AffordsNext, IsSeq

\* the same calls with more in the purse
More2(a, k) == [funds |-> a.funds + k, number |-> a.number]

LEMMA AffordsMore ==
  ASSUME NEW s, NEW a, NEW b, NEW k \in Nat, Affords(s, a, b)
  PROVE  Affords(s, More2(a, k), More2(b, k))
<1>1. PICK v : IsWay(v, s, a, b)
  BY DEF Affords
<1>2. PICK n \in Nat : Len(s) = n
  BY LenProperties DEF Affords, IsSeq
<1> DEFINE w == [i \in 0..n |-> More2(v[i], k)]
<1>3. /\ w \in [0..n -> Purse] /\ w[0] = More2(a, k) /\ w[n] = More2(b, k)
      /\ \A i \in 0..n : w[i] = More2(v[i], k)
  <2>1. \A i \in 0..n : v[i] \in Purse
    BY <1>1, <1>2 DEF IsWay
  <2>2. \A i \in 0..n : More2(v[i], k) \in Purse
    BY <2>1 DEF More2, Purse
  <2>3. 0 \in 0..n /\ n \in 0..n /\ v[0] = a /\ v[n] = b
    BY <1>1, <1>2 DEF IsWay
  <2>4. QED BY <2>2, <2>3
<1> HIDE DEF w
<1>4. ASSUME NEW i \in 1..n PROVE Pays(s[i], w[i - 1], w[i])
  <2>1. i \in 0..n /\ i - 1 \in 0..n
    OBVIOUS
  <2>2. PICK c, p, q : /\ c = s[i] /\ p = v[i - 1] /\ q = v[i]
                       /\ p \in Purse /\ q \in Purse /\ Pays(c, p, q)
    BY <1>1, <1>2, <2>1 DEF IsWay
  <2>3. /\ More2(p, k).funds = p.funds + k /\ More2(q, k).funds = q.funds + k
        /\ More2(p, k).number = p.number /\ More2(q, k).number = q.number
        /\ p.funds \in Nat /\ q.funds \in Nat
    BY <2>2 DEF More2, Purse
  <2>4. CASE IsParsed(c) /\ q.funds + Makes(c) <= p.funds + Reads(c)
    <3>1. Makes(c) \in Nat /\ Reads(c) \in Nat
      <4>1. CASE c.op \in {"uint", "named_block_begin"}
        BY <2>4, <4>1, Widths DEF IsParsed, Makes, Reads
      <4>2. CASE c.op \notin {"uint", "named_block_begin"}
        BY <4>2, Widths DEF Makes, Reads
      <4>3. QED BY <4>1, <4>2
    <3>2. More2(q, k).funds + Makes(c) <= More2(p, k).funds + Reads(c)
      BY <2>3, <2>4, <3>1
    <3>3. \/ (q.number => c.op = "uint" /\ c.size = ByteBits) /\ (c.op = "data" => p.number)
          \/ c.op = "vector_io"
      BY <2>2 DEF Pays
    <3>4. c.op # "vector_io"
      BY <2>4 DEF IsParsed, ParsedOps, PlainOps
    <3>5. Pays(c, More2(p, k), More2(q, k))
      BY <2>3, <2>4, <3>2, <3>3, <3>4 DEF Pays
    <3>6. QED BY <1>3, <2>1, <2>2, <3>5
  <2>5. CASE c.op = "vector_io" /\ c.item \in LoopItems /\ q.funds + 1 <= p.funds /\ ~q.number
    <3>1. Pays(c, More2(p, k), More2(q, k))
      BY <2>3, <2>5 DEF Pays
    <3>2. QED BY <1>3, <2>1, <2>2, <3>1
  <2>6. QED BY <2>2, <2>4, <2>5 DEF Pays
<1>5. IsWay(w, s, More2(a, k), More2(b, k))
  BY <1>2, <1>3, <1>4 DEF IsWay
<1>6. QED BY <1>5 DEF Affords

\* calls that make no more than they read, or less, and the calls of a loop
Even(c) == IsParsed(c) /\ c.op # "data" /\ Makes(c) <= Reads(c)
Gains(c) == Even(c) /\ Makes(c) + 1 <= Reads(c)
IsLoop(c) == c.op = "vector_io" /\ c.item \in LoopItems
IsBegin(c) == c.op = "named_block_begin" /\ Gains(c)

LEMMA Lefts ==
  /\ \A n \in Nat : Left(n) \in Purse /\ Left(n).funds = n /\ ~Left(n).number
  /\ \A c, n : n \in Nat /\ Even(c) => Pays(c, Left(n), Left(n))
  /\ \A c, n : n \in Nat /\ Gains(c) => Pays(c, Left(n), Left(n + 1))
  /\ \A c, n : n \in Nat /\ IsLoop(c) => Pays(c, Left(n + 1), Left(n))
<1>1. \A n : Left(n).funds = n /\ ~Left(n).number
  BY DEF Left
<1>2. \A n \in Nat : Left(n) \in Purse
  BY DEF Left, Purse
<1>3. \A c : IsParsed(c) => Makes(c) \in Nat /\ Reads(c) \in Nat
  <2>1. SUFFICES ASSUME NEW c, IsParsed(c) PROVE Makes(c) \in Nat /\ Reads(c) \in Nat
    OBVIOUS
  <2>2. CASE c.op \in {"uint", "named_block_begin"}
    BY <2>1, <2>2, Widths DEF IsParsed, Makes, Reads
  <2>3. CASE c.op \notin {"uint", "named_block_begin"}
    BY <2>3, Widths DEF Makes, Reads
  <2>4. QED BY <2>2, <2>3
<1>4. ASSUME NEW c, NEW n \in Nat, Even(c) PROVE Pays(c, Left(n), Left(n))
  BY <1>1, <1>3, <1>4 DEF Even, Pays
<1>5. ASSUME NEW c, NEW n \in Nat, Gains(c) PROVE Pays(c, Left(n), Left(n + 1))
  BY <1>1, <1>3, <1>5 DEF Even, Gains, Pays
<1>6. ASSUME NEW c, NEW n \in Nat, IsLoop(c) PROVE Pays(c, Left(n + 1), Left(n))
  BY <1>1, <1>6 DEF IsLoop, Pays
<1>7. QED BY <1>1, <1>2, <1>4, <1>5, <1>6

\* calls of which each makes no more than it reads, but for loops that come
\* first in a block: for those the length of the block has been read
LEMMA EvenWay ==
  ASSUME NEW s, IsSeq(s), NEW k \in 0..1,
         \A i \in 1..Len(s) : Even(s[i]) \/ (i > 1 /\ IsLoop(s[i]) /\ IsBegin(s[i - 1])),
         k = 1 => Len(s) >= 1 /\ Gains(s[1]) /\ s[1].op # "named_block_begin"
  PROVE  Affords(s, Left(0), Left(k))
<1>1. PICK n \in Nat : Len(s) = n
  BY LenProperties DEF IsSeq
<1> DEFINE extra(i) == IF i + 1 \in 1..n /\ IsLoop(s[i + 1]) THEN 1 ELSE 0
           v == [i \in 0..n |-> IF i = 0 THEN Left(0) ELSE Left(k + extra(i))]
<1>2. \A i \in Nat : extra(i) \in 0..1 /\ k + extra(i) \in Nat
  OBVIOUS
<1>3. \A c : IsLoop(c) => ~Even(c)
  BY DEF IsLoop, Even, IsParsed, ParsedOps, PlainOps
<1>4. v \in [0..n -> Purse]
  BY <1>2, Lefts
<1>5. v[0] = Left(0) /\ v[n] = Left(k)
  <2>1. CASE n = 0
    BY <1>1, <2>1
  <2>2. CASE n # 0
    <3>1. ~(n + 1 \in 1..n) /\ n \in 0..n /\ 0 \in 0..n
      OBVIOUS
    <3>2. extra(n) = 0
      BY <3>1
    <3> HIDE DEF extra
    <3>3. k + extra(n) = k
      BY <3>2
    <3>4. QED BY <2>2, <3>1, <3>3
  <2>3. QED BY <2>1, <2>2
<1>6. \A i \in 1..n : v[i] = Left(k + extra(i))
  OBVIOUS
<1> HIDE DEF v
<1>7. ASSUME NEW i \in 1..n PROVE Pays(s[i], v[i - 1], v[i])
  <2>1. CASE IsLoop(s[i])
    <3>1. PICK j \in 1..n : j = i - 1 /\ j + 1 = i /\ IsBegin(s[j])
      BY <1>1, <1>3, <2>1
    <3>2. extra(j) = 1
      BY <2>1, <3>1
    <3>3. extra(i) = 0
      <4>1. CASE i + 1 \in 1..n
        <5>1. PICK h \in 1..n : h = i + 1 /\ h - 1 = i
          BY <4>1
        <5>2. ~IsBegin(s[i])
          BY <2>1 DEF IsLoop, IsBegin
        <5>3. ~IsLoop(s[h])
          BY <1>1, <1>3, <5>1, <5>2
        <5>4. QED BY <5>1, <5>3
      <4>2. CASE ~(i + 1 \in 1..n)
        BY <4>2
      <4>3. QED BY <4>1, <4>2
    <3> HIDE DEF extra
    <3>4. v[i - 1] = Left(k + 1) /\ v[i] = Left(k)
      BY <1>6, <3>1, <3>2, <3>3
    <3>5. QED BY <2>1, <3>4, Lefts
  <2>2. CASE ~IsLoop(s[i])
    <3>1. Even(s[i])
      BY <1>1, <2>2
    <3>2. i = 1 \/ v[i - 1] = Left(k)
      <4>1. SUFFICES ASSUME i # 1 PROVE v[i - 1] = Left(k)
        OBVIOUS
      <4>2. PICK j \in 1..n : j = i - 1 /\ j + 1 = i
        BY <4>1
      <4>3. extra(j) = 0
        BY <2>2, <4>2
      <4> HIDE DEF extra
      <4>4. v[j] = Left(k)
        BY <1>6, <4>3
      <4>5. QED BY <4>2, <4>4
    <3>3. CASE extra(i) = 0
      <4>1. v[i] = Left(k)
        <5> HIDE DEF extra
        <5>1. QED BY <1>6, <3>3
      <4>2. CASE v[i - 1] = Left(k)
        BY <3>1, <4>1, <4>2, Lefts
      <4>3. CASE i = 1 /\ v[i - 1] # Left(k)
        <5>1. v[i - 1] = Left(0) /\ k = 1
          BY <1>5, <4>3
        <5>2. Gains(s[i]) /\ 0 \in Nat
          BY <4>3, <5>1
        <5>3. Pays(s[i], Left(0), Left(0 + 1))
          BY <5>2, Lefts
        <5>4. 0 + 1 = k
          BY <5>1
        <5>5. QED BY <4>1, <5>1, <5>3, <5>4
      <4>4. QED BY <3>2, <4>2, <4>3
    <3>4. CASE extra(i) # 0
      <4>1. PICK h \in 1..n : h = i + 1 /\ h - 1 = i /\ IsLoop(s[h]) /\ extra(i) = 1
        BY <3>4
      <4>2. IsBegin(s[i])
        BY <1>1, <1>3, <4>1
      <4>3. v[i] = Left(k + 1)
        <5> HIDE DEF extra
        <5>1. QED BY <1>6, <4>1
      <4>4. v[i - 1] = Left(k)
        <5>1. CASE i = 1
          <6>1. k = 0
            BY <4>2, <5>1 DEF IsBegin
          <6>2. QED BY <1>5, <5>1, <6>1
        <5>2. QED BY <3>2, <5>1
      <4>5. Gains(s[i]) /\ k \in Nat
        BY <4>2 DEF IsBegin
      <4>6. Pays(s[i], Left(k), Left(k + 1))
        BY <4>5, Lefts
      <4>7. QED BY <4>3, <4>4, <4>6
    <3>5. QED BY <3>3, <3>4
  <2>3. QED BY <2>1, <2>2
<1>8. IsWay(v, s, Left(0), Left(k))
  BY <1>1, <1>4, <1>5, <1>7 DEF IsWay
<1>9. QED BY <1>8 DEF Affords

\* the calls of the structures
LEMMA EvenCalls ==
  /\ \A n \in {1, 2, 4, 5, 8, 12, 16} :
       /\ IsBegin(D!BlockBegin(n))
       /\ \A name : Even(D!Uint(n, name)) /\ Even(D!UintReq(n, name))
  /\ \A n \in {12, 28, 32} : \A name : /\ Even(D!UintReq(n, name))
                                       /\ IsParsed(D!UintHex(n, name)) /\ IsParsed(D!Uint(n, name))
  /\ \A n \in {8, 16} : \A name : Gains(D!Uint(n, name)) /\ D!Uint(n, name).op = "uint"
  /\ \A m : /\ Even(D!BlockEnd(m)) /\ Even(LengthTest(m))
            /\ Gains(D!ShortStringIo(m)) /\ D!ShortStringIo(m).op = "short_string_io"
  /\ \A n \in 1..(2^ByteBits - 1) : \A m : Even(D!FixedStringIo(n, m))
  /\ Gains([op |-> "tag"]) /\ Even([op |-> "descriptor_factory"])
  /\ Even([op |-> "nit_begin"]) /\ Even([op |-> "crc_io"]) /\ Even([op |-> "crc_late_fix"])
<1>1. /\ ByteBits \in Nat /\ ByteBits >= 2 /\ RegisterBits = 4 * ByteBits
      /\ Bits[8] = ByteBits /\ Bits[16] >= 2
      /\ \A n \in UsedWidths : Bits[n] \in 1..RegisterBits
      /\ \A n \in {1, 2, 4, 5, 8, 12, 16} : Bits[n] <= Narrow
  BY StructureAssumption, Widths DEF UsedWidths, Narrow, RegisterBits
<1>2. ASSUME NEW n \in {1, 2, 4, 5, 8, 12, 16}, NEW name
      PROVE  /\ IsBegin(D!BlockBegin(n))
             /\ Even(D!Uint(n, name)) /\ Even(D!UintReq(n, name))
  <2>1. Bits[n] \in 1..RegisterBits /\ Bits[n] <= Narrow /\ 1 <= Bits[n] /\ Bits[n] \in Nat
    BY <1>1 DEF UsedWidths
  <2>2. D!BlockBegin(n).op = "named_block_begin" /\ D!BlockBegin(n).size = Bits[n]
    BY DEF D!BlockBegin
  <2>3. D!Uint(n, name).op = "uint" /\ D!Uint(n, name).size = Bits[n]
    BY DEF D!Uint
  <2>4. D!UintReq(n, name).op = "uint_req" /\ D!UintReq(n, name).size = Bits[n]
    BY DEF D!UintReq, D!Uint
  <2>5. IsBegin(D!BlockBegin(n))
    BY <2>1, <2>2 DEF IsBegin, Gains, Even, IsParsed, ParsedOps, PlainOps, Makes, Reads
  <2>6. Even(D!Uint(n, name))
    BY <2>1, <2>3 DEF Even, IsParsed, ParsedOps, PlainOps, Makes, Reads
  <2>7. Even(D!UintReq(n, name))
    BY <2>1, <2>4 DEF Even, IsParsed, ParsedOps, PlainOps, Makes, Reads
  <2>8. QED BY <2>5, <2>6, <2>7
<1>3. ASSUME NEW n \in {12, 28, 32}, NEW name
      PROVE  /\ Even(D!UintReq(n, name))
             /\ IsParsed(D!UintHex(n, name)) /\ IsParsed(D!Uint(n, name))
  <2>1. Bits[n] \in 1..RegisterBits
    BY <1>1 DEF UsedWidths
  <2>2. D!UintReq(n, name).op = "uint_req" /\ D!UintReq(n, name).size = Bits[n]
    BY DEF D!UintReq, D!Uint
  <2>3. D!Uint(n, name).op = "uint" /\ D!Uint(n, name).size = Bits[n]
    BY DEF D!Uint
  <2>4. D!UintHex(n, name).op = "uint" /\ D!UintHex(n, name).size = Bits[n]
    BY DEF D!UintHex, D!Uint
  <2>5. Even(D!UintReq(n, name))
    BY <2>1, <2>2 DEF Even, IsParsed, ParsedOps, PlainOps, Makes, Reads
  <2>6. QED BY <2>1, <2>3, <2>4, <2>5 DEF IsParsed, ParsedOps, PlainOps
<1>4. ASSUME NEW n \in {8, 16}, NEW name
      PROVE  Gains(D!Uint(n, name)) /\ D!Uint(n, name).op = "uint"
  <2>1. Bits[n] \in Nat /\ 2 <= Bits[n] /\ Bits[n] <= Narrow
    BY <1>1 DEF UsedWidths
  <2>2. D!Uint(n, name).op = "uint" /\ D!Uint(n, name).size = Bits[n]
    BY DEF D!Uint
  <2>3. Even(D!Uint(n, name))
    BY <1>2
  <2>4. QED BY <2>1, <2>2, <2>3 DEF Gains, Makes, Reads
<1>5. ASSUME NEW m
      PROVE  /\ Even(D!BlockEnd(m)) /\ Even(LengthTest(m))
             /\ Gains(D!ShortStringIo(m)) /\ D!ShortStringIo(m).op = "short_string_io"
  BY <1>1 DEF Gains, Even, IsParsed, ParsedOps, PlainOps, Makes, Reads, D!BlockEnd,
              D!ShortStringIo, LengthTest
<1>6. ASSUME NEW n \in 1..(2^ByteBits - 1), NEW m PROVE Even(D!FixedStringIo(n, m))
  <2>1. D!FixedStringIo(n, m).op = "fixed_string_io" /\ D!FixedStringIo(n, m).num_chars = n
    BY DEF D!FixedStringIo
  <2>2. QED BY <1>1, <2>1 DEF Even, IsParsed, ParsedOps, PlainOps, Makes, Reads
<1>7. /\ Gains([op |-> "tag"]) /\ Even([op |-> "descriptor_factory"])
      /\ Even([op |-> "nit_begin"]) /\ Even([op |-> "crc_io"]) /\ Even([op |-> "crc_late_fix"])
  BY <1>1 DEF Gains, Even, IsParsed, ParsedOps, PlainOps, Makes, Reads
<1>8. QED BY <1>2, <1>3, <1>4, <1>5, <1>6, <1>7

LEMMA ItemsLoop ==
  /\ IsLoop(D!VectorIo(D!Service)) /\ IsLoop(D!DescriptorVectorIo)
  /\ IsLoop(D!VectorIo(TsSpecification)) /\ IsLoop(D!VectorIo(D!Item))
<1>1. \A s : s \in LoopItems => IsLoop(D!VectorIo(s))
  BY DEF IsLoop, D!VectorIo
<1>2. /\ D!Service \in LoopItems /\ TsSpecification \in LoopItems /\ D!Item \in LoopItems
      /\ <<[op |-> "tag"], [op |-> "descriptor_factory"]>> \in LoopItems
  BY DEF LoopItems
<1>3. QED BY <1>1, <1>2 DEF D!DescriptorVectorIo

\* an item pays for the test whether another one follows
LEMMA ItemsAfford == \A item \in LoopItems : Affords(item, Left(0), Left(1))
<1>1. ASSUME NEW a, NEW b, Gains(a), a.op # "named_block_begin", Even(b)
      PROVE  Affords(<<a, b>>, Left(0), Left(1))
  <2> DEFINE s == <<a, b>>
             P == {a, b}
  <2>1. s \in Seq(P) /\ Len(s) = 2 /\ s[1] = a /\ s[2] = b
    OBVIOUS
  <2> HIDE DEF s, P
  <2>2. \A i \in 1..Len(s) : Even(s[i])
    BY <1>1, <2>1 DEF Gains
  <2>3. IsSeq(s) /\ Len(s) >= 1 /\ Gains(s[1]) /\ s[1].op # "named_block_begin"
    BY <1>1, <2>1 DEF IsSeq
  <2>4. Affords(s, Left(0), Left(1))
    BY <2>2, <2>3, EvenWay
  <2>5. QED BY <2>4 DEF s
<1>2. Affords(D!Service, Left(0), Left(1))
  BY <1>1, EvenCalls DEF D!Service
<1>3. Affords(<<[op |-> "tag"], [op |-> "descriptor_factory"]>>, Left(0), Left(1))
  BY <1>1, EvenCalls
<1>4. Affords(D!Item, Left(0), Left(1))
  BY <1>1, EvenCalls DEF D!Item, Gains
<1>5. Affords(TsSpecification, Left(0), Left(1))
  <2> DEFINE s == TsSpecification
             e1 == D!Uint(16, "transport_stream_id")
             e2 == D!Uint(16, "original_network_id")
             e3 == D!UintReq(4, "reserved_future_use")
             e4 == D!BlockBegin(12)
             e5 == D!DescriptorVectorIo
             e6 == D!BlockEnd("transport_descriptors_length")
             P == {e1, e2, e3, e4, e5, e6}
  <2>1. /\ Gains(e1) /\ e1.op # "named_block_begin" /\ Even(e1) /\ Even(e2) /\ Even(e3)
        /\ IsBegin(e4) /\ Even(e4) /\ IsLoop(e5) /\ Even(e6)
    BY EvenCalls, ItemsLoop DEF Gains, IsBegin
  <2>2. s = <<e1, e2, e3, e4, e5, e6>>
    BY DEF TsSpecification
  <2> HIDE DEF s, e1, e2, e3, e4, e5, e6
  <2>3. /\ s \in Seq(P) /\ Len(s) = 6
        /\ s[1] = e1 /\ s[2] = e2 /\ s[3] = e3 /\ s[4] = e4 /\ s[5] = e5 /\ s[6] = e6
    BY <2>2
  <2> HIDE DEF P
  <2>4. \A i \in 1..Len(s) : Even(s[i]) \/ (i > 1 /\ IsLoop(s[i]) /\ IsBegin(s[i - 1]))
    BY <2>1, <2>3
  <2>5. IsSeq(s) /\ Len(s) >= 1 /\ Gains(s[1]) /\ s[1].op # "named_block_begin"
    BY <2>1, <2>3 DEF IsSeq
  <2>6. Affords(s, Left(0), Left(1))
    BY <2>4, <2>5, EvenWay
  <2>7. QED BY <2>6 DEF s
<1>6. QED BY <1>2, <1>3, <1>4, <1>5 DEF LoopItems

\* what a descriptor holds: of a cable descriptor the length pays for the two
\* numbers that may be too wide, and data are read for their length
LEMMA ContentAffords == \A tag : Affords(D!Content(tag), Left(0), Left(0))
<1> SUFFICES ASSUME NEW tag PROVE Affords(D!Content(tag), Left(0), Left(0))
  OBVIOUS
<1>1. ASSUME NEW a, NEW b, NEW c, IsBegin(a), Even(b) \/ IsLoop(b), Even(c)
      PROVE  Affords(<<a, b, c>>, Left(0), Left(0))
  <2> DEFINE s == <<a, b, c>>
             P == {a, b, c}
  <2>1. s \in Seq(P) /\ Len(s) = 3 /\ s[1] = a /\ s[2] = b /\ s[3] = c
    OBVIOUS
  <2> HIDE DEF s, P
  <2>2. \A i \in 1..Len(s) : Even(s[i]) \/ (i > 1 /\ IsLoop(s[i]) /\ IsBegin(s[i - 1]))
    BY <1>1, <2>1 DEF IsBegin, Gains
  <2>3. Affords(s, Left(0), Left(0))
    BY <2>1, <2>2, EvenWay DEF IsSeq
  <2>4. QED BY <2>3 DEF s
<1> DEFINE services == <<D!BlockBegin(8), D!VectorIo(D!Service), D!BlockEnd("length")>>
           adaptation == <<D!BlockBegin(8), D!Uint(8, "adaptation_field_data_identifier"),
                           D!BlockEnd("length")>>
           unknown == <<D!Uint(8, "length"), [op |-> "data"]>>
           cable == <<D!BlockBegin(8), D!UintHex(32, "frequency"),
                      D!UintReq(12, "reserved_future_use"), D!Uint(4, "FEC_outer"),
                      D!Uint(8, "modulation"), D!Uint(28, "symbol_rate"),
                      D!Uint(4, "FEC_inner"), D!BlockEnd("length")>>
<1>2. Affords(services, Left(0), Left(0))
  BY <1>1, EvenCalls, ItemsLoop
<1>3. Affords(adaptation, Left(0), Left(0))
  BY <1>1, EvenCalls
<1>4. Affords(unknown, Left(0), Left(0))
  <2> DEFINE e1 == D!Uint(8, "length")
             e2 == [op |-> "data"]
             known == [funds |-> 0, number |-> TRUE]
  <2>1. known \in Purse /\ known.funds = 0 /\ known.number
    BY DEF Purse
  <2>2. e1.op = "uint" /\ e1.size = ByteBits /\ Even(e1) /\ Makes(e1) \in Nat /\ Reads(e1) \in Nat
    <3>1. e1.op = "uint" /\ e1.size = ByteBits /\ ByteBits \in Nat /\ ByteBits <= Narrow
      BY StructureAssumption, Widths DEF D!Uint, Narrow
    <3>2. Even(e1)
      BY EvenCalls
    <3>3. Makes(e1) \in Nat /\ Reads(e1) \in Nat
      BY <3>1, Widths DEF Makes, Reads
    <3>4. QED BY <3>1, <3>2, <3>3
  <2>3. IsParsed(e2) /\ Makes(e2) = 0 /\ Reads(e2) = 0 /\ e2.op = "data"
    BY DEF IsParsed, ParsedOps, PlainOps, Makes, Reads
  <2> HIDE DEF e1, e2, known
  <2>4. Pays(e1, Left(0), known)
    BY <2>1, <2>2, Lefts DEF Pays, Even
  <2>5. Pays(e2, known, Left(0))
    BY <2>1, <2>3, Lefts DEF Pays
  <2>6. Affords(<<e1>>, Left(0), known) /\ Affords(<<e2>>, known, Left(0))
    BY <2>1, <2>4, <2>5, Lefts, AffordsOne
  <2>7. Affords(<<e1>> \o <<e2>>, Left(0), Left(0))
    BY <2>6, AffordsBoth
  <2>8. <<e1>> \o <<e2>> = <<e1, e2>>
    <3>1. PICK P : e1 \in P /\ e2 \in P
      <4>1. e1 \in {e1, e2} /\ e2 \in {e1, e2}
        OBVIOUS
      <4>2. QED BY <4>1
    <3>2. OneByOne(e1, e1, e1, e2)
      BY <3>1, OneFirst
    <3>3. QED BY <3>2 DEF OneByOne
  <2>9. QED BY <2>7, <2>8 DEF e1, e2
<1>5. Affords(cable, Left(0), Left(0))
  <2> DEFINE s == cable
             e1 == D!BlockBegin(8)
             e2 == D!UintHex(32, "frequency")
             e3 == D!UintReq(12, "reserved_future_use")
             e4 == D!Uint(4, "FEC_outer")
             e5 == D!Uint(8, "modulation")
             e6 == D!Uint(28, "symbol_rate")
             e7 == D!Uint(4, "FEC_inner")
             e8 == D!BlockEnd("length")
             P == {e1, e2, e3, e4, e5, e6, e7, e8}
             v == [i \in 0..8 |-> IF i = 1 THEN Left(2) ELSE IF i \in 2..5 THEN Left(1) ELSE Left(0)]
  <2>1. Left(0) \in Purse /\ Left(1) \in Purse /\ Left(2) \in Purse
    BY Lefts
  <2>2. Pays(e1, Left(0), Left(2))
    <3>1. e1.op = "named_block_begin" /\ e1.size = ByteBits /\ ByteBits \in Nat
          /\ ByteBits >= 2 /\ ByteBits <= Narrow
      BY StructureAssumption, Widths DEF D!BlockBegin, Narrow
    <3>2. Reads(e1) = ByteBits /\ Makes(e1) = 0 /\ IsParsed(e1)
      BY <3>1, EvenCalls DEF Reads, Makes, IsBegin, Gains, Even
    <3> HIDE DEF e1
    <3>3. Left(0).funds = 0 /\ Left(2).funds = 2 /\ ~Left(2).number
      BY Lefts
    <3>4. QED BY <3>1, <3>2, <3>3 DEF Pays
  <2>3. ASSUME NEW c, NEW n \in Nat, IsParsed(c), c.op = "uint"
        PROVE  Pays(c, Left(n + 1), Left(n))
    <3>1. Makes(c) = 1 /\ Reads(c) \in Nat
      BY <2>3, Widths DEF Makes, Reads, IsParsed
    <3>2. Left(n).funds = n /\ Left(n + 1).funds = n + 1 /\ ~Left(n).number
      BY Lefts
    <3>3. QED BY <2>3, <3>1, <3>2 DEF Pays
  <2>4. /\ IsParsed(e2) /\ e2.op = "uint" /\ Even(e3) /\ Even(e4) /\ Even(e5)
        /\ IsParsed(e6) /\ e6.op = "uint" /\ Even(e7) /\ Even(e8)
    BY EvenCalls DEF D!UintHex, D!Uint
  <2>5. s = <<e1, e2, e3, e4, e5, e6, e7, e8>>
    OBVIOUS
  <2> HIDE DEF cable, s, e1, e2, e3, e4, e5, e6, e7, e8
  <2>6. Pays(e2, Left(2), Left(1)) /\ Pays(e6, Left(1), Left(0))
    <3>1. Pays(e2, Left(1 + 1), Left(1)) /\ Pays(e6, Left(0 + 1), Left(0))
      BY <2>3, <2>4
    <3>2. QED BY <3>1
  <2>7. /\ Pays(e3, Left(1), Left(1)) /\ Pays(e4, Left(1), Left(1)) /\ Pays(e5, Left(1), Left(1))
        /\ Pays(e7, Left(0), Left(0)) /\ Pays(e8, Left(0), Left(0))
    BY <2>4, Lefts
  <2>8. /\ s \in Seq(P) /\ Len(s) = 8
        /\ s[1] = e1 /\ s[2] = e2 /\ s[3] = e3 /\ s[4] = e4 /\ s[5] = e5 /\ s[6] = e6
        /\ s[7] = e7 /\ s[8] = e8
    BY <2>5
  <2>9. /\ v \in [0..8 -> Purse] /\ v[0] = Left(0) /\ v[1] = Left(2) /\ v[2] = Left(1)
        /\ v[3] = Left(1) /\ v[4] = Left(1) /\ v[5] = Left(1) /\ v[6] = Left(0)
        /\ v[7] = Left(0) /\ v[8] = Left(0)
    BY <2>1
  <2> HIDE DEF v, P
  <2>10. \A i \in 1..8 : Pays(s[i], v[i - 1], v[i])
    <3>1. /\ Pays(s[1], v[0], v[1]) /\ Pays(s[2], v[1], v[2]) /\ Pays(s[3], v[2], v[3])
          /\ Pays(s[4], v[3], v[4]) /\ Pays(s[5], v[4], v[5]) /\ Pays(s[6], v[5], v[6])
          /\ Pays(s[7], v[6], v[7]) /\ Pays(s[8], v[7], v[8])
      BY <2>2, <2>6, <2>7, <2>8, <2>9
    <3>2. SUFFICES ASSUME NEW i \in 1..8 PROVE Pays(s[i], v[i - 1], v[i])
      OBVIOUS
    <3>3. PICK j : j = i - 1
      OBVIOUS
    <3>4. \/ (i = 1 /\ j = 0) \/ (i = 2 /\ j = 1) \/ (i = 3 /\ j = 2) \/ (i = 4 /\ j = 3)
          \/ (i = 5 /\ j = 4) \/ (i = 6 /\ j = 5) \/ (i = 7 /\ j = 6) \/ (i = 8 /\ j = 7)
      BY <3>3
    <3>5. Pays(s[i], v[j], v[i])
      BY <3>1, <3>4
    <3>6. QED BY <3>3, <3>5
  <2>11. IsWay(v, s, Left(0), Left(0)) /\ IsSeq(s)
    BY <2>8, <2>9, <2>10 DEF IsWay, IsSeq
  <2>12. QED BY <2>11 DEF Affords, s
<1>6. \/ D!Content(tag) = services \/ D!Content(tag) = cable
      \/ D!Content(tag) = adaptation \/ D!Content(tag) = unknown
  BY DEF D!Content
<1>7. QED BY <1>2, <1>3, <1>4, <1>5, <1>6

\* calls that come before others and make no more than they read
LEMMA AffordsBefore ==
  ASSUME NEW c, NEW s, NEW b, Even(c), Affords(s, Left(0), b)
  PROVE  Affords(<<c>> \o s, Left(0), b)
<1>1. Affords(<<c>>, Left(0), Left(0))
  <2>1. Left(0) \in Purse /\ Pays(c, Left(0), Left(0))
    BY Lefts
  <2>2. QED BY <2>1, AffordsOne
<1>2. QED BY <1>1, AffordsBoth

LEMMA SectionAffords == Affords(NetworkInformationSection, Left(0), Left(0))
<1>1. Affords(SectionBody, Left(0), Left(0))
  <2> DEFINE s == SectionBody
             begin == D!BlockBegin(12)
             first == D!DescriptorVectorIo
             second == D!VectorIo(TsSpecification)
             end == D!BlockEnd("network_descriptors_length")
             last == D!BlockEnd("transport_stream_loop_length")
             a1 == D!Uint(8, "table_id")
             a2 == D!Uint(1, "section_syntax_indicator")
             a3 == D!UintReq(1, "reserved_future_use")
             a4 == D!UintReq(2, "reserved")
             a6 == LengthTest(TRUE)
             a7 == D!Uint(16, "network_id")
             a9 == D!Uint(5, "version_number")
             a10 == D!Uint(1, "current_next_indicator")
             a11 == D!Uint(8, "section_number")
             a12 == D!Uint(8, "last_section_number")
             a13 == D!UintReq(4, "reserved_future_use")
             P == {begin, first, second, end, last, a1, a2, a3, a4, a6, a7, a9, a10, a11, a12, a13}
  <2>1. /\ IsBegin(begin) /\ Even(begin) /\ IsLoop(first) /\ IsLoop(second)
        /\ Even(end) /\ Even(last) /\ Even(a1) /\ Even(a2) /\ Even(a3) /\ Even(a4) /\ Even(a6)
        /\ Even(a7) /\ Even(a9) /\ Even(a10) /\ Even(a11) /\ Even(a12) /\ Even(a13)
    BY EvenCalls, ItemsLoop DEF IsBegin, Gains
  <2>2. s = <<a1, a2, a3, a4, begin, a6, a7, a4, a9, a10, a11, a12, a13, begin, first, end,
              a13, begin, second, last>>
    BY DEF SectionBody
  <2> HIDE DEF s, begin, first, second, end, last, a1, a2, a3, a4, a6, a7, a9, a10, a11, a12, a13
  <2>3. /\ s \in Seq(P) /\ Len(s) = 20
        /\ s[1] = a1 /\ s[2] = a2 /\ s[3] = a3 /\ s[4] = a4 /\ s[5] = begin /\ s[6] = a6
        /\ s[7] = a7 /\ s[8] = a4 /\ s[9] = a9 /\ s[10] = a10 /\ s[11] = a11 /\ s[12] = a12
        /\ s[13] = a13 /\ s[14] = begin /\ s[15] = first /\ s[16] = end /\ s[17] = a13
        /\ s[18] = begin /\ s[19] = second /\ s[20] = last
    BY <2>2
  <2> HIDE DEF P
  <2>4. /\ \A i \in (1..20) \ {15, 19} : Even(s[i])
        /\ IsLoop(s[15]) /\ IsBegin(s[14]) /\ IsLoop(s[19]) /\ IsBegin(s[18])
    BY <2>1, <2>3
  <2>5. ASSUME NEW i \in 1..20
        PROVE  Even(s[i]) \/ (i > 1 /\ IsLoop(s[i]) /\ IsBegin(s[i - 1]))
    <3>1. PICK j : j = i - 1
      OBVIOUS
    <3>2. \/ i \in (1..20) \ {15, 19} \/ (i = 15 /\ j = 14) \/ (i = 19 /\ j = 18)
      BY <3>1
    <3>3. Even(s[i]) \/ (i > 1 /\ IsLoop(s[i]) /\ IsBegin(s[j]))
      BY <2>4, <3>2
    <3>4. QED BY <3>1, <3>3
  <2>6. Affords(s, Left(0), Left(0))
    <3>1. IsSeq(s)
      BY <2>3 DEF IsSeq
    <3>2. \A i \in 1..Len(s) : Even(s[i]) \/ (i > 1 /\ IsLoop(s[i]) /\ IsBegin(s[i - 1]))
      BY <2>3, <2>5
    <3>3. 0 \in 0..1 /\ 0 # 1
      OBVIOUS
    <3>4. QED BY <3>1, <3>2, <3>3, EvenWay
  <2>7. QED BY <2>6 DEF s
<1>2. Affords(SectionClose, Left(0), Left(0))
  <2> DEFINE a == [op |-> "crc_io"]
             b == D!BlockEnd("section_length")
             c == [op |-> "crc_late_fix"]
             d == LengthTest(FALSE)
             P == {a, b, c, d}
             s == <<a, b, c, d>>
  <2>1. Even(a) /\ Even(b) /\ Even(c) /\ Even(d)
    BY EvenCalls
  <2>2. s = SectionClose
    BY DEF SectionClose
  <2> HIDE DEF a, b, c, d
  <2>3. s \in Seq(P) /\ Len(s) = 4 /\ s[1] = a /\ s[2] = b /\ s[3] = c /\ s[4] = d
    OBVIOUS
  <2> HIDE DEF s, P
  <2>4. \A i \in 1..Len(s) : Even(s[i])
    BY <2>1, <2>3
  <2>5. Affords(s, Left(0), Left(0))
    BY <2>3, <2>4, EvenWay DEF IsSeq
  <2>6. QED BY <2>2, <2>5
<1>3. Affords(SectionBody \o SectionClose, Left(0), Left(0))
  BY <1>1, <1>2, AffordsBoth
<1>4. Even([op |-> "nit_begin"])
  BY EvenCalls
<1>5. QED BY <1>3, <1>4, AffordsBefore DEF NetworkInformationSection

\* every structure pays for what is made of it
LEMMA LayoutsAfford ==
  ASSUME NEW layout \in DOMAIN Layout
  PROVE  \E b : Affords(Layout[layout], Left(0), b)
<1>1. /\ Even(D!Uint(8, "byte")) /\ Even(D!Uint(1, "bit"))
  BY EvenCalls
<1>2. /\ Affords(D!Item, Left(0), Left(1)) /\ Affords(TsSpecification, Left(0), Left(1))
  BY ItemsAfford DEF LoopItems
<1>3. /\ Affords(<<D!Uint(8, "byte")>> \o NetworkInformationSection, Left(0), Left(0))
      /\ Affords(<<D!Uint(1, "bit")>> \o NetworkInformationSection, Left(0), Left(0))
      /\ Affords(<<D!Uint(1, "bit")>> \o D!Item, Left(0), Left(1))
  BY <1>1, <1>2, SectionAffords, AffordsBefore
<1>4. Affords(D!ExtendedEvent, Left(0), Left(0))
  <2> DEFINE s == D!ExtendedEvent
             a1 == D!Uint(8, "descriptor_tag")
             a2 == D!Uint(8, "descriptor_length")
             a3 == D!Uint(4, "descriptor_number")
             a4 == D!Uint(4, "last_descriptor_number")
             a5 == D!FixedStringIo(3, "ISO_639_language_code")
             a6 == D!BlockBegin(8)
             a7 == D!VectorIo(D!Item)
             a8 == D!BlockEnd("length_of_items")
             a9 == D!ShortStringIo("text")
             P == {a1, a2, a3, a4, a5, a6, a7, a8, a9}
  <2>1. 3 \in 1..(2^ByteBits - 1)
    <3>1. PICK m, n : /\ m \in 0..RegisterBits /\ n \in 0..RegisterBits
                      /\ m + 1 = n /\ n + 1 = ByteBits
      <4>1. ByteBits - 2 \in 0..RegisterBits /\ ByteBits - 1 \in 0..RegisterBits
        BY StructureAssumption, Widths
      <4>2. (ByteBits - 2) + 1 = ByteBits - 1 /\ (ByteBits - 1) + 1 = ByteBits
        BY Widths
      <4>3. QED BY <4>1, <4>2
    <3>2. 2^m \in Nat /\ 2^m >= 1 /\ 2^(m + 1) = 2 * 2^m /\ 2^(n + 1) = 2 * 2^n
      BY <3>1, WeightsRise
    <3>3. PICK low, mid, high : low = 2^m /\ mid = 2^n /\ high = 2^ByteBits
      OBVIOUS
    <3>4. low \in Nat /\ low >= 1 /\ mid = 2 * low /\ high = 2 * mid
      BY <3>1, <3>2, <3>3
    <3>5. 3 \in 1..(high - 1)
      BY <3>4
    <3>6. QED BY <3>3, <3>5
  <2>2. /\ Even(a1) /\ Even(a2) /\ Even(a3) /\ Even(a4) /\ Even(a5) /\ IsBegin(a6)
        /\ Even(a6) /\ IsLoop(a7) /\ Even(a8) /\ Even(a9)
    BY <2>1, EvenCalls, ItemsLoop DEF IsBegin, Gains
  <2>3. s = <<a1, a2, a3, a4, a5, a6, a7, a8, a9>>
    BY DEF D!ExtendedEvent
  <2> HIDE DEF s, a1, a2, a3, a4, a5, a6, a7, a8, a9
  <2>4. /\ s \in Seq(P) /\ Len(s) = 9
        /\ s[1] = a1 /\ s[2] = a2 /\ s[3] = a3 /\ s[4] = a4 /\ s[5] = a5 /\ s[6] = a6
        /\ s[7] = a7 /\ s[8] = a8 /\ s[9] = a9
    BY <2>3
  <2> HIDE DEF P
  <2>5. ASSUME NEW i \in 1..9
        PROVE  Even(s[i]) \/ (i > 1 /\ IsLoop(s[i]) /\ IsBegin(s[i - 1]))
    <3>1. PICK j : j = i - 1
      OBVIOUS
    <3>2. \/ i \in (1..9) \ {7} \/ (i = 7 /\ j = 6)
      BY <3>1
    <3>3. Even(s[i]) \/ (i > 1 /\ IsLoop(s[i]) /\ IsBegin(s[j]))
      BY <2>2, <2>4, <3>2
    <3>4. QED BY <3>1, <3>3
  <2>6. Affords(s, Left(0), Left(0))
    <3>1. IsSeq(s)
      BY <2>4 DEF IsSeq
    <3>2. \A i \in 1..Len(s) : Even(s[i]) \/ (i > 1 /\ IsLoop(s[i]) /\ IsBegin(s[i - 1]))
      BY <2>4, <2>5
    <3>3. 0 \in 0..1 /\ 0 # 1
      OBVIOUS
    <3>4. QED BY <3>1, <3>2, <3>3, EvenWay
  <2>7. QED BY <2>6 DEF s
<1>5. \/ Layout[layout] = NetworkInformationSection \/ Layout[layout] = TsSpecification
      \/ Layout[layout] = D!ExtendedEvent \/ Layout[layout] = D!Item
      \/ Layout[layout] = <<D!Uint(8, "byte")>> \o NetworkInformationSection
      \/ Layout[layout] = <<D!Uint(1, "bit")>> \o NetworkInformationSection
      \/ Layout[layout] = <<D!Uint(1, "bit")>> \o D!Item
  BY DEF Layout
<1>6. QED BY <1>2, <1>3, <1>4, <1>5, SectionAffords

----------------------------------------------------------------------------
(* a message that is being parsed *)

\* so many of the bits are there
Limits(bits) == {l \in Nat : AreBits(bits, l)}
Parsing == /\ bitlimit \in Limits(data)
           /\ scope_stack \in Seq([bitpos_at_enter : Nat, bitlimit_at_enter : Limits(data)])

\* a call never goes back, and one that returns has read so many bits at least
KeepsParsing(read) == /\ mode' = mode /\ bitpos' \in Nat /\ bitpos <= bitpos'
                      /\ ~thrown' => Parsing' /\ bitpos + read <= bitpos'

AtLeast(size) == IF size <= Narrow THEN size ELSE 0

LEMMA ParsesOn ==
  ASSUME mode = "parse_binary", bitpos \in Nat, Parsing, NEW read \in Nat, mode' = mode,
         bitpos' \in Nat, bitpos + read <= bitpos',
         UNCHANGED <<bitlimit, scope_stack, data>>
  PROVE  KeepsParsing(read)
<1>1. bitpos <= bitpos'
  OBVIOUS
<1>2. Parsing'
  BY DEF Parsing, Limits
<1>3. QED BY <1>1, <1>2 DEF KeepsParsing

LEMMA NothingParses ==
  ASSUME mode = "parse_binary", bitpos \in Nat, Parsing, UNCHANGED common \/ Throw
  PROVE  KeepsParsing(0) \/ (thrown' /\ \A read : KeepsParsing(read))
<1>1. CASE UNCHANGED common
  <2>1. /\ mode' = mode /\ bitpos' = bitpos /\ bitpos + 0 <= bitpos
        /\ UNCHANGED <<bitlimit, scope_stack, data>>
    BY <1>1 DEF common, iox
  <2>2. QED BY <2>1, ParsesOn
<1>2. CASE Throw
  BY <1>2 DEF Throw, KeepsParsing
<1>3. QED BY <1>1, <1>2

LEMMA ReadMoves ==
  ASSUME bitpos \in Nat, NEW w, NEW size \in 1..RegisterBits, NEW val, I!Read(w, size, val)
  PROVE  bitpos' \in Nat /\ bitpos + AtLeast(size) <= bitpos' /\ AtLeast(size) \in Nat
<1>1. ByteBits \in Nat /\ ByteBits >= 1 /\ RegisterBits = 4 * ByteBits /\ size \in Nat
  BY Widths DEF RegisterBits
<1>2. bitpos % ByteBits \in 0..(ByteBits - 1)
  BY <1>1
<1>3. CASE bitpos' = bitpos + size
  BY <1>1, <1>3 DEF AtLeast
<1>4. CASE I!Spans(bitpos, size) /\ bitpos' = bitpos
  <2>1. (bitpos % ByteBits) + size > 4 * ByteBits
    BY <1>4 DEF I!Spans
  <2>2. ~(size <= Narrow)
    BY <1>1, <1>2, <2>1 DEF Narrow
  <2>3. QED BY <1>4, <2>2 DEF AtLeast
<1>5. QED BY <1>3, <1>4 DEF I!Read

LEMMA UintParses ==
  ASSUME mode = "parse_binary", bitpos \in Nat, Parsing, NEW f, f.size \in 1..RegisterBits,
         Uint(f)
  PROVE  KeepsParsing(AtLeast(f.size)) /\ (~thrown' => returned' \in 0..(2^f.size - 1))
<1>1. mode' = mode /\ I!Uint(f)
  BY DEF Uint, Dispatch
<1>2. CASE I!RefuseRead(f.size)
  BY <1>1, <1>2 DEF I!RefuseRead, KeepsParsing
<1>3. ASSUME NEW val \in 0..(2^f.size - 1), I!Read(f.w, f.size, val), returned' = val,
             UNCHANGED <<bitlimit, scope_stack, data, thrown, announced>>
      PROVE  KeepsParsing(AtLeast(f.size)) /\ returned' \in 0..(2^f.size - 1)
  <2>1. bitpos' \in Nat /\ bitpos + AtLeast(f.size) <= bitpos' /\ AtLeast(f.size) \in Nat
    BY <1>3, ReadMoves
  <2>2. UNCHANGED <<bitlimit, scope_stack, data>>
    BY <1>3
  <2>3. KeepsParsing(AtLeast(f.size))
    BY <1>1, <2>1, <2>2, ParsesOn
  <2>4. QED BY <1>3, <2>3
<1>4. QED BY <1>1, <1>2, <1>3 DEF I!Uint, I!RefuseRead

LEMMA UintReqParses ==
  ASSUME mode = "parse_binary", bitpos \in Nat, Parsing, NEW f, f.size \in 1..RegisterBits,
         UintReq(f)
  PROVE  KeepsParsing(0)
<1>1. mode' = mode /\ I!UintReq(f)
  BY DEF UintReq, Dispatch
<1>2. CASE I!RefuseRead(f.size)
  BY <1>1, <1>2 DEF I!RefuseRead, KeepsParsing
<1>3. ASSUME NEW val, I!Read(f.w, f.size, val),
             UNCHANGED <<bitlimit, scope_stack, data, returned, announced>>
      PROVE  KeepsParsing(0)
  <2>1. bitpos' \in Nat /\ bitpos + AtLeast(f.size) <= bitpos' /\ AtLeast(f.size) \in Nat
    BY <1>3, ReadMoves
  <2>2. bitpos + 0 <= bitpos' /\ UNCHANGED <<bitlimit, scope_stack, data>>
    BY <1>3, <2>1
  <2>3. QED BY <1>1, <2>1, <2>2, ParsesOn
<1>4. QED BY <1>1, <1>2, <1>3 DEF I!UintReq

LEMMA BlockBeginParses ==
  ASSUME mode = "parse_binary", bitpos \in Nat, Parsing, NEW size \in 1..RegisterBits,
         NamedBlockBegin(size)
  PROVE  KeepsParsing(AtLeast(size))
<1>1. mode' = mode /\ I!NamedBlockBegin(size)
  BY DEF NamedBlockBegin, Dispatch
<1>2. ASSUME NEW length, I!Read(4 * ByteBits, size, length)
      PROVE  bitpos' \in Nat /\ bitpos + AtLeast(size) <= bitpos' /\ bitpos <= bitpos'
  <2>1. bitpos' \in Nat /\ bitpos + AtLeast(size) <= bitpos' /\ AtLeast(size) \in Nat
    BY <1>2, ReadMoves
  <2>2. QED BY <2>1
<1>3. CASE I!RefuseRead(size)
  BY <1>1, <1>3 DEF I!RefuseRead, KeepsParsing
<1>4. CASE I!RefuseBegin(size)
  BY <1>1, <1>2, <1>4 DEF I!RefuseBegin, KeepsParsing
<1>5. CASE I!BeginBlock(size)
  <2> DEFINE e == [bitpos_at_enter |-> bitpos', bitlimit_at_enter |-> bitlimit]
             Scopes == [bitpos_at_enter : Nat, bitlimit_at_enter : Limits(data)]
  <2>1. PICK length \in 0..(2^size - 1) :
          /\ I!Read(4 * ByteBits, size, length) /\ I!HasBlock(bitpos', length)
          /\ bitlimit' = bitpos' + length * ByteBits
          /\ scope_stack' = Append(scope_stack, e) /\ data' = data
    BY <1>5 DEF I!BeginBlock
  <2>2. bitpos' \in Nat /\ bitpos + AtLeast(size) <= bitpos' /\ bitpos <= bitpos'
    BY <1>2, <2>1
  <2>3. bitlimit' \in Nat /\ bitlimit' <= bitlimit
    <3>1. size \in 0..RegisterBits
      BY Widths
    <3>2. 2^size \in Nat
      BY <3>1, WeightsRise
    <3>3. length \in Nat /\ length * ByteBits \in Nat
      BY <3>2, Widths
    <3>4. QED BY <2>1, <2>2, <3>3 DEF I!HasBlock
  <2>4. bitlimit' \in Limits(data)
    <3>1. bitlimit \in Nat /\ AreBits(data, bitlimit)
      BY DEF Parsing, Limits
    <3>2. \A i \in 0..(bitlimit' - 1) : i \in 0..(bitlimit - 1)
      <4>1. \A k, l \in Nat : k <= l => \A i \in 0..(k - 1) : i \in 0..(l - 1)
        OBVIOUS
      <4>2. QED BY <2>3, <3>1, <4>1, Zenon
    <3>3. AreBits(data, bitlimit')
      BY <2>3, <3>1, <3>2 DEF AreBits
    <3>4. QED BY <2>3, <3>3 DEF Limits
  <2>5. scope_stack' \in Seq(Scopes)
    <3>1. e \in Scopes
      BY <2>2 DEF Parsing
    <3>2. scope_stack \in Seq(Scopes)
      BY DEF Parsing
    <3> HIDE DEF e, Scopes
    <3>3. QED BY <2>1, <3>1, <3>2, AppendProperties
  <2>6. Parsing'
    BY <2>1, <2>4, <2>5 DEF Parsing, Limits
  <2>7. QED BY <1>1, <2>2, <2>6 DEF KeepsParsing
<1>6. QED BY <1>1, <1>3, <1>4, <1>5 DEF I!NamedBlockBegin

LEMMA BlockEndParses ==
  ASSUME mode = "parse_binary", bitpos \in Nat, Parsing, NamedBlockEnd
  PROVE  KeepsParsing(0)
<1>1. mode' = mode /\ I!NamedBlockEnd
  BY DEF NamedBlockEnd, Dispatch
<1>2. CASE I!RefuseEnd
  BY <1>1, <1>2 DEF I!RefuseEnd, KeepsParsing
<1>3. CASE I!EndBlock
  <2> DEFINE Scopes == [bitpos_at_enter : Nat, bitlimit_at_enter : Limits(data)]
             n == Len(scope_stack)
             inner == SubSeq(scope_stack, 1, n - 1)
  <2>1. /\ bitlimit' = scope_stack[n].bitlimit_at_enter /\ scope_stack' = inner
        /\ bitpos' = bitpos /\ data' = data /\ scope_stack # <<>>
    BY <1>3 DEF I!EndBlock, I!BlockDone, I!Top, I!Outer
  <2>2. /\ scope_stack[n] \in Scopes /\ inner \in Seq(Scopes)
    <3>1. scope_stack \in Seq(Scopes)
      BY DEF Parsing
    <3> HIDE DEF Scopes
    <3>2. n \in Nat /\ n >= 1 /\ \A i \in 1..n : scope_stack[i] \in Scopes
      BY <2>1, <3>1, LenProperties, EmptySeq, ElementOfSeq
    <3>3. \A i \in 1..(n - 1) : scope_stack[i] \in Scopes
      BY <3>2
    <3>4. inner \in Seq(Scopes)
      <4>1. n - 1 \in Int
        BY <3>2
      <4>2. QED BY <3>1, <3>2, <3>3, <4>1, SubSeqProperties
    <3>5. QED BY <3>2, <3>4
  <2>3. scope_stack[n].bitlimit_at_enter \in Limits(data)
    BY <2>2
  <2>4. Parsing'
    <3> HIDE DEF n, inner
    <3>1. QED BY <2>1, <2>2, <2>3 DEF Parsing, Limits
  <2>5. bitpos' \in Nat /\ bitpos <= bitpos' /\ bitpos + 0 <= bitpos'
    BY <2>1
  <2>6. QED BY <1>1, <2>4, <2>5 DEF KeepsParsing
<1>4. QED BY <1>1, <1>2, <1>3 DEF I!NamedBlockEnd

LEMMA StringParses ==
  ASSUME mode = "parse_binary", bitpos \in Nat, Parsing, NEW skipped \in 0..1, NEW len \in Nat,
         skipped + len >= 1, ParseBinaryString(skipped, len)
  PROVE  KeepsParsing(ByteBits)
<1> DEFINE n == skipped + len
<1>1. /\ n \in Nat /\ n >= 1 /\ ByteBits \in Nat /\ skipped \in Nat
      /\ n * ByteBits \in Nat /\ ByteBits <= n * ByteBits /\ skipped * ByteBits \in Nat
  <2>1. n \in Nat /\ n >= 1 /\ ByteBits \in Nat
    BY Widths
  <2>2. PICK k \in Nat : n = k + 1
    <3>1. n - 1 \in Nat /\ n = (n - 1) + 1
      BY <2>1
    <3>2. QED BY <3>1
  <2>3. k * ByteBits \in Nat /\ (k + 1) * ByteBits = k * ByteBits + ByteBits
    BY <2>1, <2>2
  <2>4. skipped * ByteBits \in Nat
    BY <2>1
  <2> HIDE DEF n
  <2>5. QED BY <2>1, <2>2, <2>3, <2>4
<1>2. /\ mode' = mode /\ thrown' = ~Room(n) /\ UNCHANGED <<bitlimit, scope_stack, data>>
      /\ bitpos' = bitpos + (IF Room(n) THEN n ELSE skipped) * ByteBits
  BY DEF ParseBinaryString
<1>3. CASE Room(n)
  <2>1. bitpos' = bitpos + n * ByteBits
    BY <1>2, <1>3
  <2>2. bitpos' \in Nat /\ bitpos + ByteBits <= bitpos'
    <3> HIDE DEF n
    <3>1. QED BY <1>1, <2>1
  <2>3. QED BY <1>1, <1>2, <2>2, ParsesOn
<1>4. CASE ~Room(n)
  <2>1. bitpos' = bitpos + skipped * ByteBits
    BY <1>2, <1>4
  <2>2. bitpos' \in Nat /\ bitpos <= bitpos'
    BY <1>1, <2>1
  <2>3. QED BY <1>2, <1>4, <2>2 DEF KeepsParsing
<1>5. QED BY <1>3, <1>4

\* the bytes of what there is are numbers
LEMMA ByteParsed ==
  ASSUME bitpos \in Nat, Parsing, Room(1)
  PROVE  BytesAt(bitpos, 1)[1] \in Nat
<1> DEFINE bits == [j \in 1..ByteBits |-> data[bitpos + (1 - 1) * ByteBits + j - 1]]
<1>1. ByteBits \in Nat /\ ByteBits \in 0..RegisterBits /\ bitpos + ByteBits <= bitlimit
  BY Widths DEF Room
<1>2. \A i \in 0..(bitlimit - 1) : data[i] \in {0, 1}
  BY DEF Parsing, Limits, AreBits
<1>3. bitlimit \in Nat
  BY DEF Parsing, Limits
<1>4. ASSUME NEW j \in 1..ByteBits PROVE bits[j] \in {0, 1}
  <2>1. PICK i : i = bitpos + (1 - 1) * ByteBits + j - 1
    OBVIOUS
  <2>2. i \in 0..(bitlimit - 1)
    BY <1>1, <1>3, <2>1
  <2>3. bits[j] = data[i]
    BY <2>1
  <2>4. QED BY <1>2, <2>2, <2>3
<1>5. bits \in [1..ByteBits -> {0, 1}]
  BY <1>4
<1>6. BytesAt(bitpos, 1)[1] = NumberOf(bits)
  BY DEF BytesAt
<1> HIDE DEF bits
<1>7. NumberOf(bits) \in 0..(2^ByteBits - 1) /\ 2^ByteBits \in Nat
  BY <1>1, <1>5, NumberSpells, WeightsRise
<1>8. QED BY <1>6, <1>7

LEMMA StringsParse ==
  ASSUME mode = "parse_binary", bitpos \in Nat, Parsing,
         NEW name, NEW num_chars \in 1..(2^ByteBits - 1), NEW s,
         ShortString(name, s) \/ FixedString(name, num_chars, s)
  PROVE  KeepsParsing(ByteBits)
<1>1. ASSUME Throw PROVE KeepsParsing(ByteBits)
  BY <1>1 DEF Throw, KeepsParsing
<1>2. CASE ShortString(name, s)
  <2>1. \/ /\ Room(1) /\ ParseBinaryString(1, BytesAt(bitpos, 1)[1])
        \/ Throw
    BY <1>2 DEF ShortString, IsParsing
  <2>2. CASE Room(1) /\ ParseBinaryString(1, BytesAt(bitpos, 1)[1])
    <3>1. PICK len \in Nat : len = BytesAt(bitpos, 1)[1]
      BY <2>2, ByteParsed
    <3>2. 1 + len >= 1 /\ 1 \in 0..1 /\ ParseBinaryString(1, len)
      BY <2>2, <3>1
    <3>3. QED BY <3>2, StringParses
  <2>3. QED BY <1>1, <2>1, <2>2
<1>3. CASE FixedString(name, num_chars, s)
  <2>1. num_chars % 2^ByteBits = num_chars
    <3>1. PICK size : size = 2^ByteBits
      OBVIOUS
    <3>2. size \in Nat /\ size >= 1
      <4>1. ByteBits \in 0..RegisterBits
        BY Widths
      <4>2. QED BY <3>1, <4>1, WeightsRise
    <3>3. num_chars % size = num_chars
      BY <3>1, <3>2
    <3>4. QED BY <3>1, <3>3
  <2>2. ParseBinaryString(0, num_chars) \/ Throw
    BY <1>3, <2>1 DEF FixedString, IsParsing
  <2>3. CASE ParseBinaryString(0, num_chars)
    <3>1. num_chars \in Nat /\ 0 + num_chars >= 1 /\ 0 \in 0..1
      OBVIOUS
    <3>2. QED BY <2>3, <3>1, StringParses
  <2>4. QED BY <1>1, <2>2, <2>3
<1>4. QED BY <1>2, <1>3

LEMMA SumParses ==
  ASSUME mode = "parse_binary", bitpos \in Nat, Parsing, NEW started_at, crc_io(started_at)
  PROVE  KeepsParsing(0)
<1>1. CASE Throw
  BY <1>1 DEF Throw, KeepsParsing
<1>2. CASE CheckCrc(started_at)
  <2>1. mode' = mode
    BY <1>2 DEF CheckCrc
  <2>2. CASE I!RefuseRead(RegisterBits)
    BY <2>1, <2>2 DEF I!RefuseRead, KeepsParsing
  <2>3. ASSUME NEW val, I!Read(RegisterBits, RegisterBits, val),
               UNCHANGED <<bitlimit, scope_stack, data>>
        PROVE  KeepsParsing(0)
    <3>1. RegisterBits \in 1..RegisterBits
      BY Widths
    <3>2. /\ bitpos' \in Nat /\ bitpos + AtLeast(RegisterBits) <= bitpos'
          /\ AtLeast(RegisterBits) \in Nat
      BY <2>3, <3>1, ReadMoves
    <3>3. bitpos + 0 <= bitpos'
      BY <3>2
    <3>4. QED BY <2>1, <2>3, <3>2, <3>3, ParsesOn
  <2>4. QED BY <1>2, <2>2, <2>3 DEF CheckCrc
<1>3. QED BY <1>1, <1>2 DEF crc_io

----------------------------------------------------------------------------
(* the work of a parser, call by call *)

\* what has been made last is a number of one byte
Known == Len(made) >= 1 /\ made[Len(made)][1] \in 0..(2^ByteBits - 1)

\* there is a purse that is not overdrawn, and enough for what is left to do
Solvent(a, b) == /\ a \in Purse
                 /\ Len(made) + a.funds <= bitpos
                 /\ a.number => Known
                 /\ Affords(todo, a, b)
Working == /\ IsSeq(made) /\ bitpos \in Nat /\ Len(made) <= bitpos
           /\ ~thrown => Parsing /\ \E a, b : Solvent(a, b)

\* a call leaves that, and never goes back
WorksOn == Working' /\ bitpos <= bitpos'

\* the turn of a call, with the purse before and after it
Turn(a, m, b) == /\ mode = "parse_binary" /\ IsSeq(made) /\ bitpos \in Nat /\ Parsing
                 /\ a \in Purse /\ m \in Purse
                 /\ Len(made) + a.funds <= bitpos
                 /\ a.number => Known
                 /\ Affords(Tail(todo), m, b)

LEMMA MadeLength ==
  ASSUME NEW s, NEW e, IsSeq(s)
  PROVE  /\ Len(s) \in Nat /\ IsSeq(Append(s, e)) /\ Len(Append(s, e)) = Len(s) + 1
         /\ Append(s, e)[Len(s) + 1] = e
<1>1. PICK P : s \in Seq(P)
  BY DEF IsSeq
<1> DEFINE Q == P \cup {e}
<1>2. s \in Seq(Q) /\ e \in Q
  BY <1>1, SeqMonotonic
<1> HIDE DEF Q
<1>3. /\ Append(s, e) \in Seq(Q) /\ Len(Append(s, e)) = Len(s) + 1
      /\ Append(s, e)[Len(s) + 1] = e /\ Len(s) \in Nat
  BY <1>2, AppendProperties, LenProperties
<1>4. QED BY <1>3 DEF IsSeq

\* a call that is no loop: it may be replaced by calls that cost nothing
LEMMA PlainWorks ==
  ASSUME NEW a, NEW m, NEW b, Turn(a, m, b), NEW read \in Nat, NEW makes \in Nat,
         m.funds + makes <= a.funds + read,
         KeepsParsing(read),
         ~thrown' => Len(made') = Len(made) + makes /\ (m.number => Known'),
         thrown' => made' = made,
         IsSeq(made'),
         NEW calls, Affords(calls, m, m), todo' = calls \o Tail(todo)
  PROVE  WorksOn
<1>1. /\ Len(made) \in Nat /\ a.funds \in Nat /\ m.funds \in Nat /\ bitpos \in Nat
      /\ bitpos' \in Nat /\ bitpos <= bitpos' /\ Len(made) + a.funds <= bitpos
  BY MadeLength DEF Turn, Purse, KeepsParsing
<1>2. CASE thrown'
  BY <1>1, <1>2 DEF Working, WorksOn
<1>3. CASE ~thrown'
  <2>1. Parsing' /\ bitpos + read <= bitpos'
    BY <1>3 DEF KeepsParsing
  <2>2. Len(made') = Len(made) + makes /\ (m.number => Known')
    BY <1>3
  <2>3. Len(made') + m.funds <= bitpos' /\ Len(made') <= bitpos'
    <3>1. ASSUME NEW l \in Nat, NEW p \in Nat, NEW q \in Nat, NEW f \in Nat, NEW g \in Nat,
                 l + f <= p, p + read <= q, g + makes <= f + read
          PROVE  (l + makes) + g <= q /\ l + makes <= q
      BY <3>1
    <3>2. QED BY <1>1, <2>1, <2>2, <3>1
  <2>4. Affords(todo', m, b)
    BY AffordsBoth DEF Turn
  <2>5. Solvent(m, b)'
    BY <2>2, <2>3, <2>4 DEF Solvent, Turn, Affords, IsWay, Pays, IsParsed
  <2>6. Working'
    BY <1>1, <1>3, <2>1, <2>3, <2>5 DEF Working
  <2>7. QED BY <1>1, <2>6 DEF WorksOn
<1>4. QED BY <1>2, <1>3

\* and it is followed by the calls after it
LEMMA TailWorks ==
  ASSUME NEW a, NEW m, NEW b, Turn(a, m, b), NEW read \in Nat, NEW makes \in Nat,
         m.funds + makes <= a.funds + read,
         KeepsParsing(read),
         ~thrown' => Len(made') = Len(made) + makes /\ (m.number => Known'),
         thrown' => made' = made,
         IsSeq(made'), Then(<<>>)
  PROVE  WorksOn
<1>1. Affords(<<>>, m, m) /\ todo' = <<>> \o Tail(todo)
  BY AffordsNone DEF Turn, Then
<1>2. QED BY <1>1, PlainWorks

\* a loop: an item comes first, which pays for the next test
LEMMA LoopWorks ==
  ASSUME NEW a, NEW m, NEW b, Turn(a, m, b), todo = <<Call>> \o Tail(todo),
         IsLoop(Call), m.funds + 1 <= a.funds, ~m.number, VectorIo
  PROVE  WorksOn
<1>1. /\ Len(made) \in Nat /\ a.funds \in Nat /\ m.funds \in Nat /\ bitpos \in Nat
      /\ Len(made) + a.funds <= bitpos
  BY MadeLength DEF Turn, Purse
<1>2. IsSeq(made') /\ Len(made') = Len(made) + 1
  BY MadeLength DEF VectorIo, Turn
<1>3. /\ mode' = mode /\ bitpos' = bitpos /\ thrown' = thrown
      /\ UNCHANGED <<bitlimit, scope_stack, data>>
  BY DEF VectorIo, common, iox
<1>4. Parsing' /\ bitpos <= bitpos'
  BY <1>1, <1>3 DEF Turn, Parsing, Limits
<1>5. CASE ~More
  <2>1. Affords(<<>>, m, m) /\ todo' = <<>> \o Tail(todo)
    BY <1>5, AffordsNone DEF Turn, Then, VectorIo
  <2>2. Affords(todo', m, b)
    BY <2>1, AffordsBoth DEF Turn
  <2>3. Len(made') + m.funds <= bitpos' /\ Len(made') <= bitpos'
    BY <1>1, <1>2, <1>3
  <2>4. Solvent(m, b)'
    BY <2>2, <2>3 DEF Solvent, Turn
  <2>5. Working'
    BY <1>1, <1>2, <1>3, <1>4, <2>3, <2>4 DEF Working
  <2>6. QED BY <1>4, <2>5 DEF WorksOn
<1>6. CASE More
  <2>1. todo' = Call.item \o todo
    BY <1>6 DEF VectorIo
  <2>2. PICK k \in Nat : a.funds = k + 1
    <3>1. a.funds - 1 \in Nat /\ a.funds = (a.funds - 1) + 1
      BY <1>1
    <3>2. QED BY <3>1
  <2>3. Affords(Call.item, Left(k), Left(k + 1))
    <3>1. Affords(Call.item, Left(0), Left(1))
      BY ItemsAfford DEF IsLoop
    <3>2. Affords(Call.item, More2(Left(0), k), More2(Left(1), k))
      BY <3>1, AffordsMore
    <3>3. More2(Left(0), k) = Left(k) /\ More2(Left(1), k) = Left(k + 1)
      <4>1. 0 + k = k /\ 1 + k = k + 1
        OBVIOUS
      <4>2. /\ Left(0).funds = 0 /\ Left(0).number = FALSE
            /\ Left(1).funds = 1 /\ Left(1).number = FALSE
        BY DEF Left
      <4>3. QED BY <4>1, <4>2 DEF More2, Left
    <3>4. QED BY <3>2, <3>3
  <2>4. Affords(todo, Left(k + 1), b)
    <3>1. Left(k + 1) \in Purse /\ Left(k + 1).funds = k + 1
      BY Lefts
    <3>2. Pays(Call, Left(k + 1), m)
      BY <2>2, <3>1 DEF Pays, IsLoop
    <3>3. Affords(<<Call>>, Left(k + 1), m)
      BY <3>1, <3>2, AffordsOne DEF Turn
    <3>4. Affords(<<Call>> \o Tail(todo), Left(k + 1), b)
      BY <3>3, AffordsBoth DEF Turn
    <3>5. QED BY <3>4
  <2>5. Affords(todo', Left(k), b)
    BY <2>1, <2>3, <2>4, AffordsBoth
  <2>6. Left(k) \in Purse /\ Left(k).funds = k /\ ~Left(k).number
    BY Lefts
  <2>7. Len(made') + k <= bitpos' /\ Len(made') <= bitpos'
    BY <1>1, <1>2, <1>3, <2>2
  <2>8. Solvent(Left(k), b)'
    <3>1. PICK p : p = Left(k)
      OBVIOUS
    <3>2. Solvent(p, b)'
      BY <2>5, <2>6, <2>7, <3>1 DEF Solvent
    <3>3. QED BY <3>1, <3>2 DEF Left, Solvent
  <2>9. Working'
    BY <1>1, <1>2, <1>3, <1>4, <2>7, <2>8 DEF Working
  <2>10. QED BY <1>4, <2>9 DEF WorksOn
<1>7. QED BY <1>5, <1>6

\* what is appended to the members made
Appended(x) == /\ IsSeq(made')
               /\ ~thrown' => Len(made') = Len(made) + 1 /\ Len(made') >= 1
                              /\ made'[Len(made')] = x
               /\ thrown' => made' = made

LEMMA MadeOne ==
  ASSUME NEW x, IsSeq(made), made' = IF thrown' THEN made ELSE Append(made, x)
  PROVE  Appended(x)
<1>1. CASE thrown'
  BY <1>1 DEF Appended, IsSeq
<1>2. CASE ~thrown'
  <2>1. made' = Append(made, x)
    BY <1>2
  <2>2. /\ Len(made) \in Nat /\ IsSeq(made') /\ Len(made') = Len(made) + 1
        /\ made'[Len(made) + 1] = x
    BY <2>1, MadeLength
  <2>3. QED BY <1>2, <2>2 DEF Appended
<1>3. QED BY <1>1, <1>2

LEMMA CallWorks ==
  ASSUME NEW a, NEW m, NEW b, Turn(a, m, b), Pays(Call, a, m), Io,
         todo = <<Call>> \o Tail(todo)
  PROVE  WorksOn
<1>1. CASE ~IsParsed(Call)
  <2>1. IsLoop(Call) /\ m.funds + 1 <= a.funds /\ ~m.number /\ Call.op = "vector_io"
    BY <1>1 DEF Pays, IsLoop
  <2>2. VectorIo
    BY <2>1 DEF Io, UintCall, UintReqCall, BlockBeginCall, BlockEndCall, NitBegin, TagCall,
                DescriptorFactory, StringCall, DataCall, CrcCall, CrcLateFix, SectionLengthTest
  <2>3. QED BY <2>1, <2>2, LoopWorks
<1> SUFFICES ASSUME IsParsed(Call) PROVE WorksOn
  BY <1>1
<1>2. /\ Call.op \in ParsedOps
      /\ Call.op \in {"uint", "uint_req", "named_block_begin"} => Call.size \in 1..RegisterBits
      /\ Call.op = "fixed_string_io" => Call.num_chars \in 1..(2^ByteBits - 1)
  BY DEF IsParsed
<1>3. /\ m.funds + Makes(Call) <= a.funds + Reads(Call)
      /\ m.number => Call.op = "uint" /\ Call.size = ByteBits
      /\ Call.op = "data" => a.number
  BY <1>2 DEF Pays, ParsedOps, PlainOps
<1>4. /\ mode = "parse_binary" /\ bitpos \in Nat /\ Parsing /\ IsParsing /\ ByteBits \in Nat
      /\ IsSeq(made) /\ Len(made) \in Nat
  BY MadeLength, Widths DEF Turn, IsParsing
<1>4a. a.number => Known
  BY DEF Turn
<1>5. ASSUME m.funds <= a.funds, KeepsParsing(0) \/ (thrown' /\ \A read : KeepsParsing(read)),
             made' = made, ~m.number
      PROVE  /\ Then(<<>>) => WorksOn
             /\ \A calls : Affords(calls, m, m) /\ todo' = calls \o Tail(todo) => WorksOn
  <2>1. KeepsParsing(0)
    BY <1>5
  <2>2. /\ 0 \in Nat /\ m.funds + 0 <= a.funds + 0 /\ IsSeq(made')
        /\ Len(made') = Len(made) + 0
    BY <1>4, <1>5 DEF Turn, Purse, IsSeq
  <2>3. Then(<<>>) => WorksOn
    BY <1>5, <2>1, <2>2, TailWorks
  <2>4. \A calls : Affords(calls, m, m) /\ todo' = calls \o Tail(todo) => WorksOn
    BY <1>5, <2>1, <2>2, PlainWorks
  <2>5. QED BY <2>3, <2>4
<1>6. ASSUME NEW x, Appended(x), KeepsParsing(Reads(Call)), Makes(Call) = 1, Reads(Call) \in Nat,
             ~thrown' /\ m.number => x[1] \in 0..(2^ByteBits - 1), Then(<<>>)
      PROVE  WorksOn
  <2>1. /\ ~thrown' => Len(made') = Len(made) + 1 /\ (m.number => Known')
        /\ thrown' => made' = made
        /\ IsSeq(made')
    BY <1>6 DEF Appended, Known
  <2>2. 1 \in Nat /\ m.funds + 1 <= a.funds + Reads(Call)
    BY <1>3, <1>6
  <2>3. PICK read : read = Reads(Call)
    OBVIOUS
  <2>4. QED BY <1>6, <2>1, <2>2, <2>3, TailWorks
<1>7. CASE UintCall
  <2> DEFINE f == FieldOf(Call, IF IsParsing THEN 0 ELSE Member[1])
  <2>1. f.size = Call.size /\ Call.size \in 1..RegisterBits /\ Call.op = "uint"
    BY <1>2, <1>7 DEF UintCall, FieldOf
  <2>2. Uint(f)
    BY <1>7 DEF UintCall
  <2>3. /\ KeepsParsing(AtLeast(Call.size))
        /\ ~thrown' => returned' \in 0..(2^Call.size - 1)
    <3> HIDE DEF f
    <3>1. f.size \in 1..RegisterBits
      BY <2>1
    <3>2. KeepsParsing(AtLeast(f.size)) /\ (~thrown' => returned' \in 0..(2^f.size - 1))
      BY <1>4, <2>2, <3>1, UintParses
    <3>3. QED BY <2>1, <3>2
  <2>4. Reads(Call) = AtLeast(Call.size) /\ Makes(Call) = 1 /\ Reads(Call) \in Nat
    BY <2>1, Widths DEF Reads, Makes, AtLeast
  <2>5. PICK x : x = <<returned'>>
    OBVIOUS
  <2>6. Appended(x) /\ Then(<<>>)
    <3>1. made' = IF thrown' THEN made ELSE Append(made, x)
      BY <1>4, <1>7, <2>5 DEF UintCall, Made
    <3>2. IsSeq(made)
      BY <1>4
    <3>3. Appended(x)
      BY <3>1, <3>2, MadeOne
    <3>4. Then(<<>>)
      BY <1>7 DEF UintCall
    <3>5. QED BY <3>3, <3>4
  <2>7. ~thrown' /\ m.number => x[1] \in 0..(2^ByteBits - 1)
    <3>1. x[1] = returned'
      BY <2>5
    <3>2. ~thrown' /\ m.number => returned' \in 0..(2^ByteBits - 1)
      BY <1>3, <2>3
    <3>3. QED BY <3>1, <3>2
  <2>8. QED BY <1>6, <2>3, <2>4, <2>6, <2>7
<1>8. CASE TagCall
  <2> DEFINE f == FieldOf(D!Uint(8, "tag"), IF IsParsing THEN 0 ELSE Member[1])
  <2>1. f.size = ByteBits /\ Call.op = "tag"
    BY <1>8, StructureAssumption DEF TagCall, FieldOf, D!Uint
  <2>2. Uint(f)
    BY <1>4, <1>8 DEF TagCall, WritesTag
  <2>3. KeepsParsing(ByteBits)
    <3>1. ByteBits \in 1..RegisterBits /\ ByteBits <= Narrow
      BY Widths DEF Narrow
    <3> HIDE DEF f
    <3>2. f.size \in 1..RegisterBits
      BY <2>1, <3>1
    <3>3. KeepsParsing(AtLeast(f.size))
      BY <1>4, <2>2, <3>2, UintParses
    <3>4. QED BY <2>1, <3>1, <3>3 DEF AtLeast
  <2>4. Reads(Call) = ByteBits /\ Makes(Call) = 1
    BY <2>1 DEF Reads, Makes
  <2>5. PICK x : x = <<returned'>>
    OBVIOUS
  <2>6. Appended(x) /\ Then(<<>>)
    <3>1. made' = IF thrown' THEN made ELSE Append(made, x)
      BY <1>4, <1>8, <2>5 DEF TagCall, Made
    <3>2. IsSeq(made)
      BY <1>4
    <3>3. Appended(x)
      BY <3>1, <3>2, MadeOne
    <3>4. Then(<<>>)
      BY <1>8 DEF TagCall
    <3>5. QED BY <3>3, <3>4
  <2>7. ~m.number
    BY <1>3, <2>1
  <2>8. QED BY <1>4, <1>6, <2>3, <2>4, <2>6, <2>7
<1>9. CASE StringCall
  <2>1. PICK s : \/ Call.op = "short_string_io" /\ ShortString(Call.name, s)
                 \/ Call.op = "fixed_string_io" /\ FixedString(Call.name, Call.num_chars, s)
    BY <1>9 DEF StringCall
  <2>2. KeepsParsing(ByteBits)
    <3>1. mode = "parse_binary" /\ bitpos \in Nat /\ Parsing
      BY <1>4
    <3>2. 1 \in 1..(2^ByteBits - 1)
      <4>1. PICK k : k \in 0..RegisterBits /\ k + 1 = ByteBits
        <5>1. ByteBits - 1 \in 0..RegisterBits /\ (ByteBits - 1) + 1 = ByteBits
          BY Widths
        <5>2. QED BY <5>1
      <4>2. PICK half, size : half = 2^k /\ size = 2^ByteBits
        OBVIOUS
      <4>3. half \in Nat /\ half >= 1 /\ size = 2 * half
        BY <4>1, <4>2, WeightsRise
      <4>4. 1 \in 1..(size - 1)
        BY <4>3
      <4>5. QED BY <4>2, <4>4
    <3>3. CASE ShortString(Call.name, s)
      BY <3>1, <3>2, <3>3, StringsParse
    <3>4. CASE Call.op = "fixed_string_io" /\ FixedString(Call.name, Call.num_chars, s)
      <4>1. PICK n, name : n = Call.num_chars /\ name = Call.name
        OBVIOUS
      <4>2. n \in 1..(2^ByteBits - 1)
        BY <1>2, <3>4, <4>1
      <4>3. FixedString(name, n, s)
        BY <3>4, <4>1
      <4>4. QED BY <3>1, <4>2, <4>3, StringsParse
    <3>5. QED BY <2>1, <3>3, <3>4
  <2>3. Reads(Call) = ByteBits /\ Makes(Call) = 1 /\ ~m.number
    BY <1>3, <1>9 DEF StringCall, Reads, Makes
  <2>4. PICK x : x = str'
    OBVIOUS
  <2>5. Appended(x) /\ Then(<<>>)
    <3>1. made' = IF thrown' THEN made ELSE Append(made, x)
      BY <1>4, <1>9, <2>4 DEF StringCall, Made
    <3>2. IsSeq(made)
      BY <1>4
    <3>3. Appended(x)
      BY <3>1, <3>2, MadeOne
    <3>4. Then(<<>>)
      BY <1>9 DEF StringCall
    <3>5. QED BY <3>3, <3>4
  <2>6. QED BY <1>4, <1>6, <2>2, <2>3, <2>5
<1>10. CASE BlockBeginCall
  <2>1. /\ Call.op = "named_block_begin" /\ NamedBlockBegin(Call.size) /\ Then(<<>>)
        /\ made' = made
    BY <1>10 DEF BlockBeginCall
  <2>2. KeepsParsing(AtLeast(Call.size))
    BY <1>2, <1>4, <2>1, BlockBeginParses
  <2>3. Reads(Call) = AtLeast(Call.size) /\ Makes(Call) = 0 /\ AtLeast(Call.size) \in Nat /\ ~m.number
    BY <1>2, <1>3, <2>1, Widths DEF Reads, Makes, AtLeast
  <2>4. PICK read : read = AtLeast(Call.size)
    OBVIOUS
  <2>5. /\ read \in Nat /\ KeepsParsing(read) /\ m.funds + 0 <= a.funds + read /\ 0 \in Nat
    BY <1>3, <2>2, <2>3, <2>4
  <2>6. IsSeq(made')
    <3>1. PICK P : made \in Seq(P)
      BY <1>4 DEF IsSeq
    <3>2. made' \in Seq(P)
      BY <2>1, <3>1
    <3>3. QED BY <3>2 DEF IsSeq
  <2>7. Len(made') = Len(made) + 0
    BY <1>4, <2>1
  <2>8. QED BY <2>1, <2>3, <2>5, <2>6, <2>7, TailWorks
<1>11. CASE UintReqCall \/ BlockEndCall \/ DescriptorFactory \/ DataCall \/ NitBegin \/ CrcCall
            \/ CrcLateFix \/ SectionLengthTest
  <2>1. Call.op \in {"uint_req", "named_block_end", "descriptor_factory", "data", "nit_begin",
                     "crc_io", "crc_late_fix", "section_length_test"}
    BY <1>11 DEF UintReqCall, BlockEndCall, DescriptorFactory, DataCall, NitBegin, CrcCall,
                 CrcLateFix, SectionLengthTest
  <2>2. Reads(Call) = 0 /\ Makes(Call) = 0
    BY <2>1 DEF Reads, Makes
  <2>3. m.funds <= a.funds /\ ~m.number
    BY <1>3, <2>1, <2>2 DEF Turn, Purse
  <2>4. made' = made
    BY <1>11 DEF UintReqCall, BlockEndCall, DescriptorFactory, DataCall, NitBegin, CrcCall,
                 CrcLateFix, SectionLengthTest
  <2>5. m = Left(m.funds) /\ m.funds \in Nat
    BY <2>3 DEF Turn, Purse, Left
  <2>6. CASE UintReqCall
    <3>1. PICK f : f.size \in 1..RegisterBits /\ UintReq(f)
      BY <1>2, <2>6 DEF UintReqCall, FieldOf
    <3>2. KeepsParsing(0)
      BY <1>4, <3>1, UintReqParses
    <3>3. QED BY <1>5, <2>3, <2>4, <2>6, <3>2 DEF UintReqCall
  <2>7. CASE BlockEndCall
    BY <1>4, <1>5, <2>3, <2>4, <2>7, BlockEndParses DEF BlockEndCall
  <2>8. CASE DescriptorFactory
    <3>1. PICK calls : /\ Affords(calls, Left(0), Left(0))
                       /\ todo' = calls \o Tail(todo)
      BY <2>8, ContentAffords DEF DescriptorFactory, Then
    <3>2. Affords(calls, More2(Left(0), m.funds), More2(Left(0), m.funds))
      BY <2>5, <3>1, AffordsMore
    <3>3. More2(Left(0), m.funds) = m
      <4>1. PICK k \in Nat : k = m.funds
        BY <2>5
      <4>2. 0 + k = k
        OBVIOUS
      <4>3. Left(0).funds = 0 /\ Left(0).number = FALSE
        BY DEF Left
      <4>4. More2(Left(0), k) = Left(k)
        BY <4>2, <4>3 DEF More2, Left
      <4>5. QED BY <2>5, <4>1, <4>4
    <3>4. UNCHANGED common
      BY <2>8 DEF DescriptorFactory
    <3>5. QED BY <1>4, <1>5, <2>3, <2>4, <3>1, <3>2, <3>3, <3>4, NothingParses
  <2>9. CASE DataCall
    <3>1. Known
      <4>1. Call.op = "data"
        BY <2>9 DEF DataCall
      <4>2. Call.op = "data" => a.number
        BY <1>3, Zenon
      <4>3. a.number => Known
        BY <1>4a, Zenon
      <4>4. QED BY <4>1, <4>2, <4>3, Zenon
    <3>2. PICK length : length = made[Len(made)][1] /\ length \in 0..(2^ByteBits - 1)
      BY <3>1 DEF Known
    <3>3. PICK calls : calls = IF length > 0 THEN <<D!FixedStringIo(length, "data")>> ELSE <<>>
      OBVIOUS
    <3>4. todo' = calls \o Tail(todo) /\ UNCHANGED common
      BY <2>9, <3>2, <3>3 DEF DataCall, Then
    <3>5. Affords(calls, m, m)
      <4>1. m \in Purse
        BY DEF Turn
      <4>2. CASE length > 0
        <5>1. length \in 1..(2^ByteBits - 1)
          BY <3>2, <4>2
        <5>2. Even(D!FixedStringIo(length, "data"))
          BY <5>1, EvenCalls
        <5>3. Pays(D!FixedStringIo(length, "data"), m, m)
          BY <2>5, <5>2, Lefts
        <5>4. QED BY <3>3, <4>1, <4>2, <5>3, AffordsOne
      <4>3. CASE ~(length > 0)
        BY <3>3, <4>1, <4>3, AffordsNone
      <4>4. QED BY <4>2, <4>3
    <3>6. QED BY <1>4, <1>5, <2>3, <2>4, <3>4, <3>5, NothingParses
  <2>10. CASE NitBegin
    BY <1>4, <1>5, <2>3, <2>4, <2>10, NothingParses DEF NitBegin
  <2>11. CASE CrcCall
    BY <1>4, <1>5, <2>3, <2>4, <2>11, SumParses DEF CrcCall
  <2>12. CASE CrcLateFix
    <3>1. UNCHANGED common \/ Throw
      BY <1>4, <2>12 DEF CrcLateFix, crc_late_fix
    <3>2. QED BY <1>4, <1>5, <2>3, <2>4, <2>12, <3>1, NothingParses DEF CrcLateFix
  <2>13. CASE SectionLengthTest
    <3>1. UNCHANGED common \/ Throw
      BY <2>13 DEF SectionLengthTest
    <3>2. QED BY <1>4, <1>5, <2>3, <2>4, <2>13, <3>1, NothingParses DEF SectionLengthTest
  <2>14. QED BY <1>11, <2>6, <2>7, <2>8, <2>9, <2>10, <2>11, <2>12, <2>13
<1>12. CASE VectorIo
  BY <1>2, <1>12 DEF VectorIo, ParsedOps, PlainOps
<1>13. QED BY <1>7, <1>8, <1>9, <1>10, <1>11, <1>12 DEF Io

----------------------------------------------------------------------------
(* a parser has read as many bits as it has made members *)

WorkInv == /\ ChecksumInv
           /\ stage \in Nat \ {0}
           /\ stage = 1 => mode = "construct_binary"
           /\ mode = "parse_binary" => Working

LEMMA WorkIo ==
  ASSUME Working, mode = "parse_binary", Io
  PROVE  WorksOn
<1>1. ~thrown /\ todo # <<>> /\ IsSeq(made) /\ bitpos \in Nat /\ Parsing
  BY DEF Io, Working
<1>2. PICK a, b : Solvent(a, b)
  BY <1>1 DEF Working
<1>3. Affords(todo, a, b)
  BY <1>2 DEF Solvent
<1>4. AffordsNext(todo, a, b)
  BY <1>1, <1>3, AffordsFirst
<1>5. PICK m \in Purse : /\ Pays(Call, a, m)
                         /\ Affords(Tail(todo), m, b)
                         /\ todo = <<Call>> \o Tail(todo)
  BY <1>4 DEF AffordsNext, Call
<1>6. Turn(a, m, b)
  BY <1>1, <1>2, <1>5 DEF Turn, Solvent
<1>7. QED BY <1>5, <1>6, CallWorks

\* what is delivered is there up to the limit of the parser
LEMMA BitsDelivered ==
  ASSUME Built
  PROVE  AreBits(BitsUpTo(bitpos), BytesUpTo(bitpos) * ByteBits)
<1> DEFINE l == BytesUpTo(bitpos) * ByteBits
           bits == BitsUpTo(bitpos)
<1>1. /\ BufferEnd \in Nat /\ bitpos \in Nat /\ ByteBits \in Nat /\ ByteBits >= 1
      /\ DOMAIN data = 0..(BufferEnd - 1) /\ BufferBytes \in Nat
      /\ \A i \in 0..(BufferEnd - 1) : data[i] \in {0, 1}
  BY BufferSize, Widths, SizeAssumption DEF Built
<1>2. l \in Nat /\ l <= bitpos /\ l <= BufferEnd
  <2>1. CASE bitpos > BufferEnd
    <3>1. l = BufferEnd
      BY <2>1 DEF BytesUpTo, BufferEnd
    <3> HIDE DEF l
    <3>2. QED BY <1>1, <2>1, <3>1
  <2>2. CASE ~(bitpos > BufferEnd)
    <3>1. PICK q : q = bitpos \div ByteBits
      OBVIOUS
    <3>2. q \in Nat /\ q * ByteBits \in Nat /\ q * ByteBits <= bitpos
      BY <1>1, <3>1
    <3>3. l = q * ByteBits
      BY <2>2, <3>1 DEF BytesUpTo, BufferEnd
    <3> HIDE DEF l
    <3>4. QED BY <1>1, <2>2, <3>2, <3>3
  <2>3. QED BY <2>1, <2>2
<1> HIDE DEF l
<1>3. ASSUME NEW i \in 0..(l - 1) PROVE i \in DOMAIN bits /\ bits[i] \in {0, 1}
  <2>1. i \in 0..(BufferEnd - 1) /\ i \in 0..(bitpos - 1)
    BY <1>1, <1>2
  <2>2. i \in DOMAIN data \cap 0..(bitpos - 1) /\ data[i] \in {0, 1}
    BY <1>1, <2>1
  <2>3. i \in DOMAIN bits /\ bits[i] = data[i]
    BY <2>2 DEF BitsUpTo
  <2>4. QED BY <2>2, <2>3
<1> HIDE DEF bits
<1>4. AreBits(bits, l)
  BY <1>2, <1>3 DEF AreBits
<1>5. QED BY <1>4 DEF l, bits

\* as many of them, whichever of them have changed
LEMMA BitsDamaged ==
  ASSUME NEW bits, NEW l, AreBits(bits, l), NEW at, NEW burst
  PROVE  AreBits(Damaged(bits, at, burst), l)
<1>1. l \in Nat /\ \A i \in 0..(l - 1) : i \in DOMAIN bits /\ bits[i] \in {0, 1}
  BY DEF AreBits
<1>2. ASSUME NEW i \in 0..(l - 1)
      PROVE  /\ i \in DOMAIN Damaged(bits, at, burst)
             /\ Damaged(bits, at, burst)[i] \in {0, 1}
  <2>1. i \in DOMAIN bits /\ bits[i] \in {0, 1} /\ 1 - bits[i] \in {0, 1}
    BY <1>1
  <2>2. QED BY <2>1 DEF Damaged
<1>3. QED BY <1>1, <1>2 DEF AreBits

\* a parser begins with nothing made and nothing read
LEMMA ParserWorks ==
  ASSUME NEW bits, NEW size, AreBits(bits, size * ByteBits), ParseBinary(bits, size),
         given.layout \in DOMAIN Layout, made' = <<>>, todo' = Layout[given.layout]
  PROVE  Working'
<1>1. /\ bitpos' = 0 /\ bitlimit' = size * ByteBits /\ scope_stack' = <<>> /\ data' = bits
  BY DEF ParseBinary, I!ParseBinary
<1>2. bitlimit' \in Limits(data')
  BY <1>1 DEF AreBits, Limits
<1>3. Parsing'
  <2>1. scope_stack' \in Seq([bitpos_at_enter : Nat, bitlimit_at_enter : Limits(data')])
    BY <1>1
  <2>2. QED BY <1>2, <2>1 DEF Parsing, Limits
<1>4. IsSeq(made') /\ Len(made') = 0
  <2>1. Len(<<>>) = 0 /\ <<>> \in Seq({})
    OBVIOUS
  <2>2. IsSeq(<<>>)
    BY InTurn
  <2>3. QED BY <2>1, <2>2 DEF IsSeq
<1>5. PICK b : Affords(Layout[given.layout], Left(0), b)
  BY LayoutsAfford
<1>6. PICK a : a = Left(0)
  OBVIOUS
<1>7. a \in Purse /\ a.funds = 0 /\ ~a.number /\ Affords(todo', a, b)
  BY <1>5, <1>6, Lefts
<1>8. Solvent(a, b)'
  <2>1. Len(made') + a.funds <= bitpos'
    BY <1>1, <1>4, <1>7
  <2>2. QED BY <1>7, <2>1 DEF Solvent
<1>9. QED BY <1>1, <1>3, <1>4, <1>8 DEF Working

LEMMA WorkStep ==
  ASSUME WorkInv, [Next]_vars
  PROVE  WorkInv'
<1>1. ChecksumInv'
  BY ChecksumStep DEF WorkInv
<1>2. CASE Io
  <2>1. mode' = mode /\ stage' = stage
    BY <1>2, SameMode DEF Io
  <2>2. CASE mode = "parse_binary"
    BY <1>1, <1>2, <2>1, <2>2, WorkIo DEF WorkInv, WorksOn
  <2>3. CASE mode # "parse_binary"
    BY <1>1, <2>1, <2>3 DEF WorkInv
  <2>4. QED BY <2>2, <2>3
<1>3. CASE Deliver
  <2>1. /\ stage = 1 /\ stage' = 2 /\ mode = "construct_binary" /\ made' = <<>>
        /\ todo' = Layout[given.layout] /\ (Done \/ Overlong)
    BY <1>3 DEF Deliver, Again, WorkInv
  <2>2. Built
    BY <2>1 DEF WorkInv, ChecksumInv, Done, Overlong, WithSection
  <2>3. given.layout \in DOMAIN Layout
    BY LayoutAssumption DEF WorkInv, ChecksumInv
  <2>4. PICK size : size = BytesUpTo(bitpos)
    OBVIOUS
  <2>5. PICK bits : AreBits(bits, size * ByteBits) /\ ParseBinary(bits, size)
    <3>1. message' = BitsUpTo(bitpos)
      BY <1>3 DEF Deliver
    <3>2. AreBits(message', size * ByteBits)
      BY <2>2, <2>4, <3>1, BitsDelivered
    <3>3. \/ ParseBinary(message', size)
          \/ \E at, burst : ParseBinary(Damaged(message', at, burst), size)
      BY <1>3, <2>4 DEF Deliver
    <3>4. CASE ParseBinary(message', size)
      BY <3>2, <3>4
    <3>5. CASE \E at, burst : ParseBinary(Damaged(message', at, burst), size)
      <4>1. PICK at, burst : ParseBinary(Damaged(message', at, burst), size)
        BY <3>5
      <4>2. AreBits(Damaged(message', at, burst), size * ByteBits)
        BY <3>2, BitsDamaged
      <4>3. QED BY <4>1, <4>2
    <3>6. QED BY <3>3, <3>4, <3>5
  <2>6. Working'
    BY <2>1, <2>3, <2>5, ParserWorks
  <2>7. QED BY <1>1, <2>1, <2>6 DEF WorkInv
<1>4. CASE WriteText \/ ReadText \/ Rebuild
  <2>1. mode' # "parse_binary"
    BY <1>4 DEF WriteText, ReadText, Rebuild, ConstructText, ParseText, ConstructBinary
  <2>2. stage' = stage + 1
    BY <1>4 DEF WriteText, ReadText, Rebuild, Again
  <2>3. stage' \in Nat \ {0} /\ stage' # 1
    BY <2>2 DEF WorkInv
  <2>4. QED BY <1>1, <2>1, <2>3 DEF WorkInv
<1>5. CASE UNCHANGED vars
  <2>1. /\ UNCHANGED <<mode, stage, made, bitpos, thrown, bitlimit, scope_stack, data, todo>>
    BY <1>5 DEF vars, common, iox, structure
  <2>2. Working => Working'
    BY <2>1 DEF Working, Solvent, Parsing, Limits, Known
  <2>3. QED BY <1>1, <2>1, <2>2 DEF WorkInv
<1>6. QED BY <1>2, <1>3, <1>4, <1>5 DEF Next

\* vector_io reads items while any bits are left: also on a damaged message, of
\* any structure and with whatever lengths it says, a parser comes to an end,
\* for all it ever has made, the tests of its loops included, is no more than
\* the bits it has read
THEOREM WorkAlwaysBounded == Spec => []WorkIsBounded
<1>1. Init => WorkInv
  BY ChecksumInit DEF Init, WorkInv
<1>2. WorkInv => WorkIsBounded
  BY DEF WorkInv, Working, WorkIsBounded
<1>3. Spec => []WorkInv
  BY <1>1, WorkStep, PTL DEF Spec
<1>4. QED BY <1>2, <1>3, PTL

----------------------------------------------------------------------------
(* a section that is received *)

\* which call it is the turn of, and, after the checksum, what there is then
AtReceived == \/ Led(todo, NetworkInformationSection)
              \/ Led(todo, SectionClose) /\ nit_begin \in Nat /\ nit_begin <= bitpos
              \/ todo \in {AfterSum, AfterEnd, AfterFix, <<>>} /\ Divides
              \/ given.layout \notin WithSection /\ Led(todo, <<>>)

ReceiveInv == /\ WorkInv
              /\ mode = "parse_binary" /\ ~thrown => AtReceived

\* a checksum that is the one of the bytes before it is that of these bits
LEMMA SumReceived ==
  ASSUME mode = "parse_binary", bitpos \in Nat, Parsing, Io, todo = SectionClose,
         nit_begin \in Nat, nit_begin <= bitpos
  PROVE  todo' = AfterSum /\ (~thrown' => Divides')
<1>1. Call.op = "crc_io"
  BY InTurn DEF Call
<1>2. CrcCall
  BY <1>1 DEF Io, UintCall, UintReqCall, BlockBeginCall, BlockEndCall, VectorIo, TagCall,
              DescriptorFactory, StringCall, DataCall, NitBegin, CrcLateFix, SectionLengthTest
<1>3. todo' = AfterSum
  BY <1>2, InTurn, NothingThen DEF CrcCall
<1>4. ASSUME ~thrown' PROVE Divides'
  <2> DEFINE f == [i \in 1..RegisterBits |-> data[bitpos + i - 1]]
             c == SumOf(data, nit_begin, bitpos)
             all == ((bitpos + RegisterBits) - nit_begin) \div ByteBits
  <2>1. /\ Aligned(nit_begin) /\ Aligned(bitpos) /\ CheckCrc(nit_begin)
        /\ nit_begin' = nit_begin
    BY <1>2, <1>4 DEF CrcCall, crc_io, Throw
  <2>2. /\ I!Read(RegisterBits, RegisterBits, NumberOf(f)) /\ data' = data
        /\ NumberOf(f) = NumberOf(Sum(nit_begin, bitpos))
    BY <1>4, <2>1 DEF CheckCrc, I!RefuseRead
  <2>3. /\ RegisterBits \in Nat /\ RegisterBits = 4 * ByteBits /\ ByteBits \in Nat
        /\ RegisterBits \in 0..RegisterBits
    BY Widths
  <2>4. bitpos + RegisterBits <= bitlimit /\ bitpos' = bitpos + RegisterBits
    <3>1. ~I!Spans(bitpos, RegisterBits)
      BY <2>1, <2>3 DEF I!Spans, Aligned
    <3> HIDE DEF f
    <3>2. QED BY <2>2, <3>1 DEF I!Read, I!Readable
  <2>5. AreBits(data, bitlimit) /\ bitlimit \in Nat /\ bitpos <= bitlimit
    BY <2>3, <2>4 DEF Parsing, Limits
  <2>6. f \in [1..RegisterBits -> {0, 1}]
    <3>1. ASSUME NEW i \in 1..RegisterBits PROVE data[bitpos + i - 1] \in {0, 1}
      <4>1. PICK k : k = bitpos + i - 1
        OBVIOUS
      <4>2. k \in 0..(bitlimit - 1)
        BY <2>3, <2>4, <2>5, <4>1
      <4>3. QED BY <2>5, <4>1, <4>2 DEF AreBits
    <3>2. QED BY <3>1
  <2>7. c \in [1..RegisterBits -> {0, 1}]
    <3>1. c \in Registers
      BY <2>1, <2>5, SumIsRegister
    <3>2. QED BY <3>1 DEF Registers
  <2>8. NumberOf(f) = NumberOf(c)
    BY <2>2 DEF Sum, SumOf, BytesAt, BytesOf
  <2>9. \A i \in 1..RegisterBits : data[bitpos + i - 1] = c[i]
    <3>1. \A i \in 1..RegisterBits : f[i] = data[bitpos + i - 1]
      OBVIOUS
    <3> HIDE DEF f, c
    <3>2. BitsOf(NumberOf(f), RegisterBits) = f /\ BitsOf(NumberOf(c), RegisterBits) = c
      BY <2>3, <2>6, <2>7, SpelledBits
    <3>3. f = c
      BY <2>8, <3>2
    <3>4. QED BY <3>1, <3>3
  <2>10. Remainder(BytesOf(data, nit_begin, all)) = Zeros
    <3> HIDE DEF f
    <3>1. QED BY <2>1, <2>4, <2>5, <2>9, SumDivides
  <2>11. BytesAt(nit_begin, (bitpos - nit_begin) \div ByteBits)'
           = BytesOf(data', nit_begin', (bitpos' - nit_begin') \div ByteBits)
    BY DEF BytesAt, BytesOf
  <2>12. (bitpos' - nit_begin') \div ByteBits = all
    <3> DEFINE Whole(from, to) == (to - from) \div ByteBits
    <3> HIDE DEF Whole
    <3>1. Whole(nit_begin', bitpos') = Whole(nit_begin, bitpos + RegisterBits)
      BY <2>1, <2>4
    <3>2. QED BY <3>1 DEF Whole
  <2> HIDE DEF f, c, all
  <2>13. Remainder(BytesOf(data', nit_begin', (bitpos' - nit_begin') \div ByteBits)) = Zeros
    BY <2>1, <2>2, <2>10, <2>12
  <2>14. QED BY <2>11, <2>13 DEF Divides
<1>5. QED BY <1>3, <1>4

\* what follows it changes nothing of that
LEMMA AfterReceived ==
  ASSUME mode = "parse_binary", Io, todo \in {AfterSum, AfterEnd, AfterFix}, Divides
  PROVE  /\ todo' \in {AfterEnd, AfterFix, <<>>}
         /\ ~thrown' => Divides'
<1>1. ASSUME nit_begin' = nit_begin, bitpos' = bitpos, data' = data PROVE Divides'
  BY <1>1 DEF Divides, BytesAt
<1>2. UNCHANGED common => bitpos' = bitpos /\ data' = data
  BY DEF common, iox
<1>3. CASE todo = AfterSum
  <2>1. Call.op = "named_block_end"
    BY <1>3, InTurn DEF Call
  <2>2. BlockEndCall
    BY <2>1 DEF Io, UintCall, UintReqCall, BlockBeginCall, NitBegin, VectorIo, TagCall,
                DescriptorFactory, StringCall, DataCall, CrcCall, CrcLateFix, SectionLengthTest
  <2>3. todo' = AfterEnd
    BY <1>3, <2>2, InTurn, NothingThen DEF BlockEndCall
  <2>4. nit_begin' = nit_begin /\ NamedBlockEnd
    BY <2>2 DEF BlockEndCall
  <2>5. I!NamedBlockEnd
    BY <2>4 DEF NamedBlockEnd, Dispatch
  <2>6. bitpos' = bitpos /\ data' = data
    BY <2>5 DEF I!NamedBlockEnd, I!EndBlock, I!RefuseEnd
  <2>7. QED BY <1>1, <2>3, <2>4, <2>6
<1>4. CASE todo = AfterEnd
  <2>1. Call.op = "crc_late_fix"
    BY <1>4, InTurn DEF Call
  <2>2. CrcLateFix
    BY <2>1 DEF Io, UintCall, UintReqCall, BlockBeginCall, BlockEndCall, NitBegin, VectorIo,
                TagCall, DescriptorFactory, StringCall, DataCall, CrcCall, SectionLengthTest
  <2>3. todo' = AfterFix
    BY <1>4, <2>2, InTurn, NothingThen DEF CrcLateFix
  <2>4. nit_begin' = nit_begin /\ (Throw \/ UNCHANGED common)
    BY <2>2 DEF CrcLateFix, crc_late_fix, Locals
  <2>5. bitpos' = bitpos /\ data' = data
    BY <1>2, <2>4 DEF Throw
  <2>6. QED BY <1>1, <2>3, <2>4, <2>5
<1>5. CASE todo = AfterFix
  BY <1>5, TestStep
<1>6. QED BY <1>3, <1>4, <1>5

LEMMA ReceivedIo ==
  ASSUME Working, mode = "parse_binary", Io, AtReceived, ~thrown'
  PROVE  AtReceived'
<1>1. ~thrown /\ todo # <<>> /\ given' = given /\ bitpos \in Nat /\ Parsing
  BY DEF Io, Working
<1>2. CASE Led(todo, NetworkInformationSection)
  <2>1. CASE todo = NetworkInformationSection
    BY <1>1, <2>1, BeginStep DEF AtReceived
  <2>2. CASE todo # NetworkInformationSection
    <3>1. Led(todo', NetworkInformationSection)
      BY <1>2, <2>2, InTurn, LedGoesOn
    <3>2. QED BY <3>1 DEF AtReceived
  <2>3. QED BY <2>1, <2>2
<1>3. CASE Led(todo, SectionClose) /\ nit_begin \in Nat /\ nit_begin <= bitpos
  <2>1. CASE todo = SectionClose
    <3>1. todo' = AfterSum /\ Divides'
      BY <1>1, <1>3, <2>1, SumReceived
    <3>2. QED BY <3>1 DEF AtReceived
  <2>2. CASE todo # SectionClose
    <3>1. Led(todo', SectionClose) /\ nit_begin' = nit_begin
      BY <1>3, <2>2, InTurn, LedGoesOn
    <3>2. bitpos <= bitpos' /\ bitpos' \in Nat
      BY WorkIo DEF WorksOn, Working
    <3>3. nit_begin' \in Nat /\ nit_begin' <= bitpos'
      BY <1>1, <1>3, <3>1, <3>2
    <3>4. QED BY <3>1, <3>3 DEF AtReceived
  <2>3. QED BY <2>1, <2>2
<1>4. CASE todo \in {AfterSum, AfterEnd, AfterFix, <<>>} /\ Divides
  <2>1. todo' \in {AfterEnd, AfterFix, <<>>} /\ Divides'
    BY <1>1, <1>4, AfterReceived
  <2>2. QED BY <2>1 DEF AtReceived
<1>5. CASE given.layout \notin WithSection /\ Led(todo, <<>>)
  <2>1. Led(todo', <<>>)
    BY <1>1, <1>5, InTurn, LedGoesOn
  <2>2. QED BY <1>1, <1>5, <2>1 DEF AtReceived
<1>6. QED BY <1>2, <1>3, <1>4, <1>5 DEF AtReceived

LEMMA ReceiveStep ==
  ASSUME ReceiveInv, [Next]_vars
  PROVE  ReceiveInv'
<1>1. WorkInv /\ WorkInv'
  BY WorkStep DEF ReceiveInv
<1>2. SUFFICES ASSUME mode' = "parse_binary", ~thrown' PROVE AtReceived'
  BY <1>1 DEF ReceiveInv
<1>3. CASE Io
  <2>1. mode = "parse_binary" /\ ~thrown
    BY <1>2, <1>3, SameMode DEF Io
  <2>2. Working /\ AtReceived
    BY <1>1, <2>1 DEF WorkInv, ReceiveInv
  <2>3. QED BY <1>2, <1>3, <2>1, <2>2, ReceivedIo
<1>4. CASE Deliver
  <2>1. todo' = Layout[given.layout] /\ given' = given
    BY <1>4 DEF Deliver, Again
  <2>2. given.layout \in DOMAIN Layout
    BY <1>1, LayoutAssumption DEF WorkInv, ChecksumInv
  <2>3. /\ given.layout \in WithSection => Led(Layout[given.layout], NetworkInformationSection)
        /\ given.layout \notin WithSection => Led(Layout[given.layout], <<>>)
    BY <2>2, LayoutsLead
  <2>4. QED BY <2>1, <2>3 DEF AtReceived
<1>5. CASE WriteText \/ ReadText \/ Rebuild
  BY <1>2, <1>5 DEF WriteText, ReadText, Rebuild, ConstructText, ParseText, ConstructBinary
<1>6. CASE UNCHANGED vars
  <2>1. UNCHANGED <<mode, thrown, todo, nit_begin, bitpos, data, given>>
    BY <1>6 DEF vars, common, iox, structure
  <2>2. AtReceived
    BY <1>2, <2>1 DEF ReceiveInv
  <2>3. QED BY <2>1, <2>2 DEF AtReceived, Divides, BytesAt
<1>7. QED BY <1>3, <1>4, <1>5, <1>6 DEF Next

LEMMA ReceivedDivides == ReceiveInv => SectionDivides
<1> SUFFICES ASSUME ReceiveInv, IsBinary, given.layout \in Sections, Done \/ Overlong
             PROVE  Divides
  BY DEF SectionDivides, Divides
<1>1. CASE mode = "construct_binary"
  <2>1. given.layout \in WithSection /\ todo = <<>>
    BY DEF Done, Overlong, WithSection
  <2>2. QED BY <1>1, <2>1 DEF ReceiveInv, WorkInv, ChecksumInv
<1>2. CASE mode = "parse_binary"
  <2>1. ~thrown /\ todo = <<>> /\ given.layout \in WithSection
    BY <1>2 DEF Done, Overlong, WithSection
  <2>2. AtReceived
    BY <1>2, <2>1 DEF ReceiveInv
  <2>3. ~Led(todo, NetworkInformationSection) /\ ~Led(todo, SectionClose)
    BY <2>1, InTurn, LedNotEmpty
  <2>4. QED BY <2>1, <2>2, <2>3 DEF AtReceived
<1>3. QED BY <1>1, <1>2 DEF IsBinary

\* The checksum covers the section as it is sent, its length included, though
\* that is written after the checksum first was: whatever the section holds,
\* and whatever was written before it, long division of it leaves nothing.  And
\* whichever bits of the message have changed, and wherever that led the
\* parser, no section is accepted but one that divides as well
THEOREM SectionsDivide == Spec => []SectionDivides
<1>1. Init => ReceiveInv
  BY ChecksumInit DEF Init, ReceiveInv, WorkInv
<1>2. Spec => []ReceiveInv
  BY <1>1, ReceiveStep, PTL DEF Spec
<1>3. QED BY <1>2, ReceivedDivides, PTL
=============================================================================
