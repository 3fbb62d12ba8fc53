--------------------------- MODULE PsiLinkProofs ---------------------------
(* What the packetizer and the extractor promise together, for packets of    *)
(* every size and sections of every content.                                 *)
EXTENDS PsiLink, SequenceTheorems, FiniteSetTheorems, TLAPS

\* No packet goes out without room for the payload: MCPsiLinkAdaptationOnly
\* shows what happens otherwise
RoomForPayload == \A n \in AdaLens : n <= PayloadLen - 2

\* fewer packets are hit than the counter counts
FewDamaged == MaxDamage < CCMod

\* sections tell each other apart by their first byte
Numbered == \A k \in 1..MaxSections : \A s \in SectionsAt[k] : s[1] = k

----------------------------------------------------------------------------
(* the invariant *)

\* f[lo..hi] are the bytes of the stream F after "from" up to "to", and then
\* stuffing, which only the end of a section is followed by
Reads(F, B, f, lo, hi, from, to) ==
  /\ from <= to
  /\ lo + (to - from) <= hi + 1
  /\ \A i \in lo..hi : f[i] = IF i - lo < to - from THEN F[from + 1 + (i - lo)]
                              ELSE StuffByte
  /\ lo + (to - from) <= hi => \E k \in 1..Len(B) : B[k] = to

\* section m is the first to start after "from", "pointer" bytes later
Points(B, pointer, from, m) == /\ B[m] = from + pointer
                               /\ \A k \in 1..Len(B) : k < m => B[k] < from

\* a packet with an adaptation field of "field" bytes carries from..to
Holds(F, B, body, start, field, end, from, to) ==
  /\ from < to
  /\ field > 0 => body[1] = field - 1
  /\ start => /\ Reads(F, B, body, field + 2, end, from, to)
              /\ \E m \in 1..Len(B) : Points(B, body[field + 1], from, m) /\ B[m] < to
  /\ ~start => /\ Reads(F, B, body, field + 1, end, from, to)
               /\ \A k \in 1..Len(B) : B[k] < from \/ to <= B[k]

Complete(F, B, pkt, number, from, to) ==
  /\ pkt.cc = (number - 1) % CCMod
  /\ \E field \in 0..PayloadLen :
       /\ pkt.afc = IF field = 0 THEN AFC_PAYLOAD ELSE AFC_ADAPTATION_AND_PAYLOAD
       /\ Holds(F, B, pkt.body, pkt.pusi, field, PayloadLen, from, to)

StreamInv ==
  /\ stream \in Seq(Byte)
  /\ submitted \in Seq(Seq(Byte))
  /\ bounds \in Seq(Nat)
  /\ Len(bounds) = Len(submitted) + 1
  /\ bounds[1] = 0
  /\ bounds[Len(bounds)] = Len(stream)
  /\ \A k \in 1..Len(submitted) :
       /\ WellFormed(submitted[k])
       /\ bounds[k + 1] = bounds[k] + Len(submitted[k])
       /\ \A i \in 1..Len(submitted[k]) : submitted[k][i] = stream[bounds[k] + i]
  /\ \A j, k \in 1..Len(bounds) : j < k => bounds[j] < bounds[k]

PacketsInv ==
  /\ sent \in Seq(Nat)
  /\ Len(sent) >= 1
  /\ sent[1] = 0
  /\ sent[Len(sent)] <= Len(stream)
  /\ \A p, q \in 1..Len(sent) : p < q => sent[p] < sent[q]

Written == Len(stream) - Len(rest)
LastSent == sent[Len(sent)]

SenderInv ==
  /\ payload_start \in Nat
  /\ payload_end \in Nat
  /\ ts_packet \in [1..PayloadLen -> Byte]
  /\ pusi \in BOOLEAN
  /\ pid = 0
  /\ wrote_section_start \in BOOLEAN
  /\ sender_cc = produced % CCMod
  /\ rest \in Seq(Byte)
  /\ Len(rest) <= Len(stream)
  /\ \A i \in 1..Len(rest) : rest[i] = stream[Written + i]
  /\ sender_pc \in {"idle", "more"}
  /\ sender_pc = "idle" => rest = <<>> /\ ~wrote_section_start
  /\ sender_pc = "more" => /\ ~S!Open
                           /\ rest # <<>>
                           /\ submitted # <<>>
                           /\ bounds[Len(submitted)] <= Written
                           /\ wrote_section_start <=> bounds[Len(submitted)] < Written
  /\ ~S!Open => ~pusi /\ LastSent = Written
  /\ S!Open =>
       /\ HeaderLen <= payload_start
       /\ payload_end < TSPacketLen
       /\ payload_end = payload_start + (IF pusi THEN 1 ELSE 0) + (Len(stream) - LastSent)
       /\ Holds(stream, bounds, ts_packet, pusi, payload_start - HeaderLen,
                payload_end - HeaderLen, LastSent, Len(stream))

Pkt == [pusi : BOOLEAN, afc : 0..3, cc : CC, pid : {0}, body : [1..PayloadLen -> Byte]]

ChannelInv ==
  /\ wire \in Seq(Pkt)
  /\ Len(wire) <= produced
  /\ \A i \in 1..Len(wire) :
       Complete(stream, bounds, wire[i], gone + i, sent[gone + i], sent[gone + i + 1])
  /\ lost \subseteq 1..gone
  /\ repeated \subseteq 1..(gone + 1)
  /\ repeated \subseteq 1..produced
  /\ Cardinality(damaged) <= MaxDamage

Received(k) == \E j \in 1..Len(received) : received[j] = submitted[k]

\* the extractor has used packet u last and is in section m of the stream
At(u, m) ==
  /\ u <= produced
  /\ u > gone => u \in repeated
  /\ cc = (u - 1) % CCMod
  /\ (u + 1)..gone \subseteq lost
  /\ Reads(stream, bounds, data, sec_p + 1, Len(data), bounds[m], sent[u + 1])
  /\ sec_p < Len(data)
  /\ pc = "idle" => /\ Len(data) = sent[u + 1] - bounds[m]
                    /\ m <= Len(submitted)
                    /\ sent[u + 1] < bounds[m + 1]
  /\ \/ received = <<>>
     \/ \E j \in 1..(m - 1) : received[Len(received)] = submitted[j]
     \/ \E p \in repeated : StartsIn(m, p)
  /\ damaged = {} => u = gone /\ Len(received) = m - 1
  /\ \A k \in 1..Len(submitted) :
       bounds[k] < sent[gone + 1] /\ ~Harmed(k)
       => Received(k) \/ (m <= k /\ (u >= gone \/ bounds[k + 1] <= sent[u + 1]))

ReceiverInv ==
  /\ data \in Seq(Byte)
  /\ sec_p \in Nat
  /\ sec_p <= Len(data)
  /\ pc \in {"idle", "more_sections"}
  /\ state \in {"wait_start", "wait_more"}
  /\ pc = "idle" => sec_p = 0
  /\ submitted # <<>> \/ pc = "more_sections" => callback
  /\ X!InStep => \E u \in 1..(gone + 1), m \in 1..Len(bounds) : At(u, m)
  /\ ~X!InStep =>
       /\ damaged = {} => /\ Len(received) <= Len(submitted)
                          /\ bounds[Len(received) + 1] = sent[gone + 1]
       /\ \A k \in 1..Len(submitted) :
            bounds[k] < sent[gone + 1] /\ ~Harmed(k) => Received(k)

ReceivedInv ==
  /\ received \in Seq(Seq(Byte))
  /\ NothingForged
  /\ damaged = {} => /\ Len(received) <= Len(submitted)
                     /\ \A j \in 1..Len(received) : received[j] = submitted[j]
  /\ received # <<>> =>
       \E k \in 1..Len(submitted) :
         /\ received[Len(received)] = submitted[k]
         /\ \/ bounds[k + 1] <= sent[gone + 1]
            \/ gone + 1 \in repeated /\ bounds[k + 1] <= sent[gone + 2]

LinkInv == StreamInv /\ PacketsInv /\ SenderInv /\ ChannelInv /\ ReceiverInv /\ ReceivedInv

----------------------------------------------------------------------------
(* sizes, counters *)

\* what is left of a stretch that n more fit in
LEMMA MovedOver ==
  ASSUME NEW x \in Nat, NEW n \in Nat, NEW z \in Nat, x + n <= z
  PROVE  n <= z - x
OBVIOUS

\* numbers that rise do not come back to where they began
LEMMA Rising ==
  ASSUME NEW x \in Nat, NEW y \in Nat, NEW z \in Nat, x < y, y <= z, z <= x
  PROVE  FALSE
OBVIOUS

LEMMA PacketSizes == /\ TSPacketLen \in Nat /\ TSPacketLen <= 255
                     /\ PayloadLen = TSPacketLen - 4 /\ PayloadLen >= 3
                     /\ PayloadLen \in Nat /\ HeaderLen = 4
                     /\ CCMod \in Nat /\ CCMod >= 2
                     /\ StuffByte = 255 /\ AFC_PAYLOAD = 1 /\ AFC_ADAPTATION = 2
                     /\ AFC_ADAPTATION_AND_PAYLOAD = 3
BY TSAssumption DEF PayloadLen, HeaderLen, StuffByte, AFC_PAYLOAD, AFC_ADAPTATION,
                    AFC_ADAPTATION_AND_PAYLOAD

LEMMA SenderNames ==
  /\ S!PayloadLen = PayloadLen /\ S!HeaderLen = HeaderLen /\ S!StuffByte = StuffByte
  /\ S!AFC_PAYLOAD = AFC_PAYLOAD
  /\ S!AFC_ADAPTATION_AND_PAYLOAD = AFC_ADAPTATION_AND_PAYLOAD
  /\ \A c : S!NextCC(c) = NextCC(c)
BY DEF PayloadLen, HeaderLen, StuffByte, AFC_PAYLOAD, AFC_ADAPTATION_AND_PAYLOAD, NextCC,
       S!PayloadLen, S!HeaderLen, S!StuffByte, S!AFC_PAYLOAD,
       S!AFC_ADAPTATION_AND_PAYLOAD, S!NextCC

LEMMA ReceiverNames ==
  /\ X!PayloadLen = PayloadLen /\ X!HeaderLen = HeaderLen /\ X!StuffByte = StuffByte
  /\ X!AFC_PAYLOAD = AFC_PAYLOAD /\ X!AFC_ADAPTATION = AFC_ADAPTATION
  /\ X!AFC_ADAPTATION_AND_PAYLOAD = AFC_ADAPTATION_AND_PAYLOAD
  /\ \A c : X!NextCC(c) = NextCC(c)
  /\ \A s : X!SectionSize(s) = SectionSize(s)
BY DEF PayloadLen, HeaderLen, StuffByte, AFC_PAYLOAD, AFC_ADAPTATION,
       AFC_ADAPTATION_AND_PAYLOAD, NextCC, SectionSize, SizeAnnounced,
       X!PayloadLen, X!HeaderLen, X!StuffByte, X!AFC_PAYLOAD, X!AFC_ADAPTATION,
       X!AFC_ADAPTATION_AND_PAYLOAD, X!NextCC, X!SectionSize, X!SizeAnnounced

LEMMA Remainder ==
  ASSUME NEW M \in Nat, M >= 1, NEW n \in Int, NEW q \in Int, NEW r \in Int,
         n = M * q + r, 0 <= r, r < M
  PROVE  n % M = r
<1> DEFINE p == n \div M
           d == q - p
<1>1. p \in Int /\ (n % M) \in Int /\ 0 <= (n % M) /\ (n % M) < M /\ n = M * p + (n % M)
  OBVIOUS
<1>2. M * d = (n % M) - r
  BY <1>1
<1>3. d \in Int
  BY <1>1
<1> HIDE DEF p, d
<1>4. d >= 1 => M * d >= M
  BY <1>3
<1>5. d <= -1 => M * d <= -M
  BY <1>3
<1>6. d = 0
  BY <1>1, <1>2, <1>3, <1>4, <1>5
<1>7. QED BY <1>1, <1>2, <1>6

LEMMA Quotient ==
  ASSUME NEW M \in Nat, M >= 1, NEW n \in Int
  PROVE  /\ n \div M \in Int
         /\ n % M \in 0..(M - 1)
         /\ n = M * (n \div M) + (n % M)
OBVIOUS

\* the counter of the packet after number n
LEMMA NextCounter ==
  ASSUME NEW n \in Int
  PROVE  /\ n % CCMod \in CC
         /\ NextCC(n % CCMod) = (n + 1) % CCMod
<1> DEFINE M == CCMod
<1>1. M \in Nat /\ M >= 2
  BY PacketSizes
<1> DEFINE q == n \div M
           r == n % M
<1>2. q \in Int /\ r \in 0..(M - 1) /\ n = M * q + r
  BY <1>1, Quotient
<1> HIDE DEF M, q, r
<1>3. (r + 1) % M = (n + 1) % M
  <2>1. CASE r + 1 < M
    <3>1. (n + 1) % M = r + 1
      <4> DEFINE x == n + 1
                 y == q
                 z == r + 1
      <4>1. x \in Int /\ y \in Int /\ z \in Int /\ 0 <= z /\ z < M /\ x = M * y + z
        BY <1>1, <1>2, <2>1
      <4> HIDE DEF x, y, z
      <4>2. x % M = z
        BY <1>1, <4>1, Remainder
      <4>3. QED BY <4>2 DEF x, y, z
    <3>2. (r + 1) % M = r + 1
      <4> DEFINE x == r + 1
                 y == 0
                 z == r + 1
      <4>1. x \in Int /\ y \in Int /\ z \in Int /\ 0 <= z /\ z < M /\ x = M * y + z
        BY <1>1, <1>2, <2>1
      <4> HIDE DEF x, y, z
      <4>2. x % M = z
        BY <1>1, <4>1, Remainder
      <4>3. QED BY <4>2 DEF x, y, z
    <3>3. QED BY <3>1, <3>2
  <2>2. CASE r + 1 = M
    <3>1. (n + 1) % M = 0
      <4> DEFINE x == n + 1
                 y == q + 1
                 z == 0
      <4>1. x \in Int /\ y \in Int /\ z \in Int /\ 0 <= z /\ z < M /\ x = M * y + z
        BY <1>1, <1>2, <2>2
      <4> HIDE DEF x, y, z
      <4>2. x % M = z
        BY <1>1, <4>1, Remainder
      <4>3. QED BY <4>2 DEF x, y, z
    <3>2. (r + 1) % M = 0
      <4> DEFINE x == r + 1
                 y == 1
                 z == 0
      <4>1. x \in Int /\ y \in Int /\ z \in Int /\ 0 <= z /\ z < M /\ x = M * y + z
        BY <1>1, <1>2, <2>2
      <4> HIDE DEF x, y, z
      <4>2. x % M = z
        BY <1>1, <4>1, Remainder
      <4>3. QED BY <4>2 DEF x, y, z
    <3>3. QED BY <3>1, <3>2
  <2>3. QED BY <1>1, <1>2, <2>1, <2>2
<1>4. QED BY <1>1, <1>2, <1>3 DEF NextCC, CC, M, r

\* fewer than CCMod packets apart, the counters of two packets differ
LEMMA CountersDiffer ==
  ASSUME NEW a \in Int, NEW b \in Int, a % CCMod = b % CCMod,
         a - b < CCMod, b - a < CCMod
  PROVE  a = b
<1> DEFINE M == CCMod
           p == a \div M
           q == b \div M
<1>1. M \in Nat /\ M >= 2
  BY PacketSizes
<1>2. p \in Int /\ q \in Int /\ M * p - M * q = a - b
  BY <1>1, Quotient
<1>3. a - b < M /\ b - a < M
  OBVIOUS
<1> HIDE DEF M, p, q
<1>4. M * (p - q) = a - b
  BY <1>1, <1>2
<1>5. p - q >= 1 => M * (p - q) >= M
  BY <1>1, <1>2
<1>6. p - q <= -1 => M * (p - q) <= -M
  BY <1>1, <1>2
<1>7. p - q = 0
  BY <1>1, <1>2, <1>3, <1>4, <1>5, <1>6
<1>8. QED BY <1>1, <1>4, <1>7

----------------------------------------------------------------------------
(* bytes of the stream *)

\* more is submitted
Grown(F, B, F2, B2) ==
  /\ Len(F) <= Len(F2)
  /\ \A i \in 1..Len(F) : F2[i] = F[i]
  /\ Len(B) <= Len(B2)
  /\ \A k \in 1..Len(B) : B2[k] = B[k]
  /\ \A k \in 1..Len(B2) : Len(B) < k => Len(F) <= B2[k]

LEMMA GrownBounds ==
  ASSUME NEW F, NEW B \in Seq(Nat), NEW F2, NEW B2 \in Seq(Nat), Grown(F, B, F2, B2)
  PROVE  \A k \in 1..Len(B) : k \in 1..Len(B2) /\ B2[k] = B[k]
<1>1. Len(B) \in Nat /\ Len(B2) \in Nat /\ Len(B) <= Len(B2)
  BY LenProperties DEF Grown
<1>2. QED BY <1>1 DEF Grown

LEMMA ReadsGrown ==
  ASSUME NEW F \in Seq(Byte), NEW B \in Seq(Nat), NEW F2 \in Seq(Byte), NEW B2 \in Seq(Nat),
         Grown(F, B, F2, B2), NEW f, NEW lo \in Int, NEW hi \in Int,
         NEW from \in Nat, NEW to \in Nat, to <= Len(F),
         Reads(F, B, f, lo, hi, from, to)
  PROVE  Reads(F2, B2, f, lo, hi, from, to)
<1>1. /\ Len(F) \in Nat /\ Len(F2) \in Nat /\ Len(B) \in Nat /\ Len(B2) \in Nat
  BY LenProperties
<1>2. ASSUME NEW i \in lo..hi
      PROVE  f[i] = IF i - lo < to - from THEN F2[from + 1 + (i - lo)] ELSE StuffByte
  <2>1. CASE i - lo < to - from
    <3>1. from + 1 + (i - lo) \in 1..Len(F)
      BY <1>1, <2>1
    <3>2. F2[from + 1 + (i - lo)] = F[from + 1 + (i - lo)]
      BY <3>1 DEF Grown
    <3>3. QED BY <2>1, <3>2 DEF Reads
  <2>2. CASE ~(i - lo < to - from)
    BY <2>2 DEF Reads
  <2>3. QED BY <2>1, <2>2
<1>3. ASSUME lo + (to - from) <= hi PROVE \E k \in 1..Len(B2) : B2[k] = to
  <2>1. PICK k \in 1..Len(B) : B[k] = to
    BY <1>3 DEF Reads
  <2>2. k \in 1..Len(B2) /\ B2[k] = B[k]
    BY <1>1, GrownBounds
  <2>3. QED BY <2>1, <2>2
<1>4. QED BY <1>2, <1>3 DEF Reads

LEMMA HoldsGrown ==
  ASSUME NEW F \in Seq(Byte), NEW B \in Seq(Nat), NEW F2 \in Seq(Byte), NEW B2 \in Seq(Nat),
         Grown(F, B, F2, B2), NEW body, NEW start \in BOOLEAN, NEW field \in Nat,
         NEW end \in Int, NEW from \in Nat, NEW to \in Nat, to <= Len(F),
         Holds(F, B, body, start, field, end, from, to)
  PROVE  Holds(F2, B2, body, start, field, end, from, to)
<1>1. /\ Len(F) \in Nat /\ Len(F2) \in Nat /\ Len(B) \in Nat /\ Len(B2) \in Nat
      /\ \A k \in 1..Len(B) : B[k] \in Nat
      /\ \A k \in 1..Len(B2) : B2[k] \in Nat
  BY LenProperties, ElementOfSeq
<1>2. from < to /\ (field > 0 => body[1] = field - 1)
  BY DEF Holds
<1>3. ASSUME start
      PROVE  /\ Reads(F2, B2, body, field + 2, end, from, to)
             /\ \E m \in 1..Len(B2) : Points(B2, body[field + 1], from, m) /\ B2[m] < to
  <2>1. Reads(F, B, body, field + 2, end, from, to)
    BY <1>3 DEF Holds
  <2>2. Reads(F2, B2, body, field + 2, end, from, to)
    BY <2>1, ReadsGrown
  <2>3. PICK m \in 1..Len(B) : Points(B, body[field + 1], from, m) /\ B[m] < to
    BY <1>3 DEF Holds
  <2>4. m \in 1..Len(B2) /\ B2[m] = B[m]
    BY GrownBounds
  <2>5. \A k \in 1..Len(B2) : k < m => k \in 1..Len(B) /\ B2[k] = B[k]
    BY <1>1, GrownBounds
  <2>6. Points(B2, body[field + 1], from, m) /\ B2[m] < to
    BY <2>3, <2>4, <2>5 DEF Points
  <2>7. QED BY <2>2, <2>4, <2>6
<1>4. ASSUME ~start
      PROVE  /\ Reads(F2, B2, body, field + 1, end, from, to)
             /\ \A k \in 1..Len(B2) : B2[k] < from \/ to <= B2[k]
  <2>1. Reads(F, B, body, field + 1, end, from, to)
    BY <1>4 DEF Holds
  <2>2. Reads(F2, B2, body, field + 1, end, from, to)
    BY <2>1, ReadsGrown
  <2>3. \A k \in 1..Len(B) : B[k] < from \/ to <= B[k]
    BY <1>4 DEF Holds
  <2>4. ASSUME NEW k \in 1..Len(B2) PROVE B2[k] < from \/ to <= B2[k]
    <3>1. CASE k <= Len(B)
      <4>1. k \in 1..Len(B)
        BY <1>1, <3>1
      <4>2. B2[k] = B[k]
        BY <4>1, GrownBounds
      <4>3. QED BY <2>3, <4>1, <4>2
    <3>2. CASE Len(B) < k
      <4>1. Len(F) <= B2[k]
        BY <3>2 DEF Grown
      <4>2. QED BY <1>1, <4>1
    <3>3. QED BY <1>1, <3>1, <3>2
  <2>5. QED BY <2>2, <2>4
<1>5. QED BY <1>2, <1>3, <1>4 DEF Holds

\* what is left when some of it has been read
LEMMA ReadsPart ==
  ASSUME NEW F, NEW B, NEW f, NEW lo \in Int, NEW hi \in Int,
         NEW x \in Int, NEW y \in Int, NEW z \in Int, x <= y, y <= z,
         Reads(F, B, f, lo, hi, x, z)
  PROVE  Reads(F, B, f, lo + (y - x), hi, y, z)
<1> DEFINE at == lo + (y - x)
<1>1. at \in Int /\ at >= lo /\ at + (z - y) = lo + (z - x)
  OBVIOUS
<1>2. ASSUME NEW i \in at..hi
      PROVE  f[i] = IF i - at < z - y THEN F[y + 1 + (i - at)] ELSE StuffByte
  <2>1. i \in lo..hi /\ (i - at < z - y <=> i - lo < z - x)
    OBVIOUS
  <2>2. y + 1 + (i - at) = x + 1 + (i - lo)
    OBVIOUS
  <2>3. QED BY <2>1, <2>2 DEF Reads
<1>3. y <= z /\ at + (z - y) <= hi + 1
      /\ (at + (z - y) <= hi => \E k \in 1..Len(B) : B[k] = z)
  BY <1>1 DEF Reads
<1> HIDE DEF at
<1>4. Reads(F, B, f, at, hi, y, z)
  BY <1>2, <1>3 DEF Reads
<1>5. QED BY <1>4 DEF at

\* a payload appended to bytes that end where it begins
LEMMA ReadsJoin ==
  ASSUME NEW F, NEW B, NEW s \in Seq(Byte), NEW body \in [1..PayloadLen -> Byte],
         NEW lo \in Int, 1 <= lo, lo <= PayloadLen + 1,
         NEW x \in Int, NEW y \in Int, NEW z \in Int,
         Reads(F, B, s, 1, Len(s), x, y), Len(s) = y - x,
         Reads(F, B, body, lo, PayloadLen, y, z)
  PROVE  LET new == s \o SubSeq(body, lo, PayloadLen) IN
         /\ new \in Seq(Byte)
         /\ Len(new) = Len(s) + (PayloadLen - lo + 1)
         /\ Reads(F, B, new, 1, Len(new), x, z)
<1> DEFINE t == SubSeq(body, lo, PayloadLen)
           new == s \o t
<1>1. PayloadLen \in Nat /\ Len(s) \in Nat
  BY PacketSizes, LenProperties
<1>2. \A i \in lo..PayloadLen : body[i] \in Byte
  OBVIOUS
<1>3. /\ t \in Seq(Byte) /\ Len(t) = PayloadLen - lo + 1
      /\ \A i \in 1..(PayloadLen - lo + 1) : t[i] = body[lo + i - 1]
  BY <1>1, <1>2, SubSeqProperties
<1>31. Len(t) \in Nat /\ Len(t) = PayloadLen - lo + 1
  BY <1>1, <1>3
<1> HIDE DEF t
<1>4. /\ new \in Seq(Byte) /\ Len(new) = Len(s) + Len(t)
      /\ \A i \in 1..(Len(s) + Len(t)) : new[i] = IF i <= Len(s) THEN s[i] ELSE t[i - Len(s)]
  BY <1>3, ConcatProperties
<1> HIDE DEF new
<1> DEFINE n == Len(new)
<1>5. n \in Nat /\ n = (y - x) + (PayloadLen - lo + 1)
  BY <1>1, <1>3, <1>4
<1>6. /\ x <= y /\ y <= z /\ lo + (z - y) <= PayloadLen + 1
      /\ lo + (z - y) <= PayloadLen => \E k \in 1..Len(B) : B[k] = z
      /\ \A i \in 1..Len(s) : s[i] = IF i - 1 < y - x THEN F[x + 1 + (i - 1)] ELSE StuffByte
      /\ \A i \in lo..PayloadLen : body[i] = IF i - lo < z - y THEN F[y + 1 + (i - lo)]
                                             ELSE StuffByte
  BY DEF Reads
<1>61. y <= z /\ x <= y /\ lo + (z - y) <= PayloadLen + 1
  BY <1>6
<1>7. ASSUME NEW i \in 1..n
      PROVE  new[i] = IF i - 1 < z - x THEN F[x + 1 + (i - 1)] ELSE StuffByte
  <2>0. i \in 1..(Len(s) + Len(t))
    BY <1>1, <1>31, <1>5
  <2>1. CASE i <= Len(s)
    <3>1. i \in 1..Len(s) /\ i - 1 < y - x /\ i - 1 < z - x
      BY <1>1, <1>61, <2>0, <2>1
    <3>2. new[i] = s[i]
      BY <1>4, <2>0, <2>1
    <3>3. QED BY <1>6, <3>1, <3>2
  <2>2. CASE ~(i <= Len(s))
    <3> DEFINE j == i - Len(s)
               b == lo + j - 1
    <3>0. new[i] = t[j]
      BY <1>4, <2>0, <2>2
    <3>1. j \in 1..(PayloadLen - lo + 1) /\ new[i] = t[j]
      BY <1>1, <1>31, <2>0, <2>2, <3>0
    <3>2. b \in lo..PayloadLen /\ t[j] = body[b]
      BY <1>1, <1>3, <3>1
    <3>3. (b - lo < z - y <=> i - 1 < z - x) /\ y + 1 + (b - lo) = x + 1 + (i - 1)
      BY <1>1
    <3> HIDE DEF j, b
    <3>4. QED BY <1>6, <3>1, <3>2, <3>3
  <2>3. QED BY <2>1, <2>2
<1>8. x <= z /\ 1 + (z - x) <= n + 1
      /\ (1 + (z - x) <= n => \E k \in 1..Len(B) : B[k] = z)
  <2>1. x <= z /\ 1 + (z - x) <= n + 1
    BY <1>1, <1>5, <1>61
  <2>2. 1 + (z - x) <= n => lo + (z - y) <= PayloadLen
    BY <1>1, <1>5, <1>61
  <2>3. QED BY <1>6, <2>1, <2>2
<1>9. Reads(F, B, new, 1, n, x, z)
  BY <1>7, <1>8 DEF Reads
<1>10. QED BY <1>1, <1>3, <1>4, <1>9 DEF new, n, t

\* the rest of a buffer moved to its beginning
LEMMA ReadsMoved ==
  ASSUME NEW F, NEW B, NEW s \in Seq(Byte), NEW p \in Nat, p <= Len(s),
         NEW x \in Int, NEW z \in Int,
         Reads(F, B, s, p + 1, Len(s), x, z)
  PROVE  LET r == SubSeq(s, p + 1, Len(s)) IN
         /\ r \in Seq(Byte)
         /\ Len(r) = Len(s) - p
         /\ Reads(F, B, r, 1, Len(r), x, z)
<1> DEFINE r == SubSeq(s, p + 1, Len(s))
           n == Len(s) - p
<1>1. Len(s) \in Nat /\ n \in Nat
  BY LenProperties
<1>2. \A i \in (p + 1)..Len(s) : s[i] \in Byte
  BY <1>1, ElementOfSeq
<1>3. r \in Seq(Byte) /\ Len(r) = n /\ \A i \in 1..n : r[i] = s[p + 1 + i - 1]
  BY <1>1, <1>2, SubSeqProperties
<1> HIDE DEF r
<1>4. /\ x <= z /\ p + 1 + (z - x) <= Len(s) + 1
      /\ p + 1 + (z - x) <= Len(s) => \E k \in 1..Len(B) : B[k] = z
      /\ \A i \in (p + 1)..Len(s) : s[i] = IF i - (p + 1) < z - x THEN F[x + 1 + (i - (p + 1))]
                                           ELSE StuffByte
  BY DEF Reads
<1>5. ASSUME NEW i \in 1..n
      PROVE  r[i] = IF i - 1 < z - x THEN F[x + 1 + (i - 1)] ELSE StuffByte
  <2> DEFINE j == p + 1 + i - 1
  <2>1. j \in (p + 1)..Len(s) /\ j - (p + 1) = i - 1
    BY <1>1
  <2>2. r[i] = s[j]
    BY <1>3
  <2> HIDE DEF j
  <2>3. QED BY <1>4, <2>1, <2>2
<1>6. Reads(F, B, r, 1, n, x, z)
  BY <1>1, <1>4, <1>5 DEF Reads
<1>7. QED BY <1>3, <1>6 DEF r

----------------------------------------------------------------------------
(* bytes written to a packet *)

Body == [1..PayloadLen -> Byte]

LEMMA WriteProperties ==
  ASSUME NEW body \in Body, NEW to \in Int, NEW b \in Seq(Byte)
  PROVE  /\ S!Write(body, to, b) \in Body
         /\ \A i \in 1..PayloadLen :
              S!Write(body, to, b)[i]
                = IF i + 4 - to \in 1..Len(b) THEN b[i + 4 - to] ELSE body[i]
<1>1. /\ S!HeaderLen = 4 /\ S!PayloadLen = PayloadLen /\ PayloadLen \in Nat
      /\ Len(b) \in Nat /\ \A j \in 1..Len(b) : b[j] \in Byte
      /\ \A i \in 1..PayloadLen : body[i] \in Byte
  BY PacketSizes, SenderNames, LenProperties, ElementOfSeq DEF Body
<1>2. S!Write(body, to, b)
        = [i \in 1..PayloadLen |-> IF i + 4 - to \in 1..Len(b) THEN b[i + 4 - to] ELSE body[i]]
  BY <1>1 DEF S!Write
<1>3. \A i \in 1..PayloadLen :
        (IF i + 4 - to \in 1..Len(b) THEN b[i + 4 - to] ELSE body[i]) \in Byte
  BY <1>1
<1>4. QED BY <1>2, <1>3 DEF Body

\* bytes of the stream written after those it has already
LEMMA WriteAppends ==
  ASSUME NEW F, NEW B, NEW body \in Body, NEW b \in Seq(Byte),
         NEW lo \in Nat, NEW end \in Nat, NEW x \in Int, NEW y \in Int,
         1 <= lo, end + 1 - lo = y - x, end + Len(b) <= PayloadLen,
         Reads(F, B, body, lo, end, x, y),
         \A i \in 1..Len(b) : b[i] = F[y + i]
  PROVE  Reads(F, B, S!Write(body, end + 4, b), lo, end + Len(b), x, y + Len(b))
<1> DEFINE n == Len(b)
           w == S!Write(body, end + 4, b)
<1>1. n \in Nat /\ PayloadLen \in Nat
  BY PacketSizes, LenProperties
<1>2. \A i \in 1..PayloadLen : w[i] = IF i - end \in 1..n THEN b[i - end] ELSE body[i]
  BY WriteProperties
<1>3. /\ x <= y
      /\ \A i \in lo..end : body[i] = IF i - lo < y - x THEN F[x + 1 + (i - lo)] ELSE StuffByte
  BY DEF Reads
<1>4. \A i \in 1..n : b[i] = F[y + i]
  OBVIOUS
<1>5. end + n <= PayloadLen
  OBVIOUS
<1> HIDE DEF n, w
<1>6. ASSUME NEW i \in lo..(end + n)
      PROVE  w[i] = IF i - lo < (y + n) - x THEN F[x + 1 + (i - lo)] ELSE StuffByte
  <2>1. i \in 1..PayloadLen /\ i - lo < (y + n) - x
    BY <1>1, <1>5
  <2>2. CASE i <= end
    <3>1. i \in lo..end /\ ~(i - end \in 1..n) /\ i - lo < y - x
      BY <1>1, <2>2
    <3>2. w[i] = body[i]
      BY <1>2, <2>1, <3>1
    <3>3. QED BY <1>3, <2>1, <3>1, <3>2
  <2>3. CASE ~(i <= end)
    <3> DEFINE j == i - end
    <3>1. j \in 1..n /\ y + j = x + 1 + (i - lo)
      BY <1>1, <2>3
    <3>2. w[i] = b[j]
      BY <1>2, <2>1, <3>1
    <3> HIDE DEF j
    <3>3. QED BY <1>4, <2>1, <3>1, <3>2
  <2>4. QED BY <2>2, <2>3
<1>7. /\ x <= y + n /\ lo + (y + n - x) <= end + n + 1
      /\ ~(lo + (y + n - x) <= end + n)
  <2>1. x <= y
    BY <1>3
  <2>2. QED BY <1>1, <2>1
<1>8. Reads(F, B, w, lo, end + n, x, y + n)
  BY <1>1, <1>6, <1>7 DEF Reads
<1>9. QED BY <1>8 DEF n, w

\* what is written further on leaves it alone
LEMMA WriteKeeps ==
  ASSUME NEW body \in Body, NEW to \in Int, NEW b \in Seq(Byte), NEW i \in 1..PayloadLen,
         i + 4 < to + 1
  PROVE  S!Write(body, to, b)[i] = body[i]
<1>1. Len(b) \in Nat /\ PayloadLen \in Nat
  BY PacketSizes, LenProperties
<1>2. i + 4 - to \notin 1..Len(b)
  BY <1>1
<1>3. S!Write(body, to, b)[i]
        = IF i + 4 - to \in 1..Len(b) THEN b[i + 4 - to] ELSE body[i]
  BY WriteProperties
<1>4. QED BY <1>2, <1>3

\* an open packet that ends with a section, stuffed
LEMMA StuffHolds ==
  ASSUME NEW F, NEW B, NEW body \in Body, NEW b \in Seq(Byte), NEW start \in BOOLEAN,
         NEW field \in Nat, NEW end \in Nat, NEW x \in Int, NEW y \in Int,
         field + (IF start THEN 1 ELSE 0) + (y - x) = end,
         end + Len(b) = PayloadLen,
         \A i \in 1..Len(b) : b[i] = StuffByte,
         Holds(F, B, body, start, field, end, x, y),
         \E k \in 1..Len(B) : B[k] = y
  PROVE  Holds(F, B, S!Write(body, end + 4, b), start, field, PayloadLen, x, y)
<1> DEFINE n == Len(b)
           w == S!Write(body, end + 4, b)
           lo == field + (IF start THEN 2 ELSE 1)
<1>1. n \in Nat /\ PayloadLen \in Nat /\ end + n = PayloadLen
  BY PacketSizes, LenProperties
<1>2. \A i \in 1..PayloadLen : w[i] = IF i - end \in 1..n THEN b[i - end] ELSE body[i]
  <2>1. \A i \in 1..PayloadLen : i + 4 - (end + 4) = i - end
    BY <1>1
  <2>2. end + 4 \in Int
    OBVIOUS
  <2>3. \A i \in 1..PayloadLen :
          w[i] = IF i + 4 - (end + 4) \in 1..n THEN b[i + 4 - (end + 4)] ELSE body[i]
    BY <2>2, WriteProperties
  <2>4. QED BY <2>1, <2>3
<1>3. \A i \in 1..n : b[i] = StuffByte
  OBVIOUS
<1>4. lo \in Nat /\ 1 <= lo /\ lo + (y - x) = end + 1 /\ x < y
  BY DEF Holds
<1>5. Reads(F, B, body, lo, end, x, y)
  <2>1. CASE start
    <3>1. lo = field + 2
      BY <2>1
    <3> HIDE DEF lo
    <3>2. QED BY <2>1, <3>1 DEF Holds
  <2>2. CASE ~start
    <3>1. lo = field + 1
      BY <2>2
    <3> HIDE DEF lo
    <3>2. QED BY <2>2, <3>1 DEF Holds
  <2>3. QED BY <2>1, <2>2
<1> HIDE DEF n, w
<1>6. \A i \in 1..end : i \in 1..PayloadLen /\ w[i] = body[i]
  BY <1>1, <1>2
<1>7. Reads(F, B, w, lo, PayloadLen, x, y)
  <2> HIDE DEF lo
  <2>1. ASSUME NEW i \in lo..PayloadLen
        PROVE  w[i] = IF i - lo < y - x THEN F[x + 1 + (i - lo)] ELSE StuffByte
    <3>1. CASE i <= end
      <4>1. i \in lo..end /\ i \in 1..end
        BY <1>1, <1>4, <3>1
      <4>2. QED BY <1>5, <1>6, <4>1 DEF Reads
    <3>2. CASE ~(i <= end)
      <4> DEFINE j == i - end
      <4>1. j \in 1..n /\ i \in 1..PayloadLen /\ ~(i - lo < y - x)
        BY <1>1, <1>4, <3>2
      <4>2. w[i] = b[j]
        BY <1>2, <4>1
      <4> HIDE DEF j
      <4>3. QED BY <1>3, <4>1, <4>2
    <3>3. QED BY <3>1, <3>2
  <2>2. QED BY <1>1, <1>4, <2>1 DEF Reads
<1>8. field > 0 => w[1] = field - 1
  <2>1. field > 0 => 1 \in 1..end
    BY <1>4
  <2>2. QED BY <1>6, <2>1 DEF Holds
<1>9. start => /\ Reads(F, B, w, field + 2, PayloadLen, x, y)
               /\ \E m \in 1..Len(B) : Points(B, w[field + 1], x, m) /\ B[m] < y
  <2>1. ASSUME start PROVE field + 1 \in 1..end /\ lo = field + 2
    BY <1>4, <2>1
  <2> HIDE DEF lo
  <2>2. QED BY <1>6, <1>7, <2>1 DEF Holds
<1>10. ~start => /\ Reads(F, B, w, field + 1, PayloadLen, x, y)
                 /\ \A k \in 1..Len(B) : B[k] < x \/ y <= B[k]
  <2>1. ASSUME ~start PROVE lo = field + 1
    BY <2>1
  <2> HIDE DEF lo
  <2>2. QED BY <1>7, <2>1 DEF Holds
<1>11. QED BY <1>4, <1>8, <1>9, <1>10 DEF Holds, w

----------------------------------------------------------------------------
(* the stream *)

LEMMA SectionLength ==
  ASSUME NEW s, WellFormed(s)
  PROVE  s \in Seq(Byte) /\ Len(s) \in Nat /\ Len(s) >= 3
BY LenProperties DEF WellFormed, HasSection

LEMMA StreamFacts ==
  ASSUME StreamInv
  PROVE  /\ stream \in Seq(Byte) /\ submitted \in Seq(Seq(Byte)) /\ bounds \in Seq(Nat)
         /\ Len(stream) \in Nat /\ Len(submitted) \in Nat
         /\ Len(bounds) = Len(submitted) + 1
         /\ \A k \in 1..Len(bounds) : bounds[k] \in Nat /\ bounds[k] <= Len(stream)
         /\ \A k \in 1..Len(bounds) : k = Len(bounds) => bounds[k] = Len(stream)
         /\ \A k \in 1..Len(bounds) : k = 1 => bounds[k] = 0
         /\ \A k \in 1..Len(submitted) : /\ k \in 1..Len(bounds)
                                         /\ k + 1 \in 1..Len(bounds)
                                         /\ bounds[k] \in Nat /\ bounds[k + 1] \in Nat
                                         /\ bounds[k] + 3 <= bounds[k + 1]
         /\ \A j, k \in 1..Len(bounds) : j < k => bounds[j] < bounds[k]
         /\ \A j, k \in 1..Len(bounds) : j <= k => bounds[j] <= bounds[k]
         /\ \A j, k \in 1..Len(bounds) : bounds[j] < bounds[k] => j < k
<1> DEFINE N == Len(submitted)
           L == Len(bounds)
<1>1. N \in Nat /\ Len(stream) \in Nat /\ L = N + 1 /\ L \in Nat
  BY LenProperties DEF StreamInv
<1>2. \A k \in 1..L : bounds[k] \in Nat
  BY ElementOfSeq DEF StreamInv
<1>3. \A j, k \in 1..L : j < k => bounds[j] < bounds[k]
  BY DEF StreamInv
<1>4. bounds[L] = Len(stream) /\ bounds[1] = 0
  BY DEF StreamInv
<1>5. \A k \in 1..N : /\ Len(submitted[k]) \in Nat /\ Len(submitted[k]) >= 3
                      /\ bounds[k + 1] = bounds[k] + Len(submitted[k])
  BY SectionLength DEF StreamInv
<1>6. stream \in Seq(Byte) /\ submitted \in Seq(Seq(Byte)) /\ bounds \in Seq(Nat)
  BY DEF StreamInv
<1> HIDE DEF N, L
<1>7. \A j, k \in 1..L : j <= k => bounds[j] <= bounds[k]
  BY <1>1, <1>2, <1>3
<1>8. \A j, k \in 1..L : bounds[j] < bounds[k] => j < k
  BY <1>1, <1>2, <1>7
<1>9. \A k \in 1..L : bounds[k] <= Len(stream)
  BY <1>1, <1>4, <1>7
<1>10. \A k \in 1..N : k \in 1..L /\ k + 1 \in 1..L
  BY <1>1
<1>11. \A k \in 1..N : bounds[k] + 3 <= bounds[k + 1]
  BY <1>2, <1>5, <1>10
<1>12. QED BY <1>1, <1>2, <1>3, <1>4, <1>6, <1>7, <1>8, <1>9, <1>10, <1>11 DEF N, L

LEMMA SubmitStream ==
  ASSUME StreamInv, NEW s, WellFormed(s), submitted' = Append(submitted, s),
         stream' = stream \o s, bounds' = Append(bounds, Len(stream'))
  PROVE  /\ StreamInv'
         /\ Grown(stream, bounds, stream', bounds')
         /\ Len(stream') = Len(stream) + Len(s)
         /\ \A i \in 1..Len(s) : stream'[Len(stream) + i] = s[i]
         /\ Len(submitted') = Len(submitted) + 1
         /\ \A k \in 1..Len(submitted) : submitted'[k] = submitted[k]
<1> DEFINE N == Len(submitted)
           n == Len(stream)
<1>1. N \in Nat /\ n \in Nat /\ s \in Seq(Byte) /\ Len(s) \in Nat /\ Len(s) >= 3
      /\ bounds \in Seq(Nat) /\ Len(bounds) = N + 1
  BY StreamFacts, SectionLength
<1>2. /\ stream' \in Seq(Byte) /\ Len(stream') = n + Len(s)
      /\ \A i \in 1..(n + Len(s)) : stream'[i] = IF i <= n THEN stream[i] ELSE s[i - n]
  BY <1>1, ConcatProperties DEF StreamInv
<1>3. /\ \A i \in 1..n : stream'[i] = stream[i]
      /\ \A i \in 1..Len(s) : stream'[n + i] = s[i]
  <2>1. \A i \in 1..Len(s) : n + i \in 1..(n + Len(s)) /\ ~(n + i <= n) /\ (n + i) - n = i
    BY <1>1
  <2>2. \A i \in 1..n : i \in 1..(n + Len(s)) /\ i <= n
    BY <1>1
  <2>3. QED BY <1>2, <2>1, <2>2
<1>4. /\ submitted' \in Seq(Seq(Byte)) /\ Len(submitted') = N + 1
      /\ \A k \in 1..N : submitted'[k] = submitted[k]
      /\ submitted'[N + 1] = s
  BY <1>1, AppendProperties DEF StreamInv
<1>5. /\ bounds' \in Seq(Nat) /\ Len(bounds') = N + 2
      /\ \A k \in 1..(N + 1) : bounds'[k] = bounds[k]
      /\ bounds'[N + 2] = n + Len(s)
  <2>1. n + Len(s) \in Nat
    BY <1>1
  <2>2. bounds' = Append(bounds, n + Len(s))
    BY <1>2
  <2>3. N + 1 + 1 = N + 2
    BY <1>1
  <2>4. QED BY <1>1, <2>1, <2>2, <2>3, AppendProperties
<1>6. /\ \A k \in 1..(N + 1) : bounds[k] \in Nat /\ bounds[k] <= n
      /\ bounds[N + 1] = n /\ bounds[1] = 0
      /\ \A j, k \in 1..(N + 1) : j < k => bounds[j] < bounds[k]
  BY <1>1, StreamFacts DEF StreamInv
<1>7. \A k \in 1..N : /\ WellFormed(submitted[k])
                      /\ bounds[k + 1] = bounds[k] + Len(submitted[k])
                      /\ Len(submitted[k]) \in Nat
                      /\ \A i \in 1..Len(submitted[k]) : submitted[k][i] = stream[bounds[k] + i]
  BY SectionLength DEF StreamInv
<1> HIDE DEF N, n
<1>8. ASSUME NEW k \in 1..(N + 1)
      PROVE  /\ WellFormed(submitted'[k])
             /\ bounds'[k + 1] = bounds'[k] + Len(submitted'[k])
             /\ \A i \in 1..Len(submitted'[k]) : submitted'[k][i] = stream'[bounds'[k] + i]
  <2>1. CASE k \in 1..N
    <3> DEFINE j == k + 1
    <3>1. k \in 1..(N + 1) /\ j \in 1..(N + 1)
      BY <1>1, <2>1
    <3>2. /\ submitted'[k] = submitted[k] /\ bounds'[k] = bounds[k] /\ bounds'[j] = bounds[j]
          /\ bounds[k] \in Nat /\ bounds[j] <= n
      BY <1>4, <1>5, <1>6, <2>1, <3>1
    <3>3. bounds[j] = bounds[k] + Len(submitted[k]) /\ Len(submitted[k]) \in Nat
      BY <1>7, <2>1
    <3>4. \A i \in 1..Len(submitted[k]) : bounds[k] + i \in 1..n
      <4> DEFINE a == bounds[k]
                 b == bounds[j]
                 l == Len(submitted[k])
      <4>1. a \in Nat /\ l \in Nat /\ b = a + l /\ b <= n
        BY <3>2, <3>3
      <4> HIDE DEF a, b, l
      <4>2. \A i \in 1..l : a + i \in 1..n
        BY <1>1, <4>1
      <4>3. QED BY <4>2 DEF a, l
    <3>5. WellFormed(submitted'[k])
      BY <1>7, <2>1, <3>2
    <3>6. bounds'[j] = bounds'[k] + Len(submitted'[k])
      BY <3>2, <3>3
    <3> HIDE DEF j
    <3>7. \A i \in 1..Len(submitted[k]) : submitted[k][i] = stream[bounds[k] + i]
      BY <1>7, <2>1
    <3>8. ASSUME NEW i \in 1..Len(submitted'[k])
          PROVE  submitted'[k][i] = stream'[bounds'[k] + i]
      <4> DEFINE x == bounds[k] + i
      <4>1. i \in 1..Len(submitted[k])
        BY <3>2
      <4>2. submitted[k][i] = stream[x] /\ x \in 1..n
        BY <3>4, <3>7, <4>1
      <4> HIDE DEF x
      <4>3. submitted[k][i] = stream'[x]
        BY <1>3, <4>2
      <4>4. QED BY <3>2, <4>3 DEF x
    <3>9. QED BY <3>5, <3>6, <3>8 DEF j
  <2>2. CASE k = N + 1
    <3>1. k + 1 = N + 2 /\ k \in 1..(N + 1)
      BY <1>1, <2>2
    <3>2. submitted'[k] = s /\ bounds'[k] = n /\ bounds'[k + 1] = n + Len(s)
      BY <1>4, <1>5, <1>6, <2>2, <3>1
    <3>3. WellFormed(submitted'[k])
      BY <3>2
    <3>4. \A i \in 1..Len(submitted'[k]) : submitted'[k][i] = stream'[bounds'[k] + i]
      BY <1>3, <3>2
    <3>5. bounds'[k + 1] = bounds'[k] + Len(submitted'[k])
      <4>1. Len(submitted'[k]) = Len(s)
        BY <3>2
      <4>2. QED BY <3>2, <4>1
    <3>6. QED BY <3>3, <3>4, <3>5
  <2>3. k \in 1..N \/ k = N + 1
    BY <1>1
  <2>4. QED BY <2>1, <2>2, <2>3
<1>9. ASSUME NEW j \in 1..(N + 2), NEW k \in 1..(N + 2), j < k
      PROVE  bounds'[j] < bounds'[k]
  <2>1. j \in 1..(N + 1)
    BY <1>1, <1>9
  <2>2. CASE k \in 1..(N + 1)
    BY <1>5, <1>6, <1>9, <2>1, <2>2
  <2>3. CASE k = N + 2
    BY <1>1, <1>5, <1>6, <2>1, <2>3
  <2>4. QED BY <1>1, <2>2, <2>3
<1>10. bounds'[1] = 0
  BY <1>1, <1>5, <1>6
<1>11. StreamInv'
  <2>1. bounds'[Len(bounds')] = Len(stream')
    BY <1>2, <1>5
  <2>2. Len(bounds') = Len(submitted') + 1
    BY <1>1, <1>4, <1>5
  <2>3. \A j, k \in 1..Len(bounds') : j < k => bounds'[j] < bounds'[k]
    BY <1>5, <1>9
  <2>4. \A k \in 1..Len(submitted') :
          /\ WellFormed(submitted'[k])
          /\ bounds'[k + 1] = bounds'[k] + Len(submitted'[k])
          /\ \A i \in 1..Len(submitted'[k]) : submitted'[k][i] = stream'[bounds'[k] + i]
    BY <1>4, <1>8
  <2>5. stream' \in Seq(Byte) /\ submitted' \in Seq(Seq(Byte)) /\ bounds' \in Seq(Nat)
    BY <1>2, <1>4, <1>5
  <2>6. QED BY <1>10, <2>1, <2>2, <2>3, <2>4, <2>5 DEF StreamInv
<1>12. \A k \in 1..Len(bounds') : Len(bounds) < k => n <= bounds'[k]
  <2>1. \A k \in 1..(N + 2) : N + 1 < k => k = N + 2
    BY <1>1
  <2>2. QED BY <1>1, <1>5, <2>1
<1>13. Grown(stream, bounds, stream', bounds')
  <2>1. Len(stream) <= Len(stream') /\ Len(bounds) <= Len(bounds')
    BY <1>1, <1>2, <1>5 DEF n
  <2>2. QED BY <1>1, <1>3, <1>5, <1>12, <2>1 DEF Grown, n
<1>14. QED BY <1>2, <1>3, <1>4, <1>11, <1>13 DEF N, n

----------------------------------------------------------------------------
(* the sender *)

LEMMA NoPacketIsNone == S!NoPacket \notin Pkt
<1>1. SUFFICES ASSUME S!NoPacket \in Pkt PROVE FALSE
  OBVIOUS
<1>2. DOMAIN S!NoPacket = {"pusi"}
  BY DEF S!NoPacket
<1>3. "afc" \in DOMAIN S!NoPacket
  BY <1>1 DEF Pkt
<1>4. QED BY <1>2, <1>3

LEMMA PacketsFacts ==
  ASSUME PacketsInv
  PROVE  /\ sent \in Seq(Nat) /\ Len(sent) \in Nat /\ Len(sent) >= 1 /\ produced \in Nat
         /\ Len(sent) = produced + 1
         /\ \A p \in 1..Len(sent) : sent[p] \in Nat /\ sent[p] <= LastSent
         /\ LastSent \in Nat
         /\ \A p, q \in 1..Len(sent) : p < q => sent[p] < sent[q]
         /\ \A p, q \in 1..Len(sent) : p <= q => sent[p] <= sent[q]
         /\ \A p, q \in 1..Len(sent) : sent[p] < sent[q] => p < q
<1> DEFINE L == Len(sent)
<1>1. L \in Nat /\ L >= 1 /\ produced = L - 1 /\ sent \in Seq(Nat)
  BY LenProperties DEF PacketsInv, produced
<1>2. \A p \in 1..L : sent[p] \in Nat
  BY ElementOfSeq DEF PacketsInv
<1>3. \A p, q \in 1..L : p < q => sent[p] < sent[q]
  BY DEF PacketsInv
<1>4. LastSent = sent[L]
  BY DEF LastSent
<1> HIDE DEF L
<1>5. \A p, q \in 1..L : p <= q => sent[p] <= sent[q]
  BY <1>1, <1>2, <1>3
<1>6. \A p, q \in 1..L : sent[p] < sent[q] => p < q
  BY <1>1, <1>2, <1>5
<1>7. \A p \in 1..L : sent[p] <= LastSent
  BY <1>1, <1>4, <1>5
<1>8. LastSent \in Nat
  BY <1>1, <1>2, <1>4
<1>9. QED BY <1>1, <1>2, <1>3, <1>5, <1>6, <1>7, <1>8 DEF L

\* a call that hands over no packet
LEMMA TransmitNothing ==
  ASSUME PacketsInv, Transmit, packet' = S!NoPacket, Len(stream) <= Len(stream'),
         Len(stream) \in Nat, Len(stream') \in Nat
  PROVE  /\ wire' = wire /\ sent' = sent /\ produced' = produced /\ LastSent' = LastSent
         /\ PacketsInv'
<1>1. wire' = wire /\ sent' = sent
  BY DEF Transmit
<1>2. produced' = produced /\ LastSent' = LastSent
  BY <1>1 DEF produced, LastSent
<1>3. sent[Len(sent)] \in Nat
  BY PacketsFacts DEF LastSent
<1>4. PacketsInv'
  BY <1>1, <1>3 DEF PacketsInv
<1>5. QED BY <1>1, <1>2, <1>4

\* a call that hands over a packet with all the bytes written before "e"
LEMMA TransmitPacket ==
  ASSUME PacketsInv, Transmit, packet' \in Pkt, NEW e \in Nat,
         Len(stream') - Len(rest') = e, LastSent < e, e <= Len(stream')
  PROVE  /\ wire' = Append(wire, packet') /\ sent' = Append(sent, e)
         /\ Len(sent') = Len(sent) + 1
         /\ \A p \in 1..Len(sent) : sent'[p] = sent[p]
         /\ \A p \in 1..Len(sent') : p = Len(sent) + 1 => sent'[p] = e
         /\ produced' = produced + 1 /\ LastSent' = e
         /\ PacketsInv'
<1> DEFINE L == Len(sent)
<1>1. packet' # S!NoPacket
  BY NoPacketIsNone
<1>2. wire' = Append(wire, packet') /\ sent' = Append(sent, e)
  BY <1>1 DEF Transmit
<1>3. /\ L \in Nat /\ L >= 1 /\ sent \in Seq(Nat)
      /\ \A p \in 1..L : sent[p] \in Nat /\ sent[p] <= LastSent
      /\ \A p, q \in 1..L : p < q => sent[p] < sent[q]
      /\ LastSent \in Nat /\ produced = L - 1
  BY PacketsFacts DEF produced
<1>4. /\ sent' \in Seq(Nat) /\ Len(sent') = L + 1
      /\ \A p \in 1..L : sent'[p] = sent[p]
      /\ sent'[L + 1] = e
  BY <1>2, <1>3, AppendProperties
<1>5. produced' = produced + 1 /\ LastSent' = e
  BY <1>3, <1>4 DEF produced, LastSent
<1> HIDE DEF L
<1>6. ASSUME NEW p \in 1..(L + 1), NEW q \in 1..(L + 1), p < q
      PROVE  sent'[p] < sent'[q]
  <2>1. p \in 1..L
    BY <1>3, <1>6
  <2>2. CASE q \in 1..L
    BY <1>3, <1>4, <1>6, <2>1, <2>2
  <2>3. CASE q = L + 1
    BY <1>3, <1>4, <2>1, <2>3
  <2>4. q \in 1..L \/ q = L + 1
    BY <1>3
  <2>5. QED BY <2>2, <2>3, <2>4
<1>7. sent'[1] = 0
  <2>1. 1 \in 1..L /\ sent[1] = 0
    BY <1>3 DEF PacketsInv
  <2>2. QED BY <1>4, <2>1
<1>8. PacketsInv'
  <2>1. Len(sent') >= 1 /\ sent'[Len(sent')] <= Len(stream')
    BY <1>3, <1>4
  <2>2. QED BY <1>4, <1>6, <1>7, <2>1 DEF PacketsInv
<1>9. QED BY <1>2, <1>4, <1>5, <1>8 DEF L

\* what a call of the sender does to the rest of the system
Advances ==
  /\ Grown(stream, bounds, stream', bounds')
  /\ Len(submitted') >= Len(submitted)
  /\ \A k \in 1..Len(submitted) : submitted'[k] = submitted[k]
  /\ StreamInv' /\ PacketsInv'
  /\ UNCHANGED <<lost, repeated, receiver, received>>
  /\ \/ UNCHANGED <<wire, sent>>
     \/ \E pkt \in Pkt, e \in Nat :
          /\ wire' = Append(wire, pkt)
          /\ sent' = Append(sent, e)
          /\ LastSent < e
          /\ Complete(stream', bounds', pkt, produced + 1, LastSent, e)

LEMMA SenderCounter ==
  ASSUME PacketsInv, SenderInv
  PROVE  /\ sender_cc \in CC
         /\ NextCC(sender_cc) = (produced + 1) % CCMod
<1>1. produced \in Int
  BY PacketsFacts
<1>2. sender_cc = produced % CCMod
  BY DEF SenderInv
<1>3. QED BY <1>1, <1>2, NextCounter

\* no packet open
LEMMA ClosedInv ==
  ASSUME payload_start' = 0, pusi' = FALSE, payload_end' \in Nat, ts_packet' \in Body,
         pid' = 0, sender_cc' = produced' % CCMod,
         rest' \in Seq(Byte), Len(rest') <= Len(stream'),
         \A i \in 1..Len(rest') : rest'[i] = stream'[Written' + i],
         LastSent' = Written',
         \/ sender_pc' = "idle" /\ rest' = <<>> /\ wrote_section_start' = FALSE
         \/ /\ sender_pc' = "more" /\ rest' # <<>> /\ submitted' # <<>>
            /\ bounds'[Len(submitted')] <= Written'
            /\ wrote_section_start' \in BOOLEAN
            /\ wrote_section_start' <=> bounds'[Len(submitted')] < Written'
  PROVE  SenderInv'
<1>1. ~S!Open'
  BY DEF S!Open
<1>2. CASE sender_pc' = "idle" /\ rest' = <<>> /\ wrote_section_start' = FALSE
  BY <1>1, <1>2 DEF SenderInv, Body
<1>3. CASE /\ sender_pc' = "more" /\ rest' # <<>> /\ submitted' # <<>>
           /\ bounds'[Len(submitted')] <= Written'
           /\ wrote_section_start' \in BOOLEAN
           /\ wrote_section_start' <=> bounds'[Len(submitted')] < Written'
  BY <1>1, <1>3 DEF SenderInv, Body
<1>4. QED BY <1>2, <1>3

\* a packet that is finished
LEMMA PacketComplete ==
  ASSUME PacketsInv, SenderInv, NEW start \in BOOLEAN, NEW field \in Nat, NEW afc,
         NEW body \in Body, NEW to \in Nat,
         field <= PayloadLen,
         afc = S!PayloadAFC(HeaderLen + field),
         S!Produce(start, afc, body),
         Holds(stream', bounds', body, start, field, PayloadLen, LastSent, to)
  PROVE  /\ packet' \in Pkt
         /\ LastSent < to
         /\ Complete(stream', bounds', packet', produced + 1, LastSent, to)
<1>1. /\ HeaderLen = 4 /\ S!HeaderLen = 4 /\ PayloadLen \in Nat
      /\ S!AFC_PAYLOAD = 1 /\ S!AFC_ADAPTATION_AND_PAYLOAD = 3
      /\ AFC_PAYLOAD = 1 /\ AFC_ADAPTATION_AND_PAYLOAD = 3
  BY PacketSizes, SenderNames
<1>2. afc = IF field = 0 THEN 1 ELSE 3
  BY <1>1 DEF S!PayloadAFC
<1>3. packet' = [pusi |-> start, afc |-> afc, cc |-> sender_cc, pid |-> 0, body |-> body]
  BY DEF S!Produce, SenderInv
<1>4. sender_cc \in CC /\ sender_cc = ((produced + 1) - 1) % CCMod
  <2>1. (produced + 1) - 1 = produced
    BY PacketsFacts
  <2>2. QED BY <2>1, SenderCounter DEF SenderInv
<1>5. packet' \in Pkt
  BY <1>2, <1>3, <1>4 DEF Pkt, Body
<1>6. /\ packet'.pusi = start /\ packet'.body = body /\ packet'.cc = sender_cc
      /\ packet'.afc = afc
  BY <1>3
<1>7. Complete(stream', bounds', packet', produced + 1, LastSent, to)
  <2>1. field \in 0..PayloadLen
    BY <1>1
  <2>2. packet'.afc = IF field = 0 THEN AFC_PAYLOAD ELSE AFC_ADAPTATION_AND_PAYLOAD
    BY <1>1, <1>2, <1>6
  <2>3. Holds(stream', bounds', packet'.body, packet'.pusi, field, PayloadLen, LastSent, to)
    BY <1>6
  <2>4. QED BY <1>4, <1>6, <2>1, <2>2, <2>3 DEF Complete
<1>8. QED BY <1>5, <1>7 DEF Holds

\* ... and goes on the wire
LEMMA PacketAdvances ==
  ASSUME PacketsInv, Transmit, packet' \in Pkt, NEW e \in Nat, Written' = e,
         LastSent < e, e <= Len(stream'),
         Complete(stream', bounds', packet', produced + 1, LastSent, e),
         Grown(stream, bounds, stream', bounds'), StreamInv',
         Len(submitted') >= Len(submitted),
         \A k \in 1..Len(submitted) : submitted'[k] = submitted[k]
  PROVE  Advances /\ produced' = produced + 1 /\ LastSent' = e
<1>1. Len(stream') - Len(rest') = e
  BY DEF Written
<1>2. /\ wire' = Append(wire, packet') /\ sent' = Append(sent, e)
      /\ produced' = produced + 1 /\ LastSent' = e /\ PacketsInv'
  BY <1>1, TransmitPacket
<1>3. UNCHANGED <<lost, repeated, receiver, received>>
  BY DEF Transmit
<1>4. QED BY <1>2, <1>3 DEF Advances

LEMMA SubmitFacts ==
  ASSUME LinkInv, NEW s, WellFormed(s), submitted' = Append(submitted, s),
         stream' = stream \o s, bounds' = Append(bounds, Len(stream'))
  PROVE  /\ StreamInv'
         /\ Grown(stream, bounds, stream', bounds')
         /\ s \in Seq(Byte) /\ Len(s) \in Nat /\ Len(s) >= 3
         /\ Len(stream) \in Nat
         /\ Len(stream') = Len(stream) + Len(s)
         /\ \A i \in 1..Len(s) : s[i] = stream'[Len(stream) + i]
         /\ Len(submitted) \in Nat
         /\ Len(submitted') = Len(submitted) + 1
         /\ submitted' # <<>>
         /\ \A k \in 1..Len(submitted) : submitted'[k] = submitted[k]
         /\ bounds'[Len(submitted')] = Len(stream)
         /\ Len(submitted') \in 1..Len(bounds')
         /\ \A k \in 1..Len(bounds') : k < Len(submitted') => bounds'[k] < Len(stream)
<1>1. /\ StreamInv /\ s \in Seq(Byte) /\ Len(s) \in Nat /\ Len(s) >= 3
  BY SectionLength DEF LinkInv
<1>2. /\ StreamInv' /\ Grown(stream, bounds, stream', bounds')
      /\ Len(stream') = Len(stream) + Len(s)
      /\ \A i \in 1..Len(s) : s[i] = stream'[Len(stream) + i]
      /\ Len(submitted') = Len(submitted) + 1
      /\ \A k \in 1..Len(submitted) : submitted'[k] = submitted[k]
  BY <1>1, SubmitStream
<1>3. /\ Len(stream) \in Nat /\ Len(submitted) \in Nat /\ Len(bounds) = Len(submitted) + 1
      /\ bounds \in Seq(Nat) /\ Len(bounds) \in 1..Len(bounds)
      /\ bounds[Len(bounds)] = Len(stream)
  BY <1>1, StreamFacts
<1>4. bounds' \in Seq(Nat) /\ Len(bounds') = Len(submitted') + 1
  BY <1>2 DEF StreamInv
<1>5. bounds'[Len(bounds)] = Len(stream)
  BY <1>2, <1>3, <1>4, GrownBounds
<1>6. submitted' # <<>>
  <2>1. Len(submitted') = Len(submitted) + 1 /\ Len(submitted) \in Nat
    BY <1>2, <1>3
  <2>2. Len(<<>>) = 0
    BY EmptySeq
  <2>3. QED BY <2>1, <2>2
<1>7. \A j, k \in 1..Len(bounds') : j < k => bounds'[j] < bounds'[k]
  BY <1>2 DEF StreamInv
<1>8. Len(submitted') \in 1..Len(bounds') /\ bounds'[Len(submitted')] = Len(stream)
  BY <1>2, <1>3, <1>4, <1>5
<1>9. \A k \in 1..Len(bounds') : k < Len(submitted') => bounds'[k] < Len(stream)
  BY <1>7, <1>8
<1>10. QED BY <1>1, <1>2, <1>3, <1>6, <1>8, <1>9

LEMMA NewPacketStep ==
  ASSUME LinkInv, NEW s, WellFormed(s), submitted' = Append(submitted, s),
         stream' = stream \o s, bounds' = Append(bounds, Len(stream')),
         Transmit, S!NewPacket(s)
  PROVE  SenderInv' /\ Advances
<1>1. /\ sender_pc = "idle" /\ payload_start = 0 /\ rest' = s /\ wrote_section_start' = FALSE
      /\ sender_pc' = "more" /\ packet' = S!NoPacket
      /\ UNCHANGED <<payload_start, payload_end, ts_packet, pusi, sender_cc, pid>>
  BY DEF S!NewPacket, S!Open
<1>2. /\ payload_end \in Nat /\ ts_packet \in Body /\ pid = 0 /\ sender_cc = produced % CCMod
      /\ rest = <<>> /\ pusi = FALSE /\ LastSent = Len(stream) - Len(rest)
  BY <1>1 DEF LinkInv, SenderInv, Body, S!Open, Written
<1>3. /\ StreamInv' /\ Grown(stream, bounds, stream', bounds')
      /\ s \in Seq(Byte) /\ Len(s) \in Nat /\ Len(s) >= 3 /\ Len(stream) \in Nat
      /\ Len(stream') = Len(stream) + Len(s)
      /\ \A i \in 1..Len(s) : s[i] = stream'[Len(stream) + i]
      /\ Len(submitted) \in Nat /\ Len(submitted') = Len(submitted) + 1 /\ submitted' # <<>>
      /\ \A k \in 1..Len(submitted) : submitted'[k] = submitted[k]
      /\ bounds'[Len(submitted')] = Len(stream)
  BY SubmitFacts
<1>4. PacketsInv
  BY DEF LinkInv
<1>5. /\ wire' = wire /\ sent' = sent /\ produced' = produced /\ LastSent' = LastSent
      /\ PacketsInv'
  <2>1. Len(stream) <= Len(stream') /\ Len(stream') \in Nat
    BY <1>3
  <2>2. QED BY <1>1, <1>3, <1>4, <2>1, TransmitNothing
<1>6. Written' = Len(stream) /\ LastSent' = Written'
  <2>1. Len(<<>>) = 0
    BY EmptySeq
  <2>2. QED BY <1>1, <1>2, <1>3, <1>5, <2>1 DEF Written
<1>7. rest' # <<>>
  BY <1>1, <1>3, EmptySeq
<1>8. \A i \in 1..Len(rest') : rest'[i] = stream'[Written' + i]
  BY <1>1, <1>3, <1>6
<1>9. rest' \in Seq(Byte) /\ Len(rest') <= Len(stream')
  BY <1>1, <1>3
<1>10. /\ bounds'[Len(submitted')] <= Written'
       /\ wrote_section_start' \in BOOLEAN
       /\ wrote_section_start' <=> bounds'[Len(submitted')] < Written'
  <2> DEFINE n == Len(stream)
  <2>1. n \in Nat /\ bounds'[Len(submitted')] = n /\ Written' = n
    BY <1>3, <1>6
  <2> HIDE DEF n
  <2>2. n <= n /\ ~(n < n)
    BY <2>1
  <2>3. QED BY <1>1, <2>1, <2>2
<1>11. /\ payload_start' = 0 /\ pusi' = FALSE /\ payload_end' \in Nat /\ ts_packet' \in Body
       /\ pid' = 0 /\ sender_cc' = produced' % CCMod
  BY <1>1, <1>2, <1>5 DEF Body
<1>12. SenderInv'
  BY <1>1, <1>3, <1>6, <1>7, <1>8, <1>9, <1>10, <1>11, ClosedInv
<1>13. Advances
  <2>1. UNCHANGED <<lost, repeated, receiver, received>>
    BY DEF Transmit
  <2>2. QED BY <1>3, <1>5, <2>1 DEF Advances
<1>14. QED BY <1>12, <1>13

LEMMA OpenFacts ==
  ASSUME LinkInv, S!Open
  PROVE  /\ sender_pc = "idle" /\ rest = <<>> /\ wrote_section_start = FALSE
         /\ payload_start \in Nat /\ payload_end \in Nat /\ ts_packet \in Body
         /\ pusi \in BOOLEAN /\ pid = 0
         /\ 4 <= payload_start /\ payload_end < TSPacketLen /\ payload_start < payload_end
         /\ payload_end = payload_start + (IF pusi THEN 1 ELSE 0) + (Len(stream) - LastSent)
         /\ LastSent \in Nat /\ Len(stream) \in Nat /\ LastSent < Len(stream)
         /\ Holds(stream, bounds, ts_packet, pusi, payload_start - 4, payload_end - 4,
                  LastSent, Len(stream))
         /\ \E k \in 1..Len(bounds) : bounds[k] = Len(stream)
<1>1. /\ sender_pc = "idle" /\ rest = <<>> /\ wrote_section_start = FALSE
      /\ payload_start \in Nat /\ payload_end \in Nat /\ ts_packet \in Body
      /\ pusi \in BOOLEAN /\ pid = 0
      /\ HeaderLen <= payload_start /\ payload_end < TSPacketLen
      /\ payload_end = payload_start + (IF pusi THEN 1 ELSE 0) + (Len(stream) - LastSent)
      /\ Holds(stream, bounds, ts_packet, pusi, payload_start - HeaderLen,
               payload_end - HeaderLen, LastSent, Len(stream))
  BY DEF LinkInv, SenderInv, Body
<1>2. HeaderLen = 4
  BY PacketSizes
<1>3. LastSent \in Nat /\ Len(stream) \in Nat
  BY PacketsFacts, StreamFacts DEF LinkInv
<1>4. LastSent < Len(stream)
  BY <1>1 DEF Holds
<1>5. \E k \in 1..Len(bounds) : bounds[k] = Len(stream)
  <2>1. Len(bounds) \in 1..Len(bounds) /\ bounds[Len(bounds)] = Len(stream)
    BY StreamFacts DEF LinkInv
  <2>2. QED BY <2>1
<1>6. payload_start < payload_end
  <2>1. CASE pusi
    BY <1>1, <1>3, <1>4, <2>1
  <2>2. CASE ~pusi
    BY <1>1, <1>3, <1>4, <2>2
  <2>3. QED BY <2>1, <2>2
<1>7. QED BY <1>1, <1>2, <1>3, <1>4, <1>5, <1>6

\* the open packet, stuffed
LEMMA StuffedPacket ==
  ASSUME LinkInv, S!Open, Grown(stream, bounds, stream', bounds'), StreamInv',
         NEW b \in Seq(Byte), Len(b) = TSPacketLen - payload_end,
         \A i \in 1..Len(b) : b[i] = StuffByte
  PROVE  /\ S!Write(ts_packet, payload_end, b) \in Body
         /\ Holds(stream', bounds', S!Write(ts_packet, payload_end, b), pusi,
                  payload_start - 4, PayloadLen, LastSent, Len(stream))
<1> DEFINE field == payload_start - 4
           end == payload_end - 4
           n == Len(stream)
<1>1. /\ ts_packet \in Body /\ pusi \in BOOLEAN
      /\ payload_start \in Nat /\ payload_end \in Nat
      /\ 4 <= payload_start /\ payload_end < TSPacketLen /\ payload_start < payload_end
      /\ payload_end = payload_start + (IF pusi THEN 1 ELSE 0) + (n - LastSent)
      /\ LastSent \in Nat /\ n \in Nat
      /\ Holds(stream, bounds, ts_packet, pusi, field, end, LastSent, n)
      /\ \E k \in 1..Len(bounds) : bounds[k] = n
  BY OpenFacts
<1>2. PayloadLen = TSPacketLen - 4 /\ TSPacketLen \in Nat
  BY PacketSizes
<1>3. field \in Nat /\ end \in Nat /\ payload_end = end + 4 /\ end + Len(b) = PayloadLen
  <2>1. /\ payload_start \in Nat /\ payload_end \in Nat
        /\ 4 <= payload_start /\ payload_start < payload_end
    BY <1>1
  <2>2. Len(b) = TSPacketLen - payload_end
    OBVIOUS
  <2>3. QED BY <1>2, <2>1, <2>2
<1>4. field + (IF pusi THEN 1 ELSE 0) + (n - LastSent) = end
  <2>1. CASE pusi
    BY <1>1, <2>1
  <2>2. CASE ~pusi
    BY <1>1, <2>2
  <2>3. QED BY <1>1, <2>1, <2>2
<1>5. /\ stream \in Seq(Byte) /\ bounds \in Seq(Nat)
      /\ stream' \in Seq(Byte) /\ bounds' \in Seq(Nat)
  BY DEF LinkInv, StreamInv
<1> HIDE DEF field, end
<1>6. n <= Len(stream)
  BY <1>1
<1>7. Holds(stream', bounds', ts_packet, pusi, field, end, LastSent, n)
  <2>1. Holds(stream, bounds, ts_packet, pusi, field, end, LastSent, n)
    BY <1>1
  <2>2. end \in Int
    BY <1>3
  <2> HIDE DEF n
  <2>3. QED BY <1>1, <1>3, <1>5, <1>6, <2>1, <2>2, HoldsGrown
<1>8. \E k \in 1..Len(bounds') : bounds'[k] = n
  BY <1>1, <1>5, GrownBounds
<1> HIDE DEF n
<1>9. Holds(stream', bounds', S!Write(ts_packet, end + 4, b), pusi, field, PayloadLen,
            LastSent, n)
  <2>1. \A i \in 1..Len(b) : b[i] = StuffByte
    OBVIOUS
  <2>2. ts_packet \in Body /\ pusi \in BOOLEAN /\ LastSent \in Nat /\ n \in Nat
    BY <1>1
  <2>3. field \in Nat /\ end \in Nat /\ end + Len(b) = PayloadLen
    BY <1>3
  <2>4. QED BY <1>4, <1>7, <1>8, <2>1, <2>2, <2>3, StuffHolds
<1>10. S!Write(ts_packet, payload_end, b) \in Body
  BY <1>1, WriteProperties
<1>11. QED BY <1>3, <1>9, <1>10 DEF field, n

LEMMA PadOpenPacketStep ==
  ASSUME LinkInv, NEW s, WellFormed(s), submitted' = Append(submitted, s),
         stream' = stream \o s, bounds' = Append(bounds, Len(stream')),
         Transmit, S!PadOpenPacket(s)
  PROVE  SenderInv' /\ Advances
<1> DEFINE b == <<StuffByte>>
           n == Len(stream)
<1>1. /\ S!Open /\ ~pusi /\ payload_end >= TSPacketLen - 1
      /\ ts_packet' = S!Write(ts_packet, TSPacketLen - 1, b)
      /\ S!Produce(FALSE, S!PayloadAFC(payload_start), ts_packet')
      /\ payload_start' = 0 /\ pusi' = FALSE
      /\ sender_cc' = NextCC(sender_cc)
      /\ rest' = s /\ wrote_section_start' = FALSE /\ sender_pc' = "more"
      /\ UNCHANGED <<payload_end, pid>>
  BY SenderNames DEF S!PadOpenPacket, S!NoRoomForPointer, S!Close, S!CountPacket
<1>2. /\ payload_start \in Nat /\ payload_end \in Nat /\ ts_packet \in Body /\ pid = 0
      /\ 4 <= payload_start /\ payload_end < TSPacketLen /\ payload_start < payload_end
      /\ LastSent \in Nat /\ n \in Nat
  BY <1>1, OpenFacts
<1>3. TSPacketLen \in Nat /\ PayloadLen = TSPacketLen - 4 /\ HeaderLen = 4
  BY PacketSizes
<1>4. payload_end = TSPacketLen - 1
  BY <1>1, <1>2, <1>3
<1>5. b \in Seq(Byte) /\ Len(b) = 1 /\ \A i \in 1..Len(b) : b[i] = StuffByte
  <2>1. StuffByte \in Byte
    BY DEF StuffByte, Byte
  <2>2. QED BY <2>1
<1>6. /\ StreamInv' /\ Grown(stream, bounds, stream', bounds')
      /\ s \in Seq(Byte) /\ Len(s) \in Nat /\ Len(s) >= 3
      /\ Len(stream') = Len(stream) + Len(s)
      /\ \A i \in 1..Len(s) : s[i] = stream'[Len(stream) + i]
      /\ Len(submitted) \in Nat /\ Len(submitted') = Len(submitted) + 1 /\ submitted' # <<>>
      /\ \A k \in 1..Len(submitted) : submitted'[k] = submitted[k]
      /\ bounds'[Len(submitted')] = Len(stream)
  BY SubmitFacts
<1> HIDE DEF b
<1>7. ts_packet' \in Body
      /\ Holds(stream', bounds', ts_packet', pusi, payload_start - 4, PayloadLen, LastSent, n)
  <2>1. Len(b) = TSPacketLen - payload_end
    BY <1>3, <1>4, <1>5
  <2>2. ts_packet' = S!Write(ts_packet, payload_end, b)
    BY <1>1, <1>4
  <2>3. QED BY <1>1, <1>5, <1>6, <2>1, <2>2, StuffedPacket
<1>8. PacketsInv /\ SenderInv
  BY DEF LinkInv
<1>9. /\ packet' \in Pkt /\ LastSent < n
      /\ Complete(stream', bounds', packet', produced + 1, LastSent, n)
  <2> DEFINE field == payload_start - 4
  <2>1. field \in Nat /\ field <= PayloadLen /\ payload_start = HeaderLen + field
    BY <1>2, <1>3
  <2>2. pusi = FALSE
    BY <1>1, OpenFacts
  <2> HIDE DEF field, n
  <2>3. S!Produce(FALSE, S!PayloadAFC(HeaderLen + field), ts_packet')
    BY <1>1, <2>1
  <2>4. Holds(stream', bounds', ts_packet', FALSE, field, PayloadLen, LastSent, n)
    BY <1>7, <2>2 DEF field
  <2>5. QED BY <1>2, <1>7, <1>8, <2>1, <2>3, <2>4, PacketComplete
<1>10. Written' = n
  BY <1>1, <1>2, <1>6 DEF Written
<1>11. Advances /\ produced' = produced + 1 /\ LastSent' = n
  <2>1. n <= Len(stream') /\ Len(submitted') >= Len(submitted)
    BY <1>2, <1>6
  <2>2. QED BY <1>2, <1>6, <1>8, <1>9, <1>10, <2>1, PacketAdvances
<1>12. sender_cc' = produced' % CCMod
  BY <1>1, <1>8, <1>11, SenderCounter
<1>13. rest' # <<>>
  BY <1>1, <1>6, EmptySeq
<1>14. \A i \in 1..Len(rest') : rest'[i] = stream'[Written' + i]
  BY <1>1, <1>6, <1>10
<1>15. rest' \in Seq(Byte) /\ Len(rest') <= Len(stream')
  BY <1>1, <1>2, <1>6
<1>16. /\ bounds'[Len(submitted')] <= Written'
       /\ wrote_section_start' \in BOOLEAN
       /\ wrote_section_start' <=> bounds'[Len(submitted')] < Written'
  <2>1. bounds'[Len(submitted')] = n /\ Written' = n
    BY <1>6, <1>10
  <2> HIDE DEF n
  <2>2. n <= n /\ ~(n < n)
    BY <1>2
  <2>3. QED BY <1>1, <2>1, <2>2
<1>17. payload_end' \in Nat /\ pid' = 0
  BY <1>1, <1>2
<1>18. SenderInv'
  BY <1>1, <1>6, <1>7, <1>10, <1>11, <1>12, <1>13, <1>14, <1>15, <1>16, <1>17, ClosedInv
<1>19. QED BY <1>11, <1>18

LEMMA NothingSubmitted ==
  ASSUME LinkInv, UNCHANGED <<submitted, stream, bounds>>
  PROVE  /\ StreamInv' /\ Grown(stream, bounds, stream', bounds')
         /\ Len(submitted') >= Len(submitted)
         /\ \A k \in 1..Len(submitted) : submitted'[k] = submitted[k]
         /\ Len(stream) \in Nat /\ Len(submitted) \in Nat
<1>1. StreamInv /\ submitted' = submitted /\ stream' = stream /\ bounds' = bounds
  BY DEF LinkInv
<1>2. StreamInv'
  BY <1>1 DEF StreamInv
<1>3. Len(stream) \in Nat /\ Len(bounds) \in Nat /\ Len(submitted) \in Nat
  BY <1>1, StreamFacts
<1>4. Grown(stream, bounds, stream', bounds')
  <2>1. \A k \in 1..Len(bounds) : ~(Len(bounds) < k)
    BY <1>3
  <2>2. QED BY <1>1, <1>3, <2>1 DEF Grown
<1>5. QED BY <1>1, <1>2, <1>3, <1>4

LEMMA StuffingProperties ==
  ASSUME NEW n \in Nat
  PROVE  /\ S!Stuffing(n) \in Seq(Byte) /\ Len(S!Stuffing(n)) = n
         /\ \A i \in 1..n : S!Stuffing(n)[i] = StuffByte
<1>1. StuffByte \in Byte
  BY DEF StuffByte, Byte
<1>2. S!Stuffing(n) = [i \in 1..n |-> StuffByte]
  BY SenderNames DEF S!Stuffing
<1>3. QED BY <1>1, <1>2

LEMMA FlushStep ==
  ASSUME LinkInv, UNCHANGED <<submitted, stream, bounds>>, Transmit, S!Flush
  PROVE  SenderInv' /\ Advances
<1> DEFINE b == S!Stuffing(TSPacketLen - payload_end)
           n == Len(stream)
<1>1. /\ S!Open /\ sender_pc = "idle"
      /\ ts_packet' = S!Write(ts_packet, payload_end, b)
      /\ S!Produce(pusi, S!PayloadAFC(payload_start), ts_packet')
      /\ payload_start' = 0 /\ pusi' = FALSE
      /\ sender_cc' = NextCC(sender_cc)
      /\ UNCHANGED <<rest, wrote_section_start, sender_pc, payload_end, pid>>
  BY SenderNames DEF S!Flush, S!Close, S!CountPacket
<1>2. /\ payload_start \in Nat /\ payload_end \in Nat /\ ts_packet \in Body /\ pid = 0
      /\ 4 <= payload_start /\ payload_end < TSPacketLen /\ payload_start < payload_end
      /\ LastSent \in Nat /\ n \in Nat /\ rest = <<>> /\ wrote_section_start = FALSE
      /\ pusi \in BOOLEAN
  BY <1>1, OpenFacts
<1>3. TSPacketLen \in Nat /\ PayloadLen = TSPacketLen - 4 /\ HeaderLen = 4
  BY PacketSizes
<1>4. b \in Seq(Byte) /\ Len(b) = TSPacketLen - payload_end
      /\ \A i \in 1..Len(b) : b[i] = StuffByte
  <2>1. TSPacketLen - payload_end \in Nat
    BY <1>2, <1>3
  <2>2. QED BY <2>1, StuffingProperties
<1>5. /\ StreamInv' /\ Grown(stream, bounds, stream', bounds')
      /\ Len(submitted') >= Len(submitted)
      /\ \A k \in 1..Len(submitted) : submitted'[k] = submitted[k]
  BY NothingSubmitted
<1> HIDE DEF b
<1>6. ts_packet' \in Body
      /\ Holds(stream', bounds', ts_packet', pusi, payload_start - 4, PayloadLen, LastSent, n)
  BY <1>1, <1>4, <1>5, StuffedPacket
<1>7. PacketsInv /\ SenderInv
  BY DEF LinkInv
<1>8. /\ packet' \in Pkt /\ LastSent < n
      /\ Complete(stream', bounds', packet', produced + 1, LastSent, n)
  <2> DEFINE field == payload_start - 4
  <2>1. field \in Nat /\ field <= PayloadLen /\ payload_start = HeaderLen + field
    BY <1>2, <1>3
  <2> HIDE DEF field, n
  <2>2. S!Produce(pusi, S!PayloadAFC(HeaderLen + field), ts_packet')
    BY <1>1, <2>1
  <2>3. Holds(stream', bounds', ts_packet', pusi, field, PayloadLen, LastSent, n)
    BY <1>6 DEF field
  <2>4. QED BY <1>2, <1>6, <1>7, <2>1, <2>2, <2>3, PacketComplete
<1>9. Written' = n /\ rest' = <<>> /\ Len(rest') = 0 /\ stream' = stream
  BY <1>1, <1>2, EmptySeq DEF Written
<1>10. Advances /\ produced' = produced + 1 /\ LastSent' = n
  <2>1. n <= Len(stream')
    BY <1>2, <1>9
  <2>2. QED BY <1>2, <1>5, <1>7, <1>8, <1>9, <2>1, PacketAdvances
<1>11. sender_cc' = produced' % CCMod
  BY <1>1, <1>7, <1>10, SenderCounter
<1>12. rest' \in Seq(Byte) /\ Len(rest') <= Len(stream')
       /\ \A i \in 1..Len(rest') : rest'[i] = stream'[Written' + i]
  <2>1. \A i \in 1..0 : FALSE
    OBVIOUS
  <2>2. QED BY <1>2, <1>9, <2>1, EmptySeq
<1>13. /\ payload_end' \in Nat /\ pid' = 0 /\ sender_pc' = "idle"
       /\ wrote_section_start' = FALSE
  BY <1>1, <1>2
<1>14. SenderInv'
  BY <1>1, <1>6, <1>9, <1>10, <1>11, <1>12, <1>13, ClosedInv
<1>15. QED BY <1>10, <1>14

\* a section that starts in the open packet: its pointer field leads to where
\* the bytes already there end, unless a section started among them
LEMMA PointedPacket ==
  ASSUME LinkInv, S!Open, ~S!NoRoomForPointer
  PROVE  LET field == payload_start - 4 IN
         /\ S!Pointed \in Body
         /\ S!PointedEnd = field + 1 + (Len(stream) - LastSent) + 4
         /\ S!PointedEnd < TSPacketLen
         /\ field > 0 => S!Pointed[1] = field - 1
         /\ Reads(stream, bounds, S!Pointed, field + 2, S!PointedEnd - 4, LastSent, Len(stream))
         /\ \E m \in 1..Len(bounds) : Points(bounds, S!Pointed[field + 1], LastSent, m)
<1> DEFINE field == payload_start - 4
           end == payload_end - 4
           n == Len(stream)
           o == LastSent
<1>1. /\ ts_packet \in Body /\ pusi \in BOOLEAN
      /\ payload_start \in Nat /\ payload_end \in Nat
      /\ 4 <= payload_start /\ payload_end < TSPacketLen /\ payload_start < payload_end
      /\ o \in Nat /\ n \in Nat /\ o < n
      /\ Holds(stream, bounds, ts_packet, pusi, field, end, o, n)
  BY OpenFacts
<1>2. /\ PayloadLen = TSPacketLen - 4 /\ TSPacketLen \in Nat /\ TSPacketLen <= 255
      /\ S!HeaderLen = 4 /\ PayloadLen \in Nat
  BY PacketSizes, SenderNames
<1>3. field \in Nat /\ end \in Nat /\ payload_start = field + 4 /\ payload_end = end + 4
      /\ end <= PayloadLen - 1 /\ field < end
  BY <1>1, <1>2
<1>4. CASE pusi
  <2>1. S!Pointed = ts_packet /\ S!PointedEnd = payload_end
    BY <1>4 DEF S!Pointed, S!PointedEnd
  <2>2. payload_end = payload_start + 1 + (n - o)
    BY <1>4, OpenFacts
  <2>3. S!PointedEnd = field + 1 + (n - o) + 4 /\ S!PointedEnd < TSPacketLen
    BY <1>1, <1>3, <2>1, <2>2
  <2>4. /\ field > 0 => ts_packet[1] = field - 1
        /\ Reads(stream, bounds, ts_packet, field + 2, end, o, n)
        /\ \E m \in 1..Len(bounds) : Points(bounds, ts_packet[field + 1], o, m)
    BY <1>1, <1>4 DEF Holds
  <2>5. QED BY <1>1, <2>1, <2>3, <2>4
<1>5. CASE ~pusi
  <2> DEFINE l == n - o
             left == S!Leftover
             b == <<Len(left)>> \o left
             w == S!Write(ts_packet, payload_start, b)
  <2>1. payload_end = payload_start + l /\ l \in Nat /\ l >= 1
    <3>1. payload_end = payload_start + 0 + (n - o)
      BY <1>5, OpenFacts
    <3>2. QED BY <1>1, <3>1
  <2>2. payload_end < TSPacketLen - 1
    BY <1>1, <1>2, <1>5 DEF S!NoRoomForPointer
  <2>3. /\ left \in Seq(Byte) /\ Len(left) = l
        /\ \A i \in 1..l : left[i] = ts_packet[field + i]
    <3>1. left = SubSeq(ts_packet, field + 1, end)
      BY <1>2, <1>3 DEF S!Leftover
    <3>2. \A i \in (field + 1)..end : ts_packet[i] \in Byte
      BY <1>1, <1>2, <1>3 DEF Body
    <3>3. field + 1 \in Int /\ end \in Int /\ end - (field + 1) + 1 = l /\ field + 1 <= end
      BY <1>1, <1>3, <2>1
    <3> HIDE DEF field, end, l, left
    <3>4. /\ left \in Seq(Byte) /\ Len(left) = l
          /\ \A i \in 1..l : left[i] = ts_packet[field + 1 + i - 1]
      BY <3>1, <3>2, <3>3, SubSeqProperties
    <3>5. \A i \in 1..l : field + 1 + i - 1 = field + i
      BY <1>3
    <3>6. QED BY <3>4, <3>5
  <2>4. /\ b \in Seq(Byte) /\ Len(b) = l + 1
        /\ \A i \in 1..(l + 1) : b[i] = IF i = 1 THEN l ELSE left[i - 1]
    <3>1. l \in Byte
      <4>1. /\ payload_start \in Nat /\ payload_end \in Nat /\ payload_end < 255
        BY <1>1, <1>2
      <4> HIDE DEF l
      <4>2. QED BY <2>1, <4>1 DEF Byte
    <3>2. <<l>> \in Seq(Byte) /\ Len(<<l>>) = 1 /\ <<l>>[1] = l
      BY <3>1
    <3> DEFINE h == <<l>>
    <3>3. b = h \o left
      BY <2>3
    <3> HIDE DEF h, left, l
    <3>4. /\ h \o left \in Seq(Byte) /\ Len(h \o left) = 1 + l
          /\ \A i \in 1..(1 + l) : (h \o left)[i] = IF i <= 1 THEN h[i] ELSE left[i - 1]
      BY <2>3, <3>2, ConcatProperties DEF h
    <3>5. \A i \in 1..(l + 1) : i <= 1 <=> i = 1
      BY <2>1
    <3>6. QED BY <2>1, <3>2, <3>3, <3>4, <3>5 DEF h
  <2> HIDE DEF b, left, l
  <2>5. /\ w \in Body
        /\ \A i \in 1..PayloadLen :
             w[i] = IF i + 4 - payload_start \in 1..(l + 1) THEN b[i + 4 - payload_start]
                    ELSE ts_packet[i]
    BY <1>1, <2>4, WriteProperties
  <2>6. S!Pointed = w /\ S!PointedEnd = payload_end + 1
    BY <1>5 DEF S!Pointed, S!PointedEnd, b, left
  <2> HIDE DEF w
  <2>7. S!PointedEnd = field + 1 + l + 4 /\ S!PointedEnd < TSPacketLen
        /\ end = field + l
    BY <1>1, <1>2, <1>3, <2>1, <2>2, <2>6
  <2>8. field > 0 => w[1] = field - 1
    <3>1. ASSUME field > 0 PROVE w[1] = field - 1
      <4>1. ts_packet[1] = field - 1
        BY <1>1, <3>1 DEF Holds
      <4>2. 1 \in 1..PayloadLen /\ ~(1 + 4 - payload_start \in 1..(l + 1))
        BY <1>2, <1>3, <2>1, <3>1
      <4>3. QED BY <2>5, <4>1, <4>2
    <3>2. QED BY <3>1
  <2>9. w[field + 1] = l
    <3> DEFINE i == field + 1
    <3>1. i \in 1..PayloadLen /\ i + 4 - payload_start = 1 /\ 1 \in 1..(l + 1)
      BY <1>2, <1>3, <2>1
    <3> HIDE DEF i
    <3>2. w[i] = b[1]
      BY <2>5, <3>1
    <3>3. QED BY <2>4, <3>1, <3>2 DEF i
  <2>10. Reads(stream, bounds, ts_packet, field + 1, end, o, n)
    BY <1>1, <1>5 DEF Holds
  <2>11. ASSUME NEW i \in (field + 2)..(end + 1)
         PROVE  w[i] = IF i - (field + 2) < n - o THEN stream[o + 1 + (i - (field + 2))]
                       ELSE StuffByte
    <3> DEFINE j == i - (field + 1)
               x == i - 1
    <3>1. /\ i \in 1..PayloadLen /\ i + 4 - payload_start = j + 1
          /\ j + 1 \in 1..(l + 1) /\ ~(j + 1 = 1) /\ (j + 1) - 1 = j /\ j \in 1..l
          /\ field + j = x /\ x \in (field + 1)..end
          /\ i - (field + 2) = x - (field + 1)
      BY <1>2, <1>3, <2>1, <2>7
    <3> HIDE DEF j, x
    <3>2. w[i] = b[j + 1]
      BY <2>5, <3>1
    <3>3. b[j + 1] = left[j]
      BY <2>4, <3>1
    <3>4. left[j] = ts_packet[x]
      BY <2>3, <3>1
    <3>5. ts_packet[x] = IF x - (field + 1) < n - o THEN stream[o + 1 + (x - (field + 1))]
                         ELSE StuffByte
      BY <2>10, <3>1 DEF Reads
    <3>6. QED BY <3>1, <3>2, <3>3, <3>4, <3>5
  <2>12. Reads(stream, bounds, w, field + 2, end + 1, o, n)
    <3>1. o <= n /\ field + 2 + (n - o) <= end + 1 + 1 /\ ~(field + 2 + (n - o) <= end + 1)
      BY <1>1, <1>3, <2>7 DEF l
    <3>2. QED BY <2>11, <3>1 DEF Reads
  <2>13. \E m \in 1..Len(bounds) : Points(bounds, w[field + 1], o, m)
    <3> DEFINE m == Len(bounds)
    <3>1. /\ m \in 1..m /\ bounds[m] = n
          /\ \A j, k \in 1..m : j < k => bounds[j] < bounds[k]
          /\ \A k \in 1..m : bounds[k] \in Nat
      BY StreamFacts DEF LinkInv
    <3>2. \A k \in 1..m : bounds[k] < o \/ n <= bounds[k]
      BY <1>1, <1>5 DEF Holds
    <3>3. \A k \in 1..m : k < m => bounds[k] < o
      BY <1>1, <3>1, <3>2
    <3>4. bounds[m] = o + w[field + 1]
      BY <1>1, <2>9, <3>1 DEF l
    <3>5. QED BY <3>1, <3>3, <3>4 DEF Points
  <2>14. S!PointedEnd - 4 = end + 1
    BY <1>3, <2>1, <2>7
  <2>15. QED BY <2>5, <2>6, <2>7, <2>8, <2>12, <2>13, <2>14 DEF l
<1>6. QED BY <1>1, <1>4, <1>5

\* ... with the first bytes of the new section behind it
LEMMA ExtendedPacket ==
  ASSUME LinkInv, S!Open, ~S!NoRoomForPointer,
         NEW s, WellFormed(s), submitted' = Append(submitted, s),
         stream' = stream \o s, bounds' = Append(bounds, Len(stream')),
         NEW b \in Seq(Byte), Len(b) >= 1, Len(b) <= Len(s),
         \A i \in 1..Len(b) : b[i] = s[i],
         S!PointedEnd + Len(b) <= TSPacketLen
  PROVE  LET w == S!Write(S!Pointed, S!PointedEnd, b) IN
         /\ w \in Body
         /\ Holds(stream', bounds', w, TRUE, payload_start - 4,
                  S!PointedEnd - 4 + Len(b), LastSent, Len(stream) + Len(b))
<1> DEFINE field == payload_start - 4
           n == Len(stream)
           o == LastSent
           P == S!Pointed
           end == S!PointedEnd - 4
           l == Len(b)
           w == S!Write(P, S!PointedEnd, b)
<1>1. /\ P \in Body
      /\ S!PointedEnd = field + 1 + (n - o) + 4
      /\ field > 0 => P[1] = field - 1
      /\ Reads(stream, bounds, P, field + 2, end, o, n)
      /\ \E m \in 1..Len(bounds) : Points(bounds, P[field + 1], o, m)
  BY PointedPacket
<1>2. /\ payload_start \in Nat /\ 4 <= payload_start
      /\ o \in Nat /\ n \in Nat /\ o < n
  BY OpenFacts
<1>3. PayloadLen = TSPacketLen - 4 /\ TSPacketLen \in Nat /\ PayloadLen \in Nat
  BY PacketSizes
<1>4. field \in Nat /\ end \in Nat /\ S!PointedEnd = end + 4 /\ end = field + 1 + (n - o)
  BY <1>1, <1>2
<1>5. l \in Nat /\ l >= 1 /\ end + l <= PayloadLen
  BY <1>3, <1>4, LenProperties
<1>6. /\ StreamInv' /\ Grown(stream, bounds, stream', bounds')
      /\ Len(stream') = n + Len(s) /\ Len(s) \in Nat
      /\ \A i \in 1..Len(s) : s[i] = stream'[n + i]
  BY SubmitFacts
<1>7. /\ stream \in Seq(Byte) /\ bounds \in Seq(Nat)
      /\ stream' \in Seq(Byte) /\ bounds' \in Seq(Nat)
  BY <1>6 DEF LinkInv, StreamInv
<1> HIDE DEF field, end, P
<1>8. Reads(stream', bounds', P, field + 2, end, o, n)
  <2>1. n <= Len(stream) /\ field + 2 \in Int /\ end \in Int /\ o \in Nat /\ n \in Nat
    BY <1>2, <1>4
  <2>2. Reads(stream, bounds, P, field + 2, end, o, n)
    BY <1>1
  <2>3. Grown(stream, bounds, stream', bounds')
    BY <1>6
  <2> DEFINE lo == field + 2
             F == stream'
             B == bounds'
  <2> HIDE DEF n, o, lo, F, B
  <2>4. /\ n <= Len(stream) /\ lo \in Int /\ end \in Int /\ o \in Nat /\ n \in Nat
        /\ Reads(stream, bounds, P, lo, end, o, n)
    BY <2>1, <2>2 DEF lo
  <2>5. F \in Seq(Byte) /\ B \in Seq(Nat) /\ Grown(stream, bounds, F, B)
    BY <1>7, <2>3 DEF F, B
  <2>6. stream \in Seq(Byte) /\ bounds \in Seq(Nat)
    BY <1>7
  <2>7. Reads(F, B, P, lo, end, o, n)
    BY <2>4, <2>5, <2>6, ReadsGrown
  <2>8. QED BY <2>7 DEF lo, F, B
<1>9. \A i \in 1..l : b[i] = stream'[n + i]
  <2>1. \A i \in 1..l : i \in 1..Len(s) /\ b[i] = s[i]
    BY <1>5, <1>6
  <2> HIDE DEF n, l
  <2>2. QED BY <1>6, <2>1
<1>10. w = S!Write(P, end + 4, b)
  BY <1>4
<1>11. Reads(stream', bounds', w, field + 2, end + l, o, n + l)
  <2> DEFINE lo == field + 2
  <2>1. lo \in Nat /\ 1 <= lo /\ end + 1 - lo = n - o /\ end \in Nat
        /\ o \in Int /\ n \in Int
    BY <1>2, <1>4
  <2>2. \A i \in 1..Len(b) : b[i] = stream'[n + i]
    BY <1>9
  <2>3. end + Len(b) <= PayloadLen
    BY <1>5
  <2>4. P \in Body
    BY <1>1
  <2>5. Reads(stream', bounds', P, lo, end, o, n)
    BY <1>8
  <2> HIDE DEF n, o, w, lo
  <2>6. Reads(stream', bounds', S!Write(P, end + 4, b), lo, end + Len(b), o, n + Len(b))
    BY <2>1, <2>2, <2>3, <2>4, <2>5, WriteAppends
  <2>7. QED BY <1>10, <2>6 DEF lo
<1>12. /\ field > 0 => w[1] = field - 1
       /\ w[field + 1] = P[field + 1]
  <2>1. \A i \in 1..end : w[i] = P[i]
    <3>1. \A i \in 1..end : i \in 1..PayloadLen /\ i + 4 < end + 4 + 1
      <4>1. end \in Nat /\ l \in Nat /\ l >= 1 /\ end + l <= PayloadLen /\ PayloadLen \in Nat
        BY <1>3, <1>4, <1>5
      <4> HIDE DEF l
      <4>2. QED BY <4>1
    <3> HIDE DEF w
    <3>2. end + 4 \in Int
      BY <1>4
    <3>3. QED BY <1>1, <1>10, <3>1, <3>2, WriteKeeps
  <2>2. 1 \in 1..end /\ field + 1 \in 1..end
    BY <1>2, <1>4
  <2>3. QED BY <1>1, <2>1, <2>2
<1>13. \E m \in 1..Len(bounds') : Points(bounds', w[field + 1], o, m) /\ bounds'[m] < n + l
  <2>1. PICK m \in 1..Len(bounds) : Points(bounds, P[field + 1], o, m)
    BY <1>1
  <2>2. Len(bounds) \in Nat /\ Len(bounds') \in Nat /\ bounds[m] \in Nat /\ bounds[m] <= n
    BY <1>7, LenProperties, StreamFacts DEF LinkInv
  <2>3. \A k \in 1..Len(bounds) : k \in 1..Len(bounds') /\ bounds'[k] = bounds[k]
    BY <1>6, <1>7, GrownBounds
  <2>4. bounds'[m] < n + l
    BY <1>2, <1>5, <2>2, <2>3
  <2>5. ASSUME NEW k \in 1..Len(bounds'), k < m
        PROVE  bounds'[k] < o
    <3>1. k \in 1..Len(bounds)
      BY <2>2, <2>5
    <3>2. QED BY <2>1, <2>3, <2>5, <3>1 DEF Points
  <2>6. bounds'[m] = o + w[field + 1]
    BY <1>12, <2>1, <2>3 DEF Points
  <2>7. QED BY <2>3, <2>4, <2>5, <2>6 DEF Points
<1>14. o < n + l
  BY <1>2, <1>5
<1>15. w \in Body
  <2>1. end + 4 \in Int
    BY <1>4
  <2>2. QED BY <1>1, <1>10, <2>1, WriteProperties
<1>16. Holds(stream', bounds', w, TRUE, field, end + l, o, n + l)
  <2> HIDE DEF w
  <2>1. QED BY <1>11, <1>12, <1>13, <1>14 DEF Holds
<1>17. QED BY <1>15, <1>16 DEF field, end, P

\* an open packet
LEMMA OpenInv ==
  ASSUME StreamInv', payload_start' \in Nat, 4 <= payload_start', payload_end' \in Nat,
         payload_end' < TSPacketLen, ts_packet' \in Body, pusi' \in BOOLEAN, pid' = 0,
         sender_cc' = produced' % CCMod, sender_pc' = "idle", rest' = <<>>,
         wrote_section_start' = FALSE,
         payload_end' = payload_start' + (IF pusi' THEN 1 ELSE 0) + (Len(stream') - LastSent'),
         Holds(stream', bounds', ts_packet', pusi', payload_start' - 4, payload_end' - 4,
               LastSent', Len(stream'))
  PROVE  SenderInv'
<1>1. HeaderLen = 4
  BY PacketSizes
<1>2. S!Open'
  BY DEF S!Open
<1>3. Len(stream') \in Nat
  BY LenProperties DEF StreamInv
<1>4. rest' \in Seq(Byte) /\ Len(rest') = 0 /\ Len(rest') <= Len(stream')
  BY <1>3, EmptySeq
<1>5. \A i \in 1..Len(rest') : rest'[i] = stream'[Written' + i]
  <2>1. \A i \in 1..0 : FALSE
    OBVIOUS
  <2>2. QED BY <1>4, <2>1
<1>6. /\ payload_end' = payload_start' + (IF pusi' THEN 1 ELSE 0) + (Len(stream') - LastSent')
      /\ Holds(stream', bounds', ts_packet', pusi', payload_start' - HeaderLen,
               payload_end' - HeaderLen, LastSent', Len(stream'))
      /\ HeaderLen <= payload_start'
  BY <1>1
<1>7. QED BY <1>2, <1>4, <1>5, <1>6 DEF SenderInv, Body

LEMMA AddToOpenPacketStep ==
  ASSUME LinkInv, NEW s, WellFormed(s), submitted' = Append(submitted, s),
         stream' = stream \o s, bounds' = Append(bounds, Len(stream')),
         Transmit, S!AddToOpenPacket(s)
  PROVE  SenderInv' /\ Advances
<1> DEFINE n == Len(stream)
           l == Len(s)
<1>1. /\ S!Open /\ ~S!NoRoomForPointer
      /\ TSPacketLen - S!PointedEnd > l
      /\ ts_packet' = S!Write(S!Pointed, S!PointedEnd, s)
      /\ payload_end' = S!PointedEnd + l
      /\ pusi' = TRUE /\ packet' = S!NoPacket
      /\ UNCHANGED <<payload_start, sender_cc, pid, sender_pc, rest, wrote_section_start>>
  BY DEF S!AddToOpenPacket
<1>2. /\ sender_pc = "idle" /\ rest = <<>> /\ wrote_section_start = FALSE /\ pid = 0
      /\ payload_start \in Nat /\ 4 <= payload_start
      /\ LastSent \in Nat /\ n \in Nat /\ LastSent < n
  BY <1>1, OpenFacts
<1>3. /\ StreamInv' /\ Grown(stream, bounds, stream', bounds')
      /\ s \in Seq(Byte) /\ l \in Nat /\ l >= 3
      /\ Len(stream') = n + l
      /\ Len(submitted) \in Nat /\ Len(submitted') = Len(submitted) + 1
      /\ \A k \in 1..Len(submitted) : submitted'[k] = submitted[k]
  BY SubmitFacts
<1>4. PacketsInv /\ sender_cc = produced % CCMod
  BY DEF LinkInv, SenderInv
<1>5. /\ wire' = wire /\ sent' = sent /\ produced' = produced /\ LastSent' = LastSent
      /\ PacketsInv'
  <2>1. n <= Len(stream') /\ Len(stream') \in Nat
    BY <1>2, <1>3
  <2>2. QED BY <1>1, <1>2, <1>4, <2>1, TransmitNothing
<1>6. S!PointedEnd = (payload_start - 4) + 1 + (n - LastSent) + 4 /\ TSPacketLen \in Nat
  BY <1>1, PointedPacket, PacketSizes
<1>7. /\ ts_packet' \in Body
      /\ Holds(stream', bounds', ts_packet', TRUE, payload_start - 4,
               S!PointedEnd - 4 + l, LastSent, n + l)
  <2>1. \A i \in 1..Len(s) : s[i] = s[i]
    OBVIOUS
  <2>2. S!PointedEnd + Len(s) <= TSPacketLen /\ Len(s) >= 1 /\ Len(s) <= Len(s)
    BY <1>1, <1>2, <1>3, <1>6
  <2>3. QED BY <1>1, <1>3, <2>1, <2>2, ExtendedPacket
<1>8. /\ payload_end' \in Nat /\ payload_end' < TSPacketLen
      /\ payload_end' = payload_start' + 1 + (Len(stream') - LastSent')
      /\ payload_end' - 4 = S!PointedEnd - 4 + l
  BY <1>1, <1>2, <1>3, <1>5, <1>6
<1>9. Holds(stream', bounds', ts_packet', pusi', payload_start' - 4, payload_end' - 4,
            LastSent', Len(stream'))
  BY <1>1, <1>3, <1>5, <1>7, <1>8
<1>10. payload_end' = payload_start' + (IF pusi' THEN 1 ELSE 0) + (Len(stream') - LastSent')
  BY <1>1, <1>8
<1>11. /\ payload_start' \in Nat /\ 4 <= payload_start' /\ ts_packet' \in Body
       /\ pusi' \in BOOLEAN /\ pid' = 0 /\ sender_cc' = produced' % CCMod
       /\ sender_pc' = "idle" /\ rest' = <<>> /\ wrote_section_start' = FALSE
  BY <1>1, <1>2, <1>4, <1>5, <1>7 DEF Body
<1>12. SenderInv'
  BY <1>3, <1>8, <1>9, <1>10, <1>11, OpenInv
<1>13. Advances
  <2>1. UNCHANGED <<lost, repeated, receiver, received>>
    BY DEF Transmit
  <2>2. QED BY <1>2, <1>3, <1>5, <2>1 DEF Advances
<1>14. QED BY <1>12, <1>13

LEMMA SplitSection ==
  ASSUME NEW s \in Seq(Byte), NEW r \in Nat, r <= Len(s)
  PROVE  /\ SubSeq(s, 1, r) \in Seq(Byte) /\ Len(SubSeq(s, 1, r)) = r
         /\ \A i \in 1..r : SubSeq(s, 1, r)[i] = s[i]
         /\ SubSeq(s, r + 1, Len(s)) \in Seq(Byte)
         /\ Len(SubSeq(s, r + 1, Len(s))) = Len(s) - r
         /\ \A i \in 1..(Len(s) - r) : SubSeq(s, r + 1, Len(s))[i] = s[r + i]
<1>1. Len(s) \in Nat /\ \A i \in 1..Len(s) : s[i] \in Byte
  BY LenProperties, ElementOfSeq
<1>2. \A i \in 1..r : s[i] \in Byte
  BY <1>1
<1>3. /\ SubSeq(s, 1, r) \in Seq(Byte) /\ Len(SubSeq(s, 1, r)) = r
      /\ \A i \in 1..r : SubSeq(s, 1, r)[i] = s[1 + i - 1]
  BY <1>2, SubSeqProperties
<1>4. \A i \in (r + 1)..Len(s) : s[i] \in Byte
  BY <1>1
<1> DEFINE t == SubSeq(s, r + 1, Len(s))
<1>5. /\ t \in Seq(Byte) /\ Len(t) = Len(s) - r
      /\ \A i \in 1..(Len(s) - (r + 1) + 1) : t[i] = s[r + 1 + i - 1]
  BY <1>1, <1>4, SubSeqProperties
<1> HIDE DEF t
<1>6. \A i \in 1..(Len(s) - r) : t[i] = s[r + i]
  <2>1. Len(s) - (r + 1) + 1 = Len(s) - r
    BY <1>1
  <2>2. \A i \in 1..(Len(s) - r) : r + 1 + i - 1 = r + i
    BY <1>1
  <2>3. QED BY <1>5, <2>1, <2>2
<1>7. \A i \in 1..r : 1 + i - 1 = i
  OBVIOUS
<1>8. QED BY <1>3, <1>5, <1>6, <1>7 DEF t

\* a packet that a section fills
\* a step that fills the packet up to byte e of the stream
Filled(start, field, left, e) ==
  /\ StreamInv' /\ Grown(stream, bounds, stream', bounds')
  /\ Len(submitted') >= Len(submitted) /\ submitted' # <<>>
  /\ \A k \in 1..Len(submitted) : submitted'[k] = submitted[k]
  /\ Transmit
  /\ field <= PayloadLen
  /\ S!Produce(start, S!PayloadAFC(HeaderLen + field), ts_packet')
  /\ ts_packet' \in Body /\ payload_end' \in Nat /\ pid' = pid
  /\ S!Close /\ S!CountPacket /\ S!Continue(left)
  /\ Len(left) <= Len(stream')
  /\ e = Len(stream') - Len(left)
  /\ \A i \in 1..Len(left) : left[i] = stream'[e + i]
  /\ Holds(stream', bounds', ts_packet', start, field, PayloadLen, LastSent, e)
  /\ bounds'[Len(submitted')] \in Nat /\ bounds'[Len(submitted')] < e

LEMMA FilledStep ==
  ASSUME LinkInv, NEW start \in BOOLEAN, NEW field \in Nat, NEW left \in Seq(Byte),
         NEW e \in Nat, Filled(start, field, left, e)
  PROVE  SenderInv' /\ Advances
<1> USE DEF Filled
<1>1. /\ rest' = left
      /\ sender_pc' = IF left = <<>> THEN "idle" ELSE "more"
      /\ wrote_section_start' = (left # <<>>)
      /\ payload_start' = 0 /\ pusi' = FALSE /\ sender_cc' = NextCC(sender_cc)
  BY SenderNames DEF S!Continue, S!Close, S!CountPacket
<1>2. PacketsInv /\ SenderInv
  BY DEF LinkInv
<1>3. /\ packet' \in Pkt /\ LastSent < e
      /\ Complete(stream', bounds', packet', produced + 1, LastSent, e)
  BY <1>2, PacketComplete
<1>4. Written' = e
  BY <1>1 DEF Written
<1>5. e <= Len(stream') /\ Len(left) \in Nat /\ Len(stream') \in Nat
  BY LenProperties DEF StreamInv
<1>6. Advances /\ produced' = produced + 1 /\ LastSent' = e
  BY <1>2, <1>3, <1>4, <1>5, PacketAdvances
<1>7. sender_cc' = produced' % CCMod
  BY <1>1, <1>2, <1>6, SenderCounter
<1>8. pid' = 0
  BY <1>2 DEF SenderInv
<1>9. /\ \A i \in 1..Len(rest') : rest'[i] = stream'[Written' + i]
      /\ rest' \in Seq(Byte) /\ Len(rest') <= Len(stream') /\ LastSent' = Written'
  BY <1>1, <1>4, <1>6
<1>10. CASE left = <<>>
  <2>1. sender_pc' = "idle" /\ rest' = <<>> /\ wrote_section_start' = FALSE
    BY <1>1, <1>10
  <2>2. QED BY <1>1, <1>6, <1>7, <1>8, <1>9, <2>1, ClosedInv
<1>11. CASE left # <<>>
  <2>1. /\ sender_pc' = "more" /\ rest' # <<>> /\ wrote_section_start' = TRUE
    BY <1>1, <1>11
  <2>2. bounds'[Len(submitted')] < Written' /\ bounds'[Len(submitted')] <= Written'
    BY <1>4
  <2>3. QED BY <1>1, <1>6, <1>7, <1>8, <1>9, <2>1, <2>2, ClosedInv
<1>12. QED BY <1>10, <1>11

LEMMA FillOpenPacketStep ==
  ASSUME LinkInv, NEW s, WellFormed(s), submitted' = Append(submitted, s),
         stream' = stream \o s, bounds' = Append(bounds, Len(stream')),
         Transmit, S!FillOpenPacket(s)
  PROVE  SenderInv' /\ Advances
<1> DEFINE n == Len(stream)
           l == Len(s)
           room == TSPacketLen - S!PointedEnd
           b == SubSeq(s, 1, room)
           left == SubSeq(s, room + 1, l)
           field == payload_start - 4
<1>1. /\ S!Open /\ ~S!NoRoomForPointer /\ room <= l
      /\ ts_packet' = S!Write(S!Pointed, S!PointedEnd, b)
      /\ payload_end' = TSPacketLen
      /\ S!Produce(TRUE, S!PayloadAFC(payload_start), ts_packet')
      /\ S!Close /\ S!CountPacket /\ S!Continue(left) /\ pid' = pid
  BY DEF S!FillOpenPacket
<1>2. /\ payload_start \in Nat /\ 4 <= payload_start /\ payload_start < TSPacketLen
      /\ LastSent \in Nat /\ n \in Nat /\ LastSent < n
  <2>1. /\ payload_start \in Nat /\ payload_end \in Nat /\ 4 <= payload_start
        /\ payload_start < payload_end /\ payload_end < TSPacketLen
    BY <1>1, OpenFacts
  <2>2. QED BY <1>1, <2>1, OpenFacts, PacketSizes
<1>3. /\ StreamInv' /\ Grown(stream, bounds, stream', bounds')
      /\ s \in Seq(Byte) /\ l \in Nat /\ l >= 3 /\ Len(stream') = n + l
      /\ \A i \in 1..l : s[i] = stream'[n + i]
      /\ Len(submitted) \in Nat /\ Len(submitted') = Len(submitted) + 1 /\ submitted' # <<>>
      /\ \A k \in 1..Len(submitted) : submitted'[k] = submitted[k]
      /\ bounds'[Len(submitted')] = n
  BY SubmitFacts
<1>4. TSPacketLen \in Nat /\ PayloadLen = TSPacketLen - 4 /\ HeaderLen = 4
  BY PacketSizes
<1>5. /\ S!PointedEnd = field + 1 + (n - LastSent) + 4 /\ S!PointedEnd < TSPacketLen
  BY <1>1, PointedPacket
<1>6. room \in Nat /\ room >= 1 /\ S!PointedEnd \in Nat
  BY <1>2, <1>4, <1>5
<1>7. /\ b \in Seq(Byte) /\ Len(b) = room /\ \A i \in 1..room : b[i] = s[i]
      /\ left \in Seq(Byte) /\ Len(left) = l - room
      /\ \A i \in 1..(l - room) : left[i] = s[room + i]
  <2> HIDE DEF room
  <2>1. QED BY <1>1, <1>3, <1>6, SplitSection
<1>8. field \in Nat /\ field <= PayloadLen /\ payload_start = HeaderLen + field
  BY <1>2, <1>4
<1> HIDE DEF b, left
<1>9. /\ ts_packet' \in Body
      /\ Holds(stream', bounds', ts_packet', TRUE, field, PayloadLen, LastSent, n + room)
  <2>1. Len(b) >= 1 /\ Len(b) <= Len(s) /\ \A i \in 1..Len(b) : b[i] = s[i]
    BY <1>1, <1>6, <1>7
  <2>2. S!PointedEnd + Len(b) <= TSPacketLen /\ S!PointedEnd - 4 + Len(b) = PayloadLen
    BY <1>4, <1>6, <1>7
  <2>3. /\ S!Write(S!Pointed, S!PointedEnd, b) \in Body
        /\ Holds(stream', bounds', S!Write(S!Pointed, S!PointedEnd, b), TRUE,
                 payload_start - 4, S!PointedEnd - 4 + Len(b), LastSent, Len(stream) + Len(b))
    BY <1>1, <1>7, <2>1, <2>2, ExtendedPacket
  <2>4. QED BY <1>1, <1>7, <2>2, <2>3
<1> DEFINE e == n + room
<1>10. /\ e \in Nat /\ e = Len(stream') - Len(left) /\ Len(left) <= Len(stream')
       /\ n < e
  <2> HIDE DEF n, l, room
  <2>1. QED BY <1>1, <1>2, <1>3, <1>6, <1>7
<1>11. \A i \in 1..Len(left) : left[i] = stream'[e + i]
  <2> HIDE DEF n, l, room
  <2>1. TAKE i \in 1..Len(left)
  <2> DEFINE j == room + i
  <2>2. j \in 1..l /\ n + j = e + i /\ i \in 1..(l - room)
    BY <1>1, <1>2, <1>3, <1>6, <1>7
  <2>3. left[i] = s[j]
    BY <1>7, <2>2
  <2> HIDE DEF j, e
  <2>4. s[j] = stream'[n + j]
    BY <1>3, <2>2
  <2>5. QED BY <2>2, <2>3, <2>4
<1>12. bounds'[Len(submitted')] \in Nat /\ bounds'[Len(submitted')] < e
  BY <1>2, <1>3, <1>10
<1>13. Len(submitted') >= Len(submitted)
  BY <1>3
<1>14. payload_end' \in Nat
  BY <1>1, <1>4
<1>15. S!Produce(TRUE, S!PayloadAFC(HeaderLen + field), ts_packet')
  BY <1>1, <1>8
<1>16. Holds(stream', bounds', ts_packet', TRUE, field, PayloadLen, LastSent, e)
  BY <1>9
<1>17. /\ StreamInv' /\ Grown(stream, bounds, stream', bounds') /\ submitted' # <<>>
       /\ \A k \in 1..Len(submitted) : submitted'[k] = submitted[k]
  BY <1>3
<1>18. S!Close /\ S!CountPacket /\ S!Continue(left) /\ pid' = pid
  BY <1>1
<1>19. left \in Seq(Byte) /\ field \in Nat /\ field <= PayloadLen /\ ts_packet' \in Body
       /\ TRUE \in BOOLEAN
  BY <1>7, <1>8, <1>9
<1> HIDE DEF e, field, n, l, room
<1>20. Filled(TRUE, field, left, e) /\ e \in Nat
  BY <1>10, <1>11, <1>12, <1>13, <1>14, <1>15, <1>16, <1>17, <1>18, <1>19 DEF Filled
<1>21. QED BY <1>19, <1>20, FilledStep


\* what precedes the payload of a packet
LEMMA AdaptationFieldProperties ==
  ASSUME NEW n \in 0..PayloadLen
  PROVE  /\ S!AdaptationField(n) \in Seq(Byte) /\ Len(S!AdaptationField(n)) = n
         /\ n > 0 => S!AdaptationField(n)[1] = n - 1
<1>1. PayloadLen \in Nat /\ PayloadLen <= 251
  BY PacketSizes
<1>2. CASE n = 0
  BY <1>2, EmptySeq DEF S!AdaptationField
<1>3. CASE n # 0
  <2> DEFINE h == <<n - 1>>
             t == S!Stuffing(n - 1)
  <2>1. h \in Seq(Byte) /\ Len(h) = 1 /\ h[1] = n - 1
    <3>1. n - 1 \in Byte
      BY <1>1, <1>3 DEF Byte
    <3>2. QED BY <3>1
  <2>2. t \in Seq(Byte) /\ Len(t) = n - 1
    <3>1. n - 1 \in Nat
      BY <1>3
    <3>2. QED BY <3>1, StuffingProperties
  <2>3. S!AdaptationField(n) = h \o t
    BY <1>3 DEF S!AdaptationField
  <2> HIDE DEF h, t
  <2>4. /\ h \o t \in Seq(Byte) /\ Len(h \o t) = Len(h) + Len(t)
        /\ \A i \in 1..(Len(h) + Len(t)) : (h \o t)[i] = IF i <= Len(h) THEN h[i]
                                                          ELSE t[i - Len(h)]
    BY <2>1, <2>2, ConcatProperties
  <2>5. 1 \in 1..(Len(h) + Len(t)) /\ 1 <= Len(h) /\ Len(h) + Len(t) = n
    BY <1>1, <1>3, <2>1, <2>2
  <2>6. (h \o t)[1] = n - 1
    BY <2>1, <2>4, <2>5
  <2>7. QED BY <2>3, <2>4, <2>5, <2>6
<1>4. QED BY <1>2, <1>3

\* section() at more
LEMMA MoreFacts ==
  ASSUME LinkInv, sender_pc = "more"
  PROVE  /\ ~S!Open /\ pusi = FALSE /\ pid = 0 /\ ts_packet \in Body
         /\ wrote_section_start \in BOOLEAN
         /\ rest \in Seq(Byte) /\ Len(rest) \in Nat /\ Len(rest) >= 1
         /\ Len(stream) \in Nat /\ Len(rest) <= Len(stream)
         /\ Written \in Nat /\ Written + Len(rest) = Len(stream) /\ LastSent = Written
         /\ \A i \in 1..Len(rest) : rest[i] = stream[Written + i]
         /\ submitted # <<>> /\ Len(submitted) \in Nat /\ Len(submitted) \in 1..Len(bounds)
         /\ bounds[Len(submitted)] \in Nat
         /\ bounds[Len(submitted)] <= Written
         /\ wrote_section_start <=> bounds[Len(submitted)] < Written
<1>1. /\ ~S!Open /\ pusi \in BOOLEAN /\ pid = 0 /\ ts_packet \in Body
      /\ wrote_section_start \in BOOLEAN
      /\ rest \in Seq(Byte) /\ rest # <<>> /\ Len(rest) <= Len(stream)
      /\ \A i \in 1..Len(rest) : rest[i] = stream[Written + i]
      /\ submitted # <<>>
      /\ bounds[Len(submitted)] <= Written
      /\ wrote_section_start <=> bounds[Len(submitted)] < Written
  BY DEF LinkInv, SenderInv, Body
<1>2. ~pusi /\ LastSent = Written
  BY <1>1 DEF LinkInv, SenderInv
<1>3. Len(stream) \in Nat /\ Len(submitted) \in Nat /\ Len(bounds) = Len(submitted) + 1
      /\ submitted \in Seq(Seq(Byte))
      /\ \A k \in 1..Len(bounds) : bounds[k] \in Nat
  BY StreamFacts DEF LinkInv
<1>4. Len(rest) \in Nat /\ Len(rest) >= 1
  <2>1. Len(rest) \in Nat /\ Len(rest) # 0
    BY <1>1, LenProperties, EmptySeq
  <2>2. QED BY <2>1
<1>5. Written \in Nat /\ Written + Len(rest) = Len(stream)
  BY <1>1, <1>3, <1>4 DEF Written
<1>6. Len(submitted) \in 1..Len(bounds)
  <2>1. Len(submitted) # 0
    BY <1>1, <1>3, EmptySeq
  <2>2. QED BY <1>3, <2>1
<1>7. QED BY <1>1, <1>2, <1>3, <1>4, <1>5, <1>6


\* a packet with the field and, if a section starts in it, the pointer field
LEMMA HeadPacket ==
  ASSUME LinkInv, sender_pc = "more", NEW n \in 0..PayloadLen, n <= PayloadLen - 2
  PROVE  LET p == IF wrote_section_start THEN 0 ELSE 1 IN
         /\ S!Started(n) \in Body
         /\ S!StartedEnd(n) = n + p + 4
         /\ n > 0 => S!Started(n)[1] = n - 1
         /\ p = 1 => S!Started(n)[n + 1] = 0
<1> DEFINE p == IF wrote_section_start THEN 0 ELSE 1
           f == S!AdaptationField(n)
           z == IF wrote_section_start THEN <<>> ELSE <<0>>
           h == f \o z
           w == S!Write(ts_packet, 4, h)
<1>1. /\ PayloadLen \in Nat /\ S!HeaderLen = 4 /\ n \in Nat
  BY PacketSizes, SenderNames
<1>2. ts_packet \in Body /\ wrote_section_start \in BOOLEAN
  BY MoreFacts
<1>3. f \in Seq(Byte) /\ Len(f) = n /\ (n > 0 => f[1] = n - 1)
  BY AdaptationFieldProperties
<1>4. p \in Nat /\ p <= 1 /\ z \in Seq(Byte) /\ Len(z) = p /\ (p = 1 => z[1] = 0)
  <2>1. CASE wrote_section_start
    BY <2>1, EmptySeq
  <2>2. CASE ~wrote_section_start
    <3>1. 0 \in Byte
      BY DEF Byte
    <3>2. p = 1 /\ z = <<0>>
      BY <2>2
    <3>3. <<0>> \in Seq(Byte) /\ Len(<<0>>) = 1 /\ <<0>>[1] = 0
      BY <3>1
    <3>4. QED BY <3>2, <3>3
  <2>3. QED BY <2>1, <2>2
<1>5. S!Started(n) = w
  BY <1>1 DEF S!Started
<1>6. S!StartedEnd(n) = n + p + 4
  <2>1. CASE wrote_section_start
    <3>1. S!StartedEnd(n) = 4 + n + 0
      BY <1>1, <2>1 DEF S!StartedEnd
    <3>2. QED BY <1>1, <2>1, <3>1
  <2>2. CASE ~wrote_section_start
    <3>1. S!StartedEnd(n) = 4 + n + 1
      BY <1>1, <2>2 DEF S!StartedEnd
    <3>2. QED BY <1>1, <2>2, <3>1
  <2>3. QED BY <2>1, <2>2
<1> HIDE DEF p, f, z
<1>7. /\ h \in Seq(Byte) /\ Len(h) = n + p
      /\ \A i \in 1..(n + p) : h[i] = IF i <= n THEN f[i] ELSE z[i - n]
  BY <1>3, <1>4, ConcatProperties
<1> HIDE DEF h
<1>8. /\ w \in Body
      /\ \A i \in 1..PayloadLen :
           w[i] = IF i + 4 - 4 \in 1..(n + p) THEN h[i + 4 - 4] ELSE ts_packet[i]
  BY <1>2, <1>7, WriteProperties
<1>9. \A i \in 1..PayloadLen : i + 4 - 4 = i
  BY <1>1
<1>10. \A i \in 1..(n + p) : w[i] = h[i]
  <2>1. \A i \in 1..(n + p) : i \in 1..PayloadLen
    BY <1>1, <1>4
  <2>2. QED BY <1>8, <1>9, <2>1
<1> HIDE DEF w
<1>11. n > 0 => w[1] = n - 1
  <2>1. n > 0 => 1 \in 1..(n + p) /\ 1 <= n
    BY <1>1, <1>4
  <2>2. QED BY <1>3, <1>7, <1>10, <2>1
<1>12. ASSUME p = 1 PROVE w[n + 1] = 0
  <2> DEFINE j == n + 1
  <2>1. j \in 1..(n + p) /\ ~(j <= n) /\ j - n = 1
    BY <1>1, <1>12
  <2> HIDE DEF j
  <2>2. w[j] = h[j] /\ h[j] = z[1]
    BY <1>7, <1>10, <2>1
  <2>3. QED BY <1>4, <1>12, <2>2 DEF j
<1>13. QED BY <1>5, <1>6, <1>8, <1>11, <1>12 DEF p

\* ... and the next bytes of the section behind them
LEMMA StartedPacket ==
  ASSUME LinkInv, sender_pc = "more", NEW n \in 0..PayloadLen, n <= PayloadLen - 2,
         NEW b \in Seq(Byte), Len(b) >= 1, Len(b) <= Len(rest),
         \A i \in 1..Len(b) : b[i] = rest[i],
         S!StartedEnd(n) + Len(b) <= TSPacketLen
  PROVE  LET w == S!Write(S!Started(n), S!StartedEnd(n), b) IN
         /\ w \in Body
         /\ Holds(stream, bounds, w, ~wrote_section_start, n,
                  S!StartedEnd(n) - 4 + Len(b), Written, Written + Len(b))
<1> DEFINE p == IF wrote_section_start THEN 0 ELSE 1
           o == Written
           l == Len(b)
           N == Len(submitted)
           start == ~wrote_section_start
           P == S!Started(n)
           end == n + p
           lo == n + p + 1
           w == S!Write(P, end + 4, b)
<1>1. /\ wrote_section_start \in BOOLEAN
      /\ o \in Nat /\ o + Len(rest) = Len(stream) /\ Len(rest) \in Nat
      /\ \A i \in 1..Len(rest) : rest[i] = stream[o + i]
      /\ N \in Nat /\ N \in 1..Len(bounds)
      /\ bounds[N] \in Nat /\ bounds[N] <= o
      /\ wrote_section_start <=> bounds[N] < o
  BY MoreFacts
<1>2. /\ Len(bounds) = N + 1 /\ bounds \in Seq(Nat)
      /\ \A k \in 1..Len(bounds) : bounds[k] \in Nat
      /\ \A k \in 1..Len(bounds) : k = Len(bounds) => bounds[k] = Len(stream)
      /\ \A j, k \in 1..Len(bounds) : j < k => bounds[j] < bounds[k]
  BY StreamFacts DEF LinkInv
<1>3. /\ P \in Body /\ S!StartedEnd(n) = end + 4
      /\ n > 0 => P[1] = n - 1
      /\ p = 1 => P[n + 1] = 0
  BY HeadPacket
<1>4. PayloadLen \in Nat /\ PayloadLen = TSPacketLen - 4 /\ TSPacketLen \in Nat /\ n \in Nat
  BY PacketSizes
<1>5. p \in Nat /\ p <= 1 /\ (p = 1 <=> start)
  BY <1>1
<1>6. l \in Nat /\ l >= 1 /\ l <= Len(rest)
  BY LenProperties
<1>7. end \in Nat /\ lo \in Nat /\ 1 <= lo /\ end + 1 - lo = 0 /\ end + l <= PayloadLen
      /\ end + 4 \in Int
  <2>1. S!StartedEnd(n) + l <= TSPacketLen
    OBVIOUS
  <2> HIDE DEF p, l
  <2>2. end + 4 + l <= TSPacketLen
    BY <1>3, <2>1
  <2>3. QED BY <1>4, <1>5, <1>6, <2>2
<1>8. \A i \in 1..l : b[i] = stream[o + i]
  <2>1. \A i \in 1..l : i \in 1..Len(rest) /\ b[i] = rest[i]
    BY <1>1, <1>6
  <2> HIDE DEF o, l
  <2>2. QED BY <1>1, <2>1
<1> HIDE DEF p, o, P
<1>9. Reads(stream, bounds, P, lo, end, o, o)
  <2>1. \A i \in lo..end : FALSE
    BY <1>4, <1>5
  <2>2. o <= o /\ lo + (o - o) <= end + 1 /\ ~(lo + (o - o) <= end)
    BY <1>1, <1>4, <1>5
  <2> HIDE DEF lo, end
  <2>3. QED BY <2>1, <2>2 DEF Reads
<1>10. Reads(stream, bounds, w, lo, end + l, o, o + l)
  <2>1. \A i \in 1..Len(b) : b[i] = stream[o + i]
    BY <1>8
  <2>2. end + 1 - lo = o - o /\ o \in Int /\ end \in Nat /\ lo \in Nat /\ 1 <= lo
    BY <1>1, <1>7
  <2>3. end + Len(b) <= PayloadLen
    BY <1>7
  <2>4. P \in Body
    BY <1>3
  <2> HIDE DEF lo, end, w
  <2>5. Reads(stream, bounds, S!Write(P, end + 4, b), lo, end + Len(b), o, o + Len(b))
    BY <1>9, <2>1, <2>2, <2>3, <2>4, WriteAppends
  <2>6. QED BY <2>5 DEF w
<1>11. \A i \in 1..end : w[i] = P[i]
  <2>1. \A i \in 1..end : i \in 1..PayloadLen /\ i + 4 < end + 4 + 1
    <3>1. end \in Nat /\ l \in Nat /\ end + l <= PayloadLen /\ PayloadLen \in Nat
      BY <1>4, <1>6, <1>7
    <3> HIDE DEF end, l
    <3>2. QED BY <3>1
  <2>2. end + 4 \in Int /\ P \in Body
    BY <1>3, <1>7
  <2> HIDE DEF end
  <2>3. QED BY <2>1, <2>2, WriteKeeps
<1> HIDE DEF w
<1>12. n > 0 => w[1] = n - 1
  <2>1. n > 0 => 1 \in 1..end
    BY <1>4, <1>5
  <2>2. QED BY <1>3, <1>11, <2>1
<1>13. o < o + l
  BY <1>1, <1>6
<1>14. CASE start
  <2>1. p = 1 /\ lo = n + 2
    BY <1>4, <1>5, <1>14
  <2>2. w[n + 1] = 0
    <3>1. n + 1 \in 1..end
      BY <1>4, <2>1
    <3>2. QED BY <1>3, <1>11, <2>1, <3>1
  <2>3. Reads(stream, bounds, w, n + 2, end + l, o, o + l)
    BY <1>10, <2>1
  <2>4. bounds[N] = o
    BY <1>1, <1>14
  <2>5. Points(bounds, w[n + 1], o, N)
    <3>1. bounds[N] = o + w[n + 1]
      BY <1>1, <2>2, <2>4
    <3>2. \A k \in 1..Len(bounds) : k < N => bounds[k] < o
      BY <1>1, <1>2, <2>4
    <3> HIDE DEF N
    <3>3. QED BY <3>1, <3>2 DEF Points
  <2>6. N \in 1..Len(bounds) /\ bounds[N] < o + l
    BY <1>1, <1>13, <2>4
  <2> HIDE DEF N
  <2>7. Holds(stream, bounds, w, start, n, end + l, o, o + l)
    BY <1>12, <1>13, <1>14, <2>3, <2>5, <2>6 DEF Holds
  <2>8. S!Write(P, S!StartedEnd(n), b) = w /\ S!StartedEnd(n) - 4 + l = end + l
    <3>1. S!StartedEnd(n) = end + 4 /\ end \in Nat /\ l \in Nat
      BY <1>3, <1>6, <1>7
    <3> HIDE DEF end, l
    <3>2. QED BY <3>1 DEF w
  <2>9. w \in Body
    BY <1>3, <1>7, WriteProperties DEF w
  <2>10. QED BY <2>7, <2>8, <2>9 DEF o, P
<1>15. CASE ~start
  <2>1. p = 0 /\ lo = n + 1
    BY <1>4, <1>5, <1>15
  <2>2. Reads(stream, bounds, w, n + 1, end + l, o, o + l)
    BY <1>10, <2>1
  <2>3. ASSUME NEW k \in 1..Len(bounds)
        PROVE  bounds[k] < o \/ o + l <= bounds[k]
    <3>1. CASE k = Len(bounds)
      <4>1. bounds[k] = o + Len(rest)
        BY <1>1, <1>2, <3>1
      <4>2. QED BY <1>1, <1>6, <4>1
    <3>2. CASE k <= N
      <4>1. k < N \/ k = N
        BY <1>1, <3>2
      <4>2. bounds[k] <= bounds[N]
        BY <1>1, <1>2, <4>1
      <4>3. QED BY <1>1, <1>2, <1>15, <4>2
    <3>3. QED BY <1>1, <1>2, <3>1, <3>2
  <2>4. Holds(stream, bounds, w, start, n, end + l, o, o + l)
    BY <1>12, <1>13, <1>15, <2>2, <2>3 DEF Holds
  <2>5. S!Write(P, S!StartedEnd(n), b) = w /\ S!StartedEnd(n) - 4 + l = end + l
    <3>1. S!StartedEnd(n) = end + 4 /\ end \in Nat /\ l \in Nat
      BY <1>3, <1>6, <1>7
    <3> HIDE DEF end, l
    <3>2. QED BY <3>1 DEF w
  <2>6. w \in Body
    BY <1>3, <1>7, WriteProperties DEF w
  <2>7. QED BY <2>4, <2>5, <2>6 DEF o, P
<1>16. QED BY <1>14, <1>15


LEMMA RoomLeft ==
  ASSUME RoomForPayload, LinkInv, NEW n \in 0..PayloadLen, S!Adapts(n)
  PROVE  sender_pc = "more" /\ n <= PayloadLen - 2
<1>1. sender_pc = "more" /\ (n \in AdaLens \/ n = 0)
  BY DEF S!Adapts
<1>2. PayloadLen \in Nat /\ PayloadLen >= 3
  BY PacketSizes
<1>3. QED BY <1>1, <1>2 DEF RoomForPayload

LEMMA EndSectionStep ==
  ASSUME RoomForPayload, LinkInv, UNCHANGED <<submitted, stream, bounds>>, Transmit,
         NEW n \in 0..PayloadLen, S!EndSection(n)
  PROVE  SenderInv' /\ Advances
<1> DEFINE p == IF wrote_section_start THEN 0 ELSE 1
           o == Written
           l == Len(rest)
           end == S!StartedEnd(n)
<1>1. /\ S!Adapts(n)
      /\ TSPacketLen - end > l
      /\ ts_packet' = S!Write(S!Started(n), end, rest)
      /\ payload_start' = S!HeaderLen + n
      /\ payload_end' = end + l
      /\ pusi' = (pusi \/ ~wrote_section_start)
      /\ S!Continue(<<>>)
      /\ packet' = S!NoPacket
      /\ UNCHANGED <<sender_cc, pid>>
  BY DEF S!EndSection
<1>2. sender_pc = "more" /\ n <= PayloadLen - 2
  BY <1>1, RoomLeft
<1>3. /\ pusi = FALSE /\ pid = 0 /\ wrote_section_start \in BOOLEAN
      /\ rest \in Seq(Byte) /\ l \in Nat /\ l >= 1
      /\ Len(stream) \in Nat /\ o \in Nat /\ o + l = Len(stream) /\ LastSent = o
  BY <1>2, MoreFacts
<1>4. TSPacketLen \in Nat /\ S!HeaderLen = 4 /\ n \in Nat
  BY PacketSizes, SenderNames
<1>5. end = n + p + 4 /\ p \in Nat
  BY <1>2, HeadPacket
<1>6. /\ rest' = <<>> /\ sender_pc' = "idle" /\ wrote_section_start' = FALSE
  BY <1>1 DEF S!Continue
<1>7. PacketsInv /\ sender_cc = produced % CCMod
  BY DEF LinkInv, SenderInv
<1>8. StreamInv' /\ stream' = stream /\ bounds' = bounds /\ submitted' = submitted
      /\ Grown(stream, bounds, stream', bounds') /\ Len(submitted) \in Nat
  BY NothingSubmitted
<1>9. /\ wire' = wire /\ sent' = sent /\ produced' = produced /\ LastSent' = LastSent
      /\ PacketsInv'
  <2>1. Len(stream) <= Len(stream') /\ Len(stream') \in Nat
    BY <1>3, <1>8
  <2>2. QED BY <1>1, <1>3, <1>7, <2>1, TransmitNothing
<1>10. /\ ts_packet' \in Body
       /\ Holds(stream, bounds, ts_packet', ~wrote_section_start, n, end - 4 + l, o, o + l)
  <2>1. \A i \in 1..Len(rest) : rest[i] = rest[i]
    OBVIOUS
  <2>2. Len(rest) >= 1 /\ Len(rest) <= Len(rest) /\ end + Len(rest) <= TSPacketLen
    BY <1>1, <1>3, <1>4, <1>5
  <2>3. QED BY <1>1, <1>2, <1>3, <2>1, <2>2, StartedPacket
<1>11. pusi' = ~wrote_section_start
  BY <1>1, <1>3
<1>12. /\ payload_start' = n + 4 /\ payload_start' \in Nat /\ 4 <= payload_start'
       /\ payload_end' = end + l /\ payload_end' \in Nat /\ payload_end' < TSPacketLen
  <2> HIDE DEF p, end
  <2>1. QED BY <1>1, <1>3, <1>4, <1>5
<1>13. payload_end' = payload_start' + (IF pusi' THEN 1 ELSE 0) + (Len(stream') - LastSent')
  <2>1. (IF pusi' THEN 1 ELSE 0) = p
    BY <1>3, <1>11
  <2>2. Len(stream') - LastSent' = l
    BY <1>3, <1>8, <1>9
  <2> HIDE DEF p, l, end
  <2>3. payload_end' = payload_start' + p + l
    BY <1>3, <1>4, <1>5, <1>12
  <2>4. QED BY <2>1, <2>2, <2>3
<1>14. Holds(stream', bounds', ts_packet', pusi', payload_start' - 4, payload_end' - 4,
             LastSent', Len(stream'))
  <2>1. payload_start' - 4 = n /\ payload_end' - 4 = end - 4 + l
    <3> HIDE DEF p, end
    <3>1. QED BY <1>3, <1>4, <1>5, <1>12
  <2>2. LastSent' = o /\ Len(stream') = o + l
    BY <1>3, <1>8, <1>9
  <2> HIDE DEF o, l, end
  <2>3. QED BY <1>8, <1>10, <1>11, <2>1, <2>2
<1>15. pid' = 0 /\ sender_cc' = produced' % CCMod /\ pusi' \in BOOLEAN
  BY <1>1, <1>3, <1>7, <1>9, <1>11
<1>16. SenderInv'
  BY <1>6, <1>8, <1>10, <1>12, <1>13, <1>14, <1>15, OpenInv
<1>17. Advances
  <2>1. UNCHANGED <<lost, repeated, receiver, received>>
    BY DEF Transmit
  <2>2. QED BY <1>8, <1>9, <2>1 DEF Advances
<1>18. QED BY <1>16, <1>17

LEMMA FillPacketStep ==
  ASSUME RoomForPayload, LinkInv, UNCHANGED <<submitted, stream, bounds>>, Transmit,
         NEW n \in 0..PayloadLen, S!FillPacket(n)
  PROVE  SenderInv' /\ Advances
<1> DEFINE p == IF wrote_section_start THEN 0 ELSE 1
           o == Written
           l == Len(rest)
           end == S!StartedEnd(n)
           room == TSPacketLen - end
           b == SubSeq(rest, 1, room)
           left == SubSeq(rest, room + 1, l)
           start == ~wrote_section_start
           e == o + room
           N == Len(submitted)
<1>1. /\ S!Adapts(n)
      /\ room <= l
      /\ ts_packet' = S!Write(S!Started(n), end, b)
      /\ payload_end' = end
      /\ S!Produce(pusi \/ ~wrote_section_start, S!PayloadAFC(S!HeaderLen + n), ts_packet')
      /\ S!Close /\ S!CountPacket /\ S!Continue(left) /\ pid' = pid
  BY DEF S!FillPacket
<1>2. sender_pc = "more" /\ n <= PayloadLen - 2
  BY <1>1, RoomLeft
<1>3. /\ pusi = FALSE /\ wrote_section_start \in BOOLEAN
      /\ rest \in Seq(Byte) /\ l \in Nat /\ l >= 1
      /\ \A i \in 1..l : rest[i] = stream[o + i]
      /\ Len(stream) \in Nat /\ o \in Nat /\ o + l = Len(stream) /\ LastSent = o
      /\ submitted # <<>> /\ bounds[N] \in Nat /\ bounds[N] <= o
  BY <1>2, MoreFacts
<1>4. TSPacketLen \in Nat /\ HeaderLen = 4 /\ S!HeaderLen = 4 /\ n \in Nat
      /\ PayloadLen = TSPacketLen - 4
  BY PacketSizes, SenderNames
<1>5. end = n + p + 4 /\ p \in Nat /\ p <= 1
  BY <1>2, HeadPacket
<1>6. room \in Nat /\ room >= 1 /\ end \in Nat
  <2> HIDE DEF p, end
  <2>1. QED BY <1>2, <1>4, <1>5
<1>7. /\ StreamInv' /\ stream' = stream /\ bounds' = bounds /\ submitted' = submitted
      /\ Grown(stream, bounds, stream', bounds') /\ Len(submitted) \in Nat
      /\ Len(submitted') >= Len(submitted)
      /\ \A k \in 1..Len(submitted) : submitted'[k] = submitted[k]
  BY NothingSubmitted
<1>8. /\ b \in Seq(Byte) /\ Len(b) = room /\ \A i \in 1..room : b[i] = rest[i]
      /\ left \in Seq(Byte) /\ Len(left) = l - room
      /\ \A i \in 1..(l - room) : left[i] = rest[room + i]
  <2> HIDE DEF room
  <2>1. QED BY <1>1, <1>3, <1>6, SplitSection
<1> HIDE DEF b, left
<1>9. /\ ts_packet' \in Body
      /\ Holds(stream', bounds', ts_packet', start, n, PayloadLen, LastSent, e)
  <2>1. Len(b) >= 1 /\ Len(b) <= Len(rest) /\ \A i \in 1..Len(b) : b[i] = rest[i]
    BY <1>1, <1>6, <1>8
  <2>2. end + Len(b) <= TSPacketLen /\ end - 4 + Len(b) = PayloadLen
    <3> HIDE DEF p, end
    <3>1. QED BY <1>4, <1>6, <1>8
  <2>3. /\ S!Write(S!Started(n), end, b) \in Body
        /\ Holds(stream, bounds, S!Write(S!Started(n), end, b), ~wrote_section_start, n,
                 end - 4 + Len(b), Written, Written + Len(b))
    BY <1>2, <1>8, <2>1, <2>2, StartedPacket
  <2>4. Written + Len(b) = e
    BY <1>8
  <2> HIDE DEF end, e
  <2>5. QED BY <1>1, <1>3, <1>7, <2>2, <2>3, <2>4
<1>10. /\ e \in Nat /\ e = Len(stream') - Len(left) /\ Len(left) <= Len(stream')
       /\ o < e
  <2> DEFINE x == Len(stream')
             y == Len(left)
  <2>1. /\ x = o + l /\ y = l - room /\ o \in Nat /\ l \in Nat /\ room \in Nat
        /\ room <= l /\ room >= 1
    <3>1. Len(stream') = Len(stream)
      BY <1>7
    <3> HIDE DEF o, l, room
    <3>2. QED BY <1>1, <1>3, <1>6, <1>8, <3>1
  <2> HIDE DEF o, l, room, x, y
  <2>2. e \in Nat /\ e = x - y /\ y <= x /\ o < e
    BY <2>1
  <2>3. QED BY <2>2 DEF x, y
<1>11. \A i \in 1..Len(left) : left[i] = stream'[e + i]
  <2> HIDE DEF o, l, room
  <2>1. TAKE i \in 1..Len(left)
  <2> DEFINE j == room + i
  <2>2. j \in 1..l /\ o + j = e + i /\ i \in 1..(l - room)
    BY <1>1, <1>3, <1>6, <1>8
  <2>3. left[i] = rest[j]
    BY <1>8, <2>2
  <2> HIDE DEF j, e
  <2>4. rest[j] = stream'[o + j]
    BY <1>3, <1>7, <2>2
  <2>5. QED BY <2>2, <2>3, <2>4
<1>12. bounds'[Len(submitted')] \in Nat /\ bounds'[Len(submitted')] < e
  <2>1. bounds'[Len(submitted')] = bounds[N]
    BY <1>7
  <2> HIDE DEF N, e, o
  <2>2. QED BY <1>3, <1>10, <2>1
<1>13. payload_end' \in Nat
  BY <1>1, <1>6
<1>14. S!Produce(start, S!PayloadAFC(HeaderLen + n), ts_packet')
  <2>1. (pusi \/ ~wrote_section_start) = start
    BY <1>3
  <2>2. S!Produce(start, S!PayloadAFC(S!HeaderLen + n), ts_packet')
    BY <1>1, <2>1
  <2>3. QED BY <1>4, <2>2
<1>15. S!Close /\ S!CountPacket /\ S!Continue(left) /\ pid' = pid
  BY <1>1
<1>16. n \in Nat /\ n <= PayloadLen /\ ts_packet' \in Body /\ start \in BOOLEAN
       /\ submitted' # <<>> /\ left \in Seq(Byte)
  BY <1>3, <1>4, <1>7, <1>8, <1>9
<1>17. /\ StreamInv' /\ Grown(stream, bounds, stream', bounds')
       /\ Len(submitted') >= Len(submitted)
       /\ \A k \in 1..Len(submitted) : submitted'[k] = submitted[k]
       /\ Holds(stream', bounds', ts_packet', start, n, PayloadLen, LastSent, e)
  BY <1>7, <1>9
<1> HIDE DEF o, l, end, room, start, e, N, p
<1>18. Filled(start, n, left, e) /\ e \in Nat
  BY <1>10, <1>11, <1>12, <1>13, <1>14, <1>15, <1>16, <1>17 DEF Filled
<1>19. QED BY <1>16, <1>18, FilledStep


LEMMA OnAdaptationFieldStep ==
  ASSUME LinkInv, UNCHANGED <<submitted, stream, bounds>>, Transmit,
         NEW set, S!OnAdaptationField(set)
  PROVE  SenderInv' /\ Advances
<1>1. /\ packet' = S!NoPacket
      /\ UNCHANGED <<payload_start, payload_end, ts_packet, pusi, sender_cc, pid,
                     sender_pc, rest, wrote_section_start>>
  BY DEF S!OnAdaptationField
<1>2. StreamInv' /\ stream' = stream /\ bounds' = bounds /\ submitted' = submitted
      /\ Grown(stream, bounds, stream', bounds') /\ Len(submitted) \in Nat
      /\ Len(stream) \in Nat
  BY NothingSubmitted
<1>3. PacketsInv /\ SenderInv
  BY DEF LinkInv
<1>4. /\ wire' = wire /\ sent' = sent /\ produced' = produced /\ LastSent' = LastSent
      /\ PacketsInv'
  BY <1>1, <1>2, <1>3, TransmitNothing
<1>5. SenderInv'
  BY <1>1, <1>2, <1>3, <1>4 DEF SenderInv, Written, S!Open
<1>6. Advances
  <2>1. UNCHANGED <<lost, repeated, receiver, received>>
    BY DEF Transmit
  <2>2. QED BY <1>2, <1>4, <2>1 DEF Advances
<1>7. QED BY <1>5, <1>6

SenderStep == \/ /\ Len(submitted) < MaxSections
                 /\ \E s \in SectionsAt[Len(submitted) + 1] : Submit(s)
              \/ \E n \in 0..PayloadLen : SendMore(n)
              \/ Flush
              \/ \E set \in BOOLEAN : OnAdaptationField(set)

LEMMA SenderSteps ==
  ASSUME RoomForPayload, LinkInv, SenderStep
  PROVE  SenderInv' /\ Advances /\ (submitted' # <<>> => callback)
<1>1. submitted # <<>> => callback
  BY DEF LinkInv, ReceiverInv
<1>2. CASE /\ Len(submitted) < MaxSections
           /\ \E s \in SectionsAt[Len(submitted) + 1] : Submit(s)
  <2>1. PICK s \in SectionsAt[Len(submitted) + 1] : Submit(s)
    BY <1>2
  <2>2. WellFormed(s)
    <3>1. Len(submitted) + 1 \in 1..MaxSections
      BY <1>2, StreamFacts, LinkAssumption DEF LinkInv
    <3>2. QED BY <3>1, LinkAssumption
  <2>3. /\ S!Section(s) /\ submitted' = Append(submitted, s) /\ stream' = stream \o s
        /\ bounds' = Append(bounds, Len(stream')) /\ Transmit /\ callback
    BY <2>1 DEF Submit
  <2>4. QED BY <2>2, <2>3, NewPacketStep, PadOpenPacketStep, AddToOpenPacketStep,
               FillOpenPacketStep DEF S!Section
<1>3. CASE \E n \in 0..PayloadLen : SendMore(n)
  <2>1. PICK n \in 0..PayloadLen : SendMore(n)
    BY <1>3
  <2>2. S!More(n) /\ UNCHANGED <<submitted, stream, bounds>> /\ Transmit
    BY <2>1 DEF SendMore
  <2>3. ASSUME S!AdaptationOnly(n) PROVE FALSE
    <3>1. S!Adapts(n) /\ TSPacketLen - (S!HeaderLen + n) <= 1
      BY <2>3 DEF S!AdaptationOnly
    <3>2. n <= PayloadLen - 2
      BY <3>1, RoomLeft
    <3>3. QED BY <3>1, <3>2, PacketSizes, SenderNames
  <2>4. QED BY <1>1, <2>2, <2>3, EndSectionStep, FillPacketStep DEF S!More
<1>4. CASE Flush
  BY <1>1, <1>4, FlushStep DEF Flush
<1>5. CASE \E set \in BOOLEAN : OnAdaptationField(set)
  BY <1>1, <1>5, OnAdaptationFieldStep DEF OnAdaptationField
<1>6. QED BY <1>2, <1>3, <1>4, <1>5 DEF SenderStep

----------------------------------------------------------------------------
(* what the sender does leaves what has been sent and received as it is *)

LEMMA CompleteGrown ==
  ASSUME NEW F \in Seq(Byte), NEW B \in Seq(Nat), NEW F2 \in Seq(Byte), NEW B2 \in Seq(Nat),
         Grown(F, B, F2, B2), NEW pkt \in Pkt, NEW number,
         NEW from \in Nat, NEW to \in Nat, to <= Len(F),
         Complete(F, B, pkt, number, from, to)
  PROVE  Complete(F2, B2, pkt, number, from, to)
<1>1. PayloadLen \in Int /\ pkt.pusi \in BOOLEAN
  BY PacketSizes DEF Pkt
<1>2. PICK field \in 0..PayloadLen :
        /\ pkt.afc = IF field = 0 THEN AFC_PAYLOAD ELSE AFC_ADAPTATION_AND_PAYLOAD
        /\ Holds(F, B, pkt.body, pkt.pusi, field, PayloadLen, from, to)
  BY DEF Complete
<1>3. field \in Nat
  OBVIOUS
<1>4. Holds(F2, B2, pkt.body, pkt.pusi, field, PayloadLen, from, to)
  BY <1>1, <1>2, <1>3, HoldsGrown
<1>5. QED BY <1>2, <1>4 DEF Complete

LEMMA ChannelFacts ==
  ASSUME LinkInv
  PROVE  /\ wire \in Seq(Pkt) /\ Len(wire) \in Nat
         /\ produced \in Nat /\ gone \in Nat /\ gone + Len(wire) = produced
         /\ Len(sent) = produced + 1 /\ gone + 1 \in 1..Len(sent)
         /\ \A i \in 1..Len(wire) : /\ gone + i \in 1..produced
                                    /\ gone + i \in 1..Len(sent)
                                    /\ gone + i + 1 \in 1..Len(sent)
         /\ \A p \in 1..produced : p \in 1..Len(sent) /\ p + 1 \in 1..Len(sent)
         /\ \A p \in 1..Len(sent) : sent[p] \in Nat /\ sent[p] <= Len(stream)
         /\ \A d \in damaged : d \in 1..produced
         /\ repeated \subseteq 1..produced /\ lost \subseteq 1..produced
<1>1. /\ produced \in Nat /\ Len(sent) = produced + 1 /\ LastSent <= Len(stream)
      /\ \A p \in 1..Len(sent) : sent[p] \in Nat /\ sent[p] <= LastSent
      /\ LastSent \in Nat /\ Len(stream) \in Nat
  BY PacketsFacts, StreamFacts DEF LinkInv, PacketsInv, LastSent
<1>2. /\ wire \in Seq(Pkt) /\ Len(wire) \in Nat /\ Len(wire) <= produced
      /\ lost \subseteq 1..gone /\ repeated \subseteq 1..produced
  BY LenProperties DEF LinkInv, ChannelInv
<1>3. gone \in Nat /\ gone + Len(wire) = produced
  BY <1>1, <1>2 DEF gone
<1>4. \A p \in 1..Len(sent) : sent[p] <= Len(stream)
  BY <1>1
<1>5. lost \subseteq 1..produced
  <2>1. \A i \in 1..gone : i \in 1..produced
    BY <1>1, <1>2, <1>3
  <2>2. QED BY <1>2, <2>1
<1>6. /\ gone + 1 \in 1..Len(sent)
      /\ \A i \in 1..Len(wire) : /\ gone + i \in 1..produced
                                 /\ gone + i \in 1..Len(sent)
                                 /\ gone + i + 1 \in 1..Len(sent)
      /\ \A p \in 1..produced : p \in 1..Len(sent) /\ p + 1 \in 1..Len(sent)
  <2> DEFINE w == Len(wire)
             L == Len(sent)
  <2>1. w \in Nat /\ L = produced + 1 /\ produced \in Nat /\ gone \in Nat
        /\ gone + w = produced
    BY <1>1, <1>2, <1>3
  <2> HIDE DEF w, L
  <2>2. /\ gone + 1 \in 1..L
        /\ \A i \in 1..w : gone + i \in 1..produced /\ gone + i \in 1..L /\ gone + i + 1 \in 1..L
        /\ \A p \in 1..produced : p \in 1..L /\ p + 1 \in 1..L
    BY <2>1
  <2>3. QED BY <2>2 DEF w, L
<1>7. \A d \in damaged : d \in 1..produced
  BY <1>2, <1>5 DEF damaged
<1>8. QED BY <1>1, <1>2, <1>3, <1>4, <1>5, <1>6, <1>7


LEMMA AdvancesKeeps ==
  ASSUME LinkInv, Advances
  PROVE  /\ ChannelInv'
         /\ gone' = gone /\ produced <= produced' /\ produced' \in Nat
         /\ Len(submitted) <= Len(submitted') /\ Len(submitted') \in Nat
         /\ \A p \in 1..Len(sent) : p \in 1..Len(sent') /\ sent'[p] = sent[p]
         /\ \A k \in 1..Len(bounds) : k \in 1..Len(bounds') /\ bounds'[k] = bounds[k]
         /\ \A k \in 1..Len(submitted) : k \in 1..Len(submitted') /\ submitted'[k] = submitted[k]
         /\ \A k \in 1..Len(submitted') : bounds'[k] < Len(stream) => k \in 1..Len(submitted)
<1>1. /\ wire \in Seq(Pkt) /\ Len(wire) \in Nat
      /\ produced \in Nat /\ gone \in Nat /\ gone + Len(wire) = produced
      /\ Len(sent) = produced + 1
      /\ \A i \in 1..Len(wire) : gone + i \in 1..Len(sent) /\ gone + i + 1 \in 1..Len(sent)
      /\ \A p \in 1..Len(sent) : sent[p] \in Nat /\ sent[p] <= Len(stream)
      /\ repeated \subseteq 1..produced
  BY ChannelFacts
<1>2. /\ stream \in Seq(Byte) /\ bounds \in Seq(Nat) /\ Len(stream) \in Nat
      /\ Len(bounds) = Len(submitted) + 1 /\ Len(submitted) \in Nat
      /\ \A k \in 1..Len(bounds) : bounds[k] \in Nat
      /\ \A k \in 1..Len(bounds) : k = Len(bounds) => bounds[k] = Len(stream)
  BY StreamFacts DEF LinkInv
<1>3. /\ stream' \in Seq(Byte) /\ bounds' \in Seq(Nat) /\ submitted' \in Seq(Seq(Byte))
      /\ Len(bounds') = Len(submitted') + 1
      /\ Len(submitted') \in Nat /\ Len(submitted) <= Len(submitted')
      /\ \A j, k \in 1..Len(bounds') : j < k => bounds'[j] < bounds'[k]
      /\ \A k \in 1..Len(bounds') : bounds'[k] \in Nat
      /\ Grown(stream, bounds, stream', bounds')
      /\ \A k \in 1..Len(submitted) : submitted'[k] = submitted[k]
      /\ UNCHANGED <<lost, repeated>>
  BY LenProperties, ElementOfSeq DEF Advances, StreamInv, vars
<1>4. \A k \in 1..Len(bounds) : k \in 1..Len(bounds') /\ bounds'[k] = bounds[k]
  BY <1>2, <1>3, GrownBounds
<1>5. \A k \in 1..Len(submitted) : k \in 1..Len(submitted') /\ submitted'[k] = submitted[k]
  <2>1. \A k \in 1..Len(submitted) : k \in 1..Len(submitted')
    BY <1>2, <1>3
  <2>2. QED BY <1>3, <2>1
<1>6. ASSUME NEW k \in 1..Len(submitted'), bounds'[k] < Len(stream)
      PROVE  k \in 1..Len(submitted)
  <2>1. CASE k <= Len(submitted)
    BY <1>2, <2>1
  <2>2. CASE Len(submitted) < k
    <3> DEFINE j == Len(bounds)
    <3>1. j \in 1..Len(bounds') /\ k \in 1..Len(bounds') /\ (j < k \/ j = k)
      <4>1. /\ j = Len(submitted) + 1 /\ Len(submitted) \in Nat
            /\ Len(bounds') = Len(submitted') + 1 /\ Len(submitted') \in Nat
            /\ Len(submitted) <= Len(submitted')
        BY <1>2, <1>3
      <4>2. QED BY <2>2, <4>1
    <3>2. bounds'[j] = Len(stream)
      BY <1>2, <1>4
    <3> HIDE DEF j
    <3>3. Len(stream) <= bounds'[k]
      <4>1. bounds'[j] < bounds'[k] \/ j = k
        BY <1>3, <3>1
      <4>2. bounds'[k] \in Nat /\ Len(stream) \in Nat
        BY <1>2, <1>3, <3>1
      <4>3. QED BY <3>2, <4>1, <4>2
    <3>4. bounds'[k] \in Nat
      BY <1>3, <3>1
    <3>5. QED BY <1>2, <1>6, <3>3, <3>4
  <2>3. QED BY <1>2, <2>1, <2>2
<1>7. ChannelInv
  BY DEF LinkInv
<1>8. ASSUME NEW i \in 1..Len(wire)
      PROVE  Complete(stream', bounds', wire[i], gone + i, sent[gone + i], sent[gone + i + 1])
  <2>1. wire[i] \in Pkt
    BY <1>1, ElementOfSeq
  <2>2. /\ sent[gone + i] \in Nat /\ sent[gone + i + 1] \in Nat
        /\ sent[gone + i + 1] <= Len(stream)
    BY <1>1
  <2>3. Complete(stream, bounds, wire[i], gone + i, sent[gone + i], sent[gone + i + 1])
    BY <1>7 DEF ChannelInv
  <2>4. QED BY <1>2, <1>3, <2>1, <2>2, <2>3, CompleteGrown
<1>9. CASE UNCHANGED <<wire, sent>>
  <2>1. gone' = gone /\ produced' = produced /\ damaged' = damaged
    BY <1>3, <1>9 DEF gone, produced, damaged
  <2>2. ChannelInv'
    BY <1>3, <1>7, <1>8, <1>9, <2>1 DEF ChannelInv
  <2>3. QED BY <1>1, <1>3, <1>4, <1>5, <1>6, <1>9, <2>1, <2>2
<1>10. CASE \E pkt \in Pkt, e \in Nat :
              /\ wire' = Append(wire, pkt)
              /\ sent' = Append(sent, e)
              /\ LastSent < e
              /\ Complete(stream', bounds', pkt, produced + 1, LastSent, e)
  <2>1. PICK pkt \in Pkt, e \in Nat :
          /\ wire' = Append(wire, pkt)
          /\ sent' = Append(sent, e)
          /\ LastSent < e
          /\ Complete(stream', bounds', pkt, produced + 1, LastSent, e)
    BY <1>10
  <2> DEFINE w == Len(wire)
             L == Len(sent)
  <2>2. /\ wire' \in Seq(Pkt) /\ Len(wire') = w + 1
        /\ \A i \in 1..w : wire'[i] = wire[i]
        /\ wire'[w + 1] = pkt
    BY <1>1, <2>1, AppendProperties
  <2>3. sent \in Seq(Nat)
    BY DEF LinkInv, PacketsInv
  <2>4. /\ Len(sent') = L + 1
        /\ \A p \in 1..L : sent'[p] = sent[p]
        /\ sent'[L + 1] = e
    BY <2>1, <2>3, AppendProperties
  <2>5. LastSent = sent[L]
    BY DEF LastSent
  <2> HIDE DEF w, L
  <2>6. /\ produced' = produced + 1 /\ damaged' = damaged
        /\ L = produced + 1 /\ w \in Nat /\ gone + w = produced
    BY <1>1, <1>3, <2>4 DEF produced, damaged, w, L
  <2>7. gone' = gone
    <3>1. gone' = produced' - Len(wire')
      BY DEF gone
    <3>2. QED BY <1>1, <2>2, <2>6, <3>1
  <2>8. ASSUME NEW i \in 1..(w + 1)
        PROVE  Complete(stream', bounds', wire'[i], gone + i, sent'[gone + i],
                        sent'[gone + i + 1])
    <3>1. CASE i \in 1..w
      <4>1. gone + i \in 1..L /\ gone + i + 1 \in 1..L
        BY <1>1, <3>1 DEF w, L
      <4>2. sent'[gone + i] = sent[gone + i] /\ sent'[gone + i + 1] = sent[gone + i + 1]
        BY <2>4, <4>1
      <4>3. QED BY <1>8, <2>2, <3>1, <4>2 DEF w
    <3>2. CASE i = w + 1
      <4>1. gone + i = produced + 1 /\ gone + i = L /\ gone + i + 1 = L + 1 /\ L \in 1..L
        BY <1>1, <2>6, <3>2
      <4>2. wire'[i] = pkt /\ sent'[gone + i] = LastSent /\ sent'[gone + i + 1] = e
        BY <2>2, <2>4, <2>5, <3>2, <4>1
      <4>3. QED BY <2>1, <4>1, <4>2
    <3>3. i \in 1..w \/ i = w + 1
      BY <2>6
    <3>4. QED BY <3>1, <3>2, <3>3
  <2>9. ChannelInv'
    <3>1. Len(wire') <= produced'
      BY <1>1, <2>2, <2>6
    <3>2. repeated \subseteq 1..produced'
      BY <1>1, <2>6
    <3>3. QED BY <1>3, <1>7, <2>2, <2>6, <2>7, <2>8, <3>1, <3>2 DEF ChannelInv
  <2>10. \A p \in 1..Len(sent) : p \in 1..Len(sent') /\ sent'[p] = sent[p]
    BY <1>1, <2>4 DEF L
  <2>11. QED BY <1>1, <1>3, <1>4, <1>5, <1>6, <2>6, <2>7, <2>9, <2>10
<1>11. QED BY <1>9, <1>10 DEF Advances


\* what a section submitted before has met with
LEMMA AdvancesSections ==
  ASSUME LinkInv, Advances
  PROVE  /\ \A k \in 1..Len(submitted) : /\ Harmed(k) => Harmed(k)'
                                         /\ Received(k) => Received(k)'
                                         /\ bounds'[k] = bounds[k]
                                         /\ bounds'[k + 1] = bounds[k + 1]
         /\ sent'[gone + 1] = sent[gone + 1]
         /\ \A p \in 1..produced : sent'[p] = sent[p] /\ sent'[p + 1] = sent[p + 1]
         /\ damaged' = damaged /\ received' = received /\ repeated' = repeated
<1>1. /\ produced <= produced'
      /\ \A p \in 1..Len(sent) : sent'[p] = sent[p]
      /\ \A k \in 1..Len(bounds) : bounds'[k] = bounds[k]
      /\ \A k \in 1..Len(submitted) : submitted'[k] = submitted[k]
      /\ produced' \in Nat
  BY AdvancesKeeps
<1>2. /\ produced \in Nat /\ gone + 1 \in 1..Len(sent)
      /\ \A p \in 1..produced : p \in 1..Len(sent) /\ p + 1 \in 1..Len(sent)
      /\ \A d \in damaged : d \in 1..produced
  BY ChannelFacts
<1>3. \A k \in 1..Len(submitted) : k \in 1..Len(bounds) /\ k + 1 \in 1..Len(bounds)
  BY StreamFacts DEF LinkInv
<1>4. damaged' = damaged /\ received' = received /\ repeated' = repeated
  BY DEF Advances, damaged
<1>5. \A p \in 1..produced : sent'[p] = sent[p] /\ sent'[p + 1] = sent[p + 1]
  BY <1>1, <1>2
<1>6. \A k \in 1..Len(submitted) : bounds'[k] = bounds[k] /\ bounds'[k + 1] = bounds[k + 1]
  BY <1>1, <1>3
<1>7. ASSUME NEW k \in 1..Len(submitted), Harmed(k)
      PROVE  Harmed(k)'
  <2>1. PICK d \in damaged : \E p \in {d, d + 1} : p <= produced /\ Carries(p, k)
    BY <1>7 DEF Harmed
  <2>5. PICK p \in {d, d + 1} : p <= produced /\ Carries(p, k)
    BY <2>1
  <2>2. p \in 1..produced /\ p <= produced'
    BY <1>1, <1>2, <2>5
  <2>3. Carries(p, k)'
    BY <1>5, <1>6, <2>2, <2>5 DEF Carries
  <2>4. QED BY <1>4, <2>2, <2>3, <2>5 DEF Harmed
<1>8. ASSUME NEW k \in 1..Len(submitted), Received(k)
      PROVE  Received(k)'
  BY <1>1, <1>4, <1>8 DEF Received
<1>9. QED BY <1>1, <1>2, <1>4, <1>5, <1>6, <1>7, <1>8

LEMMA AdvancesAt ==
  ASSUME LinkInv, Advances, NEW u \in 1..(gone + 1), NEW m \in 1..Len(bounds), At(u, m)
  PROVE  At(u, m)'
<1>1. /\ gone' = gone /\ produced <= produced' /\ produced' \in Nat
      /\ Len(submitted) <= Len(submitted') /\ Len(submitted') \in Nat
      /\ \A p \in 1..Len(sent) : sent'[p] = sent[p]
      /\ \A k \in 1..Len(bounds) : bounds'[k] = bounds[k]
      /\ \A k \in 1..Len(submitted) : submitted'[k] = submitted[k]
      /\ \A k \in 1..Len(submitted') : bounds'[k] < Len(stream) => k \in 1..Len(submitted)
  BY AdvancesKeeps
<1>2. /\ produced \in Nat /\ gone \in Nat /\ gone + 1 \in 1..Len(sent)
      /\ Len(sent) = produced + 1
      /\ \A p \in 1..produced : p \in 1..Len(sent) /\ p + 1 \in 1..Len(sent)
      /\ \A p \in 1..Len(sent) : sent[p] \in Nat /\ sent[p] <= Len(stream)
      /\ repeated \subseteq 1..produced
  BY ChannelFacts
<1>3. /\ stream \in Seq(Byte) /\ bounds \in Seq(Nat) /\ Len(stream) \in Nat
      /\ Len(bounds) = Len(submitted) + 1 /\ Len(submitted) \in Nat
      /\ \A k \in 1..Len(bounds) : bounds[k] \in Nat
      /\ \A k \in 1..Len(submitted) : k + 1 \in 1..Len(bounds)
  BY StreamFacts DEF LinkInv
<1>4. /\ stream' \in Seq(Byte) /\ bounds' \in Seq(Nat)
      /\ Grown(stream, bounds, stream', bounds')
      /\ UNCHANGED <<lost, repeated, receiver, received>>
  BY DEF Advances, StreamInv
<1>5. /\ data' = data /\ sec_p' = sec_p /\ cc' = cc /\ pc' = pc /\ received' = received
      /\ lost' = lost /\ repeated' = repeated /\ damaged' = damaged
  BY <1>4 DEF receiver, damaged
<1>6. /\ \A k \in 1..Len(submitted) : /\ Harmed(k) => Harmed(k)'
                                      /\ Received(k) => Received(k)'
                                      /\ bounds'[k] = bounds[k]
                                      /\ bounds'[k + 1] = bounds[k + 1]
      /\ sent'[gone + 1] = sent[gone + 1]
      /\ \A p \in 1..produced : sent'[p] = sent[p] /\ sent'[p + 1] = sent[p + 1]
  BY AdvancesSections
<1>7. u \in 1..produced /\ u <= produced'
  BY <1>1, <1>2 DEF At
<1>8. sent'[u + 1] = sent[u + 1] /\ sent[u + 1] \in Nat /\ sent[u + 1] <= Len(stream)
      /\ bounds'[m] = bounds[m] /\ bounds[m] \in Nat
  BY <1>1, <1>2, <1>3, <1>6, <1>7
<1>9. Reads(stream', bounds', data', sec_p' + 1, Len(data'), bounds'[m], sent'[u + 1])
  <2>1. sec_p + 1 \in Int /\ Len(data) \in Int
    BY LenProperties DEF LinkInv, ReceiverInv
  <2>2. Reads(stream, bounds, data, sec_p + 1, Len(data), bounds[m], sent[u + 1])
    BY DEF At
  <2> DEFINE x == bounds[m]
             y == sent[u + 1]
  <2> HIDE DEF x, y
  <2>3. x \in Nat /\ y \in Nat /\ y <= Len(stream)
        /\ Reads(stream, bounds, data, sec_p + 1, Len(data), x, y)
    BY <1>8, <2>2 DEF x, y
  <2>4. Reads(stream', bounds', data, sec_p + 1, Len(data), x, y)
    BY <1>3, <1>4, <2>1, <2>3, ReadsGrown
  <2>5. QED BY <1>5, <1>8, <2>4 DEF x, y
<1>10. pc' = "idle" => /\ Len(data') = sent'[u + 1] - bounds'[m]
                       /\ m <= Len(submitted')
                       /\ sent'[u + 1] < bounds'[m + 1]
  <2>1. ASSUME pc = "idle"
        PROVE  /\ Len(data) = sent[u + 1] - bounds[m]
               /\ m <= Len(submitted)
               /\ sent[u + 1] < bounds[m + 1]
    BY <2>1 DEF At
  <2>2. ASSUME pc = "idle"
        PROVE  m \in 1..Len(submitted) /\ bounds'[m + 1] = bounds[m + 1]
    BY <1>3, <1>6, <2>1, <2>2
  <2>3. m \in Int /\ Len(submitted) \in Int /\ Len(submitted') \in Int
        /\ Len(submitted) <= Len(submitted')
    BY <1>1, <1>3
  <2>4. m <= Len(submitted) => m <= Len(submitted')
    BY <2>3
  <2>5. QED BY <1>5, <1>8, <2>1, <2>2, <2>4
<1>11. \/ received' = <<>>
       \/ \E j \in 1..(m - 1) : received'[Len(received')] = submitted'[j]
       \/ \E p \in repeated' : StartsIn(m, p)'
  <2>1. CASE received = <<>>
    BY <1>5, <2>1
  <2>2. CASE \E j \in 1..(m - 1) : received[Len(received)] = submitted[j]
    <3>1. PICK j \in 1..(m - 1) : received[Len(received)] = submitted[j]
      BY <2>2
    <3>2. j \in 1..Len(submitted)
      BY <1>3
    <3>3. QED BY <1>1, <1>5, <3>1, <3>2
  <2>3. CASE \E p \in repeated : StartsIn(m, p)
    <3>1. PICK p \in repeated : StartsIn(m, p)
      BY <2>3
    <3>2. p \in 1..produced
      BY <1>2
    <3>3. StartsIn(m, p)'
      BY <1>6, <1>8, <3>1, <3>2 DEF StartsIn
    <3>4. QED BY <1>5, <3>3
  <2>4. QED BY <2>1, <2>2, <2>3 DEF At
<1>12. ASSUME NEW k \in 1..Len(submitted'), bounds'[k] < sent'[gone' + 1], ~Harmed(k)'
       PROVE  Received(k)' \/ (m <= k /\ (u >= gone' \/ bounds'[k + 1] <= sent'[u + 1]))
  <2>1. bounds'[k] < Len(stream)
    <3>1. sent[gone + 1] \in Nat /\ sent[gone + 1] <= Len(stream)
      BY <1>2
    <3>2. bounds'[k] < sent[gone + 1]
      BY <1>1, <1>6, <1>12
    <3>3. k \in 1..Len(bounds')
      BY <1>1, LenProperties DEF Advances, StreamInv
    <3>4. bounds'[k] \in Nat
      BY <1>4, <3>3, ElementOfSeq
    <3>5. QED BY <1>3, <3>1, <3>2, <3>4
  <2>2. k \in 1..Len(submitted)
    BY <1>1, <2>1
  <2>3. bounds[k] < sent[gone + 1] /\ ~Harmed(k)
    BY <1>1, <1>6, <1>12, <2>2
  <2>4. Received(k) \/ (m <= k /\ (u >= gone \/ bounds[k + 1] <= sent[u + 1]))
    BY <2>2, <2>3 DEF At
  <2>5. QED BY <1>1, <1>6, <1>8, <2>2, <2>4
<1>13. (u + 1)..gone' \subseteq lost' /\ cc' = (u - 1) % CCMod
       /\ (u > gone' => u \in repeated') /\ sec_p' < Len(data')
       /\ (damaged' = {} => u = gone' /\ Len(received') = m - 1)
  BY <1>1, <1>5 DEF At
<1> HIDE DEF StartsIn, Harmed, Received
<1>14. QED BY <1>7, <1>9, <1>10, <1>11, <1>12, <1>13 DEF At


LEMMA AdvancesReceiver ==
  ASSUME LinkInv, Advances, submitted' # <<>> => callback
  PROVE  ReceiverInv' /\ ReceivedInv'
<1>1. /\ gone' = gone
      /\ Len(submitted) <= Len(submitted') /\ Len(submitted') \in Nat
      /\ \A p \in 1..Len(sent) : sent'[p] = sent[p]
      /\ \A k \in 1..Len(bounds) : k \in 1..Len(bounds') /\ bounds'[k] = bounds[k]
      /\ \A k \in 1..Len(submitted) : k \in 1..Len(submitted') /\ submitted'[k] = submitted[k]
      /\ \A k \in 1..Len(submitted') : bounds'[k] < Len(stream) => k \in 1..Len(submitted)
  BY AdvancesKeeps
<1>2. /\ \A k \in 1..Len(submitted) : /\ Harmed(k) => Harmed(k)'
                                      /\ Received(k) => Received(k)'
                                      /\ bounds'[k] = bounds[k]
                                      /\ bounds'[k + 1] = bounds[k + 1]
      /\ sent'[gone + 1] = sent[gone + 1]
      /\ \A p \in 1..produced : sent'[p] = sent[p] /\ sent'[p + 1] = sent[p + 1]
      /\ damaged' = damaged /\ received' = received /\ repeated' = repeated
  BY AdvancesSections
<1>3. /\ gone + 1 \in 1..Len(sent) /\ repeated \subseteq 1..produced
      /\ \A p \in 1..Len(sent) : sent[p] \in Nat /\ sent[p] <= Len(stream)
  BY ChannelFacts
<1>4. /\ Len(stream) \in Nat /\ Len(submitted) \in Nat /\ Len(bounds) = Len(submitted) + 1
      /\ bounds' \in Seq(Nat) /\ Len(bounds') = Len(submitted') + 1
  BY StreamFacts DEF LinkInv, Advances, StreamInv
<1>5. /\ data' = data /\ sec_p' = sec_p /\ cc' = cc /\ pc' = pc /\ state' = state
      /\ callback' = callback
  BY DEF Advances, receiver
<1>6. /\ ReceiverInv /\ ReceivedInv
  BY DEF LinkInv
<1>7. ASSUME NEW k \in 1..Len(submitted'), bounds'[k] < sent'[gone + 1], ~Harmed(k)'
      PROVE  k \in 1..Len(submitted) /\ bounds[k] < sent[gone + 1] /\ ~Harmed(k)
  <2>1. bounds'[k] \in Nat
    <3>1. k \in 1..Len(bounds')
      BY <1>1, <1>4
    <3>2. QED BY <1>4, <3>1, ElementOfSeq
  <2>2. bounds'[k] < Len(stream)
    <3>1. sent'[gone + 1] \in Nat /\ sent'[gone + 1] <= Len(stream)
      BY <1>2, <1>3
    <3>2. QED BY <1>4, <1>7, <2>1, <3>1
  <2>3. QED BY <1>1, <1>2, <1>7, <2>2
<1>8. (X!InStep)' => \E u \in 1..(gone' + 1), m \in 1..Len(bounds') : At(u, m)'
  <2>1. ASSUME (X!InStep)'
        PROVE  \E u \in 1..(gone + 1), m \in 1..Len(bounds) : At(u, m)
    BY <1>5, <1>6, <2>1 DEF ReceiverInv, X!InStep
  <2>2. ASSUME NEW u \in 1..(gone + 1), NEW m \in 1..Len(bounds), At(u, m)
        PROVE  At(u, m)' /\ u \in 1..(gone' + 1) /\ m \in 1..Len(bounds')
    BY <1>1, <2>2, AdvancesAt
  <2> HIDE DEF At
  <2>3. QED BY <2>1, <2>2
<1>9. ASSUME ~(X!InStep)'
      PROVE  /\ damaged' = {} => /\ Len(received') <= Len(submitted')
                                 /\ bounds'[Len(received') + 1] = sent'[gone' + 1]
             /\ \A k \in 1..Len(submitted') :
                  bounds'[k] < sent'[gone' + 1] /\ ~Harmed(k)' => Received(k)'
  <2>1. ~X!InStep
    BY <1>5, <1>9 DEF X!InStep
  <2>2. /\ damaged = {} => /\ Len(received) <= Len(submitted)
                           /\ bounds[Len(received) + 1] = sent[gone + 1]
        /\ \A k \in 1..Len(submitted) :
             bounds[k] < sent[gone + 1] /\ ~Harmed(k) => Received(k)
    BY <1>6, <2>1 DEF ReceiverInv
  <2>3. damaged' = {} => /\ Len(received') <= Len(submitted')
                         /\ bounds'[Len(received') + 1] = sent'[gone' + 1]
    <3>1. ASSUME damaged = {} PROVE bounds'[Len(received) + 1] = bounds[Len(received) + 1]
      <4>1. Len(received) \in Nat
        BY <1>6, LenProperties DEF ReceivedInv
      <4>2. Len(received) + 1 \in 1..Len(bounds)
        BY <1>4, <2>2, <3>1, <4>1
      <4>3. QED BY <1>1, <4>2
    <3>2. Len(received) \in Nat
      BY <1>6, LenProperties DEF ReceivedInv
    <3>3. QED BY <1>1, <1>2, <1>4, <2>2, <3>1, <3>2
  <2> HIDE DEF Harmed, Received
  <2>4. \A k \in 1..Len(submitted') :
          bounds'[k] < sent'[gone' + 1] /\ ~Harmed(k)' => Received(k)'
    BY <1>1, <1>2, <1>7, <2>2
  <2>5. QED BY <2>3, <2>4
<1>10. ReceiverInv'
  <2> HIDE DEF At, Harmed, Received
  <2>1. submitted' # <<>> \/ pc' = "more_sections" => callback'
    BY <1>5, <1>6 DEF ReceiverInv
  <2>2. QED BY <1>5, <1>6, <1>8, <1>9, <2>1 DEF ReceiverInv
<1>11. NothingForged'
  BY <1>1, <1>2, <1>6 DEF ReceivedInv, NothingForged
<1>12. damaged' = {} => /\ Len(received') <= Len(submitted')
                        /\ \A j \in 1..Len(received') : received'[j] = submitted'[j]
  <2>1. Len(received) \in Nat
    BY <1>6, LenProperties DEF ReceivedInv
  <2>2. ASSUME damaged = {}
        PROVE  /\ Len(received) <= Len(submitted)
               /\ \A j \in 1..Len(received) : received[j] = submitted[j]
    BY <1>6, <2>2 DEF ReceivedInv
  <2>3. damaged = {} => \A j \in 1..Len(received) : j \in 1..Len(submitted)
    BY <1>4, <2>1, <2>2
  <2>4. QED BY <1>1, <1>2, <1>4, <2>1, <2>2, <2>3
<1>13. received' # <<>> =>
         \E k \in 1..Len(submitted') :
           /\ received'[Len(received')] = submitted'[k]
           /\ \/ bounds'[k + 1] <= sent'[gone' + 1]
              \/ gone' + 1 \in repeated' /\ bounds'[k + 1] <= sent'[gone' + 2]
  <2>1. ASSUME received # <<>>
        PROVE  \E k \in 1..Len(submitted) :
                 /\ received[Len(received)] = submitted[k]
                 /\ \/ bounds[k + 1] <= sent[gone + 1]
                    \/ gone + 1 \in repeated /\ bounds[k + 1] <= sent[gone + 2]
    BY <1>6, <2>1 DEF ReceivedInv
  <2>2. ASSUME gone + 1 \in repeated
        PROVE  sent'[gone + 2] = sent[gone + 2]
    <3>1. gone + 1 \in 1..produced /\ (gone + 1) + 1 = gone + 2
      BY <1>3, <2>2, ChannelFacts
    <3>2. QED BY <1>2, <3>1
  <2>3. QED BY <1>1, <1>2, <2>1, <2>2
<1>14. ReceivedInv'
  BY <1>2, <1>6, <1>11, <1>12, <1>13 DEF ReceivedInv
<1>15. QED BY <1>10, <1>14


----------------------------------------------------------------------------
(* the receiver takes a packet *)

LEMMA PacketField ==
  ASSUME NEW pkt \in Pkt, NEW number, NEW from, NEW to,
         Complete(stream, bounds, pkt, number, from, to)
  PROVE  LET field == X!AdaptLen(pkt) IN
         /\ field \in 0..PayloadLen
         /\ pkt.cc = (number - 1) % CCMod
         /\ Holds(stream, bounds, pkt.body, pkt.pusi, field, PayloadLen, from, to)
<1>1. PICK field \in 0..PayloadLen :
        /\ pkt.afc = IF field = 0 THEN AFC_PAYLOAD ELSE AFC_ADAPTATION_AND_PAYLOAD
        /\ Holds(stream, bounds, pkt.body, pkt.pusi, field, PayloadLen, from, to)
  BY DEF Complete
<1>2. /\ AFC_PAYLOAD = 1 /\ X!AFC_ADAPTATION = 2 /\ X!AFC_ADAPTATION_AND_PAYLOAD = 3
      /\ AFC_ADAPTATION_AND_PAYLOAD = 3 /\ PayloadLen \in Nat
  BY PacketSizes, ReceiverNames
<1>3. X!AdaptLen(pkt) = field
  <2>1. CASE field = 0
    BY <1>1, <1>2, <2>1 DEF X!AdaptLen
  <2>2. CASE field # 0
    <3>1. pkt.body[1] = field - 1
      BY <1>1, <1>2, <2>2 DEF Holds
    <3>2. pkt.afc \in {X!AFC_ADAPTATION, X!AFC_ADAPTATION_AND_PAYLOAD}
      BY <1>1, <1>2, <2>2
    <3>3. X!AdaptLen(pkt) = 1 + pkt.body[1]
      BY <3>2 DEF X!AdaptLen
    <3>4. QED BY <1>2, <3>1, <3>3
  <2>3. QED BY <2>1, <2>2
<1>4. pkt.cc = (number - 1) % CCMod
  BY DEF Complete
<1>5. QED BY <1>1, <1>3, <1>4

\* nothing of the stream has been read
LEMMA ReadsNothing ==
  ASSUME NEW F, NEW B, NEW x \in Int
  PROVE  Reads(F, B, <<>>, 1, Len(<<>>), x, x) /\ <<>> \in Seq(Byte) /\ Len(<<>>) = 0
<1>1. Len(<<>>) = 0 /\ <<>> \in Seq(Byte)
  BY EmptySeq
<1>2. \A i \in 1..0 : FALSE
  OBVIOUS
<1>3. x <= x /\ 1 + (x - x) <= 0 + 1 /\ ~(1 + (x - x) <= 0)
  OBVIOUS
<1>4. Reads(F, B, <<>>, 1, 0, x, x)
  BY <1>2, <1>3 DEF Reads
<1>5. QED BY <1>1, <1>4

\* a packet that is taken by an extractor that waits for a section
LEMMA StartTaken ==
  ASSUME LinkInv, NEW pkt \in Pkt, NEW from \in Nat, NEW to \in Nat, pkt.pusi,
         LET field == X!AdaptLen(pkt) IN
         /\ field \in 0..PayloadLen
         /\ Holds(stream, bounds, pkt.body, pkt.pusi, field, PayloadLen, from, to),
         state = "wait_start"
  PROVE  /\ X!PayloadInside(pkt)
         /\ \E m \in 1..Len(bounds) :
              /\ from <= bounds[m] /\ bounds[m] < to
              /\ \A k \in 1..Len(bounds) : k < m => bounds[k] < from
              /\ X!Held \o X!Payload(pkt) \in Seq(Byte)
              /\ 0 < Len(X!Held \o X!Payload(pkt))
              /\ Reads(stream, bounds, X!Held \o X!Payload(pkt), 1,
                       Len(X!Held \o X!Payload(pkt)), bounds[m], to)
<1> DEFINE field == X!AdaptLen(pkt)
           body == pkt.body
           P == PayloadLen
           start == field + 2
<1>1. /\ P \in Nat /\ X!PayloadLen = P /\ field \in 0..P
      /\ body \in [1..P -> Byte]
  BY PacketSizes, ReceiverNames DEF Pkt
<1>2. from < to /\ Reads(stream, bounds, body, field + 2, P, from, to)
  BY DEF Holds
<1>3. PICK m \in 1..Len(bounds) : Points(bounds, body[field + 1], from, m) /\ bounds[m] < to
  BY DEF Holds
<1>4. bounds[m] \in Nat
  BY StreamFacts DEF LinkInv
<1> DEFINE pointer == body[field + 1]
           lo == field + 2 + pointer
           y == bounds[m]
<1>5. field + 2 + (to - from) <= P + 1
  BY <1>2 DEF Reads
<1> HIDE DEF P
<1>6. field + 1 \in 1..P
  BY <1>1, <1>2, <1>5
<1>7. pointer \in Byte /\ pointer \in Nat
  <2>1. pointer \in Byte
    BY <1>1, <1>6
  <2>2. \A i \in Byte : i \in Nat
    BY DEF Byte
  <2>3. QED BY <2>1, <2>2
<1>8. y = from + pointer /\ \A k \in 1..Len(bounds) : k < m => bounds[k] < from
  BY <1>3 DEF Points
<1>9. X!PtrLen(pkt) = 1 + pointer
  BY DEF X!PtrLen
<1> HIDE DEF field, body
<1>10. from <= y /\ y < to /\ y \in Nat
  BY <1>3, <1>4, <1>7, <1>8
<1>11. X!PayloadInside(pkt)
  <2>1. field <= P /\ field < P /\ field + (1 + pointer) <= P
    <3>1. pointer \in Nat /\ pointer < to - from /\ field \in Nat
      BY <1>1, <1>7, <1>8, <1>10
    <3> HIDE DEF pointer
    <3>2. QED BY <1>1, <1>5, <3>1
  <2>2. QED BY <1>1, <1>9, <2>1 DEF X!PayloadInside, field
<1>12. X!Payload(pkt) = SubSeq(body, lo, P)
  <2>1. X!Payload(pkt) = SubSeq(body, field + (1 + pointer) + 1, P)
    BY <1>1, <1>9 DEF X!Payload, field, body
  <2>2. field + (1 + pointer) + 1 = lo
    BY <1>1, <1>7
  <2>3. QED BY <2>1, <2>2
<1>13. X!Held = <<>>
  BY DEF X!Held
<1>14. /\ lo \in Int /\ 1 <= lo /\ lo <= P + 1 /\ lo + (to - y) <= P + 1
  <2>1. y = from + pointer /\ y < to /\ pointer \in Nat /\ field \in Nat /\ from \in Nat
        /\ to \in Nat /\ P \in Nat
    BY <1>1, <1>7, <1>8, <1>10
  <2> HIDE DEF y, pointer
  <2>2. QED BY <1>5, <2>1
<1>15. Reads(stream, bounds, body, lo, P, y, to)
  <2>1. start \in Int /\ P \in Int /\ from \in Int /\ y \in Int /\ to \in Int
        /\ from <= y /\ y <= to
    BY <1>1, <1>10
  <2>2. lo = start + (y - from)
    BY <1>1, <1>7, <1>8
  <2>3. Reads(stream, bounds, body, start, P, from, to)
    BY <1>2
  <2> HIDE DEF start, y, lo
  <2>4. QED BY <2>1, <2>2, <2>3, ReadsPart
<1> DEFINE new == <<>> \o SubSeq(body, lo, P)
<1>16. /\ new \in Seq(Byte)
       /\ Len(new) = 0 + (P - lo + 1)
       /\ Reads(stream, bounds, new, 1, Len(new), y, to)
  <2>1. y \in Int /\ to \in Int /\ 0 = y - y
    BY <1>10
  <2> HIDE DEF y, lo
  <2>2. /\ Reads(stream, bounds, <<>>, 1, Len(<<>>), y, y)
        /\ <<>> \in Seq(Byte) /\ Len(<<>>) = 0
    BY <2>1, ReadsNothing
  <2>3. lo \in Int /\ 1 <= lo /\ lo <= PayloadLen + 1 /\ body \in [1..PayloadLen -> Byte]
    BY <1>1, <1>14 DEF P
  <2>4. Reads(stream, bounds, body, lo, PayloadLen, y, to) /\ Len(<<>>) = y - y
    BY <1>15, <2>1, <2>2 DEF P
  <2>5. LET w == <<>> \o SubSeq(body, lo, PayloadLen) IN
        /\ w \in Seq(Byte)
        /\ Len(w) = Len(<<>>) + (PayloadLen - lo + 1)
        /\ Reads(stream, bounds, w, 1, Len(w), y, to)
    BY <2>1, <2>2, <2>3, <2>4, ReadsJoin
  <2>6. QED BY <2>2, <2>5 DEF P
<1>17. 0 < Len(new)
  <2> HIDE DEF new, lo, y
  <2>1. QED BY <1>1, <1>10, <1>14, <1>16
<1> HIDE DEF new
<1>18. X!Held \o X!Payload(pkt) = new
  BY <1>12, <1>13 DEF new
<1>19. QED BY <1>8, <1>10, <1>11, <1>16, <1>17, <1>18


\* ... and by one that waits for the rest of a section
LEMMA MoreTaken ==
  ASSUME LinkInv, NEW pkt \in Pkt, NEW from \in Nat, NEW to \in Nat, NEW x \in Nat,
         LET field == X!AdaptLen(pkt) IN
         /\ field \in 0..PayloadLen
         /\ Holds(stream, bounds, pkt.body, pkt.pusi, field, PayloadLen, from, to),
         state = "wait_more",
         Reads(stream, bounds, data, 1, Len(data), x, from), Len(data) = from - x
  PROVE  /\ X!PayloadInside(pkt)
         /\ X!Held \o X!Payload(pkt) \in Seq(Byte)
         /\ 0 < Len(X!Held \o X!Payload(pkt))
         /\ Reads(stream, bounds, X!Held \o X!Payload(pkt), 1,
                  Len(X!Held \o X!Payload(pkt)), x, to)
<1> DEFINE field == X!AdaptLen(pkt)
           body == pkt.body
           P == PayloadLen
           step == IF pkt.pusi THEN 1 ELSE 0
           lo == field + step + 1
<1>1. /\ P \in Nat /\ X!PayloadLen = P /\ field \in 0..P
      /\ body \in [1..P -> Byte] /\ pkt.pusi \in BOOLEAN
  BY PacketSizes, ReceiverNames DEF Pkt
<1>2. step \in Nat /\ X!PtrLen(pkt) = step
  BY DEF X!PtrLen
<1>3. from < to /\ Reads(stream, bounds, body, lo, P, from, to)
  <2>1. CASE pkt.pusi
    <3>1. lo = field + 2
      BY <1>1, <2>1
    <3> HIDE DEF lo, P
    <3>2. QED BY <2>1, <3>1 DEF Holds, P
  <2>2. CASE ~pkt.pusi
    <3>1. lo = field + 1
      BY <1>1, <2>2
    <3> HIDE DEF lo, P
    <3>2. QED BY <2>2, <3>1 DEF Holds, P
  <2>3. QED BY <1>1, <2>1, <2>2
<1> HIDE DEF step, P
<1>4. /\ lo \in Int /\ 1 <= lo /\ lo <= P + 1 /\ lo + (to - from) <= P + 1
  <2>1. lo + (to - from) <= P + 1
    <3> HIDE DEF lo
    <3>1. QED BY <1>3 DEF Reads
  <2>2. QED BY <1>1, <1>2, <1>3, <2>1
<1>5. X!PayloadInside(pkt)
  <2>1. field <= P /\ field + step <= P /\ (pkt.pusi => field < P)
    <3>1. field + step + 1 <= P
      BY <1>1, <1>2, <1>3, <1>4
    <3>2. QED BY <1>1, <1>2, <3>1
  <2>2. QED BY <1>1, <1>2, <2>1 DEF X!PayloadInside
<1>6. X!Payload(pkt) = SubSeq(body, lo, P)
  BY <1>1, <1>2 DEF X!Payload
<1>7. X!Held = data /\ data \in Seq(Byte)
  BY DEF X!Held, LinkInv, ReceiverInv
<1> DEFINE new == data \o SubSeq(body, lo, P)
<1>8. /\ new \in Seq(Byte)
      /\ Len(new) = (from - x) + (P - lo + 1)
      /\ Reads(stream, bounds, new, 1, Len(new), x, to)
  <2>1. x \in Int /\ to \in Int /\ from \in Int
    OBVIOUS
  <2>2. lo \in Int /\ 1 <= lo /\ lo <= PayloadLen + 1 /\ body \in [1..PayloadLen -> Byte]
    BY <1>1, <1>4 DEF P
  <2>3. Reads(stream, bounds, body, lo, PayloadLen, from, to)
    BY <1>3 DEF P
  <2> HIDE DEF lo, body
  <2>4. LET w == data \o SubSeq(body, lo, PayloadLen) IN
        /\ w \in Seq(Byte)
        /\ Len(w) = Len(data) + (PayloadLen - lo + 1)
        /\ Reads(stream, bounds, w, 1, Len(w), x, to)
    BY <1>7, <2>1, <2>2, <2>3, ReadsJoin
  <2>5. QED BY <2>4 DEF P
<1>9. 0 < Len(new)
  <2>1. x <= from
    BY DEF Reads
  <2>2. x \in Nat /\ from \in Nat /\ lo \in Int /\ P \in Int /\ lo <= P
    BY <1>1, <1>2, <1>3, <1>4
  <2>3. Len(new) = (from - x) + (P - lo + 1)
    BY <1>8
  <2> HIDE DEF new, lo, P
  <2>4. QED BY <2>1, <2>2, <2>3
<1> HIDE DEF new, lo, field, body
<1>10. X!Held \o X!Payload(pkt) = new
  BY <1>6, <1>7 DEF new
<1>11. QED BY <1>5, <1>8, <1>9, <1>10

\* the extractor's counter and the packet's tell whether one is missing
LEMMA CounterTells ==
  ASSUME FewDamaged, LinkInv, NEW u \in 1..(gone + 1), NEW m, At(u, m),
         NEW g, g = gone + 1, g \in 1..produced
  PROVE  (g - 1) % CCMod = NextCC(cc) <=> u = gone
<1>1. /\ gone \in Nat /\ u \in Int /\ g \in Int /\ g - 1 = gone /\ u - 1 \in Int
      /\ produced \in Nat
  BY ChannelFacts
<1>2. cc = (u - 1) % CCMod /\ (u + 1)..gone \subseteq lost
  BY DEF At
<1>3. NextCC(cc) = u % CCMod
  <2>1. NextCC((u - 1) % CCMod) = ((u - 1) + 1) % CCMod
    BY <1>1, NextCounter
  <2>2. (u - 1) + 1 = u
    BY <1>1
  <2>3. QED BY <1>2, <2>1, <2>2
<1>4. CCMod \in Nat /\ CCMod >= 2
  BY PacketSizes
<1>5. gone - u < CCMod
  <2>1. CASE u + 1 <= gone
    <3>1. IsFiniteSet((u + 1)..gone) /\ Cardinality((u + 1)..gone) = gone - (u + 1) + 1
      BY <1>1, <2>1, FS_Interval
    <3>2. IsFiniteSet(damaged)
      <4>1. IsFiniteSet(1..produced)
        BY <1>1, FS_Interval
      <4>2. damaged \subseteq 1..produced
        BY ChannelFacts
      <4>3. QED BY <4>1, <4>2, FS_Subset
    <3>3. (u + 1)..gone \subseteq damaged
      BY <1>2 DEF damaged
    <3>4. Cardinality((u + 1)..gone) <= Cardinality(damaged)
      BY <3>2, <3>3, FS_Subset
    <3>5. Cardinality(damaged) <= MaxDamage
      BY DEF LinkInv, ChannelInv
    <3>6. Cardinality(damaged) \in Nat
      BY <3>2, FS_CardinalityType
    <3>7. QED BY <1>1, <1>4, <3>1, <3>4, <3>5, <3>6, LinkAssumption DEF FewDamaged
  <2>2. CASE ~(u + 1 <= gone)
    BY <1>1, <1>4, <2>2
  <2>3. QED BY <2>1, <2>2
<1>6. ASSUME gone % CCMod = u % CCMod PROVE u = gone
  <2>1. u - gone < CCMod
    BY <1>1, <1>4
  <2>2. gone \in Int
    BY <1>1
  <2>3. QED BY <1>1, <1>5, <1>6, <2>1, <2>2, CountersDiffer
<1>7. QED BY <1>1, <1>3, <1>6

\* what an extractor that waits for the rest of section m has let pass
LEMMA WaitsInside ==
  ASSUME LinkInv, pc = "idle", NEW u \in 1..(gone + 1), NEW m \in 1..Len(bounds), At(u, m),
         NEW k \in 1..Len(submitted), bounds[k] < sent[gone + 1], ~Harmed(k)
  PROVE  Received(k) \/ (m <= k /\ u >= gone /\ sent[u + 1] < bounds[k + 1])
<1>1. /\ Received(k) \/ (m <= k /\ (u >= gone \/ bounds[k + 1] <= sent[u + 1]))
      /\ m <= Len(submitted)
      /\ sent[u + 1] < bounds[m + 1] /\ u <= produced
  BY DEF At
<1>2. /\ Len(bounds) = Len(submitted) + 1 /\ Len(submitted) \in Nat
      /\ \A j \in 1..Len(bounds) : bounds[j] \in Nat
      /\ \A j, i \in 1..Len(bounds) : j <= i => bounds[j] <= bounds[i]
  BY StreamFacts DEF LinkInv
<1>3. sent[u + 1] \in Nat
  <2>1. u \in 1..produced
    BY <1>1, ChannelFacts
  <2>2. \A p \in 1..produced : sent[p + 1] \in Nat
    BY ChannelFacts
  <2>3. QED BY <2>1, <2>2
<1>4. ASSUME m <= k
      PROVE  sent[u + 1] < bounds[k + 1]
  <2> DEFINE i == m + 1
             j == k + 1
  <2>1. i \in 1..Len(bounds) /\ j \in 1..Len(bounds) /\ i <= j /\ sent[u + 1] < bounds[i]
    BY <1>1, <1>2, <1>4
  <2> HIDE DEF i, j
  <2>2. bounds[i] <= bounds[j] /\ bounds[i] \in Nat /\ bounds[j] \in Nat
    BY <1>2, <2>1
  <2>3. sent[u + 1] < bounds[j]
    BY <1>3, <2>1, <2>2
  <2>4. QED BY <2>3 DEF j
<1>5. k + 1 \in 1..Len(bounds)
  BY <1>2
<1>6. QED BY <1>1, <1>2, <1>3, <1>4, <1>5


HarmedBy(D, k) == \E d \in D : \E p \in {d, d + 1} : p <= produced /\ Carries(p, k)

LEMMA HeadFacts ==
  ASSUME LinkInv, wire # <<>>, NEW g, g = gone + 1
  PROVE  /\ g \in 1..produced /\ g + 1 \in 1..Len(sent) /\ gone \in Nat
         /\ Head(wire) \in Pkt
         /\ sent[g] \in Nat /\ sent[g + 1] \in Nat /\ sent[g] < sent[g + 1]
         /\ Complete(stream, bounds, Head(wire), g, sent[g], sent[g + 1])
<1>1. /\ wire \in Seq(Pkt) /\ Len(wire) \in Nat /\ gone \in Nat
      /\ \A i \in 1..Len(wire) : gone + i \in 1..produced
      /\ \A p \in 1..produced : p \in 1..Len(sent) /\ p + 1 \in 1..Len(sent)
      /\ \A p \in 1..Len(sent) : sent[p] \in Nat
  BY ChannelFacts
<1>2. Len(wire) # 0
  BY <1>1, EmptySeq
<1>3. 1 \in 1..Len(wire) /\ Head(wire) = wire[1] /\ wire[1] \in Pkt
  <2>1. 1 \in 1..Len(wire)
    BY <1>1, <1>2
  <2>2. Head(wire) = wire[1]
    BY <1>1, <2>1
  <2>3. QED BY <1>1, <2>1, <2>2, ElementOfSeq
<1>4. g \in 1..produced
  BY <1>1, <1>3
<1>5. Complete(stream, bounds, wire[1], gone + 1, sent[gone + 1], sent[gone + 1 + 1])
  BY <1>3 DEF LinkInv, ChannelInv
<1>6. sent[g] < sent[g + 1]
  <2> DEFINE h == g + 1
  <2>1. g \in 1..Len(sent) /\ h \in 1..Len(sent) /\ g < h
    BY <1>1, <1>4
  <2> HIDE DEF h
  <2>2. sent[g] < sent[h]
    BY <2>1 DEF LinkInv, PacketsInv
  <2>3. QED BY <2>2 DEF h
<1>7. QED BY <1>1, <1>3, <1>4, <1>5, <1>6

\* a section that is not harmed though a packet is hit has ended before it
LEMMA UnharmedEnds ==
  ASSUME LinkInv, NEW g \in 1..produced, NEW D, g \in D \/ g - 1 \in D,
         NEW k \in 1..Len(submitted), ~HarmedBy(D, k), bounds[k] < sent[g + 1]
  PROVE  bounds[k + 1] <= sent[g] /\ bounds[k] < sent[g]
<1>1. /\ bounds[k] \in Nat /\ bounds[k + 1] \in Nat /\ bounds[k] + 3 <= bounds[k + 1]
  BY StreamFacts DEF LinkInv
<1>2. sent[g] \in Nat /\ produced \in Nat
  BY ChannelFacts
<1>3. ~Carries(g, k)
  <2>1. PICK d \in D : d = g \/ d = g - 1
    OBVIOUS
  <2>2. g \in {d, d + 1} /\ g <= produced
    BY <1>2, <2>1
  <2>3. QED BY <2>2 DEF HarmedBy
<1>4. ~(sent[g] < bounds[k + 1])
  BY <1>3 DEF Carries
<1>5. QED BY <1>1, <1>2, <1>4

LEMMA HarmedNow ==
  ASSUME UNCHANGED <<sent, bounds>>, NEW k
  PROVE  Harmed(k)' <=> HarmedBy(damaged', k)
BY DEF Harmed, HarmedBy, Carries, produced

LEMMA HarmedBefore ==
  ASSUME NEW D, damaged \subseteq D, NEW k, Harmed(k)
  PROVE  HarmedBy(D, k)
BY DEF Harmed, HarmedBy

\* what has been received stays where it was
LEMMA LastSectionKept ==
  ASSUME LinkInv, UNCHANGED <<submitted, received, stream, bounds, sent>>,
         gone' \in {gone, gone + 1}, gone' + 1 \in 1..Len(sent),
         damaged \subseteq damaged', repeated \subseteq repeated'
  PROVE  ReceivedInv'
<1>1. ReceivedInv
  BY DEF LinkInv
<1>2. /\ gone \in Nat /\ produced \in Nat /\ repeated \subseteq 1..produced
      /\ Len(sent) = produced + 1
      /\ gone + 1 \in 1..Len(sent)
      /\ \A p \in 1..Len(sent) : sent[p] \in Nat
  BY ChannelFacts
<1>3. received # <<>> =>
        \E k \in 1..Len(submitted) :
          /\ received[Len(received)] = submitted[k]
          /\ \/ bounds[k + 1] <= sent[gone' + 1]
             \/ gone' + 1 \in repeated' /\ bounds[k + 1] <= sent[gone' + 2]
  <2>1. CASE gone' = gone
    BY <1>1, <2>1 DEF ReceivedInv
  <2>2. CASE gone' = gone + 1
    <3>1. gone' + 1 = gone + 2
      BY <1>2, <2>2
    <3>2. SUFFICES ASSUME received # <<>>
                   PROVE  \E k \in 1..Len(submitted) :
                            /\ received[Len(received)] = submitted[k]
                            /\ bounds[k + 1] <= sent[gone + 2]
      BY <3>1
    <3>3. PICK k \in 1..Len(submitted) :
            /\ received[Len(received)] = submitted[k]
            /\ \/ bounds[k + 1] <= sent[gone + 1]
               \/ gone + 1 \in repeated /\ bounds[k + 1] <= sent[gone + 2]
      BY <1>1, <3>2 DEF ReceivedInv
    <3>4. CASE bounds[k + 1] <= sent[gone + 1]
      <4> DEFINE a == gone + 1
                 b == gone + 2
                 y == bounds[k + 1]
      <4>1. a \in 1..Len(sent) /\ b \in 1..Len(sent) /\ a < b
        BY <1>2, <2>2, <3>1
      <4>2. y \in Nat
        BY StreamFacts DEF LinkInv
      <4> HIDE DEF a, b, y
      <4>3. sent[a] < sent[b] /\ sent[a] \in Nat /\ sent[b] \in Nat
        BY <1>2, <4>1 DEF LinkInv, PacketsInv
      <4>4. y <= sent[a]
        BY <3>4 DEF a, y
      <4>5. y <= sent[b]
        BY <4>2, <4>3, <4>4
      <4>6. QED BY <3>3, <4>5 DEF b, y
    <3>5. QED BY <3>3, <3>4
  <2>3. QED BY <2>1, <2>2
<1>4. damaged' = {} => damaged = {}
  OBVIOUS
<1>5. NothingForged'
  BY <1>1 DEF ReceivedInv, NothingForged
<1>6. QED BY <1>1, <1>3, <1>4, <1>5 DEF ReceivedInv


\* a packet that is delivered, once and for all or for the first time
Arrives ==
  /\ wire # <<>>
  /\ UNCHANGED <<submitted, received, stream, bounds, sent, lost>>
  /\ gone' \in {gone, gone + 1}
  /\ gone' = gone => gone + 1 \in repeated'
  /\ repeated \subseteq repeated'
  /\ repeated' \subseteq 1..produced

LEMMA ArrivesFacts ==
  ASSUME LinkInv, Arrives, NEW g, g = gone + 1
  PROVE  /\ damaged \subseteq damaged'
         /\ damaged' = {} => damaged = {} /\ gone' = g
         /\ produced' = produced
         /\ gone' \in Nat /\ gone' <= g
         /\ sent[gone' + 1] \in Nat /\ sent[gone' + 1] <= sent[g + 1]
         /\ sent[g] <= sent[gone' + 1]
         /\ gone' + 1 \in 1..Len(sent)
         /\ \A k \in 1..Len(submitted) : ~HarmedBy(damaged', k) => ~Harmed(k)
<1>1. /\ g \in 1..produced /\ g + 1 \in 1..Len(sent) /\ gone \in Nat
      /\ sent[g] \in Nat /\ sent[g + 1] \in Nat /\ sent[g] < sent[g + 1]
  BY HeadFacts DEF Arrives
<1>2. damaged \subseteq damaged'
  BY DEF Arrives, damaged
<1>3. damaged' = {} => damaged = {} /\ gone' = g
  BY <1>2 DEF Arrives, damaged
<1>4. produced' = produced
  BY DEF Arrives, produced
<1>5. g \in 1..Len(sent) /\ g \in Int
  BY <1>1, ChannelFacts
<1>6. CASE gone' = gone
  <2>1. sent[gone' + 1] = sent[g] /\ gone' + 1 = g
    BY <1>6
  <2>2. QED BY <1>1, <1>2, <1>3, <1>4, <1>5, <1>6, <2>1, HarmedBefore
<1>7. CASE gone' = g
  BY <1>1, <1>2, <1>3, <1>4, <1>5, <1>7, HarmedBefore
<1>8. QED BY <1>6, <1>7 DEF Arrives

LEMMA NotAcceptedStep ==
  ASSUME FewDamaged, LinkInv, Arrives, X!NotAccepted(Head(wire))
  PROVE  ReceiverInv'
<1> DEFINE g == gone + 1
           pkt == Head(wire)
           from == sent[g]
           to == sent[g + 1]
           N == Len(submitted)
<1>1. /\ pc = "idle" /\ ~X!Accepts(pkt) /\ state' = "wait_start"
      /\ UNCHANGED <<data, sec_p, cc, callback, pc>>
  BY DEF X!NotAccepted
<1>2. /\ wire # <<>> /\ UNCHANGED <<submitted, received, stream, bounds, sent>>
  BY DEF Arrives
<1>3. /\ g \in 1..produced /\ gone \in Nat /\ produced \in Nat
      /\ pkt \in Pkt
      /\ from \in Nat /\ to \in Nat /\ from < to
      /\ Complete(stream, bounds, pkt, g, from, to)
  BY <1>2, HeadFacts, ChannelFacts
<1>4. /\ damaged \subseteq damaged'
      /\ damaged' = {} => damaged = {} /\ gone' = g
      /\ sent[gone' + 1] \in Nat /\ sent[gone' + 1] <= to
      /\ \A k \in 1..N : ~HarmedBy(damaged', k) => ~Harmed(k)
  BY ArrivesFacts
<1> HIDE DEF g, pkt, from, to
<1>5. /\ pkt.cc = (g - 1) % CCMod
      /\ \E field \in 0..PayloadLen :
           Holds(stream, bounds, pkt.body, pkt.pusi, field, PayloadLen, from, to)
  BY <1>3, PacketField
<1>6. ReceiverInv /\ ReceivedInv
  BY DEF LinkInv
<1>7. /\ N \in Nat /\ Len(bounds) = N + 1
      /\ \A k \in 1..Len(bounds) : bounds[k] \in Nat
      /\ \A k \in 1..N : k \in 1..Len(bounds) /\ bounds[k + 1] \in Nat
  BY StreamFacts DEF LinkInv
<1>8. ASSUME state = "wait_start"
      PROVE  /\ ~X!InStep
             /\ \A k \in 1..Len(bounds) : bounds[k] < from \/ to <= bounds[k]
  <2>1. ~pkt.pusi
    BY <1>1, <1>8 DEF X!Accepts
  <2>2. QED BY <1>1, <1>5, <1>8, <2>1 DEF Holds, X!InStep
<1>9. ASSUME state = "wait_more"
      PROVE  \E u \in 1..(gone + 1), m \in 1..Len(bounds) : At(u, m) /\ u # gone
  <2>1. PICK u \in 1..(gone + 1), m \in 1..Len(bounds) : At(u, m)
    BY <1>6, <1>9 DEF ReceiverInv, X!InStep
  <2>2. pkt.cc # NextCC(cc)
    BY <1>1, <1>9, ReceiverNames DEF X!Accepts
  <2>3. g = gone + 1 /\ m \in 1..Len(bounds)
    BY DEF g
  <2>4. u # gone
    BY <1>3, <1>5, <2>1, <2>2, <2>3, CounterTells
  <2>5. QED BY <2>1, <2>4
<1>10. state \in {"wait_start", "wait_more"}
  BY <1>6 DEF ReceiverInv
<1>11. ASSUME NEW k \in 1..N, bounds[k] < sent[gone' + 1], ~HarmedBy(damaged', k)
       PROVE  Received(k)
  <2>1. bounds[k] < to /\ bounds[k] \in Nat /\ ~Harmed(k)
    BY <1>3, <1>4, <1>7, <1>11
  <2>2. CASE state = "wait_start"
    <3>1. ~X!InStep /\ bounds[k] < from
      BY <1>3, <1>7, <1>8, <2>1, <2>2
    <3>2. bounds[k] < sent[gone + 1]
      BY <3>1 DEF from, g
    <3>3. QED BY <1>6, <2>1, <3>1, <3>2 DEF ReceiverInv
  <2>3. CASE state = "wait_more"
    <3>1. PICK u \in 1..(gone + 1), m \in 1..Len(bounds) : At(u, m) /\ u # gone
      BY <1>9, <2>3
    <3>2. g \in damaged \/ g - 1 \in damaged
      <4>1. CASE u > gone
        <5>1. u = g
          BY <1>3, <4>1 DEF g
        <5>2. QED BY <3>1, <4>1, <5>1 DEF At, damaged
      <4>2. CASE ~(u > gone)
        <5>1. gone \in (u + 1)..gone /\ g - 1 = gone
          BY <1>3, <3>1, <4>2 DEF g
        <5>2. QED BY <3>1, <5>1 DEF At, damaged
      <4>3. QED BY <4>1, <4>2
    <3>3. bounds[k + 1] <= sent[g] /\ bounds[k] < sent[g]
      <4>1. g \in damaged' \/ g - 1 \in damaged'
        BY <1>4, <3>2
      <4>2. bounds[k] < sent[g + 1]
        BY <2>1 DEF to
      <4>3. QED BY <1>3, <1>11, <4>1, <4>2, UnharmedEnds
    <3>4. Received(k) \/ (m <= k /\ u >= gone /\ sent[u + 1] < bounds[k + 1])
      <4>1. bounds[k] < sent[gone + 1] /\ m \in 1..Len(bounds) /\ u \in 1..(gone + 1)
        BY <3>3 DEF g
      <4>2. QED BY <1>1, <2>1, <3>1, <4>1, WaitsInside
    <3>5. ASSUME u >= gone, sent[u + 1] < bounds[k + 1] PROVE FALSE
      <4>1. u = g
        BY <1>3, <3>1, <3>5 DEF g
      <4>2. to < bounds[k + 1] /\ bounds[k + 1] <= from
        BY <3>3, <3>5, <4>1 DEF to, from
      <4>3. QED BY <1>3, <1>7, <4>2
    <3>6. QED BY <3>4, <3>5
  <2>4. QED BY <1>10, <2>2, <2>3
<1>12. ASSUME damaged' = {} PROVE FALSE
  <2>1. damaged = {}
    BY <1>4, <1>12
  <2>2. CASE state = "wait_start"
    <3>1. Len(received) <= N /\ bounds[Len(received) + 1] = from /\ Len(received) \in Nat
      BY <1>6, <1>8, <2>1, <2>2, LenProperties DEF ReceiverInv, ReceivedInv, from, g
    <3>2. Len(received) + 1 \in 1..Len(bounds)
      BY <1>7, <3>1
    <3>3. from < from \/ to <= from
      BY <1>8, <2>2, <3>1, <3>2
    <3>4. QED BY <1>3, <3>3
  <2>3. CASE state = "wait_more"
    <3>1. PICK u \in 1..(gone + 1), m \in 1..Len(bounds) : At(u, m) /\ u # gone
      BY <1>9, <2>3
    <3>2. QED BY <2>1, <3>1 DEF At
  <2>4. QED BY <1>10, <2>2, <2>3
<1>13. ~(X!InStep)'
  BY <1>1 DEF X!InStep
<1>14. \A k \in 1..Len(submitted') :
         bounds'[k] < sent'[gone' + 1] /\ ~Harmed(k)' => Received(k)'
  <2>1. \A k : Harmed(k)' <=> HarmedBy(damaged', k)
    BY <1>2, HarmedNow
  <2>2. \A k : Received(k)' <=> Received(k)
    BY <1>2 DEF Received
  <2> HIDE DEF Harmed, Received
  <2>3. QED BY <1>2, <1>11, <2>1, <2>2
<1>15. submitted' # <<>> \/ pc' = "more_sections" => callback'
  BY <1>1, <1>2, <1>6 DEF ReceiverInv
<1> HIDE DEF At, Harmed, Received
<1>16. QED BY <1>1, <1>6, <1>12, <1>13, <1>14, <1>15 DEF ReceiverInv


LEMMA AtArrived ==
  ASSUME LinkInv, Arrives, NEW g, g = gone + 1, NEW m \in 1..Len(bounds),
         cc' = (g - 1) % CCMod, sec_p' = 0, pc' = "more_sections",
         data' \in Seq(Byte), 0 < Len(data'), callback' = callback,
         state' \in {"wait_start", "wait_more"},
         Reads(stream, bounds, data', 1, Len(data'), bounds[m], sent[g + 1]),
         \/ received = <<>>
         \/ \E j \in 1..(m - 1) : received[Len(received)] = submitted[j]
         \/ \E p \in repeated' : StartsIn(m, p),
         damaged = {} => Len(received) = m - 1,
         \A k \in 1..Len(submitted) :
           bounds[k] < sent[gone' + 1] /\ ~Harmed(k) => Received(k) \/ m <= k
  PROVE  ReceiverInv'
<1>1. /\ wire # <<>> /\ UNCHANGED <<submitted, received, stream, bounds, sent, lost>>
      /\ gone' \in {gone, gone + 1}
      /\ gone' = gone => gone + 1 \in repeated'
  BY DEF Arrives
<1>2. /\ g \in 1..produced /\ gone \in Nat /\ produced \in Nat
      /\ sent[g] \in Nat /\ sent[g + 1] \in Nat /\ sent[g] < sent[g + 1]
      /\ sent[g + 1] <= Len(stream)
  BY <1>1, HeadFacts, ChannelFacts
<1>3. /\ damaged' = {} => damaged = {} /\ gone' = g
      /\ gone' \in Nat /\ gone' <= g
      /\ produced' = produced
      /\ \A k \in 1..Len(submitted) : ~HarmedBy(damaged', k) => ~Harmed(k)
  BY ArrivesFacts
<1>4. ReceiverInv
  BY DEF LinkInv
<1>5. callback
  <2>1. submitted # <<>>
    <3>1. SUFFICES ASSUME submitted = <<>> PROVE FALSE
      OBVIOUS
    <3>2. Len(submitted) = 0
      BY <3>1, EmptySeq
    <3>3. Len(bounds) = 1 /\ Len(stream) \in Nat /\ 1 \in 1..Len(bounds)
      <4>1. Len(bounds) = Len(submitted) + 1 /\ Len(stream) \in Nat
        BY StreamFacts DEF LinkInv
      <4>2. QED BY <3>2, <4>1
    <3>4. bounds[1] = 0 /\ bounds[1] = Len(stream)
      BY <3>3, StreamFacts DEF LinkInv
    <3>5. QED BY <1>2, <3>3, <3>4
  <2>2. QED BY <1>4, <2>1 DEF ReceiverInv
<1>6. \A k : (Harmed(k)' <=> HarmedBy(damaged', k)) /\ (Received(k)' <=> Received(k))
      /\ (\A p : StartsIn(k, p)' <=> StartsIn(k, p))
  <2>1. \A k : Harmed(k)' <=> HarmedBy(damaged', k)
    BY <1>1, HarmedNow
  <2>2. QED BY <1>1, <2>1 DEF Received, StartsIn
<1>7. At(g, m)'
  <2>1. g <= produced' /\ (g > gone' => g \in repeated')
    BY <1>1, <1>2, <1>3
  <2>2. \A i \in (g + 1)..gone' : FALSE
    BY <1>2, <1>3
  <2>3. sec_p' + 1 = 1 /\ sec_p' < Len(data') /\ pc' # "idle"
    OBVIOUS
  <2>4. Reads(stream', bounds', data', sec_p' + 1, Len(data'), bounds'[m], sent'[g + 1])
    BY <1>1, <2>3
  <2>5. damaged' = {} => g = gone' /\ Len(received') = m - 1
    BY <1>1, <1>3
  <2>6. \/ received' = <<>>
        \/ \E j \in 1..(m - 1) : received'[Len(received')] = submitted'[j]
        \/ \E p \in repeated' : StartsIn(m, p)'
    BY <1>1, <1>6
  <2>7. ASSUME NEW k \in 1..Len(submitted'), bounds'[k] < sent'[gone' + 1], ~Harmed(k)'
        PROVE  Received(k)' \/ (m <= k /\ (g >= gone' \/ bounds'[k + 1] <= sent'[g + 1]))
    <3>1. g >= gone'
      BY <1>2, <1>3
    <3> HIDE DEF Harmed, Received
    <3>2. Received(k) \/ m <= k
      BY <1>1, <1>3, <1>6, <2>7
    <3>3. QED BY <1>6, <3>1, <3>2
  <2> HIDE DEF Harmed, Received, StartsIn
  <2>8. QED BY <2>1, <2>2, <2>3, <2>4, <2>5, <2>6, <2>7 DEF At
<1>8. (X!InStep)'
  BY DEF X!InStep
<1>9. \E u \in 1..(gone' + 1), n \in 1..Len(bounds') : At(u, n)'
  <2>1. g \in 1..(gone' + 1)
    <3>1. gone' = gone \/ gone' = gone + 1
      BY <1>1
    <3>2. g = gone + 1 /\ gone \in Nat
      BY <1>2
    <3>3. QED BY <3>1, <3>2
  <2>2. m \in 1..Len(bounds')
    BY <1>1
  <2> HIDE DEF At
  <2>3. QED BY <1>7, <2>1, <2>2
<1>10. sec_p' \in Nat /\ sec_p' <= Len(data')
  BY LenProperties
<1> HIDE DEF At, Harmed, Received
<1>11. QED BY <1>5, <1>8, <1>9, <1>10 DEF ReceiverInv

LEMMA AcceptedStep ==
  ASSUME FewDamaged, LinkInv, Arrives,
         X!NoPayload(Head(wire)) \/ X!AppendPayload(Head(wire))
  PROVE  ReceiverInv'
<1> DEFINE g == gone + 1
           pkt == Head(wire)
           from == sent[g]
           to == sent[g + 1]
           N == Len(submitted)
           new == X!Held \o X!Payload(pkt)
<1>1. pc = "idle" /\ X!Accepts(pkt)
  BY DEF X!NoPayload, X!AppendPayload
<1>2. wire # <<>> /\ gone' \in {gone, gone + 1}
      /\ repeated \subseteq repeated' /\ (gone' = gone => gone + 1 \in repeated')
      /\ UNCHANGED received
  BY DEF Arrives
<1>3. /\ g \in 1..produced /\ gone \in Nat /\ produced \in Nat
      /\ pkt \in Pkt
      /\ from \in Nat /\ to \in Nat /\ from < to
      /\ Complete(stream, bounds, pkt, g, from, to)
  BY <1>2, HeadFacts, ChannelFacts
<1>4. /\ sent[gone' + 1] \in Nat /\ sent[gone' + 1] <= to
  BY ArrivesFacts
<1> HIDE DEF g, pkt, from, to
<1>5. /\ pkt.cc = (g - 1) % CCMod
      /\ X!AdaptLen(pkt) \in 0..PayloadLen
      /\ Holds(stream, bounds, pkt.body, pkt.pusi, X!AdaptLen(pkt), PayloadLen, from, to)
  BY <1>3, PacketField
<1>6. ReceiverInv /\ ReceivedInv /\ sec_p = 0
  BY <1>1 DEF LinkInv, ReceiverInv
<1>7. /\ N \in Nat /\ Len(bounds) = N + 1
      /\ \A k \in 1..Len(bounds) : bounds[k] \in Nat
      /\ \A k \in 1..N : k \in 1..Len(bounds) /\ k + 1 \in 1..Len(bounds)
      /\ \A j, k \in 1..Len(bounds) : bounds[j] < bounds[k] => j < k
      /\ \A j, k \in 1..Len(bounds) : j < k => bounds[j] < bounds[k]
  BY StreamFacts DEF LinkInv
<1>8. state \in {"wait_start", "wait_more"}
  BY <1>6 DEF ReceiverInv
<1>9. ASSUME X!PayloadInside(pkt)
      PROVE  /\ cc' = (g - 1) % CCMod /\ sec_p' = 0 /\ pc' = "more_sections"
             /\ data' = new /\ state' \in {"wait_start", "wait_more"}
             /\ callback' = callback
  <2>1. X!AppendPayload(pkt)
    BY <1>9 DEF X!NoPayload, pkt
  <2>2. QED BY <1>5, <1>6, <1>8, <2>1 DEF X!AppendPayload
<1>10. CASE state = "wait_start"
  <2>1. pkt.pusi /\ ~X!InStep
    BY <1>1, <1>10 DEF X!Accepts, X!InStep
  <2>2. X!PayloadInside(pkt)
        /\ \E m \in 1..Len(bounds) :
             /\ from <= bounds[m] /\ bounds[m] < to
             /\ \A k \in 1..Len(bounds) : k < m => bounds[k] < from
             /\ new \in Seq(Byte)
             /\ 0 < Len(new)
             /\ Reads(stream, bounds, new, 1, Len(new), bounds[m], to)
    BY <1>3, <1>5, <1>10, <2>1, StartTaken
  <2>3. PICK m \in 1..Len(bounds) :
             /\ from <= bounds[m] /\ bounds[m] < to
             /\ \A k \in 1..Len(bounds) : k < m => bounds[k] < from
             /\ new \in Seq(Byte)
             /\ 0 < Len(new)
             /\ Reads(stream, bounds, new, 1, Len(new), bounds[m], to)
    BY <2>2
  <2>4. /\ damaged = {} => /\ Len(received) <= N
                           /\ bounds[Len(received) + 1] = from
        /\ \A k \in 1..N : bounds[k] < from /\ ~Harmed(k) => Received(k)
    BY <1>6, <2>1 DEF ReceiverInv, from, g
  <2>5. damaged = {} => Len(received) = m - 1
    <3>1. SUFFICES ASSUME damaged = {} PROVE Len(received) = m - 1
      OBVIOUS
    <3> DEFINE r == Len(received) + 1
    <3>2. Len(received) \in Nat
      BY <1>6, LenProperties DEF ReceivedInv
    <3>3. r \in 1..Len(bounds) /\ bounds[r] = from
      BY <1>7, <2>4, <3>1, <3>2
    <3> HIDE DEF r
    <3>4. ~(r < m) /\ ~(m < r)
      BY <1>3, <1>7, <2>3, <3>3
    <3>5. r = m
      BY <1>7, <3>3, <3>4
    <3>6. QED BY <3>2, <3>5 DEF r
  <2>6. ASSUME NEW k \in 1..N, bounds[k] < sent[gone' + 1], ~Harmed(k)
        PROVE  Received(k) \/ m <= k
    <3>1. CASE bounds[k] < from
      BY <2>4, <2>6, <3>1
    <3>2. CASE ~(bounds[k] < from)
      <4>1. ~(k < m)
        BY <1>7, <2>3, <3>2
      <4>2. QED BY <1>7, <4>1
    <3>3. QED BY <3>1, <3>2
  <2>7. \/ received = <<>>
        \/ \E j \in 1..(m - 1) : received[Len(received)] = submitted[j]
        \/ \E p \in repeated' : StartsIn(m, p)
    <3>1. SUFFICES ASSUME received # <<>>
                   PROVE  \/ \E j \in 1..(m - 1) : received[Len(received)] = submitted[j]
                          \/ \E p \in repeated' : StartsIn(m, p)
      OBVIOUS
    <3>2. PICK k \in 1..N :
            /\ received[Len(received)] = submitted[k]
            /\ \/ bounds[k + 1] <= sent[gone + 1]
               \/ gone + 1 \in repeated /\ bounds[k + 1] <= sent[gone + 2]
      BY <1>6, <3>1 DEF ReceivedInv
    <3>3. CASE bounds[k + 1] <= sent[gone + 1]
      <4> DEFINE j == k + 1
      <4>1. j \in 1..Len(bounds) /\ bounds[j] <= from
        BY <1>7, <3>3 DEF from, g
      <4> HIDE DEF j
      <4>2. bounds[j] <= bounds[m]
        BY <1>3, <1>7, <2>3, <4>1
      <4>3. ~(m < j)
        BY <1>7, <4>1, <4>2
      <4>4. k \in 1..(m - 1)
        BY <1>7, <4>1, <4>3 DEF j
      <4>5. QED BY <3>2, <4>4
    <3>4. CASE gone + 1 \in repeated
      <4>1. g \in repeated' /\ StartsIn(m, g)
        BY <1>2, <2>3, <3>4 DEF StartsIn, g, from, to
      <4>2. QED BY <4>1
    <3>5. QED BY <3>2, <3>3, <3>4
  <2>8. /\ cc' = (g - 1) % CCMod /\ sec_p' = 0 /\ pc' = "more_sections"
        /\ data' = new /\ state' \in {"wait_start", "wait_more"}
        /\ callback' = callback
    BY <1>9, <2>2
  <2> HIDE DEF new
  <2>9. /\ data' \in Seq(Byte) /\ 0 < Len(data')
        /\ Reads(stream, bounds, data', 1, Len(data'), bounds[m], sent[g + 1])
    BY <2>3, <2>8 DEF to
  <2>10. g = gone + 1
    BY DEF g
  <2> HIDE DEF Harmed, Received, StartsIn
  <2>11. QED BY <2>5, <2>6, <2>7, <2>8, <2>9, <2>10, AtArrived
<1>11. CASE state = "wait_more"
  <2>1. X!InStep
    BY <1>11 DEF X!InStep
  <2>2. PICK u \in 1..(gone + 1), m \in 1..Len(bounds) : At(u, m)
    BY <1>6, <2>1 DEF ReceiverInv
  <2>3. pkt.cc = NextCC(cc)
    BY <1>1, <1>11, ReceiverNames DEF X!Accepts
  <2>4. u = gone
    <3>1. g = gone + 1
      BY DEF g
    <3>2. QED BY <1>3, <1>5, <2>2, <2>3, <3>1, CounterTells
  <2>5. /\ Reads(stream, bounds, data, 1, Len(data), bounds[m], from)
        /\ Len(data) = from - bounds[m]
        /\ bounds[m] \in Nat
    <3>1. u + 1 = g /\ sec_p + 1 = 1
      BY <1>6, <2>4 DEF g
    <3>2. QED BY <1>1, <1>7, <2>2, <3>1 DEF At, from
  <2>6. /\ X!PayloadInside(pkt)
        /\ new \in Seq(Byte)
        /\ 0 < Len(new)
        /\ Reads(stream, bounds, new, 1, Len(new), bounds[m], to)
    <3> DEFINE x == bounds[m]
    <3>1. x \in Nat /\ Reads(stream, bounds, data, 1, Len(data), x, from)
          /\ Len(data) = from - x
      BY <2>5
    <3> HIDE DEF x
    <3>2. /\ X!PayloadInside(pkt)
          /\ new \in Seq(Byte)
          /\ 0 < Len(new)
          /\ Reads(stream, bounds, new, 1, Len(new), x, to)
      BY <1>3, <1>5, <1>11, <3>1, MoreTaken
    <3>3. QED BY <3>2 DEF x
  <2>7. /\ cc' = (g - 1) % CCMod /\ sec_p' = 0 /\ pc' = "more_sections"
        /\ data' = new /\ state' \in {"wait_start", "wait_more"}
        /\ callback' = callback
    BY <1>9, <2>6
  <2>8. damaged = {} => Len(received) = m - 1
    BY <2>2 DEF At
  <2>9. ASSUME NEW k \in 1..N, bounds[k] < sent[gone' + 1], ~Harmed(k)
        PROVE  Received(k) \/ m <= k
    <3>1. CASE bounds[k] < from
      <4>1. bounds[k] < sent[gone + 1]
        BY <3>1 DEF from, g
      <4>2. QED BY <2>2, <2>9, <4>1 DEF At
    <3>2. CASE ~(bounds[k] < from)
      <4>1. bounds[m] <= from
        <5> DEFINE x == bounds[m]
        <5>1. Reads(stream, bounds, data, 1, Len(data), x, from)
          BY <2>5
        <5> HIDE DEF x
        <5>2. x <= from
          BY <5>1 DEF Reads
        <5>3. QED BY <5>2 DEF x
      <4>2. bounds[m] <= bounds[k] /\ k \in 1..Len(bounds)
        BY <1>3, <1>7, <3>2, <4>1
      <4>3. ~(k < m)
        BY <1>7, <4>2
      <4>4. QED BY <1>7, <4>3
    <3>3. QED BY <3>1, <3>2
  <2>10. \/ received = <<>>
         \/ \E j \in 1..(m - 1) : received[Len(received)] = submitted[j]
         \/ \E p \in repeated' : StartsIn(m, p)
    BY <1>2, <2>2 DEF At
  <2> HIDE DEF new
  <2>11. /\ data' \in Seq(Byte) /\ 0 < Len(data')
         /\ Reads(stream, bounds, data', 1, Len(data'), bounds[m], sent[g + 1])
    BY <2>6, <2>7 DEF to
  <2>12. g = gone + 1
    BY DEF g
  <2> HIDE DEF Harmed, Received, StartsIn
  <2>13. QED BY <2>7, <2>8, <2>9, <2>10, <2>11, <2>12, AtArrived
<1>12. QED BY <1>8, <1>10, <1>11


LEMMA SenderKept ==
  ASSUME LinkInv, UNCHANGED <<sender, submitted, stream, bounds, sent>>
  PROVE  StreamInv' /\ PacketsInv' /\ SenderInv' /\ produced' = produced
<1>1. /\ UNCHANGED <<payload_start, payload_end, ts_packet, pusi, sender_cc, pid,
                     sender_pc, rest, wrote_section_start>>
      /\ UNCHANGED <<submitted, stream, bounds, sent>>
  BY DEF sender
<1>2. StreamInv'
  BY <1>1 DEF LinkInv, StreamInv
<1>3. PacketsInv'
  BY <1>1 DEF LinkInv, PacketsInv
<1>4. produced' = produced
  BY <1>1 DEF produced
<1>5. SenderInv'
  BY <1>1, <1>4 DEF LinkInv, SenderInv, Written, LastSent, S!Open
<1>6. QED BY <1>2, <1>3, <1>4, <1>5

LEMMA WirePopped ==
  ASSUME LinkInv, wire # <<>>, wire' = Tail(wire), UNCHANGED <<stream, bounds, sent>>
  PROVE  /\ wire' \in Seq(Pkt) /\ Len(wire') <= produced'
         /\ gone' = gone + 1 /\ gone' + 1 \in 1..Len(sent) /\ gone + 1 \in 1..produced
         /\ \A i \in 1..Len(wire') :
              Complete(stream', bounds', wire'[i], gone' + i, sent'[gone' + i],
                       sent'[gone' + i + 1])
<1>1. /\ wire \in Seq(Pkt) /\ Len(wire) \in Nat /\ gone \in Nat /\ produced \in Nat
      /\ gone + Len(wire) = produced
  BY ChannelFacts
<1>2. /\ wire' \in Seq(Pkt) /\ Len(wire') = Len(wire) - 1
      /\ \A i \in 1..(Len(wire) - 1) : wire'[i] = wire[i + 1]
  BY <1>1, HeadTailProperties
<1>3. produced' = produced
  BY DEF produced
<1>4. gone' = gone + 1
  <2>1. gone' = produced' - Len(wire')
    BY DEF gone
  <2>2. QED BY <1>1, <1>2, <1>3, <2>1
<1>5. gone + 1 \in 1..produced /\ gone' + 1 \in 1..Len(sent)
  <2>1. gone + 1 \in 1..produced /\ gone + 1 + 1 \in 1..Len(sent)
    BY HeadFacts
  <2>2. QED BY <1>4, <2>1
<1>6. ASSUME NEW i \in 1..Len(wire')
      PROVE  Complete(stream', bounds', wire'[i], gone' + i, sent'[gone' + i],
                      sent'[gone' + i + 1])
  <2> DEFINE j == i + 1
  <2>1. j \in 1..Len(wire) /\ wire'[i] = wire[j] /\ gone' + i = gone + j
        /\ gone' + i + 1 = gone + j + 1
    BY <1>1, <1>2, <1>4
  <2> HIDE DEF j
  <2>2. Complete(stream, bounds, wire[j], gone + j, sent[gone + j], sent[gone + j + 1])
    BY <2>1 DEF LinkInv, ChannelInv
  <2>3. QED BY <2>1, <2>2
<1>7. QED BY <1>1, <1>2, <1>3, <1>4, <1>5, <1>6

LEMMA OneMoreDamaged ==
  ASSUME LinkInv, CanDamage, NEW D, D = damaged \cup {gone + 1}
  PROVE  Cardinality(D) <= MaxDamage
<1>1. IsFiniteSet(damaged)
  <2>1. IsFiniteSet(1..produced)
    BY ChannelFacts, FS_Interval
  <2>2. damaged \subseteq 1..produced
    BY ChannelFacts
  <2>3. QED BY <2>1, <2>2, FS_Subset
<1>2. Cardinality(damaged) \in Nat /\ Cardinality(damaged) < MaxDamage
      /\ gone + 1 \notin damaged
  BY <1>1, FS_CardinalityType DEF CanDamage
<1>3. Cardinality(D) = Cardinality(damaged) + 1
  BY <1>1, <1>2, FS_AddElement
<1>4. QED BY <1>2, <1>3, LinkAssumption

LEMMA TakenStep ==
  ASSUME FewDamaged, LinkInv, Arrives, X!TsPacket(Head(wire))
  PROVE  ReceiverInv' /\ ReceivedInv'
<1>1. ReceiverInv'
  BY NotAcceptedStep, AcceptedStep DEF X!TsPacket
<1>2. damaged \subseteq damaged' /\ gone' + 1 \in 1..Len(sent)
  BY ArrivesFacts
<1>3. ReceivedInv'
  BY <1>2, LastSectionKept DEF Arrives
<1>4. QED BY <1>1, <1>3

LEMMA DeliverStep ==
  ASSUME FewDamaged, LinkInv, Deliver
  PROVE  LinkInv'
<1>1. /\ wire # <<>> /\ X!TsPacket(Head(wire)) /\ wire' = Tail(wire)
      /\ UNCHANGED <<submitted, received, stream, bounds, sent, lost, repeated, sender>>
  BY DEF Deliver, history
<1>2. StreamInv' /\ PacketsInv' /\ SenderInv' /\ produced' = produced
  BY <1>1, SenderKept
<1>3. /\ wire' \in Seq(Pkt) /\ Len(wire') <= produced'
      /\ gone' = gone + 1 /\ gone + 1 \in 1..produced
      /\ \A i \in 1..Len(wire') :
           Complete(stream', bounds', wire'[i], gone' + i, sent'[gone' + i],
                    sent'[gone' + i + 1])
  BY <1>1, WirePopped
<1>4. /\ repeated \subseteq 1..produced /\ gone \in Nat
      /\ lost \subseteq 1..gone /\ repeated \subseteq 1..(gone + 1)
      /\ Cardinality(damaged) <= MaxDamage
  BY ChannelFacts DEF LinkInv, ChannelInv
<1>5. lost' \subseteq 1..gone' /\ repeated' \subseteq 1..(gone' + 1)
      /\ repeated' \subseteq 1..produced'
  BY <1>1, <1>2, <1>3, <1>4
<1>6. damaged' = damaged
  BY <1>1 DEF damaged
<1>7. ChannelInv'
  BY <1>3, <1>4, <1>5, <1>6 DEF ChannelInv
<1>8. Arrives
  <2>1. gone' # gone
    BY <1>3, <1>4
  <2>2. QED BY <1>1, <1>3, <1>4, <2>1 DEF Arrives
<1>9. ReceiverInv' /\ ReceivedInv'
  BY <1>1, <1>8, TakenStep
<1>10. QED BY <1>2, <1>7, <1>9 DEF LinkInv

LEMMA RepeatStep ==
  ASSUME FewDamaged, LinkInv, Repeat
  PROVE  LinkInv'
<1>1. /\ CanDamage /\ wire # <<>> /\ X!TsPacket(Head(wire))
      /\ repeated' = repeated \cup {gone + 1}
      /\ UNCHANGED <<submitted, received, stream, bounds, sent, lost, wire, sender>>
  BY DEF Repeat, CanDamage, history
<1>2. StreamInv' /\ PacketsInv' /\ SenderInv' /\ produced' = produced
  BY <1>1, SenderKept
<1>3. gone' = gone
  BY <1>1, <1>2 DEF gone
<1>4. /\ repeated \subseteq 1..produced /\ gone \in Nat /\ gone + 1 \in 1..produced
      /\ lost \subseteq 1..gone /\ repeated \subseteq 1..(gone + 1)
  BY <1>1, ChannelFacts, HeadFacts DEF LinkInv, ChannelInv
<1>5. Cardinality(damaged') <= MaxDamage
  <2>1. damaged' = damaged \cup {gone + 1}
    BY <1>1 DEF damaged
  <2>2. QED BY <1>1, <2>1, OneMoreDamaged
<1>6. repeated' \subseteq 1..(gone + 1) /\ repeated' \subseteq 1..produced
  BY <1>1, <1>4
<1>7. ChannelInv'
  BY <1>1, <1>2, <1>3, <1>5, <1>6 DEF LinkInv, ChannelInv
<1>8. Arrives
  BY <1>1, <1>3, <1>6 DEF Arrives
<1>9. ReceiverInv' /\ ReceivedInv'
  BY <1>1, <1>8, TakenStep
<1>10. QED BY <1>2, <1>7, <1>9 DEF LinkInv

LEMMA ConnectStep ==
  ASSUME LinkInv, Connect
  PROVE  LinkInv'
<1>1. /\ callback' = TRUE
      /\ UNCHANGED <<state, data, sec_p, cc, pc>>
      /\ UNCHANGED <<sender, wire, lost, repeated>>
      /\ UNCHANGED <<submitted, received, stream, bounds, sent>>
  BY DEF Connect, X!OnSectionReady, channel, history
<1>2. StreamInv' /\ PacketsInv' /\ SenderInv' /\ produced' = produced
  BY <1>1, SenderKept
<1>3. gone' = gone /\ damaged' = damaged
  BY <1>1, <1>2 DEF gone, damaged
<1>4. ChannelInv'
  BY <1>1, <1>2, <1>3 DEF LinkInv, ChannelInv
<1>5. ReceivedInv'
  BY <1>1, <1>3 DEF LinkInv, ReceivedInv, NothingForged
<1>6. /\ \A k : (Harmed(k)' <=> Harmed(k)) /\ (Received(k)' <=> Received(k))
      /\ \A u, m : At(u, m)' <=> At(u, m)
  <2>1. \A k : (Harmed(k)' <=> Harmed(k)) /\ (Received(k)' <=> Received(k))
    BY <1>1, <1>2, <1>3 DEF Harmed, Carries, Received
  <2>2. \A k, p : StartsIn(k, p)' <=> StartsIn(k, p)
    BY <1>1 DEF StartsIn
  <2> HIDE DEF Harmed, Received, StartsIn
  <2>3. \A u, m : At(u, m)' <=> At(u, m)
    BY <1>1, <1>2, <1>3, <2>1, <2>2 DEF At
  <2>4. QED BY <2>1, <2>3
<1>7. ReceiverInv'
  <2> HIDE DEF Harmed, Received, At
  <2>1. (X!InStep)' <=> X!InStep
    BY <1>1 DEF X!InStep
  <2>2. QED BY <1>1, <1>3, <1>6, <2>1 DEF LinkInv, ReceiverInv
<1>8. QED BY <1>2, <1>4, <1>5, <1>7 DEF LinkInv


LEMMA LoseStep ==
  ASSUME LinkInv, Lose
  PROVE  LinkInv'
<1> DEFINE g == gone + 1
           N == Len(submitted)
<1>1. /\ CanDamage /\ wire # <<>> /\ wire' = Tail(wire)
      /\ lost' = lost \cup {g}
      /\ UNCHANGED <<submitted, received, stream, bounds, sent, repeated, sender>>
      /\ UNCHANGED <<state, data, sec_p, cc, callback, pc>>
  BY DEF Lose, CanDamage, history, receiver
<1>2. StreamInv' /\ PacketsInv' /\ SenderInv' /\ produced' = produced
  BY <1>1, SenderKept
<1>3. /\ wire' \in Seq(Pkt) /\ Len(wire') <= produced'
      /\ gone' = g /\ gone' + 1 \in 1..Len(sent)
      /\ \A i \in 1..Len(wire') :
           Complete(stream', bounds', wire'[i], gone' + i, sent'[gone' + i],
                    sent'[gone' + i + 1])
  BY <1>1, WirePopped
<1>4. /\ repeated \subseteq 1..produced /\ gone \in Nat /\ g \in 1..produced
      /\ lost \subseteq 1..gone /\ repeated \subseteq 1..(gone + 1)
      /\ sent[g] \in Nat /\ sent[g + 1] \in Nat /\ sent[g] < sent[g + 1]
      /\ produced \in Nat
  BY <1>1, ChannelFacts, HeadFacts DEF LinkInv, ChannelInv
<1>5. /\ damaged' = damaged \cup {g} /\ damaged \subseteq damaged' /\ g \in damaged'
      /\ damaged' # {}
  BY <1>1 DEF damaged
<1>6. ChannelInv'
  <2>1. Cardinality(damaged') <= MaxDamage
    BY <1>1, <1>5, OneMoreDamaged
  <2>2. lost' \subseteq 1..gone' /\ repeated' \subseteq 1..(gone' + 1)
    BY <1>1, <1>3, <1>4
  <2>3. repeated' \subseteq 1..produced'
    BY <1>1, <1>2, <1>4
  <2>4. QED BY <1>3, <2>1, <2>2, <2>3 DEF ChannelInv
<1>7. ReceivedInv'
  <2>1. gone' \in {gone, gone + 1} /\ repeated \subseteq repeated'
    BY <1>1, <1>3
  <2>2. QED BY <1>1, <1>3, <1>5, <2>1, LastSectionKept
<1>8. /\ \A k : Harmed(k)' <=> HarmedBy(damaged', k)
      /\ \A k : Received(k)' <=> Received(k)
      /\ \A k, p : StartsIn(k, p)' <=> StartsIn(k, p)
  <2>1. \A k : Harmed(k)' <=> HarmedBy(damaged', k)
    BY <1>1, HarmedNow
  <2>2. QED BY <1>1, <2>1 DEF Received, StartsIn
<1>9. ASSUME NEW k \in 1..N, bounds[k] < sent[g + 1], ~HarmedBy(damaged', k)
      PROVE  bounds[k] < sent[gone + 1] /\ bounds[k + 1] <= sent[gone + 1] /\ ~Harmed(k)
  <2>1. bounds[k + 1] <= sent[g] /\ bounds[k] < sent[g]
    <3>1. g \in damaged' \/ g - 1 \in damaged'
      BY <1>5
    <3> HIDE DEF g
    <3>2. QED BY <1>4, <1>9, <3>1, UnharmedEnds
  <2>2. ~Harmed(k)
    BY <1>5, <1>9, HarmedBefore
  <2>3. QED BY <2>1, <2>2
<1>10. ReceiverInv
  BY DEF LinkInv
<1> HIDE DEF g
<1>11. ASSUME NEW u \in 1..(gone + 1), NEW m \in 1..Len(bounds), At(u, m)
       PROVE  At(u, m)'
  <2>1. /\ u <= produced' /\ (u > gone' => u \in repeated')
        /\ cc' = (u - 1) % CCMod
    <3>1. u <= g
      BY <1>4 DEF g
    <3>2. QED BY <1>1, <1>2, <1>3, <1>4, <1>11, <3>1 DEF At
  <2>2. (u + 1)..gone' \subseteq lost'
    <3>1. ASSUME NEW i \in (u + 1)..gone' PROVE i \in lost'
      <4>1. i = g \/ i \in (u + 1)..gone
        BY <1>3, <1>4 DEF g
      <4>2. (u + 1)..gone \subseteq lost
        BY <1>11 DEF At
      <4>3. QED BY <1>1, <4>1, <4>2
    <3>2. QED BY <3>1
  <2>3. ASSUME NEW k \in 1..Len(submitted'), bounds'[k] < sent'[gone' + 1], ~Harmed(k)'
        PROVE  Received(k)' \/ (m <= k /\ (u >= gone' \/ bounds'[k + 1] <= sent'[u + 1]))
    <3> HIDE DEF Harmed, Received
    <3>1. k \in 1..N /\ bounds[k] < sent[g + 1] /\ ~HarmedBy(damaged', k)
      BY <1>1, <1>3, <1>8, <2>3
    <3>2. bounds[k] < sent[gone + 1] /\ bounds[k + 1] <= sent[gone + 1] /\ ~Harmed(k)
      BY <1>9, <3>1
    <3>3. Received(k) \/ (m <= k /\ (u >= gone \/ bounds[k + 1] <= sent[u + 1]))
      BY <1>11, <3>1, <3>2 DEF At
    <3>4. CASE Received(k)
      BY <1>8, <3>4
    <3>5. CASE m <= k /\ bounds[k + 1] <= sent[u + 1]
      BY <1>1, <3>5
    <3>6. CASE m <= k /\ u >= gone
      <4>1. u = gone \/ u = g
        BY <1>4, <3>6 DEF g
      <4>2. CASE u = gone
        BY <1>1, <3>2, <3>6, <4>2
      <4>3. CASE u = g
        BY <1>3, <1>4, <3>6, <4>3
      <4>4. QED BY <4>1, <4>2, <4>3
    <3>7. QED BY <3>3, <3>4, <3>5, <3>6
  <2> HIDE DEF Harmed, Received, StartsIn
  <2>4. Reads(stream', bounds', data', sec_p' + 1, Len(data'), bounds'[m], sent'[u + 1])
        /\ sec_p' < Len(data')
    BY <1>1, <1>11 DEF At
  <2>5. /\ pc' = "idle" => /\ Len(data') = sent'[u + 1] - bounds'[m]
                           /\ m <= Len(submitted')
                           /\ sent'[u + 1] < bounds'[m + 1]
        /\ \/ received' = <<>>
           \/ \E j \in 1..(m - 1) : received'[Len(received')] = submitted'[j]
           \/ \E p \in repeated' : StartsIn(m, p)'
    BY <1>1, <1>8, <1>11 DEF At
  <2>6. QED BY <1>5, <2>1, <2>2, <2>3, <2>4, <2>5 DEF At
<1>12. (X!InStep)' <=> X!InStep
  BY <1>1 DEF X!InStep
<1>13. ASSUME X!InStep
       PROVE  \E u \in 1..(gone' + 1), m \in 1..Len(bounds') : At(u, m)'
  <2> HIDE DEF At
  <2>1. PICK u \in 1..(gone + 1), m \in 1..Len(bounds) : At(u, m)
    BY <1>10, <1>13 DEF ReceiverInv
  <2>2. u \in 1..(gone' + 1)
    BY <1>3, <1>4 DEF g
  <2>3. m \in 1..Len(bounds')
    BY <1>1
  <2>4. QED BY <1>11, <2>1, <2>2, <2>3
<1>14. ASSUME ~X!InStep
       PROVE  \A k \in 1..Len(submitted') :
                bounds'[k] < sent'[gone' + 1] /\ ~Harmed(k)' => Received(k)'
  <2> HIDE DEF Harmed, Received
  <2>1. \A k \in 1..N : bounds[k] < sent[gone + 1] /\ ~Harmed(k) => Received(k)
    BY <1>10, <1>14 DEF ReceiverInv
  <2>2. QED BY <1>1, <1>3, <1>8, <1>9, <2>1
<1>15. submitted' # <<>> \/ pc' = "more_sections" => callback'
  BY <1>1, <1>10 DEF ReceiverInv
<1>16. ReceiverInv'
  <2> HIDE DEF Harmed, Received, At
  <2>1. QED BY <1>1, <1>5, <1>10, <1>12, <1>13, <1>14, <1>15 DEF ReceiverInv
<1>17. QED BY <1>2, <1>6, <1>7, <1>16 DEF LinkInv


----------------------------------------------------------------------------
(* the loop at more_sections *)

\* r are the bytes of the stream after x up to z, and then stuffing
Ahead(r, x, z) ==
  /\ r \in Seq(Byte) /\ Len(r) \in Nat /\ Len(r) >= 1
  /\ x \in Nat /\ z \in Nat /\ x <= z /\ z <= Len(stream)
  /\ z - x <= Len(r)
  /\ z - x < Len(r) => \E k \in 1..Len(bounds) : bounds[k] = z
  /\ \A i \in 1..Len(r) : i <= z - x => r[i] = stream[x + i]
  /\ z = x => r[1] = StuffByte

\* what the extractor has before it at more_sections
LEMMA RestFacts ==
  ASSUME LinkInv, NEW u \in 1..(gone + 1), NEW m \in 1..Len(bounds), At(u, m),
         NEW r, r = X!Rest, NEW x, x = bounds[m], NEW z, z = sent[u + 1]
  PROVE  /\ Ahead(r, x, z)
         /\ u \in 1..produced
         /\ X!data_len = Len(r) /\ Len(r) = Len(data) - sec_p
         /\ Reads(stream, bounds, r, 1, Len(r), x, z)
<1>1. data \in Seq(Byte) /\ sec_p \in Nat /\ sec_p <= Len(data) /\ Len(data) \in Nat
  BY LenProperties DEF LinkInv, ReceiverInv
<1>2. /\ u \in 1..produced /\ sec_p < Len(data)
      /\ Reads(stream, bounds, data, sec_p + 1, Len(data), x, z)
  BY DEF At
<1>3. x \in Nat
  BY StreamFacts DEF LinkInv
<1>4. z \in Nat /\ z <= Len(stream)
  BY <1>2, ChannelFacts
<1>5. r = SubSeq(data, sec_p + 1, Len(data))
  BY DEF X!Rest
<1>6. /\ r \in Seq(Byte) /\ Len(r) = Len(data) - sec_p
      /\ Reads(stream, bounds, r, 1, Len(r), x, z)
  <2>1. x \in Int /\ z \in Int
    BY <1>3, <1>4
  <2> HIDE DEF At
  <2>2. LET q == SubSeq(data, sec_p + 1, Len(data)) IN
        /\ q \in Seq(Byte) /\ Len(q) = Len(data) - sec_p
        /\ Reads(stream, bounds, q, 1, Len(q), x, z)
    BY <1>1, <1>2, <2>1, ReadsMoved
  <2>3. QED BY <1>5, <2>2
<1>7. Len(r) \in Nat /\ Len(r) >= 1 /\ X!data_len = Len(r)
  BY <1>1, <1>2, <1>6 DEF X!data_len
<1>8. /\ x <= z /\ z - x <= Len(r)
      /\ z - x < Len(r) => \E k \in 1..Len(bounds) : bounds[k] = z
      /\ \A i \in 1..Len(r) : r[i] = IF i - 1 < z - x THEN stream[x + 1 + (i - 1)]
                                     ELSE StuffByte
  <2>1. /\ x <= z /\ 1 + (z - x) <= Len(r) + 1
        /\ 1 + (z - x) <= Len(r) => \E k \in 1..Len(bounds) : bounds[k] = z
        /\ \A i \in 1..Len(r) : r[i] = IF i - 1 < z - x THEN stream[x + 1 + (i - 1)]
                                       ELSE StuffByte
    BY <1>6 DEF Reads
  <2>2. (1 + (z - x) <= Len(r) + 1 => z - x <= Len(r))
        /\ (z - x < Len(r) => 1 + (z - x) <= Len(r))
    BY <1>3, <1>4, <1>7
  <2>3. QED BY <2>1, <2>2
<1>9. ASSUME NEW i \in 1..Len(r), i <= z - x
      PROVE  r[i] = stream[x + i]
  <2>1. i - 1 < z - x /\ x + 1 + (i - 1) = x + i
    BY <1>3, <1>4, <1>9
  <2>2. QED BY <1>8, <2>1
<1>10. z = x => r[1] = StuffByte
  <2>1. 1 \in 1..Len(r) /\ (z = x => ~(1 - 1 < z - x))
    BY <1>3, <1>7
  <2>2. QED BY <1>8, <2>1
<1>11. Ahead(r, x, z)
  BY <1>3, <1>4, <1>6, <1>7, <1>8, <1>9, <1>10 DEF Ahead
<1>12. QED BY <1>2, <1>6, <1>7, <1>11

\* it is at its end, or the section it is in is there, in part or whole
LEMMA SectionHere ==
  ASSUME LinkInv, NEW u \in 1..(gone + 1), NEW m \in 1..Len(bounds), At(u, m),
         NEW r, r = X!Rest, NEW x, x = bounds[m], NEW z, z = sent[u + 1]
  PROVE  /\ X!EndsHere <=> x = z
         /\ x < z => /\ m \in 1..Len(submitted)
                     /\ Len(submitted[m]) \in Nat /\ Len(submitted[m]) >= 3
                     /\ Len(submitted[m]) <= X!MaxSectionSize
                     /\ bounds[m + 1] = x + Len(submitted[m])
                     /\ X!SizeKnown => X!SectionSize(r) = Len(submitted[m])
                     /\ z < bounds[m + 1] => Len(r) = z - x
                     /\ bounds[m + 1] <= z =>
                          /\ Len(r) >= Len(submitted[m]) /\ X!SizeKnown
                          /\ SubSeq(r, 1, Len(submitted[m])) = submitted[m]
<1> DEFINE N == Len(submitted)
<1>0. Ahead(r, x, z) /\ X!data_len = Len(r)
  BY RestFacts
<1>1. /\ r \in Seq(Byte) /\ Len(r) \in Nat /\ Len(r) >= 1 /\ X!data_len = Len(r)
      /\ x \in Nat /\ z \in Nat /\ x <= z /\ z <= Len(stream)
      /\ z - x <= Len(r)
  BY <1>0 DEF Ahead
<1>2. /\ N \in Nat /\ Len(bounds) = N + 1
      /\ \A k \in 1..Len(bounds) : bounds[k] \in Nat
      /\ \A k \in 1..Len(bounds) : k = Len(bounds) => bounds[k] = Len(stream)
      /\ \A j, k \in 1..Len(bounds) : bounds[j] < bounds[k] => j < k
      /\ \A j, k \in 1..Len(bounds) : j <= k => bounds[j] <= bounds[k]
  BY StreamFacts DEF LinkInv
<1>3. X!EndsHere <=> r[1] = StuffByte
  BY <1>1, ReceiverNames DEF X!EndsHere
<1>4. x = z => X!EndsHere
  BY <1>0, <1>3 DEF Ahead
<1>5. ASSUME x < z
      PROVE  /\ m \in 1..N /\ ~X!EndsHere
             /\ Len(submitted[m]) \in Nat /\ Len(submitted[m]) >= 3
             /\ Len(submitted[m]) <= X!MaxSectionSize
             /\ bounds[m + 1] = x + Len(submitted[m])
             /\ X!SizeKnown => X!SectionSize(r) = Len(submitted[m])
             /\ z < bounds[m + 1] => Len(r) = z - x
             /\ bounds[m + 1] <= z =>
                  /\ Len(r) >= Len(submitted[m]) /\ X!SizeKnown
                  /\ SubSeq(r, 1, Len(submitted[m])) = submitted[m]
  <2> DEFINE s == submitted[m]
             n == Len(s)
             b == bounds[m + 1]
  <2>1. m \in 1..N
    <3>1. m # Len(bounds)
      BY <1>1, <1>2, <1>5
    <3>2. QED BY <1>2, <3>1
  <2>2. /\ WellFormed(s) /\ b = x + n /\ \A i \in 1..n : s[i] = stream[x + i]
    BY <2>1 DEF LinkInv, StreamInv
  <2>3. s \in Seq(Byte) /\ n \in Nat /\ n >= 3
    BY <2>2, SectionLength
  <2>4. n = SectionSize(s) /\ n <= X!MaxSectionSize /\ s[1] # StuffByte
    BY <2>2 DEF WellFormed, HasSection
  <2>5. m + 1 \in 1..Len(bounds) /\ b \in Nat
    BY <1>2, <2>1
  <2>6. z - x < Len(r) => b <= z
    <3>1. ASSUME NEW k \in 1..Len(bounds), bounds[k] = z
          PROVE  b <= z
      <4>1. m < k
        BY <1>2, <1>5, <3>1
      <4> DEFINE i == m + 1
      <4>2. i \in 1..Len(bounds) /\ i <= k
        BY <2>1, <2>5, <4>1
      <4> HIDE DEF i
      <4>3. bounds[i] <= bounds[k]
        BY <1>2, <4>2
      <4>4. QED BY <3>1, <4>3 DEF i
    <3>2. QED BY <1>0, <3>1 DEF Ahead
  <2> HIDE DEF s, n, b
  <2>7. \A i \in 1..Len(r) : i <= z - x /\ i <= n => r[i] = s[i]
    <3>1. ASSUME NEW i \in 1..Len(r), i <= z - x, i <= n PROVE r[i] = s[i]
      <4>1. i \in 1..n
        BY <2>3, <3>1
      <4>2. r[i] = stream[x + i]
        BY <1>0, <3>1 DEF Ahead
      <4>3. QED BY <2>2, <4>1, <4>2
    <3>2. QED BY <3>1
  <2>8. r[1] = s[1]
    <3>1. 1 \in 1..Len(r) /\ 1 <= z - x /\ 1 <= n
      BY <1>1, <1>5, <2>3
    <3>2. QED BY <2>7, <3>1
  <2>9. ~X!EndsHere
    BY <1>3, <2>4, <2>8
  <2>10. X!SizeKnown <=> Len(r) >= 3
    BY <1>1, <2>9 DEF X!SizeKnown
  <2>11. ASSUME Len(r) >= 3 PROVE X!SectionSize(r) = n
    <3>1. z - x >= 3
      <4>1. CASE z - x < Len(r)
        <5>1. b <= z /\ b = x + n /\ x \in Nat /\ z \in Nat
          BY <1>1, <2>2, <2>6, <4>1
        <5>2. n \in Nat /\ n >= 3
          BY <2>3
        <5>3. x + n <= z
          BY <5>1
        <5>4. z - x >= n
          BY <5>1, <5>2, <5>3, MovedOver
        <5>5. QED BY <5>1, <5>2, <5>4
      <4>2. CASE ~(z - x < Len(r))
        BY <1>1, <2>11, <4>2
      <4>3. QED BY <4>1, <4>2
    <3>2. 2 \in 1..Len(r) /\ 2 <= z - x /\ 2 <= n /\ 3 \in 1..Len(r) /\ 3 <= n
      BY <1>1, <2>3, <2>11, <3>1
    <3>3. r[2] = s[2] /\ r[3] = s[3]
      BY <2>7, <3>1, <3>2
    <3>4. SectionSize(r) = SectionSize(s)
      BY <3>3 DEF SectionSize
    <3>5. QED BY <2>4, <3>4, ReceiverNames
  <2>12. z < b => Len(r) = z - x
    BY <1>1, <2>5, <2>6
  <2>13. ASSUME b <= z PROVE Len(r) >= n /\ Len(r) >= 3 /\ SubSeq(r, 1, n) = s
    <3>1. n <= Len(r) /\ n <= z - x
      <4>1. b = x + n /\ x \in Nat /\ z \in Nat /\ z - x <= Len(r) /\ Len(r) \in Nat
        BY <1>1, <2>2
      <4>2. n \in Nat
        BY <2>3
      <4>3. x + n <= z
        BY <2>13, <4>1
      <4>4. n <= z - x
        BY <4>1, <4>2, <4>3, MovedOver
      <4>5. QED BY <4>1, <4>2, <4>4
    <3>2. \A i \in 1..n : i \in 1..Len(r) /\ r[i] = s[i]
      <4>1. \A i \in 1..n : i \in 1..Len(r) /\ i <= z - x /\ i <= n
        BY <1>1, <2>3, <3>1
      <4>2. QED BY <2>7, <4>1
    <3> DEFINE t == SubSeq(r, 1, n)
    <3>3. t \in Seq(Byte) /\ Len(t) = n /\ \A i \in 1..n : t[i] = r[i]
      <4>1. \A i \in 1..n : r[i] \in Byte
        BY <1>1, <3>2, ElementOfSeq
      <4>2. /\ t \in Seq(Byte) /\ Len(t) = n - 1 + 1
            /\ \A i \in 1..(n - 1 + 1) : t[i] = r[1 + i - 1]
        BY <2>3, <4>1, SubSeqProperties
      <4>3. \A i \in 1..n : 1 + i - 1 = i
        BY <2>3
      <4>4. QED BY <2>3, <4>2, <4>3
    <3> HIDE DEF t
    <3>4. t = s
      BY <2>3, <3>2, <3>3, SeqEqual DEF n
    <3>5. QED BY <1>1, <2>3, <3>1, <3>4 DEF t
  <2>14. QED BY <2>1, <2>2, <2>3, <2>4, <2>9, <2>10, <2>11, <2>12, <2>13 DEF s, n, b
<1>6. QED BY <1>1, <1>4, <1>5


\* nothing of section n or a later one has arrived
LEMMA EndsAt ==
  ASSUME LinkInv, NEW u \in 1..produced, NEW n \in 1..Len(bounds),
         sent[u + 1] = bounds[n], NEW k \in 1..Len(submitted), n <= k,
         bounds[k] < sent[gone + 1], u >= gone \/ bounds[k + 1] <= sent[u + 1]
  PROVE  FALSE
<1> DEFINE a == gone + 1
           b == u + 1
<1>1. /\ bounds[n] \in Nat /\ bounds[k] \in Nat /\ bounds[k + 1] \in Nat
      /\ bounds[n] <= bounds[k] /\ bounds[k] + 3 <= bounds[k + 1]
  BY StreamFacts DEF LinkInv
<1>2. /\ a \in 1..Len(sent) /\ b \in 1..Len(sent) /\ a \in Int /\ b \in Int
      /\ u >= gone => a <= b
      /\ \A p \in 1..Len(sent) : sent[p] \in Nat
  <2>1. /\ gone \in Nat /\ a \in 1..Len(sent)
        /\ \A p \in 1..Len(sent) : sent[p] \in Nat
        /\ \A p \in 1..produced : p + 1 \in 1..Len(sent)
    BY ChannelFacts
  <2>2. QED BY <2>1
<1> HIDE DEF a, b
<1>3. sent[a] \in Nat /\ sent[b] \in Nat /\ (a <= b => sent[a] <= sent[b])
  <2>1. a < b => sent[a] < sent[b]
    BY <1>2 DEF LinkInv, PacketsInv
  <2>2. a <= b => a < b \/ a = b
    BY <1>2
  <2>3. QED BY <1>2, <2>1, <2>2
<1>4. bounds[k] < sent[a] /\ sent[b] = bounds[n]
  BY DEF a, b
<1>5. CASE u >= gone
  <2>1. a <= b
    BY <1>2, <1>5
  <2>2. sent[a] <= sent[b]
    BY <1>3, <2>1
  <2>3. bounds[n] <= bounds[k] /\ bounds[n] \in Nat /\ bounds[k] \in Nat
    BY <1>1
  <2>4. sent[a] \in Nat /\ bounds[k] < sent[a] /\ sent[a] <= bounds[n]
    BY <1>3, <1>4, <2>2
  <2>5. QED BY <2>3, <2>4, Rising
<1>6. CASE bounds[k + 1] <= sent[b]
  <2>1. bounds[k + 1] <= bounds[n]
    BY <1>4, <1>6
  <2>2. /\ bounds[k] \in Nat /\ bounds[k + 1] \in Nat /\ bounds[n] \in Nat
        /\ bounds[n] <= bounds[k] /\ bounds[k] + 3 <= bounds[k + 1]
    BY <1>1
  <2>3. bounds[k] < bounds[k + 1]
    BY <2>2
  <2>4. QED BY <2>1, <2>2, <2>3, Rising
<1>7. QED BY <1>5, <1>6 DEF b

LEMMA ExtractFrame ==
  ASSUME LinkInv, ExtractMore
  PROVE  /\ StreamInv' /\ PacketsInv' /\ SenderInv' /\ ChannelInv'
         /\ UNCHANGED <<submitted, stream, bounds, sent, lost, repeated, cc, callback>>
         /\ produced' = produced /\ gone' = gone /\ damaged' = damaged
         /\ \A k : Harmed(k)' <=> Harmed(k)
         /\ \A k, p : StartsIn(k, p)' <=> StartsIn(k, p)
         /\ pc = "more_sections" /\ callback
         /\ \E u \in 1..(gone + 1), m \in 1..Len(bounds) : At(u, m)
<1>1. /\ X!MoreSections
      /\ UNCHANGED <<sender, submitted, stream, bounds, sent, wire, lost, repeated>>
  BY DEF ExtractMore, channel
<1>2. pc = "more_sections" /\ UNCHANGED <<cc, callback>>
  BY <1>1 DEF X!MoreSections, X!NoMoreSections, X!KeepRest, X!TooLong, X!NoCallback,
              X!SectionCompleted, X!Reset, X!Return
<1>3. StreamInv' /\ PacketsInv' /\ SenderInv' /\ produced' = produced
  BY <1>1, SenderKept
<1>4. gone' = gone /\ damaged' = damaged
  BY <1>1, <1>3 DEF gone, damaged
<1>5. ChannelInv'
  BY <1>1, <1>3, <1>4 DEF LinkInv, ChannelInv
<1>6. \A k : Harmed(k)' <=> Harmed(k)
  BY <1>1, <1>3, <1>4 DEF Harmed, Carries
<1>7. \A k, p : StartsIn(k, p)' <=> StartsIn(k, p)
  BY <1>1 DEF StartsIn
<1>8. callback /\ \E u \in 1..(gone + 1), m \in 1..Len(bounds) : At(u, m)
  <2> HIDE DEF At
  <2>1. X!InStep
    BY <1>2 DEF X!InStep
  <2>2. QED BY <1>2, <2>1 DEF LinkInv, ReceiverInv
<1>9. QED BY <1>1, <1>2, <1>3, <1>4, <1>5, <1>6, <1>7, <1>8

\* nothing more in the packet
LEMMA NoMoreSectionsStep ==
  ASSUME LinkInv, ExtractMore, X!NoMoreSections
  PROVE  ReceiverInv' /\ received' = received
<1> DEFINE N == Len(submitted)
<1>1. /\ X!EndsHere /\ state' = "wait_start" /\ data' = SubSeq(data, 1, X!data_len)
      /\ sec_p' = 0 /\ pc' = "idle" /\ section' = <<>>
  BY DEF X!NoMoreSections, X!Reset, X!Return
<1>2. /\ UNCHANGED <<submitted, stream, bounds, sent, lost, repeated, cc, callback>>
      /\ gone' = gone /\ damaged' = damaged
      /\ \A k : Harmed(k)' <=> Harmed(k)
      /\ callback
      /\ \E u \in 1..(gone + 1), m \in 1..Len(bounds) : At(u, m)
  BY ExtractFrame
<1>3. received' = received
  BY <1>1 DEF ExtractMore
<1>4. PICK u \in 1..(gone + 1), m \in 1..Len(bounds) : At(u, m)
  BY <1>2
<1>5. u \in 1..produced /\ sent[u + 1] = bounds[m]
  BY <1>1, <1>4, RestFacts, SectionHere
<1>6. data' \in Seq(Byte) /\ 0 <= Len(data')
  <2>1. data \in Seq(Byte) /\ Len(data) \in Nat /\ sec_p \in Nat /\ sec_p <= Len(data)
    BY LenProperties DEF LinkInv, ReceiverInv
  <2>2. X!data_len \in 0..Len(data)
    BY <2>1 DEF X!data_len
  <2>3. \A i \in 1..X!data_len : data[i] \in Byte
    BY <2>1, <2>2, ElementOfSeq
  <2>4. data' \in Seq(Byte)
    BY <1>1, <2>2, <2>3, SubSeqProperties
  <2>5. QED BY <2>4, LenProperties
<1>7. ~(X!InStep)'
  BY <1>1 DEF X!InStep
<1>8. damaged = {} => /\ Len(received) <= N
                      /\ bounds[Len(received) + 1] = sent[gone + 1]
  <2>1. SUFFICES ASSUME damaged = {}
                 PROVE  Len(received) <= N /\ bounds[Len(received) + 1] = sent[gone + 1]
    OBVIOUS
  <2>2. u = gone /\ Len(received) = m - 1
    BY <1>4, <2>1 DEF At
  <2>3. Len(received) <= N
    BY <2>1 DEF LinkInv, ReceivedInv
  <2>4. Len(received) + 1 = m
    BY <2>2
  <2>5. QED BY <1>5, <2>2, <2>3, <2>4
<1>9. ASSUME NEW k \in 1..N, bounds[k] < sent[gone + 1], ~Harmed(k)
      PROVE  Received(k)
  <2>1. Received(k) \/ (m <= k /\ (u >= gone \/ bounds[k + 1] <= sent[u + 1]))
    BY <1>4, <1>9 DEF At
  <2> HIDE DEF Received, Harmed, At
  <2>2. QED BY <1>5, <1>9, <2>1, EndsAt
<1>10. \A k : Received(k)' <=> Received(k)
  BY <1>2, <1>3 DEF Received
<1>11. ReceiverInv'
  <2> HIDE DEF Received, Harmed, At
  <2>1. \A k \in 1..Len(submitted') :
          bounds'[k] < sent'[gone' + 1] /\ ~Harmed(k)' => Received(k)'
    BY <1>2, <1>9, <1>10
  <2>2. QED BY <1>1, <1>2, <1>3, <1>6, <1>7, <1>8, <2>1 DEF ReceiverInv
<1>12. QED BY <1>3, <1>11

\* the beginning of a section waits for the rest of it
LEMMA KeepRestStep ==
  ASSUME LinkInv, ExtractMore, X!KeepRest
  PROVE  ReceiverInv' /\ received' = received
<1> DEFINE N == Len(submitted)
           r == X!Rest
<1>1. /\ ~X!EndsHere /\ state' = "wait_more" /\ data' = r
      /\ sec_p' = 0 /\ pc' = "idle" /\ section' = <<>>
      /\ X!SizeKnown => X!data_len < X!SectionSize(r)
  BY DEF X!KeepRest, X!Return, X!Moved
<1>2. /\ UNCHANGED <<submitted, stream, bounds, sent, lost, repeated, cc, callback>>
      /\ produced' = produced /\ gone' = gone /\ damaged' = damaged
      /\ \A k : Harmed(k)' <=> Harmed(k)
      /\ \A k, p : StartsIn(k, p)' <=> StartsIn(k, p)
      /\ callback
      /\ \E u \in 1..(gone + 1), m \in 1..Len(bounds) : At(u, m)
  BY ExtractFrame
<1>3. received' = received
  BY <1>1 DEF ExtractMore
<1>4. PICK u \in 1..(gone + 1), m \in 1..Len(bounds) : At(u, m)
  BY <1>2
<1> DEFINE x == bounds[m]
           z == sent[u + 1]
<1>5. /\ Ahead(r, x, z) /\ u \in 1..produced /\ X!data_len = Len(r)
      /\ Reads(stream, bounds, r, 1, Len(r), x, z)
  BY <1>4, RestFacts
<1>6. /\ r \in Seq(Byte) /\ Len(r) \in Nat /\ Len(r) >= 1
      /\ x \in Nat /\ z \in Nat /\ x <= z
  BY <1>5 DEF Ahead
<1>7. m \in 1..N /\ Len(r) = z - x /\ z < bounds[m + 1]
  <2>1. /\ X!EndsHere <=> x = z
        /\ x < z => /\ m \in 1..N
                    /\ Len(submitted[m]) \in Nat
                    /\ X!SizeKnown => X!SectionSize(r) = Len(submitted[m])
                    /\ z < bounds[m + 1] => Len(r) = z - x
                    /\ bounds[m + 1] <= z => Len(r) >= Len(submitted[m]) /\ X!SizeKnown
    BY <1>4, SectionHere
  <2>2. x < z
    BY <1>1, <1>6, <2>1
  <2>3. m \in 1..N /\ bounds[m + 1] \in Nat
    BY <2>1, <2>2, StreamFacts DEF LinkInv
  <2>4. ~(bounds[m + 1] <= z)
    BY <1>1, <1>5, <1>6, <2>1, <2>2
  <2>5. z < bounds[m + 1]
    BY <1>6, <2>3, <2>4
  <2>6. QED BY <2>1, <2>2, <2>5
<1> HIDE DEF r
<1>8. \A k : Received(k)' <=> Received(k)
  BY <1>2, <1>3 DEF Received
<1>9. At(u, m)'
  <2>1. sec_p' + 1 = 1 /\ sec_p' < Len(data')
    BY <1>1, <1>6
  <2>2. Reads(stream', bounds', data', sec_p' + 1, Len(data'), bounds'[m], sent'[u + 1])
    BY <1>1, <1>2, <1>5, <2>1
  <2>3. /\ Len(data') = sent'[u + 1] - bounds'[m] /\ m <= Len(submitted')
        /\ sent'[u + 1] < bounds'[m + 1]
    BY <1>1, <1>2, <1>7
  <2>4. \A k \in 1..Len(submitted') :
          bounds'[k] < sent'[gone' + 1] /\ ~Harmed(k)'
          => Received(k)' \/ (m <= k /\ (u >= gone' \/ bounds'[k + 1] <= sent'[u + 1]))
    BY <1>2, <1>4, <1>8 DEF At
  <2>5. \/ received' = <<>>
        \/ \E j \in 1..(m - 1) : received'[Len(received')] = submitted'[j]
        \/ \E p \in repeated' : StartsIn(m, p)'
    BY <1>2, <1>3, <1>4 DEF At
  <2>6. damaged' = {} => u = gone' /\ Len(received') = m - 1
    BY <1>2, <1>3, <1>4 DEF At
  <2>7. /\ u <= produced' /\ (u > gone' => u \in repeated') /\ cc' = (u - 1) % CCMod
        /\ (u + 1)..gone' \subseteq lost'
    BY <1>2, <1>4 DEF At
  <2> HIDE DEF Harmed, Received, StartsIn
  <2>8. QED BY <2>1, <2>2, <2>3, <2>4, <2>5, <2>6, <2>7 DEF At
<1>10. (X!InStep)'
  BY <1>1 DEF X!InStep
<1>11. \E v \in 1..(gone' + 1), i \in 1..Len(bounds') : At(v, i)'
  <2> HIDE DEF At
  <2>1. u \in 1..(gone' + 1) /\ m \in 1..Len(bounds')
    BY <1>2
  <2>2. QED BY <1>9, <2>1
<1>12. ReceiverInv'
  <2> HIDE DEF Received, Harmed, At
  <2>1. sec_p' \in Nat /\ sec_p' <= Len(data') /\ data' \in Seq(Byte)
    BY <1>1, <1>6
  <2>2. QED BY <1>1, <1>2, <1>10, <1>11, <2>1 DEF ReceiverInv
<1>13. QED BY <1>3, <1>12


\* a section that is whole is one that was submitted, and the next in order
\* unless the packet it starts in was repeated
LEMMA Handed ==
  ASSUME LinkInv, ExtractMore, X!SectionCompleted,
         NEW u \in 1..(gone + 1), NEW m \in 1..Len(bounds), At(u, m)
  PROVE  /\ m \in 1..Len(submitted) /\ u \in 1..produced
         /\ section' = submitted[m] /\ Len(submitted[m]) \in Nat /\ Len(submitted[m]) >= 3
         /\ received' = Append(received, submitted[m])
         /\ X!Consumed = Len(submitted[m])
         /\ bounds[m + 1] = bounds[m] + Len(submitted[m])
         /\ bounds[m + 1] <= sent[u + 1]
         /\ sent[u + 1] \in Nat /\ bounds[m] \in Nat
         /\ X!data_len > X!Consumed \/ sent[u + 1] = bounds[m + 1]
<1> DEFINE r == X!Rest
           x == bounds[m]
           z == sent[u + 1]
           s == submitted[m]
<1>1. /\ X!Complete /\ section' = SubSeq(r, 1, X!SectionSize(r))
  BY DEF X!SectionCompleted
<1>2. X!SizeKnown /\ X!data_len >= X!SectionSize(r) /\ ~X!EndsHere
  BY <1>1 DEF X!Complete, X!SizeKnown
<1>3. Ahead(r, x, z) /\ u \in 1..produced /\ X!data_len = Len(r)
  BY RestFacts
<1>4. Len(r) \in Nat /\ x \in Nat /\ z \in Nat /\ x <= z /\ z - x <= Len(r)
  BY <1>3 DEF Ahead
<1>5. /\ X!EndsHere <=> x = z
      /\ x < z => /\ m \in 1..Len(submitted)
                  /\ Len(s) \in Nat /\ Len(s) >= 3
                  /\ bounds[m + 1] = x + Len(s)
                  /\ X!SizeKnown => X!SectionSize(r) = Len(s)
                  /\ z < bounds[m + 1] => Len(r) = z - x
                  /\ bounds[m + 1] <= z => SubSeq(r, 1, Len(s)) = s
  BY SectionHere
<1> HIDE DEF r, x, z, s
<1>6. x < z
  BY <1>2, <1>4, <1>5
<1>7. /\ m \in 1..Len(submitted) /\ Len(s) \in Nat /\ Len(s) >= 3
      /\ bounds[m + 1] = x + Len(s) /\ X!SectionSize(r) = Len(s)
      /\ z < bounds[m + 1] => Len(r) = z - x
      /\ bounds[m + 1] <= z => SubSeq(r, 1, Len(s)) = s
  BY <1>2, <1>5, <1>6
<1>8. bounds[m + 1] <= z
  <2>1. bounds[m + 1] = x + Len(s) /\ Len(s) \in Nat /\ Len(s) <= Len(r)
    BY <1>2, <1>3, <1>7
  <2>2. z < bounds[m + 1] => Len(r) = z - x
    BY <1>7
  <2>3. QED BY <1>4, <2>1, <2>2
<1>9. section' = s
  BY <1>1, <1>7, <1>8
<1>10. s # <<>>
  <2>1. Len(<<>>) = 0
    BY EmptySeq
  <2>2. QED BY <1>7, <2>1
<1>11. received' = Append(received, s)
  BY <1>9, <1>10 DEF ExtractMore
<1>12. X!Consumed = Len(s)
  BY <1>7 DEF X!Consumed, r
<1>13. X!data_len > X!Consumed \/ z = bounds[m + 1]
  <2>1. CASE z < bounds[m + 1]
    <3>1. bounds[m + 1] \in Nat
      BY <1>4, <1>7
    <3>2. QED BY <1>4, <1>8, <2>1, <3>1
  <2>2. CASE bounds[m + 1] < z
    <3>1. Len(s) < Len(r)
      <4>1. bounds[m + 1] = x + Len(s) /\ Len(s) \in Nat
        BY <1>7
      <4>2. QED BY <1>4, <2>2, <4>1
    <3>2. QED BY <1>3, <1>12, <3>1
  <2>3. bounds[m + 1] \in Nat
    BY <1>4, <1>7
  <2>4. QED BY <1>4, <2>1, <2>2, <2>3
<1>14. QED BY <1>3, <1>4, <1>7, <1>8, <1>9, <1>11, <1>12, <1>13 DEF x, z, s

\* what the client has got
LEMMA HandedAppended ==
  ASSUME LinkInv, UNCHANGED <<submitted>>, NEW m \in 1..Len(submitted),
         received' = Append(received, submitted[m])
  PROVE  /\ received' \in Seq(Seq(Byte)) /\ Len(received) \in Nat
         /\ Len(received') = Len(received) + 1 /\ received' # <<>>
         /\ \A j \in 1..Len(received) : received'[j] = received[j]
         /\ received'[Len(received) + 1] = submitted[m]
         /\ received'[Len(received')] = submitted[m]
         /\ Received(m)'
         /\ \A k : Received(k) => Received(k)'
<1> DEFINE n == Len(received) + 1
<1>1. received \in Seq(Seq(Byte)) /\ submitted[m] \in Seq(Byte) /\ Len(received) \in Nat
  BY ElementOfSeq, LenProperties DEF LinkInv, StreamInv, ReceivedInv
<1>2. /\ received' \in Seq(Seq(Byte)) /\ Len(received') = n
      /\ \A j \in 1..Len(received) : received'[j] = received[j]
      /\ received'[n] = submitted[m]
  BY <1>1, AppendProperties
<1>3. n \in 1..Len(received') /\ \A j \in 1..Len(received) : j \in 1..Len(received')
  BY <1>1, <1>2
<1> HIDE DEF n
<1>4. received' # <<>>
  <2>1. Len(<<>>) = 0
    BY EmptySeq
  <2>2. QED BY <1>1, <1>2, <2>1 DEF n
<1>5. Received(m)'
  BY <1>2, <1>3 DEF Received
<1>6. ASSUME NEW k, Received(k) PROVE Received(k)'
  BY <1>2, <1>3, <1>6 DEF Received
<1>7. QED BY <1>1, <1>2, <1>4, <1>5, <1>6 DEF n

LEMMA CompletedReceived ==
  ASSUME LinkInv, ExtractMore, X!SectionCompleted
  PROVE  ReceivedInv'
<1> DEFINE N == Len(submitted)
<1>1. /\ UNCHANGED <<submitted, stream, bounds, sent, lost, repeated, cc, callback>>
      /\ gone' = gone /\ damaged' = damaged
      /\ \E u \in 1..(gone + 1), m \in 1..Len(bounds) : At(u, m)
  BY ExtractFrame
<1>2. PICK u \in 1..(gone + 1), m \in 1..Len(bounds) : At(u, m)
  BY <1>1
<1>3. /\ m \in 1..N /\ u \in 1..produced
      /\ received' = Append(received, submitted[m])
      /\ bounds[m + 1] <= sent[u + 1] /\ sent[u + 1] \in Nat
  <2> HIDE DEF At
  <2>1. QED BY <1>2, Handed
<1>4. /\ received' \in Seq(Seq(Byte)) /\ Len(received) \in Nat
      /\ Len(received') = Len(received) + 1 /\ received' # <<>>
      /\ \A j \in 1..Len(received) : received'[j] = received[j]
      /\ received'[Len(received) + 1] = submitted[m]
      /\ received'[Len(received')] = submitted[m]
  <2> HIDE DEF At, Received
  <2>1. QED BY <1>1, <1>3, HandedAppended
<1>5. \A j \in 1..Len(received') : j \in 1..Len(received) \/ j = Len(received) + 1
  BY <1>4
<1>6. NothingForged'
  <2>1. ASSUME NEW j \in 1..Len(received')
        PROVE  \E k \in 1..N : received'[j] = submitted[k]
    <3>1. CASE j \in 1..Len(received)
      <4>1. \E k \in 1..N : received[j] = submitted[k]
        BY <3>1 DEF LinkInv, ReceivedInv, NothingForged
      <4>2. QED BY <1>4, <3>1, <4>1
    <3>2. CASE j = Len(received) + 1
      BY <1>3, <1>4, <3>2
    <3>3. QED BY <1>5, <3>1, <3>2
  <2>2. QED BY <1>1, <2>1 DEF NothingForged
<1>7. damaged' = {} => /\ Len(received') <= Len(submitted')
                       /\ \A j \in 1..Len(received') : received'[j] = submitted'[j]
  <2>1. SUFFICES ASSUME damaged = {}
                 PROVE  /\ Len(received') <= N
                        /\ \A j \in 1..Len(received') : received'[j] = submitted[j]
    BY <1>1
  <2>2. Len(received) = m - 1
    BY <1>2, <2>1 DEF At
  <2>3. \A j \in 1..Len(received) : received[j] = submitted[j]
    BY <2>1 DEF LinkInv, ReceivedInv
  <2>4. Len(received) + 1 = m /\ Len(received') <= N
    BY <1>3, <1>4, <2>2
  <2>5. QED BY <1>4, <1>5, <2>3, <2>4
<1>8. \/ bounds[m + 1] <= sent[gone + 1]
      \/ gone + 1 \in repeated /\ bounds[m + 1] <= sent[gone + 2]
  <2> DEFINE a == gone + 1
             b == u + 1
             y == bounds[m + 1]
  <2>1. /\ gone \in Nat /\ a \in 1..Len(sent) /\ b \in 1..Len(sent)
        /\ a \in Int /\ b \in Int
        /\ \A p \in 1..Len(sent) : sent[p] \in Nat
    <3>1. /\ gone \in Nat /\ a \in 1..Len(sent)
          /\ \A p \in 1..Len(sent) : sent[p] \in Nat
          /\ \A p \in 1..produced : p + 1 \in 1..Len(sent)
      BY ChannelFacts
    <3>2. QED BY <1>3, <3>1
  <2>2. y \in Nat
    BY <1>3, StreamFacts DEF LinkInv
  <2>3. CASE u > gone
    <3>1. u = gone + 1 /\ u + 1 = gone + 2
      BY <2>1, <2>3
    <3>2. gone + 1 \in repeated
      BY <1>2, <2>3, <3>1 DEF At
    <3>3. QED BY <1>3, <3>1, <3>2
  <2>4. CASE ~(u > gone)
    <3>1. b <= a
      BY <2>1, <2>4
    <3>2. y <= sent[b]
      BY <1>3
    <3> HIDE DEF a, b, y
    <3>3. \A p, q \in 1..Len(sent) : p <= q => sent[p] <= sent[q]
      BY PacketsFacts DEF LinkInv
    <3>4. sent[b] <= sent[a] /\ sent[a] \in Nat /\ sent[b] \in Nat
      BY <2>1, <3>1, <3>3
    <3>5. y <= sent[a]
      BY <2>2, <3>2, <3>4
    <3>6. QED BY <3>5 DEF y, a
  <2>5. QED BY <2>3, <2>4
<1>9. QED BY <1>1, <1>3, <1>4, <1>6, <1>7, <1>8 DEF ReceivedInv


\* ... after which it looks at what follows
LEMMA GoesOn ==
  ASSUME LinkInv, ExtractMore, X!SectionCompleted, X!data_len > X!Consumed,
         NEW u \in 1..(gone + 1), NEW m \in 1..Len(bounds), At(u, m)
  PROVE  ReceiverInv'
<1> DEFINE N == Len(submitted)
           n == m + 1
           z == sent[u + 1]
           size == X!Consumed
<1>1. /\ UNCHANGED <<submitted, stream, bounds, sent, lost, repeated, cc, callback>>
      /\ produced' = produced /\ gone' = gone /\ damaged' = damaged
      /\ \A k : Harmed(k)' <=> Harmed(k)
      /\ pc = "more_sections" /\ callback
  BY ExtractFrame
<1>2. /\ m \in 1..N /\ u \in 1..produced
      /\ received' = Append(received, submitted[m])
      /\ size \in Nat /\ size >= 3
      /\ bounds[n] = bounds[m] + size
      /\ bounds[n] <= z /\ z \in Nat /\ bounds[m] \in Nat
  <2> HIDE DEF At
  <2>1. QED BY Handed
<1>3. /\ Len(received) \in Nat /\ Len(received') = Len(received) + 1
      /\ received'[Len(received')] = submitted[m]
      /\ Received(m)'
      /\ \A k : Received(k) => Received(k)'
  <2> HIDE DEF At, Received
  <2>1. QED BY <1>1, <1>2, HandedAppended
<1>4. sec_p' = sec_p + size /\ UNCHANGED <<state, data, pc>>
  BY DEF X!SectionCompleted
<1>5. /\ data \in Seq(Byte) /\ sec_p \in Nat /\ sec_p <= Len(data) /\ Len(data) \in Nat
      /\ state \in {"wait_start", "wait_more"}
  BY LenProperties DEF LinkInv, ReceiverInv
<1>6. sec_p' \in Nat /\ sec_p' < Len(data')
  BY <1>2, <1>4, <1>5 DEF X!data_len
<1>7. n \in 1..Len(bounds) /\ n \in 1..(N + 1)
  <2>1. Len(bounds) = N + 1 /\ N \in Nat
    BY StreamFacts DEF LinkInv
  <2>2. QED BY <1>2, <2>1
<1>8. Reads(stream, bounds, data, sec_p' + 1, Len(data), bounds[n], z)
  <2> DEFINE x == bounds[m]
             y == bounds[n]
             lo == sec_p + 1
             hi == Len(data)
  <2>1. Reads(stream, bounds, data, lo, hi, x, z)
    BY DEF At
  <2>2. /\ size \in Nat /\ y = x + size /\ y <= z /\ z \in Nat /\ x \in Nat
        /\ lo = sec_p + 1 /\ sec_p \in Nat /\ sec_p' = sec_p + size /\ hi \in Int
    BY <1>2, <1>4, <1>5
  <2> HIDE DEF x, y, z, lo, hi, size
  <2>3. lo \in Int /\ x \in Int /\ y \in Int /\ z \in Int
        /\ x <= y /\ y <= z /\ lo + (y - x) = sec_p' + 1
    BY <2>2
  <2>4. Reads(stream, bounds, data, lo + (y - x), hi, y, z)
    BY <2>1, <2>2, <2>3, ReadsPart
  <2>5. QED BY <2>3, <2>4 DEF y, hi
<1>9. At(u, n)'
  <2>1. /\ u <= produced' /\ (u > gone' => u \in repeated') /\ cc' = (u - 1) % CCMod
        /\ (u + 1)..gone' \subseteq lost'
    BY <1>1 DEF At
  <2>2. Reads(stream', bounds', data', sec_p' + 1, Len(data'), bounds'[n], sent'[u + 1])
    BY <1>1, <1>4, <1>8
  <2>3. pc' # "idle"
    BY <1>1, <1>4
  <2>4. \E j \in 1..(n - 1) : received'[Len(received')] = submitted'[j]
    <3>1. m \in 1..(n - 1) /\ submitted' = submitted
      BY <1>1, <1>2
    <3>2. QED BY <1>3, <3>1
  <2>5. damaged' = {} => u = gone' /\ Len(received') = n - 1
    <3>1. damaged = {} => u = gone /\ Len(received) = m - 1
      BY DEF At
    <3>2. QED BY <1>1, <1>2, <1>3, <3>1
  <2>6. ASSUME NEW k \in 1..N, bounds[k] < sent[gone + 1], ~Harmed(k)
        PROVE  Received(k)' \/ (n <= k /\ (u >= gone \/ bounds[k + 1] <= sent[u + 1]))
    <3>1. Received(k) \/ (m <= k /\ (u >= gone \/ bounds[k + 1] <= sent[u + 1]))
      BY <2>6 DEF At
    <3> HIDE DEF Received, Harmed, At
    <3>2. m <= k => m = k \/ n <= k
      BY <1>2
    <3>3. QED BY <1>3, <3>1, <3>2
  <2> HIDE DEF Received, Harmed, StartsIn, n
  <2>7. \A k \in 1..Len(submitted') :
          bounds'[k] < sent'[gone' + 1] /\ ~Harmed(k)'
          => Received(k)' \/ (n <= k /\ (u >= gone' \/ bounds'[k + 1] <= sent'[u + 1]))
    BY <1>1, <2>6
  <2>8. QED BY <1>6, <2>1, <2>2, <2>3, <2>4, <2>5, <2>7 DEF At
<1>10. (X!InStep)'
  BY <1>1, <1>4 DEF X!InStep
<1> HIDE DEF At, Received, Harmed, n
<1>11. \E v \in 1..(gone' + 1), i \in 1..Len(bounds') : At(v, i)'
  <2>1. u \in 1..(gone' + 1) /\ n \in 1..Len(bounds')
    BY <1>1, <1>7
  <2>2. QED BY <1>9, <2>1
<1>12. sec_p' <= Len(data') /\ data' \in Seq(Byte)
       /\ pc' = "more_sections" /\ state' \in {"wait_start", "wait_more"} /\ callback'
  BY <1>1, <1>4, <1>5, <1>6
<1>13. QED BY <1>6, <1>10, <1>11, <1>12 DEF ReceiverInv

\* ... or is done with the packet
LEMMA StopsHere ==
  ASSUME LinkInv, ExtractMore, X!SectionCompleted, ~(X!data_len > X!Consumed),
         NEW u \in 1..(gone + 1), NEW m \in 1..Len(bounds), At(u, m)
  PROVE  ReceiverInv'
<1> DEFINE N == Len(submitted)
           n == m + 1
<1>1. /\ UNCHANGED <<submitted, stream, bounds, sent, lost, repeated, cc, callback>>
      /\ produced' = produced /\ gone' = gone /\ damaged' = damaged
      /\ \A k : Harmed(k)' <=> Harmed(k)
      /\ callback
  BY ExtractFrame
<1>2. /\ m \in 1..N /\ u \in 1..produced
      /\ received' = Append(received, submitted[m])
      /\ sent[u + 1] = bounds[n]
  <2> HIDE DEF At
  <2>1. QED BY Handed
<1>3. /\ Len(received) \in Nat /\ Len(received') = Len(received) + 1
      /\ Received(m)'
      /\ \A k : Received(k) => Received(k)'
  <2> HIDE DEF At, Received
  <2>1. QED BY <1>1, <1>2, HandedAppended
<1>4. state' = "wait_start" /\ data' = <<>> /\ sec_p' = 0 /\ pc' = "idle"
  BY DEF X!SectionCompleted, X!Return
<1>5. n \in 1..Len(bounds) /\ N \in Nat
  <2>1. Len(bounds) = N + 1 /\ N \in Nat
    BY StreamFacts DEF LinkInv
  <2>2. QED BY <1>2, <2>1
<1>6. damaged = {} => /\ Len(received') <= N
                      /\ bounds[Len(received') + 1] = sent[gone + 1]
  <2>1. damaged = {} => u = gone /\ Len(received) = m - 1
    BY DEF At
  <2>2. QED BY <1>2, <1>3, <1>5, <2>1
<1>7. ASSUME NEW k \in 1..N, bounds[k] < sent[gone + 1], ~Harmed(k)
      PROVE  Received(k)'
  <2>1. Received(k) \/ (m <= k /\ (u >= gone \/ bounds[k + 1] <= sent[u + 1]))
    BY <1>7 DEF At
  <2> HIDE DEF Received, Harmed, At
  <2>2. m <= k => m = k \/ n <= k
    BY <1>2
  <2> HIDE DEF n
  <2>3. n <= k => ~(u >= gone \/ bounds[k + 1] <= sent[u + 1])
    BY <1>2, <1>5, <1>7, EndsAt
  <2>4. QED BY <1>3, <2>1, <2>2, <2>3
<1>8. ~(X!InStep)'
  BY <1>4 DEF X!InStep
<1>9. data' \in Seq(Byte) /\ sec_p' \in Nat /\ sec_p' <= Len(data')
  <2>1. data' \in Seq(Byte) /\ Len(data') = 0
    BY <1>4, EmptySeq
  <2>2. QED BY <1>4, <2>1
<1> HIDE DEF At, Received, Harmed, n
<1>10. \A k \in 1..Len(submitted') :
         bounds'[k] < sent'[gone' + 1] /\ ~Harmed(k)' => Received(k)'
  BY <1>1, <1>7
<1>11. damaged' = {} => /\ Len(received') <= Len(submitted')
                        /\ bounds'[Len(received') + 1] = sent'[gone' + 1]
  BY <1>1, <1>6
<1>12. QED BY <1>1, <1>4, <1>8, <1>9, <1>10, <1>11 DEF ReceiverInv

LEMMA ExtractMoreStep ==
  ASSUME LinkInv, ExtractMore
  PROVE  LinkInv'
<1>1. /\ StreamInv' /\ PacketsInv' /\ SenderInv' /\ ChannelInv'
      /\ UNCHANGED <<submitted, stream, bounds, sent, lost, repeated>>
      /\ gone' = gone /\ damaged' = damaged /\ callback
      /\ \E u \in 1..(gone + 1), m \in 1..Len(bounds) : At(u, m)
  BY ExtractFrame
<1>2. PICK u \in 1..(gone + 1), m \in 1..Len(bounds) : At(u, m)
  BY <1>1
<1> HIDE DEF At
<1>3. ASSUME received' = received PROVE ReceivedInv'
  <2>1. gone' + 1 \in 1..Len(sent) /\ damaged \subseteq damaged'
        /\ repeated \subseteq repeated' /\ gone' \in {gone, gone + 1}
    BY <1>1, ChannelFacts
  <2>2. QED BY <1>1, <1>3, <2>1, LastSectionKept
<1>4. CASE X!NoMoreSections
  BY <1>1, <1>3, <1>4, NoMoreSectionsStep DEF LinkInv
<1>5. CASE X!KeepRest
  BY <1>1, <1>3, <1>5, KeepRestStep DEF LinkInv
<1>6. ~X!TooLong
  <2>1. SUFFICES ASSUME X!TooLong PROVE FALSE
    OBVIOUS
  <2> DEFINE r == X!Rest
             x == bounds[m]
             z == sent[u + 1]
  <2>2. X!SizeKnown /\ X!SectionSize(r) > X!MaxSectionSize /\ ~X!EndsHere
    BY <2>1 DEF X!TooLong, X!SizeKnown
  <2>3. x \in Nat /\ z \in Nat /\ x <= z
    <3>1. Ahead(r, x, z)
      BY <1>2, RestFacts
    <3>2. QED BY <3>1 DEF Ahead
  <2>4. /\ X!EndsHere <=> x = z
        /\ x < z => /\ Len(submitted[m]) \in Nat
                    /\ Len(submitted[m]) <= X!MaxSectionSize
                    /\ X!SizeKnown => X!SectionSize(r) = Len(submitted[m])
    BY <1>2, SectionHere
  <2> HIDE DEF r, x, z
  <2>5. x < z
    BY <2>2, <2>3, <2>4
  <2>6. X!MaxSectionSize \in Nat
    BY LinkAssumption DEF X!MaxSectionSize
  <2>7. QED BY <2>2, <2>4, <2>5, <2>6
<1>7. ~X!NoCallback
  BY <1>1 DEF X!NoCallback
<1>8. CASE X!SectionCompleted
  <2>1. ReceivedInv'
    BY <1>8, CompletedReceived
  <2>2. ReceiverInv'
    BY <1>2, <1>8, GoesOn, StopsHere
  <2>3. QED BY <1>1, <2>1, <2>2 DEF LinkInv
<1>9. QED BY <1>4, <1>5, <1>6, <1>7, <1>8 DEF ExtractMore, X!MoreSections

----------------------------------------------------------------------------
(* the invariant holds *)

LEMMA SenderStepKeeps ==
  ASSUME RoomForPayload, LinkInv, SenderStep
  PROVE  LinkInv'
<1>1. SenderInv' /\ Advances /\ (submitted' # <<>> => callback)
  BY SenderSteps
<1>2. StreamInv' /\ PacketsInv'
  BY <1>1 DEF Advances
<1>3. ChannelInv'
  BY <1>1, AdvancesKeeps
<1>4. ReceiverInv' /\ ReceivedInv'
  BY <1>1, AdvancesReceiver
<1>5. QED BY <1>1, <1>2, <1>3, <1>4 DEF LinkInv

LEMMA LinkInit ==
  ASSUME Init
  PROVE  LinkInv
<1>1. /\ submitted = <<>> /\ stream = <<>> /\ bounds = <<0>> /\ sent = <<0>>
      /\ wire = <<>> /\ lost = {} /\ repeated = {} /\ received = <<>>
      /\ state = "wait_start" /\ data = <<>> /\ sec_p = 0 /\ pc = "idle"
      /\ S!Init
  BY DEF Init, X!Init
<1>2. /\ Len(submitted) = 0 /\ Len(stream) = 0 /\ Len(wire) = 0 /\ Len(received) = 0
      /\ submitted \in Seq(Seq(Byte)) /\ stream \in Seq(Byte) /\ wire \in Seq(Pkt)
      /\ received \in Seq(Seq(Byte)) /\ data \in Seq(Byte) /\ Len(data) = 0
  BY <1>1, EmptySeq
<1>3. Len(bounds) = 1 /\ bounds[1] = 0 /\ bounds \in Seq(Nat)
      /\ Len(sent) = 1 /\ sent[1] = 0 /\ sent \in Seq(Nat)
  BY <1>1
<1>4. \A k \in 1..0 : FALSE
  OBVIOUS
<1>5. \A j, k \in 1..1 : ~(j < k)
  OBVIOUS
<1>6. StreamInv
  BY <1>2, <1>3, <1>4, <1>5 DEF StreamInv
<1>7. PacketsInv
  BY <1>2, <1>3, <1>5 DEF PacketsInv
<1>8. produced = 0 /\ gone = 0 /\ damaged = {} /\ ~X!InStep
  BY <1>1, <1>2, <1>3 DEF produced, gone, damaged, X!InStep
<1>9. SenderInv
  <2>1. /\ payload_start = 0 /\ payload_end = 0
        /\ pusi = FALSE /\ sender_cc = 0 /\ pid = 0 /\ sender_pc = "idle" /\ rest = <<>>
        /\ wrote_section_start = FALSE
        /\ ts_packet \in [1..PayloadLen -> Byte]
    BY <1>1, SenderNames DEF S!Init, Byte
  <2>2. ~S!Open
    BY <2>1 DEF S!Open
  <2>3. 0 % CCMod = 0
    BY PacketSizes
  <2>4. Len(rest) = 0 /\ rest \in Seq(Byte)
    BY <2>1, EmptySeq
  <2>5. Written = 0 /\ LastSent = 0
    BY <1>2, <1>3, <2>4 DEF Written, LastSent
  <2>6. sender_cc = produced % CCMod
    BY <1>8, <2>1, <2>3
  <2>7. Len(rest) <= Len(stream) /\ \A i \in 1..Len(rest) : rest[i] = stream[Written + i]
    <3>1. \A i \in 1..Len(rest) : FALSE
      BY <1>4, <2>4
    <3>2. QED BY <1>2, <2>4, <3>1
  <2>8. pusi \in BOOLEAN /\ wrote_section_start \in BOOLEAN /\ ~pusi /\ ~wrote_section_start
    BY <2>1
  <2>9. sender_pc # "more" /\ sender_pc \in {"idle", "more"}
    BY <2>1
  <2>10. QED BY <2>1, <2>2, <2>4, <2>5, <2>6, <2>7, <2>8, <2>9 DEF SenderInv
<1>10. ChannelInv
  <2>1. Cardinality(damaged) = 0
    BY <1>8, FS_EmptySet
  <2>2. QED BY <1>1, <1>2, <1>4, <1>8, <2>1, LinkAssumption DEF ChannelInv
<1>11. ReceiverInv
  BY <1>1, <1>2, <1>3, <1>4, <1>8 DEF ReceiverInv
<1>12. ReceivedInv
  BY <1>1, <1>2, <1>4 DEF ReceivedInv, NothingForged
<1>13. QED BY <1>6, <1>7, <1>9, <1>10, <1>11, <1>12 DEF LinkInv

LEMMA LinkStutters ==
  ASSUME LinkInv, UNCHANGED vars
  PROVE  LinkInv'
<1>1. /\ UNCHANGED <<sender, submitted, stream, bounds, sent>>
      /\ UNCHANGED <<wire, lost, repeated, received>>
      /\ UNCHANGED <<state, data, sec_p, cc, callback, pc>>
  BY DEF vars, receiver, channel, history
<1>2. StreamInv' /\ PacketsInv' /\ SenderInv' /\ produced' = produced
  BY <1>1, SenderKept
<1>3. gone' = gone /\ damaged' = damaged
  BY <1>1, <1>2 DEF gone, damaged
<1>4. ChannelInv'
  BY <1>1, <1>2, <1>3 DEF LinkInv, ChannelInv
<1>5. ReceivedInv'
  BY <1>1, <1>3 DEF LinkInv, ReceivedInv, NothingForged
<1>6. /\ \A k : (Harmed(k)' <=> Harmed(k)) /\ (Received(k)' <=> Received(k))
      /\ \A k, p : StartsIn(k, p)' <=> StartsIn(k, p)
  BY <1>1, <1>2, <1>3 DEF Harmed, Carries, Received, StartsIn
<1> HIDE DEF Harmed, Received, StartsIn
<1>7. \A u, m : At(u, m)' <=> At(u, m)
  BY <1>1, <1>2, <1>3, <1>6 DEF At
<1>8. ReceiverInv'
  <2> HIDE DEF At
  <2>1. (X!InStep)' <=> X!InStep
    BY <1>1 DEF X!InStep
  <2>2. QED BY <1>1, <1>3, <1>6, <1>7, <2>1 DEF LinkInv, ReceiverInv
<1>9. QED BY <1>2, <1>4, <1>5, <1>8 DEF LinkInv

LEMMA LinkStep ==
  ASSUME RoomForPayload, FewDamaged, LinkInv, [Next]_vars
  PROVE  LinkInv'
<1>1. CASE SenderStep
  BY <1>1, SenderStepKeeps
<1>2. CASE Connect
  BY <1>2, ConnectStep
<1>3. CASE Deliver
  BY <1>3, DeliverStep
<1>4. CASE ExtractMore
  BY <1>4, ExtractMoreStep
<1>5. CASE Lose
  BY <1>5, LoseStep
<1>6. CASE Repeat
  BY <1>6, RepeatStep
<1>7. CASE UNCHANGED vars
  BY <1>7, LinkStutters
<1>8. QED BY <1>1, <1>2, <1>3, <1>4, <1>5, <1>6, <1>7 DEF Next, SenderStep

\* However sections, adaptation fields, flushes, losses and repetitions follow on
\* each other, packets say where their bytes come from, and the extractor holds
\* a piece of the stream that ends where the last packet it took ends
THEOREM LinkInvariant ==
  ASSUME RoomForPayload, FewDamaged
  PROVE  Spec => []LinkInv
<1>1. Init => LinkInv
  BY LinkInit
<1>2. LinkInv /\ [Next]_vars => LinkInv'
  BY LinkStep
<1>3. QED BY <1>1, <1>2, PTL DEF Spec


----------------------------------------------------------------------------
(* what follows from it *)

\* when nothing is under way the last packet sent is the last that is gone
LEMMA SettledFacts ==
  ASSUME LinkInv, Settled
  PROVE  /\ gone = produced /\ produced \in Nat /\ pc = "idle"
         /\ sent[gone + 1] = LastSent /\ LastSent = sent[Len(sent)]
<1>1. /\ produced \in Nat /\ gone \in Nat /\ gone + Len(wire) = produced
      /\ Len(sent) = produced + 1
  BY ChannelFacts
<1>2. wire = <<>> /\ pc = "idle"
  BY DEF Settled
<1>3. Len(wire) = 0
  BY <1>2, EmptySeq
<1>4. gone = produced
  BY <1>1, <1>3
<1>5. QED BY <1>1, <1>2, <1>4 DEF LastSent

LEMMA CountersMeet ==
  ASSUME LinkInv
  PROVE  CountersAgree
<1>1. SUFFICES ASSUME damaged = {}, Settled, state = "wait_more"
               PROVE  NextCC(cc) = sender_cc
  BY DEF CountersAgree
<1>2. gone = produced /\ produced \in Nat
  BY <1>1, SettledFacts
<1>3. \E u \in 1..(gone + 1), m \in 1..Len(bounds) : At(u, m)
  <2> HIDE DEF At
  <2>1. QED BY <1>1 DEF LinkInv, ReceiverInv, X!InStep
<1>4. cc = (gone - 1) % CCMod
  BY <1>1, <1>3 DEF At
<1> DEFINE n == gone - 1
<1>5. n \in Int /\ n + 1 = produced /\ cc = n % CCMod
  BY <1>2, <1>4
<1> HIDE DEF n
<1>6. NextCC(cc) = (n + 1) % CCMod
  BY <1>5, NextCounter
<1>7. QED BY <1>5, <1>6 DEF LinkInv, SenderInv

LEMMA EverythingArrives ==
  ASSUME LinkInv
  PROVE  AllDelivered
<1> DEFINE N == Len(submitted)
<1>1. SUFFICES ASSUME damaged = {}, Settled, sender_pc = "idle", ~S!Open
               PROVE  received = submitted
  BY DEF AllDelivered
<1>2. gone = produced /\ pc = "idle" /\ sent[gone + 1] = LastSent
  BY <1>1, SettledFacts
<1>3. /\ N \in Nat /\ Len(bounds) = N + 1 /\ Len(stream) \in Nat
      /\ \A k \in 1..Len(bounds) : bounds[k] \in Nat /\ bounds[k] <= Len(stream)
      /\ \A k \in 1..Len(bounds) : k = Len(bounds) => bounds[k] = Len(stream)
      /\ \A j, k \in 1..Len(bounds) : j < k => bounds[j] < bounds[k]
      /\ submitted \in Seq(Seq(Byte))
  BY StreamFacts DEF LinkInv
<1>4. sent[gone + 1] = Len(stream)
  <2>1. rest = <<>> /\ LastSent = Written
    BY <1>1 DEF LinkInv, SenderInv
  <2>2. Len(rest) = 0
    BY <2>1, EmptySeq
  <2>3. QED BY <1>2, <1>3, <2>1, <2>2 DEF Written
<1>5. ~X!InStep
  <2>1. SUFFICES ASSUME X!InStep PROVE FALSE
    OBVIOUS
  <2>2. PICK u \in 1..(gone + 1), m \in 1..Len(bounds) : At(u, m)
    <3> HIDE DEF At
    <3>1. QED BY <2>1 DEF LinkInv, ReceiverInv
  <2>3. u = gone /\ m <= N /\ sent[u + 1] < bounds[m + 1]
    BY <1>1, <1>2, <2>2 DEF At
  <2>4. m + 1 \in 1..Len(bounds)
    BY <1>3, <2>3
  <2>5. bounds[m + 1] \in Nat /\ bounds[m + 1] <= Len(stream)
    BY <1>3, <2>4
  <2>6. QED BY <1>3, <1>4, <2>3, <2>5
<1> DEFINE n == Len(received)
           i == n + 1
<1>6. /\ n \in Nat /\ n <= N /\ bounds[i] = Len(stream) /\ received \in Seq(Seq(Byte))
      /\ \A j \in 1..n : received[j] = submitted[j]
  BY <1>1, <1>4, <1>5, LenProperties DEF LinkInv, ReceiverInv, ReceivedInv
<1>7. n = N
  <2> DEFINE last == Len(bounds)
  <2>1. i \in 1..last /\ last \in 1..last /\ last = N + 1
    BY <1>3, <1>6
  <2>2. bounds[i] = bounds[last] /\ bounds[last] \in Nat
    BY <1>3, <1>6, <2>1
  <2>3. i < last => bounds[i] < bounds[last]
    BY <1>3, <2>1
  <2> HIDE DEF last
  <2>4. ~(i < last)
    BY <2>2, <2>3
  <2>5. QED BY <1>3, <1>6, <2>1, <2>4
<1>8. QED BY <1>3, <1>6, <1>7, SeqEqual

LEMMA UnharmedArrive ==
  ASSUME LinkInv
  PROVE  DamageIsLocal
<1>1. SUFFICES ASSUME Settled, NEW k \in 1..Len(submitted),
                      bounds[k + 1] <= sent[Len(sent)], ~Harmed(k)
               PROVE  Received(k)
  BY DEF DamageIsLocal, Received
<1>2. /\ gone = produced /\ produced \in Nat /\ pc = "idle"
      /\ sent[gone + 1] = sent[Len(sent)]
  BY <1>1, SettledFacts
<1>3. bounds[k] \in Nat /\ bounds[k + 1] \in Nat /\ bounds[k] + 3 <= bounds[k + 1]
  BY StreamFacts DEF LinkInv
<1>4. sent[gone + 1] \in Nat
  BY ChannelFacts
<1>5. bounds[k] < sent[gone + 1] /\ bounds[k + 1] <= sent[gone + 1]
  BY <1>1, <1>2, <1>3, <1>4
<1>6. CASE X!InStep
  <2>1. PICK u \in 1..(gone + 1), m \in 1..Len(bounds) : At(u, m)
    <3> HIDE DEF At
    <3>1. QED BY <1>6 DEF LinkInv, ReceiverInv
  <2>2. u <= produced
    BY <2>1 DEF At
  <2> HIDE DEF At, Harmed, Received
  <2>3. Received(k) \/ (m <= k /\ u >= gone /\ sent[u + 1] < bounds[k + 1])
    BY <1>1, <1>2, <1>5, <2>1, WaitsInside
  <2>4. u >= gone => u = gone
    BY <1>2, <2>2
  <2>5. QED BY <1>3, <1>4, <1>5, <2>3, <2>4
<1>7. CASE ~X!InStep
  <2> HIDE DEF At, Harmed, Received
  <2>1. QED BY <1>1, <1>5, <1>7 DEF LinkInv, ReceiverInv
<1>8. QED BY <1>6, <1>7

\* merger.cpp:166, sec2ts.cpp:238: over a good channel the counters of the two sides
\* never part while a section is incomplete
THEOREM LinkCounters ==
  ASSUME RoomForPayload, FewDamaged
  PROVE  Spec => []CountersAgree
<1>1. Spec => []LinkInv
  BY LinkInvariant
<1>2. LinkInv => CountersAgree
  BY CountersMeet
<1>3. QED BY <1>1, <1>2, PTL

\* Over a good channel the sections come out as they went in, once no packet is
\* open: none dropped, none twice, none changed
THEOREM LinkDelivers ==
  ASSUME RoomForPayload, FewDamaged
  PROVE  Spec => []AllDelivered
<1>1. Spec => []LinkInv
  BY LinkInvariant
<1>2. LinkInv => AllDelivered
  BY EverythingArrives
<1>3. QED BY <1>1, <1>2, PTL

\* merger.cpp:166: whatever is lost or comes twice, a section handed to the client
\* is one that was submitted, never a splice of two
THEOREM LinkForgesNothing ==
  ASSUME RoomForPayload, FewDamaged
  PROVE  Spec => []NothingForged
<1>1. Spec => []LinkInv
  BY LinkInvariant
<1>2. LinkInv => NothingForged
  BY DEF LinkInv, ReceivedInv
<1>3. QED BY <1>1, <1>2, PTL

\* A packet lost or repeated costs only sections with bytes in it or in the one
\* after it: the extractor finds the next pointer field and goes on
THEOREM LinkDamageIsLocal ==
  ASSUME RoomForPayload, FewDamaged
  PROVE  Spec => []DamageIsLocal
<1>1. Spec => []LinkInv
  BY LinkInvariant
<1>2. LinkInv => DamageIsLocal
  BY UnharmedArrive
<1>3. QED BY <1>1, <1>2, PTL


----------------------------------------------------------------------------
(* in the order they were submitted *)

NumberedInv == \A k \in 1..Len(submitted) : submitted[k][1] = k

\* StartsIn after a step
StartsThen(k, p) == sent'[p] <= bounds'[k] /\ bounds'[k] < sent'[p + 1]

\* how a step may change what has been submitted, received and hit
LEMMA NextFacts ==
  ASSUME RoomForPayload, FewDamaged, LinkInv, [Next]_vars
  PROVE  /\ \/ UNCHANGED submitted
            \/ /\ Len(submitted) < MaxSections
               /\ \E s \in SectionsAt[Len(submitted) + 1] :
                    submitted' = Append(submitted, s)
               /\ UNCHANGED <<received, lost, repeated>>
         /\ \/ UNCHANGED received
            \/ /\ UNCHANGED <<submitted, stream, bounds, sent, lost, repeated>>
               /\ \E m \in 1..Len(submitted) :
                    /\ received' = Append(received, submitted[m])
                    /\ \/ received = <<>>
                       \/ \E j \in 1..(m - 1) : received[Len(received)] = submitted[j]
                       \/ \E p \in repeated : StartsIn(m, p)
                    /\ damaged = {} => Len(received) = m - 1
         /\ repeated \subseteq repeated'
         /\ \A k \in 1..Len(submitted), p \in repeated : StartsIn(k, p) => StartsThen(k, p)
<1>1. ASSUME UNCHANGED <<bounds, sent>>
      PROVE  \A k \in 1..Len(submitted), p \in repeated : StartsIn(k, p) => StartsThen(k, p)
  BY <1>1 DEF StartsIn, StartsThen
<1>2. CASE SenderStep
  <2>1. Advances
    BY <1>2, SenderSteps
  <2>2. UNCHANGED <<lost, repeated, received>>
    BY <2>1 DEF Advances
  <2>3. \A k \in 1..Len(submitted), p \in repeated : StartsIn(k, p) => StartsThen(k, p)
    <3>1. ASSUME NEW k \in 1..Len(submitted), NEW p \in repeated, StartsIn(k, p)
          PROVE  StartsThen(k, p)
      <4>1. bounds'[k] = bounds[k]
        <5> HIDE DEF Harmed, Received
        <5>1. QED BY <2>1, AdvancesSections
      <4>2. p \in 1..produced
        BY ChannelFacts
      <4>3. sent'[p] = sent[p] /\ sent'[p + 1] = sent[p + 1]
        <5> HIDE DEF Harmed, Received
        <5>1. QED BY <2>1, <4>2, AdvancesSections
      <4>4. QED BY <3>1, <4>1, <4>3 DEF StartsIn, StartsThen
    <3> HIDE DEF StartsIn, StartsThen
    <3>2. QED BY <3>1
  <2>4. \/ UNCHANGED submitted
        \/ /\ Len(submitted) < MaxSections
           /\ \E s \in SectionsAt[Len(submitted) + 1] : submitted' = Append(submitted, s)
    BY <1>2 DEF SenderStep, Submit, SendMore, Flush, OnAdaptationField
  <2> HIDE DEF StartsIn, StartsThen
  <2>5. QED BY <2>2, <2>3, <2>4
<1>3. CASE ExtractMore
  <2>1. /\ UNCHANGED <<submitted, stream, bounds, sent, lost, repeated>>
        /\ \E u \in 1..(gone + 1), m \in 1..Len(bounds) : At(u, m)
    BY <1>3, ExtractFrame
  <2>2. ASSUME received' # received
        PROVE  \E m \in 1..Len(submitted) :
                 /\ received' = Append(received, submitted[m])
                 /\ \/ received = <<>>
                    \/ \E j \in 1..(m - 1) : received[Len(received)] = submitted[j]
                    \/ \E p \in repeated : StartsIn(m, p)
                 /\ damaged = {} => Len(received) = m - 1
    <3>1. X!SectionCompleted
      BY <1>3, <2>2 DEF ExtractMore, X!MoreSections, X!NoMoreSections, X!KeepRest, X!TooLong,
                        X!NoCallback, X!Reset
    <3>2. PICK u \in 1..(gone + 1), m \in 1..Len(bounds) : At(u, m)
      BY <2>1
    <3>3. m \in 1..Len(submitted) /\ received' = Append(received, submitted[m])
      <4> HIDE DEF At
      <4>1. QED BY <1>3, <3>1, <3>2, Handed
    <3>4. /\ \/ received = <<>>
             \/ \E j \in 1..(m - 1) : received[Len(received)] = submitted[j]
             \/ \E p \in repeated : StartsIn(m, p)
          /\ damaged = {} => Len(received) = m - 1
      BY <3>2 DEF At
    <3>5. QED BY <3>3, <3>4
  <2>3. QED BY <1>1, <2>1, <2>2
<1>4. CASE Connect \/ Deliver \/ Lose \/ Repeat \/ UNCHANGED vars
  <2>1. UNCHANGED <<submitted, received, stream, bounds, sent>> /\ repeated \subseteq repeated'
    BY <1>4 DEF Connect, Deliver, Lose, Repeat, vars, channel, history
  <2>2. QED BY <1>1, <2>1
<1>5. QED BY <1>2, <1>3, <1>4 DEF Next, SenderStep

LEMMA NumberedStep ==
  ASSUME Numbered, LinkInv, NumberedInv,
         \/ UNCHANGED submitted
         \/ /\ Len(submitted) < MaxSections
            /\ \E s \in SectionsAt[Len(submitted) + 1] : submitted' = Append(submitted, s)
  PROVE  NumberedInv'
<1>1. CASE UNCHANGED submitted
  BY <1>1 DEF NumberedInv
<1>2. CASE /\ Len(submitted) < MaxSections
           /\ \E s \in SectionsAt[Len(submitted) + 1] : submitted' = Append(submitted, s)
  <2> DEFINE n == Len(submitted) + 1
  <2>1. PICK s \in SectionsAt[n] : submitted' = Append(submitted, s)
    BY <1>2
  <2>2. Len(submitted) \in Nat /\ submitted \in Seq(Seq(Byte)) /\ n \in 1..MaxSections
    BY <1>2, StreamFacts, LinkAssumption DEF LinkInv
  <2>3. s \in Seq(Byte) /\ s[1] = n
    <3>1. WellFormed(s)
      BY <2>2, LinkAssumption
    <3>2. QED BY <2>2, <3>1 DEF WellFormed, Numbered
  <2>4. /\ Len(submitted') = n /\ submitted'[n] = s
        /\ \A k \in 1..Len(submitted) : submitted'[k] = submitted[k]
    BY <2>1, <2>2, <2>3, AppendProperties
  <2>5. \A k \in 1..n : k \in 1..Len(submitted) \/ k = n
    BY <2>2
  <2> HIDE DEF n
  <2>6. ASSUME NEW k \in 1..n PROVE submitted'[k][1] = k
    BY <2>3, <2>4, <2>5, <2>6 DEF NumberedInv
  <2>7. QED BY <2>4, <2>6 DEF NumberedInv
<1>3. QED BY <1>1, <1>2

LEMMA InOrderStep ==
  ASSUME RoomForPayload, FewDamaged, LinkInv, NumberedInv, InOrder, [Next]_vars
  PROVE  InOrder'
<1> DEFINE N == Len(submitted)
<1>1. /\ \/ UNCHANGED received
         \/ /\ UNCHANGED <<submitted, stream, bounds, sent, lost, repeated>>
            /\ \E m \in 1..N :
                 /\ received' = Append(received, submitted[m])
                 /\ \/ received = <<>>
                    \/ \E j \in 1..(m - 1) : received[Len(received)] = submitted[j]
                    \/ \E p \in repeated : StartsIn(m, p)
      /\ repeated \subseteq repeated'
      /\ \A k \in 1..N, p \in repeated : StartsIn(k, p) => StartsThen(k, p)
  <2> HIDE DEF StartsIn, StartsThen
  <2>1. QED BY NextFacts
<1>2. /\ Len(received) \in Nat /\ received \in Seq(Seq(Byte))
      /\ \A j \in 1..Len(received) : \E k \in 1..N : received[j] = submitted[k]
      /\ N \in Nat
  BY LenProperties, StreamFacts DEF LinkInv, ReceivedInv, NothingForged
<1>3. \A j \in 1..Len(received) : received[j][1] \in 1..N
  <2>1. ASSUME NEW j \in 1..Len(received) PROVE received[j][1] \in 1..N
    <3>1. PICK k \in 1..N : received[j] = submitted[k]
      BY <1>2
    <3>2. QED BY <3>1 DEF NumberedInv
  <2>2. QED BY <2>1
<1>4. ASSUME NEW j \in 1..(Len(received) - 1), received[j][1] >= received[j + 1][1]
      PROVE  \E p \in repeated' : StartsThen(received[j + 1][1], p)
  <2> DEFINE i == j + 1
  <2>1. i \in 1..Len(received)
    BY <1>2
  <2>2. \E p \in repeated : StartsIn(received[i][1], p)
    BY <1>4 DEF InOrder
  <2> HIDE DEF i, StartsIn, StartsThen
  <2>3. received[i][1] \in 1..N
    BY <1>3, <2>1
  <2>4. \E p \in repeated' : StartsThen(received[i][1], p)
    BY <1>1, <2>2, <2>3
  <2>5. QED BY <2>4 DEF i
<1>5. CASE UNCHANGED received
  BY <1>4, <1>5 DEF InOrder, StartsIn, StartsThen
<1>6. CASE /\ UNCHANGED <<submitted, stream, bounds, sent, lost, repeated>>
           /\ \E m \in 1..N :
                 /\ received' = Append(received, submitted[m])
                 /\ \/ received = <<>>
                    \/ \E j \in 1..(m - 1) : received[Len(received)] = submitted[j]
                    \/ \E p \in repeated : StartsIn(m, p)
  <2>1. PICK m \in 1..N :
          /\ received' = Append(received, submitted[m])
          /\ \/ received = <<>>
             \/ \E j \in 1..(m - 1) : received[Len(received)] = submitted[j]
             \/ \E p \in repeated : StartsIn(m, p)
    BY <1>6
  <2> DEFINE n == Len(received)
             last == n + 1
  <2>2. /\ Len(received') = last
        /\ \A j \in 1..n : received'[j] = received[j]
        /\ received'[last] = submitted[m]
    <3>1. submitted[m] \in Seq(Byte)
      BY ElementOfSeq DEF LinkInv, StreamInv
    <3>2. QED BY <1>2, <2>1, <3>1, AppendProperties
  <2>3. submitted[m][1] = m
    BY DEF NumberedInv
  <2>4. n \in 1..n /\ received[n][1] >= m => \E p \in repeated : StartsIn(m, p)
    <3>1. CASE received = <<>>
      <4>1. n = 0
        BY <3>1, EmptySeq
      <4>2. QED BY <4>1
    <3>2. CASE \E j \in 1..(m - 1) : received[n] = submitted[j]
      <4>1. PICK j \in 1..(m - 1) : received[n] = submitted[j]
        BY <3>2
      <4>2. j \in 1..N /\ j < m /\ m \in Int
        BY <1>2
      <4>3. submitted[j][1] = j
        BY <4>2 DEF NumberedInv
      <4>4. QED BY <4>1, <4>2, <4>3
    <3>3. CASE \E p \in repeated : StartsIn(m, p)
      BY <3>3
    <3>4. QED BY <2>1, <3>1, <3>2, <3>3
  <2>5. ASSUME NEW j \in 1..(last - 1), received'[j][1] >= received'[j + 1][1]
        PROVE  \E p \in repeated' : StartsThen(received'[j + 1][1], p)
    <3> DEFINE i == j + 1
    <3>1. j \in 1..n /\ received'[j] = received[j] /\ (i = last \/ i \in 1..n)
      BY <1>2, <2>2
    <3>2. CASE i = last
      <4>1. j = n /\ received'[i][1] = m
        BY <1>2, <2>2, <2>3, <3>2
      <4> HIDE DEF i, StartsIn, StartsThen
      <4>2. received[n][1] >= m
        BY <2>5, <3>1, <4>1 DEF i
      <4>3. \E p \in repeated : StartsIn(m, p)
        BY <2>4, <3>1, <4>1, <4>2
      <4>4. \E p \in repeated' : StartsThen(m, p)
        BY <1>1, <4>3
      <4>5. QED BY <4>1, <4>4 DEF i
    <3>3. CASE i \in 1..n
      <4>1. j \in 1..(n - 1) /\ received'[i] = received[i]
        BY <1>2, <2>2, <3>3
      <4> HIDE DEF StartsIn, StartsThen
      <4>2. QED BY <1>4, <2>5, <3>1, <4>1
    <3>4. QED BY <3>1, <3>2, <3>3
  <2> HIDE DEF last
  <2>6. QED BY <2>2, <2>5 DEF InOrder, StartsIn, StartsThen
<1>7. QED BY <1>1, <1>5, <1>6

\* Sections arrive in the order they were submitted, except for those that start in
\* a packet that came twice
THEOREM LinkInSequence ==
  ASSUME RoomForPayload, FewDamaged, Numbered
  PROVE  Spec => []InOrder
<1> DEFINE Inv == LinkInv /\ NumberedInv /\ InOrder
<1>1. Init => Inv
  <2>1. SUFFICES ASSUME Init PROVE NumberedInv /\ InOrder
    BY LinkInit
  <2>2. Len(submitted) = 0 /\ Len(received) = 0
    BY <2>1, EmptySeq DEF Init
  <2>3. (\A k \in 1..0 : FALSE) /\ (\A k \in 1..(0 - 1) : FALSE)
    OBVIOUS
  <2>4. QED BY <2>2, <2>3 DEF NumberedInv, InOrder
<1>2. Inv /\ [Next]_vars => Inv'
  <2>1. SUFFICES ASSUME Inv, [Next]_vars PROVE Inv'
    OBVIOUS
  <2>2. LinkInv'
    BY <2>1, LinkStep
  <2>3. NumberedInv'
    <3>1. \/ UNCHANGED submitted
          \/ /\ Len(submitted) < MaxSections
             /\ \E s \in SectionsAt[Len(submitted) + 1] : submitted' = Append(submitted, s)
      BY <2>1, NextFacts
    <3>2. QED BY <2>1, <3>1, NumberedStep
  <2>4. InOrder'
    BY <2>1, InOrderStep
  <2>5. QED BY <2>2, <2>3, <2>4
<1>3. Inv => InOrder
  OBVIOUS
<1>4. QED BY <1>1, <1>2, <1>3, PTL DEF Spec


----------------------------------------------------------------------------
(* the queue *)

LEMMA QueueSubmits ==
  ASSUME LinkInv, Len(submitted) < MaxSections, NEW s \in SectionsAt[Len(submitted) + 1],
         submitted' = Append(submitted, s), UNCHANGED <<received, lost, repeated>>
  PROVE  Queue!Submit
<1>1. Len(submitted) \in Nat /\ submitted \in Seq(Seq(Byte))
      /\ Len(submitted) + 1 \in 1..MaxSections
  BY StreamFacts, LinkAssumption DEF LinkInv
<1>2. s \in Seq(Byte)
  <2>1. WellFormed(s)
    BY <1>1, LinkAssumption
  <2>2. QED BY <2>1 DEF WellFormed
<1> DEFINE n == Len(submitted)
           front == SubSeq(submitted', 1, n)
<1>3. /\ submitted' \in Seq(Seq(Byte)) /\ Len(submitted') = n + 1
      /\ \A i \in 1..n : submitted'[i] = submitted[i]
  BY <1>1, <1>2, AppendProperties
<1>4. front \in Seq(Seq(Byte)) /\ Len(front) = n /\ \A i \in 1..n : front[i] = submitted'[i]
  <2>1. \A i \in 1..n : submitted'[i] \in Seq(Byte)
    BY <1>1, <1>3, ElementOfSeq
  <2>2. /\ front \in Seq(Seq(Byte)) /\ Len(front) = IF 1 <= n THEN n - 1 + 1 ELSE 0
        /\ \A i \in 1..(n - 1 + 1) : front[i] = submitted'[1 + i - 1]
    BY <1>1, <2>1, SubSeqProperties
  <2>3. (1 <= n \/ n = 0) /\ n - 1 + 1 = n /\ \A i \in 1..n : 1 + i - 1 = i
    BY <1>1
  <2>4. QED BY <1>1, <2>2, <2>3
<1> HIDE DEF front
<1>5. front = submitted
  BY <1>1, <1>3, <1>4, SeqEqual
<1>6. UNCHANGED <<received, damaged # {}, repeated # {}>>
  BY DEF damaged
<1>7. QED BY <1>3, <1>5, <1>6 DEF Queue!Submit, front

LEMMA QueueReceives ==
  ASSUME LinkInv, UNCHANGED <<submitted, lost, repeated>>, NEW m \in 1..Len(submitted),
         received' = Append(received, submitted[m]),
         \/ received = <<>>
         \/ \E j \in 1..(m - 1) : received[Len(received)] = submitted[j]
         \/ \E p \in repeated : StartsIn(m, p),
         damaged = {} => Len(received) = m - 1
  PROVE  Queue!Receive \/ Queue!ReceiveDespiteFaults
<1>1. UNCHANGED <<submitted, damaged # {}, repeated # {}>>
  BY DEF damaged
<1>2. CASE damaged = {}
  <2>1. Len(received) + 1 = m /\ Len(received) < Len(submitted)
    BY <1>2, StreamFacts DEF LinkInv
  <2>2. QED BY <1>1, <2>1 DEF Queue!Receive
<1>3. CASE damaged # {}
  <2>1. \/ repeated # {} \/ received = <<>>
        \/ \E j \in 1..(m - 1) : received[Len(received)] = submitted[j]
    OBVIOUS
  <2>2. QED BY <1>1, <1>3, <2>1 DEF Queue!ReceiveDespiteFaults
<1>4. QED BY <1>2, <1>3

\* sec2ts and psi_extractor, joined by a channel, implement the queue of
\* SectionLink: each of their steps is one of its steps or changes nothing there
THEOREM LinkIsQueue ==
  ASSUME RoomForPayload, FewDamaged
  PROVE  Spec => ImplementsQueue
<1>1. Init => Queue!Init
  BY DEF Init, Queue!Init, damaged
<1>2. LinkInv /\ [Next]_vars => [Queue!Next]_Queue!vars
  <2>1. SUFFICES ASSUME LinkInv, [Next]_vars
                 PROVE  [Queue!Next]_Queue!vars
    OBVIOUS
  <2>2. CASE Lose \/ Repeat
    <3>1. UNCHANGED <<submitted, received>> /\ damaged' # {} /\ repeated \subseteq repeated'
      BY <2>2 DEF Lose, Repeat, history, damaged
    <3>2. Queue!Fault
      BY <3>1 DEF Queue!Fault
    <3>3. QED BY <3>2 DEF Queue!Next
  <2>3. CASE ~(Lose \/ Repeat)
    <3>1. UNCHANGED <<lost, repeated>>
      BY <2>1, <2>3 DEF Next, Submit, SendMore, Flush, OnAdaptationField, Transmit, Connect,
                        Deliver, ExtractMore, vars, channel
    <3> HIDE DEF StartsIn
    <3>2. /\ \/ UNCHANGED submitted
             \/ /\ Len(submitted) < MaxSections
                /\ \E s \in SectionsAt[Len(submitted) + 1] :
                     submitted' = Append(submitted, s)
                /\ UNCHANGED received
          /\ \/ UNCHANGED received
             \/ /\ UNCHANGED submitted
                /\ \E m \in 1..Len(submitted) :
                     /\ received' = Append(received, submitted[m])
                     /\ \/ received = <<>>
                        \/ \E j \in 1..(m - 1) : received[Len(received)] = submitted[j]
                        \/ \E p \in repeated : StartsIn(m, p)
                     /\ damaged = {} => Len(received) = m - 1
      BY <2>1, NextFacts
    <3>3. CASE UNCHANGED <<submitted, received>>
      BY <3>1, <3>3 DEF Queue!vars, damaged
    <3>4. CASE /\ Len(submitted) < MaxSections
               /\ \E s \in SectionsAt[Len(submitted) + 1] :
                    submitted' = Append(submitted, s)
               /\ UNCHANGED received
      BY <2>1, <3>1, <3>4, QueueSubmits DEF Queue!Next
    <3>5. CASE /\ UNCHANGED submitted
               /\ \E m \in 1..Len(submitted) :
                    /\ received' = Append(received, submitted[m])
                    /\ \/ received = <<>>
                       \/ \E j \in 1..(m - 1) : received[Len(received)] = submitted[j]
                       \/ \E p \in repeated : StartsIn(m, p)
                    /\ damaged = {} => Len(received) = m - 1
      BY <2>1, <3>1, <3>5, QueueReceives DEF Queue!Next
    <3>6. QED BY <3>2, <3>3, <3>4, <3>5
  <2>4. QED BY <2>2, <2>3
<1>3. QED BY <1>1, <1>2, LinkInvariant, PTL DEF Spec, ImplementsQueue, Queue!Spec
=============================================================================
