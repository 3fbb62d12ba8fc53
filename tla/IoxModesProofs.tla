--------------------------- MODULE IoxModesProofs ---------------------------
(* What the construction of a message and of a text have in common, and that *)
(* both are parsed back by the calls that constructed them, for every        *)
(* buffer, every set of calls and any number of them.                        *)
EXTENDS IoxModes, BinaryOutProofs

\* a text has more room than the message: an open block's limits
TextLimits(i) ==
  /\ text_scope_stack[i].bitpos_at_enter = scope_stack[i].bitpos_at_enter
  /\ text_scope_stack[i].bitlimit_at_enter \in Nat
  /\ scope_stack[i].bitlimit_at_enter <= text_scope_stack[i].bitlimit_at_enter

\* both at the same bit, in the same blocks
InStep == /\ text_bitpos = bitpos
          /\ text_returned = returned
          /\ text_bitlimit \in Nat
          /\ bitlimit <= text_bitlimit
          /\ \E S : text_scope_stack \in Seq(S)
          /\ Len(text_scope_stack) = Len(scope_stack)
          /\ \A i \in 1..Len(scope_stack) : TextLimits(i)

SimInv == /\ text_thrown => thrown
          /\ ~thrown => InStep

LEMMA PushedAny ==
  ASSUME NEW S, NEW s \in Seq(S), NEW e
  PROVE  /\ \E U : Append(s, e) \in Seq(U)
         /\ Len(Append(s, e)) = Len(s) + 1
         /\ \A i \in 1..Len(s) : Append(s, e)[i] = s[i]
         /\ \A i \in 1..(Len(s) + 1) : i = Len(s) + 1 => Append(s, e)[i] = e
<1> DEFINE U == S \cup {e}
<1>1. s \in Seq(U) /\ e \in U
  BY SeqMonotonic
<1> HIDE DEF U
<1>2. QED BY <1>1, AppendProperties

LEMMA PoppedAny ==
  ASSUME NEW S, NEW s \in Seq(S), s # <<>>
  PROVE  /\ \E U : SubSeq(s, 1, Len(s) - 1) \in Seq(U)
         /\ Len(s) \in Nat /\ Len(s) >= 1
         /\ Len(SubSeq(s, 1, Len(s) - 1)) = Len(s) - 1
         /\ \A i \in 1..(Len(s) - 1) : SubSeq(s, 1, Len(s) - 1)[i] = s[i]
<1>1. Len(s) \in Nat /\ Len(s) >= 1
  BY LenProperties, EmptySeq
<1>2. \A i \in 1..Len(s) : s[i] \in S
  BY ElementOfSeq
<1> DEFINE m == Len(s) - 1
           r == SubSeq(s, 1, m)
<1>3. m \in Int /\ m >= 0 /\ \A i \in 1..m : s[i] \in S
  BY <1>1, <1>2
<1>4. r \in Seq(S) /\ Len(r) = m /\ \A i \in 1..m : r[i] = s[i]
  <2> HIDE DEF m
  <2>1. /\ r \in Seq(S)
        /\ Len(r) = IF 1 <= m THEN m - 1 + 1 ELSE 0
        /\ \A i \in 1..(m - 1 + 1) : r[i] = s[1 + i - 1]
    BY <1>3, SubSeqProperties
  <2>2. m - 1 + 1 = m /\ \A i \in 1..m : 1 + i - 1 = i
    BY <1>3
  <2> HIDE DEF r
  <2>3. Len(r) = m
    BY <1>3, <2>1, <2>2
  <2>4. \A i \in 1..m : r[i] = s[i]
    BY <2>1, <2>2
  <2>5. QED BY <2>1, <2>3, <2>4
<1>5. QED BY <1>1, <1>4

LEMMA Places ==
  ASSUME IInv
  PROVE  /\ bitpos \in Nat /\ bitlimit \in Nat /\ Len(scope_stack) \in Nat
         /\ \A i \in 1..Len(scope_stack) : /\ scope_stack[i].bitpos_at_enter \in Nat
                                           /\ scope_stack[i].bitlimit_at_enter \in Nat
<1>1. scope_stack \in Seq(Scope) /\ bitpos \in Nat /\ bitlimit \in 0..BufferBits
  BY DEF IInv, Positions, Scope
<1>2. BufferBits \in Nat
  BY Sizes
<1>3. \A i \in 1..Len(scope_stack) : scope_stack[i] \in Scope
  BY <1>1, ElementOfSeq
<1>4. QED BY <1>1, <1>2, <1>3, LenProperties DEF Scope

----------------------------------------------------------------------------
\* a number that fits the message fits the text
LEMMA UintInStep ==
  ASSUME NumbersFit, IInv, InStep, ~thrown, ~text_thrown,
         NEW f \in Fields, Uint(f), T!Uint(f)
  PROVE  /\ text_thrown' => thrown'
         /\ ~thrown' => InStep'
<1>1. bitpos \in Nat /\ bitlimit \in Nat /\ f.size \in Nat
  BY Places, Sizes
<1>2. CASE RefuseWrite(f.w, f.size)
  BY <1>2 DEF RefuseWrite
<1>3. CASE Write(f.w, f.size, f.val)
  <2>1. /\ bitpos + f.size <= bitlimit
        /\ bitpos' = bitpos + f.size
        /\ UNCHANGED bitlimit /\ UNCHANGED scope_stack /\ UNCHANGED returned
    BY <1>3 DEF Write, Writable
  <2>2. T!Writable(f.size, f.val)
    BY <1>1, <2>1 DEF T!Writable, InStep, NumbersFit
  <2>3. T!Write(f)
    BY <2>2 DEF T!Uint, T!RefuseWrite
  <2>4. /\ text_bitpos' = text_bitpos + f.size
        /\ UNCHANGED text_bitlimit /\ UNCHANGED text_scope_stack
        /\ UNCHANGED text_thrown /\ UNCHANGED text_returned
    BY <2>3 DEF T!Write
  <2>5. InStep'
    BY <2>1, <2>4 DEF InStep, TextLimits
  <2>6. QED BY <2>4, <2>5
<1>4. QED BY <1>2, <1>3 DEF Uint

LEMMA BeginInStep ==
  ASSUME IInv, InStep, ~thrown, ~text_thrown,
         NEW size \in LengthBits, NamedBlockBegin(size), T!NamedBlockBegin(size)
  PROVE  /\ text_thrown' => thrown'
         /\ ~thrown' => InStep'
<1> DEFINE n == Len(scope_stack)
           start == bitpos + size
<1>0. MostBytes(size) \in Nat /\ MostBytes(size) * ByteBits \in Nat /\ size \in Nat
  BY Sizes, BytesInBits
<1>1. /\ bitpos \in Nat /\ bitlimit \in Nat /\ n \in Nat /\ start \in Nat
      /\ text_bitlimit \in Nat /\ bitlimit <= text_bitlimit
      /\ Len(text_scope_stack) = n /\ text_bitpos = bitpos
  BY <1>0, Places DEF InStep
<1>2. CASE RefuseBegin(size)
  BY <1>2 DEF RefuseBegin
<1>3. CASE BeginBlock(size)
  <2>1. /\ Aligned(start) /\ bitpos' = start /\ bitlimit' = BlockLimit(start, size)
        /\ scope_stack' = Append(scope_stack, [bitpos_at_enter |-> start,
                                               bitlimit_at_enter |-> bitlimit,
                                               position_for_write |-> bitpos])
        /\ UNCHANGED returned
    BY <1>3 DEF BeginBlock
  <2>2. T!Start(size) = start
    BY <1>1 DEF T!Start
  <2>3. T!BeginBlock(size)
    BY <2>1, <2>2 DEF T!NamedBlockBegin, T!RefuseBegin, T!Aligned, Aligned
  <2> DEFINE room == MostBytes(size) * ByteBits
             x == [bitpos_at_enter |-> start, bitlimit_at_enter |-> text_bitlimit,
                   position_for_write |-> Len(prod)]
             e == [bitpos_at_enter |-> start, bitlimit_at_enter |-> bitlimit,
                   position_for_write |-> bitpos]
  <2>4. /\ text_bitpos' = start
        /\ text_bitlimit' = IF start + room > text_bitlimit THEN text_bitlimit
                            ELSE start + room
        /\ text_scope_stack' = Append(text_scope_stack, x)
        /\ UNCHANGED text_thrown /\ UNCHANGED text_returned
    BY <2>2, <2>3 DEF T!BeginBlock, MostBytes
  <2>5. bitlimit' = IF start + room > bitlimit THEN bitlimit ELSE start + room
    BY <2>1 DEF BlockLimit
  <2>6. text_bitlimit' \in Nat /\ bitlimit' <= text_bitlimit'
    <3> HIDE DEF start, room
    <3>1. start \in Nat /\ room \in Nat
      BY <1>0, <1>1 DEF start, room
    <3>2. QED BY <1>1, <2>4, <2>5, <3>1
  <2>7. PICK S : text_scope_stack \in Seq(S)
    BY DEF InStep
  <2>8. /\ \E U : text_scope_stack' \in Seq(U)
        /\ Len(text_scope_stack') = n + 1
        /\ \A i \in 1..n : text_scope_stack'[i] = text_scope_stack[i]
        /\ \A i \in 1..(n + 1) : i = n + 1 => text_scope_stack'[i] = x
    <3> DEFINE new == Append(text_scope_stack, x)
               m == Len(text_scope_stack)
    <3>1. /\ \E U : new \in Seq(U)
          /\ Len(new) = m + 1
          /\ \A i \in 1..m : new[i] = text_scope_stack[i]
          /\ \A i \in 1..(m + 1) : i = m + 1 => new[i] = x
      BY <2>7, PushedAny
    <3>2. new = text_scope_stack' /\ m = n
      BY <1>1, <2>4
    <3> HIDE DEF new, x, m, n
    <3>3. QED BY <3>1, <3>2
  <2>9. /\ Len(scope_stack') = n + 1
        /\ \A i \in 1..n : scope_stack'[i] = scope_stack[i]
        /\ \A i \in 1..(n + 1) : i = n + 1 => scope_stack'[i] = e
    <3>1. scope_stack \in Seq(Scope)
      BY DEF IInv, Positions, Scope
    <3> HIDE DEF e
    <3>2. scope_stack' = Append(scope_stack, e)
      BY <2>1 DEF e
    <3>3. QED BY <1>1, <3>1, <3>2, PushedAny
  <2>10. ASSUME NEW i \in 1..(n + 1) PROVE TextLimits(i)'
    <3>1. CASE i \in 1..n
      BY <2>8, <2>9, <3>1 DEF InStep, TextLimits
    <3>2. CASE i = n + 1
      BY <1>1, <2>8, <2>9, <3>2 DEF TextLimits
    <3>3. QED BY <1>1, <3>1, <3>2
  <2>11. InStep'
    BY <2>1, <2>4, <2>6, <2>8, <2>9, <2>10 DEF InStep
  <2>12. QED BY <2>4, <2>11
<1>4. QED BY <1>2, <1>3 DEF NamedBlockBegin

LEMMA EndInStep ==
  ASSUME IInv, InStep, ~thrown, ~text_thrown, NamedBlockEnd, T!NamedBlockEnd
  PROVE  /\ text_thrown' => thrown'
         /\ ~thrown' => InStep'
<1> DEFINE n == Len(scope_stack)
<1>1. CASE RefuseLength \/ RefuseEnd
  BY <1>1 DEF RefuseLength, RefuseEnd
<1>2. CASE EndBlock
  <2>1. /\ n \in Nat /\ n >= 1 /\ Len(Outer) = n - 1
        /\ \A i \in 1..(n - 1) : Outer[i] = scope_stack[i]
    BY <1>2, EndFacts DEF EndBlock
  <2>2. n \in 1..n /\ Len(text_scope_stack) = n
    BY <2>1 DEF InStep
  <2>3. T!Top.bitpos_at_enter = Top.bitpos_at_enter
    BY <2>2 DEF InStep, TextLimits, Top, T!Top
  <2>4. T!BlockBits = BlockBits
    BY <2>3 DEF T!BlockBits, BlockBits, InStep
  <2>5. T!EndBlock
    BY <1>2, <2>4 DEF EndBlock, T!NamedBlockEnd, T!RefuseEnd, T!Aligned, Aligned
  <2>6. /\ Top = scope_stack[n]
        /\ bitpos' = bitpos /\ bitlimit' = scope_stack[n].bitlimit_at_enter
        /\ scope_stack' = Outer /\ returned' = BlockBits \div ByteBits
    BY <1>2 DEF EndBlock, Top
  <2>7. /\ text_bitpos' = text_bitpos /\ text_thrown' = text_thrown
        /\ text_bitlimit' = text_scope_stack[n].bitlimit_at_enter
        /\ text_scope_stack' = SubSeq(text_scope_stack, 1, Len(text_scope_stack) - 1)
        /\ text_returned' = BlockBits \div ByteBits
        /\ text_scope_stack # <<>>
    BY <2>2, <2>4, <2>5 DEF T!EndBlock, T!Top
  <2>8. PICK S : text_scope_stack \in Seq(S)
    BY DEF InStep
  <2>9. /\ \E U : text_scope_stack' \in Seq(U)
        /\ Len(text_scope_stack') = n - 1
        /\ \A i \in 1..(n - 1) : text_scope_stack'[i] = text_scope_stack[i]
    BY <2>2, <2>7, <2>8, PoppedAny
  <2>10. TextLimits(n)
    BY <2>2 DEF InStep
  <2>11. text_bitlimit' \in Nat /\ bitlimit' <= text_bitlimit'
    BY <2>6, <2>7, <2>10 DEF TextLimits
  <2>12. ASSUME NEW i \in 1..(n - 1) PROVE TextLimits(i)'
    <3>1. TextLimits(i)
      BY <2>1 DEF InStep
    <3>2. scope_stack'[i] = scope_stack[i] /\ text_scope_stack'[i] = text_scope_stack[i]
      BY <2>1, <2>6, <2>9
    <3>3. QED BY <3>1, <3>2 DEF TextLimits
  <2>13. InStep'
    BY <2>1, <2>6, <2>7, <2>9, <2>11, <2>12 DEF InStep
  <2>14. QED BY <2>7, <2>13
<1>3. QED BY <1>1, <1>2 DEF NamedBlockEnd

----------------------------------------------------------------------------
\* Construction in the binary mode is what BinaryOut does, whatever is made of
\* the result
LEMMA ConstructionPart ==
  /\ ModesInit => Init
  /\ [ModesNext]_modes_vars => [Next]_vars
<1>1. ModesInit => Init
  BY DEF ModesInit
<1>2. ASSUME Construct PROVE [Next]_vars
  BY <1>2 DEF Construct, OnBoth, Next
<1>3. Reparse \/ RepeatBinary \/ RepeatText \/ UNCHANGED modes_vars => UNCHANGED vars
  BY DEF Reparse, RepeatBinary, RepeatText, Repeated, modes_vars
<1>4. QED BY <1>1, <1>2, <1>3 DEF ModesNext

LEMMA ConstructInStep ==
  ASSUME NumbersFit, IInv, SimInv, Construct
  PROVE  SimInv'
<1>1. CASE thrown
  <2>1. UNCHANGED thrown
    <3>1. UNCHANGED vars
      BY <1>1 DEF Construct, OnBoth, Uint, Write, RefuseWrite,
                  NamedBlockBegin, BeginBlock, RefuseBegin,
                  NamedBlockEnd, EndBlock, RefuseLength, RefuseEnd
    <3>2. QED BY <3>1 DEF vars
  <2>2. QED BY <1>1, <2>1 DEF SimInv
<1>2. CASE ~thrown
  <2>1. InStep /\ ~text_thrown
    BY <1>2 DEF SimInv
  <2>2. \/ \E f \in Fields : Uint(f) /\ T!Uint(f)
        \/ \E n \in LengthBits : NamedBlockBegin(n) /\ T!NamedBlockBegin(n)
        \/ NamedBlockEnd /\ T!NamedBlockEnd
    BY <1>2, <2>1 DEF Construct, OnBoth
  <2>3. QED BY <1>2, <2>1, <2>2, UintInStep, BeginInStep, EndInStep DEF SimInv
<1>3. QED BY <1>1, <1>2

LEMMA SimInvHolds ==
  ASSUME NumbersFit
  PROVE  /\ ModesInit => SimInv
         /\ IInv /\ SimInv /\ [ModesNext]_modes_vars => SimInv'
<1>1. ASSUME ModesInit PROVE SimInv
  <2>1. /\ bitpos = 0 /\ bitlimit = BufferBits /\ scope_stack = <<>> /\ returned = 0
        /\ thrown = FALSE
    BY <1>1 DEF ModesInit, Init
  <2>2. /\ text_bitpos = 0 /\ text_bitlimit = TextBits /\ text_scope_stack = <<>>
        /\ text_returned = 0 /\ text_thrown = FALSE
    BY <1>1 DEF ModesInit, T!Init
  <2>3. text_scope_stack \in Seq({}) /\ Len(text_scope_stack) = 0 /\ 1..0 = {}
    BY <2>2, EmptySeq
  <2>4. bitlimit <= text_bitlimit /\ text_bitlimit \in Nat
    BY <2>1, <2>2, ModesAssumption
  <2>5. InStep
    BY <2>1, <2>2, <2>3, <2>4 DEF InStep
  <2>6. QED BY <2>2, <2>5 DEF SimInv
<1>2. ASSUME IInv, SimInv, [ModesNext]_modes_vars PROVE SimInv'
  <2>1. CASE Construct
    BY <1>2, <2>1, ConstructInStep
  <2>2. CASE UNCHANGED <<vars, text>>
    BY <1>2, <2>2 DEF vars, text, SimInv, InStep, TextLimits
  <2>3. QED BY <1>2, <2>1, <2>2
        DEF ModesNext, Reparse, RepeatBinary, RepeatText, Repeated, modes_vars
<1>3. QED BY <1>1, <1>2

\* inc/io.h:144: construction of a text follows the bits of the message, call
\* by call, and refuses none that the message takes, if the numbers have as
\* many bits as the client says
THEOREM TextAlwaysSimulates == ASSUME NumbersFit PROVE ModesSpec => []TextSimulates
<1>1. ModesInit => IInv /\ SimInv
  BY ConstructionPart, InvariantHolds, SimInvHolds
<1>2. IInv /\ SimInv /\ [ModesNext]_modes_vars => IInv' /\ SimInv'
  BY ConstructionPart, InvariantHolds, SimInvHolds
<1>3. SimInv => TextSimulates
  BY DEF SimInv, InStep, TextLimits, TextSimulates
<1>4. QED BY <1>1, <1>2, <1>3, PTL DEF ModesSpec

\* All that is proved of BinaryOut holds of the message an iox object makes
THEOREM ConstructsAsBinaryOut == ModesSpec => Spec /\ LengthFits
<1>1. ModesInit => Init
  BY ConstructionPart
<1>2. [ModesNext]_modes_vars => [Next]_vars
  BY ConstructionPart
<1>3. ModesSpec => Spec
  BY <1>1, <1>2, PTL DEF ModesSpec, Spec
<1>4. QED BY <1>3, LengthsFit

----------------------------------------------------------------------------

(* what is constructed is parsed back *)

LEMMA Quotients ==
  ASSUME NEW d \in Nat, d >= 1, NEW q \in Nat, NEW r \in Nat, r < d
  PROVE  (d * q + r) \div d = q
<1> DEFINE a == d * q + r
           x == a \div d
<1>1. d * q \in Nat /\ a \in Nat
  OBVIOUS
<1>2. x \in Nat /\ d * x <= a /\ a < d * (x + 1)
  <2> HIDE DEF a
  <2>1. QED BY <1>1
<1> HIDE DEF x
<1>3. ASSUME x < q PROVE FALSE
  <2>1. d * (x + 1) <= d * q
    BY <1>2, <1>3
  <2>2. QED BY <1>1, <1>2, <2>1
<1>4. ASSUME q < x PROVE FALSE
  <2>1. d * (q + 1) <= d * x /\ d * (q + 1) = d * q + d
    BY <1>2, <1>4
  <2>2. d * x \in Nat /\ d * q + d <= d * x /\ d * x <= a
    BY <1>2, <2>1
  <2>3. QED BY <1>1, <2>2
<1>5. x = q
  BY <1>2, <1>3, <1>4
<1>6. QED BY <1>5 DEF x

\* half a number has the same bits, one place further down
LEMMA HalfBits ==
  ASSUME NEW a \in Nat, NEW p \in Nat, p >= 1
  PROVE  (a \div 2) \div p = a \div (2 * p)
<1> DEFINE h == a \div 2
           q == h \div p
           r == h % p
           s == a % 2
           t == 2 * r + s
<1>1. h \in Nat /\ s \in 0..1 /\ a = 2 * h + s
  OBVIOUS
<1>2. q \in Nat /\ r \in 0..(p - 1) /\ h = p * q + r
  <2> HIDE DEF h
  <2>1. QED BY <1>1
<1> HIDE DEF h, q, r, s
<1>3. p * q \in Nat /\ (2 * p) * q = 2 * (p * q)
  BY <1>2
<1>4. a = (2 * p) * q + t /\ t \in Nat /\ t < 2 * p
  BY <1>1, <1>2, <1>3
<1>5. 2 * p \in Nat /\ 2 * p >= 1
  OBVIOUS
<1> HIDE DEF t
<1>6. a \div (2 * p) = q
  BY <1>2, <1>4, <1>5, Quotients
<1>7. QED BY <1>6 DEF h, q

\* a number of so many bits is told by them
LEMMA BitsTell ==
  \A n \in 0..(4 * ByteBits) : \A a, b \in 0..(2^n - 1) :
    (\A i \in 0..(n - 1) : Bit(a, i) = Bit(b, i)) => a = b
<1> DEFINE p[n \in Nat] == 2^n
           top == 4 * ByteBits
           Same(n, a, b) == \A i \in 0..(n - 1) : (a \div p[i]) % 2 = (b \div p[i]) % 2
           Twins == {n \in 0..top : \E a, b \in 0..(p[n] - 1) : Same(n, a, b) /\ a # b}
<1>1. ByteBits \in Nat /\ top \in Nat
      /\ \A n \in 0..top : n \in 0..(5 * ByteBits) /\ n \in Nat
  BY ByteAssumption
<1>2. p[0] = 1 /\ \A n \in 0..top : p[n] \in Nat /\ p[n] >= 1 /\ p[n + 1] = 2 * p[n]
  <2>1. \A n \in 0..top : p[n] = 2^n /\ p[n + 1] = 2^(n + 1)
    BY <1>1
  <2>2. p[0] = 2^0
    OBVIOUS
  <2> HIDE DEF p, top
  <2>3. QED BY <1>1, <2>1, <2>2, Powers, PowersAssumption
<1>3. ASSUME Twins # {} PROVE FALSE
  <2>1. PICK n \in Twins : \A m \in Twins : n <= m
    <3>1. Twins \in SUBSET Nat
      BY <1>1
    <3> HIDE DEF Twins
    <3>2. QED BY <1>3, <3>1, LeastOf
  <2> HIDE DEF p, top
  <2>2. n \in 0..top /\ n \in Nat
    BY <1>1, <2>1
  <2>3. PICK a, b \in 0..(p[n] - 1) : Same(n, a, b) /\ a # b
    BY <2>1
  <2>4. n # 0
    BY <1>2, <2>3
  <2> DEFINE m == n - 1
             c == a \div 2
             d == b \div 2
  <2>5. m \in 0..top /\ m \in Nat /\ m + 1 = n /\ ~(n <= m)
    BY <1>1, <2>2, <2>4
  <2> HIDE DEF m
  <2>6. p[m] \in Nat /\ p[m] >= 1 /\ p[n] = 2 * p[m]
    BY <1>2, <2>5
  <2>7. a \in Nat /\ b \in Nat /\ c \in 0..(p[m] - 1) /\ d \in 0..(p[m] - 1)
    BY <2>3, <2>6
  <2>8. Same(m, c, d)
    <3>1. SUFFICES ASSUME NEW i \in 0..(m - 1)
                   PROVE  (c \div p[i]) % 2 = (d \div p[i]) % 2
      OBVIOUS
    <3> DEFINE j == i + 1
    <3>2. i \in 0..top /\ j \in 0..(n - 1)
      BY <1>1, <2>5
    <3>3. p[i] \in Nat /\ p[i] >= 1 /\ p[j] = 2 * p[i]
      BY <1>2, <3>2
    <3> HIDE DEF j
    <3>4. (a \div p[j]) % 2 = (b \div p[j]) % 2
      BY <2>3, <3>2
    <3>5. c \div p[i] = a \div p[j] /\ d \div p[i] = b \div p[j]
      BY <2>7, <3>3, HalfBits
    <3>6. QED BY <3>4, <3>5
  <2>9. c = d
    <3>1. ~(m \in Twins)
      BY <2>1, <2>5
    <3> HIDE DEF c, d
    <3>2. QED BY <2>5, <2>7, <2>8, <3>1
  <2>10. a % 2 = b % 2
    <3>1. 0 \in 0..(n - 1)
      BY <2>2, <2>4
    <3>2. (a \div p[0]) % 2 = (b \div p[0]) % 2
      BY <2>3, <3>1
    <3>3. a \div 1 = a /\ b \div 1 = b
      BY <2>7
    <3>4. QED BY <1>2, <3>2, <3>3
  <2>11. a = b
    BY <2>7, <2>9, <2>10
  <2>12. QED BY <2>3, <2>11
<1>4. ASSUME NEW n \in 0..top, NEW a \in 0..(2^n - 1), NEW b \in 0..(2^n - 1),
             \A i \in 0..(n - 1) : Bit(a, i) = Bit(b, i)
      PROVE  a = b
  <2>1. n \notin Twins /\ n \in Nat /\ p[n] = 2^n
    BY <1>1, <1>3
  <2>2. Same(n, a, b)
    BY <1>4, <2>1 DEF Bit
  <2>3. a \in 0..(p[n] - 1) /\ b \in 0..(p[n] - 1)
    BY <2>1
  <2> HIDE DEF p, top, Same
  <2>4. QED BY <2>1, <2>2, <2>3
<1>5. QED BY <1>4 DEF top

----------------------------------------------------------------------------
\* What the j-th call of C has left in the message, if it is made at bit pos[j],
\* in the block that call par[j] has begun, and end[j] is the call that ends the
\* block which this one begins, or 0
NumberAt(C, bits, pos, par, j) ==
  LET f == C[j].field IN
  /\ C[j].name = "uint"
  /\ f \in Fields
  /\ f.size <= f.w
  /\ f.w > ByteBits => ~Spans(pos[j], f.size)
  /\ C[j].gave = f.val
  /\ pos[j + 1] = pos[j] + f.size
  /\ pos[j + 1] <= BufferBits
  /\ Holds(bits, pos[j], f.size, f.val)
  /\ par[j + 1] = par[j]

\* the length of the block is there once the block has ended
LengthAt(C, bits, pos, end, j) ==
  LET n == C[j].field
      last == end[j]
  IN /\ last \in (j + 1)..Len(C)
     /\ C[last].name = "named_block_end"
     /\ C[last].gave \in 0..(2^n - 1)
     /\ pos[last] = pos[j + 1] + C[last].gave * ByteBits
     /\ pos[j + 1] <= BufferBits
     /\ ~Spans(pos[j], n)
     /\ Holds(bits, pos[j], n, C[last].gave)

BeginAt(C, bits, pos, par, end, j) ==
  /\ C[j].name = "named_block_begin"
  /\ C[j].field \in LengthBits
  /\ C[j].gave = 0
  /\ pos[j + 1] = pos[j] + C[j].field
  /\ Aligned(pos[j + 1])
  /\ par[j + 1] = j
  /\ end[j] # 0 => LengthAt(C, bits, pos, end, j)
  /\ par[j] # 0 /\ end[par[j]] # 0 => end[j] # 0 /\ end[j] < end[par[j]]

EndAt(C, pos, par, end, j) ==
  /\ C[j].name = "named_block_end"
  /\ par[j] # 0
  /\ end[par[j]] = j
  /\ par[j + 1] = par[par[j]]
  /\ pos[j + 1] = pos[j]

CallAt(C, bits, pos, par, end, j) == \/ NumberAt(C, bits, pos, par, j)
                                     \/ BeginAt(C, bits, pos, par, end, j)
                                     \/ EndAt(C, pos, par, end, j)

\* a block that call j is made in
BlockAround(C, par, end, j) ==
  par[j] # 0 => /\ par[j] < j
                /\ C[par[j]].name = "named_block_begin"
                /\ end[par[j]] = 0 \/ end[par[j]] >= j

Traced(C, bits, pos, par, end) ==
  /\ \E U : C \in Seq(U)
  /\ pos \in [Nat -> Nat] /\ par \in [Nat -> Nat] /\ end \in [Nat -> Nat]
  /\ pos[1] = 0 /\ par[1] = 0
  /\ \A i, j \in 1..(Len(C) + 1) : i <= j => pos[i] <= pos[j]
  /\ \A j \in 1..(Len(C) + 1) : BlockAround(C, par, end, j)
  /\ \A j \in 1..Len(C) : CallAt(C, bits, pos, par, end, j)

\* st[1..d] are the blocks that call j is made in, the innermost last
Chain(C, par, st, d, j) ==
  /\ st \in [Nat -> Nat]
  /\ \A k \in 1..d : st[k] \in 1..(j - 1) /\ C[st[k]].name = "named_block_begin"
  /\ \A k, l \in 1..d : k < l => st[k] < st[l]
  /\ \A k \in 1..d : par[st[k]] = IF k = 1 THEN 0 ELSE st[k - 1]
  /\ par[j] = IF d = 0 THEN 0 ELSE st[d]

\* the message so far, and its open blocks
Constructing(C, pos, par, end, st) ==
  LET d == Len(scope_stack) IN
  /\ Traced(C, data, pos, par, end)
  /\ pos[Len(C) + 1] = bitpos
  /\ Chain(C, par, st, d, Len(C) + 1)
  /\ \A k \in 1..d : /\ end[st[k]] = 0
                     /\ scope_stack[k].bitpos_at_enter = pos[st[k] + 1]
                     /\ scope_stack[k].position_for_write = pos[st[k]]
  /\ \A i \in 1..Len(C) : C[i].name = "named_block_begin" /\ end[i] = 0
                          => \E k \in 1..d : st[k] = i

ConstructInv == ~thrown => \E pos, par, end, st :
                             Constructing(calls.binary, pos, par, end, st)

\* the limit in the k-th of the blocks that are being read, in all that is read
\* for 0
LimitIn(limit, stack, k) == IF k = Len(stack) THEN limit ELSE stack[k + 1].bitlimit_at_enter

\* the calls of C before the j-th have been repeated by a context which has this
\* limit and these open blocks
Reading(C, bits, pos, par, end, st, j, limit, stack) ==
  LET d == Len(stack) IN
  /\ Traced(C, bits, pos, par, end)
  /\ \A i \in 1..Len(C) : C[i].name = "named_block_begin" => end[i] # 0
  /\ \E U : stack \in Seq(U)
  /\ Chain(C, par, st, d, j)
  /\ \A k \in 1..d : /\ stack[k].bitpos_at_enter = pos[st[k] + 1]
                     /\ LimitIn(limit, stack, k) = pos[end[st[k]]]
  /\ LimitIn(limit, stack, 0) \in Nat /\ pos[Len(C) + 1] <= LimitIn(limit, stack, 0)

Repeating(C, pos, par, end, st, j) ==
  /\ Reading(C, message, pos, par, end, st, j, in_bitlimit, in_scope_stack)
  /\ pos[Len(C) + 1] = bitpos
  /\ in_bitpos = pos[j]

RepeatInv ==
  phase = "binary" =>
    /\ ~thrown
    /\ ~in_thrown
    /\ \E U : results \in Seq(U)
    /\ Len(results) <= Len(calls.binary)
    /\ \A i \in 1..Len(results) : results[i] = calls.binary[i].gave
    /\ \E pos, par, end, st :
         Repeating(calls.binary, pos, par, end, st, Len(results) + 1)

----------------------------------------------------------------------------
\* a context that parses has the same bits, and knows the same of them
LEMMA ReadNames ==
  /\ \A bits, pos, size, val : I!Holds(bits, pos, size, val) <=> Holds(bits, pos, size, val)
  /\ \A pos, size : I!Spans(pos, size) <=> Spans(pos, size)
  /\ \A pos : I!Aligned(pos) <=> Aligned(pos)
BY DEF I!Holds, Holds, I!Bit, Bit, I!Spans, Spans, I!Aligned, Aligned

\* a field holds one number
LEMMA ReadOnce ==
  ASSUME NEW bits, NEW pos \in Nat, NEW size \in 1..(4 * ByteBits),
         NEW a \in 0..(2^size - 1), NEW b \in 0..(2^size - 1),
         Holds(bits, pos, size, a), Holds(bits, pos, size, b)
  PROVE  a = b
<1>1. size \in Nat /\ size \in 0..(4 * ByteBits)
  BY ByteAssumption
<1>2. ASSUME NEW i \in 0..(size - 1) PROVE Bit(a, i) = Bit(b, i)
  <2> DEFINE x == pos + size - 1 - i
  <2>1. x \in pos..(pos + size - 1) /\ pos + size - 1 - x = i
    BY <1>1
  <2> HIDE DEF x
  <2>2. bits[x] = Bit(a, pos + size - 1 - x) /\ bits[x] = Bit(b, pos + size - 1 - x)
    BY <2>1 DEF Holds
  <2>3. QED BY <2>1, <2>2
<1>3. QED BY <1>1, <1>2, BitsTell

LEMMA TraceFacts ==
  ASSUME NEW C, NEW bits, NEW pos, NEW par, NEW end, Traced(C, bits, pos, par, end)
  PROVE  /\ Len(C) \in Nat
         /\ \A j \in Nat : pos[j] \in Nat /\ par[j] \in Nat /\ end[j] \in Nat
         /\ \A j \in 1..Len(C) : C[j].name = "uint" => NumberAt(C, bits, pos, par, j)
         /\ \A j \in 1..Len(C) : C[j].name = "named_block_begin"
                                 => BeginAt(C, bits, pos, par, end, j)
         /\ \A j \in 1..Len(C) : C[j].name = "named_block_end"
                                 => EndAt(C, pos, par, end, j)
         /\ \A j \in 1..Len(C) : \/ C[j].name = "uint"
                                 \/ C[j].name = "named_block_begin"
                                 \/ C[j].name = "named_block_end"
<1>1. PICK U : C \in Seq(U)
  BY DEF Traced
<1>2. Len(C) \in Nat
  BY <1>1, LenProperties
<1>3. \A j \in 1..Len(C) : CallAt(C, bits, pos, par, end, j)
  BY DEF Traced
<1>4. \A j \in 1..Len(C) :
        /\ C[j].name = "uint" => NumberAt(C, bits, pos, par, j)
        /\ C[j].name = "named_block_begin" => BeginAt(C, bits, pos, par, end, j)
        /\ C[j].name = "named_block_end" => EndAt(C, pos, par, end, j)
        /\ \/ C[j].name = "uint"
           \/ C[j].name = "named_block_begin"
           \/ C[j].name = "named_block_end"
  BY <1>3 DEF CallAt, NumberAt, BeginAt, EndAt
<1>5. \A j \in Nat : pos[j] \in Nat /\ par[j] \in Nat /\ end[j] \in Nat
  BY DEF Traced
<1>6. QED BY <1>2, <1>4, <1>5

\* what is known of the innermost block that is being read
Innermost(C, bits, pos, par, end, st, j, limit, stack) ==
  par[j] # 0 => /\ Len(stack) >= 1
                /\ par[j] = st[Len(stack)]
                /\ end[par[j]] \in j..Len(C)
                /\ limit = pos[end[par[j]]]
                /\ BeginAt(C, bits, pos, par, end, par[j])
                /\ LengthAt(C, bits, pos, end, par[j])

LEMMA ReadingFacts ==
  ASSUME NEW C, NEW bits, NEW pos, NEW par, NEW end, NEW st, NEW j \in 1..Len(C),
         NEW limit, NEW stack, Reading(C, bits, pos, par, end, st, j, limit, stack)
  PROVE  /\ Traced(C, bits, pos, par, end)
         /\ limit \in Nat /\ pos[j] \in Nat /\ pos[j + 1] \in Nat
         /\ Len(stack) \in Nat
         /\ Innermost(C, bits, pos, par, end, st, j, limit, stack)
         /\ C[j].name # "named_block_end" => pos[j + 1] <= limit
<1> DEFINE d == Len(stack)
           top == par[j]
<1>1. /\ Traced(C, bits, pos, par, end)
      /\ Chain(C, par, st, d, j)
      /\ \A k \in 1..d : LimitIn(limit, stack, k) = pos[end[st[k]]]
      /\ LimitIn(limit, stack, 0) \in Nat /\ pos[Len(C) + 1] <= LimitIn(limit, stack, 0)
      /\ \A i \in 1..Len(C) : C[i].name = "named_block_begin" => end[i] # 0
  BY DEF Reading
<1>2. d \in Nat
  <2>1. PICK U : stack \in Seq(U)
    BY DEF Reading
  <2>2. QED BY <2>1, LenProperties
<1>3. /\ Len(C) \in Nat /\ j \in Nat
      /\ \A i \in Nat : pos[i] \in Nat /\ par[i] \in Nat /\ end[i] \in Nat
      /\ \A i \in 1..Len(C) : C[i].name = "named_block_begin"
                              => BeginAt(C, bits, pos, par, end, i)
      /\ \A i, k \in 1..(Len(C) + 1) : i <= k => pos[i] <= pos[k]
      /\ BlockAround(C, par, end, j)
  <2>1. Len(C) \in Nat
    BY <1>1, TraceFacts
  <2>2. j \in 1..(Len(C) + 1) /\ j \in Nat
    BY <2>1
  <2>3. BlockAround(C, par, end, j) /\ \A i, k \in 1..(Len(C) + 1) : i <= k => pos[i] <= pos[k]
    BY <1>1, <2>2 DEF Traced
  <2>4. QED BY <1>1, <2>1, <2>2, <2>3, TraceFacts
<1>4. ASSUME top # 0
      PROVE  /\ d >= 1 /\ top = st[d] /\ end[top] \in j..Len(C)
             /\ limit = pos[end[top]]
             /\ BeginAt(C, bits, pos, par, end, top)
             /\ LengthAt(C, bits, pos, end, top)
  <2>1. d # 0 /\ top = st[d]
    BY <1>1, <1>4 DEF Chain
  <2>2. d >= 1 /\ d \in 1..d
    BY <1>2, <2>1
  <2>3. limit = pos[end[top]]
    BY <1>1, <2>1, <2>2 DEF LimitIn
  <2>4. /\ top \in 1..Len(C) /\ C[top].name = "named_block_begin"
        /\ end[top] = 0 \/ end[top] >= j
    BY <1>3, <1>4 DEF BlockAround
  <2>5. BeginAt(C, bits, pos, par, end, top) /\ end[top] # 0
    BY <1>1, <1>3, <2>4
  <2>6. LengthAt(C, bits, pos, end, top)
    BY <2>5 DEF BeginAt
  <2>7. end[top] \in j..Len(C)
    BY <1>3, <2>4, <2>5, <2>6 DEF LengthAt
  <2>8. QED BY <2>1, <2>2, <2>3, <2>5, <2>6, <2>7
<1>5. ASSUME top = 0 PROVE limit = LimitIn(limit, stack, 0) /\ d = 0
  <2>1. d = 0
    <3>1. ASSUME d # 0 PROVE FALSE
      <4>1. d \in 1..d
        BY <1>2, <3>1
      <4>2. st[d] = top /\ st[d] \in 1..(j - 1)
        BY <1>1, <3>1, <4>1 DEF Chain
      <4>3. QED BY <1>5, <4>2
    <3>2. QED BY <3>1
  <2>2. QED BY <2>1 DEF LimitIn
<1>6. ASSUME C[j].name # "named_block_end" PROVE pos[j + 1] <= limit
  <2>1. j + 1 \in 1..(Len(C) + 1) /\ Len(C) + 1 \in 1..(Len(C) + 1) /\ j + 1 <= Len(C) + 1
    BY <1>3
  <2>2. CASE top = 0
    <3>1. pos[j + 1] <= pos[Len(C) + 1] /\ pos[j + 1] \in Nat /\ pos[Len(C) + 1] \in Nat
      <4> DEFINE a == j + 1
                 b == Len(C) + 1
      <4>1. a \in 1..b /\ b \in 1..b /\ a <= b /\ a \in Nat /\ b \in Nat
        BY <1>3, <2>1
      <4>2. \A i, k \in 1..b : i <= k => pos[i] <= pos[k]
        BY <1>3
      <4> HIDE DEF a, b
      <4>3. pos[a] <= pos[b] /\ pos[a] \in Nat /\ pos[b] \in Nat
        BY <1>3, <4>1, <4>2
      <4>4. QED BY <4>3 DEF a, b
    <3>2. QED BY <1>1, <1>5, <2>2, <3>1
  <2>3. CASE top # 0
    <3>1. end[top] # j
      BY <1>4, <1>6, <2>3 DEF LengthAt
    <3>2. end[top] \in 1..(Len(C) + 1) /\ j + 1 <= end[top]
      BY <1>3, <1>4, <2>3, <3>1
    <3>3. QED BY <1>3, <1>4, <2>1, <2>3, <3>2
  <2>4. QED BY <2>2, <2>3
<1>7. limit \in Nat
  <2>1. CASE top = 0
    BY <1>1, <1>5, <2>1
  <2>2. CASE top # 0
    BY <1>3, <1>4, <2>2
  <2>3. QED BY <2>1, <2>2
<1>8. pos[j] \in Nat /\ pos[j + 1] \in Nat
  <2> DEFINE m == j + 1
  <2>1. j \in Nat /\ m \in Nat
    BY <1>3
  <2> HIDE DEF m
  <2>2. QED BY <1>3, <2>1 DEF m
<1>9. Innermost(C, bits, pos, par, end, st, j, limit, stack)
  BY <1>4 DEF Innermost
<1>10. QED BY <1>1, <1>2, <1>6, <1>7, <1>8, <1>9

\* the blocks around a call, when it neither begins nor ends one
LEMMA ChainKept ==
  ASSUME NEW C, NEW par, NEW st, NEW d \in Nat, NEW j \in Nat,
         Chain(C, par, st, d, j), par[j + 1] = par[j]
  PROVE  Chain(C, par, st, d, j + 1)
<1>1. /\ st \in [Nat -> Nat] /\ par[j] = IF d = 0 THEN 0 ELSE st[d]
      /\ \A k \in 1..d : st[k] \in 1..(j - 1) /\ C[st[k]].name = "named_block_begin"
      /\ \A k, l \in 1..d : k < l => st[k] < st[l]
      /\ \A k \in 1..d : par[st[k]] = IF k = 1 THEN 0 ELSE st[k - 1]
  BY DEF Chain
<1>2. \A k \in 1..d : st[k] \in 1..(j + 1 - 1)
  <2>1. \A i \in 1..(j - 1) : i \in 1..(j + 1 - 1)
    OBVIOUS
  <2>2. QED BY <1>1, <2>1
<1>3. par[j + 1] = IF d = 0 THEN 0 ELSE st[d]
  BY <1>1
<1>4. QED BY <1>1, <1>2, <1>3 DEF Chain

\* ... and what a context reads, then
LEMMA ReadingNumber ==
  ASSUME NEW C, NEW bits, NEW pos, NEW par, NEW end, NEW st, NEW j \in 1..Len(C),
         NEW limit, NEW stack, Reading(C, bits, pos, par, end, st, j, limit, stack),
         C[j].name = "uint"
  PROVE  /\ NumberAt(C, bits, pos, par, j)
         /\ pos[j] \in Nat /\ limit \in Nat /\ pos[j + 1] <= limit
         /\ Reading(C, bits, pos, par, end, st, j + 1, limit, stack)
<1>1. /\ Traced(C, bits, pos, par, end)
      /\ limit \in Nat /\ pos[j] \in Nat
      /\ Len(stack) \in Nat
      /\ pos[j + 1] <= limit
  BY ReadingFacts
<1>2. NumberAt(C, bits, pos, par, j) /\ j \in Nat
  <2>1. Len(C) \in Nat
    BY <1>1, TraceFacts
  <2>2. j \in Nat
    BY <2>1
  <2>3. QED BY <1>1, <2>2, TraceFacts
<1>3. Chain(C, par, st, Len(stack), j + 1)
  <2>1. Chain(C, par, st, Len(stack), j)
    BY DEF Reading
  <2>2. par[j + 1] = par[j]
    BY <1>2 DEF NumberAt
  <2>3. QED BY <1>1, <1>2, <2>1, <2>2, ChainKept
<1>4. Reading(C, bits, pos, par, end, st, j + 1, limit, stack)
  BY <1>3 DEF Reading
<1>5. QED BY <1>1, <1>2, <1>4

\* a number is read back as it was written
LEMMA RepeatNumber ==
  ASSUME NumbersFit, NEW C, NEW pos, NEW par, NEW end, NEW st, NEW j \in 1..Len(C),
         Repeating(C, pos, par, end, st, j), C[j].name = "uint", ~in_thrown, ~thrown,
         I!Uint(C[j].field) \/ I!UintReq(C[j].field), UNCHANGED bitpos
  PROVE  /\ ~in_thrown'
         /\ I!Uint(C[j].field) => in_returned' = C[j].gave
         /\ C[j].gave = C[j].field.val
         /\ Repeating(C, pos, par, end, st, j + 1)'
<1> DEFINE f == C[j].field
<1>1. /\ in_bitpos = pos[j] /\ in_bitlimit \in Nat
      /\ Reading(C, message, pos, par, end, st, j, in_bitlimit, in_scope_stack)
      /\ pos[Len(C) + 1] = bitpos
  <2>1. /\ Reading(C, message, pos, par, end, st, j, in_bitlimit, in_scope_stack)
        /\ in_bitpos = pos[j] /\ pos[Len(C) + 1] = bitpos
    BY DEF Repeating
  <2>2. QED BY <2>1, ReadingNumber
<1>2. /\ NumberAt(C, message, pos, par, j) /\ pos[j] \in Nat /\ pos[j + 1] <= in_bitlimit
      /\ Reading(C, message, pos, par, end, st, j + 1, in_bitlimit, in_scope_stack)
  BY <1>1, ReadingNumber
<1>3. /\ f \in Fields /\ f.size <= f.w /\ (f.w > ByteBits => ~Spans(pos[j], f.size))
      /\ C[j].gave = f.val /\ pos[j + 1] = pos[j] + f.size
      /\ Holds(message, pos[j], f.size, f.val) /\ par[j + 1] = par[j]
  BY <1>2 DEF NumberAt
<1>4. /\ f.size \in 1..(4 * ByteBits) /\ f.val \in 0..(2^f.size - 1)
  <2>1. f.size \in 1..(4 * ByteBits) /\ f.val \in Nat /\ f.val < 2^f.size
    BY <1>3, OutAssumption DEF Field, NumbersFit
  <2>2. f.size \in 0..(5 * ByteBits)
    BY <2>1, ByteAssumption
  <2>3. 2^f.size \in Nat
    BY <2>2, Powers
  <2> DEFINE p == 2^f.size
  <2>4. f.val \in Nat /\ p \in Nat /\ f.val < p
    BY <2>1, <2>3
  <2> HIDE DEF p
  <2>5. f.val \in 0..(p - 1)
    BY <2>4
  <2>6. QED BY <2>1, <2>5 DEF p
<1> HIDE DEF f
<1>5. ~I!RefuseRead(f.size)
  BY <1>1, <1>2, <1>3 DEF I!RefuseRead, I!Readable
<1>6. ASSUME NEW val \in 0..(2^f.size - 1), I!Read(f.w, f.size, val)
      PROVE  val = f.val /\ in_bitpos' = pos[j + 1]
  <2>1. I!Holds(message, in_bitpos, f.size, val) /\ in_bitpos' = in_bitpos + f.size
    BY <1>1, <1>3, <1>6, ReadNames DEF I!Read
  <2>2. Holds(message, pos[j], f.size, val)
    BY <1>1, <2>1, ReadNames
  <2>3. val = f.val
    BY <1>2, <1>3, <1>4, <1>6, <2>2, ReadOnce
  <2>4. QED BY <1>1, <1>3, <2>1, <2>3
<1>7. /\ ~in_thrown' /\ (I!Uint(f) => in_returned' = f.val) /\ in_bitpos' = pos[j + 1]
      /\ UNCHANGED <<in_bitlimit, in_scope_stack, message>>
  <2>1. CASE I!Uint(f)
    <3>1. PICK val \in 0..(2^f.size - 1) :
            /\ I!Read(f.w, f.size, val)
            /\ in_returned' = val
            /\ UNCHANGED <<in_bitlimit, in_scope_stack, message, in_thrown, announced>>
      BY <1>5, <2>1 DEF I!Uint
    <3>2. QED BY <1>6, <3>1
  <2>2. CASE I!UintReq(f) /\ ~I!Uint(f)
    <3>1. PICK val \in 0..(2^f.size - 1) :
            /\ I!Read(f.w, f.size, val)
            /\ in_thrown' = (val # f.val)
            /\ UNCHANGED <<in_bitlimit, in_scope_stack, message, in_returned, announced>>
      BY <1>5, <2>2 DEF I!UintReq
    <3>2. val = f.val /\ in_bitpos' = pos[j + 1]
      BY <1>6, <3>1
    <3>3. QED BY <2>2, <3>1, <3>2
  <2>3. QED BY <2>1, <2>2 DEF f
<1>8. Repeating(C, pos, par, end, st, j + 1)'
  BY <1>1, <1>2, <1>7 DEF Repeating
<1>9. QED BY <1>3, <1>7, <1>8 DEF f

\* the calls made in a block, when it begins
LEMMA ChainPushed ==
  ASSUME NEW C, NEW par, NEW st, NEW d \in Nat, NEW j \in Nat, j >= 1,
         Chain(C, par, st, d, j), C[j].name = "named_block_begin", par[j + 1] = j
  PROVE  LET more == [st EXCEPT ![d + 1] = j] IN
         /\ Chain(C, par, more, d + 1, j + 1)
         /\ \A k \in 1..d : more[k] = st[k]
         /\ more[d + 1] = j
<1> DEFINE more == [st EXCEPT ![d + 1] = j]
           e == d + 1
<1>1. /\ st \in [Nat -> Nat] /\ par[j] = IF d = 0 THEN 0 ELSE st[d]
      /\ \A k \in 1..d : st[k] \in 1..(j - 1) /\ C[st[k]].name = "named_block_begin"
      /\ \A k, l \in 1..d : k < l => st[k] < st[l]
      /\ \A k \in 1..d : par[st[k]] = IF k = 1 THEN 0 ELSE st[k - 1]
  BY DEF Chain
<1>2. e \in Nat /\ e >= 1 /\ e - 1 = d /\ e # 0
  OBVIOUS
<1> HIDE DEF e
<1>3. more \in [Nat -> Nat] /\ more[e] = j /\ \A k \in Nat : k # e => more[k] = st[k]
  BY <1>1, <1>2 DEF e
<1> HIDE DEF more
<1>4. \A k \in 1..d : k \in Nat /\ k < e /\ k # e /\ k - 1 \in Nat /\ k - 1 # e
  BY <1>2
<1>5. \A k \in 1..e : k \in 1..d \/ k = e
  BY <1>2
<1>6. \A k \in 1..d : more[k] = st[k]
  BY <1>3, <1>4
<1>7. \A k \in 1..e : more[k] \in 1..(j + 1 - 1) /\ C[more[k]].name = "named_block_begin"
  <2>1. ASSUME NEW k \in 1..d
        PROVE  more[k] \in 1..(j + 1 - 1) /\ C[more[k]].name = "named_block_begin"
    <3>1. st[k] \in 1..(j - 1) /\ C[st[k]].name = "named_block_begin" /\ more[k] = st[k]
      BY <1>1, <1>6
    <3>2. QED BY <3>1
  <2>2. j \in 1..(j + 1 - 1)
    OBVIOUS
  <2>3. QED BY <1>3, <1>5, <2>1, <2>2
<1>8. ASSUME NEW k \in 1..e, NEW l \in 1..e, k < l PROVE more[k] < more[l]
  <2>1. k \in 1..d
    BY <1>2, <1>8
  <2>2. CASE l \in 1..d
    BY <1>1, <1>6, <1>8, <2>1, <2>2
  <2>3. CASE l = e
    <3>1. st[k] \in 1..(j - 1)
      BY <1>1, <2>1
    <3>2. more[k] = st[k] /\ more[l] = j
      BY <1>3, <1>6, <2>1, <2>3
    <3>3. QED BY <3>1, <3>2
  <2>4. QED BY <1>5, <2>2, <2>3
<1>9. ASSUME NEW k \in 1..e PROVE par[more[k]] = IF k = 1 THEN 0 ELSE more[k - 1]
  <2>1. CASE k \in 1..d
    <3>1. par[st[k]] = IF k = 1 THEN 0 ELSE st[k - 1]
      BY <1>1, <2>1
    <3>2. more[k] = st[k] /\ more[k - 1] = st[k - 1]
      BY <1>3, <1>4, <2>1
    <3>3. QED BY <3>1, <3>2
  <2>2. CASE k = e
    <3>1. par[more[k]] = par[j] /\ k - 1 = d /\ (d = 0 <=> k = 1)
      BY <1>2, <1>3, <2>2
    <3>2. d # 0 => more[d] = st[d]
      BY <1>6
    <3>3. QED BY <1>1, <3>1, <3>2
  <2>3. QED BY <1>5, <2>1, <2>2
<1>10. Chain(C, par, more, e, j + 1)
  BY <1>2, <1>3, <1>7, <1>8, <1>9 DEF Chain
<1>11. QED BY <1>3, <1>6, <1>10 DEF more, e

\* ... and when it ends
LEMMA ChainPopped ==
  ASSUME NEW C, NEW par, NEW st, NEW d \in Nat, d >= 1, NEW j \in Nat, j >= 1,
         Chain(C, par, st, d, j), par[j + 1] = par[st[d]]
  PROVE  Chain(C, par, st, d - 1, j + 1)
<1>1. /\ st \in [Nat -> Nat]
      /\ \A k \in 1..d : st[k] \in 1..(j - 1) /\ C[st[k]].name = "named_block_begin"
      /\ \A k, l \in 1..d : k < l => st[k] < st[l]
      /\ \A k \in 1..d : par[st[k]] = IF k = 1 THEN 0 ELSE st[k - 1]
  BY DEF Chain
<1>2. /\ \A k \in 1..(d - 1) : k \in 1..d
      /\ \A i \in 1..(j - 1) : i \in 1..(j + 1 - 1)
      /\ d \in 1..d /\ (d = 1 <=> d - 1 = 0)
  OBVIOUS
<1>3. par[j + 1] = IF d - 1 = 0 THEN 0 ELSE st[d - 1]
  BY <1>1, <1>2
<1>4. \A k \in 1..(d - 1) :
        st[k] \in 1..(j + 1 - 1) /\ C[st[k]].name = "named_block_begin"
  BY <1>1, <1>2
<1>5. \A k \in 1..(d - 1) : par[st[k]] = IF k = 1 THEN 0 ELSE st[k - 1]
  BY <1>1, <1>2
<1>6. \A k, l \in 1..(d - 1) : k < l => st[k] < st[l]
  BY <1>1, <1>2
<1>7. QED BY <1>1, <1>3, <1>4, <1>5, <1>6 DEF Chain

\* ... when a block begins, and is announced to end where it did
LEMMA ReadingBegin ==
  ASSUME NEW C, NEW bits, NEW pos, NEW par, NEW end, NEW st, NEW j \in 1..Len(C),
         NEW limit, NEW stack, Reading(C, bits, pos, par, end, st, j, limit, stack),
         C[j].name = "named_block_begin",
         NEW entry, entry.bitpos_at_enter = pos[j + 1], entry.bitlimit_at_enter = limit
  PROVE  /\ BeginAt(C, bits, pos, par, end, j)
         /\ LengthAt(C, bits, pos, end, j)
         /\ pos[j] \in Nat /\ limit \in Nat /\ pos[j + 1] <= limit
         /\ pos[end[j]] <= limit
         /\ \E st2 : Reading(C, bits, pos, par, end, st2, j + 1, pos[end[j]],
                             Append(stack, entry))
<1>1. C[j].name # "named_block_end"
  OBVIOUS
<1> DEFINE n == C[j].field
           d == Len(stack)
           last == end[j]
           more == [st EXCEPT ![d + 1] = j]
           new == Append(stack, entry)
<1>2. /\ Traced(C, bits, pos, par, end)
      /\ limit \in Nat /\ pos[j] \in Nat
      /\ d \in Nat
      /\ pos[j + 1] <= limit
      /\ par[j] # 0 => /\ end[par[j]] \in j..Len(C)
                       /\ limit = pos[end[par[j]]]
  <2>1. /\ Traced(C, bits, pos, par, end)
        /\ limit \in Nat /\ pos[j] \in Nat
        /\ d \in Nat
        /\ pos[j + 1] <= limit
        /\ Innermost(C, bits, pos, par, end, st, j, limit, stack)
    BY <1>1, ReadingFacts
  <2>2. QED BY <2>1 DEF Innermost
<1>3. /\ Len(C) \in Nat /\ j \in Nat /\ j >= 1
      /\ \A i \in Nat : pos[i] \in Nat /\ par[i] \in Nat /\ end[i] \in Nat
      /\ BeginAt(C, bits, pos, par, end, j)
      /\ \A i, k \in 1..(Len(C) + 1) : i <= k => pos[i] <= pos[k]
  <2>1. Len(C) \in Nat
    BY <1>2, TraceFacts
  <2>2. j \in Nat /\ j >= 1
    BY <2>1
  <2>3. \A i, k \in 1..(Len(C) + 1) : i <= k => pos[i] <= pos[k]
    BY <1>2 DEF Traced
  <2>4. QED BY <1>2, <2>1, <2>2, <2>3, TraceFacts
<1>4. /\ n \in LengthBits /\ C[j].gave = 0 /\ pos[j + 1] = pos[j] + n
      /\ Aligned(pos[j + 1]) /\ par[j + 1] = j
      /\ par[j] # 0 /\ end[par[j]] # 0 => last # 0 /\ last < end[par[j]]
  BY <1>3 DEF BeginAt
<1>5. /\ last \in (j + 1)..Len(C)
      /\ C[last].gave \in 0..(2^n - 1)
      /\ pos[last] = pos[j + 1] + C[last].gave * ByteBits
      /\ ~Spans(pos[j], n)
      /\ Holds(bits, pos[j], n, C[last].gave)
  <2>1. last # 0
    BY DEF Reading
  <2>2. QED BY <1>3, <2>1 DEF BeginAt, LengthAt
\* it ends before the block around it does
<1>6. pos[last] <= limit
  <2>1. last \in 1..(Len(C) + 1) /\ last <= Len(C) + 1 /\ Len(C) + 1 \in 1..(Len(C) + 1)
    BY <1>3, <1>5
  <2>2. CASE par[j] = 0
    <3>1. d = 0 /\ pos[Len(C) + 1] <= LimitIn(limit, stack, 0) /\ LimitIn(limit, stack, 0) \in Nat
      <4>1. ASSUME d # 0 PROVE FALSE
        <5>1. d \in 1..d
          BY <1>2, <4>1
        <5>2. par[j] = st[d] /\ st[d] \in 1..(j - 1)
          BY <4>1, <5>1 DEF Reading, Chain
        <5>3. QED BY <2>2, <5>2
      <4>2. QED BY <4>1 DEF Reading
    <3>2. limit = LimitIn(limit, stack, 0)
      BY <3>1 DEF LimitIn
    <3> DEFINE b == Len(C) + 1
    <3>3. last \in 1..b /\ b \in 1..b /\ last <= b /\ last \in Nat /\ b \in Nat
      BY <1>3, <2>1
    <3>4. \A i, k \in 1..b : i <= k => pos[i] <= pos[k]
      BY <1>3
    <3> HIDE DEF b, last
    <3>5. pos[last] <= pos[b] /\ pos[last] \in Nat /\ pos[b] \in Nat
      BY <1>3, <3>3, <3>4
    <3>6. pos[b] <= limit
      BY <3>1, <3>2 DEF b
    <3>7. QED BY <1>2, <3>5, <3>6
  <2>3. CASE par[j] # 0
    <3> DEFINE o == end[par[j]]
    <3>1. o # 0 /\ last < o /\ o \in 1..(Len(C) + 1)
      BY <1>2, <1>3, <1>4, <2>3
    <3>2. last <= o
      BY <1>3, <1>5, <3>1
    <3>3. limit = pos[o]
      BY <1>2, <2>3
    <3> HIDE DEF o, last
    <3>4. QED BY <1>3, <2>1, <3>1, <3>2, <3>3
  <2>4. QED BY <2>2, <2>3
<1> HIDE DEF n, last
<1>7. /\ \E U : new \in Seq(U)
      /\ Len(new) = d + 1
      /\ \A i \in 1..d : new[i] = stack[i]
      /\ \A i \in 1..(d + 1) : i = d + 1 => new[i] = entry
  <2>1. PICK U : stack \in Seq(U)
    BY DEF Reading
  <2>2. QED BY <2>1, PushedAny
<1>8. /\ Chain(C, par, more, d + 1, j + 1)
      /\ \A k \in 1..d : more[k] = st[k]
      /\ more[d + 1] = j
  <2>1. Chain(C, par, st, d, j)
    BY DEF Reading
  <2>2. d \in Nat /\ j \in Nat /\ j >= 1 /\ C[j].name = "named_block_begin" /\ par[j + 1] = j
    BY <1>2, <1>3, <1>4
  <2> HIDE DEF d
  <2>3. QED BY <2>1, <2>2, ChainPushed
<1> HIDE DEF more, d, new
<1>9. PICK st2 : st2 = more
  OBVIOUS
<1>10. \A k \in 0..d : LimitIn(pos[last], new, k) = LimitIn(limit, stack, k)
  <2>1. \A k \in 0..(d - 1) : LimitIn(pos[last], new, k) = LimitIn(limit, stack, k)
    <3>1. \A k \in 0..(d - 1) : k # d /\ k # d + 1 /\ k + 1 \in 1..d
      BY <1>2
    <3>2. QED BY <1>7, <3>1 DEF LimitIn, d
  <2>2. \A k \in 0..d : k = d => LimitIn(pos[last], new, k) = LimitIn(limit, stack, k)
    <3>1. d # d + 1 /\ d + 1 \in 1..(d + 1)
      BY <1>2
    <3>2. new[d + 1] = entry
      BY <1>7, <3>1
    <3>3. \A k \in 0..d : k = d => LimitIn(pos[last], new, k) = limit /\ LimitIn(limit, stack, k) = limit
      BY <1>7, <3>1, <3>2 DEF LimitIn, d
    <3>4. QED BY <3>3
  <2>3. \A k \in 0..d : k \in 0..(d - 1) \/ k = d
    BY <1>2
  <2>4. QED BY <2>1, <2>2, <2>3
<1>11. ASSUME NEW k \in 1..(d + 1)
       PROVE  /\ new[k].bitpos_at_enter = pos[more[k] + 1]
              /\ LimitIn(pos[last], new, k) = pos[end[more[k]]]
  <2>1. CASE k \in 1..d
    <3>1. /\ stack[k].bitpos_at_enter = pos[st[k] + 1]
          /\ LimitIn(limit, stack, k) = pos[end[st[k]]]
      BY <2>1 DEF Reading, d
    <3>2. LimitIn(pos[last], new, k) = LimitIn(limit, stack, k)
      BY <1>10, <2>1
    <3>3. QED BY <1>7, <1>8, <2>1, <3>1, <3>2
  <2>2. CASE k = d + 1
    <3>1. new[k].bitpos_at_enter = pos[j + 1]
      BY <1>7, <2>2
    <3>2. LimitIn(pos[last], new, k) = pos[last]
      BY <1>7, <2>2 DEF LimitIn
    <3>3. QED BY <1>8, <2>2, <3>1, <3>2 DEF last
  <2>3. QED BY <1>2, <2>1, <2>2
<1>12. LimitIn(pos[last], new, 0) = LimitIn(limit, stack, 0)
  <2>1. 0 \in 0..d
    BY <1>2
  <2>2. \A k \in 0..d : k = 0 => LimitIn(pos[last], new, k) = LimitIn(limit, stack, 0)
    BY <1>10
  <2>3. QED BY <1>2, <1>7, <1>10, <2>1 DEF LimitIn, d
<1>13. Reading(C, bits, pos, par, end, st2, j + 1, pos[last], new)
  <2>1. /\ Traced(C, bits, pos, par, end)
        /\ \A i \in 1..Len(C) : C[i].name = "named_block_begin" => end[i] # 0
        /\ LimitIn(pos[last], new, 0) \in Nat
        /\ pos[Len(C) + 1] <= LimitIn(pos[last], new, 0)
    BY <1>2, <1>12 DEF Reading
  <2>2. Chain(C, par, st2, Len(new), j + 1)
    BY <1>7, <1>8, <1>9
  <2>3. \A k \in 1..Len(new) :
          /\ new[k].bitpos_at_enter = pos[st2[k] + 1]
          /\ LimitIn(pos[last], new, k) = pos[end[st2[k]]]
    BY <1>7, <1>11, <1>9
  <2>4. \E U : new \in Seq(U)
    BY <1>7
  <2>5. QED BY <2>1, <2>2, <2>3, <2>4 DEF Reading
<1>14. LengthAt(C, bits, pos, end, j)
  <2>1. last # 0
    BY DEF Reading, last
  <2>2. QED BY <1>3, <2>1 DEF BeginAt, last
<1>15. QED BY <1>2, <1>3, <1>6, <1>13, <1>14 DEF last, new

\* a length is read back as it was written, and the block is taken to end where
\* it did
LEMMA RepeatBegin ==
  ASSUME NEW C, NEW pos, NEW par, NEW end, NEW st, NEW j \in 1..Len(C),
         Repeating(C, pos, par, end, st, j), C[j].name = "named_block_begin",
         ~in_thrown, ~thrown,
         I!NamedBlockBegin(C[j].field), UNCHANGED bitpos
  PROVE  /\ ~in_thrown'
         /\ C[j].gave = 0
         /\ \E st2 : Repeating(C, pos, par, end, st2, j + 1)'
<1> DEFINE n == C[j].field
           last == end[j]
<1>1. /\ in_bitpos = pos[j] /\ pos[Len(C) + 1] = bitpos
      /\ Reading(C, message, pos, par, end, st, j, in_bitlimit, in_scope_stack)
  BY DEF Repeating
<1>2. PICK entry : entry = [bitpos_at_enter |-> pos[j + 1], bitlimit_at_enter |-> in_bitlimit]
  OBVIOUS
<1>3. /\ BeginAt(C, message, pos, par, end, j)
      /\ LengthAt(C, message, pos, end, j)
      /\ pos[j] \in Nat /\ in_bitlimit \in Nat /\ pos[j + 1] <= in_bitlimit
      /\ pos[last] <= in_bitlimit
      /\ \E st2 : Reading(C, message, pos, par, end, st2, j + 1, pos[last],
                          Append(in_scope_stack, entry))
  <2>1. entry.bitpos_at_enter = pos[j + 1] /\ entry.bitlimit_at_enter = in_bitlimit
    BY <1>2
  <2>2. QED BY <1>1, <2>1, ReadingBegin
<1>4. /\ n \in LengthBits /\ C[j].gave = 0 /\ pos[j + 1] = pos[j] + n
      /\ Aligned(pos[j + 1])
      /\ C[last].gave \in 0..(2^n - 1)
      /\ pos[last] = pos[j + 1] + C[last].gave * ByteBits
      /\ ~Spans(pos[j], n)
      /\ Holds(message, pos[j], n, C[last].gave)
  BY <1>3 DEF BeginAt, LengthAt
<1>5. n \in 1..(4 * ByteBits)
  BY <1>4, OutAssumption
<1> HIDE DEF n, last
<1>6. ~I!RefuseRead(n)
  BY <1>1, <1>3, <1>4 DEF I!RefuseRead, I!Readable
<1>7. ASSUME NEW length \in 0..(2^n - 1), I!Read(4 * ByteBits, n, length)
      PROVE  length = C[last].gave /\ in_bitpos' = pos[j + 1] /\ I!HasBlock(in_bitpos', length)
  <2>1. I!Holds(message, in_bitpos, n, length) /\ in_bitpos' = in_bitpos + n
    BY <1>1, <1>4, <1>7, ReadNames DEF I!Read
  <2>2. Holds(message, pos[j], n, length)
    BY <1>1, <2>1, ReadNames
  <2>3. length = C[last].gave
    BY <1>3, <1>4, <1>5, <1>7, <2>2, ReadOnce
  <2>4. in_bitpos' = pos[j + 1]
    BY <1>1, <1>4, <2>1
  <2>5. QED BY <1>3, <1>4, <2>3, <2>4, ReadNames DEF I!HasBlock
<1>8. ~I!RefuseBegin(n)
  BY <1>7 DEF I!RefuseBegin
<1>9. I!BeginBlock(n)
  BY <1>6, <1>8 DEF I!NamedBlockBegin, n
<1>10. PICK length \in 0..(2^n - 1) :
         /\ I!Read(4 * ByteBits, n, length)
         /\ in_bitlimit' = in_bitpos' + length * ByteBits
         /\ in_scope_stack' = Append(in_scope_stack, [bitpos_at_enter |-> in_bitpos',
                                                      bitlimit_at_enter |-> in_bitlimit])
         /\ UNCHANGED <<message, in_thrown, in_returned>>
  BY <1>9 DEF I!BeginBlock
<1>11. /\ in_bitpos' = pos[j + 1] /\ in_bitlimit' = pos[last] /\ message' = message
       /\ in_thrown' = in_thrown /\ in_scope_stack' = Append(in_scope_stack, entry)
  BY <1>2, <1>4, <1>7, <1>10
<1>12. PICK st2 : Reading(C, message, pos, par, end, st2, j + 1, pos[last],
                          Append(in_scope_stack, entry))
  BY <1>3
<1>13. Repeating(C, pos, par, end, st2, j + 1)'
  BY <1>1, <1>11, <1>12 DEF Repeating
<1>14. QED BY <1>4, <1>11, <1>13

\* ... and when it ends
LEMMA ReadingEnd ==
  ASSUME NEW C, NEW bits, NEW pos, NEW par, NEW end, NEW st, NEW j \in 1..Len(C),
         NEW limit, NEW stack, Reading(C, bits, pos, par, end, st, j, limit, stack),
         C[j].name = "named_block_end"
  PROVE  /\ stack # <<>>
         /\ limit = pos[j] /\ pos[j] \in Nat /\ pos[j + 1] = pos[j]
         /\ C[j].gave \in Nat
         /\ stack[Len(stack)].bitpos_at_enter \in Nat
         /\ pos[j] = stack[Len(stack)].bitpos_at_enter + C[j].gave * ByteBits
         /\ Reading(C, bits, pos, par, end, st, j + 1,
                    stack[Len(stack)].bitlimit_at_enter, SubSeq(stack, 1, Len(stack) - 1))
<1> DEFINE d == Len(stack)
           top == par[j]
           gave == C[j].gave
           outer == SubSeq(stack, 1, d - 1)
           limit2 == stack[d].bitlimit_at_enter
<1>1. /\ Traced(C, bits, pos, par, end)
      /\ limit \in Nat
      /\ d \in Nat
      /\ top # 0 => /\ d >= 1 /\ top = st[d]
                    /\ limit = pos[end[top]]
                    /\ BeginAt(C, bits, pos, par, end, top)
                    /\ LengthAt(C, bits, pos, end, top)
  <2>1. /\ Traced(C, bits, pos, par, end)
        /\ limit \in Nat
        /\ d \in Nat
        /\ Innermost(C, bits, pos, par, end, st, j, limit, stack)
    BY ReadingFacts
  <2>2. QED BY <2>1 DEF Innermost
<1>2. /\ Len(C) \in Nat /\ j \in Nat /\ j >= 1
      /\ \A i \in Nat : pos[i] \in Nat /\ par[i] \in Nat /\ end[i] \in Nat
      /\ EndAt(C, pos, par, end, j)
  <2>1. Len(C) \in Nat
    BY <1>1, TraceFacts
  <2>2. j \in Nat /\ j >= 1
    BY <2>1
  <2>3. QED BY <1>1, <2>1, <2>2, TraceFacts
<1>3. /\ top # 0 /\ end[top] = j /\ par[j + 1] = par[top] /\ pos[j + 1] = pos[j]
  BY <1>2 DEF EndAt
<1>4. /\ limit = pos[j]
      /\ gave \in Nat /\ pos[j] = pos[top + 1] + gave * ByteBits
  <2>1. gave \in 0..(2^(C[top].field) - 1) /\ pos[j] = pos[top + 1] + gave * ByteBits
    BY <1>1, <1>3 DEF LengthAt
  <2>2. gave \in Nat
    <3> DEFINE p == 2^(C[top].field) - 1
    <3> HIDE DEF p, gave
    <3>1. gave \in 0..p
      BY <2>1 DEF p
    <3>2. QED BY <3>1
  <2>3. QED BY <1>1, <1>3, <2>1, <2>2
<1>5. pos[top + 1] \in Nat /\ pos[j] \in Nat
  <2>1. top \in Nat
    BY <1>2
  <2>2. top + 1 \in Nat
    BY <2>1
  <2>3. QED BY <1>2, <2>2
<1>6. d \in 1..d /\ stack # <<>> /\ stack[d].bitpos_at_enter = pos[top + 1]
  <2>1. d \in 1..d /\ d >= 1
    BY <1>1, <1>3
  <2>2. stack # <<>>
    BY <2>1
  <2>3. stack[d].bitpos_at_enter = pos[st[d] + 1]
    BY <2>1 DEF Reading
  <2>4. QED BY <1>1, <1>3, <2>1, <2>2, <2>3
<1> HIDE DEF gave, top
<1>7. /\ \E U : outer \in Seq(U)
      /\ Len(outer) = d - 1
      /\ \A i \in 1..(d - 1) : outer[i] = stack[i]
  <2>1. PICK U : stack \in Seq(U)
    BY DEF Reading
  <2>2. QED BY <1>6, <2>1, PoppedAny
<1>8. Chain(C, par, st, d - 1, j + 1)
  <2>1. Chain(C, par, st, d, j) /\ par[j + 1] = par[st[d]] /\ d >= 1
    BY <1>1, <1>3 DEF Reading
  <2> HIDE DEF d
  <2>2. QED BY <1>1, <1>2, <2>1, ChainPopped
<1> HIDE DEF d, outer, limit2
<1>9. \A k \in 0..(d - 1) : LimitIn(limit2, outer, k) = LimitIn(limit, stack, k)
  <2>1. \A k \in 0..(d - 1) : k # d - 1 => LimitIn(limit2, outer, k) = LimitIn(limit, stack, k)
    <3>1. \A k \in 0..(d - 1) : k # d - 1 => k # d /\ k + 1 \in 1..(d - 1)
      BY <1>1
    <3>2. QED BY <1>7, <3>1 DEF LimitIn, d
  <2>2. \A k \in 0..(d - 1) : k = d - 1 => LimitIn(limit2, outer, k) = LimitIn(limit, stack, k)
    <3>1. \A k \in 0..(d - 1) : k = d - 1 => k # d /\ k + 1 = d
      BY <1>1
    <3>2. \A k \in 0..(d - 1) : k = d - 1 => LimitIn(limit2, outer, k) = limit2
      BY <1>7 DEF LimitIn
    <3>3. \A k \in 0..(d - 1) : k = d - 1 =>
            LimitIn(limit, stack, k) = stack[d].bitlimit_at_enter
      BY <3>1 DEF LimitIn, d
    <3>4. limit2 = stack[d].bitlimit_at_enter
      BY DEF limit2
    <3>5. QED BY <3>2, <3>3, <3>4
  <2>3. QED BY <2>1, <2>2
<1>10. Reading(C, bits, pos, par, end, st, j + 1, limit2, outer)
  <2>1. /\ Traced(C, bits, pos, par, end)
        /\ \A i \in 1..Len(C) : C[i].name = "named_block_begin" => end[i] # 0
    BY <1>1 DEF Reading
  <2>2. LimitIn(limit2, outer, 0) = LimitIn(limit, stack, 0)
    <3>1. 0 \in 0..(d - 1)
      BY <1>1, <1>6
    <3>2. QED BY <1>9, <3>1
  <2>3. LimitIn(limit2, outer, 0) \in Nat /\ pos[Len(C) + 1] <= LimitIn(limit2, outer, 0)
    BY <2>2 DEF Reading
  <2>4. \A k \in 1..(d - 1) :
          /\ outer[k].bitpos_at_enter = pos[st[k] + 1]
          /\ LimitIn(limit2, outer, k) = pos[end[st[k]]]
    <3>1. \A k \in 1..(d - 1) : k \in 1..d /\ k \in 0..(d - 1)
      BY <1>1
    <3>2. \A k \in 1..d : /\ stack[k].bitpos_at_enter = pos[st[k] + 1]
                          /\ LimitIn(limit, stack, k) = pos[end[st[k]]]
      BY DEF Reading, d
    <3>3. QED BY <1>7, <1>9, <3>1, <3>2
  <2>5. QED BY <1>7, <1>8, <2>1, <2>3, <2>4 DEF Reading
<1>11. QED BY <1>3, <1>4, <1>5, <1>6, <1>10 DEF d, outer, limit2, gave

\* a block ends where the length said, and gives the length it was given
LEMMA RepeatEnd ==
  ASSUME NEW C, NEW pos, NEW par, NEW end, NEW st, NEW j \in 1..Len(C),
         Repeating(C, pos, par, end, st, j), C[j].name = "named_block_end",
         ~in_thrown, ~thrown,
         I!NamedBlockEnd, UNCHANGED bitpos
  PROVE  /\ ~in_thrown'
         /\ in_returned' = C[j].gave
         /\ Repeating(C, pos, par, end, st, j + 1)'
<1> DEFINE d == Len(in_scope_stack)
           gave == C[j].gave
           from == in_scope_stack[d].bitpos_at_enter
<1>1. /\ in_bitpos = pos[j] /\ pos[Len(C) + 1] = bitpos
      /\ Reading(C, message, pos, par, end, st, j, in_bitlimit, in_scope_stack)
  BY DEF Repeating
<1>2. /\ in_scope_stack # <<>> /\ in_bitlimit = pos[j] /\ pos[j] \in Nat /\ pos[j + 1] = pos[j]
      /\ gave \in Nat /\ from \in Nat /\ pos[j] = from + gave * ByteBits
      /\ Reading(C, message, pos, par, end, st, j + 1,
                 in_scope_stack[d].bitlimit_at_enter, SubSeq(in_scope_stack, 1, d - 1))
  BY <1>1, ReadingEnd
<1> HIDE DEF gave, d
<1>3. I!BlockBits = gave * ByteBits
  <2> DEFINE held == gave * ByteBits
  <2>1. held \in Nat
    BY <1>2, BytesInBits
  <2>2. I!BlockBits = pos[j] - from
    BY <1>1 DEF I!BlockBits, I!Top, d
  <2>3. pos[j] = from + held /\ from \in Nat
    BY <1>2
  <2> HIDE DEF held, from
  <2>4. I!BlockBits = held
    BY <2>1, <2>2, <2>3
  <2>5. QED BY <2>4 DEF held
<1>4. (gave * ByteBits) % ByteBits = 0 /\ (gave * ByteBits) \div ByteBits = gave
  BY <1>2, ByteAssumption
<1>5. ~I!RefuseEnd
  BY <1>1, <1>2, <1>3, <1>4 DEF I!RefuseEnd, I!BlockDone, I!Aligned
<1>6. I!EndBlock
  BY <1>5 DEF I!NamedBlockEnd
<1>7. /\ in_returned' = gave /\ in_bitlimit' = in_scope_stack[d].bitlimit_at_enter
      /\ in_scope_stack' = SubSeq(in_scope_stack, 1, d - 1)
      /\ in_bitpos' = pos[j + 1] /\ message' = message /\ in_thrown' = in_thrown
  BY <1>1, <1>2, <1>3, <1>4, <1>6 DEF I!EndBlock, I!Outer, I!Top, d
<1>8. Repeating(C, pos, par, end, st, j + 1)'
  BY <1>1, <1>2, <1>7 DEF Repeating
<1>9. QED BY <1>7, <1>8 DEF gave

\* a call is repeated
LEMMA RepeatStep ==
  ASSUME NumbersFit, RepeatInv, RepeatBinary
  PROVE  RepeatInv'
<1>0. PICK j : j = Len(results) + 1
  OBVIOUS
<1>1. /\ phase = "binary" /\ UNCHANGED <<vars, calls, phase>>
      /\ ~thrown /\ ~in_thrown
      /\ \E U : results \in Seq(U)
      /\ j <= Len(calls.binary)
      /\ \A i \in 1..Len(results) : results[i] = calls.binary[i].gave
      /\ \E pos, par, end, st : Repeating(calls.binary, pos, par, end, st, j)
  <2>1. /\ phase = "binary" /\ UNCHANGED <<vars, calls, phase>>
        /\ Len(results) < Len(calls.binary)
    BY DEF RepeatBinary, Repeated, Pending
  <2>2. Len(results) \in Nat
    <3>1. PICK U : results \in Seq(U)
      BY <2>1 DEF RepeatInv
    <3>2. QED BY <3>1, LenProperties
  <2>3. Len(calls.binary) \in Nat
    <3>1. PICK C : C = calls.binary
      OBVIOUS
    <3>2. PICK pos, par, end, st : Repeating(C, pos, par, end, st, j)
      BY <1>0, <2>1, <3>1 DEF RepeatInv
    <3>3. Traced(C, message, pos, par, end)
      BY <3>2 DEF Repeating, Reading
    <3>4. QED BY <3>1, <3>3, TraceFacts
  <2>4. j <= Len(calls.binary)
    BY <1>0, <2>1, <2>2, <2>3
  <2>5. QED BY <1>0, <2>1, <2>4 DEF RepeatInv
<1>2. PICK C : C = calls.binary
  OBVIOUS
<1>3. PICK U : results \in Seq(U)
  BY <1>1
<1>4. PICK pos, par, end, st : Repeating(C, pos, par, end, st, j)
  BY <1>1, <1>2
<1>5. C = calls.binary' /\ UNCHANGED bitpos /\ UNCHANGED thrown /\ phase' = "binary"
  BY <1>1, <1>2 DEF vars
<1>6. j \in 1..Len(C) /\ Len(results) \in Nat
  <2>1. Len(results) \in Nat
    BY <1>3, LenProperties
  <2>2. Traced(C, message, pos, par, end)
    BY <1>4 DEF Repeating, Reading
  <2>3. Len(C) \in Nat
    BY <2>2, TraceFacts
  <2>4. QED BY <1>0, <1>1, <1>2, <2>1, <2>3
<1>7. /\ ~in_thrown'
      /\ results' = Append(results, C[j].gave)
      /\ \E st2 : Repeating(C, pos, par, end, st2, j + 1)'
  <2>1. CASE Pending("uint") /\ \/ I!Uint(PendingField) /\ Repeated(in_thrown', in_returned')
                                \/ I!UintReq(PendingField) /\ Repeated(in_thrown', PendingField.val)
    <3>1. C[j].name = "uint" /\ PendingField = C[j].field
      BY <1>0, <1>1, <1>2, <2>1 DEF Pending, PendingField
    <3>2. I!Uint(C[j].field) \/ I!UintReq(C[j].field)
      BY <2>1, <3>1
    <3>3. /\ ~in_thrown'
          /\ I!Uint(C[j].field) => in_returned' = C[j].gave
          /\ C[j].gave = C[j].field.val
          /\ Repeating(C, pos, par, end, st, j + 1)'
      BY <1>1, <1>4, <1>5, <1>6, <3>1, <3>2, RepeatNumber
    <3>4. results' = Append(results, C[j].gave)
      BY <2>1, <3>1, <3>3 DEF Repeated
    <3>5. QED BY <3>3, <3>4
  <2>2. CASE /\ Pending("named_block_begin")
             /\ I!NamedBlockBegin(PendingField)
             /\ Repeated(in_thrown', 0)
    <3>1. C[j].name = "named_block_begin" /\ PendingField = C[j].field
      BY <1>0, <1>1, <1>2, <2>2 DEF Pending, PendingField
    <3>2. /\ ~in_thrown' /\ C[j].gave = 0
          /\ \E st2 : Repeating(C, pos, par, end, st2, j + 1)'
      BY <1>1, <1>4, <1>5, <1>6, <2>2, <3>1, RepeatBegin
    <3>3. QED BY <2>2, <3>2 DEF Repeated
  <2>3. CASE /\ Pending("named_block_end")
             /\ I!NamedBlockEnd
             /\ Repeated(in_thrown', in_returned')
    <3>1. C[j].name = "named_block_end"
      BY <1>0, <1>1, <1>2, <2>3 DEF Pending
    <3>2. /\ ~in_thrown' /\ in_returned' = C[j].gave
          /\ Repeating(C, pos, par, end, st, j + 1)'
      BY <1>1, <1>4, <1>5, <1>6, <2>3, <3>1, RepeatEnd
    <3>3. QED BY <2>3, <3>2 DEF Repeated
  <2>4. QED BY <2>1, <2>2, <2>3 DEF RepeatBinary
<1>8. /\ \E S : results' \in Seq(S)
      /\ Len(results') = j
      /\ \A i \in 1..j : results'[i] = C[i].gave
  <2> DEFINE x == C[j].gave
             new == Append(results, x)
  <2>1. /\ \E S : new \in Seq(S)
        /\ Len(new) = j
        /\ \A i \in 1..Len(results) : new[i] = results[i]
        /\ \A i \in 1..j : i = j => new[i] = x
    <3> HIDE DEF x
    <3>1. QED BY <1>0, <1>3, PushedAny
  <2>2. results' = new
    BY <1>7
  <2>3. \A i \in 1..j : i \in 1..Len(results) \/ i = j
    BY <1>0, <1>6
  <2> HIDE DEF new
  <2>4. \A i \in 1..j : new[i] = C[i].gave
    BY <1>1, <1>2, <2>1, <2>3
  <2>5. QED BY <2>1, <2>2, <2>4
<1>9. PICK st2 : Repeating(C, pos, par, end, st2, j + 1)'
  BY <1>7
<1>10. Repeating(calls.binary, pos, par, end, st2, Len(results) + 1)'
  <2>1. (Len(results) + 1)' = j + 1 /\ (calls.binary)' = C
    BY <1>5, <1>8
  <2>2. QED BY <1>9, <2>1 DEF Repeating
<1>11. QED BY <1>1, <1>2, <1>5, <1>6, <1>7, <1>8, <1>10 DEF RepeatInv

----------------------------------------------------------------------------
(* the message grows by a call *)

LEMMA PutHolds ==
  ASSUME DataInv, NEW pos \in Nat, NEW size \in Nat, NEW val, pos + size <= BufferBits
  PROVE  Holds(Put(data, pos, size, val), pos, size, val)
<1>1. BufferBits \in Nat
  BY Sizes
<1>2. \A i \in pos..(pos + size - 1) : i \in 0..(BufferBits - 1)
  BY <1>1
<1>3. QED BY <1>2 DEF Put, Holds, DataInv

\* the bits of the buffer in a range are the same
Kept(bits, bits2, from, upto) ==
  \A i \in Nat : from <= i /\ i < upto /\ i < BufferBits => bits2[i] = bits[i]

\* the block that call j is made in has not ended, or has ended now that no
\* block is open which j may have begun
BlockKept(C, par, end, end2, j) ==
  par[j] # 0 => \/ end2[par[j]] = end[par[j]]
                \/ /\ end[par[j]] = 0
                   /\ end2[par[j]] = Len(C) + 1
                   /\ C[j].name = "named_block_begin" => end[j] # 0

\* D is C and one call more
Longer(C, D, pos, pos2, par, par2) ==
  /\ \E U : D \in Seq(U)
  /\ Len(D) = Len(C) + 1
  /\ \A i \in 1..Len(C) : D[i] = C[i]
  /\ pos2 \in [Nat -> Nat] /\ par2 \in [Nat -> Nat]
  /\ \A i \in 1..(Len(C) + 1) : pos2[i] = pos[i] /\ par2[i] = par[i]
  /\ pos2[Len(C) + 1] <= pos2[Len(C) + 2]

\* what an earlier call has left is still there, if its bits are
LEMMA CallKept ==
  ASSUME NEW C, NEW D, NEW bits, NEW bits2, NEW pos, NEW pos2, NEW par, NEW par2,
         NEW end, NEW end2, Traced(C, bits, pos, par, end),
         Longer(C, D, pos, pos2, par, par2), end2 \in [Nat -> Nat],
         NEW j \in 1..Len(C),
         Kept(bits, bits2, pos[j], pos[j + 1]),
         end2[j] = end[j], BlockKept(C, par, end, end2, j)
  PROVE  CallAt(D, bits2, pos2, par2, end2, j)
<1> DEFINE n == Len(C)
<1>9. \A i \in Nat : pos[i] \in Nat /\ par[i] \in Nat /\ end[i] \in Nat
  BY TraceFacts
<1>1. /\ n \in Nat /\ j \in Nat /\ par[j] \in Nat /\ end[j] \in Nat
      /\ CallAt(C, bits, pos, par, end, j)
      /\ BlockAround(C, par, end, j)
  <2>1. n \in Nat
    BY TraceFacts
  <2>2. j \in Nat /\ j \in 1..(n + 1)
    BY <2>1
  <2>3. CallAt(C, bits, pos, par, end, j) /\ BlockAround(C, par, end, j)
    BY <2>2 DEF Traced
  <2>4. QED BY <1>9, <2>1, <2>2, <2>3
<1>2. /\ Len(D) = n + 1 /\ D[j] = C[j]
      /\ \A i \in 1..n : D[i] = C[i]
      /\ \A i \in 1..(n + 1) : pos2[i] = pos[i] /\ par2[i] = par[i]
  BY DEF Longer
<1> DEFINE m == j + 1
           o == par[j]
<1>3. /\ pos2[j] = pos[j] /\ pos2[m] = pos[m] /\ par2[j] = o /\ par2[m] = par[m]
      /\ m \in 1..(n + 1) /\ pos[j] \in Nat /\ pos[m] \in Nat
      /\ o # 0 => o \in 1..n /\ par2[o] = par[o]
  <2>1. j \in 1..(n + 1) /\ m \in 1..(n + 1)
    BY <1>1
  <2>2. o # 0 => o \in 1..n /\ o \in 1..(n + 1)
    <3>1. (o # 0 => o < j) /\ o \in Nat /\ n \in Nat
      BY <1>1 DEF BlockAround
    <3> HIDE DEF o, n
    <3>2. j \in 1..n
      BY DEF n
    <3>3. QED BY <3>1, <3>2
  <2>3. m \in Nat
    BY <1>1
  <2> HIDE DEF m, o
  <2>4. /\ pos2[j] = pos[j] /\ pos2[m] = pos[m] /\ par2[j] = par[j] /\ par2[m] = par[m]
        /\ o # 0 => par2[o] = par[o]
    BY <1>2, <2>1, <2>2
  <2>5. QED BY <1>1, <1>9, <2>1, <2>2, <2>3, <2>4 DEF o
<1>4. ASSUME NEW size \in Nat, NEW val, pos[m] = pos[j] + size, pos[m] <= BufferBits,
             Holds(bits, pos[j], size, val)
      PROVE  Holds(bits2, pos[j], size, val)
  <2>1. BufferBits \in Nat
    BY Sizes
  <2>2. ASSUME NEW i \in pos[j]..(pos[j] + size - 1) PROVE bits2[i] = bits[i]
    <3>1. i \in Nat /\ pos[j] <= i /\ i < pos[m] /\ i < BufferBits
      <4> DEFINE p == pos[j]
                 q == pos[m]
      <4>1. p \in Nat /\ q \in Nat /\ q = p + size /\ q <= BufferBits
        BY <1>3, <1>4
      <4> HIDE DEF p, q
      <4>2. i \in p..(p + size - 1)
        BY DEF p
      <4>3. i \in Nat /\ p <= i /\ i < q /\ i < BufferBits
        BY <2>1, <4>1, <4>2
      <4>4. QED BY <4>3 DEF p, q
    <3>2. QED BY <3>1 DEF Kept, m
  <2>3. QED BY <1>4, <2>2 DEF Holds
<1> HIDE DEF m, o
<1>5. CASE NumberAt(C, bits, pos, par, j)
  <2> DEFINE f == C[j].field
  <2>1. /\ C[j].name = "uint" /\ f \in Fields /\ f.size <= f.w
        /\ f.w > ByteBits => ~Spans(pos[j], f.size)
        /\ C[j].gave = f.val /\ pos[m] = pos[j] + f.size /\ pos[m] <= BufferBits
        /\ Holds(bits, pos[j], f.size, f.val) /\ par[m] = par[j]
    BY <1>5 DEF NumberAt, m
  <2>2. f.size \in Nat
    BY <2>1, Sizes
  <2> HIDE DEF f
  <2>3. Holds(bits2, pos[j], f.size, f.val)
    BY <1>4, <2>1, <2>2
  <2>4. NumberAt(D, bits2, pos2, par2, j)
    BY <1>2, <1>3, <2>1, <2>3 DEF NumberAt, f, m, o
  <2>5. QED BY <2>4 DEF CallAt
<1>6. CASE BeginAt(C, bits, pos, par, end, j)
  <2> DEFINE s == C[j].field
             last == end[j]
  <2>1. /\ C[j].name = "named_block_begin" /\ s \in LengthBits /\ C[j].gave = 0
        /\ pos[m] = pos[j] + s /\ Aligned(pos[m]) /\ par[m] = j
        /\ last # 0 => LengthAt(C, bits, pos, end, j)
        /\ o # 0 /\ end[o] # 0 => last # 0 /\ last < end[o]
    BY <1>6 DEF BeginAt, m, o
  <2>2. s \in Nat
    BY <2>1, Sizes
  <2>3. ASSUME last # 0 PROVE LengthAt(D, bits2, pos2, end2, j) /\ last <= n
    <3>1. /\ last \in m..n
          /\ C[last].name = "named_block_end"
          /\ C[last].gave \in 0..(2^s - 1)
          /\ pos[last] = pos[m] + C[last].gave * ByteBits
          /\ pos[m] <= BufferBits
          /\ ~Spans(pos[j], s)
          /\ Holds(bits, pos[j], s, C[last].gave)
      BY <2>1, <2>3 DEF LengthAt, m
    <3>2. last \in 1..n /\ last \in 1..(n + 1) /\ last \in m..(n + 1) /\ last <= n
      <4>1. n \in Nat /\ m \in 1..(n + 1) /\ last \in m..n
        BY <1>1, <1>3, <3>1
      <4> HIDE DEF n, last
      <4>2. QED BY <4>1
    <3>3. Holds(bits2, pos[j], s, C[last].gave)
      BY <1>4, <2>1, <2>2, <3>1
    <3>4. D[last] = C[last] /\ pos2[last] = pos[last]
      BY <1>2, <3>2
    <3> HIDE DEF s, last
    <3>5. LengthAt(D, bits2, pos2, end2, j)
      BY <1>2, <1>3, <3>1, <3>2, <3>3, <3>4 DEF LengthAt, s, last, m
    <3>6. QED BY <3>2, <3>5
  <2>4. o # 0 /\ end2[o] # 0 => last # 0 /\ last < end2[o]
    <3>1. last # 0 => last \in Nat /\ last < n + 1
      <4>1. n \in Nat /\ last \in Nat /\ (last # 0 => last <= n)
        BY <1>1, <2>3
      <4> HIDE DEF n, last
      <4>2. QED BY <4>1
    <3>2. o # 0 => \/ end2[o] = end[o]
                   \/ end[o] = 0 /\ end2[o] = n + 1 /\ last # 0
      BY <2>1 DEF o, BlockKept
    <3> HIDE DEF last, n
    <3>3. QED BY <2>1, <3>1, <3>2
  <2> HIDE DEF s, last, n
  <2>5. end2[j] = last
    BY DEF last
  <2>6. BeginAt(D, bits2, pos2, par2, end2, j)
    BY <1>2, <1>3, <2>1, <2>3, <2>4, <2>5 DEF BeginAt, s, m
  <2>7. QED BY <2>6 DEF CallAt
<1>7. CASE EndAt(C, pos, par, end, j)
  <2>1. /\ C[j].name = "named_block_end" /\ o # 0 /\ end[o] = j
        /\ par[m] = par[o] /\ pos[m] = pos[j]
    BY <1>7 DEF EndAt, m, o
  <2>2. end2[o] = j
    <3>1. j # 0
      BY <1>1
    <3>2. QED BY <2>1, <3>1 DEF o, BlockKept
  <2>3. EndAt(D, pos2, par2, end2, j)
    BY <1>2, <1>3, <2>1, <2>2 DEF EndAt, m
  <2>4. QED BY <2>3 DEF CallAt
<1>8. QED BY <1>1, <1>5, <1>6, <1>7 DEF CallAt

\* the last call of D may have ended blocks that the calls of C have begun
EndsKept(C, end, end2) ==
  /\ end2 \in [Nat -> Nat]
  /\ \A j \in 1..Len(C) : end2[j] = end[j] \/ end2[j] = Len(C) + 1

CallsAt(C, bits, pos, par, end, upto) ==
  \A j \in 1..upto : CallAt(C, bits, pos, par, end, j)

\* a message that has grown by a call is traced, if all of its calls are
LEMMA TraceLonger ==
  ASSUME NEW C, NEW D, NEW bits, NEW bits2, NEW pos, NEW pos2, NEW par, NEW par2,
         NEW end, NEW end2, Traced(C, bits, pos, par, end),
         Longer(C, D, pos, pos2, par, par2), EndsKept(C, end, end2),
         CallsAt(D, bits2, pos2, par2, end2, Len(C)),
         CallAt(D, bits2, pos2, par2, end2, Len(C) + 1),
         BlockAround(D, par2, end2, Len(C) + 2)
  PROVE  Traced(D, bits2, pos2, par2, end2)
<1> DEFINE n == Len(C)
           m == n + 1
           x == n + 2
<1>1. /\ n \in Nat /\ m \in Nat /\ x \in Nat /\ Len(D) = m /\ Len(D) + 1 = x
      /\ \A j \in 1..m : j \in 1..n \/ j = m
      /\ \A j \in 1..x : j \in 1..m \/ j = x
      /\ m \in 1..m /\ 1 \in 1..m
      /\ \A j \in 1..m : j \in Nat /\ j <= m /\ j < x /\ j <= x
  <2>1. n \in Nat
    BY TraceFacts
  <2>2. Len(D) = n + 1
    BY DEF Longer
  <2> HIDE DEF n
  <2>3. QED BY <2>1, <2>2
<1>2. /\ \A i, j \in 1..m : i <= j => pos[i] <= pos[j]
      /\ \A j \in 1..m : BlockAround(C, par, end, j)
      /\ pos[1] = 0 /\ par[1] = 0
      /\ \A j \in Nat : pos[j] \in Nat /\ par[j] \in Nat
  BY TraceFacts DEF Traced
<1>3. /\ \A i \in 1..n : D[i] = C[i]
      /\ \A i \in 1..m : pos2[i] = pos[i] /\ par2[i] = par[i]
      /\ pos2[m] <= pos2[x] /\ pos2[m] \in Nat /\ pos2[x] \in Nat
  BY <1>1 DEF Longer
<1>4. \A j \in 1..Len(D) : CallAt(D, bits2, pos2, par2, end2, j)
  BY <1>1 DEF CallsAt
<1> HIDE DEF n, m, x
<1>5. ASSUME NEW j \in 1..m PROVE BlockAround(D, par2, end2, j)
  <2> DEFINE o == par[j]
  <2>1. /\ o # 0 => o < j /\ C[o].name = "named_block_begin" /\ (end[o] = 0 \/ end[o] >= j)
        /\ par2[j] = o /\ j \in Nat /\ j <= m /\ o \in Nat
    BY <1>1, <1>2, <1>3 DEF BlockAround
  <2> HIDE DEF o
  <2>2. o # 0 => o \in 1..n
    <3>1. n \in Nat
      BY <1>1
    <3>2. (o # 0 => o < j) /\ j \in Nat /\ j <= n + 1 /\ o \in Nat
      BY <2>1 DEF m
    <3>3. QED BY <3>1, <3>2
  <2>3. o # 0 => D[o] = C[o] /\ (end2[o] = end[o] \/ end2[o] = m)
    BY <1>3, <2>2 DEF n, m, EndsKept
  <2>4. o # 0 => end2[o] = 0 \/ end2[o] >= j
    <3>1. CASE o # 0 /\ end2[o] = m
      BY <1>1, <2>1, <3>1
    <3>2. CASE o # 0 /\ end2[o] = end[o]
      BY <2>1, <3>2
    <3>3. QED BY <2>3, <3>1, <3>2
  <2>5. QED BY <2>1, <2>3, <2>4 DEF BlockAround
<1>6. \A j \in 1..x : BlockAround(D, par2, end2, j)
  BY <1>1, <1>5 DEF x, n
<1>7. ASSUME NEW i \in 1..x, NEW j \in 1..x, i <= j PROVE pos2[i] <= pos2[j]
  <2>1. CASE j \in 1..m
    <3>1. i \in 1..m
      <4>1. i # x
        BY <1>1, <1>7, <2>1
      <4>2. QED BY <1>1, <4>1
    <3>2. QED BY <1>2, <1>3, <1>7, <2>1, <3>1
  <2>2. CASE j = x /\ i \in 1..m
    <3>1. pos[i] <= pos[m] /\ pos2[i] = pos[i] /\ pos2[m] = pos[m]
      BY <1>1, <1>2, <1>3, <2>2
    <3>2. pos[i] \in Nat /\ pos2[m] \in Nat /\ pos2[x] \in Nat /\ pos2[m] <= pos2[x]
      BY <1>1, <1>2, <1>3, <2>2
    <3>3. QED BY <2>2, <3>1, <3>2
  <2>3. CASE j = x /\ i = x
    <3>1. pos2[x] \in Nat
      BY <1>3
    <3>2. QED BY <2>3, <3>1
  <2>4. QED BY <1>1, <2>1, <2>2, <2>3
<1>8. pos2[1] = 0 /\ par2[1] = 0
  BY <1>1, <1>2, <1>3
<1>9. QED BY <1>1, <1>4, <1>6, <1>7, <1>8 DEF Traced, Longer, EndsKept, x

LEMMA ChainLonger ==
  ASSUME NEW C, NEW D, NEW pos, NEW pos2, NEW par, NEW par2, NEW st, NEW d \in Nat,
         Longer(C, D, pos, pos2, par, par2), Len(C) \in Nat,
         Chain(C, par, st, d, Len(C) + 1)
  PROVE  Chain(D, par2, st, d, Len(C) + 1)
<1> DEFINE n == Len(C)
           m == n + 1
<1>1. /\ n \in Nat /\ m - 1 = n /\ m \in 1..m /\ \A i \in 1..n : i \in 1..m
  OBVIOUS
<1>2. /\ \A i \in 1..n : D[i] = C[i]
      /\ \A i \in 1..m : par2[i] = par[i]
  BY DEF Longer
<1>3. /\ st \in [Nat -> Nat]
      /\ \A k \in 1..d : st[k] \in 1..n /\ C[st[k]].name = "named_block_begin"
      /\ \A k, l \in 1..d : k < l => st[k] < st[l]
      /\ \A k \in 1..d : par[st[k]] = IF k = 1 THEN 0 ELSE st[k - 1]
      /\ par[m] = IF d = 0 THEN 0 ELSE st[d]
  BY <1>1 DEF Chain
<1> HIDE DEF n, m
<1>4. \A k \in 1..d : D[st[k]].name = "named_block_begin"
  BY <1>2, <1>3
<1>5. \A k \in 1..d : par2[st[k]] = IF k = 1 THEN 0 ELSE st[k - 1]
  BY <1>1, <1>2, <1>3
<1>6. par2[m] = IF d = 0 THEN 0 ELSE st[d]
  BY <1>1, <1>2, <1>3
<1>7. Chain(D, par2, st, d, m)
  BY <1>1, <1>3, <1>4, <1>5, <1>6 DEF Chain
<1>8. QED BY <1>7 DEF m, n

\* D is C and this call, at the end of which the message is at bit p, in block q
Appended(C, call, D, pos, pos2, p, par, par2, q) ==
  /\ D = Append(C, call)
  /\ Longer(C, D, pos, pos2, par, par2)
  /\ D[Len(C) + 1] = call
  /\ pos2[Len(C) + 2] = p
  /\ par2[Len(C) + 2] = q

LEMMA CallAppended ==
  ASSUME NEW C, NEW bits, NEW pos, NEW par, NEW end, Traced(C, bits, pos, par, end),
         NEW call, NEW p \in Nat, NEW q \in Nat, pos[Len(C) + 1] <= p
  PROVE  \E D, pos2, par2 : Appended(C, call, D, pos, pos2, p, par, par2, q)
<1> DEFINE D == Append(C, call)
           x == Len(C) + 2
           m == Len(C) + 1
           pos2 == [pos EXCEPT ![x] = p]
           par2 == [par EXCEPT ![x] = q]
<1>1. /\ Len(C) \in Nat /\ x \in Nat /\ m \in Nat /\ m # x
      /\ \A i \in 1..m : i # x /\ i \in Nat
  <2>1. Len(C) \in Nat
    BY TraceFacts
  <2>2. QED BY <2>1
<1>2. pos \in [Nat -> Nat] /\ par \in [Nat -> Nat] /\ pos[m] <= p
  BY DEF Traced
<1>3. /\ \E U : D \in Seq(U)
      /\ Len(D) = m
      /\ \A i \in 1..Len(C) : D[i] = C[i]
      /\ \A i \in 1..m : i = m => D[i] = call
  <2>1. PICK U : C \in Seq(U)
    BY DEF Traced
  <2>2. QED BY <2>1, PushedAny
<1>4. D[m] = call
  BY <1>1, <1>3
<1> HIDE DEF D, x, m
<1>5. /\ pos2 \in [Nat -> Nat] /\ par2 \in [Nat -> Nat]
      /\ pos2[x] = p /\ par2[x] = q
      /\ \A i \in 1..m : pos2[i] = pos[i] /\ par2[i] = par[i]
      /\ pos2[m] = pos[m]
  BY <1>1, <1>2
<1> HIDE DEF pos2, par2
<1>6. Longer(C, D, pos, pos2, par, par2)
  BY <1>2, <1>3, <1>5 DEF Longer, x, m
<1>7. D = Append(C, call)
  BY DEF D
<1>8. Appended(C, call, D, pos, pos2, p, par, par2, q)
  BY <1>4, <1>5, <1>6, <1>7 DEF Appended, x, m
<1>9. QED BY <1>8

\* what is known of the calls made so far
LEMMA ConstructFacts ==
  ASSUME IInv, NEW C, NEW pos, NEW par, NEW end, NEW st, Constructing(C, pos, par, end, st)
  PROVE  /\ Traced(C, data, pos, par, end)
         /\ Len(C) \in Nat /\ bitpos \in Nat /\ Len(scope_stack) \in Nat
         /\ pos[Len(C) + 1] = bitpos
         /\ Chain(C, par, st, Len(scope_stack), Len(C) + 1)
         /\ par[Len(C) + 1] \in Nat
         /\ par[Len(C) + 1] # 0 => /\ Len(scope_stack) >= 1
                                   /\ par[Len(C) + 1] = st[Len(scope_stack)]
                                   /\ par[Len(C) + 1] \in 1..Len(C)
                                   /\ C[par[Len(C) + 1]].name = "named_block_begin"
                                   /\ end[par[Len(C) + 1]] = 0
<1> DEFINE d == Len(scope_stack)
           n == Len(C)
           m == n + 1
<1>1. /\ Traced(C, data, pos, par, end) /\ pos[m] = bitpos /\ Chain(C, par, st, d, m)
      /\ \A k \in 1..d : end[st[k]] = 0
  BY DEF Constructing
<1>2. n \in Nat /\ m \in Nat /\ m - 1 = n
  <2>1. n \in Nat
    BY <1>1, TraceFacts
  <2> HIDE DEF n
  <2>2. QED BY <2>1
<1>3. bitpos \in Nat /\ d \in Nat
  BY Places
<1>4. par[m] \in Nat
  BY <1>1, <1>2, TraceFacts
<1>5. ASSUME par[m] # 0
      PROVE  /\ d >= 1 /\ par[m] = st[d] /\ par[m] \in 1..n
             /\ C[par[m]].name = "named_block_begin" /\ end[par[m]] = 0
  <2>1. d # 0 /\ par[m] = st[d]
    BY <1>1, <1>5 DEF Chain
  <2>2. d >= 1 /\ d \in 1..d
    BY <1>3, <2>1
  <2>3. st[d] \in 1..(m - 1) /\ C[st[d]].name = "named_block_begin" /\ end[st[d]] = 0
    BY <1>1, <2>2 DEF Chain
  <2> HIDE DEF m, n, d
  <2>4. QED BY <1>2, <2>1, <2>2, <2>3
<1>6. QED BY <1>1, <1>2, <1>3, <1>4, <1>5

\* the calls before are traced still
LEMMA CallsKept ==
  ASSUME NEW C, NEW D, NEW bits, NEW bits2, NEW pos, NEW pos2, NEW par, NEW par2,
         NEW end, NEW end2, Traced(C, bits, pos, par, end),
         Longer(C, D, pos, pos2, par, par2), EndsKept(C, end, end2),
         \A j \in 1..Len(C) : end2[j] = end[j],
         Kept(bits, bits2, 0, pos[Len(C) + 1])
  PROVE  CallsAt(D, bits2, pos2, par2, end2, Len(C))
<1> DEFINE n == Len(C)
<1>1. SUFFICES ASSUME NEW j \in 1..n
               PROVE  CallAt(D, bits2, pos2, par2, end2, j)
  BY DEF CallsAt
<1> DEFINE m == j + 1
           x == n + 1
<1>2. /\ n \in Nat /\ \A i \in Nat : pos[i] \in Nat /\ par[i] \in Nat
      /\ \A i, k \in 1..(Len(C) + 1) : i <= k => pos[i] <= pos[k]
      /\ \A i \in 1..(Len(C) + 1) : BlockAround(C, par, end, i)
  BY TraceFacts DEF Traced
<1>3. m \in 1..x /\ x \in 1..x /\ m <= x /\ m \in Nat /\ x \in Nat /\ j \in Nat /\ j \in 1..x
  <2>1. n \in Nat
    BY <1>2
  <2> HIDE DEF n
  <2>2. QED BY <2>1
<1>4. pos[j] \in Nat /\ pos[m] \in Nat /\ pos[x] \in Nat /\ pos[m] <= pos[x]
  <2> HIDE DEF m
  <2>1. QED BY <1>2, <1>3
<1>5. Kept(bits, bits2, pos[j], pos[m])
  <2> DEFINE p == pos[m]
             q == pos[x]
             z == pos[j]
  <2>1. z \in Nat /\ p \in Nat /\ q \in Nat /\ p <= q
    BY <1>4
  <2>2. Kept(bits, bits2, 0, q)
    OBVIOUS
  <2> HIDE DEF p, q, z, m
  <2>3. ASSUME NEW i \in Nat, z <= i, i < p PROVE 0 <= i /\ i < q
    BY <2>1, <2>3
  <2>4. Kept(bits, bits2, z, p)
    BY <2>2, <2>3 DEF Kept
  <2>5. QED BY <2>4 DEF p, z
<1>6. end2[j] = end[j] /\ end2 \in [Nat -> Nat]
  BY DEF EndsKept
<1>7. BlockKept(C, par, end, end2, j)
  <2> DEFINE o == par[j]
  <2>1. /\ o \in Nat /\ (o # 0 => o < j)
    BY <1>2, <1>3 DEF BlockAround
  <2> HIDE DEF o, n
  <2>2. o # 0 => o \in 1..n
    <3>1. n \in Nat
      BY <1>2 DEF n
    <3>2. QED BY <2>1, <3>1
  <2>3. o # 0 => end2[o] = end[o]
    BY <2>2 DEF n
  <2>4. QED BY <2>3 DEF BlockKept, o
<1>8. QED BY <1>5, <1>6, <1>7, CallKept

\* the room that is left is in the buffer
LEMMA InBuffer == ASSUME IInv
                  PROVE  /\ bitpos \in Nat /\ bitlimit \in Nat /\ BufferBits \in Nat
                         /\ bitlimit <= BufferBits
BY Sizes DEF IInv, Positions

\* a number is written
LEMMA ConstructNumber ==
  ASSUME NumbersFit, IInv, DataInv,
         NEW C, NEW pos, NEW par, NEW end, NEW st, Constructing(C, pos, par, end, st),
         NEW f \in Fields, f.size <= f.w, Write(f.w, f.size, f.val),
         NEW call, call = [name |-> "uint", field |-> f, gave |-> f.val]
  PROVE  \E pos2, par2 : Constructing(Append(C, call), pos2, par2, end, st)'
<1> DEFINE n == Len(C)
           m == n + 1
           x == n + 2
           d == Len(scope_stack)
           q == par[m]
           bits2 == Put(data, bitpos, f.size, f.val)
<1>1. /\ Traced(C, data, pos, par, end)
      /\ n \in Nat /\ bitpos \in Nat /\ d \in Nat
      /\ pos[m] = bitpos
      /\ Chain(C, par, st, d, m)
      /\ q \in Nat
      /\ q # 0 => /\ q \in 1..n
                  /\ C[q].name = "named_block_begin"
                  /\ end[q] = 0
  BY ConstructFacts
<1>2. /\ f.size \in 1..(4 * ByteBits) /\ f.size \in Nat /\ f.val \in Nat /\ f.val < 2^f.size
      /\ f.w \in Overloads
  BY OutAssumption, Sizes DEF Field, NumbersFit
<1>20. PICK p : p = bitpos + f.size
  OBVIOUS
<1>3. p \in Nat /\ bitpos <= p /\ p <= BufferBits
  <2>1. bitpos + f.size <= bitlimit
    BY DEF Write, Writable
  <2>2. bitpos \in Nat /\ f.size \in Nat
    BY <1>1, <1>2
  <2>3. bitlimit \in Nat /\ BufferBits \in Nat /\ bitlimit <= BufferBits
    BY InBuffer
  <2>4. QED BY <1>20, <2>1, <2>2, <2>3
<1>21. PICK D, pos2, par2 : Appended(C, call, D, pos, pos2, p, par, par2, q)
  <2> HIDE DEF q
  <2>1. Traced(C, data, pos, par, end) /\ pos[Len(C) + 1] <= p /\ p \in Nat /\ q \in Nat
    BY <1>1, <1>3
  <2>2. QED BY <2>1, CallAppended
<1>4. /\ D = Append(C, call) /\ Longer(C, D, pos, pos2, par, par2)
      /\ D[m] = call /\ pos2[x] = p /\ par2[x] = q
  BY <1>21 DEF Appended
<1>5. /\ m \in Nat /\ m \in 1..m /\ m + 1 = x /\ x \in Nat /\ x # 0
      /\ \A i \in 1..n : i \in 1..m /\ i < x /\ i + 1 \in 1..m
  <2> HIDE DEF n
  <2>1. QED BY <1>1
<1>6. /\ data' = bits2 /\ bitpos' = p /\ UNCHANGED scope_stack
  BY <1>20 DEF Write
<1> HIDE DEF n, q, bits2, m, x
<1>7. Kept(data, bits2, 0, pos[m])
  <2>1. \A k \in f.size..(f.size + ByteBits) : Bit(f.val, k) = 0
    BY <1>2, NoBitsBeyond
  <2>2. ASSUME NEW i \in Nat, i < bitpos, i < BufferBits PROVE bits2[i] = data[i]
    <3>1. i \in 0..(BufferBits - 1) /\ i \notin bitpos..(bitpos + f.size - 1)
      BY <1>1, <1>2, <2>2, InBuffer
    <3>2. QED BY <1>1, <1>2, <2>1, <3>1, PutInside DEF bits2
  <2>3. QED BY <1>1, <2>2 DEF Kept
<1>8. end \in [Nat -> Nat] /\ EndsKept(C, end, end)
  BY <1>1 DEF Traced, EndsKept
<1>9. CallsAt(D, bits2, pos2, par2, end, n)
  BY <1>1, <1>4, <1>7, <1>8, CallsKept DEF n, m
<1>10. pos2[m] = bitpos /\ par2[m] = q
  BY <1>1, <1>4, <1>5 DEF Longer, n, m, q
<1>11. CallAt(D, bits2, pos2, par2, end, m)
  <2>1. Holds(bits2, bitpos, f.size, f.val)
    BY <1>1, <1>2, <1>3, <1>20, PutHolds DEF bits2
  <2>2. f.w > ByteBits => ~Spans(bitpos, f.size)
    <3>1. CASE f.w = 4 * ByteBits
      BY <3>1 DEF Write, Writable
    <3>2. CASE f.w # 4 * ByteBits /\ f.w > ByteBits
      <4>1. f.w = 2 * ByteBits /\ ByteBits \in Nat \ {0}
        BY <1>2, <3>2, Sizes DEF Overloads
      <4>2. bitpos % ByteBits \in 0..(ByteBits - 1)
        BY <1>1, <4>1
      <4>3. QED BY <1>2, <4>1, <4>2 DEF Spans
    <3>3. QED BY <3>1, <3>2
  <2>3. D[m].name = "uint" /\ D[m].field = f /\ D[m].gave = f.val
    <3>1. call.name = "uint" /\ call.field = f /\ call.gave = f.val
      OBVIOUS
    <3>2. QED BY <1>4, <3>1
  <2>4. pos2[m + 1] = p /\ par2[m + 1] = q
    BY <1>4, <1>5
  <2>5. NumberAt(D, bits2, pos2, par2, m)
    BY <1>3, <1>10, <1>20, <2>1, <2>2, <2>3, <2>4 DEF NumberAt
  <2>6. QED BY <2>5 DEF CallAt
<1>12. BlockAround(D, par2, end, x)
  <2>1. q # 0 => q < x /\ D[q] = C[q]
    BY <1>1, <1>4, <1>5 DEF Longer, n
  <2>2. QED BY <1>1, <1>4, <2>1 DEF BlockAround
<1>13. Traced(D, bits2, pos2, par2, end)
  BY <1>1, <1>4, <1>8, <1>9, <1>11, <1>12, TraceLonger DEF n, m, x
<1>14. Chain(D, par2, st, d, x)
  <2>1. Chain(D, par2, st, d, m)
    BY <1>1, <1>4, ChainLonger DEF n, m
  <2>2. par2[m + 1] = par2[m]
    BY <1>4, <1>5, <1>10
  <2>3. QED BY <1>1, <1>5, <2>1, <2>2, ChainKept
<1>15. Len(D) = m /\ Len(D) + 1 = x /\ \A i \in 1..m : i \in 1..n \/ i = m
  <2>1. Len(D) = m
    BY <1>4 DEF Longer, n, m
  <2>2. QED BY <1>1, <1>5, <2>1 DEF m
<1>16. ASSUME NEW k \in 1..d
       PROVE  /\ end[st[k]] = 0
              /\ scope_stack[k].bitpos_at_enter = pos2[st[k] + 1]
              /\ scope_stack[k].position_for_write = pos2[st[k]]
  <2>1. /\ end[st[k]] = 0
        /\ scope_stack[k].bitpos_at_enter = pos[st[k] + 1]
        /\ scope_stack[k].position_for_write = pos[st[k]]
    BY DEF Constructing, d
  <2>2. st[k] \in 1..n
    <3>1. m - 1 = n
      BY <1>1 DEF m
    <3>2. QED BY <1>1, <3>1 DEF Chain
  <2>3. pos2[st[k]] = pos[st[k]] /\ pos2[st[k] + 1] = pos[st[k] + 1]
    BY <1>4, <1>5, <2>2 DEF Longer, n, m
  <2>4. QED BY <2>1, <2>3
<1>17. ASSUME NEW i \in 1..m, D[i].name = "named_block_begin", end[i] = 0
       PROVE  \E k \in 1..d : st[k] = i
  <2>1. i \in 1..n
    BY <1>4, <1>15, <1>17
  <2>2. D[i] = C[i]
    BY <1>4, <2>1 DEF Longer, n
  <2>3. QED BY <1>17, <2>1, <2>2 DEF Constructing, n, d
<1>18. Constructing(D, pos2, par2, end, st)'
  <2>1. /\ Traced(D, data', pos2, par2, end)
        /\ pos2[Len(D) + 1] = bitpos'
        /\ Chain(D, par2, st, Len(scope_stack'), Len(D) + 1)
    BY <1>4, <1>6, <1>13, <1>14, <1>15
  <2>2. \A k \in 1..Len(scope_stack') :
          /\ end[st[k]] = 0
          /\ (scope_stack')[k].bitpos_at_enter = pos2[st[k] + 1]
          /\ (scope_stack')[k].position_for_write = pos2[st[k]]
    BY <1>6, <1>16
  <2>3. \A i \in 1..Len(D) : D[i].name = "named_block_begin" /\ end[i] = 0
          => \E k \in 1..Len(scope_stack') : st[k] = i
    BY <1>6, <1>15, <1>17
  <2>4. QED BY <2>1, <2>2, <2>3 DEF Constructing
<1>19. QED BY <1>4, <1>18

\* the call after n others has begun a block, inside d others
Opened(n, end, end2, d, st, st2) ==
  /\ end2[n + 1] = 0
  /\ \A i \in 1..n : end2[i] = end[i]
  /\ st2[d + 1] = n + 1
  /\ \A k \in 1..d : st2[k] = st[k]

\* it has ended the block that call b has begun
Closed(n, end, end2, b) ==
  /\ end2[b] = n + 1
  /\ \A i \in 1..n : i # b => end2[i] = end[i]

\* a block begins, room for its length is left
LEMMA ConstructBegin ==
  ASSUME IInv, NEW C, NEW pos, NEW par, NEW end, NEW st, Constructing(C, pos, par, end, st),
         NEW size \in LengthBits, BeginBlock(size),
         NEW call, call = [name |-> "named_block_begin", field |-> size, gave |-> 0]
  PROVE  \E pos2, par2, end2, st2 :
           /\ Opened(Len(C), end, end2, Len(scope_stack), st, st2)
           /\ Constructing(Append(C, call), pos2, par2, end2, st2)'
<1> DEFINE n == Len(C)
           m == n + 1
           x == n + 2
           d == Len(scope_stack)
           q == par[m]
           e == [bitpos_at_enter |-> bitpos + size, bitlimit_at_enter |-> bitlimit,
                 position_for_write |-> bitpos]
           end2 == [end EXCEPT ![m] = 0]
<1>1. /\ Traced(C, data, pos, par, end)
      /\ n \in Nat /\ bitpos \in Nat /\ d \in Nat
      /\ pos[m] = bitpos
      /\ Chain(C, par, st, d, m)
      /\ q # 0 => q \in 1..n /\ end[q] = 0
  BY ConstructFacts
<1>2. size \in Nat
  BY Sizes
<1>3. PICK p : p = bitpos + size
  OBVIOUS
<1>4. p \in Nat /\ bitpos <= p
  BY <1>1, <1>2, <1>3
<1>5. /\ m \in Nat /\ m \in 1..m /\ m + 1 = x /\ x \in Nat /\ m # 0 /\ m >= 1 /\ m < x
      /\ \A i \in 1..n : i \in 1..m /\ i # m /\ i \in Nat /\ i + 1 \in 1..m
  <2> HIDE DEF n
  <2>1. QED BY <1>1
<1>6. PICK D, pos2, par2 : Appended(C, call, D, pos, pos2, p, par, par2, m)
  <2>1. pos[Len(C) + 1] <= p
    BY <1>1, <1>4
  <2> HIDE DEF m
  <2>2. QED BY <1>1, <1>4, <1>5, <2>1, CallAppended
<1>7. /\ D = Append(C, call) /\ Longer(C, D, pos, pos2, par, par2)
      /\ D[m] = call /\ pos2[x] = p /\ par2[x] = m
  BY <1>6 DEF Appended
<1>8. /\ data' = data /\ bitpos' = p /\ Aligned(p)
      /\ scope_stack' = Append(scope_stack, e)
  BY <1>3 DEF BeginBlock
<1>9. /\ scope_stack' \in Seq(Scope) /\ Len(scope_stack') = d + 1
      /\ \A i \in 1..d : scope_stack'[i] = scope_stack[i]
      /\ \A i \in 1..(d + 1) : i = d + 1 => scope_stack'[i] = e
  <2>1. scope_stack \in Seq(Scope)
    BY DEF IInv, Positions, Scope
  <2>2. e \in Scope
    BY <1>1, <1>2 DEF Scope, IInv, Positions
  <2> HIDE DEF e
  <2>3. QED BY <1>8, <2>1, <2>2, Pushed
<1> HIDE DEF n, q, m, x, e
<1>10. /\ end2 \in [Nat -> Nat] /\ end2[m] = 0
       /\ \A i \in 1..n : end2[i] = end[i]
       /\ EndsKept(C, end, end2)
  <2>1. end \in [Nat -> Nat]
    BY <1>1 DEF Traced
  <2>2. end2 \in [Nat -> Nat] /\ end2[m] = 0 /\ \A i \in 1..n : end2[i] = end[i]
    BY <1>5, <2>1
  <2>3. QED BY <2>2 DEF EndsKept, n
<1> HIDE DEF end2
<1>11. CallsAt(D, data, pos2, par2, end2, n)
  <2>1. Kept(data, data, 0, pos[m])
    BY DEF Kept
  <2>2. QED BY <1>1, <1>7, <1>10, <2>1, CallsKept DEF n, m
<1>12. pos2[m] = bitpos /\ par2[m] = q
  BY <1>1, <1>5, <1>7 DEF Longer, n, m, q
<1>13. D[m].name = "named_block_begin" /\ D[m].field = size /\ D[m].gave = 0
  <2>1. /\ call.name = "named_block_begin" /\ call.field = size /\ call.gave = 0
    OBVIOUS
  <2>2. QED BY <1>7, <2>1
<1>14. CallAt(D, data, pos2, par2, end2, m)
  <2>1. q # 0 => end2[q] = 0
    BY <1>1, <1>10
  <2>2. pos2[m + 1] = p /\ par2[m + 1] = m
    BY <1>5, <1>7
  <2>3. BeginAt(D, data, pos2, par2, end2, m)
    BY <1>3, <1>8, <1>10, <1>12, <1>13, <2>1, <2>2 DEF BeginAt
  <2>4. QED BY <2>3 DEF CallAt
<1>15. BlockAround(D, par2, end2, x)
  BY <1>5, <1>7, <1>10, <1>13 DEF BlockAround
<1>16. Traced(D, data, pos2, par2, end2)
  BY <1>1, <1>7, <1>10, <1>11, <1>14, <1>15, TraceLonger DEF n, m, x
<1>17. PICK st2 : st2 = [st EXCEPT ![d + 1] = m]
  OBVIOUS
<1>18. /\ Chain(D, par2, st2, d + 1, x)
       /\ \A k \in 1..d : st2[k] = st[k]
       /\ st2[d + 1] = m
  <2>1. Chain(D, par2, st, d, m)
    BY <1>1, <1>7, ChainLonger DEF n, m
  <2>2. par2[m + 1] = m
    BY <1>5, <1>7
  <2> DEFINE more == [st EXCEPT ![d + 1] = m]
  <2> HIDE DEF d
  <2>6. /\ Chain(D, par2, st, d, m) /\ par2[m + 1] = m
        /\ d \in Nat /\ m \in Nat /\ m >= 1 /\ D[m].name = "named_block_begin"
    BY <1>1, <1>5, <1>13, <2>1, <2>2
  <2>3. /\ Chain(D, par2, more, d + 1, m + 1)
        /\ \A k \in 1..d : more[k] = st[k]
        /\ more[d + 1] = m
    BY <2>6, ChainPushed
  <2>4. st2 = more
    BY <1>17 DEF d
  <2> HIDE DEF more
  <2>5. QED BY <1>5, <2>3, <2>4 DEF d
<1>19. Len(D) = m /\ Len(D) + 1 = x /\ \A i \in 1..m : i \in 1..n \/ i = m
  <2>1. Len(D) = m
    BY <1>7 DEF Longer, n, m
  <2>2. QED BY <1>1, <1>5, <2>1 DEF m
<1> HIDE DEF d
<1>20. \A k \in 1..(d + 1) : k \in 1..d \/ k = d + 1
  BY <1>1
<1>21. ASSUME NEW k \in 1..(d + 1)
       PROVE  /\ end2[st2[k]] = 0
              /\ scope_stack'[k].bitpos_at_enter = pos2[st2[k] + 1]
              /\ scope_stack'[k].position_for_write = pos2[st2[k]]
  <2>1. CASE k \in 1..d
    <3>1. /\ end[st[k]] = 0
          /\ scope_stack[k].bitpos_at_enter = pos[st[k] + 1]
          /\ scope_stack[k].position_for_write = pos[st[k]]
      BY <2>1 DEF Constructing, d
    <3>2. st[k] \in 1..n
      <4>1. m - 1 = n
        BY <1>1 DEF m
      <4>2. QED BY <1>1, <2>1, <4>1 DEF Chain
    <3>3. pos2[st[k]] = pos[st[k]] /\ pos2[st[k] + 1] = pos[st[k] + 1]
      BY <1>5, <1>7, <3>2 DEF Longer, n, m
    <3>4. QED BY <1>9, <1>10, <1>18, <2>1, <3>1, <3>2, <3>3
  <2>2. CASE k = d + 1
    <3>1. scope_stack'[k] = e /\ st2[k] = m /\ pos2[m + 1] = p
      BY <1>5, <1>7, <1>9, <1>18, <2>2
    <3>2. e.bitpos_at_enter = p /\ e.position_for_write = bitpos
      BY <1>3 DEF e
    <3>3. QED BY <1>10, <1>12, <3>1, <3>2
  <2>3. QED BY <1>20, <2>1, <2>2
<1>22. ASSUME NEW i \in 1..m, D[i].name = "named_block_begin", end2[i] = 0
       PROVE  \E k \in 1..(d + 1) : st2[k] = i
  <2>1. CASE i \in 1..n
    <3>1. C[i].name = "named_block_begin" /\ end[i] = 0
      BY <1>7, <1>10, <1>22, <2>1 DEF Longer, n
    <3>2. PICK k \in 1..d : st[k] = i
      BY <2>1, <3>1 DEF Constructing, n, d
    <3>3. k \in 1..(d + 1)
      BY <1>1
    <3>4. QED BY <1>18, <3>2, <3>3
  <2>2. CASE i = m
    <3>1. d + 1 \in 1..(d + 1)
      BY <1>1
    <3>2. QED BY <1>18, <2>2, <3>1
  <2>3. QED BY <1>19, <2>1, <2>2
<1>23. \E pos3, par3, end3, st3 : /\ Opened(n, end, end3, d, st, st3)
                                   /\ Constructing(D, pos3, par3, end3, st3)'
  <2>1. PICK end3 : end3 = end2
    OBVIOUS
  <2>2. /\ Traced(D, data', pos2, par2, end3)
        /\ pos2[Len(D) + 1] = bitpos'
        /\ Chain(D, par2, st2, Len(scope_stack'), Len(D) + 1)
    BY <1>7, <1>8, <1>9, <1>16, <1>18, <1>19, <2>1
  <2>3. \A k \in 1..Len(scope_stack') :
          /\ end3[st2[k]] = 0
          /\ (scope_stack')[k].bitpos_at_enter = pos2[st2[k] + 1]
          /\ (scope_stack')[k].position_for_write = pos2[st2[k]]
    BY <1>9, <1>21, <2>1
  <2>4. \A i \in 1..Len(D) : D[i].name = "named_block_begin" /\ end3[i] = 0
          => \E k \in 1..Len(scope_stack') : st2[k] = i
    BY <1>9, <1>19, <1>22, <2>1
  <2>5. Constructing(D, pos2, par2, end3, st2)'
    BY <2>2, <2>3, <2>4 DEF Constructing
  <2>6. Opened(n, end, end3, d, st, st2)
    <3>1. n + 1 = m
      BY DEF m
    <3>2. end3[m] = 0 /\ \A i \in 1..n : end3[i] = end[i]
      BY <1>10, <2>1
    <3>3. QED BY <1>18, <3>1, <3>2 DEF Opened
  <2>7. QED BY <2>5, <2>6
<1>24. QED BY <1>7, <1>23 DEF n, d

\* what is known of the block that ends
LEMMA EndingBlock ==
  ASSUME IInv, NEW C, NEW pos, NEW par, NEW end, NEW st, Constructing(C, pos, par, end, st),
         EndBlock, NEW b, b = st[Len(scope_stack)]
  PROVE  /\ Len(scope_stack) \in Nat /\ Len(scope_stack) >= 1
         /\ b \in 1..Len(C) /\ par[Len(C) + 1] = b
         /\ C[b].name = "named_block_begin" /\ end[b] = 0
         /\ BeginAt(C, data, pos, par, end, b)
         /\ Top.position_for_write = pos[b] /\ Top.bitpos_at_enter = pos[b + 1]
         /\ LengthField = C[b].field
         /\ pos[b] \in Nat /\ pos[b + 1] \in Nat /\ pos[b + 1] <= BufferBits
         /\ ~Spans(pos[b], C[b].field)
         /\ BlockBits \div ByteBits \in 0..(2^(C[b].field) - 1)
         /\ bitpos = pos[b + 1] + (BlockBits \div ByteBits) * ByteBits
<1> DEFINE n == Len(C)
           d == Len(scope_stack)
           m == n + 1
           c == b + 1
<1>1. /\ Traced(C, data, pos, par, end)
      /\ n \in Nat /\ bitpos \in Nat /\ d \in Nat
      /\ Chain(C, par, st, d, m)
  BY ConstructFacts
<1>2. d >= 1 /\ d \in 1..d
  <2>1. d >= 1
    BY EndFacts DEF EndBlock
  <2> HIDE DEF d
  <2>2. QED BY <1>1, <2>1
<1>3. b \in 1..n /\ par[m] = b /\ C[b].name = "named_block_begin"
  <2>1. m - 1 = n
    BY <1>1
  <2>2. d # 0
    BY <1>2
  <2> HIDE DEF m, n, d
  <2>3. QED BY <1>1, <1>2, <2>1, <2>2 DEF Chain, d
<1>4. /\ end[b] = 0
      /\ Top.position_for_write = pos[b] /\ Top.bitpos_at_enter = pos[c]
  BY <1>2 DEF Constructing, Top
<1>5. BeginAt(C, data, pos, par, end, b)
  BY <1>1, <1>3, TraceFacts
<1>6. pos[b] \in Nat /\ pos[c] \in Nat
  <2>1. b \in Nat /\ c \in Nat
    BY <1>1, <1>3
  <2>2. QED BY <1>1, <2>1, TraceFacts
<1>7. /\ C[b].field \in LengthBits /\ pos[c] = pos[b] + C[b].field
      /\ C[b].field \in Nat
  BY <1>5, Sizes DEF BeginAt
<1>8. LengthField = C[b].field
  <2> DEFINE f == C[b].field
             y == pos[b]
             z == pos[c]
  <2>1. LengthField = z - y
    BY <1>4 DEF LengthField
  <2>2. z = y + f /\ y \in Nat /\ f \in Nat
    BY <1>6, <1>7
  <2> HIDE DEF f, y, z
  <2>3. LengthField = f
    BY <2>1, <2>2
  <2>4. QED BY <2>3 DEF f
<1>9. /\ Writable(4 * ByteBits, pos[b], C[b].field, Top.bitlimit_at_enter)
      /\ Top.bitlimit_at_enter \in 0..BufferBits
  <2>1. Top.bitlimit_at_enter \in 0..BufferBits
    BY EndFacts DEF EndBlock, Scope
  <2>2. QED BY <1>4, <1>8, <2>1 DEF EndBlock, LengthWritable
<1>10. pos[c] <= BufferBits /\ ~Spans(pos[b], C[b].field)
  <2> DEFINE z == pos[c]
             l == Top.bitlimit_at_enter
  <2>1. z <= l /\ l \in 0..BufferBits /\ z \in Nat /\ ~Spans(pos[b], C[b].field)
    BY <1>6, <1>7, <1>9 DEF Writable
  <2>2. BufferBits \in Nat
    BY Sizes
  <2> HIDE DEF z, l
  <2>3. z <= BufferBits
    BY <2>1, <2>2
  <2>4. QED BY <2>1, <2>3 DEF z
<1> DEFINE gave == BlockBits \div ByteBits
<1>11. gave \in 0..(2^(C[b].field) - 1)
  <2> DEFINE y == 2^(C[b].field)
  <2>1. /\ gave \in Nat /\ gave <= y - 1
    BY <1>8, EndLength DEF MostBytes
  <2>2. y \in Nat
    <3>1. C[b].field \in 1..(4 * ByteBits)
      BY <1>7, OutAssumption
    <3>2. C[b].field \in 0..(5 * ByteBits)
      BY <3>1, ByteAssumption
    <3>3. QED BY <3>2, Powers
  <2> HIDE DEF y, gave
  <2>3. gave \in 0..(y - 1)
    BY <2>1, <2>2
  <2>4. QED BY <2>3 DEF y
<1>12. bitpos = pos[c] + gave * ByteBits
  <2> DEFINE z == pos[c]
  <2>1. BlockBits = bitpos - z /\ z <= bitpos
    BY <1>4, EndInside DEF BlockBits
  <2>2. z \in Nat /\ ByteBits \in Nat \ {0}
    BY <1>6, Sizes
  <2>3. BlockBits % ByteBits = 0
    BY DEF EndBlock, Aligned
  <2> HIDE DEF z
  <2>4. BlockBits \in Nat
    BY <1>1, <2>1, <2>2
  <2>5. BlockBits = gave * ByteBits
    BY <2>2, <2>3, <2>4
  <2>6. QED BY <1>1, <2>1, <2>2, <2>4, <2>5 DEF z
<1>13. QED BY <1>1, <1>2, <1>3, <1>4, <1>5, <1>6, <1>8, <1>10, <1>11, <1>12

\* the innermost open block is the last that was begun of those still open
LEMMA InnerClosed ==
  ASSUME IInv, NEW C, NEW pos, NEW par, NEW end, NEW st, Constructing(C, pos, par, end, st),
         Len(scope_stack) >= 1, NEW j \in 1..Len(C), C[j].name = "named_block_begin",
         end[j] = 0
  PROVE  par[j] # st[Len(scope_stack)]
<1> DEFINE d == Len(scope_stack)
<1>1. d \in Nat /\ Chain(C, par, st, d, Len(C) + 1)
  BY ConstructFacts
<1>2. PICK k \in 1..d : st[k] = j
  BY DEF Constructing
<1> HIDE DEF d
<1>3. par[j] = IF k = 1 THEN 0 ELSE st[k - 1]
  BY <1>1, <1>2 DEF Chain
<1>4. d \in 1..d
  BY <1>1 DEF d
<1>5. /\ \A i, l \in 1..d : i < l => st[i] < st[l]
      /\ \A i \in 1..d : st[i] \in Nat
      /\ st[d] # 0
  <2> DEFINE m == Len(C) + 1
  <2>1. Chain(C, par, st, d, m)
    BY <1>1
  <2> HIDE DEF m
  <2>2. /\ \A i, l \in 1..d : i < l => st[i] < st[l]
        /\ \A i \in 1..d : st[i] \in 1..(m - 1)
    BY <2>1 DEF Chain
  <2>3. \A i \in 1..(m - 1) : i \in Nat /\ i # 0
    OBVIOUS
  <2>4. QED BY <1>4, <2>2, <2>3
<1>6. CASE k = 1
  <2>1. st[d] # 0
    BY <1>5
  <2>2. QED BY <1>3, <1>6, <2>1 DEF d
<1>7. CASE k # 1
  <2> DEFINE l == k - 1
  <2>1. l \in 1..d /\ l < d
    BY <1>1, <1>7
  <2> HIDE DEF l
  <2>2. st[l] < st[d] /\ st[l] \in Nat /\ st[d] \in Nat
    BY <1>1, <1>4, <1>5, <2>1
  <2>3. st[l] # st[d]
    BY <2>2
  <2>4. QED BY <1>3, <1>7, <2>3 DEF l, d
<1>8. QED BY <1>6, <1>7

\* a length goes nowhere but into its field
LEMMA LengthInside ==
  ASSUME IInv, DataInv, EndBlock, NEW p \in Nat, NEW q \in Nat,
         p = Top.position_for_write, q = Top.bitpos_at_enter, q <= BufferBits
  PROVE  /\ Holds(data', p, LengthField, BlockBits \div ByteBits)
         /\ Kept(data, data', 0, p)
         /\ \A r \in Nat : Kept(data, data', q, r)
<1> DEFINE gave == BlockBits \div ByteBits
           bits2 == Put(data, p, LengthField, gave)
<1>1. data' = bits2
  BY DEF EndBlock
<1>2. LengthField \in Nat /\ p + LengthField = q
  <2>1. LengthField = q - p /\ LengthField \in LengthBits
    BY EndInside DEF LengthField
  <2>2. LengthField \in Nat
    BY <2>1, Sizes
  <2>3. QED BY <2>1, <2>2
<1>3. \A k \in LengthField..(LengthField + ByteBits) : Bit(gave, k) = 0
  <2>1. /\ LengthField \in LengthBits /\ gave \in Nat /\ gave <= MostBytes(LengthField)
    BY EndLength
  <2>2. LengthField \in 1..(4 * ByteBits)
    BY <2>1, OutAssumption
  <2>3. 2^LengthField \in Nat
    <3>1. LengthField \in 0..(5 * ByteBits)
      BY <2>2, ByteAssumption
    <3>2. QED BY <3>1, Powers
  <2> HIDE DEF gave
  <2>4. gave < 2^LengthField
    BY <2>1, <2>3 DEF MostBytes
  <2>5. QED BY <2>1, <2>2, <2>4, NoBitsBeyond
<1> HIDE DEF gave
<1>4. Holds(bits2, p, LengthField, gave)
  BY <1>2, PutHolds
<1>5. ASSUME NEW i \in Nat, i < p \/ q <= i, i < BufferBits PROVE bits2[i] = data[i]
  <2>1. i \in 0..(BufferBits - 1) /\ i \notin p..(p + LengthField - 1)
    <3>1. BufferBits \in Nat
      BY Sizes
    <3>2. QED BY <1>2, <1>5, <3>1
  <2>2. QED BY <1>2, <1>3, <2>1, PutInside
<1> HIDE DEF bits2
<1>6. QED BY <1>1, <1>4, <1>5 DEF Kept, gave

\* ... so the fields of the other calls are as they were
LEMMA OthersKept ==
  ASSUME NEW C, NEW bits, NEW pos, NEW par, NEW end, Traced(C, bits, pos, par, end),
         NEW bits2, NEW b \in 1..Len(C),
         Kept(bits, bits2, 0, pos[b]), \A r \in Nat : Kept(bits, bits2, pos[b + 1], r),
         NEW j \in 1..Len(C), j # b
  PROVE  Kept(bits, bits2, pos[j], pos[j + 1])
<1> DEFINE n == Len(C)
           m == j + 1
           c == b + 1
           x == n + 1
           y == pos[b]
           z == pos[c]
           f == pos[j]
           g == pos[m]
<1>1. n \in Nat
  BY TraceFacts
<1>2. /\ j \in Nat /\ b \in Nat /\ m \in Nat /\ c \in Nat
      /\ j \in 1..x /\ b \in 1..x /\ m \in 1..x /\ c \in 1..x
      /\ m <= b \/ c <= j
  <2> HIDE DEF n
  <2>1. j \in 1..n /\ b \in 1..n
    BY DEF n
  <2>2. QED BY <1>1, <2>1
<1>3. \A i, k \in 1..x : i <= k => pos[i] <= pos[k]
  BY DEF Traced
<1>4. y \in Nat /\ z \in Nat /\ f \in Nat /\ g \in Nat
  BY <1>2, TraceFacts
<1> HIDE DEF m, c, x
<1>5. m <= b => g <= y
  BY <1>2, <1>3
<1>6. c <= j => z <= f
  BY <1>2, <1>3
<1>7. Kept(bits, bits2, 0, y) /\ Kept(bits, bits2, z, g)
  BY <1>4 DEF c
<1> HIDE DEF y, z, f, g, n
<1>8. ASSUME NEW i \in Nat, f <= i, i < g, i < BufferBits PROVE bits2[i] = bits[i]
  <2>1. CASE m <= b
    <3>1. g <= y
      BY <1>5, <2>1
    <3>2. 0 <= i /\ i < y
      BY <1>4, <1>8, <3>1
    <3>3. QED BY <1>7, <1>8, <3>2 DEF Kept
  <2>2. CASE c <= j
    <3>1. z <= f
      BY <1>6, <2>2
    <3>2. z <= i
      BY <1>4, <1>8, <3>1
    <3>3. QED BY <1>7, <1>8, <3>2 DEF Kept
  <2>3. QED BY <1>2, <2>1, <2>2
<1>9. Kept(bits, bits2, f, g)
  BY <1>8 DEF Kept
<1>10. QED BY <1>9 DEF f, g, m

\* a block ends, and its length is written
LEMMA ConstructEnd ==
  ASSUME IInv, DataInv,
         NEW C, NEW pos, NEW par, NEW end, NEW st, Constructing(C, pos, par, end, st),
         EndBlock, NEW call, call.name = "named_block_end", call.gave = returned'
  PROVE  \E pos2, par2, end2 :
           /\ Closed(Len(C), end, end2, st[Len(scope_stack)])
           /\ Constructing(Append(C, call), pos2, par2, end2, st)'
<1> DEFINE n == Len(C)
           m == n + 1
           x == n + 2
           d == Len(scope_stack)
<1>1. /\ Traced(C, data, pos, par, end)
      /\ n \in Nat /\ bitpos \in Nat /\ d \in Nat
      /\ pos[m] = bitpos
      /\ Chain(C, par, st, d, m)
  BY ConstructFacts
<1>2. PICK b : b = st[d]
  OBVIOUS
<1>3. PICK p : p = bitpos
  OBVIOUS
<1>4. PICK gave : gave = BlockBits \div ByteBits
  OBVIOUS
<1> DEFINE size == C[b].field
           q == par[b]
           end2 == [end EXCEPT ![b] = m]
<1>5. /\ d >= 1 /\ b \in 1..n /\ par[m] = b
      /\ C[b].name = "named_block_begin" /\ end[b] = 0
      /\ BeginAt(C, data, pos, par, end, b)
      /\ Top.position_for_write = pos[b] /\ Top.bitpos_at_enter = pos[b + 1]
      /\ LengthField = size
      /\ pos[b] \in Nat /\ pos[b + 1] \in Nat /\ pos[b + 1] <= BufferBits
      /\ ~Spans(pos[b], size)
      /\ gave \in 0..(2^size - 1)
      /\ p = pos[b + 1] + gave * ByteBits
  BY <1>2, <1>3, <1>4, EndingBlock
<1>6. /\ m \in Nat /\ m \in 1..m /\ m + 1 = x /\ x \in Nat /\ m # 0 /\ m < x
      /\ b \in Nat /\ b # 0 /\ b + 1 \in Nat /\ b + 1 \in 1..m /\ m \in (b + 1)..m
      /\ \A i \in 1..n : i \in 1..m /\ i # m /\ i \in Nat /\ i + 1 \in 1..m /\ i < x
  <2> HIDE DEF n
  <2>1. n \in Nat /\ b \in 1..n
    BY <1>1, <1>5
  <2>2. QED BY <2>1
<1>7. q \in Nat /\ (q # 0 => /\ q \in 1..n /\ q # b
                            /\ C[q].name = "named_block_begin" /\ end[q] = 0)
  <2>1. q \in Nat
    BY <1>1, <1>6, TraceFacts
  <2>2. \A k \in 1..d : /\ st[k] \in 1..(m - 1) /\ C[st[k]].name = "named_block_begin"
                        /\ end[st[k]] = 0
    BY <1>1 DEF Chain, Constructing
  <2>3. d \in 1..d
    BY <1>1, <1>5
  <2>4. q = IF d = 1 THEN 0 ELSE st[d - 1]
    BY <1>1, <1>2, <2>3 DEF Chain
  <2>5. ASSUME q # 0
        PROVE  q \in 1..n /\ q # b /\ C[q].name = "named_block_begin" /\ end[q] = 0
    <3> DEFINE l == d - 1
    <3>1. l \in 1..d /\ l < d /\ q = st[l]
      <4>1. d # 1 /\ q = st[l] /\ d \in Nat /\ d >= 1
        BY <1>1, <1>5, <2>4, <2>5
      <4> HIDE DEF d, q
      <4>2. QED BY <4>1
    <3>2. m - 1 = n
      BY <1>1
    <3> HIDE DEF l, m, n
    <3>3. st[l] < st[d] /\ st[l] \in 1..n
      BY <1>1, <2>2, <2>3, <3>1, <3>2 DEF Chain
    <3>4. q # b
      <4>1. st[l] < st[d] /\ st[l] \in Nat /\ b = st[d]
        BY <1>2, <3>3
      <4>2. b \in Nat
        BY <1>6
      <4>3. QED BY <3>1, <4>1, <4>2
    <3>5. QED BY <2>2, <3>1, <3>3, <3>4
  <2>6. QED BY <2>1, <2>5
<1>8. PICK D, pos2, par2 : Appended(C, call, D, pos, pos2, p, par, par2, q)
  <2>1. Traced(C, data, pos, par, end) /\ p \in Nat /\ q \in Nat /\ pos[Len(C) + 1] <= p
    BY <1>1, <1>3, <1>7
  <2> HIDE DEF q
  <2>2. QED BY <2>1, CallAppended
<1>9. /\ D = Append(C, call) /\ Longer(C, D, pos, pos2, par, par2)
      /\ D[m] = call /\ pos2[x] = p /\ par2[x] = q
  BY <1>8 DEF Appended
<1>10. /\ bitpos' = p /\ returned' = gave /\ scope_stack' = Outer
       /\ Len(scope_stack') = d - 1
       /\ \A i \in 1..(d - 1) : scope_stack'[i] = scope_stack[i]
  BY <1>3, <1>4, EndFacts DEF EndBlock
<1>11. PICK bits2 : bits2 = data'
  OBVIOUS
<1>12. /\ Holds(bits2, pos[b], size, gave)
       /\ Kept(data, bits2, 0, pos[b])
       /\ \A r \in Nat : Kept(data, bits2, pos[b + 1], r)
  BY <1>4, <1>5, <1>11, LengthInside
<1> HIDE DEF n, q, m, x, size
<1>13. /\ end2 \in [Nat -> Nat] /\ end2[b] = m
       /\ \A i \in 1..n : i # b => end2[i] = end[i]
       /\ EndsKept(C, end, end2)
  <2>1. end \in [Nat -> Nat]
    BY <1>1 DEF Traced
  <2>2. end2 \in [Nat -> Nat] /\ end2[b] = m /\ \A i \in 1..n : i # b => end2[i] = end[i]
    BY <1>6, <2>1
  <2>3. QED BY <2>2 DEF EndsKept, n, m
<1> HIDE DEF end2
<1>14. /\ pos2[m] = p /\ par2[m] = b /\ pos2[b] = pos[b] /\ par2[b] = q
       /\ pos2[b + 1] = pos[b + 1] /\ par2[b + 1] = par[b + 1] /\ D[b] = C[b]
       /\ Len(D) = m
  BY <1>1, <1>3, <1>5, <1>6, <1>9 DEF Longer, n, m, q
<1>15. ASSUME NEW j \in 1..n, j # b PROVE CallAt(D, bits2, pos2, par2, end2, j)
  <2>1. Kept(data, bits2, pos[j], pos[j + 1])
    BY <1>1, <1>5, <1>12, <1>15, OthersKept DEF n
  <2>2. end2[j] = end[j] /\ end2 \in [Nat -> Nat]
    BY <1>13, <1>15
  <2>3. BlockKept(C, par, end, end2, j)
    <3> DEFINE o == par[j]
    <3>1. CASE o = b
      <4>1. C[j].name = "named_block_begin" => end[j] # 0
        BY <1>2, <1>5, <3>1, InnerClosed DEF n
      <4>2. QED BY <1>5, <1>13, <3>1, <4>1 DEF BlockKept, m, n
    <3>2. CASE o # b /\ o # 0
      <4>1. BlockAround(C, par, end, j) /\ o \in Nat
        <5>1. j \in Nat /\ j \in 1..m
          BY <1>6
        <5>2. QED BY <1>1, <5>1, TraceFacts DEF Traced, m, n
      <4>2. o < j
        BY <3>2, <4>1 DEF BlockAround
      <4> HIDE DEF o
      <4>3. o \in 1..n
        BY <1>1, <3>2, <4>1, <4>2
      <4>4. QED BY <1>13, <3>2, <4>3 DEF BlockKept, o
    <3>3. CASE o = 0
      BY <3>3 DEF BlockKept
    <3>4. QED BY <3>1, <3>2, <3>3
  <2>4. QED BY <1>1, <1>9, <2>1, <2>2, <2>3, CallKept DEF n
<1>16. CallAt(D, bits2, pos2, par2, end2, b)
  <2>1. /\ C[b].name = "named_block_begin" /\ size \in LengthBits /\ C[b].gave = 0
        /\ pos[b + 1] = pos[b] + size /\ Aligned(pos[b + 1]) /\ par[b + 1] = b
    BY <1>5 DEF BeginAt, size
  <2>2. LengthAt(D, bits2, pos2, end2, b)
    <3>1. call.gave = gave /\ call.name = "named_block_end"
      BY <1>10
    <3>2. D[m].name = "named_block_end" /\ D[m].gave = gave /\ D[b].field = size
      BY <1>9, <1>14, <3>1 DEF size
    <3>3. /\ m \in (b + 1)..Len(D)
          /\ pos2[m] = pos2[b + 1] + gave * ByteBits
          /\ pos2[b + 1] <= BufferBits
      BY <1>5, <1>6, <1>14
    <3>4. /\ gave \in 0..(2^size - 1) /\ ~Spans(pos2[b], size)
          /\ Holds(bits2, pos2[b], size, gave)
      BY <1>5, <1>12, <1>14 DEF size
    <3>5. end2[b] = m
      BY <1>13
    <3> HIDE DEF size
    <3>6. QED BY <3>2, <3>3, <3>4, <3>5 DEF LengthAt
  <2>3. q # 0 => end2[q] = 0
    BY <1>7, <1>13
  <2>4. BeginAt(D, bits2, pos2, par2, end2, b)
    BY <1>14, <2>1, <2>2, <2>3 DEF BeginAt, size
  <2>5. QED BY <2>4 DEF CallAt
<1>17. CallsAt(D, bits2, pos2, par2, end2, n)
  BY <1>15, <1>16 DEF CallsAt
<1>18. CallAt(D, bits2, pos2, par2, end2, m)
  <2>1. EndAt(D, pos2, par2, end2, m)
    BY <1>6, <1>9, <1>13, <1>14 DEF EndAt
  <2>2. QED BY <2>1 DEF CallAt
<1>19. BlockAround(D, par2, end2, x)
  <2>1. q # 0 => q < x /\ D[q] = C[q] /\ end2[q] = 0
    BY <1>6, <1>7, <1>9, <1>13 DEF Longer, n
  <2>2. QED BY <1>7, <1>9, <2>1 DEF BlockAround
<1>20. Traced(D, bits2, pos2, par2, end2)
  BY <1>1, <1>9, <1>13, <1>17, <1>18, <1>19, TraceLonger DEF n, m, x
<1>21. Chain(D, par2, st, d - 1, x)
  <2>1. Chain(D, par2, st, d, m)
    BY <1>1, <1>9, ChainLonger DEF n, m
  <2>2. par2[m + 1] = par2[st[d]]
    BY <1>2, <1>6, <1>9, <1>14
  <2>3. m >= 1
    BY <1>6
  <2> HIDE DEF d
  <2>4. Chain(D, par2, st, d - 1, m + 1)
    BY <1>1, <1>5, <1>6, <2>1, <2>2, <2>3, ChainPopped
  <2>5. QED BY <1>6, <2>4
<1> HIDE DEF d
<1>22. \A k \in 1..(d - 1) : k \in 1..d /\ k # d /\ k < d
  BY <1>1
<1>23. ASSUME NEW k \in 1..(d - 1)
       PROVE  /\ end2[st[k]] = 0
              /\ scope_stack'[k].bitpos_at_enter = pos2[st[k] + 1]
              /\ scope_stack'[k].position_for_write = pos2[st[k]]
  <2>1. /\ end[st[k]] = 0
        /\ scope_stack[k].bitpos_at_enter = pos[st[k] + 1]
        /\ scope_stack[k].position_for_write = pos[st[k]]
    BY <1>22 DEF Constructing, d
  <2>2. st[k] \in 1..n /\ st[k] # b
    <3>1. m - 1 = n
      BY <1>1 DEF m
    <3>2. d \in 1..d
      BY <1>1, <1>5
    <3>3. st[k] \in 1..n /\ st[k] < st[d]
      BY <1>1, <1>22, <3>1, <3>2 DEF Chain
    <3>4. st[k] \in Nat /\ b \in Nat
      BY <1>6, <3>3
    <3>5. QED BY <1>2, <3>3, <3>4
  <2>3. pos2[st[k]] = pos[st[k]] /\ pos2[st[k] + 1] = pos[st[k] + 1]
    BY <1>6, <1>9, <2>2 DEF Longer, n, m
  <2>4. QED BY <1>10, <1>13, <2>1, <2>2, <2>3
<1>24. ASSUME NEW i \in 1..m, D[i].name = "named_block_begin", end2[i] = 0
       PROVE  \E k \in 1..(d - 1) : st[k] = i
  <2>1. i # m /\ i # b
    BY <1>6, <1>9, <1>13, <1>24
  <2>2. i \in 1..n
    BY <1>1, <2>1 DEF m
  <2>3. C[i].name = "named_block_begin" /\ end[i] = 0
    BY <1>9, <1>13, <1>24, <2>1, <2>2 DEF Longer, n
  <2>4. PICK k \in 1..d : st[k] = i
    BY <2>2, <2>3 DEF Constructing, n, d
  <2>5. k # d
    BY <1>2, <2>1, <2>4
  <2>6. k \in 1..(d - 1)
    BY <1>1, <2>5
  <2>7. QED BY <2>4, <2>6
<1>25. \E pos3, par3, end3 : Closed(n, end, end3, b) /\ Constructing(D, pos3, par3, end3, st)'
  <2>1. PICK end3 : end3 = end2
    OBVIOUS
  <2>2. /\ Traced(D, data', pos2, par2, end3)
        /\ pos2[Len(D) + 1] = bitpos'
        /\ Chain(D, par2, st, Len(scope_stack'), Len(D) + 1)
    BY <1>6, <1>9, <1>10, <1>11, <1>14, <1>20, <1>21, <2>1
  <2>3. \A k \in 1..Len(scope_stack') :
          /\ end3[st[k]] = 0
          /\ (scope_stack')[k].bitpos_at_enter = pos2[st[k] + 1]
          /\ (scope_stack')[k].position_for_write = pos2[st[k]]
    BY <1>10, <1>23, <2>1
  <2>4. \A i \in 1..Len(D) : D[i].name = "named_block_begin" /\ end3[i] = 0
          => \E k \in 1..Len(scope_stack') : st[k] = i
    BY <1>10, <1>14, <1>24, <2>1
  <2>5. Constructing(D, pos2, par2, end3, st)'
    BY <2>2, <2>3, <2>4 DEF Constructing
  <2>6. Closed(n, end, end3, b)
    BY <1>13, <2>1 DEF Closed, m
  <2>7. QED BY <2>5, <2>6
<1>26. QED BY <1>2, <1>9, <1>25 DEF n, d

----------------------------------------------------------------------------
(* the round trip *)

LEMMA NothingConstructed == ModesInit => ConstructInv
<1>1. SUFFICES ASSUME ModesInit PROVE ConstructInv
  OBVIOUS
<1>2. /\ calls.binary = <<>> /\ scope_stack = <<>> /\ bitpos = 0
  BY <1>1 DEF ModesInit, Init
<1> DEFINE z == [i \in Nat |-> 0]
<1>3. z \in [Nat -> Nat] /\ \A i \in Nat : z[i] = 0
  OBVIOUS
<1> HIDE DEF z
<1>4. /\ <<>> \in Seq({}) /\ Len(<<>>) = 0
      /\ \A i \in 1..1 : i \in Nat
      /\ 1 \in Nat /\ 1..0 = {} /\ 0 + 1 = 1
  OBVIOUS
<1>5. Traced(<<>>, data, z, z, z)
  <2>1. \A j \in 1..1 : BlockAround(<<>>, z, z, j)
    BY <1>3, <1>4 DEF BlockAround
  <2>2. \A i, j \in 1..1 : i <= j => z[i] <= z[j]
    BY <1>3, <1>4
  <2>3. \E U : <<>> \in Seq(U)
    BY <1>4
  <2>4. z[1] = 0
    BY <1>3
  <2>5. \A j \in 1..(Len(<<>>) + 1) : BlockAround(<<>>, z, z, j)
    BY <1>4, <2>1
  <2>6. \A i, j \in 1..(Len(<<>>) + 1) : i <= j => z[i] <= z[j]
    BY <1>4, <2>2
  <2>7. \A j \in 1..Len(<<>>) : CallAt(<<>>, data, z, z, z, j)
    BY <1>4
  <2>8. QED BY <1>3, <2>3, <2>4, <2>5, <2>6, <2>7 DEF Traced
<1>6. Constructing(<<>>, z, z, z, z)
  <2>1. Chain(<<>>, z, z, 0, 1)
    BY <1>3 DEF Chain
  <2>2. z[Len(<<>>) + 1] = bitpos
    BY <1>2, <1>3, <1>4
  <2>3. Len(scope_stack) = 0
    BY <1>2
  <2>4. Chain(<<>>, z, z, Len(scope_stack), Len(<<>>) + 1)
    BY <1>4, <2>1, <2>3
  <2>5. \A k \in 1..Len(scope_stack) : FALSE
    BY <2>3
  <2>6. \A i \in 1..Len(<<>>) : FALSE
    BY <1>4
  <2>7. QED BY <1>5, <2>2, <2>4, <2>5, <2>6 DEF Constructing
<1>7. Constructing(calls.binary, z, z, z, z)
  BY <1>2, <1>6
<1>8. QED BY <1>7 DEF ConstructInv

\* a call constructs
LEMMA ConstructStep ==
  ASSUME NumbersFit, IInv, DataInv, ConstructInv, Construct
  PROVE  ConstructInv'
<1>1. SUFFICES ASSUME ~thrown'
               PROVE  \E pos, par, end, st : Constructing(calls.binary, pos, par, end, st)'
  BY DEF ConstructInv
<1>3. PICK C : C = calls.binary
  OBVIOUS
<1>4. CASE \E f \in Fields :
             LET call == [name |-> "uint", field |-> f, gave |-> f.val] IN
             OnBoth(Uint(f), T!Uint(f), call, call)
  <2>1. PICK f \in Fields :
          LET call == [name |-> "uint", field |-> f, gave |-> f.val] IN
          OnBoth(Uint(f), T!Uint(f), call, call)
    BY <1>4
  <2>2. PICK call : call = [name |-> "uint", field |-> f, gave |-> f.val]
    OBVIOUS
  <2>3. /\ Uint(f) \/ (thrown /\ UNCHANGED vars)
        /\ (calls.binary)' = Append(C, call)
    BY <1>1, <1>3, <2>1, <2>2 DEF OnBoth
  <2>4. ~thrown /\ f.size <= f.w /\ Write(f.w, f.size, f.val)
    BY <1>1, <2>3 DEF vars, Uint, Write, RefuseWrite
  <2>5. PICK pos, par, end, st : Constructing(C, pos, par, end, st)
    BY <1>3, <2>4 DEF ConstructInv
  <2>6. \E pos2, par2, end2, st2 : Constructing(Append(C, call), pos2, par2, end2, st2)'
    BY <2>2, <2>4, <2>5, ConstructNumber
  <2>7. PICK D : D = Append(C, call)
    OBVIOUS
  <2>8. \E pos2, par2, end2, st2 : Constructing(D, pos2, par2, end2, st2)'
    BY <2>6, <2>7
  <2>9. (calls.binary)' = D
    BY <2>3, <2>7
  <2>10. QED BY <2>8, <2>9 DEF Constructing
<1>5. CASE \E size \in LengthBits :
             LET call == [name |-> "named_block_begin", field |-> size, gave |-> 0] IN
             OnBoth(NamedBlockBegin(size), T!NamedBlockBegin(size), call, call)
  <2>1. PICK size \in LengthBits :
          LET call == [name |-> "named_block_begin", field |-> size, gave |-> 0] IN
          OnBoth(NamedBlockBegin(size), T!NamedBlockBegin(size), call, call)
    BY <1>5
  <2>2. PICK call : call = [name |-> "named_block_begin", field |-> size, gave |-> 0]
    OBVIOUS
  <2>3. /\ NamedBlockBegin(size) \/ (thrown /\ UNCHANGED vars)
        /\ (calls.binary)' = Append(C, call)
    BY <1>1, <1>3, <2>1, <2>2 DEF OnBoth
  <2>4. ~thrown /\ BeginBlock(size)
    BY <1>1, <2>3 DEF vars, NamedBlockBegin, BeginBlock, RefuseBegin
  <2>5. PICK pos, par, end, st : Constructing(C, pos, par, end, st)
    BY <1>3, <2>4 DEF ConstructInv
  <2>6. \E pos2, par2, end2, st2 : Constructing(Append(C, call), pos2, par2, end2, st2)'
    BY <2>2, <2>4, <2>5, ConstructBegin
  <2>7. PICK D : D = Append(C, call)
    OBVIOUS
  <2>8. \E pos2, par2, end2, st2 : Constructing(D, pos2, par2, end2, st2)'
    BY <2>6, <2>7
  <2>9. (calls.binary)' = D
    BY <2>3, <2>7
  <2>10. QED BY <2>8, <2>9 DEF Constructing
<1>6. CASE OnBoth(NamedBlockEnd, T!NamedBlockEnd, Ended(returned'), Ended(text_returned'))
  <2>1. PICK call : call = Ended(returned')
    OBVIOUS
  <2>2. /\ NamedBlockEnd \/ (thrown /\ UNCHANGED vars)
        /\ (calls.binary)' = Append(C, call)
    BY <1>1, <1>3, <1>6, <2>1 DEF OnBoth
  <2>3. ~thrown /\ EndBlock
    BY <1>1, <2>2 DEF vars, NamedBlockEnd, EndBlock, RefuseLength, RefuseEnd
  <2>4. call.name = "named_block_end" /\ call.gave = returned'
    BY <2>1 DEF Ended
  <2>5. PICK pos, par, end, st : Constructing(C, pos, par, end, st)
    BY <1>3, <2>3 DEF ConstructInv
  <2>6. \E pos2, par2, end2, st2 : Constructing(Append(C, call), pos2, par2, end2, st2)'
    BY <2>3, <2>4, <2>5, ConstructEnd
  <2>7. PICK D : D = Append(C, call)
    OBVIOUS
  <2>8. \E pos2, par2, end2, st2 : Constructing(D, pos2, par2, end2, st2)'
    BY <2>6, <2>7
  <2>9. (calls.binary)' = D
    BY <2>2, <2>7
  <2>10. QED BY <2>8, <2>9 DEF Constructing
<1>7. QED BY <1>4, <1>5, <1>6 DEF Construct

\* what matters of a message is what was written
LEMMA TracedBits ==
  ASSUME NEW C, NEW bits, NEW bits2, NEW pos, NEW par, NEW end, Traced(C, bits, pos, par, end),
         Kept(bits, bits2, 0, pos[Len(C) + 1])
  PROVE  Traced(C, bits2, pos, par, end)
<1> DEFINE n == Len(C)
           x == n + 1
<1>1. /\ \A i \in Nat : pos[i] \in Nat
      /\ \A i, k \in 1..x : i <= k => pos[i] <= pos[k]
  BY TraceFacts DEF Traced
<1>9. n \in Nat
  BY TraceFacts
<1>2. ASSUME NEW j \in 1..n PROVE CallAt(C, bits2, pos, par, end, j)
  <2> DEFINE m == j + 1
             f == pos[j]
             g == pos[m]
             y == pos[x]
  <2>1. j \in Nat /\ m \in 1..x /\ x \in 1..x /\ m <= x /\ m \in Nat /\ x \in Nat
    <3>1. n \in Nat
      BY <1>9
    <3> HIDE DEF n
    <3>2. QED BY <3>1
  <2> HIDE DEF m, x
  <2>2. f \in Nat /\ g \in Nat /\ y \in Nat /\ g <= y
    BY <1>1, <2>1
  <2>3. Kept(bits, bits2, 0, y)
    BY DEF x
  <2> HIDE DEF f, g, y
  <2>4. ASSUME NEW size \in Nat, NEW val, g = f + size, g <= BufferBits,
               Holds(bits, f, size, val)
        PROVE  Holds(bits2, f, size, val)
    <3>1. ASSUME NEW i \in f..(f + size - 1) PROVE bits2[i] = bits[i]
      <4>1. BufferBits \in Nat
        BY Sizes
      <4>2. i \in Nat /\ 0 <= i /\ i < y /\ i < BufferBits
        BY <2>2, <2>4, <4>1
      <4>3. QED BY <2>3, <4>2 DEF Kept
    <3>2. QED BY <2>4, <3>1 DEF Holds
  <2>5. CASE NumberAt(C, bits, pos, par, j)
    <3> DEFINE h == C[j].field
    <3>1. h \in Fields /\ g = f + h.size /\ g <= BufferBits /\ Holds(bits, f, h.size, h.val)
      BY <2>5 DEF NumberAt, f, g, m
    <3>2. h.size \in Nat
      BY <3>1, Sizes
    <3> HIDE DEF h
    <3>3. Holds(bits2, f, h.size, h.val)
      BY <2>4, <3>1, <3>2
    <3>4. NumberAt(C, bits2, pos, par, j)
      BY <2>5, <3>3 DEF NumberAt, f, h
    <3>5. QED BY <3>4 DEF CallAt
  <2>6. CASE BeginAt(C, bits, pos, par, end, j)
    <3> DEFINE s == C[j].field
               gave == C[end[j]].gave
    <3>1. s \in LengthBits /\ g = f + s
      BY <2>6 DEF BeginAt, f, g, m
    <3>2. s \in Nat
      BY <3>1, Sizes
    <3>3. ASSUME end[j] # 0 PROVE LengthAt(C, bits2, pos, end, j)
      <4>1. LengthAt(C, bits, pos, end, j)
        BY <2>6, <3>3 DEF BeginAt
      <4>2. g <= BufferBits /\ Holds(bits, f, s, gave)
        BY <4>1 DEF LengthAt, f, g, m
      <4> HIDE DEF s, gave
      <4>3. Holds(bits2, f, s, gave)
        BY <2>4, <3>1, <3>2, <4>2
      <4>4. QED BY <4>1, <4>3 DEF LengthAt, f, s, gave
    <3>4. BeginAt(C, bits2, pos, par, end, j)
      BY <2>6, <3>3 DEF BeginAt
    <3>5. QED BY <3>4 DEF CallAt
  <2>7. CASE EndAt(C, pos, par, end, j)
    BY <2>7 DEF CallAt
  <2>8. CallAt(C, bits, pos, par, end, j)
    BY DEF Traced
  <2>9. QED BY <2>5, <2>6, <2>7, <2>8 DEF CallAt
<1>3. QED BY <1>2 DEF Traced

\* the bytes passed on hold all that was written
LEMMA AllPassedOn ==
  ASSUME NEW bits \in Nat
  PROVE  LET bytes == (bits + ByteBits - 1) \div ByteBits IN
         /\ bytes \in Nat
         /\ bytes * ByteBits \in Nat
         /\ bits <= bytes * ByteBits
<1> DEFINE a == bits + ByteBits - 1
           bytes == a \div ByteBits
           r == a % ByteBits
<1>1. ByteBits \in Nat \ {0}
  BY Sizes
<1>2. a \in Nat
  BY <1>1
<1> HIDE DEF a
<1>3. bytes \in Nat /\ r \in 0..(ByteBits - 1) /\ a = ByteBits * bytes + r
  BY <1>1, <1>2
<1> HIDE DEF bytes, r
<1>4. ByteBits * bytes \in Nat /\ bytes * ByteBits = ByteBits * bytes
  BY <1>1, <1>3
<1> DEFINE w == ByteBits * bytes
<1>5. w \in Nat /\ bits + ByteBits - 1 = w + r
  BY <1>3, <1>4 DEF a
<1> HIDE DEF w
<1>6. bits <= w
  BY <1>1, <1>3, <1>5
<1>7. QED BY <1>3, <1>4, <1>6 DEF w, bytes, a

\* what was constructed is given to a context that parses
LEMMA ReparseStep ==
  ASSUME IInv, DataInv, ConstructInv, results = <<>>, Reparse
  PROVE  RepeatInv'
<1>1. SUFFICES ASSUME phase' = "binary" PROVE RepeatInv'
  BY DEF RepeatInv
<1>2. /\ ~thrown /\ scope_stack = <<>>
      /\ I!ParseBinary([i \in 0..(BytesUsed * ByteBits - 1) |-> data[i]], BytesUsed)
      /\ UNCHANGED <<vars, calls, results>>
  BY <1>1 DEF Reparse
<1>3. PICK C : C = calls.binary
  OBVIOUS
<1>4. PICK pos, par, end, st : Constructing(C, pos, par, end, st)
  BY <1>2, <1>3 DEF ConstructInv
<1>5. /\ Traced(C, data, pos, par, end)
      /\ Len(C) \in Nat /\ bitpos \in Nat
      /\ pos[Len(C) + 1] = bitpos
      /\ Chain(C, par, st, Len(scope_stack), Len(C) + 1)
  BY <1>4, ConstructFacts
<1>6. /\ BytesUsed * ByteBits \in Nat /\ bitpos <= BytesUsed * ByteBits
  BY <1>5, AllPassedOn DEF BytesUsed
<1>7. /\ in_bitpos' = 0 /\ in_bitlimit' = BytesUsed * ByteBits /\ in_scope_stack' = <<>>
      /\ message' = [i \in 0..(BytesUsed * ByteBits - 1) |-> data[i]]
      /\ in_thrown' = FALSE
      /\ bitpos' = bitpos /\ thrown' = thrown /\ (calls.binary)' = C /\ results' = <<>>
  BY <1>2, <1>3 DEF I!ParseBinary, vars
<1>8. Traced(C, message', pos, par, end)
  <2> DEFINE upto == BytesUsed * ByteBits
  <2>1. message' = [i \in 0..(upto - 1) |-> data[i]] /\ upto \in Nat /\ bitpos <= upto
    BY <1>6, <1>7
  <2> HIDE DEF upto
  <2>2. ASSUME NEW i \in Nat, i < bitpos PROVE message'[i] = data[i]
    <3>1. i \in 0..(upto - 1)
      BY <1>5, <2>1, <2>2
    <3>2. QED BY <2>1, <3>1
  <2>3. Kept(data, message', 0, pos[Len(C) + 1])
    BY <1>5, <2>2 DEF Kept
  <2>4. PICK bits2 : bits2 = message'
    OBVIOUS
  <2>5. QED BY <1>5, <2>3, <2>4, TracedBits
<1>9. \A i \in 1..Len(C) : C[i].name = "named_block_begin" => end[i] # 0
  <2>1. \A i \in 1..Len(C) : C[i].name = "named_block_begin" /\ end[i] = 0
                             => \E k \in 1..Len(scope_stack) : st[k] = i
    BY <1>4 DEF Constructing
  <2>2. 1..Len(scope_stack) = {}
    BY <1>2
  <2>3. QED BY <2>1, <2>2
<1>10. pos[1] = 0 /\ par[1] = 0
  BY <1>5 DEF Traced
<1>11. Chain(C, par, st, 0, 1)
  <2>1. st \in [Nat -> Nat]
    BY <1>5 DEF Chain
  <2>2. 1..0 = {}
    OBVIOUS
  <2>3. QED BY <1>10, <2>1, <2>2 DEF Chain
<1>12. Repeating(C, pos, par, end, st, 1)'
  <2>1. /\ Len(in_scope_stack') = 0 /\ 1..Len(in_scope_stack') = {}
        /\ \E U : in_scope_stack' \in Seq(U)
    <3>1. <<>> \in Seq({}) /\ Len(<<>>) = 0
      OBVIOUS
    <3>2. QED BY <1>7, <3>1
  <2>2. LimitIn(in_bitlimit', in_scope_stack', 0) = in_bitlimit'
    BY <2>1 DEF LimitIn
  <2>3. pos[Len(C) + 1] = bitpos' /\ in_bitpos' = pos[1]
        /\ LimitIn(in_bitlimit', in_scope_stack', 0) \in Nat
        /\ pos[Len(C) + 1] <= LimitIn(in_bitlimit', in_scope_stack', 0)
    BY <1>5, <1>6, <1>7, <1>10, <2>2
  <2>4. Chain(C, par, st, Len(in_scope_stack'), 1)
    BY <1>11, <2>1
  <2>5. Reading(C, message', pos, par, end, st, 1, in_bitlimit', in_scope_stack')
    BY <1>8, <1>9, <2>1, <2>3, <2>4 DEF Reading
  <2>6. QED BY <2>3, <2>5 DEF Repeating
<1>13. Len(results') = 0 /\ Len(results') + 1 = 1 /\ \E U : results' \in Seq(U)
  <2>1. <<>> \in Seq({}) /\ Len(<<>>) = 0 /\ 0 + 1 = 1
    OBVIOUS
  <2>2. QED BY <1>7, <2>1
<1>14. Repeating(calls.binary, pos, par, end, st, Len(results) + 1)'
  BY <1>7, <1>12, <1>13 DEF Repeating
<1>15. Len(results') <= Len(C) /\ 1..Len(results') = {}
  BY <1>5, <1>13
<1>16. QED BY <1>2, <1>7, <1>13, <1>14, <1>15 DEF RepeatInv

----------------------------------------------------------------------------
\* the invariant: what the message is made of while it is constructed, how far
\* it has been read when it is parsed
RoundInv == /\ IInv /\ DataInv
            /\ phase = "construct" => ConstructInv /\ results = <<>>
            /\ RepeatInv

LEMMA RoundInvHolds ==
  ASSUME NumbersFit
  PROVE  /\ ModesInit => RoundInv
         /\ RoundInv /\ [ModesNext]_modes_vars => RoundInv'
<1>1. ModesInit => RoundInv
  <2>1. ModesInit => IInv /\ DataInv
    BY InvariantHolds, DataInvHolds DEF ModesInit
  <2>2. ModesInit => phase = "construct" /\ results = <<>>
    BY DEF ModesInit
  <2>3. QED BY <2>1, <2>2, NothingConstructed DEF RoundInv, RepeatInv
<1>2. ASSUME RoundInv, [ModesNext]_modes_vars PROVE RoundInv'
  <2>1. IInv' /\ DataInv'
    <3>1. [Next]_vars
      BY <1>2, ConstructionPart
    <3>2. QED BY <1>2, <3>1, InvariantHolds, DataInvHolds DEF RoundInv
  <2>2. CASE Construct
    <3>1. phase = "construct" /\ phase' = phase /\ results' = results
      BY <2>2 DEF Construct, OnBoth
    <3>2. ConstructInv' /\ RepeatInv'
      BY <1>2, <2>2, <3>1, ConstructStep DEF RoundInv, RepeatInv
    <3>3. QED BY <1>2, <2>1, <3>1, <3>2 DEF RoundInv
  <2>3. CASE Reparse
    <3>1. phase = "construct" /\ phase' # "construct"
      BY <2>3 DEF Reparse
    <3>2. RepeatInv'
      BY <1>2, <2>3, <3>1, ReparseStep DEF RoundInv
    <3>3. QED BY <2>1, <3>1, <3>2 DEF RoundInv
  <2>4. CASE RepeatBinary
    <3>1. phase' = "binary"
      BY <2>4 DEF RepeatBinary, Repeated
    <3>2. RepeatInv'
      BY <1>2, <2>4, RepeatStep DEF RoundInv
    <3>3. QED BY <2>1, <3>1, <3>2 DEF RoundInv
  <2>5. CASE RepeatText
    <3>1. phase' = "text"
      BY <2>5 DEF RepeatText, Repeated
    <3>2. QED BY <2>1, <3>1 DEF RoundInv, RepeatInv
  <2>6. CASE UNCHANGED modes_vars
    <3>1. /\ UNCHANGED <<bitpos, scope_stack, data, thrown>>
          /\ UNCHANGED <<in_bitpos, in_bitlimit, in_scope_stack, message, in_thrown>>
          /\ UNCHANGED <<phase, calls, results>>
      BY <2>6 DEF modes_vars, vars, in
    <3>2. ConstructInv' <=> ConstructInv
      BY <3>1 DEF ConstructInv, Constructing
    <3>3. RepeatInv' <=> RepeatInv
      BY <3>1 DEF RepeatInv, Repeating
    <3>4. QED BY <1>2, <2>1, <3>1, <3>2, <3>3 DEF RoundInv
  <2>7. QED BY <1>2, <2>2, <2>3, <2>4, <2>5, <2>6 DEF ModesNext
<1>3. QED BY <1>1, <1>2

\* The calls that have constructed a message parse it back, whatever the
\* numbers, the nesting and the lengths: none throws, each gives what it was
\* given or had returned, and the message is read to its last bit; if the
\* numbers written have as many bits as the client says
THEOREM BinaryRoundTrip == ASSUME NumbersFit PROVE ModesSpec => []RoundTrip
<1>1. RoundInv => RoundTrip
  <2>1. SUFFICES ASSUME RoundInv, phase = "binary"
                 PROVE  /\ ~in_thrown
                        /\ \A i \in 1..Len(results) : results[i] = calls.binary[i].gave
                        /\ Len(results) = Len(calls.binary) => in_bitpos = bitpos
    BY DEF RoundTrip
  <2>2. ~in_thrown /\ \A i \in 1..Len(results) : results[i] = calls.binary[i].gave
    BY <2>1 DEF RoundInv, RepeatInv
  <2>3. ASSUME Len(results) = Len(calls.binary) PROVE in_bitpos = bitpos
    <3>1. PICK pos, par, end, st :
            Repeating(calls.binary, pos, par, end, st, Len(results) + 1)
      BY <2>1 DEF RoundInv, RepeatInv
    <3>2. QED BY <2>3, <3>1 DEF Repeating
  <2>4. QED BY <2>2, <2>3
<1>2. QED BY <1>1, RoundInvHolds, PTL DEF ModesSpec

----------------------------------------------------------------------------
(* the digits of a number in a text *)

Bases == {10, 16}

LEMMA DivisionByBase ==
  ASSUME NEW base \in Bases, NEW v \in Nat
  PROVE  /\ base \in Nat /\ base > 0
         /\ v \div base \in Nat /\ v % base \in 0..(base - 1)
         /\ v = (base * (v \div base)) + (v % base)
         /\ v >= base => v \div base < v
<1>1. CASE base = 10
  BY <1>1
<1>2. CASE base = 16
  BY <1>2
<1>3. QED BY <1>1, <1>2 DEF Bases

\* f[n] is what the first n digits spell
Spells(s, base, f) ==
  f = [n \in 0..Len(s) |-> IF n = 0 THEN 0 ELSE base * f[n - 1] + s[n]]

LEMMA SpellsEach ==
  ASSUME NEW s \in Seq(Nat), NEW base, NEW f, Spells(s, base, f)
  PROVE  /\ Len(s) \in Nat /\ f[0] = 0
         /\ \A n \in 1..Len(s) : f[n] = base * f[n - 1] + s[n]
<1>1. Len(s) \in Nat
  BY LenProperties
<1>2. \A n \in 0..Len(s) : f[n] = IF n = 0 THEN 0 ELSE base * f[n - 1] + s[n]
  BY DEF Spells
<1>3. \A n \in 1..Len(s) : n \in 0..Len(s) /\ n # 0
  BY <1>1
<1>4. 0 \in 0..Len(s)
  BY <1>1
<1>5. QED BY <1>1, <1>2, <1>3, <1>4

\* more digits do not change what the first ones spell
LEMMA SpellsOnce ==
  ASSUME NEW s \in Seq(Nat), NEW t \in Seq(Nat), NEW base \in Bases, NEW f, NEW g,
         Spells(s, base, f), Spells(t, base, g), Len(s) <= Len(t),
         \A i \in 1..Len(s) : t[i] = s[i]
  PROVE  \A n \in 0..Len(s) : g[n] = f[n]
<1> DEFINE Differ == {n \in 0..Len(s) : g[n] # f[n]}
<1>1. SUFFICES ASSUME Differ # {} PROVE FALSE
  OBVIOUS
<1>2. Len(s) \in Nat /\ Len(t) \in Nat
  BY LenProperties
<1>3. Differ \in SUBSET Nat
  BY <1>2
<1> HIDE DEF Differ
<1>4. PICK n \in Differ : \A m \in Differ : n <= m
  BY <1>1, <1>3, LeastOf
<1>5. n \in 0..Len(s) /\ g[n] # f[n] /\ n # 0
  <2>1. f[0] = 0 /\ g[0] = 0
    BY SpellsEach
  <2>2. QED BY <1>4, <2>1 DEF Differ
<1> DEFINE m == n - 1
<1>6. m \in 0..Len(s) /\ m < n /\ n \in 1..Len(s) /\ n \in 1..Len(t)
  BY <1>2, <1>5
<1>7. m \notin Differ
  <2>1. n \in Nat /\ m \in Nat
    BY <1>2, <1>5
  <2> HIDE DEF m
  <2>2. QED BY <1>4, <1>6, <2>1
<1>8. g[m] = f[m]
  BY <1>6, <1>7 DEF Differ
<1>9. f[n] = base * f[m] + s[n] /\ g[n] = base * g[m] + t[n] /\ t[n] = s[n]
  BY <1>6, SpellsEach
<1>10. QED BY <1>5, <1>8, <1>9

LEMMA SpellsAll ==
  ASSUME NEW s \in Seq(Nat), NEW base \in Bases
  PROVE  \E f \in [0..Len(s) -> Nat] : Spells(s, base, f)
<1> DEFINE P(k, f) == /\ f \in [0..k -> Nat]
                      /\ f[0] = 0
                      /\ \A n \in 1..k : f[n] = base * f[n - 1] + s[n]
           Lacking == {k \in 0..Len(s) : ~\E f : P(k, f)}
<1>1. Len(s) \in Nat /\ base \in Nat /\ \A n \in 1..Len(s) : s[n] \in Nat
  BY LenProperties, ElementOfSeq DEF Bases
<1>2. SUFFICES ASSUME Lacking # {} PROVE FALSE
  <2>1. ASSUME Lacking = {} PROVE \E f : P(Len(s), f)
    <3>1. Len(s) \in 0..Len(s)
      BY <1>1
    <3>2. QED BY <2>1, <3>1
  <2>2. ASSUME NEW f, P(Len(s), f) PROVE f \in [0..Len(s) -> Nat] /\ Spells(s, base, f)
    <3>1. \A n \in 0..Len(s) : n = 0 \/ n \in 1..Len(s)
      BY <1>1
    <3>2. QED BY <2>2, <3>1 DEF Spells
  <2>3. QED BY <2>1, <2>2
<1>3. Lacking \in SUBSET Nat
  BY <1>1
<1> HIDE DEF Lacking
<1>4. PICK k \in Lacking : \A m \in Lacking : k <= m
  BY <1>2, <1>3, LeastOf
<1>5. k \in 0..Len(s) /\ ~\E f : P(k, f)
  BY <1>4 DEF Lacking
<1>6. k # 0
  <2>1. P(0, [n \in 0..0 |-> 0])
    OBVIOUS
  <2>2. QED BY <1>5, <2>1
<1> DEFINE m == k - 1
<1>7. m \in 0..Len(s) /\ m < k /\ k \in 1..Len(s) /\ k \in Nat /\ m \in Nat
  BY <1>1, <1>5, <1>6
<1>8. PICK f : P(m, f)
  <2> HIDE DEF m
  <2>1. m \notin Lacking
    BY <1>4, <1>7
  <2>2. QED BY <1>7, <2>1 DEF Lacking
<1> DEFINE y == f[m]
           x == base * y + s[k]
           g == [n \in 0..k |-> IF n = k THEN x ELSE f[n]]
<1>9. y \in Nat /\ s[k] \in Nat
  <2>1. m \in 0..m
    BY <1>7
  <2>2. QED BY <1>1, <1>7, <1>8, <2>1
<1> HIDE DEF y
<1>10. x \in Nat
  <2>1. base * y \in Nat
    BY <1>1, <1>9
  <2>2. QED BY <1>9, <2>1
<1>11. \A n \in 0..k : n = k \/ n \in 0..m
  BY <1>7
<1> HIDE DEF x
<1>12. g \in [0..k -> Nat] /\ g[0] = 0
  <2>1. 0 \in 0..k /\ \A n \in 0..m : f[n] \in Nat
    BY <1>7, <1>8
  <2> HIDE DEF m
  <2>2. QED BY <1>6, <1>8, <1>10, <1>11, <2>1
<1>13. ASSUME NEW n \in 1..k PROVE g[n] = base * g[n - 1] + s[n]
  <2> DEFINE l == n - 1
  <2>1. l \in 0..k /\ l # k /\ n \in 0..k /\ (n = k => l = m) /\ (n # k => n \in 1..m)
    BY <1>7
  <2>2. g[l] = f[l]
    BY <2>1
  <2>3. CASE n = k
    BY <2>1, <2>2, <2>3 DEF x, y
  <2>4. CASE n # k
    <3>1. f[n] = base * f[l] + s[n] /\ g[n] = f[n]
      BY <1>8, <2>1, <2>4
    <3>2. QED BY <2>2, <3>1
  <2>5. QED BY <2>3, <2>4
<1>14. P(k, g)
  BY <1>12, <1>13
<1>15. QED BY <1>5, <1>14

\* what is spelled is a number
LEMMA SpelledIs ==
  ASSUME NEW s \in Seq(Nat), NEW base \in Bases
  PROVE  /\ R!Spelled(s, base) \in Nat
         /\ \E f : Spells(s, base, f) /\ R!Spelled(s, base) = f[Len(s)]
<1> DEFINE n == Len(s)
           value == CHOOSE v : v = [k \in 0..n |-> IF k = 0 THEN 0 ELSE base * v[k - 1] + s[k]]
<1>1. n \in Nat /\ n \in 0..n
  BY LenProperties
<1>2. PICK f \in [0..n -> Nat] : Spells(s, base, f)
  BY SpellsAll
<1>3. Spells(s, base, value)
  BY <1>2 DEF Spells
<1>4. R!Spelled(s, base) = value[n]
  BY DEF R!Spelled
<1> HIDE DEF value
<1>5. value[n] = f[n]
  BY <1>1, <1>2, <1>3, SpellsOnce
<1>6. f[n] \in Nat
  BY <1>1, <1>2
<1>7. QED BY <1>3, <1>4, <1>5, <1>6

\* one more digit
LEMMA SpelledMore ==
  ASSUME NEW s \in Seq(Nat), NEW d \in Nat, NEW base \in Bases
  PROVE  R!Spelled(Append(s, d), base) = (base * R!Spelled(s, base)) + d
<1> DEFINE t == Append(s, d)
           n == Len(s)
           m == n + 1
<1>1. /\ n \in Nat /\ t \in Seq(Nat) /\ Len(t) = m
      /\ \A i \in 1..n : t[i] = s[i]
      /\ \A i \in 1..m : i = m => t[i] = d
  BY AppendProperties, LenProperties
<1>2. n <= m /\ n \in 0..n /\ m \in 1..m /\ m - 1 = n
  BY <1>1
<1> HIDE DEF t, m
<1>3. PICK f : Spells(s, base, f) /\ R!Spelled(s, base) = f[n]
  BY SpelledIs
<1>4. PICK g : Spells(t, base, g) /\ R!Spelled(t, base) = g[m]
  BY <1>1, SpelledIs
<1>5. g[n] = f[n]
  BY <1>1, <1>2, <1>3, <1>4, SpellsOnce
<1>6. g[m] = base * g[m - 1] + t[m] /\ t[m] = d
  BY <1>1, <1>2, <1>4, SpellsEach
<1>7. QED BY <1>2, <1>3, <1>4, <1>5, <1>6 DEF t

LEMMA SpelledOne ==
  ASSUME NEW d \in Nat, NEW base \in Bases
  PROVE  R!Spelled(<<d>>, base) = d
<1>1. <<>> \in Seq(Nat) /\ Append(<<>>, d) = <<d>> /\ Len(<<>>) = 0
  OBVIOUS
<1>2. R!Spelled(<<>>, base) = 0
  <2>1. PICK f : Spells(<<>>, base, f) /\ R!Spelled(<<>>, base) = f[Len(<<>>)]
    BY <1>1, SpelledIs
  <2>2. QED BY <1>1, <2>1, SpellsEach
<1>3. R!Spelled(<<d>>, base) = base * 0 + d
  BY <1>1, <1>2, SpelledMore
<1>4. base \in Nat
  BY DEF Bases
<1>5. QED BY <1>3, <1>4

----------------------------------------------------------------------------
\* g[v] are the digits of v
Shows(top, base, g) ==
  g = [v \in 0..top |-> IF v < base THEN <<v>> ELSE Append(g[v \div base], v % base)]

LEMMA ShowsAll ==
  ASSUME NEW top \in Nat, NEW base \in Bases
  PROVE  \E g : Shows(top, base, g)
<1> DEFINE Shown(f, v) == IF v < base THEN <<v>> ELSE Append(f[v \div base], v % base)
           P(k, f) == f = [v \in 0..k |-> Shown(f, v)]
           Lacking == {k \in 0..top : ~\E f : P(k, f)}
<1>1. SUFFICES ASSUME Lacking # {} PROVE FALSE
  <2>1. top \in 0..top
    OBVIOUS
  <2>2. ASSUME Lacking = {} PROVE \E f : P(top, f)
    BY <2>1, <2>2
  <2>3. QED BY <2>2 DEF Shows
<1>2. Lacking \in SUBSET Nat
  OBVIOUS
<1> HIDE DEF Lacking
<1>3. PICK k \in Lacking : \A m \in Lacking : k <= m
  BY <1>1, <1>2, LeastOf
<1>4. k \in 0..top /\ ~\E f : P(k, f)
  BY <1>3 DEF Lacking
<1>5. k # 0
  <2> DEFINE f == [v \in 0..0 |-> <<v>>]
  <2>1. \A v \in 0..0 : v < base
    BY DEF Bases
  <2>2. P(0, f)
    BY <2>1
  <2>3. QED BY <1>4, <2>2
<1> DEFINE m == k - 1
<1>6. m \in 0..top /\ m \in Nat /\ k \in Nat /\ k = m + 1 /\ ~(k <= m)
  BY <1>4, <1>5
<1>7. PICK f : P(m, f)
  <2> HIDE DEF m, P
  <2>1. m \notin Lacking
    BY <1>3, <1>6
  <2>2. QED BY <1>6, <2>1 DEF Lacking
<1> DEFINE x == Shown(f, k)
           g == [v \in 0..k |-> IF v = k THEN x ELSE f[v]]
<1> HIDE DEF m, x
<1>8. \A v \in 0..k : v \in Nat /\ v <= k /\ (v # k => v \in 0..m)
  BY <1>6
<1>9. \A v \in 0..m : v \in 0..k /\ v # k
  BY <1>6
<1>10. ASSUME NEW v \in 0..k, ~(v < base) PROVE g[v \div base] = f[v \div base]
  <2>1. /\ v \div base \in Nat /\ v \div base < v
        /\ v \in Nat /\ v <= k
    BY <1>8, <1>10, DivisionByBase DEF Bases
  <2> DEFINE w == v \div base
  <2>2. w \in 0..k /\ w # k
    <3> HIDE DEF w
    <3>1. w \in Nat /\ w < v
      BY <2>1 DEF w
    <3>2. QED BY <1>6, <2>1, <3>1
  <2> HIDE DEF w
  <2>3. g[w] = f[w]
    BY <2>2
  <2>4. QED BY <2>3 DEF w
<1>11. ASSUME NEW v \in 0..k PROVE g[v] = Shown(g, v)
  <2>1. CASE v = k
    BY <1>10, <1>11, <2>1 DEF x
  <2>2. CASE v # k
    <3>1. v \in 0..m /\ g[v] = f[v]
      BY <1>8, <2>2
    <3>2. f[v] = Shown(f, v)
      BY <1>7, <3>1
    <3>3. QED BY <1>10, <3>1, <3>2
  <2>3. QED BY <2>1, <2>2
<1>12. P(k, g)
  <2> DEFINE h == [v \in 0..k |-> Shown(g, v)]
  <2>1. \A v \in 0..k : g[v] = h[v]
    BY <1>11
  <2>2. g = h
    <3>1. g = [v \in 0..k |-> g[v]]
      OBVIOUS
    <3> HIDE DEF g, Shown
    <3>2. QED BY <1>11, <3>1
  <2>3. QED BY <2>2
<1> HIDE DEF g, P
<1>13. QED BY <1>4, <1>12

\* the digits of a number spell it
LEMMA DigitsSpell ==
  ASSUME NEW val \in Nat, NEW base \in Bases
  PROVE  /\ T!Digits(val, base) \in Seq(Nat)
         /\ R!Spelled(T!Digits(val, base), base) = val
<1> DEFINE digits == CHOOSE d : d = [v \in 0..val |-> IF v < base THEN <<v>>
                                     ELSE Append(d[v \div base], v % base)]
<1>1. T!Digits(val, base) = digits[val]
  BY DEF T!Digits
<1>2. Shows(val, base, digits)
  BY ShowsAll DEF Shows
<1> HIDE DEF digits
<1>3. \A v \in 0..val : digits[v] = IF v < base THEN <<v>>
                                    ELSE Append(digits[v \div base], v % base)
  BY <1>2 DEF Shows
<1> DEFINE Wrong == {v \in 0..val : ~(digits[v] \in Seq(Nat) /\ R!Spelled(digits[v], base) = v)}
<1>4. SUFFICES ASSUME Wrong # {} PROVE FALSE
  <2>1. val \in 0..val
    OBVIOUS
  <2>2. QED BY <1>1, <2>1
<1>5. Wrong \in SUBSET Nat
  OBVIOUS
<1> HIDE DEF Wrong
<1>6. PICK v \in Wrong : \A m \in Wrong : v <= m
  BY <1>4, <1>5, LeastOf
<1>7. v \in 0..val /\ v \in Nat /\ ~(digits[v] \in Seq(Nat) /\ R!Spelled(digits[v], base) = v)
  BY <1>6 DEF Wrong
<1>8. CASE v < base
  <2>1. digits[v] = <<v>>
    BY <1>3, <1>7, <1>8
  <2>2. QED BY <1>7, <2>1, SpelledOne
<1>9. CASE ~(v < base)
  <2>1. PICK w : w = v \div base
    OBVIOUS
  <2>2. PICK r : r = v % base
    OBVIOUS
  <2>3. /\ w \in Nat /\ r \in 0..(base - 1) /\ v = base * w + r /\ base \in Nat
        /\ w < v
    BY <1>7, <1>9, <2>1, <2>2, DivisionByBase DEF Bases
  <2>4. w \in 0..val /\ r \in Nat /\ ~(v <= w)
    BY <1>7, <2>3
  <2>5. w \notin Wrong
    BY <1>6, <2>4
  <2>6. digits[w] \in Seq(Nat) /\ R!Spelled(digits[w], base) = w
    BY <2>4, <2>5 DEF Wrong
  <2>7. digits[v] = Append(digits[w], r)
    BY <1>3, <1>7, <1>9, <2>1, <2>2
  <2>8. Append(digits[w], r) \in Seq(Nat)
    BY <2>4, <2>6, AppendProperties
  <2>9. R!Spelled(Append(digits[w], r), base) = base * w + r
    BY <2>4, <2>6, SpelledMore
  <2>10. QED BY <1>7, <2>3, <2>7, <2>8, <2>9
<1>10. QED BY <1>8, <1>9

\* the number that a context reads of what was written
LEMMA ReadsWritten ==
  ASSUME NEW f \in Fields, Legible(f)
  PROVE  LET token == T!Written(f.name, f.hint, f.size, f.val) IN
         /\ token.kind = "number" /\ token.name = f.name /\ token.prefix # "-"
         /\ R!Value(token) = f.val
<1>1. f.val \in Nat
  BY OutAssumption DEF Field
<1> DEFINE token == T!Written(f.name, f.hint, f.size, f.val)
<1>2. CASE f.hint = "FORMAT_HINT_HEX"
  <2> DEFINE digits == T!Digits(f.val, 16)
             back == [i \in DOMAIN digits |-> R!HexDigit(digits[i])]
  <2>1. token = [kind |-> "number", name |-> f.name, prefix |-> "0x", digits |-> digits]
    BY <1>2 DEF T!Written, T!WriteHex, T!Number
  <2>2. digits \in Seq(Nat) /\ R!Spelled(digits, 16) = f.val
    BY <1>1, DigitsSpell DEF Bases
  <2>3. \A i \in 1..Len(digits) : digits[i] < 10
    BY <1>2 DEF Legible
  <2> HIDE DEF digits
  <2>4. R!Value(token) = R!Spelled(back, 16)
    BY <2>1 DEF R!Value
  <2>5. back = digits
    <3>1. DOMAIN digits = 1..Len(digits) /\ digits = [i \in DOMAIN digits |-> digits[i]]
      BY <2>2
    <3>2. \A i \in DOMAIN digits : R!HexDigit(digits[i]) = digits[i]
      BY <2>3, <3>1 DEF R!HexDigit
    <3>3. QED BY <3>1, <3>2
  <2>6. QED BY <2>1, <2>2, <2>4, <2>5
<1>3. CASE f.hint = "FORMAT_HINT_DEC"
  <2> DEFINE digits == T!Digits(f.val, 10)
  <2>1. token = [kind |-> "number", name |-> f.name, prefix |-> "none", digits |-> digits]
    BY <1>3 DEF Legible, T!Written, T!WriteDec, T!Number, T!Word, Word
  <2>2. R!Spelled(digits, 10) = f.val
    BY <1>1, DigitsSpell DEF Bases
  <2> HIDE DEF digits
  <2>3. R!Value(token) = R!Spelled(digits, 10)
    BY <2>1 DEF R!Value
  <2>4. QED BY <2>1, <2>2, <2>3
<1>4. QED BY <1>2, <1>3 DEF Legible

\* ... and of a length
LEMMA ReadsLength ==
  ASSUME NEW length \in Nat, length + length < Word
  PROVE  LET token == T!WriteDec(BlockName, length) IN
         /\ token.kind = "number" /\ token.name = BlockName /\ token.prefix # "-"
         /\ R!Value(token) = length
<1> DEFINE token == T!WriteDec(BlockName, length)
           digits == T!Digits(length, 10)
<1>1. length < Word \div 2
  <2> DEFINE n == 4 * ByteBits - 1
             h == 2^n
             w == Word
  <2>1. n \in 0..(5 * ByteBits) /\ n + 1 = 4 * ByteBits
    BY ByteAssumption
  <2> HIDE DEF n
  <2>2. h \in Nat /\ w = 2 * h
    BY <2>1, PowersAssumption DEF Word
  <2> HIDE DEF h, w
  <2>3. length + length < w => length < w \div 2
    BY <2>2
  <2>4. QED BY <2>3 DEF w
<1>2. token = [kind |-> "number", name |-> BlockName, prefix |-> "none", digits |-> digits]
  BY <1>1 DEF T!WriteDec, T!Number, T!Word, Word
<1>3. R!Spelled(digits, 10) = length
  BY DigitsSpell DEF Bases
<1> HIDE DEF digits
<1>4. R!Value(token) = R!Spelled(digits, 10)
  BY <1>2 DEF R!Value
<1>5. QED BY <1>2, <1>3, <1>4

----------------------------------------------------------------------------
(* the text *)

\* one token stands for the j-th call, or two of them
One(tokens, at, j, token) == at[j + 1] = at[j] + 1 /\ tokens[at[j]] = token
Two(tokens, at, j, first, second) ==
  at[j + 1] = at[j] + 2 /\ tokens[at[j]] = first /\ tokens[at[j] + 1] = second

\* The j-th call of C has been written to the text at at[j]; the length of a
\* block is there once the block has ended
WrittenAt(C, end, tokens, at, j) ==
  LET f == C[j].field
      last == end[j]
  IN \/ /\ C[j].name = "uint"
        /\ One(tokens, at, j, T!Written(f.name, f.hint, f.size, f.val))
     \/ /\ C[j].name = "named_block_begin" /\ last = 0
        /\ One(tokens, at, j, T!Open)
     \/ /\ C[j].name = "named_block_begin" /\ last \in 1..Len(C)
        /\ Two(tokens, at, j, T!WriteDec(BlockName, C[last].gave), T!Open)
     \/ /\ C[j].name = "named_block_end"
        /\ One(tokens, at, j, T!Close)

\* the text so far
Spelt(C, end, tokens, at) ==
  /\ \E U : tokens \in Seq(U)
  /\ at \in [Nat -> Nat]
  /\ at[1] = 1
  /\ at[Len(C) + 1] = Len(tokens) + 1
  /\ \A i, j \in 1..(Len(C) + 1) : i < j => at[i] < at[j]
  /\ \A j \in 1..Len(C) : WrittenAt(C, end, tokens, at, j)

\* in tokens2 there are "by" tokens more before those of the j-th call
Moved(tokens, tokens2, at, at2, j, by) ==
  /\ at2[j] = at[j] + by
  /\ at2[j + 1] = at[j + 1] + by
  /\ \A i \in Nat : at[j] <= i /\ i < at[j + 1] => tokens2[i + by] = tokens[i]

\* D begins with the calls of C
Begins(C, D) == /\ Len(C) \in Nat /\ Len(C) <= Len(D) /\ Len(D) \in Nat
                /\ \A i \in 1..Len(C) : D[i] = C[i]

LEMMA WrittenMoved ==
  ASSUME NEW C, NEW D, NEW end, NEW end2, NEW tokens, NEW tokens2, NEW at, NEW at2,
         NEW j \in 1..Len(C), NEW by \in Nat, Begins(C, D),
         at[j] \in Nat, at[j + 1] \in Nat,
         WrittenAt(C, end, tokens, at, j), end2[j] = end[j],
         Moved(tokens, tokens2, at, at2, j, by)
  PROVE  WrittenAt(D, end2, tokens2, at2, j)
<1> DEFINE i == at[j]
           k == at[j + 1]
           last == end[j]
<1>1. /\ D[j] = C[j]
      /\ last \in 1..Len(C) => last \in 1..Len(D) /\ D[last] = C[last]
  BY DEF Begins
<1>2. ASSUME NEW token, One(tokens, at, j, token) PROVE One(tokens2, at2, j, token)
  <2>1. k = i + 1 /\ tokens[i] = token /\ i \in Nat
    BY <1>2 DEF One
  <2>2. at2[j] = i + by /\ at2[j + 1] = k + by /\ tokens2[i + by] = tokens[i]
    BY <2>1 DEF Moved
  <2> DEFINE l == at2[j]
             m == at2[j + 1]
  <2> HIDE DEF i, k
  <2>3. m = l + 1 /\ tokens2[l] = token
    BY <2>1, <2>2
  <2>4. QED BY <2>3 DEF One
<1>3. ASSUME NEW first, NEW second, Two(tokens, at, j, first, second)
      PROVE  Two(tokens2, at2, j, first, second)
  <2> DEFINE o == i + 1
  <2>1. k = i + 2 /\ tokens[i] = first /\ tokens[o] = second /\ i \in Nat
    BY <1>3 DEF Two
  <2>2. at2[j] = i + by /\ at2[j + 1] = k + by
    BY DEF Moved
  <2>3. o \in Nat /\ i <= o /\ o < k /\ i <= i /\ i < k
    <3> HIDE DEF i, k
    <3>1. QED BY <2>1
  <2>4. tokens2[i + by] = tokens[i] /\ tokens2[o + by] = tokens[o]
    <3> HIDE DEF o
    <3>1. QED BY <2>1, <2>3 DEF Moved
  <2> DEFINE l == at2[j]
             m == at2[j + 1]
  <2> HIDE DEF i, k
  <2>5. m = l + 2 /\ l = i + by /\ l + 1 = o + by
    BY <2>1, <2>2
  <2>6. tokens2[l] = first /\ tokens2[l + 1] = second
    BY <2>1, <2>4, <2>5
  <2>7. QED BY <2>5, <2>6 DEF Two
<1>4. QED BY <1>1, <1>2, <1>3 DEF WrittenAt

\* what is written of a call when it is made
TokenOf(call, token) ==
  \/ /\ call.name = "uint"
     /\ token = T!Written(call.field.name, call.field.hint, call.field.size, call.field.val)
  \/ call.name = "named_block_begin" /\ token = T!Open

\* what is written of a call is before what is written of the later ones
LEMMA SpeltOrder ==
  ASSUME NEW C, NEW end, NEW tokens, NEW at, Spelt(C, end, tokens, at), Len(C) \in Nat
  PROVE  /\ Len(tokens) \in Nat
         /\ \A i \in 1..(Len(C) + 1) : at[i] \in 1..(Len(tokens) + 1)
         /\ \A i, j \in 1..(Len(C) + 1) : i <= j => at[i] <= at[j]
<1> DEFINE m == Len(C) + 1
           k == Len(tokens) + 1
<1>1. /\ m \in Nat /\ m >= 1 /\ 1 \in 1..m /\ m \in 1..m
      /\ \A i \in 1..m : i \in Nat /\ 1 <= i /\ i <= m
  OBVIOUS
<1>2. Len(tokens) \in Nat
  <2>1. PICK U : tokens \in Seq(U)
    BY DEF Spelt
  <2>2. QED BY <2>1, LenProperties
<1>3. /\ at[1] = 1 /\ at[m] = k /\ k \in Nat
      /\ \A i \in Nat : at[i] \in Nat
      /\ \A i, j \in 1..m : i < j => at[i] < at[j]
  <2>1. at \in [Nat -> Nat] /\ at[1] = 1 /\ at[m] = k
    BY DEF Spelt
  <2>2. \A i, j \in 1..m : i < j => at[i] < at[j]
    BY DEF Spelt
  <2>3. k \in Nat
    BY <1>2
  <2>4. QED BY <2>1, <2>2, <2>3
<1> HIDE DEF m, k
<1>4. ASSUME NEW i \in 1..m, NEW j \in 1..m, i <= j PROVE at[i] <= at[j]
  <2> DEFINE a == at[i]
             b == at[j]
  <2>1. a \in Nat /\ b \in Nat /\ i \in Nat /\ j \in Nat
    BY <1>1, <1>3
  <2>2. i < j => a < b
    BY <1>3
  <2>3. i = j => a = b
    OBVIOUS
  <2> HIDE DEF a, b
  <2>4. a <= b
    BY <1>4, <2>1, <2>2, <2>3
  <2>5. QED BY <2>4 DEF a, b
<1>5. ASSUME NEW i \in 1..m PROVE at[i] \in 1..k
  <2>1. at[1] <= at[i] /\ at[i] <= at[m] /\ at[i] \in Nat
    BY <1>1, <1>3, <1>4
  <2>2. QED BY <1>3, <2>1
<1>6. QED BY <1>2, <1>4, <1>5 DEF m, k

LEMMA IndicesUpTo ==
  ASSUME NEW n \in Nat, NEW m, m = n + 1, NEW x, x = n + 2
  PROVE  /\ m \in Nat /\ x \in Nat /\ m + 1 = x /\ m >= 1 /\ m < x
         /\ m \in 1..m /\ 1 \in 1..m /\ x # 1 /\ x # m
         /\ \A i \in 1..n : /\ i \in 1..m /\ i + 1 \in 1..m /\ i \in Nat
                            /\ i < i + 1 /\ i < m /\ i # m
         /\ \A i \in 1..m : i # x /\ i \in Nat /\ i < x /\ i <= m
         /\ \A i \in 1..x : i \in 1..m \/ i = x
         /\ \A i \in 1..m : i \in 1..n \/ i = m
OBVIOUS

\* a call writes a token
LEMMA SpeltMore ==
  ASSUME NEW C, NEW D, NEW end, NEW end2, NEW tokens, NEW at, Spelt(C, end, tokens, at),
         Begins(C, D), Len(D) = Len(C) + 1, NEW call, D[Len(C) + 1] = call,
         NEW token, TokenOf(call, token),
         \A i \in 1..Len(C) : end2[i] = end[i],
         call.name = "named_block_begin" => end2[Len(C) + 1] = 0
  PROVE  \E at2 : /\ Spelt(D, end2, Append(tokens, token), at2)
                  /\ \A i \in 1..(Len(C) + 1) : at2[i] = at[i]
<1> DEFINE n == Len(C)
           m == n + 1
           x == n + 2
           l == Len(tokens)
           k == l + 1
           tokens2 == Append(tokens, token)
<1>1. /\ \E U : tokens2 \in Seq(U)
      /\ Len(tokens2) = k
      /\ \A i \in 1..l : tokens2[i] = tokens[i]
      /\ \A i \in 1..k : i = k => tokens2[i] = token
      /\ l \in Nat
  <2>1. PICK U : tokens \in Seq(U)
    BY DEF Spelt
  <2>2. l \in Nat
    BY <2>1, LenProperties
  <2>3. /\ \E V : tokens2 \in Seq(V)
        /\ Len(tokens2) = k
        /\ \A i \in 1..l : tokens2[i] = tokens[i]
        /\ \A i \in 1..k : i = k => tokens2[i] = token
    BY <2>1, PushedAny
  <2>4. QED BY <2>2, <2>3
<1>2. /\ n \in Nat /\ at \in [Nat -> Nat] /\ at[1] = 1 /\ at[m] = k
      /\ \A i, j \in 1..m : i < j => at[i] < at[j]
      /\ \A j \in 1..n : WrittenAt(C, end, tokens, at, j)
  BY DEF Spelt, Begins
<1>3. PICK at2 : at2 = [at EXCEPT ![x] = k + 1]
  OBVIOUS
<1>4. /\ m \in Nat /\ x \in Nat /\ m + 1 = x /\ m >= 1 /\ m < x
      /\ m \in 1..m /\ 1 \in 1..m /\ x # 1 /\ x # m
      /\ \A i \in 1..n : /\ i \in 1..m /\ i + 1 \in 1..m /\ i \in Nat
                         /\ i < i + 1 /\ i < m /\ i # m
      /\ \A i \in 1..m : i # x /\ i \in Nat /\ i < x /\ i <= m
      /\ \A i \in 1..x : i \in 1..m \/ i = x
      /\ \A i \in 1..m : i \in 1..n \/ i = m
  <2> HIDE DEF n
  <2>1. n \in Nat
    BY <1>2
  <2>2. QED BY <2>1, IndicesUpTo
<1>5. at2 \in [Nat -> Nat] /\ at2[x] = k + 1 /\ \A i \in 1..m : at2[i] = at[i]
  <2>1. k + 1 \in Nat /\ x \in Nat /\ \A i \in 1..m : i \in Nat /\ i # x
    BY <1>1, <1>4
  <2> HIDE DEF m, x, k
  <2>2. QED BY <1>2, <1>3, <2>1
<1>6. /\ Len(D) = m /\ D[m] = call /\ Len(D) + 1 = x
      /\ \A i \in 1..n : end2[i] = end[i]
      /\ call.name = "named_block_begin" => end2[m] = 0
  BY <1>2
<1>12. /\ \A i \in 1..m : at[i] \in 1..k
       /\ \A i, j \in 1..m : i <= j => at[i] <= at[j]
  <2>1. Len(C) \in Nat
    BY <1>2
  <2>2. QED BY <2>1, SpeltOrder
<1> HIDE DEF n, m, x, l, k, tokens2
<1>7. ASSUME NEW j \in 1..n PROVE WrittenAt(D, end2, tokens2, at2, j)
  <2> DEFINE a == at[j]
             b == at[j + 1]
  <2>1. a \in Nat /\ b \in Nat /\ 1 <= a /\ b <= k
    <3>1. a \in 1..k /\ b \in 1..k
      BY <1>4, <1>12
    <3>2. k \in Nat
      BY <1>1 DEF k
    <3> HIDE DEF a, b
    <3>3. QED BY <3>1, <3>2
  <2>2. at2[j] = a /\ at2[j + 1] = b
    BY <1>4, <1>5
  <2> HIDE DEF a, b
  <2>3. \A i \in Nat : a <= i /\ i < b => tokens2[i + 0] = tokens[i]
    <3>1. \A i \in Nat : a <= i /\ i < b => i \in 1..l /\ i + 0 = i
      BY <1>1, <2>1 DEF k
    <3>2. QED BY <1>1, <3>1
  <2>4. Moved(tokens, tokens2, at, at2, j, 0)
    BY <2>1, <2>2, <2>3 DEF Moved, a, b
  <2>5. 0 \in Nat
    OBVIOUS
  <2>6. QED BY <1>2, <1>6, <2>1, <2>4, <2>5, WrittenMoved DEF a, b, n
<1>8. WrittenAt(D, end2, tokens2, at2, m)
  <2>1. One(tokens2, at2, m, token)
    <3>1. at2[m] = k /\ at2[m + 1] = k + 1
      BY <1>2, <1>4, <1>5
    <3>2. k \in 1..k
      BY <1>1 DEF k
    <3>3. tokens2[k] = token
      BY <1>1, <3>2
    <3>4. QED BY <3>1, <3>3 DEF One
  <2>2. QED BY <1>6, <2>1 DEF WrittenAt, TokenOf
<1>9. \A i, j \in 1..x : i < j => at2[i] < at2[j]
  <2>1. SUFFICES ASSUME NEW i \in 1..x, NEW j \in 1..x, i < j PROVE at2[i] < at2[j]
    OBVIOUS
  <2>2. i \in 1..m
    BY <1>4, <2>1
  <2>3. CASE j \in 1..m
    BY <1>2, <1>5, <2>1, <2>2, <2>3
  <2>4. CASE j = x
    <3>1. at[i] \in 1..k
      BY <1>12, <2>2
    <3>2. at2[i] = at[i] /\ at2[j] = k + 1
      BY <1>5, <2>2, <2>4
    <3>3. k \in Nat
      BY <1>1 DEF k
    <3>4. QED BY <3>1, <3>2, <3>3
  <2>5. QED BY <1>4, <2>3, <2>4
<1>10. Spelt(D, end2, tokens2, at2)
  <2>1. at2[1] = 1 /\ at2[Len(D) + 1] = Len(tokens2) + 1
    BY <1>1, <1>2, <1>4, <1>5, <1>6
  <2>2. \A j \in 1..Len(D) : WrittenAt(D, end2, tokens2, at2, j)
    BY <1>4, <1>6, <1>7, <1>8
  <2>3. QED BY <1>1, <1>5, <1>6, <1>9, <2>1, <2>2 DEF Spelt
<1>11. QED BY <1>5, <1>10 DEF tokens2, m, n

\* t is s with e as its i-th element
WithInserted(s, i, e, t) ==
  /\ \E U : t \in Seq(U)
  /\ Len(t) = Len(s) + 1
  /\ \A k \in Nat : 1 <= k /\ k < i => t[k] = s[k]
  /\ \A k \in Nat : k = i => t[k] = e
  /\ \A k \in Nat : i <= k /\ k <= Len(s) => t[k + 1] = s[k]

LEMMA Inserted ==
  ASSUME NEW S, NEW s \in Seq(S), NEW e \in S, NEW i \in 1..Len(s)
  PROVE  /\ WithInserted(s, i, e, T!Seqs!InsertAt(s, i, e))
         /\ T!Seqs!InsertAt(s, i, e) \in Seq(S)
<1> DEFINE n == Len(s)
           h == i - 1
           front == SubSeq(s, 1, h)
           back == SubSeq(s, i, n)
           mid == front \o <<e>>
           t == mid \o back
           l == n - h
<1>1. n \in Nat /\ i \in 1..n /\ i \in Nat /\ \A k \in 1..n : s[k] \in S
  <2>1. n \in Nat
    BY LenProperties
  <2>2. QED BY <2>1, ElementOfSeq
<1> HIDE DEF n
<1>2. /\ h \in Nat /\ h >= 0 /\ h + 1 = i /\ h < n /\ h \in Int /\ 1 \in Int /\ i \in Int /\ n \in Int
      /\ l \in Nat /\ l >= 1 /\ i + l = n + 1
      /\ h - 1 + 1 = h /\ n - i + 1 = l /\ i <= n /\ (1 <= h \/ h = 0)
      /\ \A k \in 1..h : 1 + k - 1 = k
      /\ \A k \in 1..h : s[k] \in S
      /\ \A k \in i..n : s[k] \in S
  BY <1>1
<1> HIDE DEF h, l
<1>3. front \in Seq(S) /\ Len(front) = h /\ \A k \in 1..h : front[k] = s[k]
  <2>1. /\ front \in Seq(S)
        /\ Len(front) = IF 1 <= h THEN h - 1 + 1 ELSE 0
        /\ \A k \in 1..(h - 1 + 1) : front[k] = s[1 + k - 1]
    BY <1>2, SubSeqProperties
  <2> HIDE DEF front
  <2>2. Len(front) = h
    BY <1>2, <2>1
  <2>3. \A k \in 1..h : front[k] = s[k]
    BY <1>2, <2>1
  <2>4. QED BY <2>1, <2>2, <2>3
<1>4. back \in Seq(S) /\ Len(back) = l /\ \A k \in 1..l : back[k] = s[i + k - 1]
  <2>1. /\ back \in Seq(S)
        /\ Len(back) = IF i <= n THEN n - i + 1 ELSE 0
        /\ \A k \in 1..(n - i + 1) : back[k] = s[i + k - 1]
    BY <1>2, SubSeqProperties
  <2> HIDE DEF back
  <2>2. QED BY <1>2, <2>1
<1> HIDE DEF front, back
<1>5. <<e>> \in Seq(S) /\ Len(<<e>>) = 1 /\ <<e>>[1] = e
  OBVIOUS
<1>6. PICK one : one = <<e>>
  OBVIOUS
<1>7. /\ mid \in Seq(S) /\ Len(mid) = h + 1
      /\ \A k \in 1..(h + 1) : mid[k] = IF k <= h THEN front[k] ELSE one[k - h]
  BY <1>3, <1>5, <1>6, ConcatProperties
<1> HIDE DEF mid
<1>8. /\ t \in Seq(S) /\ Len(t) = i + l
      /\ \A k \in 1..(i + l) : t[k] = IF k <= i THEN mid[k] ELSE back[k - i]
  <2>1. /\ t \in Seq(S) /\ Len(t) = Len(mid) + Len(back)
        /\ \A k \in 1..(Len(mid) + Len(back)) :
             t[k] = IF k <= Len(mid) THEN mid[k] ELSE back[k - Len(mid)]
    BY <1>4, <1>7, ConcatProperties
  <2>2. Len(mid) = i /\ Len(back) = l
    BY <1>2, <1>4, <1>7
  <2> HIDE DEF t
  <2>3. QED BY <2>1, <2>2
<1> HIDE DEF t
<1>9. ASSUME NEW k \in Nat, 1 <= k, k < i PROVE t[k] = s[k]
  <2>1. k \in 1..(i + l) /\ k <= i /\ k \in 1..(h + 1) /\ k <= h /\ k \in 1..h
    BY <1>1, <1>2, <1>9
  <2>2. QED BY <1>3, <1>7, <1>8, <2>1
<1>10. ASSUME NEW k \in Nat, k = i PROVE t[k] = e
  <2>1. k \in 1..(i + l) /\ k <= i /\ k \in 1..(h + 1) /\ ~(k <= h) /\ k - h = 1
    BY <1>1, <1>2, <1>10
  <2>2. t[k] = mid[k] /\ mid[k] = one[k - h]
    BY <1>7, <1>8, <2>1
  <2>3. QED BY <1>5, <1>6, <2>1, <2>2
<1>11. ASSUME NEW k \in Nat, i <= k, k <= n PROVE t[k + 1] = s[k]
  <2> DEFINE o == k + 1
             p == o - i
  <2>1. /\ o \in 1..(i + l) /\ ~(o <= i) /\ p \in 1..l /\ i + p - 1 = k
    BY <1>1, <1>2, <1>11
  <2> HIDE DEF o, p
  <2>2. t[o] = back[o - i]
    BY <1>8, <2>1
  <2>3. back[p] = s[k]
    BY <1>4, <2>1
  <2>4. QED BY <2>2, <2>3 DEF o, p
<1>12. T!Seqs!InsertAt(s, i, e) = t
  BY DEF T!Seqs!InsertAt, t, mid, front, back, h, n
<1>13. Len(t) = Len(s) + 1
  BY <1>2, <1>8 DEF n
<1>14. t \in Seq(S)
  BY <1>8
<1>15. \A k \in Nat : i <= k /\ k <= Len(s) => t[k + 1] = s[k]
  BY <1>11 DEF n
<1>16. WithInserted(s, i, e, t)
  BY <1>9, <1>10, <1>13, <1>14, <1>15 DEF WithInserted
<1>17. QED BY <1>12, <1>14, <1>16

\* a block ends: its brace is written, and its length goes before the other one
\* D are the calls of C and one that ends the block which the b-th has begun
Shuts(C, D, end, end2, tokens, tokens2, at, b, call) ==
  /\ Begins(C, D) /\ Len(D) = Len(C) + 1 /\ D[Len(C) + 1] = call
  /\ call.name = "named_block_end"
  /\ b \in 1..Len(C) /\ C[b].name = "named_block_begin" /\ end[b] = 0
  /\ Closed(Len(C), end, end2, b)
  /\ WithInserted(Append(tokens, T!Close), at[b], T!WriteDec(BlockName, call.gave), tokens2)

LEMMA SpeltEnd ==
  ASSUME NEW C, NEW D, NEW end, NEW end2, NEW tokens, NEW tokens2, NEW at,
         NEW b, NEW call,
         Spelt(C, end, tokens, at), Shuts(C, D, end, end2, tokens, tokens2, at, b, call)
  PROVE  \E at2 : /\ Spelt(D, end2, tokens2, at2)
                  /\ \A i \in 1..b : at2[i] = at[i]
<1> SUFFICES ASSUME Begins(C, D), Len(D) = Len(C) + 1, D[Len(C) + 1] = call,
                    call.name = "named_block_end",
                    b \in 1..Len(C), C[b].name = "named_block_begin", end[b] = 0,
                    Closed(Len(C), end, end2, b),
                    NEW length, length = T!WriteDec(BlockName, call.gave),
                    NEW place, place = at[b],
                    WithInserted(Append(tokens, T!Close), place, length, tokens2)
             PROVE  \E at2 : /\ Spelt(D, end2, tokens2, at2)
                             /\ \A i \in 1..b : at2[i] = at[i]
  BY DEF Shuts
<1> DEFINE n == Len(C)
           m == n + 1
           x == n + 2
           l == Len(tokens)
           k == l + 1
           more == Append(tokens, T!Close)
<1>1. /\ \E U : more \in Seq(U)
      /\ Len(more) = k
      /\ \A i \in 1..l : more[i] = tokens[i]
      /\ \A i \in 1..k : i = k => more[i] = T!Close
      /\ l \in Nat
  <2>1. PICK U : tokens \in Seq(U)
    BY DEF Spelt
  <2>2. l \in Nat
    BY <2>1, LenProperties
  <2>3. PICK close : close = T!Close
    OBVIOUS
  <2>4. /\ \E V : Append(tokens, close) \in Seq(V)
        /\ Len(Append(tokens, close)) = k
        /\ \A i \in 1..l : Append(tokens, close)[i] = tokens[i]
        /\ \A i \in 1..k : i = k => Append(tokens, close)[i] = close
    BY ONLY <2>1, PushedAny
  <2>5. QED BY <2>2, <2>3, <2>4
<1>2. n \in Nat /\ b \in 1..n /\ b \in Nat /\ b < m /\ b <= n
  BY DEF Begins
<1>3. /\ m \in Nat /\ x \in Nat /\ m + 1 = x /\ m >= 1 /\ m < x
      /\ m \in 1..m /\ 1 \in 1..m /\ x # 1 /\ x # m
      /\ \A i \in 1..n : /\ i \in 1..m /\ i + 1 \in 1..m /\ i \in Nat
                         /\ i < i + 1 /\ i < m /\ i # m
      /\ \A i \in 1..m : i # x /\ i \in Nat /\ i < x /\ i <= m
      /\ \A i \in 1..x : i \in 1..m \/ i = x
      /\ \A i \in 1..m : i \in 1..n \/ i = m
  <2> HIDE DEF n
  <2>1. n \in Nat
    BY <1>2
  <2>2. QED BY <2>1, IndicesUpTo
<1>4. /\ \A i \in 1..m : at[i] \in 1..k
      /\ \A i, j \in 1..m : i <= j => at[i] <= at[j]
  <2>1. Len(C) \in Nat
    BY <1>2
  <2>2. QED BY <2>1, SpeltOrder
<1>5. /\ at \in [Nat -> Nat] /\ at[1] = 1 /\ at[m] = k
      /\ \A i, j \in 1..m : i < j => at[i] < at[j]
      /\ \A j \in 1..n : WrittenAt(C, end, tokens, at, j)
  BY DEF Spelt
<1>6. /\ Len(D) = m /\ Len(D) + 1 = x /\ D[m] = call
      /\ end2[b] = m /\ \A i \in 1..n : i # b => end2[i] = end[i]
  BY <1>2 DEF Closed
<1> HIDE DEF n, m, x, l, k, more
<1>7. /\ \E U : tokens2 \in Seq(U)
      /\ Len(tokens2) = k + 1
      /\ \A i \in Nat : 1 <= i /\ i < place => tokens2[i] = more[i]
      /\ \A i \in Nat : i = place => tokens2[i] = length
      /\ \A i \in Nat : place <= i /\ i <= k => tokens2[i + 1] = more[i]
  <2>1. WithInserted(more, place, length, tokens2)
    BY DEF more
  <2>2. Len(more) = k
    BY <1>1
  <2>3. QED BY <2>1, <2>2 DEF WithInserted
<1>8. /\ place \in Nat /\ k \in Nat /\ 1 <= place /\ place <= l /\ at[b + 1] = place + 1
      /\ tokens[place] = T!Open
  <2>1. One(tokens, at, b, T!Open)
    <3>1. WrittenAt(C, end, tokens, at, b)
      BY <1>2, <1>5
    <3>2. 0 \notin 1..Len(C)
      BY <1>2 DEF n
    <3>3. QED BY <3>1, <3>2 DEF WrittenAt
  <2>2. at[b + 1] = place + 1 /\ tokens[place] = T!Open
    BY <2>1 DEF One
  <2>3. place \in 1..k /\ at[b + 1] \in 1..k /\ k \in Nat
    BY <1>1, <1>2, <1>3, <1>4 DEF k
  <2>4. QED BY <1>1, <2>2, <2>3 DEF k
<1>9. PICK at2 : at2 = [i \in Nat |-> IF i <= b THEN at[i] ELSE IF i = x THEN k + 2 ELSE at[i] + 1]
  OBVIOUS
<1>10. /\ at2 \in [Nat -> Nat]
       /\ at2[x] = k + 2
       /\ \A i \in 1..b : i \in 1..m /\ at2[i] = at[i]
       /\ \A i \in 1..m : i <= b => at2[i] = at[i]
       /\ \A i \in 1..m : b < i => at2[i] = at[i] + 1
  <2>1. /\ \A i \in 1..m : i \in Nat /\ i # x
        /\ \A i \in 1..m : b < i => ~(i <= b)
    BY <1>2, <1>3
  <2>2. /\ \A i \in 1..b : i <= b /\ i \in 1..m
        /\ ~(x <= b) /\ x \in Nat
    <3>1. \A i \in 1..b : i \in Nat /\ i <= b /\ 1 <= i /\ i <= m
      BY <1>2, <1>3
    <3>2. \A i \in 1..b : i \in 1..m
      BY <1>3, <3>1
    <3>3. QED BY <1>2, <1>3, <3>1, <3>2
  <2>3. \A i \in Nat : at[i] \in Nat /\ at[i] + 1 \in Nat
    <3>1. \A i \in Nat : at[i] \in Nat
      BY <1>5
    <3>2. QED BY <3>1
  <2>4. k + 2 \in Nat
    BY <1>8
  <2>5. at2 \in [Nat -> Nat]
    BY <1>9, <2>3, <2>4
  <2>6. \A i \in Nat : at2[i] = IF i <= b THEN at[i] ELSE IF i = x THEN k + 2 ELSE at[i] + 1
    BY <1>9
  <2>7. at2[x] = k + 2
    BY <2>2, <2>6
  <2>8. \A i \in 1..m : i <= b => at2[i] = at[i]
    BY <2>1, <2>6
  <2>9. \A i \in 1..m : b < i => at2[i] = at[i] + 1
    BY <2>1, <2>6
  <2>10. \A i \in 1..b : i \in 1..m /\ at2[i] = at[i]
    BY <2>2, <2>8
  <2>11. QED BY <2>5, <2>7, <2>8, <2>9, <2>10
<1>11. ASSUME NEW j \in 1..n, j < b PROVE WrittenAt(D, end2, tokens2, at2, j)
  <2> DEFINE p == at[j]
             q == at[j + 1]
  <2>1. /\ j \in Nat /\ j \in 1..m /\ j + 1 \in 1..m /\ j <= b /\ j + 1 <= b /\ j # b
        /\ b \in 1..m
    BY <1>2, <1>3, <1>11
  <2>2. p \in Nat /\ q \in Nat /\ 1 <= p /\ q <= place
    BY <1>4, <1>8, <2>1
  <2>3. at2[j] = p /\ at2[j + 1] = q
    BY <1>10, <2>1
  <2> HIDE DEF p, q
  <2>4. \A i \in Nat : p <= i /\ i < q => tokens2[i + 0] = tokens[i]
    <3>1. \A i \in Nat : p <= i /\ i < q => i \in 1..l /\ i + 0 = i /\ 1 <= i /\ i < place
      BY <1>1, <1>8, <2>2
    <3>2. QED BY <1>1, <1>7, <3>1
  <2>5. Moved(tokens, tokens2, at, at2, j, 0)
    BY <2>2, <2>3, <2>4 DEF Moved, p, q
  <2>6. 0 \in Nat /\ j \in 1..Len(C)
    BY DEF n
  <2>7. at[j] \in Nat /\ at[j + 1] \in Nat
    BY <2>2 DEF p, q
  <2>8. WrittenAt(C, end, tokens, at, j) /\ end2[j] = end[j]
    BY <1>5, <1>6, <2>1
  <2>9. QED BY <2>5, <2>6, <2>7, <2>8, WrittenMoved
<1>12. ASSUME NEW j \in 1..n, b < j PROVE WrittenAt(D, end2, tokens2, at2, j)
  <2> DEFINE p == at[j]
             q == at[j + 1]
  <2>1. /\ j \in Nat /\ j \in 1..m /\ j + 1 \in 1..m /\ b < j + 1 /\ b + 1 <= j /\ j # b
        /\ b + 1 \in 1..m
    BY <1>2, <1>3, <1>12
  <2>2. p \in Nat /\ q \in Nat /\ place < p /\ q <= k
    <3>1. p \in 1..k /\ q \in 1..k /\ at[b + 1] <= p
      BY <1>4, <2>1
    <3>2. place + 1 <= p
      BY <1>8, <3>1
    <3> HIDE DEF p, q
    <3>3. QED BY <1>8, <3>1, <3>2
  <2>3. at2[j] = p + 1 /\ at2[j + 1] = q + 1
    BY <1>10, <2>1, <1>12
  <2> HIDE DEF p, q
  <2>4. \A i \in Nat : p <= i /\ i < q => tokens2[i + 1] = tokens[i]
    <3>1. \A i \in Nat : p <= i /\ i < q => i \in 1..l /\ place <= i /\ i <= k
      BY <1>1, <1>8, <2>2 DEF k
    <3>2. QED BY <1>1, <1>7, <3>1
  <2>5. Moved(tokens, tokens2, at, at2, j, 1)
    BY <2>3, <2>4 DEF Moved, p, q
  <2>6. 1 \in Nat /\ j \in 1..Len(C)
    BY DEF n
  <2>7. at[j] \in Nat /\ at[j + 1] \in Nat
    BY <2>2 DEF p, q
  <2>8. WrittenAt(C, end, tokens, at, j) /\ end2[j] = end[j]
    BY <1>5, <1>6, <2>1
  <2>9. QED BY <2>5, <2>6, <2>7, <2>8, WrittenMoved
<1>13. WrittenAt(D, end2, tokens2, at2, b)
  <2>1. at2[b] = place /\ at2[b + 1] = place + 2
    <3>1. b \in 1..b /\ b + 1 \in 1..m /\ b < b + 1
      BY <1>2, <1>3
    <3>2. at2[b] = place /\ at2[b + 1] = at[b + 1] + 1
      BY <1>10, <3>1
    <3>3. QED BY <1>8, <3>2
  <2>2. tokens2[place] = length /\ tokens2[place + 1] = T!Open
    <3>1. place <= place /\ place <= k /\ place \in 1..l
      BY <1>1, <1>8 DEF k
    <3>2. QED BY <1>1, <1>7, <1>8, <3>1
  <2>3. Two(tokens2, at2, b, length, T!Open)
    <3>1. at2[b + 1] = at2[b] + 2
      BY <1>8, <2>1
    <3>2. QED BY <2>1, <2>2, <3>1 DEF Two
  <2>4. D[b] = C[b] /\ end2[b] \in 1..Len(D) /\ D[end2[b]] = call
    BY <1>3, <1>6 DEF Begins
  <2>5. QED BY <2>3, <2>4 DEF WrittenAt
<1>14. WrittenAt(D, end2, tokens2, at2, m)
  <2>1. at2[m] = k + 1 /\ at2[m + 1] = k + 2
    BY <1>2, <1>3, <1>5, <1>10
  <2>2. tokens2[k + 1] = T!Close
    <3>1. place <= k /\ k <= k /\ k \in 1..k
      BY <1>1, <1>8 DEF k
    <3>2. QED BY <1>1, <1>7, <1>8, <3>1
  <2>3. One(tokens2, at2, m, T!Close)
    <3>1. at2[m + 1] = at2[m] + 1
      BY <1>8, <2>1
    <3>2. QED BY <2>1, <2>2, <3>1 DEF One
  <2>4. QED BY <1>6, <2>3 DEF WrittenAt
<1>15. \A i, j \in 1..x : i < j => at2[i] < at2[j]
  <2>1. SUFFICES ASSUME NEW i \in 1..x, NEW j \in 1..x, i < j PROVE at2[i] < at2[j]
    OBVIOUS
  <2>2. i \in 1..m /\ i \in Nat /\ j \in Nat
    BY <1>3, <2>1
  <2> DEFINE p == at[i]
             q == at[j]
  <2>3. p \in 1..k /\ (at2[i] = p \/ at2[i] = p + 1) /\ (i <= b => at2[i] = p)
    <3>1. p \in 1..k
      BY <1>4, <2>2
    <3>2. i <= b => at2[i] = p
      BY <1>10, <2>2
    <3>3. b < i => at2[i] = p + 1
      BY <1>10, <2>2
    <3>4. i <= b \/ b < i
      BY <1>2, <2>2
    <3>5. QED BY <3>1, <3>2, <3>3, <3>4
  <2>4. CASE j \in 1..m
    <3>1. q \in 1..k /\ p < q
      BY <1>4, <1>5, <2>1, <2>2, <2>4
    <3>2. (j <= b => at2[j] = q) /\ (b < j => at2[j] = q + 1)
      BY <1>10, <2>4
    <3>3. j <= b => i <= b
      BY <1>2, <2>1, <2>2
    <3> HIDE DEF p, q
    <3>4. QED BY <1>2, <1>8, <2>2, <2>3, <3>1, <3>2, <3>3
  <2>5. CASE j = x
    <3>1. at2[j] = k + 2
      BY <1>10, <2>5
    <3> HIDE DEF p, q
    <3>2. QED BY <1>8, <2>3, <3>1
  <2>6. QED BY <1>3, <2>4, <2>5
<1>16. Spelt(D, end2, tokens2, at2)
  <2>1. at2[1] = 1 /\ at2[Len(D) + 1] = Len(tokens2) + 1
    <3>1. 1 \in 1..b /\ k + 1 + 1 = k + 2
      BY <1>2, <1>8
    <3>2. QED BY <1>5, <1>6, <1>7, <1>10, <3>1
  <2>2. \A j \in 1..Len(D) : WrittenAt(D, end2, tokens2, at2, j)
    <3>1. \A j \in 1..n : j < b \/ j = b \/ b < j
      BY <1>2
    <3>2. QED BY <1>3, <1>6, <1>11, <1>12, <1>13, <1>14, <3>1
  <2>3. QED BY <1>6, <1>7, <1>10, <1>15, <2>1, <2>2 DEF Spelt
<1>17. QED BY <1>10, <1>16

----------------------------------------------------------------------------
\* the lengths of the open blocks belong before their braces
Placed(stack, st, at) ==
  \A k \in 1..Len(stack) : stack[k].position_for_write + 1 = at[st[k]]

\* the message and the text so far
Spelling(C, pos, par, end, st, at) ==
  /\ Constructing(C, pos, par, end, st)
  /\ Spelt(C, end, prod, at)
  /\ Placed(text_scope_stack, st, at)

SpellInv == ~thrown => /\ calls.text = calls.binary
                       /\ \E pos, par, end, st, at :
                            Spelling(calls.binary, pos, par, end, st, at)

LEMMA BeginsAppend ==
  ASSUME NEW C, Len(C) \in Nat, NEW call, \E U : C \in Seq(U)
  PROVE  /\ Begins(C, Append(C, call))
         /\ Len(Append(C, call)) = Len(C) + 1
         /\ Append(C, call)[Len(C) + 1] = call
<1> DEFINE D == Append(C, call)
           n == Len(C)
<1>1. PICK U : C \in Seq(U)
  OBVIOUS
<1>2. /\ Len(D) = n + 1
      /\ \A i \in 1..n : D[i] = C[i]
      /\ \A i \in 1..(n + 1) : i = n + 1 => D[i] = call
  BY <1>1, PushedAny
<1>3. n \in Nat /\ n <= n + 1 /\ n + 1 \in Nat /\ n + 1 \in 1..(n + 1)
  OBVIOUS
<1>4. QED BY <1>2, <1>3 DEF Begins

LEMMA SpellNumber ==
  ASSUME NumbersFit, IInv, DataInv, InStep,
         NEW C, NEW pos, NEW par, NEW end, NEW st, NEW at, Spelling(C, pos, par, end, st, at),
         NEW f \in Fields, f.size <= f.w, Write(f.w, f.size, f.val), T!Write(f),
         NEW call, call = [name |-> "uint", field |-> f, gave |-> f.val]
  PROVE  \E pos2, par2, at2 : Spelling(Append(C, call), pos2, par2, end, st, at2)'
<1>1. /\ Constructing(C, pos, par, end, st) /\ Spelt(C, end, prod, at)
      /\ Placed(text_scope_stack, st, at)
  BY DEF Spelling
<1>2. PICK D : D = Append(C, call)
  OBVIOUS
<1>3. PICK pos2, par2 : Constructing(D, pos2, par2, end, st)'
  <2>1. \E pos2, par2 : Constructing(Append(C, call), pos2, par2, end, st)'
    BY <1>1, ConstructNumber
  <2>2. QED BY <1>2, <2>1
<1>4. Begins(C, D) /\ Len(D) = Len(C) + 1 /\ D[Len(C) + 1] = call /\ Len(C) \in Nat
  <2>1. Traced(C, data, pos, par, end) /\ Len(C) \in Nat
    BY <1>1, ConstructFacts
  <2>2. \E U : C \in Seq(U)
    BY <2>1 DEF Traced
  <2>3. QED BY <1>2, <2>1, <2>2, BeginsAppend
<1>5. PICK tokens, token, tokens2, stack : /\ tokens = prod /\ tokens2 = prod' /\ stack = text_scope_stack
                      /\ token = T!Written(f.name, f.hint, f.size, f.val)
  OBVIOUS
<1>6. tokens2 = Append(tokens, token) /\ text_scope_stack' = stack
  BY <1>5 DEF T!Write
<1>7. PICK at2 : Spelt(D, end, tokens2, at2) /\ \A i \in 1..(Len(C) + 1) : at2[i] = at[i]
  <2>1. TokenOf(call, token) /\ call.name # "named_block_begin"
    BY <1>5 DEF TokenOf
  <2>2. Spelt(C, end, tokens, at)
    BY <1>1, <1>5
  <2>3. \E at2 : /\ Spelt(D, end, Append(tokens, token), at2)
                 /\ \A i \in 1..(Len(C) + 1) : at2[i] = at[i]
    BY <1>4, <2>1, <2>2, SpeltMore
  <2>4. QED BY <1>6, <2>3
<1>8. Placed(stack, st, at2)
  <2>1. SUFFICES ASSUME NEW k \in 1..Len(stack) PROVE at2[st[k]] = at[st[k]]
    BY <1>1, <1>5 DEF Placed
  <2>2. Len(stack) = Len(scope_stack)
    BY <1>5 DEF InStep
  <2>3. st[k] \in 1..((Len(C) + 1) - 1)
    BY <1>1, <2>2, ConstructFacts DEF Chain
  <2>4. QED BY <1>4, <1>7, <2>3
<1>9. Spelling(D, pos2, par2, end, st, at2)'
  BY <1>3, <1>5, <1>6, <1>7, <1>8 DEF Spelling
<1>10. \E p, q, a : Spelling(D, p, q, end, st, a)'
  BY <1>9
<1>11. QED BY <1>2, <1>10

LEMMA SpellBegin ==
  ASSUME IInv, InStep,
         NEW C, NEW pos, NEW par, NEW end, NEW st, NEW at, Spelling(C, pos, par, end, st, at),
         NEW size \in LengthBits, BeginBlock(size), T!BeginBlock(size),
         NEW call, call = [name |-> "named_block_begin", field |-> size, gave |-> 0]
  PROVE  \E pos2, par2, end2, st2, at2 :
           Spelling(Append(C, call), pos2, par2, end2, st2, at2)'
<1> DEFINE n == Len(C)
           d == Len(scope_stack)
<1>1. /\ Constructing(C, pos, par, end, st) /\ Spelt(C, end, prod, at)
      /\ Placed(text_scope_stack, st, at)
  BY DEF Spelling
<1>2. PICK D : D = Append(C, call)
  OBVIOUS
<1>3. PICK pos2, par2, end2, st2 : /\ Opened(n, end, end2, d, st, st2)
                                   /\ Constructing(D, pos2, par2, end2, st2)'
  <2>1. \E pos2, par2, end2, st2 :
           /\ Opened(Len(C), end, end2, Len(scope_stack), st, st2)
           /\ Constructing(Append(C, call), pos2, par2, end2, st2)'
    BY <1>1, ConstructBegin
  <2>2. QED BY <1>2, <2>1
<1>4. /\ Begins(C, D) /\ Len(D) = Len(C) + 1 /\ D[Len(C) + 1] = call
      /\ n \in Nat /\ d \in Nat
      /\ \A k \in 1..d : st[k] \in 1..((n + 1) - 1)
  <2>1. Traced(C, data, pos, par, end) /\ Len(C) \in Nat /\ d \in Nat
    BY <1>1, ConstructFacts
  <2>2. \E U : C \in Seq(U)
    BY <2>1 DEF Traced
  <2>3. \A k \in 1..d : st[k] \in 1..((n + 1) - 1)
    BY <1>1, ConstructFacts DEF Chain
  <2>4. QED BY <1>2, <2>1, <2>2, <2>3, BeginsAppend
<1>5. PICK tokens, token, tokens2, stack, entry, stack2 :
        /\ tokens = prod /\ tokens2 = prod' /\ stack = text_scope_stack
        /\ stack2 = text_scope_stack'
        /\ token = T!Open
        /\ entry = [bitpos_at_enter |-> T!Start(size), bitlimit_at_enter |-> text_bitlimit,
                    position_for_write |-> Len(prod)]
  OBVIOUS
<1>6. tokens2 = Append(tokens, token) /\ stack2 = Append(stack, entry)
  BY <1>5 DEF T!BeginBlock
<1>7. PICK at2 : Spelt(D, end2, tokens2, at2) /\ \A i \in 1..(Len(C) + 1) : at2[i] = at[i]
  <2>1. TokenOf(call, token)
    BY <1>5 DEF TokenOf
  <2>2. Spelt(C, end, tokens, at)
    BY <1>1, <1>5
  <2>3. \A i \in 1..Len(C) : end2[i] = end[i]
    BY <1>3 DEF Opened
  <2>4. end2[Len(C) + 1] = 0
    BY <1>3 DEF Opened
  <2>5. \E at2 : /\ Spelt(D, end2, Append(tokens, token), at2)
                 /\ \A i \in 1..(Len(C) + 1) : at2[i] = at[i]
    BY <1>4, <2>1, <2>2, <2>3, <2>4, SpeltMore
  <2>6. QED BY <1>6, <2>5
<1>8. Placed(stack2, st2, at2)
  <2>1. PICK S : stack \in Seq(S)
    BY <1>5 DEF InStep
  <2>2. Len(stack) = d
    BY <1>5 DEF InStep
  <2>3. /\ Len(stack2) = d + 1
        /\ \A k \in 1..d : stack2[k] = stack[k]
        /\ \A k \in 1..(d + 1) : k = d + 1 => stack2[k] = entry
    BY <1>6, <2>1, <2>2, PushedAny
  <2>4. SUFFICES ASSUME NEW k \in 1..(d + 1)
                 PROVE  stack2[k].position_for_write + 1 = at2[st2[k]]
    BY <2>3 DEF Placed
  <2>5. CASE k \in 1..d
    <3>1. stack[k].position_for_write + 1 = at[st[k]]
      BY <1>1, <1>5, <2>2, <2>5 DEF Placed
    <3>2. st2[k] = st[k]
      BY <1>3, <2>5 DEF Opened
    <3>3. st[k] \in 1..(n + 1)
      BY <1>4, <2>5
    <3>4. at2[st[k]] = at[st[k]]
      BY <1>7, <3>3
    <3>5. QED BY <2>3, <2>5, <3>1, <3>2, <3>4
  <2>6. CASE k = d + 1
    <3>1. stack2[k].position_for_write = Len(tokens)
      BY <1>5, <2>3, <2>6
    <3>2. st2[k] = n + 1
      BY <1>3, <2>6 DEF Opened
    <3>3. at2[n + 1] = at[n + 1]
      BY <1>4, <1>7
    <3>4. at[n + 1] = Len(tokens) + 1
      BY <1>1, <1>5 DEF Spelt
    <3>5. QED BY <3>1, <3>2, <3>3, <3>4
  <2>7. QED BY <1>4, <2>5, <2>6
<1>9. Spelling(D, pos2, par2, end2, st2, at2)'
  BY <1>3, <1>5, <1>6, <1>7, <1>8 DEF Spelling
<1>10. \E p, q, e, s, a : Spelling(D, p, q, e, s, a)'
  BY <1>9
<1>11. QED BY <1>2, <1>10

LEMMA SpellEnd ==
  ASSUME IInv, DataInv, InStep, InStep',
         NEW C, NEW pos, NEW par, NEW end, NEW st, NEW at, Spelling(C, pos, par, end, st, at),
         EndBlock, T!EndBlock,
         NEW call, call.name = "named_block_end", call.gave = returned'
  PROVE  \E pos2, par2, end2, at2 :
           Spelling(Append(C, call), pos2, par2, end2, st, at2)'
<1> DEFINE n == Len(C)
           d == Len(scope_stack)
<1>1. /\ Constructing(C, pos, par, end, st) /\ Spelt(C, end, prod, at)
      /\ Placed(text_scope_stack, st, at)
  BY DEF Spelling
<1>2. PICK D, b : D = Append(C, call) /\ b = st[d]
  OBVIOUS
<1>3. PICK pos2, par2, end2 : /\ Closed(n, end, end2, b)
                              /\ Constructing(D, pos2, par2, end2, st)'
  <2>1. \E pos2, par2, end2 :
           /\ Closed(Len(C), end, end2, st[Len(scope_stack)])
           /\ Constructing(Append(C, call), pos2, par2, end2, st)'
    BY <1>1, ConstructEnd
  <2>2. QED BY <1>2, <2>1
<1>4. /\ Begins(C, D) /\ Len(D) = Len(C) + 1 /\ D[Len(C) + 1] = call
      /\ n \in Nat /\ d \in Nat
      /\ Chain(C, par, st, d, n + 1)
  <2>1. Traced(C, data, pos, par, end) /\ Len(C) \in Nat /\ d \in Nat
    BY <1>1, ConstructFacts
  <2>2. \E U : C \in Seq(U)
    BY <2>1 DEF Traced
  <2>3. Chain(C, par, st, d, n + 1)
    BY <1>1, ConstructFacts
  <2>4. QED BY <1>2, <2>1, <2>2, <2>3, BeginsAppend
<1>5. /\ d >= 1 /\ b \in 1..n /\ C[b].name = "named_block_begin" /\ end[b] = 0
  BY <1>1, <1>2, EndingBlock
<1>6. PICK tokens, tokens2, stack, stack2, length :
        /\ tokens = prod /\ tokens2 = prod' /\ stack = text_scope_stack
        /\ stack2 = text_scope_stack'
        /\ length = T!WriteDec(BlockName, call.gave)
  OBVIOUS
<1>7. Len(stack) = d /\ \E S : stack \in Seq(S)
  BY <1>6 DEF InStep
<1>8. PICK place : place = at[b]
  OBVIOUS
<1>9. WithInserted(Append(tokens, T!Close), place, length, tokens2)
  <2>1. T!PlaceForLength = place
    <3>1. stack[d].position_for_write + 1 = at[st[d]]
      BY <1>1, <1>4, <1>5, <1>6, <1>7 DEF Placed
    <3>2. T!PlaceForLength = stack[d].position_for_write + 1
      BY <1>6, <1>7 DEF T!PlaceForLength, T!Top
    <3>3. QED BY <1>2, <1>8, <3>1, <3>2
  <2>2. T!WriteDec(BlockName, T!BlockBits \div ByteBits) = length
    <3>1. text_returned' = T!BlockBits \div ByteBits
      BY DEF T!EndBlock
    <3>2. text_returned' = returned'
      BY DEF InStep
    <3>3. QED BY <1>6, <3>1, <3>2
  <2>3. PICK more : more = Append(tokens, T!Close)
    OBVIOUS
  <2>4. tokens2 = T!Seqs!InsertAt(more, place, length)
    BY <1>6, <2>1, <2>2, <2>3 DEF T!EndBlock
  <2>5. Len(more) = Len(tokens) + 1 /\ Len(tokens) \in Nat /\ \E U : more \in Seq(U)
    <3>1. PICK U : tokens \in Seq(U)
      BY <1>1, <1>6 DEF Spelt
    <3>2. PICK close : close = T!Close
      OBVIOUS
    <3>3. \E V : Append(tokens, close) \in Seq(V) /\ Len(Append(tokens, close)) = Len(tokens) + 1
      BY <3>1, PushedAny
    <3>4. QED BY <2>3, <3>1, <3>2, <3>3, LenProperties
  <2>6. place \in 1..Len(more)
    <3>1. Spelt(C, end, tokens, at) /\ Len(C) \in Nat
      BY <1>1, <1>4, <1>6
    <3>2. at[b] \in 1..(Len(tokens) + 1)
      BY <1>5, <3>1, SpeltOrder
    <3>3. QED BY <1>8, <2>5, <3>2
  <2>7. PICK U : more \in Seq(U)
    BY <2>5
  <2>8. PICK S : S = U \cup {length}
    OBVIOUS
  <2>9. more \in Seq(S) /\ length \in S
    BY <2>7, <2>8, SeqMonotonic
  <2>10. WithInserted(more, place, length, T!Seqs!InsertAt(more, place, length))
    BY <2>6, <2>9, Inserted
  <2>11. QED BY <2>3, <2>4, <2>10
<1>10. PICK at2 : Spelt(D, end2, tokens2, at2) /\ \A i \in 1..b : at2[i] = at[i]
  <2>1. Spelt(C, end, tokens, at)
    BY <1>1, <1>6
  <2>2. Closed(Len(C), end, end2, b)
    BY <1>3
  <2>3. Shuts(C, D, end, end2, tokens, tokens2, at, b, call)
    BY <1>4, <1>5, <1>6, <1>8, <1>9, <2>2 DEF Shuts
  <2>4. \E at2 : /\ Spelt(D, end2, tokens2, at2)
                 /\ \A i \in 1..b : at2[i] = at[i]
    BY <2>1, <2>3, SpeltEnd
  <2>5. QED BY <2>4
<1>11. Placed(stack2, st, at2)
  <2>1. PICK S : stack \in Seq(S)
    BY <1>7
  <2>2. stack # <<>> /\ stack2 = SubSeq(stack, 1, Len(stack) - 1)
    BY <1>6 DEF T!EndBlock
  <2>3. Len(stack2) = d - 1 /\ \A k \in 1..(d - 1) : stack2[k] = stack[k]
    BY <1>7, <2>1, <2>2, PoppedAny
  <2>4. SUFFICES ASSUME NEW k \in 1..(d - 1)
                 PROVE  stack2[k].position_for_write + 1 = at2[st[k]]
    BY <2>3 DEF Placed
  <2>5. k \in 1..d /\ d \in 1..d /\ k < d
    BY <1>4
  <2>6. stack[k].position_for_write + 1 = at[st[k]]
    BY <1>1, <1>6, <1>7, <2>5 DEF Placed
  <2>7. st[k] < st[d] /\ st[k] \in 1..((n + 1) - 1)
    BY <1>4, <2>5 DEF Chain
  <2> DEFINE i == st[k]
  <2>8. i \in 1..b
    <3>1. i < b /\ i \in 1..((n + 1) - 1) /\ b \in Nat
      BY <1>2, <1>4, <1>5, <2>7
    <3> HIDE DEF i
    <3>2. QED BY <3>1
  <2>9. at2[i] = at[i]
    BY <1>10, <2>8
  <2>10. QED BY <2>3, <2>6, <2>9
<1>12. Spelling(D, pos2, par2, end2, st, at2)'
  BY <1>3, <1>6, <1>10, <1>11 DEF Spelling
<1>13. \E p, q, e, a : Spelling(D, p, q, e, st, a)'
  BY <1>12
<1>14. QED BY <1>2, <1>13

\* a call constructs the message and the text
LEMMA SpellStep ==
  ASSUME NumbersFit, IInv, DataInv, SimInv, SimInv', SpellInv, Construct
  PROVE  SpellInv'
<1>1. SUFFICES ASSUME ~thrown'
               PROVE  /\ (calls.text)' = (calls.binary)'
                      /\ \E pos, par, end, st, at :
                           Spelling(calls.binary, pos, par, end, st, at)'
  BY DEF SpellInv
<1>2. PICK C : C = calls.binary
  OBVIOUS
<1>3. ~text_thrown' /\ InStep'
  BY <1>1 DEF SimInv
<1>4. ASSUME NEW D, NEW call, D = Append(C, call), ~thrown,
             (calls.binary)' = D, (calls.text)' = Append(calls.text, call),
             \E pos, par, end, st, at : Spelling(Append(C, call), pos, par, end, st, at)'
      PROVE  /\ (calls.text)' = (calls.binary)'
             /\ \E pos, par, end, st, at : Spelling(calls.binary, pos, par, end, st, at)'
  <2>1. calls.text = C
    BY <1>2, <1>4 DEF SpellInv
  <2>2. (calls.binary)' = D /\ (calls.text)' = D
    BY <1>4, <2>1
  <2>3. \E pos, par, end, st, at : Spelling(D, pos, par, end, st, at)'
    BY <1>4
  <2>4. QED BY <2>2, <2>3 DEF Spelling, Constructing
<1>5. CASE \E f \in Fields :
             LET call == [name |-> "uint", field |-> f, gave |-> f.val] IN
             OnBoth(Uint(f), T!Uint(f), call, call)
  <2>1. PICK f \in Fields :
          LET call == [name |-> "uint", field |-> f, gave |-> f.val] IN
          OnBoth(Uint(f), T!Uint(f), call, call)
    BY <1>5
  <2>2. PICK call, D : /\ call = [name |-> "uint", field |-> f, gave |-> f.val]
                       /\ D = Append(C, call)
    OBVIOUS
  <2>3. OnBoth(Uint(f), T!Uint(f), call, call)
    BY <2>1, <2>2
  <2>4. ~thrown /\ f.size <= f.w /\ Write(f.w, f.size, f.val)
    BY <1>1, <2>3 DEF OnBoth, vars, Uint, Write, RefuseWrite
  <2>5. T!Write(f)
    BY <1>3, <2>3 DEF OnBoth, text, T!Uint, T!Write, T!RefuseWrite
  <2>6. PICK pos, par, end, st, at : Spelling(C, pos, par, end, st, at)
    BY <1>2, <2>4 DEF SpellInv
  <2>7. InStep
    BY <2>4 DEF SimInv
  <2>8. \E pos2, par2, at2 : Spelling(Append(C, call), pos2, par2, end, st, at2)'
    BY <2>2, <2>4, <2>5, <2>6, <2>7, SpellNumber
  <2>9. \E p, q, e, s, a : Spelling(Append(C, call), p, q, e, s, a)'
    BY <2>8
  <2>10. (calls.binary)' = D /\ (calls.text)' = Append(calls.text, call)
    BY <1>1, <1>2, <1>3, <2>2, <2>3 DEF OnBoth
  <2>11. QED BY <1>4, <2>2, <2>4, <2>9, <2>10
<1>6. CASE \E size \in LengthBits :
             LET call == [name |-> "named_block_begin", field |-> size, gave |-> 0] IN
             OnBoth(NamedBlockBegin(size), T!NamedBlockBegin(size), call, call)
  <2>1. PICK size \in LengthBits :
          LET call == [name |-> "named_block_begin", field |-> size, gave |-> 0] IN
          OnBoth(NamedBlockBegin(size), T!NamedBlockBegin(size), call, call)
    BY <1>6
  <2>2. PICK call, D : /\ call = [name |-> "named_block_begin", field |-> size, gave |-> 0]
                       /\ D = Append(C, call)
    OBVIOUS
  <2>3. OnBoth(NamedBlockBegin(size), T!NamedBlockBegin(size), call, call)
    BY <2>1, <2>2
  <2>4. ~thrown /\ BeginBlock(size)
    BY <1>1, <2>3 DEF OnBoth, vars, NamedBlockBegin, BeginBlock, RefuseBegin
  <2>5. T!BeginBlock(size)
    BY <1>3, <2>3 DEF OnBoth, text, T!NamedBlockBegin, T!BeginBlock, T!RefuseBegin
  <2>6. PICK pos, par, end, st, at : Spelling(C, pos, par, end, st, at)
    BY <1>2, <2>4 DEF SpellInv
  <2>7. InStep
    BY <2>4 DEF SimInv
  <2>8. \E p, q, e, s, a : Spelling(Append(C, call), p, q, e, s, a)'
    BY <2>2, <2>4, <2>5, <2>6, <2>7, SpellBegin
  <2>9. (calls.binary)' = D /\ (calls.text)' = Append(calls.text, call)
    BY <1>1, <1>2, <1>3, <2>2, <2>3 DEF OnBoth
  <2>10. QED BY <1>4, <2>2, <2>4, <2>8, <2>9
<1>7. CASE OnBoth(NamedBlockEnd, T!NamedBlockEnd, Ended(returned'), Ended(text_returned'))
  <2>1. PICK call, D : call = Ended(returned') /\ D = Append(C, call)
    OBVIOUS
  <2>2. text_returned' = returned'
    BY <1>3 DEF InStep
  <2>3. OnBoth(NamedBlockEnd, T!NamedBlockEnd, call, call)
    BY <1>7, <2>1, <2>2
  <2>4. ~thrown /\ EndBlock
    BY <1>1, <2>3 DEF OnBoth, vars, NamedBlockEnd, EndBlock, RefuseLength, RefuseEnd
  <2>5. T!EndBlock
    BY <1>3, <2>3 DEF OnBoth, text, T!NamedBlockEnd, T!EndBlock, T!RefuseEnd
  <2>6. PICK pos, par, end, st, at : Spelling(C, pos, par, end, st, at)
    BY <1>2, <2>4 DEF SpellInv
  <2>7. InStep
    BY <2>4 DEF SimInv
  <2>8. call.name = "named_block_end" /\ call.gave = returned'
    BY <2>1 DEF Ended
  <2>9. \E pos2, par2, end2, at2 : Spelling(Append(C, call), pos2, par2, end2, st, at2)'
    BY <1>3, <2>4, <2>5, <2>6, <2>7, <2>8, SpellEnd
  <2>10. \E p, q, e, s, a : Spelling(Append(C, call), p, q, e, s, a)'
    BY <2>9
  <2>11. (calls.binary)' = D /\ (calls.text)' = Append(calls.text, call)
    BY <1>1, <1>2, <1>3, <2>1, <2>3 DEF OnBoth
  <2>12. QED BY <1>4, <2>1, <2>4, <2>10, <2>11
<1>8. QED BY <1>5, <1>6, <1>7 DEF Construct

LEMMA NothingSpelled == ModesInit => SpellInv
<1>1. SUFFICES ASSUME ModesInit PROVE SpellInv
  OBVIOUS
<1>2. /\ calls.binary = <<>> /\ calls.text = <<>> /\ prod = <<>> /\ text_scope_stack = <<>>
      /\ thrown = FALSE
  BY <1>1 DEF ModesInit, Init, T!Init
<1>3. PICK pos, par, end, st : Constructing(<<>>, pos, par, end, st)
  BY <1>1, <1>2, NothingConstructed DEF ConstructInv
<1> DEFINE one == [i \in Nat |-> 1]
<1>4. one \in [Nat -> Nat] /\ \A i \in Nat : one[i] = 1
  OBVIOUS
<1> HIDE DEF one
<1>5. <<>> \in Seq({}) /\ Len(<<>>) = 0 /\ 1..0 = {} /\ 0 + 1 = 1 /\ 1 \in Nat
      /\ \A i, j \in 1..1 : ~(i < j)
  OBVIOUS
<1>6. Spelt(<<>>, end, <<>>, one)
  <2>1. \E U : <<>> \in Seq(U)
    BY <1>5
  <2>2. one[1] = 1 /\ one[Len(<<>>) + 1] = Len(<<>>) + 1
    BY <1>4, <1>5
  <2>3. \A i, j \in 1..(Len(<<>>) + 1) : ~(i < j)
    BY <1>5
  <2>4. 1..Len(<<>>) = {}
    BY <1>5
  <2>5. QED BY <1>4, <2>1, <2>2, <2>3, <2>4 DEF Spelt
<1>7. Placed(text_scope_stack, st, one)
  BY <1>2, <1>5 DEF Placed
<1>8. Spelling(calls.binary, pos, par, end, st, one)
  BY <1>2, <1>3, <1>6, <1>7 DEF Spelling
<1>9. QED BY <1>2, <1>8 DEF SpellInv

----------------------------------------------------------------------------
\* a message whose blocks have all ended is within the buffer
LEMMA InsideBuffer ==
  ASSUME NEW C, NEW bits, NEW pos, NEW par, NEW end, Traced(C, bits, pos, par, end),
         \A i \in 1..Len(C) : C[i].name = "named_block_begin" => end[i] # 0
  PROVE  \A j \in 1..(Len(C) + 1) : pos[j] <= BufferBits
<1> DEFINE n == Len(C)
           Beyond == {j \in 1..(n + 1) : ~(pos[j] <= BufferBits)}
<1>1. n \in Nat /\ pos[1] = 0 /\ BufferBits \in Nat /\ 0 <= BufferBits
  BY TraceFacts, Sizes DEF Traced
<1>2. ASSUME Beyond # {} PROVE FALSE
  <2>1. PICK j \in Beyond : \A i \in Beyond : j <= i
    <3>1. Beyond \in SUBSET Nat
      BY <1>1
    <3> HIDE DEF Beyond
    <3>2. QED BY <1>2, <3>1, LeastOf
  <2>2. j \in 1..(n + 1) /\ ~(pos[j] <= BufferBits) /\ j # 1
    BY <1>1, <2>1
  <2> DEFINE i == j - 1
             k == i + 1
  <2>3. i \in 1..n /\ i \in 1..(n + 1) /\ k = j /\ ~(j <= i)
    <3> HIDE DEF n
    <3>1. QED BY <1>1, <2>2
  <2>4. pos[i] <= BufferBits
    BY <2>1, <2>3
  <2> HIDE DEF i
  <2>5. C[i].name = "uint" => pos[k] <= BufferBits
    BY <2>3, TraceFacts DEF NumberAt
  <2>6. C[i].name = "named_block_begin" => pos[k] <= BufferBits
    BY <2>3, TraceFacts DEF BeginAt, LengthAt
  <2>7. C[i].name = "named_block_end" => pos[k] = pos[i]
    BY <2>3, TraceFacts DEF EndAt
  <2>8. pos[k] <= BufferBits
    BY <2>3, <2>4, <2>5, <2>6, <2>7, TraceFacts
  <2>9. QED BY <2>2, <2>3, <2>8
<1>3. QED BY <1>2 DEF n

\* the length of a block within the buffer is written without a sign
LEMMA ShortLengths ==
  ASSUME NEW n \in LengthBits, NEW gave \in 0..(2^n - 1), gave * ByteBits <= BufferBits
  PROVE  gave \in Nat /\ gave + gave < Word
<1> DEFINE most == MostBytes(n)
           open == 4 * MaxOpen
           all == BufferBytes + open + most
<1>1. /\ BufferBytes \in Nat /\ open \in Nat /\ most \in Nat /\ all * ByteBits < Word
      /\ ByteBits \in Nat \ {0}
  BY Sizes, OutAssumption
<1>2. gave \in Nat /\ gave <= most
  BY <1>1 DEF MostBytes
<1> HIDE DEF most, open
<1>3. gave <= BufferBytes
  <2>1. gave * ByteBits \in Nat /\ gave * ByteBits <= BufferBytes * ByteBits
    BY <1>1, <1>2, BytesInBits DEF BufferBits
  <2>2. (gave * ByteBits) \div ByteBits <= BufferBytes
    BY <1>1, <2>1, BytesInBits
  <2>3. (gave * ByteBits) \div ByteBits = gave
    BY <1>1, <1>2
  <2>4. QED BY <2>2, <2>3
<1>4. gave + gave <= all /\ all \in Nat
  BY <1>1, <1>2, <1>3
<1> HIDE DEF all
<1>5. all <= all * ByteBits /\ all * ByteBits \in Nat
  BY <1>1, <1>4
<1>6. Word \in Nat
  <2>1. 4 * ByteBits \in 0..(5 * ByteBits)
    BY <1>1
  <2>2. QED BY <2>1, Powers DEF Word
<1> DEFINE w == all * ByteBits
<1>7. gave + gave <= w /\ w \in Nat /\ w < Word
  <2>1. all <= w /\ w \in Nat /\ w < Word
    BY <1>1, <1>5 DEF all
  <2> HIDE DEF w
  <2>2. QED BY <1>2, <1>4, <2>1
<1> HIDE DEF w
<1>8. QED BY <1>2, <1>6, <1>7

\* what is left of the tokens from the i-th on
Rest(rest, tokens, i) ==
  /\ \E U : rest \in Seq(U)
  /\ Len(rest) = Len(tokens) + 1 - i
  /\ \A k \in 1..Len(rest) : rest[k] = tokens[i + k - 1]

LEMMA RestNext ==
  ASSUME NEW rest, NEW tokens, NEW i, i \in Nat, Len(tokens) \in Nat,
         Rest(rest, tokens, i), i <= Len(tokens)
  PROVE  /\ rest # <<>> /\ Head(rest) = tokens[i]
         /\ Rest(Tail(rest), tokens, i + 1)
<1> DEFINE n == Len(rest)
           l == Len(tokens)
           tail == Tail(rest)
<1>1. PICK U : rest \in Seq(U)
  BY DEF Rest
<1>2. n \in Nat /\ n = l + 1 - i /\ \A k \in 1..n : rest[k] = tokens[i + k - 1]
  BY <1>1, LenProperties DEF Rest
<1>3. n >= 1 /\ 1 \in 1..n /\ i + 1 - 1 = i
  <2> HIDE DEF n, l
  <2>1. l \in Nat
    BY DEF l
  <2>2. i <= l
    BY DEF l
  <2>3. QED BY <1>2, <2>1, <2>2
<1>4. rest # <<>>
  BY <1>3
<1>5. Head(rest) = tokens[i]
  <2>1. Head(rest) = rest[1]
    BY <1>1, <1>4, HeadTailProperties
  <2>2. rest[1] = tokens[i + 1 - 1]
    BY <1>2, <1>3
  <2>3. QED BY <1>3, <2>1, <2>2
<1>6. tail \in Seq(U) /\ Len(tail) = n - 1 /\ \A k \in 1..Len(tail) : tail[k] = rest[k + 1]
  BY <1>1, <1>4, HeadTailProperties
<1> HIDE DEF tail, n, l
<1>7. ASSUME NEW k \in 1..Len(tail) PROVE tail[k] = tokens[i + 1 + k - 1]
  <2> DEFINE m == k + 1
  <2>1. m \in 1..n /\ i + m - 1 = i + 1 + k - 1
    BY <1>2, <1>6
  <2> HIDE DEF m
  <2>2. rest[m] = tokens[i + m - 1]
    BY <1>2, <2>1
  <2>3. tail[k] = rest[m]
    BY <1>6 DEF m
  <2>4. QED BY <2>1, <2>2, <2>3
<1>8. Len(tail) = l + 1 - (i + 1)
  <2>1. l \in Nat
    BY DEF l
  <2>2. QED BY <1>2, <1>6, <2>1
<1>9. Rest(tail, tokens, i + 1)
  BY <1>6, <1>7, <1>8 DEF Rest, l
<1>10. QED BY <1>4, <1>5, <1>9 DEF tail

\* the tokens of the j-th call come next, and then those of the one after it
LEMMA NextTokens ==
  ASSUME NEW C, NEW end, NEW tokens, NEW at, NEW rest, Spelt(C, end, tokens, at),
         Len(C) \in Nat, NEW j \in 1..Len(C), Rest(rest, tokens, at[j])
  PROVE  /\ WrittenAt(C, end, tokens, at, j)
         /\ rest # <<>> /\ Head(rest) = tokens[at[j]]
         /\ at[j + 1] = at[j] + 1 => Rest(Tail(rest), tokens, at[j + 1])
         /\ at[j + 1] = at[j] + 2 => /\ Tail(rest) # <<>>
                                     /\ Head(Tail(rest)) = tokens[at[j] + 1]
                                     /\ Rest(Tail(Tail(rest)), tokens, at[j + 1])
<1> DEFINE i == at[j]
           k == at[j + 1]
           l == Len(tokens)
<1>1. WrittenAt(C, end, tokens, at, j)
  BY DEF Spelt
<1>2. l \in Nat /\ i \in Nat /\ k \in Nat /\ i < k /\ k <= l + 1
  <2>1. j \in 1..(Len(C) + 1) /\ j + 1 \in 1..(Len(C) + 1) /\ j < j + 1
    OBVIOUS
  <2>2. l \in Nat /\ i \in 1..(l + 1) /\ k \in 1..(l + 1)
    BY <2>1, SpeltOrder
  <2>3. i < k
    BY <2>1 DEF Spelt
  <2> HIDE DEF i, k, l
  <2>4. QED BY <2>2, <2>3
<1> HIDE DEF i, k
<1>3. rest # <<>> /\ Head(rest) = tokens[i] /\ Rest(Tail(rest), tokens, i + 1)
  <2>1. i <= Len(tokens)
    BY <1>2
  <2>2. Rest(rest, tokens, i)
    BY DEF i
  <2>3. QED BY <1>2, <2>1, <2>2, RestNext
<1>4. ASSUME k = i + 2
      PROVE  /\ Tail(rest) # <<>> /\ Head(Tail(rest)) = tokens[i + 1]
             /\ Rest(Tail(Tail(rest)), tokens, k)
  <2> DEFINE m == i + 1
             tail == Tail(rest)
  <2>1. m \in Nat /\ m <= Len(tokens) /\ m + 1 = k
    BY <1>2, <1>4
  <2>2. Rest(tail, tokens, m)
    BY <1>3
  <2> HIDE DEF m, tail
  <2>3. tail # <<>> /\ Head(tail) = tokens[m] /\ Rest(Tail(tail), tokens, m + 1)
    BY <1>2, <2>1, <2>2, RestNext
  <2>4. QED BY <2>1, <2>3 DEF m, tail
<1>5. QED BY <1>1, <1>3, <1>4 DEF i, k

----------------------------------------------------------------------------
\* the calls of C before the j-th have been repeated on the text
Following(C, pos, par, end, st, at, j) ==
  /\ Reading(C, data, pos, par, end, st, j, read_bitlimit, read_scope_stack)
  /\ pos[Len(C) + 1] = bitpos
  /\ read_bitpos = pos[j]
  /\ Spelt(C, end, prod, at)
  /\ Rest(unread, prod, at[j])

LEMMA FollowFacts ==
  ASSUME NEW C, NEW pos, NEW par, NEW end, NEW st, NEW at, NEW j,
         Following(C, pos, par, end, st, at, j)
  PROVE  /\ Reading(C, data, pos, par, end, st, j, read_bitlimit, read_scope_stack)
         /\ Traced(C, data, pos, par, end) /\ Len(C) \in Nat
         /\ \A i \in 1..Len(C) : C[i].name = "named_block_begin" => end[i] # 0
<1>1. Traced(C, data, pos, par, end)
  BY DEF Following, Reading
<1>2. QED BY <1>1, TraceFacts DEF Following, Reading

\* a number that is legible is read
LEMMA FollowNumber ==
  ASSUME NumbersFit, NEW C, NEW pos, NEW par, NEW end, NEW st, NEW at, NEW j \in 1..Len(C),
         Following(C, pos, par, end, st, at, j), C[j].name = "uint", Legible(C[j].field),
         ~read_thrown, R!Uint(C[j].field) \/ R!UintReq(C[j].field),
         UNCHANGED <<bitpos, data, prod>>
  PROVE  /\ ~read_thrown'
         /\ R!Uint(C[j].field) => read_returned' = C[j].gave
         /\ C[j].gave = C[j].field.val
         /\ Following(C, pos, par, end, st, at, j + 1)'
<1> DEFINE f == C[j].field
<1>1. /\ Reading(C, data, pos, par, end, st, j, read_bitlimit, read_scope_stack)
      /\ Len(C) \in Nat
      /\ pos[Len(C) + 1] = bitpos /\ read_bitpos = pos[j]
      /\ Spelt(C, end, prod, at) /\ Rest(unread, prod, at[j])
  BY FollowFacts DEF Following
<1>2. /\ NumberAt(C, data, pos, par, j)
      /\ Reading(C, data, pos, par, end, st, j + 1, read_bitlimit, read_scope_stack)
  BY <1>1, ReadingNumber
<1>3. f \in Fields /\ C[j].gave = f.val /\ pos[j + 1] = pos[j] + f.size /\ f.val < 2^f.size
  BY <1>2 DEF NumberAt, NumbersFit
<1>4. PICK tokens, rest, token : /\ tokens = prod /\ rest = unread
                                 /\ token = T!Written(f.name, f.hint, f.size, f.val)
  OBVIOUS
<1>5. rest # <<>> /\ Head(rest) = token /\ Rest(Tail(rest), tokens, at[j + 1])
  <2>1. Spelt(C, end, tokens, at) /\ Rest(rest, tokens, at[j])
    BY <1>1, <1>4
  <2>2. /\ WrittenAt(C, end, tokens, at, j)
        /\ rest # <<>> /\ Head(rest) = tokens[at[j]]
        /\ at[j + 1] = at[j] + 1 => Rest(Tail(rest), tokens, at[j + 1])
    BY <1>1, <2>1, NextTokens
  <2>3. One(tokens, at, j, token)
    BY <1>4, <2>2 DEF WrittenAt
  <2>4. QED BY <2>2, <2>3 DEF One
<1>6. token.kind = "number" /\ token.name = f.name /\ token.prefix # "-" /\ R!Value(token) = f.val
  BY <1>3, <1>4, ReadsWritten
<1> HIDE DEF f
<1>7. R!Readable(f.name, f.size) /\ R!NumberRead = f.val /\ R!AfterNumber = Tail(rest)
  <2>1. unread # <<>> /\ Head(unread) = token
    BY <1>4, <1>5
  <2>2. R!NextIs("number") /\ Head(unread).name = f.name
    BY <1>6, <2>1 DEF R!NextIs
  <2>3. R!Value(Head(unread)) = f.val
    BY <1>6, <2>1
  <2>4. R!Readable(f.name, f.size)
    BY <1>3, <2>2, <2>3 DEF R!Readable
  <2>5. R!AfterNumber = Tail(unread)
    BY <1>6, <2>1 DEF R!AfterNumber
  <2>6. QED BY <1>4, <2>3, <2>4, <2>5 DEF R!NumberRead
<1>8. /\ ~read_thrown' /\ (R!Uint(f) => read_returned' = f.val)
      /\ read_bitpos' = pos[j + 1] /\ unread' = Tail(rest)
      /\ UNCHANGED <<read_bitlimit, read_scope_stack>>
  <2>1. ~R!RefuseRead(f.name, f.size)
    BY <1>7 DEF R!RefuseRead
  <2>2. R!Read(f.name, f.size) => read_bitpos' = pos[j + 1]
    BY <1>1, <1>3 DEF R!Read
  <2>3. R!Uint(f) => /\ ~read_thrown' /\ read_returned' = f.val
                     /\ read_bitpos' = pos[j + 1] /\ unread' = Tail(rest)
                     /\ UNCHANGED <<read_bitlimit, read_scope_stack>>
    BY <1>7, <2>1, <2>2 DEF R!Uint
  <2>4. R!UintReq(f) => /\ ~read_thrown'
                        /\ read_bitpos' = pos[j + 1] /\ unread' = Tail(rest)
                        /\ UNCHANGED <<read_bitlimit, read_scope_stack>>
    BY <1>7, <2>1, <2>2 DEF R!UintReq
  <2>5. QED BY <2>3, <2>4 DEF f
<1>9. Following(C, pos, par, end, st, at, j + 1)'
  BY <1>1, <1>2, <1>4, <1>5, <1>8 DEF Following
<1>10. QED BY <1>3, <1>8, <1>9 DEF f

\* a block is begun
LEMMA FollowBegin ==
  ASSUME NEW C, NEW pos, NEW par, NEW end, NEW st, NEW at, NEW j \in 1..Len(C),
         Following(C, pos, par, end, st, at, j), C[j].name = "named_block_begin",
         ~read_thrown, R!NamedBlockBegin(C[j].field),
         UNCHANGED <<bitpos, data, prod>>
  PROVE  /\ ~read_thrown'
         /\ C[j].gave = 0
         /\ \E st2 : Following(C, pos, par, end, st2, at, j + 1)'
<1> DEFINE n == C[j].field
           last == end[j]
           gave == C[last].gave
<1>1. /\ Reading(C, data, pos, par, end, st, j, read_bitlimit, read_scope_stack)
      /\ Traced(C, data, pos, par, end) /\ Len(C) \in Nat
      /\ pos[Len(C) + 1] = bitpos /\ read_bitpos = pos[j]
      /\ Spelt(C, end, prod, at) /\ Rest(unread, prod, at[j])
      /\ \A i \in 1..Len(C) : C[i].name = "named_block_begin" => end[i] # 0
  BY FollowFacts DEF Following
<1>2. PICK entry : entry = [bitpos_at_enter |-> pos[j + 1], bitlimit_at_enter |-> read_bitlimit]
  OBVIOUS
<1>3. /\ BeginAt(C, data, pos, par, end, j)
      /\ LengthAt(C, data, pos, end, j)
      /\ pos[last] <= read_bitlimit
      /\ \E st2 : Reading(C, data, pos, par, end, st2, j + 1, pos[last],
                          Append(read_scope_stack, entry))
  <2>1. entry.bitpos_at_enter = pos[j + 1] /\ entry.bitlimit_at_enter = read_bitlimit
    BY <1>2
  <2>2. QED BY <1>1, <2>1, ReadingBegin
<1>4. /\ n \in LengthBits /\ C[j].gave = 0 /\ pos[j + 1] = pos[j] + n
      /\ Aligned(pos[j + 1])
      /\ last \in (j + 1)..Len(C)
      /\ gave \in 0..(2^n - 1)
      /\ pos[last] = pos[j + 1] + gave * ByteBits
  BY <1>3 DEF BeginAt, LengthAt
<1>5. last \in 1..Len(C) /\ last # 0 /\ last \in 1..(Len(C) + 1)
  <2> HIDE DEF last
  <2>1. QED BY <1>1, <1>4
<1>6. gave \in Nat /\ gave + gave < Word /\ gave < 2^n
  <2>1. pos[last] <= BufferBits
    BY <1>1, <1>5, InsideBuffer
  <2>2. pos[j + 1] \in Nat /\ 2^n \in Nat
    <3>1. pos[j + 1] \in Nat
      BY <1>1, TraceFacts
    <3>2. n \in 1..(4 * ByteBits)
      BY <1>4, OutAssumption
    <3> HIDE DEF n
    <3>3. n \in 0..(5 * ByteBits)
      BY <3>2, ByteAssumption
    <3>4. QED BY <3>1, <3>3, Powers
  <2>3. gave \in Nat /\ gave < 2^n
    <3> DEFINE p == 2^n
    <3>1. p \in Nat /\ gave \in 0..(p - 1)
      BY <1>4, <2>2
    <3> HIDE DEF p, gave
    <3>2. gave \in Nat /\ gave < p
      BY <3>1
    <3>3. QED BY <3>2 DEF p
  <2>4. gave * ByteBits <= BufferBits
    <3> DEFINE w == gave * ByteBits
               a == pos[j + 1]
               b == pos[last]
    <3>1. w \in Nat /\ BufferBits \in Nat
      BY <2>3, Sizes
    <3>2. b = a + w /\ b <= BufferBits /\ a \in Nat
      BY <1>4, <2>1, <2>2
    <3> HIDE DEF w, a, b
    <3>3. w <= BufferBits
      BY <3>1, <3>2
    <3>4. QED BY <3>3 DEF w
  <2> HIDE DEF gave, n
  <2>5. gave + gave < Word
    BY <1>4, <2>4, ShortLengths
  <2>6. QED BY <2>3, <2>5
<1>7. PICK tokens, rest, token : /\ tokens = prod /\ rest = unread
                                 /\ token = T!WriteDec(BlockName, gave)
  OBVIOUS
<1>8. /\ rest # <<>> /\ Head(rest) = token
      /\ Tail(rest) # <<>> /\ Head(Tail(rest)) = T!Open
      /\ Rest(Tail(Tail(rest)), tokens, at[j + 1])
  <2>1. Spelt(C, end, tokens, at) /\ Rest(rest, tokens, at[j])
    BY <1>1, <1>7
  <2>2. /\ WrittenAt(C, end, tokens, at, j)
        /\ rest # <<>> /\ Head(rest) = tokens[at[j]]
        /\ at[j + 1] = at[j] + 1 => Rest(Tail(rest), tokens, at[j + 1])
        /\ at[j + 1] = at[j] + 2 => /\ Tail(rest) # <<>>
                                    /\ Head(Tail(rest)) = tokens[at[j] + 1]
                                    /\ Rest(Tail(Tail(rest)), tokens, at[j + 1])
    BY <1>1, <2>1, NextTokens
  <2>3. Two(tokens, at, j, token, T!Open)
    BY <1>5, <1>7, <2>2 DEF WrittenAt
  <2>4. QED BY <2>2, <2>3 DEF Two
<1>9. /\ token.kind = "number" /\ token.name = BlockName /\ token.prefix # "-"
      /\ R!Value(token) = gave
  <2> HIDE DEF gave
  <2>1. QED BY <1>6, <1>7, ReadsLength
<1> HIDE DEF n, gave, last
<1>10. R!Readable(BlockName, n) /\ R!NumberRead = gave /\ R!AfterNumber = Tail(rest)
  <2>1. unread # <<>> /\ Head(unread) = token
    BY <1>7, <1>8
  <2>2. R!NextIs("number") /\ Head(unread).name = BlockName
    BY <1>9, <2>1 DEF R!NextIs
  <2>3. R!Value(Head(unread)) = gave
    BY <1>9, <2>1
  <2>4. R!Readable(BlockName, n)
    BY <1>6, <2>2, <2>3 DEF R!Readable
  <2>5. R!AfterNumber = Tail(unread)
    BY <1>9, <2>1 DEF R!AfterNumber
  <2>6. QED BY <1>7, <2>3, <2>4, <2>5 DEF R!NumberRead
<1>11. R!Past("{", Tail(rest)) = Tail(Tail(rest))
  <2>1. T!Open.kind = "{"
    BY DEF T!Open
  <2>2. QED BY <1>8, <2>1 DEF R!Past
<1>12. R!Read(BlockName, n) => read_bitpos' = pos[j + 1] /\ R!HasBlock(read_bitpos', gave)
  <2>1. R!Aligned(pos[j + 1]) /\ pos[j + 1] + gave * ByteBits <= read_bitlimit
    BY <1>3, <1>4 DEF R!Aligned, Aligned
  <2>2. R!HasBlock(pos[j + 1], gave)
    BY <2>1 DEF R!HasBlock
  <2>3. R!Read(BlockName, n) => read_bitpos' = pos[j + 1]
    BY <1>1, <1>4 DEF R!Read
  <2>4. QED BY <2>2, <2>3
<1>13. R!BeginBlock(n)
  <2>1. ~R!RefuseRead(BlockName, n)
    BY <1>10 DEF R!RefuseRead
  <2>2. ~R!RefuseBegin(n)
    BY <1>10, <1>12 DEF R!RefuseBegin
  <2>3. QED BY <2>1, <2>2 DEF R!NamedBlockBegin, n
<1>14. /\ ~read_thrown' /\ read_bitpos' = pos[j + 1] /\ unread' = Tail(Tail(rest))
       /\ read_bitlimit' = pos[last]
       /\ read_scope_stack' = Append(read_scope_stack, entry)
  <2>1. R!Read(BlockName, n)
    BY <1>13 DEF R!BeginBlock
  <2>2. read_bitpos' = pos[j + 1]
    BY <1>12, <2>1
  <2>3. read_bitlimit' = pos[j + 1] + gave * ByteBits
    BY <1>10, <1>13, <2>2 DEF R!BeginBlock
  <2>4. unread' = Tail(Tail(rest))
    BY <1>10, <1>11, <1>13 DEF R!BeginBlock
  <2>5. read_scope_stack' = Append(read_scope_stack, entry)
    BY <1>2, <1>13, <2>2 DEF R!BeginBlock
  <2>6. ~read_thrown'
    BY <1>13 DEF R!BeginBlock
  <2>7. QED BY <1>4, <2>2, <2>3, <2>4, <2>5, <2>6
<1>15. PICK st2 : Reading(C, data, pos, par, end, st2, j + 1, pos[last],
                          Append(read_scope_stack, entry))
  BY <1>3 DEF last
<1>16. Following(C, pos, par, end, st2, at, j + 1)'
  BY <1>1, <1>7, <1>8, <1>14, <1>15 DEF Following
<1>17. QED BY <1>4, <1>14, <1>16

\* ... and ended
LEMMA FollowEnd ==
  ASSUME NEW C, NEW pos, NEW par, NEW end, NEW st, NEW at, NEW j \in 1..Len(C),
         Following(C, pos, par, end, st, at, j), C[j].name = "named_block_end",
         ~read_thrown, R!NamedBlockEnd, UNCHANGED <<bitpos, data, prod>>
  PROVE  /\ ~read_thrown'
         /\ read_returned' = C[j].gave
         /\ Following(C, pos, par, end, st, at, j + 1)'
<1> DEFINE d == Len(read_scope_stack)
           gave == C[j].gave
           from == read_scope_stack[d].bitpos_at_enter
<1>1. /\ Reading(C, data, pos, par, end, st, j, read_bitlimit, read_scope_stack)
      /\ Len(C) \in Nat
      /\ pos[Len(C) + 1] = bitpos /\ read_bitpos = pos[j]
      /\ Spelt(C, end, prod, at) /\ Rest(unread, prod, at[j])
  BY FollowFacts DEF Following
<1>2. /\ read_scope_stack # <<>> /\ pos[j] \in Nat /\ pos[j + 1] = pos[j]
      /\ gave \in Nat /\ from \in Nat /\ pos[j] = from + gave * ByteBits
      /\ Reading(C, data, pos, par, end, st, j + 1,
                 read_scope_stack[d].bitlimit_at_enter, SubSeq(read_scope_stack, 1, d - 1))
  BY <1>1, ReadingEnd
<1> HIDE DEF gave, d
<1>3. R!BlockBits = gave * ByteBits
  <2> DEFINE held == gave * ByteBits
  <2>1. held \in Nat
    BY <1>2, BytesInBits
  <2>2. R!BlockBits = pos[j] - from
    BY <1>1 DEF R!BlockBits, R!Top, d
  <2>3. pos[j] = from + held /\ from \in Nat
    BY <1>2
  <2> HIDE DEF held, from
  <2>4. R!BlockBits = held
    BY <2>1, <2>2, <2>3
  <2>5. QED BY <2>4 DEF held
<1>4. (gave * ByteBits) % ByteBits = 0 /\ (gave * ByteBits) \div ByteBits = gave
  BY <1>2, ByteAssumption
<1>5. PICK tokens, rest : tokens = prod /\ rest = unread
  OBVIOUS
<1>6. rest # <<>> /\ Head(rest) = T!Close /\ Rest(Tail(rest), tokens, at[j + 1])
  <2>1. Spelt(C, end, tokens, at) /\ Rest(rest, tokens, at[j])
    BY <1>1, <1>5
  <2>2. /\ WrittenAt(C, end, tokens, at, j)
        /\ rest # <<>> /\ Head(rest) = tokens[at[j]]
        /\ at[j + 1] = at[j] + 1 => Rest(Tail(rest), tokens, at[j + 1])
    BY <1>1, <2>1, NextTokens
  <2>3. One(tokens, at, j, T!Close)
    BY <2>2 DEF WrittenAt
  <2>4. QED BY <2>2, <2>3 DEF One
<1>7. R!Past("}", unread) = Tail(rest)
  <2>1. T!Close.kind = "}"
    BY DEF T!Close
  <2>2. QED BY <1>5, <1>6, <2>1 DEF R!Past
<1>8. R!EndBlock
  <2>1. ~R!RefuseEnd
    BY <1>2, <1>3, <1>4 DEF R!RefuseEnd, R!Aligned
  <2>2. QED BY <2>1 DEF R!NamedBlockEnd
<1>9. /\ read_returned' = gave /\ read_bitlimit' = read_scope_stack[d].bitlimit_at_enter
      /\ read_scope_stack' = SubSeq(read_scope_stack, 1, d - 1)
      /\ read_bitpos' = pos[j + 1] /\ unread' = Tail(rest) /\ ~read_thrown'
  BY <1>1, <1>2, <1>3, <1>4, <1>7, <1>8 DEF R!EndBlock, R!Top, d
<1>10. Following(C, pos, par, end, st, at, j + 1)'
  BY <1>1, <1>2, <1>5, <1>6, <1>9 DEF Following
<1>11. QED BY <1>9, <1>10 DEF gave

----------------------------------------------------------------------------
\* how far the text of a message has been read: call by call, up to a number
\* that is not legible
FollowInv ==
  phase = "text" /\ ~thrown =>
    /\ \E U : results \in Seq(U)
    /\ Len(calls.text) \in Nat /\ Len(results) <= Len(calls.text)
    /\ \A i \in 1..Len(results) : results[i] # calls.text[i].gave => Illegible(i)
    /\ read_thrown => Len(results) < Len(calls.text) /\ Illegible(Len(results) + 1)
    /\ ~read_thrown => \/ Illegible(Len(results))
                       \/ \E pos, par, end, st, at :
                            Following(calls.text, pos, par, end, st, at, Len(results) + 1)

LEMMA IllegibleOn ==
  ASSUME NEW n \in Nat
  PROVE  /\ Illegible(n) => Illegible(n + 1)
         /\ \A i \in 1..n : Illegible(i) => Illegible(n)
         /\ \A i \in Nat : i = n /\ n >= 1 /\ calls.text[i].name = "uint"
                           /\ ~Legible(calls.text[i].field) => Illegible(n)
<1>1. \A i \in 1..n : i \in 1..(n + 1)
  OBVIOUS
<1>2. \A i \in 1..n : \A k \in 1..i : k \in 1..n
  OBVIOUS
<1>3. \A i \in Nat : i = n /\ n >= 1 => i \in 1..n
  OBVIOUS
<1>4. QED BY <1>1, <1>2, <1>3 DEF Illegible

\* the text is given to a context that parses
LEMMA FollowStart ==
  ASSUME IInv, DataInv, SimInv, SpellInv, results = <<>>, Reparse
  PROVE  FollowInv'
<1>1. SUFFICES ASSUME phase' = "text", ~thrown' PROVE FollowInv'
  BY DEF FollowInv
<1>2. /\ text_scope_stack = <<>> /\ R!ParseText(prod)
      /\ UNCHANGED <<vars, text, calls, results>>
  BY <1>1 DEF Reparse
<1>3. /\ ~thrown /\ bitpos' = bitpos /\ data' = data /\ prod' = prod
      /\ calls' = calls /\ results' = <<>>
      /\ read_bitpos' = 0 /\ read_bitlimit' = TextBits /\ read_scope_stack' = <<>>
      /\ unread' = prod /\ read_thrown' = FALSE
  BY <1>1, <1>2 DEF R!ParseText, vars, text
<1>4. PICK C : C = calls.text
  OBVIOUS
<1>5. PICK pos, par, end, st, at : Spelling(C, pos, par, end, st, at)
  BY <1>3, <1>4 DEF SpellInv
<1>6. Constructing(C, pos, par, end, st) /\ Spelt(C, end, prod, at)
  BY <1>5 DEF Spelling
<1>7. /\ Traced(C, data, pos, par, end)
      /\ Len(C) \in Nat /\ bitpos \in Nat
      /\ pos[Len(C) + 1] = bitpos
  BY <1>6, ConstructFacts
<1>8. \A i \in 1..Len(C) : C[i].name = "named_block_begin" => end[i] # 0
  <2>1. \A i \in 1..Len(C) : C[i].name = "named_block_begin" /\ end[i] = 0
                             => \E k \in 1..Len(scope_stack) : st[k] = i
    BY <1>6 DEF Constructing
  <2>2. Len(scope_stack) = 0
    <3>1. Len(text_scope_stack) = Len(scope_stack)
      BY <1>3 DEF SimInv, InStep
    <3>2. QED BY <1>2, <3>1
  <2>3. 1..Len(scope_stack) = {}
    BY <2>2
  <2>4. QED BY <2>1, <2>3
<1>9. pos[1] = 0 /\ par[1] = 0
  BY <1>7 DEF Traced
<1>10. Chain(C, par, st, 0, 1)
  <2>1. st \in [Nat -> Nat]
    BY <1>6, ConstructFacts DEF Chain
  <2>2. 1..0 = {}
    OBVIOUS
  <2>3. QED BY <1>9, <2>1, <2>2 DEF Chain
<1>11. Reading(C, data, pos, par, end, st, 1, TextBits, <<>>)
  <2>1. Len(<<>>) = 0 /\ 1..Len(<<>>) = {} /\ \E U : <<>> \in Seq(U)
    <3>1. <<>> \in Seq({}) /\ Len(<<>>) = 0
      OBVIOUS
    <3>2. QED BY <3>1
  <2>2. LimitIn(TextBits, <<>>, 0) = TextBits
    BY <2>1 DEF LimitIn
  <2>3. TextBits \in Nat /\ pos[Len(C) + 1] <= TextBits
    <3>1. Len(C) + 1 \in 1..(Len(C) + 1)
      BY <1>7
    <3>2. pos[Len(C) + 1] <= BufferBits
      BY <1>7, <1>8, <3>1, InsideBuffer
    <3>3. QED BY <1>7, <3>2, ModesAssumption, Sizes
  <2>4. Chain(C, par, st, Len(<<>>), 1)
    BY <1>10, <2>1
  <2>5. QED BY <1>7, <1>8, <2>1, <2>2, <2>3, <2>4 DEF Reading
<1>12. at[1] = 1 /\ Rest(prod, prod, 1)
  <2>1. PICK tokens, U : tokens = prod /\ tokens \in Seq(U)
    BY <1>6 DEF Spelt
  <2>2. Len(tokens) \in Nat /\ Len(tokens) + 1 - 1 = Len(tokens)
    BY <2>1, LenProperties
  <2>3. \A k \in 1..Len(tokens) : 1 + k - 1 = k
    BY <2>2
  <2>4. Rest(tokens, tokens, 1)
    BY <2>1, <2>2, <2>3 DEF Rest
  <2>5. QED BY <1>6, <2>1, <2>4 DEF Spelt
<1>13. Len(results') = 0 /\ Len(results') + 1 = 1 /\ \E U : results' \in Seq(U)
       /\ 1..Len(results') = {}
  <2>1. <<>> \in Seq({}) /\ Len(<<>>) = 0 /\ 0 + 1 = 1
    OBVIOUS
  <2>2. QED BY <1>3, <2>1
<1>14. Following(C, pos, par, end, st, at, 1)'
  BY <1>3, <1>6, <1>7, <1>9, <1>11, <1>12 DEF Following
<1>15. Following(calls.text, pos, par, end, st, at, Len(results) + 1)'
  <2>1. (calls.text)' = C /\ (Len(results) + 1)' = 1
    BY <1>3, <1>4, <1>13
  <2>2. QED BY <1>14, <2>1 DEF Following
<1>16. Len((calls.text)') \in Nat /\ Len(results') <= Len((calls.text)')
  BY <1>3, <1>4, <1>7, <1>13
<1>17. QED BY <1>3, <1>13, <1>15, <1>16 DEF FollowInv

\* a call is repeated on the text
LEMMA FollowStep ==
  ASSUME NumbersFit, FollowInv, RepeatText
  PROVE  FollowInv'
<1>1. SUFFICES ASSUME ~thrown' PROVE FollowInv'
  BY DEF FollowInv
<1>2. /\ phase = "text" /\ UNCHANGED <<vars, text, calls, phase>>
      /\ Len(results) < Len(calls.text)
  BY DEF RepeatText, Repeated, Pending
<1>3. PICK C, U, n : C = calls.text /\ results \in Seq(U) /\ n = Len(results)
  BY <1>1, <1>2 DEF FollowInv, vars
<1>4. /\ ~thrown /\ calls' = calls /\ (calls.text)' = C /\ phase' = "text"
      /\ UNCHANGED <<bitpos, data, prod>>
  BY <1>1, <1>2, <1>3 DEF vars, text
<1>5. PICK j : j = n + 1
  OBVIOUS
<1>6. /\ n \in Nat /\ j \in Nat /\ j >= 1 /\ j \in 1..Len(C) /\ n < Len(C) /\ Len(C) \in Nat
      /\ \A i \in 1..n : results[i] # C[i].gave => Illegible(i)
      /\ ~read_thrown => \/ Illegible(n)
                         \/ \E pos, par, end, st, at : Following(C, pos, par, end, st, at, j)
  <2>1. n \in Nat
    BY <1>3, LenProperties
  <2>2. Len(C) \in Nat /\ n < Len(C)
    BY <1>2, <1>3, <1>4 DEF FollowInv
  <2>3. j \in Nat /\ j >= 1 /\ j \in 1..Len(C)
    BY <1>5, <2>1, <2>2
  <2>4. /\ \A i \in 1..n : results[i] # C[i].gave => Illegible(i)
        /\ ~read_thrown => \/ Illegible(n)
                           \/ \E pos, par, end, st, at : Following(C, pos, par, end, st, at, j)
    BY <1>2, <1>3, <1>4, <1>5 DEF FollowInv
  <2>5. QED BY <2>1, <2>2, <2>3, <2>4
<1>7. ~read_thrown
  BY DEF RepeatText, R!Uint, R!UintReq, R!Read, R!RefuseRead, R!NamedBlockBegin, R!BeginBlock,
         R!RefuseBegin, R!NamedBlockEnd, R!EndBlock, R!RefuseEnd
<1>8. PICK gave : results' = IF read_thrown' THEN results ELSE Append(results, gave)
  BY DEF RepeatText, Repeated
<1>9. \A i : Illegible(i)' <=> Illegible(i)
  BY <1>4 DEF Illegible
<1>10. ASSUME ~read_thrown'
       PROVE  /\ \E S : results' \in Seq(S)
              /\ Len(results') = j
              /\ \A i \in 1..n : results'[i] = results[i]
  <2>1. results' = Append(results, gave)
    BY <1>8, <1>10
  <2>2. /\ \E S : Append(results, gave) \in Seq(S)
        /\ Len(Append(results, gave)) = Len(results) + 1
        /\ \A i \in 1..Len(results) : Append(results, gave)[i] = results[i]
    BY <1>3, PushedAny
  <2>3. QED BY <1>3, <1>5, <2>1, <2>2
<1>11. \A i \in 1..j : i \in 1..n \/ i = j
  BY <1>5, <1>6
<1>12. CASE Illegible(j)
  <2>1. CASE read_thrown'
    <3>1. results' = results
      BY <1>8, <2>1
    <3>2. Illegible(Len(results) + 1)'
      BY <1>3, <1>4, <1>5, <1>12, <3>1 DEF Illegible
    <3>3. QED BY <1>3, <1>4, <1>6, <1>9, <2>1, <3>1, <3>2 DEF FollowInv
  <2>2. CASE ~read_thrown'
    <3>1. Illegible(Len(results))'
      BY <1>4, <1>10, <1>12, <2>2 DEF Illegible
    <3>2. \A i \in 1..j : results'[i] # C[i].gave => Illegible(i)
      BY <1>6, <1>10, <1>11, <1>12, <2>2
    <3>3. Len(results') <= Len(C)
      BY <1>6, <1>10, <2>2
    <3>4. QED BY <1>4, <1>6, <1>9, <1>10, <2>2, <3>1, <3>2, <3>3 DEF FollowInv
  <2>3. QED BY <2>1, <2>2
<1>13. CASE ~Illegible(j)
  <2>1. PICK pos, par, end, st, at : Following(C, pos, par, end, st, at, j)
    <3>1. ~Illegible(n)
      BY <1>5, <1>6, <1>13, IllegibleOn
    <3>2. QED BY <1>6, <1>7, <3>1
  <2>2. C[j].name = "uint" => Legible(C[j].field)
    BY <1>3, <1>6, <1>13, IllegibleOn
  <2>3. /\ ~read_thrown'
        /\ results' = Append(results, C[j].gave)
        /\ \E st2 : Following(C, pos, par, end, st2, at, j + 1)'
    <3>1. CASE Pending("uint") /\ \/ R!Uint(PendingField) /\ Repeated(read_thrown', read_returned')
                                  \/ R!UintReq(PendingField) /\ Repeated(read_thrown', PendingField.val)
      <4>1. C[j].name = "uint" /\ PendingField = C[j].field
        BY <1>2, <1>3, <1>5, <3>1 DEF Pending, PendingField
      <4>2. R!Uint(C[j].field) \/ R!UintReq(C[j].field)
        BY <3>1, <4>1
      <4>3. /\ ~read_thrown'
            /\ R!Uint(C[j].field) => read_returned' = C[j].gave
            /\ C[j].gave = C[j].field.val
            /\ Following(C, pos, par, end, st, at, j + 1)'
        BY <1>4, <1>6, <1>7, <2>1, <2>2, <4>1, <4>2, FollowNumber
      <4>4. results' = Append(results, C[j].gave)
        BY <3>1, <4>1, <4>3 DEF Repeated
      <4>5. QED BY <4>3, <4>4
    <3>2. CASE /\ Pending("named_block_begin")
               /\ R!NamedBlockBegin(PendingField)
               /\ Repeated(read_thrown', 0)
      <4>1. C[j].name = "named_block_begin" /\ PendingField = C[j].field
        BY <1>2, <1>3, <1>5, <3>2 DEF Pending, PendingField
      <4>2. R!NamedBlockBegin(C[j].field)
        BY <3>2, <4>1
      <4>3. /\ ~read_thrown' /\ C[j].gave = 0
            /\ \E st2 : Following(C, pos, par, end, st2, at, j + 1)'
        BY <1>4, <1>6, <1>7, <2>1, <4>1, <4>2, FollowBegin
      <4>4. QED BY <3>2, <4>3 DEF Repeated
    <3>3. CASE /\ Pending("named_block_end")
               /\ R!NamedBlockEnd
               /\ Repeated(read_thrown', read_returned')
      <4>1. C[j].name = "named_block_end"
        BY <1>2, <1>3, <1>5, <3>3 DEF Pending, PendingField
      <4>2. R!NamedBlockEnd
        BY <3>3
      <4>3. /\ ~read_thrown' /\ read_returned' = C[j].gave
            /\ Following(C, pos, par, end, st, at, j + 1)'
        BY <1>4, <1>6, <1>7, <2>1, <4>1, <4>2, FollowEnd
      <4>4. QED BY <3>3, <4>3 DEF Repeated
    <3>4. QED BY <3>1, <3>2, <3>3 DEF RepeatText
  <2>4. PICK st2 : Following(C, pos, par, end, st2, at, j + 1)'
    BY <2>3
  <2>5. Following(calls.text, pos, par, end, st2, at, Len(results) + 1)'
    <3>1. (calls.text)' = C /\ (Len(results) + 1)' = j + 1
      BY <1>4, <1>10, <2>3
    <3>2. QED BY <2>4, <3>1 DEF Following
  <2>6. results'[j] = C[j].gave
    <3> DEFINE x == C[j].gave
    <3>1. \A i \in 1..(Len(results) + 1) : i = Len(results) + 1 => Append(results, x)[i] = x
      <4> HIDE DEF x
      <4>1. QED BY <1>3, PushedAny
    <3>2. j \in 1..(Len(results) + 1)
      BY <1>3, <1>5, <1>6
    <3>3. QED BY <1>3, <1>5, <2>3, <3>1, <3>2
  <2>7. \A i \in 1..j : results'[i] # C[i].gave => Illegible(i)
    BY <1>6, <1>10, <1>11, <2>3, <2>6
  <2>8. Len(results') <= Len(C)
    BY <1>6, <1>10, <2>3
  <2>9. QED BY <1>4, <1>6, <1>9, <1>10, <2>3, <2>5, <2>7, <2>8 DEF FollowInv
<1>14. QED BY <1>12, <1>13

----------------------------------------------------------------------------
\* the invariant: what the text is made of while it is constructed, and how far
\* it has been read
TextInv == /\ IInv /\ DataInv /\ SimInv
           /\ phase = "construct" => SpellInv /\ results = <<>>
           /\ FollowInv

LEMMA TextInvHolds ==
  ASSUME NumbersFit
  PROVE  /\ ModesInit => TextInv
         /\ TextInv /\ [ModesNext]_modes_vars => TextInv'
<1>1. ModesInit => TextInv
  <2>1. ModesInit => IInv /\ DataInv /\ SimInv
    BY InvariantHolds, DataInvHolds, SimInvHolds DEF ModesInit
  <2>2. ModesInit => phase = "construct" /\ results = <<>>
    BY DEF ModesInit
  <2>3. QED BY <2>1, <2>2, NothingSpelled DEF TextInv, FollowInv
<1>2. ASSUME TextInv, [ModesNext]_modes_vars PROVE TextInv'
  <2>1. IInv' /\ DataInv' /\ SimInv'
    <3>1. [Next]_vars
      BY <1>2, ConstructionPart
    <3>2. QED BY <1>2, <3>1, InvariantHolds, DataInvHolds, SimInvHolds DEF TextInv
  <2>2. CASE Construct
    <3>1. phase = "construct" /\ phase' = phase /\ results' = results
      BY <2>2 DEF Construct, OnBoth
    <3>2. SpellInv'
      BY <1>2, <2>1, <2>2, <3>1, SpellStep DEF TextInv
    <3>3. FollowInv'
      BY <3>1 DEF FollowInv
    <3>4. QED BY <1>2, <2>1, <3>1, <3>2, <3>3 DEF TextInv
  <2>3. CASE Reparse
    <3>1. phase = "construct" /\ phase' # "construct"
      BY <2>3 DEF Reparse
    <3>2. FollowInv'
      BY <1>2, <2>3, <3>1, FollowStart DEF TextInv
    <3>3. QED BY <2>1, <3>1, <3>2 DEF TextInv
  <2>4. CASE RepeatBinary
    <3>1. phase' = "binary"
      BY <2>4 DEF RepeatBinary, Repeated
    <3>2. QED BY <2>1, <3>1 DEF TextInv, FollowInv
  <2>5. CASE RepeatText
    <3>1. phase' = "text"
      BY <2>5 DEF RepeatText, Repeated
    <3>2. FollowInv'
      BY <1>2, <2>5, FollowStep DEF TextInv
    <3>3. QED BY <2>1, <3>1, <3>2 DEF TextInv
  <2>6. CASE UNCHANGED modes_vars
    <3>1. /\ UNCHANGED <<bitpos, scope_stack, data, thrown>>
          /\ UNCHANGED <<prod, text_scope_stack>>
          /\ UNCHANGED <<read_bitpos, read_bitlimit, read_scope_stack, unread, read_thrown>>
          /\ UNCHANGED <<phase, calls, results>>
      BY <2>6 DEF modes_vars, vars, text, read
    <3>2. SpellInv' <=> SpellInv
      BY <3>1 DEF SpellInv, Spelling, Constructing
    <3>3. FollowInv' <=> FollowInv
      BY <3>1 DEF FollowInv, Following, Illegible
    <3>4. QED BY <1>2, <2>1, <3>1, <3>2, <3>3 DEF TextInv
  <2>7. QED BY <1>2, <2>2, <2>3, <2>4, <2>5, <2>6 DEF ModesNext
<1>3. QED BY <1>1, <1>2

\* A text that was constructed together with a message is parsed back by the
\* same calls, whatever the nesting and the lengths: only a number that is not
\* legible makes a call throw or give something else, and without one all of
\* the text is read; if the numbers written have as many bits as the client says
THEOREM TextIsReadBack == ASSUME NumbersFit PROVE ModesSpec => []TextRoundTrip
<1>1. TextInv => TextRoundTrip
  <2>1. SUFFICES ASSUME TextInv, phase = "text", ~thrown
                 PROVE  /\ read_thrown => Illegible(Len(results) + 1)
                        /\ \A i \in 1..Len(results) :
                             results[i] # calls.text[i].gave => Illegible(i)
                        /\ Len(results) = Len(calls.text) =>
                             \/ read_bitpos = text_bitpos /\ unread = <<>>
                             \/ Illegible(Len(results))
    BY DEF TextRoundTrip
  <2>2. /\ read_thrown => Len(results) < Len(calls.text) /\ Illegible(Len(results) + 1)
        /\ \A i \in 1..Len(results) : results[i] # calls.text[i].gave => Illegible(i)
        /\ Len(calls.text) \in Nat
    BY <2>1 DEF TextInv, FollowInv
  <2>3. ASSUME Len(results) = Len(calls.text), ~Illegible(Len(results))
        PROVE  read_bitpos = text_bitpos /\ unread = <<>>
    <3>1. PICK C : C = calls.text
      OBVIOUS
    <3>2. ~read_thrown
      BY <2>2, <2>3
    <3>3. PICK pos, par, end, st, at : Following(C, pos, par, end, st, at, Len(C) + 1)
      BY <2>1, <2>3, <3>1, <3>2 DEF TextInv, FollowInv
    <3>4. read_bitpos = bitpos
      BY <3>3 DEF Following
    <3>5. text_bitpos = bitpos
      BY <2>1 DEF TextInv, SimInv, InStep
    <3>6. PICK rest, tokens : rest = unread /\ tokens = prod
      OBVIOUS
    <3>7. Rest(rest, tokens, Len(tokens) + 1) /\ Len(tokens) \in Nat
      <4>1. Rest(rest, tokens, at[Len(C) + 1]) /\ Spelt(C, end, tokens, at)
        BY <3>3, <3>6 DEF Following
      <4>2. at[Len(C) + 1] = Len(tokens) + 1
        BY <4>1 DEF Spelt
      <4>3. PICK V : tokens \in Seq(V)
        BY <4>1 DEF Spelt
      <4>4. QED BY <4>1, <4>2, <4>3, LenProperties
    <3>8. PICK U : rest \in Seq(U)
      BY <3>7 DEF Rest
    <3>9. Len(rest) = 0
      BY <3>7 DEF Rest
    <3>10. rest = <<>>
      BY <3>8, <3>9, EmptySeq
    <3>11. QED BY <3>4, <3>5, <3>6, <3>10
  <2>4. QED BY <2>2, <2>3
<1>2. QED BY <1>1, TextInvHolds, PTL DEF ModesSpec

----------------------------------------------------------------------------
(* types *)

IP == INSTANCE IoxParseProofs WITH
        MessageBytes <- BufferBytes, bitpos <- in_bitpos, bitlimit <- in_bitlimit,
        scope_stack <- in_scope_stack, data <- message, thrown <- in_thrown,
        returned <- in_returned, Tokens <- {}, MaxTokens <- 0, binary <- TRUE

\* what BinaryIn assumes of a message is true of one that was constructed
LEMMA MessageSizes ==
  /\ BufferBytes \in Nat
  /\ Fields \subseteq IP!Field
  /\ LengthBits \subseteq 1..(4 * ByteBits)
  /\ \A n \in LengthBits : BufferBytes * ByteBits + (2^n - 1) * ByteBits < IP!Word
<1>1. /\ BufferBytes \in Nat /\ ByteBits \in Nat \ {0} /\ MaxOpen \in Nat
      /\ Fields \subseteq Field /\ LengthBits \subseteq 1..(4 * ByteBits)
      /\ \A n \in LengthBits :
           /\ MostBytes(n) \in Nat
           /\ (BufferBytes + 4 * MaxOpen + MostBytes(n)) * ByteBits < Word
  BY OutAssumption, ByteAssumption
<1>2. Field = IP!Field
  BY DEF Field, Overloads, Hints, IP!Field, IP!Overloads, IP!Hints
<1>3. Word = IP!Word /\ Word \in Nat
  <2>1. 4 * ByteBits \in 0..(5 * ByteBits)
    BY <1>1
  <2>2. QED BY <2>1, Powers DEF Word, IP!Word
<1>4. ASSUME NEW n \in LengthBits
      PROVE  BufferBytes * ByteBits + (2^n - 1) * ByteBits < IP!Word
  <2>1. PICK most : most = MostBytes(n)
    OBVIOUS
  <2>2. most \in Nat /\ (BufferBytes + 4 * MaxOpen + most) * ByteBits < Word /\ 2^n - 1 = most
    BY <1>1, <2>1 DEF MostBytes
  <2>3. PICK open \in Nat : open = 4 * MaxOpen
    BY <1>1
  <2>4. /\ (BufferBytes + open + most) * ByteBits
            = BufferBytes * ByteBits + open * ByteBits + most * ByteBits
        /\ BufferBytes * ByteBits \in Nat /\ open * ByteBits \in Nat /\ most * ByteBits \in Nat
    BY <1>1, <2>2, <2>3
  <2>5. BufferBytes * ByteBits + most * ByteBits < Word
    BY <1>3, <2>2, <2>3, <2>4
  <2>6. QED BY <1>3, <2>2, <2>5
<1>5. QED BY <1>1, <1>2, <1>4

\* what the calls do to a message is what BinaryIn does
LEMMA MessageStep == IP!IInv /\ [IP!Next]_(IP!vars) => IP!IInv'
<1>1. TextBits \in Nat /\ 0 \in Nat /\ MaxOpen \in Nat
  BY ModesAssumption, OutAssumption
<1>2. \A token \in {} : token.kind = "number" => IP!R!Value(token) \in Nat
  OBVIOUS
<1>3. QED BY <1>1, <1>2, IP!InvariantHolds, MessageSizes, ByteAssumption

LEMMA AsBinaryIn ==
  /\ \A f : I!Uint(f) => IP!Uint(f)
  /\ \A f : I!UintReq(f) => IP!UintReq(f)
  /\ \A n : I!NamedBlockBegin(n) => IP!NamedBlockBegin(n)
  /\ I!NamedBlockEnd => IP!NamedBlockEnd
BY DEF I!Uint, IP!Uint, I!UintReq, IP!UintReq, I!NamedBlockBegin, IP!NamedBlockBegin,
       I!NamedBlockEnd, IP!NamedBlockEnd, I!Read, IP!Read, I!RefuseRead, IP!RefuseRead,
       I!BeginBlock, IP!BeginBlock, I!RefuseBegin, IP!RefuseBegin, I!EndBlock, IP!EndBlock,
       I!RefuseEnd, IP!RefuseEnd, I!Readable, IP!Readable, I!Spans, IP!Spans,
       I!Holds, IP!Holds, I!Bit, IP!Bit, I!HasBlock, IP!HasBlock, I!Aligned, IP!Aligned,
       I!BlockDone, IP!BlockDone, I!BlockBits, IP!BlockBits, I!Top, IP!Top, I!Outer, IP!Outer

LEMMA MessageTyped == IP!IInv => I!TypeOK
BY DEF IP!IInv, IP!TypeOK, I!TypeOK, IP!MessageBits, I!MessageBits

\* a context that has been given a message is in order
Given == \E size \in 0..BufferBytes :
           /\ in_bitpos = 0 /\ in_bitlimit = size * ByteBits /\ in_scope_stack = <<>>
           /\ in_thrown = FALSE /\ in_returned = 0 /\ announced = <<>>

LEMMA GivenInOrder == Given => IP!IInv
<1>0. SUFFICES ASSUME NEW size \in 0..BufferBytes,
                      in_bitpos = 0, in_bitlimit = size * ByteBits, in_scope_stack = <<>>,
                      in_thrown = FALSE, in_returned = 0, announced = <<>>
               PROVE  IP!IInv
  BY DEF Given
<1>1. /\ size * ByteBits \in 0..(BufferBytes * ByteBits)
      /\ 0 \in 0..(BufferBytes * ByteBits) /\ 0 <= size * ByteBits
  BY OutAssumption, ByteAssumption
<1>2. <<>> \in Seq(Nat) /\ Len(<<>>) = 0 /\ 1..0 = {}
      /\ \A S : <<>> \in Seq(S)
  OBVIOUS
<1>3. IP!TypeOK
  BY <1>0, <1>1, <1>2 DEF IP!TypeOK, IP!MessageBits
<1>4. IP!LimitsNest /\ IP!LimitsAnnounced
  BY <1>0, <1>1, <1>2 DEF IP!LimitsNest, IP!LimitsAnnounced
<1>5. QED BY <1>3, <1>4 DEF IP!IInv

\* the calls that are repeated are those of the client
Of(C) == \E S : C \in Seq(S) /\ \A c \in S : /\ c.name = "uint" => c.field \in Fields
                                             /\ c.name = "named_block_begin" => c.field \in LengthBits
CallsInv == /\ Of(calls.binary) /\ Of(calls.text)
            /\ \E S : results \in Seq(S)

LEMMA OneMore ==
  ASSUME NEW C, NEW call, Of(C),
         call.name = "uint" => call.field \in Fields,
         call.name = "named_block_begin" => call.field \in LengthBits
  PROVE  Of(Append(C, call))
<1>1. PICK S : C \in Seq(S) /\ \A c \in S : /\ c.name = "uint" => c.field \in Fields
                                            /\ c.name = "named_block_begin" => c.field \in LengthBits
  BY DEF Of
<1> DEFINE U == S \cup {call}
<1>2. C \in Seq(U) /\ call \in U
  BY <1>1, SeqMonotonic
<1>3. \A c \in U : /\ c.name = "uint" => c.field \in Fields
                   /\ c.name = "named_block_begin" => c.field \in LengthBits
  BY <1>1
<1> HIDE DEF U
<1>4. Append(C, call) \in Seq(U)
  BY <1>2, AppendProperties
<1>5. QED BY <1>3, <1>4 DEF Of

LEMMA OneOf ==
  ASSUME NEW C, Of(C), NEW i \in 1..Len(C)
  PROVE  /\ C[i].name = "uint" => C[i].field \in Fields
         /\ C[i].name = "named_block_begin" => C[i].field \in LengthBits
<1>1. PICK S : C \in Seq(S) /\ \A c \in S : /\ c.name = "uint" => c.field \in Fields
                                            /\ c.name = "named_block_begin" => c.field \in LengthBits
  BY DEF Of
<1>2. C[i] \in S
  BY <1>1, ElementOfSeq
<1>3. QED BY <1>1, <1>2

\* what a call of the client leaves is noted
LEMMA Noted ==
  ASSUME CallsInv, NEW B, NEW X, NEW b, NEW x, OnBoth(B, X, b, x),
         b.name = "uint" => b.field \in Fields,
         b.name = "named_block_begin" => b.field \in LengthBits,
         x.name = "uint" => x.field \in Fields,
         x.name = "named_block_begin" => x.field \in LengthBits
  PROVE  CallsInv'
<1>1. /\ (calls.binary)' = IF thrown' THEN calls.binary ELSE Append(calls.binary, b)
      /\ (calls.text)' = IF text_thrown' THEN calls.text ELSE Append(calls.text, x)
      /\ results' = results
  BY DEF OnBoth
<1>2. Of(calls.binary) /\ Of(calls.text)
  BY DEF CallsInv
<1>3. Of(Append(calls.binary, b)) /\ Of(Append(calls.text, x))
  BY <1>2, OneMore
<1>4. Of((calls.binary)')
  BY <1>1, <1>2, <1>3
<1>5. Of((calls.text)')
  BY <1>1, <1>2, <1>3
<1>6. Of(calls.binary)' /\ Of(calls.text)'
  BY <1>4, <1>5 DEF Of
<1>7. QED BY <1>1, <1>6 DEF CallsInv

LEMMA CallsHold ==
  /\ ModesInit => CallsInv
  /\ CallsInv /\ [ModesNext]_modes_vars => CallsInv'
<1>1. ASSUME ModesInit PROVE CallsInv
  <2>1. calls.binary = <<>> /\ calls.text = <<>> /\ results = <<>> /\ <<>> \in Seq({})
    BY <1>1 DEF ModesInit
  <2>2. Of(<<>>)
    <3>1. \E S : <<>> \in Seq(S) /\ S = {}
      BY <2>1
    <3>2. QED BY <3>1 DEF Of
  <2>3. QED BY <2>1, <2>2 DEF CallsInv
<1>2. ASSUME CallsInv, Construct PROVE CallsInv'
  <2>1. ASSUME NEW f \in Fields,
               OnBoth(Uint(f), T!Uint(f), [name |-> "uint", field |-> f, gave |-> f.val],
                      [name |-> "uint", field |-> f, gave |-> f.val])
        PROVE  CallsInv'
    <3>1. PICK call : call = [name |-> "uint", field |-> f, gave |-> f.val]
      OBVIOUS
    <3>2. OnBoth(Uint(f), T!Uint(f), call, call)
      BY <2>1, <3>1
    <3>3. call.name = "uint" /\ call.field \in Fields
      BY <3>1
    <3>4. QED BY <1>2, <3>2, <3>3, Noted
  <2>2. ASSUME NEW n \in LengthBits,
               OnBoth(NamedBlockBegin(n), T!NamedBlockBegin(n),
                      [name |-> "named_block_begin", field |-> n, gave |-> 0],
                      [name |-> "named_block_begin", field |-> n, gave |-> 0])
        PROVE  CallsInv'
    <3>1. PICK call : call = [name |-> "named_block_begin", field |-> n, gave |-> 0]
      OBVIOUS
    <3>2. OnBoth(NamedBlockBegin(n), T!NamedBlockBegin(n), call, call)
      BY <2>2, <3>1
    <3>3. call.name = "named_block_begin" /\ call.field \in LengthBits
      BY <3>1
    <3>4. QED BY <1>2, <3>2, <3>3, Noted
  <2>3. ASSUME OnBoth(NamedBlockEnd, T!NamedBlockEnd, Ended(returned'), Ended(text_returned'))
        PROVE  CallsInv'
    <3>1. PICK b, x : b = Ended(returned') /\ x = Ended(text_returned')
      OBVIOUS
    <3>2. OnBoth(NamedBlockEnd, T!NamedBlockEnd, b, x)
      BY <2>3, <3>1
    <3>3. b.name = "named_block_end" /\ x.name = "named_block_end"
      BY <3>1 DEF Ended
    <3>4. QED BY <1>2, <3>2, <3>3, Noted
  <2>4. QED BY <1>2, <2>1, <2>2, <2>3 DEF Construct
<1>3. ASSUME CallsInv, Reparse \/ UNCHANGED modes_vars PROVE CallsInv'
  BY <1>3 DEF Reparse, modes_vars, CallsInv, Of
<1>4. ASSUME CallsInv, RepeatBinary \/ RepeatText PROVE CallsInv'
  <2>1. /\ calls' = calls
        /\ results' = results \/ \E gave : results' = Append(results, gave)
    BY <1>4 DEF RepeatBinary, RepeatText, Repeated
  <2>2. PICK S : results \in Seq(S)
    BY <1>4 DEF CallsInv
  <2>3. \A gave : \E U : Append(results, gave) \in Seq(U)
    BY <2>2, PushedAny
  <2>4. \E U : results' \in Seq(U)
    BY <2>1, <2>2, <2>3
  <2>5. QED BY <1>4, <2>1, <2>4 DEF CallsInv, Of
<1>5. QED BY <1>1, <1>2, <1>3, <1>4 DEF ModesNext

\* the call that is repeated
LEMMA PendingIsLegal ==
  ASSUME CallsInv, phase \in {"binary", "text"}
  PROVE  /\ Pending("uint") => PendingField \in Fields
         /\ Pending("named_block_begin") => PendingField \in LengthBits
<1>1. PICK C, S : C = calls[phase] /\ results \in Seq(S)
  BY DEF CallsInv
<1>2. Of(C)
  BY <1>1 DEF CallsInv
<1>3. PICK n : n = Len(results)
  OBVIOUS
<1>4. n \in Nat /\ Len(C) \in Nat
  BY <1>1, <1>2, <1>3, LenProperties DEF Of
<1> DEFINE i == n + 1
<1>5. n < Len(C) => i \in 1..Len(C)
  BY <1>4
<1> HIDE DEF i
<1>6. \A name : Pending(name) => i \in 1..Len(C) /\ C[i].name = name /\ PendingField = C[i].field
  BY <1>1, <1>3, <1>5 DEF Pending, PendingField, i
<1>7. QED BY <1>2, <1>6, OneOf

LEMMA MessageHolds ==
  ASSUME IP!IInv, CallsInv, RepeatBinary
  PROVE  IP!IInv'
<1>1. phase = "binary"
  BY DEF RepeatBinary
<1>2. \/ \E f \in Fields : IP!Uint(f) \/ IP!UintReq(f)
      \/ \E n \in LengthBits : IP!NamedBlockBegin(n)
      \/ IP!NamedBlockEnd
  BY <1>1, PendingIsLegal, AsBinaryIn DEF RepeatBinary
<1>3. IP!Next
  BY <1>2 DEF IP!Next
<1>4. QED BY <1>3, MessageStep

\* a message whose blocks have all ended is within the buffer, whatever has
\* been written
WholeInside == ~thrown /\ scope_stack = <<>> => bitpos <= BufferBits

LEMMA WholeStaysInside ==
  /\ Init => WholeInside
  /\ IInv /\ WholeInside /\ [Next]_vars => WholeInside'
<1>1. ASSUME Init PROVE WholeInside
  BY <1>1, Sizes DEF Init, WholeInside
<1>2. ASSUME IInv, WholeInside, [Next]_vars, ~thrown', scope_stack' = <<>>
      PROVE  bitpos' <= BufferBits
  <2>1. bitpos \in Nat /\ bitlimit \in Nat /\ bitlimit <= BufferBits /\ BufferBits \in Nat
    BY <1>2, Sizes DEF IInv, Positions
  <2>2. ASSUME NEW f \in Fields, Write(f.w, f.size, f.val) PROVE bitpos' <= BufferBits
    <3>1. bitpos' <= bitlimit /\ bitpos' \in Nat
      BY <2>1, <2>2, Sizes DEF Write, Writable
    <3>2. QED BY <2>1, <3>1
  <2>3. ASSUME NEW n \in LengthBits, BeginBlock(n) PROVE FALSE
    <3>1. \E e : scope_stack' = Append(scope_stack, e)
      BY <2>3 DEF BeginBlock
    <3>2. scope_stack \in Seq(Scope)
      BY <1>2 DEF IInv, Positions, Scope
    <3>3. \A e : Len(Append(scope_stack, e)) = Len(scope_stack) + 1
      BY <3>2, PushedAny
    <3>4. PICK k : k = Len(scope_stack)
      OBVIOUS
    <3>5. PICK m : m = Len(scope_stack')
      OBVIOUS
    <3>6. k \in Nat
      BY <3>2, <3>4, LenProperties
    <3>7. m = 0
      BY <1>2, <3>5, EmptySeq
    <3>8. m = k + 1
      BY <3>1, <3>3, <3>4, <3>5
    <3>9. QED BY <3>6, <3>7, <3>8
  <2>4. CASE EndBlock
    <3>1. bitpos <= bitlimit /\ bitpos' = bitpos
      BY <1>2, <2>4, EndInside DEF EndBlock
    <3>2. QED BY <2>1, <3>1
  <2>5. CASE UNCHANGED vars
    BY <1>2, <2>5 DEF vars, WholeInside
  <2>6. QED BY <1>2, <2>2, <2>3, <2>4, <2>5
        DEF Next, Uint, RefuseWrite, NamedBlockBegin, RefuseBegin, NamedBlockEnd, RefuseLength,
            RefuseEnd
<1>3. QED BY <1>1, <1>2 DEF WholeInside

LEMMA MessageGiven ==
  ASSUME IInv, WholeInside, Reparse, phase' = "binary"
  PROVE  IP!IInv'
<1>1. /\ ~thrown /\ scope_stack = <<>>
      /\ I!ParseBinary([i \in 0..(BytesUsed * ByteBits - 1) |-> data[i]], BytesUsed)
  BY DEF Reparse
<1>2. /\ bitpos \in Nat /\ bitpos <= BufferBits /\ ByteBits \in Nat \ {0} /\ BufferBytes \in Nat
      /\ BufferBits = BufferBytes * ByteBits
  BY <1>1, OutAssumption, ByteAssumption DEF IInv, Positions, WholeInside, BufferBits
<1> DEFINE size == BytesUsed
<1>3. size \in 0..BufferBytes
  <2> DEFINE bits == bitpos + ByteBits - 1
             most == BufferBytes * ByteBits + (ByteBits - 1)
  <2>1. /\ bits \in Nat /\ bits <= most /\ ByteBits - 1 \in 0..(ByteBits - 1)
        /\ size = bits \div ByteBits
    BY <1>2 DEF BytesUsed
  <2>2. size \in Nat /\ bits = (size * ByteBits) + (bits % ByteBits) /\ bits % ByteBits \in Nat
    BY <1>2, <2>1
  <2> HIDE DEF bits, size
  <2>3. size * ByteBits <= BufferBytes * ByteBits + ByteBits - 1
    BY <1>2, <2>1, <2>2
  <2>4. ASSUME size > BufferBytes PROVE FALSE
    <3>1. size >= BufferBytes + 1
      BY <1>2, <2>2, <2>4
    <3>2. size * ByteBits >= (BufferBytes + 1) * ByteBits
      BY <1>2, <2>2, <3>1
    <3>3. (BufferBytes + 1) * ByteBits = BufferBytes * ByteBits + ByteBits
      BY <1>2
    <3>4. QED BY <1>2, <2>2, <2>3, <3>2, <3>3
  <2>5. QED BY <1>2, <2>2, <2>4
<1>4. /\ in_bitpos' = 0 /\ in_bitlimit' = size * ByteBits /\ in_scope_stack' = <<>>
      /\ in_thrown' = FALSE /\ in_returned' = 0 /\ announced' = <<>>
  BY <1>1 DEF I!ParseBinary
<1> HIDE DEF size
<1>5. Given'
  BY <1>3, <1>4 DEF Given
<1>6. (Given => IP!IInv)'
  BY GivenInOrder, PTL
<1>7. QED BY <1>5, <1>6

----------------------------------------------------------------------------
\* a text with numbers that are natural ones
Natural(tokens) == \E S : tokens \in Seq(S)
                          /\ \A t \in S : t.kind = "number" => R!Value(t) \in Nat

LEMMA DigitsNatural ==
  ASSUME NEW name, NEW val \in Nat
  PROVE  /\ R!Value(T!WriteHex(name, val)) \in Nat
         /\ R!Value(T!WriteDec(name, val)) \in Nat
<1>1. R!Value(T!WriteHex(name, val)) \in Nat
  <2> DEFINE digits == T!Digits(val, 16)
             back == [i \in DOMAIN digits |-> R!HexDigit(digits[i])]
  <2>1. digits \in Seq(Nat)
    BY DigitsSpell DEF Bases
  <2> HIDE DEF digits
  <2>2. \A d \in Nat : R!HexDigit(d) \in Nat
    BY DEF R!HexDigit
  <2>3. back \in Seq(Nat)
    <3>1. DOMAIN digits = 1..Len(digits) /\ Len(digits) \in Nat
      BY <2>1
    <3>2. \A i \in 1..Len(digits) : R!HexDigit(digits[i]) \in Nat
      BY <2>1, <2>2, ElementOfSeq
    <3>3. back \in [1..Len(digits) -> Nat]
      BY <3>1, <3>2
    <3>4. QED BY <3>1, <3>3
  <2> HIDE DEF back
  <2>4. R!Spelled(back, 16) \in Nat
    BY <2>3, SpelledIs DEF Bases
  <2>5. R!Value(T!WriteHex(name, val)) = R!Spelled(back, 16)
    BY DEF R!Value, T!WriteHex, T!Number, back, digits
  <2>6. QED BY <2>4, <2>5
<1>2. R!Value(T!WriteDec(name, val)) \in Nat
  <2>1. CASE val < T!Word \div 2
    <3>1. R!Value(T!WriteDec(name, val)) = R!Spelled(T!Digits(val, 10), 10)
      BY <2>1 DEF R!Value, T!WriteDec, T!Number
    <3>2. QED BY <3>1, DigitsSpell DEF Bases
  <2>2. CASE ~(val < T!Word \div 2)
    BY <2>2 DEF R!Value, T!WriteDec, T!Number
  <2>3. QED BY <2>1, <2>2
<1>3. QED BY <1>1, <1>2

LEMMA BitsNatural ==
  ASSUME NEW name, NEW val \in Nat, NEW size \in 0..(4 * ByteBits)
  PROVE  R!Value(T!WriteBin(name, size, val)) \in Nat
<1> DEFINE digits == [i \in 1..size |-> 1 - T!Bit(val, size - i)]
<1>1. size \in Nat /\ ByteBits \in Nat
  BY ByteAssumption
<1>2. ASSUME NEW i \in 1..size PROVE 1 - T!Bit(val, size - i) \in Nat
  <2> DEFINE k == size - i
  <2>1. k \in 0..(5 * ByteBits)
    BY <1>1
  <2> HIDE DEF k
  <2>2. PICK d : d = 2^k
    OBVIOUS
  <2>3. d \in Nat /\ d >= 1
    BY <2>1, <2>2, Powers
  <2>4. T!Bit(val, k) = (val \div d) % 2
    BY <2>2 DEF T!Bit
  <2>5. val \div d \in Nat
    BY <2>3
  <2>6. T!Bit(val, k) \in 0..1
    BY <2>4, <2>5
  <2>7. QED BY <2>6 DEF k
<1>3. digits \in Seq(Nat)
  <2>1. digits \in [1..size -> Nat]
    BY <1>2
  <2>2. QED BY <1>1, <2>1
<1>4. R!Value(T!WriteBin(name, size, val)) = R!Spelled(digits, 10)
  BY DEF R!Value, T!WriteBin, T!Number
<1> HIDE DEF digits
<1>5. QED BY <1>3, <1>4, SpelledIs DEF Bases

LEMMA WrittenNatural ==
  ASSUME NEW f \in Fields
  PROVE  R!Value(T!Written(f.name, f.hint, f.size, f.val)) \in Nat
<1>1. f.val \in Nat /\ f.size \in 0..(4 * ByteBits)
  BY OutAssumption, ByteAssumption DEF Field
<1>2. QED BY <1>1, DigitsNatural, BitsNatural DEF T!Written

LEMMA NaturalMore ==
  ASSUME NEW tokens, Natural(tokens), NEW token, token.kind = "number" => R!Value(token) \in Nat
  PROVE  /\ Natural(Append(tokens, token))
         /\ Len(tokens) \in Nat /\ Len(Append(tokens, token)) = Len(tokens) + 1
         /\ \A i \in 1..Len(tokens) : Natural(T!Seqs!InsertAt(tokens, i, token))
                                      /\ Len(T!Seqs!InsertAt(tokens, i, token)) = Len(tokens) + 1
<1>1. PICK S : tokens \in Seq(S) /\ \A t \in S : t.kind = "number" => R!Value(t) \in Nat
  BY DEF Natural
<1> DEFINE U == S \cup {token}
<1>2. tokens \in Seq(U) /\ token \in U
  BY <1>1, SeqMonotonic
<1>3. \A t \in U : t.kind = "number" => R!Value(t) \in Nat
  BY <1>1
<1> HIDE DEF U
<1>4. /\ Append(tokens, token) \in Seq(U)
      /\ Len(tokens) \in Nat /\ Len(Append(tokens, token)) = Len(tokens) + 1
  BY <1>2, AppendProperties, LenProperties
<1>5. ASSUME NEW i \in 1..Len(tokens)
      PROVE  /\ Natural(T!Seqs!InsertAt(tokens, i, token))
             /\ Len(T!Seqs!InsertAt(tokens, i, token)) = Len(tokens) + 1
  <2>1. PICK t : t = T!Seqs!InsertAt(tokens, i, token)
    OBVIOUS
  <2>2. t \in Seq(U) /\ WithInserted(tokens, i, token, t)
    BY <1>2, <2>1, Inserted
  <2>3. Natural(t) /\ Len(t) = Len(tokens) + 1
    BY <1>3, <2>2 DEF Natural, WithInserted
  <2>4. QED BY <2>1, <2>3
<1>6. QED BY <1>3, <1>4, <1>5 DEF Natural

LEMMA NaturalLess ==
  ASSUME NEW tokens, Natural(tokens), tokens # <<>>
  PROVE  /\ Head(tokens).kind = "number" => R!Value(Head(tokens)) \in Nat
         /\ Natural(Tail(tokens))
         /\ Natural(<<R!Minus>> \o Tail(tokens))
<1>1. PICK S : tokens \in Seq(S) /\ \A t \in S : t.kind = "number" => R!Value(t) \in Nat
  BY DEF Natural
<1>2. Head(tokens) \in S /\ Tail(tokens) \in Seq(S)
  BY <1>1, HeadTailProperties
<1> DEFINE U == S \cup {R!Minus}
<1>3. Tail(tokens) \in Seq(U) /\ <<R!Minus>> \in Seq(U)
  BY <1>2, SeqMonotonic
<1>4. <<R!Minus>> \o Tail(tokens) \in Seq(U)
  BY <1>3, ConcatProperties
<1>5. \A t \in U : t.kind = "number" => R!Value(t) \in Nat
  BY <1>1 DEF R!Minus
<1>6. QED BY <1>1, <1>2, <1>4, <1>5 DEF Natural

\* Why the types of a text are kept: the limits of its blocks nest, and what
\* has been written are natural numbers
TextNests == \A i, j \in 1..Len(text_scope_stack) :
               i < j => text_scope_stack[j].bitlimit_at_enter <= text_scope_stack[i].bitlimit_at_enter
TextTypes == /\ T!TypeOK
             /\ TextNests
             /\ \E S : text_scope_stack \in Seq(S)
             /\ Natural(prod)

LEMMA TextNumber ==
  ASSUME TextTypes, NEW f \in Fields, T!Uint(f)
  PROVE  TextTypes'
<1>1. /\ text_bitpos \in Nat /\ f.size \in Nat /\ Natural(prod)
  BY Sizes DEF TextTypes, T!TypeOK
<1>2. CASE T!RefuseWrite(f)
  BY <1>2 DEF T!RefuseWrite, TextTypes, T!TypeOK, TextNests, Natural
<1>3. CASE T!Write(f)
  <2>1. PICK token : token = T!Written(f.name, f.hint, f.size, f.val)
    OBVIOUS
  <2>2. /\ prod' = Append(prod, token) /\ text_bitpos' = text_bitpos + f.size
        /\ UNCHANGED <<text_bitlimit, text_scope_stack, text_thrown, text_returned>>
    BY <1>3, <2>1 DEF T!Write
  <2>3. R!Value(token) \in Nat
    BY <2>1, WrittenNatural
  <2>4. Natural(Append(prod, token)) /\ Len(prod) \in Nat /\ Len(Append(prod, token)) = Len(prod) + 1
    BY <1>1, <2>3, NaturalMore
  <2>5. Natural(prod)'
    BY <2>2, <2>4 DEF Natural
  <2>6. T!TypeOK'
    <3>1. ASSUME NEW i \in 1..Len(text_scope_stack)
          PROVE  /\ text_scope_stack[i].bitpos_at_enter \in 0..text_bitpos'
                 /\ text_scope_stack[i].bitlimit_at_enter \in text_bitlimit..TextBits
                 /\ text_scope_stack[i].position_for_write \in 0..(Len(prod') - 1)
      <4>1. PICK e : e = text_scope_stack[i]
        OBVIOUS
      <4>2. /\ e.bitpos_at_enter \in 0..text_bitpos
            /\ e.bitlimit_at_enter \in text_bitlimit..TextBits
            /\ e.position_for_write \in 0..(Len(prod) - 1)
        BY <4>1 DEF TextTypes, T!TypeOK
      <4>3. Len(prod') = Len(prod) + 1
        BY <2>2, <2>4
      <4>4. QED BY <1>1, <2>2, <2>4, <4>1, <4>2, <4>3
    <3>2. text_bitpos' \in Nat
      BY <1>1, <2>2
    <3>3. QED BY <2>2, <3>1, <3>2 DEF TextTypes, T!TypeOK
  <2>7. QED BY <2>2, <2>5, <2>6 DEF TextTypes, TextNests
<1>4. QED BY <1>2, <1>3 DEF T!Uint

LEMMA TextBegin ==
  ASSUME TextTypes, NEW size \in LengthBits, T!NamedBlockBegin(size)
  PROVE  TextTypes'
<1> DEFINE n == Len(text_scope_stack)
<1>1. /\ text_bitpos \in Nat /\ text_bitlimit \in 0..TextBits /\ Natural(prod)
      /\ size \in Nat /\ TextBits \in Nat
      /\ (2^size - 1) * ByteBits \in Nat
  BY Sizes, BytesInBits, ModesAssumption DEF TextTypes, T!TypeOK, MostBytes
<1>2. PICK start : start = text_bitpos + size
  OBVIOUS
<1>3. start \in Nat /\ text_bitpos <= start /\ T!Start(size) = start
  BY <1>1, <1>2 DEF T!Start
<1>4. \A i \in 1..n :
        /\ text_scope_stack[i].bitpos_at_enter \in 0..start
        /\ text_scope_stack[i].bitlimit_at_enter \in text_bitlimit..TextBits
        /\ text_scope_stack[i].position_for_write \in 0..(Len(prod) - 1)
  <2>1. \A k \in 0..text_bitpos : k \in 0..start
    BY <1>1, <1>3
  <2>2. QED BY <2>1 DEF TextTypes, T!TypeOK
<1>5. CASE T!RefuseBegin(size)
  BY <1>3, <1>4, <1>5 DEF T!RefuseBegin, TextTypes, T!TypeOK, TextNests, Natural
<1>6. CASE T!BeginBlock(size)
  <2>1. PICK room \in Nat : room = (2^size - 1) * ByteBits
    BY <1>1
  <2>2. PICK e : e = [bitpos_at_enter |-> start, bitlimit_at_enter |-> text_bitlimit,
                      position_for_write |-> Len(prod)]
    OBVIOUS
  <2>3. /\ text_bitpos' = start
        /\ text_bitlimit' = IF start + room > text_bitlimit THEN text_bitlimit ELSE start + room
        /\ prod' = Append(prod, T!Open)
        /\ text_scope_stack' = Append(text_scope_stack, e)
        /\ UNCHANGED <<text_thrown, text_returned>>
    BY <1>3, <1>6, <2>1, <2>2 DEF T!BeginBlock
  <2>4. /\ Natural(Append(prod, T!Open))
        /\ Len(prod) \in Nat /\ Len(Append(prod, T!Open)) = Len(prod) + 1
    <3>1. PICK token : token = T!Open
      OBVIOUS
    <3>2. token.kind # "number"
      BY <3>1 DEF T!Open
    <3>3. QED BY <1>1, <3>1, <3>2, NaturalMore
  <2>5. Natural(prod)' /\ Len(prod') = Len(prod) + 1
    BY <2>3, <2>4 DEF Natural
  <2>6. text_bitlimit' \in Nat /\ text_bitlimit' <= text_bitlimit
    BY <1>1, <1>3, <2>3
  <2>7. /\ \E S : text_scope_stack' \in Seq(S)
        /\ n \in Nat /\ Len(text_scope_stack') = n + 1
        /\ \A i \in 1..n : text_scope_stack'[i] = text_scope_stack[i]
        /\ \A i \in 1..(n + 1) : i = n + 1 => text_scope_stack'[i] = e
    <3>1. PICK S : text_scope_stack \in Seq(S)
      BY DEF TextTypes
    <3>2. n \in Nat
      BY <3>1, LenProperties
    <3>3. PICK old : old = text_scope_stack
      OBVIOUS
    <3> DEFINE new == Append(old, e)
    <3>4. /\ \E U : new \in Seq(U)
          /\ Len(new) = Len(old) + 1
          /\ \A i \in 1..Len(old) : new[i] = old[i]
          /\ \A i \in 1..(Len(old) + 1) : i = Len(old) + 1 => new[i] = e
      BY <3>1, <3>3, PushedAny
    <3>5. text_scope_stack' = new
      BY <2>3, <3>3
    <3> HIDE DEF new
    <3>6. QED BY <3>2, <3>3, <3>4, <3>5
  <2>8. \A i \in 1..(n + 1) : i \in 1..n \/ i = n + 1
    BY <2>7
  <2>9. ASSUME NEW i \in 1..(n + 1)
        PROVE  /\ text_scope_stack'[i].bitpos_at_enter \in 0..text_bitpos'
               /\ text_scope_stack'[i].bitlimit_at_enter \in text_bitlimit'..TextBits
               /\ text_scope_stack'[i].position_for_write \in 0..(Len(prod') - 1)
    <3>1. CASE i \in 1..n
      <4>1. PICK x : x = text_scope_stack[i]
        OBVIOUS
      <4>2. /\ x.bitpos_at_enter \in 0..start
            /\ x.bitlimit_at_enter \in text_bitlimit..TextBits
            /\ x.position_for_write \in 0..(Len(prod) - 1)
            /\ text_scope_stack'[i] = x
        BY <1>4, <2>7, <3>1, <4>1
      <4>3. x.bitpos_at_enter \in 0..text_bitpos'
        BY <2>3, <4>2
      <4>4. x.bitlimit_at_enter \in text_bitlimit'..TextBits
        BY <1>1, <2>6, <4>2
      <4>5. x.position_for_write \in 0..(Len(prod') - 1)
        BY <2>4, <2>5, <4>2
      <4>6. QED BY <4>2, <4>3, <4>4, <4>5
    <3>2. CASE i = n + 1
      <4>1. text_scope_stack'[i] = e
        BY <2>7, <3>2
      <4>2. e.bitpos_at_enter \in 0..text_bitpos'
        BY <1>3, <2>2, <2>3
      <4>3. e.bitlimit_at_enter \in text_bitlimit'..TextBits
        BY <1>1, <2>2, <2>6
      <4>4. e.position_for_write \in 0..(Len(prod') - 1)
        BY <2>2, <2>4, <2>5
      <4>5. QED BY <4>1, <4>2, <4>3, <4>4
    <3>3. QED BY <2>8, <3>1, <3>2
  <2>10. T!TypeOK'
    <3>1. text_bitlimit' \in 0..TextBits /\ text_bitpos' \in Nat
      BY <1>1, <1>3, <2>3, <2>6
    <3>2. QED BY <2>3, <2>7, <2>9, <3>1 DEF TextTypes, T!TypeOK
  <2>11. TextNests'
    <3>1. ASSUME NEW i \in 1..(n + 1), NEW j \in 1..(n + 1), i < j
          PROVE  text_scope_stack'[j].bitlimit_at_enter <= text_scope_stack'[i].bitlimit_at_enter
      <4>1. i \in 1..n
        BY <2>7, <3>1
      <4>2. CASE j \in 1..n
        BY <2>7, <3>1, <4>1, <4>2 DEF TextTypes, TextNests
      <4>3. CASE j = n + 1
        <5>1. PICK x, y : x = text_scope_stack[i].bitlimit_at_enter
                          /\ y = text_scope_stack'[j].bitlimit_at_enter
          OBVIOUS
        <5>2. x \in text_bitlimit..TextBits /\ y = text_bitlimit
              /\ text_scope_stack'[i].bitlimit_at_enter = x
          BY <1>4, <2>2, <2>7, <4>1, <4>3, <5>1
        <5>3. QED BY <1>1, <5>1, <5>2
      <4>4. QED BY <2>8, <4>2, <4>3
    <3>2. QED BY <2>7, <3>1 DEF TextNests
  <2>12. QED BY <2>5, <2>7, <2>10, <2>11 DEF TextTypes
<1>7. QED BY <1>5, <1>6 DEF T!NamedBlockBegin

LEMMA TextEnd ==
  ASSUME TextTypes, T!NamedBlockEnd
  PROVE  TextTypes'
<1> DEFINE n == Len(text_scope_stack)
<1>1. CASE T!RefuseEnd
  BY <1>1 DEF T!RefuseEnd, TextTypes, T!TypeOK, TextNests, Natural
<1>2. CASE T!EndBlock
  <2>1. PICK e, bits, length :
          e = text_scope_stack[n] /\ bits = text_bitpos - e.bitpos_at_enter /\ length = bits \div ByteBits
    OBVIOUS
  <2>2. PICK token : token = T!WriteDec(BlockName, length)
    OBVIOUS
  <2>3. /\ text_scope_stack # <<>>
        /\ text_returned' = length
        /\ prod' = T!Seqs!InsertAt(Append(prod, T!Close), e.position_for_write + 1, token)
        /\ text_bitlimit' = e.bitlimit_at_enter
        /\ text_scope_stack' = SubSeq(text_scope_stack, 1, n - 1)
        /\ UNCHANGED <<text_bitpos, text_thrown>>
    BY <1>2, <2>1, <2>2 DEF T!EndBlock, T!Top, T!BlockBits, T!PlaceForLength
  <2>4. PICK S : text_scope_stack \in Seq(S)
    BY DEF TextTypes
  <2>5. /\ \E U : text_scope_stack' \in Seq(U)
        /\ n \in Nat /\ n >= 1 /\ n \in 1..n
        /\ Len(text_scope_stack') = n - 1
        /\ \A i \in 1..(n - 1) : text_scope_stack'[i] = text_scope_stack[i]
    <3>1. PICK old, new : old = text_scope_stack /\ new = SubSeq(old, 1, Len(old) - 1)
      OBVIOUS
    <3>2. /\ \E U : new \in Seq(U)
          /\ Len(old) \in Nat /\ Len(old) >= 1
          /\ Len(new) = Len(old) - 1
          /\ \A i \in 1..(Len(old) - 1) : new[i] = old[i]
      BY <2>3, <2>4, <3>1, PoppedAny
    <3>3. text_scope_stack' = new
      BY <2>3, <3>1
    <3>4. QED BY <3>1, <3>2, <3>3
  <2>6. /\ \A i \in 1..n : /\ text_scope_stack[i].bitpos_at_enter \in 0..text_bitpos
                           /\ text_scope_stack[i].bitlimit_at_enter \in text_bitlimit..TextBits
                           /\ text_scope_stack[i].position_for_write \in 0..(Len(prod) - 1)
        /\ text_bitpos \in Nat /\ text_bitlimit \in 0..TextBits /\ Natural(prod) /\ TextNests
        /\ text_thrown \in BOOLEAN
    BY DEF TextTypes, T!TypeOK
  <2>7. /\ e.bitpos_at_enter \in 0..text_bitpos
        /\ e.bitlimit_at_enter \in text_bitlimit..TextBits
        /\ e.position_for_write \in 0..(Len(prod) - 1)
    BY <2>1, <2>5, <2>6
  <2>8. length \in Nat
    <3>1. bits \in Nat /\ ByteBits \in Nat \ {0}
      <4>1. bits = text_bitpos - e.bitpos_at_enter
        BY <2>1
      <4>2. text_bitpos \in Nat /\ e.bitpos_at_enter \in 0..text_bitpos
        BY <2>6, <2>7
      <4>3. bits \in Nat
        BY <4>1, <4>2
      <4>4. QED BY <4>3, ByteAssumption
    <3>2. QED BY <2>1, <3>1
  <2>9. /\ Natural(prod)' /\ Len(prod) \in Nat
        /\ Len(prod') = Len(prod) + 2
    <3>1. PICK brace, long, place :
            brace = T!Close /\ long = Append(prod, brace) /\ place = e.position_for_write + 1
      OBVIOUS
    <3>2. brace.kind # "number"
      BY <3>1 DEF T!Close
    <3>3. Natural(long) /\ Len(prod) \in Nat /\ Len(long) = Len(prod) + 1
      BY <2>6, <3>1, <3>2, NaturalMore
    <3>4. R!Value(token) \in Nat
      BY <2>2, <2>8, DigitsNatural
    <3>5. place \in 1..Len(long)
      BY <2>7, <3>1, <3>3
    <3>6. PICK t : t = T!Seqs!InsertAt(long, place, token)
      OBVIOUS
    <3>7. Natural(t) /\ Len(t) = Len(long) + 1
      BY <3>3, <3>4, <3>5, <3>6, NaturalMore
    <3>8. prod' = t
      BY <2>3, <3>1, <3>6
    <3>9. QED BY <3>3, <3>7, <3>8 DEF Natural
  <2>10. ASSUME NEW i \in 1..(n - 1)
         PROVE  /\ text_scope_stack'[i].bitpos_at_enter \in 0..text_bitpos'
                /\ text_scope_stack'[i].bitlimit_at_enter \in text_bitlimit'..TextBits
                /\ text_scope_stack'[i].position_for_write \in 0..(Len(prod') - 1)
    <3>1. i \in 1..n /\ i < n
      BY <2>5
    <3>2. PICK x : x = text_scope_stack[i]
      OBVIOUS
    <3>3. /\ x.bitpos_at_enter \in 0..text_bitpos
          /\ x.bitlimit_at_enter \in text_bitlimit..TextBits
          /\ x.position_for_write \in 0..(Len(prod) - 1)
          /\ e.bitlimit_at_enter <= x.bitlimit_at_enter
      BY <2>1, <2>5, <2>6, <3>1, <3>2 DEF TextNests
    <3>4. text_scope_stack'[i] = x
      BY <2>5, <3>2
    <3>5. x.bitpos_at_enter \in 0..text_bitpos'
      BY <2>3, <3>3
    <3>6. x.bitlimit_at_enter \in text_bitlimit'..TextBits
      BY <2>3, <2>6, <2>7, <3>3, ModesAssumption
    <3>7. x.position_for_write \in 0..(Len(prod') - 1)
      BY <2>9, <3>3
    <3>8. QED BY <3>4, <3>5, <3>6, <3>7
  <2>11. T!TypeOK'
    <3>1. text_bitlimit' \in 0..TextBits
      BY <2>3, <2>6, <2>7, ModesAssumption
    <3>2. QED BY <2>3, <2>5, <2>6, <2>8, <2>10, <3>1 DEF T!TypeOK
  <2>12. TextNests'
    <3>1. \A i \in 1..(n - 1) : i \in 1..n
      BY <2>5
    <3>2. QED BY <2>5, <2>6, <3>1 DEF TextNests
  <2>13. QED BY <2>5, <2>9, <2>11, <2>12 DEF TextTypes
<1>3. QED BY <1>1, <1>2 DEF T!NamedBlockEnd

LEMMA TextStep ==
  ASSUME TextTypes, Construct
  PROVE  TextTypes'
<1>1. UNCHANGED text \/ (\E f \in Fields : T!Uint(f)) \/ (\E n \in LengthBits : T!NamedBlockBegin(n))
      \/ T!NamedBlockEnd
  BY DEF Construct, OnBoth
<1>2. UNCHANGED text => TextTypes'
  BY DEF text, TextTypes, T!TypeOK, TextNests, Natural
<1>3. QED BY <1>1, <1>2, TextNumber, TextBegin, TextEnd

LEMMA TextStarts == T!Init => TextTypes
<1>1. SUFFICES ASSUME T!Init PROVE TextTypes
  OBVIOUS
<1>2. /\ text_bitpos = 0 /\ text_bitlimit = TextBits /\ text_scope_stack = <<>> /\ prod = <<>>
      /\ text_thrown = FALSE /\ text_returned = 0
  BY <1>1 DEF T!Init
<1>3. <<>> \in Seq({}) /\ Len(<<>>) = 0 /\ 1..0 = {}
  OBVIOUS
<1>4. Natural(<<>>)
  <2>1. \E S : <<>> \in Seq(S) /\ S = {}
    BY <1>3
  <2>2. QED BY <2>1 DEF Natural
<1>5. 1..Len(text_scope_stack) = {}
  BY <1>2, <1>3
<1>6. 0 \in Nat /\ TextBits \in 0..TextBits /\ FALSE \in BOOLEAN
  BY ModesAssumption
<1>7. T!TypeOK
  BY <1>2, <1>5, <1>6 DEF T!TypeOK
<1>8. TextNests
  BY <1>5 DEF TextNests
<1>9. QED BY <1>2, <1>3, <1>4, <1>7, <1>8 DEF TextTypes

----------------------------------------------------------------------------
\* ... and when the text is parsed
ReadTypes == /\ R!TypeOK
             /\ \E S : read_scope_stack \in Seq(S)
             /\ Natural(unread)

\* the next number, and what is left behind it
LEMMA NumberIsNatural ==
  ASSUME ReadTypes, NEW name, NEW size \in Nat, R!Read(name, size)
  PROVE  /\ R!NumberRead \in Nat
         /\ Natural(R!AfterNumber)
         /\ read_bitpos' \in Nat /\ read_bitpos <= read_bitpos'
<1>1. /\ unread # <<>> /\ Head(unread).kind = "number"
      /\ read_bitpos' = read_bitpos + size
  BY DEF R!Read, R!Readable, R!NextIs
<1>2. Natural(unread) /\ read_bitpos \in Nat
  BY DEF ReadTypes, R!TypeOK
<1>3. /\ R!Value(Head(unread)) \in Nat
      /\ Natural(Tail(unread)) /\ Natural(<<R!Minus>> \o Tail(unread))
  BY <1>1, <1>2, NaturalLess
<1>4. QED BY <1>1, <1>2, <1>3 DEF R!NumberRead, R!AfterNumber

LEMMA NaturalPast ==
  ASSUME NEW tokens, Natural(tokens), NEW kind
  PROVE  Natural(R!Past(kind, tokens))
BY NaturalLess DEF R!Past

\* a call that reads, or throws, in the same blocks
LEMMA SameReading ==
  ASSUME ReadTypes, read_bitpos' \in Nat, read_bitpos <= read_bitpos',
         Natural(unread'), UNCHANGED <<read_bitlimit, read_scope_stack>>,
         read_thrown' \in BOOLEAN, read_returned' \in Nat
  PROVE  ReadTypes'
<1>1. /\ read_bitpos \in Nat
      /\ \A i \in 1..Len(read_scope_stack) :
           /\ read_scope_stack[i].bitpos_at_enter \in 0..read_bitpos
           /\ read_scope_stack[i].bitlimit_at_enter \in 0..TextBits
      /\ read_bitlimit \in 0..TextBits
  BY DEF ReadTypes, R!TypeOK
<1>2. \A k \in 0..read_bitpos : k \in 0..read_bitpos'
  BY <1>1
<1>3. \A i \in 1..Len(read_scope_stack) :
           /\ read_scope_stack[i].bitpos_at_enter \in 0..read_bitpos'
           /\ read_scope_stack[i].bitlimit_at_enter \in 0..TextBits
  BY <1>1, <1>2
<1>4. R!TypeOK'
  BY <1>1, <1>3 DEF R!TypeOK
<1>5. QED BY <1>4 DEF ReadTypes, Natural

LEMMA ReadNumber ==
  ASSUME ReadTypes, NEW f \in Fields, R!Uint(f) \/ R!UintReq(f)
  PROVE  ReadTypes'
<1>1. f.size \in Nat
  BY Sizes
<1>2. /\ read_bitpos \in Nat /\ read_thrown \in BOOLEAN /\ read_returned \in Nat
      /\ Natural(unread)
  BY DEF ReadTypes, R!TypeOK
<1>3. CASE R!RefuseRead(f.name, f.size)
  <2>1. /\ read_bitpos' = read_bitpos /\ read_thrown' = TRUE /\ unread' = unread
        /\ read_returned' = read_returned
        /\ UNCHANGED <<read_bitlimit, read_scope_stack>>
    BY <1>3 DEF R!RefuseRead
  <2>2. read_bitpos <= read_bitpos' /\ read_bitpos' \in Nat /\ read_returned' \in Nat
        /\ Natural(unread') /\ read_thrown' \in BOOLEAN
    BY <1>2, <2>1
  <2>3. QED BY <2>1, <2>2, SameReading
<1>4. CASE R!Read(f.name, f.size) /\ unread' = R!AfterNumber
           /\ UNCHANGED <<read_bitlimit, read_scope_stack>>
           /\ \/ read_returned' = R!NumberRead /\ read_thrown' = read_thrown
              \/ read_returned' = read_returned /\ read_thrown' = (R!NumberRead # f.val)
  <2>1. /\ R!NumberRead \in Nat /\ Natural(R!AfterNumber)
        /\ read_bitpos' \in Nat /\ read_bitpos <= read_bitpos'
    BY <1>1, <1>4, NumberIsNatural
  <2>2. Natural(unread')
    BY <1>4, <2>1
  <2>3. read_thrown' \in BOOLEAN /\ read_returned' \in Nat
    BY <1>2, <1>4, <2>1
  <2>4. QED BY <1>4, <2>1, <2>2, <2>3, SameReading
<1>5. QED BY <1>3, <1>4 DEF R!Uint, R!UintReq

LEMMA ReadBegin ==
  ASSUME ReadTypes, NEW size \in LengthBits, R!NamedBlockBegin(size)
  PROVE  ReadTypes'
<1>1. size \in Nat /\ ByteBits \in Nat
  BY Sizes
<1>2. /\ read_bitpos \in Nat /\ read_bitlimit \in 0..TextBits
      /\ read_thrown \in BOOLEAN /\ read_returned \in Nat /\ Natural(unread)
      /\ \A i \in 1..Len(read_scope_stack) :
           /\ read_scope_stack[i].bitpos_at_enter \in 0..read_bitpos
           /\ read_scope_stack[i].bitlimit_at_enter \in 0..TextBits
  BY DEF ReadTypes, R!TypeOK
<1>3. CASE R!RefuseRead(BlockName, size)
  <2>1. /\ read_bitpos' = read_bitpos /\ read_thrown' = TRUE /\ unread' = unread
        /\ read_returned' = read_returned
        /\ UNCHANGED <<read_bitlimit, read_scope_stack>>
    BY <1>3 DEF R!RefuseRead
  <2>2. read_bitpos <= read_bitpos' /\ read_bitpos' \in Nat /\ read_returned' \in Nat
        /\ Natural(unread') /\ read_thrown' \in BOOLEAN
    BY <1>2, <2>1
  <2>3. QED BY <2>1, <2>2, SameReading
<1>4. ASSUME R!Read(BlockName, size)
      PROVE  /\ R!NumberRead \in Nat /\ Natural(R!AfterNumber)
             /\ read_bitpos' \in Nat /\ read_bitpos <= read_bitpos'
  BY <1>1, <1>4, NumberIsNatural
<1>5. CASE R!RefuseBegin(size)
  <2>1. /\ R!Read(BlockName, size) /\ read_thrown' = TRUE /\ unread' = R!AfterNumber
        /\ read_returned' = read_returned
        /\ UNCHANGED <<read_bitlimit, read_scope_stack>>
    BY <1>5 DEF R!RefuseBegin
  <2>2. Natural(unread') /\ read_thrown' \in BOOLEAN /\ read_returned' \in Nat
    BY <1>2, <1>4, <2>1
  <2>3. QED BY <1>4, <2>1, <2>2, SameReading
<1>6. CASE R!BeginBlock(size)
  <2>1. PICK bits : bits = R!NumberRead * ByteBits
    OBVIOUS
  <2>2. PICK e : e = [bitpos_at_enter |-> read_bitpos', bitlimit_at_enter |-> read_bitlimit]
    OBVIOUS
  <2>3. /\ R!Read(BlockName, size)
        /\ read_bitpos' + bits <= read_bitlimit
        /\ read_bitlimit' = read_bitpos' + bits
        /\ unread' = R!Past("{", R!AfterNumber)
        /\ read_scope_stack' = Append(read_scope_stack, e)
        /\ read_thrown' = read_thrown /\ read_returned' = read_returned
    BY <1>6, <2>1, <2>2 DEF R!BeginBlock, R!HasBlock
  <2>4. /\ bits \in Nat /\ Natural(R!AfterNumber)
        /\ read_bitpos' \in Nat /\ read_bitpos <= read_bitpos'
    <3>1. PICK m : m = R!NumberRead
      OBVIOUS
    <3>2. m \in Nat
      BY <1>4, <2>3, <3>1
    <3>3. m * ByteBits \in Nat
      BY <3>2, BytesInBits
    <3>4. QED BY <1>4, <2>1, <2>3, <3>1, <3>3
  <2>5. Natural(unread')
    BY <2>3, <2>4, NaturalPast
  <2>6. read_bitlimit' \in 0..TextBits
    <3>1. PICK limit, to, most : limit = read_bitlimit /\ to = read_bitpos' /\ most = TextBits
      OBVIOUS
    <3>2. limit \in 0..most /\ most \in Nat
      BY <1>2, <3>1, ModesAssumption
    <3>3. to \in Nat /\ bits \in Nat /\ to + bits <= limit
      BY <2>3, <2>4, <3>1
    <3>4. to + bits \in 0..most
      BY <3>2, <3>3
    <3>5. QED BY <2>3, <3>1, <3>4
  <2>7. PICK old, S : old = read_scope_stack /\ old \in Seq(S)
    BY DEF ReadTypes
  <2>8. PICK new : new = Append(old, e)
    OBVIOUS
  <2>9. /\ \E U : new \in Seq(U)
        /\ Len(old) \in Nat /\ Len(new) = Len(old) + 1
        /\ \A i \in 1..Len(old) : new[i] = old[i]
        /\ \A i \in 1..(Len(old) + 1) : i = Len(old) + 1 => new[i] = e
    <3>1. Len(old) \in Nat
      BY <2>7, LenProperties
    <3> DEFINE long == Append(old, e)
    <3>2. old \in Seq(S)
      BY <2>7
    <3>3. /\ \E U : long \in Seq(U)
          /\ Len(long) = Len(old) + 1
          /\ \A i \in 1..Len(old) : long[i] = old[i]
          /\ \A i \in 1..(Len(old) + 1) : i = Len(old) + 1 => long[i] = e
      BY <3>2, PushedAny
    <3>4. new = long
      BY <2>8
    <3> HIDE DEF long
    <3>5. QED BY <3>1, <3>3, <3>4
  <2>10. ASSUME NEW i \in 1..Len(new)
         PROVE  /\ new[i].bitpos_at_enter \in 0..read_bitpos'
                /\ new[i].bitlimit_at_enter \in 0..TextBits
    <3>1. CASE i \in 1..Len(old)
      <4>1. PICK x : x = old[i]
        OBVIOUS
      <4>2. x.bitpos_at_enter \in 0..read_bitpos /\ x.bitlimit_at_enter \in 0..TextBits
            /\ new[i] = x
        BY <1>2, <2>7, <2>9, <3>1, <4>1
      <4>3. x.bitpos_at_enter \in 0..read_bitpos'
        BY <1>2, <2>4, <4>2
      <4>4. QED BY <4>2, <4>3
    <3>2. CASE i = Len(old) + 1
      <4>1. new[i] = e
        BY <2>9, <3>2
      <4>2. e.bitpos_at_enter \in 0..read_bitpos' /\ e.bitlimit_at_enter \in 0..TextBits
        BY <1>2, <2>2, <2>4
      <4>3. QED BY <4>1, <4>2
    <3>3. QED BY <2>9, <3>1, <3>2
  <2>11. read_scope_stack' = new
    BY <2>3, <2>7, <2>8
  <2>12. R!TypeOK'
    BY <1>2, <2>3, <2>4, <2>6, <2>10, <2>11 DEF R!TypeOK
  <2>13. QED BY <2>5, <2>9, <2>11, <2>12 DEF ReadTypes, Natural
<1>7. QED BY <1>3, <1>5, <1>6 DEF R!NamedBlockBegin

LEMMA ReadEnd ==
  ASSUME ReadTypes, R!NamedBlockEnd
  PROVE  ReadTypes'
<1>1. /\ read_bitpos \in Nat /\ read_bitlimit \in 0..TextBits
      /\ read_thrown \in BOOLEAN /\ read_returned \in Nat /\ Natural(unread)
      /\ \A i \in 1..Len(read_scope_stack) :
           /\ read_scope_stack[i].bitpos_at_enter \in 0..read_bitpos
           /\ read_scope_stack[i].bitlimit_at_enter \in 0..TextBits
  BY DEF ReadTypes, R!TypeOK
<1>2. Natural(R!Past("}", unread))
  BY <1>1, NaturalPast
<1>3. CASE R!RefuseEnd
  <2>0. unread' = unread \/ unread' = R!Past("}", unread)
    BY <1>3 DEF R!RefuseEnd
  <2>1. /\ read_bitpos' = read_bitpos /\ read_thrown' = TRUE
        /\ read_returned' = read_returned
        /\ UNCHANGED <<read_bitlimit, read_scope_stack>>
    BY <1>3 DEF R!RefuseEnd
  <2>2. read_bitpos <= read_bitpos' /\ read_bitpos' \in Nat /\ read_returned' \in Nat
        /\ read_thrown' \in BOOLEAN
    <3>1. read_bitpos \in Nat /\ read_returned \in Nat
      BY <1>1
    <3>2. QED BY <2>1, <3>1
  <2>3. Natural(unread')
    <3>1. PICK past : past = R!Past("}", unread)
      OBVIOUS
    <3>2. Natural(past) /\ Natural(unread)
      BY <1>1, <1>2, <3>1
    <3>3. unread' = unread \/ unread' = past
      BY <2>0, <3>1
    <3>4. QED BY <3>2, <3>3
  <2>4. QED BY <2>1, <2>2, <2>3, SameReading
<1>4. CASE R!EndBlock
  <2>1. PICK e, bits : e = read_scope_stack[Len(read_scope_stack)]
                       /\ bits = read_bitpos - e.bitpos_at_enter
    OBVIOUS
  <2>2. /\ read_scope_stack # <<>>
        /\ unread' = R!Past("}", unread)
        /\ read_returned' = bits \div ByteBits
        /\ read_bitlimit' = e.bitlimit_at_enter
        /\ read_scope_stack' = SubSeq(read_scope_stack, 1, Len(read_scope_stack) - 1)
        /\ read_bitpos' = read_bitpos /\ read_thrown' = read_thrown
    BY <1>4, <2>1 DEF R!EndBlock, R!Top, R!BlockBits
  <2>3. PICK old, S : old = read_scope_stack /\ old \in Seq(S)
    BY DEF ReadTypes
  <2>4. PICK new : new = SubSeq(old, 1, Len(old) - 1)
    OBVIOUS
  <2>5. /\ \E U : new \in Seq(U)
        /\ Len(old) \in Nat /\ Len(old) >= 1
        /\ Len(new) = Len(old) - 1
        /\ \A i \in 1..(Len(old) - 1) : new[i] = old[i]
    BY <2>2, <2>3, <2>4, PoppedAny
  <2>6. Len(old) \in 1..Len(old) /\ \A i \in 1..(Len(old) - 1) : i \in 1..Len(old)
    BY <2>5
  <2>7. e.bitpos_at_enter \in 0..read_bitpos /\ e.bitlimit_at_enter \in 0..TextBits
    BY <1>1, <2>1, <2>3, <2>6
  <2>8. bits \div ByteBits \in Nat
    <3>1. bits \in Nat /\ ByteBits \in Nat \ {0}
      BY <1>1, <2>1, <2>7, ByteAssumption
    <3>2. QED BY <3>1
  <2>9. \A i \in 1..Len(new) : /\ new[i].bitpos_at_enter \in 0..read_bitpos'
                               /\ new[i].bitlimit_at_enter \in 0..TextBits
    BY <1>1, <2>2, <2>3, <2>5, <2>6
  <2>10. read_scope_stack' = new
    BY <2>2, <2>3, <2>4
  <2>11. R!TypeOK'
    BY <1>1, <2>2, <2>7, <2>8, <2>9, <2>10 DEF R!TypeOK
  <2>12. Natural(unread')
    BY <1>2, <2>2
  <2>13. QED BY <2>5, <2>10, <2>11, <2>12 DEF ReadTypes, Natural
<1>5. QED BY <1>3, <1>4 DEF R!NamedBlockEnd

LEMMA ReadStep ==
  ASSUME ReadTypes, CallsInv, RepeatText
  PROVE  ReadTypes'
<1>1. phase = "text"
  BY DEF RepeatText
<1>2. \/ \E f \in Fields : R!Uint(f) \/ R!UintReq(f)
      \/ \E n \in LengthBits : R!NamedBlockBegin(n)
      \/ R!NamedBlockEnd
  BY <1>1, PendingIsLegal DEF RepeatText
<1>3. QED BY <1>2, ReadNumber, ReadBegin, ReadEnd

\* a context that has been given a text
Untouched == \E tokens : Natural(tokens) /\ R!Start(tokens)

LEMMA ReadStarts == Untouched => ReadTypes
<1>0. SUFFICES ASSUME NEW tokens, Natural(tokens), R!Start(tokens)
               PROVE  ReadTypes
  BY DEF Untouched
<1>1. /\ read_bitpos = 0 /\ read_bitlimit = TextBits /\ read_scope_stack = <<>>
      /\ unread = tokens /\ read_thrown = FALSE /\ read_returned = 0
  BY <1>0 DEF R!Start
<1>2. <<>> \in Seq({}) /\ Len(<<>>) = 0 /\ 1..0 = {}
  OBVIOUS
<1>3. 1..Len(read_scope_stack) = {}
  BY <1>1, <1>2
<1>4. 0 \in Nat /\ TextBits \in 0..TextBits /\ FALSE \in BOOLEAN
  BY ModesAssumption
<1>5. R!TypeOK
  BY <1>1, <1>3, <1>4 DEF R!TypeOK
<1>6. QED BY <1>0, <1>1, <1>2, <1>5 DEF ReadTypes

LEMMA ReadGiven ==
  ASSUME TextTypes, R!ParseText(prod)
  PROVE  ReadTypes'
<1>1. PICK tokens : tokens = prod
  OBVIOUS
<1>2. Natural(tokens)
  BY <1>1 DEF TextTypes
<1>3. (R!Start(tokens))'
  BY <1>1 DEF R!ParseText, R!Start
<1>4. Natural(tokens)'
  BY <1>2 DEF Natural
<1>5. Untouched'
  BY <1>3, <1>4 DEF Untouched
<1>6. (Untouched => ReadTypes)'
  BY ReadStarts, PTL
<1>7. QED BY <1>5, <1>6

----------------------------------------------------------------------------
\* The inductive invariant behind the types of the four modes
TypesInv == /\ OutTypes
            /\ WholeInside
            /\ CallsInv
            /\ TextTypes
            /\ IP!IInv
            /\ ReadTypes

LEMMA TypesHold ==
  /\ ModesInit => TypesInv
  /\ TypesInv /\ [ModesNext]_modes_vars => TypesInv'
<1>1. ASSUME ModesInit PROVE TypesInv
  <2>1. Init /\ T!Init /\ I!Start([i \in 0..-1 |-> 0], 0) /\ R!Start(<<>>)
    BY <1>1 DEF ModesInit
  <2>2. Given
    <3>1. 0 \in 0..BufferBytes /\ 0 * ByteBits = 0
      BY OutAssumption, ByteAssumption
    <3>2. QED BY <2>1, <3>1 DEF I!Start, Given
  <2>3. Natural(<<>>)
    <3>1. <<>> \in Seq({})
      OBVIOUS
    <3>2. \E S : <<>> \in Seq(S) /\ S = {}
      BY <3>1
    <3>3. QED BY <3>2 DEF Natural
  <2>4. Untouched
    BY <2>1, <2>3 DEF Untouched
  <2>5. OutTypes /\ WholeInside /\ TextTypes /\ IP!IInv /\ ReadTypes
    BY <2>1, <2>2, <2>4, OutTyped, WholeStaysInside, TextStarts, GivenInOrder, ReadStarts
  <2>6. CallsInv
    BY <1>1, CallsHold
  <2>7. QED BY <2>5, <2>6 DEF TypesInv
<1>2. ASSUME TypesInv, [ModesNext]_modes_vars PROVE TypesInv'
  <2>1. OutTypes /\ WholeInside /\ CallsInv /\ TextTypes /\ IP!IInv /\ ReadTypes /\ IInv
    BY <1>2 DEF TypesInv, OutTypes
  <2>2. [Next]_vars
    BY <1>2, ConstructionPart
  <2>3. OutTypes' /\ WholeInside'
    BY <2>1, <2>2, OutTyped, WholeStaysInside
  <2>4. CallsInv'
    BY <1>2, <2>1, CallsHold
  <2>5. UNCHANGED text => TextTypes'
    BY <2>1 DEF text, TextTypes, T!TypeOK, TextNests, Natural
  <2>6. UNCHANGED in => IP!IInv'
    <3>1. UNCHANGED in => UNCHANGED IP!vars
      BY DEF in, IP!vars
    <3>2. QED BY <2>1, <3>1, MessageStep
  <2>7. UNCHANGED read => ReadTypes'
    BY <2>1 DEF read, ReadTypes, R!TypeOK, Natural
  <2>8. CASE Construct
    <3>1. UNCHANGED in /\ UNCHANGED read
      BY <2>8 DEF Construct, OnBoth
    <3>2. QED BY <2>1, <2>3, <2>4, <2>6, <2>7, <2>8, <3>1, TextStep DEF TypesInv
  <2>9. CASE Reparse
    <3>1. UNCHANGED text
      BY <2>9 DEF Reparse
    <3>2. \/ phase' = "binary" /\ UNCHANGED read
          \/ R!ParseText(prod) /\ UNCHANGED in
      BY <2>9 DEF Reparse
    <3>3. IP!IInv' /\ ReadTypes'
      BY <2>1, <2>6, <2>7, <2>9, <3>2, MessageGiven, ReadGiven
    <3>4. QED BY <2>3, <2>4, <2>5, <3>1, <3>3 DEF TypesInv
  <2>10. CASE RepeatBinary
    <3>1. UNCHANGED text /\ UNCHANGED read
      BY <2>10 DEF RepeatBinary, Repeated
    <3>2. QED BY <2>1, <2>3, <2>4, <2>5, <2>7, <2>10, <3>1, MessageHolds DEF TypesInv
  <2>11. CASE RepeatText
    <3>1. UNCHANGED text /\ UNCHANGED in
      BY <2>11 DEF RepeatText, Repeated
    <3>2. QED BY <2>1, <2>3, <2>4, <2>5, <2>6, <2>11, <3>1, ReadStep DEF TypesInv
  <2>12. CASE UNCHANGED modes_vars
    <3>1. UNCHANGED text /\ UNCHANGED in /\ UNCHANGED read
      BY <2>12 DEF modes_vars
    <3>2. QED BY <2>3, <2>4, <2>5, <2>6, <2>7, <3>1 DEF TypesInv
  <2>13. QED BY <1>2, <2>8, <2>9, <2>10, <2>11, <2>12 DEF ModesNext
<1>3. QED BY <1>1, <1>2

\* every variable of the four contexts always has its type, whatever the client
\* calls (inc/io.h, obCtx, ocCtx, ibCtx and icCtx)
THEOREM ModesTypeCorrect == ModesSpec => []ModesTypeOK
<1>1. TypesInv => ModesTypeOK
  BY MessageTyped DEF TypesInv, OutTypes, TextTypes, ReadTypes, ModesTypeOK
<1>2. QED BY <1>1, TypesHold, PTL DEF ModesSpec
============================================================================
