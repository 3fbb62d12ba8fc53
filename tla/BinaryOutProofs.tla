-------------------------- MODULE BinaryOutProofs --------------------------
(* What BinaryOut does for every buffer, every width of a byte and every     *)
(* sequence of calls, however deep its blocks are nested.                    *)
EXTENDS BinaryOut, SequenceTheorems, WellFoundedInduction, TLAPS

Scope == [bitpos_at_enter : Nat, bitlimit_at_enter : 0..BufferBits,
          position_for_write : Nat]

LEMMA Sizes == /\ ByteBits \in Nat \ {0}
               /\ BufferBits \in Nat
               /\ \A f \in Fields : f.size \in Nat
               /\ \A n \in LengthBits : n \in Nat /\ n > 0 /\ MostBytes(n) \in Nat
<1>1. /\ ByteBits \in Nat \ {0} /\ BufferBytes \in Nat
      /\ \A f \in Fields : f \in Field
      /\ \A n \in LengthBits : n \in 1..(4 * ByteBits) /\ MostBytes(n) \in Nat
  BY ByteAssumption, OutAssumption
<1>2. QED BY <1>1 DEF BufferBits, Field

\* whole bytes counted in bits, and the bytes in so many bits at most
LEMMA BytesInBits ==
  /\ \A m \in Nat : m * ByteBits \in Nat
  /\ \A bits, m \in Nat :
       bits <= m * ByteBits => bits \div ByteBits \in Nat /\ bits \div ByteBits <= m
<1>1. ByteBits \in Nat \ {0}
  BY Sizes
<1>2. ASSUME NEW bits \in Nat, NEW m \in Nat, bits <= m * ByteBits
      PROVE  bits \div ByteBits \in Nat /\ bits \div ByteBits <= m
  <2>1. (m * ByteBits) \div ByteBits = m
    BY <1>1
  <2>2. /\ bits \div ByteBits \in Nat
        /\ (bits \div ByteBits) * ByteBits <= bits
    BY <1>1
  <2>3. ASSUME bits \div ByteBits > m PROVE FALSE
    <3>1. (bits \div ByteBits) * ByteBits >= (m + 1) * ByteBits
      BY <1>1, <2>2, <2>3
    <3>2. (m + 1) * ByteBits > m * ByteBits
      BY <1>1
    <3>3. QED BY <1>1, <1>2, <2>2, <3>1, <3>2
  <2>4. QED BY <2>2, <2>3
<1>3. QED BY <1>1, <1>2

LEMMA Pushed ==
  ASSUME NEW s \in Seq(Scope), NEW e \in Scope
  PROVE  /\ Append(s, e) \in Seq(Scope)
         /\ Len(s) \in Nat /\ Len(Append(s, e)) = Len(s) + 1
         /\ \A i \in 1..Len(s) : Append(s, e)[i] = s[i]
         /\ Append(s, e)[Len(s) + 1] = e
BY AppendProperties, LenProperties

\* the stack without its top
LEMMA Popped ==
  ASSUME NEW s \in Seq(Scope), s # <<>>
  PROVE  /\ Len(s) \in Nat /\ Len(s) >= 1
         /\ \A i \in 1..Len(s) : s[i] \in Scope
         /\ SubSeq(s, 1, Len(s) - 1) \in Seq(Scope)
         /\ Len(SubSeq(s, 1, Len(s) - 1)) = Len(s) - 1
         /\ \A i \in 1..(Len(s) - 1) : SubSeq(s, 1, Len(s) - 1)[i] = s[i]
<1>1. Len(s) \in Nat /\ Len(s) >= 1
  BY LenProperties, EmptySeq
<1>2. \A i \in 1..Len(s) : s[i] \in Scope
  BY ElementOfSeq
<1> DEFINE m == Len(s) - 1
           r == SubSeq(s, 1, m)
<1>3. m \in Int /\ m >= 0 /\ \A i \in 1..m : s[i] \in Scope
  BY <1>1, <1>2
<1>4. r \in Seq(Scope) /\ Len(r) = m /\ \A i \in 1..m : r[i] = s[i]
  <2> HIDE DEF m
  <2>1. /\ r \in Seq(Scope)
        /\ Len(r) = IF 1 <= m THEN m - 1 + 1 ELSE 0
        /\ \A i \in 1..(m - 1 + 1) : r[i] = s[1 + i - 1]
    BY <1>3, SubSeqProperties
  <2>2. m - 1 + 1 = m /\ \A i \in 1..m : 1 + i - 1 = i
    BY <1>3
  <2> HIDE DEF r
  <2>3. Len(r) = m
    BY <1>3, <2>1, <2>2
  <2>4. \A i \in 1..m : r[i] = s[i]
    BY <2>1, <2>2
  <2>5. QED BY <2>1, <2>3, <2>4
<1>5. QED BY <1>1, <1>2, <1>4

----------------------------------------------------------------------------
\* a call that throws leaves positions and limits where they may be
LEMMA ThrowStep ==
  ASSUME IInv, thrown', bitpos' \in Nat, UNCHANGED <<bitlimit, scope_stack>>
  PROVE  IInv'
<1>1. UNCHANGED bitlimit /\ UNCHANGED scope_stack
  OBVIOUS
<1>2. Positions'
  BY <1>1 DEF IInv, Positions
<1>3. LimitsNest'
  BY <1>1 DEF IInv, LimitsNest, InnerLimit
<1>4. QED BY <1>2, <1>3 DEF IInv

LEMMA WriteStep ==
  ASSUME IInv, NEW w, NEW size \in Nat, NEW val, Write(w, size, val)
  PROVE  IInv'
<1> DEFINE n == Len(scope_stack)
<1>1. /\ Positions /\ LimitsNest /\ ~thrown
      /\ \A i \in 1..n : BlockInOrder(i)
      /\ bitpos' = bitpos + size /\ bitpos + size <= bitlimit
      /\ UNCHANGED bitlimit /\ UNCHANGED scope_stack /\ UNCHANGED thrown
  BY DEF IInv, Write, Writable
<1>2. /\ bitpos \in Nat /\ bitlimit \in Nat /\ bitpos' \in Nat
      /\ bitpos' >= bitpos /\ bitpos' <= bitlimit
  BY <1>1, Sizes DEF Positions
<1>3. Positions'
  BY <1>1, <1>2 DEF Positions
<1>4. LimitsNest'
  BY <1>1 DEF LimitsNest, InnerLimit
<1>5. /\ n \in Nat /\ \A i \in 1..n : scope_stack[i] \in Scope
  BY <1>1, LenProperties, ElementOfSeq DEF Positions, Scope
<1>6. ASSUME NEW i \in 1..n PROVE BlockInOrder(i)'
  <2>1. InnerLimit(i)' = InnerLimit(i) /\ Doomed(i)' = Doomed(i)
    BY <1>1 DEF InnerLimit, Doomed
  <2>2. CASE i = n
    <3>1. /\ PosInside(i) = bitpos /\ PosInside(i)' = bitpos'
          /\ InnerLimit(i) = bitlimit
      BY <1>1, <2>2 DEF PosInside, InnerLimit
    <3>2. scope_stack[i].bitpos_at_enter \in Nat
      BY <1>5 DEF Scope
    <3>3. QED BY <1>1, <1>2, <2>1, <3>1, <3>2 DEF BlockInOrder
  <2>3. CASE i # n
    <3>1. PosInside(i)' = PosInside(i)
      BY <1>1, <2>3 DEF PosInside
    <3>2. QED BY <1>1, <2>1, <3>1 DEF BlockInOrder
  <2>4. QED BY <2>2, <2>3
<1>7. QED BY <1>1, <1>3, <1>4, <1>6 DEF IInv

\* the limit of a new block
LEMMA NewLimit ==
  ASSUME Positions, NEW start \in Nat, NEW size \in LengthBits
  PROVE  /\ BlockLimit(start, size) \in 0..BufferBits
         /\ BlockLimit(start, size) <= bitlimit
         /\ BlockLimit(start, size) <= start + MostBytes(size) * ByteBits
         /\ start > BlockLimit(start, size) => start > bitlimit
<1>1. MostBytes(size) * ByteBits \in Nat
  BY Sizes, BytesInBits
<1>2. bitlimit \in 0..BufferBits /\ BufferBits \in Nat
  BY Sizes DEF Positions
<1>3. QED BY <1>1, <1>2 DEF BlockLimit

LEMMA BeginStep ==
  ASSUME IInv, NEW size \in LengthBits, BeginBlock(size)
  PROVE  IInv'
<1> DEFINE n == Len(scope_stack)
           start == bitpos + size
           e == [bitpos_at_enter |-> start, bitlimit_at_enter |-> bitlimit,
                 position_for_write |-> bitpos]
<1>1. /\ Positions /\ LimitsNest /\ ~thrown /\ ~thrown'
      /\ \A i \in 1..n : BlockInOrder(i)
      /\ bitpos' = start /\ bitlimit' = BlockLimit(start, size)
      /\ scope_stack' = Append(scope_stack, e)
  BY DEF IInv, BeginBlock
<1>2. /\ bitpos \in Nat /\ size \in Nat /\ start \in Nat /\ start >= bitpos
      /\ start - bitpos = size /\ bitlimit \in Nat /\ bitlimit \in 0..BufferBits
  BY <1>1, Sizes DEF Positions
<1>3. e \in Scope /\ scope_stack \in Seq(Scope)
  BY <1>1, <1>2 DEF Positions, Scope
<1>4. /\ n \in Nat /\ scope_stack' \in Seq(Scope) /\ Len(scope_stack') = n + 1
      /\ \A i \in 1..n : scope_stack'[i] = scope_stack[i]
      /\ \A i \in 1..(n + 1) : i = n + 1 => scope_stack'[i] = e
  BY <1>1, <1>3, Pushed
<1>5. /\ bitlimit' \in 0..BufferBits /\ bitlimit' <= bitlimit
      /\ bitlimit' <= start + MostBytes(size) * ByteBits
      /\ bitpos' > bitlimit' => start > bitlimit
  <2> HIDE DEF start
  <2>1. QED BY <1>1, <1>2, NewLimit
<1>6. Positions'
  BY <1>1, <1>2, <1>4, <1>5 DEF Positions, Scope
\* inside the blocks already open nothing has changed
<1>7. \A i \in 1..n : /\ InnerLimit(i)' = InnerLimit(i)
                      /\ PosInside(i)' = PosInside(i)
                      /\ Doomed(i)' = Doomed(i)
  BY <1>4 DEF InnerLimit, PosInside, Doomed
<1>8. \A i \in 1..(n + 1) : i = n + 1 =>
        /\ InnerLimit(i)' = bitlimit' /\ PosInside(i)' = bitpos'
        /\ Doomed(i)' = (start > bitlimit)
  BY <1>4 DEF InnerLimit, PosInside, Doomed
<1>9. LimitsNest'
  <2>1. \A i \in 1..n : InnerLimit(i)' <= scope_stack'[i].bitlimit_at_enter
    BY <1>1, <1>4, <1>7 DEF LimitsNest
  <2>2. \A i \in 1..(n + 1) :
          i = n + 1 => InnerLimit(i)' <= scope_stack'[i].bitlimit_at_enter
    BY <1>4, <1>5, <1>8
  <2>3. QED BY <1>4, <2>1, <2>2 DEF LimitsNest
<1>10. ASSUME NEW i \in 1..(n + 1) PROVE BlockInOrder(i)'
  <2>1. CASE i \in 1..n
    BY <1>1, <1>4, <1>7, <2>1 DEF BlockInOrder
  <2>2. CASE i = n + 1
    <3>1. /\ scope_stack'[i].bitpos_at_enter = start
          /\ scope_stack'[i].position_for_write = bitpos
      BY <1>4, <2>2
    <3>2. /\ InnerLimit(i)' = bitlimit' /\ PosInside(i)' = start
          /\ Doomed(i)' = (start > bitlimit)
      BY <1>1, <1>8, <2>2
    <3>3. start <= start
      BY <1>2
    <3>4. start > bitlimit' => start > bitlimit
      BY <1>1, <1>5
    <3> HIDE DEF start
    <3>5. QED BY <1>2, <1>5, <3>1, <3>2, <3>3, <3>4 DEF BlockInOrder
  <2>3. QED BY <1>4, <2>1, <2>2
<1>11. QED BY <1>1, <1>4, <1>6, <1>9, <1>10 DEF IInv

\* what is known of the innermost block when it ends
LEMMA EndFacts ==
  ASSUME IInv, scope_stack # <<>>
  PROVE  /\ scope_stack \in Seq(Scope)
         /\ Len(scope_stack) \in Nat /\ Len(scope_stack) >= 1
         /\ Top \in Scope
         /\ bitlimit <= Top.bitlimit_at_enter
         /\ Outer \in Seq(Scope) /\ Len(Outer) = Len(scope_stack) - 1
         /\ \A i \in 1..(Len(scope_stack) - 1) : Outer[i] = scope_stack[i]
<1>1. scope_stack \in Seq(Scope)
  BY DEF IInv, Positions, Scope
<1>2. /\ Len(scope_stack) \in Nat /\ Len(scope_stack) >= 1
      /\ \A i \in 1..Len(scope_stack) : scope_stack[i] \in Scope
      /\ Outer \in Seq(Scope) /\ Len(Outer) = Len(scope_stack) - 1
      /\ \A i \in 1..(Len(scope_stack) - 1) : Outer[i] = scope_stack[i]
  BY <1>1, Popped DEF Outer
<1>3. Len(scope_stack) \in 1..Len(scope_stack)
  BY <1>2
<1>4. bitlimit <= Top.bitlimit_at_enter
  BY <1>3 DEF IInv, LimitsNest, InnerLimit, Top
<1>5. QED BY <1>1, <1>2, <1>3, <1>4 DEF Top

\* a block that ends is not doomed, so it has stayed within its limit
LEMMA EndInside ==
  ASSUME IInv, EndBlock
  PROVE  /\ Top.position_for_write <= Top.bitpos_at_enter
         /\ Top.bitpos_at_enter <= bitpos
         /\ bitpos <= bitlimit
         /\ LengthField \in LengthBits
         /\ bitlimit <= Top.bitpos_at_enter + MostBytes(LengthField) * ByteBits
<1> DEFINE n == Len(scope_stack)
<1>1. n \in Nat /\ n >= 1 /\ Top \in Scope /\ n \in 1..n
  BY EndFacts DEF EndBlock
<1>2. BlockInOrder(n) /\ bitpos \in Nat /\ bitlimit \in Nat
  BY <1>1, Sizes DEF IInv, EndBlock, Positions
<1>3. PosInside(n) = bitpos /\ InnerLimit(n) = bitlimit
  BY DEF PosInside, InnerLimit
<1>4. /\ LengthField \in LengthBits
      /\ Top.bitpos_at_enter <= bitpos
      /\ bitlimit <= Top.bitpos_at_enter + MostBytes(LengthField) * ByteBits
      /\ bitpos > bitlimit => Top.bitpos_at_enter > Top.bitlimit_at_enter
  BY <1>2, <1>3 DEF BlockInOrder, Doomed, LengthField, Top
<1>5. /\ Top.bitpos_at_enter \in Nat /\ Top.position_for_write \in Nat
      /\ Top.bitlimit_at_enter \in Nat
  BY <1>1, Sizes DEF Scope
<1>6. Top.position_for_write + LengthField <= Top.bitlimit_at_enter
  BY DEF EndBlock, LengthWritable, Writable
<1>7. LengthField = Top.bitpos_at_enter - Top.position_for_write
      /\ LengthField \in Nat
  BY <1>4, Sizes DEF LengthField
<1>8. Top.bitpos_at_enter <= Top.bitlimit_at_enter
  BY <1>5, <1>6, <1>7
<1>9. QED BY <1>2, <1>4, <1>5, <1>7, <1>8

\* the length of a block that ends
LEMMA EndLength ==
  ASSUME IInv, EndBlock
  PROVE  /\ LengthField \in LengthBits
         /\ BlockBits \div ByteBits \in Nat
         /\ BlockBits \div ByteBits <= MostBytes(LengthField)
<1>1. /\ Top.bitpos_at_enter <= bitpos /\ bitpos <= bitlimit
      /\ LengthField \in LengthBits
      /\ bitlimit <= Top.bitpos_at_enter + MostBytes(LengthField) * ByteBits
  BY EndInside
<1>2. Top.bitpos_at_enter \in Nat /\ bitpos \in Nat /\ bitlimit \in Nat
  BY EndFacts, Sizes DEF EndBlock, Scope, IInv, Positions
<1>3. MostBytes(LengthField) \in Nat /\ MostBytes(LengthField) * ByteBits \in Nat
  BY <1>1, Sizes, BytesInBits
<1>4. BlockBits \in Nat /\ BlockBits <= MostBytes(LengthField) * ByteBits
  BY <1>1, <1>2, <1>3 DEF BlockBits
<1>5. QED BY <1>1, <1>3, <1>4, BytesInBits

LEMMA EndStep ==
  ASSUME IInv, EndBlock
  PROVE  IInv'
<1> DEFINE n == Len(scope_stack)
<1>1. /\ scope_stack \in Seq(Scope) /\ n \in Nat /\ n >= 1 /\ Top \in Scope
      /\ bitlimit <= Top.bitlimit_at_enter
      /\ Outer \in Seq(Scope) /\ Len(Outer) = n - 1
      /\ \A i \in 1..(n - 1) : Outer[i] = scope_stack[i]
  BY EndFacts DEF EndBlock
<1>2. /\ bitlimit' = Top.bitlimit_at_enter /\ bitpos' = bitpos
      /\ scope_stack' = Outer /\ thrown' = thrown /\ ~thrown
  BY DEF EndBlock
<1>3. /\ bitpos \in Nat /\ bitlimit \in Nat
      /\ Top.bitpos_at_enter \in Nat /\ Top.position_for_write \in Nat
      /\ Top.bitlimit_at_enter \in 0..BufferBits
      /\ Top.bitlimit_at_enter \in Nat
  BY <1>1, Sizes DEF IInv, Positions, Scope
<1>4. /\ Len(scope_stack') = n - 1 /\ scope_stack' \in Seq(Scope)
      /\ \A i \in 1..(n - 1) : scope_stack'[i] = scope_stack[i]
  BY <1>1, <1>2
<1>5. Positions'
  BY <1>2, <1>3, <1>4 DEF Positions, Scope
<1>6. \A i \in 1..(n - 1) : InnerLimit(i)' = InnerLimit(i) /\ Doomed(i)' = Doomed(i)
  BY <1>1, <1>2, <1>4 DEF InnerLimit, Top, Doomed
<1>7. LimitsNest'
  <2>1. \A i \in 1..(n - 1) : InnerLimit(i) <= scope_stack[i].bitlimit_at_enter
    BY <1>1 DEF IInv, LimitsNest
  <2>2. QED BY <1>4, <1>6, <2>1 DEF LimitsNest
<1>8. ASSUME NEW i \in 1..(n - 1) PROVE BlockInOrder(i)'
  <2>1. BlockInOrder(i) /\ i \in 1..n
    BY <1>1, <1>2 DEF IInv
  <2>2. CASE i = n - 1
    <3>1. /\ PosInside(i) = Top.position_for_write /\ PosInside(i)' = bitpos
          /\ InnerLimit(i) = Top.bitlimit_at_enter
      BY <1>1, <1>2, <1>4, <2>2 DEF PosInside, InnerLimit, Top
    <3>2. /\ Top.position_for_write <= bitpos /\ bitpos <= Top.bitlimit_at_enter
      BY <1>1, <1>3, EndInside
    <3>3. scope_stack[i].bitpos_at_enter \in Nat
      <4>1. \A k \in 1..n : scope_stack[k] \in Scope
        BY <1>1, ElementOfSeq
      <4>2. scope_stack[i] \in Scope
        BY <2>1, <4>1
      <4>3. QED BY <4>2 DEF Scope
    <3>4. /\ PosInside(i)' <= InnerLimit(i)
          /\ scope_stack[i].bitpos_at_enter <= PosInside(i)'
      BY <1>3, <2>1, <3>1, <3>2, <3>3 DEF BlockInOrder
    <3>5. ~(PosInside(i)' > InnerLimit(i))
      BY <1>3, <3>1, <3>2
    <3>6. QED BY <1>4, <1>6, <2>1, <3>4, <3>5 DEF BlockInOrder
  <2>3. CASE i # n - 1
    <3>1. PosInside(i)' = PosInside(i)
      BY <1>1, <1>4, <2>3 DEF PosInside
    <3>2. QED BY <1>4, <1>6, <2>1, <3>1 DEF BlockInOrder
  <2>4. QED BY <2>2, <2>3
<1>9. QED BY <1>4, <1>5, <1>7, <1>8 DEF IInv

\* the length does not fit: the block is closed all the same
LEMMA RefuseLengthStep ==
  ASSUME IInv, RefuseLength
  PROVE  IInv'
<1> DEFINE n == Len(scope_stack)
<1>1. /\ n \in Nat /\ n >= 1 /\ Top \in Scope
      /\ Outer \in Seq(Scope) /\ Len(Outer) = n - 1
      /\ \A i \in 1..(n - 1) : Outer[i] = scope_stack[i]
  BY EndFacts DEF RefuseLength
<1>2. /\ bitlimit' = Top.bitlimit_at_enter /\ bitpos' = Top.position_for_write
      /\ scope_stack' = Outer /\ thrown'
  BY DEF RefuseLength
<1>3. Positions'
  BY <1>1, <1>2 DEF Positions, Scope
<1>4. \A i \in 1..(n - 1) : InnerLimit(i)' = InnerLimit(i)
  BY <1>1, <1>2 DEF InnerLimit, Top
<1>5. LimitsNest'
  <2>1. \A i \in 1..(n - 1) : InnerLimit(i) <= scope_stack[i].bitlimit_at_enter
    BY <1>1 DEF IInv, LimitsNest
  <2>2. QED BY <1>1, <1>2, <1>4, <2>1 DEF LimitsNest
<1>6. QED BY <1>2, <1>3, <1>5 DEF IInv

----------------------------------------------------------------------------
LEMMA InvariantHolds ==
  /\ Init => IInv
  /\ IInv /\ [Next]_vars => IInv'
<1>1. ASSUME Init PROVE IInv
  <2>1. bitpos = 0 /\ bitlimit = BufferBits /\ scope_stack = <<>>
    BY <1>1 DEF Init
  <2>2. Len(scope_stack) = 0 /\ scope_stack \in Seq(Scope) /\ 1..0 = {}
    BY <2>1, EmptySeq
  <2>3. Positions
    BY <2>1, <2>2, Sizes DEF Positions, Scope
  <2>4. LimitsNest
    BY <2>2 DEF LimitsNest
  <2>5. QED BY <2>2, <2>3, <2>4 DEF IInv
<1>2. ASSUME IInv, [Next]_vars PROVE IInv'
  <2>1. bitpos \in Nat
    BY <1>2 DEF IInv, Positions
  <2>2. ASSUME NEW f \in Fields, Uint(f) PROVE IInv'
    <3>1. f.size \in Nat
      BY Sizes
    <3>2. CASE Write(f.w, f.size, f.val)
      BY <1>2, <3>1, <3>2, WriteStep
    <3>3. CASE RefuseWrite(f.w, f.size)
      BY <1>2, <2>1, <3>3, ThrowStep DEF RefuseWrite
    <3>4. QED BY <2>2, <3>2, <3>3 DEF Uint
  <2>3. ASSUME NEW size \in LengthBits, NamedBlockBegin(size) PROVE IInv'
    <3>1. CASE BeginBlock(size)
      BY <1>2, <3>1, BeginStep
    <3>2. CASE RefuseBegin(size)
      <4>1. bitpos' \in Nat
        BY <2>1, <3>2, Sizes DEF RefuseBegin
      <4>2. QED BY <1>2, <3>2, <4>1, ThrowStep DEF RefuseBegin
    <3>3. QED BY <2>3, <3>1, <3>2 DEF NamedBlockBegin
  <2>4. CASE EndBlock
    BY <1>2, <2>4, EndStep
  <2>5. CASE RefuseLength
    BY <1>2, <2>5, RefuseLengthStep
  <2>6. CASE RefuseEnd
    BY <1>2, <2>1, <2>6, ThrowStep DEF RefuseEnd
  <2>7. CASE UNCHANGED vars
    <3>1. UNCHANGED bitpos /\ UNCHANGED bitlimit /\ UNCHANGED scope_stack
          /\ UNCHANGED thrown
      BY <2>7 DEF vars
    <3>2. QED BY <1>2, <3>1
          DEF IInv, Positions, LimitsNest, BlockInOrder, InnerLimit, PosInside, Doomed
  <2>8. QED BY <1>2, <2>2, <2>3, <2>4, <2>5, <2>6, <2>7 DEF Next, NamedBlockEnd
<1>3. QED BY <1>1, <1>2

\* inc/io.h:148: a block never has a limit past that of the block around it or
\* past the buffer
THEOREM LimitsAlwaysNest == Spec => []LimitsNest
<1>1. Init => IInv
  BY InvariantHolds
<1>2. IInv /\ [Next]_vars => IInv'
  BY InvariantHolds
<1>3. IInv => LimitsNest
  BY DEF IInv
<1>4. QED BY <1>1, <1>2, <1>3, PTL DEF Spec

\* inc/io.h:564: every length written fits its field, although room for the
\* lengths of inner blocks is reserved without looking at the limit
THEOREM LengthsFit == Spec => LengthFits
<1>1. Init => IInv
  BY InvariantHolds
<1>2. IInv /\ [Next]_vars => IInv'
  BY InvariantHolds
<1>3. IInv /\ [Next]_vars
        => [NamedBlockEnd /\ ~thrown' => returned' <= MostBytes(LengthField)]_vars
  <2>1. ASSUME IInv, NamedBlockEnd, ~thrown'
        PROVE  returned' <= MostBytes(LengthField)
    <3>1. EndBlock
      BY <2>1 DEF NamedBlockEnd, RefuseEnd, RefuseLength
    <3>2. returned' = BlockBits \div ByteBits
      BY <3>1 DEF EndBlock
    <3>3. QED BY <2>1, <3>1, <3>2, EndLength
  <2>2. QED BY <2>1
<1>4. QED BY <1>1, <1>2, <1>3, PTL DEF Spec, LengthFits

----------------------------------------------------------------------------
(* powers and bits *)

\* induction, for the proofs below: every set of numbers has a least one
LEMMA LeastOf ==
  ASSUME NEW T \in SUBSET Nat, T # {}
  PROVE  \E n \in T : \A m \in T : n <= m
<1> DEFINE R == OpToRel(<, Nat)
<1>1. IsWellFoundedOn(R, Nat)
  BY NatLessThanWellFounded
<1>2. \A m, n \in Nat : m < n => <<m, n>> \in R
  BY DEF OpToRel
<1> HIDE DEF R
<1>3. PICK n \in T : \A m \in T : ~(<<m, n>> \in R)
  BY <1>1, WFMin
<1>4. ASSUME NEW m \in T PROVE n <= m
  <2>1. m \in Nat /\ n \in Nat
    OBVIOUS
  <2>2. ~(m < n)
    BY <1>2, <1>3, <2>1
  <2>3. QED BY <2>1, <2>2
<1>5. QED BY <1>4

\* powers of two rise
LEMMA Powers ==
  /\ \A n \in 0..(5 * ByteBits) : 2^n \in Nat /\ 2^n >= 1
  /\ \A n \in 1..(4 * ByteBits) : \A k \in n..(n + ByteBits) : 2^n <= 2^k
<1> DEFINE p[n \in Nat] == 2^n
           top == 5 * ByteBits
<1>1. ByteBits \in Nat /\ top \in Nat /\ 4 * ByteBits + ByteBits = top
  BY ByteAssumption
<1>2. p[0] = 1 /\ \A n \in 0..top : p[n] \in Nat /\ p[n + 1] = 2 * p[n]
  BY <1>1, PowersAssumption
<1> HIDE DEF p, top
<1>3. \A n \in 0..top : p[n] >= 1
  <2> DEFINE T == {n \in 0..top : ~(p[n] >= 1)}
  <2>1. SUFFICES ASSUME T # {} PROVE FALSE
    OBVIOUS
  <2>2. PICK n \in T : \A m \in T : n <= m
    <3>1. T \in SUBSET Nat
      BY <1>1
    <3> HIDE DEF T
    <3>2. QED BY <2>1, <3>1, LeastOf
  <2>3. n \in 0..top /\ n # 0 /\ ~(p[n] >= 1)
    BY <1>2, <2>2
  <2> DEFINE m == n - 1
  <2>4. m \in 0..top /\ ~(m \in T) /\ m + 1 = n
    BY <1>1, <2>2, <2>3
  <2> HIDE DEF m
  <2>5. p[m] \in Nat /\ p[m] >= 1 /\ p[n] = 2 * p[m]
    BY <1>2, <2>4
  <2>6. QED BY <2>3, <2>5
<1>4. ASSUME NEW n \in 0..top PROVE \A k \in n..top : p[n] <= p[k]
  <2> DEFINE T == {k \in n..top : ~(p[n] <= p[k])}
  <2>1. SUFFICES ASSUME T # {} PROVE FALSE
    OBVIOUS
  <2>2. PICK k \in T : \A m \in T : k <= m
    <3>1. T \in SUBSET Nat
      BY <1>1
    <3> HIDE DEF T
    <3>2. QED BY <2>1, <3>1, LeastOf
  <2>3. k \in n..top /\ k # n /\ ~(p[n] <= p[k]) /\ p[n] \in Nat
    BY <1>2, <2>2
  <2> DEFINE m == k - 1
  <2>4. m \in n..top /\ m \in 0..top /\ ~(m \in T) /\ m + 1 = k
    BY <1>1, <2>2, <2>3
  <2> HIDE DEF m
  <2>5. p[m] \in Nat /\ p[n] <= p[m] /\ p[k] = 2 * p[m]
    BY <1>2, <2>4
  <2>6. QED BY <2>3, <2>5
<1>5. \A n \in 0..top : 2^n = p[n]
  BY <1>1 DEF p
<1>6. /\ \A n \in 0..top : 2^n \in Nat /\ 2^n >= 1
      /\ \A n \in 0..top : \A k \in n..top : 2^n <= 2^k
  BY <1>2, <1>3, <1>4, <1>5
<1>7. \A n \in 1..(4 * ByteBits) : n \in 0..top /\ \A k \in n..(n + ByteBits) : k \in n..top
  BY <1>1
<1>8. QED BY <1>6, <1>7 DEF top

----------------------------------------------------------------------------
(* what is written stays *)

\* the numbers that a client writes have as many bits as it says
NumbersFit == \A f \in Fields : f.val < 2^f.size

DataInv == DOMAIN data = 0..(BufferBits - 1)

\* a number without a bit of a weight beyond its size changes its field only
LEMMA PutInside ==
  ASSUME DataInv, NEW pos \in Nat, NEW size \in Nat, NEW val,
         \A k \in size..(size + ByteBits) : Bit(val, k) = 0,
         NEW i \in 0..(BufferBits - 1), i \notin pos..(pos + size - 1)
  PROVE  Put(data, pos, size, val)[i] = data[i]
<1> DEFINE new == Bit(val, pos + size - 1 - i)
           start == pos - (pos % ByteBits)
<1>1. Put(data, pos, size, val)[i] = IF i \in start..(pos - 1) /\ new = 1 THEN 1 ELSE data[i]
  BY DEF Put, DataInv
<1>2. ASSUME i \in start..(pos - 1) PROVE new = 0
  <2>1. ByteBits \in Nat \ {0} /\ i \in Nat /\ BufferBits \in Nat
    BY Sizes
  <2>2. pos % ByteBits \in 0..(ByteBits - 1)
    BY <2>1
  <2>3. pos + size - 1 - i \in size..(size + ByteBits)
    BY <1>2, <2>1, <2>2
  <2>4. QED BY <2>3
<1>3. QED BY <1>1, <1>2

\* a number of so many bits has none of a weight above them
LEMMA NoBitsBeyond ==
  ASSUME NEW n \in 1..(4 * ByteBits), NEW val \in Nat, val < 2^n
  PROVE  \A k \in n..(n + ByteBits) : Bit(val, k) = 0
<1>1. ASSUME NEW k \in n..(n + ByteBits) PROVE Bit(val, k) = 0
  <2> DEFINE p == 2^k
             q == 2^n
  <2>1. p \in Nat /\ q \in Nat /\ q <= p
    <3>1. n \in 0..(5 * ByteBits) /\ k \in 0..(5 * ByteBits)
      BY ByteAssumption
    <3>2. QED BY <3>1, Powers
  <2>2. val < q
    OBVIOUS
  <2>3. \A r \in Nat : val < r => val \div r = 0
    OBVIOUS
  <2>4. Bit(val, k) = (val \div p) % 2
    BY DEF Bit
  <2> HIDE DEF p, q
  <2>5. val < p
    BY <2>1, <2>2
  <2>6. QED BY <2>1, <2>3, <2>4, <2>5
<1>2. QED BY <1>1

LEMMA DataInvHolds ==
  /\ Init => DataInv
  /\ DataInv /\ [Next]_vars => DataInv'
<1>1. Init => DataInv
  BY DEF Init, DataInv
<1>2. ASSUME DataInv, [Next]_vars PROVE DataInv'
  <2>1. \A pos, size, val : DOMAIN Put(data, pos, size, val) = DOMAIN data
    BY DEF Put
  <2>2. \/ UNCHANGED data
        \/ \E pos, size, val : data' = Put(data, pos, size, val)
    BY <1>2 DEF Next, Uint, Write, RefuseWrite, NamedBlockBegin, BeginBlock, RefuseBegin,
                NamedBlockEnd, EndBlock, RefuseLength, RefuseEnd, vars
  <2>3. QED BY <1>2, <2>1, <2>2 DEF DataInv
<1>3. QED BY <1>1, <1>2

LEMMA StepStays ==
  ASSUME NumbersFit, IInv, DataInv, Next,
         NEW i \in 0..(BufferBits - 1), data'[i] # data[i]
  PROVE  \/ i \in bitpos..(bitpos' - 1)
         \/ NamedBlockEnd /\ i \in Top.position_for_write..(Top.bitpos_at_enter - 1)
<1>1. bitpos \in Nat
  BY DEF IInv, Positions
<1>2. ASSUME NEW f \in Fields, Write(f.w, f.size, f.val)
      PROVE  i \in bitpos..(bitpos' - 1)
  <2>1. data' = Put(data, bitpos, f.size, f.val) /\ bitpos' = bitpos + f.size
    BY <1>2 DEF Write
  <2>2. f.size \in Nat /\ \A k \in f.size..(f.size + ByteBits) : Bit(f.val, k) = 0
    <3>1. f.size \in 1..(4 * ByteBits) /\ f.val \in Nat /\ f.val < 2^f.size
      BY OutAssumption DEF Field, NumbersFit
    <3>2. QED BY <3>1, Sizes, NoBitsBeyond
  <2>3. i \in bitpos..(bitpos + f.size - 1)
    BY <1>1, <2>1, <2>2, PutInside
  <2>4. bitpos' - 1 = bitpos + f.size - 1
    BY <1>1, <2>1, <2>2
  <2>5. QED BY <2>3, <2>4
<1>3. ASSUME EndBlock
      PROVE  NamedBlockEnd /\ i \in Top.position_for_write..(Top.bitpos_at_enter - 1)
  <2>1. data' = Put(data, Top.position_for_write, LengthField, BlockBits \div ByteBits)
    BY <1>3 DEF EndBlock
  <2>2. \A k \in LengthField..(LengthField + ByteBits) : Bit(BlockBits \div ByteBits, k) = 0
    <3>1. /\ LengthField \in LengthBits /\ BlockBits \div ByteBits \in Nat
          /\ BlockBits \div ByteBits <= MostBytes(LengthField)
      BY <1>3, EndLength
    <3>2. LengthField \in 1..(4 * ByteBits)
      BY <3>1, OutAssumption
    <3>3. 2^LengthField \in Nat
      <4>1. LengthField \in 0..(5 * ByteBits)
        BY <3>2, ByteAssumption
      <4>2. QED BY <4>1, Powers
    <3>4. BlockBits \div ByteBits < 2^LengthField
      BY <3>1, <3>3 DEF MostBytes
    <3>5. QED BY <3>1, <3>2, <3>4, NoBitsBeyond
  <2>3. Top.position_for_write \in Nat /\ Top.bitpos_at_enter \in Nat /\ LengthField \in Nat
    BY <1>3, EndFacts, EndLength, Sizes DEF EndBlock, Scope
  <2>4. i \in Top.position_for_write..(Top.position_for_write + LengthField - 1)
    BY <2>1, <2>2, <2>3, PutInside
  <2>5. Top.position_for_write + LengthField - 1 = Top.bitpos_at_enter - 1
    BY <2>3 DEF LengthField
  <2>6. QED BY <1>3, <2>4, <2>5 DEF NamedBlockEnd
<1>4. UNCHANGED data \/ EndBlock \/ \E f \in Fields : Write(f.w, f.size, f.val)
  BY DEF Next, Uint, RefuseWrite, NamedBlockBegin, BeginBlock, RefuseBegin,
         NamedBlockEnd, RefuseLength, RefuseEnd
<1>5. QED BY <1>2, <1>3, <1>4

\* No call that succeeds changes a bit written before it, but for those of the
\* field that was reserved for a length, if the numbers written have as many
\* bits as the client says
THEOREM WhatIsWrittenStays == ASSUME NumbersFit PROVE Spec => WrittenStays
<1>1. Init => IInv /\ DataInv
  BY InvariantHolds, DataInvHolds
<1>2. IInv /\ DataInv /\ [Next]_vars => IInv' /\ DataInv'
  BY InvariantHolds, DataInvHolds
<1>3. IInv /\ DataInv /\ [Next]_vars
        => [\A i \in 0..(BufferBits - 1) :
              data'[i] # data[i] =>
                \/ i \in bitpos..(bitpos' - 1)
                \/ NamedBlockEnd
                   /\ i \in Top.position_for_write..(Top.bitpos_at_enter - 1)]_vars
  BY StepStays
<1>4. QED BY <1>1, <1>2, <1>3, PTL DEF Spec, WrittenStays

----------------------------------------------------------------------------
\* what is written into the buffer are bits
Bits == data \in [0..(BufferBits - 1) -> {0, 1}]

LEMMA BitsPut ==
  ASSUME Bits, NEW pos \in Nat, NEW size \in 0..(4 * ByteBits), NEW val \in Nat
  PROVE  Put(data, pos, size, val) \in [0..(BufferBits - 1) -> {0, 1}]
<1>1. ASSUME NEW k \in 0..(size - 1) PROVE Bit(val, k) \in {0, 1}
  <2>1. k \in 0..(5 * ByteBits)
    BY ByteAssumption
  <2>2. PICK d : d = 2^k
    OBVIOUS
  <2>3. d \in Nat /\ d >= 1
    BY <2>1, <2>2, Powers
  <2>4. val \div d \in Nat
    BY <2>3
  <2>5. (val \div d) % 2 \in {0, 1}
    BY <2>4
  <2>6. QED BY <2>2, <2>5 DEF Bit
<1>2. ASSUME NEW i \in DOMAIN data
      PROVE  Put(data, pos, size, val)[i] \in {0, 1}
  <2>1. data[i] \in {0, 1} /\ i \in Int
    BY <1>2, Sizes DEF Bits
  <2>2. PICK new : new = Bit(val, pos + size - 1 - i)
    OBVIOUS
  <2>3. i \in pos..(pos + size - 1) => new \in {0, 1}
    <3>1. i \in pos..(pos + size - 1) => pos + size - 1 - i \in 0..(size - 1)
      BY <2>1
    <3>2. QED BY <1>1, <2>2, <3>1
  <2>4. \/ i \in pos..(pos + size - 1) /\ Put(data, pos, size, val)[i] = new
        \/ Put(data, pos, size, val)[i] = 1
        \/ Put(data, pos, size, val)[i] = data[i]
    BY <1>2, <2>2 DEF Put
  <2>5. QED BY <2>1, <2>3, <2>4
<1>3. Put(data, pos, size, val) = [i \in DOMAIN data |-> Put(data, pos, size, val)[i]]
  BY DEF Put
<1>4. DOMAIN data = 0..(BufferBits - 1)
  BY DEF Bits
<1>5. QED BY <1>2, <1>3, <1>4

\* the message that is constructed has the types it should have
OutTypes == IInv /\ TypeOK

LEMMA OutTyped ==
  /\ Init => OutTypes
  /\ OutTypes /\ [Next]_vars => OutTypes'
<1>1. ASSUME Init PROVE OutTypes
  <2>1. IInv
    BY <1>1, InvariantHolds
  <2>2. data \in [0..(BufferBits - 1) -> {0, 1}] /\ thrown = FALSE /\ returned = 0
    BY <1>1 DEF Init
  <2>3. QED BY <2>1, <2>2 DEF OutTypes, TypeOK, IInv
<1>2. ASSUME OutTypes, [Next]_vars PROVE OutTypes'
  <2>1. IInv /\ IInv'
    BY <1>2, InvariantHolds DEF OutTypes
  <2>2. /\ Bits /\ thrown \in BOOLEAN /\ returned \in Nat
        /\ data \in [0..(BufferBits - 1) -> {0, 1}]
    BY <1>2 DEF OutTypes, TypeOK, Bits
  <2>3. /\ data' \in [0..(BufferBits - 1) -> {0, 1}]
        /\ thrown' \in BOOLEAN /\ returned' \in Nat
    <3>1. ASSUME NEW f \in Fields, Write(f.w, f.size, f.val)
          PROVE  data' \in [0..(BufferBits - 1) -> {0, 1}]
      <4>1. f.val \in Nat /\ f.size \in 0..(4 * ByteBits)
        BY OutAssumption, ByteAssumption DEF Field
      <4>2. bitpos \in Nat
        BY <2>1 DEF IInv, Positions
      <4>3. data' = Put(data, bitpos, f.size, f.val)
        BY <3>1 DEF Write
      <4>4. QED BY <2>2, <4>1, <4>2, <4>3, BitsPut
    <3>2. CASE EndBlock
      <4>1. PICK pos, size, val : pos = Top.position_for_write /\ size = LengthField
                                  /\ val = BlockBits \div ByteBits
        OBVIOUS
      <4>2. /\ data' = Put(data, pos, size, val) /\ returned' = val
            /\ thrown' = thrown
        BY <3>2, <4>1 DEF EndBlock
      <4>3. val \in Nat /\ size \in LengthBits
        BY <2>1, <3>2, <4>1, EndLength
      <4>4. size \in 0..(4 * ByteBits)
        BY <4>3, OutAssumption, ByteAssumption
      <4>5. pos \in Nat
        BY <2>1, <3>2, <4>1, EndFacts DEF EndBlock, Scope
      <4>6. data' \in [0..(BufferBits - 1) -> {0, 1}]
        BY <2>2, <4>2, <4>3, <4>4, <4>5, BitsPut
      <4>7. QED BY <2>2, <4>2, <4>3, <4>6
    <3>3. CASE \/ \E f \in Fields : RefuseWrite(f.w, f.size)
               \/ \E n \in LengthBits : RefuseBegin(n)
               \/ RefuseLength \/ RefuseEnd
      BY <2>2, <3>3 DEF RefuseWrite, RefuseBegin, RefuseLength, RefuseEnd
    <3>4. CASE (\E n \in LengthBits : BeginBlock(n)) \/ UNCHANGED vars
      BY <2>2, <3>4 DEF BeginBlock, vars
    <3>5. ASSUME NEW f \in Fields, Write(f.w, f.size, f.val)
          PROVE  thrown' = thrown /\ returned' = returned
      BY <3>5 DEF Write
    <3>6. QED BY <1>2, <2>2, <3>1, <3>2, <3>3, <3>4, <3>5
          DEF Next, Uint, NamedBlockBegin, NamedBlockEnd
  <2>4. QED BY <2>1, <2>3 DEF OutTypes, TypeOK, IInv
<1>3. QED BY <1>1, <1>2

\* obCtx of inc/io.h: whatever is called, every variable has its type
THEOREM TypeCorrect == Spec => []TypeOK
<1>1. OutTypes => TypeOK
  BY DEF OutTypes
<1>2. QED BY <1>1, OutTyped, PTL DEF Spec
============================================================================
