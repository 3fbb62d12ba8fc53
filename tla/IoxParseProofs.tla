--------------------------- MODULE IoxParseProofs ---------------------------
(* What an iox object that parses does, for every message and every text.    *)
(* First what BinaryIn does for every message, every width of a byte and     *)
(* every sequence of calls, however deep its blocks are nested; then the     *)
(* same of a text.                                                           *)
EXTENDS IoxParse, SequenceTheorems, TLAPS

Scope == [bitpos_at_enter : MessageBits, bitlimit_at_enter : MessageBits]

LEMMA Sizes == /\ ByteBits \in Nat \ {0}
               /\ MessageBytes * ByteBits \in Nat
               /\ \A f \in Fields : f.size \in Nat
               /\ \A n \in LengthBits : n \in Nat
BY ByteAssumption, InAssumption DEF Field

LEMMA MessageFits ==
  ASSUME NEW size \in 0..MessageBytes
  PROVE  size * ByteBits \in MessageBits
<1>1. MessageBytes \in Nat /\ ByteBits \in Nat
  BY ByteAssumption, InAssumption
<1>2. QED BY <1>1 DEF MessageBits

\* a length counted in bits and divided again is the length
LEMMA WholeBytes ==
  ASSUME NEW start \in Nat, NEW length \in Nat
  PROVE  /\ start + length * ByteBits \in Nat
         /\ start + length * ByteBits >= start
         /\ (start + length * ByteBits - start) \div ByteBits = length
<1>1. ByteBits \in Nat \ {0}
  BY Sizes
<1>2. /\ start + length * ByteBits \in Nat
      /\ start + length * ByteBits >= start
  BY <1>1
<1>3. (length * ByteBits) \div ByteBits = length
  BY <1>1
<1>4. start + length * ByteBits - start = length * ByteBits
  BY <1>1
<1>5. QED BY <1>2, <1>3, <1>4

LEMMA Pushed ==
  ASSUME NEW T, NEW s \in Seq(T), NEW e \in T
  PROVE  /\ Append(s, e) \in Seq(T)
         /\ Len(Append(s, e)) = Len(s) + 1
         /\ \A i \in 1..Len(s) : Append(s, e)[i] = s[i]
         /\ Append(s, e)[Len(s) + 1] = e
BY AppendProperties

LEMMA Popped ==
  ASSUME NEW T, NEW s \in Seq(T), s # <<>>
  PROVE  /\ Len(s) \in Nat /\ Len(s) >= 1
         /\ s[Len(s)] \in T
         /\ Outer(s) \in Seq(T)
         /\ Len(Outer(s)) = Len(s) - 1
         /\ \A i \in 1..(Len(s) - 1) : Outer(s)[i] = s[i]
<1>1. Len(s) \in Nat /\ Len(s) >= 1
  BY LenProperties, EmptySeq
<1>2. \A i \in 1..Len(s) : s[i] \in T
  BY ElementOfSeq
<1>3. \A i \in 1..(Len(s) - 1) : s[i] \in T
  BY <1>1, <1>2
<1> DEFINE m == Len(s) - 1
           r == SubSeq(s, 1, m)
<1>4. m \in Int /\ m >= 0
  BY <1>1
<1>5. r \in Seq(T) /\ Len(r) = m /\ \A i \in 1..m : r[i] = s[i]
  <2> HIDE DEF m
  <2>1. \A i \in 1..m : s[i] \in T
    BY <1>3 DEF m
  <2>2. /\ r \in Seq(T)
        /\ Len(r) = IF 1 <= m THEN m - 1 + 1 ELSE 0
        /\ \A i \in 1..(m - 1 + 1) : r[i] = s[1 + i - 1]
    BY <1>4, <2>1, SubSeqProperties
  <2>3. m - 1 + 1 = m /\ \A i \in 1..m : 1 + i - 1 = i
    BY <1>4
  <2> HIDE DEF r
  <2>4. Len(r) = m
    BY <1>4, <2>2, <2>3
  <2>5. \A i \in 1..m : r[i] = s[i]
    BY <2>2, <2>3
  <2>6. QED BY <2>2, <2>4, <2>5
<1>6. r = Outer(s) /\ m = Len(s) - 1
  BY DEF Outer
<1>7. QED BY <1>1, <1>2, <1>5, <1>6

----------------------------------------------------------------------------
\* a call that reads stays inside the block
LEMMA ReadStays ==
  ASSUME TypeOK, LimitsNest, NEW w, NEW size \in Nat, NEW val,
         Read(w, size, val)
  PROVE  bitpos' \in MessageBits /\ bitpos' <= bitlimit
<1>1. /\ bitpos \in 0..(MessageBytes * ByteBits)
      /\ bitlimit \in 0..(MessageBytes * ByteBits)
      /\ bitpos <= bitlimit
      /\ MessageBytes * ByteBits \in Nat
  BY Sizes DEF TypeOK, LimitsNest, MessageBits
<1>2. bitpos' = bitpos \/ bitpos' = bitpos + size
  BY DEF Read
<1>3. bitpos + size <= bitlimit
  BY DEF Read, Readable
<1>4. QED BY <1>1, <1>2, <1>3 DEF MessageBits

\* the invariant looks at bitpos, the limits and the lengths only
LEMMA SameBlocks ==
  ASSUME IInv,
         bitpos' \in MessageBits, bitpos' <= bitlimit,
         UNCHANGED <<bitlimit, scope_stack, announced>>,
         thrown' \in BOOLEAN, returned' \in Nat
  PROVE  IInv'
<1>1. UNCHANGED bitlimit /\ UNCHANGED scope_stack /\ UNCHANGED announced
  OBVIOUS
<1>2. TypeOK'
  BY <1>1 DEF IInv, TypeOK
<1>3. LimitsNest'
  BY <1>1 DEF IInv, LimitsNest, InnerLimit
<1>4. LimitsAnnounced'
  BY <1>1 DEF IInv, LimitsAnnounced, InnerLimit
<1>5. QED BY <1>2, <1>3, <1>4 DEF IInv

LEMMA BeginStep ==
  ASSUME IInv, NEW size \in LengthBits, BeginBlock(size)
  PROVE  IInv'
<1>1. PICK length \in 0..(2^size - 1) :
        /\ Read(4 * ByteBits, size, length)
        /\ HasBlock(bitpos', length)
        /\ bitlimit' = bitpos' + length * ByteBits
        /\ scope_stack' = Append(scope_stack, [bitpos_at_enter |-> bitpos',
                                               bitlimit_at_enter |-> bitlimit])
        /\ announced' = Append(announced, length)
        /\ UNCHANGED <<data, thrown, returned>>
  BY DEF BeginBlock
<1>2. TypeOK /\ LimitsNest /\ LimitsAnnounced
  BY DEF IInv
<1>3. length \in Nat
  OBVIOUS
<1>4. bitpos' \in MessageBits /\ bitpos' <= bitlimit
  BY <1>1, <1>2, ReadStays, Sizes
<1>5. bitpos' \in Nat /\ bitlimit \in MessageBits
  BY <1>2, <1>4, Sizes DEF TypeOK, MessageBits
<1>6. bitpos' + length * ByteBits <= bitlimit
  BY <1>1 DEF HasBlock
<1>7. bitlimit' \in MessageBits /\ bitpos' <= bitlimit' /\ bitlimit' <= bitlimit
  <2>1. bitlimit' \in Nat /\ bitlimit' >= bitpos' /\ bitlimit' <= bitlimit
    BY <1>1, <1>3, <1>5, <1>6, WholeBytes
  <2>2. QED BY <2>1, <1>5, Sizes DEF MessageBits
<1> DEFINE e == [bitpos_at_enter |-> bitpos', bitlimit_at_enter |-> bitlimit]
           n == Len(scope_stack)
<1>8. /\ scope_stack \in Seq(Scope) /\ e \in Scope /\ n \in Nat
      /\ announced \in Seq(Nat) /\ Len(announced) = n
  BY <1>2, <1>4, <1>5, LenProperties DEF TypeOK, LimitsAnnounced, Scope
<1>9. /\ scope_stack' \in Seq(Scope) /\ Len(scope_stack') = n + 1
      /\ \A i \in 1..n : scope_stack'[i] = scope_stack[i]
      /\ scope_stack'[n + 1] = e
  BY <1>1, <1>8, Pushed
<1>10. /\ announced' \in Seq(Nat) /\ Len(announced') = n + 1
       /\ \A i \in 1..n : announced'[i] = announced[i]
       /\ announced'[n + 1] = length
  BY <1>1, <1>3, <1>8, Pushed
<1>11. TypeOK'
  BY <1>1, <1>2, <1>4, <1>7, <1>9, <1>10 DEF TypeOK, Scope
\* the limits inside the blocks already open are what they were
<1>12. \A i \in 1..n : InnerLimit(i)' = InnerLimit(i)
  BY <1>8, <1>9 DEF InnerLimit
<1>13. \A i \in 1..(n + 1) : i = n + 1 => InnerLimit(i)' = bitlimit'
  BY <1>9 DEF InnerLimit
<1>14. LimitsNest'
  <2>1. \A i \in 1..n : InnerLimit(i)' <= scope_stack'[i].bitlimit_at_enter
    BY <1>2, <1>9, <1>12 DEF LimitsNest
  <2>2. \A i \in 1..(n + 1) :
          i = n + 1 => InnerLimit(i)' <= scope_stack'[i].bitlimit_at_enter
    BY <1>7, <1>9, <1>13
  <2>3. QED BY <1>7, <1>8, <1>9, <2>1, <2>2 DEF LimitsNest
<1>15. LimitsAnnounced'
  <2>1. \A i \in 1..n :
          InnerLimit(i)' = scope_stack'[i].bitpos_at_enter + announced'[i] * ByteBits
    BY <1>2, <1>9, <1>10, <1>12 DEF LimitsAnnounced
  <2>2. \A i \in 1..(n + 1) : i = n + 1 =>
          InnerLimit(i)' = scope_stack'[i].bitpos_at_enter + announced'[i] * ByteBits
    BY <1>1, <1>9, <1>10, <1>13
  <2>3. QED BY <1>8, <1>9, <1>10, <2>1, <2>2 DEF LimitsAnnounced
<1>16. QED BY <1>11, <1>14, <1>15 DEF IInv

\* what is known of the innermost block when it ends
LEMMA EndFacts ==
  ASSUME IInv, EndBlock
  PROVE  /\ scope_stack \in Seq(Scope) /\ scope_stack # <<>>
         /\ announced \in Seq(Nat) /\ announced # <<>>
         /\ Len(announced) = Len(scope_stack)
         /\ Top \in Scope
         /\ announced[Len(announced)] \in Nat
         /\ bitpos = bitlimit
         /\ bitlimit = Top.bitpos_at_enter + announced[Len(announced)] * ByteBits
         /\ bitlimit <= Top.bitlimit_at_enter
<1> DEFINE n == Len(scope_stack)
<1>1. /\ scope_stack \in Seq(Scope) /\ scope_stack # <<>>
      /\ announced \in Seq(Nat) /\ Len(announced) = n
  BY DEF IInv, TypeOK, LimitsAnnounced, EndBlock, BlockDone, Scope
<1>2. n \in Nat /\ n >= 1 /\ Top \in Scope
  BY <1>1, Popped DEF Top
<1>3. announced # <<>>
  BY <1>1, <1>2, EmptySeq
<1>4. announced[n] \in Nat
  BY <1>1, <1>3, Popped
<1>5. bitpos = bitlimit
  <2>1. bitpos >= bitlimit /\ bitpos <= bitlimit
    BY DEF EndBlock, BlockDone, IInv, LimitsNest
  <2>2. bitpos \in Int /\ bitlimit \in Int
    BY Sizes DEF IInv, TypeOK, MessageBits
  <2>3. QED BY <2>1, <2>2
<1>6. InnerLimit(n) = bitlimit /\ n \in 1..n
  BY <1>2 DEF InnerLimit
<1>7. bitlimit = Top.bitpos_at_enter + announced[n] * ByteBits
  BY <1>6 DEF IInv, LimitsAnnounced, Top
<1>8. bitlimit <= Top.bitlimit_at_enter
  BY <1>6 DEF IInv, LimitsNest, Top
<1>9. QED BY <1>1, <1>2, <1>3, <1>4, <1>5, <1>7, <1>8

\* a block that ends has given what its length announced
LEMMA EndReturns ==
  ASSUME IInv, EndBlock
  PROVE  returned' = announced[Len(announced)]
<1>1. /\ Top \in Scope /\ announced[Len(announced)] \in Nat
      /\ bitpos = Top.bitpos_at_enter + announced[Len(announced)] * ByteBits
  BY EndFacts
<1>2. Top.bitpos_at_enter \in Nat
  BY <1>1, Sizes DEF Scope, MessageBits
<1>3. returned' = (bitpos - Top.bitpos_at_enter) \div ByteBits
  BY DEF EndBlock, BlockBits
<1>4. \A start, length \in Nat :
        bitpos = start + length * ByteBits => (bitpos - start) \div ByteBits = length
  <2>1. ASSUME NEW start \in Nat, NEW length \in Nat,
               bitpos = start + length * ByteBits
        PROVE  (bitpos - start) \div ByteBits = length
    <3>1. bitpos \in Nat /\ ByteBits \in Nat \ {0}
      BY <2>1, Sizes
    <3>2. bitpos - start = length * ByteBits
      BY <2>1, <3>1
    <3>3. (length * ByteBits) \div ByteBits = length
      BY <3>1
    <3>4. QED BY <3>2, <3>3
  <2>2. QED BY <2>1
<1>5. QED BY <1>1, <1>2, <1>3, <1>4

LEMMA EndStep ==
  ASSUME IInv, EndBlock
  PROVE  IInv'
<1> DEFINE n == Len(scope_stack)
<1>1. /\ scope_stack \in Seq(Scope) /\ scope_stack # <<>>
      /\ announced \in Seq(Nat) /\ announced # <<>> /\ Len(announced) = n
      /\ Top \in Scope /\ announced[Len(announced)] \in Nat
      /\ bitpos = bitlimit /\ bitlimit <= Top.bitlimit_at_enter
  BY EndFacts
<1>2. /\ bitlimit' = Top.bitlimit_at_enter /\ bitpos' = bitpos /\ thrown' = thrown
      /\ scope_stack' = Outer(scope_stack) /\ announced' = Outer(announced)
  BY DEF EndBlock
<1>3. /\ n \in Nat /\ n >= 1
      /\ scope_stack' \in Seq(Scope) /\ Len(scope_stack') = n - 1
      /\ \A i \in 1..(n - 1) : scope_stack'[i] = scope_stack[i]
  BY <1>1, <1>2, Popped
<1>4. /\ announced' \in Seq(Nat) /\ Len(announced') = n - 1
      /\ \A i \in 1..(n - 1) : announced'[i] = announced[i]
  BY <1>1, <1>2, Popped
<1>5. bitlimit' \in MessageBits
  BY <1>1, <1>2 DEF Scope
<1>6. returned' \in Nat
  BY <1>1, EndReturns
<1>7. TypeOK'
  BY <1>2, <1>3, <1>4, <1>5, <1>6 DEF IInv, TypeOK, Scope
<1>8. \A i \in 1..(n - 1) : InnerLimit(i)' = InnerLimit(i)
  BY <1>2, <1>3 DEF InnerLimit, Top
<1>9. LimitsNest'
  <2>1. \A i \in 1..(n - 1) : InnerLimit(i) <= scope_stack[i].bitlimit_at_enter
    BY <1>3 DEF IInv, LimitsNest
  <2>2. QED BY <1>1, <1>2, <1>3, <1>8, <2>1 DEF LimitsNest
<1>10. LimitsAnnounced'
  <2>1. \A i \in 1..(n - 1) :
          InnerLimit(i) = scope_stack[i].bitpos_at_enter + announced[i] * ByteBits
    BY <1>3 DEF IInv, LimitsAnnounced
  <2>2. QED BY <1>3, <1>4, <1>8, <2>1 DEF LimitsAnnounced
<1>11. QED BY <1>7, <1>9, <1>10 DEF IInv

----------------------------------------------------------------------------
LEMMA InvariantHolds ==
  /\ Init => IInv
  /\ IInv /\ [Next]_vars => IInv'
<1>1. ASSUME Init PROVE IInv
  <2>1. PICK size \in 0..MessageBytes :
          \E bits \in [0..(size * ByteBits - 1) -> {0, 1}] : Start(bits, size)
    BY <1>1 DEF Init
  <2>2. /\ bitpos = 0 /\ bitlimit = size * ByteBits /\ scope_stack = <<>>
        /\ thrown = FALSE /\ returned = 0 /\ announced = <<>>
    BY <2>1 DEF Start
  <2>3. bitlimit \in MessageBits /\ bitpos \in MessageBits /\ bitpos <= bitlimit
    BY <2>2, MessageFits, Sizes DEF MessageBits
  <2>4. scope_stack \in Seq(Scope) /\ announced \in Seq(Nat)
    BY <2>2, EmptySeq
  <2>5. TypeOK
    BY <2>2, <2>3, <2>4 DEF TypeOK, Scope
  <2>6. Len(scope_stack) = 0 /\ Len(announced) = 0 /\ 1..0 = {}
    BY <2>2, EmptySeq
  <2>7. LimitsNest
    BY <2>3, <2>6 DEF LimitsNest
  <2>8. LimitsAnnounced
    BY <2>6 DEF LimitsAnnounced
  <2>9. QED BY <2>5, <2>7, <2>8 DEF IInv
<1>2. ASSUME IInv, [Next]_vars PROVE IInv'
  <2>1. /\ TypeOK /\ LimitsNest
        /\ bitpos \in MessageBits /\ bitpos <= bitlimit
        /\ thrown \in BOOLEAN /\ returned \in Nat
    BY <1>2 DEF IInv, TypeOK, LimitsNest
  <2>2. ASSUME NEW f \in Fields, Uint(f) PROVE IInv'
    <3>1. CASE RefuseRead(f.size)
      BY <1>2, <2>1, <3>1, SameBlocks DEF RefuseRead
    <3>2. CASE \E val \in 0..(2^f.size - 1) :
                 /\ Read(f.w, f.size, val)
                 /\ returned' = val
                 /\ UNCHANGED <<bitlimit, scope_stack, data, thrown, announced>>
      <4>1. PICK val \in 0..(2^f.size - 1) :
              /\ Read(f.w, f.size, val)
              /\ returned' = val
              /\ UNCHANGED <<bitlimit, scope_stack, data, thrown, announced>>
        BY <3>2
      <4>2. bitpos' \in MessageBits /\ bitpos' <= bitlimit
        BY <2>1, <4>1, ReadStays, Sizes
      <4>3. QED BY <1>2, <2>1, <4>1, <4>2, SameBlocks
    <3>3. QED BY <2>2, <3>1, <3>2 DEF Uint
  <2>3. ASSUME NEW f \in Fields, UintReq(f) PROVE IInv'
    <3>1. CASE RefuseRead(f.size)
      BY <1>2, <2>1, <3>1, SameBlocks DEF RefuseRead
    <3>2. CASE \E val \in 0..(2^f.size - 1) :
                 /\ Read(f.w, f.size, val)
                 /\ thrown' = (val # f.val)
                 /\ UNCHANGED <<bitlimit, scope_stack, data, returned, announced>>
      <4>1. PICK val \in 0..(2^f.size - 1) :
              /\ Read(f.w, f.size, val)
              /\ thrown' = (val # f.val)
              /\ UNCHANGED <<bitlimit, scope_stack, data, returned, announced>>
        BY <3>2
      <4>2. bitpos' \in MessageBits /\ bitpos' <= bitlimit
        BY <2>1, <4>1, ReadStays, Sizes
      <4>3. QED BY <1>2, <2>1, <4>1, <4>2, SameBlocks
    <3>3. QED BY <2>3, <3>1, <3>2 DEF UintReq
  <2>4. ASSUME NEW size \in LengthBits, NamedBlockBegin(size) PROVE IInv'
    <3>1. CASE BeginBlock(size)
      BY <1>2, <3>1, BeginStep
    <3>2. CASE RefuseBegin(size)
      <4>1. PICK length \in 0..(2^size - 1) :
              /\ Read(4 * ByteBits, size, length)
              /\ thrown' = TRUE
              /\ UNCHANGED <<bitlimit, scope_stack, data, returned, announced>>
        BY <3>2 DEF RefuseBegin
      <4>2. bitpos' \in MessageBits /\ bitpos' <= bitlimit
        BY <2>1, <4>1, ReadStays, Sizes
      <4>3. QED BY <1>2, <2>1, <4>1, <4>2, SameBlocks
    <3>3. CASE RefuseRead(size)
      BY <1>2, <2>1, <3>3, SameBlocks DEF RefuseRead
    <3>4. QED BY <2>4, <3>1, <3>2, <3>3 DEF NamedBlockBegin
  <2>5. CASE EndBlock
    BY <1>2, <2>5, EndStep
  <2>6. CASE RefuseEnd
    BY <1>2, <2>1, <2>6, SameBlocks DEF RefuseEnd
  <2>7. CASE UNCHANGED vars
    BY <1>2, <2>1, <2>7, SameBlocks DEF vars
  <2>8. QED BY <1>2, <2>2, <2>3, <2>4, <2>5, <2>6, <2>7 DEF Next, NamedBlockEnd
<1>3. QED BY <1>1, <1>2

\* Type correctness: no position and no limit leaves the message
THEOREM TypeCorrect == Spec => []TypeOK
<1>1. Init => IInv
  BY InvariantHolds
<1>2. IInv /\ [Next]_vars => IInv'
  BY InvariantHolds
<1>3. IInv => TypeOK
  BY DEF IInv
<1>4. QED BY <1>1, <1>2, <1>3, PTL DEF Spec

\* inc/io.h:148: nothing is read past the limit of a block and no block ends
\* past the one around it, whatever lengths the message claims
THEOREM LimitsAlwaysNest == Spec => []LimitsNest
<1>1. Init => IInv
  BY InvariantHolds
<1>2. IInv /\ [Next]_vars => IInv'
  BY InvariantHolds
<1>3. IInv => LimitsNest
  BY DEF IInv
<1>4. QED BY <1>1, <1>2, <1>3, PTL DEF Spec

\* inc/io.h:559: a block that ends gave exactly the bytes that its length
\* announced, for blocks nested to any depth
THEOREM BlocksAreAsAnnounced == Spec => ExactlyAsAnnounced
<1>1. Init => IInv
  BY InvariantHolds
<1>2. IInv /\ [Next]_vars => IInv'
  BY InvariantHolds
<1>3. IInv /\ [Next]_vars
        => [NamedBlockEnd /\ ~thrown' => returned' = announced[Len(announced)]]_vars
  <2>1. ASSUME IInv, NamedBlockEnd, ~thrown'
        PROVE  returned' = announced[Len(announced)]
    <3>1. EndBlock
      BY <2>1 DEF NamedBlockEnd, RefuseEnd
    <3>2. QED BY <2>1, <3>1, EndReturns
  <2>2. QED BY <2>1
<1>4. QED BY <1>1, <1>2, <1>3, PTL DEF Spec, ExactlyAsAnnounced

----------------------------------------------------------------------------
(* a text *)

TextScope == [bitpos_at_enter : Nat, bitlimit_at_enter : 0..TextBits]
Text == Seq(Tokens \cup {R!Minus})

\* what is true of the text context between two calls
TextInv == /\ R!LimitsNest
           /\ text_bitpos \in Nat
           /\ text_bitlimit \in 0..TextBits
           /\ text_scope_stack \in Seq(TextScope)
           /\ unread \in Text

LEMMA Numbers ==
  ASSUME unread \in Text, R!NextIs("number")
  PROVE  /\ Head(unread) \in Tokens \/ Head(unread) = R!Minus
         /\ Tail(unread) \in Text
         /\ R!NumberRead \in Nat
         /\ R!AfterNumber \in Text
<1>1. unread # <<>> /\ Head(unread).kind = "number"
  BY DEF R!NextIs
<1>2. Head(unread) \in Tokens \cup {R!Minus} /\ Tail(unread) \in Text
  BY <1>1, HeadTailProperties DEF Text
<1>3. Head(unread) \in Tokens
  BY <1>1, <1>2 DEF R!Minus
<1>4. R!NumberRead \in Nat
  BY <1>1, <1>3, TokensAssumption DEF R!NumberRead
<1>5. <<R!Minus>> \o Tail(unread) \in Text
  BY <1>2 DEF Text
<1>6. QED BY <1>2, <1>3, <1>4, <1>5 DEF R!AfterNumber

LEMMA PastStays ==
  ASSUME NEW kind, NEW t \in Text
  PROVE  R!Past(kind, t) \in Text
<1>1. t # <<>> => Tail(t) \in Text
  BY HeadTailProperties DEF Text
<1>2. QED BY <1>1 DEF R!Past

----------------------------------------------------------------------------
LEMMA SameTextBlocks ==
  ASSUME TextInv, text_bitpos' \in Nat, unread' \in Text,
         UNCHANGED <<text_bitlimit, text_scope_stack>>
  PROVE  TextInv'
BY DEF TextInv, R!LimitsNest

LEMMA TextReads ==
  ASSUME TextInv, NEW name, NEW size \in Nat, R!Read(name, size)
  PROVE  /\ text_bitpos' \in Nat
         /\ R!NumberRead \in Nat
         /\ R!AfterNumber \in Text
<1>1. R!NextIs("number") /\ text_bitpos' = text_bitpos + size
  BY DEF R!Read, R!Readable
<1>2. text_bitpos \in Nat /\ unread \in Text
  BY DEF TextInv
<1>3. QED BY <1>1, <1>2, Numbers

LEMMA TextBeginStep ==
  ASSUME TextInv, NEW size \in LengthBits, R!BeginBlock(size)
  PROVE  TextInv'
<1>1. /\ R!Read(BlockName, size)
      /\ R!HasBlock(text_bitpos', R!NumberRead)
      /\ text_bitlimit' = text_bitpos' + R!NumberRead * ByteBits
      /\ unread' = R!Past("{", R!AfterNumber)
      /\ text_scope_stack' = Append(text_scope_stack,
                                    [bitpos_at_enter |-> text_bitpos',
                                     bitlimit_at_enter |-> text_bitlimit])
  BY DEF R!BeginBlock
<1>2. text_bitpos' \in Nat /\ R!NumberRead \in Nat /\ R!AfterNumber \in Text
  BY <1>1, Sizes, TextReads
<1>3. unread' \in Text
  BY <1>1, <1>2, PastStays
<1>4. text_bitpos' + R!NumberRead * ByteBits <= text_bitlimit
  BY <1>1 DEF R!HasBlock
<1>5. text_bitlimit' \in 0..TextBits /\ text_bitlimit' <= text_bitlimit
  <2>1. text_bitlimit' \in Nat
    BY <1>1, <1>2, WholeBytes
  <2>2. text_bitlimit \in 0..TextBits /\ TextBits \in Nat
    BY TextAssumption DEF TextInv
  <2>3. text_bitlimit' <= text_bitlimit
    BY <1>1, <1>4
  <2>4. QED BY <2>1, <2>2, <2>3
<1> DEFINE e == [bitpos_at_enter |-> text_bitpos', bitlimit_at_enter |-> text_bitlimit]
           n == Len(text_scope_stack)
<1>6. text_scope_stack \in Seq(TextScope) /\ e \in TextScope /\ n \in Nat
  BY <1>2, LenProperties DEF TextInv, TextScope
<1>7. /\ text_scope_stack' \in Seq(TextScope) /\ Len(text_scope_stack') = n + 1
      /\ \A i \in 1..n : text_scope_stack'[i] = text_scope_stack[i]
      /\ text_scope_stack'[n + 1] = e
  <2>1. text_scope_stack' = Append(text_scope_stack, e)
    BY <1>1
  <2> HIDE DEF e
  <2>2. /\ Append(text_scope_stack, e) \in Seq(TextScope)
        /\ Len(Append(text_scope_stack, e)) = n + 1
        /\ \A i \in 1..n : Append(text_scope_stack, e)[i] = text_scope_stack[i]
        /\ Append(text_scope_stack, e)[n + 1] = e
    BY <1>6, Pushed
  <2>3. QED BY <2>1, <2>2
<1>8. R!LimitsNest'
  <2>1. \A i \in 1..n :
          (IF i + 1 = n + 1 THEN text_bitlimit
           ELSE text_scope_stack[i + 1].bitlimit_at_enter)
            <= text_scope_stack[i].bitlimit_at_enter
    BY <1>6 DEF TextInv, R!LimitsNest
  <2>2. \A i \in 1..n :
          text_scope_stack'[i + 1].bitlimit_at_enter
            <= text_scope_stack'[i].bitlimit_at_enter
    BY <1>6, <1>7, <2>1
  <2>3. text_bitlimit' <= text_scope_stack'[n + 1].bitlimit_at_enter
    BY <1>5, <1>7
  <2>4. QED BY <1>6, <1>7, <2>2, <2>3 DEF R!LimitsNest
<1>9. QED BY <1>2, <1>3, <1>5, <1>7, <1>8 DEF TextInv

LEMMA TextEndStep ==
  ASSUME TextInv, R!EndBlock
  PROVE  TextInv'
<1> DEFINE n == Len(text_scope_stack)
<1>1. /\ text_scope_stack # <<>>
      /\ unread' = R!Past("}", unread)
      /\ text_bitlimit' = text_scope_stack[n].bitlimit_at_enter
      /\ text_scope_stack' = Outer(text_scope_stack)
      /\ UNCHANGED text_bitpos
  BY DEF R!EndBlock, R!Top, Outer
<1>2. text_scope_stack \in Seq(TextScope) /\ unread \in Text
  BY DEF TextInv
<1>3. /\ n \in Nat /\ n >= 1 /\ text_scope_stack[n] \in TextScope
      /\ text_scope_stack' \in Seq(TextScope) /\ Len(text_scope_stack') = n - 1
      /\ \A i \in 1..(n - 1) : text_scope_stack'[i] = text_scope_stack[i]
  BY <1>1, <1>2, Popped
<1>4. unread' \in Text
  BY <1>1, <1>2, PastStays
<1>5. text_bitlimit' \in 0..TextBits
  BY <1>1, <1>3 DEF TextScope
<1>6. R!LimitsNest'
  <2>1. \A i \in 1..(n - 1) :
          text_scope_stack[i + 1].bitlimit_at_enter
            <= text_scope_stack[i].bitlimit_at_enter
    BY <1>3 DEF TextInv, R!LimitsNest
  <2>2. \A i \in 1..(n - 1) : i # n - 1 =>
          text_scope_stack'[i + 1].bitlimit_at_enter
            <= text_scope_stack'[i].bitlimit_at_enter
    BY <1>3, <2>1
  <2>3. \A i \in 1..(n - 1) : i = n - 1 =>
          text_bitlimit' <= text_scope_stack'[i].bitlimit_at_enter
    <3>1. n - 1 + 1 = n
      BY <1>3
    <3>2. \A i \in 1..(n - 1) : i = n - 1 =>
            text_scope_stack[n].bitlimit_at_enter
              <= text_scope_stack[i].bitlimit_at_enter
      BY <2>1, <3>1
    <3>3. QED BY <1>1, <1>3, <3>2
  <2>4. QED BY <1>3, <2>2, <2>3 DEF R!LimitsNest
<1>7. QED BY <1>1, <1>3, <1>4, <1>5, <1>6 DEF TextInv

----------------------------------------------------------------------------
LEMMA TextCallKeeps ==
  ASSUME TextInv, ParseTextCall
  PROVE  TextInv'
<1>1. text_bitpos \in Nat /\ unread \in Text
  BY DEF TextInv
<1>2. ASSUME NEW name, NEW size, R!RefuseRead(name, size) PROVE TextInv'
  BY <1>1, <1>2, SameTextBlocks DEF R!RefuseRead
<1>3. ASSUME NEW f \in Fields, R!Uint(f) \/ R!UintReq(f) PROVE TextInv'
  <2>1. CASE R!RefuseRead(f.name, f.size)
    BY <1>2, <2>1
  <2>2. CASE /\ R!Read(f.name, f.size)
             /\ unread' = R!AfterNumber
             /\ UNCHANGED <<text_bitlimit, text_scope_stack>>
    BY <2>2, Sizes, TextReads, SameTextBlocks
  <2>3. QED BY <1>3, <2>1, <2>2 DEF R!Uint, R!UintReq
<1>4. ASSUME NEW size \in LengthBits, R!NamedBlockBegin(size) PROVE TextInv'
  <2>1. CASE R!BeginBlock(size)
    BY <2>1, TextBeginStep
  <2>2. CASE R!RefuseBegin(size)
    BY <2>2, Sizes, TextReads, SameTextBlocks DEF R!RefuseBegin
  <2>3. CASE R!RefuseRead(BlockName, size)
    BY <1>2, <2>3
  <2>4. QED BY <1>4, <2>1, <2>2, <2>3 DEF R!NamedBlockBegin
<1>5. CASE R!EndBlock
  BY <1>5, TextEndStep
<1>6. CASE R!RefuseEnd
  <2>1. unread' \in Text
    BY <1>1, <1>6, PastStays DEF R!RefuseEnd
  <2>2. QED BY <1>1, <1>6, <2>1, SameTextBlocks DEF R!RefuseEnd
<1>7. QED BY <1>3, <1>4, <1>5, <1>6 DEF ParseTextCall, R!NamedBlockEnd

LEMMA TextStarts ==
  ASSUME NEW tokens \in Seq(Tokens), R!Start(tokens)
  PROVE  TextInv
<1>1. /\ text_bitpos = 0 /\ text_bitlimit = TextBits /\ text_scope_stack = <<>>
      /\ unread = tokens
  BY DEF R!Start
<1>2. unread \in Text
  BY <1>1, SeqMonotonic DEF Text
<1>3. text_scope_stack \in Seq(TextScope) /\ Len(text_scope_stack) = 0 /\ 1..0 = {}
  BY <1>1, EmptySeq
<1>4. text_bitlimit \in 0..TextBits
  BY <1>1, TextAssumption
<1>5. R!LimitsNest
  BY <1>3 DEF R!LimitsNest
<1>6. QED BY <1>1, <1>2, <1>3, <1>4, <1>5 DEF TextInv

\* what the object does to a message is what BinaryIn does; one that parses a
\* text has a message without a byte
LEMMA MessagePart ==
  /\ ParseInit => Init
  /\ [ParseNext]_parse_vars => [Next]_vars
<1>1. CASE Start([i \in 0..-1 |-> 0], 0)
  <2>1. 0 \in 0..MessageBytes
    BY InAssumption
  <2>2. 0 * ByteBits - 1 = -1
    BY Sizes
  <2>3. [i \in 0..-1 |-> 0] \in [0..(0 * ByteBits - 1) -> {0, 1}]
    BY <2>2
  <2>4. Init
    BY <1>1, <2>1, <2>3 DEF Init
  <2>5. QED BY <2>4 DEF ParseNext, ParseBinaryCall, ParseTextCall, parse_vars
<1>2. CASE ~Start([i \in 0..-1 |-> 0], 0)
  BY <1>2 DEF ParseInit, ParseNext, ParseBinaryCall, ParseTextCall, parse_vars
<1>3. QED BY <1>1, <1>2

LEMMA TextInvariantHolds ==
  /\ ParseInit => TextInv
  /\ TextInv /\ [ParseNext]_parse_vars => TextInv'
<1>1. ASSUME ParseInit PROVE TextInv
  <2>1. CASE R!Start(<<>>)
    BY <2>1, EmptySeq, TextStarts
  <2>2. CASE \E n \in 0..MaxTokens : \E tokens \in [1..n -> Tokens] : R!Start(tokens)
    <3>1. PICK n \in 0..MaxTokens : \E tokens \in [1..n -> Tokens] : R!Start(tokens)
      BY <2>2
    <3>2. PICK tokens \in [1..n -> Tokens] : R!Start(tokens)
      BY <3>1
    <3>3. n \in Nat
      BY TextAssumption
    <3>4. tokens \in Seq(Tokens)
      BY <3>3
    <3>5. QED BY <3>2, <3>4, TextStarts
  <2>3. QED BY <1>1, <2>1, <2>2 DEF ParseInit
<1>2. ASSUME TextInv, [ParseNext]_parse_vars PROVE TextInv'
  <2>1. CASE UNCHANGED text
    <3>1. UNCHANGED <<text_bitpos, text_bitlimit, text_scope_stack, unread>>
      BY <2>1 DEF text
    <3>2. QED BY <1>2, <3>1, SameTextBlocks DEF TextInv
  <2>2. CASE ParseTextCall
    BY <1>2, <2>2, TextCallKeeps
  <2>3. QED BY <1>2, <2>1, <2>2 DEF ParseNext, ParseBinaryCall, parse_vars
<1>3. QED BY <1>1, <1>2

\* inc/io.h:767: in every text, whatever lengths it claims, no block is begun
\* that is announced to end after the one around it
THEOREM TextLimitsAlwaysNest == ParseSpec => []TextLimitsNest
<1>1. ParseInit => TextInv
  BY TextInvariantHolds
<1>2. TextInv /\ [ParseNext]_parse_vars => TextInv'
  BY TextInvariantHolds
<1>3. TextInv => TextLimitsNest
  BY DEF TextInv, TextLimitsNest
<1>4. QED BY <1>1, <1>2, <1>3, PTL DEF ParseSpec

\* The object that parses does to a message what BinaryIn does, so that what is
\* proved of BinaryIn holds of the object: blocks of the lengths announced and
\* within one another
THEOREM ParsesAsBinaryIn == ParseSpec => Spec /\ ExactlyAsAnnounced
<1>1. ParseInit => Init
  BY MessagePart
<1>2. [ParseNext]_parse_vars => [Next]_vars
  BY MessagePart
<1>3. ParseSpec => Spec
  BY <1>1, <1>2, PTL DEF ParseSpec, Spec
<1>4. QED BY <1>3, BlocksAreAsAnnounced
=============================================================================
