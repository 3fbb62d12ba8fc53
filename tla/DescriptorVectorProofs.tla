----------------------- MODULE DescriptorVectorProofs -----------------------
(* What DescriptorVector does for any number of objects, addresses and       *)
(* descriptors.                                                              *)
EXTENDS DescriptorVector, SequenceTheorems, TLAPS

Vectors == Seq(Seq(Addresses))

\* the j-th pointer of the i-th vector is a
Holds(vs, i, j, a) == i \in 1..Len(vs) /\ j \in 1..Len(vs[i]) /\ vs[i][j] = a

\* no two places hold the same pointer
Distinct(vs) == \A i, j, k, l, a : Holds(vs, i, j, a) /\ Holds(vs, k, l, a) => i = k /\ j = l

----------------------------------------------------------------------------
LEMMA VectorsAre ==
  ASSUME NEW vs \in Vectors
  PROVE  /\ Len(vs) \in Nat /\ DOMAIN vs = 1..Len(vs)
         /\ \A i \in 1..Len(vs) : /\ vs[i] \in Seq(Addresses)
                                  /\ Len(vs[i]) \in Nat
                                  /\ DOMAIN vs[i] = 1..Len(vs[i])
                                  /\ \A j \in 1..Len(vs[i]) : vs[i][j] \in Addresses
BY LenProperties, ElementOfSeq DEF Vectors

LEMMA InPlaces ==
  ASSUME NEW vs \in Vectors
  PROVE  /\ \A p \in Places(vs) : /\ p[1] \in 1..Len(vs) /\ p[2] \in 1..Len(vs[p[1]])
                                  /\ p = <<p[1], p[2]>>
         /\ \A i, j : <<i, j>> \in Places(vs) <=> i \in 1..Len(vs) /\ j \in 1..Len(vs[i])
BY VectorsAre DEF Places

LEMMA InPointers ==
  ASSUME NEW vs \in Vectors
  PROVE  /\ \A a : a \in Pointers(vs) <=> \E i, j : Holds(vs, i, j, a)
         /\ \A p \in Places(vs) : Holds(vs, p[1], p[2], vs[p[1]][p[2]])
         /\ \A i, j, a : Holds(vs, i, j, a) => <<i, j>> \in Places(vs) /\ a = vs[i][j]
         /\ Pointers(vs) \subseteq Addresses
<1>1. \A i, j, a : Holds(vs, i, j, a) => <<i, j>> \in Places(vs) /\ a = vs[i][j] /\ a \in Addresses
  BY InPlaces, VectorsAre DEF Holds
<1>2. \A p \in Places(vs) : Holds(vs, p[1], p[2], vs[p[1]][p[2]])
  BY InPlaces DEF Holds
<1>3. \A a : a \in Pointers(vs) <=> \E i, j : Holds(vs, i, j, a)
  <2>1. ASSUME NEW a, a \in Pointers(vs) PROVE \E i, j : Holds(vs, i, j, a)
    BY <2>1, <1>2 DEF Pointers
  <2>2. ASSUME NEW a, NEW i, NEW j, Holds(vs, i, j, a) PROVE a \in Pointers(vs)
    <3> DEFINE p == <<i, j>>
    <3>1. p \in Places(vs) /\ a = vs[p[1]][p[2]]
      BY <1>1, <2>2
    <3>2. QED BY <3>1 DEF Pointers
  <2>3. QED BY <2>1, <2>2
<1>4. QED BY <1>1, <1>2, <1>3

----------------------------------------------------------------------------
\* what is held by vectors that are made of others
LEMMA NoneHeld ==
  /\ <<>> \in Vectors /\ <<<<>>>> \in Vectors
  /\ \A i, j, a : ~Holds(<<>>, i, j, a) /\ ~Holds(<<<<>>>>, i, j, a)
<1>1. <<>> \in Vectors /\ <<>> \in Seq(Addresses) /\ Len(<<>>) = 0
  BY EmptySeq DEF Vectors
<1>2. <<<<>>>> \in Vectors /\ Len(<<<<>>>>) = 1 /\ <<<<>>>>[1] = <<>>
  BY <1>1 DEF Vectors
<1>3. QED BY <1>1, <1>2 DEF Holds

LEMMA FirstHolds ==
  ASSUME NEW vs \in Vectors, vs # <<>>
  PROVE  /\ First(vs) \in Vectors /\ Len(First(vs)) = 1 /\ First(vs)[1] = vs[1]
         /\ \A i, j, a : Holds(First(vs), i, j, a) <=> i = 1 /\ Holds(vs, 1, j, a)
<1>1. Len(vs) \in Nat /\ Len(vs) >= 1 /\ \A i \in 1..1 : vs[i] \in Seq(Addresses)
  BY VectorsAre, EmptySeq DEF Vectors
<1>2. First(vs) \in Vectors /\ Len(First(vs)) = 1 /\ First(vs)[1] = vs[1]
  <2>1. /\ First(vs) \in Vectors
        /\ Len(First(vs)) = IF 1 <= 1 THEN 1 - 1 + 1 ELSE 0
        /\ \A i \in 1..(1 - 1 + 1) : First(vs)[i] = vs[1 + i - 1]
    BY <1>1, SubSeqProperties DEF First, Vectors
  <2>2. QED BY <2>1
<1>3. QED BY <1>1, <1>2 DEF Holds

LEMMA LoopHolds ==
  ASSUME NEW vs \in Vectors, vs # <<>>
  PROVE  /\ Loop(vs) \in Vectors /\ Len(Loop(vs)) = Len(vs) - 1
         /\ \A i \in 1..(Len(vs) - 1) : Loop(vs)[i] = vs[i + 1]
         /\ \A i, j, a : Holds(Loop(vs), i, j, a) <=> i \in 1..(Len(vs) - 1) /\ Holds(vs, i + 1, j, a)
<1> DEFINE n == Len(vs)
<1>1. n \in Nat /\ n >= 1 /\ \A i \in 2..n : vs[i] \in Seq(Addresses)
  BY VectorsAre, EmptySeq DEF Vectors
<1>2. /\ Loop(vs) \in Vectors /\ Len(Loop(vs)) = n - 1
      /\ \A i \in 1..(n - 1) : Loop(vs)[i] = vs[i + 1]
  <2>1. /\ Loop(vs) \in Vectors
        /\ Len(Loop(vs)) = IF 2 <= n THEN n - 2 + 1 ELSE 0
        /\ \A i \in 1..(n - 2 + 1) : Loop(vs)[i] = vs[2 + i - 1]
    BY <1>1, SubSeqProperties DEF Loop, Vectors
  <2>2. n - 2 + 1 = n - 1 /\ \A i \in 1..(n - 1) : 2 + i - 1 = i + 1
    BY <1>1
  <2> DEFINE ws == Loop(vs)
  <2> HIDE DEF ws, n
  <2>3. Len(ws) = n - 1
    BY <1>1, <2>1 DEF ws
  <2>4. \A i \in 1..(n - 1) : ws[i] = vs[i + 1]
    BY <2>1, <2>2 DEF ws
  <2>5. QED BY <2>1, <2>3, <2>4 DEF ws
<1>3. QED BY <1>1, <1>2 DEF Holds

\* one more vector without pointers
LEMMA MoreHolds ==
  ASSUME NEW vs \in Vectors
  PROVE  /\ Append(vs, <<>>) \in Vectors /\ Len(Append(vs, <<>>)) = Len(vs) + 1
         /\ \A i, j, a : Holds(Append(vs, <<>>), i, j, a) <=> Holds(vs, i, j, a)
<1> DEFINE ws == Append(vs, <<>>)
<1>1. /\ Len(vs) \in Nat /\ ws \in Vectors /\ Len(ws) = Len(vs) + 1
      /\ \A i \in 1..Len(vs) : ws[i] = vs[i]
      /\ ws[Len(vs) + 1] = <<>> /\ Len(<<>>) = 0
  BY VectorsAre, AppendProperties, EmptySeq DEF Vectors
<1>2. QED BY <1>1 DEF Holds

\* one of them emptied, or with one more pointer
LEMMA EmptiedHolds ==
  ASSUME NEW vs \in Vectors, NEW k \in 1..Len(vs)
  PROVE  LET ws == [vs EXCEPT ![k] = <<>>] IN
         /\ ws \in Vectors /\ Len(ws) = Len(vs)
         /\ \A i, j, a : Holds(ws, i, j, a) <=> i # k /\ Holds(vs, i, j, a)
<1> DEFINE ws == [vs EXCEPT ![k] = <<>>]
<1>1. /\ ws \in Vectors /\ Len(ws) = Len(vs) /\ Len(<<>>) = 0
      /\ \A i \in 1..Len(vs) : ws[i] = IF i = k THEN <<>> ELSE vs[i]
  BY ExceptSeq, EmptySeq DEF Vectors
<1>2. QED BY <1>1 DEF Holds

LEMMA PushedHolds ==
  ASSUME NEW vs \in Vectors, NEW k \in 1..Len(vs), NEW b \in Addresses
  PROVE  LET ws == [vs EXCEPT ![k] = Append(@, b)] IN
         /\ ws \in Vectors /\ Len(ws) = Len(vs)
         /\ \A i \in 1..Len(vs) : ws[i] = IF i = k THEN Append(vs[k], b) ELSE vs[i]
         /\ \A i, j, a : Holds(ws, i, j, a) <=> \/ Holds(vs, i, j, a)
                                                \/ i = k /\ j = Len(vs[k]) + 1 /\ a = b
<1> DEFINE v == Append(vs[k], b)
           ws == [vs EXCEPT ![k] = v]
<1>1. /\ vs[k] \in Seq(Addresses) /\ v \in Seq(Addresses) /\ Len(vs[k]) \in Nat
      /\ Len(v) = Len(vs[k]) + 1
      /\ \A j \in 1..Len(vs[k]) : v[j] = vs[k][j]
      /\ v[Len(vs[k]) + 1] = b
  BY VectorsAre, AppendProperties
<1>2. /\ ws \in Vectors /\ Len(ws) = Len(vs)
      /\ \A i \in 1..Len(vs) : ws[i] = IF i = k THEN v ELSE vs[i]
  <2> HIDE DEF v
  <2>1. QED BY <1>1, ExceptSeq DEF Vectors
<1>3. \A i, j, a : Holds(ws, i, j, a) <=> \/ Holds(vs, i, j, a)
                                          \/ i = k /\ j = Len(vs[k]) + 1 /\ a = b
  <2> HIDE DEF v, ws
  <2>1. ASSUME NEW i \in 1..Len(vs), i # k
        PROVE  \A j, a : Holds(ws, i, j, a) <=> Holds(vs, i, j, a)
    BY <1>2, <2>1 DEF Holds
  <2>2. \A j, a : Holds(ws, k, j, a) <=> \/ Holds(vs, k, j, a)
                                         \/ j = Len(vs[k]) + 1 /\ a = b
    <3>1. ws[k] = v
      BY <1>2
    <3>2. \A j : j \in 1..Len(v) <=> j \in 1..Len(vs[k]) \/ j = Len(vs[k]) + 1
      BY <1>1
    <3>3. QED BY <1>1, <1>2, <3>1, <3>2 DEF Holds
  <2>3. \A i, j, a : Holds(ws, i, j, a) \/ Holds(vs, i, j, a) => i \in 1..Len(vs)
    BY <1>2 DEF Holds
  <2>4. QED BY <2>1, <2>2, <2>3
<1>4. QED BY <1>2, <1>3

\* copies, at the addresses given to the places
LEMMA DupHolds ==
  ASSUME NEW vs \in Vectors, NEW at \in [Places(vs) -> Addresses]
  PROVE  /\ Dup(vs, at) \in Vectors /\ Len(Dup(vs, at)) = Len(vs)
         /\ \A i \in 1..Len(vs) : /\ Len(Dup(vs, at)[i]) = Len(vs[i])
                                  /\ \A j \in 1..Len(vs[i]) : Dup(vs, at)[i][j] = at[<<i, j>>]
         /\ \A i, j, a : Holds(Dup(vs, at), i, j, a) <=> <<i, j>> \in Places(vs) /\ a = at[<<i, j>>]
<1> DEFINE ws == Dup(vs, at)
<1>1. \A i \in 1..Len(vs) : /\ Len(vs[i]) \in Nat
                            /\ \A j \in 1..Len(vs[i]) : at[<<i, j>>] \in Addresses
  BY VectorsAre, InPlaces
<1>2. \A i \in 1..Len(vs) : /\ [j \in 1..Len(vs[i]) |-> at[<<i, j>>]] \in Seq(Addresses)
                            /\ Len([j \in 1..Len(vs[i]) |-> at[<<i, j>>]]) = Len(vs[i])
  BY <1>1, IsASeq
<1>3. /\ ws \in Vectors /\ Len(ws) = Len(vs)
      /\ \A i \in 1..Len(vs) : ws[i] = [j \in 1..Len(vs[i]) |-> at[<<i, j>>]]
  <2> DEFINE e(i) == [j \in 1..Len(vs[i]) |-> at[<<i, j>>]]
  <2>1. Len(vs) \in Nat /\ \A i \in 1..Len(vs) : e(i) \in Seq(Addresses)
    BY <1>2, VectorsAre
  <2> HIDE DEF e
  <2>2. /\ [i \in 1..Len(vs) |-> e(i)] \in Seq(Seq(Addresses))
        /\ Len([i \in 1..Len(vs) |-> e(i)]) = Len(vs)
        /\ \A i \in 1..Len(vs) : [j \in 1..Len(vs) |-> e(j)][i] = e(i)
    BY <2>1
  <2>3. QED BY <2>2 DEF e, Dup, Vectors
<1>4. \A i \in 1..Len(vs) : /\ Len(ws[i]) = Len(vs[i])
                            /\ \A j \in 1..Len(vs[i]) : ws[i][j] = at[<<i, j>>]
  BY <1>2, <1>3
<1>5. \A i, j, a : Holds(ws, i, j, a) <=> <<i, j>> \in Places(vs) /\ a = at[<<i, j>>]
  <2> HIDE DEF ws
  <2>1. QED BY <1>3, <1>4, InPlaces DEF Holds
<1>6. QED BY <1>3, <1>4, <1>5

LEMMA JoinedHolds ==
  ASSUME NEW vs \in Vectors, NEW ws \in Vectors
  PROVE  /\ vs \o ws \in Vectors /\ Len(vs \o ws) = Len(vs) + Len(ws)
         /\ \A i \in 1..(Len(vs) + Len(ws)) :
              (vs \o ws)[i] = IF i <= Len(vs) THEN vs[i] ELSE ws[i - Len(vs)]
         /\ \A i, j, a : Holds(vs \o ws, i, j, a) <=>
              \/ Holds(vs, i, j, a)
              \/ i \in (Len(vs) + 1)..(Len(vs) + Len(ws)) /\ Holds(ws, i - Len(vs), j, a)
<1>1. /\ vs \o ws \in Vectors /\ Len(vs \o ws) = Len(vs) + Len(ws)
      /\ \A i \in 1..(Len(vs) + Len(ws)) :
           (vs \o ws)[i] = IF i <= Len(vs) THEN vs[i] ELSE ws[i - Len(vs)]
      /\ Len(vs) \in Nat /\ Len(ws) \in Nat
  BY ConcatProperties, LenProperties DEF Vectors
<1>2. QED BY <1>1 DEF Holds

----------------------------------------------------------------------------
Heap == [Addresses -> Contents \cup {Free}]

\* the vectors of one object are replaced: what they point to was free or the
\* object's own before, and what it has no more is free afterwards
Replaces(h, ls, o, vs, g) ==
  /\ vs \in Vectors /\ g \in Heap
  /\ Distinct(vs)
  /\ \A a \in Pointers(vs) : (h[a] = Free \/ a \in Pointers(ls[o])) /\ g[a] # Free
  /\ \A a \in Addresses \ Pointers(vs) : g[a] = IF a \in Pointers(ls[o]) THEN Free ELSE h[a]

\* OwnedOnce of any heap and any lists, said of whole objects
Once(h, ls) ==
  /\ \A a \in Addresses : h[a] # Free <=> \E o \in Objects : a \in Pointers(ls[o])
  /\ \A o \in Objects : Distinct(ls[o])
  /\ \A o, x \in Objects : \A a : a \in Pointers(ls[o]) /\ a \in Pointers(ls[x]) => o = x

LEMMA OnceIsOwned ==
  ASSUME NEW h, NEW ls \in [Objects -> Vectors]
  PROVE  Once(h, ls) <=>
         /\ \A a \in Addresses : h[a] # Free <=> \E o \in Objects : a \in Pointers(ls[o])
         /\ \A o, x \in Objects : \A p \in Places(ls[o]), q \in Places(ls[x]) :
              ls[o][p[1]][p[2]] = ls[x][q[1]][q[2]] => o = x /\ p = q
<1> DEFINE Apart == \A o, x \in Objects : \A p \in Places(ls[o]), q \in Places(ls[x]) :
                      ls[o][p[1]][p[2]] = ls[x][q[1]][q[2]] => o = x /\ p = q
<1>1. ASSUME Once(h, ls) PROVE Apart
  <2>1. SUFFICES ASSUME NEW o \in Objects, NEW x \in Objects,
                        NEW p \in Places(ls[o]), NEW q \in Places(ls[x]),
                        ls[o][p[1]][p[2]] = ls[x][q[1]][q[2]]
                 PROVE  o = x /\ p = q
    OBVIOUS
  <2> DEFINE a == ls[o][p[1]][p[2]]
  <2>2. /\ Holds(ls[o], p[1], p[2], a) /\ Holds(ls[x], q[1], q[2], a)
        /\ a \in Pointers(ls[o]) /\ a \in Pointers(ls[x])
        /\ p = <<p[1], p[2]>> /\ q = <<q[1], q[2]>>
    BY <2>1, InPointers, InPlaces
  <2>3. o = x
    BY <1>1, <2>2 DEF Once
  <2>4. p[1] = q[1] /\ p[2] = q[2]
    BY <1>1, <2>2, <2>3 DEF Once, Distinct
  <2>5. QED BY <2>2, <2>3, <2>4
<1>2. ASSUME Apart
      PROVE  /\ \A o \in Objects : Distinct(ls[o])
             /\ \A o, x \in Objects : \A a : a \in Pointers(ls[o]) /\ a \in Pointers(ls[x]) => o = x
  <2>1. ASSUME NEW o \in Objects, NEW x \in Objects, NEW i, NEW j, NEW k, NEW l, NEW a,
               Holds(ls[o], i, j, a), Holds(ls[x], k, l, a)
        PROVE  o = x /\ i = k /\ j = l
    <3> DEFINE p == <<i, j>>
               q == <<k, l>>
    <3>1. /\ p \in Places(ls[o]) /\ q \in Places(ls[x])
          /\ ls[o][p[1]][p[2]] = ls[x][q[1]][q[2]]
      BY <2>1, InPointers
    <3>2. o = x /\ p = q
      BY <1>2, <3>1
    <3>3. QED BY <3>2
  <2>2. \A o \in Objects : Distinct(ls[o])
    BY <2>1 DEF Distinct
  <2>3. \A o, x \in Objects : \A a : a \in Pointers(ls[o]) /\ a \in Pointers(ls[x]) => o = x
    BY <2>1, InPointers
  <2>4. QED BY <2>2, <2>3
<1>3. QED BY <1>1, <1>2 DEF Once

LEMMA StaysOnce ==
  ASSUME NEW h \in Heap, NEW ls \in [Objects -> Vectors], Once(h, ls),
         NEW o \in Objects, NEW vs, NEW g, Replaces(h, ls, o, vs, g)
  PROVE  Once(g, [ls EXCEPT ![o] = vs])
<1> DEFINE ms == [ls EXCEPT ![o] = vs]
<1>1. ms[o] = vs /\ \A x \in Objects : x # o => ms[x] = ls[x]
  OBVIOUS
<1>2. \A x \in Objects : x # o => \A a \in Pointers(ls[x]) :
        a \in Addresses /\ h[a] # Free /\ a \notin Pointers(ls[o]) /\ a \notin Pointers(vs)
  BY InPointers DEF Once, Replaces
<1>3. \A a \in Addresses : g[a] # Free <=> \E x \in Objects : a \in Pointers(ms[x])
  <2>1. ASSUME NEW a \in Addresses, NEW x \in Objects, a \in Pointers(ms[x]) PROVE g[a] # Free
    BY <1>1, <1>2, <2>1 DEF Replaces
  <2>2. ASSUME NEW a \in Addresses, g[a] # Free PROVE \E x \in Objects : a \in Pointers(ms[x])
    <3>1. CASE a \in Pointers(vs)
      BY <1>1, <3>1
    <3>2. CASE a \notin Pointers(vs)
      <4>1. a \notin Pointers(ls[o]) /\ h[a] # Free
        BY <2>2, <3>2 DEF Replaces
      <4>2. QED BY <1>1, <4>1 DEF Once
    <3>3. QED BY <3>1, <3>2
  <2>3. QED BY <2>1, <2>2
<1>4. \A x \in Objects : Distinct(ms[x])
  BY <1>1 DEF Once, Replaces
<1>5. \A x, y \in Objects : \A a : a \in Pointers(ms[x]) /\ a \in Pointers(ms[y]) => x = y
  BY <1>1, <1>2 DEF Once
<1> HIDE DEF ms
<1>6. Once(g, ms)
  BY <1>3, <1>4, <1>5 DEF Once
<1>7. QED BY <1>6 DEF ms

----------------------------------------------------------------------------
\* Value, of any heap
ValueIn(h, vs) == [i \in 1..Len(vs) |-> [j \in 1..Len(vs[i]) |-> h[vs[i][j]]]]

LEMMA ValueIs ==
  ASSUME NEW h, NEW vs \in Vectors
  PROVE  /\ DOMAIN ValueIn(h, vs) = 1..Len(vs) /\ Len(ValueIn(h, vs)) = Len(vs)
         /\ \A i \in 1..Len(vs) : /\ DOMAIN ValueIn(h, vs)[i] = 1..Len(vs[i])
                                  /\ Len(ValueIn(h, vs)[i]) = Len(vs[i])
                                  /\ \A j \in 1..Len(vs[i]) : ValueIn(h, vs)[i][j] = h[vs[i][j]]
BY VectorsAre DEF ValueIn

\* two values are the same if all that is in them is
LEMMA SameValue ==
  ASSUME NEW h, NEW vs \in Vectors, NEW g, NEW ws \in Vectors,
         Len(vs) = Len(ws),
         \A i \in 1..Len(vs) : /\ Len(vs[i]) = Len(ws[i])
                               /\ \A j \in 1..Len(vs[i]) : h[vs[i][j]] = g[ws[i][j]]
  PROVE  ValueIn(h, vs) = ValueIn(g, ws)
<1> DEFINE e(i) == [j \in 1..Len(vs[i]) |-> h[vs[i][j]]]
           f(i) == [j \in 1..Len(ws[i]) |-> g[ws[i][j]]]
<1>1. \A i \in 1..Len(vs) : e(i) = f(i)
  OBVIOUS
<1> HIDE DEF e, f
<1>2. [i \in 1..Len(vs) |-> e(i)] = [i \in 1..Len(ws) |-> f(i)]
  BY <1>1
<1>3. QED BY <1>2 DEF ValueIn, e, f

LEMMA ValueKept ==
  ASSUME NEW h, NEW g, NEW vs \in Vectors, \A a \in Pointers(vs) : g[a] = h[a]
  PROVE  ValueIn(g, vs) = ValueIn(h, vs)
<1>1. \A i \in 1..Len(vs) : \A j \in 1..Len(vs[i]) : vs[i][j] \in Pointers(vs)
  BY InPointers DEF Holds
<1>2. QED BY <1>1, SameValue

\* a change at one place
Set(f, x, v) == [f EXCEPT ![x] = v]

\* what is shown of objects
Shows(h, ls) == [x \in Objects |-> ValueIn(h, ls[x])]

\* the object that changes is the only one that shows something else
LEMMA OthersKept ==
  ASSUME NEW h \in Heap, NEW ls \in [Objects -> Vectors], Once(h, ls),
         NEW o \in Objects, NEW vs, NEW g, Replaces(h, ls, o, vs, g)
  PROVE  Shows(g, Set(ls, o, vs)) = Set(Shows(h, ls), o, ValueIn(g, vs))
<1> DEFINE ms == [ls EXCEPT ![o] = vs]
<1>1. ms[o] = vs /\ \A x \in Objects : x # o => ms[x] = ls[x]
  OBVIOUS
<1>2. ASSUME NEW x \in Objects, x # o PROVE ValueIn(g, ms[x]) = ValueIn(h, ls[x])
  <2>1. \A a \in Pointers(ls[x]) :
          a \in Addresses /\ h[a] # Free /\ a \notin Pointers(ls[o]) /\ a \notin Pointers(vs)
    BY <1>2, InPointers DEF Once, Replaces
  <2>2. \A a \in Pointers(ls[x]) : g[a] = h[a]
    BY <2>1 DEF Replaces
  <2>3. QED BY <1>1, <1>2, <2>2, ValueKept
<1> HIDE DEF ms
<1>3. \A x \in Objects : ValueIn(g, ms[x]) = IF x = o THEN ValueIn(g, vs) ELSE ValueIn(h, ls[x])
  BY <1>1, <1>2
<1>4. Shows(g, ms) = [Shows(h, ls) EXCEPT ![o] = ValueIn(g, vs)]
  BY <1>3 DEF Shows
<1>5. QED BY <1>4 DEF ms, Set

----------------------------------------------------------------------------
\* copies: they are where nothing was, each in a place of its own, and hold
\* what is held by what they are copies of
LEMMA CopiesAre ==
  ASSUME NEW h \in Heap, NEW vs \in Vectors, NEW at \in New(h, vs),
         \A a \in Pointers(vs) : h[a] # Free
  PROVE  LET ws == Dup(vs, at)
             g == Dupped(h, vs, at) IN
         /\ ws \in Vectors /\ Distinct(ws) /\ Len(ws) = Len(vs)
         /\ g \in Heap
         /\ \A a \in Pointers(ws) : a \in Addresses /\ h[a] = Free /\ g[a] # Free
         /\ \A a \in Addresses \ Pointers(ws) : g[a] = h[a]
         /\ ValueIn(g, ws) = ValueIn(h, vs)
<1> DEFINE ws == Dup(vs, at)
           g == Dupped(h, vs, at)
<1>1. /\ at \in [Places(vs) -> Addresses]
      /\ \A p \in Places(vs) : at[p] \in Addresses /\ h[at[p]] = Free
      /\ \A p, q \in Places(vs) : at[p] = at[q] => p = q
  BY DEF New, Injection, IsInjective
<1>2. /\ ws \in Vectors /\ Len(ws) = Len(vs)
      /\ \A i \in 1..Len(vs) : /\ Len(ws[i]) = Len(vs[i])
                               /\ \A j \in 1..Len(vs[i]) : ws[i][j] = at[<<i, j>>]
      /\ \A i, j, a : Holds(ws, i, j, a) <=> <<i, j>> \in Places(vs) /\ a = at[<<i, j>>]
  BY <1>1, DupHolds
<1>3. \A a : a \in Pointers(ws) <=> \E p \in Places(vs) : at[p] = a
  <2>1. ASSUME NEW a, a \in Pointers(ws) PROVE \E p \in Places(vs) : at[p] = a
    <3>1. PICK i, j : Holds(ws, i, j, a)
      BY <1>2, <2>1, InPointers
    <3> DEFINE p == <<i, j>>
    <3>2. p \in Places(vs) /\ a = at[p]
      BY <1>2, <3>1
    <3>3. QED BY <3>2
  <2>2. ASSUME NEW p \in Places(vs) PROVE at[p] \in Pointers(ws)
    <3>1. p = <<p[1], p[2]>> /\ Holds(ws, p[1], p[2], at[p])
      BY <1>2, InPlaces
    <3>2. QED BY <1>2, <3>1, InPointers
  <2>3. QED BY <2>1, <2>2
<1>4. Distinct(ws)
  <2>1. SUFFICES ASSUME NEW i, NEW j, NEW k, NEW l, NEW a, Holds(ws, i, j, a), Holds(ws, k, l, a)
                 PROVE  i = k /\ j = l
    BY DEF Distinct
  <2> DEFINE p == <<i, j>>
             q == <<k, l>>
  <2>2. p \in Places(vs) /\ q \in Places(vs) /\ at[p] = a /\ at[q] = a
    BY <1>2, <2>1
  <2>3. p = q
    BY <1>1, <2>2
  <2>4. QED BY <2>3
<1>5. \A p \in Places(vs) : g[at[p]] = h[vs[p[1]][p[2]]]
  <2>1. SUFFICES ASSUME NEW p \in Places(vs) PROVE g[at[p]] = h[vs[p[1]][p[2]]]
    OBVIOUS
  <2> DEFINE q == CHOOSE q \in Places(vs) : at[q] = at[p]
  <2>2. q \in Places(vs) /\ at[q] = at[p]
    OBVIOUS
  <2>3. q = p
    BY <1>1, <2>2
  <2>4. g[at[p]] = h[vs[q[1]][q[2]]]
    BY <1>1 DEF Dupped
  <2>5. QED BY <2>3, <2>4
<1>6. \A a \in Addresses \ Pointers(ws) : g[a] = h[a]
  BY <1>3 DEF Dupped
<1>7. \A a \in Pointers(ws) : a \in Addresses /\ h[a] = Free /\ g[a] # Free
  <2>1. SUFFICES ASSUME NEW a \in Pointers(ws)
                 PROVE  a \in Addresses /\ h[a] = Free /\ g[a] # Free
    OBVIOUS
  <2>2. PICK p \in Places(vs) : at[p] = a
    BY <1>3, <2>1
  <2>3. vs[p[1]][p[2]] \in Pointers(vs)
    BY DEF Pointers
  <2>4. QED BY <1>1, <1>5, <2>2, <2>3
<1>8. g \in Heap
  <2>1. \A a \in Addresses : g[a] \in Contents \cup {Free}
    <3>1. ASSUME NEW a \in Pointers(ws) PROVE g[a] \in Contents \cup {Free}
      <4>1. PICK p \in Places(vs) : at[p] = a
        BY <1>3, <3>1
      <4>2. vs[p[1]][p[2]] \in Addresses
        BY InPlaces, VectorsAre
      <4>3. QED BY <1>5, <4>1, <4>2 DEF Heap
    <3>2. QED BY <1>6, <3>1 DEF Heap
  <2>2. g = [a \in Addresses |-> g[a]]
    BY DEF Dupped
  <2> HIDE DEF g
  <2>3. QED BY <2>1, <2>2 DEF Heap
<1>9. ValueIn(g, ws) = ValueIn(h, vs)
  <2>1. \A i \in 1..Len(vs) : \A j \in 1..Len(vs[i]) : g[ws[i][j]] = h[vs[i][j]]
    <3>1. SUFFICES ASSUME NEW i \in 1..Len(vs), NEW j \in 1..Len(vs[i])
                   PROVE  g[ws[i][j]] = h[vs[i][j]]
      OBVIOUS
    <3> DEFINE p == <<i, j>>
    <3>2. p \in Places(vs) /\ ws[i][j] = at[p]
      BY <1>2, InPlaces
    <3>3. g[at[p]] = h[vs[p[1]][p[2]]]
      BY <1>5, <3>2
    <3>4. QED BY <3>2, <3>3
  <2> HIDE DEF ws, g
  <2>2. QED BY <1>2, <2>1, SameValue
<1>10. QED BY <1>2, <1>4, <1>6, <1>7, <1>8, <1>9

LEMMA PurgedIs ==
  ASSUME NEW h \in Heap, NEW vs
  PROVE  /\ Purged(h, vs) \in Heap
         /\ \A a \in Addresses : Purged(h, vs)[a] = IF a \in Pointers(vs) THEN Free ELSE h[a]
BY DEF Purged, Heap

----------------------------------------------------------------------------
\* What each operation makes of the object it is called on.  The object was
\* given whole, and its pointers are the only ones that go
LEMMA Constructed ==
  ASSUME NEW h \in Heap, NEW ls, NEW o, ls[o] = <<>>
  PROVE  Replaces(h, ls, o, <<<<>>>>, h) /\ ValueIn(h, <<<<>>>>) = <<<<>>>>
<1>1. /\ <<<<>>>> \in Vectors /\ Pointers(<<>>) = {} /\ Pointers(<<<<>>>>) = {}
      /\ Distinct(<<<<>>>>)
  BY NoneHeld, InPointers DEF Distinct
<1>2. ValueIn(h, <<<<>>>>) = <<<<>>>>
  BY DEF ValueIn
<1>3. QED BY <1>1, <1>2 DEF Replaces

LEMMA Destroyed ==
  ASSUME NEW h \in Heap, NEW ls, NEW o
  PROVE  Replaces(h, ls, o, <<>>, Purged(h, ls[o])) /\ ValueIn(h, <<>>) = <<>>
<1>1. <<>> \in Vectors /\ Pointers(<<>>) = {} /\ Distinct(<<>>)
  BY NoneHeld, InPointers DEF Distinct
<1>2. ValueIn(h, <<>>) = <<>>
  BY DEF ValueIn
<1>3. QED BY <1>1, <1>2, PurgedIs DEF Replaces

\* copies that take the place of nothing, or of what is purged before or after
LEMMA CopiedOver ==
  ASSUME NEW h \in Heap, NEW ls \in [Objects -> Vectors], Once(h, ls),
         NEW o \in Objects, NEW x \in Objects, o # x
  PROVE  /\ \A at \in New(h, ls[x]) :
              LET ws == Dup(ls[x], at)
                  g == Purged(Dupped(h, ls[x], at), ls[o]) IN
              Replaces(h, ls, o, ws, g) /\ ValueIn(g, ws) = ValueIn(h, ls[x])
         /\ \A at \in New(Purged(h, ls[o]), ls[x]) :
              LET ws == Dup(ls[x], at)
                  g == Dupped(Purged(h, ls[o]), ls[x], at) IN
              Replaces(h, ls, o, ws, g) /\ ValueIn(g, ws) = ValueIn(h, ls[x])
<1>1. \A a \in Pointers(ls[x]) : a \in Addresses /\ h[a] # Free /\ a \notin Pointers(ls[o])
  BY InPointers DEF Once
<1>2. ASSUME NEW at \in New(h, ls[x])
      PROVE  LET ws == Dup(ls[x], at)
                 g == Purged(Dupped(h, ls[x], at), ls[o]) IN
             Replaces(h, ls, o, ws, g) /\ ValueIn(g, ws) = ValueIn(h, ls[x])
  <2> DEFINE ws == Dup(ls[x], at)
             d == Dupped(h, ls[x], at)
             g == Purged(d, ls[o])
  <2>1. /\ ws \in Vectors /\ Distinct(ws) /\ d \in Heap
        /\ \A a \in Pointers(ws) : a \in Addresses /\ h[a] = Free /\ d[a] # Free
        /\ \A a \in Addresses \ Pointers(ws) : d[a] = h[a]
        /\ ValueIn(d, ws) = ValueIn(h, ls[x])
    BY <1>1, CopiesAre
  <2>2. g \in Heap /\ \A a \in Addresses : g[a] = IF a \in Pointers(ls[o]) THEN Free ELSE d[a]
    BY <2>1, PurgedIs
  <2>3. \A a \in Pointers(ls[o]) : a \in Addresses /\ h[a] # Free
    BY InPointers DEF Once
  <2> HIDE DEF ws, d, g
  <2>4. \A a \in Pointers(ws) : g[a] = d[a]
    BY <2>1, <2>2, <2>3
  <2>5. ValueIn(g, ws) = ValueIn(h, ls[x])
    BY <2>1, <2>4, ValueKept
  <2>6. Replaces(h, ls, o, ws, g)
    BY <2>1, <2>2, <2>3, <2>4 DEF Replaces
  <2>7. QED BY <2>5, <2>6 DEF ws, d, g
<1>3. ASSUME NEW at \in New(Purged(h, ls[o]), ls[x])
      PROVE  LET ws == Dup(ls[x], at)
                 g == Dupped(Purged(h, ls[o]), ls[x], at) IN
             Replaces(h, ls, o, ws, g) /\ ValueIn(g, ws) = ValueIn(h, ls[x])
  <2> DEFINE f == Purged(h, ls[o])
             ws == Dup(ls[x], at)
             g == Dupped(f, ls[x], at)
  <2>1. f \in Heap /\ \A a \in Addresses : f[a] = IF a \in Pointers(ls[o]) THEN Free ELSE h[a]
    BY PurgedIs
  <2> HIDE DEF f
  <2>2. \A a \in Pointers(ls[x]) : f[a] = h[a] /\ f[a] # Free
    BY <1>1, <2>1
  <2>3. at \in New(f, ls[x])
    BY DEF f
  <2>4. /\ ws \in Vectors /\ Distinct(ws) /\ g \in Heap
        /\ \A a \in Pointers(ws) : a \in Addresses /\ f[a] = Free /\ g[a] # Free
        /\ \A a \in Addresses \ Pointers(ws) : g[a] = f[a]
        /\ ValueIn(g, ws) = ValueIn(f, ls[x])
    BY <2>1, <2>2, <2>3, CopiesAre
  <2>5. ValueIn(f, ls[x]) = ValueIn(h, ls[x])
    BY <2>2, ValueKept
  <2> HIDE DEF ws, g
  <2>6. Replaces(h, ls, o, ws, g)
    BY <2>1, <2>4 DEF Replaces
  <2>7. QED BY <2>4, <2>5, <2>6 DEF f, ws, g
<1>4. QED BY <1>2, <1>3

LEMMA CopiedAnew ==
  ASSUME NEW h \in Heap, NEW ls \in [Objects -> Vectors], Once(h, ls),
         NEW o \in Objects, NEW x \in Objects, ls[o] = <<>>, NEW at \in New(h, ls[x])
  PROVE  LET ws == Dup(ls[x], at)
             g == Dupped(h, ls[x], at) IN
         Replaces(h, ls, o, ws, g) /\ ValueIn(g, ws) = ValueIn(h, ls[x])
<1>1. \A a \in Pointers(ls[x]) : h[a] # Free
  BY InPointers DEF Once
<1>2. Pointers(ls[o]) = {}
  BY NoneHeld, InPointers
<1>3. QED BY <1>1, <1>2, CopiesAre DEF Replaces

\* a change of one of the vectors or of what they show
Push(vs, k, b) == [vs EXCEPT ![k] = Append(@, b)]
Put(v, i, j, c) == [v EXCEPT ![i][j] = c]

LEMMA Written ==
  ASSUME NEW h \in Heap, NEW ls \in [Objects -> Vectors], Once(h, ls),
         NEW o \in Objects, NEW i \in 1..Len(ls[o]), NEW j \in 1..Len(ls[o][i]),
         NEW c \in Contents
  PROVE  LET g == Set(h, ls[o][i][j], c) IN
         /\ Replaces(h, ls, o, ls[o], g)
         /\ ValueIn(g, ls[o]) = Put(ValueIn(h, ls[o]), i, j, c)
<1> DEFINE vs == ls[o]
           b == vs[i][j]
           g == [h EXCEPT ![b] = c]
<1>1. vs \in Vectors /\ Distinct(vs) /\ Holds(vs, i, j, b)
  BY DEF Once, Holds
<1>2. b \in Pointers(vs) /\ b \in Addresses
  BY <1>1, InPointers
<1>3. \A a \in Pointers(vs) : a \in Addresses /\ h[a] # Free
  BY <1>1, InPointers DEF Once
<1> HIDE DEF b
<1>4. g \in Heap /\ \A a \in Addresses : g[a] = IF a = b THEN c ELSE h[a]
  BY <1>2 DEF Heap
<1> HIDE DEF g
<1>5. Replaces(h, ls, o, vs, g)
  <2>1. \A a \in Addresses \ Pointers(vs) : a \notin Pointers(ls[o]) /\ g[a] = h[a]
    BY <1>2, <1>4
  <2>2. \A a \in Pointers(vs) : g[a] # Free
    BY <1>3, <1>4, FreeAssumption
  <2>3. QED BY <1>1, <1>4, <2>1, <2>2 DEF Replaces
<1>6. ValueIn(g, vs) = [ValueIn(h, vs) EXCEPT ![i][j] = c]
  <2> HIDE DEF vs
  <2> DEFINE V == ValueIn(h, vs)
             W == ValueIn(g, vs)
  <2>1. /\ i \in 1..Len(vs) /\ j \in 1..Len(vs[i])
        /\ \A k \in 1..Len(vs) : \A l \in 1..Len(vs[k]) :
             vs[k][l] \in Addresses /\ (vs[k][l] = b <=> k = i /\ l = j)
    BY <1>1, VectorsAre DEF Distinct, Holds, vs
  <2>2. /\ V = [k \in 1..Len(vs) |-> V[k]] /\ W = [k \in 1..Len(vs) |-> W[k]]
        /\ \A k \in 1..Len(vs) : /\ V[k] = [l \in 1..Len(vs[k]) |-> h[vs[k][l]]]
                                 /\ W[k] = [l \in 1..Len(vs[k]) |-> g[vs[k][l]]]
    BY DEF ValueIn
  <2> HIDE DEF V, W
  <2>3. ASSUME NEW k \in 1..Len(vs), k # i PROVE W[k] = V[k]
    <3>1. \A l \in 1..Len(vs[k]) : g[vs[k][l]] = h[vs[k][l]]
      BY <1>4, <2>1, <2>3
    <3>2. [l \in 1..Len(vs[k]) |-> g[vs[k][l]]] = [l \in 1..Len(vs[k]) |-> h[vs[k][l]]]
      BY <3>1
    <3>3. /\ W[k] = [l \in 1..Len(vs[k]) |-> g[vs[k][l]]]
          /\ V[k] = [l \in 1..Len(vs[k]) |-> h[vs[k][l]]]
      BY <2>2
    <3>4. QED BY <3>2, <3>3
  <2>4. W[i] = [V[i] EXCEPT ![j] = c]
    <3>1. \A l \in 1..Len(vs[i]) : g[vs[i][l]] = IF l = j THEN c ELSE h[vs[i][l]]
      BY <1>4, <2>1
    <3>2. W[i] = [l \in 1..Len(vs[i]) |-> IF l = j THEN c ELSE h[vs[i][l]]]
      BY <2>1, <2>2, <3>1
    <3>3. V[i] = [l \in 1..Len(vs[i]) |-> h[vs[i][l]]]
      BY <2>1, <2>2
    <3>4. QED BY <3>2, <3>3
  <2>5. W = [V EXCEPT ![i] = [V[i] EXCEPT ![j] = c]]
    BY <2>1, <2>2, <2>3, <2>4
  <2>6. QED BY <2>5 DEF V, W
<1>7. QED BY <1>5, <1>6 DEF g, b, Set, Put

LEMMA NetworkEmptied ==
  ASSUME NEW h \in Heap, NEW ls \in [Objects -> Vectors], Once(h, ls),
         NEW o \in Objects, ls[o] # <<>>
  PROVE  LET ws == [ls[o] EXCEPT ![1] = <<>>]
             g == Purged(h, First(ls[o])) IN
         /\ Replaces(h, ls, o, ws, g)
         /\ ValueIn(g, ws) = [ValueIn(h, ls[o]) EXCEPT ![1] = <<>>]
<1> DEFINE vs == ls[o]
           ws == [vs EXCEPT ![1] = <<>>]
           g == Purged(h, First(vs))
<1>1. /\ vs \in Vectors /\ Distinct(vs) /\ 1 \in 1..Len(vs)
      /\ \A i, j, a : Holds(First(vs), i, j, a) <=> i = 1 /\ Holds(vs, 1, j, a)
      /\ First(vs) \in Vectors
  BY VectorsAre, EmptySeq, FirstHolds DEF Once, Vectors
<1>2. /\ ws \in Vectors /\ Len(ws) = Len(vs)
      /\ \A i, j, a : Holds(ws, i, j, a) <=> i # 1 /\ Holds(vs, i, j, a)
  BY <1>1, EmptiedHolds
<1>3. g \in Heap /\ \A a \in Addresses : g[a] = IF a \in Pointers(First(vs)) THEN Free ELSE h[a]
  BY PurgedIs
<1>4. \A a \in Pointers(vs) : a \in Addresses /\ h[a] # Free
  BY <1>1, InPointers DEF Once
<1> HIDE DEF ws, g
<1>5. \A a : a \in Pointers(ws) <=> a \in Pointers(vs) /\ a \notin Pointers(First(vs))
  <2>1. /\ \A a : a \in Pointers(ws) <=> \E i, j : Holds(ws, i, j, a)
        /\ \A a : a \in Pointers(vs) <=> \E i, j : Holds(vs, i, j, a)
        /\ \A a : a \in Pointers(First(vs)) <=> \E i, j : Holds(First(vs), i, j, a)
    BY <1>1, <1>2, InPointers
  <2>2. \A i, j, k, l, a : Holds(vs, i, j, a) /\ Holds(vs, k, l, a) => i = k /\ j = l
    BY <1>1 DEF Distinct
  <2>3. QED BY <1>1, <1>2, <2>1, <2>2
<1>6. Pointers(First(vs)) \subseteq Pointers(vs)
  BY <1>1, InPointers
<1>7. Distinct(ws)
  BY <1>1, <1>2 DEF Distinct
<1>8. Replaces(h, ls, o, ws, g)
  BY <1>2, <1>3, <1>4, <1>5, <1>6, <1>7 DEF Replaces
<1>9. ValueIn(g, ws) = ValueIn(h, ws)
  BY <1>2, <1>3, <1>4, <1>5, ValueKept
<1>10. ValueIn(h, ws) = [ValueIn(h, vs) EXCEPT ![1] = <<>>]
  <2> DEFINE e(i) == [j \in 1..Len(vs[i]) |-> h[vs[i][j]]]
             f(i) == [j \in 1..Len(ws[i]) |-> h[ws[i][j]]]
  <2>1. /\ \A i \in 1..Len(vs) : ws[i] = IF i = 1 THEN <<>> ELSE vs[i]
        /\ 1 \in 1..Len(vs)
    BY <1>1 DEF ws, Vectors
  <2>2. f(1) = <<>>
    BY <2>1
  <2>3. \A i \in 1..Len(vs) : i # 1 => f(i) = e(i)
    BY <2>1
  <2> HIDE DEF e, f
  <2>4. [i \in 1..Len(ws) |-> f(i)] = [[i \in 1..Len(vs) |-> e(i)] EXCEPT ![1] = <<>>]
    BY <1>2, <2>1, <2>2, <2>3
  <2>5. QED BY <2>4 DEF e, f, ValueIn
<1>11. QED BY <1>8, <1>9, <1>10 DEF ws, g

LEMMA Pushed ==
  ASSUME NEW h \in Heap, NEW ls \in [Objects -> Vectors], Once(h, ls),
         NEW o \in Objects, NEW k \in 1..Len(ls[o]),
         NEW b \in Addresses, h[b] = Free, NEW c \in Contents
  PROVE  LET ws == Push(ls[o], k, b)
             g == Set(h, b, c) IN
         /\ Replaces(h, ls, o, ws, g)
         /\ ValueIn(g, ws) = Push(ValueIn(h, ls[o]), k, c)
<1> DEFINE vs == ls[o]
           ws == [vs EXCEPT ![k] = Append(@, b)]
           g == [h EXCEPT ![b] = c]
<1>1. /\ vs \in Vectors /\ Distinct(vs) /\ k \in 1..Len(vs)
  BY DEF Once
<1>2. /\ ws \in Vectors /\ Len(ws) = Len(vs)
      /\ \A i \in 1..Len(vs) : ws[i] = IF i = k THEN Append(vs[k], b) ELSE vs[i]
      /\ \A i, j, a : Holds(ws, i, j, a) <=> \/ Holds(vs, i, j, a)
                                             \/ i = k /\ j = Len(vs[k]) + 1 /\ a = b
  BY <1>1, PushedHolds
<1>3. g \in Heap /\ \A a \in Addresses : g[a] = IF a = b THEN c ELSE h[a]
  BY DEF Heap
<1>4. \A a \in Pointers(vs) : a \in Addresses /\ h[a] # Free /\ a # b
  BY <1>1, InPointers DEF Once
<1> HIDE DEF ws, g
<1>5. \A a : a \in Pointers(ws) <=> a \in Pointers(vs) \/ a = b
  <2>1. /\ \A a : a \in Pointers(ws) <=> \E i, j : Holds(ws, i, j, a)
        /\ \A a : a \in Pointers(vs) <=> \E i, j : Holds(vs, i, j, a)
    BY <1>1, <1>2, InPointers
  <2>2. Holds(ws, k, Len(vs[k]) + 1, b)
    BY <1>2
  <2>3. \A i, j, a : Holds(vs, i, j, a) => Holds(ws, i, j, a)
    BY <1>2
  <2>4. \A i, j, a : Holds(ws, i, j, a) => Holds(vs, i, j, a) \/ a = b
    BY <1>2
  <2>5. QED BY <2>1, <2>2, <2>3, <2>4
<1>6. Distinct(ws)
  <2>1. \A i, j : ~Holds(vs, i, j, b)
    BY <1>1, <1>4, InPointers
  <2>2. QED BY <1>1, <1>2, <2>1 DEF Distinct
<1>7. Replaces(h, ls, o, ws, g)
  BY <1>2, <1>3, <1>4, <1>5, <1>6, FreeAssumption DEF Replaces
<1>8. ValueIn(g, ws) = [ValueIn(h, vs) EXCEPT ![k] = Append(@, c)]
  <2> DEFINE e(i) == [j \in 1..Len(vs[i]) |-> h[vs[i][j]]]
             f(i) == [j \in 1..Len(ws[i]) |-> g[ws[i][j]]]
  <2>1. \A i \in 1..Len(vs) : /\ Len(vs[i]) \in Nat
                              /\ \A j \in 1..Len(vs[i]) : g[vs[i][j]] = h[vs[i][j]]
    <3>1. \A i \in 1..Len(vs) : \A j \in 1..Len(vs[i]) : vs[i][j] \in Pointers(vs)
      BY <1>1, InPointers DEF Holds
    <3>2. QED BY <1>1, <1>3, <1>4, <3>1, VectorsAre
  <2>2. ASSUME NEW i \in 1..Len(vs), i # k PROVE f(i) = e(i)
    <3>1. ws[i] = vs[i]
      BY <1>2, <2>2
    <3>2. [j \in 1..Len(vs[i]) |-> g[vs[i][j]]] = [j \in 1..Len(vs[i]) |-> h[vs[i][j]]]
      BY <2>1
    <3>3. QED BY <3>1, <3>2
  <2>3. f(k) = Append(e(k), c)
    <3> DEFINE v == vs[k]
               n == Len(v)
               w == ws[k]
    <3>1. v \in Seq(Addresses) /\ n \in Nat /\ w = Append(v, b)
      BY <1>1, <1>2, VectorsAre
    <3>2. Len(w) = n + 1 /\ (\A j \in 1..n : w[j] = v[j]) /\ w[n + 1] = b
      BY <3>1, AppendProperties
    <3>3. \A j \in 1..n : g[v[j]] = h[v[j]]
      BY <1>1, <2>1
    <3> HIDE DEF v, n, w
    <3>4. \A j \in 1..(n + 1) : g[w[j]] = IF j = n + 1 THEN c ELSE h[v[j]]
      BY <1>3, <3>1, <3>2, <3>3
    <3>5. [j \in 1..Len(w) |-> g[w[j]]] = [j \in 1..(n + 1) |-> IF j = n + 1 THEN c ELSE h[v[j]]]
      BY <3>2, <3>4
    <3>6. Append([j \in 1..n |-> h[v[j]]], c) = [j \in 1..(n + 1) |-> IF j = n + 1 THEN c ELSE h[v[j]]]
      BY <3>1
    <3>7. QED BY <3>5, <3>6 DEF v, n, w
  <2> HIDE DEF e, f
  <2>4. [i \in 1..Len(ws) |-> f(i)] = [[i \in 1..Len(vs) |-> e(i)] EXCEPT ![k] = Append(@, c)]
    BY <1>1, <1>2, <2>2, <2>3
  <2>5. QED BY <2>4 DEF e, f, ValueIn
<1>9. QED BY <1>7, <1>8 DEF ws, g, Push, Set

LEMMA LoopCleared ==
  ASSUME NEW h \in Heap, NEW ls \in [Objects -> Vectors], Once(h, ls),
         NEW o \in Objects, ls[o] # <<>>
  PROVE  LET ws == First(ls[o])
             g == Purged(h, Loop(ls[o])) IN
         /\ Replaces(h, ls, o, ws, g)
         /\ ValueIn(g, ws) = SubSeq(ValueIn(h, ls[o]), 1, 1)
<1> DEFINE vs == ls[o]
           ws == First(vs)
           lp == Loop(vs)
           g == Purged(h, lp)
<1>1. vs \in Vectors /\ Distinct(vs) /\ Len(vs) \in Nat /\ Len(vs) >= 1
  BY VectorsAre, EmptySeq DEF Once, Vectors
<1>2. /\ ws \in Vectors /\ Len(ws) = 1 /\ ws[1] = vs[1]
      /\ \A i, j, a : Holds(ws, i, j, a) <=> i = 1 /\ Holds(vs, 1, j, a)
  BY <1>1, FirstHolds
<1>3. /\ lp \in Vectors
      /\ \A i, j, a : Holds(lp, i, j, a) <=> i \in 1..(Len(vs) - 1) /\ Holds(vs, i + 1, j, a)
  BY <1>1, LoopHolds
<1>4. g \in Heap /\ \A a \in Addresses : g[a] = IF a \in Pointers(lp) THEN Free ELSE h[a]
  BY PurgedIs
<1>5. \A a \in Pointers(vs) : a \in Addresses /\ h[a] # Free
  BY <1>1, InPointers DEF Once
<1> HIDE DEF ws, lp, g
<1>6. \A a : a \in Pointers(vs) <=> a \in Pointers(ws) \/ a \in Pointers(lp)
  <2>1. /\ \A a : a \in Pointers(ws) <=> \E i, j : Holds(ws, i, j, a)
        /\ \A a : a \in Pointers(vs) <=> \E i, j : Holds(vs, i, j, a)
        /\ \A a : a \in Pointers(lp) <=> \E i, j : Holds(lp, i, j, a)
    BY <1>1, <1>2, <1>3, InPointers
  <2>2. ASSUME NEW i, NEW j, NEW a, Holds(vs, i, j, a), i # 1
        PROVE  Holds(lp, i - 1, j, a)
    <3>1. i \in 2..Len(vs)
      BY <1>1, <2>2 DEF Holds
    <3>2. i - 1 \in 1..(Len(vs) - 1) /\ (i - 1) + 1 = i
      BY <1>1, <3>1
    <3>3. QED BY <1>3, <2>2, <3>2
  <2>3. \A i, j, a : Holds(vs, i, j, a) => Holds(ws, i, j, a) \/ Holds(lp, i - 1, j, a)
    BY <1>2, <2>2
  <2>4. QED BY <1>2, <1>3, <2>1, <2>3
<1>7. \A a \in Pointers(ws) : a \notin Pointers(lp)
  <2>1. SUFFICES ASSUME NEW j, NEW i, NEW l, NEW a, Holds(ws, 1, j, a), Holds(lp, i, l, a)
                 PROVE  FALSE
    BY <1>2, <1>3, InPointers
  <2>2. i \in 1..(Len(vs) - 1) /\ Holds(vs, 1, j, a) /\ Holds(vs, i + 1, l, a)
    BY <1>2, <1>3, <2>1
  <2>3. 1 = i + 1
    BY <1>1, <2>2 DEF Distinct
  <2>4. QED BY <1>1, <2>2, <2>3
<1>8. Distinct(ws)
  BY <1>1, <1>2 DEF Distinct
<1>9. Replaces(h, ls, o, ws, g)
  BY <1>2, <1>4, <1>5, <1>6, <1>7, <1>8 DEF Replaces
<1>10. ValueIn(g, ws) = ValueIn(h, ws)
  BY <1>2, <1>4, <1>5, <1>6, <1>7, ValueKept
<1>11. ValueIn(h, ws) = SubSeq(ValueIn(h, vs), 1, 1)
  <2> DEFINE e(i) == [j \in 1..Len(vs[i]) |-> h[vs[i][j]]]
             f(i) == [j \in 1..Len(ws[i]) |-> h[ws[i][j]]]
  <2>1. f(1) = e(1)
    BY <1>2
  <2> HIDE DEF e, f, vs
  <2>2. [i \in 1..Len(ws) |-> f(i)] = SubSeq([i \in 1..Len(vs) |-> e(i)], 1, 1)
    BY <1>1, <1>2, <2>1
  <2>3. QED BY <2>2 DEF e, f, ValueIn
<1>12. QED BY <1>9, <1>10, <1>11 DEF ws, lp, g

LEMMA MoreShown ==
  ASSUME NEW h, NEW vs \in Vectors
  PROVE  ValueIn(h, Append(vs, <<>>)) = Append(ValueIn(h, vs), <<>>)
<1> DEFINE ws == Append(vs, <<>>)
           n == Len(vs)
           e(i) == [j \in 1..Len(vs[i]) |-> h[vs[i][j]]]
           f(i) == [j \in 1..Len(ws[i]) |-> h[ws[i][j]]]
<1>1. /\ n \in Nat /\ Len(ws) = n + 1
      /\ (\A i \in 1..n : ws[i] = vs[i]) /\ ws[n + 1] = <<>>
  BY VectorsAre, EmptySeq, AppendProperties DEF Vectors
<1> HIDE DEF n, ws
<1>2. (\A i \in 1..n : f(i) = e(i)) /\ f(n + 1) = <<>>
  BY <1>1
<1> HIDE DEF e, f
<1>3. [i \in 1..(n + 1) |-> f(i)] = Append([i \in 1..n |-> e(i)], <<>>)
  BY <1>1, <1>2
<1>4. QED BY <1>1, <1>3 DEF e, f, n, ws, ValueIn

\* one more vector, in the room there is
LEMMA ListAdded ==
  ASSUME NEW h \in Heap, NEW ls \in [Objects -> Vectors], Once(h, ls), NEW o \in Objects
  PROVE  LET ws == Append(ls[o], <<>>) IN
         /\ Replaces(h, ls, o, ws, h)
         /\ ValueIn(h, ws) = Append(ValueIn(h, ls[o]), <<>>)
<1> DEFINE vs == ls[o]
           ws == Append(vs, <<>>)
<1>1. vs \in Vectors /\ Distinct(vs)
  BY DEF Once
<1>2. ws \in Vectors /\ \A i, j, a : Holds(ws, i, j, a) <=> Holds(vs, i, j, a)
  BY <1>1, MoreHolds
<1>3. \A a \in Pointers(vs) : a \in Addresses /\ h[a] # Free
  BY <1>1, InPointers DEF Once
<1>4. ValueIn(h, ws) = Append(ValueIn(h, vs), <<>>)
  BY <1>1, MoreShown
<1> HIDE DEF ws
<1>5. \A a : a \in Pointers(ws) <=> a \in Pointers(vs)
  <2>1. /\ \A a : a \in Pointers(ws) <=> \E i, j : Holds(ws, i, j, a)
        /\ \A a : a \in Pointers(vs) <=> \E i, j : Holds(vs, i, j, a)
    BY <1>1, <1>2, InPointers
  <2>2. QED BY <1>2, <2>1
<1>6. Distinct(ws)
  BY <1>1, <1>2 DEF Distinct
<1>7. Replaces(h, ls, o, ws, h)
  BY <1>2, <1>3, <1>5, <1>6 DEF Replaces
<1>8. QED BY <1>4, <1>7 DEF ws

\* one more vector, when those of the loop move to where there is room
LEMMA ListMoved ==
  ASSUME NEW h \in Heap, NEW ls \in [Objects -> Vectors], Once(h, ls),
         NEW o \in Objects, ls[o] # <<>>, NEW at \in New(h, Loop(ls[o]))
  PROVE  LET ws == First(ls[o]) \o Dup(Loop(ls[o]), at) \o <<<<>>>>
             g == Purged(Dupped(h, Loop(ls[o]), at), Loop(ls[o])) IN
         /\ Replaces(h, ls, o, ws, g)
         /\ ValueIn(g, ws) = Append(ValueIn(h, ls[o]), <<>>)
<1> DEFINE vs == ls[o]
           fs == First(vs)
           lp == Loop(vs)
           ds == Dup(lp, at)
           d == Dupped(h, lp, at)
           g == Purged(d, lp)
           ms == fs \o ds
           ws == Append(ms, <<>>)
<1>1. vs \in Vectors /\ Distinct(vs) /\ Len(vs) \in Nat /\ Len(vs) >= 1
  BY VectorsAre, EmptySeq DEF Once, Vectors
<1>2. /\ fs \in Vectors /\ Len(fs) = 1 /\ fs[1] = vs[1]
      /\ \A i, j, a : Holds(fs, i, j, a) <=> i = 1 /\ Holds(vs, 1, j, a)
  BY <1>1, FirstHolds
<1>3. /\ lp \in Vectors /\ Len(lp) = Len(vs) - 1
      /\ \A i \in 1..(Len(vs) - 1) : lp[i] = vs[i + 1]
      /\ \A i, j, a : Holds(lp, i, j, a) <=> i \in 1..(Len(vs) - 1) /\ Holds(vs, i + 1, j, a)
  BY <1>1, LoopHolds
<1>4. \A a \in Pointers(vs) : a \in Addresses /\ h[a] # Free
  BY <1>1, InPointers DEF Once
<1> HIDE DEF fs, lp
<1>5. \A a : a \in Pointers(vs) <=> a \in Pointers(fs) \/ a \in Pointers(lp)
  <2>1. /\ \A a : a \in Pointers(fs) <=> \E i, j : Holds(fs, i, j, a)
        /\ \A a : a \in Pointers(vs) <=> \E i, j : Holds(vs, i, j, a)
        /\ \A a : a \in Pointers(lp) <=> \E i, j : Holds(lp, i, j, a)
    BY <1>1, <1>2, <1>3, InPointers
  <2>2. ASSUME NEW i, NEW j, NEW a, Holds(vs, i, j, a), i # 1
        PROVE  Holds(lp, i - 1, j, a)
    <3>1. i \in 2..Len(vs)
      BY <1>1, <2>2 DEF Holds
    <3>2. i - 1 \in 1..(Len(vs) - 1) /\ (i - 1) + 1 = i
      BY <1>1, <3>1
    <3>3. QED BY <1>3, <2>2, <3>2
  <2>3. \A i, j, a : Holds(vs, i, j, a) => Holds(fs, i, j, a) \/ Holds(lp, i - 1, j, a)
    BY <1>2, <2>2
  <2>4. QED BY <1>2, <1>3, <2>1, <2>3
<1>6. \A a \in Pointers(fs) : a \notin Pointers(lp)
  <2>1. SUFFICES ASSUME NEW j, NEW i, NEW l, NEW a, Holds(fs, 1, j, a), Holds(lp, i, l, a)
                 PROVE  FALSE
    BY <1>2, <1>3, InPointers
  <2>2. i \in 1..(Len(vs) - 1) /\ Holds(vs, 1, j, a) /\ Holds(vs, i + 1, l, a)
    BY <1>2, <1>3, <2>1
  <2>3. 1 = i + 1
    BY <1>1, <2>2 DEF Distinct
  <2>4. QED BY <1>1, <2>2, <2>3
<1>7. /\ ds \in Vectors /\ Distinct(ds) /\ Len(ds) = Len(lp) /\ d \in Heap
      /\ \A a \in Pointers(ds) : a \in Addresses /\ h[a] = Free /\ d[a] # Free
      /\ \A a \in Addresses \ Pointers(ds) : d[a] = h[a]
      /\ ValueIn(d, ds) = ValueIn(h, lp)
  <2>1. \A a \in Pointers(lp) : h[a] # Free
    BY <1>4, <1>5
  <2>2. at \in New(h, lp)
    BY DEF lp
  <2>3. QED BY <1>3, <2>1, <2>2, CopiesAre
<1> HIDE DEF ds, d
<1>8. g \in Heap /\ \A a \in Addresses : g[a] = IF a \in Pointers(lp) THEN Free ELSE d[a]
  BY <1>7, PurgedIs
<1>9. /\ ms \in Vectors /\ Len(ms) = Len(vs)
      /\ \A i \in 1..Len(vs) : ms[i] = IF i <= 1 THEN fs[i] ELSE ds[i - 1]
      /\ \A i, j, a : Holds(ms, i, j, a) <=> \/ Holds(fs, i, j, a)
                                             \/ i \in 2..Len(vs) /\ Holds(ds, i - 1, j, a)
  <2> DEFINE n == Len(fs) + Len(ds)
  <2>1. /\ ms \in Vectors /\ Len(ms) = n
        /\ \A i \in 1..n : ms[i] = IF i <= Len(fs) THEN fs[i] ELSE ds[i - Len(fs)]
        /\ \A i, j, a : Holds(ms, i, j, a) <=>
             \/ Holds(fs, i, j, a)
             \/ i \in (Len(fs) + 1)..n /\ Holds(ds, i - Len(fs), j, a)
    BY <1>2, <1>7, JoinedHolds
  <2>2. n = Len(vs) /\ Len(fs) = 1 /\ 1 + 1 = 2
    BY <1>1, <1>2, <1>3, <1>7
  <2> HIDE DEF n, ms
  <2>3. QED BY <2>1, <2>2
<1> HIDE DEF g, ms
<1>10. ws \in Vectors /\ \A i, j, a : Holds(ws, i, j, a) <=> Holds(ms, i, j, a)
  BY <1>9, MoreHolds
<1>11. ValueIn(g, ws) = Append(ValueIn(g, ms), <<>>)
  BY <1>9, MoreShown
<1>12. ws = fs \o ds \o <<<<>>>>
  <2>1. ms \in Seq(Seq(Addresses)) /\ <<>> \in Seq(Addresses)
    BY <1>9, EmptySeq DEF Vectors
  <2>2. ms \o <<<<>>>> = Append(ms, <<>>)
    BY <2>1, AppendIsConcat
  <2>3. QED BY <2>2 DEF ms
<1> HIDE DEF ws
<1>13. \A a : a \in Pointers(ws) <=> a \in Pointers(fs) \/ a \in Pointers(ds)
  <2>1. /\ \A a : a \in Pointers(ws) <=> \E i, j : Holds(ws, i, j, a)
        /\ \A a : a \in Pointers(fs) <=> \E i, j : Holds(fs, i, j, a)
        /\ \A a : a \in Pointers(ds) <=> \E i, j : Holds(ds, i, j, a)
    BY <1>2, <1>7, <1>10, InPointers
  <2>2. ASSUME NEW i, NEW j, NEW a, Holds(ds, i, j, a) PROVE Holds(ms, i + 1, j, a)
    <3>1. i \in 1..(Len(vs) - 1)
      BY <1>3, <1>7, <2>2 DEF Holds
    <3>2. i + 1 \in 2..Len(vs) /\ (i + 1) - 1 = i
      BY <1>1, <3>1
    <3>3. QED BY <1>9, <2>2, <3>2
  <2>3. QED BY <1>9, <1>10, <2>1, <2>2
<1>14. \A a \in Pointers(fs) : a \notin Pointers(ds)
  BY <1>4, <1>5, <1>7
<1>15. Distinct(ws)
  <2>1. ASSUME NEW i, NEW j, NEW k, NEW l, NEW a, Holds(ms, i, j, a), Holds(ms, k, l, a)
        PROVE  i = k /\ j = l
    <3>1. ~(Holds(fs, i, j, a) /\ Holds(ds, k - 1, l, a)) /\ ~(Holds(ds, i - 1, j, a) /\ Holds(fs, k, l, a))
      BY <1>2, <1>7, <1>14, InPointers
    <3>2. CASE Holds(fs, i, j, a) /\ Holds(fs, k, l, a)
      BY <1>1, <1>2, <3>2 DEF Distinct
    <3>3. CASE Holds(ds, i - 1, j, a) /\ Holds(ds, k - 1, l, a) /\ i \in 2..Len(vs) /\ k \in 2..Len(vs)
      <4>1. i - 1 = k - 1 /\ j = l
        BY <1>7, <3>3 DEF Distinct
      <4>2. QED BY <1>1, <3>3, <4>1
    <3>4. QED BY <1>9, <2>1, <3>1, <3>2, <3>3
  <2>2. QED BY <1>10, <2>1 DEF Distinct
<1>16. \A a \in Pointers(fs) \cup Pointers(ds) : a \in Addresses /\ g[a] = d[a] /\ d[a] # Free
  BY <1>4, <1>5, <1>6, <1>7, <1>8, <1>14
<1>17. Replaces(h, ls, o, ws, g)
  <2>1. \A a \in Pointers(ws) : (h[a] = Free \/ a \in Pointers(vs)) /\ g[a] # Free
    BY <1>5, <1>7, <1>13, <1>16
  <2>2. \A a \in Addresses \ Pointers(ws) : g[a] = IF a \in Pointers(vs) THEN Free ELSE h[a]
    BY <1>5, <1>7, <1>8, <1>13
  <2>3. QED BY <1>8, <1>10, <1>15, <2>1, <2>2 DEF Replaces
<1>18. ValueIn(g, ms) = ValueIn(h, vs)
  <2>1. ASSUME NEW i \in 1..Len(vs)
        PROVE  Len(vs[i]) = Len(ms[i]) /\ \A j \in 1..Len(vs[i]) : h[vs[i][j]] = g[ms[i][j]]
    <3>1. CASE i = 1
      <4>1. ms[i] = vs[i]
        BY <1>2, <1>9, <3>1
      <4>2. \A j \in 1..Len(vs[i]) : vs[i][j] \in Pointers(fs)
        BY <1>2, <3>1, InPointers DEF Holds
      <4>3. \A a \in Pointers(fs) : g[a] = h[a]
        BY <1>4, <1>5, <1>7, <1>14, <1>16
      <4>4. QED BY <4>1, <4>2, <4>3
    <3>2. CASE i # 1
      <4> DEFINE k == i - 1
      <4>1. k \in 1..(Len(vs) - 1) /\ k + 1 = i /\ ~(i <= 1)
        BY <1>1, <2>1, <3>2
      <4>2. ms[i] = ds[k] /\ lp[k] = vs[i] /\ k \in 1..Len(lp) /\ k \in 1..Len(ds)
        BY <1>3, <1>7, <1>9, <4>1
      <4> HIDE DEF k
      <4>3. /\ Len(ValueIn(d, ds)[k]) = Len(ds[k]) /\ Len(ValueIn(h, lp)[k]) = Len(lp[k])
            /\ \A j \in 1..Len(ds[k]) : ValueIn(d, ds)[k][j] = d[ds[k][j]]
            /\ \A j \in 1..Len(lp[k]) : ValueIn(h, lp)[k][j] = h[lp[k][j]]
        BY <1>3, <1>7, <4>2, ValueIs
      <4>4. Len(ds[k]) = Len(lp[k]) /\ \A j \in 1..Len(ds[k]) : d[ds[k][j]] = h[lp[k][j]]
        BY <1>7, <4>3
      <4>5. \A j \in 1..Len(ds[k]) : ds[k][j] \in Pointers(ds)
        BY <1>7, <4>2, InPointers DEF Holds
      <4>6. \A j \in 1..Len(ds[k]) : g[ds[k][j]] = d[ds[k][j]]
        BY <1>16, <4>5
      <4>7. QED BY <4>2, <4>4, <4>6
    <3>3. QED BY <3>1, <3>2
  <2>2. Len(vs) = Len(ms) /\ vs \in Vectors /\ ms \in Vectors
    BY <1>1, <1>9
  <2> HIDE DEF vs
  <2>3. ValueIn(h, vs) = ValueIn(g, ms)
    BY <2>1, <2>2, SameValue
  <2>4. QED BY <2>3
<1>19. ValueIn(g, ws) = Append(ValueIn(h, vs), <<>>)
  BY <1>11, <1>18
<1>20. QED BY <1>12, <1>17, <1>19 DEF fs, lp, ds, d, g

----------------------------------------------------------------------------
\* the step replaces the vectors of o by others that show v
Makes(o, v) == \E ws : /\ lists' = [lists EXCEPT ![o] = ws]
                       /\ Replaces(heap, lists, o, ws, heap')
                       /\ ValueIn(heap', ws) = v

Shown(o) == ValueIn(heap, lists[o])
Parts == {"network", "loop", "list"}

LEMMA InvIs ==
  ASSUME IInv
  PROVE  /\ heap \in Heap /\ lists \in [Objects -> Vectors] /\ Once(heap, lists)
         /\ \A o \in Objects : /\ lists[o] \in Vectors
                               /\ Shown(o) = <<>> <=> lists[o] = <<>>
         /\ parsing = <<>> \/ \E o \in Live, part \in Parts : parsing = <<o, part>>
         /\ \A o, part : parsing = <<o, part>> => lists[o] # <<>>
<1>1. heap \in Heap /\ lists \in [Objects -> Vectors]
  BY DEF IInv, TypeOK, Heap, Vectors
<1>2. Once(heap, lists)
  BY <1>1, OnceIsOwned DEF IInv, OwnedOnce
<1>3. ASSUME NEW o \in Objects PROVE lists[o] \in Vectors /\ (Shown(o) = <<>> <=> lists[o] = <<>>)
  <2> DEFINE vs == lists[o]
  <2>1. vs \in Vectors /\ Len(Shown(o)) = Len(vs)
    BY <1>1, ValueIs DEF Shown
  <2>2. vs = <<>> => Shown(o) = <<>>
    BY DEF Shown, ValueIn
  <2>3. Len(vs) = 0 => vs = <<>>
    BY <2>1, EmptySeq DEF Vectors
  <2>4. Len(<<>>) = 0
    BY EmptySeq
  <2> HIDE DEF vs
  <2>5. vs \in Vectors /\ (Shown(o) = <<>> <=> vs = <<>>)
    BY <2>1, <2>2, <2>3, <2>4
  <2>6. QED BY <2>5 DEF vs
<1>4. parsing = <<>> \/ \E o \in Live, part \in Parts : parsing = <<o, part>>
  BY DEF IInv, TypeOK, Parts
<1>5. ASSUME NEW o, NEW part, parsing = <<o, part>> PROVE lists[o] # <<>>
  <2>1. PICK x \in Live, p \in Parts : <<o, part>> = <<x, p>>
    BY <1>4, <1>5
  <2>2. QED BY <2>1 DEF Live
<1>6. QED BY <1>1, <1>2, <1>3, <1>4, <1>5

LEMMA MakesKeeps ==
  ASSUME IInv, NEW o \in Objects, NEW v, Makes(o, v),
         parsing' = <<>> \/ (1 \in DOMAIN v /\ \E part \in Parts : parsing' = <<o, part>>)
  PROVE  IInv'
<1>1. PICK ws : /\ lists' = [lists EXCEPT ![o] = ws]
                /\ Replaces(heap, lists, o, ws, heap')
                /\ ValueIn(heap', ws) = v
  BY DEF Makes
<1>2. heap \in Heap /\ lists \in [Objects -> Vectors] /\ Once(heap, lists)
  BY InvIs
<1>3. Once(heap', lists')
  BY <1>1, <1>2, StaysOnce
<1>4. ws \in Vectors /\ heap' \in Heap
  BY <1>1 DEF Replaces
<1>5. lists' \in [Objects -> Vectors] /\ lists'[o] = ws
  BY <1>1, <1>2, <1>4
<1>6. OwnedOnce'
  <2>1. /\ \A a \in Addresses : heap'[a] # Free <=> \E x \in Objects : a \in Pointers(lists'[x])
        /\ \A x, y \in Objects : \A p \in Places(lists'[x]), q \in Places(lists'[y]) :
             lists'[x][p[1]][p[2]] = lists'[y][q[1]][q[2]] => x = y /\ p = q
    BY <1>3, <1>5, OnceIsOwned
  <2>2. QED BY <2>1 DEF OwnedOnce, Pointers, Places
<1>7. TypeOK'
  <2>1. 1 \in DOMAIN v => ws # <<>>
    BY <1>1, <1>4, ValueIs, EmptySeq
  <2>2. parsing' \in {<<>>} \cup (Live' \X Parts)
    BY <1>5, <2>1 DEF Live
  <2>3. QED BY <1>4, <1>5, <2>2 DEF TypeOK, Heap, Vectors, Parts
<1>8. QED BY <1>6, <1>7 DEF IInv

\* every operation, and what it makes of its object
LEMMA ConstructMakes ==
  ASSUME IInv, NEW o \in Objects, Construct(o)
  PROVE  Makes(o, <<<<>>>>)
<1>1. heap' = heap /\ lists' = [lists EXCEPT ![o] = <<<<>>>>] /\ lists[o] = <<>>
  BY DEF Construct, Live
<1>2. QED BY <1>1, InvIs, Constructed DEF Makes

LEMMA DestroyMakes ==
  ASSUME IInv, NEW o \in Objects, Destroy(o)
  PROVE  Makes(o, <<>>)
<1>1. heap' = Purged(heap, lists[o]) /\ lists' = [lists EXCEPT ![o] = <<>>]
  BY DEF Destroy
<1>2. Replaces(heap, lists, o, <<>>, heap') /\ ValueIn(heap', <<>>) = <<>>
  BY <1>1, InvIs, Destroyed DEF ValueIn
<1>3. QED BY <1>1, <1>2 DEF Makes

LEMMA CopyConstructMakes ==
  ASSUME IInv, NEW o \in Objects, NEW x \in Objects, CopyConstruct(o, x)
  PROVE  Makes(o, Shown(x))
<1>1. PICK at \in New(heap, lists[x]) : /\ lists' = [lists EXCEPT ![o] = Dup(lists[x], at)]
                                        /\ heap' = Dupped(heap, lists[x], at)
  BY DEF CopyConstruct
<1>2. lists[o] = <<>>
  BY DEF CopyConstruct, Live
<1>3. QED BY <1>1, <1>2, InvIs, CopiedAnew DEF Makes, Shown

LEMMA AssignMakes ==
  ASSUME IInv, NEW o \in Objects, NEW x \in Objects, Assign(o, x)
  PROVE  Makes(o, Shown(x))
<1>1. /\ heap \in Heap /\ lists \in [Objects -> Vectors] /\ Once(heap, lists)
      /\ lists[o] \in Vectors
  BY InvIs
<1>2. CASE o = x
  <2>1. heap' = heap /\ lists' = [lists EXCEPT ![o] = lists[o]]
    BY <1>1, <1>2 DEF Assign, Same
  <2>2. Replaces(heap, lists, o, lists[o], heap)
    BY <1>1, InPointers DEF Replaces, Once
  <2>3. QED BY <1>2, <2>1, <2>2 DEF Makes, Shown
<1>3. CASE o # x
  <2>1. [lists EXCEPT ![o] = <<<<>>>>][x] = lists[x]
    BY <1>1, <1>3
  <2>2. \/ \E at \in New(Purged(heap, lists[o]), lists[x]) :
             /\ lists' = [lists EXCEPT ![o] = Dup(lists[x], at)]
             /\ heap' = Dupped(Purged(heap, lists[o]), lists[x], at)
        \/ \E at \in New(heap, lists[x]) :
             /\ lists' = [lists EXCEPT ![o] = Dup(lists[x], at)]
             /\ heap' = Purged(Dupped(heap, lists[x], at), lists[o])
    BY <1>3, <2>1 DEF Assign, Same
  <2>3. QED BY <1>1, <1>3, <2>2, CopiedOver DEF Makes, Shown
<1>4. QED BY <1>2, <1>3

LEMMA WriteMakes ==
  ASSUME IInv, NEW o \in Objects, NEW p \in Places(lists[o]), NEW c \in Contents,
         Write(o, p[1], p[2], c)
  PROVE  Makes(o, Put(Shown(o), p[1], p[2], c))
<1>1. /\ heap \in Heap /\ lists \in [Objects -> Vectors] /\ Once(heap, lists)
      /\ lists[o] \in Vectors
  BY InvIs
<1>2. p[1] \in 1..Len(lists[o]) /\ p[2] \in 1..Len(lists[o][p[1]])
  BY <1>1, InPlaces
<1>3. /\ heap' = [heap EXCEPT ![lists[o][p[1]][p[2]]] = c]
      /\ lists' = [lists EXCEPT ![o] = lists[o]]
  BY <1>1 DEF Write
<1> DEFINE i == p[1]
           j == p[2]
           g == Set(heap, lists[o][i][j], c)
<1>4. /\ Replaces(heap, lists, o, lists[o], g)
      /\ ValueIn(g, lists[o]) = Put(ValueIn(heap, lists[o]), i, j, c)
  <2> HIDE DEF i, j
  <2>1. i \in 1..Len(lists[o]) /\ j \in 1..Len(lists[o][i])
    BY <1>2 DEF i, j
  <2>2. QED BY <1>1, <2>1, Written
<1>5. heap' = g
  BY <1>3 DEF Set
<1> HIDE DEF g
<1>6. QED BY <1>3, <1>4, <1>5 DEF Makes, Shown

LEMMA ParseNetworkMakes ==
  ASSUME IInv, NEW o \in Objects, ParseNetwork(o)
  PROVE  Makes(o, [Shown(o) EXCEPT ![1] = <<>>])
<1>1. /\ heap' = Purged(heap, First(lists[o])) /\ lists[o] # <<>>
      /\ lists' = [lists EXCEPT ![o] = [lists[o] EXCEPT ![1] = <<>>]]
  BY InvIs DEF ParseNetwork, Live
<1>2. /\ Replaces(heap, lists, o, [lists[o] EXCEPT ![1] = <<>>], heap')
      /\ ValueIn(heap', [lists[o] EXCEPT ![1] = <<>>]) = [ValueIn(heap, lists[o]) EXCEPT ![1] = <<>>]
  BY <1>1, InvIs, NetworkEmptied
<1>3. QED BY <1>1, <1>2 DEF Makes, Shown

LEMMA ParseDescriptorMakes ==
  ASSUME IInv, NEW o \in Objects, NEW part \in Parts, NEW c \in Contents, NEW throws,
         ParseDescriptor(o, part, c, throws)
  PROVE  /\ Current(o, part) \in 1..Len(lists[o])
         /\ Makes(o, Push(Shown(o), Current(o, part), c))
<1> DEFINE k == Current(o, part)
<1>1. k \in 1..Len(lists[o])
  <2>1. lists[o] # <<>> /\ lists[o] \in Vectors
    BY InvIs DEF ParseDescriptor
  <2>2. Len(lists[o]) \in Nat /\ Len(lists[o]) >= 1
    BY <2>1, VectorsAre, EmptySeq DEF Vectors
  <2>3. QED BY <2>2 DEF Current
<1> HIDE DEF k
<1>2. PICK a \in Addresses :
        /\ heap[a] = Free /\ heap' = [heap EXCEPT ![a] = c]
        /\ lists' = [lists EXCEPT ![o] = [lists[o] EXCEPT ![k] = Append(@, a)]]
  BY InvIs DEF ParseDescriptor, Kept, k
<1> DEFINE ws == Push(lists[o], k, a)
           g == Set(heap, a, c)
<1>3. /\ Replaces(heap, lists, o, ws, g)
      /\ ValueIn(g, ws) = Push(ValueIn(heap, lists[o]), k, c)
  <2>1. heap \in Heap /\ lists \in [Objects -> Vectors] /\ Once(heap, lists)
    BY InvIs
  <2>2. QED BY <1>1, <1>2, <2>1, Pushed
<1>4. lists' = [lists EXCEPT ![o] = ws] /\ heap' = g
  BY <1>2 DEF Push, Set
<1> HIDE DEF ws, g
<1>5. Makes(o, Push(Shown(o), k, c))
  BY <1>3, <1>4 DEF Makes, Shown
<1>6. QED BY <1>1, <1>5 DEF k

LEMMA ParseLoopMakes ==
  ASSUME IInv, NEW o \in Objects, ParseLoop(o)
  PROVE  lists[o] # <<>> /\ Makes(o, SubSeq(Shown(o), 1, 1))
<1>1. lists[o] # <<>>
  BY InvIs DEF ParseLoop
<1>2. /\ heap' = Purged(heap, Loop(lists[o]))
      /\ lists' = [lists EXCEPT ![o] = First(lists[o])]
  BY InvIs DEF ParseLoop
<1>3. QED BY <1>1, <1>2, InvIs, LoopCleared DEF Makes, Shown

LEMMA ParseListMakes ==
  ASSUME IInv, NEW o \in Objects, ParseList(o)
  PROVE  Makes(o, Append(Shown(o), <<>>))
<1>1. lists[o] # <<>>
  BY InvIs DEF ParseList
<1>2. CASE lists' = [lists EXCEPT ![o] = Append(lists[o], <<>>)] /\ heap' = heap
  BY <1>2, InvIs, ListAdded DEF Makes, Shown
<1>3. ASSUME NEW at \in New(heap, Loop(lists[o])),
             lists' = [lists EXCEPT ![o] = First(lists[o]) \o Dup(Loop(lists[o]), at) \o <<<<>>>>],
             heap' = Purged(Dupped(heap, Loop(lists[o]), at), Loop(lists[o]))
      PROVE  Makes(o, Append(Shown(o), <<>>))
  BY <1>1, <1>3, InvIs, ListMoved DEF Makes, Shown
<1>4. QED BY <1>2, <1>3, InvIs DEF ParseList

----------------------------------------------------------------------------
LEMMA InitInv == Init => IInv
<1> SUFFICES ASSUME Init PROVE IInv
  OBVIOUS
<1>1. <<>> \in Vectors /\ Pointers(<<>>) = {} /\ Places(<<>>) = {}
  BY NoneHeld, InPointers DEF Places
<1>2. TypeOK
  BY <1>1 DEF Init, Idle, TypeOK, Vectors
<1>3. OwnedOnce
  BY <1>1 DEF Init, OwnedOnce
<1>4. QED BY <1>2, <1>3 DEF IInv

\* no object without vectors shows anything, and one with vectors shows each
LEMMA ShownIs ==
  ASSUME IInv, NEW o \in Objects
  PROVE  /\ DOMAIN Shown(o) = 1..Len(lists[o]) /\ Len(Shown(o)) = Len(lists[o])
         /\ \A i \in 1..Len(lists[o]) : DOMAIN Shown(o)[i] = 1..Len(lists[o][i])
         /\ lists[o] # <<>> => 1 \in DOMAIN Shown(o)
<1>1. lists[o] \in Vectors
  BY InvIs
<1>2. Len(lists[o]) \in Nat /\ (lists[o] # <<>> => Len(lists[o]) >= 1)
  BY <1>1, VectorsAre, EmptySeq DEF Vectors
<1>3. QED BY <1>1, <1>2, ValueIs DEF Shown

LEMMA StepInv ==
  ASSUME IInv, [Next]_vars
  PROVE  IInv'
<1>1. ASSUME NEW o \in Objects, Construct(o) PROVE IInv'
  BY <1>1, ConstructMakes, MakesKeeps DEF Construct, Idle
<1>2. ASSUME NEW o \in Objects, Destroy(o) PROVE IInv'
  BY <1>2, DestroyMakes, MakesKeeps DEF Destroy, Idle
<1>3. ASSUME NEW o \in Objects, ParseNetwork(o) PROVE IInv'
  <2>1. lists[o] # <<>> /\ parsing' = <<o, "network">>
    BY <1>3 DEF ParseNetwork, Live
  <2>2. 1 \in DOMAIN [Shown(o) EXCEPT ![1] = <<>>]
    BY <2>1, ShownIs
  <2>3. QED BY <1>3, <2>1, <2>2, ParseNetworkMakes, MakesKeeps DEF Parts
<1>4. ASSUME NEW o \in Objects, ParseLoop(o) PROVE IInv'
  <2> DEFINE v == SubSeq(Shown(o), 1, 1)
  <2>1. 1 \in DOMAIN v /\ parsing' = <<o, "loop">>
    BY <1>4 DEF ParseLoop
  <2>2. Makes(o, v)
    BY <1>4, ParseLoopMakes
  <2> HIDE DEF v
  <2>3. QED BY <2>1, <2>2, MakesKeeps DEF Parts
<1>5. ASSUME NEW o \in Objects, ParseList(o) PROVE IInv'
  <2> DEFINE v == Append(Shown(o), <<>>)
  <2>1. 1 \in DOMAIN v /\ parsing' = <<o, "list">>
    <3>1. Len(Shown(o)) \in Nat
      BY ShownIs, InvIs, VectorsAre
    <3>2. QED BY <1>5, <3>1 DEF ParseList
  <2>2. Makes(o, v)
    BY <1>5, ParseListMakes
  <2> HIDE DEF v
  <2>3. QED BY <2>1, <2>2, MakesKeeps DEF Parts
<1>6. ASSUME NEW o \in Objects, NEW x \in Objects, CopyConstruct(o, x) PROVE IInv'
  BY <1>6, CopyConstructMakes, MakesKeeps DEF CopyConstruct, Idle
<1>7. ASSUME NEW o \in Objects, NEW x \in Objects, Assign(o, x) PROVE IInv'
  BY <1>7, AssignMakes, MakesKeeps DEF Assign, Idle
<1>8. ASSUME NEW o \in Objects, NEW c \in Contents, NEW p \in Places(lists[o]),
             Write(o, p[1], p[2], c)
      PROVE  IInv'
  BY <1>8, WriteMakes, MakesKeeps DEF Write, Idle
<1>9. ASSUME NEW o \in Objects, NEW c \in Contents, NEW part \in {"network", "list"},
             NEW throws \in BOOLEAN, ParseDescriptor(o, part, c, throws)
      PROVE  IInv'
  <2> DEFINE v == Push(Shown(o), Current(o, part), c)
  <2>1. lists[o] # <<>> /\ parsing = <<o, part>> /\ part \in Parts
    BY <1>9, InvIs DEF ParseDescriptor, Parts
  <2>2. Makes(o, v)
    BY <1>9, <2>1, ParseDescriptorMakes
  <2>3. 1 \in DOMAIN v
    BY <2>1, ShownIs DEF Push
  <2>4. parsing' = <<>> \/ parsing' = <<o, part>>
    BY <1>9, <2>1 DEF ParseDescriptor
  <2> HIDE DEF v
  <2>5. QED BY <2>1, <2>2, <2>3, <2>4, MakesKeeps
<1>10. ASSUME ParseEnds PROVE IInv'
  BY <1>10 DEF ParseEnds, IInv, TypeOK, OwnedOnce, Live
<1>11. ASSUME UNCHANGED vars PROVE IInv'
  BY <1>11 DEF vars, IInv, TypeOK, OwnedOnce, Live
<1>12. QED BY <1>1, <1>2, <1>3, <1>4, <1>5, <1>6, <1>7, <1>8, <1>9, <1>10, <1>11 DEF Next

LEMMA InductiveInvariant == Spec => []IInv
BY InitInv, StepInv, PTL DEF Spec

\* Whatever clients copy, assign, write, destroy and parse into, and wherever
\* the parser is left by an exception: a descriptor that is there stands in one
\* place of one object, and one that is gone in none (descriptors.cpp:22-73)
THEOREM OwnedAlways == Spec => []OwnedOnce
<1>1. IInv => OwnedOnce
  BY DEF IInv
<1>2. QED BY <1>1, InductiveInvariant, PTL

----------------------------------------------------------------------------
LEMMA MakesShows ==
  ASSUME IInv, NEW o \in Objects, NEW v, Makes(o, v)
  PROVE  Shows(heap', lists') = [Shows(heap, lists) EXCEPT ![o] = v]
<1>1. heap \in Heap /\ lists \in [Objects -> Vectors] /\ Once(heap, lists)
  BY InvIs
<1>2. PICK ws : /\ lists' = [lists EXCEPT ![o] = ws]
                /\ Replaces(heap, lists, o, ws, heap')
                /\ ValueIn(heap', ws) = v
  BY DEF Makes
<1> DEFINE g == heap'
<1>3. Replaces(heap, lists, o, ws, g)
  BY <1>2
<1> HIDE DEF g
<1>4. Shows(g, Set(lists, o, ws)) = Set(Shows(heap, lists), o, ValueIn(g, ws))
  BY <1>1, <1>3, OthersKept
<1>5. QED BY <1>2, <1>4 DEF g, Set

\* what DescriptorValues calls value, and the objects there are for it
LEMMA ValueShows ==
  ASSUME IInv
  PROVE  /\ [o \in Objects |-> Value(lists[o])] = Shows(heap, lists)
         /\ [o \in Objects |-> Value(lists[o])]' = Shows(heap', lists')
         /\ \A o \in Objects : Shows(heap, lists)[o] = Shown(o)
         /\ Values!Live = Live
<1>1. /\ [o \in Objects |-> Value(lists[o])] = Shows(heap, lists)
      /\ [o \in Objects |-> Value(lists[o])]' = Shows(heap', lists')
      /\ \A o \in Objects : Shows(heap, lists)[o] = Shown(o)
  BY DEF Value, Shows, ValueIn, Shown
<1>2. Values!Live = Live
  BY <1>1, InvIs DEF Values!Live, Live, Values!Nothing
<1>3. QED BY <1>1, <1>2

\* a step that makes v of an object is one that assigns v to its value
LEMMA Assigned ==
  ASSUME IInv, NEW o \in Objects, NEW v, Makes(o, v)
  PROVE  [x \in Objects |-> Value(lists[x])]'
           = [[x \in Objects |-> Value(lists[x])] EXCEPT ![o] = v]
BY MakesShows, ValueShows

LEMMA StepImplements ==
  ASSUME IInv, [Next]_vars
  PROVE  [Values!Next]_Values!vars
<1> DEFINE value == [x \in Objects |-> Value(lists[x])]
<1>1. /\ Values!Live = Live
      /\ \A o \in Objects : value[o] = Shown(o)
  BY ValueShows
<1>2. ASSUME NEW o \in Objects, NEW v, Makes(o, v) PROVE value' = [value EXCEPT ![o] = v]
  BY <1>2, Assigned
<1>3. ASSUME NEW o \in Objects, Construct(o) PROVE Values!Construct(o)
  BY <1>1, <1>2, <1>3, ConstructMakes DEF Construct, Idle, Values!Construct, Values!Idle
<1>4. ASSUME NEW o \in Objects, Destroy(o) PROVE Values!Destroy(o)
  BY <1>1, <1>2, <1>4, DestroyMakes DEF Destroy, Idle, Values!Destroy, Values!Idle, Values!Nothing
<1>5. ASSUME NEW o \in Objects, ParseNetwork(o) PROVE Values!ParseNetwork(o)
  BY <1>1, <1>2, <1>5, ParseNetworkMakes
     DEF ParseNetwork, Idle, Values!ParseNetwork, Values!Idle
<1>6. ASSUME NEW o \in Objects, ParseLoop(o) PROVE Values!ParseLoop(o)
  BY <1>1, <1>2, <1>6, ParseLoopMakes DEF ParseLoop, Values!ParseLoop
<1>7. ASSUME NEW o \in Objects, ParseList(o) PROVE Values!ParseList(o)
  BY <1>1, <1>2, <1>7, ParseListMakes DEF ParseList, Values!ParseList
<1>8. ASSUME NEW o \in Objects, NEW x \in Objects, CopyConstruct(o, x) PROVE Values!Copy(o, x)
  BY <1>1, <1>2, <1>8, CopyConstructMakes DEF CopyConstruct, Idle, Values!Copy, Values!Idle
<1>9. ASSUME NEW o \in Objects, NEW x \in Objects, Assign(o, x) PROVE Values!Copy(o, x)
  <2>1. Idle /\ x \in Live /\ UNCHANGED parsing
    BY <1>9 DEF Assign
  <2>2. value' = [value EXCEPT ![o] = value[x]]
    BY <1>1, <1>2, <1>9, AssignMakes
  <2>3. QED BY <1>1, <2>1, <2>2 DEF Idle, Values!Copy, Values!Idle
<1>10. ASSUME NEW o \in Objects, NEW c \in Contents, NEW p \in Places(lists[o]),
              Write(o, p[1], p[2], c)
       PROVE  \E i \in DOMAIN value[o] : \E j \in DOMAIN value[o][i] : Values!Write(o, i, j, c)
  <2>1. p[1] \in DOMAIN value[o] /\ p[2] \in DOMAIN value[o][p[1]]
    <3>1. p[1] \in 1..Len(lists[o]) /\ p[2] \in 1..Len(lists[o][p[1]])
      BY InvIs, InPlaces
    <3>2. QED BY <1>1, <3>1, ShownIs
  <2>2. Values!Write(o, p[1], p[2], c)
    BY <1>1, <1>2, <1>10, WriteMakes DEF Write, Idle, Put, Values!Write, Values!Idle
  <2>3. QED BY <2>1, <2>2
<1>11. ASSUME NEW o \in Objects, NEW c \in Contents, NEW part \in {"network", "list"},
              NEW throws \in BOOLEAN, ParseDescriptor(o, part, c, throws)
       PROVE  Values!ParseDescriptor(o, part, c)
  <2> DEFINE k == Current(o, part)
             i == IF part = "network" THEN 1 ELSE Len(value[o])
  <2>1. Makes(o, Push(Shown(o), k, c)) /\ k = i
    BY <1>1, <1>11, ParseDescriptorMakes, ShownIs DEF Parts, Current
  <2>2. value' = [value EXCEPT ![o] = Push(Shown(o), i, c)]
    BY <1>2, <2>1
  <2>3. value' = [value EXCEPT ![o][i] = Append(@, c)]
    BY <1>1, <2>2 DEF Push
  <2>4. parsing = <<o, part>> /\ parsing' \in {parsing, <<>>}
    BY <1>11 DEF ParseDescriptor
  <2>5. QED BY <2>3, <2>4 DEF Values!ParseDescriptor
<1>12. ASSUME ParseEnds PROVE Values!ParseEnds
  BY <1>12 DEF ParseEnds, Idle, Values!ParseEnds, Values!Idle, Value
<1>13. ASSUME UNCHANGED vars PROVE UNCHANGED Values!vars
  BY <1>13 DEF vars, Values!vars, Value
<1>14. QED
  BY <1>3, <1>4, <1>5, <1>6, <1>7, <1>8, <1>9, <1>10, <1>11, <1>12, <1>13
     DEF Next, Values!Next

\* The vectors of pointers are values to their clients: a copy is equal and
\* stays apart, what is parsed into one object no other shows, and elements
\* that std::vector moves hold what they held (descriptors.cpp:22-73)
THEOREM ValuesImplemented == Spec => ImplementsValues
<1>1. Init => Values!Init
  <2> SUFFICES ASSUME Init PROVE Values!Init
    OBVIOUS
  <2>1. \A o \in Objects : Value(lists[o]) = <<>>
    BY DEF Init, Value
  <2>2. QED BY <2>1 DEF Init, Idle, Values!Init, Values!Idle, Values!Nothing
<1>2. QED
  BY <1>1, StepImplements, InductiveInvariant, PTL DEF Spec, ImplementsValues, Values!Spec
=============================================================================
