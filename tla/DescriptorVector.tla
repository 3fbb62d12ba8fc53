-------------------------- MODULE DescriptorVector --------------------------
(* descriptor_vector (src/src/descriptors.cpp): a vector of pointers that    *)
(* owns what it points to, as part of a network_information_section and of   *)
(* the elements of its ts_loop, which the compiler copies, assigns and       *)
(* destroys member by member and which std::vector copies when it grows.     *)
EXTENDS Naturals, Sequences, Functions

CONSTANTS Objects,        \* sections that clients hold
          Contents,       \* what a descriptor may hold
          Addresses,      \* bounds the descriptors there are at once
          Free,           \* the content of an address with no descriptor
          MaxLists        \* a bound on the lists of one object

ASSUME FreeAssumption == Free \notin Contents

VARIABLES heap,           \* what is found at each address
          lists,          \* of each object: the vectors of pointers in it
          parsing         \* the object and the part of it that is parsed

vars == <<heap, lists, parsing>>

Live == {o \in Objects : lists[o] # <<>>}
Idle == parsing = <<>>

Init == /\ heap = [a \in Addresses |-> Free]
        /\ lists = [o \in Objects |-> <<>>]
        /\ Idle

----------------------------------------------------------------------------
\* network_descriptors, and the transport_descriptors of ts_loop
First(vs) == SubSeq(vs, 1, 1)
Loop(vs) == SubSeq(vs, 2, Len(vs))

\* the pointers of vectors, by the places they stand in
Places(vs) == UNION {{<<i, j>> : j \in DOMAIN vs[i]} : i \in DOMAIN vs}
Pointers(vs) == {vs[p[1]][p[2]] : p \in Places(vs)}

\* purge, of each of the vectors: the descriptors are deleted
Purged(h, vs) == [a \in Addresses |-> IF a \in Pointers(vs) THEN Free ELSE h[a]]

\* the addresses that new may give to the copies of what vectors point to
New(h, vs) == Injection(Places(vs), {a \in Addresses : h[a] = Free})

\* push_back(x[i]->dup()) for all there are
Dup(vs, at) == [i \in 1..Len(vs) |-> [j \in 1..Len(vs[i]) |-> at[<<i, j>>]]]

Dupped(h, vs, at) ==
  [a \in Addresses |-> IF \E p \in Places(vs) : at[p] = a
                       THEN LET p == CHOOSE p \in Places(vs) : at[p] = a IN h[vs[p[1]][p[2]]]
                       ELSE h[a]]

----------------------------------------------------------------------------
Construct(o) == /\ Idle /\ o \notin Live
                /\ lists' = [lists EXCEPT ![o] = <<<<>>>>]
                /\ UNCHANGED <<heap, parsing>>

Destroy(o) == /\ Idle /\ o \in Live
              /\ heap' = Purged(heap, lists[o])
              /\ lists' = [lists EXCEPT ![o] = <<>>]
              /\ UNCHANGED parsing

\* the copy constructor
CopyConstruct(o, x) ==
  /\ Idle /\ o \notin Live /\ x \in Live
  /\ \E at \in New(heap, lists[x]) :
       /\ lists' = [lists EXCEPT ![o] = Dup(lists[x], at)]
       /\ heap' = Dupped(heap, lists[x], at)
  /\ UNCHANGED parsing

\* slip for mutation: an object that is assigned to itself is purged first
SameUnnoticed(o, x) == FALSE

Same(o, x) == o = x

\* operator=: std::vector assigns to elements it has, so that each is purged
\* before its new descriptors are made, or makes new elements first
Assign(o, x) ==
  /\ Idle /\ {o, x} \subseteq Live
  /\ IF Same(o, x) THEN UNCHANGED <<heap, lists>>
     ELSE LET purged == Purged(heap, lists[o])
              source == [lists EXCEPT ![o] = <<<<>>>>][x] IN
            \/ \E at \in New(purged, source) :
                 /\ lists' = [lists EXCEPT ![o] = Dup(source, at)]
                 /\ heap' = Dupped(purged, source, at)
            \/ \E at \in New(heap, source) :
                 /\ lists' = [lists EXCEPT ![o] = Dup(source, at)]
                 /\ heap' = Purged(Dupped(heap, source, at), lists[o])
  /\ UNCHANGED parsing

\* a client writes to a member of a descriptor
Write(o, i, j, c) == /\ Idle
                     /\ heap' = [heap EXCEPT ![lists[o][i][j]] = c]
                     /\ UNCHANGED <<lists, parsing>>

----------------------------------------------------------------------------
\* descriptor_vector::io in a parsing mode: it begins with a purge
ParseNetwork(o) ==
  /\ Idle /\ o \in Live
  /\ heap' = Purged(heap, First(lists[o]))
  /\ lists' = [lists EXCEPT ![o][1] = <<>>]
  /\ parsing' = <<o, "network">>

\* the vector that is parsed into
Current(o, part) == IF part = "network" THEN 1 ELSE Len(lists[o])

\* slip for mutation: it is kept once it has been read
KeptWhenRead(throws) == ~throws

\* a descriptor is kept before it is read
Kept(throws) == TRUE

\* one round of the loop: what the factory made is read, or its io throws
ParseDescriptor(o, part, c, throws) ==
  /\ parsing = <<o, part>>
  /\ \E a \in Addresses :
       /\ heap[a] = Free
       /\ heap' = [heap EXCEPT ![a] = c]
       /\ lists' = IF Kept(throws)
                   THEN [lists EXCEPT ![o][Current(o, part)] = Append(@, a)] ELSE lists
  /\ parsing' = IF throws THEN <<>> ELSE parsing

\* vector_io clears ts_loop
ParseLoop(o) ==
  /\ parsing = <<o, "network">>
  /\ heap' = Purged(heap, Loop(lists[o]))
  /\ lists' = [lists EXCEPT ![o] = First(@)]
  /\ parsing' = <<o, "loop">>

\* and gives it one more element.  When there is no room for it, all of them
\* are copied to where there is and destroyed where they were
ParseList(o) ==
  LET loop == Loop(lists[o]) IN
  /\ parsing \in {<<o, "loop">>, <<o, "list">>} /\ Len(lists[o]) < MaxLists
  /\ \/ lists' = [lists EXCEPT ![o] = Append(@, <<>>)] /\ UNCHANGED heap
     \/ \E at \in New(heap, loop) :
          /\ lists' = [lists EXCEPT ![o] = First(@) \o Dup(loop, at) \o <<<<>>>>]
          /\ heap' = Purged(Dupped(heap, loop, at), loop)
  /\ parsing' = <<o, "list">>

\* the block ends, or a call throws before there is another descriptor
ParseEnds == ~Idle /\ parsing' = <<>> /\ UNCHANGED <<heap, lists>>

----------------------------------------------------------------------------
Next ==
  \/ \E o \in Objects : \/ Construct(o) \/ Destroy(o)
                        \/ ParseNetwork(o) \/ ParseLoop(o) \/ ParseList(o)
  \/ \E o, x \in Objects : CopyConstruct(o, x) \/ Assign(o, x)
  \/ \E o \in Objects, c \in Contents :
       \/ \E p \in Places(lists[o]) : Write(o, p[1], p[2], c)
       \/ \E part \in {"network", "list"}, throws \in BOOLEAN : ParseDescriptor(o, part, c, throws)
  \/ ParseEnds

Spec == Init /\ [][Next]_vars

----------------------------------------------------------------------------
\* every variable has its type, and what is parsed is there
TypeOK == /\ heap \in [Addresses -> Contents \cup {Free}]
          /\ lists \in [Objects -> Seq(Seq(Addresses))]
          /\ parsing \in {<<>>} \cup (Live \X {"network", "loop", "list"})

\* No descriptor is lost, deleted twice or pointed to when it is gone: each
\* that there is stands in one place of one object.  purge, the copies and the
\* parser that is left by an exception (descriptors.cpp:22-73) keep it so
OwnedOnce ==
  /\ \A a \in Addresses :
       heap[a] # Free <=> \E o \in Objects : a \in Pointers(lists[o])
  /\ \A o, x \in Objects : \A p \in Places(lists[o]), q \in Places(lists[x]) :
       lists[o][p[1]][p[2]] = lists[x][q[1]][q[2]] => o = x /\ p = q

\* TypeOK and OwnedOnce together are kept by every step
IInv == TypeOK /\ OwnedOnce

\* What a client sees of the vectors is what the values would show: a copy is
\* equal and stays apart, an object assigned to itself stays what it was, and
\* elements that have moved hold what they held
Value(vs) == [i \in 1..Len(vs) |-> [j \in 1..Len(vs[i]) |-> heap[vs[i][j]]]]
Values == INSTANCE DescriptorValues WITH value <- [o \in Objects |-> Value(lists[o])]
ImplementsValues == Values!Spec
=============================================================================
