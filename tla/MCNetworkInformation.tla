------------------------ MODULE MCNetworkInformation ------------------------
(* Instances of NetworkInformation with bytes of four bits.  The widths of   *)
(* the numbers are chosen so that every structure has whole bytes, and as    *)
(* many as it has with eight, but for the two "reserved" numbers of a        *)
(* section: two bits become four, and each makes the section a byte longer.  *)
EXTENDS NetworkInformation

LOCAL INSTANCE SequencesExt

MCBits == (1 :> 1) @@ (2 :> 4) @@ (4 :> 2) @@ (5 :> 3) @@ (8 :> 4) @@ (12 :> 6)
          @@ (16 :> 8) @@ (28 :> 14) @@ (32 :> 16)

\* x^16 + x^12 + x^5 + 1
MCPolynomial == [i \in 1..16 |-> IF i \in {4, 11, 16} THEN 1 ELSE 0]

\* the alphabet: 0..7 are the digits, 8 the quote, 9 the backslash, 10 ends a
\* line, 11 and 12 are letters, the others are not printed
MCPrintable == (0..9) \cup {11, 12}
Odd == <<8, 9, 10>>
Full == [i \in 1..15 |-> (i + 6) % 16]

Numbers(s) == [i \in 1..Len(s) |-> <<s[i]>>]
Vector(items) == FlattenSeq([i \in 1..Len(items) |-> <<<<1>>>> \o items[i]]) \o <<<<0>>>>

ServiceList(services) ==
  <<<<ServiceListTag>>>> \o Vector([i \in 1..Len(services) |-> Numbers(services[i])])
Cable(frequency) == Numbers(<<CableTag, frequency, 2, 3, 6875, 1>>)
Unknown(tag, chars) == <<<<tag>>, <<Len(chars)>>>> \o (IF chars = <<>> THEN <<>> ELSE <<chars>>)
Adaptation == Numbers(<<AdaptationTag, 3>>)

DescriptorChoices == {ServiceList(<<>>), ServiceList(<<<<200, 7>>>>),
                      ServiceList(<<<<15, 1>>, <<16, 2>>>>),
                      Unknown(0, <<>>), Unknown(5, Odd), Unknown(15, <<0, 15, 9>>)}
DescriptorLists == {<<>>} \cup {<<d>> : d \in DescriptorChoices}
                   \cup {<<d, Unknown(2, <<12>>)>> : d \in DescriptorChoices}

Ts(id, descriptors) == Numbers(<<id, 255>>) \o Vector(descriptors)
Section(descriptors, ts_loop) ==
  Numbers(<<4, 1, 170, 5, 1, 0, 1>>) \o Vector(descriptors) \o Vector(ts_loop)
Object(layout, held) == [layout |-> layout, members |-> held]
Nit(descriptors, ts_loop) == Object("network_information_section", Section(descriptors, ts_loop))

\* a text may be as long as its length can say
Items == {<<s, t>> : s \in {<<>>, Odd, <<13, 1>>}, t \in {<<>>, SubSeq(Full, 1, 10), Full}}
Event(items) == Object("extended_event_descriptor",
                       Numbers(<<7, 9, 1, 2>>) \o <<<<1, 14, 8>>>> \o Vector(items) \o <<Odd>>)

MCFragile == {Nit(ds, <<>>) : ds \in DescriptorLists}
             \cup {Nit(<<ServiceList(<<<<200, 7>>>>)>>, <<Ts(3, <<Unknown(5, Odd)>>)>>)}
MCOverlong == Nit(<<Unknown(5, Full)>>, <<Ts(3, <<Unknown(2, Full)>>)>>)

\* more services than 15 bytes hold, a length that is not that of the data,
\* more descriptors than the buffer holds, a string that is too long, alone or
\* for the block it is in, and a section and a string that begin within a byte
MCMalformed ==
  {Nit(<<ServiceList([i \in 1..6 |-> <<i, i>>])>>, <<>>),
   Nit(<<Numbers(<<5, 2>>) \o <<Odd>>>>, <<>>),
   Nit([i \in 1..3 |-> Unknown(i + 7, Full)], <<>>),
   Object("item", <<Odd, Append(Full, 0)>>),
   Event(<<<<Odd, SubSeq(Full, 1, 11)>>>>), Event(<<<<Odd, Full>>>>),
   Object("bit_and_section", <<<<1>>>> \o Section(<<>>, <<>>)),
   Object("bit_and_item", <<<<1>>, Odd, Odd>>)}

MCObjects ==
  MCFragile \cup MCMalformed \cup {MCOverlong}
  \cup {Nit(<<>>, <<Ts(3, ds), Ts(4, <<>>)>>) : ds \in DescriptorLists}
  \cup {Nit(<<Cable(f)>>, <<>>) : f \in {801, 2748}}
  \cup {Nit(<<Adaptation>>, <<>>)}
  \cup {Object("byte_and_section", <<<<9>>>> \o Section(ds, <<>>)) : ds \in DescriptorLists}
  \cup {Object("ts_specification", Ts(6, ds)) : ds \in DescriptorLists}
  \cup {Object("item", it) : it \in Items}
  \cup {Event(<<>>)} \cup {Event(<<it>>) : it \in {it \in Items : it[2] # Full}}
=============================================================================
