-------------------------- MODULE DescriptorValues --------------------------
(* What lists of descriptors promise their clients: they are values.  An     *)
(* object is a sequence of lists, first that of a network, then those of its *)
(* transport streams; a list is what its descriptors hold.  A copy is an     *)
(* object of its own, parsing changes the object that is parsed into and no  *)
(* other, and what is written to one object no other shows.                  *)
EXTENDS Naturals, Sequences

CONSTANTS Objects,        \* objects with lists of descriptors
          Contents        \* what a descriptor may hold

VARIABLES value,          \* of each object: a sequence of lists
          parsing         \* the object and the part of it that is parsed

vars == <<value, parsing>>

Nothing == <<>>           \* the value of an object that there is not
Live == {o \in Objects : value[o] # Nothing}
Idle == parsing = <<>>

Init == value = [o \in Objects |-> Nothing] /\ Idle

----------------------------------------------------------------------------
Construct(o) == /\ Idle /\ o \notin Live
                /\ value' = [value EXCEPT ![o] = <<<<>>>>]
                /\ UNCHANGED parsing

Destroy(o) == /\ Idle /\ o \in Live
              /\ value' = [value EXCEPT ![o] = Nothing]
              /\ UNCHANGED parsing

Copy(o, from) == /\ Idle /\ from \in Live
                 /\ value' = [value EXCEPT ![o] = value[from]]
                 /\ UNCHANGED parsing

Write(o, i, j, c) == /\ Idle
                     /\ value' = [value EXCEPT ![o][i][j] = c]
                     /\ UNCHANGED parsing

----------------------------------------------------------------------------
\* a parser empties a part and makes it anew, and may give up at any time
ParseNetwork(o) == /\ Idle /\ o \in Live
                   /\ value' = [value EXCEPT ![o][1] = <<>>]
                   /\ parsing' = <<o, "network">>

ParseDescriptor(o, part, c) ==
  LET i == IF part = "network" THEN 1 ELSE Len(value[o]) IN
  /\ parsing = <<o, part>>
  /\ value' = [value EXCEPT ![o][i] = Append(@, c)]
  /\ parsing' \in {parsing, <<>>}

ParseLoop(o) == /\ parsing = <<o, "network">>
                /\ value' = [value EXCEPT ![o] = SubSeq(@, 1, 1)]
                /\ parsing' = <<o, "loop">>

ParseList(o) == /\ parsing \in {<<o, "loop">>, <<o, "list">>}
                /\ value' = [value EXCEPT ![o] = Append(@, <<>>)]
                /\ parsing' = <<o, "list">>

ParseEnds == ~Idle /\ parsing' = <<>> /\ UNCHANGED value

----------------------------------------------------------------------------
Next ==
  \/ \E o \in Objects : \/ Construct(o) \/ Destroy(o)
                        \/ ParseNetwork(o) \/ ParseLoop(o) \/ ParseList(o)
  \/ \E o, from \in Objects : Copy(o, from)
  \/ \E o \in Objects, c \in Contents :
       \/ \E i \in DOMAIN value[o] : \E j \in DOMAIN value[o][i] : Write(o, i, j, c)
       \/ \E part \in {"network", "list"} : ParseDescriptor(o, part, c)
  \/ ParseEnds

Spec == Init /\ [][Next]_vars
=============================================================================
