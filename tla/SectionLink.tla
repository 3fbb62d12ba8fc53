---------------------------- MODULE SectionLink ----------------------------
(* What sec2ts on one side and psi_extractor on the other promise together:  *)
(* a queue of sections, first in first out.  Once the link between them has  *)
(* lost a packet, sections may be skipped, and once it has repeated one some *)
(* may be received again; but none is altered or invented, and without a     *)
(* packet repeated none is overtaken.                                        *)
EXTENDS Naturals, Sequences

VARIABLES submitted, received,
          faulty,         \* a packet was lost or repeated
          again           \* a packet was repeated
vars == <<submitted, received, faulty, again>>

Init == submitted = <<>> /\ received = <<>> /\ ~faulty /\ ~again

Submit == /\ Len(submitted') = Len(submitted) + 1
          /\ SubSeq(submitted', 1, Len(submitted)) = submitted
          /\ UNCHANGED <<received, faulty, again>>

Receive == /\ Len(received) < Len(submitted)
           /\ received' = Append(received, submitted[Len(received) + 1])
           /\ UNCHANGED <<submitted, faulty, again>>

\* a section submitted after the one received last, or any if it may come again
ReceiveDespiteFaults ==
  /\ faulty
  /\ \E k \in 1..Len(submitted) :
       /\ again \/ received = <<>>
            \/ \E j \in 1..(k - 1) : received[Len(received)] = submitted[j]
       /\ received' = Append(received, submitted[k])
  /\ UNCHANGED <<submitted, faulty, again>>

Fault == /\ faulty'
         /\ again => again'
         /\ UNCHANGED <<submitted, received>>

Next == Submit \/ Receive \/ ReceiveDespiteFaults \/ Fault
Spec == Init /\ [][Next]_vars
=============================================================================
