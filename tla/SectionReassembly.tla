------------------------- MODULE SectionReassembly -------------------------
(* What a psi_extractor promises whoever feeds it packets: it is either out  *)
(* of step with the stream or holds a run of bytes that begins at the start  *)
(* of a section.  It may join the stream, extend the run at its end, hand    *)
(* over the section the run begins with, or lose the whole run: it never     *)
(* alters, reorders or invents a byte, and never skips one and stays in      *)
(* step.                                                                     *)
EXTENDS TsPackets

CONSTANT Limit            \* no section handed over is longer

VARIABLES synced,         \* in step with the stream
          pending,        \* the bytes held, from a section's first byte
          section         \* what this step hands over, or <<>>
vars == <<synced, pending, section>>

Init == ~synced /\ pending = <<>> /\ section = <<>>

Join == /\ ~synced
        /\ synced'
        /\ pending' \in Seq(Byte)
        /\ section' = <<>>

Extend == /\ synced
          /\ synced'
          /\ \E n \in 0..Len(pending') : pending = SubSeq(pending', 1, n)
          /\ pending' \in Seq(Byte)
          /\ section' = <<>>

HandOver == /\ synced
            /\ HasSection(pending)
            /\ SectionSize(pending) <= Limit
            /\ section' = SubSeq(pending, 1, SectionSize(pending))
            /\ pending' = SubSeq(pending, SectionSize(pending) + 1, Len(pending))
            /\ synced' = (pending' # <<>>)

Lose == ~synced' /\ pending' = <<>> /\ section' = <<>>

Next == Join \/ Extend \/ HandOver \/ Lose
Spec == Init /\ [][Next]_vars
=============================================================================
