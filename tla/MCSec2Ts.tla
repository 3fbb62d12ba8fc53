------------------------------ MODULE MCSec2Ts ------------------------------
(* Instances of Sec2Ts.  Packets of six payload bytes: the sections end one, *)
(* two or more bytes before the end of a packet, on it and past it.          *)
EXTENDS Sec2Ts

MCSection(n) == <<1, 0, n - 3>> \o [i \in 1..(n - 3) |-> 7]
MCSections == {MCSection(n) : n \in {3, 4, 5, 9}}
=============================================================================
