------------------------------ MODULE MCBitIO ------------------------------
(* Instances of BitIO with seven-bit bytes: an uint32_t has 28 bits, as many *)
(* as TLC's integers allow.  Every position in five bytes, every size of     *)
(* every overload, and the numbers 0, 1, all ones, alternating ones, and one *)
(* that is too large for its field.                                          *)
EXTENDS BitIO

MCValues(w, size) == {0, 1, 2^size - 1, (2^size) \div 3, 2^w - 1}
MCField(w, size, v) == [w |-> w, size |-> size, val |-> v,
                        name |-> "number", hint |-> "FORMAT_HINT_DEC"]
MCFields == UNION {{MCField(w, size, v) : v \in MCValues(w, size)} :
                     <<w, size>> \in {p \in Overloads \X (1..(4 * ByteBits)) : p[2] <= p[1]}}
MCFills == {<<0>>, <<127>>, <<85, 42, 51>>}
=============================================================================
