----------------------------- MODULE MCIoxModes -----------------------------
(* Instances of IoxModes with two-bit bytes.                                 *)
EXTENDS IoxModes

MCField(w, size, val, hint) == [w |-> w, size |-> size, val |-> val,
                                name |-> "number", hint |-> "FORMAT_HINT_" \o hint]
\* one number is half of uint32_t or more, one is written in binary
MCFields == {MCField(2, 1, 0, "DEC"), MCField(2, 2, 2, "HEX"), MCField(2, 2, 1, "BIN"),
             MCField(4, 3, 5, "DEC"), MCField(8, 8, 129, "DEC")}
\* a number with a letter in its representation
MCFieldsHex == {MCField(2, 2, 2, "HEX"), MCField(4, 4, 10, "HEX")}
=============================================================================
