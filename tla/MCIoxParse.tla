----------------------------- MODULE MCIoxParse -----------------------------
(* Instances of IoxParse with two-bit bytes: every message of up to five     *)
(* bytes, and every text of a few tokens.                                    *)
EXTENDS IoxParse

MCField(w, size, val) == [w |-> w, size |-> size, val |-> val,
                          name |-> "number", hint |-> "FORMAT_HINT_DEC"]
MCFields == {MCField(2, 1, 0), MCField(2, 2, 3), MCField(4, 3, 5), MCField(8, 8, 129)}

MCTokens == {R!Open, R!Close, R!Number("length", "none", <<1>>), R!Number("length", "none", <<3>>),
             R!Number("number", "none", <<1>>), R!Number("number", "0x", <<11>>),
             R!Number("number", "0b", <<1, 1>>), R!Number("number", "-", <<1>>)}
=============================================================================
