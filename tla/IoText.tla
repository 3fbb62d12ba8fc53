------------------------------- MODULE IoText -------------------------------
(* The texts of ocCtx and icCtx (src/src/io.cpp) as sequences of tokens: the *)
(* white space between them is left out.  A number is kept with its digits,  *)
(* since what is written is not always what is read.                         *)
EXTENDS IoBits

Open == [kind |-> "{"]
Close == [kind |-> "}"]
\* what is left to read of a number with a sign: read_dec stops before it
Minus == [kind |-> "-"]

\* prefix: "0x", "0b" (which nothing writes), "-" or "none"
Number(name, prefix, digits) ==
  [kind |-> "number", name |-> name, prefix |-> prefix, digits |-> digits]

----------------------------------------------------------------------------
\* what sprintf makes of a number in a base, without leading zeros
Digits(val, base) ==
  LET digits[v \in 0..val] == IF v < base THEN <<v>>
                              ELSE Append(digits[v \div base], v % base)
  IN digits[val]

\* the value is given to "%x"
WriteHex(name, val) == Number(name, "0x", Digits(val, 16))
\* the digits are the other way round, and nothing says that they are binary
WriteBin(name, size, val) ==
  Number(name, "none", [i \in 1..size |-> 1 - Bit(val, size - i)])
\* the value is given to "%d", which takes the upper half as negative numbers
WriteDec(name, val) == IF val < Word \div 2
                       THEN Number(name, "none", Digits(val, 10))
                       ELSE Number(name, "-", Digits(Word - val, 10))

Written(name, hint, size, val) ==
  CASE hint = "FORMAT_HINT_HEX" -> WriteHex(name, val)
    [] hint = "FORMAT_HINT_BIN" -> WriteBin(name, size, val)
    [] OTHER -> WriteDec(name, val)

----------------------------------------------------------------------------
\* read_hex takes a letter for its distance from 'A'
HexDigit(d) == IF d < 10 THEN d ELSE d - 10

\* the number that digits spell: each of them makes it base times as large
Spelled(digits, base) ==
  LET value[n \in 0..Len(digits)] == IF n = 0 THEN 0 ELSE base * value[n - 1] + digits[n]
  IN value[Len(digits)]

\* read_uint: the value of a number.  The digits after a sign are not read.
\* A value too large for the loops is too large for the call as well
Value(number) ==
  CASE number.prefix = "0x" -> Spelled([i \in DOMAIN number.digits |-> HexDigit(number.digits[i])], 16)
    [] number.prefix = "0b" -> Spelled(number.digits, 2)
    [] number.prefix = "-" -> 0
    [] OTHER -> Spelled(number.digits, 10)
=============================================================================
