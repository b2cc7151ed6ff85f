----------------------------- MODULE LogStream -----------------------------
(***************************************************************************)
(* LogStream.h and LogStream.cc: the fixed buffer a line is written into,  *)
(* and what each `<<' does to it, as operators on buffers.                 *)
(*                                                                         *)
(* A character is its code.  A text of fixed width that nothing looks into *)
(* counts as one character, so SmallBuffer and MaxNumericSize are chosen    *)
(* smaller than the 4000 and 32 of the code.                               *)
(***************************************************************************)
EXTENDS Integers, Sequences, SequencesExt

CONSTANTS SmallBuffer,      \* kSmallBuffer
          MaxNumericSize,   \* kMaxNumbericSize
          IntMax,           \* integers are -IntMax-1 .. IntMax
          DoubleText        \* DoubleText[d]: what "%.12g" makes of d

Ints == -IntMax - 1 .. IntMax
Addresses == 0 .. 2 * IntMax + 1

\* Power(base)[k]: base to the k.
Power(base) ==
    LET power[k \in 0 .. MaxNumericSize] == IF k = 0 THEN 1 ELSE base * power[k - 1]
    IN  power

\* MaxNumericSize has room for any integer with its sign and a NUL, which
\* staticCheck() asserts, and for any address behind "0x" with one.
ASSUME SizesAssumption == /\ SmallBuffer \in Nat \ {0} /\ IntMax \in Nat
                          /\ MaxNumericSize \in Nat /\ MaxNumericSize > 3
                          /\ IntMax + 1 < Power(10)[MaxNumericSize - 2]
                          /\ 2 * IntMax + 1 < Power(16)[MaxNumericSize - 3]

ASSUME DoublesAssumption ==
    \A d \in DOMAIN DoubleText : /\ DoubleText[d] \in Seq(Nat)
                                /\ Len(DoubleText[d]) < MaxNumericSize

Newline == 10
Space == 32
LeftParen == 40    \* of " (errno="
RightParen == 41   \* of ") "
Minus == 45
Slash == 47
Zero == 48
Colon == 58
SmallX == 120

----------------------------------------------------------------------------
(* Integers to text *)

\* The remainder and the quotient of C, which truncates towards zero.
CRem(a, b) == IF a >= 0 THEN a % b ELSE -((-a) % b)
CQuot(a, b) == IF a >= 0 THEN a \div b ELSE -((-a) \div b)

\* digits[], centred on `zero' so that a negative remainder is an index too.
Digits == [k \in -9 .. 9 |-> Zero + (IF k < 0 THEN -k ELSE k)]
DigitsHex == [k \in 0 .. 15 |-> IF k < 10 THEN Zero + k ELSE 65 + k - 10]

\* The do-while loops: the last digit first.
LastFirst[i \in Ints] ==
    <<Digits[CRem(i, 10)]>> \o IF CQuot(i, 10) = 0 THEN <<>> ELSE LastFirst[CQuot(i, 10)]
HexLastFirst[i \in Addresses] ==
    <<DigitsHex[i % 16]>> \o IF i \div 16 = 0 THEN <<>> ELSE HexLastFirst[i \div 16]

\* Faulty: the value is made positive first, in its own width.
ConvertPositive(value) ==
    LET i == IF value = -IntMax - 1 THEN 0 ELSE IF value < 0 THEN -value ELSE value
    IN  Reverse(LastFirst[i] \o IF value < 0 THEN <<Minus>> ELSE <<>>)

Convert(value) == Reverse(LastFirst[value] \o IF value < 0 THEN <<Minus>> ELSE <<>>)

ConvertHex(value) == Reverse(HexLastFirst[value])

----------------------------------------------------------------------------
(* The buffer: its text, and the highest byte that was ever written *)

EmptyBuffer == [text |-> <<>>, top |-> 0]

Avail(b) == SmallBuffer - Len(b.text)

\* Characters stored at cur_, and cur_ moved; `beyond' bytes more are written.
Store(b, chars, beyond) ==
    LET end == Len(b.text) + Len(chars)
    IN  [text |-> b.text \o chars,
         top  |-> IF end + beyond > b.top THEN end + beyond ELSE b.top]

\* Faulty: a text may fill the buffer to the last byte.
AppendFull(b, chars) == IF Avail(b) >= Len(chars) THEN Store(b, chars, 0) ELSE b

\* FixedBuffer::append(): a text that does not fit is dropped as a whole.
AppendChars(b, chars) == IF Avail(b) > Len(chars) THEN Store(b, chars, 0) ELSE b

\* FixedBuffer::debugString() writes a NUL at cur_ and hands out the text.
DebugString(b) == Store(b, <<>>, 1)

\* convert() writes its NUL after the digits.
FormatInteger(b, v) ==
    IF Avail(b) >= MaxNumericSize THEN Store(b, Convert(v), 1) ELSE b

FormatPointer(b, v) ==
    IF Avail(b) >= MaxNumericSize THEN Store(b, <<Zero, SmallX>> \o ConvertHex(v), 1) ELSE b

\* snprintf() writes a NUL as well.
FormatDouble(b, v) ==
    IF Avail(b) >= MaxNumericSize THEN Store(b, DoubleText[v], 1) ELSE b

\* operator<< for each type: short and unsigned short are widened, which does
\* not change their value; a char, a string of either kind, a StringPiece and
\* what append() is given are texts.
PutBool(b, v) == AppendChars(b, <<IF v THEN Zero + 1 ELSE Zero>>)
PutText(b, v) == AppendChars(b, v)

\* What may be put into a line.
Item == [kind : {"int"}, val : Ints] \cup [kind : {"pointer"}, val : Addresses]
        \cup [kind : {"double"}, val : DOMAIN DoubleText]
        \cup [kind : {"bool"}, val : BOOLEAN] \cup [kind : {"text"}, val : Seq(Nat)]

Put(b, item) == CASE item.kind = "int"     -> FormatInteger(b, item.val)
                  [] item.kind = "pointer" -> FormatPointer(b, item.val)
                  [] item.kind = "double"  -> FormatDouble(b, item.val)
                  [] item.kind = "bool"    -> PutBool(b, item.val)
                  [] item.kind = "text"    -> PutText(b, item.val)

=============================================================================
