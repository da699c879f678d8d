---------------------------- MODULE PrintEngine ----------------------------
(***************************************************************************)
(* The formatted output of the firmware, lib/print_engine.c (one file, the *)
(* same in the three programs): printf_engine reads a format and hands     *)
(* pieces of text to an output function.  One action is one pass of its    *)
(* loop or one call of that function.  A format is a sequence of           *)
(* characters; numbers keep their width.  The conversion n, which stores   *)
(* through a pointer, is left out.  Next to it, the plain numbers of       *)
(* lib/system.c.                                                           *)
(***************************************************************************)
EXTENDS Integers, FiniteSets, SequencesExt

CONSTANTS
  CharBits, ShortBits, IntBits, LongLongBits,   \* sizes of the C types
  Jobs                                          \* bound: the calls made

\* A job is the function called, its format, the arguments after it, and what
\* they consist of: plain texts and conversions (see Meaning).
NULL == "null"
Digits == <<"0", "1", "2", "3", "4", "5", "6", "7", "8", "9">>
hextable == Digits \o <<"a", "b", "c", "d", "e", "f">>
hextable_caps == Digits \o <<"A", "B", "C", "D", "E", "F">>

VARIABLES
  job,
  printPc,     \* "text", "format", "output" or "done"
  fmt, ap,     \* what is left of the format and of the arguments
  flags, format_num,
  pieces,      \* calls of out still to be made for this field
  printed,     \* what out has accepted; chars_written is its length
  err          \* TRUE once out has returned a negative number

printVars == <<job, printPc, fmt, ap, flags, format_num, pieces, printed, err>>
-----------------------------------------------------------------------------
(* Numbers.                                                                *)

Bit(n, i) == (n \div 2^i) % 2

\* Bit by bit, from the most significant one.
udiv64(dividend, divisor) ==
  LET step(i, acc) ==
        LET r == (2 * acc.rem + Bit(dividend, i)) % 2^LongLongBits
        IN  IF r >= divisor THEN [quo |-> acc.quo + 2^i, rem |-> r - divisor]
            ELSE [quo |-> acc.quo, rem |-> r]
  IN  IF divisor = 0 THEN [quo |-> 0, rem |-> 0]
      ELSE FoldRight(step, [k \in 1 .. LongLongBits |-> k - 1], [quo |-> 0, rem |-> 0])

Negative(n, flgs) == "SIGNED" \in flgs /\ n >= 2^(LongLongBits - 1)

\* The digits are written from the end of the buffer.
longlong_to_string(n, flgs) ==
  LET digits[m \in 0 .. (2^LongLongBits - 1)] ==
        IF m < 10 THEN <<Digits[m + 1]>>
        ELSE LET res == udiv64(m, 10) IN Append(digits[res.quo], Digits[res.rem + 1])
  IN  digits[IF Negative(n, flgs) THEN 2^LongLongBits - n ELSE n]

SignChar(n, flgs) ==
  IF Negative(n, flgs) THEN <<"-">>
  ELSE IF "SHOWSIGN" \in flgs THEN <<"+">>
  ELSE IF "BLANKPOS" \in flgs THEN <<" ">> ELSE <<>>

longlong_to_hexstring(u, flgs) ==
  LET table == IF "CAPS" \in flgs THEN hextable_caps ELSE hextable
      digits[m \in 0 .. (2^LongLongBits - 1)] ==
        IF m < 16 THEN <<table[m + 1]>>
        ELSE Append(digits[m \div 16], table[(m % 16) + 1])
  IN  digits[u]

\* The type va_arg is called with, and the value converted to 64 bits.
ArgBits(flgs) ==
  CASE "LONGLONG" \in flgs -> LongLongBits
    [] "LONG" \in flgs /\ "LONGLONG" \notin flgs -> IntBits
    [] flgs \cap {"LONG", "HALFHALF"} = {"HALFHALF"} -> CharBits
    [] flgs \cap {"LONG", "HALFHALF", "HALF"} = {"HALF"} -> ShortBits
    [] flgs \cap {"LONG", "HALF", "SIZET", "INTMAX"} = {"INTMAX"} -> LongLongBits
    [] OTHER -> IntBits

Value(arg, flgs) ==
  LET bits == ArgBits(flgs)
      low == arg % 2^bits
  IN  IF "SIGNED" \in flgs /\ low >= 2^(bits - 1)
      THEN 2^LongLongBits - 2^bits + low ELSE low
-----------------------------------------------------------------------------
(* The calls of out one conversion makes.                                  *)

Pad(c, k) == [i \in 1 .. (IF k > 0 THEN k ELSE 0) |-> <<c>>]

\* _output_string.  Text put to the left gets no sign.
Field(s, sign, flgs, width) ==
  LET room == width - Len(s) - (IF sign # <<>> /\ width > 0 THEN 1 ELSE 0)
      zero == "LEADZERO" \in flgs
  IN  IF "LEFTFORMAT" \in flgs THEN <<s>> \o Pad(" ", width - Len(s))
      ELSE (IF zero /\ sign # <<>> THEN <<sign>> ELSE <<>>)
             \o Pad(IF zero THEN "0" ELSE " ", room)
             \o (IF ~zero /\ sign # <<>> THEN <<sign>> ELSE <<>>) \o <<s>>

DecimalField(flgs, arg, width) ==
  LET n == Value(arg, flgs)
  IN  Field(longlong_to_string(n, flgs), SignChar(n, flgs), flgs, width)

HexField(flgs, arg, width) ==
  (IF "ALT" \in flgs THEN << <<"0">>, <<IF "CAPS" \in flgs THEN "X" ELSE "x">> >>
                     ELSE <<>>)
    \o Field(longlong_to_hexstring(Value(arg, flgs), flgs), <<>>, flgs, width)

StringField(flgs, arg, width) ==
  Field(IF arg = NULL THEN <<"<", "n", "u", "l", "l", ">">> ELSE arg, <<>>,
        flgs \ {"LEADZERO"}, width)

TakesArgument(c) == c \in {"c", "s", "d", "i", "u", "p", "x", "X"}

Conversion(c, flgs, arg, width) ==
  CASE c = "%" -> << <<"%">> >>
    [] c = "c" -> << <<arg>> >>
    [] c = "s" -> StringField(flgs, arg, width)
    [] c \in {"d", "i"} -> DecimalField(flgs \cup {"SIGNED"}, arg, width)
    [] c = "u" -> DecimalField(flgs, arg, width)
    [] c = "p" -> HexField(flgs \cup {"LONG", "ALT"}, arg, width)
    [] c = "X" -> HexField(flgs \cup {"CAPS"}, arg, width)
    [] c = "x" -> HexField(flgs, arg, width)
    [] OTHER -> << <<"%">>, <<c>> >>

ModifierFlags == [c \in {"-", "+", " ", "#", "l", "h", "z", "j", "t", "."} |->
  CASE c = "-" -> {"LEFTFORMAT"}
    [] c = "+" -> {"SHOWSIGN"}
    [] c = " " -> {"BLANKPOS"}
    [] c = "#" -> {"ALT"}
    [] c = "l" -> IF "LONG" \in flags THEN {"LONG", "LONGLONG"} ELSE {"LONG"}
    [] c = "h" -> IF "HALF" \in flags THEN {"HALF", "HALFHALF"} ELSE {"HALF"}
    [] c = "z" -> {"SIZET"}
    [] c = "j" -> {"INTMAX"}
    [] c = "t" -> {"PTRDIFF"}
    [] OTHER -> {}]
-----------------------------------------------------------------------------
PrintStart ==
  /\ printPc = "text" /\ fmt = job.fmt /\ ap = job.args
  /\ flags = {} /\ format_num = 0
  /\ pieces = <<>> /\ printed = <<>> /\ err = FALSE

PrintInit == job \in Jobs /\ PrintStart

\* puthex, putbyte and putdec: one character at a time, to putchar.
puthex(h) ==
  [i \in 1 .. (IntBits \div 4) |-> <<hextable_caps[((h \div 2^(IntBits - 4 * i)) % 16) + 1]>>]

putbyte(h) == << <<hextable_caps[(h \div 16) + 1]>>, <<hextable_caps[(h % 16) + 1]>> >>

putdec(number) ==
  LET digits[m \in 0 .. (2^IntBits - 1)] ==
        IF m > 9 THEN Append(digits[m \div 10], <<Digits[(m % 10) + 1]>>)
                 ELSE << <<Digits[m + 1]>> >>
  IN  digits[number]

PutNumber ==
  /\ printPc = "text" /\ job.fn # "printf"
  /\ LET h == Head(ap) % 2^IntBits
     IN  pieces' = CASE job.fn = "puthex" -> puthex(h)
                     [] job.fn = "putbyte" -> putbyte(h)
                     [] job.fn = "putdec" -> putdec(h)
  /\ printPc' = "ending" /\ ap' = Tail(ap)
  /\ UNCHANGED <<job, fmt, flags, format_num, printed, err>>

Mut_FormatReset == UNCHANGED <<flags, format_num>>

FormatReset == flags' = {} /\ format_num' = 0

\* The format state is reset and the text up to the next % goes out at once.
NextField ==
  /\ printPc = "text" /\ pieces = <<>> /\ job.fn = "printf"
  /\ LET percent == SelectInSeq(fmt, LAMBDA c : c = "%")
         length == IF percent = 0 THEN Len(fmt) ELSE percent - 1
     IN  /\ pieces' = <<SubSeq(fmt, 1, length)>>
         /\ fmt' = SubSeq(fmt, length + 2, Len(fmt))
         /\ printPc' = IF percent = 0 THEN "ending" ELSE "format"
  /\ FormatReset
  /\ UNCHANGED <<job, ap, printed, err>>

\* One call of out, which takes all of the text or fails, or of putchar.
Output ==
  /\ pieces # <<>> /\ printPc # "done"
  /\ pieces' = Tail(pieces)
  /\ \/ printed' = printed \o Head(pieces) /\ UNCHANGED <<printPc, err>>
     \/ /\ job.fn = "printf"
        /\ err' = TRUE /\ printPc' = "done" /\ UNCHANGED printed
  /\ UNCHANGED <<job, fmt, ap, flags, format_num>>

InFormat == printPc = "format" /\ pieces = <<>>

\* next_format: a digit of the width or a modifier.
Modify ==
  /\ InFormat /\ fmt # <<>>
  /\ LET c == Head(fmt)
     IN  \/ /\ c \in ToSet(Digits)
            /\ flags' = IF c = "0" /\ format_num = 0 THEN flags \cup {"LEADZERO"} ELSE flags
            /\ format_num' = (10 * format_num + SelectInSeq(Digits, LAMBDA x : x = c) - 1)
                               % 2^IntBits
         \/ /\ c \in DOMAIN ModifierFlags
            /\ flags' = flags \cup ModifierFlags[c]
            /\ UNCHANGED format_num
  /\ fmt' = Tail(fmt)
  /\ UNCHANGED <<job, printPc, ap, pieces, printed, err>>

Convert ==
  /\ InFormat /\ fmt # <<>>
  /\ LET c == Head(fmt)
     IN  /\ c \notin ToSet(Digits) \cup DOMAIN ModifierFlags \cup {"n"}
         /\ pieces' = Conversion(c, flags, IF TakesArgument(c) THEN Head(ap) ELSE NULL,
                                 format_num)
         /\ ap' = IF TakesArgument(c) THEN Tail(ap) ELSE ap
  /\ fmt' = Tail(fmt) /\ printPc' = "text"
  /\ UNCHANGED <<job, flags, format_num, printed, err>>

\* The format ends, in its text or in the middle of a conversion.
Finish ==
  /\ pieces = <<>>
  /\ printPc = "ending" \/ (printPc = "format" /\ fmt = <<>>)
  /\ printPc' = "done"
  /\ UNCHANGED <<job, fmt, ap, flags, format_num, pieces, printed, err>>

PrintStep == PutNumber \/ NextField \/ Output \/ Modify \/ Convert \/ Finish

PrintSpec == PrintInit /\ [][PrintStep]_printVars
-----------------------------------------------------------------------------
(* The reference: C's conversions, from the meaning of the numbers.        *)

Numeral(n, base, table) ==
  LET places == {k \in 0 .. (LongLongBits \div 3) : k = 0 \/ base^k <= n}
  IN  [i \in 1 .. Cardinality(places) |->
         table[((n \div base^(Cardinality(places) - i)) % base) + 1]]

\* A conversion: flag characters, width, size letters, letter and argument.
Sign(c, negative) ==
  IF negative THEN <<"-">>
  ELSE IF "+" \in c.flags THEN <<"+">>
  ELSE IF " " \in c.flags THEN <<" ">> ELSE <<>>

Padded(text, sign, c) ==
  LET room == c.width - Len(text) - Len(sign)
      fill(x) == [i \in 1 .. (IF room > 0 THEN room ELSE 0) |-> x]
  IN  IF "-" \in c.flags THEN sign \o text \o fill(" ")
      ELSE IF "0" \in c.flags THEN sign \o fill("0") \o text
      ELSE fill(" ") \o sign \o text

SizeBits(c) ==
  CASE c.size = "hh" -> CharBits
    [] c.size = "h" -> ShortBits
    [] c.size \in {"ll", "j"} -> LongLongBits
    [] OTHER -> IntBits

Meaning(c) ==
  LET bits == SizeBits(c)
      low == c.arg % 2^bits
      prefix(x) == IF "#" \in c.flags /\ low # 0 THEN <<"0", x>> ELSE <<>>
      negative == low >= 2^(bits - 1)
  IN  CASE c.letter = "text" -> c.arg
        [] c.letter = "d" ->
             Padded(Numeral(IF negative THEN 2^bits - low ELSE low, 10, hextable),
                    Sign(c, negative), c)
        [] c.letter = "u" -> Padded(Numeral(low, 10, hextable), <<>>, c)
        [] c.letter = "x" -> Padded(Numeral(low, 16, hextable), prefix("x"), c)
        [] c.letter = "X" -> Padded(Numeral(low, 16, hextable_caps), prefix("X"), c)
        [] c.letter = "s" -> Padded(c.arg, <<>>, [c EXCEPT !.flags = @ \ {"0"}])
        [] c.letter = "c" -> <<c.arg>>
        [] c.letter = "%" -> <<"%">>

\* Where the engine departs from C: no sign is written with "-", "+" and " "
\* apply to an unsigned number, the prefix of "#" is outside the width and
\* also put before 0.
Departs(c) ==
  \/ /\ c.letter = "d" /\ "-" \in c.flags
     /\ Sign(c, c.arg % 2^SizeBits(c) >= 2^(SizeBits(c) - 1)) # <<>>
  \/ c.letter = "u" /\ c.flags \cap {"+", " "} # {}
  \/ c.letter \in {"x", "X"} /\ "#" \in c.flags /\ (c.width > 0 \/ c.arg % 2^SizeBits(c) = 0)

Expected == FlattenSeq([i \in DOMAIN job.parts |-> Meaning(job.parts[i])])

\* Whatever was converted before, each conversion prints what C says, padded
\* to its width; a call that fails leaves a beginning of the text, and the
\* number returned otherwise is the length of all of it (print_engine.c:133).
PrintsAsC ==
  (\A i \in DOMAIN job.parts : ~Departs(job.parts[i])) =>
     /\ IsPrefix(printed, Expected)
     /\ (printPc = "done" /\ ~err) => printed = Expected
=============================================================================
