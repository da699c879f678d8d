------------------------------- MODULE Memcpy -------------------------------
(***************************************************************************)
(* memcpy of the firmware, lib/memcpy.c (one file, the same in the three   *)
(* programs), as GCC builds it for the little-endian core.  Byte i of the  *)
(* source is the number i; 0 stands for no byte.  One action is one pass   *)
(* of a loop or one of the conditional copies at the end.                  *)
(***************************************************************************)
EXTENDS Integers

CONSTANT MaxCount    \* bound: bytes copied

ASSUME MemcpyParameters == MaxCount \in Nat

Addresses == 0 .. (MaxCount + 3)
Positions == 0 .. 3          \* addresses modulo 4

VARIABLES
  source, target, count,     \* the call: src and dest modulo 4, and n
  copyPc,                    \* "align", "blocks", "shift", "tail" or "done"
  sp, dp, left,              \* s, d (as addresses) and n of the code
  word,                      \* w: the word read last, four bytes
  chunk,                     \* the bit of n that is looked at
  memory,                    \* the destination
  reach                      \* monitor: first source address not read

copyVars == <<source, target, count, copyPc, sp, dp, left, word, chunk, memory, reach>>

Byte(a) == IF a \in source .. (source + count - 1) THEN a - source + 1 ELSE 0
WordAt(a) == [i \in Positions |-> Byte(a + i)]

\* x LS 8*b | y RS 8*(4-b): the last 4 - b bytes of x, the first b of y.
Spliced(x, y, b) == [i \in Positions |-> IF i + b < 4 THEN x[i + b] ELSE y[i + b - 4]]

MaxOf(a, b) == IF a > b THEN a ELSE b

\* k bytes from sp to dp.
Copy(k) ==
  /\ memory' = [a \in Addresses |-> IF a \in dp .. (dp + k - 1) THEN Byte(sp + a - dp)
                                                            ELSE memory[a]]
  /\ sp' = sp + k /\ dp' = dp + k
  /\ reach' = MaxOf(reach, sp + k)

CopyCall == <<source, target, count>>

CopyInit ==
  /\ source \in Positions /\ target \in Positions /\ count \in 0 .. MaxCount
  /\ copyPc = "align" /\ sp = source /\ dp = target /\ left = count
  /\ word = [i \in Positions |-> 0] /\ chunk = 16
  /\ memory = [a \in Addresses |-> 0] /\ reach = 0

AlignSource ==
  /\ copyPc = "align" /\ sp % 4 # 0 /\ left > 0
  /\ Copy(1) /\ left' = left - 1
  /\ UNCHANGED <<CopyCall, copyPc, word, chunk>>

Aligned ==
  /\ copyPc = "align" /\ (sp % 4 = 0 \/ left = 0)
  /\ dp % 4 = 0
  /\ copyPc' = "blocks"
  /\ UNCHANGED <<CopyCall, sp, dp, left, word, chunk, memory, reach>>

CopyBlock ==
  /\ copyPc = "blocks" /\ left >= 16
  /\ Copy(16) /\ left' = left - 16
  /\ UNCHANGED <<CopyCall, copyPc, word, chunk>>

BlocksDone ==
  /\ copyPc = "blocks" /\ left < 16
  /\ copyPc' = "tail" /\ chunk' = 8
  /\ UNCHANGED <<CopyCall, sp, dp, left, word, memory, reach>>

TooShort ==
  /\ copyPc = "align" /\ (sp % 4 = 0 \/ left = 0)
  /\ dp % 4 # 0 /\ left < 32
  /\ copyPc' = "tail" /\ chunk' = 16
  /\ UNCHANGED <<CopyCall, sp, dp, left, word, memory, reach>>

\* Bytes up to an aligned destination; word keeps the source word they are in.
HeadBytes == 4 - (dp % 4)

StartShift ==
  /\ copyPc = "align" /\ sp % 4 = 0
  /\ dp % 4 # 0 /\ left >= 32
  /\ copyPc' = "shift"
  /\ word' = WordAt(sp)
  /\ memory' = [a \in Addresses |-> IF a \in dp .. (dp + HeadBytes - 1) THEN Byte(sp + a - dp)
                                                               ELSE memory[a]]
  /\ sp' = sp + HeadBytes /\ dp' = dp + HeadBytes /\ left' = left - HeadBytes
  /\ reach' = MaxOf(reach, sp + 4)
  /\ UNCHANGED <<CopyCall, chunk>>

\* In the loop sp is as far into its word as the destination was at the start.
Ahead == 4 - (sp % 4)

Mut_ShiftMore == left >= 16

ShiftMore == left >= 16 + Ahead

\* The words of one pass: the one read before it, and four new ones.
Window(i) == IF i = 0 THEN word ELSE WordAt(sp + Ahead + 4 * (i - 1))

ShiftBlock ==
  /\ copyPc = "shift" /\ ShiftMore
  /\ memory' = [a \in Addresses |->
        IF a \in dp .. (dp + 15)
        THEN LET i == (a - dp) \div 4
             IN  Spliced(Window(i), Window(i + 1), 4 - Ahead)[(a - dp) % 4]
        ELSE memory[a]]
  /\ word' = Window(4)
  /\ sp' = sp + 16 /\ dp' = dp + 16 /\ left' = left - 16
  /\ reach' = MaxOf(reach, sp + Ahead + 16)
  /\ UNCHANGED <<CopyCall, copyPc, chunk>>

ShiftDone ==
  /\ copyPc = "shift" /\ ~ShiftMore
  /\ copyPc' = "tail" /\ chunk' = 16
  /\ UNCHANGED <<CopyCall, sp, dp, left, word, memory, reach>>

\* if (n&16), if (n&8), ...: n is not changed any more.  (The last of them
\* leaves the pointers alone, and nothing reads them.)
CopyChunk ==
  /\ copyPc = "tail"
  /\ IF (left \div chunk) % 2 = 1 THEN Copy(chunk) ELSE UNCHANGED <<sp, dp, memory, reach>>
  /\ IF chunk = 1 THEN copyPc' = "done" /\ UNCHANGED chunk
                  ELSE chunk' = chunk \div 2 /\ UNCHANGED copyPc
  /\ UNCHANGED <<CopyCall, left, word>>

CopyStep ==
  \/ AlignSource \/ Aligned \/ CopyBlock \/ BlocksDone \/ TooShort
  \/ StartShift \/ ShiftBlock \/ ShiftDone \/ CopyChunk

CopySpec == CopyInit /\ [][CopyStep]_copyVars
-----------------------------------------------------------------------------
\* The destination when the bytes before end have been copied.
Filled(end) == [a \in Addresses |-> IF a \in target .. (end - 1) THEN a - target + 1 ELSE 0]

\* The bytes between dest and dp are the source's and nothing else is written,
\* for every alignment and length; in the end all of them are there.  No word
\* is read that holds a byte outside the source (memcpy.c:53-108).
CopiesExactly ==
  /\ memory = Filled(dp)
  /\ dp - target = sp - source
  /\ copyPc = "done" => dp = target + count
  /\ reach <= source + count
=============================================================================
