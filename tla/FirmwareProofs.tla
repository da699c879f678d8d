-------------------------- MODULE FirmwareProofs --------------------------
(***************************************************************************)
(* Theorems about the firmware, for every value of the constants: memcpy   *)
(* copies exactly, for every bound on the length; the timer and its driver, *)
(* for words of any size, every time the device can hold and every series of *)
(* calls and interrupts; the circular queue, for every size and every kind of *)
(* element; and both directions of the serial line, from the bits on the wire *)
(* to the program and the host, for every session.                         *)
(***************************************************************************)
EXTENDS Memcpy, Timer, Console, SequenceTheorems, WellFoundedInduction, TLAPS

(* memcpy.                                                                 *)
CopyTypeOK ==
  /\ source \in Positions /\ target \in Positions /\ count \in 0 .. MaxCount
  /\ copyPc \in {"align", "blocks", "shift", "tail", "done"}
  /\ sp \in Nat /\ sp >= source /\ dp \in Nat /\ left \in Nat /\ reach \in Nat
  /\ chunk \in {16, 8, 4, 2, 1}

\* What is left to copy; in the tail, the bits of left from chunk down.
Remaining ==
  /\ copyPc \in {"align", "blocks", "shift"} => sp + left = source + count
  /\ copyPc = "tail" => sp + (left % (2 * chunk)) = source + count
  /\ copyPc = "done" => sp = source + count

\* In the shifted loop word is the source word sp points into.
Carried ==
  copyPc = "shift" =>
    /\ (dp % 4) = 0 /\ (sp % 4) # 0
    /\ word = WordAt(sp - (sp % 4))

CopyInv == CopyTypeOK /\ CopiesExactly /\ Remaining /\ Carried

\* The invariant of the copy holds when memcpy is called.
LEMMA CopyInitially == CopyInit => CopyInv
BY MemcpyParameters DEF CopyInit, CopyInv, CopyTypeOK, CopiesExactly, Filled, Remaining,
   Carried, Positions

\* Putting the right bytes at the pointer moves the filled part on.
LEMMA Filling ==
  ASSUME CopyInv, NEW k \in Nat, dp' = dp + k,
         memory' = [a \in Addresses |-> IF a \in dp .. (dp + k - 1) THEN a - target + 1
                                                                  ELSE memory[a]]
  PROVE  memory' = Filled(dp')
<1>1. dp >= target /\ dp \in Nat /\ target \in Nat
  BY DEF CopyInv, CopyTypeOK, CopiesExactly, Positions
<1>2. ASSUME NEW a \in Addresses
      PROVE  (IF a \in dp .. (dp + k - 1) THEN a - target + 1 ELSE memory[a])
             = IF a \in target .. (dp' - 1) THEN a - target + 1 ELSE 0
  <2>1. memory[a] = IF a \in target .. (dp - 1) THEN a - target + 1 ELSE 0
    BY <1>2 DEF CopyInv, CopiesExactly, Filled
  <2>2. a \in Int
    BY <1>2, MemcpyParameters DEF Addresses
  <2> QED BY <1>1, <1>2, <2>1, <2>2
<1> QED BY <1>2 DEF Filled

\* A byte of the source where the destination wants it.
LEMMA RightByte ==
  ASSUME CopyInv, NEW a \in Addresses, a >= dp, sp + a - dp < source + count
  PROVE  Byte(sp + a - dp) = a - target + 1
BY MemcpyParameters DEF CopyInv, CopyTypeOK, CopiesExactly, Positions, Byte, Addresses

\* Copying k of the bytes that are left.
LEMMA CopyKeepsExact ==
  ASSUME CopyInv, NEW k \in Nat, sp + k <= source + count, Copy(k)
  PROVE  /\ sp' = sp + k /\ dp' = dp + k
         /\ sp' \in Nat /\ sp' >= source /\ dp' \in Nat /\ reach' \in Nat
         /\ memory' = Filled(dp')
         /\ dp' - target = sp' - source
         /\ reach' <= source + count
<1>1. sp' = sp + k /\ dp' = dp + k
  BY DEF Copy
<1>2. sp' \in Nat /\ sp' >= source /\ dp' \in Nat /\ dp' - target = sp' - source
  BY <1>1 DEF CopyInv, CopyTypeOK, CopiesExactly, Positions
<1>3. reach' \in Nat /\ reach' <= source + count
  BY <1>1 DEF CopyInv, CopyTypeOK, CopiesExactly, Copy, MaxOf, Positions
<1>4. ASSUME NEW a \in Addresses, a \in dp .. (dp + k - 1)
      PROVE  Byte(sp + a - dp) = a - target + 1
  <2>1. a >= dp /\ sp + a - dp < source + count
    BY <1>4, MemcpyParameters DEF CopyInv, CopyTypeOK, Positions, Addresses
  <2> QED BY <2>1, <1>4, RightByte
<1>5. memory' = [a \in Addresses |-> IF a \in dp .. (dp + k - 1) THEN a - target + 1
                                                              ELSE memory[a]]
  BY <1>4 DEF Copy
<1>6. memory' = Filled(dp')
  BY <1>1, <1>5, Filling
<1> QED BY <1>1, <1>2, <1>3, <1>6

\* A spliced word holds the bytes the destination wants from address dp + 4 * i on,
\* if sp is h bytes into the word it points into.
LEMMA SplicedByte ==
  ASSUME CopyInv, copyPc = "shift", ShiftMore, NEW a \in Addresses, a \in dp .. (dp + 15)
  PROVE  LET i == (a - dp) \div 4
         IN  Spliced(Window(i), Window(i + 1), 4 - Ahead)[(a - dp) % 4] = Byte(sp + a - dp)
<1> DEFINE i == (a - dp) \div 4
           j == (a - dp) % 4
           h == (sp % 4)
<1>1. dp \in Nat /\ sp \in Nat /\ a \in Nat /\ h \in 1 .. 3 /\ 4 - Ahead = h /\ sp - h \in Nat
  BY MemcpyParameters DEF CopyInv, CopyTypeOK, Carried, Addresses, Ahead
<1>2. i \in 0 .. 3 /\ j \in 0 .. 3 /\ a - dp = 4 * i + j
  BY <1>1
<1>3. \A k \in 0 .. 4 : Window(k) = WordAt(sp - h + 4 * k)
  <2>1. Window(0) = WordAt(sp - h + 4 * 0)
    BY <1>1 DEF CopyInv, Carried, Window
  <2>2. ASSUME NEW k \in 1 .. 4 PROVE Window(k) = WordAt(sp - h + 4 * k)
    <3>1. sp + Ahead + 4 * (k - 1) = sp - h + 4 * k
      BY <1>1 DEF Ahead
    <3> QED BY <3>1 DEF Window
  <2> QED BY <2>1, <2>2
<1>4. CASE j + h < 4
  <2>1. Spliced(Window(i), Window(i + 1), h)[j] = WordAt(sp - h + 4 * i)[j + h]
    BY <1>1, <1>2, <1>3, <1>4 DEF Spliced, Positions
  <2>2. WordAt(sp - h + 4 * i)[j + h] = Byte(sp - h + 4 * i + (j + h))
    BY <1>1, <1>2, <1>4 DEF WordAt, Positions
  <2>3. sp - h + 4 * i + (j + h) = sp + a - dp
    BY <1>1, <1>2
  <2> QED BY <1>1, <2>1, <2>2, <2>3
<1>5. CASE ~(j + h < 4)
  <2>1. Spliced(Window(i), Window(i + 1), h)[j] = WordAt(sp - h + 4 * (i + 1))[j + h - 4]
    BY <1>1, <1>2, <1>3, <1>5 DEF Spliced, Positions
  <2>2. WordAt(sp - h + 4 * (i + 1))[j + h - 4] = Byte(sp - h + 4 * (i + 1) + (j + h - 4))
    BY <1>1, <1>2, <1>5 DEF WordAt, Positions
  <2>3. sp - h + 4 * (i + 1) + (j + h - 4) = sp + a - dp
    BY <1>1, <1>2
  <2> QED BY <1>1, <2>1, <2>2, <2>3
<1> QED BY <1>4, <1>5

\* Every step of memcpy keeps the invariant.
LEMMA CopyStepKeeps == CopyInv /\ [CopyStep]_copyVars => CopyInv'
<1> SUFFICES ASSUME CopyInv, [CopyStep]_copyVars PROVE CopyInv'
  OBVIOUS
<1> USE MemcpyParameters
<1>1. CASE AlignSource
  <2>1. sp + 1 <= source + count /\ Copy(1) /\ 1 \in Nat
    BY <1>1 DEF AlignSource, CopyInv, CopyTypeOK, Remaining, Positions
  <2> QED BY <1>1, <2>1, CopyKeepsExact
          DEF AlignSource, CopyCall, CopyInv, CopyTypeOK, CopiesExactly, Filled, Remaining, Carried,
              Positions
<1>2. CASE Aligned
  BY <1>2 DEF Aligned, CopyCall, CopyInv, CopyTypeOK, CopiesExactly, Filled, Remaining, Carried
<1>3. CASE CopyBlock
  <2>1. sp + 16 <= source + count /\ Copy(16) /\ 16 \in Nat
    BY <1>3 DEF CopyBlock, CopyInv, CopyTypeOK, Remaining, Positions
  <2> QED BY <1>3, <2>1, CopyKeepsExact
          DEF CopyBlock, CopyCall, CopyInv, CopyTypeOK, CopiesExactly, Filled, Remaining, Carried,
              Positions
<1>4. CASE BlocksDone
  BY <1>4 DEF BlocksDone, CopyCall, CopyInv, CopyTypeOK, CopiesExactly, Filled, Remaining, Carried,
              Positions
<1>5. CASE TooShort
  BY <1>5 DEF TooShort, CopyCall, CopyInv, CopyTypeOK, CopiesExactly, Filled, Remaining, Carried,
              Positions
<1>6. CASE StartShift
  <2>1. HeadBytes \in 1 .. 3 /\ dp \in Nat /\ sp \in Nat /\ left \in Nat /\ left >= 32 /\ sp >= source
    BY <1>6 DEF StartShift, HeadBytes, CopyInv, CopyTypeOK
  <2>2. sp + left = source + count /\ sp' = sp + HeadBytes /\ dp' = dp + HeadBytes
    BY <1>6 DEF StartShift, CopyInv, Remaining
  <2>3. ASSUME NEW a \in Addresses, a \in dp .. (dp + HeadBytes - 1)
        PROVE  Byte(sp + a - dp) = a - target + 1
    <3>1. a >= dp /\ sp + a - dp < source + count
      BY <2>1, <2>2, <2>3 DEF Addresses, CopyInv, CopyTypeOK, Positions
    <3> QED BY <3>1, <2>3, RightByte
  <2>4. memory' = [a \in Addresses |->
                     IF a \in dp .. (dp + HeadBytes - 1) THEN a - target + 1 ELSE memory[a]]
    BY <1>6, <2>3 DEF StartShift
  <2>5. memory' = Filled(dp')
    BY <2>1, <2>2, <2>4, Filling
  <2>6. (dp' % 4) = 0 /\ (sp' % 4) = HeadBytes /\ sp' - (sp' % 4) = sp
    BY <1>6, <2>1, <2>2 DEF StartShift, HeadBytes
  <2>7. Carried'
    BY <1>6, <2>1, <2>6 DEF StartShift, Carried, WordAt, Byte, CopyCall
  <2>8. CopiesExactly'
    BY <1>6, <2>1, <2>2, <2>5
       DEF StartShift, CopyCall, CopiesExactly, Filled, CopyInv, CopyTypeOK, MaxOf, Positions
  <2>9. CopyTypeOK' /\ Remaining'
    BY <1>6, <2>1, <2>2 DEF StartShift, CopyCall, CopyInv, CopyTypeOK, Remaining, MaxOf, Positions
  <2> QED BY <2>7, <2>8, <2>9 DEF CopyInv
<1>7. CASE ShiftBlock
  <2>1. dp \in Nat /\ sp \in Nat /\ left \in Nat /\ sp >= source /\ (sp % 4) \in 1 .. 3
        /\ Ahead = 4 - (sp % 4) /\ left >= 16 + Ahead
    BY <1>7 DEF ShiftBlock, ShiftMore, Ahead, CopyInv, CopyTypeOK, Carried
  <2>2. sp + left = source + count /\ sp' = sp + 16 /\ dp' = dp + 16
    BY <1>7 DEF ShiftBlock, CopyInv, Remaining
  <2>3. ASSUME NEW a \in Addresses, a \in dp .. (dp + 15)
        PROVE  LET i == (a - dp) \div 4
               IN  Spliced(Window(i), Window(i + 1), 4 - Ahead)[(a - dp) % 4] = a - target + 1
    <3>1. a >= dp /\ sp + a - dp < source + count
      BY <2>1, <2>2, <2>3 DEF Addresses, CopyInv, CopyTypeOK, Positions
    <3>2. Byte(sp + a - dp) = a - target + 1
      BY <3>1, <2>3, RightByte
    <3> QED BY <1>7, <2>3, <3>2, SplicedByte DEF ShiftBlock
  <2>4. memory' = [a \in Addresses |->
                     IF a \in dp .. (dp + 16 - 1) THEN a - target + 1 ELSE memory[a]]
    <3>1. 16 - 1 = 15 /\ dp + 16 - 1 = dp + 15
      BY <2>1
    <3> QED BY <1>7, <2>3, <3>1 DEF ShiftBlock
  <2>5. memory' = Filled(dp')
    BY <2>2, <2>4, Filling
  <2>6. (dp' % 4) = 0 /\ (sp' % 4) = (sp % 4) /\ sp' - (sp' % 4) = sp + Ahead + 12
    BY <1>7, <2>1, <2>2 DEF ShiftBlock, CopyInv, Carried, CopyTypeOK
  <2>7. Carried'
    <3>1. word' = WordAt(sp + Ahead + 12)
      BY <1>7, <2>1 DEF ShiftBlock, Window
    <3> QED BY <1>7, <2>1, <2>6, <3>1 DEF ShiftBlock, Carried, WordAt, Byte, CopyCall
  <2>8. CopiesExactly'
    BY <1>7, <2>1, <2>2, <2>5
       DEF ShiftBlock, CopyCall, CopiesExactly, Filled, CopyInv, CopyTypeOK, MaxOf, Positions
  <2>9. CopyTypeOK' /\ Remaining'
    BY <1>7, <2>1, <2>2 DEF ShiftBlock, CopyCall, CopyInv, CopyTypeOK, Remaining, MaxOf, Positions
  <2> QED BY <2>7, <2>8, <2>9 DEF CopyInv
<1>8. CASE ShiftDone
  <2>1. left < 32
    BY <1>8 DEF ShiftDone, ShiftMore, Ahead, CopyInv, CopyTypeOK
  <2> QED BY <1>8, <2>1 DEF ShiftDone, CopyCall, CopyInv, CopyTypeOK, CopiesExactly, Filled, Remaining,
              Carried, Positions
<1>9. CASE CopyChunk
  <2>1. left \in Nat /\ sp \in Nat /\ chunk \in {16, 8, 4, 2, 1}
    BY DEF CopyInv, CopyTypeOK
  <2>2. CASE (left \div chunk) % 2 = 1
    <3>1. (left % (2 * chunk)) = chunk + (left % chunk) /\ (left % chunk) \in Nat
      BY <2>1, <2>2
    <3>2. sp + chunk <= source + count /\ Copy(chunk) /\ chunk \in Nat
      BY <1>9, <2>1, <2>2, <3>1 DEF CopyChunk, CopyInv, CopyTypeOK, Remaining, Positions
    <3>3. sp' = sp + chunk /\ sp' + (left % chunk) = source + count
      BY <1>9, <2>1, <3>1, <3>2 DEF CopyChunk, CopyInv, Remaining, Copy
    <3> QED BY <1>9, <2>1, <3>2, <3>3, CopyKeepsExact
            DEF CopyChunk, CopyCall, CopyInv, CopyTypeOK, CopiesExactly, Filled, Remaining, Carried,
                Positions
  <2>3. CASE (left \div chunk) % 2 # 1
    <3>1. (left % (2 * chunk)) = (left % chunk)
      BY <2>1, <2>3
    <3> QED BY <1>9, <2>1, <2>3, <3>1
            DEF CopyChunk, CopyCall, CopyInv, CopyTypeOK, CopiesExactly, Filled, Remaining, Carried,
                Positions
  <2> QED BY <2>2, <2>3
<1>10. CASE UNCHANGED copyVars
  BY <1>10 DEF copyVars, CopyInv, CopyTypeOK, CopiesExactly, Filled, Remaining, Carried, WordAt,
               Byte
<1> QED BY <1>1, <1>2, <1>3, <1>4, <1>5, <1>6, <1>7, <1>8, <1>9, <1>10 DEF CopyStep

\* Every length and every pair of alignments is copied exactly, and no word is
\* read beyond the source, whatever the bound on the length (memcpy.c:24-118).
THEOREM MemcpyCopiesExactly == CopySpec => []CopiesExactly
<1>1. CopyInv => CopiesExactly
  BY DEF CopyInv
<1> QED BY <1>1, CopyInitially, CopyStepKeeps, PTL DEF CopySpec

-----------------------------------------------------------------------------
(* The circular queue is a first-in first-out queue that holds             *)
(* CQUEUE_SIZE elements.                                                   *)
LEMMA FollowingSlot ==
  ASSUME NEW i \in Slots \cup {-1}
  PROVE  Following(i) = (IF i = CQUEUE_SIZE - 1 THEN 0 ELSE i + 1) /\ Following(i) \in Slots
BY QueueParameters DEF Following, Slots

\* A queue holds at most CQUEUE_SIZE elements, and its tests tell how many.
LEMMA LengthBound ==
  ASSUME NEW Elements, NEW q \in Queues(Elements)
  PROVE  /\ Length(q) \in 0 .. CQUEUE_SIZE
         /\ cqueue_empty(q) <=> Length(q) = 0
         /\ cqueue_full(q) <=> Length(q) = CQUEUE_SIZE
         /\ \A i \in 1 .. Length(q) : Slot(q, i) \in Slots
<1>1. /\ q.head \in Slots \cup {-1} /\ q.tail \in Slots \cup {-1}
      /\ q.head = -1 <=> q.tail = -1
  BY DEF Queues
<1>2. CASE q.head = -1
  BY <1>1, <1>2, QueueParameters DEF Slots, Length, cqueue_empty, cqueue_full, Slot
<1>3. CASE q.head # -1
  <2>1. q.head \in Slots /\ q.tail \in Slots
    BY <1>1, <1>3
  <2>2. CASE q.head <= q.tail
    BY <1>3, <2>1, <2>2, QueueParameters DEF Slots, Length, cqueue_empty, cqueue_full, Slot
  <2>3. CASE ~(q.head <= q.tail)
    BY <1>3, <2>1, <2>3, QueueParameters DEF Slots, Length, cqueue_empty, cqueue_full, Slot
  <2> QED BY <2>2, <2>3
<1> QED BY <1>2, <1>3

\* Enqueueing into a queue that is not full appends (cqueue.c:16).
THEOREM EnqAppends ==
  ASSUME NEW Elements, NEW q \in Queues(Elements), NEW e \in Elements, ~cqueue_full(q)
  PROVE  /\ cqueue_enq(q, e) \in Queues(Elements)
         /\ Contents(cqueue_enq(q, e)) = Append(Contents(q), e)
<1> DEFINE new == cqueue_enq(q, e)
           last == Following(q.tail)
<1>1. /\ q.head \in Slots \cup {-1} /\ q.tail \in Slots \cup {-1}
      /\ q.mem \in [Slots -> Elements] /\ (q.head = -1 <=> q.tail = -1)
  BY DEF Queues
<1>2. last \in Slots /\ last = (IF q.tail = CQUEUE_SIZE - 1 THEN 0 ELSE q.tail + 1)
  BY <1>1, FollowingSlot
<1>3. new = [head |-> IF cqueue_empty(q) THEN 0 ELSE q.head, tail |-> last,
             mem |-> [q.mem EXCEPT ![last] = e]]
  BY DEF cqueue_enq
<1>4. new \in Queues(Elements)
  <2>1. new.head \in Slots
    BY <1>1, <1>3, QueueParameters DEF cqueue_empty, Slots
  <2> HIDE DEF last
  <2> QED BY <1>1, <1>2, <1>3, <2>1 DEF Queues, Slots
<1>5. Length(new) = Length(q) + 1
  <2> HIDE DEF last, new
  <2>1. new.tail = last /\ new.head = (IF q.head = -1 THEN 0 ELSE q.head)
    BY <1>3 DEF cqueue_empty
  <2>2. CASE q.head = -1
    BY <1>1, <1>2, <2>1, <2>2, QueueParameters DEF Length, cqueue_empty, Slots
  <2>3. CASE q.head # -1
    <3>1. q.head \in Slots /\ q.tail \in Slots /\ new.head = q.head
      BY <1>1, <2>1, <2>3
    <3>2. new.tail = (IF q.tail = CQUEUE_SIZE - 1 THEN 0 ELSE q.tail + 1)
      BY <1>2, <2>1
    <3>3. CASE q.tail = CQUEUE_SIZE - 1
      BY <2>3, <3>1, <3>2, <3>3, QueueParameters DEF Length, cqueue_empty, cqueue_full, Slots
    <3>4. CASE q.tail # CQUEUE_SIZE - 1
      BY <2>3, <3>1, <3>2, <3>4, QueueParameters DEF Length, cqueue_empty, cqueue_full, Slots
    <3> QED BY <3>3, <3>4
  <2> QED BY <2>2, <2>3
<1>6. ASSUME NEW i \in 1 .. Length(q)
      PROVE  Contents(new)[i] = Contents(q)[i]
  <2>1. Slot(new, i) = Slot(q, i) /\ Slot(q, i) # last /\ Slot(q, i) \in Slots
    <3>1. Slot(q, i) \in Slots /\ i \in Nat /\ i >= 1 /\ i <= Length(q)
      BY <1>6, LengthBound
    <3>2. ~cqueue_empty(q) /\ q.head \in Slots /\ q.tail \in Slots
      BY <1>1, <3>1, QueueParameters DEF Length, cqueue_empty, Slots
    <3>3. new.head = q.head
      BY <1>3, <3>2
    <3>4. Slot(q, i) # last
      <4> HIDE DEF last, new
      <4>1. CASE q.head <= q.tail
        BY <1>2, <3>1, <3>2, <4>1, QueueParameters
           DEF Slot, Length, cqueue_empty, cqueue_full, Slots
      <4>2. CASE ~(q.head <= q.tail)
        BY <1>2, <3>1, <3>2, <4>2, QueueParameters
           DEF Slot, Length, cqueue_empty, cqueue_full, Slots
      <4> QED BY <4>1, <4>2
    <3> QED BY <3>1, <3>3, <3>4 DEF Slot
  <2>2. i \in 1 .. Length(new)
    BY <1>5, LengthBound
  <2> QED BY <1>1, <1>3, <1>6, <2>1, <2>2 DEF Contents
<1>7. Contents(new)[Length(q) + 1] = e
  <2>1. Slot(new, Length(q) + 1) = last
    <3> HIDE DEF last, new
    <3> QED BY <1>1, <1>2, <1>3, QueueParameters
            DEF Slot, Length, cqueue_empty, cqueue_full, Slots
  <2>2. Length(q) + 1 \in 1 .. Length(new)
    BY <1>5, LengthBound
  <2> QED BY <1>1, <1>2, <1>3, <2>1, <2>2 DEF Contents
<1>8. Contents(new) = Append(Contents(q), e)
  <2>1. Length(q) \in Nat /\ Len(Contents(q)) = Length(q) /\ Contents(q) \in Seq(Elements)
    <3>1. Length(q) \in Nat /\ \A i \in 1 .. Length(q) : q.mem[Slot(q, i)] \in Elements
      BY <1>1, LengthBound
    <3> QED BY <3>1 DEF Contents
  <2>2. /\ Append(Contents(q), e) \in Seq(Elements)
        /\ Len(Append(Contents(q), e)) = Length(q) + 1
        /\ \A i \in 1 .. Length(q) : Append(Contents(q), e)[i] = Contents(q)[i]
        /\ Append(Contents(q), e)[Length(q) + 1] = e
    BY <2>1, AppendProperties
  <2>3. Contents(new) \in Seq(Elements) /\ Len(Contents(new)) = Length(q) + 1
    <3>1. \A i \in 1 .. Length(new) : new.mem[Slot(new, i)] \in Elements
      BY <1>4, LengthBound DEF Queues
    <3>2. Length(new) \in Nat
      BY <1>4, LengthBound
    <3> HIDE DEF new
    <3> QED BY <1>5, <3>1, <3>2 DEF Contents
  <2>4. \A i \in 1 .. (Length(q) + 1) : Contents(new)[i] = Append(Contents(q), e)[i]
    BY <1>6, <1>7, <2>1, <2>2
  <2> HIDE DEF new
  <2> QED BY <2>2, <2>3, <2>4, SeqEqual
<1> QED BY <1>4, <1>8

\* Dequeueing from a queue that is not empty gives its first element and leaves
\* the rest (cqueue.c:30).
THEOREM DeqTakesFirst ==
  ASSUME NEW Elements, NEW q \in Queues(Elements), ~cqueue_empty(q)
  PROVE  /\ cqueue_deq(q) \in Queues(Elements)
         /\ Contents(q) # <<>>
         /\ FirstOf(q) = Head(Contents(q))
         /\ Contents(cqueue_deq(q)) = Tail(Contents(q))
<1> DEFINE new == cqueue_deq(q)
<1>1. /\ q.head \in Slots /\ q.tail \in Slots /\ q.mem \in [Slots -> Elements]
      /\ q = [head |-> q.head, tail |-> q.tail, mem |-> q.mem]
  BY DEF Queues, cqueue_empty
<1>2. Following(q.head) \in Slots
      /\ Following(q.head) = (IF q.head = CQUEUE_SIZE - 1 THEN 0 ELSE q.head + 1)
  BY <1>1, FollowingSlot
<1>3. /\ q.head = q.tail => new = [head |-> -1, tail |-> -1, mem |-> q.mem]
      /\ q.head # q.tail => new = [head |-> Following(q.head), tail |-> q.tail, mem |-> q.mem]
  BY <1>1 DEF cqueue_deq
<1>4. new \in Queues(Elements)
  <2> HIDE DEF new
  <2> QED BY <1>1, <1>2, <1>3 DEF Queues, Slots
<1>5. Length(q) \in Nat \ {0} /\ Length(new) = Length(q) - 1
  <2>1. Length(q) \in Nat \ {0}
    BY LengthBound
  <2> HIDE DEF new
  <2>2. CASE q.head = q.tail
    BY <1>1, <1>3, <2>2, QueueParameters DEF Length, cqueue_empty, Slots
  <2>3. CASE q.head # q.tail /\ q.head = CQUEUE_SIZE - 1
    <3>1. new.head = 0 /\ new.tail = q.tail
      BY <1>2, <1>3, <2>3
    <3> QED BY <1>1, <3>1, <2>3, QueueParameters DEF Length, cqueue_empty, Slots
  <2>4. CASE q.head # q.tail /\ q.head # CQUEUE_SIZE - 1
    <3>1. new.head = q.head + 1 /\ new.tail = q.tail
      BY <1>2, <1>3, <2>4
    <3>2. CASE q.head < q.tail
      BY <1>1, <3>1, <3>2, <2>4, QueueParameters DEF Length, cqueue_empty, Slots
    <3>3. CASE q.head > q.tail
      BY <1>1, <3>1, <3>3, <2>4, QueueParameters DEF Length, cqueue_empty, Slots
    <3> QED BY <1>1, <2>4, <3>2, <3>3 DEF Slots
  <2> QED BY <2>1, <2>2, <2>3, <2>4
<1>6. /\ Contents(q) \in Seq(Elements) /\ Len(Contents(q)) = Length(q)
      /\ Contents(q)[1] = q.mem[q.head]
  <2>1. \A i \in 1 .. Length(q) : q.mem[Slot(q, i)] \in Elements
    BY <1>1, LengthBound
  <2>2. Slot(q, 1) = q.head
    BY <1>1, QueueParameters DEF Slot, Slots
  <2> QED BY <1>5, <2>1, <2>2 DEF Contents
<1>7. ASSUME NEW i \in 1 .. (Length(q) - 1)
      PROVE  Contents(new)[i] = Contents(q)[i + 1]
  <2>1. Slot(new, i) = Slot(q, i + 1)
    <3>1. q.head # q.tail
      BY <1>1, <1>5, <1>7, QueueParameters DEF Length, cqueue_empty, Slots
    <3>2. new.head = IF q.head = CQUEUE_SIZE - 1 THEN 0 ELSE q.head + 1
      BY <1>2, <1>3, <3>1
    <3>3. i \in Nat /\ i >= 1 /\ i < CQUEUE_SIZE
      BY <1>5, <1>7, LengthBound, QueueParameters
    <3> HIDE DEF new
    <3> QED BY <1>1, <3>2, <3>3, QueueParameters DEF Slot, Slots
  <2>2. new.mem = q.mem /\ i \in 1 .. Length(new) /\ i + 1 \in 1 .. Length(q)
    BY <1>3, <1>5, <1>7
  <2> QED BY <2>1, <2>2 DEF Contents
<1>8. Contents(new) = Tail(Contents(q))
  BY <1>5, <1>6, <1>7 DEF Contents
<1> QED BY <1>4, <1>5, <1>6, <1>8 DEF FirstOf

-----------------------------------------------------------------------------
(* The timer and its driver.                                               *)
-----------------------------------------------------------------------------
(* The two words of a time.                                                 *)
LEMMA Words ==
  ASSUME NEW t \in Nat
  PROVE  /\ High(t) \in Nat /\ Low(t) \in 0..(WordValues - 1)
         /\ Join(High(t), Low(t)) = t
<1>. DEFINE W == WordValues
<1>1. W \in Nat /\ W > 0
  BY TimerParameters
<1>. HIDE DEF W
<1>2. t \div W \in Nat /\ t % W \in 0..(W - 1)
  BY <1>1
<1>3. (t \div W) * W + (t % W) = t
  BY <1>1
<1>. QED
  BY <1>2, <1>3 DEF High, Low, Join, W

\* Joining two words and splitting again gives the words back.
LEMMA HighOfJoin ==
  ASSUME NEW h \in Nat, NEW l \in 0..(WordValues - 1)
  PROVE  Join(h, l) \in Nat /\ High(Join(h, l)) = h /\ Low(Join(h, l)) = l
<1>. DEFINE W == WordValues
<1>1. W \in Nat /\ W > 0
  BY TimerParameters
<1>. HIDE DEF W
<1>2. l \in 0..(W - 1)
  BY DEF W
<1>3. h * W + l \in Nat
  BY <1>1, <1>2
<1>4. (h * W + l) \div W = h
  BY <1>1, <1>2
<1>5. (h * W + l) % W = l
  BY <1>1, <1>2
<1>. QED
  BY <1>3, <1>4, <1>5 DEF High, Low, Join, W

\* The high word does not fall while the time rises.
LEMMA HighGrows ==
  ASSUME NEW s \in Nat, NEW t \in Nat, s <= t
  PROVE  High(s) <= High(t)
<1>. DEFINE W == WordValues
<1>1. W \in Nat /\ W > 0
  BY TimerParameters
<1>. HIDE DEF W
<1>2. s \div W <= t \div W
  BY <1>1
<1>. QED
  BY <1>2 DEF High, W

\* A time of larger words is no earlier.
LEMMA JoinGrows ==
  ASSUME NEW g \in Nat, NEW h \in Nat, g <= h,
         NEW k \in 0..(WordValues - 1), NEW l \in 0..(WordValues - 1), k <= l
  PROVE  Join(g, k) <= Join(h, l)
<1>. DEFINE W == WordValues
<1>1. W \in Nat
  BY TimerParameters
<1>. HIDE DEF W
<1>2. g * W \in Nat /\ h * W \in Nat /\ g * W <= h * W
  BY <1>1
<1>3. k \in Nat /\ l \in Nat
  BY <1>1 DEF W
<1>. QED
  BY <1>2, <1>3 DEF Join, W

-----------------------------------------------------------------------------
Stores == {"elapsed", "elapsedh", "increment", "incrementh"}
Places ==
  Stores \cup {"return", "high", "low", "again", "result", "mask", "cmph", "cmp", "rest"}
Known  == {"result", "mask", "cmph", "cmp"}

TimerTypeOK ==
  /\ mtime \in Nat /\ mtimecmp \in Nat /\ deadline \in Nat
  /\ time_increment \in Nat /\ time_base \in Nat
  /\ interrupt \in BOOLEAN /\ inHandler \in BOOLEAN /\ unmasked \in BOOLEAN
  /\ at \in [Contexts -> Places] /\ asked \in [Contexts -> Nat]
  /\ timeh \in [Contexts -> Nat] /\ time \in [Contexts -> 0..(WordValues - 1)]
  /\ inHandler <=> at["handler"] # "return"

(* What a read in progress has, and that the handler reads a later time     *)
(* than the program it interrupts.                                          *)
ReadingInv(c) ==
  /\ at[c] # "return" => asked[c] <= mtime
  /\ at[c] = "low" => \E t \in asked[c]..mtime : timeh[c] = High(t)
  /\ at[c] = "again" =>
       \E s, t \in asked[c]..mtime : s <= t /\ timeh[c] = High(s) /\ time[c] = Low(t)
  /\ at[c] \in Known => Result(c) \in asked[c]..mtime

ReadInv ==
  /\ \A c \in Contexts : ReadingInv(c)
  /\ inHandler /\ at["program"] \in Known => Result("program") <= asked["handler"]

(* The words of time_increment are those of the argument of timer_enable    *)
(* when the interrupt it sets up is computed, and so the handler's period.  *)
StoreInv ==
  /\ at["program"] = "incrementh" => Low(time_increment) = Low(time_base)
  /\ at["program"] \in {"high", "low", "again"} => reads \/ time_increment = time_base
  /\ at["program"] \in {"mask", "cmph", "cmp"} => time_increment = time_base

(* The compare register is never below the time that is due, but for a      *)
(* program that the handler has interrupted between its writes.             *)
CompareInv ==
  /\ at["handler"] = "cmp" => High(mtimecmp) = High(NewTime("handler"))
  /\ inHandler /\ at["program"] = "cmph" => unmasked
  /\ unmasked => at["program"] \in {"cmph", "cmp"}
  /\ at["handler"] \in {"return", "rest"} =>
       IF at["program"] = "cmp"
       THEN /\ High(mtimecmp) >= High(NewTime("program"))
            /\ ~unmasked => /\ mtimecmp >= NewTime("program")
                            /\ interrupt => mtime >= NewTime("program")
       ELSE /\ mtimecmp >= deadline
            /\ interrupt => mtime >= deadline
            /\ at["program"] = "cmph" /\ ~unmasked => Low(mtimecmp) = WordValues - 1

TimerInv == TimerTypeOK /\ ReadInv /\ StoreInv /\ CompareInv

\* The invariant of the timer holds at reset.
LEMMA TimerInvInit == TimerInit => TimerInv
<1>. SUFFICES ASSUME TimerInit PROVE TimerInv
  OBVIOUS
<1>1. WordValues \in Nat \ {0}
  BY TimerParameters
<1>2. /\ mtime = 0 /\ mtimecmp = 0 /\ interrupt = FALSE /\ inHandler = FALSE
      /\ time_increment = 0 /\ time_base = 0 /\ deadline = 0 /\ unmasked = FALSE
      /\ at = [c \in Contexts |-> "return"] /\ timeh = [c \in Contexts |-> 0]
      /\ time = timeh /\ asked = time
  BY DEF TimerInit
<1>3. TimerTypeOK
  <2>1. 0 \in 0..(WordValues - 1) /\ "return" \in Places /\ "handler" \in Contexts
    BY <1>1 DEF Places, Contexts
  <2>. QED
    BY <1>2, <2>1 DEF TimerTypeOK
<1>4. ReadInv
  BY <1>2 DEF ReadInv, ReadingInv, Contexts, Known
<1>5. CompareInv
  BY <1>2 DEF CompareInv, Contexts
<1>6. StoreInv
  BY <1>2 DEF StoreInv, Contexts
<1>. QED
  BY <1>3, <1>4, <1>5, <1>6 DEF TimerInv

\* The contexts and the places of the driver are the ones listed.
LEMMA Names ==
  /\ Contexts = {"program", "handler"} /\ "program" \in Contexts /\ "handler" \in Contexts
  /\ "return" \in Places /\ "high" \in Places /\ "low" \in Places /\ "again" \in Places
  /\ "result" \in Places /\ "mask" \in Places /\ "cmph" \in Places /\ "cmp" \in Places
  /\ "rest" \in Places
  /\ "return" \notin Stores /\ Stores \subseteq Places
BY DEF Contexts, Places, Stores

\* A call of the program, or a store of timer_enable.
ProgramBegins ==
  CallTimerRead \/ (\E base \in Bases : CallTimerEnable(base)) \/ StoreElapsed \/ StoreIncrement

\* What they have in common.
LEMMA BeginSteps ==
  ASSUME TimerTypeOK, ProgramBegins
  PROVE  /\ at["program"] \in Stores \cup {"return"} /\ ~inHandler
         /\ \E place \in Stores \cup {"high"} : at' = [at EXCEPT !["program"] = place]
         /\ asked' = [asked EXCEPT !["program"] = mtime]
         /\ UNCHANGED <<mtime, mtimecmp, interrupt, deadline, unmasked, inHandler, timeh, time>>
         /\ time_increment' \in Nat /\ time_base' \in Nat
<1>1. /\ time_increment \in Nat /\ time_base \in Nat /\ Bases \subseteq Nat
  BY TimerParameters DEF TimerTypeOK
<1>2. CASE CallTimerRead
  BY <1>1, <1>2 DEF CallTimerRead, Call, Begin, device, driver
<1>3. ASSUME NEW base \in Bases, CallTimerEnable(base)
      PROVE  /\ at["program"] = "return" /\ ~inHandler
             /\ at' = [at EXCEPT !["program"] = "elapsed"]
             /\ asked' = [asked EXCEPT !["program"] = mtime]
             /\ UNCHANGED <<mtime, mtimecmp, interrupt, deadline, unmasked, inHandler, timeh, time>>
             /\ time_increment' \in Nat /\ time_base' \in Nat
  BY <1>1, <1>3 DEF CallTimerEnable, Call, Begin, device, driver
<1>4. /\ Join(High(time_increment), Low(time_base)) \in Nat
      /\ Join(High(time_base), Low(time_increment)) \in Nat
  BY <1>1, Words, HighOfJoin
<1>5. CASE StoreElapsed
  BY <1>1, <1>5 DEF StoreElapsed, Store, Begin, device, Stores
<1>6. CASE StoreIncrement
  BY <1>1, <1>4, <1>6 DEF StoreIncrement, Store, Begin, device, Stores
<1>7. "elapsed" \in Stores
  BY DEF Stores
<1>. QED
  BY <1>2, <1>3, <1>5, <1>6, <1>7 DEF ProgramBegins

\* Every step keeps the types.
LEMMA TimerTypeStep ==
  ASSUME TimerInv, [TimerNext]_timerVars
  PROVE  TimerTypeOK'
<1>0. /\ TimerTypeOK
      /\ mtime \in Nat /\ mtimecmp \in Nat /\ deadline \in Nat
      /\ time_increment \in Nat /\ time_base \in Nat
      /\ interrupt \in BOOLEAN /\ inHandler \in BOOLEAN /\ unmasked \in BOOLEAN
      /\ at \in [Contexts -> Places] /\ asked \in [Contexts -> Nat]
      /\ timeh \in [Contexts -> Nat] /\ time \in [Contexts -> 0..(WordValues - 1)]
      /\ inHandler <=> at["handler"] # "return"
  BY DEF TimerInv, TimerTypeOK
<1>1. WordValues \in Nat \ {0} /\ Bases \subseteq Nat
  BY TimerParameters
<1>2. CASE Wait
  BY <1>0, <1>2 DEF Wait, Read, Cycle, driver, TimerTypeOK
<1>3. ASSUME ProgramBegins PROVE TimerTypeOK'
  <2>1. /\ \E place \in Stores \cup {"high"} : at' = [at EXCEPT !["program"] = place]
        /\ asked' = [asked EXCEPT !["program"] = mtime]
        /\ UNCHANGED <<mtime, mtimecmp, interrupt, deadline, unmasked, inHandler, timeh, time>>
        /\ time_increment' \in Nat /\ time_base' \in Nat
    BY <1>0, <1>3, BeginSteps
  <2>2. at' \in [Contexts -> Places] /\ at'["handler"] = at["handler"]
    BY <1>0, <2>1, Names
  <2>3. asked' \in [Contexts -> Nat]
    BY <1>0, <2>1, Names
  <2>. QED
    BY <1>0, <1>1, <2>1, <2>2, <2>3 DEF TimerTypeOK
<1>4. CASE CallTimerDisable
  BY <1>0, <1>4 DEF CallTimerDisable, Call, device, driver, TimerTypeOK
<1>5. CASE TakeInterrupt
  <2>1. /\ at' = [at EXCEPT !["handler"] = "high"] /\ asked' = [asked EXCEPT !["handler"] = mtime]
        /\ UNCHANGED <<mtime, mtimecmp, interrupt, deadline, time_increment, time_base, timeh, time>>
        /\ inHandler' = TRUE /\ unmasked' \in BOOLEAN
    BY <1>5 DEF TakeInterrupt, Begin, device, driver
  <2>2. at' \in [Contexts -> Places] /\ at'["handler"] = "high"
    BY <1>0, <2>1, Names
  <2>3. asked' \in [Contexts -> Nat]
    BY <1>0, <2>1, Names
  <2>. QED
    BY <1>0, <2>1, <2>2, <2>3 DEF TimerTypeOK
<1>6. CASE TimerReadReturns
  <2>1. /\ at' = [at EXCEPT !["program"] = "return"]
        /\ UNCHANGED <<mtime, mtimecmp, interrupt, deadline, time_increment, time_base, timeh, time,
                       inHandler, unmasked, asked>>
    BY <1>6 DEF TimerReadReturns, Goto, ctrl, device, driver
  <2>2. at' \in [Contexts -> Places] /\ at'["handler"] = at["handler"]
    BY <1>0, <2>1, Names
  <2>. QED
    BY <1>0, <2>1, <2>2 DEF TimerTypeOK
<1>7. ASSUME NEW c \in Contexts, ReadTimeh(c) \/ ReadTime(c) \/ ReadTimehAgain(c)
      PROVE  TimerTypeOK'
  <2>1. High(mtime) \in Nat /\ Low(mtime) \in 0..(WordValues - 1)
    BY <1>0, Words
  <2>2. /\ mtime' = mtime + 1 /\ mtimecmp' = mtimecmp /\ interrupt' \in BOOLEAN
        /\ UNCHANGED <<deadline, time_increment, time_base, inHandler, unmasked, asked>>
        /\ timeh' = timeh \/ timeh' = [timeh EXCEPT ![c] = High(mtime)]
        /\ time' = time \/ time' = [time EXCEPT ![c] = Low(mtime)]
        /\ inHandler <=> c = "handler"
        /\ \E place \in Places \ {"return"} : at' = [at EXCEPT ![c] = place]
    BY <1>7, Names DEF ReadTimeh, ReadTime, ReadTimehAgain, Read, Cycle, Goto, Runs, ctrl, driver
  <2>3. /\ timeh' \in [Contexts -> Nat] /\ time' \in [Contexts -> 0..(WordValues - 1)]
    BY <1>0, <2>1, <2>2
  <2>4. /\ at' \in [Contexts -> Places] /\ (inHandler <=> at'["handler"] # "return")
    BY <1>0, <2>2, Names
  <2>. QED
    BY <1>0, <2>2, <2>3, <2>4 DEF TimerTypeOK
<1>8. ASSUME NEW c \in Contexts, WriteMask(c) \/ WriteTimecmph(c) \/ WriteTimecmp(c)
      PROVE  TimerTypeOK'
  <2>1. NewTime(c) \in Nat /\ WordValues - 1 \in 0..(WordValues - 1)
    <3>1. timeh[c] \in Nat /\ time[c] \in 0..(WordValues - 1)
      BY <1>0
    <3>2. Result(c) \in Nat
      BY <3>1, HighOfJoin DEF Result
    <3>. QED
      BY <1>0, <1>1, <3>2 DEF NewTime
  <2>2. /\ High(mtimecmp) \in Nat /\ Low(mtimecmp) \in 0..(WordValues - 1)
        /\ High(NewTime(c)) \in Nat /\ Low(NewTime(c)) \in 0..(WordValues - 1)
    BY <1>0, <2>1, Words
  <2>3. /\ MaskTimecmp(c) \in Nat
        /\ Join(High(NewTime(c)), Low(mtimecmp)) \in Nat
        /\ Join(High(mtimecmp), Low(NewTime(c))) \in Nat
    BY <2>1, <2>2, HighOfJoin DEF MaskTimecmp
  <2>4. /\ mtime' = mtime + 1 /\ mtimecmp' \in Nat /\ interrupt' \in BOOLEAN
        /\ UNCHANGED <<time_increment, time_base, inHandler, asked, timeh, time>>
        /\ inHandler <=> c = "handler"
        /\ deadline' = deadline \/ deadline' = NewTime(c)
        /\ unmasked' \in BOOLEAN
    BY <1>0, <1>8, <2>3
       DEF WriteMask, WriteTimecmph, WriteTimecmp, Write, Cycle, Goto, Runs, ctrl, driver
  <2>5. \E place \in Places \ {"return"} : at' = [at EXCEPT ![c] = place]
    BY <1>8, Names DEF WriteMask, WriteTimecmph, WriteTimecmp, Goto
  <2>6. at' \in [Contexts -> Places] /\ (inHandler <=> at'["handler"] # "return")
    BY <1>0, <2>4, <2>5, Names
  <2>. QED
    BY <1>0, <2>1, <2>4, <2>6 DEF TimerTypeOK
<1>9. ASSUME NEW c \in Contexts, Rest(c) PROVE TimerTypeOK'
  <2>1. /\ at' = [at EXCEPT ![c] = "return"]
        /\ UNCHANGED <<mtime, mtimecmp, interrupt, deadline, time_increment, time_base, timeh, time, unmasked, asked>>
        /\ inHandler <=> c = "handler"
        /\ inHandler' = (IF c = "program" THEN inHandler ELSE FALSE)
    BY <1>9 DEF Rest, Goto, Runs, device
  <2>2. at' \in [Contexts -> Places] /\ (inHandler' <=> at'["handler"] # "return")
    BY <1>0, <2>1, Names
  <2>. QED
    BY <1>0, <2>1, <2>2 DEF TimerTypeOK
<1>10. CASE UNCHANGED timerVars
  BY <1>0, <1>10 DEF timerVars, device, driver, TimerTypeOK
<1>. QED
  BY <1>2, <1>3, <1>4, <1>5, <1>6, <1>7, <1>8, <1>9, <1>10 DEF TimerNext, ProgramBegins

\* A reading is left alone by what does not touch it.
LEMMA ReadingKept ==
  ASSUME NEW d \in Contexts, ReadingInv(d), TimerTypeOK, TimerTypeOK', mtime <= mtime',
         at'[d] = at[d], asked'[d] = asked[d], timeh'[d] = timeh[d], time'[d] = time[d]
  PROVE  ReadingInv(d)'
<1>1. mtime \in Nat /\ mtime' \in Nat /\ asked[d] \in Nat
  BY DEF TimerTypeOK
<1>2. Result(d)' = Result(d)
  BY DEF Result
<1>3. asked[d]..mtime \subseteq asked[d]..mtime'
  BY <1>1
<1>. QED
  BY <1>1, <1>2, <1>3 DEF ReadingInv

(* What a read step does to its own context.                                *)
LEMMA ReadsOn ==
  ASSUME TimerInv, TimerTypeOK', NEW c \in Contexts, ReadTimeh(c) \/ ReadTime(c) \/ ReadTimehAgain(c)
  PROVE  ReadingInv(c)'
<1>1. /\ mtime \in Nat /\ asked[c] \in Nat /\ timeh[c] \in Nat /\ mtime' = mtime + 1
      /\ at \in [Contexts -> Places] /\ ReadingInv(c) /\ asked' = asked
      /\ timeh \in [Contexts -> Nat] /\ time \in [Contexts -> 0..(WordValues - 1)]
  BY DEF TimerInv, TimerTypeOK, ReadInv, ReadTimeh, ReadTime, ReadTimehAgain, Read, Cycle, ctrl
<1>2. CASE ReadTimeh(c)
  <2>1. at[c] = "high" /\ timeh'[c] = High(mtime) /\ at'[c] = "low"
    BY <1>1, <1>2 DEF ReadTimeh, Goto
  <2>. QED
    BY <1>1, <2>1 DEF ReadingInv, Known
<1>3. CASE ReadTime(c)
  <2>1. at[c] = "low" /\ time'[c] = Low(mtime) /\ timeh' = timeh /\ at'[c] = "again"
    BY <1>1, <1>3 DEF ReadTime, Goto
  <2>2. PICK s \in asked[c]..mtime : timeh[c] = High(s)
    BY <1>1, <2>1 DEF ReadingInv
  <2>3. s \in asked[c]..mtime' /\ mtime \in asked[c]..mtime' /\ s <= mtime
    BY <1>1, <2>2
  <2>. QED
    BY <1>1, <2>1, <2>2, <2>3 DEF ReadingInv, Known
<1>4. CASE ReadTimehAgain(c)
  <2>1. /\ at[c] = "again" /\ timeh' = timeh /\ time' = time
        /\ at'[c] = IF Retry(c) THEN "high" ELSE IF Reading(c) THEN "result" ELSE "mask"
    BY <1>1, <1>4 DEF ReadTimehAgain, Goto
  <2>2. PICK s \in asked[c]..mtime, t \in asked[c]..mtime :
               s <= t /\ timeh[c] = High(s) /\ time[c] = Low(t)
    BY <1>1, <2>1 DEF ReadingInv
  <2>3. s \in Nat /\ t \in Nat /\ s <= t /\ t <= mtime /\ asked[c] <= t
    BY <1>1, <2>2
  <2>4. ~Retry(c) => High(t) = timeh[c]
    <3>1. /\ High(s) \in Nat /\ High(t) \in Nat /\ High(mtime) \in Nat
          /\ High(s) <= High(t) /\ High(t) <= High(mtime)
      BY <1>1, <2>3, Words, HighGrows
    <3>. QED
      BY <2>2, <3>1 DEF Retry
  <2>5. ~Retry(c) => Result(c)' = t
    BY <2>1, <2>2, <2>3, <2>4, Words DEF Result
  <2>. QED
    BY <1>1, <2>1, <2>3, <2>5 DEF ReadingInv, Known
<1>. QED
  BY <1>2, <1>3, <1>4

\* Every step keeps what the readings rest on.
LEMMA ReadInvStep ==
  ASSUME TimerInv, [TimerNext]_timerVars
  PROVE  ReadInv'
<1>0. /\ TimerTypeOK /\ TimerTypeOK' /\ mtime \in Nat /\ mtime' \in Nat
      /\ at \in [Contexts -> Places] /\ asked \in [Contexts -> Nat]
      /\ timeh \in [Contexts -> Nat] /\ time \in [Contexts -> 0..(WordValues - 1)]
      /\ inHandler <=> at["handler"] # "return"
      /\ \A c \in Contexts : ReadingInv(c)
      /\ inHandler /\ at["program"] \in Known => Result("program") <= asked["handler"]
  BY TimerTypeStep DEF TimerInv, TimerTypeOK, ReadInv
<1>1. ASSUME UNCHANGED <<at, asked, timeh, time, inHandler>>, mtime <= mtime'
      PROVE  ReadInv'
  <2>1. ReadingInv("program")' /\ ReadingInv("handler")'
    BY <1>0, <1>1, Names, ReadingKept
  <2>2. Result("program")' = Result("program")
    BY <1>1 DEF Result
  <2>. QED
    BY <1>0, <1>1, <2>1, <2>2 DEF ReadInv, Contexts
<1>2. ASSUME NEW c \in Contexts, NEW d \in Contexts, c # d, mtime <= mtime',
             at'[d] = at[d], asked'[d] = asked[d], timeh'[d] = timeh[d], time'[d] = time[d],
             ReadingInv(c)',
             inHandler' /\ at'["program"] \in Known => Result("program")' <= asked'["handler"]
      PROVE  ReadInv'
  <2>1. ReadingInv(d)'
    BY <1>0, <1>2, ReadingKept
  <2>. QED
    BY <1>2, <2>1 DEF ReadInv, Contexts
<1>3. ASSUME ProgramBegins PROVE ReadInv'
  <2>1. /\ \E place \in Stores \cup {"high"} : at' = [at EXCEPT !["program"] = place]
        /\ asked' = [asked EXCEPT !["program"] = mtime]
        /\ mtime' = mtime /\ timeh' = timeh /\ time' = time /\ inHandler' = inHandler /\ ~inHandler
    BY <1>0, <1>3, BeginSteps
  <2>2. /\ at'["program"] \in Stores \cup {"high"} /\ asked'["program"] = mtime
        /\ at'["handler"] = at["handler"] /\ asked'["handler"] = asked["handler"]
    BY <1>0, <2>1, Names
  <2>3. ReadingInv("program")'
    BY <1>0, <2>1, <2>2 DEF ReadingInv, Known, Stores
  <2>. QED
    BY <1>0, <1>2, <2>1, <2>2, <2>3, Names
<1>4. CASE TakeInterrupt
  <2>1. /\ at' = [at EXCEPT !["handler"] = "high"] /\ asked' = [asked EXCEPT !["handler"] = mtime]
        /\ mtime' = mtime /\ timeh' = timeh /\ time' = time
    BY <1>4 DEF TakeInterrupt, Begin, device
  <2>2. /\ at'["handler"] = "high" /\ asked'["handler"] = mtime
        /\ at'["program"] = at["program"] /\ asked'["program"] = asked["program"]
    BY <1>0, <2>1, Names
  <2>3. ReadingInv("handler")'
    BY <1>0, <2>1, <2>2 DEF ReadingInv, Known
  <2>4. at'["program"] \in Known => Result("program")' <= mtime
    <3>1. at["program"] \in Known => Result("program") \in asked["program"]..mtime
      BY <1>0, Names DEF ReadingInv
    <3>2. Result("program")' = Result("program")
      BY <2>1 DEF Result
    <3>. QED
      BY <2>2, <3>1, <3>2
  <2>. QED
    BY <1>0, <1>2, <2>1, <2>2, <2>3, <2>4, Names
<1>5. ASSUME NEW c \in Contexts, ReadTimeh(c) \/ ReadTime(c) \/ ReadTimehAgain(c)
      PROVE  ReadInv'
  <2>1. /\ mtime' = mtime + 1 /\ asked' = asked /\ inHandler' = inHandler
        /\ \E x : timeh' = [timeh EXCEPT ![c] = x]
        /\ \E x : time' = [time EXCEPT ![c] = x]
        /\ \E x : at' = [at EXCEPT ![c] = x]
        /\ inHandler <=> c = "handler"
    <3>1. /\ \E x : timeh' = [timeh EXCEPT ![c] = x]
          /\ \E x : time' = [time EXCEPT ![c] = x]
      <4>1. timeh = [timeh EXCEPT ![c] = timeh[c]] /\ time = [time EXCEPT ![c] = time[c]]
        BY <1>0
      <4>. QED
        BY <1>5, <4>1 DEF ReadTimeh, ReadTime, ReadTimehAgain
    <3>. QED
      BY <1>5, <3>1 DEF ReadTimeh, ReadTime, ReadTimehAgain, Read, Cycle, Goto, Runs, ctrl
  <2>2. ReadingInv(c)'
    BY <1>0, <1>5, ReadsOn
  <2>3. PICK d \in Contexts : c # d
    BY DEF Contexts
  <2>4. at'[d] = at[d] /\ timeh'[d] = timeh[d] /\ time'[d] = time[d]
    BY <1>0, <2>1, <2>3
  <2>5. inHandler' /\ at'["program"] \in Known => Result("program")' <= asked'["handler"]
    <3>. SUFFICES ASSUME inHandler PROVE at'["program"] \in Known => Result("program")' <= asked'["handler"]
      BY <2>1
    <3>1. d = "program"
      BY <2>1, <2>3 DEF Contexts
    <3>2. Result("program")' = Result("program")
      BY <2>4, <3>1 DEF Result
    <3>. QED
      BY <1>0, <2>1, <2>4, <3>1, <3>2
  <2>. QED
    BY <1>0, <1>2, <2>1, <2>2, <2>3, <2>4, <2>5
<1>6. ASSUME NEW c \in Contexts,
             \/ WriteMask(c) \/ WriteTimecmph(c) \/ WriteTimecmp(c) \/ Rest(c)
             \/ (c = "program" /\ TimerReadReturns)
      PROVE  ReadInv'
  <2>1. /\ mtime' = mtime \/ mtime' = mtime + 1
        /\ UNCHANGED <<asked, timeh, time>>
        /\ inHandler <=> c = "handler"
        /\ inHandler' => inHandler
        /\ \/ at' = [at EXCEPT ![c] = "return"]
           \/ at' = [at EXCEPT ![c] = "rest"]
           \/ at[c] \in Known /\ \E x \in Known : at' = [at EXCEPT ![c] = x]
    BY <1>6 DEF WriteMask, WriteTimecmph, WriteTimecmp, Rest, TimerReadReturns, Write, Cycle, Goto,
                Runs, ctrl, device, Known
  <2>2. Result(c)' = Result(c) /\ Result("program")' = Result("program")
    BY <2>1 DEF Result
  <2>3. PICK d \in Contexts : c # d
    BY DEF Contexts
  <2>4. at'[d] = at[d] /\ (at'[c] = "return" \/ at[c] # "return")
    BY <1>0, <1>6, <2>1, <2>3 DEF WriteMask, WriteTimecmph, WriteTimecmp, Rest, TimerReadReturns, Goto
  <2>5. at'[c] \in {"return", "rest"} \/ (at[c] \in Known /\ at'[c] \in Known)
    BY <1>0, <2>1
  <2>6. ReadingInv(c)'
    <3>1. ReadingInv(c) /\ asked[c] \in Nat
      BY <1>0
    <3>. QED
      BY <1>0, <2>1, <2>2, <2>4, <2>5, <3>1 DEF ReadingInv, Known
  <2>7. inHandler' /\ at'["program"] \in Known => Result("program")' <= asked'["handler"]
    <3>. SUFFICES ASSUME inHandler' PROVE at'["program"] \in Known => Result("program")' <= asked'["handler"]
      OBVIOUS
    <3>1. d = "program" /\ inHandler
      BY <2>1, <2>3 DEF Contexts
    <3>. QED
      BY <1>0, <2>1, <2>2, <2>4, <3>1
  <2>. QED
    BY <1>0, <1>2, <2>1, <2>3, <2>4, <2>6, <2>7
<1>7. CASE Wait \/ CallTimerDisable \/ UNCHANGED timerVars
  BY <1>0, <1>1, <1>7 DEF Wait, Read, Cycle, CallTimerDisable, timerVars, device, driver
<1>. QED
  BY <1>3, <1>4, <1>5, <1>6, <1>7, Names DEF TimerNext, ProgramBegins

\* Every step keeps what is known of the two words of time_increment.
LEMMA StoreInvStep ==
  ASSUME TimerInv, [TimerNext]_timerVars
  PROVE  StoreInv'
<1>0. /\ TimerTypeOK /\ StoreInv /\ time_increment \in Nat /\ time_base \in Nat
      /\ at \in [Contexts -> Places]
  BY DEF TimerInv, TimerTypeOK
<1>1. ASSUME UNCHANGED <<time_increment, time_base, reads>>, at'["program"] = at["program"]
      PROVE  StoreInv'
  BY <1>0, <1>1 DEF StoreInv
<1>2. CASE Wait \/ CallTimerDisable \/ UNCHANGED timerVars
  BY <1>1, <1>2 DEF Wait, CallTimerDisable, timerVars, driver
<1>3. CASE CallTimerRead \/ \E base \in Bases : CallTimerEnable(base)
  <2>1. \/ reads' = TRUE /\ at' = [at EXCEPT !["program"] = "high"]
        \/ at' = [at EXCEPT !["program"] = "elapsed"]
    BY <1>3 DEF CallTimerRead, CallTimerEnable, Begin
  <2>2. at'["program"] = "elapsed" \/ (reads' /\ at'["program"] = "high")
    BY <1>0, <2>1, Names
  <2>. QED
    BY <2>2 DEF StoreInv
<1>4. CASE StoreElapsed
  <2>1. \/ at' = [at EXCEPT !["program"] = "elapsedh"]
        \/ at' = [at EXCEPT !["program"] = "increment"]
    BY <1>4 DEF StoreElapsed, Store, Begin
  <2>2. at'["program"] \in {"elapsedh", "increment"}
    BY <1>0, <2>1, Names
  <2>. QED
    BY <2>2 DEF StoreInv
<1>5. CASE StoreIncrement
  <2>1. /\ High(time_increment) \in Nat /\ Low(time_increment) \in 0..(WordValues - 1)
        /\ High(time_base) \in Nat /\ Low(time_base) \in 0..(WordValues - 1)
        /\ Join(High(time_base), Low(time_base)) = time_base
    BY <1>0, Words
  <2>2. CASE Store("increment", "incrementh", time_elapsed, Join(High(time_increment), Low(time_base)))
    <3>1. /\ at' = [at EXCEPT !["program"] = "incrementh"] /\ time_base' = time_base
          /\ time_increment' = Join(High(time_increment), Low(time_base))
      BY <2>2 DEF Store, Begin
    <3>2. at'["program"] = "incrementh"
      BY <1>0, <3>1, Names
    <3>3. Low(time_increment') = Low(time_base)
      BY <2>1, <3>1, HighOfJoin
    <3>. QED
      BY <3>1, <3>2, <3>3 DEF StoreInv
  <2>3. CASE Store("incrementh", "high", time_elapsed, Join(High(time_base), Low(time_increment)))
    <3>1. /\ at' = [at EXCEPT !["program"] = "high"] /\ time_base' = time_base
          /\ time_increment' = Join(High(time_base), Low(time_increment))
          /\ at["program"] = "incrementh"
      BY <2>3 DEF Store, Begin
    <3>2. at'["program"] = "high"
      BY <1>0, <3>1, Names
    <3>3. time_increment' = time_base'
      BY <1>0, <2>1, <3>1 DEF StoreInv
    <3>. QED
      BY <3>2, <3>3 DEF StoreInv
  <2>. QED
    BY <1>5, <2>2, <2>3 DEF StoreIncrement
<1>6. CASE TakeInterrupt
  <2>1. at'["program"] = at["program"]
    BY <1>0, <1>6, Names DEF TakeInterrupt, Begin
  <2>. QED
    BY <1>1, <1>6, <2>1 DEF TakeInterrupt, driver
<1>7. ASSUME NEW c \in Contexts,
             \/ ReadTimeh(c) \/ ReadTime(c) \/ ReadTimehAgain(c)
             \/ WriteMask(c) \/ WriteTimecmph(c) \/ WriteTimecmp(c) \/ Rest(c)
             \/ (c = "program" /\ TimerReadReturns)
      PROVE  StoreInv'
  <2>1. UNCHANGED <<time_increment, time_base, reads>>
    BY <1>7 DEF ReadTimeh, ReadTime, ReadTimehAgain, WriteMask, WriteTimecmph, WriteTimecmp, Rest,
                TimerReadReturns, ctrl, driver
  <2>2. \E x : at' = [at EXCEPT ![c] = x]
    BY <1>7 DEF ReadTimeh, ReadTime, ReadTimehAgain, WriteMask, WriteTimecmph, WriteTimecmp, Rest,
                TimerReadReturns, Goto
  <2>3. CASE c = "handler"
    <3>1. at'["program"] = at["program"]
      BY <1>0, <2>2, <2>3, Names
    <3>. QED
      BY <1>1, <2>1, <3>1
  <2>4. CASE c = "program"
    <3>1. \/ at["program"] \in {"high", "low"} /\ at'["program"] \in {"low", "again"}
          \/ at["program"] = "again" /\ at'["program"] \in {"high", "result"}
          \/ at["program"] = "again" /\ at'["program"] = "mask" /\ ~reads
          \/ at["program"] \in {"mask", "cmph"} /\ at'["program"] \in {"cmph", "cmp"}
          \/ at'["program"] \in {"rest", "return"}
      BY <1>0, <1>7, <2>4, Names
         DEF ReadTimeh, ReadTime, ReadTimehAgain, Reading, WriteMask, WriteTimecmph, WriteTimecmp,
             Rest, TimerReadReturns, Goto
    <3>. QED
      BY <1>0, <2>1, <3>1 DEF StoreInv
  <2>. QED
    BY <2>3, <2>4 DEF Contexts
<1>. QED
  BY <1>2, <1>3, <1>4, <1>5, <1>6, <1>7, Names DEF TimerNext

(* The types of what the compare register is set from.                      *)
LEMMA TimesAreNat ==
  ASSUME TimerTypeOK, NEW c \in Contexts
  PROVE  Result(c) \in Nat /\ NewTime(c) \in Nat
<1>1. /\ timeh[c] \in Nat /\ time[c] \in 0..(WordValues - 1)
      /\ time_increment \in Nat /\ time_base \in Nat
  BY DEF TimerTypeOK
<1>2. Result(c) \in Nat
  BY <1>1, HighOfJoin DEF Result
<1>. QED
  BY <1>1, <1>2 DEF NewTime

(* Steps that write no compare register and end no series of writes.        *)
LEMMA CompareKept ==
  ASSUME TimerTypeOK, TimerTypeOK', CompareInv,
         mtime <= mtime', mtimecmp' = mtimecmp, deadline' = deadline, unmasked' = unmasked,
         interrupt' => interrupt \/ mtime >= mtimecmp,
         inHandler' => inHandler,
         \/ at'["program"] = at["program"]
         \/ at["program"] \notin {"cmph", "cmp"} /\ at'["program"] \notin {"cmph", "cmp"},
         at'["handler"] = "cmp" => at["handler"] = "cmp",
         at'["handler"] \in {"return", "rest"} => at["handler"] \in {"return", "rest"},
         at["program"] = "cmp" => NewTime("program")' = NewTime("program"),
         at["handler"] = "cmp" => NewTime("handler")' = NewTime("handler")
  PROVE  CompareInv'
<1>1. /\ mtime \in Nat /\ mtime' \in Nat /\ mtimecmp \in Nat /\ deadline \in Nat
      /\ interrupt \in BOOLEAN /\ interrupt' \in BOOLEAN
      /\ NewTime("program") \in Nat
  BY TimesAreNat, Names DEF TimerTypeOK
<1>2. /\ (at["handler"] = "cmp" => High(mtimecmp) = High(NewTime("handler")))'
      /\ (inHandler /\ at["program"] = "cmph" => unmasked)'
      /\ (unmasked => at["program"] \in {"cmph", "cmp"})'
  BY DEF CompareInv
<1>3. ASSUME at'["handler"] \in {"return", "rest"}, at'["program"] = "cmp"
      PROVE  /\ High(mtimecmp) >= High(NewTime("program"))
             /\ ~unmasked => /\ mtimecmp >= NewTime("program")
                             /\ interrupt' => mtime' >= NewTime("program")
  <2>1. /\ High(mtimecmp) >= High(NewTime("program"))
        /\ ~unmasked => /\ mtimecmp >= NewTime("program")
                        /\ interrupt => mtime >= NewTime("program")
    BY <1>3 DEF CompareInv
  <2>. QED
    BY <1>1, <2>1
<1>4. ASSUME at'["handler"] \in {"return", "rest"}, at'["program"] # "cmp"
      PROVE  /\ mtimecmp >= deadline
             /\ interrupt' => mtime' >= deadline
             /\ at'["program"] = "cmph" /\ ~unmasked => Low(mtimecmp) = WordValues - 1
  <2>1. /\ mtimecmp >= deadline
        /\ interrupt => mtime >= deadline
        /\ at["program"] = "cmph" /\ ~unmasked => Low(mtimecmp) = WordValues - 1
    BY <1>4 DEF CompareInv
  <2>. QED
    BY <1>1, <2>1
<1>5. ASSUME at'["program"] = "cmp"
      PROVE  NewTime("program")' = NewTime("program")
  BY <1>5
<1>. QED
  BY <1>2, <1>3, <1>4, <1>5 DEF CompareInv

(* The high word of a time, and the low one, in the compare register.       *)
LEMMA HighAbove ==
  ASSUME NEW s \in Nat, NEW t \in Nat, High(s) >= High(t),
         Low(s) >= Low(t)
  PROVE  s >= t
<1>1. /\ High(s) \in Nat /\ Low(s) \in 0..(WordValues - 1) /\ Join(High(s), Low(s)) = s
      /\ High(t) \in Nat /\ Low(t) \in 0..(WordValues - 1) /\ Join(High(t), Low(t)) = t
  BY Words
<1>2. High(t) <= High(s) /\ Low(t) <= Low(s)
  BY <1>1
<1>3. Join(High(t), Low(t)) <= Join(High(s), Low(s))
  BY <1>1, <1>2, JoinGrows
<1>4. s \in Nat /\ t \in Nat /\ t <= s
  BY <1>1, <1>3
<1>. QED
  BY <1>4

(* A write of the program, which the handler does not interrupt.            *)
LEMMA ProgramWrites ==
  ASSUME TimerInv, TimerTypeOK',
         WriteMask("program") \/ WriteTimecmph("program") \/ WriteTimecmp("program")
  PROVE  CompareInv'
<1>1. /\ TimerTypeOK /\ mtimecmp \in Nat /\ deadline \in Nat /\ interrupt \in BOOLEAN
      /\ mtimecmp' \in Nat /\ deadline' \in Nat
      /\ at \in [Contexts -> Places] /\ (inHandler <=> at["handler"] # "return")
      /\ WordValues - 1 \in 0..(WordValues - 1)
  BY TimerParameters DEF TimerInv, TimerTypeOK
<1>2. /\ ~inHandler /\ ~inHandler' /\ at'["handler"] = "return" /\ at["handler"] = "return"
      /\ interrupt' = FALSE
      /\ UNCHANGED <<time_increment, time_base, timeh, time>>
  <2>1. /\ (inHandler <=> "program" = "handler") /\ inHandler' = inHandler
        /\ \E x : at' = [at EXCEPT !["program"] = x]
        /\ interrupt' = ((mtime >= mtimecmp \/ interrupt) /\ ~TRUE)
        /\ UNCHANGED <<time_increment, time_base, timeh, time>>
    BY DEF WriteMask, WriteTimecmph, WriteTimecmp, Write, Cycle, Goto, Runs, ctrl, driver
  <2>. QED
    BY <1>1, <2>1, Names
<1>3. /\ NewTime("program") \in Nat /\ NewTime("program")' = NewTime("program")
  BY <1>1, <1>2, TimesAreNat, Names DEF NewTime, Result
<1>. DEFINE N == NewTime("program")
<1>4. /\ High(mtimecmp) \in Nat /\ Low(mtimecmp) \in 0..(WordValues - 1)
      /\ High(N) \in Nat /\ Low(N) \in 0..(WordValues - 1)
      /\ Join(High(mtimecmp), Low(mtimecmp)) = mtimecmp
  BY <1>1, <1>3, Words
<1>5. /\ unmasked => at["program"] \in {"cmph", "cmp"}
      /\ IF at["program"] = "cmp"
         THEN High(mtimecmp) >= High(N)
         ELSE /\ mtimecmp >= deadline
              /\ at["program"] = "cmph" /\ ~unmasked => Low(mtimecmp) = WordValues - 1
  BY <1>2 DEF TimerInv, CompareInv
<1>. HIDE DEF N
<1>6. CASE WriteMask("program")
  <2>1. /\ at["program"] = "mask" /\ at'["program"] = "cmph"
        /\ mtimecmp' = Join(High(mtimecmp), WordValues - 1)
        /\ deadline' = deadline /\ unmasked' = unmasked
    BY <1>1, <1>6, Names DEF WriteMask, Write, Cycle, Goto, MaskTimecmp
  <2>2. High(mtimecmp') = High(mtimecmp) /\ Low(mtimecmp') = WordValues - 1
    BY <1>1, <1>4, <2>1, HighOfJoin
  <2>3. mtimecmp' >= mtimecmp
    BY <1>1, <1>4, <2>2, HighAbove
  <2>4. mtimecmp' >= deadline'
    BY <1>1, <1>5, <2>1, <2>3
  <2>. QED
    BY <1>2, <1>5, <2>1, <2>2, <2>4 DEF CompareInv
<1>7. CASE WriteTimecmph("program")
  <2>1. /\ at["program"] = "cmph" /\ at'["program"] = "cmp"
        /\ mtimecmp' = Join(High(N), Low(mtimecmp))
        /\ deadline' = deadline /\ unmasked' = unmasked
    BY <1>1, <1>7, Names DEF WriteTimecmph, Write, Cycle, Goto, N
  <2>2. High(mtimecmp') = High(N) /\ Low(mtimecmp') = Low(mtimecmp)
    BY <1>4, <2>1, HighOfJoin
  <2>3. ~unmasked => mtimecmp' >= N
    <3>1. ~unmasked => Low(mtimecmp') >= Low(N) /\ High(mtimecmp') >= High(N)
      BY <1>4, <1>5, <2>1, <2>2
    <3>. QED
      BY <1>1, <1>3, <3>1, HighAbove DEF N
  <2>4. High(mtimecmp') >= High(N)
    BY <1>4, <2>2
  <2>. QED
    BY <1>2, <1>3, <2>1, <2>3, <2>4 DEF CompareInv, N
<1>8. CASE WriteTimecmp("program")
  <2>1. /\ at["program"] = "cmp" /\ at'["program"] = "rest"
        /\ mtimecmp' = Join(High(mtimecmp), Low(N))
        /\ deadline' = N /\ ~unmasked'
    BY <1>1, <1>8, Names DEF WriteTimecmp, Write, Cycle, Goto, N
  <2>2. High(mtimecmp') = High(mtimecmp) /\ Low(mtimecmp') = Low(N)
    BY <1>4, <2>1, HighOfJoin
  <2>3. Low(mtimecmp') >= Low(N) /\ High(mtimecmp') >= High(N)
    BY <1>4, <1>5, <2>1, <2>2
  <2>4. mtimecmp' >= deadline'
    BY <1>1, <1>3, <2>1, <2>3, HighAbove DEF N
  <2>. QED
    BY <1>2, <2>1, <2>4 DEF CompareInv
<1>. QED
  BY <1>6, <1>7, <1>8

(* A write of the handler, which may have interrupted the program anywhere. *)
LEMMA HandlerWrites ==
  ASSUME TimerInv, TimerTypeOK',
         WriteMask("handler") \/ WriteTimecmph("handler") \/ WriteTimecmp("handler")
  PROVE  CompareInv'
<1>1. /\ TimerTypeOK /\ mtimecmp \in Nat /\ mtimecmp' \in Nat /\ mtime \in Nat
      /\ inHandler \in BOOLEAN /\ unmasked \in BOOLEAN
      /\ at \in [Contexts -> Places] /\ asked \in [Contexts -> Nat]
  BY DEF TimerInv, TimerTypeOK
<1>2. /\ inHandler /\ inHandler' = inHandler /\ at'["program"] = at["program"]
      /\ interrupt' = FALSE /\ unmasked' = unmasked
      /\ UNCHANGED <<time_increment, time_base, timeh, time>>
  <2>1. /\ (inHandler <=> "handler" = "handler") /\ inHandler' = inHandler
        /\ \E x : at' = [at EXCEPT !["handler"] = x]
        /\ interrupt' = ((mtime >= mtimecmp \/ interrupt) /\ ~TRUE)
        /\ unmasked' = unmasked \/ unmasked' = (unmasked /\ "handler" # "program")
        /\ UNCHANGED <<time_increment, time_base, timeh, time>>
    BY DEF WriteMask, WriteTimecmph, WriteTimecmp, Write, Cycle, Goto, Runs, ctrl, driver
  <2>. QED
    BY <1>1, <2>1, Names
<1>3. /\ NewTime("program") \in Nat /\ NewTime("program")' = NewTime("program")
      /\ NewTime("handler") \in Nat /\ NewTime("handler")' = NewTime("handler")
  BY <1>1, <1>2, TimesAreNat, Names DEF NewTime, Result
<1>4. /\ inHandler /\ at["program"] = "cmph" => unmasked
      /\ unmasked => at["program"] \in {"cmph", "cmp"}
      /\ at["handler"] = "cmp" => High(mtimecmp) = High(NewTime("handler"))
  BY DEF TimerInv, CompareInv
<1>5. /\ High(mtimecmp) \in Nat /\ Low(mtimecmp) \in 0..(WordValues - 1)
      /\ High(NewTime("handler")) \in Nat /\ Low(NewTime("handler")) \in 0..(WordValues - 1)
      /\ Join(High(NewTime("handler")), Low(NewTime("handler"))) = NewTime("handler")
  BY <1>1, <1>3, Words
<1>6. CASE WriteMask("handler")
  <2>1. at'["handler"] = "cmph"
    BY <1>1, <1>6, Names DEF WriteMask, Goto
  <2>. QED
    BY <1>2, <1>4, <2>1 DEF CompareInv
<1>7. CASE WriteTimecmph("handler")
  <2>1. at'["handler"] = "cmp" /\ mtimecmp' = Join(High(NewTime("handler")), Low(mtimecmp))
    BY <1>1, <1>7, Names DEF WriteTimecmph, Write, Cycle, Goto
  <2>2. High(mtimecmp') = High(NewTime("handler"))
    BY <1>5, <2>1, HighOfJoin
  <2>3. High(mtimecmp)' = High(NewTime("handler"))'
    BY <1>3, <2>2
  <2>. QED
    BY <1>2, <1>4, <2>1, <2>3 DEF CompareInv
<1>8. CASE WriteTimecmp("handler")
  <2>1. /\ at["handler"] = "cmp" /\ at'["handler"] = "rest" /\ deadline' = NewTime("handler")
        /\ mtimecmp' = Join(High(mtimecmp), Low(NewTime("handler")))
    BY <1>1, <1>8, Names DEF WriteTimecmp, Write, Cycle, Goto
  <2>2. mtimecmp' = NewTime("handler")
    BY <1>4, <1>5, <2>1
  <2>3. at["program"] = "cmp" => NewTime("program") <= NewTime("handler")
    <3>. SUFFICES ASSUME at["program"] = "cmp" PROVE NewTime("program") <= NewTime("handler")
      OBVIOUS
    <3>1. Result("program") <= asked["handler"]
      BY <1>2 DEF TimerInv, ReadInv, Known
    <3>2. Result("handler") \in asked["handler"]..mtime
      BY <2>1, Names DEF TimerInv, ReadInv, ReadingInv, Known
    <3>3. /\ Result("program") \in Nat /\ Result("handler") \in Nat
          /\ asked["handler"] \in Nat /\ time_increment \in Nat /\ time_base \in Nat
      BY <1>1, TimesAreNat, Names DEF TimerTypeOK
    <3>4. time_base = time_increment
      BY DEF TimerInv, StoreInv
    <3>. QED
      BY <1>1, <3>1, <3>2, <3>3, <3>4 DEF NewTime
  <2>4. at["program"] = "cmp" =>
          High(mtimecmp') >= High(NewTime("program")) /\ mtimecmp' >= NewTime("program")
    <3>. SUFFICES ASSUME at["program"] = "cmp"
                  PROVE  High(mtimecmp') >= High(NewTime("program")) /\ mtimecmp' >= NewTime("program")
      OBVIOUS
    <3>1. High(NewTime("program")) <= High(NewTime("handler"))
      BY <1>3, <2>3, HighGrows
    <3>2. High(NewTime("program")) \in Nat
      BY <1>3, Words
    <3>. QED
      BY <1>1, <1>3, <1>5, <2>2, <2>3, <3>1, <3>2
  <2>5. mtimecmp' >= deadline'
    BY <1>3, <2>1, <2>2
  <2>. QED
    BY <1>2, <1>3, <1>4, <2>1, <2>4, <2>5 DEF CompareInv
<1>. QED
  BY <1>6, <1>7, <1>8

\* Every step keeps what the comparisons rest on.
LEMMA CompareInvStep ==
  ASSUME TimerInv, [TimerNext]_timerVars
  PROVE  CompareInv'
<1>0. /\ TimerTypeOK /\ TimerTypeOK' /\ CompareInv
      /\ mtime \in Nat /\ at \in [Contexts -> Places] /\ at' \in [Contexts -> Places]
      /\ interrupt \in BOOLEAN /\ inHandler \in BOOLEAN /\ unmasked \in BOOLEAN
      /\ inHandler <=> at["handler"] # "return"
  BY TimerTypeStep DEF TimerInv, TimerTypeOK
<1>1. CASE Wait
  <2>1. /\ mtime' = mtime + 1 /\ mtimecmp' = mtimecmp
        /\ interrupt' => interrupt \/ mtime >= mtimecmp
        /\ UNCHANGED <<deadline, unmasked, inHandler, at, time_increment, time_base, timeh, time>>
    BY <1>1 DEF Wait, Read, Cycle, driver
  <2>2. NewTime("program")' = NewTime("program") /\ NewTime("handler")' = NewTime("handler")
    BY <2>1 DEF NewTime, Result
  <2>. QED
    BY <1>0, <2>1, <2>2, CompareKept
<1>2. ASSUME ProgramBegins PROVE CompareInv'
  <2>1. /\ at["program"] \in Stores \cup {"return"} /\ ~inHandler
        /\ \E place \in Stores \cup {"high"} : at' = [at EXCEPT !["program"] = place]
        /\ UNCHANGED <<mtime, mtimecmp, interrupt, deadline, unmasked, inHandler>>
    BY <1>0, <1>2, BeginSteps
  <2>2. /\ at'["program"] \in Stores \cup {"high"}
        /\ at'["handler"] = at["handler"] /\ at["handler"] = "return"
        /\ mtime <= mtime'
    BY <1>0, <2>1, Names
  <2>3. /\ at["program"] \notin {"cmph", "cmp"} /\ at'["program"] \notin {"cmph", "cmp"}
    BY <2>1, <2>2 DEF Stores
  <2>. QED
    BY <1>0, <2>1, <2>2, <2>3, CompareKept
<1>3. CASE CallTimerDisable \/ UNCHANGED timerVars
  <2>1. UNCHANGED <<mtime, mtimecmp, interrupt, deadline, unmasked, inHandler, at,
                    time_increment, time_base, timeh, time>>
    BY <1>3 DEF CallTimerDisable, timerVars, device, driver
  <2>2. /\ NewTime("program")' = NewTime("program") /\ NewTime("handler")' = NewTime("handler")
        /\ mtime <= mtime'
    BY <1>0, <2>1 DEF NewTime, Result
  <2>. QED
    BY <1>0, <2>1, <2>2, CompareKept
<1>4. CASE TakeInterrupt
  <2>1. /\ at' = [at EXCEPT !["handler"] = "high"]
        /\ unmasked' = (unmasked \/ at["program"] = "cmph")
    BY <1>4 DEF TakeInterrupt, Begin
  <2>2. at'["handler"] = "high" /\ at'["program"] = at["program"]
    BY <1>0, <2>1, Names
  <2>3. unmasked => at["program"] \in {"cmph", "cmp"}
    BY <1>0 DEF CompareInv
  <2>. QED
    BY <2>1, <2>2, <2>3 DEF CompareInv
<1>5. ASSUME NEW c \in Contexts, ReadTimeh(c) \/ ReadTime(c) \/ ReadTimehAgain(c)
      PROVE  CompareInv'
  <2>1. /\ mtime' = mtime + 1 /\ mtimecmp' = mtimecmp
        /\ interrupt' => interrupt \/ mtime >= mtimecmp
        /\ UNCHANGED <<deadline, unmasked, inHandler, time_increment, time_base>>
        /\ at[c] \in {"high", "low", "again"}
        /\ \E x \in {"high", "low", "again", "result", "mask"} : at' = [at EXCEPT ![c] = x]
        /\ \A d \in Contexts : d # c => timeh'[d] = timeh[d] /\ time'[d] = time[d]
    <3>1. \A d \in Contexts : d # c => timeh'[d] = timeh[d] /\ time'[d] = time[d]
      BY <1>0, <1>5 DEF ReadTimeh, ReadTime, ReadTimehAgain, TimerTypeOK
    <3>. QED
      BY <1>5, <3>1 DEF ReadTimeh, ReadTime, ReadTimehAgain, Read, Cycle, Goto, ctrl, driver
  <2>2. /\ at'[c] \in {"high", "low", "again", "result", "mask"}
        /\ \A d \in Contexts : d # c => at'[d] = at[d]
    BY <1>0, <2>1
  <2>3. \A d \in Contexts : d # c => NewTime(d)' = NewTime(d)
    BY <2>1 DEF NewTime, Result
  <2>4. mtime <= mtime'
    BY <1>0, <2>1
  <2>5. \A d \in Contexts : at[d] = "cmp" => NewTime(d)' = NewTime(d)
    BY <2>1, <2>3
  <2>6. \/ at'["program"] = at["program"]
        \/ at["program"] \notin {"cmph", "cmp"} /\ at'["program"] \notin {"cmph", "cmp"}
    BY <2>1, <2>2, Names
  <2>7. /\ at'["handler"] = "cmp" => at["handler"] = "cmp"
        /\ at'["handler"] \in {"return", "rest"} => at["handler"] \in {"return", "rest"}
    BY <2>2, Names
  <2>. QED
    BY <1>0, <2>1, <2>4, <2>5, <2>6, <2>7, CompareKept, Names
<1>6. CASE TimerReadReturns
  <2>1. /\ at["program"] = "result" /\ at' = [at EXCEPT !["program"] = "return"]
        /\ UNCHANGED <<mtime, mtimecmp, interrupt, deadline, unmasked, inHandler,
                       time_increment, time_base, timeh, time>>
    BY <1>6 DEF TimerReadReturns, Goto, ctrl, device, driver
  <2>2. /\ at'["program"] = "return" /\ at'["handler"] = at["handler"] /\ mtime <= mtime'
        /\ NewTime("program")' = NewTime("program") /\ NewTime("handler")' = NewTime("handler")
    BY <1>0, <2>1, Names DEF NewTime, Result
  <2>. QED
    BY <1>0, <2>1, <2>2, CompareKept
<1>7. ASSUME NEW c \in Contexts, Rest(c) PROVE CompareInv'
  <2>1. /\ at[c] = "rest" /\ at' = [at EXCEPT ![c] = "return"]
        /\ UNCHANGED <<mtime, mtimecmp, interrupt, deadline, unmasked, time_increment, time_base, timeh, time>>
        /\ inHandler' = inHandler \/ inHandler' = FALSE
    BY <1>7 DEF Rest, Goto, device
  <2>2. /\ at'[c] = "return" /\ mtime <= mtime'
        /\ \A d \in Contexts : d # c => at'[d] = at[d]
        /\ NewTime("program")' = NewTime("program") /\ NewTime("handler")' = NewTime("handler")
    BY <1>0, <2>1 DEF NewTime, Result
  <2>3. \/ at'["program"] = at["program"]
        \/ at["program"] \notin {"cmph", "cmp"} /\ at'["program"] \notin {"cmph", "cmp"}
    BY <2>1, <2>2, Names
  <2>4. /\ at'["handler"] = "cmp" => at["handler"] = "cmp"
        /\ at'["handler"] \in {"return", "rest"} => at["handler"] \in {"return", "rest"}
    BY <2>1, <2>2, Names
  <2>5. (inHandler' => inHandler) /\ (interrupt' => interrupt \/ mtime >= mtimecmp)
    BY <2>1
  <2>. QED
    BY <1>0, <2>1, <2>2, <2>3, <2>4, <2>5, CompareKept
<1>8. ASSUME NEW c \in Contexts, WriteMask(c) \/ WriteTimecmph(c) \/ WriteTimecmp(c)
      PROVE  CompareInv'
  BY <1>0, <1>8, ProgramWrites, HandlerWrites DEF Contexts
<1>. QED
  BY <1>1, <1>2, <1>3, <1>4, <1>5, <1>6, <1>7, <1>8 DEF TimerNext, ProgramBegins

-----------------------------------------------------------------------------
\* The invariant of the timer, for every behaviour.
LEMMA TimerInvariant == TimerSpec => []TimerInv
<1>1. TimerInv /\ [TimerNext]_timerVars => TimerInv'
  BY TimerTypeStep, ReadInvStep, StoreInvStep, CompareInvStep DEF TimerInv
<1>. QED
  BY TimerInvInit, <1>1, PTL DEF TimerSpec

(* timer_read, and the time that a new deadline is counted from, is a time  *)
(* between the call and its result, however the handler and the wrap of the *)
(* low word interleave with the three reads (timer.c:34).                   *)
THEOREM ReadsATime == TimerSpec => []ReadIsATime
<1>1. TimerInv => ReadIsATime
  BY DEF TimerInv, ReadInv, ReadingInv, ReadIsATime, Known
<1>. QED
  BY <1>1, TimerInvariant, PTL

(* An interrupt the handler takes is due: the time set last, or the one the *)
(* interrupted timer_enable is setting, has passed.                         *)
THEOREM TicksNotEarly == TimerSpec => TickNotEarly
<1>1. ASSUME TimerInv, TakeInterrupt, ~unmasked
      PROVE  \E t \in DueTimes : mtime >= t
  <2>1. at["handler"] = "return" /\ interrupt
    BY <1>1 DEF TimerInv, TimerTypeOK, TakeInterrupt
  <2>2. IF at["program"] = "cmp" THEN mtime >= NewTime("program") ELSE mtime >= deadline
    BY <1>1, <2>1 DEF TimerInv, CompareInv
  <2>. QED
    BY <2>2 DEF DueTimes
<1>2. TimerInv /\ [TimerNext]_timerVars =>
        [TakeInterrupt /\ ~unmasked => \E t \in DueTimes : mtime >= t]_timerVars
  BY <1>1
<1>. QED
  BY <1>2, TimerInvariant, PTL DEF TimerSpec, TickNotEarly

-----------------------------------------------------------------------------
(* The serial line and the firmware behind it.                             *)

\* Induction, for sets.
LEMMA NatSets ==
  ASSUME NEW S, 0 \in S, \A n \in Nat : n \in S => n + 1 \in S
  PROVE  Nat \subseteq S
<1> SUFFICES ASSUME ~(Nat \subseteq S) PROVE FALSE
  OBVIOUS
<1> DEFINE T == Nat \ S
<1>1. T \subseteq Nat /\ T # {}
  OBVIOUS
<1>2. IsWellFoundedOn(OpToRel(<, Nat), Nat)
  BY NatLessThanWellFounded
<1>3. PICK x \in T : \A y \in T : ~(<<y, x>> \in OpToRel(<, Nat))
  <2> HIDE DEF T
  <2> QED BY <1>1, <1>2, WFMin
<1>4. x # 0 /\ x - 1 \in Nat /\ x - 1 < x
  OBVIOUS
<1>5. <<x - 1, x>> \in OpToRel(<, Nat)
  BY <1>4 DEF OpToRel
<1>6. x - 1 \in S
  BY <1>3, <1>4, <1>5
<1> QED BY <1>4, <1>6

-----------------------------------------------------------------------------
(* Sequences.                                                              *)

\* The contents of a queue are as long as the queue.
LEMMA LenContents ==
  ASSUME NEW Elements, NEW q \in Queues(Elements)
  PROVE  Contents(q) \in Seq(Elements) /\ Len(Contents(q)) = Length(q)
<1>1. Length(q) \in Nat /\ \A i \in 1 .. Length(q) : q.mem[Slot(q, i)] \in Elements
  BY LengthBound DEF Queues
<1> QED BY <1>1 DEF Contents

\* The first element of the second half goes to the end of the first.
LEMMA MoveHead ==
  ASSUME NEW S, NEW c \in Seq(S), NEW f \in Seq(S), f # <<>>
  PROVE  Append(c, Head(f)) \o Tail(f) = c \o f
<1>1. Head(f) \in S /\ Tail(f) \in Seq(S) /\ Len(Tail(f)) = Len(f) - 1 /\ Len(f) \in Nat
      /\ Head(f) = f[1] /\ \A i \in 1 .. Len(Tail(f)) : Tail(f)[i] = f[i + 1]
  BY HeadTailProperties
<1>2. Append(c, Head(f)) \in Seq(S) /\ Len(Append(c, Head(f))) = Len(c) + 1
      /\ \A i \in 1 .. Len(c) : Append(c, Head(f))[i] = c[i]
      /\ Append(c, Head(f))[Len(c) + 1] = Head(f)
  BY <1>1, AppendProperties
<1>3. Len(c) \in Nat /\ Len(f) \in Nat \ {0}
  BY EmptySeq
<1> DEFINE a == Append(c, Head(f))
           t == Tail(f)
<1>4. a \o t \in Seq(S) /\ Len(a \o t) = Len(a) + Len(t)
      /\ \A i \in 1 .. (Len(a) + Len(t)) : (a \o t)[i] = IF i <= Len(a) THEN a[i] ELSE t[i - Len(a)]
  BY <1>1, <1>2, ConcatProperties
<1>5. c \o f \in Seq(S) /\ Len(c \o f) = Len(c) + Len(f)
      /\ \A i \in 1 .. (Len(c) + Len(f)) : (c \o f)[i] = IF i <= Len(c) THEN c[i] ELSE f[i - Len(c)]
  BY ConcatProperties
<1>6. ASSUME NEW i \in 1 .. Len(a \o t) PROVE (a \o t)[i] = (c \o f)[i]
  <2> HIDE DEF a, t
  <2>1. CASE i <= Len(c)
    BY <1>1, <1>2, <1>3, <1>4, <1>5, <2>1 DEF a, t
  <2>2. CASE i = Len(c) + 1
    BY <1>1, <1>2, <1>3, <1>4, <1>5, <2>2 DEF a, t
  <2>3. CASE i > Len(c) + 1
    BY <1>1, <1>2, <1>3, <1>4, <1>5, <2>3 DEF a, t
  <2> QED BY <1>1, <1>2, <1>3, <1>4, <2>1, <2>2, <2>3 DEF a, t
<1>7. Len(a \o t) = Len(c \o f)
  BY <1>1, <1>2, <1>4, <1>5
<1> HIDE DEF a, t
<1>8. a \o t = c \o f
  BY <1>4, <1>5, <1>6, <1>7, SeqEqual
<1> QED BY <1>8 DEF a, t

\* Appending to the second half appends to the whole.
LEMMA AppendLast ==
  ASSUME NEW S, NEW s \in Seq(S), NEW t \in Seq(S), NEW e \in S
  PROVE  s \o Append(t, e) = Append(s \o t, e)
<1>1. Append(t, e) = t \o <<e>> /\ Append(s \o t, e) = (s \o t) \o <<e>>
  BY AppendIsConcat, ConcatProperties
<1>2. <<e>> \in Seq(S)
  OBVIOUS
<1> QED BY <1>1, <1>2, ConcatAssociative

\* A prefix is a shorter sequence that agrees where it is defined.
LEMMA Prefix ==
  ASSUME NEW S, NEW s \in Seq(S), NEW t \in Seq(S)
  PROVE  IsPrefix(s, t) <=> Len(s) <= Len(t) /\ \A i \in 1 .. Len(s) : s[i] = t[i]
<1>1. Len(s) \in Nat /\ Len(t) \in Nat
  BY LenProperties
<1>2. SubSeq(s, 1, Len(s)) = s
  BY SubSeqFull
<1>3. CASE Len(s) <= Len(t)
  <2>1. \A i \in 1 .. Len(s) : t[i] \in S
    BY <1>1, <1>3, ElementOfSeq
  <2>2. SubSeq(t, 1, Len(s)) \in Seq(S)
        /\ Len(SubSeq(t, 1, Len(s))) = (IF 1 <= Len(s) THEN Len(s) - 1 + 1 ELSE 0)
        /\ \A i \in 1 .. (Len(s) - 1 + 1) : SubSeq(t, 1, Len(s))[i] = t[1 + i - 1]
    BY <1>1, <2>1, SubSeqProperties
  <2>3. Len(SubSeq(t, 1, Len(s))) = Len(s) /\ \A i \in 1 .. Len(s) : SubSeq(t, 1, Len(s))[i] = t[i]
    BY <1>1, <2>2
  <2>4. s = SubSeq(t, 1, Len(s)) <=> \A i \in 1 .. Len(s) : s[i] = t[i]
    BY <2>2, <2>3, SeqEqual
  <2> QED BY <1>2, <1>3, <2>4 DEF IsPrefix
<1>4. CASE ~(Len(s) <= Len(t))
  BY <1>4 DEF IsPrefix
<1> QED BY <1>3, <1>4

\* A prefix goes on with the next element.
LEMMA PrefixGrows ==
  ASSUME NEW S, NEW s \in Seq(S), NEW t \in Seq(S), IsPrefix(s, t),
         Len(s) < Len(t)
  PROVE  IsPrefix(Append(s, t[Len(s) + 1]), t)
<1>1. Len(s) \in Nat /\ Len(t) \in Nat
  BY LenProperties
<1>2. t[Len(s) + 1] \in S
  BY <1>1, ElementOfSeq
<1>3. Append(s, t[Len(s) + 1]) \in Seq(S) /\ Len(Append(s, t[Len(s) + 1])) = Len(s) + 1
      /\ \A i \in 1 .. Len(s) : Append(s, t[Len(s) + 1])[i] = s[i]
      /\ Append(s, t[Len(s) + 1])[Len(s) + 1] = t[Len(s) + 1]
  BY <1>2, AppendProperties
<1>4. \A i \in 1 .. Len(s) : s[i] = t[i]
  BY Prefix
<1>5. \A i \in 1 .. (Len(s) + 1) : Append(s, t[Len(s) + 1])[i] = t[i]
  BY <1>1, <1>3, <1>4
<1> DEFINE a == Append(s, t[Len(s) + 1])
<1>6. Len(a) <= Len(t) /\ (\A i \in 1 .. Len(a) : a[i] = t[i]) /\ a \in Seq(S)
  BY <1>1, <1>3, <1>5
<1> HIDE DEF a
<1>7. IsPrefix(a, t)
  BY <1>6, Prefix
<1> QED BY <1>7 DEF a

\* What is shorter than a prefix is a prefix.
LEMMA PrefixShrinks ==
  ASSUME NEW S, NEW s \in Seq(S), NEW t \in Seq(S), NEW u \in Seq(S), IsPrefix(s \o t, u)
  PROVE  IsPrefix(s, u)
<1>1. Len(s) \in Nat /\ Len(t) \in Nat /\ Len(u) \in Nat
  BY LenProperties
<1>2. s \o t \in Seq(S) /\ Len(s \o t) = Len(s) + Len(t)
      /\ \A i \in 1 .. (Len(s) + Len(t)) : (s \o t)[i] = IF i <= Len(s) THEN s[i] ELSE t[i - Len(s)]
  BY ConcatProperties
<1>3. Len(s \o t) <= Len(u) /\ \A i \in 1 .. Len(s \o t) : (s \o t)[i] = u[i]
  BY <1>2, Prefix
<1>4. Len(s) <= Len(u) /\ \A i \in 1 .. Len(s) : s[i] = u[i]
  <2>1. \A i \in 1 .. Len(s) : i \in 1 .. (Len(s) + Len(t)) /\ i <= Len(s)
    BY <1>1
  <2>2. \A i \in 1 .. Len(s) : s[i] = (s \o t)[i] /\ (s \o t)[i] = u[i]
    BY <1>2, <1>3, <2>1
  <2> QED BY <1>1, <1>2, <1>3, <2>2
<1> QED BY <1>4, Prefix

-----------------------------------------------------------------------------
(* The functions defined by recursion.                                     *)

\* Taking out all elements leaves an empty queue.
LEMMA EmptiedIsEmpty ==
  ASSUME NEW Elements, NEW q \in Queues(Elements)
  PROVE  Emptied(q) \in Queues(Elements) /\ Length(Emptied(q)) = 0
<1> DEFINE N == Length(q)
           Deq(f, n) == IF n = 0 THEN q ELSE cqueue_deq(f[n - 1])
           after == CHOOSE f : f = [n \in 0 .. Length(q) |-> Deq(f, n)]
<1>1. N \in Nat
  BY LengthBound
<1>2. \E f : f = [n \in 0 .. N |-> Deq(f, n)]
  <2> DEFINE T == {m \in Nat : \E f : f = [n \in 0 .. m |-> Deq(f, n)]}
  <2>1. 0 \in T
    <3>1. [n \in 0 .. 0 |-> q] = [n \in 0 .. 0 |-> Deq([i \in 0 .. 0 |-> q], n)]
      OBVIOUS
    <3> QED BY <3>1
  <2>2. ASSUME NEW m \in Nat, m \in T PROVE m + 1 \in T
    <3>1. PICK f : f = [n \in 0 .. m |-> Deq(f, n)]
      BY <2>2
    <3> DEFINE g == [n \in 0 .. (m + 1) |-> IF n = m + 1 THEN cqueue_deq(f[m]) ELSE f[n]]
    <3>2. ASSUME NEW n \in 0 .. (m + 1) PROVE g[n] = Deq(g, n)
      <4>1. CASE n = m + 1
        BY <4>1
      <4>2. CASE n \in 0 .. m /\ n # 0
        <5>1. n - 1 \in 0 .. m /\ n - 1 \in 0 .. (m + 1) /\ n # m + 1 /\ n - 1 # m + 1
          BY <4>2
        <5>2. g[n] = f[n] /\ g[n - 1] = f[n - 1]
          BY <5>1
        <5>3. f[n] = Deq(f, n)
          BY <3>1, <4>2
        <5> QED BY <4>2, <5>2, <5>3
      <4>3. CASE n = 0
        <5>1. f[0] = Deq(f, 0)
          BY <3>1
        <5> QED BY <4>3, <5>1
      <4> QED BY <4>1, <4>2, <4>3
    <3>3. g = [n \in 0 .. (m + 1) |-> Deq(g, n)]
      BY <3>2
    <3> HIDE DEF g
    <3>4. \E h : h = [n \in 0 .. (m + 1) |-> Deq(h, n)]
      BY <3>3
    <3> HIDE DEF Deq
    <3> QED BY <3>4
  <2> HIDE DEF T
  <2>3. Nat \subseteq T
    BY <2>1, <2>2, NatSets
  <2> QED BY <1>1, <2>3 DEF T
<1>3. after = [n \in 0 .. N |-> Deq(after, n)]
  <2> HIDE DEF Deq
  <2> QED BY <1>2
<1>4. Emptied(q) = after[N]
  BY DEF Emptied
<1> HIDE DEF after, N
<1>5. after[0] = q /\ \A n \in 1 .. N : after[n] = cqueue_deq(after[n - 1])
  BY <1>1, <1>3
<1> DEFINE S == {n \in Nat : n <= N => after[n] \in Queues(Elements) /\ Length(after[n]) = N - n}
<1>6. 0 \in S
  BY <1>1, <1>5 DEF N
<1>7. ASSUME NEW n \in Nat, n \in S PROVE n + 1 \in S
  <2> SUFFICES ASSUME n + 1 <= N
               PROVE  after[n + 1] \in Queues(Elements) /\ Length(after[n + 1]) = N - (n + 1)
    OBVIOUS
  <2> DEFINE a == after[n]
  <2>1. a \in Queues(Elements) /\ Length(a) = N - n /\ N - n > 0
    BY <1>1, <1>7
  <2>2. after[n + 1] = cqueue_deq(a)
    BY <1>1, <1>5
  <2> HIDE DEF a
  <2>3. ~cqueue_empty(a)
    BY <1>1, <2>1, LengthBound
  <2>4. cqueue_deq(a) \in Queues(Elements) /\ Contents(cqueue_deq(a)) = Tail(Contents(a))
        /\ Contents(a) # <<>>
    BY <2>1, <2>3, DeqTakesFirst
  <2>5. Len(Contents(a)) = N - n /\ Contents(a) \in Seq(Elements)
    BY <2>1, LenContents
  <2>6. Length(cqueue_deq(a)) = N - n - 1
    BY <2>4, <2>5, LenContents, HeadTailProperties
  <2> QED BY <1>1, <2>2, <2>4, <2>6
<1> HIDE DEF S
<1>8. N \in S
  BY <1>1, <1>6, <1>7, NatSets
<1> QED BY <1>1, <1>4, <1>8 DEF S

\* What the first k calls of session x send.
UpTo(x) ==
  CHOOSE f : f = [k \in 0 .. Len(x.calls) |->
                    IF k = 0 THEN <<>>
                    ELSE IF x.calls[k].op = "send" THEN f[k - 1] \o x.calls[k].buf
                    ELSE f[k - 1]]

\* What the host sends is what its calls send up to the last one.
LEMMA SentIs == Sent = UpTo(session)[Len(session.calls)]
BY DEF Sent, UpTo

\* The arguments of a call of the host.
LEMMA CallTypes ==
  ASSUME NEW x \in Sessions
  PROVE  /\ Len(x.calls) \in Nat
         /\ \A k \in 1 .. Len(x.calls) :
              \/ x.calls[k].op \in {"clocks", "recv"} /\ x.calls[k].n \in Nat
              \/ x.calls[k].op = "send" /\ x.calls[k].buf \in Seq(Bytes)
<1>1. x.calls \in Seq(HostCalls)
  BY ConsoleParameters
<1>2. Len(x.calls) \in Nat /\ \A k \in 1 .. Len(x.calls) : x.calls[k] \in HostCalls
  BY <1>1, LenProperties, ElementOfSeq
<1> QED BY <1>2 DEF HostCalls

\* What the host has sent, call by call.
LEMMA UpToIs ==
  ASSUME NEW x \in Sessions
  PROVE  /\ UpTo(x)[0] = <<>>
         /\ \A k \in 1 .. Len(x.calls) :
              UpTo(x)[k] = IF x.calls[k].op = "send" THEN UpTo(x)[k - 1] \o x.calls[k].buf
                           ELSE UpTo(x)[k - 1]
<1> DEFINE N == Len(x.calls)
           Next1(f, k) == IF k = 0 THEN <<>>
                          ELSE IF x.calls[k].op = "send" THEN f[k - 1] \o x.calls[k].buf
                          ELSE f[k - 1]
<1>1. N \in Nat
  BY CallTypes
<1>2. \E f : f = [k \in 0 .. N |-> Next1(f, k)]
  <2> DEFINE T == {m \in Nat : \E f : f = [k \in 0 .. m |-> Next1(f, k)]}
  <2>1. 0 \in T
    <3>1. [k \in 0 .. 0 |-> <<>>] = [k \in 0 .. 0 |-> Next1([i \in 0 .. 0 |-> <<>>], k)]
      OBVIOUS
    <3> QED BY <3>1
  <2>2. ASSUME NEW m \in Nat, m \in T PROVE m + 1 \in T
    <3>1. PICK f : f = [k \in 0 .. m |-> Next1(f, k)]
      BY <2>2
    <3> DEFINE g == [k \in 0 .. (m + 1) |-> IF k = m + 1 THEN Next1(f, m + 1) ELSE f[k]]
    <3>2. ASSUME NEW k \in 0 .. (m + 1) PROVE g[k] = Next1(g, k)
      <4>1. CASE k = m + 1
        <5>1. g[m] = f[m] /\ k # 0 /\ k - 1 = m
          BY <4>1
        <5> QED BY <4>1, <5>1
      <4>2. CASE k \in 0 .. m /\ k # 0
        <5>1. k - 1 \in 0 .. m /\ k - 1 \in 0 .. (m + 1) /\ k # m + 1 /\ k - 1 # m + 1
          BY <4>2
        <5>2. g[k] = f[k] /\ g[k - 1] = f[k - 1]
          BY <5>1
        <5>3. f[k] = Next1(f, k)
          BY <3>1, <4>2
        <5> QED BY <4>2, <5>2, <5>3
      <4>3. CASE k = 0
        <5>1. f[0] = Next1(f, 0)
          BY <3>1
        <5> QED BY <4>3, <5>1
      <4> QED BY <4>1, <4>2, <4>3
    <3>3. g = [k \in 0 .. (m + 1) |-> Next1(g, k)]
      BY <3>2
    <3> HIDE DEF g
    <3>4. \E h : h = [k \in 0 .. (m + 1) |-> Next1(h, k)]
      BY <3>3
    <3> HIDE DEF Next1
    <3> QED BY <3>4
  <2> HIDE DEF T
  <2>3. Nat \subseteq T
    BY <2>1, <2>2, NatSets
  <2> QED BY <1>1, <2>3 DEF T
<1>3. UpTo(x) = [k \in 0 .. N |-> Next1(UpTo(x), k)]
  BY <1>2 DEF UpTo
<1> DEFINE sent == UpTo(x)
<1>4. sent = [k \in 0 .. N |-> Next1(sent, k)]
  BY <1>3
<1> HIDE DEF sent, Next1
<1>5. \A k \in 0 .. N : sent[k] = Next1(sent, k)
  BY <1>4
<1>6. sent[0] = <<>>
  BY <1>1, <1>5 DEF Next1
<1>7. \A k \in 1 .. N : sent[k] = Next1(sent, k) /\ k # 0
  BY <1>1, <1>5
<1>8. \A k \in 1 .. N : sent[k] = IF x.calls[k].op = "send" THEN sent[k - 1] \o x.calls[k].buf
                                  ELSE sent[k - 1]
  BY <1>7 DEF Next1
<1> QED BY <1>6, <1>8 DEF sent

\* The host sends bytes.
LEMMA UpToTypes ==
  ASSUME NEW x \in Sessions, NEW k \in 0 .. Len(x.calls)
  PROVE  UpTo(x)[k] \in Seq(Bytes)
<1> DEFINE S == {m \in Nat : m <= Len(x.calls) => UpTo(x)[m] \in Seq(Bytes)}
<1>1. 0 \in S
  <2>1. UpTo(x)[0] = <<>>
    BY UpToIs
  <2>2. UpTo(x)[0] \in Seq(Bytes)
    BY <2>1, EmptySeq
  <2> QED BY <2>2
<1>2. ASSUME NEW m \in Nat, m \in S PROVE m + 1 \in S
  <2> SUFFICES ASSUME m + 1 <= Len(x.calls) PROVE UpTo(x)[m + 1] \in Seq(Bytes)
    OBVIOUS
  <2>1. UpTo(x)[m] \in Seq(Bytes) /\ m + 1 \in 1 .. Len(x.calls)
    BY <1>2, CallTypes
  <2>2. UpTo(x)[m + 1] = IF x.calls[m + 1].op = "send" THEN UpTo(x)[m] \o x.calls[m + 1].buf
                         ELSE UpTo(x)[m]
    BY <2>1, UpToIs
  <2>3. x.calls[m + 1].op = "send" => x.calls[m + 1].buf \in Seq(Bytes)
    BY <2>1, CallTypes
  <2> QED BY <2>1, <2>2, <2>3, ConcatProperties
<1> HIDE DEF S
<1>3. Nat \subseteq S
  BY <1>1, <1>2, NatSets
<1> QED BY <1>3, CallTypes DEF S

\* What the first calls send is the beginning of what all send.
LEMMA UpToPrefix ==
  ASSUME NEW x \in Sessions, NEW k \in 0 .. Len(x.calls)
  PROVE  IsPrefix(UpTo(x)[k], UpTo(x)[Len(x.calls)])
<1> DEFINE N == Len(x.calls)
           S == {m \in Nat : \A j \in 0 .. N : j = k + m => IsPrefix(UpTo(x)[k], UpTo(x)[j])}
<1>0. N \in Nat /\ k \in Nat /\ k <= N
  BY CallTypes
<1>1. 0 \in S
  <2>1. IsPrefix(UpTo(x)[k], UpTo(x)[k])
    BY UpToTypes, Prefix, LenProperties
  <2>2. \A j \in 0 .. N : j = k + 0 => j = k
    BY <1>0
  <2> QED BY <2>1, <2>2
<1>2. ASSUME NEW m \in Nat, m \in S PROVE m + 1 \in S
  <2> SUFFICES ASSUME NEW j \in 0 .. N, j = k + m + 1 PROVE IsPrefix(UpTo(x)[k], UpTo(x)[j])
    BY <1>0
  <2> DEFINE s == UpTo(x)[k]
             t == UpTo(x)[k + m]
             u == UpTo(x)[j]
  <2>1. j \in 1 .. N /\ k + m \in 0 .. N /\ j - 1 = k + m
    BY <1>0
  <2>2. IsPrefix(s, t)
    BY <1>0, <1>2, <2>1
  <2>3. s \in Seq(Bytes) /\ t \in Seq(Bytes) /\ u \in Seq(Bytes)
    BY <2>1, UpToTypes
  <2>4. u = IF x.calls[j].op = "send" THEN t \o x.calls[j].buf ELSE t
    BY <2>1, UpToIs
  <2>5. x.calls[j].op = "send" => x.calls[j].buf \in Seq(Bytes)
    BY <2>1, CallTypes
  <2> HIDE DEF s, t, u
  <2>6. CASE x.calls[j].op = "send"
    <3> DEFINE b == x.calls[j].buf
    <3>1. b \in Seq(Bytes) /\ u = t \o b
      BY <2>4, <2>5, <2>6
    <3> HIDE DEF b
    <3>2. Len(u) = Len(t) + Len(b) /\ Len(b) \in Nat /\ Len(t) \in Nat
          /\ \A i \in 1 .. (Len(t) + Len(b)) : u[i] = IF i <= Len(t) THEN t[i] ELSE b[i - Len(t)]
      BY <2>3, <3>1, ConcatProperties, LenProperties
    <3>3. Len(s) <= Len(t) /\ (\A i \in 1 .. Len(s) : s[i] = t[i]) /\ Len(s) \in Nat
      BY <2>2, <2>3, Prefix, LenProperties
    <3>4. Len(s) <= Len(u) /\ \A i \in 1 .. Len(s) : s[i] = u[i]
      BY <3>2, <3>3
    <3>5. IsPrefix(s, u)
      BY <2>3, <3>4, Prefix
    <3> QED BY <3>5 DEF s, u
  <2>7. CASE x.calls[j].op # "send"
    BY <2>2, <2>4, <2>7 DEF s, t, u
  <2> QED BY <2>6, <2>7
<1> HIDE DEF S
<1> HIDE DEF N
<1>5. Nat \subseteq S
  BY <1>1, <1>2, NatSets
<1>3. N - k \in S /\ N - k \in Nat
  BY <1>0, <1>5
<1>4. k + (N - k) = N
  BY <1>0
<1> QED BY <1>0, <1>3, <1>4 DEF S, N

\* Where an element of a buffer stands in all that is sent.
LEMMA SentAt ==
  ASSUME NEW x \in Sessions, NEW k \in 1 .. Len(x.calls), x.calls[k].op = "send",
         NEW i \in 1 .. Len(x.calls[k].buf)
  PROVE  LET all == UpTo(x)[Len(x.calls)]
             n == Len(UpTo(x)[k - 1])
         IN  n \in Nat /\ n + i <= Len(all) /\ all[n + i] = x.calls[k].buf[i]
<1> DEFINE all == UpTo(x)[Len(x.calls)]
           s == UpTo(x)[k - 1]
           u == UpTo(x)[k]
           b == x.calls[k].buf
<1>1. k - 1 \in 0 .. Len(x.calls) /\ k \in 0 .. Len(x.calls) /\ Len(x.calls) \in 0 .. Len(x.calls)
  BY CallTypes
<1>2. b \in Seq(Bytes) /\ u = s \o b
  BY CallTypes, UpToIs
<1>3. s \in Seq(Bytes) /\ u \in Seq(Bytes) /\ all \in Seq(Bytes)
  BY <1>1, UpToTypes
<1>4. IsPrefix(u, all)
  BY <1>1, UpToPrefix
<1>5. i \in 1 .. Len(b)
  OBVIOUS
<1> SUFFICES Len(s) \in Nat /\ Len(s) + i <= Len(all) /\ all[Len(s) + i] = b[i]
  OBVIOUS
<1> HIDE DEF all, s, u, b
<1>6. Len(b) \in Nat /\ Len(s) \in Nat /\ Len(u) \in Nat /\ Len(all) \in Nat
  BY <1>2, <1>3, LenProperties
<1>7. Len(u) = Len(s) + Len(b)
      /\ \A j \in 1 .. (Len(s) + Len(b)) : u[j] = IF j <= Len(s) THEN s[j] ELSE b[j - Len(s)]
  BY <1>2, <1>3, ConcatProperties
<1>8. Len(u) <= Len(all) /\ \A j \in 1 .. Len(u) : u[j] = all[j]
  BY <1>3, <1>4, Prefix
<1>9. Len(s) + i \in 1 .. (Len(s) + Len(b)) /\ ~(Len(s) + i <= Len(s)) /\ Len(s) + i - Len(s) = i
  BY <1>5, <1>6
<1>10. u[Len(s) + i] = b[i]
  BY <1>7, <1>9
<1> QED BY <1>6, <1>7, <1>8, <1>9, <1>10

-----------------------------------------------------------------------------
(* Types of the two ends.                                                  *)

Txs == [state : {"IDLE", "START", "PROC", "STOP"}, bit_counter : 0 .. (DataBits - 1),
        current_byte : Bytes, baud_counter : 0 .. (ClocksPerBaud - 1), fifo : Seq(Bytes)]

Rxs == [state : {"IDLE", "START", "PROC", "STOP"}, bit_counter : 0 .. (DataBits - 1),
        current_byte : Bytes, baud_counter : 0 .. (ClocksPerBaud - 1), q : [1 .. 3 -> WireBits],
        fifo : Seq(Bytes)]

URxs == [state : {"RX_IDLE", "RX_ONGOING"}, baud_cnt : 0 .. (ClocksPerBaud - 1), shreg : Bytes,
         bits_rcvd : 0 .. (DataBits + 1)]

UTxs == [state : {"TX_IDLE", "TX_ONGOING"}, baud_cnt : 0 .. (ClocksPerBaud - 1), shreg : Bytes,
         bits_sent : 0 .. 255]

USE LineParameters

\* Half a bit is less than a bit.
LEMMA HalfBaud ==
  /\ ClocksPerBaud \div 2 \in 1 .. (ClocksPerBaud - 1)
  /\ 2 * (ClocksPerBaud \div 2) \in {ClocksPerBaud, ClocksPerBaud - 1}
OBVIOUS

\* A byte is a sequence of the bits of the line.
LEMMA BytesAre ==
  ASSUME NEW b \in Bytes
  PROVE  /\ b \in Seq(WireBits) /\ Len(b) = DataBits /\ b # <<>>
         /\ Head(b) = b[1] /\ \A i \in 1 .. DataBits : b[i] \in WireBits
<1>1. b \in [1 .. DataBits -> WireBits] /\ DataBits \in Nat
  BY DEF Bytes
<1>2. b \in Seq(WireBits)
  BY <1>1, SeqDef
<1>3. Len(b) = DataBits
  BY <1>1, <1>2, LenProperties
<1> QED BY <1>1, <1>2, <1>3

\* The byte of zeros is a byte.
LEMMA ZerosByte == Zeros \in Bytes
BY DEF Zeros, Bytes, WireBits

\* Shifting a bit in.
LEMMA Shifted ==
  ASSUME NEW b \in Bytes, NEW v \in WireBits
  PROVE  /\ Append(Tail(b), v) \in Bytes
         /\ \A j \in 1 .. (DataBits - 1) : Append(Tail(b), v)[j] = b[j + 1]
         /\ Append(Tail(b), v)[DataBits] = v
<1>1. b \in Seq(WireBits) /\ Len(b) = DataBits /\ b # <<>>
  BY BytesAre
<1>2. Tail(b) \in Seq(WireBits) /\ Len(Tail(b)) = DataBits - 1
      /\ \A i \in 1 .. (DataBits - 1) : Tail(b)[i] = b[i + 1]
  BY <1>1, HeadTailProperties
<1> DEFINE t == Tail(b)
           a == Append(t, v)
<1> HIDE DEF t
<1>3. a \in Seq(WireBits) /\ Len(a) = DataBits
      /\ (\A i \in 1 .. (DataBits - 1) : a[i] = t[i]) /\ a[DataBits] = v
  <2>1. a \in Seq(WireBits) /\ Len(a) = Len(t) + 1
        /\ (\A i \in 1 .. Len(t) : a[i] = t[i]) /\ a[Len(t) + 1] = v
    BY <1>2, AppendProperties DEF t
  <2> QED BY <1>2, <2>1 DEF t
<1>4. a \in Bytes
  <2>1. a \in [1 .. Len(a) -> WireBits]
    BY <1>3, LenProperties
  <2> QED BY <1>3, <2>1 DEF Bytes
<1> QED BY <1>2, <1>3, <1>4 DEF t

\* One cycle of the transmitter, by cases: u is the state after it.
TxIs(u, state, bits, byte, baud, fifo) ==
  /\ u \in Txs
  /\ u.state = state /\ u.bit_counter = bits /\ u.current_byte = byte /\ u.baud_counter = baud
  /\ u.fifo = fifo

\* A transmitter whose registers are all assigned holds what they are assigned.
LEMMA TxMade ==
  ASSUME NEW t \in Txs,
         NEW s \in {"IDLE", "START", "PROC", "STOP"}, NEW c \in 0 .. (DataBits - 1),
         NEW y \in Bytes, NEW b \in 0 .. (ClocksPerBaud - 1), NEW f \in Seq(Bytes),
         NEW u, u = [t EXCEPT !.state = s, !.bit_counter = c, !.current_byte = y,
                              !.baud_counter = b, !.fifo = f]
  PROVE  TxIs(u, s, c, y, b, f)
<1>1. u = [state |-> s, bit_counter |-> c, current_byte |-> y, baud_counter |-> b, fifo |-> f]
  BY DEF Txs
<1>2. u \in Txs
  BY <1>1 DEF Txs
<1> QED BY <1>1, <1>2 DEF TxIs

\* One cycle of the SoC's transmitter, by cases (uart_tx.sv).
LEMMA TxTick ==
  ASSUME NEW t \in Txs, t.state = "START" => t.fifo # <<>>
  PROVE  /\ t.baud_counter # ClocksPerBaud - 1
              => TxIs(TxClock(t), t.state, t.bit_counter, t.current_byte, t.baud_counter + 1, t.fifo)
         /\ (t.baud_counter = ClocksPerBaud - 1 /\ t.state \in {"IDLE", "STOP"})
              => TxIs(TxClock(t), IF t.fifo # <<>> THEN "START" ELSE "IDLE", t.bit_counter,
                      t.current_byte, 0, t.fifo)
         /\ (t.baud_counter = ClocksPerBaud - 1 /\ t.state = "START")
              => TxIs(TxClock(t), "PROC", 0, Head(t.fifo), 0, Tail(t.fifo))
         /\ (t.baud_counter = ClocksPerBaud - 1 /\ t.state = "PROC")
              => TxIs(TxClock(t), IF t.bit_counter = DataBits - 1 THEN "STOP" ELSE "PROC",
                      IF t.bit_counter = DataBits - 1 THEN t.bit_counter ELSE t.bit_counter + 1,
                      Append(Tail(t.current_byte), 0), 0, t.fifo)
<1>1. /\ t.state \in {"IDLE", "START", "PROC", "STOP"} /\ t.bit_counter \in 0 .. (DataBits - 1)
      /\ t.current_byte \in Bytes /\ t.baud_counter \in 0 .. (ClocksPerBaud - 1)
      /\ t.fifo \in Seq(Bytes) /\ 0 \in 0 .. (ClocksPerBaud - 1) /\ 0 \in 0 .. (DataBits - 1)
  BY DEF Txs
<1>2. t = [t EXCEPT !.state = t.state, !.bit_counter = t.bit_counter,
                    !.current_byte = t.current_byte, !.fifo = t.fifo]
  BY DEF Txs
<1>3. CASE t.baud_counter # ClocksPerBaud - 1
  <2> DEFINE b == t.baud_counter + 1
  <2>1. b \in 0 .. (ClocksPerBaud - 1)
    BY <1>1, <1>3
  <2>2. TxClock(t) = [t EXCEPT !.state = t.state, !.bit_counter = t.bit_counter,
                               !.current_byte = t.current_byte, !.baud_counter = b,
                               !.fifo = t.fifo]
    BY <1>3 DEF TxClock, Txs
  <2> HIDE DEF b
  <2>3. TxIs(TxClock(t), t.state, t.bit_counter, t.current_byte, b, t.fifo)
    BY <1>1, <2>1, <2>2, TxMade
  <2> QED BY <1>3, <2>3 DEF b
<1>4. CASE t.baud_counter = ClocksPerBaud - 1 /\ t.state \in {"IDLE", "STOP"}
  <2> DEFINE s == IF t.fifo # <<>> THEN "START" ELSE "IDLE"
  <2>1. s \in {"IDLE", "START", "PROC", "STOP"}
    OBVIOUS
  <2>2. TxClock(t) = [t EXCEPT !.state = s, !.bit_counter = t.bit_counter,
                               !.current_byte = t.current_byte, !.baud_counter = 0,
                               !.fifo = t.fifo]
    BY <1>4 DEF TxClock, Txs
  <2> HIDE DEF s
  <2>3. TxIs(TxClock(t), s, t.bit_counter, t.current_byte, 0, t.fifo)
    BY <1>1, <2>1, <2>2, TxMade
  <2> QED BY <1>4, <2>3 DEF s
<1>5. CASE t.baud_counter = ClocksPerBaud - 1 /\ t.state = "START"
  <2> DEFINE y == Head(t.fifo)
             f == Tail(t.fifo)
  <2>1. y \in Bytes /\ f \in Seq(Bytes)
    BY <1>1, <1>5, HeadTailProperties
  <2>2. TxClock(t) = [t EXCEPT !.state = "PROC", !.bit_counter = 0, !.current_byte = y,
                               !.baud_counter = 0, !.fifo = f]
    BY <1>5 DEF TxClock, Txs
  <2> HIDE DEF y, f
  <2>3. TxIs(TxClock(t), "PROC", 0, y, 0, f)
    BY <1>1, <2>1, <2>2, TxMade
  <2> QED BY <1>5, <2>3 DEF y, f
<1>6. CASE t.baud_counter = ClocksPerBaud - 1 /\ t.state = "PROC"
  <2> DEFINE s == IF t.bit_counter = DataBits - 1 THEN "STOP" ELSE "PROC"
             c == IF t.bit_counter = DataBits - 1 THEN t.bit_counter ELSE t.bit_counter + 1
             y == Append(Tail(t.current_byte), 0)
  <2>1. s \in {"IDLE", "START", "PROC", "STOP"} /\ c \in 0 .. (DataBits - 1) /\ y \in Bytes
    BY <1>1, Shifted DEF WireBits
  <2>2. TxClock(t) = [t EXCEPT !.state = s, !.bit_counter = c, !.current_byte = y,
                               !.baud_counter = 0, !.fifo = t.fifo]
    BY <1>6 DEF TxClock, Txs
  <2> HIDE DEF s, c, y
  <2>3. TxIs(TxClock(t), s, c, y, 0, t.fifo)
    BY <1>1, <2>1, <2>2, TxMade
  <2> QED BY <1>6, <2>3 DEF s, c, y
<1> QED BY <1>1, <1>3, <1>4, <1>5, <1>6

\* The output, in the state after the cycle.
LEMMA TxOut ==
  ASSUME NEW t \in Txs
  PROVE  /\ t.state \in {"IDLE", "STOP"} => uart_tx_o(t) = 1
         /\ t.state = "START" => uart_tx_o(t) = 0
         /\ t.state = "PROC" => uart_tx_o(t) = t.current_byte[1]
<1>1. t.current_byte \in Bytes
  BY DEF Txs
<1> QED BY <1>1, BytesAre DEF uart_tx_o, Txs

\* A cycle keeps the types of the SoC's transmitter.
LEMMA TxTypes ==
  ASSUME NEW t \in Txs, t.state = "START" => t.fifo # <<>>, Len(t.fifo) <= FifoDepth
  PROVE  /\ TxClock(t) \in Txs
         /\ Len(TxClock(t).fifo) <= FifoDepth
         /\ TxClock(t).state = "START" => TxClock(t).fifo # <<>>
<1>1. /\ t.state \in {"IDLE", "START", "PROC", "STOP"} /\ t.fifo \in Seq(Bytes)
  BY DEF Txs
<1>2. t.fifo # <<>> => Len(Tail(t.fifo)) <= FifoDepth
  BY <1>1, HeadTailProperties, LenProperties
<1>3. CASE t.baud_counter # ClocksPerBaud - 1
  <2>1. TxIs(TxClock(t), t.state, t.bit_counter, t.current_byte, t.baud_counter + 1, t.fifo)
    BY <1>3, TxTick
  <2> QED BY <2>1 DEF TxIs
<1>4. CASE t.baud_counter = ClocksPerBaud - 1
  BY <1>1, <1>2, <1>4, TxTick DEF TxIs
<1> QED BY <1>3, <1>4

\* One cycle of the emulated receiver, by cases.
URxIs(u, state, cnt, shreg, bits) ==
  /\ u \in URxs
  /\ u.state = state /\ u.baud_cnt = cnt /\ u.shreg = shreg /\ u.bits_rcvd = bits

\* An emulated receiver whose fields are all assigned holds what they are assigned.
LEMMA URxMade ==
  ASSUME NEW s \in {"RX_IDLE", "RX_ONGOING"}, NEW c \in 0 .. (ClocksPerBaud - 1),
         NEW y \in Bytes, NEW b \in 0 .. (DataBits + 1), NEW t \in URxs,
         NEW u, u = [t EXCEPT !.state = s, !.baud_cnt = c, !.shreg = y, !.bits_rcvd = b]
  PROVE  URxIs(u, s, c, y, b)
<1>1. u = [state |-> s, baud_cnt |-> c, shreg |-> y, bits_rcvd |-> b]
  BY DEF URxs
<1>2. u \in URxs
  BY <1>1 DEF URxs
<1> QED BY <1>1, <1>2 DEF URxIs

\* The emulated receiver at rest.
LEMMA RxInitIs == URxIs(RxInit, "RX_IDLE", 0, Zeros, 0)
BY ZerosByte DEF URxIs, RxInit, URxs

\* One cycle of the emulated receiver, by cases.
LEMMA EmulatedRx ==
  ASSUME NEW u \in URxs, NEW v \in WireBits
  PROVE  /\ (u.state = "RX_IDLE" /\ v = 1) => uart_rx_protocol(u, v) = u /\ ~uart_rx_ends(u, v)
         /\ (u.state = "RX_ONGOING" \/ v = 0) =>
              /\ (u.baud_cnt = ClocksPerBaud - 1 /\ u.bits_rcvd = DataBits + 1)
                   => uart_rx_protocol(u, v) = RxInit /\ uart_rx_ends(u, v)
              /\ (u.baud_cnt = ClocksPerBaud - 1 /\ u.bits_rcvd # DataBits + 1)
                   => /\ URxIs(uart_rx_protocol(u, v), "RX_ONGOING", 0, u.shreg, u.bits_rcvd + 1)
                      /\ ~uart_rx_ends(u, v)
              /\ u.baud_cnt # ClocksPerBaud - 1
                   => /\ URxIs(uart_rx_protocol(u, v), "RX_ONGOING", u.baud_cnt + 1,
                               IF Samples(u) /\ v = 1 THEN [u.shreg EXCEPT ![u.bits_rcvd] = 1]
                                                      ELSE u.shreg,
                               u.bits_rcvd)
                      /\ ~uart_rx_ends(u, v)
<1>1. /\ u.state \in {"RX_IDLE", "RX_ONGOING"} /\ u.baud_cnt \in 0 .. (ClocksPerBaud - 1)
      /\ u.shreg \in Bytes /\ u.bits_rcvd \in 0 .. (DataBits + 1)
      /\ 0 \in 0 .. (ClocksPerBaud - 1) /\ "RX_ONGOING" \in {"RX_IDLE", "RX_ONGOING"}
  BY DEF URxs
<1>2. CASE u.state = "RX_IDLE" /\ v = 1
  BY <1>2 DEF uart_rx_protocol, uart_rx_ends, uart_rx_idle
<1>3. CASE ~(u.state = "RX_IDLE" /\ v = 1)
  <2>0. ~uart_rx_idle(u, v)
    BY <1>3 DEF uart_rx_idle
  <2>1. CASE u.baud_cnt = ClocksPerBaud - 1 /\ u.bits_rcvd = DataBits + 1
    BY <1>1, <1>3, <2>0, <2>1 DEF uart_rx_protocol, uart_rx_ends
  <2>2. CASE u.baud_cnt = ClocksPerBaud - 1 /\ u.bits_rcvd # DataBits + 1
    <3> DEFINE b == u.bits_rcvd + 1
    <3>1. b \in 0 .. (DataBits + 1)
      BY <1>1, <2>2
    <3>2. ~uart_rx_ends(u, v)
      BY <1>1, <2>2 DEF uart_rx_ends
    <3>3. u.baud_cnt + 1 >= ClocksPerBaud
      BY <2>2
    <3>4. uart_rx_protocol(u, v)
            = [u EXCEPT !.state = "RX_ONGOING", !.baud_cnt = 0, !.shreg = u.shreg, !.bits_rcvd = b]
      BY <2>0, <3>2, <3>3 DEF uart_rx_protocol, URxs
    <3> HIDE DEF b
    <3>5. URxIs(uart_rx_protocol(u, v), "RX_ONGOING", 0, u.shreg, b)
      BY <1>1, <3>1, <3>4, URxMade
    <3> QED BY <1>3, <2>2, <3>2, <3>5 DEF b
  <2>3. CASE u.baud_cnt # ClocksPerBaud - 1
    <3> DEFINE c == u.baud_cnt + 1
               y == IF Samples(u) /\ v = 1 THEN [u.shreg EXCEPT ![u.bits_rcvd] = 1] ELSE u.shreg
    <3>1. c \in 0 .. (ClocksPerBaud - 1) /\ ~(u.baud_cnt + 1 >= ClocksPerBaud)
      BY <1>1, <2>3
    <3>2. ~uart_rx_ends(u, v)
      BY <3>1 DEF uart_rx_ends
    <3>3. y \in Bytes
      BY <1>1 DEF Bytes, WireBits
    <3>4. uart_rx_protocol(u, v)
            = [u EXCEPT !.state = "RX_ONGOING", !.baud_cnt = c, !.shreg = y,
                        !.bits_rcvd = u.bits_rcvd]
      BY <2>0, <3>1, <3>2 DEF uart_rx_protocol, URxs
    <3> HIDE DEF c, y
    <3>5. URxIs(uart_rx_protocol(u, v), "RX_ONGOING", c, y, u.bits_rcvd)
      BY <1>1, <3>1, <3>3, <3>4, URxMade
    <3> QED BY <1>3, <2>3, <3>2, <3>5 DEF c, y
  <2> QED BY <1>1, <1>3, <2>1, <2>2, <2>3
<1> QED BY <1>2, <1>3

-----------------------------------------------------------------------------
(* From the transmitter to the simulation.                                 *)

\* The emulated receiver in bit k, a cycle ahead of the baud counter.
InBit(u, k, baud) ==
  IF baud = ClocksPerBaud - 1 THEN u.bits_rcvd = k + 1 /\ u.baud_cnt = 0
                              ELSE u.bits_rcvd = k /\ u.baud_cnt = baud + 1

\* The two move in step.
Hooked(t, u) ==
  /\ t \in Txs /\ u \in URxs
  /\ t.state = "START" => t.fifo # <<>>
  /\ t.state = "IDLE" => u = RxInit
  /\ t.state = "START" =>
       u.state = "RX_ONGOING" /\ InBit(u, 0, t.baud_counter) /\ u.shreg = Zeros
  /\ t.state = "PROC" =>
       /\ u.state = "RX_ONGOING" /\ InBit(u, t.bit_counter + 1, t.baud_counter)
       /\ \A j \in 1 .. DataBits : j > t.bit_counter + 1 => u.shreg[j] = 0
       /\ u.shreg[t.bit_counter + 1]
            = IF t.baud_counter >= ClocksPerBaud \div 2 - 1 THEN t.current_byte[1] ELSE 0
  /\ t.state = "STOP" =>
       IF t.baud_counter = ClocksPerBaud - 1 THEN u = RxInit
       ELSE u.state = "RX_ONGOING" /\ InBit(u, DataBits + 1, t.baud_counter)

\* A byte has left the FIFO and not arrived yet; it is half here, half there.
Carries(t) == t.state = "PROC" \/ (t.state = "STOP" /\ t.baud_counter # ClocksPerBaud - 1)

OnWire(t, u) ==
  [j \in 1 .. DataBits |-> IF t.state = "PROC" /\ j > t.bit_counter
                           THEN t.current_byte[j - t.bit_counter] ELSE u.shreg[j]]

\* What one cycle, from t and u to t2 and u2, does to the byte under way.
Moved(t, u, t2, u2, ends) ==
  /\ Hooked(t2, u2)
  /\ ends => Carries(t) /\ ~Carries(t2) /\ u.shreg = OnWire(t, u) /\ t2.fifo = t.fifo
  /\ (~ends /\ Carries(t)) => Carries(t2) /\ OnWire(t2, u2) = OnWire(t, u) /\ t2.fifo = t.fifo
  /\ (~Carries(t) /\ Carries(t2)) =>
       t.fifo # <<>> /\ OnWire(t2, u2) = Head(t.fifo) /\ t2.fifo = Tail(t.fifo)
  /\ (~Carries(t) /\ ~Carries(t2)) => t2.fifo = t.fifo

\* The registers of a transmitter and an emulated receiver.
LEMMA HookTypes ==
  ASSUME NEW t \in Txs, NEW u \in URxs
  PROVE  /\ t.state \in {"IDLE", "START", "PROC", "STOP"} /\ t.bit_counter \in 0 .. (DataBits - 1)
         /\ t.current_byte \in Bytes /\ t.baud_counter \in 0 .. (ClocksPerBaud - 1)
         /\ t.fifo \in Seq(Bytes)
         /\ u.state \in {"RX_IDLE", "RX_ONGOING"} /\ u.baud_cnt \in 0 .. (ClocksPerBaud - 1)
         /\ u.shreg \in Bytes /\ u.bits_rcvd \in 0 .. (DataBits + 1)
BY DEF Txs, URxs

\* Within a bit of an idle line or a start bit.
LEMMA HookIdle ==
  ASSUME NEW t, NEW u, Hooked(t, u), t.state = "IDLE", t.baud_counter # ClocksPerBaud - 1
  PROVE  LET t2 == TxClock(t)
             v  == uart_tx_o(t2)
         IN  Moved(t, u, t2, uart_rx_protocol(u, v), uart_rx_ends(u, v))
<1> DEFINE t2 == TxClock(t)
           v  == uart_tx_o(t2)
<1>1. t \in Txs /\ u = RxInit /\ URxIs(u, "RX_IDLE", 0, Zeros, 0)
  BY RxInitIs DEF Hooked
<1>2. TxIs(t2, t.state, t.bit_counter, t.current_byte, t.baud_counter + 1, t.fifo)
  BY <1>1, TxTick
<1> HIDE DEF t2
<1>3. v = 1
  BY <1>2, TxOut DEF TxIs
<1>4. uart_rx_protocol(u, v) = u /\ ~uart_rx_ends(u, v)
  BY <1>1, <1>3, EmulatedRx DEF URxIs, WireBits
<1>5. Moved(t, u, t2, uart_rx_protocol(u, v), uart_rx_ends(u, v))
  BY <1>1, <1>2, <1>4 DEF Moved, Hooked, Carries, TxIs, URxIs
<1> QED BY <1>5 DEF t2

\* While the start bit is on the line the receiver follows the transmitter.
LEMMA HookStart ==
  ASSUME NEW t, NEW u, Hooked(t, u), t.state = "START", t.baud_counter # ClocksPerBaud - 1
  PROVE  LET t2 == TxClock(t)
             v  == uart_tx_o(t2)
         IN  Moved(t, u, t2, uart_rx_protocol(u, v), uart_rx_ends(u, v))
<1> DEFINE t2 == TxClock(t)
           v  == uart_tx_o(t2)
           u2 == uart_rx_protocol(u, v)
<1>1. /\ t \in Txs /\ u \in URxs /\ u.state = "RX_ONGOING" /\ InBit(u, 0, t.baud_counter)
      /\ u.shreg = Zeros /\ t.fifo # <<>>
  BY DEF Hooked
<1>2. TxIs(t2, t.state, t.bit_counter, t.current_byte, t.baud_counter + 1, t.fifo)
  BY <1>1, TxTick
<1> HIDE DEF t2
<1>3. v = 0 /\ v \in WireBits
  BY <1>2, TxOut DEF TxIs, WireBits
<1>4. u.bits_rcvd = 0 /\ u.baud_cnt = t.baud_counter + 1
  BY <1>1 DEF InBit
<1>5. ~Samples(u)
  BY <1>4 DEF Samples
<1> HIDE DEF v
<1>6. CASE u.baud_cnt # ClocksPerBaud - 1
  <2>1. /\ URxIs(u2, "RX_ONGOING", u.baud_cnt + 1,
                 IF Samples(u) /\ v = 1 THEN [u.shreg EXCEPT ![u.bits_rcvd] = 1] ELSE u.shreg,
                 u.bits_rcvd)
        /\ ~uart_rx_ends(u, v)
    BY <1>1, <1>3, <1>6, EmulatedRx
  <2> HIDE DEF u2
  <2>2. Hooked(t2, u2)
    BY <1>1, <1>2, <1>4, <1>5, <1>6, <2>1 DEF Hooked, InBit, TxIs, URxIs
  <2>3. Moved(t, u, t2, u2, uart_rx_ends(u, v))
    BY <1>2, <2>1, <2>2 DEF Moved, Carries, TxIs
  <2> QED BY <2>3 DEF t2, v, u2
<1>7. CASE u.baud_cnt = ClocksPerBaud - 1
  <2>0. u.bits_rcvd # DataBits + 1
    BY <1>4
  <2>1. URxIs(u2, "RX_ONGOING", 0, u.shreg, u.bits_rcvd + 1) /\ ~uart_rx_ends(u, v)
    BY <1>1, <1>3, <1>7, <2>0, EmulatedRx
  <2> HIDE DEF u2
  <2>2. Hooked(t2, u2)
    BY <1>1, <1>2, <1>4, <1>7, <2>1 DEF Hooked, InBit, TxIs, URxIs
  <2>3. Moved(t, u, t2, u2, uart_rx_ends(u, v))
    BY <1>2, <2>1, <2>2 DEF Moved, Carries, TxIs
  <2> QED BY <2>3 DEF t2, v, u2
<1> QED BY <1>6, <1>7

\* Within a data bit: the middle of it is sampled.
LEMMA HookProc ==
  ASSUME NEW t, NEW u, Hooked(t, u), t.state = "PROC", t.baud_counter # ClocksPerBaud - 1
  PROVE  LET t2 == TxClock(t)
             v  == uart_tx_o(t2)
         IN  Moved(t, u, t2, uart_rx_protocol(u, v), uart_rx_ends(u, v))
<1> DEFINE t2 == TxClock(t)
           v  == uart_tx_o(t2)
           u2 == uart_rx_protocol(u, v)
           k  == t.bit_counter + 1
           H  == ClocksPerBaud \div 2
           y  == IF Samples(u) /\ v = 1 THEN [u.shreg EXCEPT ![u.bits_rcvd] = 1] ELSE u.shreg
<1>1. /\ t \in Txs /\ u \in URxs /\ u.state = "RX_ONGOING" /\ InBit(u, k, t.baud_counter)
      /\ \A j \in 1 .. DataBits : j > k => u.shreg[j] = 0
      /\ u.shreg[k] = IF t.baud_counter >= H - 1 THEN t.current_byte[1] ELSE 0
  BY DEF Hooked
<1>2. TxIs(t2, t.state, t.bit_counter, t.current_byte, t.baud_counter + 1, t.fifo)
  BY <1>1, TxTick
<1>0. k \in 1 .. DataBits /\ t.current_byte \in Bytes /\ t.baud_counter \in 0 .. (ClocksPerBaud - 2)
      /\ u.shreg \in Bytes
  BY <1>1, HookTypes
<1> HIDE DEF t2
<1>3. v = t.current_byte[1] /\ v \in WireBits
  BY <1>0, <1>2, TxOut, BytesAre DEF TxIs
<1>4. u.bits_rcvd = k /\ u.baud_cnt = t.baud_counter + 1
  BY <1>1 DEF InBit
<1>5. Samples(u) <=> t.baud_counter + 1 = H - 1
  BY <1>0, <1>4 DEF Samples
<1>h. H \in 1 .. (ClocksPerBaud - 1) /\ H <= ClocksPerBaud - 1
  BY HalfBaud
<1> HIDE DEF v, H
<1>6. CASE u.baud_cnt # ClocksPerBaud - 1
  <2>1. URxIs(u2, "RX_ONGOING", u.baud_cnt + 1, y, u.bits_rcvd) /\ ~uart_rx_ends(u, v)
    BY <1>1, <1>3, <1>6, EmulatedRx
  <2>2. \A j \in 1 .. DataBits : j # k => y[j] = u.shreg[j]
    BY <1>0, <1>4 DEF Bytes
  <2>3. y[k] = IF t.baud_counter + 1 >= H - 1 THEN t.current_byte[1] ELSE 0
    <3>1. CASE Samples(u)
      <4>1. u.shreg[k] = 0 /\ t.baud_counter + 1 = H - 1
        BY <1>0, <1>1, <1>5, <1>h, <3>1
      <4>2. CASE v = 1
        BY <1>0, <1>3, <1>4, <3>1, <4>1, <4>2, <1>h DEF Bytes
      <4>3. CASE v = 0
        BY <1>0, <1>3, <3>1, <4>1, <4>3, <1>h
      <4> QED BY <1>3, <4>2, <4>3 DEF WireBits
    <3>2. CASE ~Samples(u)
      BY <1>0, <1>1, <1>5, <1>h, <3>2
    <3> QED BY <3>1, <3>2
  <2> HIDE DEF u2, y, k
  <2>4. InBit(u2, k, t2.baud_counter)
    BY <1>0, <1>2, <1>4, <1>6, <2>1 DEF InBit, TxIs, URxIs
  <2>5. Hooked(t2, u2)
    BY <1>1, <1>2, <2>1, <2>2, <2>3, <2>4 DEF Hooked, TxIs, URxIs, k, H
  <2>6. OnWire(t2, u2) = OnWire(t, u)
    <3>1. \A j \in 1 .. DataBits : ~(j > t.bit_counter) => u2.shreg[j] = u.shreg[j]
      <4> SUFFICES ASSUME NEW j \in 1 .. DataBits, ~(j > t.bit_counter)
                   PROVE  u2.shreg[j] = u.shreg[j]
        OBVIOUS
      <4>1. j # k
        BY <1>1, HookTypes DEF k
      <4> QED BY <2>1, <2>2, <4>1 DEF URxIs
    <3> QED BY <1>2, <3>1 DEF OnWire, TxIs
  <2>7. Moved(t, u, t2, u2, uart_rx_ends(u, v))
    BY <1>2, <2>1, <2>5, <2>6 DEF Moved, Carries, TxIs
  <2> QED BY <2>7 DEF t2, v, u2
<1>7. CASE u.baud_cnt = ClocksPerBaud - 1
  <2>0. u.bits_rcvd # DataBits + 1
    BY <1>0, <1>4
  <2>1. URxIs(u2, "RX_ONGOING", 0, u.shreg, u.bits_rcvd + 1) /\ ~uart_rx_ends(u, v)
    BY <1>1, <1>3, <1>7, <2>0, EmulatedRx
  <2>2. t.baud_counter + 1 = ClocksPerBaud - 1 /\ t.baud_counter + 1 >= H - 1
        /\ t.baud_counter >= H - 1
    BY <1>0, <1>4, <1>7, <1>h
  <2> HIDE DEF u2, k
  <2>4. InBit(u2, k, t2.baud_counter)
    BY <1>0, <1>2, <1>4, <1>7, <2>1, <2>2 DEF InBit, TxIs, URxIs
  <2>5. Hooked(t2, u2)
    BY <1>1, <1>2, <2>1, <2>2, <2>4 DEF Hooked, TxIs, URxIs, k, H
  <2>6. OnWire(t2, u2) = OnWire(t, u)
    BY <1>2, <2>1 DEF OnWire, TxIs, URxIs
  <2>7. Moved(t, u, t2, u2, uart_rx_ends(u, v))
    BY <1>2, <2>1, <2>5, <2>6 DEF Moved, Carries, TxIs
  <2> QED BY <2>7 DEF t2, v, u2
<1> QED BY <1>6, <1>7

\* Within the stop bit: the emulation is done in its last cycle but one.
LEMMA HookStop ==
  ASSUME NEW t, NEW u, Hooked(t, u), t.state = "STOP", t.baud_counter # ClocksPerBaud - 1
  PROVE  LET t2 == TxClock(t)
             v  == uart_tx_o(t2)
         IN  Moved(t, u, t2, uart_rx_protocol(u, v), uart_rx_ends(u, v))
<1> DEFINE t2 == TxClock(t)
           v  == uart_tx_o(t2)
           u2 == uart_rx_protocol(u, v)
<1>1. /\ t \in Txs /\ u \in URxs /\ u.state = "RX_ONGOING" /\ InBit(u, DataBits + 1, t.baud_counter)
  BY DEF Hooked
<1>2. TxIs(t2, t.state, t.bit_counter, t.current_byte, t.baud_counter + 1, t.fifo)
  BY <1>1, TxTick
<1>0. t.baud_counter \in 0 .. (ClocksPerBaud - 2) /\ u.shreg \in Bytes
  BY <1>1, HookTypes
<1> HIDE DEF t2
<1>3. v = 1 /\ v \in WireBits
  BY <1>2, TxOut DEF TxIs, WireBits
<1>4. u.bits_rcvd = DataBits + 1 /\ u.baud_cnt = t.baud_counter + 1
  BY <1>1 DEF InBit
<1>5. ~Samples(u)
  BY <1>4 DEF Samples
<1> HIDE DEF v
<1>6. CASE u.baud_cnt # ClocksPerBaud - 1
  <2>1. /\ URxIs(u2, "RX_ONGOING", u.baud_cnt + 1,
                 IF Samples(u) /\ v = 1 THEN [u.shreg EXCEPT ![u.bits_rcvd] = 1] ELSE u.shreg,
                 u.bits_rcvd)
        /\ ~uart_rx_ends(u, v)
    BY <1>1, <1>3, <1>6, EmulatedRx
  <2> HIDE DEF u2
  <2>2. t2.baud_counter # ClocksPerBaud - 1 /\ InBit(u2, DataBits + 1, t2.baud_counter)
    BY <1>0, <1>2, <1>4, <1>6, <2>1 DEF InBit, TxIs, URxIs
  <2>3. Hooked(t2, u2)
    BY <1>1, <1>2, <2>1, <2>2 DEF Hooked, TxIs, URxIs
  <2>4. OnWire(t2, u2) = OnWire(t, u)
    BY <1>2, <1>5, <2>1 DEF OnWire, TxIs, URxIs
  <2>5. Moved(t, u, t2, u2, uart_rx_ends(u, v))
    BY <1>2, <2>1, <2>2, <2>3, <2>4 DEF Moved, Carries, TxIs
  <2> QED BY <2>5 DEF t2, v, u2
<1>7. CASE u.baud_cnt = ClocksPerBaud - 1
  <2>1. u2 = RxInit /\ uart_rx_ends(u, v)
    BY <1>1, <1>3, <1>4, <1>7, EmulatedRx
  <2> HIDE DEF u2
  <2>2. t2.baud_counter = ClocksPerBaud - 1
    BY <1>0, <1>2, <1>4, <1>7 DEF TxIs
  <2>3. Hooked(t2, u2)
    BY <1>1, <1>2, <2>1, <2>2, RxInitIs DEF Hooked, TxIs, URxIs
  <2>4. OnWire(t, u) = u.shreg
    BY <1>0 DEF OnWire, Bytes
  <2>5. Moved(t, u, t2, u2, uart_rx_ends(u, v))
    BY <1>2, <2>1, <2>2, <2>3, <2>4 DEF Moved, Carries, TxIs
  <2> QED BY <2>5 DEF t2, v, u2
<1> QED BY <1>6, <1>7

\* On a baud tick of an idle line or at the end of the stop bit.
LEMMA HookNext ==
  ASSUME NEW t, NEW u, Hooked(t, u), t.state \in {"IDLE", "STOP"},
         t.baud_counter = ClocksPerBaud - 1
  PROVE  LET t2 == TxClock(t)
             v  == uart_tx_o(t2)
         IN  Moved(t, u, t2, uart_rx_protocol(u, v), uart_rx_ends(u, v))
<1> DEFINE t2 == TxClock(t)
           v  == uart_tx_o(t2)
           u2 == uart_rx_protocol(u, v)
<1>1. t \in Txs /\ u \in URxs /\ u = RxInit /\ URxIs(u, "RX_IDLE", 0, Zeros, 0)
  BY RxInitIs DEF Hooked
<1>2. TxIs(t2, IF t.fifo # <<>> THEN "START" ELSE "IDLE", t.bit_counter, t.current_byte, 0, t.fifo)
  BY <1>1, TxTick
<1>3. ~Carries(t) /\ ~Carries(t2)
  BY <1>2 DEF Carries, TxIs
<1> HIDE DEF t2
<1>4. CASE t.fifo = <<>>
  <2>1. v = 1
    BY <1>2, <1>4, TxOut DEF TxIs
  <2>2. u2 = u /\ ~uart_rx_ends(u, v)
    BY <1>1, <2>1, EmulatedRx DEF URxIs, WireBits
  <2> HIDE DEF v, u2
  <2>3. Moved(t, u, t2, u2, uart_rx_ends(u, v))
    BY <1>1, <1>2, <1>3, <1>4, <2>2 DEF Moved, Hooked, TxIs, URxIs
  <2> QED BY <2>3 DEF t2, v, u2
<1>5. CASE t.fifo # <<>>
  <2>1. v = 0 /\ v \in WireBits
    BY <1>2, <1>5, TxOut DEF TxIs, WireBits
  <2>2. ~Samples(u)
    BY <1>1 DEF Samples, URxIs
  <2> HIDE DEF v
  <2>a. u.baud_cnt # ClocksPerBaud - 1 /\ u.baud_cnt = 0
    BY <1>1 DEF URxIs
  <2>3. /\ URxIs(u2, "RX_ONGOING", u.baud_cnt + 1,
                 IF Samples(u) /\ v = 1 THEN [u.shreg EXCEPT ![u.bits_rcvd] = 1] ELSE u.shreg,
                 u.bits_rcvd)
        /\ ~uart_rx_ends(u, v)
    BY <1>1, <2>1, <2>a, EmulatedRx
  <2>4. URxIs(u2, "RX_ONGOING", 1, Zeros, 0)
    BY <1>1, <2>2, <2>3 DEF URxIs
  <2> HIDE DEF u2
  <2>5. InBit(u2, 0, 0)
    BY <2>4 DEF InBit, URxIs
  <2>6. Hooked(t2, u2)
    BY <1>2, <1>5, <2>4, <2>5 DEF Hooked, TxIs, URxIs
  <2>7. Moved(t, u, t2, u2, uart_rx_ends(u, v))
    BY <1>2, <1>3, <2>3, <2>6 DEF Moved, TxIs
  <2> QED BY <2>7 DEF t2, v, u2
<1> QED BY <1>4, <1>5

\* On the tick that begins the first data bit, whose first cycle may be its middle.
LEMMA HookFirst ==
  ASSUME NEW t, NEW u, Hooked(t, u), t.state = "START", t.baud_counter = ClocksPerBaud - 1
  PROVE  LET t2 == TxClock(t)
             v  == uart_tx_o(t2)
         IN  Moved(t, u, t2, uart_rx_protocol(u, v), uart_rx_ends(u, v))
<1> DEFINE t2 == TxClock(t)
           v  == uart_tx_o(t2)
           u2 == uart_rx_protocol(u, v)
           H  == ClocksPerBaud \div 2
           c  == Head(t.fifo)
           y  == IF Samples(u) /\ v = 1 THEN [u.shreg EXCEPT ![u.bits_rcvd] = 1] ELSE u.shreg
<1>1. /\ t \in Txs /\ u \in URxs /\ u.state = "RX_ONGOING" /\ InBit(u, 0, t.baud_counter)
      /\ u.shreg = Zeros /\ t.fifo # <<>>
  BY DEF Hooked
<1>2. TxIs(t2, "PROC", 0, c, 0, Tail(t.fifo))
  BY <1>1, TxTick
<1>3. c \in Bytes /\ c[1] \in WireBits
  BY <1>1, HookTypes, HeadTailProperties, BytesAre
<1> HIDE DEF t2, c
<1>4. v = c[1] /\ v \in WireBits
  BY <1>2, <1>3, TxOut DEF TxIs
<1>5. u.bits_rcvd = 1 /\ u.baud_cnt = 0
  BY <1>1 DEF InBit
<1>6. (Samples(u) <=> 1 = H) /\ H >= 1
  BY <1>5, HalfBaud DEF Samples
<1> HIDE DEF v, H
<1>a. u.baud_cnt # ClocksPerBaud - 1
  BY <1>5
<1>7. URxIs(u2, "RX_ONGOING", u.baud_cnt + 1, y, u.bits_rcvd) /\ ~uart_rx_ends(u, v)
  BY <1>1, <1>4, <1>a, EmulatedRx
<1>8. \A j \in 1 .. DataBits : y[j] = IF j = 1 /\ 0 >= H - 1 THEN c[1] ELSE 0
  <2>1. H \in Nat /\ \A j \in 1 .. DataBits : u.shreg[j] = 0
    BY <1>1, HalfBaud DEF Zeros, H
  <2>2. u.shreg \in [1 .. DataBits -> WireBits]
    BY <1>1, ZerosByte DEF Bytes
  <2>3. CASE Samples(u) /\ v = 1
    BY <1>4, <1>5, <1>6, <2>1, <2>2, <2>3
  <2>4. CASE Samples(u) /\ v = 0
    BY <1>4, <1>5, <1>6, <2>1, <2>4
  <2>5. CASE ~Samples(u)
    BY <1>6, <2>1, <2>5
  <2> QED BY <1>4, <2>3, <2>4, <2>5 DEF WireBits
<1> HIDE DEF u2, y
<1>9. InBit(u2, 1, 0)
  BY <1>5, <1>7 DEF InBit, URxIs
<1>10. Hooked(t2, u2)
  BY <1>2, <1>7, <1>8, <1>9 DEF Hooked, TxIs, URxIs, H
<1>11. OnWire(t2, u2) = c
  <2>1. \A j \in 1 .. DataBits : j > 0 /\ c[j - 0] = c[j]
    OBVIOUS
  <2> QED BY <1>2, <1>3, <2>1 DEF OnWire, TxIs, Bytes
<1>12. Moved(t, u, t2, u2, uart_rx_ends(u, v))
  BY <1>1, <1>2, <1>7, <1>10, <1>11 DEF Moved, Carries, TxIs, c
<1> QED BY <1>12 DEF t2, v, u2

\* On the tick that ends a data bit.
LEMMA HookBit ==
  ASSUME NEW t, NEW u, Hooked(t, u), t.state = "PROC", t.baud_counter = ClocksPerBaud - 1
  PROVE  LET t2 == TxClock(t)
             v  == uart_tx_o(t2)
         IN  Moved(t, u, t2, uart_rx_protocol(u, v), uart_rx_ends(u, v))
<1> DEFINE t2 == TxClock(t)
           v  == uart_tx_o(t2)
           u2 == uart_rx_protocol(u, v)
           H  == ClocksPerBaud \div 2
           k  == t.bit_counter + 1
           c  == t.current_byte
           d  == Append(Tail(c), 0)
           y  == IF Samples(u) /\ v = 1 THEN [u.shreg EXCEPT ![u.bits_rcvd] = 1] ELSE u.shreg
<1>1. /\ t \in Txs /\ u \in URxs /\ u.state = "RX_ONGOING" /\ InBit(u, k, t.baud_counter)
      /\ \A j \in 1 .. DataBits : j > k => u.shreg[j] = 0
      /\ u.shreg[k] = IF t.baud_counter >= H - 1 THEN c[1] ELSE 0
  BY DEF Hooked
<1>2. /\ k \in 1 .. DataBits /\ c \in Bytes /\ u.shreg \in Bytes /\ t.bit_counter \in Nat
      /\ t.bit_counter = k - 1
  BY <1>1, HookTypes
<1>3. TxIs(t2, IF t.bit_counter = DataBits - 1 THEN "STOP" ELSE "PROC",
           IF t.bit_counter = DataBits - 1 THEN t.bit_counter ELSE t.bit_counter + 1,
           d, 0, t.fifo)
  BY <1>1, TxTick
<1>4. /\ d \in Bytes /\ d[1] \in WireBits
      /\ \A j \in 1 .. (DataBits - 1) : d[j] = c[j + 1]
  <2> HIDE DEF k
  <2>1. 0 \in WireBits /\ 1 \in 1 .. DataBits
    BY DEF WireBits
  <2>2. d \in Bytes /\ \A j \in 1 .. (DataBits - 1) : d[j] = c[j + 1]
    BY <1>2, <2>1, Shifted
  <2> HIDE DEF d
  <2>3. d[1] \in WireBits
    BY <2>1, <2>2, BytesAre
  <2> QED BY <2>2, <2>3
<1>5. u.bits_rcvd = k + 1 /\ u.baud_cnt = 0 /\ u.baud_cnt # ClocksPerBaud - 1
  BY <1>1 DEF InBit
<1>h. H \in 1 .. (ClocksPerBaud - 1) /\ H <= ClocksPerBaud - 1
  BY HalfBaud
<1>6. u.shreg[k] = c[1]
  BY <1>1, <1>h
<1> HIDE DEF t2, d, c, H, k
<1>7. CASE t.bit_counter = DataBits - 1
  <2>1. TxIs(t2, "STOP", t.bit_counter, d, 0, t.fifo) /\ k = DataBits
    BY <1>3, <1>7, <1>2
  <2>2. v = 1 /\ v \in WireBits
    BY <2>1, TxOut DEF TxIs, WireBits
  <2>3. ~Samples(u)
    BY <1>2, <1>5, <2>1 DEF Samples
  <2> HIDE DEF v
  <2>4. URxIs(u2, "RX_ONGOING", u.baud_cnt + 1, y, u.bits_rcvd) /\ ~uart_rx_ends(u, v)
    BY <1>1, <1>5, <2>2, EmulatedRx
  <2>5. y = u.shreg
    BY <2>3
  <2> HIDE DEF u2, y
  <2>6. InBit(u2, DataBits + 1, 0)
    BY <1>5, <2>1, <2>4 DEF InBit, URxIs
  <2>7. Hooked(t2, u2)
    BY <2>1, <2>4, <2>6 DEF Hooked, TxIs, URxIs
  <2>8. OnWire(t2, u2) = OnWire(t, u)
    <3>1. ASSUME NEW j \in 1 .. DataBits
          PROVE  u.shreg[j] = IF j > t.bit_counter THEN c[j - t.bit_counter] ELSE u.shreg[j]
      <4>1. CASE j > t.bit_counter
        <5>1. j = k /\ j - t.bit_counter = 1
          BY <1>2, <2>1, <4>1
        <5> QED BY <1>6, <5>1
      <4> QED BY <4>1
    <3>2. t2.state = "STOP" /\ u2.shreg = u.shreg
      BY <2>1, <2>4, <2>5 DEF TxIs, URxIs
    <3> QED BY <3>1, <3>2 DEF OnWire, c
  <2>9. Moved(t, u, t2, u2, uart_rx_ends(u, v))
    BY <2>1, <2>4, <2>7, <2>8 DEF Moved, Carries, TxIs
  <2> QED BY <2>9 DEF t2, v, u2
<1>8. CASE t.bit_counter # DataBits - 1
  <2>1. TxIs(t2, "PROC", k, d, 0, t.fifo) /\ k < DataBits
    BY <1>3, <1>8, <1>2
  <2>2. v = d[1] /\ v \in WireBits
    BY <1>4, <2>1, TxOut DEF TxIs
  <2>3. Samples(u) <=> 1 = H
    BY <1>2, <1>5, <2>1 DEF Samples, H
  <2> HIDE DEF v
  <2>4. URxIs(u2, "RX_ONGOING", u.baud_cnt + 1, y, u.bits_rcvd) /\ ~uart_rx_ends(u, v)
    BY <1>1, <1>5, <2>2, EmulatedRx
  <2>5. \A j \in 1 .. DataBits : j # k + 1 => y[j] = u.shreg[j]
    BY <1>2, <1>5 DEF Bytes
  <2>6. y[k + 1] = IF 0 >= H - 1 THEN d[1] ELSE 0
    <3>1. u.shreg[k + 1] = 0 /\ k + 1 \in 1 .. DataBits /\ u.shreg \in [1 .. DataBits -> WireBits]
      BY <1>1, <1>2, <2>1 DEF Bytes
    <3>2. CASE Samples(u) /\ v = 1
      BY <1>5, <2>2, <2>3, <3>1, <3>2
    <3>3. CASE Samples(u) /\ v = 0
      BY <2>2, <2>3, <3>1, <3>3
    <3>4. CASE ~Samples(u)
      BY <2>3, <3>1, <3>4, <1>h
    <3> QED BY <2>2, <3>2, <3>3, <3>4 DEF WireBits
  <2> HIDE DEF u2, y
  <2>7. InBit(u2, k + 1, 0)
    BY <1>5, <2>4 DEF InBit, URxIs
  <2>8. \A j \in 1 .. DataBits : j > k + 1 => y[j] = 0
    BY <1>1, <1>2, <2>5
  <2>9. Hooked(t2, u2)
    BY <2>1, <2>4, <2>6, <2>7, <2>8 DEF Hooked, TxIs, URxIs, H
  <2>10. OnWire(t2, u2) = OnWire(t, u)
    <3>1. ASSUME NEW j \in 1 .. DataBits
          PROVE  (IF j > k THEN d[j - k] ELSE y[j])
                   = IF j > t.bit_counter THEN c[j - t.bit_counter] ELSE u.shreg[j]
      <4>1. CASE j > k
        <5>1. j - k \in 1 .. (DataBits - 1) /\ j - t.bit_counter = j - k + 1 /\ j > t.bit_counter
          BY <1>2, <4>1
        <5> QED BY <1>4, <4>1, <5>1
      <4>2. CASE j = k
        <5>1. j > t.bit_counter /\ j - t.bit_counter = 1 /\ ~(j > k) /\ j # k + 1
          BY <1>2, <4>2
        <5> QED BY <1>6, <2>5, <4>2, <5>1
      <4>3. CASE j < k
        <5>1. ~(j > t.bit_counter) /\ ~(j > k) /\ j # k + 1
          BY <1>2, <4>3
        <5> QED BY <2>5, <5>1
      <4> QED BY <1>2, <4>1, <4>2, <4>3
    <3>2. t2.state = "PROC" /\ t2.bit_counter = k /\ t2.current_byte = d /\ u2.shreg = y
      BY <2>1, <2>4 DEF TxIs, URxIs
    <3> QED BY <3>1, <3>2 DEF OnWire, c
  <2>11. Moved(t, u, t2, u2, uart_rx_ends(u, v))
    BY <2>1, <2>4, <2>9, <2>10 DEF Moved, Carries, TxIs
  <2> QED BY <2>11 DEF t2, v, u2
<1> QED BY <1>7, <1>8

\* One cycle of both.
LEMMA HookStep ==
  ASSUME NEW t, NEW u, Hooked(t, u)
  PROVE  LET t2 == TxClock(t)
             v  == uart_tx_o(t2)
         IN  Moved(t, u, t2, uart_rx_protocol(u, v), uart_rx_ends(u, v))
<1>1. t.state \in {"IDLE", "START", "PROC", "STOP"}
  BY HookTypes DEF Hooked
<1>2. CASE t.baud_counter # ClocksPerBaud - 1
  BY <1>1, <1>2, HookIdle, HookStart, HookProc, HookStop
<1>3. CASE t.baud_counter = ClocksPerBaud - 1
  BY <1>1, <1>3, HookNext, HookFirst, HookBit
<1> QED BY <1>2, <1>3

\* A write to the FIFO does not disturb them.
LEMMA HookWrite ==
  ASSUME NEW t, NEW u, Hooked(t, u), NEW b \in Bytes, ~tx_fifo_full(t)
  PROVE  LET t2 == TxWrite(t, b)
         IN  /\ Hooked(t2, u) /\ Carries(t2) = Carries(t) /\ OnWire(t2, u) = OnWire(t, u)
             /\ t2.fifo = Append(t.fifo, b)
<1> DEFINE t2 == TxWrite(t, b)
           f  == Append(t.fifo, b)
<1>1. t \in Txs /\ t.fifo \in Seq(Bytes) /\ u \in URxs
  BY HookTypes DEF Hooked
<1>2. f \in Seq(Bytes) /\ f # <<>>
  BY <1>1, AppendProperties, EmptySeq
<1>3. t2 = [t EXCEPT !.state = t.state, !.bit_counter = t.bit_counter,
                     !.current_byte = t.current_byte, !.baud_counter = t.baud_counter, !.fifo = f]
  BY <1>1 DEF TxWrite, Txs
<1> HIDE DEF t2, f
<1>4. TxIs(t2, t.state, t.bit_counter, t.current_byte, t.baud_counter, f)
  BY <1>1, <1>2, <1>3, HookTypes, TxMade
<1>5. Hooked(t2, u)
  BY <1>2, <1>4 DEF Hooked, TxIs
<1>6. Carries(t2) = Carries(t) /\ OnWire(t2, u) = OnWire(t, u)
  BY <1>4 DEF Carries, OnWire, TxIs
<1> QED BY <1>4, <1>5, <1>6 DEF TxIs, t2, f

\* Received: what the simulation has got, and what waits in its queue.
Arrived == got \o Contents(recv_queue)

HostTypes ==
  /\ session \in Sessions /\ written \in Seq(Bytes) /\ got \in Seq(Bytes)
  /\ recv_queue \in Queues(Bytes)
  /\ host \in [call : 1 .. (Len(session.calls) + 1), i : Nat, at : {"drain", "clock"}]
  /\ Len(tx.fifo) <= FifoDepth
  /\ prog = "put" => ~tx_fifo_full(tx) /\ Len(written) < Len(session.out)
  /\ (host.at = "clock" /\ ThisCall.op = "recv") => cqueue_empty(recv_queue) \/ host.i = Wanted

\* What the program has written has arrived, is half way, or is in the FIFO.
NothingMissing ==
  "recv_queue" \notin lost =>
    written = (IF Carries(tx) THEN Append(Arrived, OnWire(tx, uartRx)) ELSE Arrived) \o tx.fifo

HostInv == HostTypes /\ Hooked(tx, uartRx) /\ NothingMissing

\* An empty queue, with anything in its memory.
LEMMA EmptyQueue ==
  ASSUME NEW mem \in [Slots -> Bytes]
  PROVE  /\ cqueue_init(mem) \in Queues(Bytes) /\ cqueue_empty(cqueue_init(mem))
         /\ Length(cqueue_init(mem)) = 0 /\ Contents(cqueue_init(mem)) = <<>>
<1>1. cqueue_init(mem) \in Queues(Bytes)
  BY DEF cqueue_init, Queues
<1>2. cqueue_empty(cqueue_init(mem)) /\ Length(cqueue_init(mem)) = 0
  BY DEF cqueue_init, cqueue_empty, Length
<1>3. Contents(cqueue_init(mem)) \in Seq(Bytes) /\ Len(Contents(cqueue_init(mem))) = 0
  BY <1>1, <1>2, LenContents
<1> QED BY <1>1, <1>2, <1>3, EmptySeq

\* What the line carries is a byte.
LEMMA CarriedByte ==
  ASSUME NEW t, NEW u, Hooked(t, u)
  PROVE  OnWire(t, u) \in Bytes
<1>1. /\ t.bit_counter \in 0 .. (DataBits - 1) /\ t.current_byte \in Bytes /\ u.shreg \in Bytes
  BY HookTypes DEF Hooked
<1>2. ASSUME NEW j \in 1 .. DataBits, j > t.bit_counter
      PROVE  t.current_byte[j - t.bit_counter] \in WireBits
  <2>1. j - t.bit_counter \in 1 .. DataBits
    BY <1>1, <1>2
  <2> QED BY <1>1, <2>1 DEF Bytes
<1>3. \A j \in 1 .. DataBits : u.shreg[j] \in WireBits
  BY <1>1 DEF Bytes
<1> QED BY <1>2, <1>3 DEF OnWire, Bytes

\* The host starts with nothing received and nothing printed.
LEMMA HostInitially == ConsoleInit => HostInv
<1> SUFFICES ASSUME ConsoleInit PROVE HostInv
  OBVIOUS
<1>1. /\ session \in Sessions /\ host = [call |-> 1, i |-> 0, at |-> "drain"]
      /\ tx = TxReset /\ uartRx = RxInit /\ got = <<>> /\ written = <<>>
      /\ recv_queue = cqueue_init(EmptyMem) /\ prog = "out"
  BY DEF ConsoleInit, ConsoleStart
<1>2. EmptyMem \in [Slots -> Bytes]
  BY ZerosByte DEF EmptyMem
<1>3. recv_queue \in Queues(Bytes) /\ Contents(recv_queue) = <<>>
  BY <1>1, <1>2, EmptyQueue
<1>4. tx \in Txs /\ tx.state = "IDLE" /\ tx.fifo = <<>>
  BY <1>1, ZerosByte DEF TxReset, Txs
<1>5. Hooked(tx, uartRx) /\ ~Carries(tx)
  BY <1>1, <1>4, RxInitIs DEF Hooked, Carries, URxIs
<1>6. Arrived = <<>>
  BY <1>1, <1>3 DEF Arrived
<1>7. NothingMissing
  BY <1>1, <1>4, <1>5, <1>6 DEF NothingMissing
<1>8. HostTypes
  <2>1. Len(session.calls) \in Nat
    BY <1>1, CallTypes
  <2>2. host \in [call : 1 .. (Len(session.calls) + 1), i : Nat, at : {"drain", "clock"}]
    BY <1>1, <2>1
  <2> QED BY <1>1, <1>3, <1>4, <2>2 DEF HostTypes
<1> QED BY <1>5, <1>7, <1>8 DEF HostInv

\* What a tick does to the receiving side of the simulation.
LEMMA TickReceives ==
  ASSUME ClockTick
  PROVE  LET v == uart_tx_o(tx')
             ends == uart_rx_ends(uartRx, v)
             keeps == ThisCall.op # "recv"
         IN  /\ host.at = "clock" /\ ~gotFinish /\ host.i # Wanted
             /\ tx' = TxClock(tx) /\ uartRx' = uart_rx_protocol(uartRx, v)
             /\ recv_queue' = IF ends /\ keeps THEN cqueue_enq(recv_queue, uartRx.shreg)
                                               ELSE recv_queue
             /\ got' = IF ends /\ ~keeps THEN Append(got, uartRx.shreg) ELSE got
             /\ (ends /\ keeps /\ cqueue_full(recv_queue)) => "recv_queue" \in lost'
             /\ "recv_queue" \in lost => "recv_queue" \in lost'
             /\ written' = written /\ session' = session /\ prog' = prog
             /\ host' \in {host, [host EXCEPT !.i = host.i + 1]}
             /\ (host' # host /\ ~keeps) => ends
BY DEF ClockTick

\* A cycle of the clock keeps the bytes of the host in order.
LEMMA TickKeepsHost ==
  ASSUME HostInv, ClockTick
  PROVE  HostInv'
<1> DEFINE v == uart_tx_o(tx')
           ends == uart_rx_ends(uartRx, v)
           keeps == ThisCall.op # "recv"
           w == OnWire(tx, uartRx)
           c == Contents(recv_queue)
<1>1. /\ tx' = TxClock(tx) /\ uartRx' = uart_rx_protocol(uartRx, v)
      /\ recv_queue' = IF ends /\ keeps THEN cqueue_enq(recv_queue, uartRx.shreg) ELSE recv_queue
      /\ got' = IF ends /\ ~keeps THEN Append(got, uartRx.shreg) ELSE got
      /\ (ends /\ keeps /\ cqueue_full(recv_queue)) => "recv_queue" \in lost'
      /\ "recv_queue" \in lost => "recv_queue" \in lost'
      /\ written' = written /\ session' = session /\ prog' = prog
      /\ host.at = "clock" /\ host.i # Wanted
      /\ host' \in {host, [host EXCEPT !.i = host.i + 1]}
  BY TickReceives
<1>2. Moved(tx, uartRx, tx', uartRx', ends)
  BY <1>1, HookStep DEF HostInv
<1>3. Hooked(tx, uartRx) /\ HostTypes /\ NothingMissing
  BY DEF HostInv
<1>4. /\ tx \in Txs /\ uartRx \in URxs /\ tx.fifo \in Seq(Bytes) /\ uartRx.shreg \in Bytes
      /\ w \in Bytes /\ tx' \in Txs /\ tx'.fifo \in Seq(Bytes)
  BY <1>2, <1>3, HookTypes, CarriedByte DEF Hooked, Moved
<1>5. c \in Seq(Bytes) /\ got \in Seq(Bytes) /\ Arrived \in Seq(Bytes) /\ Arrived = got \o c
  BY <1>3, LenContents, ConcatProperties DEF HostTypes, Arrived
<1>6. Len(tx'.fifo) <= FifoDepth
  BY <1>1, <1>3, <1>4, TxTypes DEF HostTypes, Hooked
<1>7. ~keeps => cqueue_empty(recv_queue)
  BY <1>1, <1>3 DEF HostTypes
<1>8. recv_queue' \in Queues(Bytes) /\ got' \in Seq(Bytes)
  <2>1. cqueue_enq(recv_queue, uartRx.shreg) \in Queues(Bytes)
    BY <1>3, <1>4, EnqAppends DEF cqueue_enq, HostTypes
  <2> HIDE DEF ends, keeps
  <2> QED BY <1>1, <1>3, <1>4, <2>1, AppendProperties DEF HostTypes
<1>9. ASSUME "recv_queue" \notin lost'
      PROVE  Arrived' = IF ends THEN Append(Arrived, uartRx.shreg) ELSE Arrived
  <2>1. CASE ends /\ keeps
    <3>1. ~cqueue_full(recv_queue) /\ got' = got
          /\ recv_queue' = cqueue_enq(recv_queue, uartRx.shreg)
      BY <1>1, <1>9, <2>1
    <3>2. Contents(recv_queue') = Append(c, uartRx.shreg)
      BY <1>3, <1>4, <3>1, EnqAppends DEF HostTypes
    <3>3. got \o Append(c, uartRx.shreg) = Append(got \o c, uartRx.shreg)
      BY <1>4, <1>5, AppendLast
    <3> QED BY <1>5, <2>1, <3>1, <3>2, <3>3 DEF Arrived
  <2>2. CASE ends /\ ~keeps
    <3>1. recv_queue' = recv_queue /\ got' = Append(got, uartRx.shreg)
      BY <1>1, <2>2
    <3>2. c = <<>>
      BY <1>3, <1>5, <1>7, <2>2, LenContents, LengthBound, EmptySeq DEF HostTypes
    <3>3. Arrived = got
      BY <1>5, <3>2, ConcatEmptySeq
    <3>4. Append(got, uartRx.shreg) \o <<>> = Append(got, uartRx.shreg)
      BY <1>4, <1>5, AppendProperties, ConcatEmptySeq
    <3> QED BY <2>2, <3>1, <3>2, <3>3, <3>4 DEF Arrived
  <2>3. CASE ~ends
    <3>1. recv_queue' = recv_queue /\ got' = got
      BY <1>1, <2>3
    <3> QED BY <2>3, <3>1 DEF Arrived
  <2> QED BY <2>1, <2>2, <2>3
<1> HIDE DEF ends, c, w
<1>10. NothingMissing'
  <2> SUFFICES ASSUME "recv_queue" \notin lost'
               PROVE  written = (IF Carries(tx') THEN Append(Arrived', OnWire(tx', uartRx'))
                                                 ELSE Arrived') \o tx'.fifo
    BY <1>1 DEF NothingMissing
  <2>1. written = (IF Carries(tx) THEN Append(Arrived, w) ELSE Arrived) \o tx.fifo
    BY <1>1, <1>3 DEF NothingMissing, w
  <2>2. CASE ends
    BY <1>2, <1>9, <2>1, <2>2 DEF Moved, w
  <2>3. CASE ~ends /\ Carries(tx)
    BY <1>2, <1>9, <2>1, <2>3 DEF Moved, w
  <2>4. CASE ~ends /\ ~Carries(tx) /\ Carries(tx')
    <3>1. tx.fifo # <<>> /\ OnWire(tx', uartRx') = Head(tx.fifo) /\ tx'.fifo = Tail(tx.fifo)
      BY <1>2, <2>4 DEF Moved
    <3>2. Append(Arrived, Head(tx.fifo)) \o Tail(tx.fifo) = Arrived \o tx.fifo
      BY <1>4, <1>5, <3>1, MoveHead
    <3> QED BY <1>9, <2>1, <2>4, <3>1, <3>2
  <2>5. CASE ~ends /\ ~Carries(tx) /\ ~Carries(tx')
    BY <1>2, <1>9, <2>1, <2>5 DEF Moved
  <2> QED BY <2>2, <2>3, <2>4, <2>5
<1>11. HostTypes'
  <2>0. /\ host' \in [call : 1 .. (Len(session.calls) + 1), i : Nat, at : {"drain", "clock"}]
        /\ host'.call = host.call
    <3> DEFINE i == host.i + 1
    <3>1. host.i \in Nat /\ i \in Nat
      BY <1>3 DEF HostTypes
    <3> HIDE DEF i
    <3>2. [host EXCEPT !.i = i] \in [call : 1 .. (Len(session.calls) + 1), i : Nat,
                                     at : {"drain", "clock"}]
          /\ [host EXCEPT !.i = i].call = host.call
      BY <1>3, <3>1 DEF HostTypes
    <3> QED BY <1>1, <1>3, <3>2 DEF HostTypes, i
  <2>1. (host'.at = "clock" /\ ThisCall'.op = "recv") => cqueue_empty(recv_queue')
    <3>1. ThisCall' = ThisCall
      BY <1>1, <2>0 DEF ThisCall, Returned
    <3> QED BY <1>1, <1>7, <3>1
  <2>2. prog' = "put" => ~tx_fifo_full(tx') /\ Len(written') < Len(session'.out)
    <3> SUFFICES ASSUME prog = "put" PROVE ~tx_fifo_full(tx')
      BY <1>1, <1>3 DEF HostTypes
    <3>1. Len(tx.fifo) # FifoDepth /\ Len(tx.fifo) <= FifoDepth /\ Len(tx.fifo) \in Nat
      BY <1>3, <1>4, LenProperties DEF HostTypes, tx_fifo_full
    <3>2. tx'.fifo = tx.fifo \/ (tx.fifo # <<>> /\ tx'.fifo = Tail(tx.fifo))
      BY <1>2 DEF Moved
    <3>3. tx.fifo # <<>> => Len(Tail(tx.fifo)) = Len(tx.fifo) - 1
      BY <1>4, HeadTailProperties
    <3>4. Len(tx'.fifo) # FifoDepth
      <4>1. CASE tx'.fifo = tx.fifo
        BY <3>1, <4>1
      <4>2. CASE tx.fifo # <<>> /\ tx'.fifo = Tail(tx.fifo)
        <5>1. Len(tx'.fifo) = Len(tx.fifo) - 1
          BY <3>3, <4>2
        <5> QED BY <3>1, <5>1
      <4> QED BY <3>2, <4>1, <4>2
    <3> QED BY <3>4 DEF tx_fifo_full
  <2> QED BY <2>0, <1>1, <1>3, <1>6, <1>8, <2>1, <2>2 DEF HostTypes
<1> QED BY <1>2, <1>10, <1>11 DEF HostInv, Moved

\* Draining the queue hands on its first byte.
LEMMA DrainKeepsHost ==
  ASSUME HostInv, Drain
  PROVE  HostInv'
<1> DEFINE c == Contents(recv_queue)
<1>1. /\ ~cqueue_empty(recv_queue) /\ host.at = "drain"
      /\ got' = Append(got, FirstOf(recv_queue)) /\ recv_queue' = cqueue_deq(recv_queue)
      /\ host' = [host EXCEPT !.i = host.i + 1]
      /\ UNCHANGED <<session, tx, uartRx, prog, written, lost>>
  BY DEF Drain
<1>2. HostTypes /\ Hooked(tx, uartRx) /\ NothingMissing
  BY DEF HostInv
<1>3. recv_queue \in Queues(Bytes) /\ got \in Seq(Bytes)
  BY <1>2 DEF HostTypes
<1>4. /\ recv_queue' \in Queues(Bytes) /\ c # <<>> /\ FirstOf(recv_queue) = Head(c)
      /\ Contents(recv_queue') = Tail(c) /\ c \in Seq(Bytes)
  BY <1>1, <1>3, DeqTakesFirst, LenContents
<1>5. got' \in Seq(Bytes)
  BY <1>1, <1>3, <1>4, AppendProperties, HeadTailProperties
<1>6. Arrived' = Arrived
  BY <1>1, <1>3, <1>4, MoveHead DEF Arrived
<1>7. host' \in [call : 1 .. (Len(session.calls) + 1), i : Nat, at : {"drain", "clock"}]
      /\ host'.at = "drain"
  <2> DEFINE i == host.i + 1
  <2>1. host.i \in Nat /\ i \in Nat
    BY <1>2 DEF HostTypes
  <2> HIDE DEF i
  <2>2. [host EXCEPT !.i = i] \in [call : 1 .. (Len(session.calls) + 1), i : Nat,
                                   at : {"drain", "clock"}]
        /\ [host EXCEPT !.i = i].at = host.at
    BY <1>2, <2>1 DEF HostTypes
  <2> QED BY <1>1, <2>2 DEF i
<1>8. HostTypes'
  BY <1>1, <1>2, <1>4, <1>5, <1>7 DEF HostTypes
<1>9. NothingMissing'
  BY <1>1, <1>2, <1>6 DEF NothingMissing
<1> QED BY <1>1, <1>2, <1>8, <1>9 DEF HostInv

\* The driver writes to a FIFO that is not full.
LEMMA WriteKeepsHost ==
  ASSUME HostInv, OutWrite
  PROVE  HostInv'
<1> DEFINE b == session.out[Len(written) + 1]
           s == IF Carries(tx) THEN Append(Arrived, OnWire(tx, uartRx)) ELSE Arrived
<1>1. /\ prog = "put" /\ tx' = TxWrite(tx, b) /\ written' = Append(written, b) /\ prog' = "out"
      /\ UNCHANGED <<session, uartRx, got, recv_queue, host, lost>>
  BY DEF OutWrite, simVars, hostVars
<1>2. HostTypes /\ Hooked(tx, uartRx) /\ NothingMissing
  BY DEF HostInv
<1>3. /\ session \in Sessions /\ written \in Seq(Bytes) /\ got \in Seq(Bytes)
      /\ recv_queue \in Queues(Bytes) /\ ~tx_fifo_full(tx) /\ Len(written) < Len(session.out)
      /\ Len(tx.fifo) <= FifoDepth
  BY <1>1, <1>2 DEF HostTypes
<1>4. b \in Bytes
  <2>1. session.out \in Seq(Bytes)
    BY <1>3, ConsoleParameters
  <2>2. Len(written) + 1 \in 1 .. Len(session.out)
    BY <1>3, <2>1, LenProperties
  <2> QED BY <2>1, <2>2, ElementOfSeq
<1>5. tx.fifo \in Seq(Bytes) /\ Arrived \in Seq(Bytes) /\ OnWire(tx, uartRx) \in Bytes
  BY <1>2, <1>3, HookTypes, CarriedByte, LenContents, ConcatProperties DEF Hooked, Arrived
<1>6. s \in Seq(Bytes)
  BY <1>5, AppendProperties
<1> HIDE DEF b
<1>7. /\ Hooked(tx', uartRx) /\ Carries(tx') = Carries(tx) 
      /\ OnWire(tx', uartRx) = OnWire(tx, uartRx) /\ tx'.fifo = Append(tx.fifo, b)
  BY <1>1, <1>2, <1>3, <1>4, HookWrite
<1>8. written' \in Seq(Bytes)
  BY <1>1, <1>3, <1>4, AppendProperties
<1>9. Len(tx'.fifo) <= FifoDepth
  <2>1. Len(tx.fifo) \in Nat /\ Len(tx.fifo) # FifoDepth /\ Len(Append(tx.fifo, b)) = Len(tx.fifo) + 1
    BY <1>3, <1>4, <1>5, AppendProperties, LenProperties DEF tx_fifo_full
  <2> QED BY <1>3, <1>7, <2>1
<1>10. HostTypes'
  <2>1. ThisCall' = ThisCall /\ Wanted' = Wanted
    BY <1>1 DEF ThisCall, Wanted, Returned
  <2> QED BY <1>1, <1>2, <1>8, <1>9, <2>1 DEF HostTypes
<1>11. NothingMissing'
  <2> SUFFICES ASSUME "recv_queue" \notin lost' PROVE written' = s \o tx'.fifo
    BY <1>1, <1>7 DEF NothingMissing, Arrived
  <2>1. written = s \o tx.fifo
    BY <1>1, <1>2 DEF NothingMissing
  <2> HIDE DEF s
  <2>2. s \o Append(tx.fifo, b) = Append(s \o tx.fifo, b)
    BY <1>4, <1>5, <1>6, AppendLast
  <2> QED BY <1>1, <1>7, <2>1, <2>2
<1> QED BY <1>1, <1>7, <1>10, <1>11 DEF HostInv

\* The calls of the simulation follow each other.
LEMMA CallsKeepHost ==
  ASSUME HostInv, Drained \/ NextCall
  PROVE  HostInv'
<1>1. UNCHANGED <<session, tx, uartRx, got, recv_queue, written, lost, prog>>
  BY DEF Drained, NextCall
<1>2. HostTypes /\ Hooked(tx, uartRx) /\ NothingMissing
  BY DEF HostInv
<1>3. host \in [call : 1 .. (Len(session.calls) + 1), i : Nat, at : {"drain", "clock"}]
      /\ Len(session.calls) \in Nat
  BY <1>2, CallTypes DEF HostTypes
<1>4. CASE Drained
  <2>1. /\ host' = [host EXCEPT !.at = "clock"]
        /\ ThisCall.op = "recv" => cqueue_empty(recv_queue) \/ host.i = Wanted
    BY <1>4 DEF Drained
  <2>2. host' \in [call : 1 .. (Len(session.calls) + 1), i : Nat, at : {"drain", "clock"}]
        /\ host'.call = host.call /\ host'.i = host.i
    BY <1>3, <2>1
  <2>3. ThisCall' = ThisCall /\ Wanted' = Wanted
    BY <1>1, <2>2 DEF ThisCall, Wanted, Returned
  <2>4. HostTypes'
    BY <1>1, <1>2, <2>1, <2>2, <2>3 DEF HostTypes
  <2> QED BY <1>1, <1>2, <2>4 DEF HostInv, NothingMissing, Arrived
<1>5. CASE NextCall
  <2> DEFINE n == host.call + 1
  <2>1. host' = [call |-> n, i |-> 0, at |-> "drain"] /\ ~(host.call > Len(session.calls))
    BY <1>5 DEF NextCall, Returned
  <2>2. n \in 1 .. (Len(session.calls) + 1)
    BY <1>3, <2>1
  <2> HIDE DEF n
  <2>3. host' \in [call : 1 .. (Len(session.calls) + 1), i : Nat, at : {"drain", "clock"}]
        /\ host'.at = "drain"
    BY <2>1, <2>2
  <2>4. HostTypes'
    BY <1>1, <1>2, <2>3 DEF HostTypes
  <2> QED BY <1>1, <1>2, <2>4 DEF HostInv, NothingMissing, Arrived
<1> QED BY <1>4, <1>5

\* What the program does next, by the way it reads.
LEMMA ReceivingIs ==
  ASSUME session \in Sessions
  PROVE  /\ session.reader \in {"callback", "stream", "getchar"}
         /\ Receiving = IF session.reader = "callback" THEN "halt"
                        ELSE IF session.reader = "stream" THEN "mask" ELSE "poll"
BY ConsoleParameters DEF Receiving

\* All else leaves this direction alone.
LEMMA OthersKeepHost ==
  ASSUME HostInv, UNCHANGED <<session, tx, uartRx, got, recv_queue, host, written>>,
         "recv_queue" \in lost => "recv_queue" \in lost',
         prog' = "put" => prog = "put" \/ (~tx_fifo_full(tx) /\ Len(written) < Len(session.out))
  PROVE  HostInv'
<1>1. ThisCall' = ThisCall /\ Wanted' = Wanted
  BY DEF ThisCall, Wanted, Returned
<1> QED BY <1>1 DEF HostInv, HostTypes, NothingMissing, Arrived

\* Every step keeps the bytes of the host in order.
LEMMA HostStep == HostInv /\ [ConsoleNext]_consoleVars => HostInv'
<1> SUFFICES ASSUME HostInv, [ConsoleNext]_consoleVars PROVE HostInv'
  OBVIOUS
<1> DEFINE Same == UNCHANGED <<session, tx, uartRx, got, recv_queue, host, written>>
           Puts == prog' = "put" =>
                     prog = "put" \/ (~tx_fifo_full(tx) /\ Len(written) < Len(session.out))
<1>1. CASE OutPoll
  <2>1. Same /\ lost' = lost /\ Puts
    BY <1>1 DEF OutPoll, simVars, hostVars
  <2> QED BY <2>1, OthersKeepHost
<1>2. CASE OutDone
  <2>1. Same /\ lost' = lost /\ Puts
    BY <1>2, ReceivingIs DEF OutDone, simVars, hostVars, HostInv, HostTypes
  <2> QED BY <2>1, OthersKeepHost
<1>3. CASE InPoll \/ InTake \/ Mask \/ RcvEmpty \/ RcvTake \/ RcvCompare \/ RcvEmptyHead
           \/ RcvEmptyTail \/ RcvAdvance \/ RcvLoad \/ RcvStore \/ Unmask
  <2>1. Same /\ lost' = lost /\ Puts
    BY <1>3 DEF InPoll, InTake, Mask, RcvEmpty, RcvTake, RcvCompare, RcvEmptyHead, RcvEmptyTail,
       RcvAdvance, RcvLoad, RcvStore, Unmask, simVars, hostVars, streamVars
  <2> QED BY <2>1, OthersKeepHost
<1>4. CASE MoreToCome \/ sim_halt
  <2>1. Same /\ lost' = lost /\ Puts
    BY <1>4, ReceivingIs DEF MoreToCome, sim_halt, simVars, hostVars, HostInv, HostTypes
  <2> QED BY <2>1, OthersKeepHost
<1>5. CASE uart_irq_handler
  <2>1. Same /\ prog' = prog /\ ("recv_queue" \in lost => "recv_queue" \in lost')
    BY <1>5 DEF uart_irq_handler, Irq, IrqDeliver, simVars, hostVars
  <2> QED BY <2>1, OthersKeepHost
<1>6. CASE ConsoleOver \/ UNCHANGED consoleVars
  <2>1. Same /\ prog' = prog /\ lost' = lost
    BY <1>6 DEF ConsoleOver, consoleVars, hostVars
  <2> QED BY <2>1, OthersKeepHost
<1> QED
  BY <1>1, <1>2, <1>3, <1>4, <1>5, <1>6, TickKeepsHost, DrainKeepsHost, WriteKeepsHost,
     CallsKeepHost DEF ConsoleNext, Simulation, Program

\* The invariant of the host says what the run checks of it.
LEMMA HostHolds == HostInv => HostReceives
<1> SUFFICES ASSUME HostInv, "recv_queue" \notin lost PROVE IsPrefix(Arrived, written)
  BY DEF HostReceives, Arrived
<1>1. HostTypes /\ Hooked(tx, uartRx) /\ NothingMissing
  BY DEF HostInv
<1>2. tx.fifo \in Seq(Bytes) /\ Arrived \in Seq(Bytes) /\ OnWire(tx, uartRx) \in Bytes
      /\ written \in Seq(Bytes)
  BY <1>1, HookTypes, CarriedByte, LenContents, ConcatProperties DEF Hooked, Arrived, HostTypes
<1> DEFINE w == OnWire(tx, uartRx)
           a == Append(Arrived, w)
<1>3. CASE Carries(tx)
  <2>0. w \in Bytes
    BY <1>2
  <2>1. /\ written = a \o tx.fifo /\ a = Arrived \o <<w>> /\ a \in Seq(Bytes)
        /\ <<w>> \in Seq(Bytes)
    <3>1. written = a \o tx.fifo
      BY <1>1, <1>3 DEF NothingMissing
    <3> HIDE DEF w
    <3>2. a = Arrived \o <<w>> /\ a \in Seq(Bytes)
      BY <1>2, <2>0, AppendIsConcat, AppendProperties
    <3>3. <<w>> \in Seq(Bytes)
      BY <2>0
    <3> QED BY <3>1, <3>2, <3>3
  <2>2. IsPrefix(written, written)
    BY <1>2, Prefix, LenProperties
  <2> HIDE DEF a, w
  <2>3. IsPrefix(a, written)
    BY <1>2, <2>1, <2>2, PrefixShrinks
  <2> QED BY <1>2, <2>1, <2>3, PrefixShrinks
<1>4. CASE ~Carries(tx)
  <2>1. written = Arrived \o tx.fifo
    BY <1>1, <1>4 DEF NothingMissing
  <2>2. IsPrefix(written, written)
    BY <1>2, Prefix, LenProperties
  <2> QED BY <1>2, <2>1, <2>2, PrefixShrinks
<1> QED BY <1>3, <1>4

-----------------------------------------------------------------------------
(* The receiver of the SoC, one cycle.                                     *)

RxIs(u, state, bits, byte, baud, q, fifo) ==
  /\ u \in Rxs
  /\ u.state = state /\ u.bit_counter = bits /\ u.current_byte = byte /\ u.baud_counter = baud
  /\ u.q = q /\ u.fifo = fifo

\* A receiver whose registers are all assigned holds what they are assigned.
LEMMA RxMade ==
  ASSUME NEW r \in Rxs,
         NEW s \in {"IDLE", "START", "PROC", "STOP"}, NEW c \in 0 .. (DataBits - 1),
         NEW y \in Bytes, NEW b \in 0 .. (ClocksPerBaud - 1), NEW q \in [1 .. 3 -> WireBits],
         NEW f \in Seq(Bytes),
         NEW u, u = [r EXCEPT !.state = s, !.bit_counter = c, !.current_byte = y,
                              !.baud_counter = b, !.q = q, !.fifo = f]
  PROVE  RxIs(u, s, c, y, b, q, f)
<1>1. u = [state |-> s, bit_counter |-> c, current_byte |-> y, baud_counter |-> b, q |-> q,
           fifo |-> f]
  BY DEF Rxs
<1>2. u \in Rxs
  BY <1>1 DEF Rxs
<1> QED BY <1>1, <1>2 DEF RxIs

\* What the state machine goes to, its bit counter and its byte.
RxState(r) ==
  CASE r.state = "IDLE" -> IF rx_start(r) THEN "START" ELSE "IDLE"
    [] r.state = "START" -> IF r.q[3] = 0 THEN "PROC" ELSE "IDLE"
    [] r.state = "PROC" -> IF r.bit_counter = DataBits - 1 THEN "STOP" ELSE "PROC"
    [] r.state = "STOP" -> "IDLE"

RxBits(r) ==
  IF r.state = "START" THEN 0
  ELSE IF r.state = "PROC" /\ r.bit_counter # DataBits - 1 THEN r.bit_counter + 1
  ELSE r.bit_counter

RxByte(r) ==
  IF r.state = "START" THEN Zeros
  ELSE IF r.state = "PROC" THEN Append(Tail(r.current_byte), r.q[3]) ELSE r.current_byte

RxFifo(r) == IF RxDone(r) /\ ~RxLost(r) THEN Append(r.fifo, r.current_byte) ELSE r.fifo

\* The registers of the receiver and the values they take next.
LEMMA RxParts ==
  ASSUME NEW r \in Rxs
  PROVE  /\ r.state \in {"IDLE", "START", "PROC", "STOP"} /\ r.bit_counter \in 0 .. (DataBits - 1)
         /\ r.current_byte \in Bytes /\ r.baud_counter \in 0 .. (ClocksPerBaud - 1)
         /\ r.q \in [1 .. 3 -> WireBits] /\ r.fifo \in Seq(Bytes)
         /\ RxState(r) \in {"IDLE", "START", "PROC", "STOP"}
         /\ RxBits(r) \in 0 .. (DataBits - 1) /\ RxByte(r) \in Bytes
         /\ rx_baud_counter_d(r) \in 0 .. (ClocksPerBaud - 1) /\ RxFifo(r) \in Seq(Bytes)
<1>1. /\ r.state \in {"IDLE", "START", "PROC", "STOP"} /\ r.bit_counter \in 0 .. (DataBits - 1)
      /\ r.current_byte \in Bytes /\ r.baud_counter \in 0 .. (ClocksPerBaud - 1)
      /\ r.q \in [1 .. 3 -> WireBits] /\ r.fifo \in Seq(Bytes)
  BY DEF Rxs
<1>2. RxState(r) \in {"IDLE", "START", "PROC", "STOP"}
  BY <1>1 DEF RxState
<1>3. RxBits(r) \in 0 .. (DataBits - 1)
  BY <1>1 DEF RxBits
<1>4. RxByte(r) \in Bytes
  <2>1. r.q[3] \in WireBits
    BY <1>1
  <2>2. Append(Tail(r.current_byte), r.q[3]) \in Bytes
    BY <1>1, <2>1, Shifted
  <2> QED BY <1>1, <2>2, ZerosByte DEF RxByte
<1>5. rx_baud_counter_d(r) \in 0 .. (ClocksPerBaud - 1)
  BY <1>1, HalfBaud DEF rx_baud_counter_d, rx_baud_tick
<1>6. RxFifo(r) \in Seq(Bytes)
  BY <1>1, AppendProperties DEF RxFifo
<1> QED BY <1>1, <1>2, <1>3, <1>4, <1>5, <1>6

\* One cycle of the SoC's receiver: on an event of its state, or between them.
LEMMA RxTick ==
  ASSUME NEW r \in Rxs, NEW x \in WireBits
  PROVE  /\ (rx_start(r) \/ rx_baud_tick(r))
              => RxIs(RxClock(r, x), RxState(r), RxBits(r), RxByte(r), rx_baud_counter_d(r),
                      <<x, r.q[1], r.q[2]>>, RxFifo(r))
         /\ ~(rx_start(r) \/ rx_baud_tick(r))
              => RxIs(RxClock(r, x), r.state, r.bit_counter, r.current_byte, r.baud_counter + 1,
                      <<x, r.q[1], r.q[2]>>, r.fifo)
<1> DEFINE q == <<x, r.q[1], r.q[2]>>
           s == RxState(r)
           c == RxBits(r)
           y == RxByte(r)
           b == rx_baud_counter_d(r)
           f == RxFifo(r)
<1>1. /\ r.state \in {"IDLE", "START", "PROC", "STOP"} /\ r.bit_counter \in 0 .. (DataBits - 1)
      /\ r.current_byte \in Bytes /\ r.fifo \in Seq(Bytes)
      /\ s \in {"IDLE", "START", "PROC", "STOP"} /\ c \in 0 .. (DataBits - 1) /\ y \in Bytes
      /\ b \in 0 .. (ClocksPerBaud - 1) /\ f \in Seq(Bytes)
  BY RxParts
<1>2. q \in [1 .. 3 -> WireBits]
  <2>1. r.q[1] \in WireBits /\ r.q[2] \in WireBits
    BY RxParts
  <2> QED BY <2>1
<1>3. CASE rx_start(r) \/ rx_baud_tick(r)
  <2> DEFINE Next2(m) == [m EXCEPT !.baud_counter = b, !.q = q, !.fifo = f]
  <2>1. RxClock(r, x) = [r EXCEPT !.state = s, !.bit_counter = c, !.current_byte = y,
                                  !.baud_counter = b, !.q = q, !.fifo = f]
    <3> HIDE DEF b, q
    <3>1. CASE r.state = "IDLE"
      <4>1. s = (IF rx_start(r) THEN "START" ELSE "IDLE") /\ c = r.bit_counter
            /\ y = r.current_byte
        BY <3>1 DEF RxState, RxBits, RxByte
      <4> HIDE DEF s, c, y
      <4> QED BY <1>3, <3>1, <4>1 DEF RxClock, Rxs, b, q, RxFifo
    <3>2. CASE r.state = "START"
      <4>1. s = (IF r.q[3] = 0 THEN "PROC" ELSE "IDLE") /\ c = 0 /\ y = Zeros
        BY <3>2 DEF RxState, RxBits, RxByte
      <4> HIDE DEF s, c, y
      <4> QED BY <1>3, <3>2, <4>1 DEF RxClock, Rxs, b, q, RxFifo
    <3>3. CASE r.state = "PROC"
      <4>1. /\ s = (IF r.bit_counter = DataBits - 1 THEN "STOP" ELSE "PROC")
            /\ c = (IF r.bit_counter = DataBits - 1 THEN r.bit_counter ELSE r.bit_counter + 1)
            /\ y = Append(Tail(r.current_byte), r.q[3])
        BY <3>3 DEF RxState, RxBits, RxByte
      <4> HIDE DEF s, c, y
      <4> QED BY <1>3, <3>3, <4>1 DEF RxClock, Rxs, b, q, RxFifo
    <3>4. CASE r.state = "STOP"
      <4>1. s = "IDLE" /\ c = r.bit_counter /\ y = r.current_byte
        BY <3>4 DEF RxState, RxBits, RxByte
      <4> HIDE DEF s, c, y
      <4> QED BY <1>3, <3>4, <4>1 DEF RxClock, Rxs, b, q, RxFifo
    <3> QED BY <1>1, <3>1, <3>2, <3>3, <3>4
  <2> HIDE DEF s, c, y, b, q, f
  <2>2. RxIs(RxClock(r, x), s, c, y, b, q, f)
    BY <1>1, <1>2, <2>1, RxMade
  <2> QED BY <1>3, <2>2 DEF s, c, y, b, q, f
<1>4. CASE ~(rx_start(r) \/ rx_baud_tick(r))
  <2> DEFINE n == r.baud_counter + 1
  <2>0. b = n
    BY <1>4 DEF rx_baud_counter_d
  <2>1. RxClock(r, x) = [r EXCEPT !.state = r.state, !.bit_counter = r.bit_counter,
                                  !.current_byte = r.current_byte,
                                  !.baud_counter = b, !.q = q, !.fifo = r.fifo]
    <3>1. ~RxDone(r)
      BY <1>4 DEF RxDone
    <3> HIDE DEF b, q
    <3> QED BY <1>4, <3>1 DEF RxClock, Rxs, b, q
  <2> HIDE DEF b, q
  <2>2. RxIs(RxClock(r, x), r.state, r.bit_counter, r.current_byte, b, q, r.fifo)
    BY <1>1, <1>2, <2>1, RxMade
  <2> QED BY <1>4, <2>0, <2>2 DEF q
<1> QED BY <1>3, <1>4

\* A read takes the first byte and leaves the rest of the receiver.
LEMMA RxReadIs ==
  ASSUME NEW r \in Rxs, r.fifo # <<>>
  PROVE  /\ RxFront(r) = Head(r.fifo) /\ Head(r.fifo) \in Bytes
         /\ RxIs(RxRead(r), r.state, r.bit_counter, r.current_byte, r.baud_counter, r.q,
                 Tail(r.fifo))
<1> DEFINE f == Tail(r.fifo)
<1>1. r.fifo \in Seq(Bytes)
  BY RxParts
<1>2. Head(r.fifo) \in Bytes /\ f \in Seq(Bytes)
  BY <1>1, HeadTailProperties
<1>3. RxRead(r) = [r EXCEPT !.state = r.state, !.bit_counter = r.bit_counter,
                            !.current_byte = r.current_byte, !.baud_counter = r.baud_counter,
                            !.q = r.q, !.fifo = f]
  BY DEF RxRead, Rxs
<1> HIDE DEF f
<1>4. RxIs(RxRead(r), r.state, r.bit_counter, r.current_byte, r.baud_counter, r.q, f)
  BY <1>2, <1>3, RxParts, RxMade
<1> QED BY <1>2, <1>4 DEF f, RxFront

-----------------------------------------------------------------------------
(* The emulated transmitter, one cycle.                                    *)

UTxIs(u, state, baud, shreg, bits) ==
  /\ u \in UTxs
  /\ u.state = state /\ u.baud_cnt = baud /\ u.shreg = shreg /\ u.bits_sent = bits

\* What is sent: the byte in the register, or the one that is given now.
Register(u, byte) == IF u.state = "TX_IDLE" THEN byte ELSE u.shreg

Ones == [i \in 1 .. DataBits |-> 1]

\* One cycle of the emulated transmitter, by cases.
LEMMA SenderTick ==
  ASSUME NEW u \in UTxs, NEW byte \in Bytes, NEW start \in BOOLEAN
  PROVE  LET v == uart_tx_protocol(u, byte, start)
         IN  /\ uart_tx_idle(u, start) => v = u
             /\ uart_tx_ends(u, start) => UTxIs(v, "TX_IDLE", 0, Ones, 0)
             /\ (~uart_tx_idle(u, start) /\ ~uart_tx_ends(u, start) /\ u.baud_cnt = ClocksPerBaud - 1)
                  => UTxIs(v, "TX_ONGOING", 0, Register(u, byte), (u.bits_sent + 1) % 256)
             /\ (~uart_tx_idle(u, start) /\ u.baud_cnt # ClocksPerBaud - 1)
                  => UTxIs(v, "TX_ONGOING", u.baud_cnt + 1, Register(u, byte), u.bits_sent)
<1> DEFINE v == uart_tx_protocol(u, byte, start)
           y == Register(u, byte)
           n == (u.bits_sent + 1) % 256
           b == u.baud_cnt + 1
<1>1. /\ u.state \in {"TX_IDLE", "TX_ONGOING"} /\ u.baud_cnt \in 0 .. (ClocksPerBaud - 1)
      /\ u.shreg \in Bytes /\ u.bits_sent \in 0 .. 255
  BY DEF UTxs
<1>2. y \in Bytes /\ n \in 0 .. 255
  BY <1>1 DEF Register
<1>3. TxBegun(u, byte) = [state |-> "TX_ONGOING", baud_cnt |-> u.baud_cnt, shreg |-> y,
                          bits_sent |-> u.bits_sent]
  BY <1>1 DEF TxBegun, UTxs, Register
<1>4. CASE uart_tx_idle(u, start)
  <2>1. v = u /\ ~uart_tx_ends(u, start)
    BY <1>4 DEF uart_tx_protocol, uart_tx_ends
  <2> QED BY <1>4, <2>1
<1>5. CASE uart_tx_ends(u, start)
  <2>1. ~uart_tx_idle(u, start) /\ u.baud_cnt = ClocksPerBaud - 1
    BY <1>1, <1>5 DEF uart_tx_ends
  <2>2. v = [state |-> "TX_IDLE", baud_cnt |-> 0, shreg |-> Ones, bits_sent |-> 0]
    BY <1>5, <2>1 DEF uart_tx_protocol, TxInit, Ones
  <2>3. Ones \in Bytes
    BY DEF Ones, Bytes, WireBits
  <2> HIDE DEF v
  <2>4. UTxIs(v, "TX_IDLE", 0, Ones, 0)
    BY <2>2, <2>3 DEF UTxIs, UTxs
  <2> QED BY <1>5, <2>1, <2>4 DEF v
<1>6. CASE ~uart_tx_idle(u, start) /\ ~uart_tx_ends(u, start) /\ u.baud_cnt = ClocksPerBaud - 1
  <2>0. u.baud_cnt + 1 >= ClocksPerBaud /\ TxBegun(u, byte).bits_sent = u.bits_sent
    BY <1>1, <1>3, <1>6
  <2>1. v = [TxBegun(u, byte) EXCEPT !.baud_cnt = 0, !.bits_sent = n]
    BY <1>6, <2>0 DEF uart_tx_protocol
  <2> DEFINE z == 0
             g == TxBegun(u, byte)
  <2>a. g \in UTxs /\ g.state = "TX_ONGOING" /\ g.shreg = y
    BY <1>1, <1>2, <1>3 DEF UTxs
  <2>b. v = [g EXCEPT !.baud_cnt = z, !.bits_sent = n]
    BY <2>1
  <2> HIDE DEF v, y, n, z, g
  <2>c. v = [state |-> g.state, baud_cnt |-> z, shreg |-> g.shreg, bits_sent |-> n]
    BY <2>a, <2>b DEF UTxs
  <2>2. v = [state |-> "TX_ONGOING", baud_cnt |-> 0, shreg |-> y, bits_sent |-> n]
    BY <2>a, <2>c DEF z
  <2>3. UTxIs(v, "TX_ONGOING", 0, y, n)
    BY <1>2, <2>2 DEF UTxIs, UTxs
  <2> QED BY <1>6, <2>3 DEF v, y, n
<1>7. CASE ~uart_tx_idle(u, start) /\ u.baud_cnt # ClocksPerBaud - 1
  <2>0. ~uart_tx_ends(u, start) /\ ~(u.baud_cnt + 1 >= ClocksPerBaud) /\ b \in 0 .. (ClocksPerBaud - 1)
    BY <1>1, <1>7 DEF uart_tx_ends
  <2>1. v = [TxBegun(u, byte) EXCEPT !.baud_cnt = u.baud_cnt + 1]
    BY <1>3, <1>7, <2>0 DEF uart_tx_protocol
  <2> HIDE DEF v, y, b
  <2>2. v = [state |-> "TX_ONGOING", baud_cnt |-> b, shreg |-> y, bits_sent |-> u.bits_sent]
    BY <1>3, <2>1 DEF b
  <2>3. UTxIs(v, "TX_ONGOING", b, y, u.bits_sent)
    BY <1>1, <1>2, <2>0, <2>2 DEF UTxIs, UTxs
  <2> QED BY <1>7, <2>0, <2>3 DEF v, y, b
<1> HIDE DEF v, y, n, b
<1>8. uart_tx_idle(u, start) => ~uart_tx_ends(u, start)
  BY DEF uart_tx_ends
<1> QED BY <1>4, <1>5, <1>6, <1>7, <1>8 DEF v, y, n, b

\* The serial line as it should be: a bit is long enough for the flops of the
\* receiver, and the bits of a byte can be counted in eight bits.
Paced == ClocksPerBaud >= 4 /\ DataBits + 2 < 256

\* The level of the line during bit b, and what it was j cycles ago.
Level(u, b) == IF b = 0 THEN 0 ELSE IF b <= DataBits THEN u.shreg[b] ELSE 1

Ago(u, j) ==
  IF u.state = "TX_IDLE" THEN 1
  ELSE IF u.baud_cnt > j THEN Level(u, u.bits_sent)
  ELSE IF u.bits_sent = 0 THEN 1 ELSE Level(u, u.bits_sent - 1)

Sender(u) ==
  /\ u \in UTxs
  /\ u.state = "TX_IDLE" => u.baud_cnt = 0 /\ u.bits_sent \notin 1 .. (DataBits + 1)

\* What the emulation put on the line is a bit.
LEMMA AgoBits ==
  ASSUME NEW u, Sender(u), NEW j \in Nat
  PROVE  Ago(u, j) \in WireBits
<1>1. u.bits_sent \in 0 .. 255 /\ \A i \in 1 .. DataBits : u.shreg[i] \in WireBits
  BY DEF Sender, UTxs, Bytes
<1>2. \A b \in 0 .. 255 : Level(u, b) \in WireBits
  BY <1>1 DEF Level, WireBits
<1>3. u.bits_sent # 0 => u.bits_sent - 1 \in 0 .. 255
  BY <1>1
<1> QED BY <1>1, <1>2, <1>3 DEF Ago, WireBits

\* The line carries what the transmitter makes of its bits, and the past of
\* the line is that of one cycle before, one cycle older.
LEMMA LineTick ==
  ASSUME Paced, NEW u, Sender(u), NEW byte \in Bytes, NEW start \in BOOLEAN
  PROVE  LET v == uart_tx_protocol(u, byte, start)
         IN  /\ Sender(v)
             /\ tx_line(u, byte, start, Ago(u, 0)) = Ago(v, 0)
             /\ \A j \in 0 .. 2 : Ago(v, j + 1) = Ago(u, j)
<1> DEFINE v == uart_tx_protocol(u, byte, start)
           w == tx_line(u, byte, start, Ago(u, 0))
           y == Register(u, byte)
<1>1. /\ u \in UTxs
      /\ u.state \in {"TX_IDLE", "TX_ONGOING"} /\ u.baud_cnt \in 0 .. (ClocksPerBaud - 1)
      /\ u.shreg \in Bytes /\ u.bits_sent \in 0 .. 255
      /\ u.state = "TX_IDLE" => u.baud_cnt = 0 /\ u.bits_sent \notin 1 .. (DataBits + 1)
  BY DEF Sender, UTxs
<1>2. ClocksPerBaud >= 4 /\ DataBits + 2 < 256
  BY DEF Paced
<1> SUFFICES Sender(v) /\ w = Ago(v, 0) /\ \A j \in 0 .. 2 : Ago(v, j + 1) = Ago(u, j)
  OBVIOUS
<1>3. CASE uart_tx_idle(u, start)
  <2>1. v = u /\ w = 1 /\ u.state = "TX_IDLE"
    BY <1>1, <1>3, SenderTick DEF tx_line, uart_tx_idle
  <2> HIDE DEF v, w
  <2> QED BY <2>1 DEF Ago
<1>4. CASE uart_tx_ends(u, start)
  <2>1. UTxIs(v, "TX_IDLE", 0, Ones, 0) /\ w = 1
    BY <1>1, <1>4, SenderTick DEF tx_line
  <2> HIDE DEF v, w
  <2>2. Sender(v) /\ \A j \in 0 .. 3 : Ago(v, j) = 1
    BY <2>1 DEF UTxIs, Sender, Ago
  <2>3. u.baud_cnt = ClocksPerBaud - 1 /\ u.state = "TX_ONGOING" /\ u.bits_sent = DataBits + 1
    <3>1. u.baud_cnt = ClocksPerBaud - 1 /\ (u.bits_sent + 1) % 256 = DataBits + 2
      BY <1>1, <1>4 DEF uart_tx_ends
    <3> QED BY <1>1, <1>2, <3>1
  <2>4. \A j \in 0 .. 2 : Ago(u, j) = 1
    BY <1>2, <2>3 DEF Ago, Level
  <2> QED BY <2>1, <2>2, <2>4
<1>5. CASE ~uart_tx_idle(u, start) /\ ~uart_tx_ends(u, start) /\ u.baud_cnt = ClocksPerBaud - 1
  <2>1. /\ u.state = "TX_ONGOING" /\ w = Ago(u, 0)
        /\ UTxIs(v, "TX_ONGOING", 0, y, (u.bits_sent + 1) % 256) /\ y = u.shreg
    <3>1. u.state = "TX_ONGOING"
      BY <1>1, <1>2, <1>5
    <3> QED BY <1>1, <1>5, <3>1, SenderTick DEF tx_line, Register
  <2> HIDE DEF v, w, y
  <2>2. v.bits_sent = IF u.bits_sent = 255 THEN 0 ELSE u.bits_sent + 1
    BY <1>1, <2>1 DEF UTxIs
  <2>3. Sender(v)
    BY <2>1 DEF UTxIs, Sender
  <2>4. \A j \in 0 .. 2 : Ago(u, j) = Level(u, u.bits_sent)
    BY <1>2, <1>5, <2>1 DEF Ago
  <2>5. v.bits_sent = 0 => Level(u, u.bits_sent) = 1
    BY <1>1, <1>2, <2>2 DEF Level
  <2>6. v.bits_sent # 0 => v.bits_sent - 1 = u.bits_sent
    BY <1>1, <2>2
  <2>7. \A j \in 0 .. 3 : Ago(v, j) = Level(u, u.bits_sent)
    BY <2>1, <2>5, <2>6 DEF Ago, UTxIs, Level
  <2> QED BY <2>1, <2>3, <2>4, <2>7
<1>6. CASE ~uart_tx_idle(u, start) /\ u.baud_cnt # ClocksPerBaud - 1
  <2>1. /\ UTxIs(v, "TX_ONGOING", u.baud_cnt + 1, y, u.bits_sent)
        /\ w = IF u.bits_sent = 0 THEN 0 ELSE IF u.bits_sent <= DataBits THEN y[u.bits_sent] ELSE 1
    <3>1. ~uart_tx_ends(u, start) /\ ~(u.baud_cnt + 1 >= ClocksPerBaud)
      BY <1>1, <1>6 DEF uart_tx_ends
    <3>2. w = IF u.bits_sent = 0 THEN 0
              ELSE IF u.bits_sent <= DataBits THEN TxBegun(u, byte).shreg[u.bits_sent] ELSE 1
      BY <1>6, <3>1 DEF tx_line
    <3>3. TxBegun(u, byte).shreg = y
      BY <1>1 DEF TxBegun, Register, UTxs
    <3> QED BY <1>1, <1>6, <3>2, <3>3, SenderTick
  <2> HIDE DEF v, w, y
  <2>2. Sender(v)
    BY <2>1 DEF UTxIs, Sender
  <2>3. w = Ago(v, 0)
    BY <1>1, <2>1 DEF UTxIs, Ago, Level
  <2>4. ASSUME NEW j \in 0 .. 2 PROVE Ago(v, j + 1) = Ago(u, j)
    <3>1. CASE u.state = "TX_IDLE"
      <4>1. Ago(u, j) = 1 /\ u.baud_cnt = 0 /\ (u.bits_sent = 0 \/ u.bits_sent - 1 > DataBits)
        BY <1>1, <3>1 DEF Ago
      <4>2. Ago(v, j + 1) = IF u.bits_sent = 0 THEN 1 ELSE Level(v, u.bits_sent - 1)
        BY <2>1, <4>1 DEF UTxIs, Ago
      <4> QED BY <1>1, <4>1, <4>2 DEF Level
    <3>2. CASE u.state = "TX_ONGOING"
      <4>1. y = u.shreg
        BY <3>2 DEF Register, y
      <4>2. v.baud_cnt > j + 1 <=> u.baud_cnt > j
        BY <1>1, <2>1 DEF UTxIs
      <4> QED BY <1>1, <2>1, <3>2, <4>1, <4>2 DEF UTxIs, Ago, Level
    <3> QED BY <1>1, <3>1, <3>2
  <2> QED BY <2>2, <2>3, <2>4
<1> QED BY <1>1, <1>3, <1>4, <1>5, <1>6

\* A cycle of the transmitter: it rests, begins a byte, goes on with a bit,
\* goes on to the next bit, or ends the byte.
Rests(u, v) == u.state = "TX_IDLE" /\ v = u
Begins(u, v, byte) ==
  /\ u.state = "TX_IDLE" /\ v.state = "TX_ONGOING"
  /\ v.bits_sent = u.bits_sent /\ v.baud_cnt = 1 /\ v.shreg = byte
GoesOn(u, v) ==
  /\ u.state = "TX_ONGOING" /\ v.state = "TX_ONGOING" /\ v.shreg = u.shreg
  /\ u.baud_cnt < ClocksPerBaud - 1
  /\ v.bits_sent = u.bits_sent /\ v.baud_cnt = u.baud_cnt + 1
NextBit(u, v) ==
  /\ u.state = "TX_ONGOING" /\ v.state = "TX_ONGOING" /\ v.shreg = u.shreg
  /\ u.baud_cnt = ClocksPerBaud - 1 /\ u.bits_sent # DataBits + 1
  /\ v.baud_cnt = 0 /\ v.bits_sent = IF u.bits_sent = 255 THEN 0 ELSE u.bits_sent + 1
Ends(u, v) ==
  /\ u.state = "TX_ONGOING" /\ v.state = "TX_IDLE"
  /\ u.baud_cnt = ClocksPerBaud - 1 /\ u.bits_sent = DataBits + 1
  /\ v.baud_cnt = 0 /\ v.bits_sent = 0

\* The fields of the emulated transmitter.
LEMMA SenderParts ==
  ASSUME NEW u, Sender(u)
  PROVE  /\ u \in UTxs
         /\ u.state \in {"TX_IDLE", "TX_ONGOING"} /\ u.baud_cnt \in 0 .. (ClocksPerBaud - 1)
         /\ u.shreg \in Bytes /\ u.bits_sent \in 0 .. 255
         /\ u.state = "TX_IDLE" => u.baud_cnt = 0 /\ u.bits_sent \notin 1 .. (DataBits + 1)
BY DEF Sender, UTxs

\* A cycle of the emulated transmitter is one of five.
LEMMA SenderNext ==
  ASSUME Paced, NEW u, Sender(u), NEW byte \in Bytes, NEW start \in BOOLEAN,
         NEW v, v = uart_tx_protocol(u, byte, start)
  PROVE  \/ Rests(u, v) /\ ~start /\ ~uart_tx_ends(u, start)
         \/ Begins(u, v, byte) /\ start /\ ~uart_tx_ends(u, start)
         \/ GoesOn(u, v) /\ ~uart_tx_ends(u, start)
         \/ NextBit(u, v) /\ ~uart_tx_ends(u, start)
         \/ Ends(u, v) /\ uart_tx_ends(u, start)
<1>1. /\ u \in UTxs
      /\ u.state \in {"TX_IDLE", "TX_ONGOING"} /\ u.baud_cnt \in 0 .. (ClocksPerBaud - 1)
      /\ u.shreg \in Bytes /\ u.bits_sent \in 0 .. 255
      /\ u.state = "TX_IDLE" => u.baud_cnt = 0 /\ u.bits_sent \notin 1 .. (DataBits + 1)
  BY SenderParts
<1>2. ClocksPerBaud >= 4 /\ DataBits + 2 < 256
  BY DEF Paced
<1>3. CASE uart_tx_idle(u, start)
  <2>1. v = u /\ u.state = "TX_IDLE" /\ ~start /\ ~uart_tx_ends(u, start)
    BY <1>1, <1>3, SenderTick DEF uart_tx_idle, uart_tx_ends
  <2> QED BY <2>1 DEF Rests
<1>4. CASE uart_tx_ends(u, start)
  <2>1. UTxIs(v, "TX_IDLE", 0, Ones, 0)
    BY <1>1, <1>4, SenderTick
  <2>2. u.baud_cnt = ClocksPerBaud - 1 /\ u.state = "TX_ONGOING" /\ u.bits_sent = DataBits + 1
    <3>1. u.baud_cnt = ClocksPerBaud - 1 /\ (u.bits_sent + 1) % 256 = DataBits + 2
      BY <1>1, <1>4 DEF uart_tx_ends
    <3> QED BY <1>1, <1>2, <3>1
  <2> QED BY <1>4, <2>1, <2>2 DEF UTxIs, Ends
<1>5. CASE ~uart_tx_idle(u, start) /\ ~uart_tx_ends(u, start) /\ u.baud_cnt = ClocksPerBaud - 1
  <2>1. UTxIs(v, "TX_ONGOING", 0, Register(u, byte), (u.bits_sent + 1) % 256)
    BY <1>1, <1>5, SenderTick
  <2>2. u.state = "TX_ONGOING" /\ u.bits_sent # DataBits + 1
    BY <1>1, <1>2, <1>5 DEF uart_tx_ends
  <2>3. (u.bits_sent + 1) % 256 = IF u.bits_sent = 255 THEN 0 ELSE u.bits_sent + 1
    BY <1>1
  <2> QED BY <1>5, <2>1, <2>2, <2>3 DEF UTxIs, NextBit, Register
<1>6. CASE ~uart_tx_idle(u, start) /\ u.baud_cnt # ClocksPerBaud - 1
  <2>1. UTxIs(v, "TX_ONGOING", u.baud_cnt + 1, Register(u, byte), u.bits_sent)
    BY <1>1, <1>6, SenderTick
  <2>2. ~uart_tx_ends(u, start) /\ u.baud_cnt < ClocksPerBaud - 1
    BY <1>1, <1>6 DEF uart_tx_ends
  <2>3. CASE u.state = "TX_IDLE"
    <3>1. start
      BY <1>6, <2>3 DEF uart_tx_idle
    <3>2. u.baud_cnt + 1 = 1
      BY <1>1, <2>3
    <3>3. Begins(u, v, byte)
      BY <2>1, <2>3, <3>2 DEF UTxIs, Begins, Register
    <3> QED BY <2>2, <3>1, <3>3
  <2>4. CASE u.state = "TX_ONGOING"
    BY <1>6, <2>1, <2>2, <2>4 DEF UTxIs, GoesOn, Register
  <2> QED BY <1>1, <2>3, <2>4
<1> QED BY <1>3, <1>4, <1>5, <1>6

-----------------------------------------------------------------------------
(* Transmitter and receiver in step.                                       *)

\* The flops hold the past of the line, but for z of them that still hold what
\* they were reset to.
Heard(u, q, z) == \A j \in 1 .. 3 : q[j] = IF j > 3 - z THEN 0 ELSE Ago(u, j)

Fewer(z) == IF z = 0 THEN 0 ELSE z - 1

\* The samples of the receiver are what the line was, one cycle later again.
LEMMA HeardTick ==
  ASSUME Paced, NEW u, Sender(u), NEW byte \in Bytes, NEW start \in BOOLEAN,
         NEW q, NEW z \in 0 .. 3, Heard(u, q, z)
  PROVE  Heard(uart_tx_protocol(u, byte, start), <<Ago(u, 0), q[1], q[2]>>, Fewer(z))
<1> DEFINE v == uart_tx_protocol(u, byte, start)
           n == <<Ago(u, 0), q[1], q[2]>>
<1>1. Ago(v, 1) = Ago(u, 0) /\ Ago(v, 2) = Ago(u, 1) /\ Ago(v, 3) = Ago(u, 2)
  <2>1. \A j \in 0 .. 2 : Ago(v, j + 1) = Ago(u, j)
    BY LineTick
  <2> HIDE DEF v
  <2>2. Ago(v, 0 + 1) = Ago(u, 0) /\ Ago(v, 1 + 1) = Ago(u, 1) /\ Ago(v, 2 + 1) = Ago(u, 2)
    BY <2>1
  <2> QED BY <2>2
<1> HIDE DEF v
<1>2. n[1] = Ago(u, 0) /\ n[2] = q[1] /\ n[3] = q[2]
  OBVIOUS
<1>3. /\ q[1] = IF 1 > 3 - z THEN 0 ELSE Ago(u, 1)
      /\ q[2] = IF 2 > 3 - z THEN 0 ELSE Ago(u, 2)
  BY DEF Heard
<1> HIDE DEF n
<1>4. Heard(v, n, Fewer(z))
  BY <1>1, <1>2, <1>3 DEF Heard, Fewer
<1> QED BY <1>4 DEF v, n

\* The bit the receiver is in, and how far the transmitter is ahead of it: the
\* receiver sees the line three cycles late and is in the middle of the bit
\* when its counter starts again.
Half == ClocksPerBaud \div 2

Phase(r) ==
  IF r.state = "START" THEN 0 ELSE IF r.state = "PROC" THEN r.bit_counter + 1 ELSE DataBits + 1

BitsAhead(u, k, n) ==
  \/ u.bits_sent = k /\ u.baud_cnt = n + 4 - Half
  \/ u.bits_sent = k - 1 /\ u.baud_cnt = n + 4 - Half + ClocksPerBaud
  \/ u.bits_sent = k + 1 /\ u.baud_cnt = n + 4 - Half - ClocksPerBaud

\* d bytes more have been received than were sent to the end.
Waiting(u, z, d) ==
  \/ d = 0 /\ (\/ u.state = "TX_IDLE" \/ u.bits_sent >= DataBits + 2
               \/ u.bits_sent = 0 /\ u.baud_cnt <= 3 - z)
  \/ /\ d = 1 /\ z = 0 /\ u.state = "TX_ONGOING" /\ u.bits_sent = DataBits + 1
     /\ u.baud_cnt >= ClocksPerBaud + 4 - Half

Within(u, r, d) ==
  /\ d = 0 /\ u.state = "TX_ONGOING" /\ u.bits_sent <= DataBits + 1
  /\ BitsAhead(u, Phase(r), r.baud_counter)

Past(u, r, d) ==
  /\ d = -1 /\ r.state = "STOP" /\ r.baud_counter + 4 >= Half + ClocksPerBaud
  /\ \/ u.state = "TX_IDLE" \/ u.bits_sent >= DataBits + 2
     \/ u.bits_sent = 0 /\ u.baud_cnt <= r.baud_counter + 4 - Half - ClocksPerBaud

InStep(u, r, z, d) ==
  /\ Heard(u, r.q, z)
  /\ r.state = "IDLE" => Waiting(u, z, d)
  /\ r.state # "IDLE" => z = 0 /\ (Within(u, r, d) \/ Past(u, r, d))

\* Half a bit leaves room for the two cycles a sample is late.
LEMMA HalfIs ==
  ASSUME Paced
  PROVE  /\ Half \in 2 .. (ClocksPerBaud - 2)
         /\ ClocksPerBaud - 2 * Half \in 0 .. 1 /\ ClocksPerBaud \in Nat /\ ClocksPerBaud >= 4
BY DEF Paced, Half

\* The idle receiver sees a start where there is one.
LEMMA StartSeen ==
  ASSUME Paced, NEW u, Sender(u), NEW q, NEW z \in 0 .. 3, NEW d, Heard(u, q, z), Waiting(u, z, d),
         q[2] = 0, q[3] = 1
  PROVE  d = 0 /\ z = 0 /\ u.state = "TX_ONGOING" /\ u.bits_sent = 0 /\ u.baud_cnt = 3
<1>1. /\ u.state \in {"TX_IDLE", "TX_ONGOING"} /\ u.baud_cnt \in 0 .. (ClocksPerBaud - 1)
      /\ u.bits_sent \in 0 .. 255
  BY SenderParts
<1>2. /\ q[2] = IF 2 > 3 - z THEN 0 ELSE Ago(u, 2)
      /\ q[3] = IF 3 > 3 - z THEN 0 ELSE Ago(u, 3)
  BY DEF Heard
<1>3. z = 0 /\ Ago(u, 2) = 0 /\ Ago(u, 3) = 1
  BY <1>2
<1>4. u.state = "TX_ONGOING"
  BY <1>1, <1>3 DEF Ago
<1>5. ~(u.bits_sent >= DataBits + 2)
  BY <1>1, <1>3, <1>4 DEF Ago, Level
<1>6. ~(u.bits_sent = DataBits + 1 /\ u.baud_cnt >= ClocksPerBaud + 4 - Half)
  BY <1>1, <1>3, <1>4, HalfIs DEF Ago, Level
<1>7. d = 0 /\ u.bits_sent = 0 /\ u.baud_cnt <= 3
  BY <1>3, <1>4, <1>5, <1>6 DEF Waiting
<1>8. u.baud_cnt > 2
  BY <1>1, <1>3, <1>4, <1>7 DEF Ago
<1> QED BY <1>1, <1>3, <1>4, <1>7, <1>8

\* A cycle of the transmitter; e counts the bytes that end in it.
Moves(u, v, e) ==
  \/ e = 0 /\ (Rests(u, v) \/ (\E byte \in Bytes : Begins(u, v, byte)) \/ GoesOn(u, v)
                \/ NextBit(u, v))
  \/ e = 1 /\ Ends(u, v)

\* While the receiver is idle.
LEMMA WaitingMoves ==
  ASSUME Paced, NEW u, Sender(u), NEW v, NEW e, Moves(u, v, e), NEW z \in 0 .. 3, NEW d \in Int,
         Waiting(u, z, d),
         ~(z = 0 /\ u.state = "TX_ONGOING" /\ u.bits_sent = 0 /\ u.baud_cnt = 3)
  PROVE  Waiting(v, Fewer(z), d - e)
<1>1. /\ u.state \in {"TX_IDLE", "TX_ONGOING"} /\ u.baud_cnt \in 0 .. (ClocksPerBaud - 1)
      /\ u.bits_sent \in 0 .. 255
      /\ u.state = "TX_IDLE" => u.baud_cnt = 0 /\ u.bits_sent \notin 1 .. (DataBits + 1)
  BY SenderParts
<1>2. ClocksPerBaud >= 4 /\ DataBits + 2 < 256 /\ ClocksPerBaud \in Nat
  BY DEF Paced
<1>3. Fewer(z) \in 0 .. 2 /\ (z = 0 => Fewer(z) = 0) /\ (z # 0 => Fewer(z) = z - 1)
  BY DEF Fewer
<1> DEFINE n == Fewer(z)
<1> HIDE DEF n
<1>n. n \in 0 .. 2 /\ (z = 0 => n = 0) /\ (z # 0 => n = z - 1)
  BY <1>3 DEF n
<1> SUFFICES Waiting(v, n, d - e)
  BY DEF n
<1>4. CASE e = 0 /\ Rests(u, v)
  <2>1. v = u /\ u.state = "TX_IDLE" /\ d - e = d
    BY <1>4 DEF Rests
  <2>2. d = 0
    BY <2>1 DEF Waiting
  <2> QED BY <2>1, <2>2 DEF Waiting
<1>5. ASSUME e = 0, NEW byte \in Bytes, Begins(u, v, byte) PROVE Waiting(v, n, d - e)
  <2>1. /\ u.state = "TX_IDLE" /\ v.state = "TX_ONGOING" /\ v.bits_sent = u.bits_sent
        /\ v.baud_cnt = 1 /\ d - e = d
    BY <1>5 DEF Begins
  <2>2. d = 0 /\ (u.bits_sent = 0 \/ u.bits_sent >= DataBits + 2)
    BY <1>1, <2>1 DEF Waiting
  <2> QED BY <1>n, <2>1, <2>2 DEF Waiting
<1>6. CASE e = 0 /\ GoesOn(u, v)
  <2>1. /\ u.state = "TX_ONGOING" /\ v.state = "TX_ONGOING" /\ v.bits_sent = u.bits_sent
        /\ v.baud_cnt = u.baud_cnt + 1 /\ d - e = d
    BY <1>6 DEF GoesOn
  <2> QED BY <1>1, <1>2, <1>n, <2>1, HalfIs DEF Waiting
<1>7. CASE e = 0 /\ NextBit(u, v)
  <2>1. /\ u.state = "TX_ONGOING" /\ v.state = "TX_ONGOING" /\ u.baud_cnt = ClocksPerBaud - 1
        /\ v.baud_cnt = 0 /\ v.bits_sent = (IF u.bits_sent = 255 THEN 0 ELSE u.bits_sent + 1)
        /\ u.bits_sent # DataBits + 1 /\ d - e = d
    BY <1>7 DEF NextBit
  <2>2. d = 0 /\ u.bits_sent >= DataBits + 2
    BY <1>1, <1>2, <2>1 DEF Waiting
  <2> QED BY <1>1, <1>n, <2>1, <2>2 DEF Waiting
<1>8. CASE e = 1 /\ Ends(u, v)
  <2>1. /\ u.state = "TX_ONGOING" /\ v.state = "TX_IDLE" /\ u.baud_cnt = ClocksPerBaud - 1
        /\ u.bits_sent = DataBits + 1
    BY <1>8 DEF Ends
  <2>2. d = 1 /\ d - e = 0
    BY <1>1, <1>8, <2>1 DEF Waiting
  <2> QED BY <2>1, <2>2 DEF Waiting
<1> QED BY <1>4, <1>5, <1>6, <1>7, <1>8 DEF Moves

\* When it sees the start.
LEMMA StartMoves ==
  ASSUME Paced, NEW u, Sender(u), NEW v, NEW e, Moves(u, v, e),
         u.state = "TX_ONGOING", u.bits_sent = 0, u.baud_cnt = 3
  PROVE  e = 0 /\ v.state = "TX_ONGOING" /\ v.bits_sent <= DataBits + 1 /\ BitsAhead(v, 0, Half)
<1>1. ClocksPerBaud >= 4 /\ ClocksPerBaud \in Nat /\ Half \in Nat
  BY HalfIs
<1>2. ~Rests(u, v) /\ (\A byte \in Bytes : ~Begins(u, v, byte)) /\ ~Ends(u, v)
  BY DEF Rests, Begins, Ends
<1>3. CASE GoesOn(u, v)
  <2>1. v.state = "TX_ONGOING" /\ v.bits_sent = 0 /\ v.baud_cnt = 4
    BY <1>3 DEF GoesOn
  <2> QED BY <1>1, <1>2, <2>1 DEF Moves, BitsAhead
<1>4. CASE NextBit(u, v)
  <2>1. v.state = "TX_ONGOING" /\ v.bits_sent = 1 /\ v.baud_cnt = 0 /\ ClocksPerBaud = 4
    BY <1>1, <1>4 DEF NextBit
  <2> QED BY <1>1, <1>2, <2>1 DEF Moves, BitsAhead
<1> QED BY <1>2, <1>3, <1>4 DEF Moves

\* Within a bit.
LEMMA WithinMoves ==
  ASSUME Paced, NEW u, Sender(u), NEW v, NEW e, Moves(u, v, e), NEW k \in 0 .. (DataBits + 1),
         NEW n \in 0 .. (ClocksPerBaud - 2),
         u.state = "TX_ONGOING", u.bits_sent <= DataBits + 1, BitsAhead(u, k, n)
  PROVE  \/ e = 0 /\ v.state = "TX_ONGOING" /\ v.bits_sent <= DataBits + 1 /\ BitsAhead(v, k, n + 1)
         \/ e = 1 /\ v.state = "TX_IDLE" /\ k = DataBits + 1 /\ n + 1 + 4 >= Half + ClocksPerBaud
<1>1. /\ u.baud_cnt \in 0 .. (ClocksPerBaud - 1) /\ u.bits_sent \in 0 .. 255
      /\ u.bits_sent <= DataBits + 1
  BY SenderParts
<1>2. DataBits + 2 < 256 /\ ClocksPerBaud \in Nat /\ ClocksPerBaud >= 4
      /\ Half \in 2 .. (ClocksPerBaud - 2)
  BY HalfIs DEF Paced
<1>3. ~Rests(u, v) /\ (\A byte \in Bytes : ~Begins(u, v, byte))
  BY DEF Rests, Begins
<1>4. CASE e = 0 /\ GoesOn(u, v)
  <2>1. v.state = "TX_ONGOING" /\ v.bits_sent = u.bits_sent /\ v.baud_cnt = u.baud_cnt + 1
    BY <1>4 DEF GoesOn
  <2>2. BitsAhead(v, k, n + 1)
    BY <1>1, <1>2, <2>1 DEF BitsAhead
  <2> QED BY <1>4, <1>1, <2>1, <2>2
<1>5. CASE e = 0 /\ NextBit(u, v)
  <2>1. /\ v.state = "TX_ONGOING" /\ u.baud_cnt = ClocksPerBaud - 1 /\ v.baud_cnt = 0
        /\ u.bits_sent # DataBits + 1
        /\ v.bits_sent = (IF u.bits_sent = 255 THEN 0 ELSE u.bits_sent + 1)
    BY <1>5 DEF NextBit
  <2>2. v.bits_sent = u.bits_sent + 1 /\ v.bits_sent <= DataBits + 1
    BY <1>1, <1>2, <2>1
  <2>3. BitsAhead(v, k, n + 1)
    BY <1>1, <1>2, <2>1, <2>2 DEF BitsAhead
  <2> QED BY <1>5, <2>1, <2>2, <2>3
<1>6. CASE e = 1 /\ Ends(u, v)
  <2>1. v.state = "TX_IDLE" /\ u.baud_cnt = ClocksPerBaud - 1 /\ u.bits_sent = DataBits + 1
    BY <1>6 DEF Ends
  <2>2. k = DataBits + 1 /\ n + 1 + 4 >= Half + ClocksPerBaud
    BY <1>1, <1>2, <2>1 DEF BitsAhead
  <2> QED BY <1>6, <2>1, <2>2
<1> QED BY <1>3, <1>4, <1>5, <1>6 DEF Moves

\* In the middle of a bit: what is sampled is that bit.
LEMMA SampleMoves ==
  ASSUME Paced, NEW u, Sender(u), NEW v, NEW e, Moves(u, v, e), NEW k \in 0 .. DataBits,
         u.state = "TX_ONGOING", u.bits_sent <= DataBits + 1, BitsAhead(u, k, ClocksPerBaud - 1)
  PROVE  /\ Ago(u, 3) = Level(u, k)
         /\ e = 0 /\ v.state = "TX_ONGOING" /\ v.bits_sent <= DataBits + 1 /\ BitsAhead(v, k + 1, 0)
<1>1. u.baud_cnt \in 0 .. (ClocksPerBaud - 1) /\ u.bits_sent \in 0 .. 255
  BY SenderParts
<1>2. DataBits + 2 < 256 /\ ClocksPerBaud \in Nat /\ ClocksPerBaud >= 4
      /\ Half \in 2 .. (ClocksPerBaud - 2)
  BY HalfIs DEF Paced
<1>3. ~Rests(u, v) /\ (\A byte \in Bytes : ~Begins(u, v, byte))
  BY DEF Rests, Begins
<1>4. \/ u.bits_sent = k /\ u.baud_cnt = ClocksPerBaud + 3 - Half
      \/ u.bits_sent = k + 1 /\ u.baud_cnt = 3 - Half
  BY <1>1, <1>2 DEF BitsAhead
<1>5. Ago(u, 3) = Level(u, k)
  <2>1. CASE u.bits_sent = k /\ u.baud_cnt = ClocksPerBaud + 3 - Half
    <3>1. u.baud_cnt > 3
      BY <1>2, <2>1
    <3> QED BY <2>1, <3>1 DEF Ago
  <2>2. CASE u.bits_sent = k + 1 /\ u.baud_cnt = 3 - Half
    <3>1. ~(u.baud_cnt > 3) /\ u.bits_sent # 0 /\ u.bits_sent - 1 = k
      BY <1>2, <2>2
    <3> QED BY <3>1 DEF Ago
  <2> QED BY <1>4, <2>1, <2>2
<1>6. ~Ends(u, v)
  BY <1>2, <1>4 DEF Ends
<1>7. CASE e = 0 /\ GoesOn(u, v)
  <2>1. v.state = "TX_ONGOING" /\ v.bits_sent = u.bits_sent /\ v.baud_cnt = u.baud_cnt + 1
    BY <1>7 DEF GoesOn
  <2>2. BitsAhead(v, k + 1, 0)
    BY <1>1, <1>2, <1>4, <2>1 DEF BitsAhead
  <2> QED BY <1>5, <1>7, <2>1, <2>2
<1>8. CASE e = 0 /\ NextBit(u, v)
  <2>1. /\ v.state = "TX_ONGOING" /\ u.baud_cnt = ClocksPerBaud - 1 /\ v.baud_cnt = 0
        /\ v.bits_sent = (IF u.bits_sent = 255 THEN 0 ELSE u.bits_sent + 1)
    BY <1>8 DEF NextBit
  <2>2. u.bits_sent = k /\ v.bits_sent = k + 1 /\ Half = 4
    BY <1>1, <1>2, <1>4, <2>1
  <2>3. BitsAhead(v, k + 1, 0)
    BY <1>2, <2>1, <2>2 DEF BitsAhead
  <2> QED BY <1>5, <1>8, <2>1, <2>2, <2>3
<1> QED BY <1>3, <1>6, <1>7, <1>8 DEF Moves

\* In the middle of the stop bit.
LEMMA StopMoves ==
  ASSUME Paced, NEW u, Sender(u), NEW v, NEW e, Moves(u, v, e),
         u.state = "TX_ONGOING", u.bits_sent <= DataBits + 1,
         BitsAhead(u, DataBits + 1, ClocksPerBaud - 1)
  PROVE  Ago(u, 3) = 1 /\ Waiting(v, 0, 1 - e)
<1>1. u.baud_cnt \in 0 .. (ClocksPerBaud - 1) /\ u.bits_sent \in 0 .. 255
  BY SenderParts
<1>2. DataBits + 2 < 256 /\ ClocksPerBaud \in Nat /\ ClocksPerBaud >= 4
      /\ Half \in 2 .. (ClocksPerBaud - 2)
  BY HalfIs DEF Paced
<1>3. ~Rests(u, v) /\ (\A byte \in Bytes : ~Begins(u, v, byte))
  BY DEF Rests, Begins
<1>4. u.bits_sent = DataBits + 1 /\ u.baud_cnt = ClocksPerBaud + 3 - Half
  BY <1>1, <1>2 DEF BitsAhead
<1>5. Ago(u, 3) = 1
  <2>1. u.baud_cnt > 3
    BY <1>2, <1>4
  <2> QED BY <1>4, <2>1 DEF Ago, Level
<1>6. ~NextBit(u, v)
  BY <1>4 DEF NextBit
<1>7. CASE e = 0 /\ GoesOn(u, v)
  <2>1. v.state = "TX_ONGOING" /\ v.bits_sent = u.bits_sent /\ v.baud_cnt = u.baud_cnt + 1
        /\ 1 - e = 1
    BY <1>7 DEF GoesOn
  <2>2. Waiting(v, 0, 1)
    BY <1>2, <1>4, <2>1 DEF Waiting
  <2> QED BY <1>5, <2>1, <2>2
<1>8. CASE e = 1 /\ Ends(u, v)
  <2>1. v.state = "TX_IDLE" /\ 1 - e = 0
    BY <1>8 DEF Ends
  <2> QED BY <1>5, <2>1 DEF Waiting
<1> QED BY <1>3, <1>6, <1>7, <1>8 DEF Moves

\* The transmitter is done before the receiver is.
LEMMA PastMoves ==
  ASSUME Paced, NEW u, Sender(u), NEW v, NEW e, Moves(u, v, e), NEW r \in Rxs, Past(u, r, -1)
  PROVE  /\ e = 0 /\ Ago(u, 3) = 1
         /\ r.baud_counter = ClocksPerBaud - 1 => Waiting(v, 0, 0)
         /\ r.baud_counter # ClocksPerBaud - 1
              => \A s : s.state = "STOP" /\ s.baud_counter = r.baud_counter + 1 => Past(v, s, -1)
<1>1. /\ u.state \in {"TX_IDLE", "TX_ONGOING"} /\ u.baud_cnt \in 0 .. (ClocksPerBaud - 1)
      /\ u.bits_sent \in 0 .. 255
      /\ u.state = "TX_IDLE" => u.baud_cnt = 0 /\ u.bits_sent \notin 1 .. (DataBits + 1)
  BY SenderParts
<1>2. DataBits + 2 < 256 /\ ClocksPerBaud \in Nat /\ ClocksPerBaud >= 4
      /\ Half \in 2 .. (ClocksPerBaud - 2)
  BY HalfIs DEF Paced
<1> DEFINE m == r.baud_counter + 4 - Half - ClocksPerBaud
<1>3. /\ r.baud_counter \in 0 .. (ClocksPerBaud - 1) /\ m \in 0 .. 1
      /\ u.state = "TX_IDLE" \/ u.bits_sent >= DataBits + 2 \/ (u.bits_sent = 0 /\ u.baud_cnt <= m)
  BY <1>2, RxParts DEF Past
<1> HIDE DEF m
<1>4. Ago(u, 3) = 1
  BY <1>1, <1>2, <1>3 DEF Ago, Level
<1>5. ~Ends(u, v)
  BY <1>1, <1>3 DEF Ends
<1>6. e = 0 /\ (v.state = "TX_IDLE" \/ v.bits_sent >= DataBits + 2
                \/ (v.bits_sent = 0 /\ v.baud_cnt <= m + 1))
  <2>1. CASE Rests(u, v)
    BY <1>5, <2>1 DEF Rests, Moves
  <2>2. ASSUME NEW byte \in Bytes, Begins(u, v, byte)
        PROVE  v.bits_sent >= DataBits + 2 \/ (v.bits_sent = 0 /\ v.baud_cnt <= m + 1)
    BY <1>1, <1>3, <2>2 DEF Begins
  <2>3. CASE GoesOn(u, v)
    BY <1>1, <1>3, <1>5, <2>3 DEF GoesOn, Moves
  <2>4. CASE NextBit(u, v)
    <3>1. u.bits_sent >= DataBits + 2
      BY <1>1, <1>2, <1>3, <2>4 DEF NextBit
    <3> QED BY <1>1, <1>3, <1>5, <2>4, <3>1 DEF NextBit, Moves
  <2> QED BY <1>5, <2>1, <2>2, <2>3, <2>4 DEF Moves
<1>7. r.baud_counter = ClocksPerBaud - 1 => Waiting(v, 0, 0)
  <2>1. m + 1 <= 3 - 0 /\ m \in Int
    BY <1>3
  <2>2. (v.bits_sent = 0 /\ v.baud_cnt <= m + 1) => (v.bits_sent = 0 /\ v.baud_cnt <= 3 - 0)
    <3>1. m = 0 \/ m = 1
      BY <1>3
    <3>2. v.baud_cnt \in Int
      BY <1>1, <1>5 DEF Moves, Rests, Begins, GoesOn, NextBit
    <3> QED BY <3>1, <3>2
  <2> QED BY <1>6, <2>2 DEF Waiting
<1>8. ASSUME r.baud_counter # ClocksPerBaud - 1, NEW s, s.state = "STOP",
             s.baud_counter = r.baud_counter + 1
      PROVE  Past(v, s, -1)
  BY <1>2, <1>3, <1>6, <1>8 DEF Past, m
<1> QED BY <1>4, <1>6, <1>7, <1>8

\* The bits of byte w that have been received.
Bits(r, w) ==
  /\ r.state = "PROC" =>
       \A j \in 1 .. r.bit_counter : r.current_byte[DataBits - r.bit_counter + j] = w[j]
  /\ r.state = "STOP" => r.current_byte = w

\* One cycle of both: they stay in step.
LEMMA StepTick ==
  ASSUME Paced, NEW u, Sender(u), NEW byte \in Bytes, NEW start \in BOOLEAN,
         NEW r \in Rxs, NEW z \in 0 .. 3, NEW d \in Int, InStep(u, r, z, d),
         ~(rx_start(r) /\ rx_baud_tick(r))
  PROVE  LET v == uart_tx_protocol(u, byte, start)
             s == RxClock(r, Ago(u, 0))
             e == IF uart_tx_ends(u, start) THEN 1 ELSE 0
             n == IF RxDone(r) THEN 1 ELSE 0
         IN  /\ InStep(v, s, Fewer(z), d + n - e)
             /\ r.state = "IDLE" /\ s.state # "IDLE" => d = 0 /\ u.state = "TX_ONGOING"
             /\ r.state # "IDLE" /\ s.state = "IDLE" => RxDone(r)
             /\ r.state \in {"START", "PROC"} => d = 0 /\ u.state = "TX_ONGOING"
             /\ (r.state = "PROC" /\ rx_baud_tick(r)) => r.q[3] = u.shreg[r.bit_counter + 1]
<1> DEFINE x == Ago(u, 0)
           v == uart_tx_protocol(u, byte, start)
           s == RxClock(r, x)
           e == IF uart_tx_ends(u, start) THEN 1 ELSE 0
           n == IF RxDone(r) THEN 1 ELSE 0
           y == Fewer(z)
           g == d + n - e
           All == /\ InStep(v, s, y, g)
                  /\ r.state = "IDLE" /\ s.state # "IDLE" => d = 0 /\ u.state = "TX_ONGOING"
                  /\ r.state # "IDLE" /\ s.state = "IDLE" => RxDone(r)
                  /\ r.state \in {"START", "PROC"} => d = 0 /\ u.state = "TX_ONGOING"
                  /\ (r.state = "PROC" /\ rx_baud_tick(r)) => r.q[3] = u.shreg[r.bit_counter + 1]
<1> SUFFICES All
  OBVIOUS
<1>1. Moves(u, v, e) /\ e \in {0, 1} /\ n \in {0, 1}
  <2> HIDE DEF v
  <2>1. v = uart_tx_protocol(u, byte, start)
    BY DEF v
  <2> QED BY <2>1, SenderNext DEF Moves
<1>2. x \in WireBits /\ Heard(u, r.q, z)
  BY AgoBits DEF InStep
<1>3. /\ (rx_start(r) \/ rx_baud_tick(r))
           => RxIs(s, RxState(r), RxBits(r), RxByte(r), rx_baud_counter_d(r),
                   <<x, r.q[1], r.q[2]>>, RxFifo(r))
      /\ ~(rx_start(r) \/ rx_baud_tick(r))
           => RxIs(s, r.state, r.bit_counter, r.current_byte, r.baud_counter + 1,
                   <<x, r.q[1], r.q[2]>>, r.fifo)
  <2> HIDE DEF x
  <2> QED BY <1>2, RxTick
<1>4. Heard(v, s.q, y)
  <2>1. s.q = <<x, r.q[1], r.q[2]>>
    <3> HIDE DEF s, x
    <3> QED BY <1>3 DEF RxIs
  <2>2. Heard(v, <<x, r.q[1], r.q[2]>>, y)
    BY <1>2, HeardTick
  <2> QED BY <2>1, <2>2
<1>5. /\ r.state \in {"IDLE", "START", "PROC", "STOP"} /\ r.bit_counter \in 0 .. (DataBits - 1)
      /\ r.baud_counter \in 0 .. (ClocksPerBaud - 1)
  BY RxParts
<1>6. r.q[3] = IF z > 0 THEN 0 ELSE Ago(u, 3)
  <2>1. r.q[3] = IF 3 > 3 - z THEN 0 ELSE Ago(u, 3)
    BY <1>2 DEF Heard
  <2> QED BY <2>1
<1>h. /\ Half \in 2 .. (ClocksPerBaud - 2) /\ ClocksPerBaud \in Nat /\ ClocksPerBaud >= 4
  BY HalfIs
<1> HIDE DEF v, s, x, e, n, y
<1>y. z = 0 => y = 0
  BY DEF y, Fewer
<1>7. CASE r.state = "IDLE" /\ rx_start(r)
  <2>1. Waiting(u, z, d) /\ r.q[2] = 0 /\ r.q[3] = 1 /\ ~rx_baud_tick(r)
    BY <1>7 DEF InStep, rx_start
  <2>2. d = 0 /\ z = 0 /\ u.state = "TX_ONGOING" /\ u.bits_sent = 0 /\ u.baud_cnt = 3
    <3> DEFINE q == r.q
    <3>1. Heard(u, q, z) /\ q[2] = 0 /\ q[3] = 1
      BY <1>2, <2>1
    <3> HIDE DEF q
    <3> QED BY <2>1, <3>1, StartSeen
  <2>3. e = 0 /\ v.state = "TX_ONGOING" /\ v.bits_sent <= DataBits + 1 /\ BitsAhead(v, 0, Half)
    BY <1>1, <2>2, StartMoves
  <2>4. s.state = "START" /\ s.baud_counter = Half /\ n = 0
    BY <1>3, <1>7, <2>1 DEF RxIs, RxState, rx_baud_counter_d, Half, n, RxDone
  <2>5. Within(v, s, g) /\ g = 0
    BY <2>2, <2>3, <2>4 DEF Within, Phase
  <2> QED BY <1>4, <1>7, <1>y, <2>2, <2>4, <2>5 DEF InStep
<1>8. CASE r.state = "IDLE" /\ ~rx_start(r)
  <2>1. Waiting(u, z, d)
    BY <1>8 DEF InStep
  <2>2. s.state = "IDLE" /\ n = 0
    BY <1>3, <1>8 DEF RxIs, RxState, n, RxDone
  <2>3. ~(z = 0 /\ u.state = "TX_ONGOING" /\ u.bits_sent = 0 /\ u.baud_cnt = 3)
    <3> SUFFICES ASSUME z = 0, u.state = "TX_ONGOING", u.bits_sent = 0, u.baud_cnt = 3 PROVE FALSE
      OBVIOUS
    <3>1. r.q[2] = Ago(u, 2) /\ r.q[3] = Ago(u, 3)
      BY <1>2 DEF Heard
    <3>2. r.q[2] = 0 /\ r.q[3] = 1
      BY <3>1 DEF Ago, Level
    <3> QED BY <1>8, <3>2 DEF rx_start
  <2>4. Waiting(v, y, d - e)
    BY <1>1, <2>1, <2>3, WaitingMoves DEF y
  <2>5. g = d - e
    BY <1>1, <2>2
  <2> QED BY <1>4, <1>8, <2>2, <2>4, <2>5 DEF InStep
<1>9. CASE r.state # "IDLE" /\ ~rx_baud_tick(r)
  <2>1. z = 0 /\ (Within(u, r, d) \/ Past(u, r, d)) /\ ~rx_start(r)
    BY <1>9 DEF InStep, rx_start
  <2>2. /\ s.state = r.state /\ s.bit_counter = r.bit_counter
        /\ s.baud_counter = r.baud_counter + 1 /\ n = 0
    BY <1>3, <1>9, <2>1 DEF RxIs, n, RxDone
  <2>3. Phase(s) = Phase(r) /\ Phase(r) \in 0 .. (DataBits + 1)
    BY <1>5, <1>9, <2>2 DEF Phase
  <2>4. CASE Within(u, r, d)
    <3> DEFINE k == Phase(r)
               c == r.baud_counter
    <3>1. d = 0 /\ u.state = "TX_ONGOING" /\ u.bits_sent <= DataBits + 1 /\ BitsAhead(u, k, c)
      BY <2>4 DEF Within
    <3>2. k \in 0 .. (DataBits + 1) /\ c \in 0 .. (ClocksPerBaud - 2)
      BY <1>5, <1>9, <1>h, <2>3 DEF rx_baud_tick
    <3> HIDE DEF k, c
    <3>3. \/ e = 0 /\ v.state = "TX_ONGOING" /\ v.bits_sent <= DataBits + 1 /\ BitsAhead(v, k, c + 1)
          \/ e = 1 /\ v.state = "TX_IDLE" /\ k = DataBits + 1 /\ c + 1 + 4 >= Half + ClocksPerBaud
      BY <1>1, <3>1, <3>2, WithinMoves
    <3>4. e = 0 => g = 0 /\ Within(v, s, g)
      BY <2>2, <2>3, <3>1, <3>3 DEF Within, k, c
    <3>5. e = 1 => g = -1 /\ Past(v, s, g)
      <4> SUFFICES ASSUME e = 1 PROVE g = -1 /\ Past(v, s, g)
        OBVIOUS
      <4>1. v.state = "TX_IDLE" /\ k = DataBits + 1 /\ c + 1 + 4 >= Half + ClocksPerBaud
        BY <3>3
      <4>2. s.state = "STOP"
        BY <1>5, <1>9, <2>2, <4>1 DEF Phase, k
      <4>3. g = -1
        BY <2>2, <3>1
      <4> QED BY <2>2, <4>1, <4>2, <4>3 DEF Past, c
    <3> QED BY <1>1, <1>4, <1>9, <1>y, <2>1, <2>2, <3>1, <3>4, <3>5 DEF InStep
  <2>5. CASE Past(u, r, d)
    <3>1. d = -1 /\ r.state = "STOP"
      BY <2>5 DEF Past
    <3>2. r.baud_counter # ClocksPerBaud - 1
      BY <1>9 DEF rx_baud_tick
    <3>3. e = 0 /\ Past(v, s, -1)
      BY <1>1, <2>2, <2>5, <3>1, <3>2, PastMoves
    <3>4. g = -1
      BY <2>2, <3>1, <3>3
    <3> QED BY <1>4, <1>9, <1>y, <2>1, <2>2, <3>1, <3>3, <3>4 DEF InStep
  <2> QED BY <2>1, <2>4, <2>5
<1>10. CASE r.state \in {"START", "PROC"} /\ rx_baud_tick(r)
  <2>1. z = 0 /\ Within(u, r, d) /\ r.q[3] = Ago(u, 3) /\ n = 0
    BY <1>6, <1>10 DEF InStep, Past, n, RxDone
  <2> DEFINE k == Phase(r)
  <2>2. /\ d = 0 /\ u.state = "TX_ONGOING" /\ u.bits_sent <= DataBits + 1
        /\ BitsAhead(u, k, ClocksPerBaud - 1)
    BY <1>10, <2>1 DEF Within, rx_baud_tick
  <2>3. k \in 0 .. DataBits
    BY <1>5, <1>10 DEF Phase
  <2> HIDE DEF k
  <2>4. /\ Ago(u, 3) = Level(u, k) /\ e = 0 /\ v.state = "TX_ONGOING"
        /\ v.bits_sent <= DataBits + 1 /\ BitsAhead(v, k + 1, 0)
    BY <1>1, <2>2, <2>3, SampleMoves
  <2>5. RxIs(s, RxState(r), RxBits(r), RxByte(r), 0, <<x, r.q[1], r.q[2]>>, RxFifo(r))
    BY <1>3, <1>10 DEF rx_baud_counter_d
  <2>6. s.state # "IDLE" /\ Phase(s) = k + 1
    <3>1. CASE r.state = "START"
      <4>1. r.q[3] = 0 /\ k = 0
        BY <2>1, <2>4, <3>1 DEF k, Phase, Level
      <4> QED BY <2>5, <3>1, <4>1 DEF RxIs, RxState, RxBits, Phase
    <3>2. CASE r.state = "PROC"
      <4>1. k = r.bit_counter + 1
        BY <3>2 DEF k, Phase
      <4>2. CASE r.bit_counter = DataBits - 1
        BY <1>5, <2>5, <3>2, <4>1, <4>2 DEF RxIs, RxState, RxBits, Phase
      <4>3. CASE r.bit_counter # DataBits - 1
        BY <1>5, <2>5, <3>2, <4>1, <4>3 DEF RxIs, RxState, RxBits, Phase
      <4> QED BY <4>2, <4>3
    <3> QED BY <1>10, <3>1, <3>2
  <2>7. Within(v, s, g)
    <3>1. s.baud_counter = 0 /\ g = 0
      BY <2>1, <2>2, <2>4, <2>5 DEF RxIs
    <3> QED BY <2>4, <2>6, <3>1 DEF Within
  <2>8. r.state = "PROC" => r.q[3] = u.shreg[r.bit_counter + 1]
    BY <1>5, <2>1, <2>4 DEF k, Phase, Level
  <2> QED BY <1>4, <1>10, <1>y, <2>1, <2>2, <2>6, <2>7, <2>8 DEF InStep
<1>11. CASE r.state = "STOP" /\ rx_baud_tick(r)
  <2>1. z = 0 /\ (Within(u, r, d) \/ Past(u, r, d)) /\ r.q[3] = Ago(u, 3)
    BY <1>6, <1>11 DEF InStep
  <2>2. s.state = "IDLE"
    BY <1>3, <1>11 DEF RxIs, RxState
  <2>3. r.baud_counter = ClocksPerBaud - 1
    BY <1>11 DEF rx_baud_tick
  <2>4. CASE Within(u, r, d)
    <3>1. /\ d = 0 /\ u.state = "TX_ONGOING" /\ u.bits_sent <= DataBits + 1
          /\ BitsAhead(u, DataBits + 1, ClocksPerBaud - 1)
      BY <1>11, <2>3, <2>4 DEF Within, Phase
    <3>2. Ago(u, 3) = 1 /\ Waiting(v, 0, 1 - e)
      BY <1>1, <3>1, StopMoves
    <3>3. RxDone(r)
      BY <1>11, <2>1, <3>2 DEF RxDone
    <3>4. g = 1 - e
      BY <1>1, <3>1, <3>3 DEF n
    <3> QED BY <1>4, <1>11, <1>y, <2>1, <2>2, <3>1, <3>2, <3>3, <3>4 DEF InStep
  <2>5. CASE Past(u, r, d)
    <3>1. d = -1 /\ Past(u, r, -1)
      BY <2>5 DEF Past
    <3>2. e = 0 /\ Ago(u, 3) = 1 /\ Waiting(v, 0, 0)
      BY <1>1, <2>3, <3>1, PastMoves
    <3>3. RxDone(r)
      BY <1>11, <2>1, <3>2 DEF RxDone
    <3>4. g = 0
      BY <1>1, <3>1, <3>2, <3>3 DEF n
    <3> QED BY <1>4, <1>11, <1>y, <2>1, <2>2, <3>1, <3>2, <3>3, <3>4 DEF InStep
  <2> QED BY <2>1, <2>4, <2>5
<1> QED BY <1>5, <1>7, <1>8, <1>9, <1>10, <1>11

\* A cycle of the receiver takes one more bit of the byte, or none.
LEMMA BitsTick ==
  ASSUME NEW r \in Rxs, NEW x \in WireBits, NEW w \in Bytes, Bits(r, w),
         ~(rx_start(r) /\ rx_baud_tick(r)),
         (r.state = "PROC" /\ rx_baud_tick(r)) => r.q[3] = w[r.bit_counter + 1]
  PROVE  Bits(RxClock(r, x), w)
<1> DEFINE s == RxClock(r, x)
           m == r.bit_counter
           b == r.current_byte
           c == Append(Tail(b), r.q[3])
<1>1. /\ (rx_start(r) \/ rx_baud_tick(r))
           => RxIs(s, RxState(r), RxBits(r), RxByte(r), rx_baud_counter_d(r),
                   <<x, r.q[1], r.q[2]>>, RxFifo(r))
      /\ ~(rx_start(r) \/ rx_baud_tick(r))
           => RxIs(s, r.state, r.bit_counter, r.current_byte, r.baud_counter + 1,
                   <<x, r.q[1], r.q[2]>>, r.fifo)
  BY RxTick
<1>2. /\ r.state \in {"IDLE", "START", "PROC", "STOP"} /\ m \in 0 .. (DataBits - 1)
      /\ b \in Bytes /\ r.q[3] \in WireBits
  BY RxParts
<1> SUFFICES Bits(s, w)
  OBVIOUS
<1> HIDE DEF s
<1>3. CASE ~(rx_start(r) \/ rx_baud_tick(r))
  BY <1>1, <1>3 DEF RxIs, Bits
<1>4. CASE rx_start(r)
  <2>1. s.state = "START"
    BY <1>1, <1>4 DEF rx_start, RxIs, RxState
  <2> QED BY <2>1 DEF Bits
<1>5. CASE rx_baud_tick(r) /\ r.state = "IDLE"
  <2>1. s.state \in {"IDLE", "START"}
    BY <1>1, <1>5 DEF RxIs, RxState
  <2> QED BY <2>1 DEF Bits
<1>6. CASE rx_baud_tick(r) /\ r.state = "START"
  <2>1. s.state \in {"IDLE", "PROC"} /\ s.bit_counter = 0
    BY <1>1, <1>6 DEF RxIs, RxState, RxBits
  <2> QED BY <2>1 DEF Bits
<1>7. CASE rx_baud_tick(r) /\ r.state = "STOP"
  <2>1. s.state = "IDLE"
    BY <1>1, <1>7 DEF RxIs, RxState
  <2> QED BY <2>1 DEF Bits
<1>8. CASE rx_baud_tick(r) /\ r.state = "PROC"
  <2>1. /\ c \in Bytes /\ (\A j \in 1 .. (DataBits - 1) : c[j] = b[j + 1])
        /\ c[DataBits] = r.q[3]
    BY <1>2, Shifted
  <2>2. /\ \A j \in 1 .. m : b[DataBits - m + j] = w[j]
        /\ r.q[3] = w[m + 1]
    BY <1>8 DEF Bits
  <2>3. s.current_byte = c
    BY <1>1, <1>8 DEF RxIs, RxByte
  <2> HIDE DEF b, c
  <2>4. CASE m = DataBits - 1
    <3>1. s.state = "STOP"
      BY <1>1, <1>8, <2>4 DEF RxIs, RxState
    <3>2. ASSUME NEW j \in 1 .. DataBits PROVE c[j] = w[j]
      <4>1. CASE j = DataBits
        BY <2>1, <2>2, <2>4, <4>1
      <4>2. CASE j # DataBits
        <5>1. j \in 1 .. (DataBits - 1) /\ j \in 1 .. m /\ DataBits - m + j = j + 1
          BY <2>4, <4>2
        <5> QED BY <2>1, <2>2, <5>1
      <4> QED BY <4>1, <4>2
    <3>3. c = w
      BY <2>1, <3>2 DEF Bytes
    <3> QED BY <2>3, <3>1, <3>3 DEF Bits
  <2>5. CASE m # DataBits - 1
    <3>1. s.state = "PROC" /\ s.bit_counter = m + 1
      BY <1>1, <1>8, <2>5 DEF RxIs, RxState, RxBits
    <3>2. ASSUME NEW j \in 1 .. (m + 1) PROVE c[DataBits - (m + 1) + j] = w[j]
      <4>1. CASE j = m + 1
        <5>1. DataBits - (m + 1) + j = DataBits
          BY <1>2, <4>1
        <5> QED BY <2>1, <2>2, <4>1, <5>1
      <4>2. CASE j # m + 1
        <5> DEFINE i == DataBits - (m + 1) + j
        <5>1. j \in 1 .. m /\ i \in 1 .. (DataBits - 1) /\ i + 1 = DataBits - m + j
          BY <1>2, <4>2
        <5> HIDE DEF i
        <5>2. c[i] = w[j]
          BY <2>1, <2>2, <5>1
        <5> QED BY <5>2 DEF i
      <4> QED BY <4>1, <4>2
    <3> QED BY <2>3, <3>1, <3>2 DEF Bits
  <2> QED BY <2>4, <2>5
<1> QED BY <1>2, <1>3, <1>4, <1>5, <1>6, <1>7, <1>8

-----------------------------------------------------------------------------
(* The stream of vstream.c.                                                *)

\* What the stream holds for the program: while vstream_rcv takes the first
\* byte out, that byte still counts.
Held ==
  IF prog \in {"empty_head", "empty_tail"} THEN <<elem>>
  ELSE IF prog \in {"load", "store"} THEN <<elem>> \o Contents(rcv_cqueue)
  ELSE Contents(rcv_cqueue)

\* All that has been received.
Stream == read \o Held \o rx.fifo

\* The steps of vstream_rcv, with the interrupt masked.
RcvSteps == {"rcv", "compare", "empty_head", "empty_tail", "advance", "load", "store", "unmask"}

\* Who may touch the FIFO and the queue.
Discipline ==
  /\ session \in Sessions /\ isr \in {"none", "read"}
  /\ isr = "read" => rx.fifo # <<>> /\ mie
  /\ prog = "take" => rx.fifo # <<>>
  /\ prog \in {"poll", "take"} => session.reader = "getchar"
  /\ prog = "mask" => session.reader = "stream"
  /\ prog \in RcvSteps => ~mie /\ isr = "none" /\ session.reader = "stream"
  /\ session.reader = "getchar" => ~mie /\ cqueue_empty(rcv_cqueue)

QueueParts == [head : Slots \cup {-1}, tail : Slots \cup {-1}, mem : [Slots -> Bytes]]

QueueAt ==
  /\ rcv_cqueue \in QueueParts /\ elem \in Bytes /\ read \in Seq(Bytes)
  /\ prog # "empty_tail" => rcv_cqueue \in Queues(Bytes)
  /\ prog \in {"compare", "empty_head", "advance"} =>
       ~cqueue_empty(rcv_cqueue) /\ elem = FirstOf(rcv_cqueue)
  /\ prog = "empty_head" => rcv_cqueue.head = rcv_cqueue.tail
  /\ prog = "empty_tail" => rcv_cqueue.head = -1
  /\ prog = "advance" => rcv_cqueue.head # rcv_cqueue.tail

Counted == nelem = Len(Held) /\ (prog = "store" => nelem_reg = nelem)

StreamInv == Discipline /\ QueueAt /\ Counted

\* Nothing but bytes of the line come into the stream.
Kept ==
  /\ lost \subseteq lost' /\ (lost' = {} => Stream' = Stream)
  /\ rx' \in Rxs /\ rx'.state = rx.state /\ rx'.bit_counter = rx.bit_counter
  /\ rx'.current_byte = rx.current_byte /\ rx'.baud_counter = rx.baud_counter /\ rx'.q = rx.q

\* A queue is a record of its head, its tail and its slots.
LEMMA QueueRecord ==
  ASSUME NEW Elements, NEW q \in Queues(Elements)
  PROVE  q \in [head : Slots \cup {-1}, tail : Slots \cup {-1}, mem : [Slots -> Elements]]
BY DEF Queues

\* A queue with one element.
LEMMA OneElement ==
  ASSUME NEW Elements, NEW q \in Queues(Elements), ~cqueue_empty(q), q.head = q.tail
  PROVE  Contents(q) = <<FirstOf(q)>>
<1>1. q.head \in Slots /\ q.tail \in Slots
  BY DEF Queues, cqueue_empty
<1>2. Length(q) = 1
  BY <1>1, QueueParameters DEF Length, cqueue_empty, Slots
<1>3. Contents(q) \in Seq(Elements) /\ Len(Contents(q)) = 1 /\ Contents(q) # <<>>
      /\ FirstOf(q) = Head(Contents(q))
  BY <1>2, LenContents, DeqTakesFirst
<1> QED BY <1>3, HeadTailProperties

\* A sequence is its head and what follows.
LEMMA HeadAndTail ==
  ASSUME NEW S, NEW s \in Seq(S), s # <<>>
  PROVE  <<Head(s)>> \o Tail(s) = s
<1>1. Head(s) \in S /\ Tail(s) \in Seq(S)
  BY HeadTailProperties
<1>2. <<>> \in Seq(S) /\ Append(<<>>, Head(s)) = <<Head(s)>> /\ <<>> \o s = s
  BY <1>1, EmptySeq, ConcatEmptySeq
<1>3. Append(<<>>, Head(s)) \o Tail(s) = <<>> \o s
  BY <1>2, MoveHead
<1> QED BY <1>2, <1>3

\* Moving an element over the seam of two sequences leaves the whole as it is.
LEMMA TakeFirst ==
  ASSUME NEW S, NEW s \in Seq(S), NEW e \in S, NEW t \in Seq(S)
  PROVE  Append(s, e) \o t = s \o (<<e>> \o t)
<1>1. Append(s, e) = s \o <<e>> /\ <<e>> \in Seq(S)
  BY AppendIsConcat
<1> QED BY <1>1, ConcatAssociative

\* The bytes the driver holds are bytes.
LEMMA HeldBytes ==
  ASSUME QueueAt
  PROVE  Held \in Seq(Bytes)
<1>1. elem \in Bytes /\ <<elem>> \in Seq(Bytes)
  BY DEF QueueAt
<1>2. prog # "empty_tail" => Contents(rcv_cqueue) \in Seq(Bytes)
  BY LenContents DEF QueueAt
<1>3. prog # "empty_tail" => <<elem>> \o Contents(rcv_cqueue) \in Seq(Bytes)
  BY <1>1, <1>2, ConcatProperties
<1> QED BY <1>1, <1>2, <1>3 DEF Held

\* A step that leaves bytes and queue alone.
LEMMA StillKept ==
  ASSUME StreamInv, rx \in Rxs, Discipline', StreamAtRest, StreamAtRest',
         UNCHANGED <<rx, read, elem, nelem, rcv_cqueue, lost>>
  PROVE  StreamInv' /\ Kept
<1>1. prog \notin {"compare", "empty_head", "empty_tail", "advance", "load", "store"}
      /\ prog' \notin {"compare", "empty_head", "empty_tail", "advance", "load", "store"}
  BY DEF StreamAtRest
<1>2. Held' = Held
  BY <1>1 DEF Held
<1>3. QueueAt'
  BY <1>1 DEF StreamInv, QueueAt
<1>4. Counted'
  BY <1>1, <1>2 DEF StreamInv, Counted
<1>5. Kept
  BY <1>2 DEF Kept, Stream
<1> QED BY <1>3, <1>4, <1>5 DEF StreamInv

\* The steps of the program outside the stream, and the entry of the handler.
LEMMA QuietSteps ==
  ASSUME StreamInv, rx \in Rxs,
         \/ OutPoll \/ OutWrite \/ OutDone \/ InPoll \/ Mask \/ RcvEmpty \/ Unmask
         \/ MoreToCome \/ sim_halt \/ Irq
  PROVE  StreamInv' /\ Kept
<1> DEFINE Same == UNCHANGED <<session, rx, read, elem, nelem, rcv_cqueue, lost>>
<1>1. Discipline
  BY DEF StreamInv
<1>2. /\ session.reader \in {"callback", "stream", "getchar"}
      /\ Receiving = IF session.reader = "callback" THEN "halt"
                     ELSE IF session.reader = "stream" THEN "mask" ELSE "poll"
  BY <1>1, ReceivingIs DEF Discipline
<1>3. CASE OutPoll \/ OutWrite
  <2>1. Same /\ prog \in {"out", "put"} /\ prog' \in {"out", "put"} /\ isr' = isr /\ mie' = mie
    BY <1>3 DEF OutPoll, OutWrite, simVars, streamVars
  <2>2. Discipline'
    BY <1>1, <2>1 DEF Discipline, RcvSteps
  <2>3. StreamAtRest /\ StreamAtRest'
    BY <2>1 DEF StreamAtRest
  <2> QED BY <2>1, <2>2, <2>3, StillKept
<1>4. CASE OutDone \/ MoreToCome
  <2>1. Same /\ prog \in {"out", "halt"} /\ prog' = Receiving /\ isr' = isr /\ mie' = mie
    BY <1>4 DEF OutDone, MoreToCome, simVars, streamVars
  <2>2. Discipline'
    BY <1>1, <1>2, <2>1 DEF Discipline, RcvSteps
  <2>3. StreamAtRest /\ StreamAtRest'
    BY <1>2, <2>1 DEF StreamAtRest
  <2> QED BY <2>1, <2>2, <2>3, StillKept
<1>5. CASE InPoll
  <2>1. Same /\ prog = "poll" /\ prog' = "take" /\ isr' = isr /\ mie' = mie /\ rx.fifo # <<>>
    BY <1>5 DEF InPoll, simVars, streamVars
  <2>2. Discipline'
    BY <1>1, <2>1 DEF Discipline, RcvSteps
  <2>3. StreamAtRest /\ StreamAtRest'
    BY <2>1 DEF StreamAtRest
  <2> QED BY <2>1, <2>2, <2>3, StillKept
<1>6. CASE Mask
  <2>1. Same /\ prog = "mask" /\ prog' = "rcv" /\ isr' = isr /\ isr = "none" /\ mie' = FALSE
    BY <1>6 DEF Mask, disable_interrupts, simVars, streamVars
  <2>2. Discipline'
    BY <1>1, <2>1 DEF Discipline, RcvSteps
  <2>3. StreamAtRest /\ StreamAtRest'
    BY <2>1 DEF StreamAtRest
  <2> QED BY <2>1, <2>2, <2>3, StillKept
<1>7. CASE RcvEmpty
  <2>1. Same /\ prog = "rcv" /\ prog' = "unmask" /\ isr' = isr /\ mie' = mie
    BY <1>7 DEF RcvEmpty, simVars, streamVars
  <2>2. Discipline'
    BY <1>1, <2>1 DEF Discipline, RcvSteps
  <2>3. StreamAtRest /\ StreamAtRest'
    BY <2>1 DEF StreamAtRest
  <2> QED BY <2>1, <2>2, <2>3, StillKept
<1>8. CASE Unmask
  <2>1. Same /\ prog = "unmask" /\ prog' = "halt" /\ isr' = isr
    BY <1>8 DEF Unmask, simVars, streamVars
  <2>2. session.reader = "stream" /\ isr = "none"
    BY <1>1, <2>1 DEF Discipline, RcvSteps
  <2>3. Discipline'
    BY <1>1, <2>1, <2>2 DEF Discipline, RcvSteps
  <2>4. StreamAtRest /\ StreamAtRest'
    BY <2>1 DEF StreamAtRest
  <2> QED BY <2>1, <2>3, <2>4, StillKept
<1>9. CASE sim_halt
  <2>1. Same /\ prog = "halt" /\ prog' = "end" /\ isr' = isr /\ mie' = mie
    BY <1>9 DEF sim_halt, simVars, hostVars, streamVars
  <2>2. Discipline'
    BY <1>1, <2>1 DEF Discipline, RcvSteps
  <2>3. StreamAtRest /\ StreamAtRest'
    BY <2>1 DEF StreamAtRest
  <2> QED BY <2>1, <2>2, <2>3, StillKept
<1>10. CASE Irq
  <2>1. Same /\ prog' = prog /\ isr' = "read" /\ mie' = mie /\ mie /\ rx.fifo # <<>>
    BY <1>10 DEF Irq, simVars, streamVars
  <2>2. prog \notin RcvSteps
    BY <1>1, <2>1 DEF Discipline
  <2>3. Discipline'
    BY <1>1, <2>1, <2>2 DEF Discipline
  <2>4. StreamAtRest /\ StreamAtRest'
    BY <2>1, <2>2 DEF StreamAtRest, RcvSteps
  <2> QED BY <2>1, <2>3, <2>4, StillKept
<1> QED BY <1>3, <1>4, <1>5, <1>6, <1>7, <1>8, <1>9, <1>10

\* getchar takes a byte from the FIFO.
LEMMA TakeStep ==
  ASSUME StreamInv, rx \in Rxs, InTake
  PROVE  StreamInv' /\ Kept
<1> DEFINE h == Head(rx.fifo)
           t == Tail(rx.fifo)
<1>1. /\ prog = "take" /\ isr = "none" /\ prog' = "halt" /\ read' = Append(read, RxFront(rx))
      /\ rx' = RxRead(rx)
      /\ UNCHANGED <<session, isr, mie, elem, nelem_reg, rcv_cqueue, nelem, lost>>
  BY DEF InTake, simVars
<1>2. /\ Discipline /\ QueueAt /\ Counted
      /\ rx.fifo # <<>> /\ session.reader = "getchar" /\ cqueue_empty(rcv_cqueue)
  BY <1>1 DEF StreamInv, Discipline
<1>3. /\ h \in Bytes /\ t \in Seq(Bytes) /\ rx.fifo \in Seq(Bytes) /\ RxFront(rx) = h
      /\ RxIs(RxRead(rx), rx.state, rx.bit_counter, rx.current_byte, rx.baud_counter, rx.q, t)
  <2>1. rx.fifo \in Seq(Bytes)
    BY RxParts
  <2> QED BY <1>2, <2>1, RxReadIs, HeadTailProperties
<1>4. rcv_cqueue \in Queues(Bytes) /\ read \in Seq(Bytes)
  BY <1>1, <1>2 DEF QueueAt
<1>5. Held = <<>> /\ Held' = <<>>
  <2>1. Contents(rcv_cqueue) \in Seq(Bytes) /\ Len(Contents(rcv_cqueue)) = 0
    BY <1>2, <1>4, LenContents, LengthBound
  <2>2. Contents(rcv_cqueue) = <<>>
    BY <2>1, EmptySeq
  <2> QED BY <1>1, <2>2 DEF Held
<1>6. Discipline'
  BY <1>1, <1>2 DEF Discipline, RcvSteps
<1>7. QueueAt'
  <2>1. read' \in Seq(Bytes)
    BY <1>1, <1>3, <1>4, AppendProperties
  <2> QED BY <1>1, <1>2, <1>4, <2>1 DEF QueueAt
<1>8. Counted'
  BY <1>1, <1>2, <1>5 DEF Counted
<1>9. Stream' = Stream
  <2> HIDE DEF h, t
  <2>0. read' = Append(read, h) /\ rx'.fifo = t
    BY <1>1, <1>3 DEF RxIs
  <2>1. read' \in Seq(Bytes)
    BY <2>0, <1>3, <1>4, AppendProperties
  <2>2. read' \o <<>> = read' /\ read \o <<>> = read
    BY <2>1, <1>4, ConcatEmptySeq
  <2>3. Append(read, h) \o t = read \o rx.fifo
    BY <1>2, <1>3, <1>4, MoveHead DEF h, t
  <2> QED BY <1>5, <2>0, <2>2, <2>3 DEF Stream
<1> QED BY <1>1, <1>3, <1>6, <1>7, <1>8, <1>9 DEF StreamInv, Kept, RxIs

\* The steps of vstream_rcv and cqueue_deq.
LEMMA RcvStep ==
  ASSUME StreamInv, rx \in Rxs,
         RcvTake \/ RcvCompare \/ RcvEmptyHead \/ RcvEmptyTail \/ RcvAdvance \/ RcvLoad \/ RcvStore
  PROVE  StreamInv' /\ Kept
<1>1. Discipline /\ QueueAt /\ Counted
  BY DEF StreamInv
<1>2. UNCHANGED <<session, rx, isr, mie, lost>> /\ prog \in RcvSteps /\ prog' \in RcvSteps
  BY DEF RcvTake, RcvCompare, RcvEmptyHead, RcvEmptyTail, RcvAdvance, RcvLoad, RcvStore, simVars,
         streamVars, RcvSteps
<1>3. session.reader = "stream" /\ Discipline'
  <2>1. session.reader = "stream" /\ ~mie /\ isr = "none" /\ prog' \notin {"take", "poll", "mask"}
    BY <1>1, <1>2 DEF Discipline, RcvSteps
  <2> QED BY <1>1, <1>2, <2>1 DEF Discipline
<1>4. SUFFICES QueueAt' /\ Counted' /\ read' \o Held' = read \o Held
  BY <1>2, <1>3 DEF StreamInv, Kept, Stream
<1>5. /\ elem \in Bytes /\ read \in Seq(Bytes) /\ rcv_cqueue \in QueueParts
      /\ Held \in Seq(Bytes)
  BY <1>1, HeldBytes DEF QueueAt
<1>6. CASE RcvTake
  <2>1. /\ prog = "rcv" /\ prog' = "compare" /\ elem' = FirstOf(rcv_cqueue)
        /\ ~cqueue_empty(rcv_cqueue) /\ UNCHANGED <<nelem, rcv_cqueue, read>>
    BY <1>6 DEF RcvTake
  <2>2. rcv_cqueue \in Queues(Bytes)
    BY <1>1, <2>1 DEF QueueAt
  <2>3. elem' \in Bytes
    <3>1. rcv_cqueue.head \in Slots /\ rcv_cqueue.mem \in [Slots -> Bytes]
      BY <2>1, <2>2 DEF Queues, cqueue_empty
    <3> QED BY <2>1, <3>1 DEF FirstOf
  <2>4. QueueAt'
    BY <1>5, <2>1, <2>2, <2>3 DEF QueueAt
  <2>5. Held' = Held
    BY <2>1 DEF Held
  <2> QED BY <1>1, <2>1, <2>4, <2>5 DEF Counted
<1>7. CASE RcvCompare
  <2>1. /\ prog = "compare" /\ UNCHANGED <<nelem, rcv_cqueue, read, elem>>
        /\ prog' = IF rcv_cqueue.head = rcv_cqueue.tail THEN "empty_head" ELSE "advance"
    BY <1>7 DEF RcvCompare, streamVars
  <2>2. rcv_cqueue \in Queues(Bytes) /\ ~cqueue_empty(rcv_cqueue) /\ elem = FirstOf(rcv_cqueue)
    BY <1>1, <2>1 DEF QueueAt
  <2>3. QueueAt'
    BY <1>5, <2>1, <2>2 DEF QueueAt
  <2>4. Held' = Held
    BY <2>1, <2>2, OneElement DEF Held
  <2> QED BY <1>1, <2>1, <2>3, <2>4 DEF Counted
<1>8. CASE RcvEmptyHead
  <2>1. /\ prog = "empty_head" /\ prog' = "empty_tail" /\ UNCHANGED <<nelem, read, elem>>
        /\ rcv_cqueue' = [rcv_cqueue EXCEPT !.head = -1]
    BY <1>8 DEF RcvEmptyHead
  <2>2. rcv_cqueue' \in QueueParts /\ rcv_cqueue'.head = -1
    BY <1>5, <2>1 DEF QueueParts
  <2>3. QueueAt'
    BY <1>5, <2>1, <2>2 DEF QueueAt
  <2>4. Held' = Held
    BY <2>1 DEF Held
  <2> QED BY <1>1, <2>1, <2>3, <2>4 DEF Counted
<1>9. CASE RcvEmptyTail
  <2>1. /\ prog = "empty_tail" /\ prog' = "load" /\ UNCHANGED <<nelem, read, elem>>
        /\ rcv_cqueue' = [rcv_cqueue EXCEPT !.tail = -1] /\ rcv_cqueue.head = -1
    BY <1>1, <1>9 DEF RcvEmptyTail, QueueAt
  <2>2. rcv_cqueue' \in QueueParts /\ rcv_cqueue'.head = -1 /\ rcv_cqueue'.tail = -1
    BY <1>5, <2>1 DEF QueueParts
  <2>3. rcv_cqueue' \in Queues(Bytes)
    BY <2>2 DEF QueueParts, Queues
  <2>4. QueueAt'
    BY <1>5, <2>1, <2>2, <2>3 DEF QueueAt
  <2>5. Contents(rcv_cqueue') = <<>>
    <3> DEFINE c == Contents(rcv_cqueue')
    <3>1. Length(rcv_cqueue') = 0
      BY <2>2 DEF Length, cqueue_empty
    <3>2. c \in Seq(Bytes) /\ Len(c) = 0
      BY <2>3, <3>1, LenContents
    <3> QED BY <3>2, EmptySeq
  <2>6. Held' = Held
    <3>1. <<elem>> \in Seq(Bytes)
      BY <1>5
    <3>2. <<elem>> \o <<>> = <<elem>>
      BY <3>1, ConcatEmptySeq
    <3> QED BY <2>1, <2>5, <3>2 DEF Held
  <2> QED BY <1>1, <2>1, <2>4, <2>6 DEF Counted
<1>10. CASE RcvAdvance
  <2>1. /\ prog = "advance" /\ prog' = "load" /\ UNCHANGED <<nelem, read, elem>>
        /\ rcv_cqueue' = [rcv_cqueue EXCEPT !.head = Following(rcv_cqueue.head)]
    BY <1>10 DEF RcvAdvance
  <2>2. /\ rcv_cqueue \in Queues(Bytes) /\ ~cqueue_empty(rcv_cqueue)
        /\ elem = FirstOf(rcv_cqueue) /\ rcv_cqueue.head # rcv_cqueue.tail
    BY <1>1, <2>1 DEF QueueAt
  <2>3. rcv_cqueue' = cqueue_deq(rcv_cqueue)
    BY <2>1, <2>2 DEF cqueue_deq
  <2> DEFINE c == Contents(rcv_cqueue)
  <2>4. /\ rcv_cqueue' \in Queues(Bytes) /\ c # <<>> /\ elem = Head(c)
        /\ Contents(rcv_cqueue') = Tail(c) /\ c \in Seq(Bytes)
    BY <2>2, <2>3, DeqTakesFirst, LenContents
  <2>5. rcv_cqueue' \in QueueParts
    BY <2>4, QueueRecord DEF QueueParts
  <2>6. QueueAt'
    BY <1>5, <2>1, <2>4, <2>5 DEF QueueAt
  <2>7. Held' = Held
    <3>1. Held = c
      BY <2>1 DEF Held
    <3>2. Held' = <<elem>> \o Tail(c)
      BY <2>1, <2>4 DEF Held
    <3> HIDE DEF c
    <3> QED BY <2>4, <3>1, <3>2, HeadAndTail
  <2> QED BY <1>1, <2>1, <2>6, <2>7 DEF Counted
<1>11. CASE RcvLoad
  <2>1. /\ prog = "load" /\ prog' = "store" /\ UNCHANGED <<nelem, read, elem, rcv_cqueue>>
        /\ nelem_reg' = nelem
    BY <1>11 DEF RcvLoad
  <2>2. QueueAt'
    BY <1>1, <1>5, <2>1 DEF QueueAt
  <2>3. Held' = Held
    BY <2>1 DEF Held
  <2> QED BY <1>1, <2>1, <2>2, <2>3 DEF Counted
<1>12. CASE RcvStore
  <2> DEFINE c == Contents(rcv_cqueue)
  <2>1. /\ prog = "store" /\ prog' = "unmask" /\ UNCHANGED <<elem, rcv_cqueue>>
        /\ nelem' = nelem_reg - 1 /\ read' = Append(read, elem)
    BY <1>12 DEF RcvStore
  <2>2. rcv_cqueue \in Queues(Bytes) /\ c \in Seq(Bytes)
    BY <1>1, <2>1, LenContents DEF QueueAt
  <2>3. read' \in Seq(Bytes)
    BY <1>5, <2>1, AppendProperties
  <2>4. QueueAt'
    BY <1>5, <2>1, <2>2, <2>3 DEF QueueAt
  <2>5. Held = <<elem>> \o c /\ Held' = c
    BY <2>1 DEF Held
  <2> HIDE DEF c
  <2>6. Len(<<elem>> \o c) = 1 + Len(c) /\ Len(c) \in Nat
    BY <1>5, <2>2, ConcatProperties, LenProperties
  <2>7. Counted'
    BY <1>1, <2>1, <2>5, <2>6 DEF Counted
  <2>8. read' \o Held' = read \o Held
    <3>1. Append(read, elem) \o c = read \o (<<elem>> \o c)
      BY <1>5, <2>2, TakeFirst DEF c
    <3> QED BY <2>1, <2>5, <3>1
  <2> QED BY <2>4, <2>7, <2>8
<1> QED BY <1>6, <1>7, <1>8, <1>9, <1>10, <1>11, <1>12

\* The handler moves the first byte of the FIFO into the queue, and the
\* callback may take all there is.
LEMMA DeliverStep ==
  ASSUME StreamInv, rx \in Rxs, IrqDeliver
  PROVE  StreamInv' /\ Kept
<1> DEFINE h == Head(rx.fifo)
           t == Tail(rx.fifo)
           c == Contents(rcv_cqueue)
           full == cqueue_full(rcv_cqueue)
           queue == cqueue_enq(rcv_cqueue, RxFront(rx))
           ready == IF full THEN nelem ELSE nelem + 1
           takes == session.reader = "callback" /\ ready >= session.batch
<1>1. /\ isr = "read" /\ isr' = "none" /\ rx' = RxRead(rx)
      /\ rcv_cqueue' = IF takes THEN Emptied(queue) ELSE queue
      /\ nelem' = IF takes THEN ready - Length(queue) ELSE ready
      /\ read' = IF takes THEN read \o Contents(queue) ELSE read
      /\ lost' = IF full THEN lost \cup {"rcv_cqueue"} ELSE lost
      /\ UNCHANGED <<session, prog, mie, elem, nelem_reg>>
  BY DEF IrqDeliver, simVars
<1>2. /\ Discipline /\ QueueAt /\ Counted /\ rx.fifo # <<>> /\ mie
      /\ prog \notin RcvSteps /\ session.reader # "getchar" /\ prog # "take"
  BY <1>1 DEF StreamInv, Discipline
<1>3. /\ h \in Bytes /\ t \in Seq(Bytes) /\ rx.fifo \in Seq(Bytes) /\ RxFront(rx) = h
      /\ RxIs(RxRead(rx), rx.state, rx.bit_counter, rx.current_byte, rx.baud_counter, rx.q, t)
  <2>1. rx.fifo \in Seq(Bytes)
    BY RxParts
  <2> QED BY <1>2, <2>1, RxReadIs, HeadTailProperties
<1>4. /\ rcv_cqueue \in Queues(Bytes) /\ read \in Seq(Bytes) /\ elem \in Bytes
      /\ prog \notin {"compare", "empty_head", "empty_tail", "advance", "load", "store"}
  BY <1>2 DEF QueueAt, RcvSteps
<1>5. c \in Seq(Bytes) /\ Len(c) = Length(rcv_cqueue) /\ Length(rcv_cqueue) \in Nat
  BY <1>4, LenContents, LengthBound
<1>6. Held = c /\ nelem = Len(c) /\ Held' = Contents(rcv_cqueue')
  BY <1>1, <1>2, <1>4 DEF Held, Counted
<1>7. /\ queue \in Queues(Bytes) /\ ready = Length(queue) /\ Contents(queue) \in Seq(Bytes)
      /\ Len(Contents(queue)) = Length(queue) /\ Length(queue) \in Nat
      /\ ~full => Contents(queue) = Append(c, h)
  <2>1. CASE full
    <3>1. queue = rcv_cqueue /\ ready = nelem
      BY <2>1 DEF cqueue_enq
    <3> QED BY <1>4, <1>5, <1>6, <2>1, <3>1
  <2>2. CASE ~full
    <3>1. queue \in Queues(Bytes) /\ Contents(queue) = Append(c, h)
      BY <1>3, <1>4, <2>2, EnqAppends
    <3> HIDE DEF queue
    <3>a. queue \in Queues(Bytes)
      BY <3>1
    <3>b. Length(queue) \in 0 .. CQUEUE_SIZE
      BY <3>a, LengthBound
    <3>c. Contents(queue) \in Seq(Bytes) /\ Len(Contents(queue)) = Length(queue)
      BY <3>a, LenContents
    <3>2. Contents(queue) \in Seq(Bytes) /\ Len(Contents(queue)) = Length(queue)
          /\ Length(queue) \in Nat
      BY <3>b, <3>c
    <3> HIDE DEF c, h
    <3>3. Len(Append(c, h)) = Len(c) + 1
      BY <1>3, <1>5, AppendProperties
    <3> QED BY <1>6, <2>2, <3>1, <3>2, <3>3
  <2> QED BY <2>1, <2>2
<1> DEFINE a == Contents(queue)
<1>8. /\ takes => rcv_cqueue' \in Queues(Bytes) /\ Contents(rcv_cqueue') = <<>>
                  /\ read' = read \o a /\ nelem' = 0
      /\ ~takes => rcv_cqueue' = queue /\ read' = read /\ nelem' = Length(queue)
  <2> HIDE DEF queue, ready
  <2>1. Emptied(queue) \in Queues(Bytes) /\ Length(Emptied(queue)) = 0
    BY <1>7, EmptiedIsEmpty
  <2>2. Contents(Emptied(queue)) = <<>>
    <3>1. Contents(Emptied(queue)) \in Seq(Bytes) /\ Len(Contents(Emptied(queue))) = 0
      BY <2>1, LenContents
    <3> QED BY <3>1, EmptySeq
  <2> QED BY <1>1, <1>7, <2>1, <2>2
<1> HIDE DEF h, t, c, full, queue, ready, takes
<1>9. rcv_cqueue' \in Queues(Bytes) /\ read' \in Seq(Bytes) /\ rcv_cqueue' \in QueueParts
  <2>1. rcv_cqueue' \in Queues(Bytes)
    BY <1>7, <1>8
  <2>2. read' \in Seq(Bytes)
    BY <1>4, <1>7, <1>8, ConcatProperties
  <2> QED BY <2>1, <2>2, QueueRecord DEF QueueParts
<1>10. Discipline'
  BY <1>1, <1>2 DEF Discipline
<1>11. QueueAt'
  BY <1>1, <1>4, <1>9 DEF QueueAt
<1>12. Counted'
  <2>1. nelem' = Len(Held')
    BY <1>6, <1>7, <1>8, EmptySeq
  <2> QED BY <1>1, <1>4, <2>1 DEF Counted
<1>13. ~full => Stream' = Stream
  <2> SUFFICES ASSUME ~full PROVE Stream' = Stream
    OBVIOUS
  <2>1. a = Append(c, h) /\ a \in Seq(Bytes)
    BY <1>7
  <2> HIDE DEF a
  <2>2. read' \o Held' = read \o a
    <3>1. CASE takes
      <4>1. read' \o Held' = (read \o a) \o <<>> /\ read \o a \in Seq(Bytes)
        BY <1>4, <1>6, <1>8, <2>1, <3>1, ConcatProperties
      <4> DEFINE s == read \o a
      <4>2. s \in Seq(Bytes)
        BY <4>1
      <4> HIDE DEF s
      <4>3. s \o <<>> = s
        BY <4>2, ConcatEmptySeq
      <4> QED BY <4>1, <4>3 DEF s
    <3>2. CASE ~takes
      BY <1>6, <1>8, <3>2 DEF a
    <3> QED BY <3>1, <3>2
  <2>3. rx'.fifo = t
    BY <1>1, <1>3 DEF RxIs
  <2>4. read \o Append(c, h) = Append(read \o c, h)
    BY <1>3, <1>4, <1>5, AppendLast
  <2> DEFINE s == read \o c
  <2>5. s \in Seq(Bytes)
    BY <1>4, <1>5, ConcatProperties
  <2> HIDE DEF s
  <2>6. Append(s, h) \o t = s \o rx.fifo
    BY <1>2, <1>3, <2>5, MoveHead DEF h, t
  <2>7. Stream' = Append(s, h) \o t
    BY <2>1, <2>2, <2>3, <2>4 DEF Stream, s
  <2>8. Stream = s \o rx.fifo
    BY <1>6 DEF Stream, s
  <2> QED BY <2>6, <2>7, <2>8
<1>14. lost \subseteq lost' /\ (full => lost' # {})
  BY <1>1
<1> QED BY <1>1, <1>3, <1>10, <1>11, <1>12, <1>13, <1>14 DEF StreamInv, Kept, RxIs

\* A step that concerns the stream in nothing.
LEMMA AloneKept ==
  ASSUME StreamInv, rx \in Rxs,
         UNCHANGED <<session, rx, prog, isr, mie, read, elem, nelem, nelem_reg, rcv_cqueue, lost>>
  PROVE  StreamInv' /\ Kept
<1>1. Held' = Held
  BY DEF Held
<1>2. Discipline' /\ QueueAt'
  BY DEF StreamInv, Discipline, QueueAt
<1>3. Counted'
  BY <1>1 DEF StreamInv, Counted
<1> QED BY <1>1, <1>2, <1>3 DEF StreamInv, Kept, Stream

\* A tick of the clock brings the byte that is received in it.
LEMMA TickStream ==
  ASSUME StreamInv, rx \in Rxs, line \in WireBits, ClockTick
  PROVE  /\ StreamInv' /\ rx' \in Rxs /\ lost \subseteq lost'
         /\ lost' = {} =>
              Stream' = IF RxDone(rx) THEN Append(Stream, rx.current_byte) ELSE Stream
<1>1. /\ rx' = RxClock(rx, line)
      /\ lost \subseteq lost' /\ (RxLost(rx) => lost' # {})
      /\ UNCHANGED <<session, prog, isr, mie, elem, nelem_reg, rcv_cqueue, nelem, read>>
  BY DEF ClockTick, streamVars
<1>2. rx' \in Rxs /\ rx'.fifo = RxFifo(rx)
  <2>1. CASE rx_start(rx) \/ rx_baud_tick(rx)
    <3>1. RxIs(RxClock(rx, line), RxState(rx), RxBits(rx), RxByte(rx), rx_baud_counter_d(rx),
               <<line, rx.q[1], rx.q[2]>>, RxFifo(rx))
      BY <2>1, RxTick
    <3> QED BY <1>1, <3>1 DEF RxIs
  <2>2. CASE ~(rx_start(rx) \/ rx_baud_tick(rx))
    <3>1. RxIs(RxClock(rx, line), rx.state, rx.bit_counter, rx.current_byte, rx.baud_counter + 1,
               <<line, rx.q[1], rx.q[2]>>, rx.fifo)
      BY <2>2, RxTick
    <3>2. RxFifo(rx) = rx.fifo
      BY <2>2 DEF RxFifo, RxDone
    <3> QED BY <1>1, <3>1, <3>2 DEF RxIs
  <2> QED BY <2>1, <2>2
<1>3. rx.fifo \in Seq(Bytes) /\ rx.current_byte \in Bytes
  BY RxParts
<1>4. rx.fifo # <<>> => rx'.fifo # <<>>
  <2>1. Append(rx.fifo, rx.current_byte) # <<>>
    BY <1>3, AppendProperties
  <2> QED BY <1>2, <2>1 DEF RxFifo
<1>5. Held' = Held
  BY <1>1 DEF Held
<1>6. Discipline'
  BY <1>1, <1>4 DEF StreamInv, Discipline
<1>7. QueueAt'
  BY <1>1 DEF StreamInv, QueueAt
<1>8. Counted'
  BY <1>1, <1>5 DEF StreamInv, Counted
<1>9. ASSUME lost' = {}
      PROVE  Stream' = IF RxDone(rx) THEN Append(Stream, rx.current_byte) ELSE Stream
  <2> DEFINE s == read \o Held
  <2>1. s \in Seq(Bytes)
    BY HeldBytes, ConcatProperties DEF StreamInv, QueueAt
  <2>2. Stream = s \o rx.fifo /\ Stream' = s \o rx'.fifo
    BY <1>1, <1>5 DEF Stream
  <2> HIDE DEF s
  <2>3. rx'.fifo = IF RxDone(rx) THEN Append(rx.fifo, rx.current_byte) ELSE rx.fifo
    BY <1>1, <1>2, <1>9 DEF RxFifo
  <2>4. s \o Append(rx.fifo, rx.current_byte) = Append(s \o rx.fifo, rx.current_byte)
    BY <1>3, <2>1, AppendLast
  <2> QED BY <2>2, <2>3, <2>4
<1> QED BY <1>1, <1>2, <1>6, <1>7, <1>8, <1>9 DEF StreamInv

\* The receiver starts empty.
LEMMA RxInitially == RxReset \in Rxs /\ RxReset.fifo = <<>>
BY ZerosByte, EmptySeq DEF RxReset, Rxs, WireBits

\* The driver starts with nothing received.
LEMMA StreamInitially == ConsoleInit => StreamInv /\ rx \in Rxs /\ Stream = <<>>
<1> SUFFICES ASSUME ConsoleInit PROVE StreamInv /\ rx \in Rxs /\ Stream = <<>>
  OBVIOUS
<1>1. /\ session \in Sessions /\ rx = RxReset /\ prog = "out" /\ isr = "none"
      /\ mie = (session.reader # "getchar") /\ elem = Zeros /\ nelem = 0 /\ read = <<>>
      /\ rcv_cqueue = cqueue_init(EmptyMem)
  BY DEF ConsoleInit, ConsoleStart
<1>2. EmptyMem \in [Slots -> Bytes]
  BY ZerosByte DEF EmptyMem
<1>3. rcv_cqueue \in Queues(Bytes) /\ Contents(rcv_cqueue) = <<>> /\ cqueue_empty(rcv_cqueue)
      /\ rcv_cqueue \in QueueParts
  <2>1. rcv_cqueue \in Queues(Bytes)
    BY <1>1, <1>2, EmptyQueue
  <2> QED BY <1>1, <1>2, <2>1, EmptyQueue, QueueRecord DEF QueueParts
<1>4. Held = <<>>
  BY <1>1, <1>3 DEF Held
<1>5. Discipline
  BY <1>1, <1>3 DEF Discipline, RcvSteps
<1>6. QueueAt
  BY <1>1, <1>3, ZerosByte, EmptySeq DEF QueueAt
<1>7. Counted
  BY <1>1, <1>4, EmptySeq DEF Counted
<1>8. Stream = <<>>
  <2>1. Stream = (<<>> \o <<>>) \o <<>>
    BY <1>1, <1>4, RxInitially DEF Stream
  <2> QED BY <2>1, ConcatEmptySeq, EmptySeq
<1> QED BY <1>1, <1>5, <1>6, <1>7, <1>8, RxInitially DEF StreamInv

\* The invariant of the driver says what the run checks of its counts.
LEMMA CountHolds == StreamInv => CountIsTrue
<1> SUFFICES ASSUME StreamInv, StreamAtRest PROVE nelem = Length(rcv_cqueue)
  BY DEF CountIsTrue
<1>1. Held = Contents(rcv_cqueue) /\ rcv_cqueue \in Queues(Bytes)
  BY DEF StreamAtRest, Held, StreamInv, QueueAt
<1> QED BY <1>1, LenContents DEF StreamInv, Counted

-----------------------------------------------------------------------------
(* Both ends of the line to the SoC.                                       *)

\* Bytes the calls so far have sent to the end.
SentSoFar ==
  Len(UpTo(session)[host.call - 1]) + (IF ThisCall.op = "send" THEN host.i ELSE 0)

\* A byte is on the line only while its call runs.
Sending ==
  /\ finish \in 0 .. 3
  /\ ThisCall.op = "send" => host.i <= Wanted
  /\ ~gotFinish /\ uartTx.state = "TX_ONGOING" =>
       /\ ThisCall.op = "send" /\ host.at = "clock" /\ host.i < Wanted
       /\ uartTx.shreg = ThisCall.buf[host.i + 1]

\* What has been received is what was sent, and what is being received is the
\* next byte of it, as long as no byte was lost and no start came on a tick.
Together ==
  lost = {} /\ ~late =>
    /\ IsPrefix(Stream, Sent)
    /\ ~gotFinish =>
         \E z \in 0 .. 3 :
           /\ InStep(uartTx, rx, z, Len(Stream) - SentSoFar)
           /\ rx.state # "IDLE" =>
                Len(Stream) < Len(Sent) /\ Bits(rx, Sent[Len(Stream) + 1])

LineInv ==
  rx \in Rxs /\ Sender(uartTx) /\ line = Ago(uartTx, 0) /\ Sending /\ Together

\* What the SoC has received so far is a sequence of bytes.
LEMMA StreamBytes ==
  ASSUME StreamInv, rx \in Rxs
  PROVE  Stream \in Seq(Bytes) /\ Len(Stream) \in Nat
<1>1. read \in Seq(Bytes) /\ Held \in Seq(Bytes) /\ rx.fifo \in Seq(Bytes)
  BY HeldBytes, RxParts DEF StreamInv, QueueAt
<1>2. Stream \in Seq(Bytes)
  BY <1>1, ConcatProperties DEF Stream
<1> QED BY <1>2, LenProperties

\* What the host sends is a sequence of bytes.
LEMMA SentBytes ==
  ASSUME session \in Sessions
  PROVE  Sent \in Seq(Bytes) /\ Len(Sent) \in Nat /\ Sent = UpTo(session)[Len(session.calls)]
<1>1. Len(session.calls) \in 0 .. Len(session.calls)
  BY CallTypes
<1>2. Sent \in Seq(Bytes)
  BY <1>1, SentIs, UpToTypes
<1> QED BY <1>2, SentIs, LenProperties

\* The call in progress.
LEMMA CallIs ==
  ASSUME HostTypes
  PROVE  /\ host.call \in 1 .. (Len(session.calls) + 1) /\ host.i \in Nat
         /\ Len(session.calls) \in Nat /\ host.call - 1 \in 0 .. Len(session.calls)
         /\ Len(UpTo(session)[host.call - 1]) \in Nat
         /\ ThisCall.op = "send" =>
              /\ host.call \in 1 .. Len(session.calls) /\ ThisCall = session.calls[host.call]
              /\ ThisCall.buf \in Seq(Bytes) /\ Wanted = Len(ThisCall.buf) /\ Wanted \in Nat
<1>1. /\ host.call \in 1 .. (Len(session.calls) + 1) /\ host.i \in Nat /\ session \in Sessions
      /\ Len(session.calls) \in Nat
  BY CallTypes DEF HostTypes
<1>2. host.call - 1 \in 0 .. Len(session.calls)
  BY <1>1
<1>3. Len(UpTo(session)[host.call - 1]) \in Nat
  BY <1>1, <1>2, UpToTypes, LenProperties
<1>4. ASSUME ThisCall.op = "send"
      PROVE  /\ host.call \in 1 .. Len(session.calls) /\ ThisCall = session.calls[host.call]
             /\ ThisCall.buf \in Seq(Bytes) /\ Wanted = Len(ThisCall.buf) /\ Wanted \in Nat
  <2>1. ~Returned
    BY <1>4 DEF ThisCall
  <2>2. host.call \in 1 .. Len(session.calls) /\ ThisCall = session.calls[host.call]
    BY <1>1, <2>1 DEF Returned, ThisCall
  <2>3. ThisCall.buf \in Seq(Bytes)
    BY <1>1, <1>4, <2>2, CallTypes
  <2> QED BY <1>4, <2>2, <2>3, LenProperties DEF Wanted
<1> QED BY <1>1, <1>2, <1>3, <1>4

\* The byte on the line is the next byte of what is sent.
LEMMA OnTheLine ==
  ASSUME HostTypes, ThisCall.op = "send", host.i < Wanted
  PROVE  /\ SentSoFar \in Nat /\ SentSoFar < Len(Sent)
         /\ ThisCall.buf[host.i + 1] = Sent[SentSoFar + 1] /\ ThisCall.buf[host.i + 1] \in Bytes
<1> DEFINE k == host.call
           j == host.i + 1
           b == session.calls[k].buf
           n == Len(UpTo(session)[k - 1])
<1>1. /\ k \in 1 .. Len(session.calls) /\ session.calls[k].op = "send" /\ host.i \in Nat
      /\ ThisCall = session.calls[k] /\ b \in Seq(Bytes) /\ Wanted = Len(b) /\ Wanted \in Nat
      /\ session \in Sessions /\ n \in Nat
  BY CallIs DEF HostTypes
<1>2. j \in 1 .. Len(b)
  BY <1>1
<1>3. n + j <= Len(Sent) /\ Sent[n + j] = b[j]
  <2>1. LET all == UpTo(session)[Len(session.calls)]
            m == Len(UpTo(session)[k - 1])
        IN  m \in Nat /\ m + j <= Len(all) /\ all[m + j] = session.calls[k].buf[j]
    <3> HIDE DEF j, k
    <3> QED BY <1>1, <1>2, SentAt DEF b
  <2> QED BY <1>1, <2>1, SentBytes
<1>4. b[j] \in Bytes
  BY <1>1, <1>2, ElementOfSeq
<1>5. SentSoFar = n + host.i /\ Len(Sent) \in Nat
  BY <1>1, SentBytes DEF SentSoFar
<1> HIDE DEF k, b, n
<1>6. n + j = SentSoFar + 1 /\ SentSoFar \in Nat
  BY <1>1, <1>5
<1>7. SentSoFar < Len(Sent)
  BY <1>3, <1>5, <1>6
<1>8. Sent[SentSoFar + 1] = b[j]
  BY <1>3, <1>6
<1>9. ThisCall.buf[host.i + 1] = b[j]
  BY <1>1 DEF b
<1> QED BY <1>4, <1>6, <1>7, <1>8, <1>9

ConsoleInv == HostInv /\ StreamInv /\ LineInv

\* What the firmware does leaves the line alone.
LEMMA FirmwareKeepsLine ==
  ASSUME LineInv, Kept, UNCHANGED <<session, uartTx, line, host, late>>,
         finish' \in 0 .. 3, gotFinish' <=> gotFinish
  PROVE  LineInv'
<1>1. ThisCall' = ThisCall /\ Wanted' = Wanted /\ Sent' = Sent /\ SentSoFar' = SentSoFar
  BY DEF ThisCall, Wanted, Returned, Sent, SentSoFar
<1>2. Sending'
  BY <1>1 DEF LineInv, Sending
<1>3. lost \subseteq lost' /\ (lost' = {} => Stream' = Stream)
      /\ rx' \in Rxs /\ rx'.state = rx.state /\ rx'.bit_counter = rx.bit_counter
      /\ rx'.current_byte = rx.current_byte /\ rx'.baud_counter = rx.baud_counter /\ rx'.q = rx.q
  BY DEF Kept
<1>4. ASSUME NEW z, NEW d, InStep(uartTx, rx, z, d) PROVE InStep(uartTx, rx', z, d)
  BY <1>3, <1>4 DEF InStep, Within, Past, Phase
<1>5. ASSUME NEW w, Bits(rx, w) PROVE Bits(rx', w)
  BY <1>3, <1>5 DEF Bits
<1>6. Together'
  <2> SUFFICES ASSUME lost' = {}, ~late'
               PROVE  /\ IsPrefix(Stream', Sent')
                      /\ ~gotFinish' =>
                           \E z \in 0 .. 3 :
                             /\ InStep(uartTx', rx', z, Len(Stream') - SentSoFar')
                             /\ rx'.state # "IDLE" =>
                                  Len(Stream') < Len(Sent') /\ Bits(rx', Sent'[Len(Stream') + 1])
    BY DEF Together
  <2>1. lost = {} /\ ~late /\ Stream' = Stream
    BY <1>3
  <2>2. /\ IsPrefix(Stream, Sent)
        /\ ~gotFinish =>
             \E z \in 0 .. 3 :
               /\ InStep(uartTx, rx, z, Len(Stream) - SentSoFar)
               /\ rx.state # "IDLE" =>
                    Len(Stream) < Len(Sent) /\ Bits(rx, Sent[Len(Stream) + 1])
    BY <2>1 DEF LineInv, Together
  <2> HIDE DEF Sent
  <2>3. ASSUME ~gotFinish
        PROVE  \E z \in 0 .. 3 :
                 /\ InStep(uartTx, rx', z, Len(Stream) - SentSoFar)
                 /\ rx'.state # "IDLE" =>
                      Len(Stream) < Len(Sent) /\ Bits(rx', Sent[Len(Stream) + 1])
    <3>1. PICK z \in 0 .. 3 :
            /\ InStep(uartTx, rx, z, Len(Stream) - SentSoFar)
            /\ rx.state # "IDLE" =>
                 Len(Stream) < Len(Sent) /\ Bits(rx, Sent[Len(Stream) + 1])
      BY <2>2, <2>3
    <3>2. InStep(uartTx, rx', z, Len(Stream) - SentSoFar)
      BY <1>4, <3>1
    <3>3. rx'.state # "IDLE" => Len(Stream) < Len(Sent) /\ Bits(rx', Sent[Len(Stream) + 1])
      BY <1>3, <1>5, <3>1
    <3> QED BY <3>2, <3>3
  <2> QED BY <1>1, <2>1, <2>2, <2>3
<1> QED BY <1>2, <1>3, <1>6 DEF LineInv

\* The calls of the simulation follow each other.
LEMMA CallsKeepLine ==
  ASSUME ConsoleInv, Drain \/ Drained \/ NextCall
  PROVE  LineInv'
<1> DEFINE Joined == /\ IsPrefix(Stream, Sent)
                     /\ ~gotFinish =>
                          \E z \in 0 .. 3 :
                            /\ InStep(uartTx, rx, z, Len(Stream) - SentSoFar)
                            /\ rx.state # "IDLE" =>
                                 Len(Stream) < Len(Sent) /\ Bits(rx, Sent[Len(Stream) + 1])
<1>1. /\ UNCHANGED <<session, rx, uartTx, line, finish, lost, late, prog, read, elem, rcv_cqueue>>
  BY DEF Drain, Drained, NextCall, streamVars
<1>2. HostTypes /\ LineInv /\ Sending /\ Together
  BY DEF ConsoleInv, HostInv, LineInv
<1>3. /\ Stream' = Stream /\ Sent' = Sent /\ UpTo(session') = UpTo(session)
      /\ gotFinish' = gotFinish
  BY <1>1 DEF Stream, Held, Sent, gotFinish
<1>4. /\ host.call \in 1 .. (Len(session.calls) + 1) /\ host.i \in Nat
      /\ Len(session.calls) \in Nat /\ host.call - 1 \in 0 .. Len(session.calls)
      /\ session \in Sessions
      /\ host \in [call : 1 .. (Len(session.calls) + 1), i : Nat, at : {"drain", "clock"}]
  BY <1>2, CallIs DEF HostTypes
<1>5. SUFFICES Sending' /\ (~gotFinish => SentSoFar' = SentSoFar)
  <2>1. Together'
    <3> HIDE DEF Sent
    <3> QED BY <1>1, <1>2, <1>3, <1>5 DEF Together
  <2> QED BY <1>1, <1>2, <1>5, <2>1 DEF LineInv
<1>6. CASE Drain
  <2>1. host' = [host EXCEPT !.i = host.i + 1] /\ ThisCall.op = "recv" /\ host.at = "drain"
    BY <1>6 DEF Drain
  <2>2. host'.call = host.call
    BY <1>4, <2>1
  <2>3. ThisCall' = ThisCall
    BY <1>1, <2>2 DEF ThisCall, Returned
  <2>4. SentSoFar' = SentSoFar
    BY <1>1, <2>1, <2>2, <2>3 DEF SentSoFar
  <2>5. Sending'
    BY <1>1, <1>2, <1>3, <2>1, <2>3 DEF Sending
  <2> QED BY <2>4, <2>5
<1>7. CASE Drained
  <2>1. host' = [host EXCEPT !.at = "clock"] /\ host.at = "drain"
    BY <1>7 DEF Drained
  <2>2. host'.call = host.call /\ host'.i = host.i
    BY <1>4, <2>1
  <2>3. ThisCall' = ThisCall /\ Wanted' = Wanted
    BY <1>1, <2>2 DEF ThisCall, Returned, Wanted
  <2>4. SentSoFar' = SentSoFar
    BY <1>1, <2>2, <2>3 DEF SentSoFar
  <2>5. Sending'
    BY <1>1, <1>2, <1>3, <2>1, <2>2, <2>3 DEF Sending
  <2> QED BY <2>4, <2>5
<1>8. CASE NextCall
  <2> DEFINE k == host.call
  <2>1. /\ host' = [call |-> host.call + 1, i |-> 0, at |-> "drain"] /\ ~Returned
        /\ gotFinish \/ host.i = Wanted
    BY <1>8 DEF NextCall
  <2>2. host'.call = k + 1 /\ host'.i = 0 /\ k \in 1 .. Len(session.calls)
        /\ ThisCall = session.calls[k] /\ k + 1 - 1 = k
    BY <1>4, <2>1 DEF Returned, ThisCall
  <2> HIDE DEF k
  <2>3. (ThisCall' ).op = "send" => 0 <= Wanted'
    <3> SUFFICES ASSUME (ThisCall').op = "send" PROVE 0 <= Wanted'
      OBVIOUS
    <3>1. ~Returned'
      BY DEF ThisCall
    <3>2. ThisCall' = session.calls[k + 1] /\ ~(k + 1 > Len(session.calls))
      BY <1>1, <2>2, <3>1 DEF ThisCall, Returned
    <3>3. k + 1 \in 1 .. Len(session.calls)
      BY <1>4, <2>2, <3>2
    <3>4. session.calls[k + 1].op = "send" /\ session.calls[k + 1].buf \in Seq(Bytes)
      BY <1>4, <3>2, <3>3, CallTypes
    <3>5. Wanted' = Len(session.calls[k + 1].buf)
      BY <3>2, <3>4 DEF Wanted
    <3> QED BY <3>4, <3>5, LenProperties
  <2>4. ~gotFinish => uartTx.state # "TX_ONGOING"
    <3> SUFFICES ASSUME ~gotFinish, uartTx.state = "TX_ONGOING" PROVE FALSE
      OBVIOUS
    <3>1. host.i < Wanted /\ host.i = Wanted
      BY <1>2, <2>1 DEF Sending
    <3> QED BY <1>4, <3>1
  <2>5. Sending'
    BY <1>1, <1>2, <1>3, <2>2, <2>3, <2>4 DEF Sending
  <2>6. ASSUME ~gotFinish PROVE SentSoFar' = SentSoFar
    <3>1. SentSoFar' = Len(UpTo(session)[k])
      <4>1. SentSoFar' = Len(UpTo(session)[k + 1 - 1]) + 0
        BY <1>1, <2>2 DEF SentSoFar
      <4>2. k \in 0 .. Len(session.calls)
        BY <2>2
      <4>3. Len(UpTo(session)[k]) \in Nat
        BY <1>4, <4>2, UpToTypes, LenProperties
      <4> QED BY <2>2, <4>1, <4>3
    <3>2. UpTo(session)[k] = IF session.calls[k].op = "send"
                             THEN UpTo(session)[k - 1] \o session.calls[k].buf
                             ELSE UpTo(session)[k - 1]
      BY <1>4, <2>2, UpToIs
    <3>3. SentSoFar = Len(UpTo(session)[k - 1]) + (IF ThisCall.op = "send" THEN Wanted ELSE 0)
      BY <2>1, <2>6 DEF SentSoFar, k
    <3>4. k - 1 \in 0 .. Len(session.calls)
      BY <1>4, <2>2
    <3>5. UpTo(session)[k - 1] \in Seq(Bytes) /\ Len(UpTo(session)[k - 1]) \in Nat
      BY <1>4, <3>4, UpToTypes, LenProperties
    <3>6. CASE ThisCall.op = "send"
      <4>1. ThisCall.buf \in Seq(Bytes) /\ Wanted = Len(ThisCall.buf)
        BY <1>2, <3>6, CallIs
      <4>2. UpTo(session)[k] = UpTo(session)[k - 1] \o ThisCall.buf
        BY <2>2, <3>2, <3>6
      <4>3. Len(UpTo(session)[k]) = Len(UpTo(session)[k - 1]) + Len(ThisCall.buf)
        BY <3>5, <4>1, <4>2, ConcatProperties
      <4> QED BY <3>1, <3>3, <3>6, <4>1, <4>3
    <3>7. CASE ThisCall.op # "send"
      BY <2>2, <3>1, <3>2, <3>3, <3>5, <3>7
    <3> QED BY <3>6, <3>7
  <2> QED BY <2>5, <2>6
<1> QED BY <1>6, <1>7, <1>8

\* What a tick does to this side of the line.
LEMMA TickSends ==
  ASSUME ConsoleInv, ClockTick
  PROVE  LET send == ThisCall.op = "send"
             byte == IF send THEN ThisCall.buf[host.i + 1] ELSE Zeros
             e == IF uart_tx_ends(uartTx, send) THEN 1 ELSE 0
         IN  /\ host.at = "clock" /\ ~gotFinish
             /\ byte \in Bytes /\ send \in BOOLEAN
             /\ send => host.i < Wanted
             /\ rx' = RxClock(rx, line) /\ line' = tx_line(uartTx, byte, send, line)
             /\ uartTx' = uart_tx_protocol(uartTx, byte, send)
             /\ session' = session /\ host'.call = host.call /\ host'.at = "clock"
             /\ send => host'.i = host.i + e
             /\ ~send => uartTx.state = "TX_IDLE" /\ e = 0
             /\ finish' \in 0 .. 3
             /\ late' = (late \/ (rx_start(rx) /\ rx_baud_tick(rx)))
<1> DEFINE send == ThisCall.op = "send"
           byte == IF send THEN ThisCall.buf[host.i + 1] ELSE Zeros
           e == IF uart_tx_ends(uartTx, send) THEN 1 ELSE 0
           ends == uart_rx_ends(uartRx, uart_tx_o(TxClock(tx)))
<1>1. /\ host.at = "clock" /\ ~gotFinish /\ host.i # Wanted
      /\ rx' = RxClock(rx, line) /\ finish' = IF finish = 0 THEN 0 ELSE finish + 1
      /\ uartTx' = uart_tx_protocol(uartTx, byte, send)
      /\ line' = tx_line(uartTx, byte, send, line)
      /\ late' = (late \/ (rx_start(rx) /\ rx_baud_tick(rx)))
      /\ session' = session
  BY DEF ClockTick
<1>2. host' = IF \/ ThisCall.op = "clocks" /\ ~Returned
                 \/ send /\ uart_tx_ends(uartTx, send)
                 \/ ~(ThisCall.op # "recv") /\ ends
              THEN [host EXCEPT !.i = host.i + 1] ELSE host
  BY DEF ClockTick
<1>3. HostTypes /\ Sending
  BY DEF ConsoleInv, HostInv, LineInv
<1>4. /\ host \in [call : 1 .. (Len(session.calls) + 1), i : Nat, at : {"drain", "clock"}]
      /\ host.i \in Nat
  BY <1>3 DEF HostTypes
<1>5. send => host.i < Wanted
  <2> SUFFICES ASSUME send PROVE host.i < Wanted
    OBVIOUS
  <2>1. Wanted \in Nat /\ host.i <= Wanted
    BY <1>3, CallIs DEF Sending
  <2> QED BY <1>1, <1>4, <2>1
<1>6. byte \in Bytes
  <2>1. CASE send
    <3>1. ThisCall.buf[host.i + 1] \in Bytes
      BY <1>3, <1>5, <2>1, OnTheLine
    <3> QED BY <2>1, <3>1
  <2>2. CASE ~send
    BY <2>2, ZerosByte
  <2> QED BY <2>1, <2>2
<1>7. ~send => uartTx.state = "TX_IDLE" /\ e = 0
  <2> SUFFICES ASSUME ~send PROVE uartTx.state = "TX_IDLE" /\ e = 0
    OBVIOUS
  <2>1. uartTx.state # "TX_ONGOING"
    BY <1>1, <1>3 DEF Sending
  <2>2. uartTx.state = "TX_IDLE"
    BY <2>1, SenderParts DEF ConsoleInv, LineInv
  <2>3. uart_tx_idle(uartTx, send)
    BY <2>2 DEF uart_tx_idle
  <2> QED BY <2>2, <2>3 DEF uart_tx_ends
<1>8. host' \in {host, [host EXCEPT !.i = host.i + 1]}
  BY <1>2
<1>9. host'.call = host.call /\ host'.at = "clock"
  BY <1>1, <1>4, <1>8
<1>10. send => host'.i = host.i + e
  <2> SUFFICES ASSUME send PROVE host'.i = host.i + e
    OBVIOUS
  <2>1. CASE uart_tx_ends(uartTx, send)
    <3>1. host' = [host EXCEPT !.i = host.i + 1]
      BY <1>2, <2>1
    <3> QED BY <1>4, <2>1, <3>1
  <2>2. CASE ~uart_tx_ends(uartTx, send)
    <3>1. host' = host
      BY <1>2, <2>2
    <3> QED BY <1>4, <2>2, <3>1
  <2> QED BY <2>1, <2>2
<1>11. finish' \in 0 .. 3
  BY <1>1, <1>3 DEF Sending, gotFinish
<1> QED BY <1>1, <1>5, <1>6, <1>7, <1>9, <1>10, <1>11

\* A tick of the clock keeps both ends in step.
LEMMA TickKeepsLine ==
  ASSUME Paced, ConsoleInv, ClockTick
  PROVE  LineInv'
<1> DEFINE send == ThisCall.op = "send"
           byte == IF send THEN ThisCall.buf[host.i + 1] ELSE Zeros
           e == IF uart_tx_ends(uartTx, send) THEN 1 ELSE 0
           n == IF RxDone(rx) THEN 1 ELSE 0
           d == Len(Stream) - SentSoFar
<1>1. /\ host.at = "clock" /\ ~gotFinish
      /\ byte \in Bytes /\ send \in BOOLEAN
      /\ send => host.i < Wanted
      /\ rx' = RxClock(rx, line) /\ line' = tx_line(uartTx, byte, send, line)
      /\ uartTx' = uart_tx_protocol(uartTx, byte, send)
      /\ session' = session /\ host'.call = host.call /\ host'.at = "clock"
      /\ send => host'.i = host.i + e
      /\ ~send => uartTx.state = "TX_IDLE" /\ e = 0
      /\ finish' \in 0 .. 3
      /\ late' = (late \/ (rx_start(rx) /\ rx_baud_tick(rx)))
  BY TickSends
<1>2. /\ HostTypes /\ StreamInv /\ rx \in Rxs /\ Sender(uartTx) /\ line = Ago(uartTx, 0)
      /\ Sending /\ Together /\ session \in Sessions /\ line \in WireBits
  <2>1. /\ HostTypes /\ StreamInv /\ rx \in Rxs /\ Sender(uartTx) /\ line = Ago(uartTx, 0)
        /\ Sending /\ Together /\ session \in Sessions
    BY DEF ConsoleInv, HostInv, LineInv, HostTypes
  <2> QED BY <2>1, AgoBits
<1>3. ThisCall' = ThisCall /\ Wanted' = Wanted /\ Sent' = Sent
      /\ UpTo(session') = UpTo(session)
  BY <1>1 DEF ThisCall, Wanted, Returned, Sent
<1>4. /\ StreamInv' /\ rx' \in Rxs /\ lost \subseteq lost'
      /\ lost' = {} =>
           Stream' = IF RxDone(rx) THEN Append(Stream, rx.current_byte) ELSE Stream
  BY <1>2, TickStream
<1>5. /\ Sender(uartTx') /\ line' = Ago(uartTx', 0)
  <2> HIDE DEF byte, send
  <2> QED BY <1>1, <1>2, LineTick
<1>6. \/ Rests(uartTx, uartTx') /\ ~send /\ e = 0
      \/ Begins(uartTx, uartTx', byte) /\ send /\ e = 0
      \/ GoesOn(uartTx, uartTx') /\ e = 0
      \/ NextBit(uartTx, uartTx') /\ e = 0
      \/ Ends(uartTx, uartTx') /\ e = 1
  <2> HIDE DEF byte, send
  <2> DEFINE v == uartTx'
  <2>1. v = uart_tx_protocol(uartTx, byte, send)
    BY <1>1
  <2> HIDE DEF v
  <2>2. \/ Rests(uartTx, v) /\ ~send /\ ~uart_tx_ends(uartTx, send)
        \/ Begins(uartTx, v, byte) /\ send /\ ~uart_tx_ends(uartTx, send)
        \/ GoesOn(uartTx, v) /\ ~uart_tx_ends(uartTx, send)
        \/ NextBit(uartTx, v) /\ ~uart_tx_ends(uartTx, send)
        \/ Ends(uartTx, v) /\ uart_tx_ends(uartTx, send)
    BY <1>1, <1>2, <2>1, SenderNext
  <2> QED BY <2>2 DEF v
<1>7. host.i \in Nat /\ (send => Wanted \in Nat) /\ e \in {0, 1} /\ n \in {0, 1}
  BY <1>2, CallIs
<1> HIDE DEF e, n
<1>8. Sending'
  <2>1. (ThisCall').op = "send" => host'.i <= Wanted'
    BY <1>1, <1>3, <1>7
  <2>2. ASSUME uartTx'.state = "TX_ONGOING"
        PROVE  /\ send /\ host'.i < Wanted /\ uartTx'.shreg = ThisCall.buf[host'.i + 1]
    <3>1. e = 0 /\ send
      BY <1>1, <1>6, <2>2 DEF Rests, Begins, GoesOn, NextBit, Ends
    <3>2. host'.i = host.i
      BY <1>1, <1>7, <3>1
    <3>3. CASE uartTx.state = "TX_IDLE"
      <4>1. uartTx'.shreg = byte
        BY <1>6, <3>1, <3>3 DEF Rests, Begins, GoesOn, NextBit, Ends
      <4> QED BY <1>1, <3>1, <3>2, <4>1
    <3>4. CASE uartTx.state # "TX_IDLE"
      <4>1. uartTx.state = "TX_ONGOING"
        BY <1>2, <3>4, SenderParts
      <4>2. uartTx'.shreg = uartTx.shreg
        BY <1>6, <3>1, <3>4 DEF Rests, Begins, GoesOn, NextBit, Ends
      <4>3. uartTx.shreg = ThisCall.buf[host.i + 1]
        BY <1>1, <1>2, <4>1 DEF Sending
      <4> QED BY <1>1, <3>1, <3>2, <4>2, <4>3
    <3> QED BY <3>3, <3>4
  <2> QED BY <1>1, <1>3, <2>1, <2>2 DEF Sending
<1>9. SentSoFar' = SentSoFar + e /\ SentSoFar \in Nat
  <2>1. Len(UpTo(session)[host.call - 1]) \in Nat
    BY <1>2, CallIs
  <2>2. SentSoFar' = Len(UpTo(session)[host.call - 1]) + (IF send THEN host'.i ELSE 0)
    BY <1>1, <1>3 DEF SentSoFar
  <2>3. SentSoFar = Len(UpTo(session)[host.call - 1]) + (IF send THEN host.i ELSE 0)
    BY DEF SentSoFar
  <2> DEFINE l == Len(UpTo(session)[host.call - 1])
  <2> HIDE DEF l
  <2>4. l \in Nat /\ SentSoFar' = l + (IF send THEN host'.i ELSE 0)
        /\ SentSoFar = l + (IF send THEN host.i ELSE 0)
    BY <2>1, <2>2, <2>3 DEF l
  <2>5. CASE send
    BY <1>1, <1>7, <2>4, <2>5
  <2>6. CASE ~send
    BY <1>1, <1>7, <2>4, <2>6
  <2> QED BY <2>5, <2>6
<1>10. Stream \in Seq(Bytes) /\ Len(Stream) \in Nat /\ Sent \in Seq(Bytes) /\ Len(Sent) \in Nat
       /\ rx.current_byte \in Bytes
  BY <1>2, StreamBytes, SentBytes, RxParts
<1>11. ASSUME lost' = {}, ~late'
       PROVE  /\ IsPrefix(Stream', Sent)
              /\ \E z \in 0 .. 3 :
                   /\ InStep(uartTx', rx', z, Len(Stream') - SentSoFar')
                   /\ rx'.state # "IDLE" =>
                        Len(Stream') < Len(Sent) /\ Bits(rx', Sent[Len(Stream') + 1])
  <2>1. lost = {} /\ ~late /\ ~(rx_start(rx) /\ rx_baud_tick(rx))
    BY <1>1, <1>4, <1>11
  <2>2. Stream' = IF RxDone(rx) THEN Append(Stream, rx.current_byte) ELSE Stream
    BY <1>4, <1>11
  <2>3. PICK z \in 0 .. 3 :
          /\ InStep(uartTx, rx, z, d)
          /\ rx.state # "IDLE" => Len(Stream) < Len(Sent) /\ Bits(rx, Sent[Len(Stream) + 1])
    BY <1>1, <1>2, <2>1 DEF Together
  <2>4. IsPrefix(Stream, Sent)
    BY <1>2, <2>1 DEF Together
  <2>5. d \in Int
    BY <1>9, <1>10
  <2>6. /\ InStep(uartTx', rx', Fewer(z), d + n - e)
        /\ rx.state = "IDLE" /\ rx'.state # "IDLE" => d = 0 /\ uartTx.state = "TX_ONGOING"
        /\ rx.state # "IDLE" /\ rx'.state = "IDLE" => RxDone(rx)
        /\ rx.state \in {"START", "PROC"} => d = 0 /\ uartTx.state = "TX_ONGOING"
        /\ (rx.state = "PROC" /\ rx_baud_tick(rx)) => rx.q[3] = uartTx.shreg[rx.bit_counter + 1]
    <3> HIDE DEF byte, send, d
    <3>1. LET v == uart_tx_protocol(uartTx, byte, send)
              s == RxClock(rx, Ago(uartTx, 0))
              f == IF uart_tx_ends(uartTx, send) THEN 1 ELSE 0
              m == IF RxDone(rx) THEN 1 ELSE 0
          IN  /\ InStep(v, s, Fewer(z), d + m - f)
              /\ rx.state = "IDLE" /\ s.state # "IDLE" => d = 0 /\ uartTx.state = "TX_ONGOING"
              /\ rx.state # "IDLE" /\ s.state = "IDLE" => RxDone(rx)
              /\ rx.state \in {"START", "PROC"} => d = 0 /\ uartTx.state = "TX_ONGOING"
              /\ (rx.state = "PROC" /\ rx_baud_tick(rx)) =>
                   rx.q[3] = uartTx.shreg[rx.bit_counter + 1]
      BY <1>1, <1>2, <2>1, <2>3, <2>5, StepTick
    <3> QED BY <1>1, <1>2, <3>1 DEF e, n
  <2> DEFINE N == Len(Stream)
             w == Sent[N + 1]
  <2>7. Len(Stream') = N + n
    BY <1>10, <2>2, AppendProperties DEF n
  <2>8. d + n - e = Len(Stream') - SentSoFar'
    BY <1>7, <1>9, <1>10, <2>7
  <2>9. RxDone(rx) => rx.state = "STOP" /\ rx.current_byte = w /\ N < Len(Sent)
    BY <2>3 DEF RxDone, Bits
  <2>10. IsPrefix(Stream', Sent)
    <3>1. CASE RxDone(rx)
      <4>1. Stream' = Append(Stream, Sent[N + 1]) /\ N < Len(Sent)
        BY <2>2, <2>9, <3>1
      <4> QED BY <1>10, <2>4, <4>1, PrefixGrows
    <3>2. CASE ~RxDone(rx)
      BY <2>2, <2>4, <3>2
    <3> QED BY <3>1, <3>2
  <2>11. (d = 0 /\ uartTx.state = "TX_ONGOING") =>
           N < Len(Sent) /\ uartTx.shreg = w /\ w \in Bytes
    <3> SUFFICES ASSUME d = 0, uartTx.state = "TX_ONGOING"
                 PROVE  N < Len(Sent) /\ uartTx.shreg = w /\ w \in Bytes
      OBVIOUS
    <3>1. send /\ host.i < Wanted /\ uartTx.shreg = ThisCall.buf[host.i + 1]
      BY <1>1, <1>2 DEF Sending
    <3>2. /\ SentSoFar \in Nat /\ SentSoFar < Len(Sent)
          /\ ThisCall.buf[host.i + 1] = Sent[SentSoFar + 1] /\ ThisCall.buf[host.i + 1] \in Bytes
      BY <1>2, <3>1, OnTheLine
    <3>3. SentSoFar = N
      BY <1>9, <1>10
    <3> QED BY <3>1, <3>2, <3>3
  <2>12. ASSUME rx'.state # "IDLE"
         PROVE  Len(Stream') < Len(Sent) /\ Bits(rx', Sent[Len(Stream') + 1])
    <3>1. n = 0 /\ ~RxDone(rx)
      <4>1. ~RxDone(rx)
        <5> SUFFICES ASSUME RxDone(rx) PROVE FALSE
          OBVIOUS
        <5>1. rx_baud_tick(rx) /\ rx.state = "STOP"
          BY DEF RxDone
        <5>2. RxIs(RxClock(rx, line), RxState(rx), RxBits(rx), RxByte(rx), rx_baud_counter_d(rx),
                   <<line, rx.q[1], rx.q[2]>>, RxFifo(rx))
          BY <1>2, <5>1, RxTick
        <5>3. rx'.state = "IDLE"
          BY <1>1, <5>1, <5>2 DEF RxIs, RxState
        <5> QED BY <2>12, <5>3
      <4> QED BY <4>1 DEF n
    <3>2. Len(Stream') = N
      BY <1>10, <2>7, <3>1
    <3>3. N < Len(Sent) /\ Bits(rx, w)
      <4>1. CASE rx.state = "IDLE"
        <5>1. N < Len(Sent)
          BY <2>6, <2>11, <2>12, <4>1
        <5> QED BY <4>1, <5>1 DEF Bits
      <4>2. CASE rx.state # "IDLE"
        BY <2>3, <4>2
      <4> QED BY <4>1, <4>2
    <3>4. w \in Bytes
      <4>1. N + 1 \in 1 .. Len(Sent)
        BY <1>10, <3>3
      <4> QED BY <1>10, <4>1, ElementOfSeq
    <3>5. (rx.state = "PROC" /\ rx_baud_tick(rx)) => rx.q[3] = w[rx.bit_counter + 1]
      BY <2>6, <2>11
    <3> HIDE DEF w, N
    <3>6. Bits(RxClock(rx, line), w)
      BY <1>2, <2>1, <3>3, <3>4, <3>5, BitsTick
    <3> QED BY <1>1, <3>2, <3>3, <3>6 DEF w, N
  <2>13. Fewer(z) \in 0 .. 3
    BY DEF Fewer
  <2> HIDE DEF d, N, w
  <2>14. InStep(uartTx', rx', Fewer(z), Len(Stream') - SentSoFar')
    BY <2>6, <2>8
  <2> QED BY <2>10, <2>12, <2>13, <2>14
<1>12. Together'
  <2> HIDE DEF Sent
  <2> QED BY <1>3, <1>11 DEF Together
<1> QED BY <1>4, <1>5, <1>8, <1>12 DEF LineInv

\* The emulation finds its counter of bits at zero, or where the bits it then
\* goes through before the first are all high.
StartsClean == LeftInMemory \cap 1 .. (DataBits + 1) = {}

\* The line starts with nothing sent and nothing received.
LEMMA ConsoleInitially ==
  ASSUME StartsClean, ConsoleInit
  PROVE  ConsoleInv
<1>1. /\ session \in Sessions /\ rx = RxReset /\ line = 1 /\ finish = 0 /\ lost = {} /\ ~late
      /\ host = [call |-> 1, i |-> 0, at |-> "drain"]
  BY DEF ConsoleInit, ConsoleStart
<1>2. PICK n \in LeftInMemory : uartTx = TxInit(Zeros, n)
  BY DEF ConsoleInit, ConsoleStart
<1>3. HostInv /\ StreamInv /\ rx \in Rxs /\ Stream = <<>>
  BY HostInitially, StreamInitially
<1>4. n \in 0 .. 255 /\ n \notin 1 .. (DataBits + 1)
  BY ConsoleParameters DEF StartsClean
<1>5. uartTx \in UTxs /\ uartTx.state = "TX_IDLE" /\ uartTx.baud_cnt = 0 /\ uartTx.bits_sent = n
  BY <1>2, <1>4, ZerosByte DEF TxInit, UTxs
<1>6. Sender(uartTx) /\ \A j \in 0 .. 3 : Ago(uartTx, j) = 1
  BY <1>4, <1>5 DEF Sender, Ago
<1>7. HostTypes
  BY <1>3 DEF HostInv
<1>8. Sending
  <2>1. ThisCall.op = "send" => host.i <= Wanted
    <3> SUFFICES ASSUME ThisCall.op = "send" PROVE host.i <= Wanted
      OBVIOUS
    <3>1. Wanted \in Nat /\ host.i = 0
      BY <1>1, <1>7, CallIs
    <3> QED BY <3>1
  <2> QED BY <1>1, <1>5, <2>1 DEF Sending
<1>9. SentSoFar = 0
  <2>1. UpTo(session)[host.call - 1] = <<>> /\ host.i = 0
    BY <1>1, UpToIs
  <2> QED BY <2>1 DEF SentSoFar
<1>10. IsPrefix(Stream, Sent)
  <2>1. Sent \in Seq(Bytes) /\ Len(Sent) \in Nat /\ Stream \in Seq(Bytes)
        /\ Len(Stream) = 0
    BY <1>1, <1>3, SentBytes, EmptySeq
  <2> DEFINE heard == Stream
             sent == Sent
  <2>2. heard \in Seq(Bytes) /\ sent \in Seq(Bytes)
    BY <2>1
  <2>3. Len(heard) <= Len(sent) /\ \A i \in 1 .. Len(heard) : heard[i] = sent[i]
    BY <2>1
  <2> HIDE DEF heard, sent
  <2>4. IsPrefix(heard, sent)
    BY <2>2, <2>3, Prefix
  <2> QED BY <2>4 DEF heard, sent
<1>11. InStep(uartTx, rx, 3, Len(Stream) - SentSoFar)
  <2>1. rx.state = "IDLE" /\ rx.q = <<0, 0, 0>>
    BY <1>1 DEF RxReset
  <2>2. Heard(uartTx, rx.q, 3)
    BY <2>1 DEF Heard
  <2>3. Len(Stream) - SentSoFar = 0
    BY <1>3, <1>9, EmptySeq
  <2> QED BY <1>5, <2>1, <2>2, <2>3 DEF InStep, Waiting
<1>12. Together
  <2>1. rx.state = "IDLE" /\ 3 \in 0 .. 3
    BY <1>1 DEF RxReset
  <2> QED BY <1>10, <1>11, <2>1 DEF Together
<1> QED BY <1>1, <1>3, <1>6, <1>8, <1>12 DEF ConsoleInv, LineInv

\* The line carries a bit.
LEMMA LineBit ==
  ASSUME LineInv
  PROVE  rx \in Rxs /\ line \in WireBits
BY AgoBits DEF LineInv

\* Every step keeps the bytes of both directions in order.
LEMMA ConsoleStep ==
  ASSUME Paced, ConsoleInv, [ConsoleNext]_consoleVars
  PROVE  ConsoleInv'
<1>1. HostInv /\ StreamInv /\ LineInv /\ rx \in Rxs /\ line \in WireBits /\ Sending
  BY LineBit DEF ConsoleInv, LineInv
<1>2. HostInv'
  BY <1>1, HostStep
<1>3. CASE ClockTick
  <2>1. StreamInv'
    BY <1>1, <1>3, TickStream
  <2> QED BY <1>2, <1>3, <2>1, TickKeepsLine DEF ConsoleInv
<1>4. CASE Drain \/ Drained \/ NextCall
  <2>1. UNCHANGED <<session, rx, prog, isr, mie, read, elem, nelem, nelem_reg, rcv_cqueue, lost>>
    BY <1>4 DEF Drain, Drained, NextCall, streamVars
  <2> QED BY <1>1, <1>2, <1>4, <2>1, AloneKept, CallsKeepLine DEF ConsoleInv
<1>5. CASE Program \/ uart_irq_handler
  <2>1. StreamInv' /\ Kept
    BY <1>1, <1>5, QuietSteps, TakeStep, RcvStep, DeliverStep DEF Program, uart_irq_handler
  <2>2. UNCHANGED <<session, uartTx, line, host, late>> /\ finish' \in 0 .. 3
        /\ (gotFinish' <=> gotFinish)
    <3>1. CASE sim_halt
      BY <1>1, <3>1 DEF sim_halt, hostVars, Sending, gotFinish
    <3>2. CASE ~sim_halt
      <4>1. UNCHANGED <<session, uartTx, line, host, late, finish>>
        BY <1>5, <3>2 DEF Program, uart_irq_handler, OutPoll, OutWrite, OutDone, InPoll, InTake,
           Mask, RcvEmpty, RcvTake, RcvCompare, RcvEmptyHead, RcvEmptyTail, RcvAdvance, RcvLoad,
           RcvStore, Unmask, MoreToCome, Irq, IrqDeliver, simVars, hostVars
      <4> QED BY <1>1, <4>1 DEF Sending, gotFinish
    <3> QED BY <3>1, <3>2
  <2> QED BY <1>1, <1>2, <2>1, <2>2, FirmwareKeepsLine DEF ConsoleInv
<1>6. CASE ConsoleOver \/ UNCHANGED consoleVars
  <2>1. UNCHANGED consoleVars
    BY <1>6 DEF ConsoleOver
  <2>2. UNCHANGED <<session, rx, prog, isr, mie, read, elem, nelem, nelem_reg, rcv_cqueue, lost,
                    uartTx, line, host, late, finish>>
    BY <2>1 DEF consoleVars, hostVars, streamVars
  <2>3. StreamInv' /\ Kept
    BY <1>1, <2>2, AloneKept
  <2>4. finish' \in 0 .. 3 /\ (gotFinish' <=> gotFinish)
    BY <1>1, <2>2 DEF Sending, gotFinish
  <2> QED BY <1>1, <1>2, <2>2, <2>3, <2>4, FirmwareKeepsLine DEF ConsoleInv
<1> QED BY <1>3, <1>4, <1>5, <1>6 DEF ConsoleNext, Simulation

\* The invariant says what the run checks of the firmware's bytes.
LEMMA FirmwareHolds == ConsoleInv => FirmwareReceives
<1> SUFFICES ASSUME ConsoleInv, lost = {}, ~late, StreamAtRest
             PROVE  IsPrefix(read \o Contents(rcv_cqueue) \o rx.fifo, Sent)
  BY DEF FirmwareReceives, ReceivedInOrder
<1>1. IsPrefix(Stream, Sent)
  BY DEF ConsoleInv, LineInv, Together
<1>2. Held = Contents(rcv_cqueue)
  BY DEF StreamAtRest, Held
<1> QED BY <1>1, <1>2 DEF Stream

\* Neither direction of the serial line loses, repeats, reorders or alters a byte,
\* and the driver counts the bytes it holds right: what the host has is what the
\* program wrote, and what the program has read, the driver holds and the FIFO of
\* the receiver holds is what the host sent, as long as no byte is dropped for want
\* of room and no start bit meets a tick of the idle baud counter.  For bit periods
\* of four clocks or more, bytes of fewer than 254 bits, FIFOs and queues of every
\* size, and every session.
THEOREM StreamsKept ==
  ASSUME Paced, StartsClean
  PROVE  ConsoleSpec => []StreamsInOrder
<1>1. ConsoleInit => ConsoleInv
  BY ConsoleInitially
<1>2. ConsoleInv /\ [ConsoleNext]_consoleVars => ConsoleInv'
  BY ConsoleStep
<1>3. ConsoleInv => StreamsInOrder
  <2> SUFFICES ASSUME ConsoleInv PROVE StreamsInOrder
    OBVIOUS
  <2>1. HostInv /\ StreamInv
    BY DEF ConsoleInv
  <2> QED BY <2>1, HostHolds, CountHolds, FirmwareHolds DEF StreamsInOrder
<1> QED BY <1>1, <1>2, <1>3, PTL DEF ConsoleSpec
=============================================================================
