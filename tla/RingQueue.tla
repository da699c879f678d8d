----------------------------- MODULE RingQueue -----------------------------
(***************************************************************************)
(* The circular queue of the serial line: libcsoc/cqueue.c on the side of  *)
(* the simulation, and the same functions, static, in lib/vstream.c of the *)
(* firmware (which also counts the elements: see Console).  head = -1 is   *)
(* the empty queue.                                                        *)
(***************************************************************************)
EXTENDS Integers, Sequences

CONSTANT CQUEUE_SIZE

ASSUME QueueParameters == CQUEUE_SIZE \in Nat \ {0}

Slots == 0 .. (CQUEUE_SIZE - 1)

\* The slots of a new queue hold what was in memory.
cqueue_init(mem) == [head |-> -1, tail |-> -1, mem |-> mem]

cqueue_empty(q) == q.head = -1

Mut_cqueue_full(q) == q.head = q.tail + 1

cqueue_full(q) ==
  \/ q.head = q.tail + 1
  \/ q.head = 0 /\ q.tail = CQUEUE_SIZE - 1

Following(slot) == (slot + 1) % CQUEUE_SIZE

\* A full queue refuses the element.
cqueue_enq(q, elem) ==
  IF cqueue_full(q) THEN q
  ELSE LET last == Following(q.tail)
       IN  [head |-> IF cqueue_empty(q) THEN 0 ELSE q.head,
            tail |-> last,
            mem |-> [q.mem EXCEPT ![last] = elem]]

\* The element cqueue_deq gives, and the queue it leaves, when not empty.
FirstOf(q) == q.mem[q.head]

cqueue_deq(q) ==
  IF q.head = q.tail THEN [q EXCEPT !.head = -1, !.tail = -1]
                     ELSE [q EXCEPT !.head = Following(q.head)]
-----------------------------------------------------------------------------
(* What the queue holds, first element first.                              *)

Length(q) ==
  IF cqueue_empty(q) THEN 0
  ELSE IF q.head <= q.tail THEN q.tail - q.head + 1
  ELSE q.tail - q.head + 1 + CQUEUE_SIZE

Slot(q, i) == IF q.head + i - 1 < CQUEUE_SIZE THEN q.head + i - 1
                                              ELSE q.head + i - 1 - CQUEUE_SIZE

Contents(q) == [i \in 1 .. Length(q) |-> q.mem[Slot(q, i)]]

Queues(Elements) ==
  {q \in [head : Slots \cup {-1}, tail : Slots \cup {-1}, mem : [Slots -> Elements]] :
     q.head = -1 <=> q.tail = -1}
=============================================================================
