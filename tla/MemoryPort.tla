----------------------------- MODULE MemoryPort -----------------------------
(***************************************************************************)
(* What the data side of the core promises its user: an in-order memory    *)
(* port.  Transfers are performed in the order they were issued, answered  *)
(* in that order too.  A bufferable store may be answered before it has    *)
(* been performed, any other transfer when it is.                          *)
(***************************************************************************)
EXTENDS Naturals, Sequences

CONSTANTS DEPTH, Transfers

VARIABLES
  queue,   \* issued and not performed, oldest first
  owed     \* issued and not answered, oldest first

Init == queue = <<>> /\ owed = <<>>

Less(q, removed) == IF removed THEN Tail(q) ELSE q

\* In one clock cycle a transfer may be issued, one performed and one answered.
Clock(issue, perform, answer) ==
  /\ issue # <<>> => Len(queue) < DEPTH
  /\ perform => queue # <<>>
  /\ answer => /\ owed # <<>>
               /\ Head(owed).bufferable \/ Len(owed) > Len(Less(queue, perform))
  /\ perform /\ ~Head(queue).bufferable => answer
  /\ queue' = Less(queue, perform) \o issue
  /\ owed' = Less(owed, answer) \o issue

Next == \E issue \in {<<>>} \cup {<<t>> : t \in Transfers}, perform, answer \in BOOLEAN :
          Clock(issue, perform, answer)

Spec == Init /\ [][Next]_<<queue, owed>>
=============================================================================
