-------------------------- MODULE FetchPathProofs --------------------------
(***************************************************************************)
(* Theorems about the fetch path, for a buffer of any depth from three, any *)
(* number of transfers in flight below it, an address space of any size and *)
(* any jumps.                                                               *)
(*                                                                         *)
(* All three follow from one invariant, FetchInv: the buffer is the front   *)
(* of the stream that begins at addr_q (BufferInv), what is in flight is    *)
(* n_flush_q words to drop and then the stream's next ones (FlightInv), the *)
(* prefetcher goes on behind them (AddressInv) and keeps them few enough    *)
(* for the buffer (RoomInv), which it decides from a count of instructions  *)
(* (CountInv).  A cycle without a jump keeps each part (OnwardInv), one     *)
(* with a jump begins a new stream (JumpInv).                               *)
(***************************************************************************)
EXTENDS FetchPath, Integers, FiniteSetTheorems, FunctionTheorems, SequenceTheorems, TLAPS

-----------------------------------------------------------------------------
(* The buffer as a ring: the slot j places after r, and the place of slot s. *)
At(r, j)  == IF r + j < ALBUF_DEPTH THEN r + j ELSE r + j - ALBUF_DEPTH
Off(r, s) == IF s >= r THEN s - r ELSE s - r + ALBUF_DEPTH

(* The word j after base, in an address space that wraps.                    *)
Fwd(base, j) == IF base + j < Words THEN base + j ELSE base + j - Words

(* Slots of b hold the k words of the stream that begins at word base.       *)
Holds(b, r, k, base) ==
  \A s \in Slots :
    IF Off(r, s) < k
    THEN \E e \in Entries : b[s] = {e} /\ ~e.stale /\ e.word = Fwd(base, Off(r, s))
    ELSE b[s] = {}

(* The instruction at half h of the buffer, in halves.                       *)
WidthIn(b, r, h) == IF h % 2 \in The(b[At(r, h \div 2)]).wide THEN 2 ELSE 1

(* S are the starts of the instructions that follow one another from first   *)
(* to end.                                                                   *)
Chain(b, r, first, end, S) ==
  /\ \A h \in S : first <= h /\ h + WidthIn(b, r, h) <= end
  /\ first \in S \/ first = end
  /\ \A h \in S : h + WidthIn(b, r, h) \in S \/ h + WidthIn(b, r, h) = end
  /\ \A h \in S : h = first \/ \E g \in S : g + WidthIn(b, r, g) = h
  /\ end = first \/ \E g \in S : g + WidthIn(b, r, g) = end

(* Where the complete instructions in k words end, and what follows there.   *)
End(k, aligned, complete) ==
  IF aligned THEN 2 * k ELSE IF complete THEN 1 ELSE 2 * k - 1
Tail_(b, r, k, first, aligned, complete) ==
  IF aligned THEN TRUE
  ELSE IF complete THEN k = 0 /\ first = 1
  ELSE k > 0 /\ 1 \in The(b[At(r, k - 1)]).wide

-----------------------------------------------------------------------------
Option(T) == {{}} \cup {{x} : x \in T}
Num(S)    == IF S = {} THEN 0 ELSE 1

FetchTypeOK ==
  /\ boot \in {"RESET", "DEBUG", "RUN"}
  /\ addr_q \in Halves /\ is_ptr_q \in BOOLEAN
  /\ buf \in [Slots -> SUBSET Entries] /\ rptr \in Slots /\ wptr \in Slots
  /\ aligned_q \in BOOLEAN /\ complete_q \in BOOLEAN
  /\ instr_cnt_q \in Int /\ pop_q \in BOOLEAN
  /\ n_flush_q \in Nat /\ outstanding_cnt_q \in Nat
  /\ ptr_fetch_accepted_q \in BOOLEAN /\ branch_wait \in BOOLEAN
  /\ trans_addr_q \in 0..(Words - 1) /\ trans_ptr_access_q \in BOOLEAN
  /\ mpu_state \in {"IDLE", "ERR_WAIT", "ERR_RESP"}
  /\ obi_a_req_q \in Option(Flights) /\ slave \in Seq(Flights) /\ blocked \in Option(Flights)

(* Words of the current stream: in the buffer and on their way.              *)
Live == Held + outstanding_cnt_q - n_flush_q

BufferInv == wptr = At(rptr, Held) /\ Held \in 0..ALBUF_DEPTH /\ Holds(buf, rptr, Held, Word(addr_q))

(* The i-th fetch on its way, with n to drop, k words of the stream from base *)
(* in the buffer: one to drop, or the next of the stream.                    *)
Place(f, i, n, base, k) ==
  /\ f.stale <=> i <= n
  /\ i > n => f.word = Fwd(base, k + i - n - 1)
IsAt(f, i) == Place(f, i, n_flush_q, Word(addr_q), Held)

FlightInv ==
  /\ outstanding_cnt_q = Len(slave) + Num(obi_a_req_q) + Num(blocked)
  /\ \A i \in 1..Len(slave) : IsAt(slave[i], i)
  /\ \A f \in obi_a_req_q : IsAt(f, Len(slave) + 1)
  /\ \A f \in blocked : IsAt(f, outstanding_cnt_q)
  /\ mpu_state = "IDLE" <=> blocked = {}
  /\ mpu_state = "ERR_RESP" => outstanding_cnt_q = 1

(* The prefetcher goes on where the stream ends.                             *)
AddressInv ==
  boot # "RESET" =>
    (IF branch_wait THEN trans_addr_q ELSE Fwd(trans_addr_q, 1)) = Fwd(Word(addr_q), Live)

(* A jump that waits has nothing in flight; a pointer is fetched alone.      *)
PointerInv ==
  /\ is_ptr_q => Half(addr_q) = 0
  /\ branch_wait => /\ Live = 0 /\ Held = 0 /\ ~ptr_fetch_accepted_q
                    /\ is_ptr_q <=> trans_ptr_access_q
  /\ is_ptr_q => branch_wait \/ ptr_fetch_accepted_q
  /\ ptr_fetch_accepted_q => Live = (IF is_ptr_q THEN 1 ELSE 0)

RoomInv ==
  /\ n_flush_q <= outstanding_cnt_q /\ outstanding_cnt_q <= MAX_OUTSTANDING
  /\ Live <= ALBUF_DEPTH

BootInv ==
  boot = "RESET" => /\ Held = 0 /\ outstanding_cnt_q = 0
                    /\ ~is_ptr_q /\ ~ptr_fetch_accepted_q /\ ~branch_wait
                    /\ instr_cnt_q = 0 /\ ~pop_q

(* The set of starts and the place of the next one, before a word comes in.  *)
Begun(b, r, k, first, al, co, S) ==
  /\ S \in SUBSET Nat /\ IsFiniteSet(S)
  /\ Chain(b, r, first, End(k, al, co), S)
  /\ Tail_(b, r, k, first, al, co)

(* The count is that of the complete instructions in the buffer, and the     *)
(* next word begins where it says.                                           *)
CountInv ==
  boot # "RESET" /\ ~is_ptr_q /\ ~ptr_fetch_accepted_q =>
    \E S \in SUBSET (0..(2 * Held - 1)) :
      Begun(buf, rptr, Held, Half(addr_q), aligned_q, complete_q, S) /\ Cnt = Cardinality(S)

FetchInv ==
  /\ FetchTypeOK /\ BufferInv /\ FlightInv /\ AddressInv /\ PointerInv /\ RoomInv /\ BootInv
  /\ CountInv

-----------------------------------------------------------------------------
(* Numbers that wrap, the ring and the halves of an address.                *)
LEMMA Params ==
  /\ MAX_OUTSTANDING \in Nat /\ 0 < MAX_OUTSTANDING
  /\ ALBUF_DEPTH \in Nat /\ 2 < ALBUF_DEPTH /\ MAX_OUTSTANDING < ALBUF_DEPTH
  /\ Words \in Nat /\ ALBUF_DEPTH < Words
BY FetchPathParameters

LEMMA ModOnce ==
  ASSUME NEW m \in Nat, 0 < m, NEW x \in Nat, x < 2 * m
  PROVE  x % m = IF x < m THEN x ELSE x - m
OBVIOUS

LEMMA AddressParts ==
  ASSUME NEW a \in Halves
  PROVE  Word(a) \in 0..(Words - 1) /\ Half(a) \in {0, 1} /\ a = 2 * Word(a) + Half(a)
BY Params DEF Halves, Word, Half

LEMMA RingFacts ==
  ASSUME NEW r \in Slots
  PROVE  /\ Next1(r) = At(r, 1)
         /\ \A j \in 0..(ALBUF_DEPTH - 1) :
              At(r, j) \in Slots /\ Off(r, At(r, j)) = j /\ At(r, j) = (r + j) % ALBUF_DEPTH
         /\ \A s \in Slots : Off(r, s) \in 0..(ALBUF_DEPTH - 1) /\ At(r, Off(r, s)) = s
<1>1. \A j \in 0..(ALBUF_DEPTH - 1) : At(r, j) = (r + j) % ALBUF_DEPTH
  BY Params, ModOnce DEF At, Slots
<1>2. 1 \in 0..(ALBUF_DEPTH - 1)
  BY Params
<1>3. Next1(r) = At(r, 1)
  BY <1>1, <1>2 DEF Next1
<1>. QED
  BY Params, <1>1, <1>3 DEF At, Off, Slots

Put(b, s, new) == [b EXCEPT ![s] = new]

(* A word of the stream enters at the slot behind the others.                *)
LEMMA Push ==
  ASSUME NEW b \in [Slots -> SUBSET Entries], NEW r \in Slots,
         NEW k \in 0..(ALBUF_DEPTH - 1), NEW base \in 0..(Words - 1), Holds(b, r, k, base),
         NEW e \in Entries, ~e.stale, e.word = Fwd(base, k)
  PROVE  /\ b[At(r, k)] = {} /\ Put(b, At(r, k), {e}) \in [Slots -> SUBSET Entries]
         /\ Holds(Put(b, At(r, k), {e}), r, k + 1, base) /\ Put(b, At(r, k), {e})[At(r, k)] = {e}
         /\ \A j \in 0..(k - 1) : Put(b, At(r, k), {e})[At(r, j)] = b[At(r, j)]
         /\ Next1(At(r, k)) = At(r, k + 1)
<1>. DEFINE c == Put(b, At(r, k), {e})
<1>7. c = [b EXCEPT ![At(r, k)] = {e}]
  BY DEF Put
<1>. HIDE DEF c
<1>1. At(r, k) \in Slots /\ Off(r, At(r, k)) = k /\ ~(k < k)
  BY Params, RingFacts
<1>2. b[At(r, k)] = {}
  BY <1>1 DEF Holds
<1>3. c \in [Slots -> SUBSET Entries] /\ c[At(r, k)] = {e}
  BY <1>1, <1>7
<1>4. \A j \in 0..(k - 1) : At(r, j) # At(r, k) /\ At(r, j) \in Slots
  BY Params DEF At, Slots
<1>8. \A j \in 0..(k - 1) : c[At(r, j)] = b[At(r, j)]
  BY <1>4, <1>7
<1>5. Next1(At(r, k)) = At(r, k + 1)
  <2>1. Next1(At(r, k)) = At(At(r, k), 1)
    BY <1>1, RingFacts
  <2>. QED
    BY <2>1, Params DEF At, Slots
<1>6. ASSUME NEW s \in Slots
      PROVE  IF Off(r, s) < k + 1
             THEN \E x \in Entries : c[s] = {x} /\ ~x.stale /\ x.word = Fwd(base, Off(r, s))
             ELSE c[s] = {}
  <2>1. CASE s = At(r, k)
    BY <1>1, <1>3, <2>1
  <2>2. CASE s # At(r, k)
    <3>1. c[s] = b[s]
      BY <1>1, <1>7, <2>2
    <3>2. Off(r, s) # k /\ Off(r, s) \in Nat
      BY <2>2, RingFacts
    <3>3. Off(r, s) < k + 1 <=> Off(r, s) < k
      BY <3>2
    <3>. QED
      BY <3>1, <3>3 DEF Holds
  <2>. QED
    BY <2>1, <2>2
<1>. QED
  <2>1. Holds(c, r, k + 1, base)
    BY <1>6 DEF Holds
  <2>. QED
    BY <1>2, <1>3, <1>5, <1>8, <2>1 DEF c

(* The oldest word leaves.                                                   *)
LEMMA Pop ==
  ASSUME NEW b \in [Slots -> SUBSET Entries], NEW r \in Slots,
         NEW k \in 1..ALBUF_DEPTH, NEW base \in 0..(Words - 1), Holds(b, r, k, base)
  PROVE  /\ Put(b, r, {}) \in [Slots -> SUBSET Entries] /\ Next1(r) \in Slots
         /\ Holds(Put(b, r, {}), Next1(r), k - 1, Fwd(base, 1))
         /\ \A j \in 0..(k - 2) : Put(b, r, {})[At(Next1(r), j)] = b[At(r, j + 1)]
         /\ At(r, k) = At(Next1(r), k - 1)
<1>. DEFINE c == Put(b, r, {})
<1>6. c = [b EXCEPT ![r] = {}]
  BY DEF Put
<1>. HIDE DEF c
<1>. DEFINE q == Next1(r)
<1>1. q = At(r, 1) /\ q \in Slots
  BY RingFacts, Params
<1>2. c \in [Slots -> SUBSET Entries]
  BY <1>6
<1>3. \A j \in 0..(k - 2) : At(q, j) = At(r, j + 1) /\ At(r, j + 1) # r /\ At(r, j + 1) \in Slots
  BY <1>1, Params DEF At, Slots
<1>4. At(r, k) = At(q, k - 1)
  BY <1>1, Params DEF At, Slots
<1>7. \A j \in 0..(k - 2) : c[At(q, j)] = b[At(r, j + 1)]
  BY <1>3, <1>6
<1>5. ASSUME NEW s \in Slots
      PROVE  IF Off(q, s) < k - 1
             THEN \E x \in Entries : c[s] = {x} /\ ~x.stale /\ x.word = Fwd(Fwd(base, 1), Off(q, s))
             ELSE c[s] = {}
  <2>1. CASE s = r
    <3>1. ~(Off(q, s) < k - 1)
      BY <1>1, <2>1, Params DEF At, Off, Slots
    <3>. QED
      BY <1>6, <2>1, <3>1
  <2>2. CASE s # r
    <3>1. Off(q, s) = Off(r, s) - 1 /\ Off(r, s) \in 1..(ALBUF_DEPTH - 1)
      BY <1>1, <2>2, Params DEF At, Off, Slots
    <3>2. Fwd(Fwd(base, 1), Off(q, s)) = Fwd(base, Off(r, s))
      BY <3>1, Params DEF Fwd
    <3>3. Off(q, s) < k - 1 <=> Off(r, s) < k
      BY <3>1
    <3>4. c[s] = b[s]
      BY <1>6, <2>2
    <3>. QED
      BY <3>2, <3>3, <3>4 DEF Holds
  <2>. QED
    BY <2>1, <2>2
<1>. QED
  BY <1>1, <1>2, <1>3, <1>4, <1>5, <1>7 DEF Holds, c

(* The number of words in the buffer is its size, and the oldest are first.  *)
Count(b) == Cardinality({s \in Slots : b[s] # {}})

LEMMA HeldIs ==
  ASSUME NEW b \in [Slots -> SUBSET Entries], NEW r \in Slots,
         NEW k \in 0..ALBUF_DEPTH, NEW base, Holds(b, r, k, base)
  PROVE  Count(b) = k
<1>. DEFINE S == {s \in Slots : b[s] # {}}
            f == [j \in 1..k |-> At(r, j - 1)]
<1>1. \A s \in Slots : b[s] # {} <=> Off(r, s) < k
  BY DEF Holds
<1>2. \A j \in 1..k : At(r, j - 1) \in Slots /\ Off(r, At(r, j - 1)) = j - 1
  <2>1. \A j \in 1..k : j - 1 \in 0..(ALBUF_DEPTH - 1)
    BY Params
  <2>. QED
    BY <2>1, RingFacts
<1>3. f \in [1..k -> S]
  BY <1>1, <1>2
<1>4. ASSUME NEW i \in 1..k, NEW j \in 1..k, f[i] = f[j] PROVE i = j
  <2>1. At(r, i - 1) = At(r, j - 1)
    BY <1>4
  <2>2. i - 1 = j - 1
    BY <1>2, <2>1
  <2>. QED
    BY <2>2
<1>5. ASSUME NEW s \in S PROVE \E j \in 1..k : f[j] = s
  <2>1. Off(r, s) \in Nat /\ Off(r, s) < k /\ At(r, Off(r, s)) = s
    BY <1>1, RingFacts
  <2>2. Off(r, s) + 1 \in 1..k /\ f[Off(r, s) + 1] = s
    BY <2>1
  <2>. QED
    BY <2>2
<1>6. f \in Bijection(1..k, S)
  BY <1>3, <1>4, <1>5, Fun_IsBij
<1>7. ExistsBijection(1..k, S)
  BY <1>6, Fun_ExistsBij
<1>8. IsFiniteSet(1..k) /\ Cardinality(1..k) = k
  <2>1. IsFiniteSet(1..k) /\ Cardinality(1..k) = IF 1 > k THEN 0 ELSE k - 1 + 1
    BY FS_Interval
  <2>. QED
    BY <2>1
<1>9. Cardinality(S) = Cardinality(1..k)
  BY <1>7, <1>8, FS_Bijection
<1>. QED
  BY <1>8, <1>9 DEF Count

-----------------------------------------------------------------------------
(* Chains of instructions.                                                  *)
LEMMA TheOne == \A x : The({x}) = x
BY DEF The

LEMMA WidthIs == \A b, r, h : WidthIn(b, r, h) \in {1, 2}
BY DEF WidthIn

LEMMA HalvesOf ==
  ASSUME NEW k \in Int
  PROVE  /\ (2 * k) \div 2 = k /\ (2 * k) % 2 = 0
         /\ (2 * k + 1) \div 2 = k /\ (2 * k + 1) % 2 = 1
         /\ (2 * k - 1) \div 2 = k - 1 /\ (2 * k - 1) % 2 = 1
OBVIOUS

(* A chain depends on the widths at its members only.                        *)
LEMMA ChainSame ==
  ASSUME NEW b, NEW c, NEW r, NEW q, NEW first, NEW end, NEW S,
         Chain(b, r, first, end, S), \A h \in S : WidthIn(c, q, h) = WidthIn(b, r, h)
  PROVE  Chain(c, q, first, end, S)
BY DEF Chain

(* One more instruction at the end.                                         *)
With(S, h) == S \cup {h}

LEMMA Extend ==
  ASSUME NEW b, NEW r, NEW first \in Nat, NEW end \in Nat, NEW S \in SUBSET Nat, IsFiniteSet(S),
         Chain(b, r, first, end, S)
  PROVE  /\ Chain(b, r, first, end + WidthIn(b, r, end), With(S, end))
         /\ IsFiniteSet(With(S, end)) /\ Cardinality(With(S, end)) = Cardinality(S) + 1
         /\ Cardinality(S) \in Nat
<1>. DEFINE w(h) == WidthIn(b, r, h)
<1>1. \A h \in Nat : w(h) \in {1, 2}
  BY WidthIs
<1>. HIDE DEF w
<1>2. /\ \A h \in S : first <= h /\ h + w(h) <= end
      /\ first \in S \/ first = end
      /\ \A h \in S : h + w(h) \in S \/ h + w(h) = end
      /\ \A h \in S : h = first \/ \E g \in S : g + w(g) = h
      /\ end = first \/ \E g \in S : g + w(g) = end
  BY DEF Chain, w
<1>3. end \notin S /\ first <= end
  BY <1>1, <1>2
<1>4. /\ \A h \in S \cup {end} : first <= h /\ h + w(h) <= end + w(end)
      /\ first \in S \cup {end} \/ first = end + w(end)
      /\ \A h \in S \cup {end} : h + w(h) \in S \cup {end} \/ h + w(h) = end + w(end)
      /\ \A h \in S \cup {end} : h = first \/ \E g \in S \cup {end} : g + w(g) = h
      /\ end + w(end) = first \/ \E g \in S \cup {end} : g + w(g) = end + w(end)
  <2>1. \A h \in S \cup {end} : first <= h /\ h + w(h) <= end + w(end)
    BY <1>1, <1>2, <1>3
  <2>2. first \in S \cup {end}
    BY <1>2
  <2>3. \A h \in S \cup {end} : h + w(h) \in S \cup {end} \/ h + w(h) = end + w(end)
    BY <1>2
  <2>4. \A h \in S \cup {end} : h = first \/ \E g \in S \cup {end} : g + w(g) = h
    BY <1>2
  <2>. QED
    BY <2>1, <2>2, <2>3, <2>4
<1>5. /\ IsFiniteSet(S \cup {end}) /\ Cardinality(S \cup {end}) = Cardinality(S) + 1
      /\ Cardinality(S) \in Nat
  BY <1>3, FS_AddElement, FS_CardinalityType
<1>. QED
  BY <1>4, <1>5 DEF Chain, w, With

(* The first instruction leaves.                                            *)
LEMMA Shorten ==
  ASSUME NEW b, NEW r, NEW first \in Nat, NEW end \in Nat, NEW S \in SUBSET Nat, IsFiniteSet(S),
         Chain(b, r, first, end, S), first # end
  PROVE  /\ Chain(b, r, first + WidthIn(b, r, first), end, S \ {first})
         /\ IsFiniteSet(S \ {first}) /\ Cardinality(S \ {first}) = Cardinality(S) - 1
         /\ Cardinality(S) \in Nat /\ first + WidthIn(b, r, first) <= end
<1>. DEFINE w(h) == WidthIn(b, r, h)
            U == S \ {first}
<1>1. \A h \in Nat : w(h) \in {1, 2}
  BY WidthIs
<1>. HIDE DEF w
<1>2. /\ \A h \in S : first <= h /\ h + w(h) <= end
      /\ first \in S
      /\ \A h \in S : h + w(h) \in S \/ h + w(h) = end
      /\ \A h \in S : h = first \/ \E g \in S : g + w(g) = h
      /\ end = first \/ \E g \in S : g + w(g) = end
  BY DEF Chain, w
<1>. PICK next \in Nat : next = first + w(first)
  BY <1>1
<1>3. next > first /\ next <= end /\ next <= first + 2
  BY <1>1, <1>2
<1>4. \A h \in U : next <= h
  <2>1. TAKE h \in U
  <2>2. PICK g \in S : g + w(g) = h
    BY <1>2
  <2>3. CASE g = first
    <3>1. h = next
      BY <2>2, <2>3
    <3>. QED
      BY <3>1
  <2>4. CASE g # first
    <3>1. g >= first + 1 /\ h >= g + 1
      BY <1>1, <1>2, <2>2, <2>4
    <3>. QED
      BY <1>3, <3>1
  <2>. QED
    BY <2>3, <2>4
<1>5. next \in U \/ next = end
  BY <1>2, <1>3
<1>6. \A h \in U : h + w(h) \in U \/ h + w(h) = end
  <2>1. \A h \in U : h + w(h) # first
    BY <1>1, <1>2
  <2>. QED
    BY <1>2, <2>1
<1>7. /\ \A h \in U : h = next \/ \E g \in U : g + w(g) = h
      /\ end = next \/ \E g \in U : g + w(g) = end
  BY <1>2
<1>8. /\ IsFiniteSet(U) /\ Cardinality(U) = Cardinality(S) - 1
      /\ Cardinality(S) \in Nat
  BY <1>2, FS_RemoveElement, FS_CardinalityType
<1>. QED
  BY <1>2, <1>3, <1>4, <1>5, <1>6, <1>7, <1>8 DEF Chain, w

(* The halves as the next word counts them.                                 *)
Earlier(U) == {h - 2 : h \in U}

LEMMA ShiftedSet ==
  ASSUME NEW U \in SUBSET Nat, IsFiniteSet(U)
  PROVE  IsFiniteSet(Earlier(U)) /\ Cardinality(Earlier(U)) = Cardinality(U)
<1>. DEFINE T == {h - 2 : h \in U}
            f == [h \in U |-> h - 2]
<1>1. f \in [U -> T]
  OBVIOUS
<1>2. \A g, h \in U : f[g] = f[h] => g = h
  OBVIOUS
<1>3. \A t \in T : \E h \in U : f[h] = t
  OBVIOUS
<1>4. f \in Bijection(U, T)
  BY <1>1, <1>2, <1>3, Fun_IsBij
<1>. QED
  BY <1>4, Fun_ExistsBij, FS_Bijection DEF Earlier

(* The same chain seen from the next word.                                  *)
LEMMA ShiftedChain ==
  ASSUME NEW b, NEW r, NEW c, NEW q, NEW first \in Nat, NEW end \in Nat,
         NEW U \in SUBSET Nat, Chain(b, r, first, end, U), 2 <= first,
         \A h \in U : WidthIn(c, q, h - 2) = WidthIn(b, r, h)
  PROVE  Chain(c, q, first - 2, end - 2, Earlier(U)) /\ Earlier(U) \in SUBSET Nat
<1>. DEFINE w(h) == WidthIn(b, r, h)
            v(h) == WidthIn(c, q, h)
            T == {h - 2 : h \in U}
<1>1. \A h \in U : w(h) \in {1, 2} /\ v(h - 2) = w(h)
  BY WidthIs
<1>. HIDE DEF w, v
<1>2. /\ \A h \in U : first <= h /\ h + w(h) <= end
      /\ first \in U \/ first = end
      /\ \A h \in U : h + w(h) \in U \/ h + w(h) = end
      /\ \A h \in U : h = first \/ \E g \in U : g + w(g) = h
      /\ end = first \/ \E g \in U : g + w(g) = end
  BY DEF Chain, w
<1>3. \A h \in U : first - 2 <= h - 2 /\ (h - 2) + v(h - 2) <= end - 2 /\ h - 2 \in Nat
  BY <1>1, <1>2
<1>4. \A h \in U : (h - 2) + v(h - 2) \in T \/ (h - 2) + v(h - 2) = end - 2
  <2>1. \A h \in U : (h - 2) + v(h - 2) = (h + w(h)) - 2
    BY <1>1
  <2>. QED
    BY <1>2, <2>1
<1>5. \A h \in U : h - 2 = first - 2 \/ \E g \in U : (g - 2) + v(g - 2) = h - 2
  <2>1. \A g, h \in U : g + w(g) = h => (g - 2) + v(g - 2) = h - 2
    BY <1>1
  <2>. QED
    BY <1>2, <2>1
<1>6. end - 2 = first - 2 \/ \E g \in U : (g - 2) + v(g - 2) = end - 2
  <2>1. \A g \in U : g + w(g) = end => (g - 2) + v(g - 2) = end - 2
    BY <1>1
  <2>. QED
    BY <1>2, <2>1
<1>7. /\ \A t \in T : first - 2 <= t /\ t + v(t) <= end - 2 /\ t \in Nat
      /\ first - 2 \in T \/ first - 2 = end - 2
      /\ \A t \in T : t + v(t) \in T \/ t + v(t) = end - 2
      /\ \A t \in T : t = first - 2 \/ \E g \in T : g + v(g) = t
      /\ end - 2 = first - 2 \/ \E g \in T : g + v(g) = end - 2
  <2>1. \A t \in T : first - 2 <= t /\ t + v(t) <= end - 2 /\ t \in Nat
    BY <1>3
  <2>2. first - 2 \in T \/ first - 2 = end - 2
    BY <1>2
  <2>3. \A t \in T : t + v(t) \in T \/ t + v(t) = end - 2
    BY <1>4
  <2>4. \A t \in T : t = first - 2 \/ \E g \in T : g + v(g) = t
    BY <1>5
  <2>5. end - 2 = first - 2 \/ \E g \in T : g + v(g) = end - 2
    BY <1>6
  <2>. QED
    BY <2>1, <2>2, <2>3, <2>4, <2>5
<1>. QED
  <2>1. Chain(c, q, first - 2, end - 2, T)
    BY <1>7 DEF Chain, v
  <2>2. T \in SUBSET Nat
    BY <1>7
  <2>. QED
    BY <2>1, <2>2 DEF Earlier

(* A word that comes in completes as many instructions as the buffer counts. *)
Coming(b, r, k, first, S, in, c, al, co, n) ==
  /\ k \in Nat /\ first \in {0, 1} /\ Begun(b, r, k, first, aligned_q, complete_q, S)
  /\ aligned_q \in BOOLEAN /\ complete_q \in BOOLEAN
  /\ \E e : in = {e}
  /\ c[At(r, k)] = in /\ \A j \in 0..(k - 1) : c[At(r, j)] = b[At(r, j)]
  /\ al = aligned_n({}, in) /\ co = complete_n({}, in) /\ n = n_incoming_ins(in)

(* The word that comes in continues the chain where aligned_q and complete_q say,*)
(* and the count grows by the instructions that it completes.                *)
LEMMA PushChain ==
  ASSUME NEW b, NEW r, NEW k, NEW first, NEW S, NEW in, NEW c, NEW al, NEW co, NEW n,
         Coming(b, r, k, first, S, in, c, al, co, n)
  PROVE  /\ al \in BOOLEAN /\ co \in BOOLEAN /\ n \in Nat /\ Cardinality(S) \in Nat
         /\ \E T : Cardinality(T) = Cardinality(S) + n /\ Begun(c, r, k + 1, first, al, co, T)
<1>. PICK e : in = {e}
  BY DEF Coming
<1>0. c[At(r, k)] = {e} /\ \A j \in 0..(k - 1) : c[At(r, j)] = b[At(r, j)]
  BY DEF Coming
<1>20. /\ k \in Nat /\ first \in {0, 1} /\ Begun(b, r, k, first, aligned_q, complete_q, S)
       /\ aligned_q \in BOOLEAN /\ complete_q \in BOOLEAN
  BY DEF Coming
<1>22. al = aligned_n({}, {e}) /\ co = complete_n({}, {e}) /\ n = n_incoming_ins({e})
  BY DEF Coming
<1>. USE <1>20
<1>. DEFINE w == e.wide
            end == End(k, aligned_q, complete_q)
<1>1. /\ al <=> IF aligned_q /\ 0 \in w THEN aligned_q ELSE 1 \notin w
      /\ co <=> IF aligned_q /\ 0 \in w THEN complete_q ELSE 1 \notin w
      /\ al \in BOOLEAN /\ co \in BOOLEAN
  <2>1. The({e}) = e /\ {e} # {}
    BY TheOne
  <2>. QED
    BY <1>22, <2>1 DEF aligned_n, complete_n
<1>2. n =
        IF aligned_q THEN IF 0 \notin w /\ 1 \notin w THEN 2 ELSE 1
        ELSE (IF complete_q THEN 0 ELSE 1) + (IF 1 \in w THEN 0 ELSE 1)
  <2>1. The({e}) = e /\ {e} # {}
    BY TheOne
  <2>. QED
    BY <1>22, <2>1 DEF n_incoming_ins
<1>3. /\ WidthIn(c, r, 2 * k) = IF 0 \in w THEN 2 ELSE 1
      /\ WidthIn(c, r, 2 * k + 1) = IF 1 \in w THEN 2 ELSE 1
      /\ The(c[At(r, k)]).wide = w
  <2>1. The(c[At(r, k)]) = e
    BY <1>0, TheOne
  <2>2. /\ (2 * k) \div 2 = k /\ (2 * k) % 2 = 0
        /\ (2 * k + 1) \div 2 = k /\ (2 * k + 1) % 2 = 1
    BY HalvesOf
  <2>. QED
    BY <2>1, <2>2 DEF WidthIn
<1>4. end \in Nat /\ end <= 2 * k + 1 /\ (aligned_q => end = 2 * k)
  BY DEF End, Begun, Tail_
<1>5. ASSUME NEW h \in S PROVE WidthIn(c, r, h) = WidthIn(b, r, h)
  <2>1. h \in Nat /\ h + WidthIn(b, r, h) <= end /\ WidthIn(b, r, h) \in {1, 2}
    BY WidthIs DEF Begun, Chain
  <2>2. h < 2 * k
    <3>1. CASE aligned_q
      <4>1. end = 2 * k
        BY <1>4, <3>1
      <4>. HIDE DEF end
      <4>. QED
        BY <2>1, <4>1
    <3>2. CASE ~aligned_q /\ complete_q
      <4>1. first = 1 /\ end = 1 /\ first <= h
        BY <3>2 DEF Begun, Tail_, Chain, End
      <4>. HIDE DEF end
      <4>. QED
        BY <2>1, <4>1
    <3>3. CASE ~aligned_q /\ ~complete_q
      <4>1. end = 2 * k - 1
        BY <3>3 DEF End
      <4>. HIDE DEF end
      <4>. QED
        BY <2>1, <4>1
    <3>. QED
      BY <3>1, <3>2, <3>3
  <2>3. h \div 2 \in 0..(k - 1)
    BY <2>1, <2>2
  <2>. QED
    BY <1>0, <2>3 DEF WidthIn
<1>. HIDE DEF end
<1>6. Chain(c, r, first, end, S) /\ S \in SUBSET Nat /\ IsFiniteSet(S) /\ first \in Nat
  <2>1. Chain(b, r, first, end, S) /\ S \in SUBSET Nat /\ IsFiniteSet(S)
    BY DEF Begun, end
  <2>2. Chain(c, r, first, end, S)
    BY <1>5, <2>1, ChainSame
  <2>. QED
    BY <2>1, <2>2
<1>7. Cardinality(S) \in Nat
  BY <1>6, FS_CardinalityType
<1>8. n \in Nat
  BY <1>2
<1>9. The(c[At(r, k + 1 - 1)]).wide = w
  <2>1. k + 1 - 1 = k
    OBVIOUS
  <2>. QED
    BY <1>3, <2>1
<1>. DEFINE S1 == S \cup {end}
            end1 == end + WidthIn(c, r, end)
<1>10. /\ Chain(c, r, first, end1, S1) /\ IsFiniteSet(S1) /\ Cardinality(S1) = Cardinality(S) + 1
       /\ S1 \in SUBSET Nat /\ end1 \in Nat
  <2>1. WidthIn(c, r, end) \in {1, 2}
    BY WidthIs
  <2>. QED
    <3>1. /\ Chain(c, r, first, end + WidthIn(c, r, end), S \cup {end})
          /\ IsFiniteSet(S \cup {end}) /\ Cardinality(S \cup {end}) = Cardinality(S) + 1
      <4>1. PICK z \in Nat : z = end
        BY <1>4
      <4>2. /\ first \in Nat /\ z \in Nat /\ S \in SUBSET Nat /\ IsFiniteSet(S)
            /\ Chain(c, r, first, z, S)
        BY <1>4, <1>6, <4>1
      <4>3. /\ Chain(c, r, first, z + WidthIn(c, r, z), With(S, z))
            /\ IsFiniteSet(With(S, z)) /\ Cardinality(With(S, z)) = Cardinality(S) + 1
        BY <4>2, Extend
      <4>. QED
        BY <4>1, <4>3 DEF With
    <3>. QED
      BY <1>4, <1>6, <2>1, <3>1
<1>. DEFINE S2 == S1 \cup {end1}
            end2 == end1 + WidthIn(c, r, end1)
<1>11. /\ Chain(c, r, first, end2, S2) /\ IsFiniteSet(S2) /\ Cardinality(S2) = Cardinality(S) + 2
       /\ S2 \in SUBSET Nat
  <2>. HIDE DEF S1, end1
  <2>1. /\ Chain(c, r, first, end1 + WidthIn(c, r, end1), S1 \cup {end1})
        /\ IsFiniteSet(S1 \cup {end1}) /\ Cardinality(S1 \cup {end1}) = Cardinality(S1) + 1
    <3>1. /\ Chain(c, r, first, end1 + WidthIn(c, r, end1), With(S1, end1))
          /\ IsFiniteSet(With(S1, end1)) /\ Cardinality(With(S1, end1)) = Cardinality(S1) + 1
      BY <1>6, <1>10, Extend
    <3>. QED
      BY <3>1 DEF With
  <2>2. S1 \cup {end1} \in SUBSET Nat
    BY <1>10
  <2>3. Cardinality(S1 \cup {end1}) = Cardinality(S) + 2
    BY <1>7, <1>10, <2>1
  <2>. QED
    BY <2>1, <2>2, <2>3
<1>12. /\ End(k + 1, TRUE, co) = 2 * k + 2
       /\ End(k + 1, FALSE, FALSE) = 2 * k + 1
       /\ Tail_(c, r, k + 1, first, TRUE, co)
       /\ 1 \in w => Tail_(c, r, k + 1, first, FALSE, FALSE)
  BY <1>9 DEF End, Tail_
<1>. DEFINE Goal == \E T \in SUBSET Nat :
              /\ IsFiniteSet(T) /\ Cardinality(T) = Cardinality(S) + n
              /\ Chain(c, r, first, End(k + 1, al, co), T)
              /\ Tail_(c, r, k + 1, first, al, co)
<1>. HIDE DEF w, S1, S2
<1>13. ASSUME NEW T \in SUBSET Nat, IsFiniteSet(T), Cardinality(T) = Cardinality(S) + n,
              \/ al = TRUE /\ Chain(c, r, first, 2 * k + 2, T)
              \/ al = FALSE /\ co = FALSE /\ 1 \in w /\ Chain(c, r, first, 2 * k + 1, T)
       PROVE  Goal
  BY <1>12, <1>13
<1>. HIDE DEF Goal
<1>14. ASSUME aligned_q /\ 0 \in w PROVE Goal
  <2>1. al = TRUE /\ n = 1 /\ end1 = 2 * k + 2
    BY <1>1, <1>2, <1>3, <1>4, <1>14
  <2>. QED
    BY <1>10, <1>13, <2>1
<1>15. ASSUME aligned_q /\ 0 \notin w /\ 1 \in w PROVE Goal
  <2>1. al = FALSE /\ co = FALSE /\ n = 1 /\ end1 = 2 * k + 1
    BY <1>1, <1>2, <1>3, <1>4, <1>15
  <2>. QED
    BY <1>10, <1>13, <1>15, <2>1
<1>16. ASSUME aligned_q /\ 0 \notin w /\ 1 \notin w PROVE Goal
  <2>1. al = TRUE /\ n = 2 /\ end1 = 2 * k + 1
    BY <1>1, <1>2, <1>3, <1>4, <1>16
  <2>2. end2 = 2 * k + 2
    BY <1>3, <1>16, <2>1
  <2>. QED
    BY <1>11, <1>13, <2>1, <2>2
<1>17. ASSUME ~aligned_q /\ complete_q PROVE Goal
  <2>1. end = 2 * k + 1
    BY <1>17 DEF Begun, Tail_, End, end
  <2>2. CASE 1 \in w
    <3>1. al = FALSE /\ co = FALSE /\ n = 0
      BY <1>1, <1>2, <1>17, <2>2
    <3>2. Cardinality(S) = Cardinality(S) + n
      BY <1>7, <3>1
    <3>. QED
      BY <1>6, <1>13, <2>1, <2>2, <3>1, <3>2
  <2>3. CASE 1 \notin w
    <3>1. al = TRUE /\ n = 1 /\ end1 = 2 * k + 2
      BY <1>1, <1>2, <1>3, <1>17, <2>1, <2>3
    <3>. QED
      BY <1>10, <1>13, <3>1
  <2>. QED
    BY <2>2, <2>3
<1>18. ASSUME ~aligned_q /\ ~complete_q PROVE Goal
  <2>1. end = 2 * k - 1 /\ k > 0 /\ 1 \in The(b[At(r, k - 1)]).wide
    BY <1>18 DEF Begun, Tail_, End, end
  <2>2. WidthIn(c, r, end) = 2
    <3>1. k - 1 \in 0..(k - 1)
      BY <2>1
    <3>2. c[At(r, k - 1)] = b[At(r, k - 1)]
      BY <1>0, <3>1
    <3>3. end \div 2 = k - 1 /\ end % 2 = 1
      BY <2>1, HalvesOf
    <3>. QED
      BY <2>1, <3>2, <3>3 DEF WidthIn
  <2>3. end1 = 2 * k + 1
    BY <2>1, <2>2
  <2>4. CASE 1 \in w
    <3>1. al = FALSE /\ co = FALSE /\ n = 1
      BY <1>1, <1>2, <1>18, <2>4
    <3>. QED
      BY <1>10, <1>13, <2>3, <2>4, <3>1
  <2>5. CASE 1 \notin w
    <3>1. al = TRUE /\ n = 2
      BY <1>1, <1>2, <1>18, <2>5
    <3>2. end2 = 2 * k + 2
      BY <1>3, <2>3, <2>5
    <3>. QED
      BY <1>11, <1>13, <3>1, <3>2
  <2>. QED
    BY <2>4, <2>5
<1>19. Goal
  BY <1>14, <1>15, <1>16, <1>17, <1>18
<1>21. \E T : /\ Cardinality(T) = Cardinality(S) + n
             /\ Begun(c, r, k + 1, first, al, co, T)
  BY <1>19 DEF Goal, Begun
<1>. QED
  BY <1>1, <1>7, <1>8, <1>21, <1>22

(* When the first instruction is taken, the rest is a chain in what remains. *)
Taking(b, r, k, first, al, co, S, a, c, q) ==
  /\ r \in Slots /\ k \in 1..ALBUF_DEPTH /\ first \in {0, 1} /\ al \in BOOLEAN /\ co \in BOOLEAN
  /\ Begun(b, r, k, first, al, co, S)
  /\ (first = 1 /\ WidthIn(b, r, first) = 2) => 2 <= k
  /\ a = (IF first = 1 \/ WidthIn(b, r, first) = 2 THEN 1 ELSE 0)
  /\ IF a = 1 THEN q = Next1(r) ELSE q = r
  /\ \A j \in 0..(k - a - 1) : c[At(q, j)] = b[At(r, j + a)]

(* The instruction that is taken is the first of the chain.                  *)
LEMMA PopChain ==
  ASSUME NEW b, NEW r, NEW k, NEW first, NEW S, NEW al, NEW co, NEW a, NEW c, NEW q,
         Taking(b, r, k, first, al, co, S, a, c, q)
  PROVE  /\ Cardinality(S) \in Nat
         /\ \E T : /\ Cardinality(T) = Cardinality(S) - 1
                   /\ Begun(c, q, k - a, first + WidthIn(b, r, first) - 2 * a, al, co, T)
<1>0. /\ IF a = 1 THEN q = Next1(r) ELSE q = r
      /\ \A j \in 0..(k - a - 1) : c[At(q, j)] = b[At(r, j + a)]
  BY DEF Taking
<1>12. /\ r \in Slots /\ k \in 1..ALBUF_DEPTH /\ first \in {0, 1} /\ al \in BOOLEAN /\ co \in BOOLEAN
       /\ Begun(b, r, k, first, al, co, S)
       /\ (first = 1 /\ WidthIn(b, r, first) = 2) => 2 <= k
       /\ a = (IF first = 1 \/ WidthIn(b, r, first) = 2 THEN 1 ELSE 0)
  BY DEF Taking
<1>. USE <1>12
<1>. DEFINE w == WidthIn(b, r, first)
            end == End(k, al, co)
            next == first + w
            U == S \ {first}
<1>1. /\ S \in SUBSET Nat /\ IsFiniteSet(S) /\ Chain(b, r, first, end, S)
      /\ Tail_(b, r, k, first, al, co)
  BY DEF Begun
<1>2. w \in {1, 2} /\ a \in {0, 1} /\ first \in Nat
  BY WidthIs
<1>3. al \/ (~al /\ ~co)
  BY <1>1 DEF Tail_
<1>4. end \in {2 * k, 2 * k - 1} /\ end \in Nat
  BY <1>3 DEF End
<1>5. first # end
  <2>. SUFFICES ASSUME first = end PROVE FALSE
    OBVIOUS
  <2>1. k = 1 /\ first = 1 /\ ~al /\ ~co
    BY <1>3, <1>4 DEF End
  <2>2. 1 \in The(b[At(r, 0)]).wide
    BY <1>1, <2>1 DEF Tail_
  <2>3. WidthIn(b, r, 1) = 2
    <3>1. 1 \div 2 = 0 /\ 1 % 2 = 1
      OBVIOUS
    <3>. QED
      BY <2>2, <3>1 DEF WidthIn
  <2>. QED
    BY <2>1, <2>3
<1>. HIDE DEF end, w
<1>6. /\ Chain(b, r, next, end, U) /\ IsFiniteSet(U) /\ Cardinality(U) = Cardinality(S) - 1
      /\ Cardinality(S) \in Nat /\ next <= end
  <2>1. /\ Chain(b, r, first + WidthIn(b, r, first), end, S \ {first})
        /\ IsFiniteSet(S \ {first}) /\ Cardinality(S \ {first}) = Cardinality(S) - 1
        /\ Cardinality(S) \in Nat /\ first + WidthIn(b, r, first) <= end
    BY <1>1, <1>2, <1>4, <1>5, Shorten
  <2>. QED
    BY <2>1 DEF w
<1>7. U \in SUBSET Nat /\ next \in Nat
  BY <1>1, <1>2
<1>8. \A h \in U : next <= h /\ h + WidthIn(b, r, h) <= end /\ WidthIn(b, r, h) \in {1, 2}
  BY <1>6, WidthIs DEF Chain
<1>9. CASE a = 0
  <2>1. first = 0 /\ w = 1 /\ q = r /\ next - 2 * a = next /\ k - a = k /\ next = 1
    BY <1>0, <1>2, <1>9 DEF w
  <2>2. \A j \in 0..(k - 1) : c[At(r, j)] = b[At(r, j)]
    BY <1>0, <1>9, <2>1
  <2>3. \A h \in U : WidthIn(c, r, h) = WidthIn(b, r, h)
    <3>1. TAKE h \in U
    <3>2. h \div 2 \in 0..(k - 1)
      BY <1>4, <1>7, <1>8
    <3>. QED
      BY <2>2, <3>2 DEF WidthIn
  <2>4. Chain(c, r, next, end, U)
    BY <1>6, <2>3, ChainSame
  <2>5. Tail_(c, r, k, next, al, co)
    <3>1. k - 1 \in 0..(k - 1)
      OBVIOUS
    <3>. QED
      BY <1>1, <1>3, <2>2, <3>1 DEF Tail_
  <2>6. Begun(c, r, k, next, al, co, U)
    BY <1>6, <1>7, <2>4, <2>5 DEF Begun, end
  <2>. QED
    BY <1>6, <2>1, <2>6 DEF w
<1>10. CASE a = 1
  <2>. DEFINE T == Earlier(U)
  <2>1. q = Next1(r) /\ 2 <= next
    BY <1>0, <1>2, <1>10 DEF w
  <2>2. \A j \in 0..(k - 2) : c[At(q, j)] = b[At(r, j + 1)]
    BY <1>0, <1>10
  <2>3. \A h \in U : WidthIn(c, q, h - 2) = WidthIn(b, r, h)
    <3>1. TAKE h \in U
    <3>2. h \in Nat /\ 2 <= h /\ h < 2 * k
      BY <1>4, <1>7, <1>8, <2>1
    <3>3. /\ (h - 2) \div 2 \in 0..(k - 2) /\ (h - 2) \div 2 + 1 = h \div 2
          /\ (h - 2) % 2 = h % 2
      BY <3>2
    <3>. QED
      BY <2>2, <3>3 DEF WidthIn
  <2>4. Chain(c, q, next - 2, end - 2, T) /\ T \in SUBSET Nat
    <3>1. /\ next \in Nat /\ end \in Nat /\ U \in SUBSET Nat /\ Chain(b, r, next, end, U)
          /\ 2 <= next /\ \A h \in U : WidthIn(c, q, h - 2) = WidthIn(b, r, h)
      BY <1>4, <1>6, <1>7, <2>1, <2>3
    <3>. HIDE DEF next, U
    <3>. QED
      BY ONLY <3>1, ShiftedChain
  <2>5. end - 2 = End(k - 1, al, co)
    BY <1>3 DEF End, end
  <2>6. Tail_(c, q, k - 1, next - 2, al, co)
    <3>1. CASE al
      BY <3>1 DEF Tail_
    <3>2. CASE ~al /\ ~co
      <4>1. end = 2 * k - 1
        BY <3>2 DEF End, end
      <4>2. k > 1
        BY <1>6, <1>7, <2>1, <4>1
      <4>3. k - 1 - 1 \in 0..(k - 2) /\ k - 1 - 1 + 1 = k - 1
        BY <4>2
      <4>4. c[At(q, k - 1 - 1)] = b[At(r, k - 1)]
        BY <2>2, <4>3
      <4>. QED
        BY <1>1, <3>2, <4>2, <4>4 DEF Tail_
    <3>. QED
      BY <1>3, <3>1, <3>2
  <2>7. IsFiniteSet(T) /\ Cardinality(T) = Cardinality(U)
    BY <1>6, <1>7, ShiftedSet
  <2>8. Begun(c, q, k - 1, next - 2, al, co, T)
    BY <2>4, <2>5, <2>6, <2>7 DEF Begun
  <2>9. first + WidthIn(b, r, first) - 2 * a = next - 2 /\ k - a = k - 1
    <3>1. WidthIn(b, r, first) = w
      BY DEF w
    <3>. QED
      BY <1>2, <1>10, <3>1
  <2>10. Cardinality(T) = Cardinality(S) - 1
    BY <1>6, <2>7
  <2>. HIDE DEF T, next
  <2>. QED
    BY <1>6, <2>8, <2>9, <2>10
<1>. QED
  BY <1>2, <1>9, <1>10

(* What one or no instruction in the buffer says of its words.               *)
LEMMA FewWords ==
  ASSUME NEW b, NEW r, NEW k \in Nat, NEW first \in {0, 1}, NEW S,
         NEW al, NEW co, Begun(b, r, k, first, al, co, S)
  PROVE  /\ Cardinality(S) = 0 => k <= 1
         /\ Cardinality(S) = 1 => k <= 2
<1>. DEFINE end == End(k, al, co)
<1>1. /\ S \in SUBSET Nat /\ IsFiniteSet(S)
      /\ first \in S \/ first = end
      /\ end = first \/ \E g \in S : g + WidthIn(b, r, g) = end
  BY DEF Begun, Chain
<1>2. end \in {2 * k, 2 * k - 1} \/ k = 0
  BY DEF End, Begun, Tail_
<1>. HIDE DEF end
<1>3. end <= 3 => k <= 2
  BY <1>2
<1>4. end <= 1 => k <= 1
  BY <1>2
<1>5. CASE Cardinality(S) = 0
  <2>1. S = {}
    BY <1>1, <1>5, FS_EmptySet
  <2>. QED
    BY <1>1, <1>4, <1>5, <2>1
<1>6. CASE Cardinality(S) = 1
  <2>1. PICK x : S = {x}
    BY <1>1, <1>6, FS_Singleton
  <2>2. end <= 3
    <3>1. CASE first = end
      BY <3>1
    <3>2. CASE first # end
      <4>1. first \in S /\ \E g \in S : g + WidthIn(b, r, g) = end
        BY <1>1, <3>2
      <4>2. x = first
        BY <2>1, <4>1
      <4>3. first + WidthIn(b, r, first) = end
        BY <2>1, <4>1, <4>2
      <4>4. WidthIn(b, r, first) \in {1, 2}
        BY WidthIs
      <4>. QED
        BY <4>3, <4>4
    <3>. QED
      BY <3>1, <3>2
  <2>. QED
    BY <1>3, <1>6, <2>2
<1>. QED
  BY <1>5, <1>6

-----------------------------------------------------------------------------
(* A clock edge and its signals.                                            *)
Edge(pc_set, instr_req, ready, gnt, rvalid, wide, bad) ==
  /\ pc_set \in Jumps /\ instr_req \in BOOLEAN /\ ready \in BOOLEAN
  /\ gnt \in BOOLEAN /\ rvalid \in BOOLEAN /\ bad \in BOOLEAN /\ wide \in SUBSET {0, 1}
  /\ rvalid => slave # <<>>
  /\ gnt => obi_req(pc_set, instr_req, bad) # {}
  /\ bad => Refused(pc_set, instr_req, bad)
  /\ Cycle(pc_set, instr_req, ready, gnt, rvalid, wide, bad)

LEMMA EdgeOfNext ==
  ASSUME Next
  PROVE  \E pc_set, instr_req, ready, gnt, rvalid, wide, bad :
           Edge(pc_set, instr_req, ready, gnt, rvalid, wide, bad)
BY DEF Next, Tick, Edge

LEMMA AgedIs ==
  ASSUME NEW f \in Flights, NEW pc_set
  PROVE  /\ Aged(pc_set, f) \in Flights /\ Aged(pc_set, f).word = f.word
         /\ Aged(pc_set, f).stale <=> f.stale \/ pc_set # {}
BY DEF Aged, Flights

LEMMA OptionIs ==
  ASSUME NEW T, NEW S \in Option(T)
  PROVE  /\ S = {} => Num(S) = 0
         /\ S # {} => Num(S) = 1 /\ The(S) \in T /\ S = {The(S)}
BY TheOne DEF Option, Num

(* The memory's queue loses its head and gains a member, and its words age.  *)
OneIf(c) == IF c THEN 1 ELSE 0
After(s, rv) == IF rv THEN Tail(s) ELSE s
Served(left, pc_set, t) ==
  [i \in DOMAIN left |-> Aged(pc_set, left[i])] \o (IF t # {} THEN <<The(t)>> ELSE <<>>)

LEMMA SlaveStep ==
  ASSUME NEW s \in Seq(Flights), NEW rv \in BOOLEAN, rv => s # <<>>,
         NEW pc_set, NEW t \in Option(Flights)
  PROVE  /\ Len(s) \in Nat /\ OneIf(rv) \in {0, 1} /\ OneIf(rv) <= Len(s)
         /\ Served(After(s, rv), pc_set, t) \in Seq(Flights)
         /\ Len(Served(After(s, rv), pc_set, t)) = Len(s) - OneIf(rv) + Num(t)
         /\ \A i \in 1..(Len(s) - OneIf(rv)) :
              Served(After(s, rv), pc_set, t)[i] = Aged(pc_set, s[i + OneIf(rv)])
         /\ t # {} => Served(After(s, rv), pc_set, t)[Len(s) - OneIf(rv) + 1] = The(t)
<1>. PICK left : left = After(s, rv)
  OBVIOUS
<1>. PICK n \in {0, 1} : n = OneIf(rv)
  BY DEF OneIf
<1>. PICK new : new = Served(After(s, rv), pc_set, t)
  OBVIOUS
<1>1. /\ Len(s) \in Nat /\ n \in {0, 1} /\ n <= Len(s)
      /\ left \in Seq(Flights) /\ Len(left) = Len(s) - n
      /\ \A i \in 1..(Len(s) - n) : left[i] = s[i + n]
  <2>1. Len(s) \in Nat /\ (s # <<>> => Len(s) > 0)
    BY LenProperties, EmptySeq
  <2>2. CASE rv
    BY <2>1, <2>2, HeadTailProperties DEF OneIf, After
  <2>3. CASE ~rv
    BY <2>1, <2>3 DEF OneIf, After
  <2>. QED
    BY <2>2, <2>3
<1>. DEFINE p == [i \in DOMAIN left |-> Aged(pc_set, left[i])]
            m == IF t # {} THEN <<The(t)>> ELSE <<>>
<1>2. DOMAIN left = 1..Len(left) /\ Len(left) \in Nat /\ \A i \in 1..Len(left) : left[i] \in Flights
  BY <1>1, LenProperties, ElementOfSeq
<1>3. p \in [1..Len(left) -> Flights] /\ \A i \in 1..Len(left) : p[i] = Aged(pc_set, left[i])
  BY <1>2, AgedIs
<1>4. p \in Seq(Flights) /\ Len(p) = Len(left)
  <2>. HIDE DEF p
  <2>. PICK l \in Nat : l = Len(left)
    BY <1>2
  <2>1. p \in [1..l -> Flights]
    BY <1>3
  <2>2. p \in Seq(Flights)
    BY <2>1, SeqDef
  <2>3. Len(p) = l
    BY <2>1
  <2>. QED
    BY <2>2, <2>3
<1>5. m \in Seq(Flights) /\ Len(m) = Num(t) /\ (t # {} => m[1] = The(t) /\ Num(t) = 1)
      /\ (t = {} => Num(t) = 0)
  BY OptionIs
<1>. HIDE DEF p, m
<1>6. /\ p \o m \in Seq(Flights) /\ Len(p \o m) = Len(p) + Len(m)
      /\ \A i \in 1..(Len(p) + Len(m)) : (p \o m)[i] = IF i <= Len(p) THEN p[i] ELSE m[i - Len(p)]
  BY <1>4, <1>5, ConcatProperties
<1>7. new = p \o m
  BY DEF p, m, Served
<1>8. \A i \in 1..(Len(s) - n) : new[i] = Aged(pc_set, s[i + n])
  BY <1>1, <1>3, <1>4, <1>5, <1>6, <1>7
<1>9. t # {} => new[Len(s) - n + 1] = The(t)
  BY <1>1, <1>4, <1>5, <1>6, <1>7
<1>. QED
  BY <1>1, <1>4, <1>5, <1>6, <1>7, <1>8, <1>9

(* What comes back: a word of the memory, or the gate's own answer, and only  *)
(* if no answer is to be dropped a word for the buffer, the next of the stream. *)
Arriving(rvalid, wide) == resp(rvalid, wide) # {}

(* What arrives is the oldest word in flight; past the flush counter it is the*)
(* next of the stream and has a free slot.                                   *)
LEMMA Arrivals ==
  ASSUME FetchTypeOK, BufferInv, FlightInv, RoomInv,
         NEW rvalid \in BOOLEAN, rvalid => slave # <<>>, NEW wide \in SUBSET {0, 1}
  PROVE  /\ resp(rvalid, wide) = {} \/ \E e \in Entries : resp(rvalid, wide) = {e}
         /\ Arriving(rvalid, wide) <=> rvalid \/ mpu_state = "ERR_RESP"
         /\ Arriving(rvalid, wide) => 0 < outstanding_cnt_q
         /\ mpu_state = "ERR_RESP" => slave = <<>> /\ obi_a_req_q = {} /\ ~rvalid
         /\ resp_gated(rvalid, wide) = IF n_flush_q > 0 THEN {} ELSE resp(rvalid, wide)
         /\ resp_gated(rvalid, wide) # {} =>
              n_flush_q = 0 /\ Held < ALBUF_DEPTH
              /\ \E e \in Entries : /\ resp_gated(rvalid, wide) = {e}
                                    /\ ~e.stale /\ e.word = Fwd(Word(addr_q), Held)
<1>1. /\ Held \in Nat /\ n_flush_q \in Nat /\ outstanding_cnt_q \in Nat /\ n_flush_q <= outstanding_cnt_q
      /\ Live <= ALBUF_DEPTH /\ Live = Held + outstanding_cnt_q - n_flush_q
      /\ slave \in Seq(Flights) /\ Len(slave) \in Nat
  BY LenProperties DEF FetchTypeOK, BufferInv, RoomInv, Live
<1>2. /\ outstanding_cnt_q = Len(slave) + Num(obi_a_req_q) + Num(blocked)
      /\ \A i \in 1..Len(slave) : IsAt(slave[i], i)
      /\ \A f \in blocked : IsAt(f, outstanding_cnt_q)
      /\ mpu_state = "IDLE" <=> blocked = {}
      /\ mpu_state = "ERR_RESP" => outstanding_cnt_q = 1
  BY DEF FlightInv
<1>3. /\ Num(obi_a_req_q) \in {0, 1} /\ (Num(obi_a_req_q) = 0 <=> obi_a_req_q = {})
      /\ Num(blocked) \in {0, 1} /\ (blocked # {} => Num(blocked) = 1)
  BY DEF Num
<1>4. resp_gated(rvalid, wide) = IF n_flush_q > 0 THEN {} ELSE resp(rvalid, wide)
  BY DEF resp_gated
<1>5. ASSUME NEW f \in Flights, NEW x \in BOOLEAN
      PROVE  /\ Arrived(f, wide, x) \in Entries
             /\ Arrived(f, wide, x).stale = f.stale /\ Arrived(f, wide, x).word = f.word
  BY DEF Arrived, Entries, Flights
<1>6. ASSUME NEW f \in Flights, IsAt(f, 1), n_flush_q = 0
      PROVE  ~f.stale /\ f.word = Fwd(Word(addr_q), Held)
  <2>1. ~(1 <= n_flush_q) /\ 1 > n_flush_q /\ Held + 1 - n_flush_q - 1 = Held
    BY <1>1, <1>6
  <2>. QED
    BY <1>6, <2>1 DEF IsAt, Place
<1>. DEFINE r == resp(rvalid, wide)
            g == resp_gated(rvalid, wide)
            here == Fwd(Word(addr_q), Held)
<1>10. ASSUME NEW e \in Entries, r = {e}, 0 < outstanding_cnt_q,
              n_flush_q = 0 => ~e.stale /\ e.word = here
       PROVE  /\ \E x \in Entries : r = {x}
              /\ Arriving(rvalid, wide)
              /\ g # {} => n_flush_q = 0 /\ Held < ALBUF_DEPTH
                           /\ \E x \in Entries : g = {x} /\ ~x.stale /\ x.word = here
  <2>1. r # {}
    BY <1>10
  <2>2. n_flush_q = 0 => Held < ALBUF_DEPTH
    BY <1>1, <1>10, Params
  <2>3. g # {} => n_flush_q = 0 /\ g = r
    BY <1>1, <1>4
  <2>. HIDE DEF r, g, here
  <2>. QED
    BY <1>10, <2>1, <2>2, <2>3 DEF Arriving, r
<1>7. CASE mpu_state = "ERR_RESP"
  <2>1. outstanding_cnt_q = 1 /\ blocked # {}
    BY <1>2, <1>7
  <2>2. Len(slave) = 0 /\ obi_a_req_q = {}
    BY <1>1, <1>2, <1>3, <2>1
  <2>3. slave = <<>>
    BY <1>1, <2>2, EmptySeq
  <2>4. PICK f \in Flights : blocked = {f}
    BY <2>1, OptionIs DEF FetchTypeOK
  <2>5. resp(rvalid, wide) = {Arrived(f, wide, TRUE)}
    BY <1>7, <2>4 DEF resp
  <2>6. IsAt(f, 1)
    BY <1>2, <2>1, <2>4
  <2>8. resp(rvalid, wide) # {} /\ Arrived(f, wide, TRUE) \in Entries
    BY <1>5, <2>5
  <2>9. n_flush_q = 0 => /\ ~Arrived(f, wide, TRUE).stale
                         /\ Arrived(f, wide, TRUE).word = Fwd(Word(addr_q), Held)
    BY <1>5, <1>6, <2>6
  <2>10. ~rvalid /\ 0 < outstanding_cnt_q
    BY <2>1, <2>3
  <2>. HIDE DEF r, g, here
  <2>11. /\ \E x \in Entries : r = {x}
         /\ Arriving(rvalid, wide)
         /\ g # {} => n_flush_q = 0 /\ Held < ALBUF_DEPTH
                      /\ \E x \in Entries : g = {x} /\ ~x.stale /\ x.word = here
    BY <1>10, <2>5, <2>8, <2>9, <2>10 DEF r, here
  <2>. QED
    BY <1>4, <1>7, <2>2, <2>3, <2>10, <2>11 DEF r, g, here
<1>8. CASE mpu_state # "ERR_RESP" /\ rvalid
  <2>1. Len(slave) > 0 /\ Head(slave) = slave[1] /\ slave[1] \in Flights
    BY <1>1, <1>8, EmptySeq, ElementOfSeq, HeadTailProperties
  <2>2. resp(rvalid, wide) = {Arrived(slave[1], wide, FALSE)}
    BY <1>8, <2>1 DEF resp
  <2>3. IsAt(slave[1], 1) /\ 0 < outstanding_cnt_q
    BY <1>1, <1>2, <1>3, <2>1
  <2>5. resp(rvalid, wide) # {} /\ Arrived(slave[1], wide, FALSE) \in Entries
    BY <1>5, <2>1, <2>2
  <2>6. n_flush_q = 0 => /\ ~Arrived(slave[1], wide, FALSE).stale
                         /\ Arrived(slave[1], wide, FALSE).word = Fwd(Word(addr_q), Held)
    <3>1. n_flush_q = 0 => ~slave[1].stale /\ slave[1].word = Fwd(Word(addr_q), Held)
      BY <1>6, <2>1, <2>3
    <3>. QED
      BY <1>5, <2>1, <3>1
  <2>. HIDE DEF r, g, here
  <2>7. /\ \E x \in Entries : r = {x}
        /\ Arriving(rvalid, wide)
        /\ g # {} => n_flush_q = 0 /\ Held < ALBUF_DEPTH
                     /\ \E x \in Entries : g = {x} /\ ~x.stale /\ x.word = here
    BY <1>10, <2>2, <2>3, <2>5, <2>6 DEF r, here
  <2>. QED
    BY <1>4, <1>8, <2>3, <2>7 DEF r, g, here
<1>9. CASE mpu_state # "ERR_RESP" /\ ~rvalid
  <2>1. resp(rvalid, wide) = {}
    BY <1>9 DEF resp
  <2>. QED
    BY <1>4, <1>9, <2>1 DEF Arriving
<1>. QED
  BY <1>7, <1>8, <1>9

(* A fetch leaves the prefetcher for the bus or, refused, for the gate.       *)
LEMMA Departures ==
  ASSUME FetchTypeOK, FlightInv,
         NEW pc_set \in Jumps, NEW instr_req \in BOOLEAN, NEW bad \in BOOLEAN,
         bad => Refused(pc_set, instr_req, bad)
  PROVE  LET up  == fetch_ready(pc_set, instr_req, bad)
             ref == Refused(pc_set, instr_req, bad)
         IN  /\ up \in BOOLEAN /\ ref \in BOOLEAN
             /\ up => /\ fetch_valid_o(pc_set, instr_req) /\ mpu_state = "IDLE" /\ blocked = {}
                      /\ outstanding_cnt_q < MAX_OUTSTANDING /\ instr_req
             /\ ref => up
             /\ (up /\ ~ref) => obi_a_req_q = {}
             /\ Fetch(pc_set) \in Flights /\ ~Fetch(pc_set).stale
             /\ Fetch(pc_set).word = trans_addr_o(pc_set)
             /\ obi_a_req_q = {} => obi_req(pc_set, instr_req, bad) =
                                      IF up /\ ~ref THEN {Fetch(pc_set)} ELSE {}
<1>. DEFINE up  == fetch_ready(pc_set, instr_req, bad)
            ref == Refused(pc_set, instr_req, bad)
            val == fetch_valid_o(pc_set, instr_req)
<1>1. /\ up <=> ref \/ (val /\ obi_a_req_q = {} /\ mpu_state = "IDLE")
      /\ ref <=> val /\ mpu_state = "IDLE" /\ bad
      /\ bad => ref
      /\ val => outstanding_cnt_q < MAX_OUTSTANDING /\ instr_req
      /\ up \in BOOLEAN /\ ref \in BOOLEAN
  BY DEF fetch_ready, Refused, fetch_valid_o
<1>2. mpu_state = "IDLE" <=> blocked = {}
  BY DEF FlightInv
<1>3. trans_addr_o(pc_set) \in 0..(Words - 1)
  <2>1. CASE pc_set = {}
    <3>1. trans_addr_q \in 0..(Words - 1)
      BY DEF FetchTypeOK
    <3>2. (trans_addr_q + 1) % Words \in 0..(Words - 1)
      BY <3>1, Params, ModOnce
    <3>. QED
      BY <2>1, <3>1, <3>2 DEF trans_addr_o
  <2>2. CASE pc_set # {}
    <3>1. The(pc_set) \in Targets /\ The(pc_set).addr \in Halves
      BY <2>2, TheOne, FetchPathParameters DEF Jumps, Halves
    <3>. QED
      BY <2>2, <3>1, AddressParts DEF trans_addr_o
  <2>. QED
    BY <2>1, <2>2
<1>4. /\ Fetch(pc_set) \in Flights /\ ~Fetch(pc_set).stale
      /\ Fetch(pc_set).word = trans_addr_o(pc_set)
  BY <1>3 DEF Fetch, Flights
<1>5. obi_a_req_q = {} => obi_req(pc_set, instr_req, bad) =
                            IF up /\ ~ref THEN {Fetch(pc_set)} ELSE {}
  <2>. SUFFICES ASSUME obi_a_req_q = {}
                PROVE  obi_req(pc_set, instr_req, bad) = IF up /\ ~ref THEN {Fetch(pc_set)} ELSE {}
    OBVIOUS
  <2>1. obi_req(pc_set, instr_req, bad) = IF val /\ ~mpu_block_bus(bad) THEN {Fetch(pc_set)} ELSE {}
    BY DEF obi_req, bus_trans
  <2>2. (val /\ ~mpu_block_bus(bad)) <=> (up /\ ~ref)
    BY <1>1 DEF mpu_block_bus
  <2>. HIDE DEF up, ref, val
  <2>. QED
    BY <2>1, <2>2
<1>. HIDE DEF up, ref
<1>6. /\ up => /\ val /\ mpu_state = "IDLE" /\ blocked = {}
               /\ outstanding_cnt_q < MAX_OUTSTANDING /\ instr_req
      /\ ref => up
      /\ (up /\ ~ref) => obi_a_req_q = {}
  BY <1>1, <1>2
<1>. QED
  BY <1>1, <1>4, <1>5, <1>6 DEF up, ref

(* If the words on their way keep their places, as their number, the base and *)
(* the words to drop change, and a new one takes its own, all are in place.   *)
LEMMA FlightStep ==
  ASSUME FetchTypeOK, BufferInv, FlightInv, RoomInv,
         NEW pc_set, NEW instr_req, NEW ready, NEW gnt, NEW rvalid, NEW wide, NEW bad,
         Edge(pc_set, instr_req, ready, gnt, rvalid, wide, bad),
         NEW n, NEW base, NEW k,
         \A f \in Flights, i \in 1..outstanding_cnt_q :
           IsAt(f, i) /\ OneIf(Arriving(rvalid, wide)) < i =>
             Place(Aged(pc_set, f), i - OneIf(Arriving(rvalid, wide)), n, base, k),
         fetch_ready(pc_set, instr_req, bad) =>
           Place(Fetch(pc_set), outstanding_cnt_q', n, base, k)
  PROVE  /\ slave' \in Seq(Flights) /\ obi_a_req_q' \in Option(Flights) /\ blocked' \in Option(Flights)
         /\ mpu_state' \in {"IDLE", "ERR_WAIT", "ERR_RESP"}
         /\ outstanding_cnt_q' = Len(slave') + Num(obi_a_req_q') + Num(blocked')
         /\ \A i \in 1..Len(slave') : Place(slave'[i], i, n, base, k)
         /\ \A f \in obi_a_req_q' : Place(f, Len(slave') + 1, n, base, k)
         /\ \A f \in blocked' : Place(f, outstanding_cnt_q', n, base, k)
         /\ mpu_state' = "IDLE" <=> blocked' = {}
         /\ mpu_state' = "ERR_RESP" => outstanding_cnt_q' = 1
<1>. PICK d \in {0, 1} : d = OneIf(Arriving(rvalid, wide))
  BY DEF OneIf
<1>0. /\ d = (IF Arriving(rvalid, wide) THEN 1 ELSE 0)
      /\ \A f \in Flights, i \in 1..outstanding_cnt_q :
           IsAt(f, i) /\ d < i => Place(Aged(pc_set, f), i - d, n, base, k)
  BY DEF OneIf
<1>. DEFINE up    == fetch_ready(pc_set, instr_req, bad)
            ref   == Refused(pc_set, instr_req, bad)
            new   == Fetch(pc_set)
            aged  == {Aged(pc_set, f) : f \in obi_a_req_q}
            onbus == IF obi_a_req_q # {} THEN aged ELSE obi_req(pc_set, instr_req, bad)
            left  == IF rvalid THEN Tail(slave) ELSE slave
            t     == IF gnt THEN onbus ELSE {}
            out   == outstanding_cnt_q
            v     == IF rvalid THEN 1 ELSE 0
<1>1. /\ pc_set \in Jumps /\ instr_req \in BOOLEAN /\ gnt \in BOOLEAN /\ rvalid \in BOOLEAN
      /\ bad \in BOOLEAN /\ wide \in SUBSET {0, 1} /\ (rvalid => slave # <<>>)
      /\ (bad => ref)
  BY DEF Edge
<1>2. /\ out' = outstanding_cnt_n(up, Arriving(rvalid, wide))
      /\ mpu_state' = mpu_state_n(ref, out')
      /\ obi_a_req_q' = IF gnt THEN {} ELSE onbus
      /\ slave' = [i \in DOMAIN left |-> Aged(pc_set, left[i])]
                    \o (IF gnt /\ onbus # {} THEN <<The(onbus)>> ELSE <<>>)
      /\ blocked' = IF ref THEN {new}
                    ELSE IF mpu_state = "ERR_WAIT" THEN {Aged(pc_set, f) : f \in blocked} ELSE {}
  BY DEF Edge, Cycle, Arriving
<1>3. /\ up \in BOOLEAN /\ ref \in BOOLEAN
      /\ up => mpu_state = "IDLE" /\ blocked = {}
      /\ ref => up
      /\ (up /\ ~ref) => obi_a_req_q = {}
      /\ new \in Flights
      /\ obi_a_req_q = {} => obi_req(pc_set, instr_req, bad) = IF up /\ ~ref THEN {new} ELSE {}
  BY <1>1, Departures
<1>4. /\ Arriving(rvalid, wide) <=> rvalid \/ mpu_state = "ERR_RESP"
      /\ Arriving(rvalid, wide) => 0 < out
      /\ mpu_state = "ERR_RESP" => slave = <<>> /\ obi_a_req_q = {} /\ ~rvalid
  BY <1>1, Arrivals
<1>5. /\ out \in Nat /\ slave \in Seq(Flights) /\ Len(slave) \in Nat
      /\ obi_a_req_q \in Option(Flights) /\ blocked \in Option(Flights)
      /\ mpu_state \in {"IDLE", "ERR_WAIT", "ERR_RESP"}
      /\ out = Len(slave) + Num(obi_a_req_q) + Num(blocked)
      /\ mpu_state = "IDLE" <=> blocked = {}
  BY LenProperties DEF FetchTypeOK, FlightInv
<1>6. /\ \A i \in 1..Len(slave) : IsAt(slave[i], i)
      /\ \A f \in obi_a_req_q : IsAt(f, Len(slave) + 1)
      /\ \A f \in blocked : IsAt(f, out)
  BY DEF FlightInv
<1>. HIDE DEF up, ref, new
<1>7. /\ out' = out + (IF up THEN 1 ELSE 0) - d /\ d \in {0, 1} /\ d <= out /\ out' \in Nat
  BY <1>0, <1>2, <1>3, <1>4, <1>5 DEF outstanding_cnt_n
<1>8. /\ v \in {0, 1} /\ v <= Len(slave)
      /\ mpu_state # "ERR_RESP" => d = v
      /\ mpu_state = "ERR_RESP" => d = 1 /\ v = 0
  <2>1. slave # <<>> => Len(slave) > 0
    BY <1>5, EmptySeq
  <2>. QED
    BY <1>0, <1>1, <1>4, <1>5, <2>1
<1>. HIDE DEF v
<1>9. /\ Num(obi_a_req_q) \in {0, 1} /\ (obi_a_req_q # {} => Num(obi_a_req_q) = 1)
      /\ Num(blocked) \in {0, 1} /\ (blocked = {} => Num(blocked) = 0)
      /\ (blocked # {} => Num(blocked) = 1) /\ (obi_a_req_q = {} => Num(obi_a_req_q) = 0)
  BY DEF Num
<1>. DEFINE first == Len(slave) - v + 1
<1>10. /\ onbus \in Option(Flights)
       /\ onbus = {} <=> (obi_a_req_q = {} /\ ~(up /\ ~ref))
       /\ \A x \in onbus : Place(x, first, n, base, k)
  <2>1. CASE obi_a_req_q # {}
    <3>1. PICK f \in Flights : obi_a_req_q = {f}
      BY <1>5, <2>1, OptionIs
    <3>2. onbus = {Aged(pc_set, f)}
      BY <2>1, <3>1
    <3>6. mpu_state # "ERR_RESP" /\ d = v
      BY <1>4, <1>8, <2>1
    <3>3. IsAt(f, Len(slave) + 1) /\ Len(slave) + 1 \in 1..out /\ d < Len(slave) + 1
          /\ (Len(slave) + 1) - d = first
      <4>1. IsAt(f, Len(slave) + 1)
        BY <1>6, <3>1
      <4>2. Len(slave) + 1 \in 1..out
        BY <1>5, <1>9, <2>1
      <4>. QED
        BY <1>5, <1>8, <3>6, <4>1, <4>2
    <3>4. Place(Aged(pc_set, f), (Len(slave) + 1) - d, n, base, k)
      BY <1>0, <3>3
    <3>5. Aged(pc_set, f) \in Flights
      BY AgedIs
    <3>. HIDE DEF onbus, first
    <3>. QED
      BY <2>1, <3>2, <3>3, <3>4, <3>5 DEF Option
  <2>2. CASE obi_a_req_q = {} /\ up /\ ~ref
    <3>1. onbus = {new}
      BY <1>3, <2>2
    <3>2. out' = first
      BY <1>3, <1>5, <1>7, <1>8, <1>9, <2>2
    <3>3. Place(new, out', n, base, k)
      BY <2>2 DEF up, new
    <3>. HIDE DEF onbus, first
    <3>. QED
      BY <1>3, <2>2, <3>1, <3>2, <3>3 DEF Option
  <2>3. CASE obi_a_req_q = {} /\ ~(up /\ ~ref)
    <3>1. onbus = {}
      BY <1>3, <2>3
    <3>. HIDE DEF onbus, first
    <3>. QED
      BY <2>3, <3>1 DEF Option
  <2>. QED
    BY <1>3, <2>1, <2>2, <2>3
<1>. HIDE DEF onbus
<1>11. /\ t \in Option(Flights) /\ obi_a_req_q' \in Option(Flights)
       /\ Num(t) + Num(obi_a_req_q') = Num(onbus)
       /\ Num(t) \in {0, 1} /\ Num(obi_a_req_q') \in {0, 1} /\ Num(onbus) \in {0, 1}
       /\ t # {} => t = onbus /\ Num(t) = 1
       /\ obi_a_req_q' # {} => obi_a_req_q' = onbus /\ Num(t) = 0
       /\ Num(onbus) = 0 <=> onbus = {}
  BY <1>1, <1>2, <1>10 DEF Option, Num
<1>12. slave' = Served(left, pc_set, t)
  <2>1. IF gnt /\ onbus # {} THEN t = onbus /\ t # {} ELSE t = {}
    OBVIOUS
  <2>2. (IF gnt /\ onbus # {} THEN <<The(onbus)>> ELSE <<>>) = IF t # {} THEN <<The(t)>> ELSE <<>>
    BY <2>1
  <2>. QED
    BY <1>2, <2>2 DEF Served
<1>. HIDE DEF t, left
<1>13. /\ slave' \in Seq(Flights) /\ Len(slave') = Len(slave) - v + Num(t)
       /\ \A i \in 1..(Len(slave) - v) : slave'[i] = Aged(pc_set, slave[i + v])
       /\ t # {} => slave'[Len(slave) - v + 1] = The(t)
  <2>1. left = (IF rvalid THEN Tail(slave) ELSE slave) /\ v = (IF rvalid THEN 1 ELSE 0)
    BY DEF left, v
  <2>2. slave' = Served(After(slave, rvalid), pc_set, t) /\ v = OneIf(rvalid)
    BY <1>12, <2>1 DEF After, OneIf
  <2>3. slave \in Seq(Flights) /\ rvalid \in BOOLEAN /\ (rvalid => slave # <<>>) /\ t \in Option(Flights)
    BY <1>1, <1>5, <1>11
  <2>. QED
    BY <2>2, <2>3, SlaveStep
<1>14. \A i \in 1..(Len(slave) - v) : Place(slave'[i], i, n, base, k)
  <2>1. TAKE i \in 1..(Len(slave) - v)
  <2>2. mpu_state # "ERR_RESP" /\ d = v
    <3>1. Len(slave) > 0
      BY <1>5, <1>8
    <3>2. slave # <<>>
      BY <1>5, <3>1, EmptySeq
    <3>. QED
      BY <1>4, <1>8, <3>2
  <2>3. i + v \in 1..Len(slave) /\ i + v \in 1..out /\ d < i + v /\ (i + v) - d = i
    BY <1>5, <1>8, <1>9, <2>2
  <2>4. slave[i + v] \in Flights /\ IsAt(slave[i + v], i + v)
    BY <1>5, <1>6, <2>3, ElementOfSeq
  <2>5. Place(Aged(pc_set, slave[i + v]), (i + v) - d, n, base, k)
    BY <1>0, <2>3, <2>4
  <2>. QED
    BY <1>13, <2>3, <2>5
<1>15. t # {} => Place(slave'[first], first, n, base, k)
  <2>. SUFFICES ASSUME t # {} PROVE Place(slave'[first], first, n, base, k)
    OBVIOUS
  <2>1. The(t) \in t
    BY <1>11, OptionIs
  <2>. QED
    BY <1>10, <1>11, <1>13, <2>1
<1>16. \A i \in 1..Len(slave') : Place(slave'[i], i, n, base, k)
  <2>1. TAKE i \in 1..Len(slave')
  <2>2. i \in 1..(Len(slave) - v) \/ (t # {} /\ i = first)
    <3>1. t = {} => Num(t) = 0
      BY DEF Num
    <3>. QED
      BY <1>5, <1>8, <1>11, <1>13, <3>1
  <2>. QED
    BY <1>14, <1>15, <2>2
<1>17. \A f \in obi_a_req_q' : Place(f, Len(slave') + 1, n, base, k)
  <2>1. TAKE f \in obi_a_req_q'
  <2>2. f \in onbus /\ Num(t) = 0
    BY <1>11
  <2>3. Len(slave') + 1 = first
    BY <1>5, <1>8, <1>13, <2>2
  <2>. QED
    BY <1>10, <2>2, <2>3
<1>18. /\ blocked' \in Option(Flights)
       /\ blocked' = {} <=> ~(ref \/ mpu_state = "ERR_WAIT")
       /\ \A f \in blocked' : Place(f, out', n, base, k)
  <2>1. CASE ref
    <3>1. Place(new, out', n, base, k)
      BY <1>3, <2>1 DEF up, new
    <3>2. blocked' = {new}
      BY <1>2, <2>1
    <3>. QED
      BY <1>3, <2>1, <3>1, <3>2 DEF Option
  <2>2. CASE ~ref /\ mpu_state = "ERR_WAIT"
    <3>1. PICK f \in Flights : blocked = {f}
      BY <1>5, <2>2, OptionIs
    <3>2. blocked' = {Aged(pc_set, f)}
      BY <1>2, <2>2, <3>1
    <3>3. out' = out - d /\ d < out /\ out \in 1..out
      BY <1>3, <1>5, <1>7, <1>8, <1>9, <2>2, <3>1
    <3>4. IsAt(f, out)
      BY <1>6, <3>1
    <3>5. Place(Aged(pc_set, f), out - d, n, base, k)
      BY <1>0, <3>3, <3>4
    <3>6. Aged(pc_set, f) \in Flights
      BY AgedIs
    <3>. QED
      BY <2>2, <3>2, <3>3, <3>5, <3>6 DEF Option
  <2>3. CASE ~ref /\ mpu_state # "ERR_WAIT"
    <3>1. blocked' = {}
      BY <1>2, <2>3
    <3>. QED
      BY <2>3, <3>1 DEF Option
  <2>. QED
    BY <2>1, <2>2, <2>3
<1>19. out' = Len(slave') + Num(obi_a_req_q') + Num(blocked')
  <2>1. Num(blocked') = IF ref \/ mpu_state = "ERR_WAIT" THEN 1 ELSE 0
    BY <1>18 DEF Num
  <2>. DEFINE l == Len(slave')  o == Num(obi_a_req_q')  b == Num(blocked')
  <2>6. l \in Nat /\ o \in {0, 1} /\ b \in {0, 1}
    BY <1>11, <1>13, <2>1, LenProperties
  <2>2. l + o = Len(slave) - v + Num(onbus)
    BY <1>5, <1>8, <1>11, <1>13
  <2>3. Num(onbus) = IF obi_a_req_q = {} /\ ~(up /\ ~ref) THEN 0 ELSE 1
    BY <1>10, <1>11
  <2>4. CASE up
    <3>1. mpu_state = "IDLE" /\ Num(blocked) = 0 /\ d = v
      BY <1>3, <1>8, <1>9, <2>4
    <3>2. out' = Len(slave) + Num(obi_a_req_q) + 1 - v
      BY <1>5, <1>7, <1>8, <1>9, <2>4, <3>1
    <3>3. Num(onbus) + b = Num(obi_a_req_q) + 1
      BY <1>3, <1>9, <2>1, <2>3, <2>4, <3>1
    <3>. HIDE DEF l, o, b
    <3>4. out' = l + o + b
      BY <1>5, <1>8, <1>9, <1>11, <2>2, <2>6, <3>2, <3>3
    <3>. QED
      BY <3>4 DEF l, o, b
  <2>5. CASE ~up
    <3>1. ~ref /\ out' = out - d
      BY <1>3, <1>5, <1>7, <2>5
    <3>2. Num(onbus) = Num(obi_a_req_q)
      BY <1>9, <2>3, <2>5
    <3>3. v - d + Num(blocked) = b
      BY <1>5, <1>8, <1>9, <2>1, <3>1
    <3>. HIDE DEF l, o, b
    <3>5. PICK x \in Nat, y \in {0, 1}, z \in {0, 1} :
            x = Len(slave) /\ y = Num(obi_a_req_q) /\ z = Num(blocked)
      BY <1>5, <1>9
    <3>6. out = x + y + z /\ l + o = x - v + y /\ v - d + z = b
      BY <1>5, <2>2, <3>2, <3>3, <3>5
    <3>4. out' = l + o + b
      BY ONLY <1>7, <1>8, <2>6, <3>1, <3>6, l \in Nat, x \in Nat, y \in {0, 1}, z \in {0, 1}
    <3>. QED
      BY <3>4 DEF l, o, b
  <2>. QED
    BY <1>3, <2>4, <2>5
<1>20. /\ mpu_state' \in {"IDLE", "ERR_WAIT", "ERR_RESP"}
       /\ mpu_state' = "IDLE" <=> blocked' = {}
       /\ mpu_state' = "ERR_RESP" => out' = 1
  BY <1>2, <1>18 DEF mpu_state_n
<1>. QED
  BY <1>7, <1>11, <1>13, <1>16, <1>17, <1>18, <1>19, <1>20 DEF up

(* The instructions begin in the words that are held.                        *)
LEMMA BegunBound ==
  ASSUME NEW b, NEW r, NEW k \in Nat, NEW first \in {0, 1}, NEW S,
         NEW al, NEW co, Begun(b, r, k, first, al, co, S)
  PROVE  S \in SUBSET (0..(2 * k - 1))
<1>. DEFINE end == End(k, al, co)
<1>1. \A h \in S : h \in Nat /\ first <= h /\ h + WidthIn(b, r, h) <= end /\ WidthIn(b, r, h) \in {1, 2}
  BY WidthIs DEF Begun, Chain
<1>2. \/ end = 2 * k \/ end = 2 * k - 1
      \/ end = 1 /\ first = 1
  BY DEF Begun, Tail_, End
<1>. HIDE DEF end
<1>3. \A h \in S : h <= 2 * k - 1
  BY <1>1, <1>2
<1>. QED
  BY <1>1, <1>3

(* What arrives for the buffer: nothing, or the next word of the stream.     *)
Fits(in) ==
  \/ in = {}
  \/ /\ Held < ALBUF_DEPTH
     /\ \E e \in Entries : in = {e} /\ ~e.stale /\ e.word = Fwd(Word(addr_q), Held)

Written(in) == IF in = {} THEN buf ELSE [buf EXCEPT ![wptr] = in]

(* The buffer with the arrived word in it.                                   *)
LEMMA WrittenIs ==
  ASSUME FetchTypeOK, BufferInv, NEW in, Fits(in), NEW k, k = Held + Num(in)
  PROVE  /\ k \in 0..ALBUF_DEPTH /\ Num(in) \in {0, 1} /\ (Num(in) = 0 <=> in = {})
         /\ Written(in) \in [Slots -> SUBSET Entries] /\ rptr \in Slots
         /\ Holds(Written(in), rptr, k, Word(addr_q))
         /\ in # {} => Held < ALBUF_DEPTH /\ buf[wptr] = {} /\ Written(in)[At(rptr, Held)] = in
         /\ \A j \in 0..(Held - 1) : Written(in)[At(rptr, j)] = buf[At(rptr, j)]
         /\ (IF in # {} THEN Next1(wptr) ELSE wptr) = At(rptr, k)
<1>. PICK h \in 0..ALBUF_DEPTH : h = Held
  BY DEF BufferInv
<1>1. /\ buf \in [Slots -> SUBSET Entries] /\ rptr \in Slots /\ wptr = At(rptr, h)
      /\ Holds(buf, rptr, h, Word(addr_q)) /\ Word(addr_q) \in 0..(Words - 1)
  BY AddressParts DEF FetchTypeOK, BufferInv
<1>2. CASE in = {}
  <2>1. k = h /\ Num(in) = 0 /\ Written(in) = buf
    BY <1>2, Params DEF Num, Written
  <2>. QED
    BY <1>1, <1>2, <2>1
<1>3. CASE in # {}
  <2>1. PICK e \in Entries : in = {e} /\ ~e.stale /\ e.word = Fwd(Word(addr_q), h)
    BY <1>3 DEF Fits
  <2>2. h < ALBUF_DEPTH /\ h \in 0..(ALBUF_DEPTH - 1)
    BY <1>3, Params DEF Fits
  <2>3. k = h + 1 /\ Num(in) = 1
    BY <1>3 DEF Num
  <2>. PICK c : c = Put(buf, At(rptr, h), {e})
    OBVIOUS
  <2>4. Written(in) = c
    BY <1>1, <1>3, <2>1 DEF Written, Put
  <2>5. /\ buf[At(rptr, h)] = {} /\ c \in [Slots -> SUBSET Entries]
        /\ Holds(c, rptr, h + 1, Word(addr_q)) /\ c[At(rptr, h)] = {e}
        /\ \A j \in 0..(h - 1) : c[At(rptr, j)] = buf[At(rptr, j)]
        /\ Next1(At(rptr, h)) = At(rptr, h + 1)
    BY <1>1, <2>1, <2>2, Push
  <2>6. k \in 0..ALBUF_DEPTH
    BY <2>2, <2>3, Params
  <2>7. Holds(c, rptr, k, Word(addr_q)) /\ Next1(wptr) = At(rptr, k)
    BY <1>1, <2>3, <2>5
  <2>8. buf[wptr] = {} /\ c[At(rptr, h)] = in /\ Num(in) = 1
    BY <1>1, <2>1, <2>3, <2>5
  <2>9. /\ Written(in) \in [Slots -> SUBSET Entries]
        /\ Holds(Written(in), rptr, k, Word(addr_q))
        /\ Written(in)[At(rptr, Held)] = in
    BY <2>4, <2>5, <2>7, <2>8
  <2>10. \A j \in 0..(Held - 1) : Written(in)[At(rptr, j)] = buf[At(rptr, j)]
    BY <2>4, <2>5
  <2>11. (IF in # {} THEN Next1(wptr) ELSE wptr) = At(rptr, k)
    BY <1>3, <2>7
  <2>. QED
    BY <1>1, <1>3, <2>2, <2>6, <2>8, <2>9, <2>10, <2>11
<1>. QED
  BY <1>2, <1>3

(* The instruction shown is read from the buffer with the arrived word in it. *)
LEMMA ShownIs ==
  ASSUME FetchTypeOK, BufferInv, NEW in, Fits(in), NEW k, k = Held + Num(in),
         NEW b, b = Written(in)
  PROVE  /\ k = 0 => First(in) = {}
         /\ k > 0 => /\ First(in) = b[rptr]
                     /\ \E e \in Entries : b[rptr] = {e} /\ ~e.stale /\ e.word = Word(addr_q)
         /\ k > 1 => /\ Second(in) = b[At(rptr, 1)]
                     /\ \E e \in Entries : /\ b[At(rptr, 1)] = {e} /\ ~e.stale
                                           /\ e.word = Fwd(Word(addr_q), 1)
         /\ instr_valid_o({}, in) <=> k > 0 /\ (Unaligned(in) => k > 1)
<1>. PICK h \in 0..ALBUF_DEPTH : h = Held
  BY DEF BufferInv
<1>. PICK r : r = rptr
  OBVIOUS
<1>1. /\ k \in 0..ALBUF_DEPTH /\ k = h + Num(in) /\ Num(in) \in {0, 1} /\ (Num(in) = 0 <=> in = {})
      /\ r \in Slots /\ Holds(b, r, k, Word(addr_q)) /\ Holds(buf, r, h, Word(addr_q))
      /\ in # {} => b[At(r, h)] = in
      /\ \A j \in 0..(h - 1) : b[At(r, j)] = buf[At(r, j)]
  BY WrittenIs DEF BufferInv
<1>2. /\ At(r, 0) = r /\ At(r, 1) \in Slots /\ rptr2 = At(r, 1)
      /\ Off(r, r) = 0 /\ Off(r, At(r, 1)) = 1
  <2>1. 0 \in 0..(ALBUF_DEPTH - 1) /\ 1 \in 0..(ALBUF_DEPTH - 1)
    BY Params
  <2>2. At(r, 0) = r
    BY <1>1, Params DEF At, Slots
  <2>. QED
    BY <1>1, <2>1, <2>2, RingFacts DEF rptr2
<1>3. /\ (h > 0 => buf[r] # {}) /\ (h = 0 => buf[r] = {})
      /\ (h > 1 => buf[rptr2] # {}) /\ (h <= 1 => buf[rptr2] = {})
  BY <1>1, <1>2 DEF Holds
<1>4. Fwd(Word(addr_q), 0) = Word(addr_q)
  BY AddressParts, Params DEF Fwd, FetchTypeOK
<1>5. /\ k > 0 => \E e \in Entries : b[r] = {e} /\ ~e.stale /\ e.word = Word(addr_q)
      /\ k > 1 => \E e \in Entries : /\ b[At(r, 1)] = {e} /\ ~e.stale
                                     /\ e.word = Fwd(Word(addr_q), 1)
  BY <1>1, <1>2, <1>4 DEF Holds
<1>6. First(in) = IF h > 0 THEN buf[r] ELSE in
  BY <1>3 DEF First
<1>7. Second(in) = IF h > 1 THEN buf[At(r, 1)] ELSE in
  BY <1>2, <1>3 DEF Second
<1>8. (k = 0 => First(in) = {}) /\ (k > 0 => First(in) = b[r])
  <2>1. CASE h = 0
    BY <1>1, <1>2, <1>6, <2>1
  <2>2. CASE h > 0
    <3>1. 0 \in 0..(h - 1)
      BY <2>2
    <3>. QED
      BY <1>1, <1>2, <1>6, <2>2, <3>1
  <2>. QED
    BY <2>1, <2>2
<1>9. k > 1 => Second(in) = b[At(r, 1)]
  <2>. SUFFICES ASSUME k > 1 PROVE Second(in) = b[At(r, 1)]
    OBVIOUS
  <2>1. CASE h = 1
    BY <1>1, <1>7, <2>1
  <2>2. CASE h > 1
    <3>1. 1 \in 0..(h - 1)
      BY <2>2
    <3>. QED
      BY <1>1, <1>7, <2>2, <3>1
  <2>. QED
    BY <1>1, <2>1, <2>2
<1>10. First(in) # {} <=> k > 0
  BY <1>1, <1>5, <1>8
<1>11. (buf[rptr2] # {} \/ (buf[r] # {} /\ in # {})) <=> k > 1
  BY <1>1, <1>3
<1>12. instr_valid_o({}, in) <=> k > 0 /\ (Unaligned(in) => k > 1)
  BY <1>10, <1>11 DEF instr_valid_o
<1>. QED
  BY <1>5, <1>8, <1>9, <1>12
(* What is emitted, and where the next instruction begins.                   *)
Step(in) == IF is_compressed(in) THEN 1 ELSE 2
Past(in) == IF Advances(in) THEN 1 ELSE 0

(* Where taking the instruction leads.                                       *)
LEMMA TakenIs ==
  ASSUME FetchTypeOK, BufferInv, is_ptr_q => Half(addr_q) = 0, NEW in, Fits(in),
         NEW k, k = Held + Num(in), instr_valid_o({}, in)
  PROVE  /\ k > 0 /\ Step(in) \in {1, 2} /\ Half(addr_q) \in {0, 1}
         /\ ~is_ptr_q => Step(in) = WidthIn(Written(in), rptr, Half(addr_q))
         /\ (Half(addr_q) = 1 /\ Step(in) = 2) => 2 <= k
         /\ Past(in) = IF Half(addr_q) = 1 \/ Step(in) = 2 THEN 1 ELSE 0
         /\ is_ptr_q => Past(in) = 1
         /\ addr_n(in) \in Halves /\ Word(addr_n(in)) = Fwd(Word(addr_q), Past(in))
         /\ Half(addr_n(in)) = Half(addr_q) + Step(in) - 2 * Past(in)
<1>. PICK w \in 0..(Words - 1), h \in {0, 1} : w = Word(addr_q) /\ h = Half(addr_q) /\ addr_q = 2 * w + h
  BY AddressParts DEF FetchTypeOK
<1>1. k \in 0..ALBUF_DEPTH
  BY WrittenIs
<1>2. /\ k > 0 /\ (Unaligned(in) => k > 1)
      /\ First(in) = Written(in)[rptr]
  BY <1>1, ShownIs
<1>3. Step(in) \in {1, 2} /\ (is_compressed(in) <=> Step(in) = 1)
  BY DEF Step
<1>4. ~is_ptr_q => Step(in) = WidthIn(Written(in), rptr, h)
  <2>. SUFFICES ASSUME ~is_ptr_q PROVE Step(in) = WidthIn(Written(in), rptr, h)
    OBVIOUS
  <2>1. h \div 2 = 0 /\ h % 2 = h
    OBVIOUS
  <2>2. At(rptr, 0) = rptr
    BY Params DEF At, Slots, FetchTypeOK
  <2>3. is_compressed(in) <=> h \notin The(Written(in)[rptr]).wide
    BY <1>2 DEF is_compressed
  <2>. QED
    BY <2>1, <2>2, <2>3 DEF Step, WidthIn
<1>5. (h = 1 /\ Step(in) = 2) => 2 <= k
  <2>1. (h = 1 /\ Step(in) = 2) => Unaligned(in)
    BY <1>3 DEF Unaligned
  <2>. QED
    BY <1>1, <1>2, <2>1
<1>6. Past(in) = IF h = 1 \/ Step(in) = 2 THEN 1 ELSE 0
  BY <1>3 DEF Past, Advances
<1>7. is_ptr_q => Past(in) = 1
  BY <1>3, <1>6 DEF is_compressed
<1>8. /\ addr_n(in) \in Halves /\ Word(addr_n(in)) = Fwd(w, Past(in))
      /\ Half(addr_n(in)) = h + Step(in) - 2 * Past(in)
  <2>. PICK x \in {1, 2} : x = Step(in)
    BY <1>3
  <2>. PICK a \in {0, 1} : a = Past(in)
    BY <1>6
  <2>1. a = IF h = 1 \/ x = 2 THEN 1 ELSE 0
    BY <1>6
  <2>. PICK n \in Nat : n = addr_n(in)
    <3>1. addr_n(in) = (addr_q + x) % (2 * Words)
      BY DEF addr_n, Step
    <3>. QED
      BY <3>1, Params
  <2>2. n = IF 2 * w + h + x < 2 * Words THEN 2 * w + h + x ELSE 2 * w + h + x - 2 * Words
    <3>1. n = (2 * w + h + x) % (2 * Words)
      BY DEF addr_n, Step
    <3>2. 2 * Words \in Nat /\ 0 < 2 * Words /\ 2 * w + h + x \in Nat /\ 2 * w + h + x < 2 * (2 * Words)
      BY Params
    <3>. PICK m \in Nat, v \in Nat : m = 2 * Words /\ v = 2 * w + h + x /\ 0 < m /\ v < 2 * m
      BY <3>2
    <3>3. v % m = IF v < m THEN v ELSE v - m
      BY ModOnce
    <3>. QED
      BY <3>1, <3>3
  <2>3. n = 2 * Fwd(w, a) + (h + x - 2 * a) /\ Fwd(w, a) \in 0..(Words - 1) /\ h + x - 2 * a \in {0, 1}
    BY <2>1, <2>2, Params DEF Fwd
  <2>. PICK y \in 0..(Words - 1), z \in {0, 1} : y = Fwd(w, a) /\ z = h + x - 2 * a /\ n = 2 * y + z
    BY <2>3
  <2>4. n \in Halves /\ n \div 2 = y /\ n % 2 = z
    <3>1. n \in Halves
      BY Params DEF Halves
    <3>2. CASE z = 0
      <4>1. (2 * y) \div 2 = y /\ (2 * y) % 2 = 0
        BY HalvesOf
      <4>. QED
        BY <3>1, <3>2, <4>1
    <3>3. CASE z = 1
      <4>2. y \in Int
        BY Params
      <4>1. (2 * y + 1) \div 2 = y /\ (2 * y + 1) % 2 = 1
        BY ONLY <4>2, HalvesOf
      <4>. QED
        BY <3>1, <3>3, <4>1
    <3>. QED
      BY <3>2, <3>3
  <2>. QED
    BY <2>4 DEF Word, Half
<1>. QED
  BY <1>2, <1>3, <1>4, <1>5, <1>6, <1>7, <1>8

(* The buffer after a cycle without a jump.                                  *)
Filled(in)     == Held + Num(in)
Gone(in, emit) == IF emit THEN Past(in) ELSE 0
Addr(in, emit) == IF emit THEN addr_n(in) ELSE addr_q
Rptr(in, emit) == IF emit /\ Advances(in) THEN rptr2 ELSE rptr
Wptr(in)       == IF in # {} THEN Next1(wptr) ELSE wptr

(* The buffer after a cycle.                                                 *)
LEMMA BufferStep ==
  ASSUME FetchTypeOK, BufferInv, is_ptr_q => Half(addr_q) = 0, NEW in, Fits(in),
         NEW emit \in BOOLEAN, emit => instr_valid_o({}, in)
  PROVE  /\ Gone(in, emit) \in {0, 1} /\ Filled(in) - Gone(in, emit) \in 0..ALBUF_DEPTH
         /\ emit => Filled(in) > 0
         /\ buf_n(in, emit) \in [Slots -> SUBSET Entries] /\ Rptr(in, emit) \in Slots
         /\ Addr(in, emit) \in Halves /\ Word(Addr(in, emit)) = Fwd(Word(addr_q), Gone(in, emit))
         /\ Holds(buf_n(in, emit), Rptr(in, emit), Filled(in) - Gone(in, emit), Word(Addr(in, emit)))
         /\ Wptr(in) = At(Rptr(in, emit), Filled(in) - Gone(in, emit))
         /\ \A j \in 0..(Filled(in) - Gone(in, emit) - 1) :
              buf_n(in, emit)[At(Rptr(in, emit), j)] = Written(in)[At(rptr, j + Gone(in, emit))]
<1>. PICK k, a, addr, q : /\ k = Filled(in) /\ a = Gone(in, emit)
                          /\ addr = Addr(in, emit) /\ q = Rptr(in, emit)
  OBVIOUS
<1>0. /\ k = Held + Num(in) /\ a = (IF emit THEN Past(in) ELSE 0)
      /\ addr = (IF emit THEN addr_n(in) ELSE addr_q)
      /\ q = (IF emit /\ Advances(in) THEN rptr2 ELSE rptr)
  BY DEF Filled, Gone, Addr, Rptr
<1>. DEFINE b == Written(in)
            c == buf_n(in, emit)
            W == Word(addr_q)
            n == Wptr(in)
<1>1. /\ k \in 0..ALBUF_DEPTH /\ b \in [Slots -> SUBSET Entries] /\ rptr \in Slots
      /\ Holds(b, rptr, k, W) /\ n = At(rptr, k)
  BY <1>0, WrittenIs DEF Wptr
<1>2. emit => /\ k > 0 /\ addr_n(in) \in Halves /\ Word(addr_n(in)) = Fwd(W, Past(in))
  BY <1>0, TakenIs
<1>3. W \in 0..(Words - 1) /\ Fwd(W, 0) = W /\ addr_q \in Halves
  BY AddressParts, Params DEF FetchTypeOK, Fwd
<1>4. Past(in) \in {0, 1} /\ (Past(in) = 1 <=> Advances(in))
  BY DEF Past
<1>. HIDE DEF b, W, n
<1>5. a \in {0, 1} /\ k - a \in 0..ALBUF_DEPTH /\ addr \in Halves /\ Word(addr) = Fwd(W, a)
  <2>1. CASE emit
    <3>1. a = Past(in) /\ addr = addr_n(in)
      BY <1>0, <2>1
    <3>3. a \in {0, 1} /\ k > 0 /\ k \in 0..ALBUF_DEPTH
      BY <1>1, <1>2, <1>4, <2>1, <3>1
    <3>2. k - a \in 0..ALBUF_DEPTH
      BY ONLY <3>3, Params
    <3>. QED
      BY <1>2, <1>4, <2>1, <3>1, <3>2
  <2>2. CASE ~emit
    <3>1. a = 0 /\ addr = addr_q /\ Word(addr) = W
      BY <1>0, <2>2 DEF W
    <3>2. k - a \in 0..ALBUF_DEPTH
      BY <1>1, <3>1
    <3>. QED
      BY <1>3, <3>1, <3>2
  <2>. QED
    BY <2>1, <2>2
<1>6. c = IF emit /\ Advances(in) THEN Put(b, rptr, {}) ELSE b
  BY DEF buf_n, b, Written, Put
<1>. HIDE DEF c
<1>7. CASE a = 0
  <2>1. c = b /\ q = rptr /\ k - a = k /\ Word(addr) = W
    BY <1>0, <1>1, <1>3, <1>4, <1>5, <1>6, <1>7
  <2>2. \A j \in 0..(k - 1) : c[At(q, j)] = b[At(rptr, j + a)]
    BY <1>1, <1>7, <2>1
  <2>3. k - a - 1 = k - 1
    BY <1>1, <1>7
  <2>. QED
    BY <1>1, <1>2, <1>5, <2>1, <2>2, <2>3 DEF b, c, n, W
<1>8. CASE a = 1
  <2>1. emit /\ c = Put(b, rptr, {}) /\ q = Next1(rptr) /\ k \in 1..ALBUF_DEPTH /\ Word(addr) = Fwd(W, 1)
    BY <1>0, <1>1, <1>2, <1>4, <1>5, <1>6, <1>8 DEF rptr2
  <2>2. /\ Put(b, rptr, {}) \in [Slots -> SUBSET Entries] /\ Next1(rptr) \in Slots
        /\ Holds(Put(b, rptr, {}), Next1(rptr), k - 1, Fwd(W, 1))
        /\ \A j \in 0..(k - 2) : Put(b, rptr, {})[At(Next1(rptr), j)] = b[At(rptr, j + 1)]
        /\ At(rptr, k) = At(Next1(rptr), k - 1)
    BY <1>1, <1>3, <2>1, Pop
  <2>3. k - a = k - 1 /\ k - a - 1 = k - 2
    BY <1>8, <2>1
  <2>4. \A j \in 0..(k - a - 1) : c[At(q, j)] = b[At(rptr, j + a)]
    BY <1>8, <2>1, <2>2, <2>3
  <2>5. Holds(c, q, k - a, Word(addr)) /\ n = At(q, k - a) /\ c \in [Slots -> SUBSET Entries]
    BY <1>1, <2>1, <2>2, <2>3
  <2>. QED
    BY <1>2, <1>5, <2>1, <2>2, <2>4, <2>5 DEF b, c, n, W
<1>. QED
  BY <1>5, <1>7, <1>8

(* A clock edge without a jump, part by part.                                *)
LEMMA Onward ==
  ASSUME FetchTypeOK, BufferInv, FlightInv, RoomInv, is_ptr_q => Half(addr_q) = 0,
         NEW instr_req, NEW ready, NEW gnt, NEW rvalid, NEW wide, NEW bad,
         Edge({}, instr_req, ready, gnt, rvalid, wide, bad),
         NEW in, in = resp_gated(rvalid, wide),
         NEW emit, emit = (instr_valid_o({}, in) /\ ready)
  PROVE  /\ emit \in BOOLEAN /\ (emit => instr_valid_o({}, in)) /\ Fits(in)
         /\ addr_q' = IF emit THEN addr_n(in) ELSE addr_q
         /\ is_ptr_q' = (is_ptr_q /\ ~emit)
         /\ buf' = buf_n(in, emit)
         /\ rptr' = IF emit /\ Advances(in) THEN rptr2 ELSE rptr
         /\ wptr' = IF in # {} THEN Next1(wptr) ELSE wptr
         /\ aligned_q' = aligned_n({}, in) /\ complete_q' = complete_n({}, in)
         /\ instr_cnt_q' = Cnt + n_incoming_ins(in) /\ pop_q' = emit
         /\ n_flush_q' = n_flush_n({}, Arriving(rvalid, wide))
         /\ boot' = boot /\ (boot = "RESET" => ~instr_req) /\ boot # "DEBUG"
<1>1. /\ instr_req \in BOOLEAN /\ ready \in BOOLEAN /\ rvalid \in BOOLEAN /\ wide \in SUBSET {0, 1}
      /\ rvalid => slave # <<>>
  BY DEF Edge
<1>2. Fits(in)
  <2>1. in # {} => /\ Held < ALBUF_DEPTH
                   /\ \E e \in Entries : in = {e} /\ ~e.stale /\ e.word = Fwd(Word(addr_q), Held)
    BY <1>1, Arrivals
  <2>. QED
    BY <2>1 DEF Fits
<1>3. Cycle({}, instr_req, ready, gnt, rvalid, wide, bad)
  BY DEF Edge
<1>4. /\ boot' = boot /\ (boot = "RESET" => ~instr_req) /\ boot # "DEBUG"
  BY <1>3 DEF Cycle, Controller
<1>5. /\ addr_q' = IF emit THEN addr_n(in) ELSE addr_q
      /\ is_ptr_q' = (is_ptr_q /\ ~emit)
      /\ buf' = buf_n(in, emit)
      /\ rptr' = IF emit /\ Advances(in) THEN rptr2 ELSE rptr
      /\ wptr' = IF in # {} THEN Next1(wptr) ELSE wptr
      /\ aligned_q' = aligned_n({}, in) /\ complete_q' = complete_n({}, in)
      /\ instr_cnt_q' = instr_cnt_n({}, in) /\ pop_q' = emit
      /\ n_flush_q' = n_flush_n({}, Arriving(rvalid, wide))
  BY <1>3 DEF Cycle, Arriving
<1>6. instr_cnt_q' = Cnt + n_incoming_ins(in)
  BY <1>5 DEF instr_cnt_n
<1>7. emit \in BOOLEAN /\ (emit => instr_valid_o({}, in))
  BY <1>1
<1>. QED
  BY <1>2, <1>4, <1>5, <1>6, <1>7

(* The same of the state.                                                    *)
LEMMA OnwardBuffer ==
  ASSUME FetchTypeOK, BufferInv, FlightInv, RoomInv, is_ptr_q => Half(addr_q) = 0,
         NEW instr_req, NEW ready, NEW gnt, NEW rvalid, NEW wide, NEW bad,
         Edge({}, instr_req, ready, gnt, rvalid, wide, bad),
         NEW in, in = resp_gated(rvalid, wide),
         NEW emit, emit = (instr_valid_o({}, in) /\ ready),
         NEW a, a = Gone(in, emit), NEW k, k = Filled(in)
  PROVE  /\ a \in {0, 1} /\ (emit => k > 0) /\ k \in 0..ALBUF_DEPTH
         /\ Held' = k - a /\ BufferInv'
         /\ buf' \in [Slots -> SUBSET Entries] /\ rptr' \in Slots /\ wptr' \in Slots
         /\ addr_q' \in Halves /\ Word(addr_q') = Fwd(Word(addr_q), a)
         /\ \A j \in 0..(k - a - 1) : buf'[At(rptr', j)] = Written(in)[At(rptr, j + a)]
<1>. PICK addr, q, c, p :
       /\ addr = Addr(in, emit) /\ c = buf_n(in, emit) /\ q = Rptr(in, emit) /\ p = Wptr(in)
  OBVIOUS
<1>1. /\ emit \in BOOLEAN /\ (emit => instr_valid_o({}, in)) /\ Fits(in)
      /\ addr_q' = addr /\ buf' = c /\ rptr' = q /\ wptr' = p
  BY Onward DEF Addr, Rptr, Wptr
<1>2. /\ a \in {0, 1} /\ k - a \in 0..ALBUF_DEPTH /\ (emit => k > 0)
      /\ c \in [Slots -> SUBSET Entries] /\ q \in Slots
      /\ addr \in Halves /\ Word(addr) = Fwd(Word(addr_q), a)
      /\ Holds(c, q, k - a, Word(addr)) /\ p = At(q, k - a)
      /\ \A j \in 0..(k - a - 1) : c[At(q, j)] = Written(in)[At(rptr, j + a)]
  BY <1>1, BufferStep
<1>. PICK x \in 0..ALBUF_DEPTH : x = k - a
  BY <1>2
<1>3. Count(c) = x
  BY <1>2, HeldIs
<1>4. Held' = x
  BY <1>1, <1>3 DEF Held, Count
<1>5. k \in 0..ALBUF_DEPTH
  BY <1>1, WrittenIs DEF Filled
<1>6. p \in Slots
  BY <1>2, Params DEF At, Slots
<1>7. BufferInv'
  BY <1>1, <1>2, <1>4 DEF BufferInv
<1>. QED
  BY <1>1, <1>2, <1>4, <1>5, <1>6, <1>7

(* The numbers of a clock edge without a jump.                               *)
LEMMA OnwardFlow ==
  ASSUME FetchTypeOK, BufferInv, FlightInv, RoomInv, is_ptr_q => Half(addr_q) = 0,
         NEW instr_req, NEW ready, NEW gnt, NEW rvalid, NEW wide, NEW bad,
         Edge({}, instr_req, ready, gnt, rvalid, wide, bad),
         NEW in, in = resp_gated(rvalid, wide),
         NEW emit, emit = (instr_valid_o({}, in) /\ ready),
         NEW a, a = Gone(in, emit), NEW k, k = Filled(in),
         NEW u, u = OneIf(fetch_ready({}, instr_req, bad)),
         NEW d, d = OneIf(Arriving(rvalid, wide))
  PROVE  /\ u \in {0, 1} /\ d \in {0, 1} /\ Num(in) \in {0, 1} /\ k = Held + Num(in)
         /\ d <= outstanding_cnt_q /\ Num(in) <= d
         /\ n_flush_q > 0 => Num(in) = 0
         /\ n_flush_q = 0 => Num(in) = d
         /\ outstanding_cnt_q' = outstanding_cnt_q + u - d /\ outstanding_cnt_q' \in Nat
         /\ n_flush_q' = n_flush_q - d + Num(in) /\ n_flush_q' \in Nat
         /\ n_flush_q' <= outstanding_cnt_q' /\ outstanding_cnt_q' <= MAX_OUTSTANDING
         /\ Live \in Nat /\ k <= Live /\ Live' = Live + u - a /\ a <= k
<1>1. /\ instr_req \in BOOLEAN /\ bad \in BOOLEAN /\ rvalid \in BOOLEAN /\ wide \in SUBSET {0, 1}
      /\ {} \in Jumps /\ (rvalid => slave # <<>>) /\ (bad => Refused({}, instr_req, bad))
  BY DEF Edge
<1>2. /\ fetch_ready({}, instr_req, bad) \in BOOLEAN
      /\ fetch_ready({}, instr_req, bad) => outstanding_cnt_q < MAX_OUTSTANDING
  BY <1>1, Departures
<1>3. /\ Arriving(rvalid, wide) => 0 < outstanding_cnt_q
      /\ in = IF n_flush_q > 0 THEN {} ELSE resp(rvalid, wide)
  BY <1>1, Arrivals
<1>4. outstanding_cnt_q' = outstanding_cnt_n(fetch_ready({}, instr_req, bad), Arriving(rvalid, wide))
  BY DEF Edge, Cycle, Arriving
<1>5. n_flush_q' = n_flush_n({}, Arriving(rvalid, wide))
  BY Onward
<1>6. /\ a \in {0, 1} /\ (emit => k > 0) /\ Held' = k - a
  BY OnwardBuffer
<1>. PICK h \in 0..ALBUF_DEPTH, o \in Nat, n \in Nat :
       h = Held /\ o = outstanding_cnt_q /\ n = n_flush_q /\ n <= o /\ o <= MAX_OUTSTANDING
  BY DEF BufferInv, FetchTypeOK, RoomInv
<1>7. /\ u \in {0, 1} /\ d \in {0, 1} /\ Num(in) \in {0, 1} /\ k = h + Num(in)
      /\ (u = 1 => o < MAX_OUTSTANDING) /\ (d = 1 => 0 < o)
      /\ (n > 0 => Num(in) = 0) /\ (n = 0 => Num(in) = d)
  <2>1. u \in {0, 1} /\ d \in {0, 1} /\ Num(in) \in {0, 1} /\ k = h + Num(in)
    BY DEF OneIf, Num, Filled
  <2>2. (u = 1 => o < MAX_OUTSTANDING) /\ (d = 1 => 0 < o)
    BY <1>2, <1>3 DEF OneIf
  <2>3. (n > 0 => Num(in) = 0) /\ (n = 0 => Num(in) = d)
    BY <1>3 DEF OneIf, Num, Arriving
  <2>. QED
    BY <2>1, <2>2, <2>3
<1>8. outstanding_cnt_q' = o + u - d
  BY <1>4 DEF outstanding_cnt_n, OneIf
<1>9. n_flush_q' = n - d + Num(in)
  <2>1. n_flush_q' = IF d = 1 /\ n > 0 THEN n - 1 ELSE n
    BY <1>5 DEF n_flush_n, OneIf
  <2>. QED
    BY <1>7, <2>1
<1>10. a <= k
  BY <1>6, <1>7 DEF Gone
<1>. PICK x \in {0, 1} : x = Num(in)
  BY <1>7
<1>11. /\ o + u - d \in Nat /\ n - d + x \in Nat /\ n - d + x <= o + u - d /\ o + u - d <= MAX_OUTSTANDING
       /\ d <= o /\ x <= d
  BY <1>7, Params
<1>12. Live = h + o - n /\ Live \in Nat /\ k <= Live
  <2>1. Live = h + o - n
    BY DEF Live
  <2>. QED
    BY <1>7, <2>1
<1>13. Live' = Live + u - a
  <2>1. Live' = (k - a) + (o + u - d) - (n - d + x)
    BY <1>6, <1>8, <1>9 DEF Live
  <2>. QED
    BY <1>6, <1>7, <1>12, <2>1
<1>. QED
  BY <1>7, <1>8, <1>9, <1>10, <1>11, <1>12, <1>13

(* The prefetcher asks only for words that will have a slot.                 *)
LEMMA RoomForOne ==
  ASSUME FetchInv, NEW instr_req, fetch_valid_o({}, instr_req), boot # "RESET"
  PROVE  Live < ALBUF_DEPTH
<1>1. /\ ~ptr_fetch_accepted_q /\ outstanding_cnt_q < MAX_OUTSTANDING
      /\ Cnt = 0 \/ (Cnt = 1 /\ outstanding_cnt_q = 0)
  BY DEF fetch_valid_o
<1>. PICK h \in 0..ALBUF_DEPTH, o \in Nat, n \in Nat :
       h = Held /\ o = outstanding_cnt_q /\ n = n_flush_q /\ n <= o
  BY DEF FetchInv, BufferInv, FetchTypeOK, RoomInv
<1>2. Live = h + o - n
  BY DEF Live
<1>3. CASE branch_wait
  BY <1>3, Params DEF FetchInv, PointerInv
<1>4. CASE ~branch_wait
  <2>1. ~is_ptr_q
    BY <1>1, <1>4 DEF FetchInv, PointerInv
  <2>2. PICK S : Begun(buf, rptr, h, Half(addr_q), aligned_q, complete_q, S) /\ Cnt = Cardinality(S)
    BY <1>1, <2>1 DEF FetchInv, CountInv
  <2>3. Half(addr_q) \in {0, 1}
    BY AddressParts DEF FetchInv, FetchTypeOK
  <2>4. (Cnt = 0 => h <= 1) /\ (Cnt = 1 => h <= 2)
    BY <2>2, <2>3, FewWords
  <2>. QED
    BY <1>1, <1>2, <2>4, Params
<1>. QED
  BY <1>3, <1>4

(* What the prefetcher does without a jump.                                  *)
LEMMA OnwardFetch ==
  ASSUME FetchInv,
         NEW instr_req, NEW ready, NEW gnt, NEW rvalid, NEW wide, NEW bad,
         Edge({}, instr_req, ready, gnt, rvalid, wide, bad),
         NEW up, up = fetch_ready({}, instr_req, bad)
  PROVE  /\ up \in BOOLEAN
         /\ up => boot # "RESET" /\ ~ptr_fetch_accepted_q /\ Live < ALBUF_DEPTH
         /\ branch_wait' = (branch_wait /\ ~up)
         /\ ptr_fetch_accepted_q' = (ptr_fetch_accepted_q \/ (up /\ branch_wait /\ is_ptr_q))
         /\ trans_addr_q' = IF up THEN trans_addr_o({}) ELSE trans_addr_q
         /\ trans_ptr_access_q' = IF up THEN branch_wait /\ trans_ptr_access_q ELSE trans_ptr_access_q
         /\ trans_addr_o({}) \in 0..(Words - 1)
         /\ boot # "RESET" => trans_addr_o({}) = Fwd(Word(addr_q), Live)
<1>1. /\ instr_req \in BOOLEAN /\ bad \in BOOLEAN /\ {} \in Jumps /\ (bad => Refused({}, instr_req, bad))
      /\ FetchTypeOK /\ FlightInv /\ PointerInv /\ AddressInv
      /\ BufferInv /\ RoomInv /\ (is_ptr_q => Half(addr_q) = 0)
  BY DEF Edge, FetchInv, PointerInv
<1>2. /\ up \in BOOLEAN /\ (up => fetch_valid_o({}, instr_req) /\ instr_req)
      /\ Fetch({}) \in Flights /\ Fetch({}).word = trans_addr_o({})
  BY <1>1, Departures
<1>3. boot = "RESET" => ~instr_req
  BY <1>1, Onward
<1>4. up => boot # "RESET" /\ ~ptr_fetch_accepted_q /\ Live < ALBUF_DEPTH
  <2>1. up => boot # "RESET" /\ fetch_valid_o({}, instr_req)
    BY <1>2, <1>3
  <2>. QED
    BY <2>1, RoomForOne DEF fetch_valid_o
<1>5. /\ ptr_fetch_accepted_q' = (IF up /\ fetch_ptr_access_o({}) THEN TRUE ELSE ptr_fetch_accepted_q)
      /\ branch_wait' = (branch_wait /\ ~up)
      /\ trans_addr_q' = IF up THEN trans_addr_o({}) ELSE trans_addr_q
      /\ trans_ptr_access_q' = IF up THEN fetch_ptr_access_o({}) ELSE trans_ptr_access_q
  BY <1>1, <1>2 DEF Edge, Cycle, FetchTypeOK
<1>6. fetch_ptr_access_o({}) = (branch_wait /\ trans_ptr_access_q)
  BY DEF fetch_ptr_access_o
<1>7. branch_wait => (is_ptr_q <=> trans_ptr_access_q)
  BY <1>1 DEF PointerInv
<1>8. /\ ptr_fetch_accepted_q \in BOOLEAN /\ branch_wait \in BOOLEAN
      /\ trans_ptr_access_q \in BOOLEAN /\ is_ptr_q \in BOOLEAN /\ trans_addr_q \in 0..(Words - 1)
  BY <1>1 DEF FetchTypeOK
<1>9. ptr_fetch_accepted_q' = (ptr_fetch_accepted_q \/ (up /\ branch_wait /\ is_ptr_q))
  BY <1>2, <1>5, <1>6, <1>7, <1>8
<1>10. trans_addr_o({}) = IF branch_wait THEN trans_addr_q ELSE Fwd(trans_addr_q, 1)
  <2>1. (trans_addr_q + 1) % Words = Fwd(trans_addr_q, 1)
    BY <1>8, Params, ModOnce DEF Fwd
  <2>. QED
    BY <2>1 DEF trans_addr_o
<1>11. boot # "RESET" => trans_addr_o({}) = Fwd(Word(addr_q), Live)
  BY <1>1, <1>10 DEF AddressInv
<1>12. trans_addr_o({}) \in 0..(Words - 1)
  BY <1>8, <1>10, Params DEF Fwd
<1>. QED
  BY <1>2, <1>4, <1>5, <1>6, <1>9, <1>11, <1>12

LEMMA FwdFwd ==
  ASSUME NEW base \in 0..(Words - 1), NEW i \in Nat, NEW j \in Nat, i + j < Words
  PROVE  Fwd(base, i) \in 0..(Words - 1) /\ Fwd(Fwd(base, i), j) = Fwd(base, i + j)
BY Params DEF Fwd

(* The room, the place of the next fetch and the pointers, without a jump.   *)
LEMMA OnwardKept ==
  ASSUME FetchInv,
         NEW instr_req, NEW ready, NEW gnt, NEW rvalid, NEW wide, NEW bad,
         Edge({}, instr_req, ready, gnt, rvalid, wide, bad)
  PROVE  RoomInv' /\ AddressInv' /\ PointerInv' /\ BootInv'
<1>. PICK in, emit, up : /\ in = resp_gated(rvalid, wide) /\ emit = (instr_valid_o({}, in) /\ ready)
                         /\ up = fetch_ready({}, instr_req, bad)
  OBVIOUS
<1>. PICK a, k, u, d : /\ a = Gone(in, emit) /\ k = Filled(in)
                       /\ u = OneIf(fetch_ready({}, instr_req, bad))
                       /\ d = OneIf(Arriving(rvalid, wide))
  OBVIOUS
<1>1. /\ FetchTypeOK /\ BufferInv /\ FlightInv /\ RoomInv /\ PointerInv /\ AddressInv /\ BootInv
      /\ (is_ptr_q => Half(addr_q) = 0)
  BY DEF FetchInv, PointerInv
<1>2. /\ up \in BOOLEAN
      /\ up => boot # "RESET" /\ ~ptr_fetch_accepted_q /\ Live < ALBUF_DEPTH
      /\ branch_wait' = (branch_wait /\ ~up)
      /\ ptr_fetch_accepted_q' = (ptr_fetch_accepted_q \/ (up /\ branch_wait /\ is_ptr_q))
      /\ trans_addr_q' = IF up THEN trans_addr_o({}) ELSE trans_addr_q
      /\ trans_ptr_access_q' = IF up THEN branch_wait /\ trans_ptr_access_q ELSE trans_ptr_access_q
      /\ trans_addr_o({}) \in 0..(Words - 1)
      /\ boot # "RESET" => trans_addr_o({}) = Fwd(Word(addr_q), Live)
  BY OnwardFetch
<1>3. /\ u \in {0, 1} /\ d \in {0, 1} /\ Num(in) \in {0, 1} /\ k = Held + Num(in)
      /\ outstanding_cnt_q' = outstanding_cnt_q + u - d
      /\ n_flush_q' <= outstanding_cnt_q' /\ outstanding_cnt_q' <= MAX_OUTSTANDING
      /\ d <= outstanding_cnt_q /\ Num(in) <= d
      /\ Live \in Nat /\ k <= Live /\ Live' = Live + u - a /\ a <= k
  BY <1>1, OnwardFlow
<1>4. /\ a \in {0, 1} /\ (emit => k > 0) /\ k \in 0..ALBUF_DEPTH /\ Held' = k - a
      /\ addr_q' \in Halves /\ Word(addr_q') = Fwd(Word(addr_q), a)
  BY <1>1, OnwardBuffer
<1>5. /\ emit \in BOOLEAN /\ addr_q' = (IF emit THEN addr_n(in) ELSE addr_q)
      /\ is_ptr_q' = (is_ptr_q /\ ~emit) /\ boot' = boot
      /\ (emit => instr_valid_o({}, in)) /\ Fits(in)
      /\ instr_cnt_q' = Cnt + n_incoming_ins(in) /\ pop_q' = emit
  BY <1>1, Onward
<1>6. (up <=> u = 1) /\ (emit /\ is_ptr_q => a = 1) /\ (~emit => a = 0)
  <2>1. emit /\ is_ptr_q => Past(in) = 1
    BY <1>1, <1>5, TakenIs DEF Filled
  <2>. QED
    BY <1>2, <2>1 DEF OneIf, Gone
<1>7. Held \in 0..ALBUF_DEPTH /\ Word(addr_q) \in 0..(Words - 1)
  BY <1>1, AddressParts DEF BufferInv, FetchTypeOK
<1>8. RoomInv'
  <2>1. Live' <= ALBUF_DEPTH
    <3>1. Live <= ALBUF_DEPTH
      BY <1>1 DEF RoomInv
    <3>2. u = 1 => Live < ALBUF_DEPTH
      BY <1>2, <1>6
    <3>. QED
      BY <1>3, <1>4, <3>1, <3>2, Params
  <2>. QED
    BY <1>3, <2>1 DEF RoomInv
<1>9. AddressInv'
  <2>. SUFFICES ASSUME boot # "RESET"
                PROVE  (IF branch_wait' THEN trans_addr_q' ELSE Fwd(trans_addr_q', 1))
                         = Fwd(Word(addr_q'), Live')
    BY <1>5 DEF AddressInv
  <2>. PICK w \in 0..(Words - 1), l \in Nat : w = Word(addr_q) /\ l = Live /\ l <= ALBUF_DEPTH
    BY <1>1, <1>3, <1>7 DEF RoomInv
  <2>1. Fwd(Word(addr_q'), Live') = Fwd(w, l + u)
    <3>. PICK y \in Nat : y = l + u - a
      BY <1>3, <1>4
    <3>1. Fwd(Fwd(w, a), y) = Fwd(w, a + y)
      <4>1. a \in Nat /\ a + y < Words
        <5>1. u = 1 => l < ALBUF_DEPTH
          BY <1>2, <1>6
        <5>2. a \in {0, 1} /\ u \in {0, 1} /\ l <= ALBUF_DEPTH /\ y = l + u - a
          BY <1>3, <1>4
        <5>. QED
          BY ONLY <5>1, <5>2, Params, l \in Nat, y \in Nat
      <4>. QED
        BY <4>1, FwdFwd
    <3>2. a + y = l + u
      BY <1>3, <1>4
    <3>. QED
      BY <1>3, <1>4, <3>1, <3>2
  <2>2. CASE up
    <3>1. /\ branch_wait' = FALSE /\ trans_addr_q' = Fwd(w, l) /\ u = 1 /\ l < ALBUF_DEPTH
      BY <1>2, <1>6, <2>2
    <3>2. Fwd(Fwd(w, l), 1) = Fwd(w, l + 1)
      BY <3>1, FwdFwd, Params
    <3>. QED
      BY <2>1, <3>1, <3>2
  <2>3. CASE ~up
    <3>1. /\ branch_wait' = branch_wait /\ trans_addr_q' = trans_addr_q /\ u = 0
      BY <1>1, <1>2, <1>3, <1>6, <2>3 DEF FetchTypeOK
    <3>2. l + u = l
      BY <3>1
    <3>. QED
      BY <1>1, <2>1, <3>1, <3>2 DEF AddressInv
  <2>. QED
    BY <1>2, <2>2, <2>3
<1>10. PointerInv'
  <2>1. /\ branch_wait => Live = 0 /\ Held = 0 /\ ~ptr_fetch_accepted_q
                          /\ (is_ptr_q <=> trans_ptr_access_q)
        /\ is_ptr_q => branch_wait \/ ptr_fetch_accepted_q
        /\ ptr_fetch_accepted_q => Live = (IF is_ptr_q THEN 1 ELSE 0)
    BY <1>1 DEF PointerInv
  <2>2. /\ is_ptr_q \in BOOLEAN /\ branch_wait \in BOOLEAN /\ ptr_fetch_accepted_q \in BOOLEAN
        /\ trans_ptr_access_q \in BOOLEAN
    BY <1>1 DEF FetchTypeOK
  <2>3. is_ptr_q' => Half(addr_q') = 0
    BY <1>1, <1>5
  <2>4. Live = 0 => ~emit /\ a = 0 /\ k = 0
    BY <1>3, <1>4, <1>5, <1>6
  <2>5. branch_wait' => /\ Live' = 0 /\ Held' = 0 /\ ~ptr_fetch_accepted_q'
                        /\ (is_ptr_q' <=> trans_ptr_access_q')
    <3>. SUFFICES ASSUME branch_wait, ~up
                  PROVE  /\ Live' = 0 /\ Held' = 0 /\ ~ptr_fetch_accepted_q'
                         /\ (is_ptr_q' <=> trans_ptr_access_q')
      BY <1>2
    <3>1. Live = 0 /\ u = 0 /\ ~emit /\ a = 0 /\ k = 0
      BY <1>3, <1>6, <2>1, <2>4
    <3>2. Live' = 0 /\ Held' = 0
      BY <1>3, <1>4, <3>1
    <3>. QED
      BY <1>2, <1>5, <2>1, <2>2, <3>1, <3>2
  <2>6. is_ptr_q' => branch_wait' \/ ptr_fetch_accepted_q'
    BY <1>2, <1>5, <2>1, <2>2
  <2>7. ptr_fetch_accepted_q' => Live' = (IF is_ptr_q' THEN 1 ELSE 0)
    <3>1. CASE ptr_fetch_accepted_q
      <4>1. u = 0 /\ Live = (IF is_ptr_q THEN 1 ELSE 0)
        BY <1>2, <1>3, <1>6, <2>1, <3>1
      <4>2. CASE is_ptr_q /\ emit
        <5>1. Live = 1 /\ a = 1 /\ ~is_ptr_q'
          BY <1>5, <1>6, <4>1, <4>2
        <5>2. Live' = 0
          BY <1>3, <4>1, <5>1
        <5>. QED
          BY <5>1, <5>2
      <4>3. CASE is_ptr_q /\ ~emit
        <5>1. Live = 1 /\ a = 0 /\ is_ptr_q'
          BY <1>5, <1>6, <4>1, <4>3
        <5>2. Live' = 1
          BY <1>3, <4>1, <5>1
        <5>. QED
          BY <5>1, <5>2
      <4>4. CASE ~is_ptr_q
        <5>1. Live = 0 /\ a = 0 /\ ~is_ptr_q'
          BY <1>5, <2>4, <4>1, <4>4
        <5>2. Live' = 0
          BY <1>3, <4>1, <5>1
        <5>. QED
          BY <5>1, <5>2
      <4>. QED
        BY <1>5, <2>2, <4>2, <4>3, <4>4
    <3>2. CASE up /\ branch_wait /\ is_ptr_q
      <4>1. Live = 0 /\ u = 1 /\ ~emit /\ a = 0
        BY <1>6, <2>1, <2>4, <3>2
      <4>2. Live' = 1
        BY <1>3, <4>1
      <4>3. is_ptr_q'
        BY <1>5, <3>2, <4>1
      <4>. QED
        BY <4>2, <4>3
    <3>. QED
      BY <1>2, <2>2, <3>1, <3>2
  <2>. QED
    BY <2>3, <2>5, <2>6, <2>7 DEF PointerInv
<1>11. BootInv'
  <2>. SUFFICES ASSUME boot = "RESET" PROVE BootInv'
    BY <1>5 DEF BootInv
  <2>1. /\ Held = 0 /\ outstanding_cnt_q = 0 /\ ~is_ptr_q /\ ~ptr_fetch_accepted_q /\ ~branch_wait
        /\ instr_cnt_q = 0 /\ ~pop_q
    BY <1>1 DEF BootInv
  <2>2. ~up /\ u = 0
    BY <1>2, <1>3, <1>6
  <2>3. d = 0 /\ Num(in) = 0 /\ k = 0 /\ a = 0 /\ ~emit
    BY <1>3, <1>4, <1>5, <2>1
  <2>4. in = {}
    BY <2>3 DEF Num
  <2>5. n_incoming_ins(in) = 0 /\ Cnt = 0
    <3>1. n_incoming_ins(in) = 0
      BY <2>4 DEF n_incoming_ins
    <3>3. (IF pop_q THEN 1 ELSE 0) = 0
      BY <2>1
    <3>4. instr_cnt_q \in Int
      BY <1>1 DEF FetchTypeOK
    <3>. PICK c1 \in Int : c1 = instr_cnt_q /\ c1 = 0
      BY <2>1, <3>4
    <3>. PICK c2 \in Int : c2 = (IF pop_q THEN 1 ELSE 0) /\ c2 = 0
      BY <3>3
    <3>5. Cnt = c1 - c2
      BY DEF Cnt
    <3>2. Cnt = 0
      BY <3>5
    <3>. QED
      BY <3>1, <3>2
  <2>6. Held' = 0 /\ outstanding_cnt_q' = 0 /\ instr_cnt_q' = 0
    BY <1>3, <1>4, <1>5, <2>1, <2>2, <2>3, <2>5
  <2>. QED
    BY <1>2, <1>5, <2>1, <2>3, <2>6 DEF BootInv
<1>. QED
  BY <1>8, <1>9, <1>10, <1>11

(* A word on its way keeps its place while the stream moves on.              *)
MovesBy(h, n, i, a, d, x) ==
  /\ h \in Nat /\ n \in Nat /\ i \in Nat /\ a \in {0, 1} /\ d \in {0, 1} /\ x \in {0, 1}
  /\ x <= d /\ (n > 0 => x = 0) /\ (n = 0 => x = d) /\ d < i /\ a <= h + x
  /\ h + i - n - 1 < Words

(* A fetch on its way keeps its place when d leave, x arrive and a words are used up.*)
LEMMA AgedPlace ==
  ASSUME NEW f \in Flights, NEW base \in 0..(Words - 1), NEW h, NEW n, NEW i, NEW a, NEW d, NEW x,
         MovesBy(h, n, i, a, d, x), Place(f, i, n, base, h)
  PROVE  Place(Aged({}, f), i - d, n - d + x, Fwd(base, a), h + x - a)
<1>0. /\ h \in Nat /\ n \in Nat /\ i \in Nat /\ a \in {0, 1} /\ d \in {0, 1} /\ x \in {0, 1}
      /\ x <= d /\ (n > 0 => x = 0) /\ (n = 0 => x = d) /\ d < i /\ a <= h + x
      /\ h + i - n - 1 < Words
  BY DEF MovesBy
<1>. USE <1>0
<1>. PICK j \in Nat, m \in Int, q \in Nat : j = i - d /\ m = n - d + x /\ q = h + x - a
  OBVIOUS
<1>1. (i <= n <=> j <= m) /\ (i > n <=> j > m)
  OBVIOUS
<1>2. (Aged({}, f).stale <=> f.stale) /\ Aged({}, f).word = f.word
  BY AgedIs
<1>3. j > m => f.word = Fwd(Fwd(base, a), q + j - m - 1)
  <2>. SUFFICES ASSUME j > m PROVE f.word = Fwd(Fwd(base, a), q + j - m - 1)
    OBVIOUS
  <2>1. i > n
    BY <1>1
  <2>2. f.word = Fwd(base, h + i - n - 1)
    BY <2>1 DEF Place
  <2>. PICK y \in Nat : y = q + j - m - 1
    BY <2>1
  <2>3. a + y = h + i - n - 1 /\ a + y < Words /\ a \in Nat
    BY <2>1, Params
  <2>4. Fwd(Fwd(base, a), y) = Fwd(base, a + y)
    BY <2>3, FwdFwd
  <2>. QED
    BY <2>2, <2>3, <2>4
<1>4. f.stale <=> i <= n
  BY DEF Place
<1>. QED
  BY <1>1, <1>2, <1>3, <1>4 DEF Place

(* The words on their way, without a jump.                                   *)
LEMMA OnwardFlight ==
  ASSUME FetchInv,
         NEW instr_req, NEW ready, NEW gnt, NEW rvalid, NEW wide, NEW bad,
         Edge({}, instr_req, ready, gnt, rvalid, wide, bad)
  PROVE  /\ FlightInv'
         /\ slave' \in Seq(Flights) /\ obi_a_req_q' \in Option(Flights) /\ blocked' \in Option(Flights)
         /\ mpu_state' \in {"IDLE", "ERR_WAIT", "ERR_RESP"}
<1>. PICK in, emit : in = resp_gated(rvalid, wide) /\ emit = (instr_valid_o({}, in) /\ ready)
  OBVIOUS
<1>. PICK a, k, u, d : /\ a = Gone(in, emit) /\ k = Filled(in)
                       /\ u = OneIf(fetch_ready({}, instr_req, bad))
                       /\ d = OneIf(Arriving(rvalid, wide))
  OBVIOUS
<1>1. /\ FetchTypeOK /\ BufferInv /\ FlightInv /\ RoomInv /\ (is_ptr_q => Half(addr_q) = 0)
  BY DEF FetchInv, PointerInv
<1>2. /\ u \in {0, 1} /\ d \in {0, 1} /\ Num(in) \in {0, 1} /\ k = Held + Num(in)
      /\ d <= outstanding_cnt_q /\ Num(in) <= d
      /\ n_flush_q > 0 => Num(in) = 0
      /\ n_flush_q = 0 => Num(in) = d
      /\ outstanding_cnt_q' = outstanding_cnt_q + u - d /\ outstanding_cnt_q' \in Nat
      /\ n_flush_q' = n_flush_q - d + Num(in) /\ n_flush_q' \in Nat
      /\ Live \in Nat /\ k <= Live /\ Live' = Live + u - a /\ a <= k
  BY <1>1, OnwardFlow
<1>3. /\ a \in {0, 1} /\ k \in 0..ALBUF_DEPTH /\ Held' = k - a /\ Word(addr_q') = Fwd(Word(addr_q), a)
  BY <1>1, OnwardBuffer
<1>. PICK base \in 0..(Words - 1), h \in Nat, n \in Nat, o \in Nat, x \in {0, 1} :
       /\ base = Word(addr_q) /\ h = Held /\ n = n_flush_q /\ o = outstanding_cnt_q /\ x = Num(in)
       /\ n <= o /\ h + o - n < Words /\ Live = h + o - n
  <2>1. Live = Held + outstanding_cnt_q - n_flush_q
    BY DEF Live
  <2>2. /\ Held \in Nat /\ n_flush_q \in Nat /\ outstanding_cnt_q \in Nat /\ n_flush_q <= outstanding_cnt_q
        /\ Live <= ALBUF_DEPTH
    BY <1>1, Params DEF BufferInv, RoomInv, FetchTypeOK
  <2>3. Live < Words
    BY <1>2, <2>2, Params
  <2>4. Word(addr_q) \in 0..(Words - 1)
    BY <1>1, AddressParts DEF FetchTypeOK
  <2>. QED
    BY <1>2, <2>1, <2>2, <2>3, <2>4
<1>7. Held' = h + x - a /\ h + x - a \in Nat
  <2>1. k = h + x /\ Held' = k - a /\ a <= k /\ a \in {0, 1}
    BY <1>2, <1>3
  <2>. QED
    BY ONLY <2>1, h \in Nat, x \in {0, 1}
<1>8. n_flush_q' = n - d + x /\ outstanding_cnt_q' = o + u - d
  BY <1>2
<1>. PICK n2 \in Nat : n2 = n_flush_q' /\ n2 = n - d + x
  BY <1>2, <1>8
<1>. PICK o2 \in Nat : o2 = outstanding_cnt_q' /\ o2 = o + u - d
  BY <1>2, <1>8
<1>. PICK h2 \in Nat : h2 = Held' /\ h2 = h + x - a
  BY <1>7
<1>. PICK base2 : base2 = Word(addr_q') /\ base2 = Fwd(base, a)
  BY <1>3
<1>4. ASSUME NEW f \in Flights, NEW i \in 1..o, IsAt(f, i), d < i
      PROVE  Place(Aged({}, f), i - d, n2, base2, h2)
  <2>1. Place(f, i, n, base, h)
    BY <1>4 DEF IsAt
  <2>2. /\ x <= d /\ (n > 0 => x = 0) /\ (n = 0 => x = d) /\ a <= h + x
        /\ d \in {0, 1} /\ a \in {0, 1} /\ d < i
        /\ h + i - n - 1 < Words /\ i \in Nat
    BY <1>2, <1>3, <1>4, Params
  <2>4. MovesBy(h, n, i, a, d, x)
    BY <2>2 DEF MovesBy
  <2>3. Place(Aged({}, f), i - d, n - d + x, Fwd(base, a), h + x - a)
    BY <2>1, <2>4, AgedPlace
  <2>. QED
    BY <2>3
<1>5. fetch_ready({}, instr_req, bad) => Place(Fetch({}), o2, n2, base2, h2)
  <2>. SUFFICES ASSUME fetch_ready({}, instr_req, bad) PROVE Place(Fetch({}), o2, n2, base2, h2)
    OBVIOUS
  <2>1. /\ boot # "RESET" /\ trans_addr_o({}) = Fwd(base, Live)
    BY OnwardFetch
  <2>2. u = 1
    BY DEF OneIf
  <2>. PICK l \in Nat : l = Live /\ l = h + o - n /\ k <= l
    BY <1>2
  <2>7. /\ d \in {0, 1} /\ a \in {0, 1} /\ u = 1 /\ d <= o /\ x <= d /\ (n > 0 => x = 0)
        /\ a <= k /\ k \in Nat
    BY <1>2, <1>3, <2>2, Params
  <2>8. o2 > n2 /\ ~(o2 <= n2) /\ h2 + o2 - n2 - 1 = l - a /\ l - a \in Nat
    <3>1. n2 = n - d + x /\ o2 = o + u - d /\ h2 = h + x - a /\ l = h + o - n /\ k = h + x /\ n <= o
      BY <1>2
    <3>. QED
      BY ONLY <2>7, <3>1, n \in Nat, o \in Nat, h \in Nat, l \in Nat, x \in {0, 1}
  <2>3. o2 > n2 /\ ~(o2 <= n2) /\ h2 + o2 - n2 - 1 = Live - a /\ Live - a \in Nat
    BY <2>8
  <2>4. ~Fetch({}).stale /\ Fetch({}).word = trans_addr_o({})
    BY DEF Fetch
  <2>. PICK y \in Nat : y = Live - a
    BY <2>3
  <2>5. a \in Nat /\ a + y = Live /\ a + y < Words
    BY <2>7, Params
  <2>6. Fwd(base2, y) = Fwd(base, Live)
    BY <2>5, FwdFwd
  <2>. QED
    BY <2>1, <2>3, <2>4, <2>6 DEF Place
<1>6. /\ slave' \in Seq(Flights) /\ obi_a_req_q' \in Option(Flights) /\ blocked' \in Option(Flights)
      /\ mpu_state' \in {"IDLE", "ERR_WAIT", "ERR_RESP"}
      /\ outstanding_cnt_q' = Len(slave') + Num(obi_a_req_q') + Num(blocked')
      /\ \A i \in 1..Len(slave') : Place(slave'[i], i, n2, base2, h2)
      /\ \A f \in obi_a_req_q' : Place(f, Len(slave') + 1, n2, base2, h2)
      /\ \A f \in blocked' : Place(f, outstanding_cnt_q', n2, base2, h2)
      /\ mpu_state' = "IDLE" <=> blocked' = {}
      /\ mpu_state' = "ERR_RESP" => outstanding_cnt_q' = 1
  <2>2. \A f \in Flights, i \in 1..outstanding_cnt_q :
          IsAt(f, i) /\ OneIf(Arriving(rvalid, wide)) < i =>
            Place(Aged({}, f), i - OneIf(Arriving(rvalid, wide)), n2, base2, h2)
    BY <1>4
  <2>3. fetch_ready({}, instr_req, bad) => Place(Fetch({}), outstanding_cnt_q', n2, base2, h2)
    BY <1>5
  <2>. QED
    BY <1>1, <2>2, <2>3, FlightStep
<1>. QED
  BY <1>6 DEF FlightInv, IsAt

(* The bookkeeping of the instructions, without a jump.                      *)
LEMMA OnwardCount ==
  ASSUME FetchInv,
         NEW instr_req, NEW ready, NEW gnt, NEW rvalid, NEW wide, NEW bad,
         Edge({}, instr_req, ready, gnt, rvalid, wide, bad)
  PROVE  CountInv'
<1>. PICK in, emit : in = resp_gated(rvalid, wide) /\ emit = (instr_valid_o({}, in) /\ ready)
  OBVIOUS
<1>. PICK a, k, u, d : /\ a = Gone(in, emit) /\ k = Filled(in)
                       /\ u = OneIf(fetch_ready({}, instr_req, bad))
                       /\ d = OneIf(Arriving(rvalid, wide))
  OBVIOUS
<1>1. /\ FetchTypeOK /\ BufferInv /\ FlightInv /\ RoomInv /\ PointerInv /\ CountInv
      /\ (is_ptr_q => Half(addr_q) = 0)
  BY DEF FetchInv, PointerInv
<1>2. /\ Live \in Nat /\ k <= Live /\ a <= k
  BY <1>1, OnwardFlow
<1>3. /\ a \in {0, 1} /\ (emit => k > 0) /\ k \in 0..ALBUF_DEPTH /\ Held' = k - a
      /\ \A j \in 0..(k - a - 1) : buf'[At(rptr', j)] = Written(in)[At(rptr, j + a)]
  BY <1>1, OnwardBuffer
<1>4. /\ emit \in BOOLEAN /\ (emit => instr_valid_o({}, in)) /\ Fits(in) /\ boot' = boot
      /\ addr_q' = IF emit THEN addr_n(in) ELSE addr_q
      /\ is_ptr_q' = (is_ptr_q /\ ~emit) /\ buf' = buf_n(in, emit)
      /\ rptr' = IF emit /\ Advances(in) THEN rptr2 ELSE rptr
      /\ aligned_q' = aligned_n({}, in) /\ complete_q' = complete_n({}, in)
      /\ instr_cnt_q' = Cnt + n_incoming_ins(in) /\ pop_q' = emit
  BY <1>1, Onward
<1>. SUFFICES ASSUME boot # "RESET", ~is_ptr_q', ~ptr_fetch_accepted_q'
              PROVE  \E S \in SUBSET (0..(2 * Held' - 1)) :
                       /\ Begun(buf', rptr', Held', Half(addr_q'), aligned_q', complete_q', S)
                       /\ Cnt' = Cardinality(S)
  BY <1>4 DEF CountInv
<1>5. ~ptr_fetch_accepted_q
  BY OnwardFetch
<1>6. ~is_ptr_q
  <2>. SUFFICES ASSUME is_ptr_q PROVE FALSE
    OBVIOUS
  <2>1. emit /\ branch_wait
    BY <1>1, <1>4, <1>5 DEF PointerInv
  <2>2. Live = 0
    BY <1>1, <2>1 DEF PointerInv
  <2>. QED
    BY <1>2, <1>3, <2>1, <2>2, Params
<1>7. Half(addr_q) \in {0, 1} /\ rptr \in Slots /\ aligned_q \in BOOLEAN /\ complete_q \in BOOLEAN
  BY <1>1, AddressParts DEF FetchTypeOK
<1>. PICK h \in 0..ALBUF_DEPTH : h = Held
  BY <1>1 DEF BufferInv
<1>. PICK al, co : al = aligned_n({}, in) /\ co = complete_n({}, in)
  OBVIOUS
<1>. PICK b : b = Written(in)
  OBVIOUS
<1>8. PICK S : Begun(buf, rptr, h, Half(addr_q), aligned_q, complete_q, S) /\ Cnt = Cardinality(S)
  BY <1>1, <1>5, <1>6 DEF CountInv
<1>9. /\ al \in BOOLEAN /\ co \in BOOLEAN
      /\ \E T : /\ Begun(b, rptr, k, Half(addr_q), al, co, T)
                /\ Cardinality(T) = Cardinality(S) + n_incoming_ins(in)
                /\ Cardinality(T) \in Nat
  <2>1. CASE in = {}
    <3>1. b = buf /\ k = h /\ al = aligned_q /\ co = complete_q
      <4>1. b = buf /\ al = aligned_q /\ co = complete_q
        BY <2>1 DEF Written, aligned_n, complete_n
      <4>2. Num(in) = 0
        BY <2>1 DEF Num
      <4>. QED
        BY <4>1, <4>2, Params DEF Filled
    <3>2. n_incoming_ins(in) = 0
      BY <2>1 DEF n_incoming_ins
    <3>3. Cardinality(S) \in Nat
      BY <1>8, FS_CardinalityType DEF Begun
    <3>4. Cardinality(S) = Cardinality(S) + n_incoming_ins(in)
      BY <3>2, <3>3
    <3>. QED
      BY <1>7, <1>8, <3>1, <3>3, <3>4
  <2>2. CASE in # {}
    <3>1. PICK e \in Entries : in = {e}
      BY <1>4, <2>2 DEF Fits
    <3>2. k = h + 1 /\ h \in Nat
      <4>1. Num(in) = 1
        BY <2>2 DEF Num
      <4>. QED
        BY <4>1, Params DEF Filled
    <3>3. b[At(rptr, h)] = {e} /\ \A j \in 0..(h - 1) : b[At(rptr, j)] = buf[At(rptr, j)]
      <4>1. k = Held + Num(in)
        BY DEF Filled
      <4>2. /\ in # {} => Held < ALBUF_DEPTH /\ buf[wptr] = {} /\ Written(in)[At(rptr, Held)] = in
            /\ \A j \in 0..(Held - 1) : Written(in)[At(rptr, j)] = buf[At(rptr, j)]
        BY <1>1, <1>4, <4>1, WrittenIs
      <4>. QED
        BY <2>2, <3>1, <4>2
    <3>4. /\ al \in BOOLEAN /\ co \in BOOLEAN
          /\ n_incoming_ins(in) \in Nat /\ Cardinality(S) \in Nat
          /\ \E T : /\ Cardinality(T) = Cardinality(S) + n_incoming_ins(in)
                    /\ Begun(b, rptr, k, Half(addr_q), al, co, T)
      <4>. PICK f : f = Half(addr_q) /\ f \in {0, 1}
        BY <1>7
      <4>1. Begun(buf, rptr, h, f, aligned_q, complete_q, S) /\ h \in Nat
        BY <1>8, <3>2
      <4>. PICK n : n = n_incoming_ins(in)
        OBVIOUS
      <4>2. Coming(buf, rptr, h, f, S, in, b, al, co, n)
        BY <1>7, <3>1, <3>3, <4>1 DEF Coming
      <4>3. /\ al \in BOOLEAN /\ co \in BOOLEAN /\ n \in Nat /\ Cardinality(S) \in Nat
            /\ \E T : Cardinality(T) = Cardinality(S) + n /\ Begun(b, rptr, h + 1, f, al, co, T)
        BY <4>2, PushChain
      <4>. QED
        BY <3>2, <4>3
    <3>. QED
      BY <3>4
  <2>. QED
    BY <2>1, <2>2
<1>10. PICK T : /\ Begun(b, rptr, k, Half(addr_q), al, co, T)
                /\ Cardinality(T) = Cardinality(S) + n_incoming_ins(in)
                /\ Cardinality(T) \in Nat
  BY <1>9
<1>11. instr_cnt_q' = Cardinality(T)
  BY <1>4, <1>8, <1>10
<1>12. \E U : /\ Begun(buf', rptr', k - a, Half(addr_q'), al, co, U)
              /\ Cnt' = Cardinality(U)
  <2>1. CASE ~emit
    <3>1. a = 0 /\ buf' = b /\ rptr' = rptr /\ addr_q' = addr_q /\ pop_q' = FALSE
      BY <1>4, <2>1 DEF Gone, buf_n, Written
    <3>2. Cnt' = Cardinality(T)
      <4>1. (IF pop_q' THEN 1 ELSE 0) = 0
        BY <3>1
      <4>. PICK z \in Nat : z = instr_cnt_q' /\ z = Cardinality(T)
        BY <1>10, <1>11
      <4>2. Cnt' = z - 0
        BY <4>1 DEF Cnt
      <4>. QED
        BY <4>2
    <3>3. k - a = k
      BY <1>3, <3>1
    <3>. QED
      BY <1>10, <3>1, <3>2, <3>3
  <2>2. CASE emit
    <3>1. /\ k > 0 /\ Step(in) = WidthIn(b, rptr, Half(addr_q))
          /\ (Half(addr_q) = 1 /\ Step(in) = 2) => 2 <= k
          /\ Past(in) = IF Half(addr_q) = 1 \/ Step(in) = 2 THEN 1 ELSE 0
          /\ Half(addr_n(in)) = Half(addr_q) + Step(in) - 2 * Past(in)
      <4>1. k = Held + Num(in)
        BY DEF Filled
      <4>. QED
        BY <1>1, <1>4, <1>6, <2>2, <4>1, TakenIs
    <3>2. a = Past(in) /\ addr_q' = addr_n(in) /\ pop_q' = TRUE
      BY <1>4, <2>2 DEF Gone
    <3>3. IF a = 1 THEN rptr' = Next1(rptr) ELSE rptr' = rptr
      BY <1>4, <2>2, <3>2 DEF Past, rptr2
    <3>. PICK c, q : c = buf' /\ q = rptr'
      OBVIOUS
    <3>4. k \in 1..ALBUF_DEPTH
      BY <1>3, <3>1
    <3>5. /\ (Half(addr_q) = 1 /\ WidthIn(b, rptr, Half(addr_q)) = 2) => 2 <= k
          /\ a = (IF Half(addr_q) = 1 \/ WidthIn(b, rptr, Half(addr_q)) = 2 THEN 1 ELSE 0)
          /\ IF a = 1 THEN q = Next1(rptr) ELSE q = rptr
          /\ \A j \in 0..(k - a - 1) : c[At(q, j)] = b[At(rptr, j + a)]
      BY <1>3, <3>1, <3>2, <3>3
    <3>6. PICK U : /\ Cardinality(U) = Cardinality(T) - 1
                   /\ Begun(c, q, k - a, Half(addr_q) + WidthIn(b, rptr, Half(addr_q)) - 2 * a, al, co, U)
      <4>. PICK f : f = Half(addr_q) /\ f \in {0, 1}
        BY <1>7
      <4>1. Taking(b, rptr, k, f, al, co, T, a, c, q)
        BY <1>7, <1>9, <1>10, <3>4, <3>5 DEF Taking
      <4>2. \E U : /\ Cardinality(U) = Cardinality(T) - 1
                   /\ Begun(c, q, k - a, f + WidthIn(b, rptr, f) - 2 * a, al, co, U)
        BY <4>1, PopChain
      <4>. QED
        BY <4>2
    <3>7. Begun(buf', rptr', k - a, Half(addr_q'), al, co, U)
      BY <3>1, <3>2, <3>6
    <3>8. Cnt' = Cardinality(U)
      <4>1. (IF pop_q' THEN 1 ELSE 0) = 1
        BY <3>2
      <4>. PICK z \in Nat : z = instr_cnt_q' /\ z = Cardinality(T)
        BY <1>10, <1>11
      <4>2. Cnt' = z - 1
        BY <4>1 DEF Cnt
      <4>. QED
        BY <3>6, <4>2
    <3>. QED
      BY <3>7, <3>8
  <2>. QED
    BY <1>4, <2>1, <2>2
<1>13. PICK U : Begun(buf', rptr', k - a, Half(addr_q'), al, co, U) /\ Cnt' = Cardinality(U)
  BY <1>12
<1>14. U \in SUBSET (0..(2 * (k - a) - 1))
  <2>1. Half(addr_q') \in {0, 1} /\ k - a \in Nat
    <3>1. addr_q' \in Halves
      BY <1>1, OnwardBuffer
    <3>2. k - a \in Nat
      BY <1>2, <1>3
    <3>. QED
      BY <3>1, <3>2, AddressParts
  <2>. PICK r, c : r = rptr' /\ c = buf'
    OBVIOUS
  <2>. PICK x \in Nat : x = k - a
    BY <2>1
  <2>. PICK f : f = Half(addr_q') /\ f \in {0, 1}
    BY <2>1
  <2>2. Begun(c, r, x, f, al, co, U)
    BY <1>13
  <2>3. U \in SUBSET (0..(2 * x - 1))
    BY <2>2, BegunBound
  <2>. QED
    BY <2>3
<1>. QED
  BY <1>3, <1>4, <1>13, <1>14

(* A cycle without a jump keeps the invariant.                               *)
LEMMA OnwardInv ==
  ASSUME FetchInv,
         NEW instr_req, NEW ready, NEW gnt, NEW rvalid, NEW wide, NEW bad,
         Edge({}, instr_req, ready, gnt, rvalid, wide, bad)
  PROVE  FetchInv'
<1>. PICK in, emit : in = resp_gated(rvalid, wide) /\ emit = (instr_valid_o({}, in) /\ ready)
  OBVIOUS
<1>1. /\ FetchTypeOK /\ BufferInv /\ FlightInv /\ RoomInv /\ (is_ptr_q => Half(addr_q) = 0)
  BY DEF FetchInv, PointerInv
<1>. PICK a, k, u, d : /\ a = Gone(in, emit) /\ k = Filled(in)
                       /\ u = OneIf(fetch_ready({}, instr_req, bad))
                       /\ d = OneIf(Arriving(rvalid, wide))
  OBVIOUS
<1>2. /\ BufferInv'
      /\ buf' \in [Slots -> SUBSET Entries] /\ rptr' \in Slots /\ wptr' \in Slots
      /\ addr_q' \in Halves
  BY <1>1, OnwardBuffer
<1>3. outstanding_cnt_q' \in Nat /\ n_flush_q' \in Nat
  BY <1>1, OnwardFlow
<1>4. /\ RoomInv' /\ AddressInv' /\ PointerInv' /\ BootInv' /\ CountInv'
  BY OnwardKept, OnwardCount
<1>5. /\ FlightInv'
      /\ slave' \in Seq(Flights) /\ obi_a_req_q' \in Option(Flights) /\ blocked' \in Option(Flights)
      /\ mpu_state' \in {"IDLE", "ERR_WAIT", "ERR_RESP"}
  BY OnwardFlight
<1>6. /\ emit \in BOOLEAN /\ is_ptr_q' = (is_ptr_q /\ ~emit) /\ boot' = boot
      /\ aligned_q' = aligned_n({}, in) /\ complete_q' = complete_n({}, in)
      /\ instr_cnt_q' = Cnt + n_incoming_ins(in) /\ pop_q' = emit
  BY <1>1, Onward
<1>7. /\ branch_wait' \in BOOLEAN /\ ptr_fetch_accepted_q' \in BOOLEAN
      /\ trans_addr_q' \in 0..(Words - 1) /\ trans_ptr_access_q' \in BOOLEAN
  <2>. PICK up : up = fetch_ready({}, instr_req, bad)
    OBVIOUS
  <2>1. /\ up \in BOOLEAN
        /\ branch_wait' = (branch_wait /\ ~up)
        /\ ptr_fetch_accepted_q' = (ptr_fetch_accepted_q \/ (up /\ branch_wait /\ is_ptr_q))
        /\ trans_addr_q' = IF up THEN trans_addr_o({}) ELSE trans_addr_q
        /\ trans_ptr_access_q' = IF up THEN branch_wait /\ trans_ptr_access_q ELSE trans_ptr_access_q
        /\ trans_addr_o({}) \in 0..(Words - 1)
    BY OnwardFetch
  <2>2. trans_addr_q \in 0..(Words - 1) /\ trans_ptr_access_q \in BOOLEAN
    BY <1>1 DEF FetchTypeOK
  <2>. QED
    BY <2>1, <2>2
<1>8. aligned_q' \in BOOLEAN /\ complete_q' \in BOOLEAN
  <2>1. aligned_q \in BOOLEAN /\ complete_q \in BOOLEAN
    BY <1>1 DEF FetchTypeOK
  <2>2. aligned_n({}, in) \in BOOLEAN /\ complete_n({}, in) \in BOOLEAN
    BY <2>1 DEF aligned_n, complete_n
  <2>. QED
    BY <1>6, <2>2
<1>9. instr_cnt_q' \in Int
  <2>1. n_incoming_ins(in) \in Nat
    BY DEF n_incoming_ins
  <2>2. Cnt \in Int
    BY <1>1 DEF Cnt, FetchTypeOK
  <2>. QED
    BY <1>6, <2>1, <2>2
<1>10. boot' \in {"RESET", "DEBUG", "RUN"} /\ is_ptr_q' \in BOOLEAN /\ pop_q' \in BOOLEAN
  BY <1>1, <1>6 DEF FetchTypeOK
<1>11. FetchTypeOK'
  BY <1>2, <1>3, <1>5, <1>7, <1>8, <1>9, <1>10 DEF FetchTypeOK
<1>. QED
  BY <1>2, <1>4, <1>5, <1>11 DEF FetchInv

(* The values after a jump.                                                  *)
Emptied == [s \in Slots |-> {}]

LEMMA JumpEdge ==
  ASSUME FetchInv, NEW t \in Targets,
         NEW instr_req, NEW ready, NEW gnt, NEW rvalid, NEW wide, NEW bad,
         Edge({t}, instr_req, ready, gnt, rvalid, wide, bad)
  PROVE  \E up, u, d :
         /\ up = fetch_ready({t}, instr_req, bad)
         /\ u = OneIf(fetch_ready({t}, instr_req, bad)) /\ d = OneIf(Arriving(rvalid, wide))
         /\ t.addr \in Halves /\ t.ptr \in BOOLEAN /\ (t.ptr => Half(t.addr) = 0)
         /\ up \in BOOLEAN /\ boot' \in {"DEBUG", "RUN"}
         /\ u \in {0, 1} /\ d \in {0, 1} /\ d <= outstanding_cnt_q /\ (up <=> u = 1)
         /\ addr_q' = t.addr /\ is_ptr_q' = t.ptr /\ buf' = Emptied
         /\ rptr' = 0 /\ wptr' = 0 /\ instr_cnt_q' = 0 /\ pop_q' = FALSE
         /\ aligned_q' = (Half(t.addr) = 0) /\ complete_q' = (Half(t.addr) = 1)
         /\ n_flush_q' = outstanding_cnt_q - d
         /\ outstanding_cnt_q' = outstanding_cnt_q + u - d
         /\ outstanding_cnt_q' <= MAX_OUTSTANDING /\ outstanding_cnt_q' \in Nat
         /\ ptr_fetch_accepted_q' = (up /\ t.ptr) /\ branch_wait' = ~up
         /\ trans_addr_q' = Word(t.addr) /\ trans_ptr_access_q' = t.ptr
<1>. PICK up, u, d : /\ up = fetch_ready({t}, instr_req, bad)
                     /\ u = OneIf(fetch_ready({t}, instr_req, bad)) /\ d = OneIf(Arriving(rvalid, wide))
  OBVIOUS
<1>1. /\ FetchTypeOK /\ BufferInv /\ FlightInv /\ RoomInv
  BY DEF FetchInv
<1>2. /\ instr_req \in BOOLEAN /\ bad \in BOOLEAN /\ rvalid \in BOOLEAN /\ wide \in SUBSET {0, 1}
      /\ {t} \in Jumps /\ (rvalid => slave # <<>>) /\ (bad => Refused({t}, instr_req, bad))
      /\ Cycle({t}, instr_req, ready, gnt, rvalid, wide, bad)
  BY DEF Edge
<1>3. /\ up \in BOOLEAN /\ (up => outstanding_cnt_q < MAX_OUTSTANDING)
  BY <1>1, <1>2, Departures
<1>4. Arriving(rvalid, wide) => 0 < outstanding_cnt_q
  BY <1>1, <1>2, Arrivals
<1>5. The({t}) = t /\ {t} # {}
  BY TheOne
<1>6. t.addr \in Halves /\ t.ptr \in BOOLEAN /\ (t.ptr => Half(t.addr) = 0)
  BY FetchPathParameters DEF Halves, Half
<1>7. /\ u \in {0, 1} /\ d \in {0, 1} /\ d <= outstanding_cnt_q /\ (up <=> u = 1)
      /\ (d = 1 <=> Arriving(rvalid, wide))
  BY <1>1, <1>3, <1>4 DEF OneIf, FetchTypeOK
<1>8. boot' \in {"DEBUG", "RUN"}
  BY <1>2, <1>5 DEF Cycle, Controller
<1>9. ~instr_valid_o({t}, resp_gated(rvalid, wide))
  BY <1>5 DEF instr_valid_o
<1>10. /\ addr_q' = t.addr /\ is_ptr_q' = t.ptr /\ buf' = Emptied
       /\ rptr' = 0 /\ wptr' = 0 /\ pop_q' = FALSE
  BY <1>2, <1>5, <1>9 DEF Cycle, Emptied
<1>11. /\ instr_cnt_q' = 0
       /\ aligned_q' = (Half(t.addr) = 0) /\ complete_q' = (Half(t.addr) = 1)
  BY <1>2, <1>5 DEF Cycle, instr_cnt_n, aligned_n, complete_n
<1>12. n_flush_q' = outstanding_cnt_q - d
  BY <1>2, <1>5 DEF Cycle, n_flush_n, OneIf, Arriving
<1>13. outstanding_cnt_q' = outstanding_cnt_q + u - d
  BY <1>2 DEF Cycle, outstanding_cnt_n, OneIf, Arriving
<1>14. /\ ptr_fetch_accepted_q' = (IF up /\ t.ptr THEN TRUE ELSE FALSE) /\ branch_wait' = ~up
       /\ trans_addr_q' = Word(t.addr) /\ trans_ptr_access_q' = t.ptr
  BY <1>1, <1>2, <1>5 DEF Cycle, fetch_ptr_access_o, trans_addr_o, FetchTypeOK
<1>15. outstanding_cnt_q' <= MAX_OUTSTANDING /\ outstanding_cnt_q' \in Nat
  <2>1. outstanding_cnt_q \in Nat /\ outstanding_cnt_q <= MAX_OUTSTANDING
    BY <1>1 DEF FetchTypeOK, RoomInv
  <2>. PICK o \in Nat : o = outstanding_cnt_q /\ o <= MAX_OUTSTANDING
    BY <2>1
  <2>2. u \in {0, 1} /\ d \in {0, 1} /\ d <= o /\ (u = 1 => o < MAX_OUTSTANDING)
    BY <1>3, <1>7
  <2>3. o + u - d <= MAX_OUTSTANDING /\ o + u - d \in Nat
    BY ONLY <2>2, Params, o \in Nat, o <= MAX_OUTSTANDING
  <2>. QED
    BY <1>13, <2>3
<1>16. ptr_fetch_accepted_q' = (up /\ t.ptr)
  BY <1>3, <1>6, <1>14
<1>. QED
  BY <1>3, <1>6, <1>7, <1>8, <1>10, <1>11, <1>12, <1>13, <1>14, <1>15, <1>16

(* A jump keeps it: the buffer is empty, all on their way are to drop, and the*)
(* stream begins at the target.                                              *)
LEMMA JumpInv ==
  ASSUME FetchInv, NEW t \in Targets,
         NEW instr_req, NEW ready, NEW gnt, NEW rvalid, NEW wide, NEW bad,
         Edge({t}, instr_req, ready, gnt, rvalid, wide, bad)
  PROVE  FetchInv'
<1>1. /\ FetchTypeOK /\ BufferInv /\ FlightInv /\ RoomInv
  BY DEF FetchInv
<1>. PICK up, u, d :
      /\ up = fetch_ready({t}, instr_req, bad)
      /\ u = OneIf(fetch_ready({t}, instr_req, bad)) /\ d = OneIf(Arriving(rvalid, wide))
      /\ t.addr \in Halves /\ t.ptr \in BOOLEAN /\ (t.ptr => Half(t.addr) = 0)
      /\ up \in BOOLEAN /\ boot' \in {"DEBUG", "RUN"}
      /\ u \in {0, 1} /\ d \in {0, 1} /\ d <= outstanding_cnt_q /\ (up <=> u = 1)
      /\ addr_q' = t.addr /\ is_ptr_q' = t.ptr /\ buf' = Emptied
      /\ rptr' = 0 /\ wptr' = 0 /\ instr_cnt_q' = 0 /\ pop_q' = FALSE
      /\ aligned_q' = (Half(t.addr) = 0) /\ complete_q' = (Half(t.addr) = 1)
      /\ n_flush_q' = outstanding_cnt_q - d
      /\ outstanding_cnt_q' = outstanding_cnt_q + u - d
      /\ outstanding_cnt_q' <= MAX_OUTSTANDING /\ outstanding_cnt_q' \in Nat
      /\ ptr_fetch_accepted_q' = (up /\ t.ptr) /\ branch_wait' = ~up
      /\ trans_addr_q' = Word(t.addr) /\ trans_ptr_access_q' = t.ptr
  BY JumpEdge
<1>2. /\ t.addr \in Halves /\ t.ptr \in BOOLEAN /\ (t.ptr => Half(t.addr) = 0)
      /\ up \in BOOLEAN /\ boot' \in {"DEBUG", "RUN"}
      /\ u \in {0, 1} /\ d \in {0, 1} /\ d <= outstanding_cnt_q /\ (up <=> u = 1)
      /\ addr_q' = t.addr /\ is_ptr_q' = t.ptr /\ buf' = Emptied
      /\ rptr' = 0 /\ wptr' = 0 /\ instr_cnt_q' = 0 /\ pop_q' = FALSE
      /\ aligned_q' = (Half(t.addr) = 0) /\ complete_q' = (Half(t.addr) = 1)
      /\ n_flush_q' = outstanding_cnt_q - d
      /\ outstanding_cnt_q' = outstanding_cnt_q + u - d
      /\ outstanding_cnt_q' <= MAX_OUTSTANDING /\ outstanding_cnt_q' \in Nat
      /\ ptr_fetch_accepted_q' = (up /\ t.ptr) /\ branch_wait' = ~up
      /\ trans_addr_q' = Word(t.addr) /\ trans_ptr_access_q' = t.ptr
  OBVIOUS
<1>. PICK o \in Nat : o = outstanding_cnt_q
  BY <1>1 DEF FetchTypeOK
<1>. PICK w \in 0..(Words - 1) : w = Word(t.addr)
  BY <1>2, AddressParts
<1>. PICK h \in {0, 1} : h = Half(t.addr)
  BY <1>2, AddressParts
<1>3. Fwd(w, 0) = w
  BY Params DEF Fwd
<1>4. 0 \in Slots /\ 0 \in 0..ALBUF_DEPTH
  BY Params DEF Slots
<1>17. Emptied \in [Slots -> SUBSET Entries] /\ \A s \in Slots : Emptied[s] = {}
  BY DEF Emptied
<1>. PICK b \in [Slots -> SUBSET Entries] : b = Emptied /\ \A s \in Slots : b[s] = {}
  BY <1>17
<1>5. Holds(b, 0, 0, w)
  BY <1>4, Params DEF Holds, Off, Slots
<1>6. Held' = 0
  <2>1. Count(b) = 0
    BY <1>4, <1>5, HeldIs
  <2>. QED
    BY <1>2, <2>1 DEF Held, Count
<1>7. BufferInv'
  <2>1. At(0, 0) = 0
    BY Params DEF At
  <2>. QED
    BY <1>2, <1>4, <1>5, <1>6, <2>1 DEF BufferInv
<1>8. Live' = u
  <2>1. Live' = 0 + (o + u - d) - (o - d)
    BY <1>2, <1>6 DEF Live
  <2>. QED
    BY <1>2, <2>1
<1>9. RoomInv'
  <2>1. o - d <= o + u - d /\ u <= ALBUF_DEPTH
    BY <1>2, Params
  <2>. QED
    BY <1>2, <1>8, <2>1 DEF RoomInv
<1>10. AddressInv'
  <2>1. CASE up
    <3>1. branch_wait' = FALSE /\ u = 1
      BY <1>2, <2>1
    <3>. QED
      BY <1>2, <1>8, <3>1 DEF AddressInv
  <2>2. CASE ~up
    <3>1. branch_wait' = TRUE /\ u = 0
      BY <1>2, <2>2
    <3>. QED
      BY <1>2, <1>3, <1>8, <3>1 DEF AddressInv
  <2>. QED
    BY <1>2, <2>1, <2>2
<1>11. PointerInv'
  <2>1. branch_wait' => Live' = 0 /\ ~ptr_fetch_accepted_q'
    BY <1>2, <1>8
  <2>2. ptr_fetch_accepted_q' => Live' = (IF is_ptr_q' THEN 1 ELSE 0)
    <3>. SUFFICES ASSUME up, t.ptr PROVE Live' = (IF is_ptr_q' THEN 1 ELSE 0)
      BY <1>2
    <3>1. u = 1 /\ is_ptr_q'
      BY <1>2
    <3>. QED
      BY <1>8, <3>1
  <2>3. (is_ptr_q' => Half(addr_q') = 0) /\ (is_ptr_q' <=> trans_ptr_access_q')
    BY <1>2
  <2>4. is_ptr_q' => branch_wait' \/ ptr_fetch_accepted_q'
    BY <1>2
  <2>. QED
    BY <1>6, <2>1, <2>2, <2>3, <2>4 DEF PointerInv
<1>12. BootInv'
  BY <1>2 DEF BootInv
<1>13. CountInv'
  <2>1. Begun(buf', rptr', 0, h, aligned_q', complete_q', {})
    <3>. PICK al, co, c, r : al = aligned_q' /\ co = complete_q' /\ c = buf' /\ r = rptr'
      OBVIOUS
    <3>1. (al <=> h = 0) /\ (co <=> h = 1) /\ al \in BOOLEAN /\ co \in BOOLEAN
      BY <1>2
    <3>2. End(0, al, co) = h
      BY <3>1 DEF End
    <3>3. Tail_(c, r, 0, h, al, co)
      BY <3>1 DEF Tail_
    <3>4. Chain(c, r, h, h, {})
      BY DEF Chain
    <3>5. IsFiniteSet({})
      BY FS_EmptySet
    <3>. QED
      BY <3>2, <3>3, <3>4, <3>5 DEF Begun
  <2>2. Cnt' = 0
    <3>1. (IF pop_q' THEN 1 ELSE 0) = 0
      BY <1>2
    <3>2. Cnt' = 0 - 0
      BY <1>2, <3>1 DEF Cnt
    <3>. QED
      BY <3>2
  <2>3. Cardinality({}) = 0
    BY FS_EmptySet
  <2>4. {} \in SUBSET (0..(2 * Held' - 1)) /\ Half(addr_q') = h
    BY <1>2
  <2>. QED
    BY <1>6, <2>1, <2>2, <2>3, <2>4 DEF CountInv
<1>. PICK n2 \in Nat, o2 \in Nat :
       n2 = n_flush_q' /\ o2 = outstanding_cnt_q' /\ n2 = o - d /\ o2 = o + u - d
  <2>1. o - d \in Nat /\ o + u - d \in Nat
    BY <1>2
  <2>. QED
    BY <1>2, <2>1
<1>14. /\ slave' \in Seq(Flights) /\ obi_a_req_q' \in Option(Flights) /\ blocked' \in Option(Flights)
       /\ mpu_state' \in {"IDLE", "ERR_WAIT", "ERR_RESP"}
       /\ outstanding_cnt_q' = Len(slave') + Num(obi_a_req_q') + Num(blocked')
       /\ \A i \in 1..Len(slave') : Place(slave'[i], i, n2, w, 0)
       /\ \A f \in obi_a_req_q' : Place(f, Len(slave') + 1, n2, w, 0)
       /\ \A f \in blocked' : Place(f, outstanding_cnt_q', n2, w, 0)
       /\ mpu_state' = "IDLE" <=> blocked' = {}
       /\ mpu_state' = "ERR_RESP" => outstanding_cnt_q' = 1
  <2>1. \A f \in Flights, i \in 1..outstanding_cnt_q :
          IsAt(f, i) /\ OneIf(Arriving(rvalid, wide)) < i =>
            Place(Aged({t}, f), i - OneIf(Arriving(rvalid, wide)), n2, w, 0)
    <3>1. TAKE f \in Flights, i \in 1..outstanding_cnt_q
    <3>2. Aged({t}, f).stale
      BY AgedIs
    <3>3. i - d <= n2 /\ ~(i - d > n2)
      BY <1>2
    <3>. QED
      BY <3>2, <3>3 DEF Place
  <2>2. fetch_ready({t}, instr_req, bad) => Place(Fetch({t}), outstanding_cnt_q', n2, w, 0)
    <3>. SUFFICES ASSUME up PROVE Place(Fetch({t}), o2, n2, w, 0)
      OBVIOUS
    <3>1. u = 1
      BY <1>2
    <3>2. o2 > n2 /\ ~(o2 <= n2) /\ 0 + o2 - n2 - 1 = 0
      <4>1. n2 = o - d /\ o2 = o + u - d /\ d \in {0, 1}
        BY <1>2
      <4>. QED
        BY ONLY <3>1, <4>1, o \in Nat, n2 \in Nat, o2 \in Nat
    <3>3. ~Fetch({t}).stale /\ Fetch({t}).word = w
      BY TheOne DEF Fetch, trans_addr_o
    <3>. QED
      BY <1>3, <3>2, <3>3 DEF Place
  <2>. QED
    BY <1>1, <2>1, <2>2, FlightStep
<1>15. FlightInv'
  <2>1. Word(addr_q') = w /\ n_flush_q' = n2 /\ Held' = 0
    BY <1>2, <1>6
  <2>. QED
    BY <1>14, <2>1 DEF FlightInv, IsAt
<1>16. FetchTypeOK'
  <2>1. boot' \in {"RESET", "DEBUG", "RUN"} /\ addr_q' \in Halves
    BY <1>2
  <2>2. buf' \in [Slots -> SUBSET Entries]
    BY <1>2, <1>17
  <2>3. rptr' \in Slots /\ wptr' \in Slots /\ instr_cnt_q' \in Int
    BY <1>2, <1>4
  <2>4. /\ is_ptr_q' \in BOOLEAN /\ pop_q' \in BOOLEAN
        /\ ptr_fetch_accepted_q' \in BOOLEAN /\ branch_wait' \in BOOLEAN
        /\ trans_ptr_access_q' \in BOOLEAN
    BY <1>2
  <2>5. aligned_q' \in BOOLEAN /\ complete_q' \in BOOLEAN
    BY <1>2
  <2>6. n_flush_q' \in Nat /\ outstanding_cnt_q' \in Nat
    BY <1>2
  <2>7. trans_addr_q' \in 0..(Words - 1)
    BY <1>2
  <2>. QED
    BY <1>14, <2>1, <2>2, <2>3, <2>4, <2>5, <2>6, <2>7 DEF FetchTypeOK
<1>. QED
  BY <1>7, <1>9, <1>10, <1>11, <1>12, <1>13, <1>15, <1>16 DEF FetchInv

(* The invariant holds at first, and every step keeps it.                    *)
LEMMA InitInv ==
  ASSUME Init
  PROVE  FetchInv
<1>1. /\ boot = "RESET" /\ addr_q = 0 /\ is_ptr_q = FALSE
      /\ buf = Emptied /\ rptr = 0 /\ wptr = 0
      /\ aligned_q = FALSE /\ complete_q = FALSE
      /\ instr_cnt_q = 0 /\ pop_q = FALSE /\ n_flush_q = 0 /\ outstanding_cnt_q = 0
      /\ ptr_fetch_accepted_q = FALSE /\ branch_wait = FALSE
      /\ trans_addr_q = 0 /\ trans_ptr_access_q = FALSE
      /\ mpu_state = "IDLE" /\ obi_a_req_q = {} /\ slave = <<>> /\ blocked = {}
  BY DEF Init, Emptied
<1>2. 0 \in Slots /\ 0 \in 0..ALBUF_DEPTH /\ 0 \in Halves /\ 0 \in 0..(Words - 1)
  BY Params DEF Slots, Halves
<1>3. Word(0) = 0 /\ Half(0) = 0
  BY DEF Word, Half
<1>4. Emptied \in [Slots -> SUBSET Entries] /\ \A s \in Slots : Emptied[s] = {}
  BY DEF Emptied
<1>. PICK b \in [Slots -> SUBSET Entries] : b = Emptied /\ \A s \in Slots : b[s] = {}
  BY <1>4
<1>5. Holds(b, 0, 0, 0)
  BY <1>2, Params DEF Holds, Off, Slots
<1>6. Held = 0
  <2>1. Count(b) = 0
    BY <1>2, <1>5, HeldIs
  <2>. QED
    BY <1>1, <2>1 DEF Held, Count
<1>7. BufferInv
  <2>1. At(0, 0) = 0
    BY Params DEF At
  <2>. QED
    BY <1>1, <1>2, <1>3, <1>5, <1>6, <2>1 DEF BufferInv
<1>8. Live = 0
  <2>1. Live = 0 + 0 - 0
    BY <1>1, <1>6 DEF Live
  <2>. QED
    BY <2>1
<1>9. RoomInv
  BY <1>1, <1>8, Params DEF RoomInv
<1>10. AddressInv /\ CountInv /\ PointerInv /\ BootInv
  BY <1>1, <1>6 DEF AddressInv, CountInv, PointerInv, BootInv
<1>11. slave \in Seq(Flights) /\ obi_a_req_q \in Option(Flights) /\ blocked \in Option(Flights)
  BY <1>1 DEF Option
<1>12. FlightInv
  <2>1. Len(slave) = 0 /\ Num(obi_a_req_q) = 0 /\ Num(blocked) = 0
    BY <1>1 DEF Num
  <2>. QED
    BY <1>1, <2>1 DEF FlightInv
<1>13. FetchTypeOK
  BY <1>1, <1>2, <1>4, <1>11 DEF FetchTypeOK
<1>. QED
  BY <1>7, <1>9, <1>10, <1>12, <1>13 DEF FetchInv

LEMMA NextInv ==
  ASSUME FetchInv, Next
  PROVE  FetchInv'
<1>. PICK pc_set, instr_req, ready, gnt, rvalid, wide, bad :
       Edge(pc_set, instr_req, ready, gnt, rvalid, wide, bad)
  BY EdgeOfNext
<1>1. pc_set \in Jumps
  BY DEF Edge
<1>2. CASE pc_set = {}
  <2>1. Edge({}, instr_req, ready, gnt, rvalid, wide, bad)
    BY <1>2
  <2>. QED
    BY <2>1, OnwardInv
<1>3. CASE pc_set # {}
  <2>. PICK t \in Targets : pc_set = {t}
    BY <1>1, <1>3 DEF Jumps
  <2>1. Edge({t}, instr_req, ready, gnt, rvalid, wide, bad)
    OBVIOUS
  <2>. QED
    BY <2>1, JumpInv
<1>. QED
  BY <1>2, <1>3

LEMMA StutterInv ==
  ASSUME FetchInv, UNCHANGED vars
  PROVE  FetchInv'
<1>1. /\ boot' = boot /\ addr_q' = addr_q /\ is_ptr_q' = is_ptr_q /\ buf' = buf /\ rptr' = rptr
      /\ wptr' = wptr /\ aligned_q' = aligned_q /\ complete_q' = complete_q
      /\ instr_cnt_q' = instr_cnt_q /\ pop_q' = pop_q /\ n_flush_q' = n_flush_q
      /\ outstanding_cnt_q' = outstanding_cnt_q /\ ptr_fetch_accepted_q' = ptr_fetch_accepted_q
      /\ branch_wait' = branch_wait /\ trans_addr_q' = trans_addr_q
      /\ trans_ptr_access_q' = trans_ptr_access_q /\ mpu_state' = mpu_state
      /\ obi_a_req_q' = obi_a_req_q /\ slave' = slave /\ blocked' = blocked
  BY DEF vars
<1>2. Held' = Held /\ Cnt' = Cnt
  BY <1>1 DEF Held, Cnt
<1>3. Live' = Live
  BY <1>1, <1>2 DEF Live
<1>4. FetchTypeOK' /\ BufferInv'
  BY <1>1, <1>2 DEF FetchInv, FetchTypeOK, BufferInv
<1>5. FlightInv'
  BY <1>1, <1>2 DEF FetchInv, FlightInv, IsAt
<1>6. AddressInv' /\ PointerInv' /\ RoomInv'
  BY <1>1, <1>2, <1>3 DEF FetchInv, AddressInv, PointerInv, RoomInv
<1>7. BootInv' /\ CountInv'
  BY <1>1, <1>2 DEF FetchInv, BootInv, CountInv
<1>. QED
  BY <1>4, <1>5, <1>6, <1>7 DEF FetchInv

(* The bookkeeping of the fetch path is right in every state: the buffer     *)
(* holds the next words of the stream in order, the words on their way follow *)
(* them, the next fetch follows those, there is room for all, and the count   *)
(* is that of the instructions complete in the buffer.                        *)
THEOREM FetchInvariant == Spec => []FetchInv
<1>1. Init => FetchInv
  BY InitInv
<1>2. FetchInv /\ [Next]_vars => FetchInv'
  BY NextInv, StutterInv
<1>. QED
  BY <1>1, <1>2, PTL DEF Spec

-----------------------------------------------------------------------------
(* What the IF stage is shown.                                              *)
LEMMA GatedFits ==
  ASSUME FetchInv, NEW in \in Gated
  PROVE  FetchTypeOK /\ BufferInv /\ (is_ptr_q => Half(addr_q) = 0) /\ Fits(in)
<1>1. /\ FetchTypeOK /\ BufferInv /\ FlightInv /\ RoomInv /\ (is_ptr_q => Half(addr_q) = 0)
  BY DEF FetchInv, PointerInv
<1>. PICK rvalid \in Rvalids, wide \in SUBSET {0, 1} : in = resp_gated(rvalid, wide)
  BY DEF Gated
<1>2. rvalid \in BOOLEAN /\ (rvalid => slave # <<>>)
  BY DEF Rvalids
<1>3. in # {} =>
        n_flush_q = 0 /\ Held < ALBUF_DEPTH
        /\ \E e \in Entries : in = {e} /\ ~e.stale /\ e.word = Fwd(Word(addr_q), Held)
  BY <1>1, <1>2, Arrivals
<1>. QED
  BY <1>1, <1>3 DEF Fits

(* The instruction shown is of its own words.                                *)
LEMMA OwnOf == FetchInv => OwnInstruction
<1>. SUFFICES ASSUME FetchInv, NEW in \in Gated, instr_valid_o({}, in)
              PROVE  LET lo == The(First(in))  hi == The(Second(in))
                     IN  /\ lo.word = Word(addr_q) /\ ~lo.stale
                         /\ Unaligned(in) => (hi.word = (lo.word + 1) % Words /\ ~hi.stale)
  BY DEF OwnInstruction
<1>1. FetchTypeOK /\ BufferInv /\ Fits(in)
  BY GatedFits
<1>. PICK k, b : k = Held + Num(in) /\ b = Written(in)
  OBVIOUS
<1>2. /\ k > 0 => /\ First(in) = b[rptr]
                  /\ \E e \in Entries : b[rptr] = {e} /\ ~e.stale /\ e.word = Word(addr_q)
      /\ k > 1 => /\ Second(in) = b[At(rptr, 1)]
                  /\ \E e \in Entries : /\ b[At(rptr, 1)] = {e} /\ ~e.stale
                                        /\ e.word = Fwd(Word(addr_q), 1)
      /\ instr_valid_o({}, in) <=> k > 0 /\ (Unaligned(in) => k > 1)
  BY <1>1, ShownIs
<1>3. /\ The(First(in)).word = Word(addr_q) /\ ~The(First(in)).stale
      /\ Unaligned(in) => The(Second(in)).word = Fwd(Word(addr_q), 1) /\ ~The(Second(in)).stale
  BY <1>2, TheOne
<1>4. Fwd(Word(addr_q), 1) = (Word(addr_q) + 1) % Words
  <2>. PICK w \in 0..(Words - 1) : w = Word(addr_q)
    BY <1>1, AddressParts DEF FetchTypeOK
  <2>1. w + 1 \in Nat /\ w + 1 < 2 * Words /\ Words \in Nat /\ 0 < Words
    BY Params
  <2>2. (w + 1) % Words = IF w + 1 < Words THEN w + 1 ELSE w + 1 - Words
    BY <2>1, ModOnce
  <2>. QED
    BY <2>2 DEF Fwd
<1>. QED
  BY <1>3, <1>4

(* The words in the buffer or coming in, and where they lie in it.           *)
Seen(in) == in \cup UNION {buf[s] : s \in Slots}

LEMMA SeenIs ==
  ASSUME FetchTypeOK, BufferInv, NEW in, Fits(in)
  PROVE  /\ \A e \in Seen(in) : \E s \in Slots : Written(in)[s] = {e}
         /\ \A s \in Slots : Written(in)[s] \subseteq Seen(in)
<1>1. /\ buf \in [Slots -> SUBSET Entries] /\ wptr \in Slots
      /\ \A s \in Slots : buf[s] = {} \/ \E x : buf[s] = {x}
  BY DEF FetchTypeOK, BufferInv, Holds
<1>2. CASE in = {}
  BY <1>1, <1>2 DEF Seen, Written
<1>3. CASE in # {}
  <2>. PICK k : k = Held + Num(in)
    OBVIOUS
  <2>1. buf[wptr] = {}
    BY <1>3, WrittenIs
  <2>. PICK x : in = {x}
    BY <1>3 DEF Fits
  <2>. PICK b : b = Written(in)
    OBVIOUS
  <2>2. b[wptr] = {x} /\ \A s \in Slots : s # wptr => b[s] = buf[s]
    BY <1>1, <1>3 DEF Written
  <2>3. ASSUME NEW e \in Seen(in) PROVE \E s \in Slots : b[s] = {e}
    <3>1. CASE e \in in
      BY <1>1, <2>2, <3>1
    <3>2. CASE e \notin in
      <4>. PICK s \in Slots : e \in buf[s]
        BY <3>2 DEF Seen
      <4>1. s # wptr /\ buf[s] = {e}
        BY <1>1, <2>1
      <4>. QED
        BY <2>2, <4>1
    <3>. QED
      BY <3>1, <3>2
  <2>4. ASSUME NEW s \in Slots PROVE b[s] \subseteq Seen(in)
    BY <2>2 DEF Seen
  <2>. QED
    BY <2>3, <2>4
<1>. QED
  BY <1>2, <1>3

(* The words are few enough to have different addresses.                     *)
LEMMA WhereIs ==
  ASSUME NEW b, NEW r \in Slots, NEW k \in 0..ALBUF_DEPTH, NEW base \in 0..(Words - 1),
         Holds(b, r, k, base), NEW s \in Slots, NEW e, b[s] = {e},
         NEW j \in {0, 1}, e.word = Fwd(base, j)
  PROVE  j < k /\ b[At(r, j)] = {e}
<1>. PICK o \in 0..(ALBUF_DEPTH - 1) : o = Off(r, s) /\ At(r, o) = s
  BY RingFacts
<1>1. o < k
  BY DEF Holds
<1>2. e.word = Fwd(base, o)
  <2>. PICK x \in Entries : b[s] = {x} /\ x.word = Fwd(base, o)
    BY <1>1 DEF Holds
  <2>1. x = e
    OBVIOUS
  <2>. QED
    BY <2>1
<1>3. o = j
  <2>1. Fwd(base, o) = Fwd(base, j)
    BY <1>2
  <2>. QED
    BY ONLY <2>1, Params, o \in 0..(ALBUF_DEPTH - 1), j \in {0, 1}, base \in 0..(Words - 1) DEF Fwd
<1>. QED
  BY <1>1, <1>3

(* The last word that an instruction reaches into.                           *)
LEMMA ReachIs ==
  ASSUME FetchTypeOK, NEW in
  PROVE  ~is_ptr_q =>
           Word((addr_n(in) + 2 * Words - 1) % (2 * Words)) =
             (IF Unaligned(in) THEN Fwd(Word(addr_q), 1) ELSE Word(addr_q))
<1>. PICK w \in 0..(Words - 1), h \in {0, 1} : w = Word(addr_q) /\ h = Half(addr_q) /\ addr_q = 2 * w + h
  BY AddressParts DEF FetchTypeOK
<1>. PICK m \in Nat : m = 2 * Words /\ 1 < Words
  BY Params
<1>. PICK c \in {1, 2} : c = Step(in)
  BY DEF Step
<1>1. addr_n(in) = (addr_q + c) % m
  BY DEF addr_n, Step
<1>. SUFFICES ASSUME ~is_ptr_q PROVE Word((addr_n(in) + m - 1) % m) = (IF Unaligned(in) THEN Fwd(w, 1) ELSE w)
  OBVIOUS
<1>2. Unaligned(in) <=> h = 1 /\ c = 2
  BY DEF Unaligned, Step
<1>. PICK a \in Nat : a = 2 * w + h /\ a < m /\ addr_q = a
  BY Params
<1>3. (a + c) % m = IF a + c < m THEN a + c ELSE a + c - m
  <2>. PICK z \in Nat : z = a + c
    OBVIOUS
  <2>1. z < 2 * m /\ 0 < m
    BY Params
  <2>2. z % m = IF z < m THEN z ELSE z - m
    BY ONLY <2>1, ModOnce, z \in Nat, m \in Nat
  <2>. QED
    BY <2>2
<1>. PICK y \in Nat : y = (a + c) % m
  BY <1>3
<1>. PICK x \in Nat : x = y + m - 1
  BY Params
<1>4. x % m = IF x < m THEN x ELSE x - m
  <2>1. x < 2 * m /\ 0 < m
    BY <1>3, Params
  <2>. QED
    BY <2>1, ModOnce
<1>5. x % m = IF a + c - 1 < m THEN a + c - 1 ELSE a + c - 1 - m
  BY <1>3, <1>4, Params
<1>6. (addr_n(in) + m - 1) % m = x % m
  BY <1>1
<1>7. CASE Unaligned(in)
  <2>1. c = 2 /\ h = 1
    BY <1>2, <1>7
  <2>2. x % m = IF w + 1 < Words THEN 2 * (w + 1) ELSE 0
    BY <1>5, <2>1, Params
  <2>3. Word(2 * (w + 1)) = w + 1 /\ Word(0) = 0
    BY DEF Word
  <2>4. w + 1 >= Words => w + 1 - Words = 0
    BY Params
  <2>. QED
    BY <1>6, <1>7, <2>2, <2>3, <2>4, Params DEF Fwd
<1>8. CASE ~Unaligned(in)
  <2>1. x % m = 2 * w \/ x % m = 2 * w + 1
    BY <1>2, <1>5, <1>8, Params
  <2>2. Word(2 * w) = w /\ Word(2 * w + 1) = w
    <3>1. (2 * w) \div 2 = w /\ (2 * w + 1) \div 2 = w
      BY ONLY HalvesOf, w \in 0..(Words - 1), Params
    <3>. QED
      BY <3>1 DEF Word
  <2>. QED
    BY <1>6, <1>8, <2>1, <2>2
<1>. QED
  BY <1>7, <1>8

(* A fault is that of a word the instruction reaches into.                   *)
LEMMA FaultOf == FetchInv => FaultIsOwn
<1>. SUFFICES ASSUME FetchInv, NEW in \in Gated, instr_valid_o({}, in)
              PROVE  LET reach == {Word(addr_q)} \cup
                           (IF is_ptr_q THEN {}
                            ELSE {Word((addr_n(in) + 2 * Words - 1) % (2 * Words))})
                     IN  fault(in) <=> \E e \in Seen(in) : e.word \in reach /\ e.fault
  BY DEF FaultIsOwn, Seen
<1>1. FetchTypeOK /\ BufferInv /\ Fits(in)
  BY GatedFits
<1>. PICK k, b : k = Held + Num(in) /\ b = Written(in)
  OBVIOUS
<1>. PICK w \in 0..(Words - 1) : w = Word(addr_q)
  BY <1>1, AddressParts DEF FetchTypeOK
<1>2. /\ k > 0 => /\ First(in) = b[rptr]
                  /\ \E e \in Entries : b[rptr] = {e} /\ ~e.stale /\ e.word = w
      /\ k > 1 => /\ Second(in) = b[At(rptr, 1)]
                  /\ \E e \in Entries : /\ b[At(rptr, 1)] = {e} /\ ~e.stale
                                        /\ e.word = Fwd(w, 1)
      /\ instr_valid_o({}, in) <=> k > 0 /\ (Unaligned(in) => k > 1)
  BY <1>1, ShownIs
<1>3. /\ k \in 0..ALBUF_DEPTH /\ rptr \in Slots /\ Holds(b, rptr, k, w)
  BY <1>1, WrittenIs
<1>4. /\ \A e \in Seen(in) : \E s \in Slots : b[s] = {e}
      /\ \A s \in Slots : b[s] \subseteq Seen(in)
  BY <1>1, SeenIs
<1>5. At(rptr, 0) = rptr /\ At(rptr, 1) \in Slots /\ Fwd(w, 0) = w
  BY <1>3, Params DEF At, Slots, Fwd
<1>. PICK lo : b[rptr] = {lo} /\ First(in) = {lo} /\ lo.word = w
  BY <1>2
<1>6. \A e \in Seen(in) : e.word = w => e = lo
  <2>. SUFFICES ASSUME NEW e \in Seen(in), e.word = w PROVE e = lo
    OBVIOUS
  <2>. PICK s \in Slots : b[s] = {e}
    BY <1>4
  <2>1. e.word = Fwd(w, 0)
    BY <1>5
  <2>2. b[At(rptr, 0)] = {e}
    BY <1>3, <2>1, WhereIs
  <2>. QED
    BY <1>5, <2>2
<1>7. lo \in Seen(in)
  BY <1>3, <1>4
<1>8. CASE ~Unaligned(in)
  <2>1. fault(in) <=> lo.fault
    <3>1. fault(in) <=> The(First(in)).fault
      BY <1>8 DEF fault
    <3>. QED
      BY <3>1, TheOne
  <2>2. ~is_ptr_q => Word((addr_n(in) + 2 * Words - 1) % (2 * Words)) = w
    BY <1>1, <1>8, ReachIs
  <2>. QED
    BY <1>6, <1>7, <2>1, <2>2
<1>9. CASE Unaligned(in)
  <2>. PICK hi : b[At(rptr, 1)] = {hi} /\ Second(in) = {hi} /\ hi.word = Fwd(w, 1)
    BY <1>2, <1>9
  <2>1. \A e \in Seen(in) : e.word = Fwd(w, 1) => e = hi
    <3>. SUFFICES ASSUME NEW e \in Seen(in), e.word = Fwd(w, 1) PROVE e = hi
      OBVIOUS
    <3>. PICK s \in Slots : b[s] = {e}
      BY <1>4
    <3>1. b[At(rptr, 1)] = {e}
      BY <1>3, WhereIs
    <3>. QED
      BY <3>1
  <2>2. hi \in Seen(in)
    BY <1>4, <1>5
  <2>3. fault(in) <=> lo.fault \/ hi.fault
    <3>1. fault(in) <=> The(First(in)).fault \/ The(Second(in)).fault
      BY <1>9 DEF fault
    <3>. QED
      BY <3>1, TheOne
  <2>4. ~is_ptr_q /\ Word((addr_n(in) + 2 * Words - 1) % (2 * Words)) = Fwd(w, 1)
    <3>1. ~is_ptr_q
      BY <1>9 DEF Unaligned
    <3>. QED
      BY <1>1, <1>9, <3>1, ReachIs
  <2>. QED
    BY <1>6, <1>7, <2>1, <2>2, <2>3, <2>4
<1>. QED
  BY <1>8, <1>9

-----------------------------------------------------------------------------
(* The bookkeeping that decides about fetching.                             *)
LEMMA WidthHere ==
  ASSUME FetchTypeOK, BufferInv, NEW h \in 0..(2 * Held - 1)
  PROVE  Width(h) = WidthIn(buf, rptr, h)
<1>. PICK n \in 0..ALBUF_DEPTH : n = Held
  BY DEF BufferInv
<1>. PICK j \in Int : j = h \div 2
  OBVIOUS
<1>1. j \in 0..(ALBUF_DEPTH - 1)
  <2>1. h \in 0..(2 * n - 1)
    OBVIOUS
  <2>. QED
    BY <2>1, Params
<1>2. At(rptr, j) = (rptr + j) % ALBUF_DEPTH
  BY <1>1, RingFacts DEF FetchTypeOK
<1>. QED
  BY <1>2 DEF Width, WidthIn, Word

(* The chain is the set of starts as the property defines it.                *)
LEMMA BegunAre ==
  ASSUME FetchTypeOK, BufferInv, NEW S \in SUBSET (0..(2 * Held - 1)),
         Begun(buf, rptr, Held, Half(addr_q), aligned_q, complete_q, S)
  PROVE  AreBegun(S)
<1>. PICK n \in Nat : n = Held
  BY DEF BufferInv
<1>. PICK b, r, first, al, co :
       b = buf /\ r = rptr /\ first = Half(addr_q) /\ al = aligned_q /\ co = complete_q
  OBVIOUS
<1>. PICK end : end = End(n, al, co)
  OBVIOUS
<1>. DEFINE w(h) == WidthIn(b, r, h)
<1>1. \A h \in 0..(2 * n - 1) : Width(h) = w(h)
  BY WidthHere
<1>2. \A h \in 0..(2 * n - 1) : w(h) \in {1, 2}
  BY WidthIs
<1>3. /\ \A h \in S : h + w(h) <= end
      /\ first \in S \/ first = end
      /\ \A h \in S : h + w(h) \in S \/ h + w(h) = end
      /\ \A h \in S : h = first \/ \E g \in S : g + w(g) = h
      /\ Tail_(b, r, n, first, al, co)
  BY DEF Begun, Chain
<1>4. CASE al \/ ~co
  <2>1. end \in {2 * n, 2 * n - 1}
    BY <1>4 DEF End
  <2>2. end \in 0..(2 * n - 1) => w(end) = 2 /\ end = 2 * n - 1
    <3>. SUFFICES ASSUME end \in 0..(2 * n - 1) PROVE w(end) = 2 /\ end = 2 * n - 1
      OBVIOUS
    <3>1. end = 2 * n - 1 /\ ~al
      BY <1>4 DEF End
    <3>2. 1 \in The(b[At(r, n - 1)]).wide
      BY <1>3, <1>4, <3>1 DEF Tail_
    <3>3. end \div 2 = n - 1 /\ end % 2 = 1
      BY <3>1, HalvesOf
    <3>. QED
      BY <3>1, <3>2, <3>3 DEF WidthIn
  <2>. HIDE DEF w
  <2>3. ASSUME NEW h \in 0..(2 * n - 1)
        PROVE  h \in S <=> /\ h = first \/ \E g \in S : g + w(g) = h
                           /\ h + w(h) <= 2 * n
    <3>1. ASSUME h \in S PROVE h + w(h) <= 2 * n
      BY <1>2, <1>3, <2>1, <3>1
    <3>2. ASSUME h = first \/ \E g \in S : g + w(g) = h, h + w(h) <= 2 * n PROVE h \in S
      <4>1. h \in S \/ h = end
        BY <1>3, <3>2
      <4>2. h # end
        <5>. SUFFICES ASSUME h = end PROVE FALSE
          OBVIOUS
        <5>1. w(h) = 2 /\ h = 2 * n - 1
          BY <2>2
        <5>. QED
          BY <3>2, <5>1
      <4>. QED
        BY <4>1, <4>2
    <3>. QED
      BY <1>3, <3>1, <3>2
  <2>. QED
    BY <1>1, <2>3 DEF AreBegun
<1>5. CASE ~al /\ co
  <2>1. n = 0
    BY <1>3, <1>5 DEF Tail_
  <2>2. 0..(2 * Held - 1) = {}
    BY <2>1
  <2>. QED
    BY <2>2 DEF AreBegun
<1>. QED
  BY <1>4, <1>5 DEF FetchTypeOK

(* The three parts of the bookkeeping.                                       *)
LEMMA CountsOf == FetchInv => CountsExact
<1>. SUFFICES ASSUME FetchInv PROVE CountsExact
  OBVIOUS
<1>1. /\ FetchTypeOK /\ BufferInv /\ FlightInv /\ PointerInv /\ BootInv /\ CountInv
  BY DEF FetchInv
<1>2. ASSUME ~(is_ptr_q \/ ptr_fetch_accepted_q)
      PROVE  \E S \in SUBSET (0..(2 * Held - 1)) :
               AreBegun(S) /\ Cnt = Cardinality(S) /\ Cardinality(S) \in Nat
  <2>1. CASE boot = "RESET"
    <3>1. Held = 0 /\ instr_cnt_q = 0 /\ ~pop_q
      BY <1>1, <2>1 DEF BootInv
    <3>2. 0..(2 * Held - 1) = {}
      BY <3>1
    <3>3. AreBegun({})
      BY <3>2 DEF AreBegun
    <3>4. Cardinality({}) = 0
      BY FS_EmptySet
    <3>5. (IF pop_q THEN 1 ELSE 0) = 0
      BY <3>1
    <3>6. Cnt = 0 - 0
      BY <3>1, <3>5 DEF Cnt
    <3>7. Cnt = 0
      BY <3>6
    <3>. QED
      BY <3>3, <3>4, <3>7
  <2>2. CASE boot # "RESET"
    <3>. PICK S \in SUBSET (0..(2 * Held - 1)) :
           Begun(buf, rptr, Held, Half(addr_q), aligned_q, complete_q, S) /\ Cnt = Cardinality(S)
      BY <1>1, <1>2, <2>2 DEF CountInv
    <3>1. AreBegun(S)
      BY <1>1, BegunAre
    <3>2. Cardinality(S) \in Nat
      BY FS_CardinalityType DEF Begun
    <3>. QED
      BY <3>1, <3>2
  <2>. QED
    BY <2>1, <2>2
<1>3. ~(is_ptr_q \/ ptr_fetch_accepted_q) =>
        /\ instr_cnt_q >= (IF pop_q THEN 1 ELSE 0)
        /\ \E S \in SUBSET (0..(2 * Held - 1)) : AreBegun(S) /\ Cnt = Cardinality(S)
  <2>. SUFFICES ASSUME ~(is_ptr_q \/ ptr_fetch_accepted_q)
                PROVE  instr_cnt_q >= (IF pop_q THEN 1 ELSE 0)
    BY <1>2
  <2>1. Cnt \in Nat
    BY <1>2
  <2>. PICK p \in {0, 1} : p = (IF pop_q THEN 1 ELSE 0)
    BY <1>1 DEF FetchTypeOK
  <2>. PICK c \in Int : c = instr_cnt_q
    BY <1>1 DEF FetchTypeOK
  <2>2. c - p \in Nat
    BY <2>1 DEF Cnt
  <2>. QED
    BY <2>2
<1>4. ASSUME NEW in \in Gated, in # {} PROVE buf[wptr] = {}
  <2>. PICK k : k = Held + Num(in)
    OBVIOUS
  <2>1. Fits(in)
    BY GatedFits
  <2>. QED
    BY <1>1, <1>4, <2>1, WrittenIs
<1>5. ptr_fetch_accepted_q => Held + Len(InFlight) - n_flush_q = (IF is_ptr_q THEN 1 ELSE 0)
  <2>1. Len(InFlight) = Len(slave) + Num(obi_a_req_q) + Num(blocked)
    <3>1. \A S \in Option(Flights) : AsSeq(S) \in Seq(Flights) /\ Len(AsSeq(S)) = Num(S)
      BY OptionIs DEF AsSeq, Num
    <3>2. slave \in Seq(Flights) /\ obi_a_req_q \in Option(Flights) /\ blocked \in Option(Flights)
      BY <1>1 DEF FetchTypeOK
    <3>. PICK x \in Seq(Flights), y \in Seq(Flights) :
           /\ x = AsSeq(obi_a_req_q) /\ Len(x) = Num(obi_a_req_q)
           /\ y = AsSeq(blocked) /\ Len(y) = Num(blocked)
      BY <3>1, <3>2
    <3>3. Len(slave \o x) = Len(slave) + Len(x) /\ slave \o x \in Seq(Flights)
      BY <3>2
    <3>4. Len((slave \o x) \o y) = Len(slave \o x) + Len(y)
      BY <3>3
    <3>. QED
      BY <3>3, <3>4 DEF InFlight
  <2>2. Len(InFlight) = outstanding_cnt_q
    BY <1>1, <2>1 DEF FlightInv
  <2>. QED
    BY <1>1, <2>2 DEF PointerInv, Live
<1>. QED
  BY <1>3, <1>4, <1>5 DEF CountsExact

-----------------------------------------------------------------------------
(* What the IF stage is shown lies at the address it is shown with, in the   *)
(* stream of the last jump: no word fetched before a jump reaches it,        *)
(* whatever was in flight, whenever the memory answers.                      *)
THEOREM OwnInstructions == Spec => []OwnInstruction
<1>1. FetchInv => OwnInstruction
  BY OwnOf
<1>. QED
  BY <1>1, FetchInvariant, PTL

(* An instruction is reported as refused by the PMP exactly if a word it     *)
(* reaches into was, so never because of a word fetched ahead of it.         *)
THEOREM FaultsAreOwn == Spec => []FaultIsOwn
<1>1. FetchInv => FaultIsOwn
  BY FaultOf
<1>. QED
  BY <1>1, FetchInvariant, PTL

(* The count that decides about fetching is that of the instructions in the  *)
(* buffer, a word never arrives at a full slot although nothing holds it     *)
(* back, and a pointer is held or in flight alone.                           *)
THEOREM CountsAreExact == Spec => []CountsExact
<1>1. FetchInv => CountsExact
  BY CountsOf
<1>. QED
  BY <1>1, FetchInvariant, PTL
=============================================================================
