---------------------------- MODULE MCLoadStore ----------------------------
(***************************************************************************)
(* The load/store unit with transfers of every class, single and split in  *)
(* two; and its bus side alone, behind a core that issues what it likes.   *)
(* There the class tells transfers in flight apart.                        *)
(***************************************************************************)
EXTENDS LoadStore

VARIABLE alone   \* only the bus side works

KindRecord(k) == [we |-> k # "load", bufferable |-> k = "buffered"]

TransfersOf(kinds) ==
  {[class |-> c, we |-> KindRecord(k).we, bufferable |-> KindRecord(k).bufferable] :
     c \in {"OK", "FAULT", "WPT"}, k \in kinds}

MCTransfers == TransfersOf({"load", "store", "buffered"})

\* Loads of every class, whole or split in two halves that each have one, and
\* stores that may be buffered.
MCInstructions ==
  {<<t>> : t \in TransfersOf({"load", "buffered"})}
    \cup (TransfersOf({"load"}) \X TransfersOf({"load"}))

allVars == <<alone, vars>>

MCInit == alone \in BOOLEAN /\ Init

BusSide == alone /\ ObiNext /\ UNCHANGED <<alone, lsuVars>>

Whole(Action) == ~alone /\ Action /\ UNCHANGED alone

MCNext == BusSide \/ Whole(Next)

MCSpec ==
  /\ MCInit /\ [][MCNext]_allVars
  /\ WF_allVars(Whole(ClockRuns)) /\ WF_allVars(Whole(SlaveGrants)) /\ WF_allVars(Whole(SlaveAnswers))

\* RightStatus of LoadStore.tla, whose monitor does not watch the bus side alone.
StatusIsRight == alone \/ RightStatus
=============================================================================
