---------------------------- MODULE PaperAccount ----------------------------
(***************************************************************************)
(* What the paper portfolio promises, whatever workers, repeated events and *)
(* crashes there are: a position is opened once, against one debit, and is  *)
(* closed as a whole at most once, against one credit, each of them booked  *)
(* under an idempotency key of its own.  TradingWorker implements this      *)
(* lifecycle as long as no two workers serve one instrument.                *)
(***************************************************************************)

CONSTANTS
  Positions,
  References,  \* idempotency keys of bookings
  Debits,      \* what an opening may book
  Credits      \* what a close may book

VARIABLES
  held,     \* positions opened and not yet closed
  settled,  \* positions closed
  entries   \* what has been booked

book == <<held, settled, entries>>

Empty == held = {} /\ settled = {} /\ entries = {}

BookOnce(reference, op, p, amount) ==
  /\ \A e \in entries : e.key # reference
  /\ entries' = entries \cup
       {[key |-> reference, op |-> op, position |-> p, amount |-> amount]}

Open(p) ==
  /\ p \notin held \cup settled
  /\ held' = held \cup {p}
  /\ \E reference \in References, debit \in Debits : BookOnce(reference, "OPEN", p, debit)
  /\ UNCHANGED settled

Close(p) ==
  /\ p \in held
  /\ held' = held \ {p}
  /\ settled' = settled \cup {p}
  /\ \E reference \in References, credit \in Credits : BookOnce(reference, "CLOSE", p, credit)

Lifecycle == Empty /\ [][\E p \in Positions : Open(p) \/ Close(p)]_book
=============================================================================
