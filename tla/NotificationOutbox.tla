------------------------- MODULE NotificationOutbox -------------------------
(***************************************************************************)
(* The transactional outbox (notifications/outbox.py) and the delivery loop *)
(* that drains it into Telegram (notifications/delivery.py).                *)
(*                                                                          *)
(* One iteration of the loop is one database transaction: it locks a batch  *)
(* of due rows, sends them one after the other, changes each row as its     *)
(* message is answered, and commits at the end.  Telegram keeps what it has *)
(* accepted whether or not that transaction commits.  TradingWorker's       *)
(* commits are the producers: they insert the signal and its notice.        *)
(***************************************************************************)
EXTENDS Integers, FiniteSets

CONSTANTS
  Notices,      \* deduplication keys
  Priority,     \* [Notices -> Nat]
  Senders,      \* processes running the delivery loop
  BatchLimit,   \* pending(limit)
  MaxAttempts,  \* failed attempts after which a notice is given up
  MaxAborts     \* bound: transactions that crash, are cancelled or fail

ASSUME Producers == Priority \in [Notices -> Nat]
ASSUME Limits ==
  BatchLimit \in Nat \ {0} /\ MaxAttempts \in Nat \ {0} /\ MaxAborts \in Nat

VARIABLES
  rows,       \* committed notification_outbox rows
  created,    \* created_at of each row, as its place in the order of insertion
  batch,      \* the rows each sender has locked, with its uncommitted changes
  unsent,     \* the part of the batch each sender has not handled yet
  answered,   \* whether Telegram has just accepted the current message
  delivered,  \* messages the owner has received, by notice
  lost,       \* those of them whose row does not and will not say so
  aborts      \* transactions rolled back so far

outbox == <<rows, created, batch, unsent, answered, delivered, lost, aborts>>

Statuses == {"ABSENT", "PENDING", "SENT", "FAILED"}
\* due: next_attempt_at has come
Row == [status : Statuses, attempts : 0 .. MaxAttempts, due : BOOLEAN]
Absent == [status |-> "ABSENT", attempts |-> 0, due |-> FALSE]

Nothing == [n \in {} |-> Absent]

Locked(s) == DOMAIN batch[s]

\* ORDER BY priority DESC, created_at
Precedes(m, n) ==
  \/ Priority[m] > Priority[n]
  \/ Priority[m] = Priority[n] /\ created[m] < created[n]

\* The row of the batch that the sender is at.
Current(s) == CHOOSE n \in unsent[s] : \A m \in unsent[s] \ {n} : Precedes(n, m)

Stored == {n \in Notices : rows[n].status # "ABSENT"}

OutboxInit ==
  /\ rows = [n \in Notices |-> Absent]
  /\ created = [n \in Notices |-> 0]
  /\ batch = [s \in Senders |-> Nothing]
  /\ unsent = [s \in Senders |-> {}]
  /\ answered = [s \in Senders |-> FALSE]
  /\ delivered = [n \in Notices |-> 0]
  /\ lost = [n \in Notices |-> 0]
  /\ aborts = 0

sending == <<batch, unsent, answered>>
received == <<delivered, lost>>

\* enqueue in the transaction of the signal: ON CONFLICT DO NOTHING.
Enqueue(n) ==
  /\ n \notin Stored
  /\ rows' = [rows EXCEPT ![n] = [status |-> "PENDING", attempts |-> 0, due |-> TRUE]]
  /\ created' = [created EXCEPT ![n] = Cardinality(Stored) + 1]
  /\ UNCHANGED <<sending, received, aborts>>

\* The delay after a failed attempt passes.
FallDue(n) ==
  /\ rows[n].status = "PENDING" /\ ~rows[n].due
  /\ rows' = [rows EXCEPT ![n].due = TRUE]
  /\ UNCHANGED <<created, sending, received, aborts>>

Due == {n \in Notices : rows[n].status = "PENDING" /\ rows[n].due}

\* (mutant) Without with_for_update.
FreeUnlocked == Due

\* FOR UPDATE SKIP LOCKED
Free == Due \ UNION {Locked(s) : s \in Senders}

\* pending: a transaction begins and locks the first rows of the queue.
Fetch(s) ==
  /\ Locked(s) = {} /\ Free # {}
  /\ \E first \in SUBSET Free :
       /\ Cardinality(first) <= BatchLimit
       /\ Cardinality(first) = BatchLimit \/ first = Free
       /\ \A m \in first, n \in Free \ first : Precedes(m, n)
       /\ batch' = [batch EXCEPT ![s] = [n \in first |-> rows[n]]]
       /\ unsent' = [unsent EXCEPT ![s] = first]
  /\ UNCHANGED <<rows, created, answered, received, aborts>>

\* The queue is empty: the loop sleeps and polls again.
Poll(s) == Locked(s) = {} /\ Free = {} /\ UNCHANGED outbox

\* Telegram accepts the message and its answer arrives.
Accepted(s) ==
  /\ unsent[s] # {} /\ ~answered[s]
  /\ answered' = [answered EXCEPT ![s] = TRUE]
  /\ delivered' = [delivered EXCEPT ![Current(s)] = @ + 1]
  /\ UNCHANGED <<rows, created, batch, unsent, lost, aborts>>

Handled(s, row) ==
  /\ batch' = [batch EXCEPT ![s][Current(s)] = row]
  /\ unsent' = [unsent EXCEPT ![s] = @ \ {Current(s)}]

\* (mutant) The status is left to the next poll.
StayPending(s) ==
  /\ answered[s]
  /\ Handled(s, batch[s][Current(s)])
  /\ answered' = [answered EXCEPT ![s] = FALSE]
  /\ UNCHANGED <<rows, created, received, aborts>>

MarkSent(s) ==
  /\ answered[s]
  /\ Handled(s, [batch[s][Current(s)] EXCEPT !.status = "SENT"])
  /\ answered' = [answered EXCEPT ![s] = FALSE]
  /\ UNCHANGED <<rows, created, received, aborts>>

\* (mutant) The attempt is not counted.
RetriedForever(row) == [row EXCEPT !.due = FALSE]

\* mark_failed: try again later, or give up after MaxAttempts.
Retried(row) ==
  IF row.attempts + 1 >= MaxAttempts
    THEN [row EXCEPT !.attempts = @ + 1, !.status = "FAILED"]
    ELSE [row EXCEPT !.attempts = @ + 1, !.due = FALSE]

\* send_message raises: the payload has no text, Telegram refuses the message, or
\* it takes the message and the answer is lost.
MarkFailed(s) ==
  /\ unsent[s] # {} /\ ~answered[s]
  /\ Handled(s, Retried(batch[s][Current(s)]))
  /\ \/ UNCHANGED received
     \/ /\ delivered' = [delivered EXCEPT ![Current(s)] = @ + 1]
        /\ lost' = [lost EXCEPT ![Current(s)] = @ + 1]
  /\ UNCHANGED <<rows, created, answered, aborts>>

Release(s) ==
  /\ batch' = [batch EXCEPT ![s] = Nothing]
  /\ unsent' = [unsent EXCEPT ![s] = {}]
  /\ answered' = [answered EXCEPT ![s] = FALSE]
  /\ UNCHANGED <<created, delivered>>

\* The batch is through: session() commits.
Commit(s) ==
  /\ Locked(s) # {} /\ unsent[s] = {}
  /\ rows' = [n \in Notices |-> IF n \in Locked(s) THEN batch[s][n] ELSE rows[n]]
  /\ Release(s)
  /\ UNCHANGED <<lost, aborts>>

\* What the sender has delivered in the transaction it is in.
Announced(s) ==
  {n \in Locked(s) : batch[s][n].status = "SENT"}
    \cup (IF answered[s] THEN {Current(s)} ELSE {})

\* A crash, the cancellation of the task, or a database error, which leaves
\* mark_failed without a transaction too: nothing of the batch is kept.
RollBack(s) ==
  /\ Locked(s) # {} /\ aborts < MaxAborts
  /\ aborts' = aborts + 1
  /\ lost' = [n \in Notices |-> lost[n] + IF n \in Announced(s) THEN 1 ELSE 0]
  /\ Release(s)
  /\ UNCHANGED rows

Deliver(s) == Accepted(s) \/ MarkSent(s) \/ MarkFailed(s) \/ Commit(s)

OutboxNext ==
  \/ \E n \in Notices : Enqueue(n) \/ FallDue(n)
  \/ \E s \in Senders : Fetch(s) \/ Poll(s) \/ Deliver(s) \/ RollBack(s)

OutboxSpec == OutboxInit /\ [][OutboxNext]_outbox

\* The loop polls for ever, every await of a transaction ends, and delays pass.
Fairness ==
  /\ \A n \in Notices : WF_outbox(FallDue(n))
  /\ \A s \in Senders : WF_outbox(Fetch(s)) /\ WF_outbox(Deliver(s))

FairSpec == OutboxSpec /\ Fairness
-----------------------------------------------------------------------------
OutboxTypeOK ==
  /\ rows \in [Notices -> Row]
  /\ created \in [Notices -> Nat]
  /\ \A s \in Senders : batch[s] \in [Locked(s) -> Row] /\ unsent[s] \subseteq Locked(s)
  /\ answered \in [Senders -> BOOLEAN]
  /\ delivered \in [Notices -> Nat] /\ lost \in [Notices -> Nat]
  /\ aborts \in 0 .. MaxAborts

\* Every message the owner has received is the one its SENT row, or a row about to
\* be committed as SENT, stands for, or it was lost to a rollback or a lost answer:
\* no notice is repeated for any other reason, however many senders there are.
DeliveriesAccounted ==
  \A n \in Notices :
    delivered[n] = lost[n]
      + IF rows[n].status = "SENT" \/ \E s \in Senders : n \in Announced(s) THEN 1 ELSE 0

\* SENT and FAILED are final, with the attempts they were reached by: no sender
\* overwrites them with what it has read before another committed.
OutcomeIsFinal ==
  [][\A n \in Notices :
       rows[n].status \in {"SENT", "FAILED"} => rows'[n] = rows[n]]_outbox

\* A stored notice does not stay pending: it is delivered or given up, as long as
\* the transactions of the loop do not fail for ever.
PendingEnds ==
  \A n \in Notices :
    rows[n].status = "PENDING" ~> rows[n].status \in {"SENT", "FAILED"}
=============================================================================
