-------------------------- MODULE PortfolioLedger --------------------------
(***************************************************************************)
(* The ledger of the REAL_MANUAL portfolio (portfolio/service.py) and the   *)
(* bot commands that write it (bot/handlers.py).                            *)
(*                                                                          *)
(* Every Telegram update is handled in a task and a database transaction of *)
(* its own; the tasks interleave at their awaits.  A command reads the      *)
(* balances, then looks its idempotency key up, then inserts its event; an  *)
(* update that was being handled when the bot died is delivered again.      *)
(*                                                                          *)
(* Amounts are small integers.  A trade's fee is in the quote asset, which  *)
(* is what the handlers pass.                                               *)
(***************************************************************************)
EXTENDS Integers, Sequences, SequencesExt

CONSTANTS
  Messages,       \* updates; "telegram:{chat}:{message_id}" is the key of each
  Assets,
  Command,        \* what each message asks for
  Tasks,          \* updates handled at the same time
  MaxDeliveries   \* bound: how often one update may be delivered

Kinds == {"DEPOSIT", "WITHDRAW", "BUY", "SELL", "RECONCILE"}

\* asset: deposited, withdrawn, or the base of a trade; amount: of that asset;
\* quote, total, fee: of a trade; snapshot: the balances given to /reconcile.
Commands == [kind : Kinds, asset : Assets, amount : Nat, quote : Assets, total : Nat,
             fee : Nat, snapshot : [Assets -> Nat]]

ASSUME Inputs ==
  /\ Command \in [Messages -> Commands]
  /\ MaxDeliveries \in Nat

VARIABLES
  events,      \* committed portfolio events with the sum of their entries by asset
               \* (and the length of the ledger their balances were read from)
  pc,          \* where the handler of each task is
  message,     \* the message it handles
  entries,     \* what it is going to add to the ledger
  read,        \* the length of the ledger when it read the balances
  deliveries,  \* how often each update has been delivered
  answers      \* what each message has been answered

vars == <<events, pc, message, entries, read, deliveries, answers>>

\* get_balances: the sum of the ledger entries of the asset.
Balance(a) == FoldLeft(LAMBDA sum, e : sum + e.change[a], 0, events)

Recorded(m) == \E i \in DOMAIN events : events[i].key = m

In(asset, x) == [a \in Assets |-> IF a = asset THEN x ELSE 0]

Both(f, g) == [a \in Assets |-> f[a] + g[a]]

None == [a \in Assets |-> 0]

Excess(x, y) == IF x > y THEN x - y ELSE 0

\* (mutant) The fee of a purchase is not required.
RequiredWithoutFee(c) ==
  CASE c.kind \in {"WITHDRAW", "SELL"} -> In(c.asset, c.amount)
    [] c.kind = "BUY" -> In(c.quote, c.total)
    [] OTHER -> None

\* What _require_balances is asked for.
Required(c) ==
  CASE c.kind = "WITHDRAW" -> In(c.asset, c.amount)
    [] c.kind = "BUY" -> In(c.quote, c.total + c.fee)
    [] c.kind = "SELL" -> Both(In(c.asset, c.amount), In(c.quote, Excess(c.fee, c.total)))
    [] OTHER -> None

\* (mutant) Assets that the snapshot does not name keep their balance.
CorrectionOfNamedAssets(snapshot) ==
  [a \in Assets |-> IF snapshot[a] = 0 THEN 0 ELSE snapshot[a] - Balance(a)]

\* reconcile: the difference of each asset to its target.
Correction(snapshot) == [a \in Assets |-> snapshot[a] - Balance(a)]

\* The entries of the event, from the balances read now.
Entries(c) ==
  CASE c.kind = "DEPOSIT" -> In(c.asset, c.amount)
    [] c.kind = "WITHDRAW" -> In(c.asset, -c.amount)
    [] c.kind = "BUY" -> Both(In(c.asset, c.amount), In(c.quote, -(c.total + c.fee)))
    [] c.kind = "SELL" -> Both(In(c.asset, -c.amount), In(c.quote, c.total - c.fee))
    [] c.kind = "RECONCILE" -> Correction(c.snapshot)

Init ==
  /\ events = <<>>
  /\ pc = [t \in Tasks |-> "idle"]
  /\ message = [t \in Tasks |-> ""]
  /\ entries = [t \in Tasks |-> None]
  /\ read = [t \in Tasks |-> 0]
  /\ deliveries = [m \in Messages |-> 0]
  /\ answers = [m \in Messages |-> {}]

Goto(t, from, to) == pc[t] = from /\ pc' = [pc EXCEPT ![t] = to]

\* The task ends.
End(t) ==
  /\ pc' = [pc EXCEPT ![t] = "idle"]
  /\ message' = [message EXCEPT ![t] = ""]
  /\ entries' = [entries EXCEPT ![t] = None]
  /\ read' = [read EXCEPT ![t] = 0]

\* The dispatcher starts a task for an update it has fetched, for the first time or
\* again after a restart.
Receive(t, m) ==
  /\ deliveries[m] < MaxDeliveries
  /\ Goto(t, "idle", "read")
  /\ message' = [message EXCEPT ![t] = m]
  /\ deliveries' = [deliveries EXCEPT ![m] = @ + 1]
  /\ UNCHANGED <<events, entries, read, answers>>

\* The balances cover the command, or are not asked for.
ReadBalances(t) ==
  LET c == Command[message[t]]
  IN  /\ Goto(t, "read", "lookup")
      /\ \A a \in Assets : Required(c)[a] > 0 => Balance(a) >= Required(c)[a]
      /\ entries' = [entries EXCEPT ![t] = Entries(c)]
      /\ read' = [read EXCEPT ![t] = Len(events)]
      /\ UNCHANGED <<events, message, deliveries, answers>>

Answer(t, text) == answers' = [answers EXCEPT ![message[t]] = @ \cup {text}]

\* InsufficientBalanceError
Refuse(t) ==
  LET c == Command[message[t]]
  IN  /\ pc[t] = "read"
      /\ \E a \in Assets : Required(c)[a] > 0 /\ Balance(a) < Required(c)[a]
      /\ End(t)
      /\ Answer(t, "refused")
      /\ UNCHANGED <<events, deliveries>>

\* _record_event: an event with this key is returned as it is.
Lookup(t) ==
  /\ Goto(t, "lookup", IF Recorded(message[t]) THEN "answer" ELSE "insert")
  /\ UNCHANGED <<events, message, entries, read, deliveries, answers>>

Event(t, key) == [key |-> key, change |-> entries[t], read |-> read[t]]

\* (mutant) Without the unique constraint on (portfolio_id, idempotency_key).
InsertAnyway(t) ==
  /\ Goto(t, "insert", "answer")
  /\ events' = Append(events, Event(t, message[t]))
  /\ UNCHANGED <<message, entries, read, deliveries, answers>>

\* The event is inserted and committed, unless a transaction that inserted the same
\* key has committed in the meantime: see Fail.
Insert(t) ==
  /\ ~Recorded(message[t])
  /\ Goto(t, "insert", "answer")
  /\ events' = Append(events, Event(t, message[t]))
  /\ UNCHANGED <<message, entries, read, deliveries, answers>>

\* (mutant) The answer precedes the commit.
AcknowledgeEarly(t) ==
  /\ pc[t] \in {"insert", "answer"}
  /\ Answer(t, "saved")
  /\ UNCHANGED <<events, pc, message, entries, read, deliveries>>

Acknowledge(t) ==
  /\ pc[t] = "answer"
  /\ End(t)
  /\ Answer(t, "saved")
  /\ UNCHANGED <<events, deliveries>>

\* IntegrityError, a database or Telegram error, or the end of the bot: what is not
\* committed is rolled back, and nothing is answered.
Fail(t) ==
  /\ pc[t] # "idle"
  /\ End(t)
  /\ UNCHANGED <<events, deliveries, answers>>

Handle(t) ==
  \/ \E m \in Messages : Receive(t, m)
  \/ ReadBalances(t) \/ Refuse(t) \/ Lookup(t) \/ Insert(t) \/ Acknowledge(t) \/ Fail(t)

Next == \E t \in Tasks : Handle(t)

Spec == Init /\ [][Next]_vars
-----------------------------------------------------------------------------
Changes == [Assets -> Int]

TypeOK ==
  /\ events \in Seq([key : Messages, change : Changes, read : Nat])
  /\ pc \in [Tasks -> {"idle", "read", "lookup", "insert", "answer"}]
  /\ message \in [Tasks -> Messages \cup {""}]
  /\ entries \in [Tasks -> Changes]
  /\ read \in [Tasks -> Nat]
  /\ deliveries \in [Messages -> 0 .. MaxDeliveries]
  /\ answers \in [Messages -> SUBSET {"saved", "refused"}]

\* An update is recorded at most once, however often it is delivered and however
\* many tasks handle it at the same time.
RecordedOnce ==
  \A i, j \in DOMAIN events : events[i].key = events[j].key => i = j

\* What the owner was told to be saved is in the ledger.
SavedIsRecorded == \A m \in Messages : "saved" \in answers[m] => Recorded(m)

\* Event i was added to the balances its command had read.
Fresh(i) == events[i].read = i - 1

\* As long as no event comes between the check of a command and its insert, the
\* balances the ledger adds up to are not negative, in any asset: the balance that
\* _require_balances asks for covers the entries, fees of trades included.
NegativeOnlyByRace ==
  (\A i \in DOMAIN events : Fresh(i)) => \A a \in Assets : Balance(a) >= 0

\* A reconciliation whose balances are still current leaves exactly the snapshot it
\* was given: what was recorded before is replaced, an asset not named is zeroed.
SnapshotTaken ==
  \A i \in DOMAIN events :
    i = Len(events) /\ Command[events[i].key].kind = "RECONCILE" /\ Fresh(i) =>
      \A a \in Assets : Balance(a) = Command[events[i].key].snapshot[a]
=============================================================================
