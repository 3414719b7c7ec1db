----------------------------- MODULE Bot_proofs -----------------------------
(***************************************************************************)
(* Theorems about the two components of the bot: PortfolioLedger, for every *)
(* set of messages, assets and tasks, every command and every number of     *)
(* deliveries; and NotificationOutbox, for every set of notices and         *)
(* senders, every batch limit, number of attempts and number of rollbacks.  *)
(***************************************************************************)
EXTENDS PortfolioLedger, NotificationOutbox, TLAPS, FiniteSetTheorems, WellFoundedInduction

\* Every nonempty set of natural numbers has a least element.
LEMMA LeastNumber ==
  ASSUME NEW T \in SUBSET Nat, T # {}
  PROVE  \E n \in T : \A m \in T : n <= m
<1>1. PICK n \in T : \A m \in T : <<m, n>> \notin OpToRel(<, Nat)
  BY WFMin, NatLessThanWellFounded, Zenon
<1>2. \A m \in T : m \in Nat /\ n \in Nat /\ ~(m < n)
  BY <1>1 DEF OpToRel
<1>3. \A m \in T : n <= m
  BY <1>2
<1>4. QED
  BY <1>3

-----------------------------------------------------------------------------
(* The balance is a fold over the events.  What it adds up to when an event *)
(* is appended is shown by least counterexamples.                           *)

\* The function by which the fold adds the changes of a in the first n events of s.
Adds(g, s, a, n) ==
  g = [S \in SUBSET (1 .. n) |->
         IF S = {} THEN 0 ELSE g[S \ {Max(S)}] + s[Max(S)].change[a]]

\* The greatest element is the maximum.
LEMMA MaxIs ==
  ASSUME NEW S \in SUBSET Int, NEW n \in S, \A m \in S : m <= n
  PROVE  Max(S) = n
<1>1. \A m \in S : n >= m
  OBVIOUS
<1>2. Max(S) \in S /\ \A m \in S : Max(S) >= m
  BY <1>1 DEF Max
<1> DEFINE top == Max(S)
<1>3. top \in Int /\ n \in Int /\ top <= n /\ top >= n
  BY <1>2
<1> HIDE DEF top
<1>4. top = n
  BY <1>3
<1>5. QED
  BY <1>4 DEF top

\* There is such a function, for as many events as there are.
LEMMA AddsExists ==
  ASSUME NEW s, NEW a
  PROVE  \A n \in Nat : \E g : Adds(g, s, a, n)
<1> DEFINE T == {n \in Nat : ~\E g : Adds(g, s, a, n)}
<1> SUFFICES ASSUME T # {} PROVE FALSE
  OBVIOUS
<1>1. PICK n \in T : \A m \in T : n <= m
  BY LeastNumber
<1>2. CASE n = 0
  <2> DEFINE g == [S \in SUBSET (1 .. n) |-> 0]
  <2>1. \A S \in SUBSET (1 .. n) : S = {}
    BY <1>2
  <2>2. Adds(g, s, a, n)
    BY <2>1 DEF Adds
  <2>3. QED
    BY <2>2
<1>3. CASE n # 0
  <2>1. n - 1 \in Nat /\ n - 1 \notin T
    BY <1>1, <1>3
  <2>2. PICK g : Adds(g, s, a, n - 1)
    BY <2>1
  <2> DEFINE h == [S \in SUBSET (1 .. n) |->
                     IF n \in S THEN g[S \ {n}] + s[n].change[a] ELSE g[S]]
  <2>3. ASSUME NEW S \in SUBSET (1 .. n)
        PROVE  h[S] = IF S = {} THEN 0 ELSE h[S \ {Max(S)}] + s[Max(S)].change[a]
    <3>1. CASE n \in S
      <4>1. Max(S) = n
        BY <3>1, MaxIs
      <4>2. h[S \ {n}] = g[S \ {n}]
        OBVIOUS
      <4>3. QED
        BY <3>1, <4>1, <4>2
    <3>2. CASE n \notin S
      <4>1. S \in SUBSET (1 .. (n - 1))
        <5>1. \A i \in S : i \in 1 .. n /\ i # n
          BY <3>2
        <5>2. QED
          BY <5>1
      <4>2. S \ {Max(S)} \in SUBSET (1 .. n) /\ n \notin S \ {Max(S)}
        BY <3>2, Zenon
      <4>3. h[S] = g[S] /\ h[S \ {Max(S)}] = g[S \ {Max(S)}]
        BY <3>2, <4>2
      <4>4. g[S] = IF S = {} THEN 0 ELSE g[S \ {Max(S)}] + s[Max(S)].change[a]
        BY <2>2, <4>1 DEF Adds
      <4>5. QED
        BY <4>3, <4>4
    <3>3. QED
      BY <3>1, <3>2
  <2>4. Adds(h, s, a, n)
    BY <2>3 DEF Adds
  <2>5. QED
    BY <2>4
<1>4. QED
  BY <1>2, <1>3

\* What the fold has added up after k events.
LEMMA AddsStep ==
  ASSUME NEW s, NEW a, NEW n \in Nat, NEW g, Adds(g, s, a, n), NEW k \in 1 .. n
  PROVE  g[1 .. k] = g[1 .. (k - 1)] + s[k].change[a]
<1>1. 1 .. k \in SUBSET (1 .. n) /\ 1 .. k \in SUBSET Int /\ k \in 1 .. k
      /\ \A m \in 1 .. k : m <= k
  OBVIOUS
<1>2. Max(1 .. k) = k
  BY <1>1, MaxIs
<1>3. (1 .. k) \ {k} = 1 .. (k - 1)
  OBVIOUS
<1>4. QED
  BY <1>1, <1>2, <1>3 DEF Adds

\* Events after the first n do not change what those add up to.
LEMMA AddsAgree ==
  ASSUME NEW s, NEW t, NEW a, NEW n \in Nat, NEW m \in Nat, n <= m,
         NEW g, Adds(g, s, a, n), NEW h, Adds(h, t, a, m),
         \A i \in 1 .. n : s[i] = t[i] /\ s[i].change[a] \in Int
  PROVE  g[1 .. n] = h[1 .. n] /\ g[1 .. n] \in Int
<1> DEFINE T == {k \in 0 .. n : ~(g[1 .. k] = h[1 .. k] /\ g[1 .. k] \in Int)}
<1> SUFFICES ASSUME T # {} PROVE FALSE
  OBVIOUS
<1>1. PICK k \in T : \A j \in T : k <= j
  <2>1. T \in SUBSET Nat
    OBVIOUS
  <2>2. QED
    BY <2>1, LeastNumber
<1>2. CASE k = 0
  <2>1. 1 .. 0 = {} /\ {} \in SUBSET (1 .. n) /\ {} \in SUBSET (1 .. m)
    OBVIOUS
  <2>2. g[{}] = 0 /\ h[{}] = 0
    BY <2>1 DEF Adds
  <2>3. QED
    BY <1>2, <2>1, <2>2
<1>3. CASE k # 0
  <2>1. k \in 1 .. n /\ k \in 1 .. m /\ k - 1 \in 0 .. n /\ k - 1 \notin T
    BY <1>1, <1>3
  <2>2. g[1 .. (k - 1)] = h[1 .. (k - 1)] /\ g[1 .. (k - 1)] \in Int
    BY <2>1
  <2>3. g[1 .. k] = g[1 .. (k - 1)] + s[k].change[a]
    BY <2>1, AddsStep
  <2>4. h[1 .. k] = h[1 .. (k - 1)] + t[k].change[a]
    BY <2>1, AddsStep
  <2>5. QED
    BY <2>1, <2>2, <2>3, <2>4
<1>4. QED
  BY <1>2, <1>3

Events == [key : Messages, change : Changes, read : Nat]

Ledgers == Seq(Events)

\* The balance of a that a ledger adds up to.
BalanceOf(s, a) == FoldLeft(LAMBDA sum, e : sum + e.change[a], 0, s)

\* Ledgers are made of events, whose changes are integers.
LEMMA LedgerParts ==
  ASSUME NEW s \in Ledgers
  PROVE  /\ Len(s) \in Nat /\ DOMAIN s = 1 .. Len(s)
         /\ \A i \in 1 .. Len(s) : s[i] \in Events
         /\ \A i \in 1 .. Len(s), a \in Assets : s[i].change[a] \in Int
<1>1. /\ Len(s) \in Nat /\ DOMAIN s = 1 .. Len(s)
      /\ \A i \in 1 .. Len(s) : s[i] \in Events
  BY DEF Ledgers
<1>2. \A e \in Events, a \in Assets : e.change[a] \in Int
  BY DEF Events, Changes
<1>3. QED
  BY <1>1, <1>2

\* An event that is appended leaves a ledger.
LEMMA LedgerAppend ==
  ASSUME NEW s \in Ledgers, NEW e \in Events
  PROVE  /\ Append(s, e) \in Ledgers
         /\ Len(Append(s, e)) = Len(s) + 1 /\ Append(s, e)[Len(s) + 1] = e
         /\ \A i \in 1 .. Len(s) : Append(s, e)[i] = s[i]
  BY DEF Ledgers

\* The balance is what the fold has added up after the last event.
LEMMA BalanceIsSum ==
  ASSUME NEW a, NEW s \in Ledgers
  PROVE  \E g : Adds(g, s, a, Len(s)) /\ BalanceOf(s, a) = g[1 .. Len(s)]
<1> DEFINE n == Len(s)
<1>1. n \in Nat /\ DOMAIN s = 1 .. n
  BY LedgerParts
<1>2. BalanceOf(s, a) = (CHOOSE g : g = [S \in SUBSET DOMAIN s |->
         IF S = {} THEN 0 ELSE g[S \ {Max(S)}] + s[Max(S)].change[a]])[DOMAIN s]
  BY DEF BalanceOf, FoldLeft, MapThenFoldSet
<1>3. BalanceOf(s, a) = (CHOOSE g : Adds(g, s, a, n))[1 .. n]
  BY <1>1, <1>2 DEF Adds
<1>4. \E g : Adds(g, s, a, n)
  BY <1>1, AddsExists
<1>5. QED
  BY <1>3, <1>4

\* The balance is an integer, and an event that is appended adds its change to it.
LEMMA BalanceAppend ==
  ASSUME NEW a \in Assets, NEW s \in Ledgers, NEW e \in Events
  PROVE  /\ BalanceOf(s, a) \in Int
         /\ BalanceOf(Append(s, e), a) = BalanceOf(s, a) + e.change[a]
<1> DEFINE n == Len(s)
           t == Append(s, e)
<1>1. PICK g : Adds(g, s, a, n) /\ BalanceOf(s, a) = g[1 .. n]
  BY BalanceIsSum
<1>2. t \in Ledgers /\ Len(t) = n + 1 /\ t[n + 1] = e /\ \A i \in 1 .. n : s[i] = t[i]
  BY LedgerAppend
<1>3. n \in Nat /\ \A i \in 1 .. n : s[i].change[a] \in Int
  BY LedgerParts
<1> HIDE DEF t
<1>4. PICK h : Adds(h, t, a, n + 1) /\ BalanceOf(t, a) = h[1 .. (n + 1)]
  BY <1>2, BalanceIsSum
<1> HIDE DEF n
<1>5. g[1 .. n] = h[1 .. n] /\ g[1 .. n] \in Int
  BY <1>1, <1>2, <1>3, <1>4, AddsAgree
<1>6. h[1 .. (n + 1)] = h[1 .. n] + t[n + 1].change[a]
  <2>1. n + 1 \in Nat /\ n + 1 \in 1 .. (n + 1) /\ (n + 1) - 1 = n
    BY <1>3
  <2>2. h[1 .. (n + 1)] = h[1 .. ((n + 1) - 1)] + t[n + 1].change[a]
    BY <1>4, <2>1, AddsStep
  <2>3. QED
    BY <2>1, <2>2
<1>7. QED
  BY <1>1, <1>2, <1>4, <1>5, <1>6 DEF t

\* Before the first event every balance is zero.
LEMMA BalanceEmpty ==
  <<>> \in Ledgers /\ DOMAIN <<>> = {} /\ \A a \in Assets : BalanceOf(<<>>, a) = 0
<1>1. <<>> \in Ledgers /\ Len(<<>>) = 0 /\ DOMAIN <<>> = {}
  <2>1. <<>> \in Ledgers /\ Len(<<>>) = 0
    BY DEF Ledgers
  <2>2. DOMAIN <<>> = 1 .. 0
    BY <2>1, LedgerParts
  <2>3. QED
    BY <2>1, <2>2
<1> SUFFICES ASSUME NEW a \in Assets PROVE BalanceOf(<<>>, a) = 0
  BY <1>1
<1>2. PICK g : Adds(g, <<>>, a, 0) /\ BalanceOf(<<>>, a) = g[1 .. 0]
  BY <1>1, BalanceIsSum
<1>3. 1 .. 0 = {} /\ {} \in SUBSET (1 .. 0)
  OBVIOUS
<1>4. QED
  BY <1>2, <1>3 DEF Adds
-----------------------------------------------------------------------------
(* Types *)

\* A task that is not idle handles an update.
Served == \A t \in Tasks : pc[t] # "idle" => message[t] \in Messages

TypeInv == TypeOK /\ Served

\* The balance is that of the ledger, and an integer.
LEMMA BalanceNow ==
  ASSUME events \in Ledgers
  PROVE  \A a \in Assets : Balance(a) = BalanceOf(events, a) /\ Balance(a) \in Int
<1>1. \A a \in Assets : Balance(a) = BalanceOf(events, a)
  BY DEF Balance, BalanceOf
<1>2. \A a \in Assets : BalanceOf(events, a) \in Int
  <2> SUFFICES ASSUME NEW a \in Assets PROVE BalanceOf(events, a) \in Int
    OBVIOUS
  <2>1. PICK g : Adds(g, events, a, Len(events)) /\ BalanceOf(events, a) = g[1 .. Len(events)]
    BY BalanceIsSum
  <2>2. g[1 .. Len(events)] \in Int
    BY <2>1, LedgerParts, AddsAgree
  <2>3. QED
    BY <2>1, <2>2
<1>3. QED
  BY <1>1, <1>2

\* What a command asks for and what it records, asset by asset.
LEMMA CommandParts ==
  ASSUME NEW c \in Commands
  PROVE  /\ c.kind \in Kinds /\ c.asset \in Assets /\ c.amount \in Nat
         /\ c.quote \in Assets /\ c.total \in Nat /\ c.fee \in Nat
         /\ c.snapshot \in [Assets -> Nat]
  BY DEF Commands

\* The entries of an event are changes of the assets.
LEMMA EntriesType ==
  ASSUME NEW c \in Commands, events \in Ledgers
  PROVE  Entries(c) \in Changes
<1> USE CommandParts
<1>1. \A asset \in Assets, x \in Int : In(asset, x) \in Changes
  BY DEF In, Changes
<1>2. \A f, g \in Changes : Both(f, g) \in Changes
  BY DEF Both, Changes
<1>3. CASE c.kind = "DEPOSIT"
  BY <1>1, <1>3 DEF Entries
<1>4. CASE c.kind = "WITHDRAW"
  BY <1>1, <1>4 DEF Entries
<1>5. CASE c.kind = "BUY"
  <2>1. In(c.asset, c.amount) \in Changes /\ In(c.quote, -(c.total + c.fee)) \in Changes
    BY <1>1
  <2>2. QED
    BY <1>2, <1>5, <2>1 DEF Entries
<1>6. CASE c.kind = "SELL"
  <2>1. In(c.asset, -c.amount) \in Changes /\ In(c.quote, c.total - c.fee) \in Changes
    BY <1>1
  <2>2. QED
    BY <1>2, <1>6, <2>1 DEF Entries
<1>7. CASE c.kind = "RECONCILE"
  <2>1. \A a \in Assets : c.snapshot[a] - Balance(a) \in Int
    BY BalanceNow
  <2>2. QED
    BY <1>7, <2>1 DEF Entries, Correction, Changes
<1>8. QED
  BY <1>3, <1>4, <1>5, <1>6, <1>7 DEF Kinds

\* A task that handles an update handles one of the commands.
LEMMA CommandServed ==
  ASSUME TypeInv, NEW t \in Tasks, pc[t] # "idle"
  PROVE  message[t] \in Messages /\ Command[message[t]] \in Commands
  BY Inputs DEF TypeInv, Served

\* The events are a ledger.
LEMMA EventsLedger == TypeInv => events \in Ledgers /\ Len(events) \in Nat
  BY LedgerParts DEF TypeInv, TypeOK, Ledgers, Events

\* No asset is changed by the empty event.
LEMMA NoneType == None \in Changes
  BY DEF None, Changes

\* The bound on deliveries is a number.
LEMMA BoundType ==
  /\ 0 \in 0 .. MaxDeliveries
  /\ \A d \in 0 .. MaxDeliveries : d < MaxDeliveries => d + 1 \in 0 .. MaxDeliveries
<1>1. MaxDeliveries \in Nat
  BY Inputs
<1>2. QED
  BY <1>1

\* Every step preserves the types.
LEMMA TypeStep == TypeInv /\ [Next]_vars => TypeInv'
<1> SUFFICES ASSUME TypeInv, [Next]_vars PROVE TypeInv'
  OBVIOUS
<1> USE NoneType DEF TypeInv, TypeOK, Served
<1>1. ASSUME NEW t \in Tasks, NEW m \in Messages, Receive(t, m) PROVE TypeInv'
  <2>1. deliveries[m] + 1 \in 0 .. MaxDeliveries
    <3>1. deliveries[m] \in 0 .. MaxDeliveries
      OBVIOUS
    <3>2. deliveries[m] < MaxDeliveries
      BY <1>1 DEF Receive
    <3>3. QED
      BY <3>1, <3>2, BoundType
  <2>2. deliveries' \in [Messages -> 0 .. MaxDeliveries]
    BY <1>1, <2>1 DEF Receive
  <2>3. QED
    BY <1>1, <2>2 DEF Receive, Goto
<1>2. ASSUME NEW t \in Tasks, ReadBalances(t) PROVE TypeInv'
  <2>1. pc[t] = "read"
    BY <1>2 DEF ReadBalances, Goto
  <2>2. Entries(Command[message[t]]) \in Changes
    BY <2>1, CommandServed, EventsLedger, EntriesType
  <2>3. Len(events) \in Nat
    BY EventsLedger
  <2>4. QED
    BY <1>2, <2>2, <2>3 DEF ReadBalances, Goto
<1>3. ASSUME NEW t \in Tasks, Refuse(t) PROVE TypeInv'
  BY <1>3 DEF Refuse, End, Answer
<1>4. ASSUME NEW t \in Tasks, Lookup(t) PROVE TypeInv'
  BY <1>4 DEF Lookup, Goto
<1>5. ASSUME NEW t \in Tasks, Insert(t) PROVE TypeInv'
  <2>1. message[t] \in Messages
    BY <1>5, CommandServed DEF Insert, Goto
  <2>2. Event(t, message[t]) \in Events
    BY <2>1 DEF Event, Events
  <2>3. events' \in Ledgers
    BY <1>5, <2>2, EventsLedger, LedgerAppend DEF Insert
  <2>4. QED
    BY <1>5, <2>3 DEF Insert, Goto, Ledgers, Events
<1>6. ASSUME NEW t \in Tasks, Acknowledge(t) PROVE TypeInv'
  BY <1>6 DEF Acknowledge, End, Answer
<1>7. ASSUME NEW t \in Tasks, Fail(t) PROVE TypeInv'
  BY <1>7 DEF Fail, End
<1>8. CASE UNCHANGED vars
  BY <1>8 DEF vars
<1>9. QED
  BY <1>1, <1>2, <1>3, <1>4, <1>5, <1>6, <1>7, <1>8 DEF Next, Handle

\* Initially there is no event and no task at work.
LEMMA InitTypes == Init => TypeInv
<1> SUFFICES ASSUME Init PROVE TypeInv
  OBVIOUS
<1>1. deliveries \in [Messages -> 0 .. MaxDeliveries]
  BY BoundType DEF Init
<1>2. events \in Seq([key : Messages, change : Changes, read : Nat])
  <2>1. <<>> \in Ledgers
    BY BalanceEmpty
  <2>2. QED
    BY <2>1 DEF Init, Ledgers, Events
<1>3. QED
  BY <1>1, <1>2, NoneType DEF Init, TypeInv, TypeOK, Served

\* Type correctness: whatever the commands and however their handlers interleave.
THEOREM TypeCorrectness == Spec => []TypeInv
<1>1. QED
  BY InitTypes, TypeStep, PTL DEF Spec
-----------------------------------------------------------------------------
(* What is recorded *)

\* Only an insert changes the ledger.
LEMMA LedgerChanges == [Next]_vars => events' = events \/ \E t \in Tasks : Insert(t)
  BY DEF Next, Handle, vars, Receive, ReadBalances, Refuse, Lookup, Acknowledge, Fail

\* An insert appends its event, and changes the balances by its entries.
LEMMA InsertEffect ==
  ASSUME TypeInv, NEW t \in Tasks, Insert(t)
  PROVE  /\ events' \in Ledgers /\ Len(events) \in Nat
         /\ DOMAIN events = 1 .. Len(events) /\ DOMAIN events' = 1 .. (Len(events) + 1)
         /\ Len(events') = Len(events) + 1
         /\ events'[Len(events) + 1] = Event(t, message[t])
         /\ \A i \in 1 .. Len(events) : events'[i] = events[i]
         /\ \A a \in Assets : Balance(a)' = Balance(a) + entries[t][a]
<1>1. Event(t, message[t]) \in Events
  <2>1. message[t] \in Messages
    BY CommandServed DEF Insert, Goto
  <2>2. QED
    BY <2>1 DEF Event, Events, TypeInv, TypeOK
<1>2. events' = Append(events, Event(t, message[t])) /\ events \in Ledgers
  BY EventsLedger DEF Insert
<1>3. /\ events' \in Ledgers
      /\ Len(events') = Len(events) + 1 /\ events'[Len(events) + 1] = Event(t, message[t])
      /\ \A i \in 1 .. Len(events) : events'[i] = events[i]
  BY <1>1, <1>2, LedgerAppend
<1>4. /\ Len(events) \in Nat /\ DOMAIN events = 1 .. Len(events)
      /\ DOMAIN events' = 1 .. (Len(events) + 1)
  BY <1>2, <1>3, LedgerParts
<1>5. ASSUME NEW a \in Assets PROVE Balance(a)' = Balance(a) + entries[t][a]
  <2>1. Balance(a) = BalanceOf(events, a) /\ Balance(a)' = BalanceOf(events', a)
    BY DEF Balance, BalanceOf, FoldLeft, MapThenFoldSet
  <2>2. BalanceOf(events', a) = BalanceOf(events, a) + Event(t, message[t]).change[a]
    BY <1>1, <1>2, BalanceAppend
  <2>3. QED
    BY <2>1, <2>2 DEF Event
<1>6. QED
  BY <1>3, <1>4, <1>5

\* What is about to be answered "saved" is recorded.
Answered == \A t \in Tasks : pc[t] = "answer" => Recorded(message[t])

RecordInv == TypeInv /\ RecordedOnce /\ Answered /\ SavedIsRecorded

\* What is recorded stays recorded.
LEMMA RecordedStays ==
  ASSUME TypeInv, [Next]_vars, NEW m, Recorded(m)
  PROVE  Recorded(m)'
<1>1. CASE events' = events
  BY <1>1 DEF Recorded
<1>2. ASSUME NEW t \in Tasks, Insert(t) PROVE Recorded(m)'
  BY <1>2, InsertEffect DEF Recorded
<1>3. QED
  BY <1>1, <1>2, LedgerChanges

\* An insert records its update, which was not recorded before.
LEMMA InsertRecords ==
  ASSUME TypeInv, RecordedOnce, NEW t \in Tasks, Insert(t)
  PROVE  RecordedOnce' /\ Recorded(message[t])'
<1>1. \A i \in DOMAIN events : events[i].key # message[t]
  BY DEF Insert, Recorded
<1>2. Event(t, message[t]).key = message[t]
  BY DEF Event
<1>3. RecordedOnce'
  BY <1>1, <1>2, InsertEffect DEF RecordedOnce
<1>4. Recorded(message[t])'
  BY <1>2, InsertEffect DEF Recorded, Insert
<1>5. QED
  BY <1>3, <1>4

\* Every step keeps what is recorded unique and every "saved" true.
LEMMA RecordStep == RecordInv /\ TypeInv' /\ [Next]_vars => RecordInv'
<1> SUFFICES ASSUME RecordInv, TypeInv', [Next]_vars PROVE RecordInv'
  OBVIOUS
<1> USE DEF RecordInv
<1>1. RecordedOnce'
  BY LedgerChanges, InsertRecords DEF RecordedOnce
<1>2. Answered'
  <2> SUFFICES ASSUME NEW t \in Tasks, pc'[t] = "answer"
               PROVE  Recorded(message[t])'
    BY DEF Answered
  <2>1. CASE pc[t] = "answer" /\ message'[t] = message[t]
    BY <2>1, RecordedStays DEF Answered, Recorded
  <2>2. CASE Lookup(t)
    BY <2>2 DEF Lookup, Goto, TypeInv, TypeOK, Recorded
  <2>3. CASE Insert(t)
    BY <2>3, InsertRecords DEF Insert, Recorded
  <2>4. ASSUME NEW u \in Tasks, Handle(u), u # t
        PROVE  pc'[t] = pc[t] /\ message'[t] = message[t]
    BY <2>4 DEF Handle, Receive, ReadBalances, Refuse, Lookup, Insert, Acknowledge, Fail, Goto,
       End, TypeInv, TypeOK
  <2>5. ASSUME Handle(t) PROVE Lookup(t) \/ Insert(t)
    BY <2>5 DEF Handle, Receive, ReadBalances, Refuse, Acknowledge, Fail, Goto, End, TypeInv,
       TypeOK
  <2>6. QED
    BY <2>1, <2>2, <2>3, <2>4, <2>5 DEF Next, vars
<1>3. SavedIsRecorded'
  <2> SUFFICES ASSUME NEW m \in Messages, "saved" \in answers'[m]
               PROVE  Recorded(m)'
    BY DEF SavedIsRecorded
  <2>1. CASE "saved" \in answers[m]
    BY <2>1, RecordedStays DEF SavedIsRecorded
  <2>2. ASSUME NEW t \in Tasks, Acknowledge(t), "saved" \notin answers[m]
        PROVE  Recorded(m)
    <3>1. m = message[t]
      BY <2>2 DEF Acknowledge, Answer, TypeInv, TypeOK
    <3>2. QED
      BY <2>2, <3>1 DEF Acknowledge, Answered
  <2>3. ASSUME NEW t \in Tasks, Handle(t), "saved" \notin answers[m] PROVE Acknowledge(t)
    <3>1. answers' = answers \/ Refuse(t) \/ Acknowledge(t)
      BY <2>3 DEF Handle, Receive, ReadBalances, Lookup, Insert, Fail
    <3>2. CASE Refuse(t)
      <4>1. answers' = [answers EXCEPT ![message[t]] = @ \cup {"refused"}]
        BY <3>2 DEF Refuse, Answer
      <4>2. answers'[m] \subseteq answers[m] \cup {"refused"}
        BY <4>1 DEF TypeInv, TypeOK
      <4>3. QED
        BY <2>3, <4>2
    <3>3. QED
      BY <2>3, <3>1, <3>2
  <2>4. QED
    BY <2>1, <2>2, <2>3, RecordedStays DEF Next, vars
<1>4. QED
  BY <1>1, <1>2, <1>3

\* Initially nothing is recorded and nothing answered.
LEMMA InitRecord == Init => RecordedOnce /\ Answered /\ SavedIsRecorded
<1> SUFFICES ASSUME Init PROVE RecordedOnce /\ Answered /\ SavedIsRecorded
  OBVIOUS
<1>1. DOMAIN events = {}
  BY BalanceEmpty DEF Init
<1>2. RecordedOnce
  BY <1>1 DEF RecordedOnce
<1>3. Answered /\ SavedIsRecorded
  BY DEF Init, Answered, SavedIsRecorded
<1>4. QED
  BY <1>2, <1>3

\* The ledger and what the owner was told, whatever is delivered again.
THEOREM RecordInvariant == Spec => []RecordInv
<1>1. Init /\ TypeInv => RecordInv
  BY InitRecord DEF RecordInv
<1>2. RecordInv /\ TypeInv' /\ [Next]_vars => RecordInv'
  BY RecordStep
<1>3. QED
  BY <1>1, <1>2, TypeCorrectness, PTL DEF Spec

\* However often an update is delivered and however many tasks handle it at the same
\* time, the ledger has at most one event of it: the lookup spares the insert, and the
\* unique key refuses the one the lookup has missed.
THEOREM EveryUpdateOnce == Spec => []RecordedOnce
<1>1. RecordInv => RecordedOnce
  BY DEF RecordInv
<1>2. QED
  BY <1>1, RecordInvariant, PTL

\* "saved" is only ever answered for what is in the ledger.
THEOREM SavedIsTrue == Spec => []SavedIsRecorded
<1>1. RecordInv => SavedIsRecorded
  BY DEF RecordInv
<1>2. QED
  BY <1>1, RecordInvariant, PTL
-----------------------------------------------------------------------------
(* What the balances add up to *)

\* The balances cover what message m asks for, and t will record what they ask for.
Fits(t, m) ==
  /\ \A a \in Assets : Required(Command[m])[a] > 0 => Balance(a) >= Required(Command[m])[a]
  /\ entries[t] = Entries(Command[m])

\* Until another event comes between, what a command has checked still holds: the
\* balances cover it, and its entries are those the balances ask for.
CheckHolds ==
  \A t \in Tasks : pc[t] \in {"lookup", "insert"} =>
    /\ read[t] <= Len(events)
    /\ read[t] = Len(events) => \A m \in Messages : m = message[t] => Fits(t, m)

BalanceInv == TypeInv /\ CheckHolds /\ NegativeOnlyByRace /\ SnapshotTaken

\* What a command takes of an asset is no more than what _require_balances asks for.
LEMMA RequiredCovers ==
  ASSUME NEW c \in Commands, c.kind # "RECONCILE", NEW a \in Assets
  PROVE  /\ Required(c)[a] \in Nat /\ Entries(c)[a] \in Int
         /\ Required(c)[a] + Entries(c)[a] >= 0
<1> USE CommandParts
<1>1. \A asset, x : In(asset, x)[a] = IF a = asset THEN x ELSE 0
  BY DEF In
<1>2. \A f, g : Both(f, g)[a] = f[a] + g[a]
  BY DEF Both
<1>3. CASE c.kind = "DEPOSIT"
  BY <1>1, <1>3 DEF Entries, Required, None
<1>4. CASE c.kind = "WITHDRAW"
  BY <1>1, <1>4 DEF Entries, Required
<1>5. CASE c.kind = "BUY"
  <2>1. Required(c)[a] = IF a = c.quote THEN c.total + c.fee ELSE 0
    BY <1>1, <1>5 DEF Required
  <2>2. Entries(c)[a] = (IF a = c.asset THEN c.amount ELSE 0)
                          + (IF a = c.quote THEN -(c.total + c.fee) ELSE 0)
    BY <1>1, <1>2, <1>5 DEF Entries
  <2>3. QED
    BY <2>1, <2>2
<1>6. CASE c.kind = "SELL"
  <2>1. Required(c)[a] = (IF a = c.asset THEN c.amount ELSE 0)
                           + (IF a = c.quote THEN Excess(c.fee, c.total) ELSE 0)
    BY <1>1, <1>2, <1>6 DEF Required
  <2>2. Entries(c)[a] = (IF a = c.asset THEN -c.amount ELSE 0)
                          + (IF a = c.quote THEN c.total - c.fee ELSE 0)
    BY <1>1, <1>2, <1>6 DEF Entries
  <2>3. QED
    BY <2>1, <2>2 DEF Excess
<1>7. QED
  BY <1>3, <1>4, <1>5, <1>6 DEF Kinds

\* Recorded on the balances it was checked against, an event leaves none negative, and
\* a reconciliation leaves its snapshot.
LEMMA CheckedEvent ==
  ASSUME TypeInv, CheckHolds, NEW t \in Tasks, Insert(t), read[t] = Len(events),
         NEW a \in Assets
  PROVE  /\ Balance(a) >= 0 => Balance(a)' >= 0
         /\ Command[message[t]].kind = "RECONCILE" =>
              Balance(a)' = Command[message[t]].snapshot[a]
<1> DEFINE c == Command[message[t]]
<1>1. pc[t] = "insert" /\ c \in Commands /\ message[t] \in Messages
  BY CommandServed DEF Insert, Goto
<1>2. /\ Required(c)[a] > 0 => Balance(a) >= Required(c)[a]
      /\ entries[t] = Entries(c)
  BY <1>1 DEF CheckHolds, Fits
<1>3. Balance(a)' = Balance(a) + Entries(c)[a] /\ Balance(a) \in Int
  BY <1>2, InsertEffect, BalanceNow, EventsLedger
<1>4. CASE c.kind = "RECONCILE"
  <2>1. Entries(c)[a] = c.snapshot[a] - Balance(a)
    BY <1>4 DEF Entries, Correction
  <2>2. c.snapshot[a] \in Nat
    BY <1>1, CommandParts
  <2>3. QED
    BY <1>3, <2>1, <2>2
<1>5. CASE c.kind # "RECONCILE"
  <2>1. /\ Required(c)[a] \in Nat /\ Entries(c)[a] \in Int
        /\ Required(c)[a] + Entries(c)[a] >= 0
    BY <1>1, <1>5, RequiredCovers
  <2>2. QED
    BY <1>2, <1>3, <1>5, <2>1
<1>6. QED
  BY <1>4, <1>5

\* A step that leaves the ledger alone leaves the balances alone.
LEMMA BalanceKept ==
  ASSUME events' = events
  PROVE  \A a \in Assets : Balance(a)' = Balance(a)
  BY DEF Balance, FoldLeft, MapThenFoldSet

\* The entries that balances ask for do not change while these do not.
LEMMA EntriesKept ==
  ASSUME events' = events, NEW c
  PROVE  Entries(c)' = Entries(c)
<1>1. [a \in Assets |-> c.snapshot[a] - Balance(a)'] = [a \in Assets |-> c.snapshot[a] - Balance(a)]
  BY BalanceKept
<1>2. Correction(c.snapshot)' = Correction(c.snapshot)
  BY <1>1 DEF Correction
<1>3. QED
  BY <1>2 DEF Entries

\* What fits goes on fitting while ledger and task stay.
LEMMA FitsKept ==
  ASSUME NEW t \in Tasks, NEW m, Fits(t, m), events' = events, entries'[t] = entries[t]
  PROVE  Fits(t, m)'
<1>1. \A a \in Assets : Balance(a)' = Balance(a)
  BY BalanceKept
<1>2. Entries(Command[m])' = Entries(Command[m])
  BY EntriesKept
<1>3. QED
  BY <1>1, <1>2 DEF Fits

\* A check keeps holding until an event comes between.
LEMMA CheckStep == TypeInv /\ CheckHolds /\ [Next]_vars => CheckHolds'
<1> SUFFICES ASSUME TypeInv, CheckHolds, [Next]_vars, NEW t \in Tasks,
                    pc'[t] \in {"lookup", "insert"}
             PROVE  /\ read'[t] <= Len(events')
                    /\ read'[t] = Len(events') =>
                         \A m \in Messages : m = message'[t] => Fits(t, m)'
  BY DEF CheckHolds
<1>1. Len(events) \in Nat /\ read[t] \in Nat
  BY EventsLedger DEF TypeInv, TypeOK
<1>2. CASE ReadBalances(t)
  <2>1. /\ read'[t] = Len(events) /\ events' = events /\ message' = message
        /\ entries'[t] = Entries(Command[message[t]])
        /\ \A a \in Assets : Required(Command[message[t]])[a] > 0 =>
             Balance(a) >= Required(Command[message[t]])[a]
    BY <1>2 DEF ReadBalances, TypeInv, TypeOK
  <2>2. ASSUME NEW m \in Messages, m = message'[t] PROVE Fits(t, m)'
    <3>1. \A a \in Assets : Balance(a)' = Balance(a)
      BY <2>1, BalanceKept
    <3>2. Entries(Command[m])' = Entries(Command[m])
      BY <2>1, EntriesKept
    <3>3. QED
      BY <2>1, <2>2, <3>1, <3>2 DEF Fits
  <2>3. QED
    BY <1>1, <2>1, <2>2
<1>3. CASE /\ pc[t] \in {"lookup", "insert"} /\ message'[t] = message[t]
           /\ entries'[t] = entries[t] /\ read'[t] = read[t] /\ events' = events
  BY <1>3, FitsKept DEF CheckHolds
<1>4. ASSUME NEW u \in Tasks, Insert(u)
      PROVE  read'[t] < Len(events') /\ Len(events') \in Nat /\ read'[t] \in Nat
  <2>1. u # t /\ pc[t] \in {"lookup", "insert"} /\ read' = read
    BY <1>4 DEF Insert, Goto, TypeInv, TypeOK
  <2>2. Len(events') = Len(events) + 1
    BY <1>4, InsertEffect
  <2>3. QED
    BY <1>1, <2>1, <2>2 DEF CheckHolds
<1>5. ASSUME NEW u \in Tasks, Handle(u), ~Insert(u), ~ReadBalances(t)
      PROVE  /\ pc[t] \in {"lookup", "insert"} /\ message'[t] = message[t]
             /\ entries'[t] = entries[t] /\ read'[t] = read[t] /\ events' = events
  <2>1. CASE u = t
    BY <1>5, <2>1 DEF Handle, Receive, Refuse, Lookup, Acknowledge, Fail, Goto, End, TypeInv,
       TypeOK
  <2>2. CASE u # t
    BY <1>5, <2>2 DEF Handle, Receive, ReadBalances, Refuse, Lookup, Acknowledge, Fail, Goto,
       End, TypeInv, TypeOK
  <2>3. QED
    BY <2>1, <2>2
<1>6. CASE \E u \in Tasks : Insert(u)
  BY <1>4, <1>6
<1>7. CASE UNCHANGED vars
  BY <1>3, <1>7 DEF vars
<1>8. QED
  BY <1>2, <1>3, <1>5, <1>6, <1>7 DEF Next

\* A step keeps the balances nonnegative while every event is fresh.
LEMMA NegativeStep ==
  ASSUME TypeInv, CheckHolds, NegativeOnlyByRace, [Next]_vars
  PROVE  NegativeOnlyByRace'
<1>1. CASE events' = events
  BY <1>1, BalanceKept DEF NegativeOnlyByRace, Fresh
<1>2. ASSUME NEW t \in Tasks, Insert(t), \A i \in DOMAIN events' : Fresh(i)',
             NEW a \in Assets
      PROVE  Balance(a)' >= 0
  <2> DEFINE n == Len(events)
  <2>1. /\ n \in Nat /\ DOMAIN events = 1 .. n /\ DOMAIN events' = 1 .. (n + 1)
        /\ events'[n + 1] = Event(t, message[t])
        /\ \A i \in 1 .. n : events'[i] = events[i]
    BY <1>2, InsertEffect
  <2> HIDE DEF n
  <2>2. \A i \in DOMAIN events : Fresh(i)
    BY <1>2, <2>1 DEF Fresh
  <2>3. Balance(a) >= 0
    BY <2>2 DEF NegativeOnlyByRace
  <2>4. read[t] = n
    <3>1. events'[n + 1].read = (n + 1) - 1 /\ Event(t, message[t]).read = read[t]
      BY <1>2, <2>1 DEF Fresh, Event
    <3>2. QED
      BY <2>1, <3>1
  <2>5. QED
    BY <1>2, <2>3, <2>4, CheckedEvent DEF n
<1>3. QED
  BY <1>1, <1>2, LedgerChanges DEF NegativeOnlyByRace

\* A step that records a reconciliation on current balances leaves its snapshot.
LEMMA SnapshotStep ==
  ASSUME TypeInv, CheckHolds, SnapshotTaken, [Next]_vars
  PROVE  SnapshotTaken'
<1>1. CASE events' = events
  BY <1>1, BalanceKept DEF SnapshotTaken, Fresh
<1>2. ASSUME NEW t \in Tasks, Insert(t), NEW i \in DOMAIN events', i = Len(events'),
             Command[events'[i].key].kind = "RECONCILE", Fresh(i)', NEW a \in Assets
      PROVE  Balance(a)' = Command[events'[i].key].snapshot[a]
  <2> DEFINE n == Len(events)
  <2>1. n \in Nat /\ i = n + 1 /\ events'[i] = Event(t, message[t])
    BY <1>2, InsertEffect
  <2>2. events'[i].read = i - 1 /\ Event(t, message[t]).read = read[t]
        /\ events'[i].key = message[t]
    BY <1>2, <2>1 DEF Fresh, Event
  <2>3. read[t] = n
    BY <2>1, <2>2
  <2>4. QED
    BY <1>2, <2>2, <2>3, CheckedEvent
<1>3. QED
  BY <1>1, <1>2, LedgerChanges DEF SnapshotTaken

\* Initially every balance is zero.
LEMMA InitBalance == Init => CheckHolds /\ NegativeOnlyByRace /\ SnapshotTaken
<1> SUFFICES ASSUME Init PROVE CheckHolds /\ NegativeOnlyByRace /\ SnapshotTaken
  OBVIOUS
<1>1. events \in Ledgers /\ DOMAIN events = {} /\ \A a \in Assets : Balance(a) = 0
  <2>1. events = <<>>
    BY DEF Init
  <2>2. \A a \in Assets : Balance(a) = BalanceOf(events, a)
    BY <2>1, BalanceEmpty, BalanceNow
  <2>3. QED
    BY <2>1, <2>2, BalanceEmpty
<1>2. CheckHolds
  BY DEF Init, CheckHolds
<1>3. NegativeOnlyByRace /\ SnapshotTaken
  BY <1>1 DEF NegativeOnlyByRace, SnapshotTaken
<1>4. QED
  BY <1>2, <1>3

\* The balances and the checks made on them.
THEOREM BalanceInvariant == Spec => []BalanceInv
<1>1. Init /\ TypeInv => BalanceInv
  BY InitBalance DEF BalanceInv
<1>2. BalanceInv /\ TypeInv' /\ [Next]_vars => BalanceInv'
  BY CheckStep, NegativeStep, SnapshotStep DEF BalanceInv
<1>3. QED
  BY <1>1, <1>2, TypeCorrectness, PTL DEF Spec

\* For every mix of commands, amounts and fees: as long as every event was added to
\* the balances its command had read, no balance is negative.  _require_balances
\* asks for enough; only commands that interleave can spend the same coins twice.
THEOREM RaceOnly == Spec => []NegativeOnlyByRace
<1>1. BalanceInv => NegativeOnlyByRace
  BY DEF BalanceInv
<1>2. QED
  BY <1>1, BalanceInvariant, PTL

\* A reconciliation recorded on current balances leaves every asset at its target.
THEOREM ReconciledToSnapshot == Spec => []SnapshotTaken
<1>1. BalanceInv => SnapshotTaken
  BY DEF BalanceInv
<1>2. QED
  BY <1>1, BalanceInvariant, PTL
-----------------------------------------------------------------------------
(* The row a sender is at: the queue has a first element *)

\* Every nonempty set of finite sets has one of least cardinality.
LEMMA SmallestSet ==
  ASSUME NEW X, X # {}, \A T \in X : IsFiniteSet(T)
  PROVE  \E T \in X : \A U \in X : Cardinality(T) <= Cardinality(U)
<1> DEFINE sizes == {Cardinality(T) : T \in X}
<1>1. sizes \in SUBSET Nat /\ sizes # {}
  BY FS_CardinalityType
<1>2. PICK n \in sizes : \A m \in sizes : n <= m
  BY <1>1, LeastNumber
<1>3. QED
  BY <1>2

\* The order of the queue, for the times c at which the rows were created.
Before(c, m, n) ==
  \/ Priority[m] > Priority[n]
  \/ Priority[m] = Priority[n] /\ c[m] < c[n]

\* The first row of S.
FirstOf(S, c) == CHOOSE n \in S : \A m \in S \ {n} : Before(c, n, m)

\* Rows created at different times.
Distinct(S, c) ==
  /\ S \subseteq Notices
  /\ \A n \in S : c[n] \in Nat
  /\ \A m, n \in S : c[m] = c[n] => m = n

\* The queue is a strict total order.
LEMMA TotalOrder ==
  ASSUME NEW S, NEW c, Distinct(S, c)
  PROVE  /\ \A m, n \in S : m # n => Before(c, m, n) \/ Before(c, n, m)
         /\ \A m, n \in S : ~(Before(c, m, n) /\ Before(c, n, m))
         /\ \A l, m, n \in S : Before(c, l, m) /\ Before(c, m, n) => Before(c, l, n)
<1>1. \A n \in S : Priority[n] \in Nat /\ c[n] \in Nat
  BY Producers DEF Distinct
<1>2. \A m, n \in S : c[m] = c[n] => m = n
  BY DEF Distinct
<1>3. QED
  BY <1>1, <1>2 DEF Before

\* A nonempty finite set of rows has a first one.
LEMMA FirstIs ==
  ASSUME NEW S, IsFiniteSet(S), S # {}, NEW c, Distinct(S, c)
  PROVE  FirstOf(S, c) \in S /\ \A m \in S \ {FirstOf(S, c)} : Before(c, FirstOf(S, c), m)
<1> DEFINE earlier(n) == {m \in S : Before(c, m, n)}
           X == {earlier(n) : n \in S}
<1>1. \A n \in S : earlier(n) \in SUBSET S /\ IsFiniteSet(earlier(n))
  BY FS_Subset
<1>2. PICK n \in S : \A k \in S : Cardinality(earlier(n)) <= Cardinality(earlier(k))
  <2>1. X # {} /\ \A T \in X : IsFiniteSet(T)
    BY <1>1
  <2>2. PICK T \in X : \A U \in X : Cardinality(T) <= Cardinality(U)
    BY <2>1, SmallestSet
  <2>3. PICK n \in S : T = earlier(n)
    OBVIOUS
  <2>4. QED
    BY <2>2, <2>3
<1>3. ASSUME NEW m \in S \ {n} PROVE Before(c, n, m)
  <2> SUFFICES ASSUME ~Before(c, n, m) PROVE FALSE
    OBVIOUS
  <2>1. Before(c, m, n)
    BY TotalOrder
  <2>2. earlier(m) \in SUBSET earlier(n)
    BY <2>1, TotalOrder
  <2>3. m \in earlier(n) /\ m \notin earlier(m)
    BY <2>1, TotalOrder
  <2> HIDE DEF earlier
  <2>4. /\ Cardinality(earlier(m)) <= Cardinality(earlier(n))
        /\ Cardinality(earlier(m)) # Cardinality(earlier(n))
    BY <1>1, <2>2, <2>3, FS_Subset
  <2>5. Cardinality(earlier(m)) \in Nat /\ Cardinality(earlier(n)) \in Nat
    BY <1>1, FS_CardinalityType
  <2>6. Cardinality(earlier(n)) <= Cardinality(earlier(m))
    BY <1>2
  <2>7. QED
    BY <2>4, <2>5, <2>6
<1>4. \E k \in S : \A m \in S \ {k} : Before(c, k, m)
  BY <1>3
<1>5. QED
  BY <1>4 DEF FirstOf

\* The first row of a batch is the same whatever else is stored.
LEMMA FirstKept ==
  ASSUME NEW S, IsFiniteSet(S), S # {}, NEW c, Distinct(S, c), NEW d,
         \A n \in S : d[n] = c[n]
  PROVE  FirstOf(S, d) = FirstOf(S, c)
<1> DEFINE m == FirstOf(S, c)
           n == FirstOf(S, d)
<1>1. Distinct(S, d)
  BY DEF Distinct
<1>2. m \in S /\ \A k \in S \ {m} : Before(c, m, k)
  BY FirstIs
<1>3. n \in S /\ \A k \in S \ {n} : Before(d, n, k)
  BY <1>1, FirstIs
<1> HIDE DEF m, n
<1>4. \A k \in S \ {n} : Before(c, n, k)
  BY <1>3 DEF Before
<1>5. m = n
  BY <1>2, <1>3, <1>4, TotalOrder
<1>6. QED
  BY <1>5 DEF m, n
-----------------------------------------------------------------------------
(* What the transactions hold *)

\* Each sender has a batch of notices.
Shape ==
  /\ batch = [s \in Senders |-> batch[s]]
  /\ unsent \in [Senders -> SUBSET Notices]
  /\ \A s \in Senders : Locked(s) \subseteq Notices

\* A notice that is pending has an attempt left.
Undecided ==
  /\ \A n \in Notices : rows[n].status = "PENDING" => rows[n].attempts < MaxAttempts
  /\ \A s \in Senders : \A n \in Locked(s) :
       batch[s][n].status = "PENDING" => batch[s][n].attempts < MaxAttempts

\* What is locked is still due, and locked by one sender, who does not unmake it.
LockedDue ==
  \A s \in Senders : \A n \in Locked(s) :
    rows[n].status = "PENDING" /\ rows[n].due /\ batch[s][n].status # "ABSENT"

LockedOnce == \A s, t \in Senders : s # t => Locked(s) \cap Locked(t) = {}

\* What is not handled yet is as it was read, and still is.
UnsentAsRead ==
  \A s \in Senders : /\ \A n \in unsent[s] : batch[s][n] = rows[n]
                     /\ answered[s] => unsent[s] # {}

\* The rows are numbered as they are stored.
Numbered ==
  /\ IsFiniteSet(Stored)
  /\ \A n \in Stored : created[n] <= Cardinality(Stored)
  /\ \A m, n \in Stored : created[m] = created[n] => m = n

LockInv ==
  /\ OutboxTypeOK /\ Shape /\ Undecided
  /\ LockedDue /\ LockedOnce /\ UnsentAsRead /\ Numbered

\* What is unsent is locked, and what is locked is stored.
LEMMA UnsentStored ==
  ASSUME LockInv, NEW s \in Senders
  PROVE  /\ unsent[s] \subseteq Locked(s) /\ Locked(s) \subseteq Stored
         /\ IsFiniteSet(unsent[s]) /\ Distinct(unsent[s], created)
<1>1. unsent[s] \subseteq Locked(s) /\ Locked(s) \subseteq Stored
  BY DEF LockInv, OutboxTypeOK, Shape, LockedDue, Stored
<1>2. IsFiniteSet(unsent[s])
  BY <1>1, FS_Subset DEF LockInv, Numbered
<1>3. Distinct(unsent[s], created)
  BY <1>1 DEF LockInv, Numbered, Distinct, OutboxTypeOK, Stored
<1>4. QED
  BY <1>1, <1>2, <1>3

\* A sender that is not through is at one of the rows it has not handled.
LEMMA CurrentUnsent ==
  ASSUME LockInv, NEW s \in Senders, unsent[s] # {}
  PROVE  /\ Current(s) \in unsent[s] /\ Current(s) \in Locked(s) /\ Current(s) \in Notices
         /\ batch[s][Current(s)] = rows[Current(s)]
         /\ rows[Current(s)].status = "PENDING" /\ rows[Current(s)] \in Row
         /\ rows[Current(s)].attempts < MaxAttempts
<1>1. Current(s) = FirstOf(unsent[s], created)
  BY DEF Current, FirstOf, Precedes, Before
<1>2. Current(s) \in unsent[s]
  BY <1>1, FirstIs, UnsentStored
<1>3. Current(s) \in Locked(s) /\ Current(s) \in Notices
  BY <1>2, UnsentStored DEF LockInv, Shape
<1>4. QED
  BY <1>2, <1>3 DEF LockInv, UnsentAsRead, LockedDue, OutboxTypeOK, Undecided

\* It stays at that row until it has handled it, whatever is stored meanwhile.
LEMMA CurrentKept ==
  ASSUME LockInv, NEW s \in Senders, unsent[s] # {}, unsent'[s] = unsent[s],
         \A n \in Stored : created'[n] = created[n]
  PROVE  Current(s)' = Current(s)
<1>1. Current(s) = FirstOf(unsent[s], created)
  BY DEF Current, FirstOf, Precedes, Before
<1>2. Current(s)' = FirstOf(unsent'[s], created')
  BY DEF Current, FirstOf, Precedes, Before
<1>3. \A n \in unsent[s] : created'[n] = created[n]
  BY UnsentStored
<1>4. FirstOf(unsent[s], created') = FirstOf(unsent[s], created)
  BY <1>3, UnsentStored, FirstKept
<1>5. QED
  BY <1>1, <1>2, <1>4
-----------------------------------------------------------------------------
\* A notice is stored: nobody has it locked.
LEMMA EnqueueStep == ASSUME LockInv, NEW n \in Notices, Enqueue(n) PROVE LockInv'
<1> USE DEF LockInv
<1>1. n \notin Stored /\ rows[n].status = "ABSENT" /\ \A s \in Senders : n \notin Locked(s)
  BY UnsentStored DEF Enqueue, Stored
<1>2. /\ rows' = [rows EXCEPT ![n] = [status |-> "PENDING", attempts |-> 0, due |-> TRUE]]
      /\ created' = [created EXCEPT ![n] = Cardinality(Stored) + 1]
      /\ UNCHANGED <<batch, unsent, answered, delivered, lost, aborts>>
  BY DEF Enqueue, sending, received
<1>3. /\ Stored' = Stored \cup {n}
      /\ \A m \in Notices \ {n} : rows'[m] = rows[m] /\ created'[m] = created[m]
      /\ rows'[n] = [status |-> "PENDING", attempts |-> 0, due |-> TRUE]
      /\ created'[n] = Cardinality(Stored) + 1
  BY <1>2 DEF Stored, OutboxTypeOK
<1>4. /\ IsFiniteSet(Stored) /\ Cardinality(Stored) \in Nat
      /\ IsFiniteSet(Stored') /\ Cardinality(Stored') = Cardinality(Stored) + 1
  BY <1>1, <1>3, FS_AddElement, FS_CardinalityType DEF Numbered
<1>5. OutboxTypeOK'
  <2>1. 0 \in 0 .. MaxAttempts
    BY Limits
  <2>2. rows'[n] \in Row
    BY <1>3, <2>1 DEF Row, Statuses
  <2>3. rows' \in [Notices -> Row] /\ created' \in [Notices -> Nat]
    BY <1>2, <1>3, <1>4, <2>2 DEF OutboxTypeOK
  <2>4. QED
    BY <1>2, <2>3 DEF OutboxTypeOK, Locked
<1>6. Shape'
  BY <1>2 DEF Shape, Locked
<1>7. Undecided'
  BY <1>2, <1>3, Limits DEF Undecided, Locked
<1>8. LockedDue' /\ LockedOnce'
  BY <1>1, <1>2, <1>3 DEF LockedDue, LockedOnce, Locked, Shape
<1>9. UnsentAsRead'
  BY <1>1, <1>2, <1>3, UnsentStored DEF UnsentAsRead, Shape
<1>10. Numbered'
  <2>1. \A m \in Stored : /\ m \in Notices \ {n} /\ created[m] \in Nat
                          /\ created[m] <= Cardinality(Stored)
    BY <1>1 DEF Numbered, Stored, OutboxTypeOK
  <2>2. \A m \in Stored : created'[m] = created[m] /\ created'[m] # created'[n]
    BY <1>3, <1>4, <2>1
  <2>3. \A m \in Stored' : created'[m] <= Cardinality(Stored')
    BY <1>3, <1>4, <2>1, <2>2
  <2>4. \A l, m \in Stored' : created'[l] = created'[m] => l = m
    BY <1>3, <2>2 DEF Numbered
  <2>5. QED
    BY <1>4, <2>3, <2>4 DEF Numbered
<1>11. QED
  BY <1>5, <1>6, <1>7, <1>8, <1>9, <1>10

\* What was not due becomes due: it was not locked.
LEMMA FallDueStep == ASSUME LockInv, NEW n \in Notices, FallDue(n) PROVE LockInv'
<1> USE DEF LockInv
<1>1. \A s \in Senders : n \notin Locked(s)
  BY DEF FallDue, LockedDue
<1>2. /\ rows' = [rows EXCEPT ![n].due = TRUE] /\ rows[n].status = "PENDING"
      /\ UNCHANGED <<created, batch, unsent, answered, delivered, lost, aborts>>
  BY DEF FallDue, sending, received
<1>3. /\ \A m \in Notices : /\ rows'[m].status = rows[m].status
                            /\ rows'[m].attempts = rows[m].attempts
      /\ \A m \in Notices \ {n} : rows'[m] = rows[m]
      /\ rows' \in [Notices -> Row]
  BY <1>2 DEF OutboxTypeOK, Row
<1>4. Stored' = Stored
  BY <1>3 DEF Stored
<1>5. OutboxTypeOK' /\ Shape'
  BY <1>2, <1>3 DEF OutboxTypeOK, Shape, Locked
<1>6. Undecided'
  BY <1>2, <1>3 DEF Undecided, Locked
<1>7. LockedDue' /\ LockedOnce'
  BY <1>1, <1>2, <1>3 DEF LockedDue, LockedOnce, Locked, Shape
<1>8. UnsentAsRead'
  BY <1>1, <1>2, <1>3, UnsentStored DEF UnsentAsRead, Shape
<1>9. Numbered'
  BY <1>2, <1>4 DEF Numbered
<1>10. QED
  BY <1>5, <1>6, <1>7, <1>8, <1>9

\* A transaction locks rows that nobody else has locked.
LEMMA FetchStep == ASSUME LockInv, NEW s \in Senders, Fetch(s) PROVE LockInv'
<1> USE DEF LockInv
<1>1. PICK first \in SUBSET Free :
        /\ batch' = [batch EXCEPT ![s] = [n \in first |-> rows[n]]]
        /\ unsent' = [unsent EXCEPT ![s] = first]
  BY DEF Fetch
<1>2. /\ \A n \in first : n \in Notices /\ rows[n].status = "PENDING" /\ rows[n].due
      /\ \A t \in Senders : \A n \in first : n \notin Locked(t)
  BY DEF Free, Due
<1>3. /\ UNCHANGED <<rows, created, answered, delivered, lost, aborts>>
      /\ Locked(s) = {} /\ unsent[s] = {} /\ ~answered[s]
  BY UnsentStored DEF Fetch, received, UnsentAsRead, OutboxTypeOK
<1>4. /\ batch'[s] = [n \in first |-> rows[n]] /\ unsent'[s] = first /\ Locked(s)' = first
      /\ \A t \in Senders \ {s} :
           batch'[t] = batch[t] /\ unsent'[t] = unsent[t] /\ Locked(t)' = Locked(t)
  BY <1>1 DEF Shape, Locked
<1>5. \A n \in first : rows[n] \in Row
  BY <1>2 DEF OutboxTypeOK
<1>6. OutboxTypeOK'
  <2>1. \A t \in Senders : batch'[t] \in [Locked(t)' -> Row] /\ unsent'[t] \subseteq Locked(t)'
    BY <1>4, <1>5 DEF OutboxTypeOK
  <2>2. QED
    BY <1>3, <2>1 DEF OutboxTypeOK
<1>7. Shape'
  BY <1>1, <1>2, <1>4 DEF Shape
<1>8. Undecided'
  BY <1>2, <1>3, <1>4 DEF Undecided
<1>9. LockedDue'
  BY <1>2, <1>3, <1>4 DEF LockedDue
<1>10. LockedOnce'
  BY <1>2, <1>4 DEF LockedOnce
<1>11. UnsentAsRead'
  BY <1>3, <1>4 DEF UnsentAsRead
<1>12. Numbered'
  BY <1>3 DEF Numbered, Stored
<1>13. QED
  BY <1>6, <1>7, <1>8, <1>9, <1>10, <1>11, <1>12

\* Telegram accepts the current message.
LEMMA AcceptedStep == ASSUME LockInv, NEW s \in Senders, Accepted(s) PROVE LockInv'
<1> USE DEF LockInv
<1>1. /\ UNCHANGED <<rows, created, batch, unsent, lost, aborts>> /\ unsent[s] # {}
      /\ answered' = [answered EXCEPT ![s] = TRUE]
      /\ delivered' = [delivered EXCEPT ![Current(s)] = @ + 1]
  BY DEF Accepted
<1>2. OutboxTypeOK'
  BY <1>1, CurrentUnsent DEF OutboxTypeOK, Locked
<1>3. UnsentAsRead'
  BY <1>1 DEF UnsentAsRead, OutboxTypeOK
<1>4. QED
  BY <1>1, <1>2, <1>3 DEF Shape, Undecided, LockedDue, LockedOnce, Numbered, Stored, Locked

\* A message is handled: the row of the batch is changed.
LEMMA HandledStep ==
  ASSUME LockInv, NEW s \in Senders, unsent[s] # {}, NEW row \in Row, Handled(s, row),
         row.status # "ABSENT", row.status = "PENDING" => row.attempts < MaxAttempts,
         answered' = [answered EXCEPT ![s] = FALSE], UNCHANGED <<rows, created, aborts>>,
         delivered' \in [Notices -> Nat], lost' \in [Notices -> Nat]
  PROVE  LockInv'
<1> USE DEF LockInv
<1> DEFINE c == Current(s)
<1>1. c \in unsent[s] /\ c \in Locked(s)
  BY CurrentUnsent
<1>2. /\ batch' = [batch EXCEPT ![s][c] = row]
      /\ unsent' = [unsent EXCEPT ![s] = @ \ {c}]
  BY DEF Handled
<1> HIDE DEF c
<1>3. /\ unsent'[s] = unsent[s] \ {c} /\ batch'[s] = [batch[s] EXCEPT ![c] = row]
      /\ Locked(s)' = Locked(s)
      /\ \A t \in Senders \ {s} :
           batch'[t] = batch[t] /\ unsent'[t] = unsent[t] /\ Locked(t)' = Locked(t)
  BY <1>2 DEF Shape, Locked
<1>4. /\ batch[s] \in [Locked(s) -> Row] /\ batch'[s] \in [Locked(s) -> Row]
      /\ batch'[s][c] = row
      /\ \A n \in Locked(s) \ {c} : batch'[s][n] = batch[s][n]
  BY <1>1, <1>3 DEF OutboxTypeOK
<1>5. OutboxTypeOK'
  <2>1. \A t \in Senders : batch'[t] \in [Locked(t)' -> Row] /\ unsent'[t] \subseteq Locked(t)'
    BY <1>3, <1>4 DEF OutboxTypeOK
  <2>2. QED
    BY <2>1 DEF OutboxTypeOK
<1>6. Shape'
  <2>1. batch' = [t \in Senders |-> batch'[t]]
    BY <1>2 DEF Shape
  <2>2. unsent' \in [Senders -> SUBSET Notices]
    BY <1>2 DEF Shape
  <2>3. \A t \in Senders : Locked(t)' \subseteq Notices
    BY <1>3 DEF Shape
  <2>4. QED
    BY <2>1, <2>2, <2>3 DEF Shape
<1>7. Undecided'
  BY <1>3, <1>4 DEF Undecided
<1>8. LockedDue' /\ LockedOnce'
  BY <1>3, <1>4 DEF LockedDue, LockedOnce
<1>9. UnsentAsRead'
  <2>1. \A t \in Senders : answered'[t] => t # s /\ answered[t]
    BY DEF OutboxTypeOK
  <2>2. \A n \in unsent'[s] : n \in unsent[s] /\ batch'[s][n] = batch[s][n]
    BY <1>3, <1>4, UnsentStored
  <2>3. \A n \in unsent'[s] : batch'[s][n] = rows'[n]
    BY <2>2 DEF UnsentAsRead
  <2>4. \A t \in Senders : answered'[t] => unsent'[t] # {}
    BY <1>3, <2>1 DEF UnsentAsRead
  <2>5. \A t \in Senders \ {s} : \A n \in unsent'[t] : batch'[t][n] = rows'[n]
    BY <1>3 DEF UnsentAsRead
  <2>6. QED
    BY <2>3, <2>4, <2>5 DEF UnsentAsRead
<1>10. Numbered'
  BY DEF Numbered, Stored
<1>11. QED
  BY <1>5, <1>6, <1>7, <1>8, <1>9, <1>10

\* What a failed attempt makes of a row.
LEMMA RetriedRow ==
  ASSUME NEW row \in Row, row.status = "PENDING", row.attempts < MaxAttempts
  PROVE  /\ Retried(row) \in Row /\ Retried(row).status \in {"PENDING", "FAILED"}
         /\ Retried(row).status = "PENDING" => Retried(row).attempts < MaxAttempts
<1>1. row.attempts \in 0 .. MaxAttempts /\ row.attempts + 1 \in 0 .. MaxAttempts
  BY Limits DEF Row
<1>2. CASE row.attempts + 1 >= MaxAttempts
  BY <1>1, <1>2 DEF Retried, Row, Statuses
<1>3. CASE ~(row.attempts + 1 >= MaxAttempts)
  <2>1. Retried(row) = [row EXCEPT !.attempts = row.attempts + 1, !.due = FALSE]
    BY <1>3 DEF Retried
  <2>2. row.attempts + 1 < MaxAttempts
    BY <1>1, <1>3, Limits
  <2>3. Retried(row).attempts = row.attempts + 1 /\ Retried(row).status = "PENDING"
    BY <2>1 DEF Row
  <2>4. Retried(row) \in Row
    BY <1>1, <2>1 DEF Row
  <2>5. QED
    BY <2>2, <2>3, <2>4
<1>4. QED
  BY <1>2, <1>3

\* The row is marked SENT.
LEMMA MarkSentStep == ASSUME LockInv, NEW s \in Senders, MarkSent(s) PROVE LockInv'
<1> DEFINE row == [batch[s][Current(s)] EXCEPT !.status = "SENT"]
<1>1. unsent[s] # {}
  BY DEF MarkSent, LockInv, UnsentAsRead
<1>2. row \in Row /\ row.status = "SENT"
  BY <1>1, CurrentUnsent DEF Row, Statuses
<1>3. delivered' \in [Notices -> Nat] /\ lost' \in [Notices -> Nat]
  BY DEF MarkSent, received, LockInv, OutboxTypeOK
<1> HIDE DEF row
<1>4. Handled(s, row)
  BY DEF MarkSent, row
<1>5. QED
  BY <1>1, <1>2, <1>3, <1>4, HandledStep DEF MarkSent

\* The row is marked for another attempt, or FAILED.
LEMMA MarkFailedStep == ASSUME LockInv, NEW s \in Senders, MarkFailed(s) PROVE LockInv'
<1> DEFINE row == Retried(batch[s][Current(s)])
<1>1. unsent[s] # {} /\ answered[s] = FALSE
  BY DEF MarkFailed, LockInv, OutboxTypeOK
<1>2. /\ row \in Row /\ row.status \in {"PENDING", "FAILED"}
      /\ row.status = "PENDING" => row.attempts < MaxAttempts
  BY <1>1, CurrentUnsent, RetriedRow
<1>3. delivered' \in [Notices -> Nat] /\ lost' \in [Notices -> Nat]
  BY DEF MarkFailed, received, LockInv, OutboxTypeOK
<1>4. answered' = [answered EXCEPT ![s] = FALSE]
  BY <1>1 DEF MarkFailed, LockInv, OutboxTypeOK
<1> HIDE DEF row
<1>5. Handled(s, row)
  BY DEF MarkFailed, row
<1>6. QED
  BY <1>1, <1>2, <1>3, <1>4, <1>5, HandledStep DEF MarkFailed

\* A transaction ends, with what it leaves of the rows it has locked.
LEMMA ReleaseStep ==
  ASSUME LockInv, NEW s \in Senders, Release(s), rows' \in [Notices -> Row],
         \A n \in Notices : rows'[n] # rows[n] =>
           /\ n \in Locked(s) /\ rows'[n].status # "ABSENT"
           /\ rows'[n].status = "PENDING" => rows'[n].attempts < MaxAttempts,
         lost' \in [Notices -> Nat], aborts' \in 0 .. MaxAborts
  PROVE  LockInv'
<1> USE DEF LockInv
<1>1. /\ batch' = [batch EXCEPT ![s] = Nothing] /\ unsent' = [unsent EXCEPT ![s] = {}]
      /\ answered' = [answered EXCEPT ![s] = FALSE] /\ UNCHANGED <<created, delivered>>
  BY DEF Release
<1>2. /\ unsent'[s] = {} /\ batch'[s] = Nothing /\ Locked(s)' = {}
      /\ \A t \in Senders \ {s} :
           batch'[t] = batch[t] /\ unsent'[t] = unsent[t] /\ Locked(t)' = Locked(t)
  BY <1>1 DEF Shape, Locked, Nothing
<1>3. OutboxTypeOK'
  <2>1. batch'[s] \in [{} -> Row]
    BY <1>2 DEF Nothing
  <2>2. \A t \in Senders : batch'[t] \in [Locked(t)' -> Row] /\ unsent'[t] \subseteq Locked(t)'
    BY <1>2, <2>1 DEF OutboxTypeOK
  <2>3. QED
    BY <1>1, <2>2 DEF OutboxTypeOK
<1>4. Shape'
  BY <1>1, <1>2 DEF Shape
<1>5. Undecided'
  BY <1>2 DEF Undecided
<1>6. \A t \in Senders \ {s} : \A n \in Locked(t) : n \in Notices /\ rows'[n] = rows[n]
  BY DEF LockedOnce, Shape
<1>7. LockedDue' /\ LockedOnce'
  BY <1>2, <1>6 DEF LockedDue, LockedOnce
<1>8. UnsentAsRead'
  <2>1. \A t \in Senders : answered'[t] => t # s /\ answered[t]
    BY <1>1 DEF OutboxTypeOK
  <2>2. \A t \in Senders \ {s} : \A n \in unsent[t] : rows'[n] = rows[n]
    BY <1>6, UnsentStored
  <2>3. \A t \in Senders \ {s} : \A n \in unsent'[t] : batch'[t][n] = rows'[n]
    BY <1>2, <2>2 DEF UnsentAsRead
  <2>4. \A t \in Senders : answered'[t] => unsent'[t] # {}
    BY <1>2, <2>1 DEF UnsentAsRead
  <2>5. QED
    BY <1>2, <2>3, <2>4 DEF UnsentAsRead
<1>9. Stored' = Stored
  <2>1. \A n \in Notices : rows'[n].status = "ABSENT" <=> rows[n].status = "ABSENT"
    BY DEF LockedDue
  <2>2. QED
    BY <2>1 DEF Stored
<1>10. Numbered'
  BY <1>1, <1>9 DEF Numbered
<1>11. QED
  BY <1>3, <1>4, <1>5, <1>7, <1>8, <1>10

\* The batch is committed.
LEMMA CommitStep == ASSUME LockInv, NEW s \in Senders, Commit(s) PROVE LockInv'
<1>1. rows' = [n \in Notices |-> IF n \in Locked(s) THEN batch[s][n] ELSE rows[n]]
  BY DEF Commit
<1>2. \A n \in Locked(s) : batch[s][n] \in Row
  BY DEF LockInv, OutboxTypeOK
<1>3. rows' \in [Notices -> Row]
  BY <1>1, <1>2 DEF LockInv, OutboxTypeOK
<1>4. \A n \in Notices : rows'[n] # rows[n] =>
        /\ n \in Locked(s) /\ rows'[n].status # "ABSENT"
        /\ rows'[n].status = "PENDING" => rows'[n].attempts < MaxAttempts
  BY <1>1 DEF LockInv, LockedDue, Undecided
<1>5. lost' \in [Notices -> Nat] /\ aborts' \in 0 .. MaxAborts
  BY DEF Commit, LockInv, OutboxTypeOK
<1>6. QED
  BY <1>3, <1>4, <1>5, ReleaseStep DEF Commit

\* The batch is rolled back.
LEMMA RollBackStep == ASSUME LockInv, NEW s \in Senders, RollBack(s) PROVE LockInv'
<1>1. rows' = rows /\ Release(s)
  BY DEF RollBack
<1>2. aborts' \in 0 .. MaxAborts
  <2>1. aborts \in 0 .. MaxAborts /\ aborts < MaxAborts /\ aborts' = aborts + 1
    BY DEF RollBack, LockInv, OutboxTypeOK
  <2>2. QED
    BY <2>1, Limits
<1>3. lost' \in [Notices -> Nat]
  BY DEF RollBack, LockInv, OutboxTypeOK
<1>4. rows' \in [Notices -> Row]
  BY <1>1 DEF LockInv, OutboxTypeOK
<1>5. QED
  BY <1>1, <1>2, <1>3, <1>4, ReleaseStep

\* Initially nothing is stored.
LEMMA InitLock == OutboxInit => LockInv
<1> SUFFICES ASSUME OutboxInit PROVE LockInv
  OBVIOUS
<1>1. Absent \in Row /\ 0 \in 0 .. MaxAborts
  BY Limits DEF Absent, Row, Statuses
<1>2. \A s \in Senders : batch[s] = Nothing /\ Locked(s) = {} /\ unsent[s] = {}
  BY DEF OutboxInit, Locked, Nothing
<1>3. Nothing \in [{} -> Row]
  BY DEF Nothing
<1>4. OutboxTypeOK
  BY <1>1, <1>2, <1>3 DEF OutboxInit, OutboxTypeOK
<1>5. Shape
  BY <1>2 DEF OutboxInit, Shape
<1>6. Undecided
  BY <1>2 DEF OutboxInit, Undecided, Absent
<1>7. LockedDue /\ LockedOnce /\ UnsentAsRead
  BY <1>2 DEF OutboxInit, LockedDue, LockedOnce, UnsentAsRead
<1>8. Numbered
  <2>1. Stored = {}
    BY DEF OutboxInit, Stored, Absent
  <2>2. QED
    BY <2>1, FS_EmptySet DEF Numbered
<1>9. QED
  BY <1>4, <1>5, <1>6, <1>7, <1>8 DEF LockInv

\* Every step keeps the locks.
LEMMA LockStep == LockInv /\ [OutboxNext]_outbox => LockInv'
<1> SUFFICES ASSUME LockInv, [OutboxNext]_outbox PROVE LockInv'
  OBVIOUS
<1>1. CASE UNCHANGED outbox
  BY <1>1 DEF outbox, LockInv, OutboxTypeOK, Shape, Undecided, LockedDue, LockedOnce, UnsentAsRead,
     Numbered, Stored, Locked
<1>2. QED
  BY <1>1, EnqueueStep, FallDueStep, FetchStep, AcceptedStep, MarkSentStep, MarkFailedStep,
     CommitStep, RollBackStep DEF OutboxNext, Deliver, Poll

\* What the senders hold is as they have read it, each row is held by one of them, and
\* the queue is in order: for every number of senders and notices.
THEOREM LockInvariant == OutboxSpec => []LockInv
<1>1. QED
  BY InitLock, LockStep, PTL DEF OutboxSpec

\* No step changes a row that is SENT or FAILED.
LEMMA FinalStep ==
  ASSUME LockInv, [OutboxNext]_outbox, NEW n \in Notices, rows[n].status \in {"SENT", "FAILED"}
  PROVE  rows'[n] = rows[n]
<1>1. rows \in [Notices -> Row]
  BY DEF LockInv, OutboxTypeOK
<1>2. ASSUME NEW m \in Notices, Enqueue(m) \/ FallDue(m) PROVE rows'[n] = rows[n]
  <2>1. m # n
    BY <1>2 DEF Enqueue, FallDue, Stored
  <2>2. QED
    BY <1>1, <1>2, <2>1 DEF Enqueue, FallDue
<1>3. ASSUME NEW s \in Senders, Commit(s) PROVE rows'[n] = rows[n]
  <2>1. n \notin Locked(s)
    BY DEF LockInv, LockedDue
  <2>2. QED
    BY <1>3, <2>1 DEF Commit
<1>4. QED
  BY <1>2, <1>3 DEF OutboxNext, Deliver, Fetch, Poll, Accepted, MarkSent, MarkFailed, RollBack,
       outbox

\* For any number of senders, what one of them commits never overwrites an outcome that
\* another has committed after it had read its batch.
THEOREM OutcomesStay == OutboxSpec => OutcomeIsFinal
<1>1. LockInv /\ [OutboxNext]_outbox
        => [\A n \in Notices :
              rows[n].status \in {"SENT", "FAILED"} => rows'[n] = rows[n]]_outbox
  BY FinalStep
<1>2. QED
  BY <1>1, LockInvariant, PTL DEF OutboxSpec, OutcomeIsFinal
-----------------------------------------------------------------------------
(* What was delivered *)

\* A message that the table or a transaction stands for.
Told(n) == rows[n].status = "SENT" \/ \E s \in Senders : n \in Announced(s)

\* What is announced is locked: its row is still pending, and nobody else announces it.
LEMMA AnnouncedLocked ==
  ASSUME LockInv, NEW s \in Senders
  PROVE  /\ Announced(s) \subseteq Locked(s) /\ Announced(s) \subseteq Notices
         /\ \A n \in Announced(s) : rows[n].status = "PENDING"
         /\ \A t \in Senders \ {s} : Announced(s) \cap Announced(t) = {}
<1>1. \A t \in Senders : Announced(t) \subseteq Locked(t)
  BY CurrentUnsent DEF Announced, LockInv, UnsentAsRead
<1>2. QED
  BY <1>1 DEF LockInv, Shape, LockedDue, LockedOnce

\* What a sender is still going to send, nobody has announced.
LEMMA CurrentUntold ==
  ASSUME LockInv, NEW s \in Senders, unsent[s] # {}, answered[s] = FALSE
  PROVE  ~Told(Current(s))
<1> DEFINE c == Current(s)
<1>1. c \in Locked(s) /\ batch[s][c].status = "PENDING" /\ rows[c].status = "PENDING"
  BY CurrentUnsent
<1> HIDE DEF c
<1>2. c \notin Announced(s)
  BY <1>1 DEF Announced
<1>3. \A t \in Senders \ {s} : c \notin Announced(t)
  BY <1>1, AnnouncedLocked DEF LockInv, LockedOnce
<1>4. ~Told(c)
  BY <1>1, <1>2, <1>3 DEF Told
<1>5. QED
  BY <1>4 DEF c

\* What a sender announces does not change while its transaction does not.
LEMMA AnnouncedKept ==
  ASSUME LockInv, NEW s \in Senders, batch'[s] = batch[s], unsent'[s] = unsent[s],
         answered'[s] = answered[s], \A n \in Stored : created'[n] = created[n]
  PROVE  Announced(s)' = Announced(s)
<1>1. answered[s] => Current(s)' = Current(s)
  BY CurrentKept DEF LockInv, UnsentAsRead
<1>2. Locked(s)' = Locked(s)
  BY DEF Locked
<1>3. QED
  BY <1>1, <1>2 DEF Announced

\* The account: what was received of n is what was lost, and one message more when told.
Accounted(n) == delivered[n] = lost[n] + IF Told(n) THEN 1 ELSE 0

\* Nothing is delivered or lost by a step that announces the same.
LEMMA QuietStep ==
  ASSUME UNCHANGED <<delivered, lost>>, NEW n, Accounted(n), Told(n)' <=> Told(n)
  PROVE  Accounted(n)'
  BY DEF Accounted

\* A step outside the transactions.
LEMMA OutsideAccount ==
  ASSUME LockInv, NEW m \in Notices, Enqueue(m) \/ FallDue(m), NEW n \in Notices, Accounted(n)
  PROVE  Accounted(n)'
<1>1. UNCHANGED <<batch, unsent, answered, delivered, lost>>
  BY DEF Enqueue, FallDue, sending, received
<1>2. /\ \A k \in Stored : created'[k] = created[k]
      /\ rows'[n].status = "SENT" <=> rows[n].status = "SENT"
  BY DEF Enqueue, FallDue, Stored, LockInv, OutboxTypeOK, Row
<1>3. \A s \in Senders : Announced(s)' = Announced(s)
  BY <1>1, <1>2, AnnouncedKept
<1>4. QED
  BY <1>1, <1>2, <1>3, QuietStep DEF Told

\* A transaction begins: nothing is announced yet.
LEMMA FetchAccount ==
  ASSUME LockInv, NEW s \in Senders, Fetch(s), NEW n \in Notices, Accounted(n)
  PROVE  Accounted(n)'
<1>1. UNCHANGED <<rows, created, answered, delivered, lost>>
  BY DEF Fetch, received
<1>2. PICK first \in SUBSET Free :
        /\ batch' = [batch EXCEPT ![s] = [m \in first |-> rows[m]]]
        /\ unsent' = [unsent EXCEPT ![s] = first]
  BY DEF Fetch
<1>3. \A t \in Senders \ {s} : batch'[t] = batch[t] /\ unsent'[t] = unsent[t]
  BY <1>2 DEF LockInv, Shape
<1>4. \A t \in Senders \ {s} : Announced(t)' = Announced(t)
  BY <1>1, <1>3, AnnouncedKept
<1>5. Announced(s) = {} /\ answered[s] = FALSE
  <2>1. Locked(s) = {}
    BY DEF Fetch
  <2>2. unsent[s] = {}
    BY <2>1, UnsentStored
  <2>3. answered[s] = FALSE
    BY <2>2 DEF LockInv, UnsentAsRead, OutboxTypeOK
  <2>4. QED
    BY <2>1, <2>3, AnnouncedLocked
<1>6. Announced(s)' = {}
  <2>1. batch'[s] = [m \in first |-> rows[m]]
    BY <1>2 DEF LockInv, Shape
  <2>2. \A m \in Locked(s)' : batch'[s][m].status = "PENDING"
    BY <2>1 DEF Locked, Free, Due
  <2>3. QED
    BY <1>1, <1>5, <2>2 DEF Announced
<1>7. QED
  BY <1>1, <1>4, <1>5, <1>6, QuietStep DEF Told

\* Telegram accepts a message that was not announced before.
LEMMA AcceptedAccount ==
  ASSUME LockInv, NEW s \in Senders, Accepted(s), NEW n \in Notices, Accounted(n)
  PROVE  Accounted(n)'
<1> DEFINE c == Current(s)
<1>1. /\ UNCHANGED <<rows, created, batch, unsent, lost>> /\ unsent[s] # {}
      /\ answered[s] = FALSE /\ answered' = [answered EXCEPT ![s] = TRUE]
      /\ delivered' = [delivered EXCEPT ![c] = @ + 1]
  BY DEF Accepted, LockInv, OutboxTypeOK
<1>2. Current(s)' = c /\ c \in Notices /\ ~Told(c)
  BY <1>1, CurrentKept, CurrentUnsent, CurrentUntold
<1>3. \A t \in Senders \ {s} : Announced(t)' = Announced(t)
  BY <1>1, AnnouncedKept DEF LockInv, OutboxTypeOK
<1>4. Announced(s)' = Announced(s) \cup {c}
  BY <1>1, <1>2 DEF Announced, Locked, LockInv, OutboxTypeOK
<1> HIDE DEF c
<1>5. CASE n = c
  <2>1. Told(n)' /\ ~Told(n)
    BY <1>2, <1>4, <1>5 DEF Told
  <2>2. delivered'[n] = delivered[n] + 1 /\ delivered[n] \in Nat /\ lost'[n] = lost[n]
        /\ lost[n] \in Nat
    BY <1>1, <1>5 DEF LockInv, OutboxTypeOK
  <2>3. QED
    BY <2>1, <2>2 DEF Accounted
<1>6. CASE n # c
  <2>1. Told(n)' <=> Told(n)
    BY <1>1, <1>3, <1>4, <1>6 DEF Told
  <2>2. delivered'[n] = delivered[n] /\ lost'[n] = lost[n]
    BY <1>1, <1>6 DEF LockInv, OutboxTypeOK
  <2>3. QED
    BY <2>1, <2>2 DEF Accounted
<1>7. QED
  BY <1>5, <1>6

\* What a sender has handled it announces if its message was accepted.
LEMMA HandledAnnounced ==
  ASSUME LockInv, NEW s \in Senders, unsent[s] # {}, NEW row, Handled(s, row),
         answered' = [answered EXCEPT ![s] = FALSE],
         row.status = "SENT" <=> answered[s] = TRUE, UNCHANGED created
  PROVE  \A t \in Senders : Announced(t)' = Announced(t)
<1> DEFINE c == Current(s)
<1>1. c \in Locked(s) /\ batch[s][c].status = "PENDING" /\ answered[s] \in BOOLEAN
  BY CurrentUnsent DEF LockInv, OutboxTypeOK
<1>2. /\ batch' = [batch EXCEPT ![s][c] = row]
      /\ unsent' = [unsent EXCEPT ![s] = @ \ {c}]
  BY DEF Handled
<1>3. Announced(s) = {n \in Locked(s) : batch[s][n].status = "SENT"}
                       \cup (IF answered[s] THEN {c} ELSE {})
  BY DEF Announced
<1> HIDE DEF c
<1>4. \A t \in Senders \ {s} : Announced(t)' = Announced(t)
  <2>1. \A t \in Senders \ {s} : batch'[t] = batch[t] /\ unsent'[t] = unsent[t]
                                   /\ answered'[t] = answered[t]
    BY <1>2 DEF LockInv, Shape, OutboxTypeOK
  <2>2. QED
    BY <2>1, AnnouncedKept
<1>5. /\ Locked(s)' = Locked(s) /\ answered'[s] = FALSE
      /\ \A n \in Locked(s) : batch'[s][n] = IF n = c THEN row ELSE batch[s][n]
  BY <1>1, <1>2 DEF LockInv, Shape, OutboxTypeOK, Locked
<1>6. Announced(s)' = {n \in Locked(s) : batch'[s][n].status = "SENT"}
  BY <1>5 DEF Announced
<1>7. Announced(s)' = Announced(s)
  BY <1>1, <1>3, <1>5, <1>6
<1>8. QED
  BY <1>4, <1>7

\* The row of an accepted message is marked.
LEMMA MarkSentAccount ==
  ASSUME LockInv, NEW s \in Senders, MarkSent(s), NEW n \in Notices, Accounted(n)
  PROVE  Accounted(n)'
<1> DEFINE row == [batch[s][Current(s)] EXCEPT !.status = "SENT"]
<1>1. unsent[s] # {} /\ answered[s] = TRUE
  BY DEF MarkSent, LockInv, UnsentAsRead, OutboxTypeOK
<1>2. row.status = "SENT"
  BY <1>1, CurrentUnsent DEF Row
<1> HIDE DEF row
<1>3. /\ Handled(s, row) /\ answered' = [answered EXCEPT ![s] = FALSE]
      /\ UNCHANGED <<rows, created, delivered, lost>>
  BY DEF MarkSent, received, row
<1>4. \A t \in Senders : Announced(t)' = Announced(t)
  BY <1>1, <1>2, <1>3, HandledAnnounced
<1>5. QED
  BY <1>3, <1>4, QuietStep DEF Told

\* A failed attempt: a message whose answer is lost was delivered all the same.
LEMMA MarkFailedAccount ==
  ASSUME LockInv, NEW s \in Senders, MarkFailed(s), NEW n \in Notices, Accounted(n)
  PROVE  Accounted(n)'
<1> DEFINE row == Retried(batch[s][Current(s)])
<1>1. unsent[s] # {} /\ answered[s] = FALSE
  BY DEF MarkFailed, LockInv, OutboxTypeOK
<1>2. row.status # "SENT"
  BY <1>1, CurrentUnsent, RetriedRow
<1> HIDE DEF row
<1>3. Handled(s, row) /\ answered' = [answered EXCEPT ![s] = FALSE] /\ UNCHANGED <<rows, created>>
  BY <1>1 DEF MarkFailed, LockInv, OutboxTypeOK, row
<1>4. \A t \in Senders : Announced(t)' = Announced(t)
  BY <1>1, <1>2, <1>3, HandledAnnounced
<1>5. Told(n)' <=> Told(n)
  BY <1>3, <1>4 DEF Told
<1>6. delivered[n] \in Nat /\ lost[n] \in Nat
  BY DEF LockInv, OutboxTypeOK
<1>7. \/ delivered'[n] = delivered[n] /\ lost'[n] = lost[n]
      \/ delivered'[n] = delivered[n] + 1 /\ lost'[n] = lost[n] + 1
  BY DEF MarkFailed, received, LockInv, OutboxTypeOK
<1>8. QED
  BY <1>5, <1>6, <1>7 DEF Accounted

\* A transaction that ends announces nothing any more, and the others the same.
LEMMA ReleaseAnnounced ==
  ASSUME LockInv, NEW s \in Senders, Release(s)
  PROVE  /\ Announced(s)' = {}
         /\ \A t \in Senders \ {s} : Announced(t)' = Announced(t)
<1>1. batch'[s] = Nothing /\ answered'[s] = FALSE
  BY DEF Release, LockInv, Shape, OutboxTypeOK
<1>2. \A t \in Senders \ {s} : batch'[t] = batch[t] /\ unsent'[t] = unsent[t]
                                 /\ answered'[t] = answered[t] /\ created' = created
  BY DEF Release, LockInv, Shape, OutboxTypeOK
<1>3. Announced(s)' = {}
  BY <1>1 DEF Announced, Locked, Nothing
<1>4. QED
  BY <1>2, <1>3, AnnouncedKept

\* What was announced is SENT after the commit.
LEMMA CommitAccount ==
  ASSUME LockInv, NEW s \in Senders, Commit(s), NEW n \in Notices, Accounted(n)
  PROVE  Accounted(n)'
<1>1. /\ rows'[n] = IF n \in Locked(s) THEN batch[s][n] ELSE rows[n]
      /\ UNCHANGED <<delivered, lost>> /\ Release(s)
  BY DEF Commit, Release
<1>2. Announced(s) = {m \in Locked(s) : batch[s][m].status = "SENT"}
  BY DEF Announced, Commit, LockInv, UnsentAsRead
<1>3. n \in Locked(s) => rows[n].status = "PENDING"
  BY DEF LockInv, LockedDue
<1>4. Told(n)' <=> Told(n)
  <2>1. rows'[n].status = "SENT" <=> rows[n].status = "SENT" \/ n \in Announced(s)
    BY <1>1, <1>2, <1>3
  <2>2. QED
    BY <1>1, <2>1, ReleaseAnnounced DEF Told
<1>5. QED
  BY <1>1, <1>4, QuietStep

\* What was announced is lost by a rollback.
LEMMA RollBackAccount ==
  ASSUME LockInv, NEW s \in Senders, RollBack(s), NEW n \in Notices, Accounted(n)
  PROVE  Accounted(n)'
<1>1. /\ UNCHANGED <<rows, delivered>> /\ Release(s)
      /\ lost'[n] = lost[n] + IF n \in Announced(s) THEN 1 ELSE 0
  BY DEF RollBack, Release
<1>2. delivered[n] \in Nat /\ lost[n] \in Nat
  BY DEF LockInv, OutboxTypeOK
<1>3. CASE n \in Announced(s)
  <2>1. Told(n) /\ rows[n].status = "PENDING"
    BY <1>3, AnnouncedLocked DEF Told
  <2>2. ~Told(n)'
    BY <1>1, <1>3, <2>1, AnnouncedLocked, ReleaseAnnounced DEF Told
  <2>3. QED
    BY <1>1, <1>2, <1>3, <2>1, <2>2 DEF Accounted
<1>4. CASE n \notin Announced(s)
  <2>1. Told(n)' <=> Told(n)
    BY <1>1, <1>4, ReleaseAnnounced DEF Told
  <2>2. QED
    BY <1>1, <1>2, <1>4, <2>1 DEF Accounted
<1>5. QED
  BY <1>3, <1>4

\* Every step keeps the account of every notice.
LEMMA AccountStep ==
  ASSUME LockInv, DeliveriesAccounted, [OutboxNext]_outbox
  PROVE  DeliveriesAccounted'
<1>1. DeliveriesAccounted <=> \A n \in Notices : Accounted(n)
  BY DEF DeliveriesAccounted, Accounted, Told
<1>2. DeliveriesAccounted' <=> \A n \in Notices : Accounted(n)'
  BY DEF DeliveriesAccounted, Accounted, Told
<1>3. ASSUME NEW n \in Notices, Accounted(n) PROVE Accounted(n)'
  <2>1. CASE UNCHANGED outbox
    <3>1. \A s \in Senders : Announced(s)' = Announced(s)
      BY <2>1, AnnouncedKept DEF outbox
    <3>2. QED
      BY <1>3, <2>1, <3>1, QuietStep DEF Told, outbox
  <2>2. QED
    BY <1>3, <2>1, OutsideAccount, FetchAccount, AcceptedAccount, MarkSentAccount,
       MarkFailedAccount, CommitAccount, RollBackAccount DEF OutboxNext, Deliver, Poll
<1>4. QED
  BY <1>1, <1>2, <1>3

\* For any number of senders, notices and failures, the owner receives a message once,
\* except for what a rollback or a lost answer makes the loop send again.
THEOREM NoOtherRepetition == OutboxSpec => []DeliveriesAccounted
<1>1. OutboxInit => DeliveriesAccounted
  <2> SUFFICES ASSUME OutboxInit PROVE DeliveriesAccounted
    OBVIOUS
  <2>1. \A s \in Senders : Announced(s) = {}
    BY InitLock, AnnouncedLocked DEF OutboxInit, Locked, Nothing
  <2>2. QED
    BY <2>1 DEF OutboxInit, Absent, DeliveriesAccounted
<1>2. LockInv /\ DeliveriesAccounted /\ [OutboxNext]_outbox => DeliveriesAccounted'
  BY AccountStep
<1>3. QED
  BY <1>1, <1>2, LockInvariant, PTL DEF OutboxSpec
=============================================================================
