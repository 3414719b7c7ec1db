----------------------------- MODULE MarketStore -----------------------------
(***************************************************************************)
(* The market tables of one instrument: who writes a candle and when, what  *)
(* the feature builder makes of them, and the retention of order books.     *)
(*                                                                          *)
(* A collector per exchange (market_data/cli.py) first backfills the last   *)
(* day, then consumes a stream of candles, and every five minutes backfills *)
(* the last quarter of an hour, each in a session of its own.  The features *)
(* process reads what they have stored; the retention job deletes books.    *)
(*                                                                          *)
(* Time is counted in bars: bar b is formed between b and b + 1.  A candle  *)
(* is abstracted to whether its row says closed and whether its values are  *)
(* the final ones of the exchange.  The clocks of exchange and collector    *)
(* agree; the order book itself is the subject of OrderBookStream.          *)
(***************************************************************************)
EXTENDS Integers, Sequences, FiniteSets, SequencesExt, FiniteSetsExt

CONSTANTS
  Deployments,        \* sets of tasks that may be up together
  Now0, Horizon,      \* first deployment, and a bound on time
  BackfillHours,      \* bars backfilled at the start of a collector
  GapWindow,          \* bars of the periodic backfill
  ChunkBars,          \* bars per request
  CandleLag,          \* CollectorPolicy.candle_maximum_lag
  BookAge, BookSkew,  \* what assert_fresh admits of an order book
  MinCandles, MaxCandles, BookWindow,  \* what build_latest asks for
  Divergent,          \* bars at which the exchanges differ by more than 1 %
  Retention, BatchSize, MaxBatches,    \* OrderbookRetentionJob
  MaxQueue, MaxUpdates, MaxPolls, MaxBooks, MaxFaults  \* bounds

ASSUME MarketAssumption ==
  /\ {Now0, Horizon, CandleLag, BookAge, BookSkew, MaxQueue, MaxUpdates,
      MaxPolls, MaxBooks, MaxFaults} \subseteq Nat
  /\ Now0 <= Horizon
  /\ {BackfillHours, GapWindow, ChunkBars, MinCandles, MaxCandles, BookWindow,
      Retention, BatchSize, MaxBatches} \subseteq Nat \ {0}
  /\ Divergent \subseteq Nat
  /\ Deployments \subseteq
       SUBSET {"bybit", "okx", "orderbook", "features", "scheduler"}

Providers == {"bybit", "okx"}
Bars == 0 .. Horizon

VARIABLES
  running,  \* the tasks that are up
  now,
  mode,     \* per collector: backfilling at the start, or streaming
  fetch,    \* per collector: the backfill under way
  queue,    \* per collector: candle events published and not yet handled
  store,    \* market_candles: per provider and bar
  books,    \* captured_at of Bybit's orderbook_snapshots, in the order of their ids
  reading,  \* the closed primary candles build_latest has read
  vectors,  \* feature_vectors
  sweep,    \* the retention run under way
  swept,    \* cutoff of the last retention run that ended by itself
  used      \* of the bounds: updates, polls, faults

vars == <<running, now, mode, fetch, queue, store, books, reading, vectors, sweep, swept, used>>
candles == <<mode, fetch, queue, store>>
features == <<reading, vectors>>
retention == <<sweep, swept>>

NoCandle == [closed |-> FALSE, final |-> FALSE, stored |-> FALSE]
NoFetch == [end |-> -1, cursor |-> -1, answered |-> -1]
NoSweep == [cutoff |-> -1, batches |-> 0]
Unanswered == -1
Never == - (Horizon + Retention)

Candle(closed, final) == [closed |-> closed, final |-> final, stored |-> TRUE]

\* BackfillOrchestrator.run: whole bars only, so the one being formed is not asked for.
BackfillOf(bars) ==
  [end |-> now, cursor |-> Max({0, now - bars}), answered |-> Unanswered]

Init ==
  /\ running \in Deployments
  /\ now = Now0
  /\ mode = [p \in Providers |-> "STARTING"]
  /\ fetch = [p \in Providers |-> BackfillOf(BackfillHours)]
  /\ queue = [p \in Providers |-> <<>>]
  /\ store = [p \in Providers |-> [b \in Bars |-> NoCandle]]
  /\ books = <<>>
  /\ reading = <<>> /\ vectors = {}
  /\ sweep = NoSweep /\ swept = Never
  /\ used = [updates |-> 0, polls |-> 0, faults |-> 0]

Fault == used.faults < MaxFaults /\ used' = [used EXCEPT !.faults = @ + 1]
-----------------------------------------------------------------------------
(* The exchange and the connection *)

\* A bar closes.  Its last event reaches the collectors that are subscribed, unless
\* the connection is being replaced.
Tick ==
  LET subscribed == {p \in Providers : mode[p] = "STREAMING"}
  IN  /\ now < Horizon
      /\ \A p \in subscribed : Len(queue[p]) < MaxQueue
      /\ \E heard \in SUBSET subscribed :
           /\ IF heard = subscribed THEN UNCHANGED used ELSE Fault
           /\ queue' = [p \in Providers |->
                IF p \in heard THEN Append(queue[p], [bar |-> now, closed |-> TRUE])
                               ELSE queue[p]]
      /\ now' = now + 1
      /\ UNCHANGED <<running, mode, fetch, store, books, features, retention>>

\* An update of the bar that is being formed.
Publish(p) ==
  LET event == [bar |-> now, closed |-> FALSE]
  IN  /\ mode[p] = "STREAMING" /\ Len(queue[p]) < MaxQueue
      /\ ~Contains(queue[p], event)
      /\ used.updates < MaxUpdates /\ used' = [used EXCEPT !.updates = @ + 1]
      /\ queue' = [queue EXCEPT ![p] = Append(@, event)]
      /\ UNCHANGED <<running, now, mode, fetch, store, books, features, retention>>

\* The connection is lost with what it has carried; the transport reconnects, or
\* _supervise_stream starts the stream again.
Disconnect(p) ==
  /\ queue[p] # <<>>
  /\ queue' = [queue EXCEPT ![p] = <<>>]
  /\ Fault
  /\ UNCHANGED <<running, now, mode, fetch, store, books, features, retention>>

\* The process ends and its container is started again.
Restarted(p) ==
  /\ mode' = [mode EXCEPT ![p] = "STARTING"]
  /\ fetch' = [fetch EXCEPT ![p] = BackfillOf(BackfillHours)]
  /\ queue' = [queue EXCEPT ![p] = <<>>]

Restart(p) ==
  /\ mode[p] = "STREAMING"
  /\ Restarted(p)
  /\ Fault
  /\ UNCHANGED <<running, now, store, books, features, retention>>
-----------------------------------------------------------------------------
(* The collectors *)

\* (mutant) Every event is as old as the end of its bar.
ObservedAtClose(event) == event.bar + 1

ObservedAt(event) == IF event.closed THEN event.bar + 1 ELSE event.bar

\* handle_candle: a late event is dropped, any other replaces the row.
\* (The check and the transaction it awaits are one step.)
Handle(p) ==
  LET event == Head(queue[p])
  IN  /\ queue[p] # <<>>
      /\ queue' = [queue EXCEPT ![p] = Tail(@)]
      /\ store' = IF now - ObservedAt(event) <= CandleLag
                    THEN [store EXCEPT ![p][event.bar] = Candle(event.closed, event.closed)]
                    ELSE store
      /\ UNCHANGED <<running, now, mode, fetch, books, features, retention, used>>

\* _poll_gap_backfill
Poll(p) ==
  /\ mode[p] = "STREAMING" /\ fetch[p] = NoFetch
  /\ used.polls < MaxPolls /\ used' = [used EXCEPT !.polls = @ + 1]
  /\ fetch' = [fetch EXCEPT ![p] = BackfillOf(GapWindow)]
  /\ UNCHANGED <<running, now, mode, queue, store, books, features, retention>>

\* The exchange answers the request for a chunk.
Answer(p) ==
  /\ fetch[p] # NoFetch /\ fetch[p].answered = Unanswered
  /\ fetch' = [fetch EXCEPT ![p].answered = now]
  /\ UNCHANGED <<running, now, mode, queue, store, books, features, retention, used>>

ChunkEnd(f) == Min({f.cursor + ChunkBars, f.end})

\* The bars in an answer: Bybit's boundaries are inclusive, OKX's are exclusive.
Answered(p, f) ==
  {b \in IF p = "bybit" THEN f.cursor .. ChunkEnd(f)
                        ELSE (f.cursor + 1) .. (ChunkEnd(f) - 1) : b <= f.answered}

\* Bybit's rows do not say whether they are closed: the collector looks at its clock.
Parsed(p, f, b) ==
  Candle(b + 1 <= IF p = "bybit" THEN now ELSE f.answered, b + 1 <= f.answered)

\* (mutant) The end of the chunk is kept as well.
NormalizedToEnd(p, f) ==
  {b \in Answered(p, f) : f.cursor <= b /\ b <= ChunkEnd(f) /\ Parsed(p, f, b).closed}

Normalized(p, f) ==
  {b \in Answered(p, f) : f.cursor <= b /\ b < ChunkEnd(f) /\ Parsed(p, f, b).closed}

\* A chunk is stored, in one transaction; after the last one the streams start.
Save(p) ==
  LET f == fetch[p]
      done == ChunkEnd(f) = f.end
  IN  /\ f # NoFetch /\ f.answered # Unanswered
      /\ store' = [store EXCEPT ![p] = [b \in Bars |->
           IF b \in Normalized(p, f) THEN Parsed(p, f, b) ELSE @[b]]]
      /\ fetch' = [fetch EXCEPT ![p] =
           IF done THEN NoFetch
                   ELSE [f EXCEPT !.cursor = ChunkEnd(f), !.answered = Unanswered]]
      /\ mode' = IF done THEN [mode EXCEPT ![p] = "STREAMING"] ELSE mode
      /\ UNCHANGED <<running, now, queue, books, features, retention, used>>

\* The request fails after its retries: the poll is given up until the next one, the
\* backfill of the start takes the process down.
FetchFails(p) ==
  /\ fetch[p] # NoFetch /\ fetch[p].answered = Unanswered
  /\ Fault
  /\ \/ /\ mode[p] = "STREAMING"
        /\ fetch' = [fetch EXCEPT ![p] = NoFetch] /\ UNCHANGED <<mode, queue>>
     \/ mode[p] = "STARTING" /\ Restarted(p)
  /\ UNCHANGED <<running, now, store, books, features, retention>>

\* handle_orderbook stores a book that is fresh; captured_at is the exchange's time.
InsertBook ==
  /\ Len(books) < MaxBooks
  /\ \E captured_at \in Max({0, now - BookAge}) .. (now + BookSkew) :
       books' = Append(books, captured_at)
  /\ UNCHANGED <<running, now, candles, features, retention, used>>
-----------------------------------------------------------------------------
(* OnlineFeatureService.build_latest; each query sees what is committed by then *)

\* (mutant) The rows are read without asking whether they are closed.
PrimaryOpenToo == {b \in Bars : store["bybit"][b].stored}

PrimaryCandles == {b \in Bars : store["bybit"][b].closed}

Latest(bars) == {b \in bars : Cardinality({c \in bars : c > b}) < MaxCandles}

ReadPrimary ==
  /\ reading = <<>>
  /\ Cardinality(Latest(PrimaryCandles)) >= MinCandles
  /\ reading' = [b \in Latest(PrimaryCandles) |-> store["bybit"][b].final]
  /\ UNCHANGED <<running, now, candles, books, vectors, retention, used>>

Before(b) == {c \in DOMAIN reading : c <= b}

FreshBooks(b) == {at \in ToSet(books) : b + 1 - BookWindow < at /\ at <= b + 1}

Candidate(b) ==
  /\ Cardinality(Before(b)) >= MinCandles
  /\ store["okx"][b].closed
  /\ b \notin Divergent
  /\ FreshBooks(b) # {}

\* The newest bar the other exchange confirms and that has a book becomes a vector,
\* unless there is one; without such a bar the outcome is only logged.
Build ==
  LET bars == {b \in DOMAIN reading : Candidate(b)}
      latest == Max(bars)
      vector == [as_of |-> latest + 1,
                 candles |-> [b \in Before(latest) |-> reading[b]],
                 reserve |-> store["okx"][latest].final,
                 orderbook_at |-> Max(FreshBooks(latest))]
  IN  /\ reading # <<>>
      /\ reading' = <<>>
      /\ vectors' = IF bars = {} \/ (\E v \in vectors : v.as_of = latest + 1)
                      THEN vectors ELSE vectors \cup {vector}
      /\ UNCHANGED <<running, now, candles, books, retention, used>>
-----------------------------------------------------------------------------
(* OrderbookRetentionJob *)

StartSweep ==
  /\ sweep = NoSweep /\ books # <<>> /\ swept < now - Retention
  /\ sweep' = [cutoff |-> now - Retention, batches |-> MaxBatches]
  /\ UNCHANGED <<running, now, candles, books, features, swept, used>>

FirstExpired ==
  LET expired == {i \in DOMAIN books : books[i] < sweep.cutoff}
  IN  {i \in expired : Cardinality({j \in expired : j < i}) < BatchSize}

\* (mutant) The newest row decides whether anything has expired.
ExpiredByNewest ==
  IF books = <<>> THEN {} ELSE IF Last(books) >= sweep.cutoff THEN {} ELSE FirstExpired

\* The rows a batch deletes: none when the one with the smallest id is not expired.
Expired ==
  IF books = <<>> THEN {} ELSE IF Head(books) >= sweep.cutoff THEN {} ELSE FirstExpired

DeleteBatch ==
  LET deleted == Cardinality(Expired)
      last == deleted < BatchSize \/ sweep.batches = 1
  IN  /\ sweep # NoSweep
      /\ books' = FlattenSeq([i \in DOMAIN books |->
                    IF i \in Expired THEN <<>> ELSE <<books[i]>>])
      /\ sweep' = IF last THEN NoSweep ELSE [sweep EXCEPT !.batches = @ - 1]
      /\ swept' = IF deleted < BatchSize THEN sweep.cutoff ELSE swept
      /\ UNCHANGED <<running, now, candles, features, used>>
-----------------------------------------------------------------------------
Collect(p) == Publish(p) \/ Disconnect(p) \/ Restart(p) \/ Handle(p)
                \/ Poll(p) \/ Answer(p) \/ Save(p) \/ FetchFails(p)

Next ==
  \/ Tick
  \/ \E p \in Providers \cap running : Collect(p)
  \/ "orderbook" \in running /\ InsertBook
  \/ "features" \in running /\ (ReadPrimary \/ Build)
  \/ "scheduler" \in running /\ (StartSweep \/ DeleteBatch)

Spec == Init /\ [][Next]_vars
-----------------------------------------------------------------------------
TypeOK ==
  /\ now \in Now0 .. Horizon /\ used.faults <= MaxFaults
  /\ mode \in [Providers -> {"STARTING", "STREAMING"}]
  /\ \A p \in Providers : Len(queue[p]) <= MaxQueue
  /\ store \in [Providers -> [Bars -> {NoCandle} \cup
                 [closed : BOOLEAN, final : BOOLEAN, stored : {TRUE}]]]
  /\ Len(books) <= MaxBooks /\ swept <= now

\* A row that says closed has the values the exchange ended the bar with, whatever
\* the order of answers, events and polls: a bar that was being formed when the
\* exchange answered is not stored as closed because it has ended by the time the
\* answer is read.
ClosedIsFinal ==
  \A p \in Providers, b \in Bars : store[p][b].closed => store[p][b].final

\* A feature vector rests on final candles only, of both exchanges, and on nothing
\* later than its as_of, although the rows are read in several queries while late
\* events reopen closed candles.
VectorIsReal ==
  \A v \in vectors :
    /\ v.as_of <= now /\ v.reserve /\ v.as_of - 1 \notin Divergent
    /\ Cardinality(DOMAIN v.candles) >= MinCandles
    /\ \A b \in DOMAIN v.candles : b + 1 <= v.as_of /\ v.candles[b]
    /\ v.orderbook_at \in (v.as_of - BookWindow + 1) .. v.as_of

\* After a retention run that was not cut short no book is older than its cutoff by
\* more than what the collectors admit of late and early books, although only the row
\* with the smallest id is asked whether anything has expired.
ExpiredBounded ==
  sweep = NoSweep => \A i \in DOMAIN books : books[i] >= swept - BookAge - BookSkew

\* An update that is handled late reopens a candle only for as long as its bar's last
\* event may still be under way: after that a closed candle stays closed.
OldStaysClosed ==
  [][\A p \in Providers, b \in Bars :
       store[p][b].closed /\ now > b + CandleLag => store'[p][b].closed]_vars

\* TECHNICAL_SPECIFICATION.md:406, "until the data have passed the check of freshness
\* and continuity": the candles of a vector are consecutive bars.
VectorContiguous ==
  \A v \in vectors : DOMAIN v.candles = Min(DOMAIN v.candles) .. (v.as_of - 1)
=============================================================================
