-------------------------- MODULE Operations_proofs --------------------------
(***************************************************************************)
(* Proofs about JobScheduler, for any number of schedulers and jobs, any    *)
(* intervals, leases and delays, and any number of crashes, and, in the     *)
(* second part, about Readiness, for every maximum age and every probe      *)
(* timeout.  The two share no state.                                        *)
(***************************************************************************)
EXTENDS JobScheduler, Readiness, TLAPS

Claimed == {"RUNNING", "FAILED"}
Outcomes == {"SUCCEEDED", "FAILED"}

\* The types, and that nothing is claimed before it is due.
TypeInv ==
  /\ TypeOK
  /\ lease \in [Schedulers -> SUBSET Lease]
  /\ \A s \in Schedulers : \A l \in lease[s] : l.scheduled_for <= now
  /\ \A j \in Names : /\ state[j].last_scheduled_for <= now
                      /\ state[j].status \in Claimed => state[j].last_scheduled_for # -1

\* Each lease has a token of its own; the owner has what the store says of it, and
\* whoever is not the owner any more has let the lease expire.
LeaseInv ==
  /\ \A j \in Names : state[j].token <= tokens
  /\ \A s \in Schedulers : \A l \in lease[s] :
       /\ l.token \in 1 .. tokens
       /\ Owned(l) => /\ state[l.job].expires_at = l.expires_at
                      /\ state[l.job].last_scheduled_for = l.scheduled_for
       /\ ~Owned(l) => l.expires_at <= now
  /\ \A s, q \in Schedulers : \A l \in lease[s], m \in lease[q] : s # q => l.token # m.token
-----------------------------------------------------------------------------
\* The turns of a tick.
LEMMA Positions ==
  /\ DOMAIN Jobs = 1 .. Len(Jobs) /\ Len(Jobs) \in Nat \ {0}
  /\ \A i \in DOMAIN Jobs : Jobs[i] \in Names
  BY Definitions DEF Names

\* What a schedule is made of.
LEMMA Intervals ==
  ASSUME NEW j \in Names
  PROVE  /\ Definition[j].first \in Nat /\ Definition[j].interval \in Nat \ {0}
         /\ Definition[j].retry_delay \in Nat \ {0}
         /\ Definition[j].lease_duration \in Nat \ {0}
  BY Definitions

\* Whole intervals are ...
LEMMA Product ==
  ASSUME NEW n \in Nat \ {0}, NEW k \in Nat
  PROVE  n * (k + 1) \in Nat /\ n * (k + 1) > 0
  OBVIOUS

\* ... counted by \div ...
LEMMA Quotients ==
  ASSUME NEW n \in Nat \ {0}, NEW a \in Nat
  PROVE  a \div n \in Nat
  OBVIOUS

\* ... and left out by %.
LEMMA Multiple ==
  ASSUME NEW n \in Nat \ {0}, NEW k \in Nat
  PROVE  (n * k) % n = 0
  OBVIOUS

\* Adding whole intervals stays on schedule.
LEMMA AddMultiple ==
  ASSUME NEW n \in Nat \ {0}, NEW a \in Nat, NEW k \in Nat, a % n = 0
  PROVE  (a + n * k) % n = 0
<1> DEFINE q == a \div n
<1>1. q \in Nat
  BY Quotients
<1>2. a = n * q
  OBVIOUS
<1> HIDE DEF q
<1>3. a + n * k = n * (q + k) /\ q + k \in Nat
  BY <1>1, <1>2
<1>4. QED
  BY <1>3, Multiple

\* The next occurrence is later than the one that ends, by whole intervals.
LEMMA NextIsLater ==
  ASSUME NEW n \in Nat \ {0}, NEW t \in Nat, now \in Nat, t <= now,
         NEW next, next = NextOccurrence(t, n)
  PROVE  next \in Nat /\ next > t /\ \E k \in Nat : next = t + n * k
<1> DEFINE k == (now - t) \div n
<1>1. k \in Nat
  BY Quotients
<1>2. next = t + n * (k + 1)
  BY DEF NextOccurrence
<1> HIDE DEF k
<1>3. n * (k + 1) \in Nat /\ n * (k + 1) > 0
  BY <1>1, Product
<1>4. next \in Nat /\ next > t
  BY <1>2, <1>3
<1>5. QED
  BY <1>1, <1>2, <1>4
-----------------------------------------------------------------------------
\* The types hold at the start.
LEMMA InitType == Init => TypeInv
<1> SUFFICES ASSUME Init PROVE TypeInv
  OBVIOUS
<1>1. state \in [Names -> JobState]
  BY Intervals DEF Init, JobState
<1>2. turn \in [Schedulers -> DOMAIN Jobs]
  BY Positions DEF Init
<1>3. QED
  BY <1>1, <1>2, Bounds DEF Init, TypeInv, TypeOK, Claimed

\* The job of a turn.
LEMMA TurnJob == ASSUME TypeInv, NEW s \in Schedulers PROVE Jobs[turn[s]] \in Names
  BY Positions DEF TypeInv, TypeOK

\* The turn goes on to the next job.
LEMMA TurnType ==
  ASSUME TypeInv, NEW s \in Schedulers, NextTurn(s)
  PROVE  turn' \in [Schedulers -> DOMAIN Jobs]
  BY Positions DEF TypeInv, TypeOK, NextTurn

\* A claim is for an occurrence that is due.
LEMMA OccurrenceDue ==
  ASSUME TypeInv, NEW j \in Names, Claimable(j), NEW o, o = Occurrence(j)
  PROVE  o \in Nat /\ o <= now
<1>1. state[j] \in JobState /\ now \in Nat
  BY Bounds DEF TypeInv, TypeOK
<1>2. CASE state[j].status \in Claimed /\ state[j].last_scheduled_for # -1
  BY <1>1, <1>2 DEF Occurrence, Claimed, JobState, TypeInv
<1>3. CASE ~(state[j].status \in Claimed /\ state[j].last_scheduled_for # -1)
  BY <1>1, <1>3 DEF Occurrence, Claimed, JobState, Claimable
<1>4. QED
  BY <1>2, <1>3

\* The states after a handler has ended.
LEMMA EndedState ==
  ASSUME state \in [Names -> JobState], NEW j \in Names,
         NEW status \in {"SUCCEEDED", "FAILED"}, NEW next \in Nat,
         state' = [state EXCEPT ![j] = [@ EXCEPT !.status = status, !.token = 0,
                                                 !.expires_at = 0, !.next_run_at = next]]
  PROVE  /\ state' \in [Names -> JobState]
         /\ state'[j].status = status /\ state'[j].token = 0 /\ state'[j].next_run_at = next
         /\ state'[j].last_scheduled_for = state[j].last_scheduled_for
         /\ \A i \in Names \ {j} : state'[i] = state[i]
<1> DEFINE new == [state[j] EXCEPT !.status = status, !.token = 0,
                                   !.expires_at = 0, !.next_run_at = next]
<1>1. state[j] \in JobState
  OBVIOUS
<1>2. state'[j] = new
  OBVIOUS
<1>3. /\ new.status = status /\ new.token = 0 /\ new.next_run_at = next
      /\ new.last_scheduled_for = state[j].last_scheduled_for
  BY <1>1 DEF JobState
<1>4. new \in JobState
  BY <1>1 DEF JobState
<1> HIDE DEF new
<1>5. state' = [state EXCEPT ![j] = new]
  BY DEF new
<1>6. QED
  BY <1>2, <1>3, <1>4, <1>5

\* Every step keeps the types.
LEMMA StepType == TypeInv /\ [Next]_vars => TypeInv'
<1> SUFFICES ASSUME TypeInv, [Next]_vars PROVE TypeInv'
  OBVIOUS
<1>0. now \in Nat
  BY Bounds DEF TypeInv, TypeOK
<1>1. CASE Pass
  <2>1. now' = now + 1 /\ now' \in 0 .. MaxTime
    BY <1>1, Bounds DEF Pass, TypeInv, TypeOK
  <2>2. \A s \in Schedulers : \A l \in lease[s] : l.scheduled_for <= now'
    BY <1>0, <2>1 DEF TypeInv, TypeOK, Lease
  <2>3. \A j \in Names : state[j].last_scheduled_for <= now'
    BY <1>0, <2>1 DEF TypeInv, TypeOK, JobState
  <2>4. QED
    BY <1>1, <2>1, <2>2, <2>3 DEF Pass, TypeInv, TypeOK
<1>2. CASE Crash
  <2>1. turn' \in [Schedulers -> DOMAIN Jobs]
    BY <1>2, Positions DEF Crash
  <2>2. crashes' \in 0 .. MaxCrashes
    BY <1>2, Bounds DEF Crash, TypeInv, TypeOK
  <2>3. QED
    BY <1>2, <2>1, <2>2 DEF Crash, TypeInv, TypeOK
<1>3. ASSUME NEW s \in Schedulers, Tick(s) PROVE TypeInv'
  <2> USE <1>3
  <2>1. CASE Claim(s)
    <3> DEFINE j == Jobs[turn[s]]
               held == [job |-> j, token |-> tokens + 1, scheduled_for |-> Occurrence(j),
                        expires_at |-> now + Definition[j].lease_duration]
    <3>1. j \in Names
      BY TurnJob
    <3>2. Occurrence(j) \in Nat /\ Occurrence(j) <= now
      BY <2>1, <3>1, OccurrenceDue DEF Claim
    <3>3. now + Definition[j].lease_duration \in Nat /\ tokens + 1 \in Nat
      BY <1>0, <3>1, Intervals DEF TypeInv, TypeOK
    <3>4. held \in Lease
      BY <3>1, <3>2, <3>3 DEF Lease
    <3>5. held.scheduled_for = Occurrence(j) /\ held.token = tokens + 1
          /\ held.expires_at = now + Definition[j].lease_duration
      OBVIOUS
    <3>6. /\ tokens' = tokens + 1 /\ lease' = [lease EXCEPT ![s] = {held}]
          /\ state' = [state EXCEPT ![j] =
                         [@ EXCEPT !.status = "RUNNING", !.last_scheduled_for = Occurrence(j),
                                   !.token = tokens + 1, !.expires_at = held.expires_at]]
          /\ UNCHANGED <<now, turn, completed, crashes>>
      BY <2>1 DEF Claim
    <3> HIDE DEF j, held
    <3>7. [state[j] EXCEPT !.status = "RUNNING", !.last_scheduled_for = Occurrence(j),
                           !.token = tokens + 1, !.expires_at = held.expires_at] \in JobState
      <4>1. ASSUME NEW old \in JobState, NEW at \in Nat, NEW token \in Nat, NEW until \in Nat
            PROVE  [old EXCEPT !.status = "RUNNING", !.last_scheduled_for = at,
                               !.token = token, !.expires_at = until] \in JobState
        BY DEF JobState
      <4>2. state[j] \in JobState
        BY <3>1 DEF TypeInv, TypeOK
      <4>3. QED
        BY <3>2, <3>3, <3>5, <4>1, <4>2
    <3>8. state' \in [Names -> JobState]
      BY <3>6, <3>7 DEF TypeInv, TypeOK
    <3>9. \A i \in Names : /\ state'[i].last_scheduled_for <= now
                           /\ state'[i].status \in Claimed => state'[i].last_scheduled_for # -1
      BY <3>1, <3>2, <3>6 DEF TypeInv, TypeOK, JobState
    <3>10. \A q \in Schedulers : lease'[q] = IF q = s THEN {held} ELSE lease[q]
      BY <3>6 DEF TypeInv, TypeOK
    <3>11. QED
      BY <3>2, <3>3, <3>4, <3>5, <3>6, <3>8, <3>9, <3>10 DEF TypeInv, TypeOK
  <2>2. CASE Skip(s)
    BY <2>2, TurnType DEF Skip, TypeInv, TypeOK
  <2>3. CASE Succeed(s)
    <3>1. PICK l \in lease[s] :
            /\ Owned(l)
            /\ state' = [state EXCEPT ![l.job] =
                 [@ EXCEPT !.status = "SUCCEEDED", !.token = 0, !.expires_at = 0,
                           !.next_run_at = NextOccurrence(l.scheduled_for,
                                                          Definition[l.job].interval)]]
            /\ completed' = [completed EXCEPT ![l.job] = Append(@, l.scheduled_for)]
            /\ Release(s)
            /\ UNCHANGED <<now, tokens, crashes>>
      BY <2>3 DEF Succeed
    <3> DEFINE j == l.job
               t == l.scheduled_for
               next == NextOccurrence(t, Definition[j].interval)
    <3>2. j \in Names /\ t \in Nat /\ t <= now
      BY DEF TypeInv, TypeOK, Lease
    <3>3. next \in Nat
      BY <1>0, <3>2, Intervals, NextIsLater
    <3> HIDE DEF j, t, next
    <3>4. state' = [state EXCEPT ![j] =
            [@ EXCEPT !.status = "SUCCEEDED", !.token = 0, !.expires_at = 0,
                      !.next_run_at = next]]
      BY <3>1 DEF j, t, next
    <3>5. /\ state' \in [Names -> JobState] /\ state'[j].status = "SUCCEEDED"
          /\ state'[j].last_scheduled_for = state[j].last_scheduled_for
          /\ \A i \in Names \ {j} : state'[i] = state[i]
      BY <3>2, <3>3, <3>4, EndedState DEF TypeInv, TypeOK
    <3>6. \A i \in Names : /\ state'[i].last_scheduled_for <= now
                           /\ state'[i].status \in Claimed => state'[i].last_scheduled_for # -1
      BY <3>2, <3>5 DEF TypeInv, Claimed
    <3>7. completed' \in [Names -> Seq(Nat)]
      BY <3>1, <3>2 DEF TypeInv, TypeOK, j, t
    <3>8. turn' \in [Schedulers -> DOMAIN Jobs]
      BY <3>1, TurnType DEF Release
    <3>9. lease' = [lease EXCEPT ![s] = {}]
      BY <3>1 DEF Release
    <3>10. QED
      BY <3>1, <3>5, <3>6, <3>7, <3>8, <3>9 DEF TypeInv, TypeOK
  <2>4. CASE Fail(s)
    <3>1. PICK l \in lease[s] :
            /\ Owned(l)
            /\ state' = [state EXCEPT ![l.job] =
                 [@ EXCEPT !.status = "FAILED", !.token = 0, !.expires_at = 0,
                           !.next_run_at = now + Definition[l.job].retry_delay]]
            /\ Release(s)
            /\ UNCHANGED <<now, tokens, completed, crashes>>
      BY <2>4 DEF Fail
    <3> DEFINE j == l.job
               next == now + Definition[j].retry_delay
    <3>2. j \in Names /\ next \in Nat
      BY <1>0, Intervals DEF TypeInv, TypeOK, Lease
    <3> HIDE DEF j, next
    <3>3. state' = [state EXCEPT ![j] =
            [@ EXCEPT !.status = "FAILED", !.token = 0, !.expires_at = 0, !.next_run_at = next]]
      BY <3>1 DEF j, next
    <3>4. state[j].status = "RUNNING"
      BY <3>1 DEF Owned, j
    <3>5. /\ state' \in [Names -> JobState] /\ state'[j].status = "FAILED"
          /\ state'[j].last_scheduled_for = state[j].last_scheduled_for
          /\ \A i \in Names \ {j} : state'[i] = state[i]
      BY <3>2, <3>3, EndedState DEF TypeInv, TypeOK
    <3>6. \A i \in Names : /\ state'[i].last_scheduled_for <= now
                           /\ state'[i].status \in Claimed => state'[i].last_scheduled_for # -1
      BY <3>2, <3>5, <3>4 DEF TypeInv, Claimed
    <3>7. turn' \in [Schedulers -> DOMAIN Jobs]
      BY <3>1, TurnType DEF Release
    <3>8. lease' = [lease EXCEPT ![s] = {}]
      BY <3>1 DEF Release
    <3>9. QED
      BY <3>1, <3>5, <3>6, <3>7, <3>8 DEF TypeInv, TypeOK
  <2>5. CASE LoseLease(s)
    <3>1. turn' \in [Schedulers -> DOMAIN Jobs]
      BY <2>5, Positions DEF LoseLease, TypeInv, TypeOK
    <3>2. QED
      BY <2>5, <3>1 DEF LoseLease, TypeInv, TypeOK
  <2>6. QED
    BY <2>1, <2>2, <2>3, <2>4, <2>5 DEF Tick
<1>4. CASE UNCHANGED vars
  BY <1>4 DEF vars, TypeInv, TypeOK
<1>5. QED
  BY <1>1, <1>2, <1>3, <1>4 DEF Next

\* Every reachable state is well typed, and no occurrence was claimed before its time:
\* neither the one a lease is for nor the last one the store knows lies in the future.
THEOREM SchedulerTypes ==
  Spec => [](/\ TypeOK
             /\ \A s \in Schedulers : \A l \in lease[s] : l.scheduled_for <= now
             /\ \A j \in Names : state[j].last_scheduled_for <= now)
<1>1. TypeInv => /\ TypeOK
                 /\ \A s \in Schedulers : \A l \in lease[s] : l.scheduled_for <= now
                 /\ \A j \in Names : state[j].last_scheduled_for <= now
  BY DEF TypeInv
<1>2. QED
  BY <1>1, InitType, StepType, PTL DEF Spec
-----------------------------------------------------------------------------
\* What a claim does, with the lease it gives.
LEMMA ClaimStep ==
  ASSUME TypeInv, NEW s \in Schedulers, Claim(s), NEW j, j = Jobs[turn[s]],
         NEW o, o = Occurrence(j)
  PROVE  /\ j \in Names /\ o \in Nat /\ o <= now /\ Claimable(j)
         /\ tokens' = tokens + 1 /\ UNCHANGED <<now, completed>>
         /\ state'[j].status = "RUNNING" /\ state'[j].last_scheduled_for = o
         /\ state'[j].token = tokens + 1
         /\ \A i \in Names \ {j} : state'[i] = state[i]
         /\ \E held \in Lease :
              /\ held.job = j /\ held.token = tokens + 1 /\ held.scheduled_for = o
              /\ state'[j].expires_at = held.expires_at
              /\ lease' = [lease EXCEPT ![s] = {held}]
<1> DEFINE held == [job |-> j, token |-> tokens + 1, scheduled_for |-> o,
                    expires_at |-> now + Definition[j].lease_duration]
<1>1. j \in Names /\ Claimable(j)
  BY TurnJob DEF Claim
<1>2. o \in Nat /\ o <= now
  BY <1>1, OccurrenceDue
<1>3. now + Definition[j].lease_duration \in Nat /\ tokens + 1 \in Nat
  BY <1>1, Intervals, Bounds DEF TypeInv, TypeOK
<1>4. held \in Lease
  BY <1>1, <1>2, <1>3 DEF Lease
<1>5. held.job = j /\ held.token = tokens + 1 /\ held.scheduled_for = o
  OBVIOUS
<1>6. /\ tokens' = tokens + 1 /\ lease' = [lease EXCEPT ![s] = {held}]
      /\ state' = [state EXCEPT ![j] =
                     [@ EXCEPT !.status = "RUNNING", !.last_scheduled_for = o,
                               !.token = tokens + 1, !.expires_at = held.expires_at]]
      /\ UNCHANGED <<now, completed>>
  BY DEF Claim
<1> HIDE DEF held
<1>7. state \in [Names -> JobState]
  BY DEF TypeInv, TypeOK
<1>8. state'[j] = [state[j] EXCEPT !.status = "RUNNING", !.last_scheduled_for = o,
                                   !.token = tokens + 1, !.expires_at = held.expires_at]
  BY <1>1, <1>6, <1>7
<1>9. /\ state'[j].status = "RUNNING" /\ state'[j].last_scheduled_for = o
      /\ state'[j].token = tokens + 1 /\ state'[j].expires_at = held.expires_at
  BY <1>1, <1>7, <1>8 DEF JobState
<1>10. \A i \in Names \ {j} : state'[i] = state[i]
  BY <1>1, <1>6, <1>7
<1>11. QED
  BY <1>1, <1>2, <1>4, <1>5, <1>6, <1>9, <1>10

\* What the end of a handler that still owns its lease does.
Ends(s, l, status, next) ==
  /\ l \in lease[s] /\ Owned(l)
  /\ next \in Nat
  /\ \/ /\ status = "SUCCEEDED"
        /\ next = NextOccurrence(l.scheduled_for, Definition[l.job].interval)
        /\ completed' = [completed EXCEPT ![l.job] = Append(@, l.scheduled_for)]
     \/ status = "FAILED" /\ completed' = completed
  /\ state'[l.job].status = status /\ state'[l.job].next_run_at = next
  /\ state'[l.job].token = 0
  /\ state'[l.job].last_scheduled_for = state[l.job].last_scheduled_for
  /\ \A i \in Names \ {l.job} : state'[i] = state[i]
  /\ lease' = [lease EXCEPT ![s] = {}]
  /\ UNCHANGED <<now, tokens>>

\* A handler that ends under its own lease.
LEMMA EndStep ==
  ASSUME TypeInv, NEW s \in Schedulers, Succeed(s) \/ Fail(s)
  PROVE  \E l \in Lease, status \in Outcomes, next \in Nat : Ends(s, l, status, next)
<1>1. state \in [Names -> JobState] /\ now \in Nat /\ \A l \in lease[s] : l \in Lease
  BY Bounds DEF TypeInv, TypeOK
<1>2. CASE Succeed(s)
  <2>1. PICK l \in lease[s] :
          /\ Owned(l)
          /\ state' = [state EXCEPT ![l.job] =
               [@ EXCEPT !.status = "SUCCEEDED", !.token = 0, !.expires_at = 0,
                         !.next_run_at = NextOccurrence(l.scheduled_for,
                                                        Definition[l.job].interval)]]
          /\ completed' = [completed EXCEPT ![l.job] = Append(@, l.scheduled_for)]
          /\ Release(s)
          /\ UNCHANGED <<now, tokens, crashes>>
    BY <1>2 DEF Succeed
  <2> DEFINE j == l.job
             t == l.scheduled_for
             next == NextOccurrence(t, Definition[j].interval)
  <2>2. j \in Names /\ t \in Nat /\ t <= now /\ l \in Lease
    BY <1>1 DEF TypeInv, Lease
  <2>3. next \in Nat
    BY <1>1, <2>2, Intervals, NextIsLater
  <2> HIDE DEF j, t, next
  <2>4. state' = [state EXCEPT ![j] =
          [@ EXCEPT !.status = "SUCCEEDED", !.token = 0, !.expires_at = 0,
                    !.next_run_at = next]]
    BY <2>1 DEF j, t, next
  <2>5. /\ state'[j].status = "SUCCEEDED" /\ state'[j].token = 0
        /\ state'[j].next_run_at = next
        /\ state'[j].last_scheduled_for = state[j].last_scheduled_for
        /\ \A i \in Names \ {j} : state'[i] = state[i]
    BY <1>1, <2>2, <2>3, <2>4, EndedState
  <2>6. Ends(s, l, "SUCCEEDED", next)
    BY <2>1, <2>3, <2>5 DEF Ends, Release, j, t, next
  <2>7. QED
    BY <2>2, <2>3, <2>6 DEF Outcomes
<1>3. CASE Fail(s)
  <2>1. PICK l \in lease[s] :
          /\ Owned(l)
          /\ state' = [state EXCEPT ![l.job] =
               [@ EXCEPT !.status = "FAILED", !.token = 0, !.expires_at = 0,
                         !.next_run_at = now + Definition[l.job].retry_delay]]
          /\ Release(s)
          /\ UNCHANGED <<now, tokens, completed, crashes>>
    BY <1>3 DEF Fail
  <2> DEFINE j == l.job
             next == now + Definition[j].retry_delay
  <2>2. j \in Names /\ next \in Nat /\ l \in Lease
    BY <1>1, Intervals DEF Lease
  <2> HIDE DEF j, next
  <2>3. state' = [state EXCEPT ![j] =
          [@ EXCEPT !.status = "FAILED", !.token = 0, !.expires_at = 0, !.next_run_at = next]]
    BY <2>1 DEF j, next
  <2>4. /\ state'[j].status = "FAILED" /\ state'[j].token = 0
        /\ state'[j].next_run_at = next
        /\ state'[j].last_scheduled_for = state[j].last_scheduled_for
        /\ \A i \in Names \ {j} : state'[i] = state[i]
    BY <1>1, <2>2, <2>3, EndedState
  <2>5. Ends(s, l, "FAILED", next)
    BY <2>1, <2>2, <2>4 DEF Ends, Release, j
  <2>6. QED
    BY <2>2, <2>5 DEF Outcomes
<1>4. QED
  BY <1>2, <1>3
-----------------------------------------------------------------------------
(* The leases *)

\* A claim gives a fresh token, and only what has expired is taken over.
LEMMA LeaseClaimed ==
  ASSUME TypeInv, LeaseInv, NEW s \in Schedulers, Claim(s) PROVE LeaseInv'
<1> DEFINE j == Jobs[turn[s]]
           o == Occurrence(j)
<1>1. /\ j \in Names /\ Claimable(j)
      /\ tokens' = tokens + 1 /\ now' = now /\ tokens \in Nat /\ now \in Nat
      /\ state'[j].status = "RUNNING" /\ state'[j].last_scheduled_for = o
      /\ state'[j].token = tokens + 1
      /\ \A i \in Names \ {j} : state'[i] = state[i]
  BY ClaimStep, Bounds DEF TypeInv, TypeOK
<1>2. PICK held \in Lease :
        /\ held.job = j /\ held.token = tokens + 1 /\ held.scheduled_for = o
        /\ state'[j].expires_at = held.expires_at
        /\ lease' = [lease EXCEPT ![s] = {held}]
  BY ClaimStep
<1> HIDE DEF j, o
<1>3. lease'[s] = {held} /\ \A q \in Schedulers \ {s} : lease'[q] = lease[q]
  BY <1>2 DEF TypeInv
<1>4. ASSUME NEW i \in Names PROVE state'[i].token <= tokens'
  <2>1. state[i].token \in Nat /\ state[i].token <= tokens
    BY DEF TypeInv, TypeOK, JobState, LeaseInv
  <2>2. QED
    BY <1>1, <2>1
<1>5. ASSUME NEW q \in Schedulers, NEW l \in lease'[q]
      PROVE  /\ l.token \in 1 .. tokens'
             /\ Owned(l)' => /\ state'[l.job].expires_at = l.expires_at
                             /\ state'[l.job].last_scheduled_for = l.scheduled_for
             /\ ~Owned(l)' => l.expires_at <= now'
  <2>1. CASE q = s
    BY <1>1, <1>2, <1>3, <2>1 DEF Owned
  <2>2. CASE q # s
    <3>1. l \in lease[q] /\ l \in Lease /\ l.token \in 1 .. tokens
      BY <1>3, <2>2 DEF TypeInv, TypeOK, LeaseInv
    <3>2. CASE l.job = j
      <4>1. ~Owned(l)'
        BY <1>1, <3>1, <3>2 DEF Owned
      <4>2. l.expires_at <= now
        <5>1. CASE Owned(l)
          <6>1. state[j].expires_at = l.expires_at /\ state[j].status = "RUNNING"
            BY <3>1, <3>2, <5>1 DEF LeaseInv, Owned
          <6>2. ~(state[j].expires_at > now)
            BY <1>1, <6>1 DEF Claimable, LeaseActive
          <6>3. QED
            BY <1>1, <3>1, <6>1, <6>2 DEF Lease
        <5>2. CASE ~Owned(l)
          BY <3>1, <5>2 DEF LeaseInv
        <5>3. QED
          BY <5>1, <5>2
      <4>3. QED
        BY <1>1, <3>1, <4>1, <4>2
    <3>3. CASE l.job # j
      <4>1. l.job \in Names /\ state'[l.job] = state[l.job] /\ (Owned(l)' <=> Owned(l))
        BY <1>1, <3>1, <3>3 DEF Lease, Owned
      <4>2. QED
        BY <1>1, <3>1, <4>1 DEF LeaseInv
    <3>4. QED
      BY <3>2, <3>3
  <2>3. QED
    BY <2>1, <2>2
<1>6. ASSUME NEW q \in Schedulers, NEW r \in Schedulers, q # r,
             NEW l \in lease'[q], NEW m \in lease'[r]
      PROVE  l.token # m.token
  <2>1. \A p \in Schedulers \ {s} : \A k \in lease'[p] : k \in lease[p] /\ k.token \in 1 .. tokens
    BY <1>3 DEF LeaseInv
  <2>2. \A k \in lease'[s] : k.token = tokens + 1
    BY <1>2, <1>3
  <2>3. QED
    BY <1>1, <1>6, <2>1, <2>2 DEF LeaseInv
<1>7. QED
  BY <1>4, <1>5, <1>6 DEF LeaseInv

\* The end of a handler concerns no other lease that is still owned.
LEMMA LeaseEnded ==
  ASSUME TypeInv, LeaseInv, NEW s \in Schedulers, Succeed(s) \/ Fail(s) PROVE LeaseInv'
<1>1. PICK l \in Lease, status \in Outcomes, next \in Nat : Ends(s, l, status, next)
  BY EndStep
<1>2. /\ l \in lease[s] /\ Owned(l) /\ l.job \in Names
      /\ state'[l.job].status # "RUNNING" /\ state'[l.job].token = 0
      /\ \A i \in Names \ {l.job} : state'[i] = state[i]
      /\ UNCHANGED <<now, tokens>> /\ tokens \in Nat
  BY <1>1 DEF Ends, Lease, TypeInv, TypeOK
<1>3. lease'[s] = {} /\ \A q \in Schedulers \ {s} : lease'[q] = lease[q]
  BY <1>1 DEF Ends, TypeInv
<1>4. \A i \in Names : state'[i].token <= tokens'
  BY <1>2 DEF LeaseInv
<1>5. ASSUME NEW q \in Schedulers, NEW m \in lease'[q]
      PROVE  /\ m.token \in 1 .. tokens'
             /\ Owned(m)' => /\ state'[m.job].expires_at = m.expires_at
                             /\ state'[m.job].last_scheduled_for = m.scheduled_for
             /\ ~Owned(m)' => m.expires_at <= now'
  <2>1. q # s /\ m \in lease[q] /\ m.job \in Names
    BY <1>3 DEF TypeInv, TypeOK, Lease
  <2>2. CASE m.job = l.job
    <3>1. m.token # l.token
      BY <1>2, <2>1 DEF LeaseInv
    <3>2. ~Owned(m) /\ ~Owned(m)'
      BY <1>2, <2>2, <3>1 DEF Owned
    <3>3. QED
      BY <1>2, <2>1, <3>2 DEF LeaseInv
  <2>3. CASE m.job # l.job
    <3>1. state'[m.job] = state[m.job] /\ (Owned(m)' <=> Owned(m))
      BY <1>2, <2>1, <2>3 DEF Owned
    <3>2. QED
      BY <1>2, <2>1, <3>1 DEF LeaseInv
  <2>4. QED
    BY <2>2, <2>3
<1>6. \A q, r \in Schedulers : \A k \in lease'[q], m \in lease'[r] : q # r => k.token # m.token
  BY <1>3 DEF LeaseInv
<1>7. QED
  BY <1>4, <1>5, <1>6 DEF LeaseInv

\* Every step keeps the leases apart.
LEMMA LeaseStep == TypeInv /\ LeaseInv /\ [Next]_vars => LeaseInv'
<1> SUFFICES ASSUME TypeInv, LeaseInv, [Next]_vars PROVE LeaseInv'
  OBVIOUS
<1>1. CASE Pass
  <2>1. now \in Nat /\ now' = now + 1 /\ UNCHANGED <<state, lease, tokens>>
    BY <1>1, Bounds DEF Pass, TypeInv, TypeOK
  <2>2. \A s \in Schedulers : \A l \in lease[s] : ~Owned(l)' => l.expires_at <= now'
    BY <2>1 DEF LeaseInv, Owned, TypeInv, TypeOK, Lease
  <2>3. QED
    BY <2>1, <2>2 DEF LeaseInv, Owned
<1>2. CASE Crash
  BY <1>2 DEF Crash, LeaseInv
<1>3. ASSUME NEW s \in Schedulers, Tick(s) PROVE LeaseInv'
  <2>1. CASE Claim(s)
    BY <2>1, LeaseClaimed
  <2>2. CASE Skip(s)
    BY <2>2 DEF Skip, LeaseInv, Owned
  <2>3. CASE Succeed(s) \/ Fail(s)
    BY <2>3, LeaseEnded
  <2>4. CASE LoseLease(s)
    <3>1. lease'[s] = {} /\ \A q \in Schedulers \ {s} : lease'[q] = lease[q]
      BY <2>4 DEF LoseLease, TypeInv
    <3>2. UNCHANGED <<now, state, tokens>>
      BY <2>4 DEF LoseLease
    <3>3. QED
      BY <3>1, <3>2 DEF LeaseInv, Owned
  <2>5. QED
    BY <1>3, <2>1, <2>2, <2>3, <2>4 DEF Tick
<1>4. CASE UNCHANGED vars
  BY <1>4 DEF vars, LeaseInv, Owned
<1>5. QED
  BY <1>1, <1>2, <1>3, <1>4 DEF Next

\* At the start there are no leases.
LEMMA InitLeases == Init => LeaseInv
  BY DEF Init, LeaseInv

\* Leases have tokens of their own, and who has lost one has let it expire.
THEOREM LeaseInvariant == Spec => [](TypeInv /\ LeaseInv)
<1>1. Init => TypeInv /\ LeaseInv
  BY InitType, InitLeases
<1>2. TypeInv /\ LeaseInv /\ [Next]_vars => (TypeInv /\ LeaseInv)'
  BY StepType, LeaseStep
<1>3. QED
  BY <1>1, <1>2, PTL DEF Spec

\* Two handlers of one job run together only when a lease has expired.
THEOREM OneHandler == Spec => []OneHandlerPerLease
<1>1. TypeInv /\ LeaseInv => OneHandlerPerLease
  <2> SUFFICES ASSUME TypeInv, LeaseInv, NEW s \in Schedulers, NEW q \in Schedulers,
                      NEW l \in lease[s], NEW m \in lease[q], s # q, l.job = m.job
               PROVE  l.expires_at <= now \/ m.expires_at <= now
    BY DEF OneHandlerPerLease
  <2>1. ~Owned(l) \/ ~Owned(m)
    BY DEF LeaseInv, Owned
  <2>2. QED
    BY <2>1 DEF LeaseInv
<1>2. QED
  BY <1>1, LeaseInvariant, PTL

\* Neither a failure nor a crash puts another occurrence in the place of a claimed one.
THEOREM RepeatedUntilSucceeded == Spec => ClaimedUntilSucceeded
<1> DEFINE Kept == \A j \in Names : state[j].status \in {"RUNNING", "FAILED"} =>
                     state'[j].last_scheduled_for = state[j].last_scheduled_for
<1>1. TypeInv /\ [Next]_vars => [Kept]_vars
  <2> SUFFICES ASSUME TypeInv, Next PROVE Kept
    OBVIOUS
  <2>1. CASE Pass \/ Crash
    BY <2>1 DEF Pass, Crash
  <2>2. ASSUME NEW s \in Schedulers, Tick(s) PROVE Kept
    <3>1. CASE Claim(s)
      <4>1. PICK j \in Names : /\ state'[j].last_scheduled_for = Occurrence(j)
                               /\ \A i \in Names \ {j} : state'[i] = state[i]
        BY <3>1, ClaimStep
      <4>2. state[j].status \in Claimed => Occurrence(j) = state[j].last_scheduled_for
        BY DEF TypeInv, Occurrence, Claimed
      <4>3. QED
        BY <4>1, <4>2 DEF Claimed
    <3>2. CASE Skip(s) \/ LoseLease(s)
      BY <3>2 DEF Skip, LoseLease
    <3>3. CASE Succeed(s) \/ Fail(s)
      <4>1. PICK l \in Lease, status \in Outcomes, next \in Nat : Ends(s, l, status, next)
        BY <3>3, EndStep
      <4>2. QED
        BY <4>1 DEF Ends
    <3>4. QED
      BY <2>2, <3>1, <3>2, <3>3 DEF Tick
  <2>3. QED
    BY <2>1, <2>2 DEF Next
<1>2. QED
  BY <1>1, InitType, StepType, PTL DEF Spec, ClaimedUntilSucceeded
-----------------------------------------------------------------------------
(* The occurrences *)

\* The occurrence that will be completed next.
Coming(j) ==
  IF state[j].status \in Claimed THEN state[j].last_scheduled_for ELSE state[j].next_run_at

\* What has succeeded lies in order before what is coming.
DoneInv ==
  \A j \in Names : \A i \in DOMAIN completed[j] :
    /\ completed[j][i] < Coming(j)
    /\ \A k \in DOMAIN completed[j] : i < k => completed[j][i] < completed[j][k]

\* What is coming is on schedule.
Planned ==
  \A j \in Names :
    LET on(t) == t >= Definition[j].first
                   /\ (t - Definition[j].first) % Definition[j].interval = 0
    IN  /\ state[j].last_scheduled_for # -1 => on(state[j].last_scheduled_for)
        /\ state[j].status \notin Claimed => on(state[j].next_run_at)

\* A claim is for the occurrence that is coming.
LEMMA ClaimComing ==
  ASSUME TypeInv, NEW s \in Schedulers, Claim(s)
  PROVE  \E j \in Names :
           /\ Occurrence(j) = Coming(j) /\ Coming(j)' = Coming(j)
           /\ state'[j].status = "RUNNING" /\ state'[j].last_scheduled_for = Coming(j)
           /\ \A i \in Names \ {j} : state'[i] = state[i]
           /\ completed' = completed
<1>1. PICK j \in Names :
        /\ completed' = completed
        /\ state'[j].status = "RUNNING" /\ state'[j].last_scheduled_for = Occurrence(j)
        /\ \A i \in Names \ {j} : state'[i] = state[i]
  BY ClaimStep
<1>2. Occurrence(j) = Coming(j)
  BY DEF TypeInv, Occurrence, Coming, Claimed
<1>3. Coming(j)' = Coming(j)
  BY <1>1, <1>2 DEF Coming, Claimed
<1>4. QED
  BY <1>1, <1>2, <1>3

\* The end of a handler: its occurrence was the coming one, and is now done, or is
\* coming again.
LEMMA EndComing ==
  ASSUME TypeInv, LeaseInv, NEW s \in Schedulers, NEW l \in Lease, NEW status, NEW next,
         Ends(s, l, status, next)
  PROVE  /\ l.job \in Names /\ l.scheduled_for = Coming(l.job)
         /\ l.scheduled_for = state[l.job].last_scheduled_for
         /\ l.scheduled_for \in Nat /\ l.scheduled_for # -1
         /\ status = "FAILED" => Coming(l.job)' = Coming(l.job)
         /\ status = "SUCCEEDED" => /\ Coming(l.job)' = next /\ next > l.scheduled_for
                                    /\ \E k \in Nat : next = l.scheduled_for
                                                        + Definition[l.job].interval * k
<1>1. /\ l \in lease[s] /\ Owned(l) /\ l.job \in Names
      /\ l.scheduled_for \in Nat /\ l.scheduled_for <= now /\ now \in Nat
  BY Bounds DEF Ends, Lease, TypeInv, TypeOK
<1>2. l.scheduled_for = state[l.job].last_scheduled_for
  BY <1>1 DEF LeaseInv
<1>3. l.scheduled_for = Coming(l.job)
  BY <1>1, <1>2 DEF Owned, Coming, Claimed
<1>0. /\ state'[l.job].status = status /\ state'[l.job].next_run_at = next
      /\ state'[l.job].last_scheduled_for = state[l.job].last_scheduled_for
  BY DEF Ends
<1>4. status = "FAILED" => Coming(l.job)' = Coming(l.job)
  BY <1>0, <1>2, <1>3 DEF Coming, Claimed
<1>5. status = "SUCCEEDED" => Coming(l.job)' = next
  BY <1>0 DEF Coming, Claimed
<1>6. ASSUME status = "SUCCEEDED"
      PROVE  next > l.scheduled_for
             /\ \E k \in Nat : next = l.scheduled_for + Definition[l.job].interval * k
  <2>1. next = NextOccurrence(l.scheduled_for, Definition[l.job].interval)
    BY <1>6 DEF Ends
  <2>2. QED
    BY <1>1, <2>1, Intervals, NextIsLater
<1>7. QED
  BY <1>1, <1>2, <1>3, <1>4, <1>5, <1>6

\* One occurrence more is done.
LEMMA DoneAppended ==
  ASSUME TypeInv, DoneInv, NEW j \in Names, NEW t \in Nat, t = Coming(j),
         completed' = [completed EXCEPT ![j] = Append(@, t)],
         Coming(j)' \in Nat, Coming(j)' > t,
         \A i \in Names \ {j} : state'[i] = state[i]
  PROVE  DoneInv'
<1>1. completed \in [Names -> Seq(Nat)]
  BY DEF TypeInv, TypeOK
<1>2. ASSUME NEW i \in Names \ {j} PROVE completed'[i] = completed[i] /\ Coming(i)' = Coming(i)
  BY <1>1 DEF Coming
<1>3. /\ completed[j] \in Seq(Nat) /\ completed'[j] = Append(completed[j], t)
      /\ Len(completed'[j]) = Len(completed[j]) + 1 /\ Len(completed[j]) \in Nat
      /\ DOMAIN completed'[j] = 1 .. Len(completed[j]) + 1
      /\ completed'[j][Len(completed[j]) + 1] = t
      /\ \A k \in 1 .. Len(completed[j]) : completed'[j][k] = completed[j][k]
      /\ \A k \in 1 .. Len(completed[j]) : completed[j][k] \in Nat
      /\ DOMAIN completed[j] = 1 .. Len(completed[j])
  BY <1>1
<1>4. \A k \in 1 .. Len(completed[j]) : completed[j][k] < t
  BY <1>3 DEF DoneInv
<1>5. ASSUME NEW i \in DOMAIN completed'[j]
      PROVE  /\ completed'[j][i] < Coming(j)'
             /\ \A k \in DOMAIN completed'[j] : i < k => completed'[j][i] < completed'[j][k]
  <2>1. CASE i = Len(completed[j]) + 1
    BY <1>3, <2>1
  <2>2. CASE i \in 1 .. Len(completed[j])
    <3>1. completed'[j][i] < Coming(j)'
      BY <1>3, <1>4, <2>2
    <3>2. ASSUME NEW k \in DOMAIN completed'[j], i < k PROVE completed'[j][i] < completed'[j][k]
      <4>1. CASE k = Len(completed[j]) + 1
        BY <1>3, <1>4, <2>2, <4>1
      <4>2. CASE k \in 1 .. Len(completed[j])
        BY <1>3, <2>2, <3>2, <4>2 DEF DoneInv
      <4>3. QED
        BY <1>3, <4>1, <4>2
    <3>3. QED
      BY <3>1, <3>2
  <2>3. QED
    BY <1>3, <2>1, <2>2
<1>6. QED
  BY <1>2, <1>5 DEF DoneInv

\* Every step keeps what has succeeded in order before what is coming.
LEMMA DoneStep == TypeInv /\ LeaseInv /\ DoneInv /\ [Next]_vars => DoneInv'
<1> SUFFICES ASSUME TypeInv, LeaseInv, DoneInv, [Next]_vars PROVE DoneInv'
  OBVIOUS
<1>1. CASE UNCHANGED <<state, completed>>
  BY <1>1 DEF DoneInv, Coming
<1>2. CASE Pass \/ Crash \/ UNCHANGED vars
  BY <1>1, <1>2 DEF Pass, Crash, vars
<1>3. ASSUME NEW s \in Schedulers, Tick(s) PROVE DoneInv'
  <2>1. CASE Claim(s)
    <3>1. PICK j \in Names : /\ Coming(j)' = Coming(j) /\ completed' = completed
                             /\ \A i \in Names \ {j} : state'[i] = state[i]
      BY <2>1, ClaimComing
    <3>2. \A i \in Names : Coming(i)' = Coming(i)
      BY <3>1 DEF Coming
    <3>3. QED
      BY <3>1, <3>2 DEF DoneInv
  <2>2. CASE Skip(s) \/ LoseLease(s)
    BY <1>1, <2>2 DEF Skip, LoseLease
  <2>3. CASE Succeed(s) \/ Fail(s)
    <3>1. PICK l \in Lease, status \in Outcomes, next \in Nat : Ends(s, l, status, next)
      BY <2>3, EndStep
    <3>2. /\ l.job \in Names /\ l.scheduled_for = Coming(l.job) /\ l.scheduled_for \in Nat
          /\ status = "FAILED" => Coming(l.job)' = Coming(l.job)
          /\ status = "SUCCEEDED" => Coming(l.job)' = next /\ next > l.scheduled_for
      BY <3>1, EndComing
    <3>3. \A i \in Names \ {l.job} : state'[i] = state[i]
      BY <3>1 DEF Ends
    <3>4. CASE status = "FAILED"
      <4>1. completed' = completed
        BY <3>1, <3>4 DEF Ends
      <4>2. \A i \in Names : Coming(i)' = Coming(i)
        BY <3>2, <3>3, <3>4 DEF Coming
      <4>3. QED
        BY <4>1, <4>2 DEF DoneInv
    <3>5. CASE status = "SUCCEEDED"
      <4>1. completed' = [completed EXCEPT ![l.job] = Append(@, l.scheduled_for)]
            /\ next \in Nat
        BY <3>1, <3>5 DEF Ends
      <4>2. QED
        BY <3>2, <3>3, <3>5, <4>1, DoneAppended
    <3>6. QED
      BY <3>1, <3>4, <3>5 DEF Ends
  <2>4. QED
    BY <1>3, <2>1, <2>2, <2>3 DEF Tick
<1>4. QED
  BY <1>2, <1>3 DEF Next

\* Every step stays on schedule.
LEMMA PlannedStep == TypeInv /\ LeaseInv /\ Planned /\ [Next]_vars => Planned'
<1> SUFFICES ASSUME TypeInv, LeaseInv, Planned, [Next]_vars PROVE Planned'
  OBVIOUS
<1>1. CASE UNCHANGED state
  BY <1>1 DEF Planned
<1>2. CASE Pass \/ Crash \/ UNCHANGED vars
  BY <1>1, <1>2 DEF Pass, Crash, vars
<1>3. ASSUME NEW s \in Schedulers, Tick(s) PROVE Planned'
  <2>1. CASE Claim(s)
    <3>1. PICK j \in Names :
            /\ state'[j].status = "RUNNING" /\ state'[j].last_scheduled_for = Coming(j)
            /\ \A i \in Names \ {j} : state'[i] = state[i]
      BY <2>1, ClaimComing
    <3>2. /\ Coming(j) >= Definition[j].first
          /\ (Coming(j) - Definition[j].first) % Definition[j].interval = 0
      BY DEF TypeInv, Planned, Coming
    <3>3. QED
      BY <3>1, <3>2 DEF Planned, Claimed
  <2>2. CASE Skip(s) \/ LoseLease(s)
    BY <1>1, <2>2 DEF Skip, LoseLease
  <2>3. CASE Succeed(s) \/ Fail(s)
    <3>1. PICK l \in Lease, status \in Outcomes, next \in Nat : Ends(s, l, status, next)
      BY <2>3, EndStep
    <3> DEFINE j == l.job
               t == l.scheduled_for
               first == Definition[j].first
               n == Definition[j].interval
    <3>2. /\ j \in Names /\ t = state[j].last_scheduled_for /\ t \in Nat /\ t # -1
          /\ status = "SUCCEEDED" => \E k \in Nat : next = t + n * k
      BY <3>1, EndComing
    <3>3. /\ state'[j].status = status /\ state'[j].next_run_at = next
          /\ state'[j].last_scheduled_for = t /\ status \in {"SUCCEEDED", "FAILED"}
          /\ \A i \in Names \ {j} : state'[i] = state[i]
      BY <3>1, <3>2 DEF Ends
    <3>4. t >= first /\ (t - first) % n = 0 /\ first \in Nat /\ n \in Nat \ {0}
      BY <3>2, Intervals DEF Planned
    <3> HIDE DEF j, t, first, n
    <3>5. status = "SUCCEEDED" => next >= first /\ (next - first) % n = 0
      <4> SUFFICES ASSUME status = "SUCCEEDED" PROVE next >= first /\ (next - first) % n = 0
        OBVIOUS
      <4>1. PICK k \in Nat : next = t + n * k
        BY <3>2
      <4>2. n * k \in Nat
        BY <3>4
      <4>3. next >= first /\ next - first = (t - first) + n * k /\ t - first \in Nat
        BY <3>2, <3>4, <4>1, <4>2
      <4>4. \A a \in Nat : a % n = 0 => (a + n * k) % n = 0
        BY <3>4, AddMultiple
      <4>5. QED
        BY <3>4, <4>3, <4>4
    <3>6. QED
      BY <3>2, <3>3, <3>4, <3>5 DEF Planned, Claimed, first, n
  <2>4. QED
    BY <1>3, <2>1, <2>2, <2>3 DEF Tick
<1>4. QED
  BY <1>2, <1>3 DEF Next

\* Each occurrence succeeds at most once and in order, whoever handles it: what is
\* recorded lies before what is coming.
THEOREM EachOnce == Spec => []SucceedsOnce
<1>1. Init => DoneInv
  BY DEF Init, DoneInv
<1>2. TypeInv /\ LeaseInv /\ DoneInv /\ [Next]_vars => (TypeInv /\ LeaseInv /\ DoneInv)'
  BY StepType, LeaseStep, DoneStep
<1>3. DoneInv => SucceedsOnce
  BY DEF DoneInv, SucceedsOnce
<1>4. QED
  BY <1>1, <1>2, <1>3, InitType, InitLeases, PTL DEF Spec

\* A schedule never drifts, for any interval, delay and lease.
THEOREM NoDrift == Spec => []OnSchedule
<1>1. Init => Planned
  <2> SUFFICES ASSUME Init, NEW j \in Names
               PROVE  /\ state[j].last_scheduled_for = -1
                      /\ state[j].next_run_at >= Definition[j].first
                      /\ (state[j].next_run_at - Definition[j].first)
                           % Definition[j].interval = 0
    BY DEF Planned
  <2>1. state[j].last_scheduled_for = -1 /\ state[j].next_run_at = Definition[j].first
    BY DEF Init
  <2>2. Definition[j].first \in Nat /\ Definition[j].interval \in Nat \ {0}
    BY Intervals
  <2>3. Definition[j].first - Definition[j].first = 0 /\ Definition[j].first >= Definition[j].first
    BY <2>2
  <2>4. 0 % Definition[j].interval = 0
    BY <2>2
  <2>5. QED
    BY <2>1, <2>3, <2>4
<1>2. TypeInv /\ LeaseInv /\ Planned /\ [Next]_vars => (TypeInv /\ LeaseInv /\ Planned)'
  BY StepType, LeaseStep, PlannedStep
<1>3. TypeInv /\ Planned => OnSchedule
  BY DEF Planned, OnSchedule, Claimed, TypeInv, TypeOK, JobState
<1>4. QED
  BY <1>1, <1>2, <1>3, InitType, InitLeases, PTL DEF Spec
-----------------------------------------------------------------------------
(* Readiness *)

\* A check under way.
Checks == [age : 0 .. Timeout, results : [Component -> {"PENDING", "OK", "FAILED"}],
           later : SUBSET Heartbeating, beating : SUBSET Heartbeating]

\* The types of the readiness.
ReadinessTypeInv ==
  /\ database \in BOOLEAN /\ alive \subseteq Instance /\ snapshot \in BOOLEAN
  /\ age \in [Heartbeating -> 0 .. TooOld]
  /\ check = NoCheck \/ check \in Checks

\* What was found in order had a young enough heartbeat when the check began; where
\* there was none, a probe that has still to read will find that out: the row is older
\* than it may be by more than the check has lasted, or was written since.
RealInv ==
  check \in Checks =>
    \A c \in Heartbeating :
      \/ c \in check.beating
      \/ check.results[c] = "FAILED"
      \/ check.results[c] = "PENDING" /\ (c \in check.later \/ age[c] - check.age > MaxAge)

\* The smaller one of two numbers.
LEMMA MinOfTwo ==
  ASSUME NEW a \in Nat, NEW b \in Nat PROVE Min({a, b}) = IF a <= b THEN a ELSE b
<1> DEFINE m == IF a <= b THEN a ELSE b
<1>1. m \in {a, b} /\ \A y \in {a, b} : m <= y
  OBVIOUS
<1>2. \A x \in {a, b} : (\A y \in {a, b} : x <= y) => x = m
  OBVIOUS
<1>3. QED
  BY <1>1, <1>2 DEF Min

\* A check under way is told from none.
LEMMA CheckIsNone == \A k \in Checks : k # NoCheck
<1> SUFFICES ASSUME NEW k \in Checks PROVE k # NoCheck
  OBVIOUS
<1>1. DOMAIN k.results = Component /\ "BOT" \in Component
  BY DEF Checks, Component
<1>2. DOMAIN NoCheck.results = {}
  BY DEF NoCheck
<1>3. QED
  BY <1>1, <1>2

\* The component of a process is one that writes heartbeats.
LEMMA ComponentBeats == ASSUME NEW i \in Instance PROVE ComponentOf(i) \in Heartbeating
  BY DEF ComponentOf, Instance

\* Heartbeats are written for two of the components.
LEMMA HeartbeatingTwo == Heartbeating = {"MARKET", "BOT"}
  BY DEF Heartbeating, Instances

\* The age that is too old is a number beyond the maximum age.
LEMMA TooOldNumber ==
  /\ MaxAge \in Nat /\ Timeout \in Nat
  /\ TooOld \in Nat /\ TooOld = MaxAge + Timeout + 1
  BY ReadinessAssumption DEF TooOld

\* A second that passes takes nothing away from what the probes will find: a heartbeat
\* that is too old for the check becomes older with it.
LEMMA SecondStep ==
  ASSUME ReadinessTypeInv, RealInv, Second PROVE ReadinessTypeInv' /\ RealInv'
<1> USE TooOldNumber
<1>1. ASSUME NEW c \in Heartbeating
      PROVE  /\ age'[c] \in 0 .. TooOld
             /\ age'[c] = IF TooOld <= age[c] + 1 THEN TooOld ELSE age[c] + 1
  <2>1. age[c] \in 0 .. TooOld /\ age'[c] = Min({TooOld, age[c] + 1})
    BY DEF ReadinessTypeInv, Second
  <2>2. Min({TooOld, age[c] + 1}) = IF TooOld <= age[c] + 1 THEN TooOld ELSE age[c] + 1
    BY <2>1, MinOfTwo
  <2>3. QED
    BY <2>1, <2>2
<1>2. age' \in [Heartbeating -> 0 .. TooOld]
  BY <1>1 DEF Second
<1>3. CASE check = NoCheck
  <2>1. check' = NoCheck
    BY <1>3 DEF Second, Checking
  <2>2. QED
    BY <1>2, <2>1, CheckIsNone DEF ReadinessTypeInv, RealInv, Second
<1>4. CASE check \in Checks
  <2> DEFINE t == check.age
             m == Min({Timeout, t + 1})
  <2>1. check' = [check EXCEPT !.age = m] /\ t \in 0 .. Timeout
    BY <1>4, CheckIsNone DEF Second, Checking, Checks
  <2>2. m = IF Timeout <= t + 1 THEN Timeout ELSE t + 1
    BY <2>1, MinOfTwo
  <2>3. /\ check' \in Checks /\ check'.results = check.results
        /\ check'.later = check.later /\ check'.beating = check.beating
        /\ t < Timeout => check'.age = t + 1
    <3>1. m \in 0 .. Timeout /\ (t < Timeout => m = t + 1)
      BY <2>1, <2>2
    <3> HIDE DEF m
    <3>2. QED
      BY <1>4, <2>1, <3>1 DEF Checks
  <2>4. t = Timeout => \A c \in Heartbeating : check.results[c] # "PENDING"
    BY <1>4, CheckIsNone, HeartbeatingTwo DEF Second, Checking, Pending, Component
  <2>5. ASSUME NEW c \in Heartbeating, t < Timeout, age[c] - t > MaxAge
        PROVE  age'[c] - (t + 1) > MaxAge
    BY <2>1, <2>5, <1>1 DEF ReadinessTypeInv
  <2>6. RealInv'
    BY <1>4, <2>1, <2>3, <2>4, <2>5 DEF RealInv
  <2>7. QED
    BY <1>2, <2>3, <2>6 DEF ReadinessTypeInv, Second
<1>5. QED
  BY <1>3, <1>4 DEF ReadinessTypeInv

\* A heartbeat that is written while its probe has still to read is later than the check.
LEMMA BeatStep ==
  ASSUME ReadinessTypeInv, RealInv, NEW i \in Instance, Beat(i) PROVE ReadinessTypeInv' /\ RealInv'
<1> DEFINE b == ComponentOf(i)
<1>1. b \in Heartbeating
  BY ComponentBeats
<1> HIDE DEF b
<1>2. /\ age' = [age EXCEPT ![b] = 0]
      /\ check' = IF Checking
                    THEN [check EXCEPT !.later = @ \cup ({b} \cap Pending)] ELSE check
  BY DEF Beat, b
<1>3. age' \in [Heartbeating -> 0 .. TooOld]
  <2>1. age \in [Heartbeating -> 0 .. TooOld] /\ 0 \in 0 .. TooOld
    BY TooOldNumber DEF ReadinessTypeInv
  <2>2. QED
    BY <1>2, <2>1
<1>4. CASE check = NoCheck
  BY <1>2, <1>3, <1>4, CheckIsNone DEF ReadinessTypeInv, RealInv, Beat, Checking
<1>5. CASE check \in Checks
  <2>1. /\ check' \in Checks /\ check'.results = check.results
        /\ check'.age = check.age /\ check'.beating = check.beating
        /\ check'.later = check.later \cup ({b} \cap Pending)
    BY <1>1, <1>2, <1>5, CheckIsNone DEF Checking, Checks
  <2>2. check.results[b] = "PENDING" => b \in check'.later
    BY <1>1, <2>1, HeartbeatingTwo DEF Pending, Component
  <2>3. RealInv'
    BY <1>2, <1>5, <2>1, <2>2 DEF RealInv, ReadinessTypeInv
  <2>4. QED
    BY <1>3, <2>1, <2>3 DEF ReadinessTypeInv, Beat
<1>6. QED
  BY <1>4, <1>5 DEF ReadinessTypeInv

\* A check begins with what beats at that time, and nothing found yet.
LEMMA StartStep ==
  ASSUME ReadinessTypeInv, RealInv, StartCheck PROVE ReadinessTypeInv' /\ RealInv'
<1>1. check' \in Checks
  BY ReadinessAssumption DEF StartCheck, Checks
<1>2. \A c \in Heartbeating : c \in check'.beating \/ age[c] - check'.age > MaxAge
  BY TooOldNumber DEF StartCheck, ReadinessTypeInv
<1>3. \A c \in Heartbeating : check'.results[c] = "PENDING"
  BY HeartbeatingTwo DEF StartCheck, Component
<1>4. QED
  BY <1>1, <1>2, <1>3 DEF ReadinessTypeInv, RealInv, StartCheck

\* A probe says OK only of a heartbeat that was young enough when the check began.
LEMMA ProbeStep ==
  ASSUME ReadinessTypeInv, RealInv, NEW c \in Component, Probe(c)
  PROVE  ReadinessTypeInv' /\ RealInv'
<1>1. check \in Checks /\ check.results[c] = "PENDING"
  BY DEF Probe, Checking, Pending, ReadinessTypeInv
<1>2. PICK result \in {"OK", "FAILED"} :
        /\ check' = [check EXCEPT !.results[c] = result]
        /\ c \in Heartbeating /\ result = "OK" => ~Stale(c)
  BY HeartbeatingTwo DEF Probe, ProbeResults
<1>3. /\ check' \in Checks /\ check'.age = check.age
      /\ check'.later = check.later /\ check'.beating = check.beating
      /\ check'.results = [check.results EXCEPT ![c] = result]
  BY <1>1, <1>2 DEF Checks
<1>4. c \in Heartbeating /\ result = "OK" => c \in check.beating
  BY <1>1, <1>2 DEF RealInv, Stale
<1>5. age' = age /\ database' = database /\ alive' = alive /\ snapshot' = snapshot
  BY DEF Probe
<1>6. check'.results[c] = result /\ \A d \in Component \ {c} : check'.results[d] = check.results[d]
  BY <1>1, <1>3 DEF Checks
<1>7. RealInv'
  BY <1>1, <1>2, <1>3, <1>4, <1>5, <1>6, HeartbeatingTwo DEF RealInv, Component
<1>8. QED
  BY <1>3, <1>5, <1>7 DEF ReadinessTypeInv

\* Every step keeps what the checks will find true.
LEMMA ReadinessStep ==
  ReadinessTypeInv /\ RealInv /\ [ReadinessNext]_readiness => (ReadinessTypeInv /\ RealInv)'
<1> SUFFICES ASSUME ReadinessTypeInv, RealInv, [ReadinessNext]_readiness
             PROVE  ReadinessTypeInv' /\ RealInv'
  OBVIOUS
<1>1. CASE UNCHANGED readiness
  BY <1>1 DEF readiness, ReadinessTypeInv, RealInv
<1>2. CASE Outage \/ \E i \in Instance : ProcessChanges(i)
  BY <1>2 DEF Outage, ProcessChanges, ReadinessTypeInv, RealInv
<1>3. CASE Publish \/ CheckFails
  <2>1. check' = NoCheck /\ age' = age /\ alive' = alive /\ database' = database
        /\ snapshot' \in BOOLEAN
    BY <1>3 DEF Publish, CheckFails, ReadinessTypeInv, Ready
  <2>2. QED
    BY <2>1, CheckIsNone DEF ReadinessTypeInv, RealInv
<1>4. QED
  BY <1>1, <1>2, <1>3, SecondStep, BeatStep, StartStep, ProbeStep DEF ReadinessNext

\* The invariant behind it: what was found, and what the rows will still show.
THEOREM CheckInvariant == ReadinessSpec => [](ReadinessTypeInv /\ RealInv)
<1>1. ReadinessInit => ReadinessTypeInv /\ RealInv
  <2> SUFFICES ASSUME ReadinessInit PROVE ReadinessTypeInv /\ RealInv
    OBVIOUS
  <2>1. age \in [Heartbeating -> 0 .. TooOld]
    <3>1. TooOld \in 0 .. TooOld
      BY TooOldNumber
    <3>2. QED
      BY <3>1 DEF ReadinessInit
  <2>2. QED
    BY <2>1, CheckIsNone DEF ReadinessInit, ReadinessTypeInv, RealInv
<1>2. QED
  BY <1>1, ReadinessStep, PTL DEF ReadinessSpec

\* For every maximum age and every timeout, a component is found in order only when some
\* process of it had beaten within that age at the time the report is dated.
THEOREM FoundInOrder == ReadinessSpec => []OkIsReal
<1>1. ReadinessTypeInv /\ RealInv => OkIsReal
  BY DEF ReadinessTypeInv, RealInv, OkIsReal, Checking
<1>2. QED
  BY <1>1, CheckInvariant, PTL
=============================================================================
