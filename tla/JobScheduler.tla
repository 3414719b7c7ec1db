---------------------------- MODULE JobScheduler ----------------------------
(***************************************************************************)
(* The scheduler (jobs/scheduler.py) over the job store with leases         *)
(* (jobs/store.py).                                                         *)
(*                                                                          *)
(* Every operation of the store is atomic: it runs under the lock of the    *)
(* store and JsonJobStore replaces the file before anything else runs, or   *)
(* the process ends.  What is in the file is therefore what is in memory,   *)
(* and a crash only loses what the schedulers were doing.  A handler may    *)
(* run for any time, longer than its lease included; several schedulers may *)
(* share a store.                                                           *)
(***************************************************************************)
EXTENDS Integers, Sequences

CONSTANTS
  Schedulers,
  Jobs,        \* the names in the order of AsyncScheduler.jobs
  Definition,  \* [first, interval, retry_delay, lease_duration] of each job
  MaxTime,     \* bound: the clock
  MaxCrashes   \* bound: crashes of the process

Names == {Jobs[i] : i \in DOMAIN Jobs}

ASSUME Definitions ==
  /\ Jobs \in Seq(Names) /\ Jobs # <<>>
  /\ \A i, j \in DOMAIN Jobs : Jobs[i] = Jobs[j] => i = j
  /\ Definition \in [Names -> [first : Nat, interval : Nat \ {0},
                               retry_delay : Nat \ {0}, lease_duration : Nat \ {0}]]
ASSUME Bounds == MaxTime \in Nat /\ MaxCrashes \in Nat

VARIABLES
  now,        \* Clock.now
  state,      \* JobState of each job
  turn,       \* the job each scheduler comes to next in its tick
  lease,      \* the leases each scheduler holds for the handler it runs
  tokens,     \* tokens given out
  completed,  \* the occurrences of each job that have succeeded, in that order
  crashes

vars == <<now, state, turn, lease, tokens, completed, crashes>>

Lease == [job : Names, token : Nat, scheduled_for : Nat, expires_at : Nat]

\* -1 and 0 stand for None: no occurrence, no token.
JobState == [status : {"IDLE", "RUNNING", "SUCCEEDED", "FAILED"}, next_run_at : Nat,
             last_scheduled_for : Nat \cup {-1}, token : Nat, expires_at : Nat]

Init ==
  /\ now = 0
  /\ state = [j \in Names |->
                [status |-> "IDLE", next_run_at |-> Definition[j].first,
                 last_scheduled_for |-> -1, token |-> 0, expires_at |-> 0]]
  /\ turn = [s \in Schedulers |-> 1]
  /\ lease = [s \in Schedulers |-> {}]
  /\ tokens = 0
  /\ completed = [j \in Names |-> <<>>]
  /\ crashes = 0

\* Time passes: in a sleep, in a handler, while the process is down.
Pass ==
  /\ now < MaxTime
  /\ now' = now + 1
  /\ UNCHANGED <<state, turn, lease, tokens, completed, crashes>>

LeaseActive(j) == state[j].status = "RUNNING" /\ state[j].expires_at > now

\* (mutant) An active lease is not respected.
ClaimableAtOnce(j) == state[j].next_run_at <= now

Claimable(j) == state[j].next_run_at <= now /\ ~LeaseActive(j)

\* (mutant) A repeated occurrence is rescheduled.
OccurrenceRescheduled(j) == state[j].next_run_at

\* The occurrence that a claim is for: the one that has failed or was interrupted
\* once more, otherwise the one that is due.
Occurrence(j) ==
  IF state[j].status \in {"RUNNING", "FAILED"} /\ state[j].last_scheduled_for # -1
    THEN state[j].last_scheduled_for
    ELSE state[j].next_run_at

Idle(s) == lease[s] = {}

\* claim_due
Claim(s) ==
  LET j == Jobs[turn[s]]
      held == [job |-> j, token |-> tokens + 1, scheduled_for |-> Occurrence(j),
               expires_at |-> now + Definition[j].lease_duration]
  IN  /\ Idle(s) /\ Claimable(j)
      /\ tokens' = tokens + 1
      /\ lease' = [lease EXCEPT ![s] = {held}]
      /\ state' = [state EXCEPT ![j] =
                     [@ EXCEPT !.status = "RUNNING",
                               !.last_scheduled_for = held.scheduled_for,
                               !.token = held.token, !.expires_at = held.expires_at]]
      /\ UNCHANGED <<now, turn, completed, crashes>>

NextTurn(s) ==
  turn' = [turn EXCEPT ![s] = IF turn[s] = Len(Jobs) THEN 1 ELSE turn[s] + 1]

\* (mutant) A job that is due may be passed over.
SkipWithoutLooking(s) ==
  Idle(s) /\ NextTurn(s) /\ UNCHANGED <<now, state, lease, tokens, completed, crashes>>

\* The job is not due: the next one, or the next tick.
Skip(s) ==
  /\ Idle(s) /\ ~Claimable(Jobs[turn[s]])
  /\ NextTurn(s)
  /\ UNCHANGED <<now, state, lease, tokens, completed, crashes>>

\* (mutant) The token is not compared.
OwnedByAnyone(l) == state[l.job].status = "RUNNING"

Owned(l) == state[l.job].status = "RUNNING" /\ state[l.job].token = l.token

\* (mutant) The interval is counted from the end of the handler.
NextOccurrenceFromNow(scheduled_for, interval) == now + interval

\* _next_occurrence: the first one after the end of the handler.
NextOccurrence(scheduled_for, interval) ==
  scheduled_for + interval * ((now - scheduled_for) \div interval + 1)

Release(s) == lease' = [lease EXCEPT ![s] = {}] /\ NextTurn(s)

\* The handler returns: succeed
Succeed(s) ==
  \E l \in lease[s] :
    /\ Owned(l)
    /\ state' = [state EXCEPT ![l.job] =
         [@ EXCEPT !.status = "SUCCEEDED", !.token = 0, !.expires_at = 0,
                   !.next_run_at = NextOccurrence(l.scheduled_for,
                                                  Definition[l.job].interval)]]
    /\ completed' = [completed EXCEPT ![l.job] = Append(@, l.scheduled_for)]
    /\ Release(s)
    /\ UNCHANGED <<now, tokens, crashes>>

\* The handler raises: fail
Fail(s) ==
  \E l \in lease[s] :
    /\ Owned(l)
    /\ state' = [state EXCEPT ![l.job] =
         [@ EXCEPT !.status = "FAILED", !.token = 0, !.expires_at = 0,
                   !.next_run_at = now + Definition[l.job].retry_delay]]
    /\ Release(s)
    /\ UNCHANGED <<now, tokens, completed, crashes>>

\* LostJobLeaseError leaves tick and serve: this scheduler is started again.
LoseLease(s) ==
  /\ \E l \in lease[s] : ~Owned(l)
  /\ lease' = [lease EXCEPT ![s] = {}]
  /\ turn' = [turn EXCEPT ![s] = 1]
  /\ UNCHANGED <<now, state, tokens, completed, crashes>>

\* The process ends and is started again: ensure finds the states in the file.
Crash ==
  /\ crashes < MaxCrashes
  /\ crashes' = crashes + 1
  /\ lease' = [s \in Schedulers |-> {}]
  /\ turn' = [s \in Schedulers |-> 1]
  /\ UNCHANGED <<now, state, tokens, completed>>

Tick(s) == Claim(s) \/ Skip(s) \/ Succeed(s) \/ Fail(s) \/ LoseLease(s)

Next == Pass \/ Crash \/ \E s \in Schedulers : Tick(s)

Spec == Init /\ [][Next]_vars

\* serve ticks for ever and every handler ends.
Fairness == \A s \in Schedulers : WF_vars(Tick(s))

FairSpec == Spec /\ Fairness
-----------------------------------------------------------------------------
TypeOK ==
  /\ now \in 0 .. MaxTime /\ crashes \in 0 .. MaxCrashes
  /\ state \in [Names -> JobState]
  /\ turn \in [Schedulers -> DOMAIN Jobs]
  /\ \A s \in Schedulers : lease[s] \subseteq Lease /\ \A l, m \in lease[s] : l = m
  /\ tokens \in Nat
  /\ completed \in [Names -> Seq(Nat)]

\* A schedule does not drift: every occurrence that was claimed or is planned lies a
\* whole number of intervals after the first run, however late handlers end, however
\* often they fail and wherever the process has crashed.
OnSchedule ==
  \A j \in Names :
    LET on(t) == t >= Definition[j].first
                   /\ (t - Definition[j].first) % Definition[j].interval = 0
    IN  /\ state[j].last_scheduled_for # -1 => on(state[j].last_scheduled_for)
        /\ state[j].status \in {"IDLE", "SUCCEEDED"} => on(state[j].next_run_at)

\* Two handlers of one job run at the same time only if the lease of one of them has
\* expired.
OneHandlerPerLease ==
  \A s, q \in Schedulers : \A l \in lease[s], m \in lease[q] :
    s # q /\ l.job = m.job => l.expires_at <= now \/ m.expires_at <= now

\* Each occurrence succeeds at most once, and they succeed in their order: the
\* result of a scheduler whose lease another one has taken over is not recorded.
SucceedsOnce ==
  \A j \in Names : \A i, k \in DOMAIN completed[j] :
    i < k => completed[j][i] < completed[j][k]

\* An occurrence that was claimed is claimed again until it has succeeded: neither a
\* failure nor a crash puts another one in its place.
ClaimedUntilSucceeded ==
  [][\A j \in Names :
       state[j].status \in {"RUNNING", "FAILED"} =>
         state'[j].last_scheduled_for = state[j].last_scheduled_for]_vars

\* A job that is due, or whose lease has expired, is claimed.
DueIsClaimed == \A j \in Names : Claimable(j) ~> ~Claimable(j)
=============================================================================
