------------------------------ MODULE Readiness ------------------------------
(***************************************************************************)
(* The readiness of the system (operations/): the bot and the collectors    *)
(* write heartbeats, and a sidecar (cli_health.py --watch-seconds) probes   *)
(* database, heartbeats and model, and publishes a snapshot that the        *)
(* container's health check reads.                                          *)
(*                                                                          *)
(* Time is kept as ages: of each heartbeat, and of the check under way,     *)
(* whose `now` is taken before its probes run.  An age stops growing where  *)
(* larger ones make no difference.  The codes of failed probes are merged.  *)
(***************************************************************************)
EXTENDS Integers, FiniteSets, FiniteSetsExt

CONSTANTS
  MaxAge,   \* HealthCliConfig.maximum_heartbeat_age
  Timeout   \* HealthCliConfig.probe_timeout

ASSUME ReadinessAssumption == MaxAge \in Nat \ {0} /\ Timeout \in Nat \ {0}

Component == {"DATABASE", "MARKET", "MODEL", "BOT"}

\* The processes that write heartbeats, by component.
Instances ==
  [MARKET |-> {"collector-bybit", "collector-okx"}, BOT |-> {"telegram-bot-1"}]
Heartbeating == DOMAIN Instances
Instance == UNION {Instances[c] : c \in Heartbeating}
ComponentOf(i) == CHOOSE c \in Heartbeating : i \in Instances[c]

VARIABLES
  database,  \* whether the database answers
  alive,     \* the processes that run
  age,       \* service_health: age of the newest heartbeat of each component
  check,     \* the check under way
  snapshot   \* what `ready` says in readiness.json; a missing file is not ready

readiness == <<database, alive, age, check, snapshot>>

\* Older than any check can tell from stale; also the age of a missing row.
TooOld == MaxAge + Timeout + 1

NoCheck == [age |-> 0, results |-> [c \in {} |-> "OK"], later |-> {}, beating |-> {}]
Checking == check # NoCheck

ReadinessInit ==
  /\ database = TRUE /\ alive = {}
  /\ age = [c \in Heartbeating |-> TooOld]
  /\ check = NoCheck
  /\ snapshot = FALSE
-----------------------------------------------------------------------------
(* The environment *)

Pending == {c \in Component : check.results[c] = "PENDING"}

\* A second passes.  A probe does not outlive its timeout.
Second ==
  /\ (Checking /\ check.age = Timeout) => Pending = {}
  /\ age' = [c \in Heartbeating |-> Min({TooOld, age[c] + 1})]
  /\ check' = IF Checking THEN [check EXCEPT !.age = Min({Timeout, @ + 1})] ELSE check
  /\ UNCHANGED <<database, alive, snapshot>>

Outage ==
  /\ database' = ~database
  /\ UNCHANGED <<alive, age, check, snapshot>>

\* A process is started, or it ends.
ProcessChanges(i) ==
  /\ alive' = IF i \in alive THEN alive \ {i} ELSE alive \cup {i}
  /\ UNCHANGED <<database, age, check, snapshot>>

\* run_heartbeat_loop, whatever else the process is doing; without a database it
\* logs the failure and goes on.
Beat(i) ==
  /\ i \in alive /\ database
  /\ age' = [age EXCEPT ![ComponentOf(i)] = 0]
  /\ check' = IF Checking THEN [check EXCEPT !.later = @ \cup ({ComponentOf(i)} \cap Pending)]
                          ELSE check
  /\ UNCHANGED <<database, alive, snapshot>>
-----------------------------------------------------------------------------
(* The sidecar *)

\* run_once takes the time.  `later` are the components a row of which is written after
\* it, as long as their probe has still to read it;
\* `beating` remembers, for the properties, which components have a young enough
\* heartbeat at that time.
StartCheck ==
  /\ ~Checking
  /\ check' = [age |-> 0, results |-> [c \in Component |-> "PENDING"], later |-> {},
               beating |-> {c \in Heartbeating : age[c] <= MaxAge}]
  /\ UNCHANGED <<database, alive, age, snapshot>>

\* (mutant) A heartbeat that was written since the check began counts with its age.
StaleIsOld(c) == age[c] - check.age > MaxAge

\* read_latest: the newest row is too old at the time of the check, or younger than
\* the check.
Stale(c) == c \in check.later \/ age[c] - check.age > MaxAge

\* What a probe may return; every heartbeat has the level HEALTHY, and whether the
\* champion's files are in order is up to ModelActivation.
ProbeResults(c) ==
  CASE c = "MODEL" -> {"OK", "FAILED"}
    [] ~database -> {"FAILED"}
    [] c = "DATABASE" -> {"OK"}
    [] OTHER -> {IF Stale(c) THEN "FAILED" ELSE "OK"}

\* The probes run concurrently, each with the timeout.
Probe(c) ==
  /\ Checking /\ c \in Pending
  /\ \E result \in ProbeResults(c) \cup (IF check.age = Timeout THEN {"FAILED"} ELSE {}) :
       check' = [check EXCEPT !.results[c] = result]
  /\ UNCHANGED <<database, alive, age, snapshot>>

\* (mutant) The heartbeats are stored with the report but not required.
ReadyWithoutHeartbeats ==
  \A c \in Component \ Heartbeating : check.results[c] = "OK"

\* ReadinessPolicy.evaluate: every observation carries the check's own time, so that
\* none of them is stale or from the future.
Ready == \A c \in Component : check.results[c] = "OK"

\* The results of database and model are stored, and then the snapshot replaces the
\* old one.
Publish ==
  /\ Checking /\ Pending = {} /\ database
  /\ snapshot' = Ready
  /\ check' = NoCheck
  /\ UNCHANGED <<database, alive, age>>

\* Storing the results raises, and the snapshot stays as it is.
CheckFails ==
  /\ Checking /\ Pending = {} /\ ~database
  /\ check' = NoCheck
  /\ UNCHANGED <<database, alive, age, snapshot>>

ReadinessNext ==
  \/ Second \/ Outage
  \/ \E i \in Instance : ProcessChanges(i) \/ Beat(i)
  \/ StartCheck \/ (\E c \in Component : Probe(c)) \/ Publish \/ CheckFails

\* Time passes and the sidecar, which is restarted when it ends, goes on.
ReadinessFairness ==
  /\ WF_readiness(Second) /\ WF_readiness(StartCheck)
  /\ \A c \in Component : WF_readiness(Probe(c))
  /\ WF_readiness(Publish) /\ WF_readiness(CheckFails)

ReadinessSpec == ReadinessInit /\ [][ReadinessNext]_readiness /\ ReadinessFairness
-----------------------------------------------------------------------------
ReadinessTypeOK ==
  /\ database \in BOOLEAN /\ alive \subseteq Instance
  /\ age \in [Heartbeating -> 0 .. TooOld]
  /\ Checking => /\ check.age \in 0 .. Timeout
                 /\ check.results \in [Component -> {"PENDING", "OK", "FAILED"}]
                 /\ check.later \subseteq Heartbeating /\ check.beating \subseteq Heartbeating
  /\ snapshot \in BOOLEAN

\* A component is found in order, and the snapshot made ready, only when some process
\* of it had beaten within the maximum age at the time the report is dated, although
\* rows grow old and are written while the probes run.
OkIsReal ==
  Checking => \A c \in Heartbeating : check.results[c] = "OK" => c \in check.beating

\* When no process of a component is left and the database answers, the snapshot in
\* the end stops saying ready.
DeathNoticed ==
  \A c \in Heartbeating :
    <>[](database /\ alive \cap Instances[c] = {}) => <>[](~snapshot)
=============================================================================
