-------------------------- MODULE ModelActivation --------------------------
(***************************************************************************)
(* Retraining and activation of models: RetrainingWorkflow inside           *)
(* PersistedRetrainingWorkflow (jobs/retraining.py,                         *)
(* jobs/database_training.py), the files of FileModelRegistry and           *)
(* FileModelActivator, and the two tasks of the scheduler process that run  *)
(* it: the weekly job and the bootstrap task (jobs/cli.py).                 *)
(*                                                                          *)
(* The champion is kept twice: in the files, which the trading worker       *)
(* loads, and in the tables training_runs and model_versions.  Each file is *)
(* replaced atomically, but an activation replaces several, and they are    *)
(* not in the transaction.  A step here is one file, or one transaction;    *)
(* the process may end between any two.  The check after the activation is  *)
(* any check; training and evaluation are choices.                          *)
(***************************************************************************)
EXTENDS Partitions, Sequences, FiniteSets

CONSTANTS
  MinNew,        \* minimum_new_labeled_points
  WindowCount,   \* walk_forward_windows
  FirstLabeled,  \* labeled points at the start
  MaxVersions,   \* bound: models trained
  MaxLabeled     \* bound: labeled points

ASSUME Bounds ==
  /\ MinNew \in Nat /\ WindowCount \in Nat \ {0} /\ FirstLabeled \in Nat
  /\ MaxVersions \in Nat \ {0} /\ MaxLabeled \in Nat

Tasks == {"weekly", "bootstrap"}

\* A version is the hexadecimal part of a uuid: the next unused number. 0 is None.
Versions == 1 .. MaxVersions
Statuses == {"PROMOTED", "REJECTED", "ROLLED_BACK"}
Stages == {"ABSENT", "CHALLENGER", "CHAMPION", "RETIRED"}

VARIABLES
  stage,    \* the stage in <version>.json
  pointer,  \* the version in champion.json
  rows,     \* the stage in model_versions
  runs,     \* training_runs, in the order of started_at
  labeled,  \* the labeled points in the database
  learned,  \* the last label each model has seen
  at,       \* where each task is
  run       \* what each task knows of the run it is in

vars == <<stage, pointer, rows, runs, labeled, learned, at, run>>

Places == {"idle", "waiting", "training", "evaluating", "activating", "checking",
           "rolling_back", "persisting", "done"}

NoRun == [version |-> 0, previous |-> 0, samples |-> 0, status |-> "REJECTED",
          writes |-> <<>>]

Init ==
  /\ stage = [v \in Versions |-> "ABSENT"]
  /\ pointer = 0
  /\ rows = [v \in Versions |-> "ABSENT"]
  /\ runs = <<>>
  /\ labeled = FirstLabeled
  /\ learned = [v \in Versions |-> 0]
  /\ at = [t \in Tasks |-> "idle"]
  /\ run = [t \in Tasks |-> NoRun]

\* The features and candle collectors add a labeled point.
Observe ==
  /\ labeled < MaxLabeled
  /\ labeled' = labeled + 1
  /\ UNCHANGED <<stage, pointer, rows, runs, learned, at, run>>

\* Tasks of one event loop: between two files of an activation no other one runs.
Writing == \E t \in Tasks : at[t] \in {"activating", "rolling_back"}

Go(t, place) == at' = [at EXCEPT ![t] = place]

\* WeeklyRetrainingJob is called.
StartWeekly ==
  /\ at["weekly"] = "idle" /\ ~Writing
  /\ Go("weekly", "waiting")
  /\ UNCHANGED <<stage, pointer, rows, runs, labeled, learned, run>>

\* _bootstrap_until_champion looks for a champion, without the lock.
Look ==
  /\ at["bootstrap"] = "idle" /\ ~Writing
  /\ Go("bootstrap", IF pointer = 0 THEN "waiting" ELSE "done")
  /\ UNCHANGED <<stage, pointer, rows, runs, labeled, learned, run>>

\* (mutant) There is no lock.
Unwatched == TRUE

\* _run_lock is free.
Unlocked == \A t \in Tasks : at[t] \in {"idle", "waiting", "done"}

EnoughNew == runs # <<>> => labeled - runs[Len(runs)].samples >= MinNew

\* RetrainingSkipped.
Skip(t) ==
  /\ at[t] = "waiting" /\ Unlocked /\ ~EnoughNew
  /\ Go(t, "idle")
  /\ UNCHANGED <<stage, pointer, rows, runs, labeled, learned, run>>

Begin(t) ==
  /\ at[t] = "waiting" /\ Unlocked /\ EnoughNew
  /\ Go(t, "training")
  /\ run' = [run EXCEPT ![t] = [NoRun EXCEPT !.samples = labeled]]
  /\ UNCHANGED <<stage, pointer, rows, runs, labeled, learned>>

NextVersion == 1 + Cardinality({v \in Versions : stage[v] # "ABSENT"})

\* The labeled points are loaded again; the model is trained on them and registered.
Train(t) ==
  /\ at[t] = "training" /\ NextVersion \in Versions
  /\ Divisible(labeled)
  /\ learned' = [learned EXCEPT ![NextVersion] = LastSeen(labeled)]
  /\ stage' = [stage EXCEPT ![NextVersion] = "CHALLENGER"]
  /\ run' = [run EXCEPT ![t].version = NextVersion]
  /\ Go(t, "evaluating")
  /\ UNCHANGED <<pointer, rows, runs, labeled>>

\* The evaluator loads the labeled points a third time; without a point in each window
\* it raises.
Evaluable == labeled - Split(labeled) >= WindowCount

\* evaluate_admission refuses the challenger.
Reject(t) ==
  /\ at[t] = "evaluating" /\ Evaluable
  /\ Go(t, "persisting")
  /\ UNCHANGED <<stage, pointer, rows, runs, labeled, learned, run>>

\* A file to replace: 0 is champion.json.
File(name, content) == [name |-> name, content |-> content]

\* (mutant) The pointer is switched before the metadata.
PointerFirst(v, previous) ==
  <<File(0, v), File(v, "CHAMPION")>>
    \o IF previous \in {0, v} THEN <<>> ELSE <<File(previous, "RETIRED")>>

\* The files that activate replaces, in their order.
Activation(v, previous) ==
  <<File(v, "CHAMPION"), File(0, v)>>
    \o IF previous \in {0, v} THEN <<>> ELSE <<File(previous, "RETIRED")>>

\* The files that rollback replaces or removes.
Rollback(v, previous) ==
  IF previous = 0 THEN <<File(0, 0), File(v, "CHALLENGER")>> ELSE Activation(previous, v)

\* The challenger is admitted: activate starts, with the pointer it finds.
Accept(t) ==
  /\ at[t] = "evaluating" /\ Evaluable
  /\ Go(t, "activating")
  /\ run' = [run EXCEPT ![t].previous = pointer,
                        ![t].writes = Activation(run[t].version, pointer)]
  /\ UNCHANGED <<stage, pointer, rows, runs, labeled, learned>>

\* One file of an activation or a rollback is replaced.
WriteFile(t) ==
  LET file == Head(run[t].writes) IN
  /\ at[t] \in {"activating", "rolling_back"} /\ run[t].writes # <<>>
  /\ pointer' = IF file.name = 0 THEN file.content ELSE pointer
  /\ stage' = IF file.name = 0 THEN stage ELSE [stage EXCEPT ![file.name] = file.content]
  /\ run' = [run EXCEPT ![t].writes = Tail(@)]
  /\ UNCHANGED <<rows, runs, labeled, learned, at>>

\* The last file is written.
FinishFiles(t) ==
  /\ at[t] \in {"activating", "rolling_back"} /\ run[t].writes = <<>>
  /\ Go(t, IF at[t] = "activating" THEN "checking" ELSE "persisting")
  /\ UNCHANGED <<stage, pointer, rows, runs, labeled, learned, run>>

\* activation_check answers that the model is healthy.
Healthy(t) ==
  /\ at[t] = "checking"
  /\ Go(t, "persisting")
  /\ run' = [run EXCEPT ![t].status = "PROMOTED"]
  /\ UNCHANGED <<stage, pointer, rows, runs, labeled, learned>>

\* activation_check answers that it is not, or raises. rollback looks first whether
\* the model is still the active one: under the lock it always is.
Unhealthy(t) ==
  /\ at[t] = "checking" /\ pointer = run[t].version
  /\ Go(t, "rolling_back")
  /\ run' = [run EXCEPT ![t].status = "ROLLED_BACK",
                        ![t].writes = Rollback(run[t].version, run[t].previous)]
  /\ UNCHANGED <<stage, pointer, rows, runs, labeled, learned>>

\* The rows of former champions are updated first.
OthersRetired == [u \in Versions |-> IF rows[u] = "CHAMPION" THEN "RETIRED" ELSE rows[u]]

\* (mutant) Everything that was admitted is recorded as the champion.
AdmittedRows(v, status) ==
  IF status = "REJECTED"
    THEN [rows EXCEPT ![v] = "CHALLENGER"]
    ELSE [OthersRetired EXCEPT ![v] = "CHAMPION"]

RecordedRows(v, status) ==
  IF status = "PROMOTED"
    THEN [OthersRetired EXCEPT ![v] = "CHAMPION"]
    ELSE [rows EXCEPT ![v] = "CHALLENGER"]

\* Where a task goes with an outcome: the bootstrap task returns once a candidate has
\* been admitted, whether or not the activation was rolled back.
Afterwards(t, status) == IF t = "bootstrap" /\ status # "REJECTED" THEN "done" ELSE "idle"

\* The transaction that records the outcome.
Persist(t) ==
  /\ at[t] = "persisting"
  /\ runs' = Append(runs, [samples |-> run[t].samples, status |-> run[t].status])
  /\ rows' = RecordedRows(run[t].version, run[t].status)
  /\ Go(t, Afterwards(t, run[t].status))
  /\ run' = [run EXCEPT ![t] = NoRun]
  /\ UNCHANGED <<stage, pointer, labeled, learned>>

\* An exception: too little data, a full disk, a lost connection to the database.
Fail(t) ==
  /\ at[t] \notin {"idle", "checking", "done"} /\ (at[t] = "waiting" => Unlocked)
  /\ Go(t, "idle")
  /\ run' = [run EXCEPT ![t] = NoRun]
  /\ UNCHANGED <<stage, pointer, rows, runs, labeled, learned>>

\* The process ends and is started again.
Crash ==
  /\ at' = [t \in Tasks |-> "idle"]
  /\ run' = [t \in Tasks |-> NoRun]
  /\ UNCHANGED <<stage, pointer, rows, runs, labeled, learned>>

Task(t) ==
  \/ Skip(t) \/ Begin(t) \/ Train(t) \/ Reject(t) \/ Accept(t) \/ WriteFile(t)
  \/ FinishFiles(t) \/ Healthy(t) \/ Unhealthy(t) \/ Persist(t) \/ Fail(t)

Next == Observe \/ StartWeekly \/ Look \/ Crash \/ \E t \in Tasks : Task(t)

Spec == Init /\ [][Next]_vars
-----------------------------------------------------------------------------
\* Types, and that the lock admits one run at a time.
TypeOK ==
  /\ stage \in [Versions -> Stages] /\ rows \in [Versions -> Stages]
  /\ pointer \in Versions \cup {0}
  /\ runs \in Seq([samples : Nat, status : Statuses])
  /\ labeled \in Nat /\ learned \in [Versions -> Nat]
  /\ at \in [Tasks -> Places]
  /\ \A t \in Tasks :
       /\ run[t].version \in Versions \cup {0} /\ run[t].previous \in Versions \cup {0}
       /\ run[t].samples \in Nat /\ run[t].status \in Statuses
  /\ \E t \in Tasks : \A u \in Tasks \ {t} : at[u] \in {"idle", "waiting", "done"}

\* Wherever a run is interrupted, the model that champion.json names is registered and
\* marked CHAMPION: the trading worker can load it and operators find it described so.
PointerIsChampion == pointer # 0 => stage[pointer] = "CHAMPION"

\* The tables never contradict the files: at most one version is recorded as the
\* champion, and the one that champion.json names is recorded as nothing else.
RecordsAgree ==
  /\ \A u, v \in Versions : rows[u] = "CHAMPION" /\ rows[v] = "CHAMPION" => u = v
  /\ pointer # 0 => rows[pointer] \in {"CHAMPION", "ABSENT"}

\* Between two recorded runs there are MinNew new labeled points, although the
\* bootstrap task and the weekly job start runs independently.
NewPointsBetweenRuns ==
  \A i \in 1 .. Len(runs) - 1 : runs[i + 1].samples - runs[i].samples >= MinNew

\* Protection from leakage: whatever the evaluator loads, every label that the model
\* under evaluation or the champion it is compared with has seen, in the fit, the
\* calibration or the choice of the threshold, was known before the first point it is
\* tested on, although the points are counted, trained on and tested on at three
\* different times.
TestedOnUnseen ==
  \A t \in Tasks : at[t] = "evaluating" /\ Evaluable =>
    \A v \in {run[t].version, pointer} \ {0} : learned[v] < Split(labeled) + 1
=============================================================================
