----------------------- MODULE ModelActivation_proofs -----------------------
(***************************************************************************)
(* Proofs about ModelActivation, for any number of versions, labels and     *)
(* windows.                                                                 *)
(***************************************************************************)
EXTENDS ModelActivation, FiniteSetTheorems, TLAPS

Active == {"training", "evaluating", "activating", "checking", "rolling_back", "persisting"}

Files == [name : {0}, content : Versions \cup {0}] \cup [name : Versions, content : Stages]

Runs == [version : Versions \cup {0}, previous : Versions \cup {0}, samples : Nat,
         status : Statuses, writes : Seq(Files)]

\* What every variable is, and that the lock admits one run at a time.
TypeInv ==
  /\ stage \in [Versions -> Stages] /\ rows \in [Versions -> Stages]
  /\ pointer \in Versions \cup {0}
  /\ runs \in Seq([samples : Nat, status : Statuses])
  /\ labeled \in Nat /\ learned \in [Versions -> Nat]
  /\ at \in [Tasks -> Places]
  /\ run \in [Tasks -> Runs]
  /\ \A t \in Tasks : at[t] \in Active \ {"training"} => run[t].version \in Versions
  /\ \A t, u \in Tasks : at[t] \in Active /\ at[u] \in Active => t = u
-----------------------------------------------------------------------------
\* The heads and tails of the lists that activations and rollbacks work through.
LEMMA Heads ==
  ASSUME NEW a, NEW b, NEW c
  PROVE  /\ Head(<<a>>) = a /\ Head(<<a, b>>) = a /\ Head(<<a, b, c>>) = a
         /\ Tail(<<a>>) = <<>> /\ Tail(<<a, b>>) = <<b>> /\ Tail(<<a, b, c>>) = <<b, c>>
  OBVIOUS

\* A list of two files and one more is a list of three.
LEMMA ThreeFiles ==
  ASSUME NEW S, NEW a \in S, NEW b \in S, NEW c \in S
  PROVE  <<a, b>> \o <<c>> = <<a, b, c>>
<1> DEFINE joined == <<a, b>> \o <<c>>
           listed == <<a, b, c>>
<1>1. joined \in Seq(S) /\ Len(joined) = 3 /\ listed \in Seq(S) /\ Len(listed) = 3
  OBVIOUS
<1>2. joined[1] = a /\ joined[2] = b /\ joined[3] = c
  OBVIOUS
<1>3. listed[1] = a /\ listed[2] = b /\ listed[3] = c
  OBVIOUS
<1> HIDE DEF joined, listed
<1>4. \A i \in 1 .. 3 : joined[i] = listed[i]
  BY <1>2, <1>3
<1>5. joined = listed
  BY <1>1, <1>4
<1>6. QED
  BY <1>5 DEF joined, listed

\* The record of a task outside a run.
LEMMA NoRunType == NoRun \in Runs
  BY DEF NoRun, Runs, Statuses

\* Activations and rollbacks are lists of files.
LEMMA ListTypes ==
  ASSUME NEW v \in Versions, NEW p \in Versions \cup {0}
  PROVE  Activation(v, p) \in Seq(Files) /\ Rollback(v, p) \in Seq(Files)
<1>1. \A u \in Versions, q \in Versions \cup {0} : Activation(u, q) \in Seq(Files)
  <2> TAKE u \in Versions, q \in Versions \cup {0}
  <2>1. /\ File(u, "CHAMPION") \in Files /\ File(0, u) \in Files
        /\ q \in Versions => File(q, "RETIRED") \in Files
    BY DEF File, Files, Stages
  <2>2. <<File(u, "CHAMPION"), File(0, u)>> \in Seq(Files)
    BY <2>1
  <2>3. q \in Versions => <<File(q, "RETIRED")>> \in Seq(Files)
    BY <2>1
  <2>4. QED
    BY <2>2, <2>3 DEF Activation
<1>2. /\ File(0, 0) \in Files /\ File(v, "CHALLENGER") \in Files
  BY DEF File, Files, Stages
<1>3. <<File(0, 0), File(v, "CHALLENGER")>> \in Seq(Files)
  BY <1>2
<1>4. QED
  BY <1>1, <1>3 DEF Rollback

\* The types hold at the start.
LEMMA InitType == Init => TypeInv
  BY Bounds DEF Init, TypeInv, NoRun, Runs, Versions, Stages, Statuses, Places, Tasks, Active

\* A task that goes on keeps the places typed, and enters a run only if none is under way.
LEMMA GoType ==
  ASSUME TypeInv, NEW t \in Tasks, NEW place \in Places, Go(t, place),
         place \in Active => at[t] \in Active \/ Unlocked,
         run' \in [Tasks -> Runs], \A u \in Tasks \ {t} : run'[u] = run[u],
         place \in Active \ {"training"} => run'[t].version \in Versions
  PROVE  /\ at' \in [Tasks -> Places]
         /\ \A u \in Tasks : at'[u] \in Active \ {"training"} => run'[u].version \in Versions
         /\ \A u, w \in Tasks : at'[u] \in Active /\ at'[w] \in Active => u = w
<1>1. \A u \in Tasks : at'[u] = IF u = t THEN place ELSE at[u]
  BY DEF TypeInv, Go
<1>2. at' \in [Tasks -> Places]
  BY DEF TypeInv, Go
<1>3. ASSUME NEW u \in Tasks, at'[u] \in Active \ {"training"}
      PROVE  run'[u].version \in Versions
  BY <1>1, <1>3 DEF TypeInv
<1>4. ASSUME NEW u \in Tasks, NEW w \in Tasks, at'[u] \in Active, at'[w] \in Active
      PROVE  u = w
  BY <1>1, <1>4 DEF TypeInv, Unlocked, Active
<1>5. QED
  BY <1>2, <1>3, <1>4

\* Every step keeps the types and the exclusion of runs.
LEMMA StepType == TypeInv /\ [Next]_vars => TypeInv'
<1> SUFFICES ASSUME TypeInv, [Next]_vars PROVE TypeInv'
  OBVIOUS
<1> USE DEF Places
<1>1. CASE Observe
  BY <1>1 DEF Observe, TypeInv
<1>2. CASE StartWeekly
  BY <1>2, GoType DEF StartWeekly, TypeInv, Active, Tasks
<1>3. CASE Look
  BY <1>3, GoType DEF Look, TypeInv, Active, Tasks
<1>4. CASE Crash
  BY <1>4, NoRunType DEF Crash, TypeInv, Active
<1>5. ASSUME NEW t \in Tasks, Task(t) PROVE TypeInv'
  <2> USE <1>5
  <2>1. CASE Skip(t)
    BY <2>1, GoType DEF Skip, TypeInv, Active
  <2>2. CASE Begin(t)
    <3>1. [NoRun EXCEPT !.samples = labeled] \in Runs
      BY NoRunType DEF Runs, TypeInv
    <3>2. run' \in [Tasks -> Runs]
      BY <2>2, <3>1 DEF Begin, TypeInv
    <3>3. QED
      BY <2>2, <3>2, GoType DEF Begin, TypeInv
  <2>3. CASE Train(t)
    <3>1. [run[t] EXCEPT !.version = NextVersion] \in Runs
      BY <2>3 DEF Train, TypeInv, Runs
    <3>2. run' \in [Tasks -> Runs]
      BY <2>3, <3>1 DEF Train, TypeInv
    <3>3. LastSeen(labeled) \in Nat
      BY HorizonAssumption DEF TypeInv, LastSeen, LabelKnown, Training, Purged, Split
    <3>4. stage' \in [Versions -> Stages] /\ learned' \in [Versions -> Nat]
      BY <2>3, <3>3 DEF Train, TypeInv, Stages
    <3>5. run'[t].version \in Versions /\ \A u \in Tasks \ {t} : run'[u] = run[u]
      BY <2>3 DEF Train, TypeInv, Runs
    <3>6. QED
      BY <2>3, <3>2, <3>4, <3>5, GoType DEF Train, TypeInv, Active
  <2>4. CASE Reject(t)
    BY <2>4, GoType DEF Reject, TypeInv, Active
  <2>5. CASE Accept(t)
    <3> DEFINE files == Activation(run[t].version, pointer)
    <3>1. run[t].version \in Versions
      BY <2>5 DEF Accept, TypeInv, Active
    <3>2. files \in Seq(Files)
      BY <3>1, ListTypes DEF TypeInv
    <3> HIDE DEF files
    <3>3. [run[t] EXCEPT !.previous = pointer, !.writes = files] \in Runs
      BY <3>2 DEF TypeInv, Runs
    <3>4. run' = [run EXCEPT ![t] = [@ EXCEPT !.previous = pointer, !.writes = files]]
      BY <2>5 DEF Accept, TypeInv, files
    <3>5. run' \in [Tasks -> Runs] /\ run'[t].version = run[t].version
      BY <3>3, <3>4 DEF TypeInv, Runs
    <3>6. QED
      BY <2>5, <3>1, <3>5, GoType DEF Accept, TypeInv, Active
  <2>6. CASE WriteFile(t)
    <3> DEFINE file == Head(run[t].writes)
    <3>1. file \in Files /\ Tail(run[t].writes) \in Seq(Files)
      BY <2>6 DEF WriteFile, TypeInv, Runs
    <3>2. [run[t] EXCEPT !.writes = Tail(@)] \in Runs
      BY <3>1 DEF TypeInv, Runs
    <3>3. run' \in [Tasks -> Runs]
      BY <2>6, <3>2 DEF WriteFile, TypeInv
    <3>4. stage' \in [Versions -> Stages] /\ pointer' \in Versions \cup {0}
      BY <2>6, <3>1 DEF WriteFile, TypeInv, Files, Versions
    <3>5. QED
      BY <2>6, <3>3, <3>4 DEF WriteFile, TypeInv
  <2>7. CASE FinishFiles(t)
    BY <2>7, GoType DEF FinishFiles, TypeInv, Active
  <2>8. CASE Healthy(t)
    <3>1. [run[t] EXCEPT !.status = "PROMOTED"] \in Runs
      BY DEF TypeInv, Runs, Statuses
    <3>2. run' \in [Tasks -> Runs]
      BY <2>8, <3>1 DEF Healthy, TypeInv
    <3>3. run'[t].version \in Versions /\ \A u \in Tasks \ {t} : run'[u] = run[u]
      BY <2>8 DEF Healthy, TypeInv, Runs, Active
    <3>4. QED
      BY <2>8, <3>2, <3>3, GoType DEF Healthy, TypeInv, Active
  <2>9. CASE Unhealthy(t)
    <3> DEFINE files == Rollback(run[t].version, run[t].previous)
    <3>1. run[t].version \in Versions
      BY <2>9 DEF Unhealthy, TypeInv, Active
    <3>2. files \in Seq(Files)
      BY <3>1, ListTypes DEF TypeInv, Runs
    <3> HIDE DEF files
    <3>3. [run[t] EXCEPT !.status = "ROLLED_BACK", !.writes = files] \in Runs
      BY <3>2 DEF TypeInv, Runs, Statuses
    <3>4. run' = [run EXCEPT ![t] = [@ EXCEPT !.status = "ROLLED_BACK", !.writes = files]]
      BY <2>9 DEF Unhealthy, TypeInv, files
    <3>5. run' \in [Tasks -> Runs] /\ run'[t].version = run[t].version
      BY <3>3, <3>4 DEF TypeInv, Runs
    <3>6. QED
      BY <2>9, <3>1, <3>5, GoType DEF Unhealthy, TypeInv, Active
  <2>10. CASE Persist(t)
    <3>1. run' \in [Tasks -> Runs]
      BY <2>10 DEF Persist, TypeInv, NoRun, Runs, Statuses
    <3>2. rows' \in [Versions -> Stages]
      BY <2>10 DEF Persist, TypeInv, RecordedRows, OthersRetired, Stages
    <3>3. runs' \in Seq([samples : Nat, status : Statuses])
      BY <2>10 DEF Persist, TypeInv, Runs
    <3>4. QED
      BY <2>10, <3>1, <3>2, <3>3, GoType DEF Persist, Afterwards, TypeInv, Active
  <2>11. CASE Fail(t)
    <3>1. run' \in [Tasks -> Runs]
      BY <2>11 DEF Fail, TypeInv, NoRun, Runs, Statuses
    <3>2. QED
      BY <2>11, <3>1, GoType DEF Fail, TypeInv, Active
  <2>12. QED
    BY <2>1, <2>2, <2>3, <2>4, <2>5, <2>6, <2>7, <2>8, <2>9, <2>10, <2>11 DEF Task
<1>6. CASE UNCHANGED vars
  BY <1>6 DEF vars, TypeInv
<1>7. QED
  BY <1>1, <1>2, <1>3, <1>4, <1>5, <1>6 DEF Next

\* Types, and that the lock admits one run at a time: in every reachable state.
THEOREM ActivationTypes == Spec => []TypeOK
<1>1. TypeInv => TypeOK
  <2> SUFFICES ASSUME TypeInv PROVE TypeOK
    OBVIOUS
  <2>1. \A t \in Tasks : /\ run[t].version \in Versions \cup {0}
                         /\ run[t].previous \in Versions \cup {0}
                         /\ run[t].samples \in Nat /\ run[t].status \in Statuses
    BY DEF TypeInv, Runs
  <2>2. \E t \in Tasks : \A u \in Tasks \ {t} : at[u] \in {"idle", "waiting", "done"}
    BY DEF TypeInv, Tasks, Active, Places
  <2>3. QED
    BY <2>1, <2>2 DEF TypeInv, TypeOK
<1>2. QED
  BY <1>1, InitType, StepType, PTL DEF Spec
-----------------------------------------------------------------------------
(* The files *)

Registered(v) == stage[v] # "ABSENT"

\* Versions are registered in their order, and recorded after that.
Numbered ==
  /\ \E n \in 0 .. MaxVersions : \A v \in Versions : Registered(v) <=> v <= n
  /\ \A v \in Versions : Registered(v) \/ rows[v] = "ABSENT"

\* A file that retires another registered version.
Retires(file, target) ==
  \E v \in Versions \ {target}, s \in Stages \ {"ABSENT"} : Registered(v) /\ file = File(v, s)

\* What is left to do until the pointer is on `target`, and to retire another version.
Describe(files, target) ==
  /\ target # 0
  /\ \/ files = <<File(target, "CHAMPION"), File(0, target)>>
     \/ \E last \in Files : /\ Retires(last, target)
                            /\ files = <<File(target, "CHAMPION"), File(0, target), last>>

Switch(files, target) ==
  /\ target # 0 => stage[target] = "CHAMPION"
  /\ \/ files = <<File(0, target)>>
     \/ \E last \in Files : Retires(last, target) /\ files = <<File(0, target), last>>

Retire(files, target) ==
  /\ pointer = target
  /\ files = <<>> \/ \E last \in Files : Retires(last, target) /\ files = <<last>>

Script(files, target) ==
  Describe(files, target) \/ Switch(files, target) \/ Retire(files, target)

\* What a run knows of files and tables.
RunInv(t) ==
  LET version == run[t].version
      previous == run[t].previous
  IN  /\ at[t] \in {"training", "evaluating"} => run[t].status = "REJECTED"
      /\ at[t] \in Active \ {"training"} => Registered(version) /\ rows[version] = "ABSENT"
      /\ at[t] = "evaluating" => pointer # version
      /\ at[t] \in {"activating", "checking", "rolling_back"} =>
           /\ previous # version
           /\ previous # 0 => Registered(previous) /\ rows[previous] \in {"CHAMPION", "ABSENT"}
      /\ at[t] = "activating" => Script(run[t].writes, version)
      /\ at[t] = "checking" => pointer = version
      /\ at[t] = "rolling_back" =>
           Script(run[t].writes, previous) /\ run[t].status = "ROLLED_BACK"
      /\ at[t] = "persisting" => (run[t].status = "PROMOTED" <=> pointer = version)

FileInv == Numbered /\ PointerIsChampion /\ RecordsAgree /\ \A t \in Tasks : RunInv(t)

\* Without models there is nothing to disagree about.
LEMMA InitFiles == Init => FileInv
<1> SUFFICES ASSUME Init PROVE FileInv
  OBVIOUS
<1>1. Numbered
  <2>1. 0 \in 0 .. MaxVersions /\ \A v \in Versions : ~(v <= 0) /\ ~Registered(v)
    BY Bounds DEF Init, Registered, Versions
  <2>2. QED
    BY <2>1 DEF Numbered, Init
<1>2. PointerIsChampion /\ RecordsAgree
  BY DEF Init, PointerIsChampion, RecordsAgree
<1>3. \A t \in Tasks : RunInv(t)
  BY DEF Init, RunInv, Active
<1>4. QED
  BY <1>1, <1>2, <1>3 DEF FileInv

\* The number of the next version is the first free one.
LEMMA NextIsFree ==
  ASSUME TypeInv, Numbered, NextVersion \in Versions
  PROVE  /\ ~Registered(NextVersion)
         /\ \A v \in Versions : Registered(v) <=> v < NextVersion
<1>1. PICK n \in 0 .. MaxVersions : \A v \in Versions : Registered(v) <=> v <= n
  BY DEF Numbered
<1>2. {v \in Versions : stage[v] # "ABSENT"} = 1 .. n
  BY <1>1, Bounds DEF Versions, Registered
<1>3. Cardinality(1 .. n) = n
  BY <1>1, FS_Interval
<1>4. NextVersion = 1 + n
  BY <1>2, <1>3 DEF NextVersion
<1>5. QED
  BY <1>1, <1>4, Bounds DEF Versions

\* A run leaves alone what the other task knows, because that one is in no run.
LEMMA OtherTask ==
  ASSUME TypeInv, NEW t \in Tasks, at[t] \in Active, NEW u \in Tasks \ {t}, at'[u] = at[u]
  PROVE  RunInv(u)'
  BY DEF TypeInv, RunInv, Active

\* A step of the environment, or of a task outside a run.
LEMMA QuietStep ==
  ASSUME FileInv, UNCHANGED <<stage, pointer, rows>>,
         \A t \in Tasks : \/ at'[t] = at[t] /\ run'[t] = run[t]
                          \/ at'[t] \in {"idle", "waiting", "done"}
  PROVE  FileInv'
<1>1. ASSUME NEW t \in Tasks PROVE RunInv(t)'
  <2>1. CASE at'[t] \in {"idle", "waiting", "done"}
    BY <2>1 DEF RunInv, Active
  <2>2. CASE at'[t] = at[t] /\ run'[t] = run[t]
    <3>1. \A files, target : Script(files, target)' = Script(files, target)
      BY DEF Script, Describe, Switch, Retire, Retires, Registered
    <3>2. RunInv(t)
      BY DEF FileInv
    <3>3. QED
      BY <2>2, <3>1, <3>2 DEF RunInv, Registered
  <2>3. QED
    BY <2>1, <2>2
<1>2. QED
  BY <1>1 DEF FileInv, Numbered, Registered, PointerIsChampion, RecordsAgree

\* What is left to do does not change by itself.
LEMMA ScriptKept ==
  ASSUME NEW files, NEW target, UNCHANGED <<stage, pointer>>, Script(files, target)
  PROVE  Script(files, target)'
  BY DEF Script, Describe, Switch, Retire, Retires, Registered

\* A new version is registered under a number that nothing refers to.
LEMMA TrainStep ==
  ASSUME TypeInv, FileInv, NEW t \in Tasks, Train(t), NEW new, new = NextVersion
  PROVE  FileInv'
<1>1. new \in Versions /\ ~Registered(new) /\ \A v \in Versions : Registered(v) <=> v < new
  BY NextIsFree DEF Train, FileInv
<1>2. rows[new] = "ABSENT" /\ (pointer # 0 => Registered(pointer))
  BY <1>1 DEF FileInv, Numbered, PointerIsChampion, Registered
<1>3. /\ at[t] = "training" /\ at' = [at EXCEPT ![t] = "evaluating"]
      /\ stage' = [stage EXCEPT ![new] = "CHALLENGER"]
      /\ run' = [run EXCEPT ![t].version = new]
      /\ UNCHANGED <<pointer, rows>>
  BY DEF Train, Go
<1>4. Numbered'
  <2>1. new \in 0 .. MaxVersions /\ \A v \in Versions : Registered(v)' <=> v <= new
    BY <1>1, <1>3, Bounds DEF Registered, Versions, TypeInv
  <2>2. \A v \in Versions : Registered(v)' \/ rows'[v] = "ABSENT"
    BY <1>3 DEF FileInv, Numbered, Registered, TypeInv
  <2>3. QED
    BY <2>1, <2>2 DEF Numbered
<1>5. PointerIsChampion' /\ RecordsAgree'
  BY <1>1, <1>2, <1>3 DEF FileInv, PointerIsChampion, RecordsAgree, TypeInv
<1>6. RunInv(t)'
  <2>1. run'[t].version = new /\ run'[t].status = run[t].status /\ at'[t] = "evaluating"
    BY <1>3 DEF TypeInv, Runs
  <2>2. pointer' # new /\ Registered(new)' /\ rows'[new] = "ABSENT"
    BY <1>1, <1>2, <1>3 DEF TypeInv, Registered, Versions
  <2>3. run[t].status = "REJECTED"
    BY <1>3 DEF FileInv, RunInv
  <2>4. QED
    BY <2>1, <2>2, <2>3 DEF RunInv
<1>7. ASSUME NEW u \in Tasks \ {t} PROVE RunInv(u)'
  BY <1>3, OtherTask DEF TypeInv, Active
<1>8. QED
  BY <1>4, <1>5, <1>6, <1>7 DEF FileInv

\* A challenger is accepted while another model, or none, is the champion.
LEMMA AcceptStep ==
  ASSUME TypeInv, FileInv, NEW t \in Tasks, Accept(t),
         NEW version, version = run[t].version,
         NEW champion, champion = pointer,
         NEW files, files = Activation(version, champion)
  PROVE  FileInv'
<1>1. /\ at[t] = "evaluating" /\ at' = [at EXCEPT ![t] = "activating"]
      /\ run' = [run EXCEPT ![t] = [@ EXCEPT !.previous = champion, !.writes = files]]
      /\ UNCHANGED <<stage, pointer, rows>>
  BY DEF Accept, Go, TypeInv
<1>2. /\ Registered(version) /\ rows[version] = "ABSENT" /\ champion # version
      /\ version \in Versions
  BY <1>1 DEF FileInv, RunInv, Active, TypeInv
<1>3. champion # 0 => Registered(champion) /\ rows[champion] \in {"CHAMPION", "ABSENT"}
  BY DEF FileInv, PointerIsChampion, RecordsAgree, Registered
<1>4. Script(files, version)
  <2>1. version # 0
    BY <1>2 DEF Versions
  <2>2. CASE champion = 0
    <3>1. files = <<File(version, "CHAMPION"), File(0, version)>>
      BY <1>2, <2>2 DEF Activation
    <3>2. QED
      BY <2>1, <3>1 DEF Script, Describe
  <2>3. CASE champion # 0
    <3>1. files = <<File(version, "CHAMPION"), File(0, version), File(champion, "RETIRED")>>
      <4>1. /\ File(version, "CHAMPION") \in Files /\ File(0, version) \in Files
            /\ File(champion, "RETIRED") \in Files
        BY <1>2, <2>3 DEF File, Files, Stages, TypeInv
      <4>2. files = <<File(version, "CHAMPION"), File(0, version)>> \o <<File(champion, "RETIRED")>>
        BY <1>2, <2>3 DEF Activation
      <4>3. QED
        BY <4>1, <4>2, ThreeFiles
    <3>2. champion \in Versions \ {version} /\ "RETIRED" \in Stages \ {"ABSENT"}
      BY <1>2, <2>3 DEF TypeInv, Stages
    <3>3. Retires(File(champion, "RETIRED"), version) /\ File(champion, "RETIRED") \in Files
      BY <1>3, <2>3, <3>2 DEF Retires, File, Files
    <3>4. QED
      BY <2>1, <3>1, <3>3 DEF Script, Describe
  <2>4. QED
    BY <2>2, <2>3
<1>5. RunInv(t)'
  <2>1. /\ run'[t].version = version /\ run'[t].previous = champion /\ run'[t].writes = files
        /\ at'[t] = "activating"
    BY <1>1 DEF TypeInv, Runs
  <2>2. Script(files, version)'
    BY <1>1, <1>4, ScriptKept
  <2>3. QED
    BY <1>1, <1>2, <1>3, <2>1, <2>2 DEF RunInv, Registered
<1>6. ASSUME NEW u \in Tasks \ {t} PROVE RunInv(u)'
  BY <1>1, OtherTask DEF TypeInv, Active
<1>7. Numbered' /\ PointerIsChampion' /\ RecordsAgree'
  BY <1>1 DEF FileInv, Numbered, PointerIsChampion, RecordsAgree, Registered
<1>8. QED
  BY <1>5, <1>6, <1>7 DEF FileInv

\* What retires another version still does, as long as it stays registered.
LEMMA RetiresKept ==
  ASSUME NEW target, NEW last, Retires(last, target),
         \A v \in Versions : Registered(v) => Registered(v)'
  PROVE  Retires(last, target)'
  BY DEF Retires

\* One file of a script is replaced: the rest is still a script, no version is lost,
\* and the pointer is on a champion before and after.
LEMMA OneFile ==
  ASSUME TypeInv, PointerIsChampion, NEW target \in Versions \cup {0},
         target # 0 => Registered(target),
         NEW files, files # <<>>, Script(files, target), NEW file, file = Head(files),
         pointer' = IF file.name = 0 THEN file.content ELSE pointer,
         stage' = IF file.name = 0 THEN stage ELSE [stage EXCEPT ![file.name] = file.content]
  PROVE  /\ Script(Tail(files), target)'
         /\ \A v \in Versions : Registered(v)' <=> Registered(v)
         /\ PointerIsChampion'
         /\ pointer' \in {pointer, target}
<1>0. 0 \notin Versions
  BY DEF Versions
<1>1. CASE Describe(files, target)
  <2>1. target \in Versions
    BY <1>1 DEF Describe
  <2>2. file = File(target, "CHAMPION")
    BY <1>1, Heads DEF Describe
  <2>3. stage' = [stage EXCEPT ![target] = "CHAMPION"] /\ pointer' = pointer
    <3>1. file.name = target /\ file.content = "CHAMPION"
      BY <2>2 DEF File
    <3>2. file.name # 0
      BY <1>0, <2>1, <3>1
    <3>3. QED
      BY <3>1, <3>2
  <2>4. \A v \in Versions : Registered(v)' <=> Registered(v)
    BY <2>1, <2>3 DEF Registered, TypeInv
  <2>5. stage'[target] = "CHAMPION"
    BY <2>1, <2>3 DEF TypeInv
  <2>6. Switch(Tail(files), target)'
    <3>1. CASE files = <<File(target, "CHAMPION"), File(0, target)>>
      <4>1. Tail(files) = <<File(0, target)>>
        BY <3>1, Heads
      <4>2. QED
        BY <2>5, <4>1 DEF Switch
    <3>2. ASSUME NEW last \in Files, Retires(last, target),
                 files = <<File(target, "CHAMPION"), File(0, target), last>>
          PROVE  Switch(Tail(files), target)'
      <4>1. Tail(files) = <<File(0, target), last>>
        BY <3>2, Heads
      <4>2. Retires(last, target)'
        BY <2>4, <3>2, RetiresKept
      <4>3. QED
        BY <2>5, <4>1, <4>2 DEF Switch
    <3>3. QED
      BY <1>1, <3>1, <3>2 DEF Describe
  <2>7. PointerIsChampion'
    BY <2>1, <2>3, <2>5 DEF PointerIsChampion, TypeInv
  <2>8. QED
    BY <2>3, <2>4, <2>6, <2>7 DEF Script
<1>2. CASE Switch(files, target)
  <2>1. file = File(0, target)
    BY <1>2, Heads DEF Switch
  <2>2. stage' = stage /\ pointer' = target
    BY <2>1 DEF File
  <2>3. \A v \in Versions : Registered(v)' <=> Registered(v)
    BY <2>2 DEF Registered
  <2>4. Retire(Tail(files), target)'
    <3>1. CASE files = <<File(0, target)>>
      <4>1. Tail(files) = <<>>
        BY <3>1, Heads
      <4>2. QED
        BY <2>2, <4>1 DEF Retire
    <3>2. ASSUME NEW last \in Files, Retires(last, target), files = <<File(0, target), last>>
          PROVE  Retire(Tail(files), target)'
      <4>1. Tail(files) = <<last>>
        BY <3>2, Heads
      <4>2. Retires(last, target)'
        BY <2>3, <3>2, RetiresKept
      <4>3. QED
        BY <2>2, <4>1, <4>2 DEF Retire
    <3>3. QED
      BY <1>2, <3>1, <3>2 DEF Switch
  <2>5. PointerIsChampion'
    BY <1>2, <2>2 DEF Switch, PointerIsChampion
  <2>6. QED
    BY <2>2, <2>3, <2>4, <2>5 DEF Script
<1>3. CASE Retire(files, target)
  <2>1. PICK last \in Files : Retires(last, target) /\ files = <<last>>
    BY <1>3 DEF Retire
  <2>2. PICK v \in Versions \ {target}, s \in Stages \ {"ABSENT"} :
          Registered(v) /\ last = File(v, s)
    BY <2>1 DEF Retires
  <2>3. file = File(v, s) /\ Tail(files) = <<>>
    BY <2>1, <2>2, Heads
  <2>4. stage' = [stage EXCEPT ![v] = s] /\ pointer' = pointer
    <3>1. file.name = v /\ file.content = s
      BY <2>3 DEF File
    <3>2. file.name # 0
      BY <1>0, <3>1
    <3>3. QED
      BY <3>1, <3>2
  <2>5. Retire(Tail(files), target)'
    BY <1>3, <2>3, <2>4 DEF Retire
  <2>6. \A u \in Versions : Registered(u)' <=> Registered(u)
    BY <2>2, <2>4 DEF Registered, TypeInv
  <2>7. PointerIsChampion'
    BY <1>3, <2>2, <2>4 DEF Retire, PointerIsChampion, TypeInv
  <2>8. QED
    BY <2>4, <2>5, <2>6, <2>7 DEF Script
<1>4. QED
  BY <1>1, <1>2, <1>3 DEF Script

\* A file of an activation or a rollback is replaced: what is left is still a script.
LEMMA WriteStep ==
  ASSUME TypeInv, FileInv, NEW t \in Tasks, WriteFile(t),
         NEW files, files = run[t].writes,
         NEW target, target = IF at[t] = "activating" THEN run[t].version ELSE run[t].previous
  PROVE  FileInv'
<1>1. /\ at[t] \in {"activating", "rolling_back"} /\ files # <<>>
      /\ UNCHANGED <<rows, at>>
      /\ run' = [run EXCEPT ![t].writes = Tail(files)]
      /\ pointer' = IF Head(files).name = 0 THEN Head(files).content ELSE pointer
      /\ stage' = IF Head(files).name = 0 THEN stage
                  ELSE [stage EXCEPT ![Head(files).name] = Head(files).content]
  BY DEF WriteFile, TypeInv
<1>2. /\ target \in Versions \cup {0} /\ Script(files, target)
      /\ target # 0 => Registered(target) /\ rows[target] \in {"CHAMPION", "ABSENT"}
  BY <1>1 DEF FileInv, RunInv, TypeInv, Runs, Active
<1>3. /\ Script(Tail(files), target)'
      /\ \A v \in Versions : Registered(v)' <=> Registered(v)
      /\ PointerIsChampion'
      /\ pointer' \in {pointer, target}
  BY <1>1, <1>2, OneFile DEF FileInv
<1>4. Numbered' /\ RecordsAgree'
  BY <1>1, <1>2, <1>3 DEF FileInv, Numbered, RecordsAgree
<1>5. RunInv(t)'
  <2>1. /\ run'[t].version = run[t].version /\ run'[t].previous = run[t].previous
        /\ run'[t].writes = Tail(files) /\ run'[t].status = run[t].status
    BY <1>1 DEF TypeInv, Runs
  <2>2. /\ run[t].version \in Versions
        /\ run[t].previous # 0 => run[t].previous \in Versions
    BY <1>1 DEF TypeInv, Runs, Active
  <2>3. RunInv(t)
    BY DEF FileInv
  <2>4. QED
    BY <1>1, <1>3, <2>1, <2>2, <2>3 DEF RunInv
<1>6. ASSUME NEW u \in Tasks \ {t} PROVE RunInv(u)'
  BY <1>1, OtherTask DEF Active
<1>7. QED
  BY <1>3, <1>4, <1>5, <1>6 DEF FileInv

\* While one task is in a run the others are not, and know nothing.
LEMMA RunStep ==
  ASSUME TypeInv, FileInv, UNCHANGED <<stage, pointer, rows>>, NEW t \in Tasks,
         \A u \in Tasks \ {t} : at'[u] = at[u], at[t] \in Active \/ Unlocked, RunInv(t)'
  PROVE  FileInv'
<1>1. ASSUME NEW u \in Tasks \ {t} PROVE RunInv(u)'
  <2>1. at'[u] \notin Active
    BY DEF TypeInv, Unlocked, Active
  <2>2. QED
    BY <2>1 DEF RunInv, Active
<1>2. QED
  BY <1>1 DEF FileInv, Numbered, Registered, PointerIsChampion, RecordsAgree

\* A run begins with nothing but the count of the labels.
LEMMA BeginStep == ASSUME TypeInv, FileInv, NEW t \in Tasks, Begin(t) PROVE FileInv'
<1>1. at'[t] = "training" /\ run'[t].status = "REJECTED"
  BY DEF Begin, Go, TypeInv, NoRun
<1>2. RunInv(t)'
  BY <1>1 DEF RunInv, Active
<1>3. QED
  BY <1>2, RunStep DEF Begin, Go, TypeInv

\* A challenger that is refused is not the champion.
LEMMA RejectStep == ASSUME TypeInv, FileInv, NEW t \in Tasks, Reject(t) PROVE FileInv'
<1>1. /\ at[t] = "evaluating" /\ at'[t] = "persisting"
      /\ UNCHANGED <<stage, pointer, rows, run>>
  BY DEF Reject, Go, TypeInv
<1>2. RunInv(t)
  BY DEF FileInv
<1>3. RunInv(t)'
  BY <1>1, <1>2 DEF RunInv, Active, Registered
<1>4. QED
  BY <1>1, <1>3, RunStep DEF Reject, Go, TypeInv, Active

\* When nothing of a script is left, the pointer is on its target.
LEMMA ScriptDone == ASSUME NEW target, Script(<<>>, target) PROVE pointer = target
  BY DEF Script, Describe, Switch, Retire

\* The last file of an activation or a rollback is written.
LEMMA FinishStep == ASSUME TypeInv, FileInv, NEW t \in Tasks, FinishFiles(t) PROVE FileInv'
<1>1. /\ at[t] \in {"activating", "rolling_back"}
      /\ at'[t] = IF at[t] = "activating" THEN "checking" ELSE "persisting"
      /\ run[t].writes = <<>>
      /\ UNCHANGED <<stage, pointer, rows, run>>
  BY DEF FinishFiles, Go, TypeInv
<1>2. RunInv(t)
  BY DEF FileInv
<1>3. RunInv(t)'
  <2>1. CASE at[t] = "activating"
    <3>1. pointer = run[t].version
      BY <1>1, <1>2, <2>1, ScriptDone DEF RunInv
    <3>2. QED
      BY <1>1, <1>2, <2>1, <3>1 DEF RunInv, Active, Registered
  <2>2. CASE at[t] = "rolling_back"
    <3>1. pointer = run[t].previous /\ run[t].status = "ROLLED_BACK"
      BY <1>1, <1>2, <2>2, ScriptDone DEF RunInv
    <3>2. QED
      BY <1>1, <1>2, <2>2, <3>1 DEF RunInv, Active, Registered
  <2>3. QED
    BY <1>1, <2>1, <2>2
<1>4. QED
  BY <1>1, <1>3, RunStep DEF FinishFiles, Go, TypeInv, Active

\* A model that is found healthy is the champion.
LEMMA HealthyStep == ASSUME TypeInv, FileInv, NEW t \in Tasks, Healthy(t) PROVE FileInv'
<1>1. /\ at[t] = "checking" /\ at'[t] = "persisting"
      /\ run'[t].version = run[t].version /\ run'[t].status = "PROMOTED"
      /\ UNCHANGED <<stage, pointer, rows>>
  BY DEF Healthy, Go, TypeInv, Runs
<1>2. RunInv(t)
  BY DEF FileInv
<1>3. RunInv(t)'
  BY <1>1, <1>2 DEF RunInv, Active, Registered
<1>4. QED
  BY <1>1, <1>3, RunStep DEF Healthy, Go, TypeInv, Active

\* The files of a rollback lead back to the previous champion, or to none.
LEMMA UnhealthyStep ==
  ASSUME TypeInv, FileInv, NEW t \in Tasks, Unhealthy(t),
         NEW version, version = run[t].version, NEW previous, previous = run[t].previous,
         NEW files, files = Rollback(version, previous)
  PROVE  FileInv'
<1>1. /\ at[t] = "checking" /\ at' = [at EXCEPT ![t] = "rolling_back"]
      /\ run' = [run EXCEPT ![t] = [@ EXCEPT !.status = "ROLLED_BACK", !.writes = files]]
      /\ UNCHANGED <<stage, pointer, rows>>
  BY DEF Unhealthy, Go, TypeInv
<1>2. /\ Registered(version) /\ rows[version] = "ABSENT" /\ previous # version
      /\ previous # 0 => Registered(previous) /\ rows[previous] \in {"CHAMPION", "ABSENT"}
      /\ version \in Versions /\ previous \in Versions \cup {0}
  BY <1>1 DEF FileInv, RunInv, Active, TypeInv, Runs
<1>3. Script(files, previous)
  <2>1. version # 0
    BY <1>2 DEF Versions
  <2>2. ASSUME NEW s \in Stages \ {"ABSENT"} PROVE Retires(File(version, s), previous)
    BY <1>2 DEF Retires
  <2>3. ASSUME NEW s \in Stages PROVE File(version, s) \in Files
    BY <1>2 DEF File, Files
  <2>4. {"RETIRED", "CHALLENGER"} \subseteq Stages \ {"ABSENT"}
    BY DEF Stages
  <2>5. CASE previous = 0
    <3>1. files = <<File(0, previous), File(version, "CHALLENGER")>>
      BY <2>5 DEF Rollback
    <3>2. QED
      BY <2>2, <2>3, <2>4, <2>5, <3>1 DEF Script, Switch
  <2>6. CASE previous # 0
    <3>1. File(previous, "CHAMPION") \in Files /\ File(0, previous) \in Files
      BY <1>2, <2>6 DEF File, Files, Stages
    <3>2. files = <<File(previous, "CHAMPION"), File(0, previous)>> \o <<File(version, "RETIRED")>>
      BY <1>2, <2>1, <2>6 DEF Rollback, Activation
    <3>3. files = <<File(previous, "CHAMPION"), File(0, previous), File(version, "RETIRED")>>
      BY <2>3, <2>4, <3>1, <3>2, ThreeFiles
    <3>4. QED
      BY <2>2, <2>3, <2>4, <2>6, <3>3 DEF Script, Describe
  <2>7. QED
    BY <2>5, <2>6
<1>4. RunInv(t)'
  <2>1. /\ run'[t].version = version /\ run'[t].previous = previous /\ run'[t].writes = files
        /\ run'[t].status = "ROLLED_BACK" /\ at'[t] = "rolling_back"
    BY <1>1 DEF TypeInv, Runs
  <2>2. Script(files, previous)'
    BY <1>1, <1>3, ScriptKept
  <2>3. QED
    BY <1>1, <1>2, <2>1, <2>2 DEF RunInv, Registered
<1>5. QED
  BY <1>1, <1>4, RunStep DEF TypeInv, Active

\* The tables get one champion, which the pointer is on, or a challenger, which it is not on.
LEMMA PersistStep ==
  ASSUME TypeInv, FileInv, NEW t \in Tasks, Persist(t),
         NEW version, version = run[t].version, NEW status, status = run[t].status
  PROVE  FileInv'
<1>1. /\ at[t] = "persisting" /\ rows' = RecordedRows(version, status)
      /\ at'[t] \in {"done", "idle"} /\ \A u \in Tasks \ {t} : at'[u] = at[u]
      /\ UNCHANGED <<stage, pointer>>
  BY DEF Persist, Go, Afterwards, TypeInv
<1>2. /\ version \in Versions /\ Registered(version)
      /\ status = "PROMOTED" <=> pointer = version
  BY <1>1 DEF FileInv, RunInv, TypeInv, Active
<1>3. Numbered'
  BY <1>1, <1>2 DEF FileInv, Numbered, Registered, RecordedRows, OthersRetired, TypeInv
<1>4. RecordsAgree'
  <2>1. CASE status = "PROMOTED"
    <3>1. \A u \in Versions : rows'[u] = "CHAMPION" <=> u = version
      BY <1>1, <2>1 DEF RecordedRows, OthersRetired
    <3>2. QED
      BY <1>1, <1>2, <2>1, <3>1 DEF RecordsAgree
  <2>2. CASE status # "PROMOTED"
    <3>1. rows' = [rows EXCEPT ![version] = "CHALLENGER"]
      BY <1>1, <2>2 DEF RecordedRows
    <3>2. \A u \in Versions : rows'[u] = IF u = version THEN "CHALLENGER" ELSE rows[u]
      BY <3>1 DEF TypeInv
    <3>3. \A u, v \in Versions : rows'[u] = "CHAMPION" /\ rows'[v] = "CHAMPION" => u = v
      BY <3>2 DEF FileInv, RecordsAgree
    <3>4. pointer # 0 => rows'[pointer] \in {"CHAMPION", "ABSENT"}
      <4>1. pointer # version
        BY <1>2, <2>2
      <4>2. pointer # 0 => pointer \in Versions /\ rows[pointer] \in {"CHAMPION", "ABSENT"}
        BY DEF FileInv, RecordsAgree, TypeInv
      <4>3. QED
        BY <3>2, <4>1, <4>2
    <3>5. QED
      BY <1>1, <3>3, <3>4 DEF RecordsAgree
  <2>3. QED
    BY <2>1, <2>2
<1>5. ASSUME NEW u \in Tasks PROVE RunInv(u)'
  <2>1. at'[u] \notin Active
    BY <1>1 DEF TypeInv, Active
  <2>2. QED
    BY <2>1 DEF RunInv, Active
<1>6. QED
  BY <1>1, <1>3, <1>4, <1>5 DEF FileInv, PointerIsChampion

\* Every step keeps files, tables and what runs know of them in agreement.
LEMMA FileStep == TypeInv /\ FileInv /\ [Next]_vars => FileInv'
<1> SUFFICES ASSUME TypeInv, FileInv, [Next]_vars PROVE FileInv'
  OBVIOUS
<1>1. CASE Observe
  BY <1>1, QuietStep DEF Observe
<1>2. CASE StartWeekly
  BY <1>2, QuietStep DEF StartWeekly, Go, TypeInv
<1>3. CASE Look
  BY <1>3, QuietStep DEF Look, Go, TypeInv
<1>4. CASE Crash
  BY <1>4, QuietStep DEF Crash
<1>5. ASSUME NEW t \in Tasks, Task(t) PROVE FileInv'
  <2> USE <1>5
  <2>1. CASE Skip(t)
    BY <2>1, QuietStep DEF Skip, Go, TypeInv
  <2>2. CASE Fail(t)
    BY <2>2, QuietStep DEF Fail, Go, TypeInv
  <2>3. QED
    BY <2>1, <2>2, BeginStep, TrainStep, RejectStep, AcceptStep, WriteStep, FinishStep,
       HealthyStep, UnhealthyStep, PersistStep DEF Task
<1>6. CASE UNCHANGED vars
  BY <1>6, QuietStep DEF vars
<1>7. QED
  BY <1>1, <1>2, <1>3, <1>4, <1>5, <1>6 DEF Next

\* Files, tables and the runs under way agree in every reachable state.
THEOREM FileInvariant == Spec => [](TypeInv /\ FileInv)
<1>1. Init => TypeInv /\ FileInv
  BY InitType, InitFiles
<1>2. TypeInv /\ FileInv /\ [Next]_vars => (TypeInv /\ FileInv)'
  BY StepType, FileStep
<1>3. QED
  BY <1>1, <1>2, PTL DEF Spec

\* The model that champion.json names is registered as the champion, however a run is
\* interrupted.
THEOREM ChampionLoadable == Spec => []PointerIsChampion
<1>1. FileInv => PointerIsChampion
  BY DEF FileInv
<1>2. QED
  BY <1>1, FileInvariant, PTL

\* The tables never contradict the files.
THEOREM TablesAgree == Spec => []RecordsAgree
<1>1. FileInv => RecordsAgree
  BY DEF FileInv
<1>2. QED
  BY <1>1, FileInvariant, PTL
-----------------------------------------------------------------------------
(* The labels *)

\* What a run has counted when it began is enough after the last recorded run.
CountInv ==
  /\ NewPointsBetweenRuns
  /\ \A t \in Tasks : at[t] \in Active /\ runs # <<>> =>
       run[t].samples - runs[Len(runs)].samples >= MinNew

\* A step that records nothing, and begins a run only after enough new labels.
LEMMA CountKept ==
  ASSUME CountInv, runs' = runs,
         \A t \in Tasks : at'[t] \in Active =>
           \/ at[t] \in Active /\ run'[t].samples = run[t].samples
           \/ runs # <<>> => run'[t].samples - runs[Len(runs)].samples >= MinNew
  PROVE  CountInv'
  BY DEF CountInv, NewPointsBetweenRuns

\* The outcome of a run is recorded with the labels that it has counted.
LEMMA CountRecorded ==
  ASSUME TypeInv, CountInv, NEW t \in Tasks, Persist(t) PROVE CountInv'
<1> DEFINE entry == [samples |-> run[t].samples, status |-> run[t].status]
<1>1. /\ at[t] = "persisting" /\ runs' = Append(runs, entry)
      /\ at'[t] \in {"done", "idle"} /\ \A u \in Tasks \ {t} : at'[u] = at[u]
  BY DEF Persist, Go, Afterwards, TypeInv
<1>2. /\ runs \in Seq([samples : Nat, status : Statuses])
      /\ entry \in [samples : Nat, status : Statuses]
  BY DEF TypeInv, Runs
<1>3. runs # <<>> => run[t].samples - runs[Len(runs)].samples >= MinNew
  BY <1>1 DEF CountInv, Active
<1>4. entry.samples = run[t].samples
  OBVIOUS
<1> HIDE DEF entry
<1>5. /\ Len(runs') = Len(runs) + 1 /\ runs'[Len(runs) + 1] = entry /\ Len(runs) \in Nat
      /\ \A i \in 1 .. Len(runs) : runs'[i] = runs[i]
      /\ Len(runs) > 0 => runs # <<>>
  BY <1>1, <1>2
<1>6. NewPointsBetweenRuns'
  <2> SUFFICES ASSUME NEW i \in 1 .. Len(runs') - 1
               PROVE  runs'[i + 1].samples - runs'[i].samples >= MinNew
    BY DEF NewPointsBetweenRuns
  <2>1. CASE i = Len(runs)
    BY <1>3, <1>4, <1>5, <2>1
  <2>2. CASE i # Len(runs)
    <3>1. i \in 1 .. Len(runs) - 1
      BY <1>5, <2>2
    <3>2. runs'[i] = runs[i] /\ runs'[i + 1] = runs[i + 1]
      BY <1>5, <3>1
    <3>3. QED
      BY <3>1, <3>2 DEF CountInv, NewPointsBetweenRuns
  <2>3. QED
    BY <2>1, <2>2
<1>7. \A u \in Tasks : at'[u] \notin Active
  BY <1>1 DEF TypeInv, Active
<1>8. QED
  BY <1>6, <1>7 DEF CountInv

\* Every step keeps the count.
LEMMA CountStep == TypeInv /\ CountInv /\ [Next]_vars => CountInv'
<1> SUFFICES ASSUME TypeInv, CountInv, [Next]_vars PROVE CountInv'
  OBVIOUS
<1>1. CASE Observe
  BY <1>1, CountKept DEF Observe
<1>2. CASE StartWeekly
  BY <1>2, CountKept DEF StartWeekly, Go, TypeInv, Active
<1>3. CASE Look
  BY <1>3, CountKept DEF Look, Go, TypeInv, Active
<1>4. CASE Crash
  BY <1>4, CountKept DEF Crash, Active
<1>5. ASSUME NEW t \in Tasks, Task(t) PROVE CountInv'
  <2> USE <1>5
  <2>1. CASE Skip(t)
    BY <2>1, CountKept DEF Skip, Go, TypeInv, Active
  <2>2. CASE Begin(t)
    <3>1. run'[t].samples = labeled /\ at'[t] = "training"
      BY <2>2 DEF Begin, Go, TypeInv, NoRun
    <3>2. runs # <<>> => run'[t].samples - runs[Len(runs)].samples >= MinNew
      BY <2>2, <3>1 DEF Begin, EnoughNew
    <3>3. \A u \in Tasks \ {t} : at'[u] = at[u] /\ run'[u] = run[u]
      BY <2>2 DEF Begin, Go, TypeInv
    <3>4. QED
      BY <2>2, <3>2, <3>3, CountKept DEF Begin
  <2>3. CASE Fail(t)
    BY <2>3, CountKept DEF Fail, Go, TypeInv, Active
  <2>4. CASE Persist(t)
    BY <2>4, CountRecorded
  <2>5. CASE Train(t)
    BY <2>5, CountKept DEF Train, Go, TypeInv, Active, Runs
  <2>6. CASE Reject(t)
    BY <2>6, CountKept DEF Reject, Go, TypeInv, Active
  <2>7. CASE Accept(t)
    <3>1. \A u \in Tasks : run'[u].samples = run[u].samples
      BY <2>7 DEF Accept, TypeInv, Runs
    <3>2. QED
      BY <2>7, <3>1, CountKept DEF Accept, Go, TypeInv, Active
  <2>8. CASE WriteFile(t)
    <3>1. \A u \in Tasks : run'[u].samples = run[u].samples
      BY <2>8 DEF WriteFile, TypeInv, Runs
    <3>2. QED
      BY <2>8, <3>1, CountKept DEF WriteFile
  <2>9. CASE FinishFiles(t)
    BY <2>9, CountKept DEF FinishFiles, Go, TypeInv, Active
  <2>10. CASE Healthy(t)
    BY <2>10, CountKept DEF Healthy, Go, TypeInv, Active, Runs
  <2>11. CASE Unhealthy(t)
    <3>1. \A u \in Tasks : run'[u].samples = run[u].samples
      BY <2>11 DEF Unhealthy, TypeInv, Runs
    <3>2. QED
      BY <2>11, <3>1, CountKept DEF Unhealthy, Go, TypeInv, Active
  <2>12. QED
    BY <2>1, <2>2, <2>3, <2>4, <2>5, <2>6, <2>7, <2>8, <2>9, <2>10, <2>11 DEF Task
<1>6. CASE UNCHANGED vars
  BY <1>6, CountKept DEF vars
<1>7. QED
  BY <1>1, <1>2, <1>3, <1>4, <1>5, <1>6 DEF Next

\* However the weekly job and the bootstrap task start their runs, two recorded ones are
\* MinNew labels apart.
THEOREM RunsSpaced == Spec => []NewPointsBetweenRuns
<1>1. Init => CountInv
  BY DEF Init, CountInv, NewPointsBetweenRuns
<1>2. TypeInv /\ CountInv /\ [Next]_vars => (TypeInv /\ CountInv)'
  BY StepType, CountStep
<1>3. CountInv => NewPointsBetweenRuns
  BY DEF CountInv
<1>4. QED
  BY <1>1, <1>2, <1>3, InitType, PTL DEF Spec

\* The division of n points, without \div.
LEMMA SplitBounds ==
  ASSUME NEW n \in Nat
  PROVE  Split(n) \in Nat /\ 5 * Split(n) <= 4 * n /\ 4 * n < 5 * Split(n) + 5
  BY DEF Split

\* More points are not divided earlier.
LEMMA SplitMonotone ==
  ASSUME NEW m \in Nat, NEW n \in Nat, m <= n PROVE Split(m) <= Split(n)
  BY SplitBounds

\* If there is a point before the purged cut, there is one before the cut of the whole.
LEMMA TrainingPositive ==
  ASSUME NEW n \in Nat
  PROVE  Training(n) \in Nat /\ (Training(n) > 0 => n > 0 /\ Split(n) > Horizon)
<1>1. Split(n) \in Nat /\ 5 * Split(n) <= 4 * n
  BY SplitBounds
<1>2. Training(n) = IF Split(n) > Horizon THEN Split(n) - Horizon ELSE 0
  BY DEF Training, Purged
<1>3. CASE Split(n) > Horizon
  BY <1>1, <1>2, <1>3, HorizonAssumption
<1>4. CASE ~(Split(n) > Horizon)
  BY <1>2, <1>4
<1>5. QED
  BY <1>3, <1>4

\* A model that could be trained has seen labels up to the first test point, no further.
LEMMA SeenBeforeTest ==
  ASSUME NEW n \in Nat, Divisible(n) PROVE LastSeen(n) = Split(n)
<1>1. ModelTraining(n) \in Nat /\ Training(n) \in Nat
  BY TrainingPositive DEF ModelTraining
<1>2. ModelTraining(n) > 0
  BY <1>1, SplitBounds, HorizonAssumption DEF Divisible, Fitted, Purged
<1>3. Training(n) > 0
  BY <1>1, <1>2, TrainingPositive DEF ModelTraining
<1>4. Split(n) > Horizon
  BY <1>3, TrainingPositive
<1>5. QED
  BY <1>4, SplitBounds, HorizonAssumption DEF LastSeen, LabelKnown, Training, Purged

\* No model has seen a label later than the cut of the points there are.
LearnedInv == \A v \in Versions : learned[v] <= Split(labeled)

\* Every step keeps that: labels only arrive, and a new model is trained before the cut.
LEMMA LearnedStep == TypeInv /\ LearnedInv /\ [Next]_vars => LearnedInv'
<1> SUFFICES ASSUME TypeInv, LearnedInv, [Next]_vars PROVE LearnedInv'
  OBVIOUS
<1>1. CASE Observe
  <2>1. labeled \in Nat /\ labeled' \in Nat /\ labeled <= labeled' /\ learned' = learned
    BY <1>1 DEF Observe, TypeInv
  <2>2. Split(labeled) <= Split(labeled') /\ Split(labeled) \in Nat /\ Split(labeled') \in Nat
    BY <2>1, SplitMonotone, SplitBounds
  <2>3. QED
    BY <2>1, <2>2 DEF LearnedInv, TypeInv
<1>2. ASSUME NEW t \in Tasks, Train(t) PROVE LearnedInv'
  <2>1. /\ labeled \in Nat /\ labeled' = labeled
        /\ learned' = [learned EXCEPT ![NextVersion] = LastSeen(labeled)]
    BY <1>2 DEF Train, TypeInv
  <2>2. LastSeen(labeled) = Split(labeled) /\ Split(labeled) \in Nat
    BY <1>2, <2>1, SeenBeforeTest, SplitBounds DEF Train
  <2>3. \A v \in Versions : learned'[v] = learned[v] \/ learned'[v] = Split(labeled)
    BY <2>1, <2>2 DEF TypeInv
  <2>4. QED
    BY <2>1, <2>2, <2>3 DEF LearnedInv
<1>3. CASE UNCHANGED <<labeled, learned>>
  BY <1>3 DEF LearnedInv
<1>4. CASE StartWeekly \/ Look \/ Crash \/ UNCHANGED vars
  BY <1>3, <1>4 DEF StartWeekly, Look, Crash, vars
<1>5. ASSUME NEW t \in Tasks, Task(t), ~Train(t) PROVE LearnedInv'
  BY <1>3, <1>5 DEF Task, Skip, Begin, Reject, Accept, WriteFile, FinishFiles, Healthy,
     Unhealthy, Persist, Fail
<1>6. QED
  BY <1>1, <1>2, <1>4, <1>5 DEF Next

\* However many labels arrive between training and evaluation, no model is tested on a
\* point whose label, or a later one, it has seen.
THEOREM NoLeakage == Spec => []TestedOnUnseen
<1>1. Init => LearnedInv
  BY Bounds, SplitBounds DEF Init, LearnedInv
<1>2. TypeInv /\ LearnedInv /\ [Next]_vars => (TypeInv /\ LearnedInv)'
  BY StepType, LearnedStep
<1>3. TypeInv /\ LearnedInv => TestedOnUnseen
  <2> SUFFICES ASSUME TypeInv, LearnedInv, NEW t \in Tasks,
                      NEW v \in {run[t].version, pointer} \ {0}
               PROVE  learned[v] < Split(labeled) + 1
    BY DEF TestedOnUnseen
  <2>1. v \in Versions
    BY DEF TypeInv, Runs
  <2>2. learned[v] \in Nat /\ Split(labeled) \in Nat
    BY <2>1, SplitBounds DEF TypeInv
  <2>3. QED
    BY <2>1, <2>2 DEF LearnedInv
<1>4. QED
  BY <1>1, <1>2, <1>3, InitType, PTL DEF Spec
=============================================================================
