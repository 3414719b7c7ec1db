----------------------------- MODULE Partitions -----------------------------
(***************************************************************************)
(* How the labeled points are divided for training and evaluation           *)
(* (models/dataset.py, models/training.py).  Points are numbered from 1 in  *)
(* the order of time and stand one interval apart; the label of a point is  *)
(* known Horizon intervals later, which is also the embargo.                *)
(***************************************************************************)
EXTENDS Integers

CONSTANT Horizon  \* horizon_duration, in intervals

ASSUME HorizonAssumption == Horizon \in Nat \ {0}

\* Points before the test part, and before the calibration part: int(n * (1 - 0.2)).
Split(n) == (4 * n) \div 5

\* (mutant) bisect_right: the point at the cutoff is kept.
PurgedToCutoff(split) == IF split > Horizon THEN split - Horizon + 1 ELSE 0

\* The last point whose label ends before the given one: bisect_left on the cutoff.
Purged(split) == IF split > Horizon THEN split - Horizon ELSE 0

\* chronological_train_test: training is 1 .. Training(n), test Split(n) + 1 .. n.
Training(n) == Purged(Split(n))

\* _model_training_partitions: the thresholds are validated on the test part of the
\* training part.
ModelTraining(n) == Training(Training(n))

\* train_ensemble: what the classifiers are fitted on; the calibrator gets
\* Split(ModelTraining(n)) + 1 .. ModelTraining(n).
Fitted(n) == Purged(Split(ModelTraining(n)))

\* Otherwise one of the three divisions raises.
Divisible(n) == Fitted(n) > 0

LabelKnown(point) == point + Horizon

\* The last label that fit, calibration or threshold of a model have seen.
LastSeen(n) == LabelKnown(Training(n))

\* chronological_windows: the bounds of window i of the first `samples` points.
WindowFrom(samples, count, i) == (samples * (i - 1)) \div count + 1
WindowTo(samples, count, i) == (samples * i) \div count
=============================================================================
