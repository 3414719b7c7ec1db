--------------------------- MODULE MCJobScheduler ---------------------------
(***************************************************************************)
(* An instance of JobScheduler: a frequent job with a short lease and a     *)
(* rarer one, as orderbook-retention and weekly-retraining.                 *)
(***************************************************************************)
EXTENDS JobScheduler

CONSTANTS s1, s2

TwoJobs == <<"retention", "retraining">>

Plan ==
  [j \in Names |->
     IF j = "retention"
       THEN [first |-> 0, interval |-> 2, retry_delay |-> 1, lease_duration |-> 2]
       ELSE [first |-> 1, interval |-> 5, retry_delay |-> 1, lease_duration |-> 3]]
=============================================================================
