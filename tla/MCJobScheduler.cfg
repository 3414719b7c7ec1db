SPECIFICATION FairSpec
CONSTANTS
  s1 = s1
  s2 = s2
  Schedulers = {s1, s2}
  Jobs <- TwoJobs
  Definition <- Plan
  MaxTime = 5
  MaxCrashes = 1
INVARIANT OnSchedule
INVARIANT OneHandlerPerLease
INVARIANT SucceedsOnce
PROPERTY ClaimedUntilSucceeded
PROPERTY DueIsClaimed
