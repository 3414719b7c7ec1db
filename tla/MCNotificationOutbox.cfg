SPECIFICATION FairSpec
CONSTANTS
  enter = enter
  leave = leave
  s1 = s1
  s2 = s2
  Notices = {enter, leave}
  Priority <- Urgency
  Senders = {s1, s2}
  BatchLimit = 2
  MaxAttempts = 2
  MaxAborts = 2
INVARIANT DeliveriesAccounted
PROPERTY OutcomeIsFinal
PROPERTY PendingEnds
