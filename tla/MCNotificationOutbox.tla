------------------------ MODULE MCNotificationOutbox ------------------------
(* Model values for NotificationOutbox: two notices, two delivery loops on one table. *)
EXTENDS NotificationOutbox

CONSTANTS enter, leave, s1, s2

\* SignalService.record: a CLOSE precedes an entry.
Urgency == [n \in Notices |-> IF n = leave THEN 10 ELSE 5]
=============================================================================
