------------------------ MODULE MCNotificationQueue -------------------------
(***************************************************************************)
(* Constants for NotificationQueue.                                        *)
(***************************************************************************)
EXTENDS NotificationQueue, TLC

Symmetry == Permutations(Workers) \cup Permutations(Notifs \ Webhooks)
=============================================================================
