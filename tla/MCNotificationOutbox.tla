------------------------ MODULE MCNotificationOutbox ------------------------
(* Instances of NotificationOutbox for TLC. *)
EXTENDS NotificationOutbox
=============================================================================
