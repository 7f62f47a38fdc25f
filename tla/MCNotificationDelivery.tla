---------------------- MODULE MCNotificationDelivery ----------------------
(* Model values, symmetry and bounds for checking NotificationDelivery.    *)
EXTENDS NotificationDelivery, TLC

Symmetry == Permutations(Notification) \union Permutations(Scheduler)
                \union Permutations(Worker)
=============================================================================
