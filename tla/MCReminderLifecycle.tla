------------------------ MODULE MCReminderLifecycle ------------------------
(* Model values, symmetry and bounds for checking ReminderLifecycle.       *)
EXTENDS ReminderLifecycle, TLC

Symmetry == Permutations(Reminder) \union Permutations(Request)
=============================================================================
