---------------------------- MODULE MCTaskManager ----------------------------
(* Model values, filters and a constraint for the runs of TaskManager. *)
EXTENDS TaskManager, TLC

CONSTANTS t1, t2, t3

AllEvents == {{}}
\* all events, or only the one of a success: a failure then ends unheard
SomeEvents == {{}, {"completed"}}

\* t2 and t3 play the same part in everything: t3 need not be tried first
T2First == Unused(t2) => Unused(t3)
=============================================================================
