--------------------------- MODULE MCCoordination ---------------------------
(***************************************************************************)
(* Instances of Coordination for TLC.                                      *)
(***************************************************************************)
EXTENDS Coordination

CONSTANTS lead, specialist

\* Two tasks of one agent, the second of which waits for the first; and one of another.
McAgents    == {lead, specialist}
OneAgent    == {lead}
TwoTasks    == 1..2
TwoOfOne    == [t \in TwoTasks |-> lead]
Independent == [t \in TwoTasks |-> {}]

ThreeTasks  == 1..3
TwoAndOne   == [t \in ThreeTasks |-> IF t = 3 THEN specialist ELSE lead]
LastWaits   == [t \in ThreeTasks |-> IF t = 3 THEN {1} ELSE {}]

Corrections == {"pending", "running", "cancelled"}
NotPending  == TaskStatuses \ {"pending"}
=============================================================================
