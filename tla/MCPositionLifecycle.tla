------------------------ MODULE MCPositionLifecycle ------------------------
(* Values for TLC: fault budgets of the runs of PositionLifecycle.         *)
EXTENDS PositionProperties, FiniteSets

OneOf(kinds) ==
    [f \in Faults |-> IF f = "any" THEN Cardinality(kinds) ELSE IF f \in kinds THEN 1 ELSE 0]

\* Four of these five: failed calls, lost replies, failed saves, crashes and dying exit groups.
DurabilityBudget == [OneOf({"api", "lost", "save", "crash", "dead"}) EXCEPT !["any"] = 4]

\* Everything the broker can do, and a crash.
ProgressBudget == OneOf({"crash", "dead", "legs", "track", "both"})

\* A dying exit group and a crash.
TornBudget == OneOf({"crash", "dead"})

\* A process and a broker that never fail.
NoFaults == OneOf({})
===========================================================================
