---------------------------- MODULE MoversMonitor ----------------------------
(***************************************************************************)
(* MoversMonitor of src/scanner/movers_monitor.py: the watch set, a dict   *)
(* in insertion order, bounded by a cap and by the trading day.            *)
(***************************************************************************)
EXTENDS MoversAlerts

CONSTANTS
    MaxWatch,   \* MOVERS_MONITOR_MAX_WATCH
    DayLength   \* ticks in a trading day

ASSUME MonitorAssumption == MaxWatch \in Nat /\ DayLength \in Nat \ {0}

Day(t)     == t \div DayLength
Days       == {Day(t) : t \in Times}
NoSession  == MaxTime + 1
WatchState == [name : Names, status : {"watching", "invalidated"}, seen : Times]

VARIABLES
    watch,     \* _watch
    session    \* _session

monitorVars == <<watch, session>>

MonitorInit == watch = <<>> /\ session = NoSession

\* The watch set once _roll_session has looked at the day
Rolled ==
    IF session # NoSession /\ Day(clock) # session THEN <<>> ELSE watch

\* Mutant: an evaluation does not look at the day.
RolledNever == watch

\* In front of an evaluation.
RolledToEvaluate == Rolled

Active(set) == {w \in Range(set) : w.status = "watching"}

\* How many names are too many
Excess(set) == IF Len(set) > MaxWatch THEN Len(set) - MaxWatch ELSE 0

\* _enforce_cap drops as many as are too many: the first of the invalidated ones, and then
\* the oldest.
DropGone(set) ==
    LET gone == {i \in DOMAIN set : set[i].status # "watching"}
    IN  Chosen(set, {i \in DOMAIN set :
                        i \in gone => Cardinality({k \in gone : k < i}) >= Excess(set)})

DropOldest(set) == SubSeq(set, Excess(set) + 1, Len(set))

EnforceCap(set) == IF MaxWatch = 0 THEN set ELSE DropOldest(DropGone(set))

\* Only names without an entry are added: an invalidated one stays invalidated.
NewStates(names) ==
    Chosen([i \in DOMAIN names |-> [name |-> names[i], status |-> "watching", seen |-> clock]],
           {i \in DOMAIN names : \A w \in Range(Rolled) : w.name # names[i]})

Watch(names) ==
    /\ \E grown \in {Rolled \o NewStates(names)} : watch' = EnforceCap(grown)
    /\ session' = Day(clock)

\* Each name on watch is refreshed.  One that cannot be, or is halted, is held; any
\* other may break a rule, unless the monitor is switched off.
Evaluate(enabled) ==
    LET now == RolledToEvaluate
        on  == {i \in DOMAIN now : now[i].status = "watching"}
    IN  \E broken \in SUBSET (IF enabled THEN on ELSE {}) :
           /\ watch' = [i \in DOMAIN now |->
                          IF i \in broken THEN [now[i] EXCEPT !.status = "invalidated"] ELSE now[i]]
           /\ session' = Day(clock)

ForgetWatch == watch' = <<>> /\ session' = NoSession

===========================================================================
