---------------------------- MODULE MoversAlerts ----------------------------
(***************************************************************************)
(* The two alerters of the movers worker and their de-duplication:         *)
(*                                                                         *)
(*   src/scanner/movers_alerts.py       MoversAlerter.process              *)
(*   src/catalysts/catalyst_alerts.py   CatalystAlerter.poll               *)
(*                                                                         *)
(* A subject is what an alerter de-duplicates by: (ticker, direction) for  *)
(* a mover, (symbol, title) for a story.  There is one of each per name.   *)
(***************************************************************************)
EXTENDS Naturals, FiniteSets, Sequences, SequencesExt

CONSTANTS
    Names,
    DedupTtl,    \* *_ALERTS_DEDUP_TTL_SEC
    MaxPerRun,   \* *_ALERTS_MAX_PER_RUN
    MaxTime      \* the clock stops here

ASSUME AlertsAssumption ==
    IsFiniteSet(Names) /\ DedupTtl \in Nat /\ MaxPerRun \in Nat /\ MaxTime \in Nat

Times   == 0..MaxTime
Never   == MaxTime + 1
Sources == {"movers", "catalyst"}
NoMarks == [n \in Names |-> Never]

VARIABLES
    clock,
    recent,   \* _recent of each alerter; Never when absent
    told      \* history: when this process last sent an alert about the name

alertVars == <<recent, told>>

AlertsInit ==
    /\ clock = 0
    /\ recent = [s \in Sources |-> NoMarks]
    /\ told = [s \in Sources |-> NoMarks]

\* Mutant: marks are forgotten before their time to live ends.
PrunedEarly(marks) ==
    [n \in Names |-> IF marks[n] # Never /\ marks[n] >= clock THEN marks[n] ELSE Never]

\* Forget marks past their time to live.
Pruned(marks) ==
    [n \in Names |-> IF marks[n] # Never /\ marks[n] + DedupTtl >= clock THEN marks[n] ELSE Never]

AlreadyAlerted(marks, n) == marks[n] # Never /\ clock - marks[n] < DedupTtl

\* The elements of a sequence at a set of its positions, in their order.
Ascending(set) ==
    CHOOSE f \in [1..Cardinality(set) -> set] : \A i, j \in DOMAIN f : i < j => f[i] < f[j]
Chosen(s, set) == LET order == Ascending(set) IN [i \in DOMAIN order |-> s[order[i]]]

\* Of the names in the order they are offered, those that alert: the first that the
\* cap lets through among those neither held back nor alerted recently.
Firing(marks, offered, held) ==
    LET due == Chosen(offered, {i \in DOMAIN offered :
                                   offered[i] \notin held /\ ~AlreadyAlerted(marks, offered[i])})
    IN  SubSeq(due, 1, IF Len(due) < MaxPerRun THEN Len(due) ELSE MaxPerRun)

Marked(marks, fired) == [n \in Names |-> IF n \in Range(fired) THEN clock ELSE marks[n]]

\* A run of alerter s that sends `fired`.  An alert is marked once it was handed to
\* the sender, which never raises, whether or not it was delivered.
Send(s, fired) ==
    /\ recent' = [recent EXCEPT ![s] = Marked(Pruned(@), fired)]
    /\ told' = [told EXCEPT ![s] = Marked(@, fired)]

\* The orders in which names can be offered.
Offers == {o \in SeqOf(Names, Cardinality(Names)) : IsInjective(o)}

\* The process is gone: another starts with no marks.
ForgetAlerts ==
    /\ recent' = [s \in Sources |-> NoMarks]
    /\ told' = [s \in Sources |-> NoMarks]

===========================================================================
