------------------------------ MODULE OncePerTtl ------------------------------
(***************************************************************************)
(* What an alerter promises: it tells of a subject at most once per time   *)
(* to live, and of at most Cap subjects per run.  Told alerts are          *)
(* forgotten only when the process that sent them has died.                *)
(***************************************************************************)
EXTENDS Naturals, FiniteSets

CONSTANTS Subjects, Ttl, Cap, Untold

VARIABLES
    time,
    told     \* when each subject was last told of; Untold when it was not

vars == <<time, told>>

Init == time \in Nat /\ told = [s \in Subjects |-> Untold]

Due(s) == told[s] = Untold \/ time - told[s] >= Ttl

Tell ==
    \E S \in SUBSET Subjects :
        /\ \A s \in S : Due(s)
        /\ Cardinality(S) <= Cap
        /\ told' = [s \in Subjects |-> IF s \in S THEN time ELSE told[s]]
        /\ UNCHANGED time

\* Time passes, and the process may have been replaced meanwhile.
Pass ==
    /\ time' \in Nat /\ time' >= time
    /\ told' \in {told, [s \in Subjects |-> Untold]}

Next == Tell \/ Pass

Spec == Init /\ [][Next]_vars

===========================================================================
