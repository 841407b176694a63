---------------------------- MODULE MCSharedState ----------------------------
(* Values for TLC.  The peak is watched with two dashboard requests and one *)
(* book; the cluster with the gate alone, a book of three names in two      *)
(* orders, once with one held short, and every way in which they and a      *)
(* candidate may move together.                                             *)
EXTENDS SharedState, TLC

Interchangeable == Permutations(Executors)

EquitiesValue   == {80, 90, 100}
CandidatesValue == {[ticker |-> "a", value |-> 12, risk |-> 3, shares |-> 4, price |-> 3]}

Names == {"a", "b", "c", "d"}
Holding(t, v) == [ticker |-> t, value |-> v, risk |-> 0]
ThreeHeld == {<<Holding("b", 10), Holding("c", 12), Holding("d", 15)>>,
              <<Holding("d", 15), Holding("b", -4), Holding("c", 12)>>}

PeakScene == [book |-> <<Holding("b", 10)>>, alike |-> {}, histories |-> {{}},
              processes |-> GateProcesses]
ClusterScenes ==
    [book : ThreeHeld, alike : SUBSET kSubset(2, Names),
     histories : {{{}, Names, Names \ {"c"}}}, processes : {Gates}]
ScenesValue == {PeakScene} \cup ClusterScenes
===========================================================================
