---------------------------- MODULE PortfolioRisk ----------------------------
(***************************************************************************)
(* PortfolioRiskEngine.evaluate of src/risk/engine.py: what the book says  *)
(* of one more entry.  Money is in whole dollars and a limit in percent.   *)
(* Which names have enough history of returns, and which of those move     *)
(* together, is all that the engine makes of the returns.                  *)
(***************************************************************************)
EXTENDS Integers, Sequences, SequencesExt, FiniteSets, FiniteSetsExt, Functions

CONSTANTS
    MaxGross, MaxSingle, MaxHeat,   \* caps, in percent of equity
    MaxCluster,                     \* soft cap on names that move together
    MaxDrawdown                     \* the drop from the peak that halts entries

ASSUME RiskAssumption ==
    {MaxGross, MaxSingle, MaxHeat, MaxCluster, MaxDrawdown} \subseteq Nat

Unknown == -1    \* no equity high-water mark

\* An amount against a limit, in percent of equity
Exceeds(amount, limit, equity) == amount * 100 > limit * equity

ValueOf(names) == FoldSeq(LAMBDA n, sum : n.value + sum, 0, names)
RiskOf(names)  == FoldSeq(LAMBDA n, sum : n.risk + sum, 0, names)

\* _drawdown, as a test against a limit that 0 disables
Halted(equity, peak) ==
    /\ MaxDrawdown > 0 /\ peak > equity
    /\ (peak - equity) * 100 >= MaxDrawdown * peak

---------------------------------------------------------------------------
(* _cluster_weight: union-find over the candidate and the holdings.        *)

\* The candidate and the holdings with enough history, as a function: the candidate is
\* node 0, a holding is known by its place among the holdings.
Nodes(candidate, holdings, history) ==
    [k \in {0} \cup {h \in DOMAIN holdings : holdings[h].ticker \in history} |->
        IF k = 0 THEN candidate ELSE holdings[k]]

\* average_correlation of two names at or above the threshold
Correlated(a, b, alike) == a.ticker = b.ticker \/ {a.ticker, b.ticker} \in alike

\* find; compressing paths moves no root
Find(parent, x) ==
    LET root[y \in DOMAIN parent] == IF parent[y] = y THEN y ELSE root[parent[y]]
    IN  root[x]

\* Mutant: nodes are linked instead of their roots.
UnionOfNodes(parent, i, j) == [parent EXCEPT ![i] = j]

Union(parent, i, j) == [parent EXCEPT ![Find(parent, i)] = Find(parent, j)]

\* Two nodes that are linked
Linked(nodes, alike, i, j) == {i, j} \subseteq DOMAIN nodes /\ Correlated(nodes[i], nodes[j], alike)

\* The inner loop: node i with each one after it, of nodes up to n
Row(nodes, alike, n, parent, i) ==
    LET row[j \in i..n] == IF j = i THEN parent
                           ELSE IF Linked(nodes, alike, i, j) THEN Union(row[j - 1], i, j)
                           ELSE row[j - 1]
    IN  row[n]

\* The outer loop: the nodes before i have had their turn in forest[i].
Forest(nodes, alike, n) ==
    LET forest[i \in 0..(n + 1)] == IF i = 0 THEN [k \in DOMAIN nodes |-> k]
                                    ELSE Row(nodes, alike, n, forest[i - 1], i - 1)
    IN  forest[n + 1]

\* The candidate's component
Members(nodes, alike, n) ==
    LET parent == Forest(nodes, alike, n)
    IN  {k \in DOMAIN nodes : Find(parent, k) = Find(parent, 0)}

ValueAmong(nodes, S) == SumFunctionOnSet([k \in DOMAIN nodes |-> nodes[k].value], S)

\* Without a history the candidate is a cluster of its own.
ClusterValue(candidate, holdings, history, alike) ==
    LET nodes == Nodes(candidate, holdings, history)
    IN  IF candidate.ticker \notin history THEN candidate.value
        ELSE ValueAmong(nodes, Members(nodes, alike, Len(holdings)))

---------------------------------------------------------------------------
(* evaluate.                                                               *)

Approved(candidate) == [action |-> "approve", shares |-> candidate.shares]
Veto               == [action |-> "veto", shares |-> 0]

\* A breach of the hard limits
Breach(candidate, holdings, equity, peak) ==
    \/ Halted(equity, peak)
    \/ Exceeds(ValueOf(holdings) + candidate.value, MaxGross, equity)
    \/ Exceeds(candidate.value, MaxSingle, equity)
    \/ Exceeds(RiskOf(holdings) + candidate.risk, MaxHeat, equity)

\* What the cluster has room for, in hundredths; what is short in it makes no room.
Room(candidate, cluster, equity) ==
    LET existing == cluster - candidate.value
    IN  MaxCluster * equity - (IF existing > 0 THEN existing * 100 ELSE 0)

Evaluate(candidate, holdings, history, alike, equity, peak) ==
    LET cluster == ClusterValue(candidate, holdings, history, alike)
        room    == Room(candidate, cluster, equity)
        scaled  == room \div (100 * candidate.price)
        sound   == equity > 0 /\ ~Breach(candidate, holdings, equity, peak)
        crowded == MaxCluster > 0 /\ Exceeds(cluster, MaxCluster, equity)
        full    == room <= 0 \/ candidate.price <= 0
    IN  CASE equity <= 0 -> Approved(candidate)
          [] equity > 0 /\ ~sound -> Veto
          [] sound /\ crowded /\ full -> Veto
          [] sound /\ crowded /\ ~full /\ scaled < candidate.shares ->
                [action |-> "scale_down", shares |-> scaled]
          [] OTHER -> Approved(candidate)
===========================================================================
